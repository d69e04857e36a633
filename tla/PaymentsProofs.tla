--------------------------- MODULE PaymentsProofs ---------------------------
(***************************************************************************)
(* Proofs about Payments for any number of requests, readers, keys,        *)
(* payments, retries, failures and restarts, and for every price.          *)
(*                                                                         *)
(* Readers: a call that settles has been shown a result, and one that      *)
(* asked the policy belongs to a registered executor; what a reader paid   *)
(* beyond its one delivery is a settlement whose reply was lost or that a  *)
(* restart cut off, and each of those was counted (ReaderInv).             *)
(*                                                                         *)
(* Fees: where a request stands says what it has been charged (LocalInv,   *)
(* GateInv) and what became of it (RequestInv).  A request that went on    *)
(* without a fee counted a failure (MissedInv).  The requests let through  *)
(* for one payment number at most one for each life of an instance's       *)
(* store, which is in memory (SpentInv).                                   *)
(* The fees paid under one key that no two requests used at the same time  *)
(* are one and what failures and restarts account for (KeyInv).            *)
(*                                                                         *)
(* Amounts: the fee is half a percent rounded to the nearest stroop, and   *)
(* formatting and parsing are inverse on what they produce; both follow    *)
(* from the least power of ten that is large enough and from division with *)
(* remainder.                                                              *)
(***************************************************************************)
EXTENDS Payments, FiniteSetTheorems, TLAPS

-----------------------------------------------------------------------------
(* The inductive invariant of the result route.                            *)

ReadLabel == {"idle", "arrive", "wait", "verify", "handler", "settle", "done", "failed"}

ReaderState == [pc : ReadLabel, signed : BOOLEAN]

ReadType ==
    /\ initPromise \in {"none", "pending", "done"}
    /\ reader \in [Reader -> ReaderState]
    /\ policed \subseteq Reader /\ registered \in BOOLEAN /\ result \in {"none", "ready", "gone"}
    /\ settled \in [Reader -> Nat] /\ delivered \subseteq Reader
    /\ failures \in Nat /\ restarts \in Nat

\* A call that went on after the policy was asked has a registered executor,
\* one that settles has been shown a result, and who has the result is done.
ReaderInv ==
    \A d \in Reader :
      /\ reader[d].pc \notin {"idle", "failed"} /\ d \in policed => registered
      /\ reader[d].pc = "settle" => result # "none"
      /\ d \in delivered <=> reader[d].pc = "done"
      /\ d \in delivered => settled[d] > 0
      /\ settled[d] <= failures + restarts + (IF d \in delivered THEN 1 ELSE 0)
      /\ settled[d] > 0 => result # "none"
      /\ settled[d] > 0 /\ d \in policed => registered

ReadInv == ReadType /\ ReaderInv

\* The inductive invariant holds initially.
LEMMA ReadInitInv == ReadInit /\ failures = 0 /\ restarts = 0 => ReadInv
<1> SUFFICES ASSUME ReadInit, failures = 0, restarts = 0
             PROVE  ReadInv
  OBVIOUS
<1> USE DEF ReadInit, NoReader
<1>1. ReadType
  BY DEF ReadType, ReaderState, ReadLabel
<1>2. ReaderInv
  BY DEF ReaderInv
<1>3. QED
  BY <1>1, <1>2 DEF ReadInv

OthersRead(d) == \A e \in Reader \ {d} : reader'[e] = reader[e]

\* A call that reaches another place leaves the others where they are.
LEMMA ReachFields ==
    ASSUME reader \in [Reader -> ReaderState], NEW d \in Reader, NEW p \in ReadLabel,
           Reach(d, p)
    PROVE  /\ reader' \in [Reader -> ReaderState] /\ OthersRead(d)
           /\ reader'[d].pc = p
BY DEF Reach, ReaderState, OthersRead

\* The same of a call that throws.
LEMMA ThrowsFields ==
    ASSUME reader \in [Reader -> ReaderState], NEW d \in Reader, Throws(d)
    PROVE  /\ reader' \in [Reader -> ReaderState] /\ OthersRead(d)
           /\ reader'[d].pc = "failed"
BY DEF Throws, ReaderState, ReadLabel, OthersRead

\* A step of one reader, failed or not, keeps it.
LEMMA ReadsStep ==
    ASSUME ReadInv, NEW d \in Reader, NEW Fault \in BOOLEAN, Reads(d, Fault),
           restarts' = restarts, failures' = IF Fault THEN failures + 1 ELSE failures
    PROVE  ReadInv'
<1>0. /\ ReadType /\ ReaderInv
      /\ reader \in [Reader -> ReaderState]
      /\ {"idle", "arrive", "wait", "verify", "handler", "settle", "done", "failed"} = ReadLabel
  BY DEF ReadInv, ReadType, ReadLabel
<1> USE DEF ReadInv, ReadType, ReaderInv, OthersRead, At
<1>1. CASE payForResult(d) /\ ~Fault
  <2>1. CASE d \in policed => registered
    <3>1. Reach(d, "arrive")
      BY <1>1, <2>1 DEF payForResult
    <3>2. /\ reader' \in [Reader -> ReaderState] /\ OthersRead(d)
          /\ reader'[d].pc = "arrive"
      BY <3>1, <1>0, ReachFields DEF ReadLabel
    <3>3. QED
      BY <1>0, <1>1, <2>1, <3>2 DEF payForResult
  <2>2. CASE ~(d \in policed => registered)
    <3>1. Throws(d)
      BY <1>1, <2>2 DEF payForResult
    <3>2. QED
      BY <1>0, <1>1, <2>2, <3>1, ThrowsFields DEF payForResult
  <2>3. QED
    BY <2>1, <2>2
<1>2. CASE Again(d) /\ ~Fault
  <2>1. /\ reader' \in [Reader -> ReaderState] /\ OthersRead(d)
        /\ reader'[d].pc = "idle"
    BY <1>0, <1>2, ReachFields DEF Again, ReadLabel
  <2>2. QED
    BY <1>0, <1>2, <2>1 DEF Again
<1>3. CASE arrive(d) /\ ~Fault
  <2>1. /\ reader' \in [Reader -> ReaderState] /\ OthersRead(d)
        /\ reader'[d].pc \in {"verify", "wait"}
    BY <1>0, <1>3, ReachFields DEF arrive, ReadLabel
  <2>2. QED
    BY <1>0, <1>3, <2>1 DEF arrive
<1>4. CASE getResult(d) /\ ~Fault
  <2>1. /\ reader' \in [Reader -> ReaderState] /\ OthersRead(d)
        /\ reader'[d].pc \in {"settle", "failed"}
        /\ reader'[d].pc = "settle" => result = "ready"
    BY <1>0, <1>4, ReachFields, ThrowsFields DEF getResult, ReadLabel
  <2>2. QED
    BY <1>0, <1>4, <2>1 DEF getResult
<1>5. CASE verify(d, Fault)
  <2>1. /\ reader' \in [Reader -> ReaderState] /\ OthersRead(d)
        /\ reader'[d].pc \in {"arrive", "handler", "failed"}
    <3>1. CASE ~reader[d].signed
      <4>1. reader' = [reader EXCEPT ![d] = [pc |-> "arrive", signed |-> TRUE]]
        BY <1>5, <3>1 DEF verify
      <4>2. [pc |-> "arrive", signed |-> TRUE] \in ReaderState
        BY DEF ReaderState, ReadLabel
      <4>3. QED
        BY <1>0, <4>1, <4>2
    <3>2. CASE reader[d].signed
      BY <1>0, <1>5, <3>2, ReachFields, ThrowsFields DEF verify, ReadLabel
    <3>3. QED
      BY <3>1, <3>2
  <2>2. failures' \in Nat /\ failures' >= failures
    BY <1>0
  <2>3. QED
    BY <1>0, <1>5, <2>1, <2>2 DEF verify
<1>6. CASE settle(d, Fault)
  <2>1. CASE ~Fault
    <3>1. /\ reader' \in [Reader -> ReaderState] /\ OthersRead(d)
          /\ reader'[d].pc = "done"
      BY <1>0, <1>6, <2>1, ReachFields DEF settle, ReadLabel
    <3>2. /\ settled' \in [Reader -> Nat] /\ settled'[d] = settled[d] + 1
          /\ \A e \in Reader \ {d} : settled'[e] = settled[e]
      BY <1>0, <1>6, <2>1 DEF settle
    <3>3. d \notin delivered /\ (d \in policed => registered) /\ result # "none"
      BY <1>0, <1>6 DEF settle
    <3>4. delivered' = delivered \cup {d} /\ UNCHANGED <<initPromise, policed, registered, result, failures, restarts>>
      BY <1>6, <2>1 DEF settle
    <3>5. ReaderInv'
      BY <1>0, <3>1, <3>2, <3>3, <3>4
    <3>6. QED
      BY <1>0, <3>1, <3>2, <3>4, <3>5
  <2>2. CASE Fault
    <3>1. /\ reader' \in [Reader -> ReaderState] /\ OthersRead(d)
          /\ reader'[d].pc = "failed"
      BY <1>0, <1>6, <2>2, ThrowsFields DEF settle
    <3>2. /\ settled' \in [Reader -> Nat] /\ settled'[d] \in {settled[d], settled[d] + 1}
          /\ \A e \in Reader \ {d} : settled'[e] = settled[e]
      BY <1>0, <1>6, <2>2 DEF settle
    <3>3. d \notin delivered /\ (d \in policed => registered) /\ result # "none"
      BY <1>0, <1>6 DEF settle
    <3>4. /\ UNCHANGED <<initPromise, policed, registered, result, delivered, restarts>>
          /\ failures' = failures + 1
      BY <1>6, <2>2 DEF settle
    <3>5. ReaderInv'
      BY <1>0, <3>1, <3>2, <3>3, <3>4
    <3>6. QED
      BY <1>0, <3>1, <3>2, <3>4, <3>5
  <2>3. QED
    BY <2>1, <2>2
<1>7. QED
  BY <1>1, <1>2, <1>3, <1>4, <1>5, <1>6 DEF Reads

\* The settling of the gate's promise keeps it.
LEMMA InitializeStep ==
    ASSUME ReadInv, NEW Fault \in BOOLEAN, initialize(Fault),
           restarts' = restarts, failures' = IF Fault THEN failures + 1 ELSE failures
    PROVE  ReadInv'
<1> USE DEF ReadInv, ReadType, ReaderInv
<1>1. reader' \in [Reader -> ReaderState]
  BY DEF initialize, ReaderState, ReadLabel, At
<1>2. \A d \in Reader : \/ reader'[d] = reader[d]
                        \/ /\ reader[d].pc = "wait" /\ reader'[d].pc \in {"failed", "verify"}
  BY DEF initialize, ReaderState, ReadLabel, At
<1>3. /\ initPromise' \in {"none", "done"} /\ UNCHANGED <<policed, registered, result, settled, delivered, restarts>>
      /\ failures' \in Nat /\ failures' >= failures
  BY DEF initialize
<1>4. ReaderInv'
  BY <1>2, <1>3
<1>5. QED
  BY <1>1, <1>3, <1>4

\* Registration, publication and the end of the task keep it.
LEMMA AroundStep ==
    ASSUME ReadInv, Registers \/ ResultChanges, failures' = failures, restarts' = restarts
    PROVE  ReadInv'
BY DEF ReadInv, ReadType, ReaderInv, ReaderState, ReadLabel, Registers, ResultChanges

\* A restart fails the calls that are served, some of which have settled, and
\* keeps it.
LEMMA ReadRestartStep ==
    ASSUME ReadInv, ReadRestart, failures' = failures, restarts' = restarts + 1
    PROVE  ReadInv'
<1> USE DEF ReadInv, ReadType, ReaderInv
<1>1. PICK lost \in SUBSET {d \in Reader : At(d, "settle")} :
        settled' = [d \in Reader |-> settled[d] + IF d \in lost THEN 1 ELSE 0]
  BY DEF ReadRestart
<1>2. /\ settled' \in [Reader -> Nat]
      /\ \A d \in Reader :
           \/ settled'[d] = settled[d]
           \/ reader[d].pc = "settle" /\ settled'[d] = settled[d] + 1
  BY <1>1 DEF At
<1>3. /\ reader' \in [Reader -> ReaderState]
      /\ \A d \in Reader :
           \/ reader'[d] = reader[d] /\ reader[d].pc # "settle"
           \/ /\ reader[d].pc \in {"wait", "verify", "handler", "settle"}
              /\ reader'[d].pc = "failed"
  BY DEF ReadRestart, ReaderState, ReadLabel
<1>4. initPromise' = "none" /\ UNCHANGED <<policed, registered, result, delivered>>
  BY DEF ReadRestart
<1>5. ReaderInv'
  BY <1>2, <1>3, <1>4
<1>6. QED
  BY <1>2, <1>3, <1>4, <1>5

\* Nothing of the other route touches it, but a failure there counts.
LEMMA ReadIdle ==
    ASSUME ReadInv, UNCHANGED <<readVars, restarts>>, failures' \in {failures, failures + 1}
    PROVE  ReadInv'
BY DEF ReadInv, ReadType, ReaderInv, ReaderState, ReadLabel, readVars

-----------------------------------------------------------------------------
(* The inductive invariant of the fee route.                               *)

FeeLabel == {"idle", "load", "gate", "auth", "find", "charge", "save", "emit", "store", "end"}

RequestState == [pc : FeeLabel, at : Instance \cup {None}, key : IdemKey \cup {None},
                 cred : Credential \cup {None}, attempt : 0..Retries, status : Nat,
                 replay : BOOLEAN]

FeeType ==
    /\ network \in Network /\ paused \in BOOLEAN /\ price \in Price
    /\ database \in BOOLEAN /\ (network # "local" => database)
    /\ mppx \in [Instance -> {None, "loading", "ready", "failed"}]
    /\ spent \in [Instance -> SUBSET paid] /\ paid \subseteq Credential
    /\ records \in [IdemKey -> Nat]
    /\ req \in [Request -> RequestState]
    /\ charged \in [Request -> Nat]
    /\ listed \subseteq Request /\ missed \subseteq Request /\ overlap \subseteq IdemKey
    /\ failures \in Nat /\ restarts \in Nat

\* On the local network a request is charged by its handler, each time after
\* the first for a transfer that failed.
LocalInv(q) ==
    network = "local" =>
      /\ req[q].pc \notin {"load", "gate", "auth"} /\ req[q].cred = None
      /\ req[q].pc \in {"idle", "find"} => charged[q] = 0
      /\ req[q].pc = "charge" => charged[q] <= req[q].attempt
      /\ req[q].pc = "charge" /\ charged[q] > 0 => failures > 0

\* Elsewhere the gate charges it once; what is challenged has not been
\* charged, and neither has a price that the handler would refuse.
GateInv(q) ==
    network # "local" =>
      /\ req[q].pc # "charge"
      /\ req[q].pc \in {"idle", "load", "gate"} => charged[q] = 0
      /\ req[q].pc \in {"load", "gate"} => req[q].status = NoAnswer
      /\ req[q].pc \in {"auth", "find"} => charged[q] > 0
      /\ req[q].pc \notin {"idle", "end"} => ValidPrice(price)
      /\ req[q].status = 402 => charged[q] = 0 /\ req[q].pc # "store"
      /\ charged[q] <= 1

\* What is known of a request wherever it is.
RequestInv(q) ==
    /\ req[q].pc # "idle" => req[q].at \in Instance
    /\ database /\ req[q].pc \in {"charge", "save", "emit", "store"} => req[q].key \in IdemKey
    /\ req[q].cred # None => req[q].cred \in paid
    /\ charged[q] <= req[q].attempt + 1
    /\ req[q].pc = "save" \/ q \in listed => charged[q] > 0 \/ q \in missed
    /\ q \in missed => network = "local" /\ req[q].pc \in {"save", "emit", "store", "end"}
    /\ req[q].pc = "emit" => q \in listed
    /\ req[q].pc = "store" => database
    /\ req[q].pc = "store" /\ charged[q] > 0 =>
         q \in listed \/ failures + restarts > 0
    /\ req[q].pc = "end" /\ charged[q] > 0 =>
         \/ q \in listed
         \/ failures + restarts > 0
         \/ RefusedBehindGate(q)

RequestsInv == \A q \in Request : LocalInv(q) /\ GateInv(q) /\ RequestInv(q)

\* Off the local network no challenge is stored as an answer.
RecordsInv == network # "local" => \A k \in IdemKey : records[k] # 402

\* The instances whose store holds a payment, and those that were shown it.
Holders(c) == {i \in Instance : c \in spent[i]}
Shown(c)   == {req[q].at : q \in Users(c)}

\* A payment has let one request through in each life of an instance's store,
\* and in the present life only where the store holds it.

SpentInv ==
    \A c \in Credential :
      /\ IsFiniteSet(Users(c))
      /\ Cardinality(Users(c)) <= restarts + Cardinality(Holders(c))
      /\ Holders(c) \subseteq Shown(c)

\* A request that went on without a fee met a failure of its own.
MissedInv == IsFiniteSet(missed) /\ Cardinality(missed) <= failures

FeeInv == FeeType /\ RequestsInv /\ RecordsInv /\ SpentInv /\ MissedInv

\* One request is moved to another place and the others stay where they are.
Moved(q, p, s) ==
    /\ req' \in [Request -> RequestState]
    /\ \A r \in Request \ {q} : req'[r] = req[r]
    /\ req'[q].pc = p /\ req'[q].status = s /\ req'[q].at = req[q].at
    /\ req'[q].key = req[q].key /\ req'[q].cred = req[q].cred
    /\ req'[q].attempt = req[q].attempt /\ req'[q].replay = req[q].replay

\* Goto moves the request and keeps its status.
LEMMA GotoFields ==
    ASSUME req \in [Request -> RequestState], NEW q \in Request, NEW p \in FeeLabel, Goto(q, p)
    PROVE  Moved(q, p, req[q].status)
BY DEF Goto, Moved, RequestState

\* Finish moves it to its end, with the status of the answer.
LEMMA FinishFields ==
    ASSUME req \in [Request -> RequestState], NEW q \in Request, NEW s \in Nat, Finish(q, s)
    PROVE  Moved(q, "end", s)
BY ZenonT(60) DEF Finish, Moved, RequestState, FeeLabel

\* Respond moves it to where the answer is stored, or to its end.
LEMMA RespondFields ==
    ASSUME req \in [Request -> RequestState], NEW q \in Request, NEW s \in Nat, Respond(q, s)
    PROVE  /\ Stored(s) => Moved(q, "store", s)
           /\ ~Stored(s) => Moved(q, "end", s)
<1>1. CASE Stored(s)
  BY ZenonT(60), <1>1 DEF Respond, Moved, RequestState, FeeLabel
<1>2. CASE ~Stored(s)
  BY ZenonT(60), <1>2 DEF Respond, Moved, RequestState, FeeLabel
<1>3. QED
  BY <1>1, <1>2

\* An answer below 500 is stored when there is a database, and others are not.
LEMMA StoredAnswers ==
    /\ \A s \in {201, 400, 402} : Stored(s) <=> database
    /\ \A s \in {500, 502, 503} : ~Stored(s)
BY DEF Stored

\* Replay moves it to its end, with the answer that is stored.
LEMMA ReplayFields ==
    ASSUME req \in [Request -> RequestState], NEW q \in Request, Replay(q),
           records[req[q].key] \in Nat
    PROVE  /\ req' \in [Request -> RequestState]
           /\ \A r \in Request \ {q} : req'[r] = req[r]
           /\ req'[q].pc = "end" /\ req'[q].status = records[req[q].key]
           /\ req'[q].at = req[q].at /\ req'[q].key = req[q].key /\ req'[q].cred = req[q].cred
           /\ req'[q].attempt = req[q].attempt /\ req'[q].replay = TRUE
BY ZenonT(60) DEF Replay, RequestState, FeeLabel

\* A request that goes on without a fee counts a failure.
LEMMA MissedKept ==
    ASSUME MissedInv, failures \in Nat, NEW q,
           \/ missed' = missed /\ failures' \in {failures, failures + 1}
           \/ missed' = missed \cup {q} /\ failures' = failures + 1
    PROVE  MissedInv'
<1>1. PICK n \in Nat : n = Cardinality(missed)
  BY FS_CardinalityType DEF MissedInv
<1>2. CASE missed' = missed
  BY <1>1, <1>2 DEF MissedInv
<1>3. CASE missed' = missed \cup {q} /\ failures' = failures + 1
  <2>1. /\ IsFiniteSet(missed \cup {q})
        /\ Cardinality(missed \cup {q}) \in {n, n + 1}
    BY <1>1, FS_AddElement DEF MissedInv
  <2>2. QED
    BY <1>1, <1>3, <2>1 DEF MissedInv
<1>4. QED
  BY <1>2, <1>3

\* What counts against a failure or a restart goes on doing so.
LEMMA StillCounts ==
    ASSUME NEW f \in Nat, NEW g \in Nat, NEW n \in Nat, g >= f
    PROVE  f + n > 0 => g + n > 0
OBVIOUS

\* What a step of one request has to show: its own part of the invariant, the
\* stored answers and the use of payments.
LEMMA OneRequest ==
    ASSUME FeeInv, NEW q \in Request,
           req' \in [Request -> RequestState], charged' \in [Request -> Nat],
           \A r \in Request \ {q} : req'[r] = req[r] /\ charged'[r] = charged[r],
           listed' \in {listed, listed \cup {q}},
           \/ missed' = missed /\ failures' \in {failures, failures + 1}
           \/ missed' = missed \cup {q} /\ failures' = failures + 1,
           UNCHANGED <<configVars, paid, restarts>>, overlap' \subseteq IdemKey,
           mppx' \in [Instance -> {None, "loading", "ready", "failed"}],
           spent' \in [Instance -> SUBSET paid],
           records' \in [IdemKey -> Nat],
           RecordsInv', SpentInv', LocalInv(q)', GateInv(q)', RequestInv(q)'
    PROVE  FeeInv'
<1>0. FeeType /\ MissedInv /\ failures \in Nat /\ restarts \in Nat
  BY DEF FeeInv, FeeType
<1>1. FeeType'
  BY <1>0 DEF FeeType, configVars
<1>2. ASSUME NEW r \in Request
      PROVE  LocalInv(r)' /\ GateInv(r)' /\ RequestInv(r)'
  <2>1. CASE r = q
    BY <2>1
  <2>2. CASE r # q
    <3>1. /\ LocalInv(r) /\ GateInv(r) /\ RequestInv(r)
          /\ failures' \in Nat /\ failures' >= failures /\ failures \in Nat /\ restarts \in Nat
      BY <1>0 DEF FeeInv, RequestsInv
    <3>2. /\ req'[r] = req[r] /\ charged'[r] = charged[r] /\ (r \in listed' <=> r \in listed)
          /\ (r \in missed' <=> r \in missed)
      BY <2>2
    <3>3. /\ network' = network /\ price' = price /\ paid' = paid /\ restarts' = restarts
          /\ database' = database
      BY DEF configVars
    <3>4. LocalInv(r)'
      BY <3>1, <3>2, <3>3 DEF LocalInv
    <3>5. GateInv(r)'
      BY <3>1, <3>2, <3>3 DEF GateInv
    <3>6. failures + restarts > 0 => failures' + restarts' > 0
      <4>1. failures + restarts > 0 => failures' + restarts > 0
        BY <3>1, StillCounts
      <4>2. restarts' = restarts
        OBVIOUS
      <4>3. QED
        BY <4>1, <4>2, Zenon
    <3>7. RequestInv(r)'
      <4>1. RefusedBehindGate(r)' <=> RefusedBehindGate(r)
        BY <3>2, <3>3 DEF RefusedBehindGate
      <4>2. RequestInv(r)
        BY <3>1
      <4>3. QED
        BY <3>2, <3>3, <3>6, <4>1, <4>2 DEF RequestInv
    <3>8. QED
      BY <3>4, <3>5, <3>7
  <2>3. QED
    BY <2>1, <2>2
<1>3. MissedInv'
  BY <1>0, MissedKept
<1>4. QED
  BY <1>1, <1>2, <1>3 DEF FeeInv, RequestsInv

\* As long as no request is charged for a payment, payments are used as before.
LEMMA UsersKept ==
    ASSUME SpentInv, spent' = spent, restarts' = restarts,
           \A r \in Request, c \in Credential :
             (charged'[r] > 0 /\ req'[r].cred = c) <=> (charged[r] > 0 /\ req[r].cred = c),
           \A r \in Request, c \in Credential :
             charged[r] > 0 /\ req[r].cred = c => req'[r].at = req[r].at
    PROVE  SpentInv'
<1>1. ASSUME NEW c \in Credential
      PROVE  Users(c)' = Users(c) /\ Holders(c)' = Holders(c) /\ Shown(c)' = Shown(c)
  <2>1. Users(c)' = Users(c) /\ Holders(c)' = Holders(c)
    BY DEF Users, Holders
  <2>2. \A r \in Users(c) : req'[r].at = req[r].at
    BY DEF Users
  <2>3. QED
    BY <2>1, <2>2 DEF Shown
<1>2. QED
  BY <1>1 DEF SpentInv

\* The invariant holds initially.
LEMMA FeeInitInv == FeeInit /\ failures = 0 /\ restarts = 0 => FeeInv
<1> SUFFICES ASSUME FeeInit, failures = 0, restarts = 0
             PROVE  FeeInv
  OBVIOUS
<1>1. /\ NoRequest \in RequestState
      /\ NoRequest.pc = "idle" /\ NoRequest.cred = None /\ NoRequest.attempt = 0
      /\ NoRequest.status = 0 /\ NoRequest.at = None
  BY FeeAssumption DEF NoRequest, RequestState, FeeLabel, NoAnswer
<1>2. FeeType
  BY <1>1 DEF FeeInit, FeeType, NoAnswer
<1>3. RequestsInv
  BY <1>1 DEF FeeInit, RequestsInv, LocalInv, GateInv, RequestInv
<1>4. RecordsInv
  BY DEF FeeInit, RecordsInv, NoAnswer
<1>5. SpentInv
  <2>1. ASSUME NEW c \in Credential
        PROVE  Users(c) = {} /\ Holders(c) = {}
    BY DEF FeeInit, Users, Holders
  <2>2. QED
    BY <2>1, FS_EmptySet DEF SpentInv, FeeInit
<1>6. MissedInv
  BY FS_EmptySet DEF MissedInv, FeeInit
<1>7. QED
  BY <1>2, <1>3, <1>4, <1>5, <1>6 DEF FeeInv

\* A request comes in, for the first time or after a challenge: it has not
\* been charged before.
LEMMA ReceiveStep ==
    ASSUME FeeInv, NEW q \in Request, Receive(q), restarts' = restarts
    PROVE  FeeInv'
<1>0. /\ FeeType /\ RequestsInv /\ RecordsInv /\ SpentInv
      /\ LocalInv(q) /\ GateInv(q) /\ RequestInv(q)
      /\ req \in [Request -> RequestState] /\ charged \in [Request -> Nat]
      /\ 0 \in 0..Retries
  BY FeeAssumption DEF FeeInv, FeeType, RequestsInv
<1>1. charged[q] = 0
  BY <1>0 DEF Receive, Challenged, LocalInv, GateInv
<1>2. PICK i \in Instance, k \in IdemKey \cup {None}, c \in paid \cup {None} :
         /\ req' = [req EXCEPT ![q] = Arrival(i, k, c)]
         /\ overlap' = IF k # None /\ InUse(k) THEN overlap \cup {k} ELSE overlap
  BY DEF Receive
<1>3. UNCHANGED <<configVars, gateVars, records, paid, charged, missed, listed, failures>>
  BY DEF Receive
<1>4. c \in Credential \cup {None}
  BY <1>0 DEF FeeType
<1>5. PICK u : u = Arrival(i, k, c)
  OBVIOUS
<1>6. /\ u \in RequestState /\ u.at = i /\ u.attempt = 0 /\ u.cred \in {c, None}
      /\ network = "local" => u.pc = "find" /\ u.cred = None
      /\ network # "local" => \/ u.pc = "load" /\ u.status = 0 /\ ValidPrice(price)
                              \/ u.pc = "end" /\ u.status = 400
  <2>1. CASE network = "local"
    <3>1. u = [pc |-> "find", at |-> i, key |-> k, cred |-> None, attempt |-> 0, status |-> 0,
               replay |-> FALSE]
      BY <1>5, <2>1 DEF Arrival, NoRequest, NoAnswer
    <3>2. QED
      BY <1>0, <2>1, <3>1 DEF RequestState, FeeLabel
  <2>2. CASE network # "local" /\ ValidPrice(price)
    <3>1. u = [pc |-> "load", at |-> i, key |-> k, cred |-> c, attempt |-> 0, status |-> 0,
               replay |-> FALSE]
      BY ZenonT(60), <1>5, <2>2 DEF Arrival, NoRequest, NoAnswer
    <3>2. QED
      BY <1>0, <1>4, <2>2, <3>1 DEF RequestState, FeeLabel
  <2>3. CASE network # "local" /\ ~ValidPrice(price)
    <3>1. u = [pc |-> "end", at |-> i, key |-> k, cred |-> None, attempt |-> 0, status |-> 400,
               replay |-> FALSE]
      BY ZenonT(60), <1>5, <2>3 DEF Arrival, NoRequest
    <3>2. QED
      BY <1>0, <2>3, <3>1 DEF RequestState, FeeLabel
  <2>4. QED
    BY <2>1, <2>2, <2>3
<1>7. /\ req' \in [Request -> RequestState] /\ req'[q] = u
      /\ \A r \in Request \ {q} : req'[r] = req[r]
  BY <1>0, <1>2, <1>5, <1>6
<1>8. q \notin missed /\ q \notin listed
  BY <1>0, <1>1 DEF RequestInv, Receive, Challenged
<1>9. /\ network' = network /\ price' = price /\ paid' = paid /\ spent' = spent /\ mppx' = mppx
      /\ charged' = charged /\ listed' = listed /\ failures' = failures /\ records' = records
      /\ missed' = missed /\ database' = database
  BY <1>3 DEF configVars, gateVars
<1>10. LocalInv(q)' /\ GateInv(q)' /\ RequestInv(q)'
  BY <1>1, <1>6, <1>7, <1>8, <1>9 DEF LocalInv, GateInv, RequestInv, RefusedBehindGate, NoAnswer
<1>11. SpentInv'
  BY <1>0, <1>1, <1>7, <1>9, UsersKept
<1>12. RecordsInv'
  BY <1>0, <1>9 DEF RecordsInv
<1>13. overlap' \subseteq IdemKey
  BY <1>0, <1>2 DEF FeeType
<1>14. QED
  BY <1>0, <1>3, <1>7, <1>9, <1>10, <1>11, <1>12, <1>13, OneRequest DEF FeeType

\* What moves a request without charging it leaves the payments as they are.
LEMMA MovedKeepsUsers ==
    ASSUME FeeInv, NEW q \in Request, NEW p, NEW s, Moved(q, p, s),
           charged' = charged, spent' = spent, restarts' = restarts
    PROVE  SpentInv'
BY UsersKept DEF Moved, FeeInv

\* The gate's modules are loaded, or have failed to load.
LEMMA getMppxStep ==
    ASSUME FeeInv, NEW q \in Request, getMppx(q), restarts' = restarts
    PROVE  FeeInv'
<1>0. /\ FeeType /\ RequestsInv /\ RecordsInv /\ SpentInv
      /\ LocalInv(q) /\ GateInv(q) /\ RequestInv(q)
      /\ req \in [Request -> RequestState] /\ charged \in [Request -> Nat]
  BY DEF FeeInv, FeeType, RequestsInv
<1>1. UNCHANGED <<configVars, spent, records, paid, charged, missed, listed, overlap, failures>>
  BY DEF getMppx
<1>2. RecordsInv'
  BY <1>0, <1>1 DEF RecordsInv, configVars
<1>3. CASE UNCHANGED req /\ mppx' = [mppx EXCEPT ![req[q].at] = "loading"]
  <2>1. LocalInv(q)' /\ GateInv(q)' /\ RequestInv(q)'
    BY <1>0, <1>1, <1>3 DEF LocalInv, GateInv, RequestInv, RefusedBehindGate, configVars
  <2>2. SpentInv'
    BY <1>0, <1>1, <1>3, UsersKept
  <2>3. QED
    BY <1>0, <1>1, <1>2, <1>3, <2>1, <2>2, OneRequest DEF FeeType
<1>4. CASE Goto(q, "gate") /\ UNCHANGED mppx
  <2>1. Moved(q, "gate", req[q].status)
    BY <1>0, <1>4, GotoFields DEF FeeLabel
  <2>2. LocalInv(q)' /\ GateInv(q)' /\ RequestInv(q)'
    BY <1>0, <1>1, <2>1 DEF LocalInv, GateInv, RequestInv, RefusedBehindGate, configVars, Moved, getMppx
  <2>3. SpentInv'
    BY <1>1, <2>1, MovedKeepsUsers
  <2>4. QED
    BY <1>0, <1>1, <1>2, <1>4, <2>1, <2>2, <2>3, OneRequest DEF FeeType, Moved
<1>5. CASE Finish(q, 500) /\ UNCHANGED mppx
  <2>1. Moved(q, "end", 500)
    BY <1>0, <1>5, FinishFields
  <2>2. LocalInv(q)' /\ GateInv(q)' /\ RequestInv(q)'
    BY <1>0, <1>1, <2>1 DEF LocalInv, GateInv, RequestInv, RefusedBehindGate, configVars, Moved, getMppx
  <2>3. SpentInv'
    BY <1>1, <2>1, MovedKeepsUsers
  <2>4. QED
    BY <1>0, <1>1, <1>2, <1>5, <2>1, <2>2, <2>3, OneRequest DEF FeeType, Moved
<1>6. QED
  BY <1>3, <1>4, <1>5 DEF getMppx

\* The invariant of a request that is moved without being charged, by an
\* action that leaves payments and stored answers alone.
LEMMA MoveStep ==
    ASSUME FeeInv, NEW q \in Request, NEW p, NEW s, Moved(q, p, s),
           UNCHANGED <<configVars, gateVars, records, paid, charged, missed, overlap, restarts>>,
           listed' \in {listed, listed \cup {q}}, failures' \in {failures, failures + 1},
           LocalInv(q)', GateInv(q)', RequestInv(q)'
    PROVE  FeeInv'
<1>1. RecordsInv' /\ SpentInv'
  BY MovedKeepsUsers DEF FeeInv, RecordsInv, configVars, gateVars
<1>2. QED
  BY <1>1, OneRequest DEF FeeInv, FeeType, Moved, gateVars

\* The invariant where no request moves.
LEMMA StandStill ==
    ASSUME FeeInv, UNCHANGED <<configVars, spent, req, charged, missed, listed, restarts>>,
           mppx' \in [Instance -> {None, "loading", "ready", "failed"}],
           paid \subseteq paid', paid' \subseteq Credential,
           records' \in [IdemKey -> Nat], RecordsInv', overlap' \subseteq IdemKey,
           failures' \in {failures, failures + 1}
    PROVE  FeeInv'
<1>0. FeeType /\ MissedInv /\ failures \in Nat /\ restarts \in Nat
  BY DEF FeeInv, FeeType
<1>1. FeeType'
  <2>1. spent' \in [Instance -> SUBSET paid']
    BY <1>0 DEF FeeType
  <2>2. QED
    BY <1>0, <2>1 DEF FeeType, configVars
<1>2. RequestsInv'
  <2>1. failures \in Nat /\ failures' \in Nat /\ failures' >= failures /\ restarts \in Nat
    BY <1>0
  <2>2. ASSUME NEW r \in Request
        PROVE  LocalInv(r)' /\ GateInv(r)' /\ RequestInv(r)'
    <3>1. LocalInv(r) /\ GateInv(r) /\ RequestInv(r)
      BY DEF FeeInv, RequestsInv
    <3>2. LocalInv(r)'
      BY <2>1, <3>1 DEF LocalInv, configVars
    <3>3. GateInv(r)'
      BY <2>1, <3>1 DEF GateInv, configVars
    <3>4. /\ req'[r] = req[r] /\ charged'[r] = charged[r] /\ listed' = listed
          /\ missed' = missed /\ network' = network /\ database' = database
          /\ restarts' = restarts
      BY DEF configVars
    <3>5. RequestInv(r)'
      <4>1. req'[r].cred # None => req'[r].cred \in paid'
        BY <3>1, <3>4 DEF RequestInv
      <4>2. failures + restarts > 0 => failures' + restarts' > 0
        <5>1. failures + restarts > 0 => failures' + restarts > 0
          BY <2>1, StillCounts
        <5>2. restarts' = restarts
          OBVIOUS
        <5>3. QED
          BY <5>1, <5>2, Zenon
      <4>3. QED
        BY <3>1, <3>4, <4>1, <4>2 DEF RequestInv, RefusedBehindGate
    <3>6. QED
      BY <3>2, <3>3, <3>5
  <2>3. QED
    BY <2>2 DEF RequestsInv
<1>3. SpentInv'
  BY UsersKept DEF FeeInv
<1>4. MissedInv'
  BY <1>0, MissedKept
<1>5. QED
  BY <1>1, <1>2, <1>3, <1>4 DEF FeeInv

\* The promise of an instance's gate settles.
LEMMA LoadedStep ==
    ASSUME FeeInv, NEW i \in Instance, Loaded(i), restarts' = restarts
    PROVE  FeeInv'
<1>0. FeeType /\ RecordsInv
  BY DEF FeeInv
<1>1. /\ UNCHANGED <<configVars, spent, records, req, paid, charged, missed, listed, overlap>>
      /\ mppx' \in [Instance -> {None, "loading", "ready", "failed"}]
      /\ failures' \in {failures, failures + 1}
  BY <1>0 DEF Loaded, Failure, FeeType
<1>2. RecordsInv'
  BY <1>0, <1>1 DEF RecordsInv, configVars
<1>3. QED
  BY <1>0, <1>1, <1>2, StandStill DEF FeeType

\* The requester pays.
LEMMA PayStep ==
    ASSUME FeeInv, NEW c \in Credential, Pay(c), restarts' = restarts
    PROVE  FeeInv'
<1>0. FeeType /\ RecordsInv
  BY DEF FeeInv
<1>1. /\ UNCHANGED <<configVars, gateVars, records, req, charged, missed, listed, overlap, failures>>
      /\ paid' = paid \cup {c}
  BY DEF Pay
<1>2. RecordsInv'
  BY <1>0, <1>1 DEF RecordsInv, configVars
<1>3. QED
  BY <1>0, <1>1, <1>2, StandStill DEF FeeType, gateVars

\* Another request's answer is stored under a key.
LEMMA OthersStoreStep ==
    ASSUME FeeInv, NEW k \in IdemKey, OthersStore(k), restarts' = restarts
    PROVE  FeeInv'
<1>0. FeeType /\ RecordsInv
  BY DEF FeeInv
<1>1. /\ UNCHANGED <<configVars, gateVars, req, paid, charged, missed, listed, failures>>
      /\ records' = [records EXCEPT ![k] = Other]
      /\ overlap' \in {overlap, overlap \cup {k}}
  BY DEF OthersStore
<1>2. records' \in [IdemKey -> Nat] /\ RecordsInv'
  BY <1>0, <1>1 DEF FeeType, RecordsInv, Other, configVars
<1>3. QED
  BY <1>0, <1>1, <1>2, StandStill DEF FeeType, gateVars

\* The gate challenges the request, or takes its payment: that payment was
\* not in the store, and from now on is.
LEMMA chargeStep ==
    ASSUME FeeInv, NEW q \in Request, charge(q), restarts' = restarts
    PROVE  FeeInv'
<1>0. /\ FeeType /\ RequestsInv /\ RecordsInv /\ SpentInv
      /\ LocalInv(q) /\ GateInv(q) /\ RequestInv(q)
      /\ req \in [Request -> RequestState] /\ charged \in [Request -> Nat]
      /\ restarts \in Nat
  BY DEF FeeInv, FeeType, RequestsInv
<1>1. /\ UNCHANGED <<configVars, mppx, records, paid, missed, listed, overlap, failures>>
      /\ req[q].pc = "gate"
  BY DEF charge
<1>2. /\ network # "local" /\ charged[q] = 0 /\ ValidPrice(price) /\ req[q].status = NoAnswer
      /\ req[q].at \in Instance
  BY <1>0, <1>1 DEF LocalInv, GateInv, RequestInv
<1>3. CASE Finish(q, 402) /\ UNCHANGED <<spent, charged>>
  <2>1. Moved(q, "end", 402)
    BY <1>0, <1>3, FinishFields
  <2>2. LocalInv(q)' /\ GateInv(q)' /\ RequestInv(q)'
    BY <1>0, <1>1, <1>2, <1>3, <2>1 DEF LocalInv, GateInv, RequestInv, RefusedBehindGate, configVars, Moved
  <2>3. QED
    BY <1>0, <1>1, <1>3, <2>1, <2>2, MoveStep DEF gateVars
<1>4. CASE /\ NewPayment(q)
           /\ spent' = [spent EXCEPT ![req[q].at] = @ \cup {req[q].cred}]
           /\ charged' = [charged EXCEPT ![q] = 1]
           /\ Goto(q, "auth")
  <2>1. Moved(q, "auth", NoAnswer)
    BY <1>0, <1>2, <1>4, GotoFields DEF FeeLabel
  <2>2. /\ charged' \in [Request -> Nat] /\ charged'[q] = 1
        /\ \A r \in Request \ {q} : charged'[r] = charged[r]
    BY <1>0, <1>4
  <2>3. q \notin missed /\ q \notin listed
    BY <1>0, <1>2 DEF RequestInv
  <2>4. req[q].attempt \in Nat
    BY <1>0, FeeAssumption DEF RequestState
  <2>5. LocalInv(q)' /\ GateInv(q)' /\ RequestInv(q)'
    BY <1>0, <1>1, <1>2, <2>1, <2>2, <2>3, <2>4
    DEF LocalInv, GateInv, RequestInv, RefusedBehindGate, configVars, Moved, NoAnswer
  <2>6. SpentInv'
    <3>1. ASSUME NEW c \in Credential
          PROVE  /\ IsFiniteSet(Users(c)')
                 /\ Cardinality(Users(c)') <= restarts + Cardinality(Holders(c)')
                 /\ Holders(c)' \subseteq Shown(c)'
      <4>0. /\ IsFiniteSet(Users(c)) /\ Cardinality(Users(c)) <= restarts + Cardinality(Holders(c))
            /\ IsFiniteSet(Holders(c)) /\ Holders(c) \subseteq Shown(c)
        BY <1>0, FeeAssumption, FS_Subset DEF SpentInv, Holders
      <4>1. CASE c = req[q].cred
        <5>1. Users(c)' = Users(c) \cup {q} /\ q \notin Users(c)
          BY <1>0, <1>2, <2>1, <2>2, <4>1 DEF Users, Moved
        <5>2. Holders(c)' = Holders(c) \cup {req[q].at} /\ req[q].at \notin Holders(c)
          BY <1>0, <1>2, <1>4, <4>1 DEF Holders, NewPayment, FeeType
        <5>3. PICK n \in Nat, m \in Nat : n = Cardinality(Users(c)) /\ m = Cardinality(Holders(c))
          BY <4>0, FS_CardinalityType
        <5>4. IsFiniteSet(Users(c)') /\ Cardinality(Users(c)') = n + 1
          BY <4>0, <5>1, <5>3, FS_AddElement
        <5>5. Cardinality(Holders(c)') = m + 1
          BY <4>0, <5>2, <5>3, FS_AddElement
        <5>6. Shown(c)' = Shown(c) \cup {req[q].at}
          <6>1. \A r \in Request : req'[r].at = req[r].at
            BY <2>1 DEF Moved
          <6>2. QED
            BY <5>1, <6>1 DEF Shown, Users
        <5>7. QED
          BY <1>0, <4>0, <5>2, <5>3, <5>4, <5>5, <5>6
      <4>2. CASE c # req[q].cred
        <5>1. Users(c)' = Users(c)
          BY <1>0, <2>1, <2>2, <4>2 DEF Users, Moved
        <5>2. Holders(c)' = Holders(c)
          BY <1>0, <1>4, <4>2 DEF Holders, FeeType
        <5>3. Shown(c)' = Shown(c)
          <6>1. \A r \in Request : req'[r].at = req[r].at
            BY <2>1 DEF Moved
          <6>2. QED
            BY <5>1, <6>1 DEF Shown, Users
        <5>4. QED
          BY <4>0, <5>1, <5>2, <5>3
      <4>3. QED
        BY <4>1, <4>2
    <3>2. QED
      BY <3>1 DEF SpentInv
  <2>7. RecordsInv'
    BY <1>0, <1>1 DEF RecordsInv, configVars
  <2>8. spent' \in [Instance -> SUBSET paid]
    BY <1>0, <1>4 DEF FeeType, RequestInv, NewPayment
  <2>9. QED
    BY <1>0, <1>1, <2>1, <2>2, <2>5, <2>6, <2>7, <2>8, OneRequest DEF FeeType, Moved
<1>5. QED
  BY <1>3, <1>4 DEF charge

\* The signature is accepted, or it is refused or cannot be looked at.
LEMMA signatureAuthStep ==
    ASSUME FeeInv, NEW q \in Request, signatureAuth(q), restarts' = restarts
    PROVE  FeeInv'
<1>0. /\ LocalInv(q) /\ GateInv(q) /\ RequestInv(q)
      /\ req \in [Request -> RequestState] /\ charged \in [Request -> Nat]
      /\ failures \in Nat /\ restarts \in Nat
  BY DEF FeeInv, FeeType, RequestsInv
<1>1. /\ UNCHANGED <<configVars, gateVars, records, paid, charged, missed, listed, overlap>>
      /\ req[q].pc = "auth"
  BY DEF signatureAuth
<1>2. network # "local" /\ charged[q] > 0 /\ ValidPrice(price)
  BY <1>0, <1>1 DEF LocalInv, GateInv
<1>3. CASE Goto(q, "find") /\ UNCHANGED failures
  <2>1. Moved(q, "find", req[q].status)
    BY <1>0, <1>3, GotoFields DEF FeeLabel
  <2>2. LocalInv(q)' /\ GateInv(q)' /\ RequestInv(q)'
    BY <1>0, <1>1, <1>2, <2>1 DEF LocalInv, GateInv, RequestInv, configVars, Moved
  <2>3. QED
    BY <1>1, <1>3, <2>1, <2>2, MoveStep
<1>4. ASSUME NEW u \in {401, 429, 500, 503}, Finish(q, u),
             \/ u \in {401, 429} /\ failures' = failures
             \/ failures' = failures + 1
      PROVE  FeeInv'
  <2>1. Moved(q, "end", u)
    BY <1>0, <1>4, FinishFields
  <2>2. LocalInv(q)' /\ GateInv(q)' /\ RequestInv(q)'
    BY <1>0, <1>1, <1>2, <1>4, <2>1
    DEF LocalInv, GateInv, RequestInv, RefusedBehindGate, configVars, Moved
  <2>3. QED
    BY <1>1, <1>4, <2>1, <2>2, MoveStep
<1>5. QED
  BY <1>3, <1>4 DEF signatureAuth, Failure

\* A stored answer is replayed, the key is refused, or the handler runs up to
\* its first await.
LEMMA findStep ==
    ASSUME FeeInv, NEW q \in Request, find(q), restarts' = restarts
    PROVE  FeeInv'
<1>0. /\ FeeType /\ RequestsInv /\ RecordsInv /\ SpentInv
      /\ LocalInv(q) /\ GateInv(q) /\ RequestInv(q)
      /\ req \in [Request -> RequestState] /\ charged \in [Request -> Nat]
      /\ failures \in Nat /\ restarts \in Nat
  BY DEF FeeInv, FeeType, RequestsInv
<1>1. /\ UNCHANGED <<configVars, gateVars, records, paid, charged, missed, listed, overlap>>
      /\ req[q].pc = "find"
  BY DEF find
<1>2. /\ network = "local" => charged[q] = 0
      /\ network # "local" => charged[q] > 0 /\ ValidPrice(price)
      /\ req[q].key \in IdemKey \cup {None} /\ q \notin missed
  BY <1>0, <1>1 DEF LocalInv, GateInv, RequestInv, RequestState
<1>3. CASE Replay(q) /\ req[q].key # None /\ UNCHANGED failures
  <2>1. records[req[q].key] \in Nat
    BY <1>0, <1>2, <1>3 DEF FeeType
  <2>2. /\ req' \in [Request -> RequestState]
        /\ \A r \in Request \ {q} : req'[r] = req[r]
        /\ req'[q].pc = "end" /\ req'[q].status = records[req[q].key]
        /\ req'[q].at = req[q].at /\ req'[q].key = req[q].key /\ req'[q].cred = req[q].cred
        /\ req'[q].attempt = req[q].attempt /\ req'[q].replay = TRUE
    BY <1>0, <1>3, <2>1, ReplayFields
  <2>3. LocalInv(q)' /\ GateInv(q)' /\ RequestInv(q)'
    <3>1. network # "local" => records[req[q].key] # 402
      BY <1>0, <1>2, <1>3 DEF RecordsInv
    <3>2. LocalInv(q)'
      BY <1>0, <1>1, <2>2 DEF LocalInv, configVars
    <3>3. GateInv(q)'
      BY <1>0, <1>1, <2>2, <3>1 DEF GateInv, configVars
    <3>4. RequestInv(q)'
      BY <1>0, <1>1, <1>2, <2>2 DEF RequestInv, RefusedBehindGate, configVars
    <3>5. QED
      BY <3>2, <3>3, <3>4
  <2>4. SpentInv'
    BY <1>0, <1>1, <2>2, UsersKept DEF gateVars
  <2>5. RecordsInv'
    BY <1>0, <1>1 DEF RecordsInv, configVars
  <2>6. QED
    BY <1>0, <1>1, <1>3, <2>2, <2>3, <2>4, <2>5, OneRequest DEF FeeType, gateVars
<1>4. ASSUME NEW u \in {400, 409, 500}, Finish(q, u),
             \/ u \in {400, 409} /\ failures' = failures
             \/ failures' = failures + 1
      PROVE  FeeInv'
  <2>1. Moved(q, "end", u)
    BY <1>0, <1>4, FinishFields
  <2>2. LocalInv(q)' /\ GateInv(q)' /\ RequestInv(q)'
    BY <1>0, <1>1, <1>2, <1>4, <2>1
    DEF LocalInv, GateInv, RequestInv, RefusedBehindGate, configVars, Moved
  <2>3. QED
    BY <1>1, <1>4, <2>1, <2>2, MoveStep
<1>5. CASE Handler(q) /\ (database => req[q].key # None) /\ UNCHANGED failures
  <2>1. CASE Respond(q, 503)
    <3>1. Moved(q, "end", 503)
      BY <1>0, <2>1, RespondFields, StoredAnswers
    <3>2. LocalInv(q)' /\ GateInv(q)' /\ RequestInv(q)'
      BY <1>0, <1>1, <1>2, <3>1
      DEF LocalInv, GateInv, RequestInv, RefusedBehindGate, configVars, Moved
    <3>3. QED
      BY <1>1, <1>5, <3>1, <3>2, MoveStep
  <2>2. CASE ~ValidPrice(price) /\ Respond(q, 400)
    <3>1. PICK t \in {"store", "end"} : Moved(q, t, 400) /\ (t = "store" => database)
      BY <1>0, <2>2, RespondFields, StoredAnswers
    <3>2. LocalInv(q)' /\ GateInv(q)' /\ RequestInv(q)'
      BY <1>0, <1>1, <1>2, <1>5, <2>2, <3>1
      DEF LocalInv, GateInv, RequestInv, RefusedBehindGate, configVars, Moved
    <3>3. QED
      BY <1>1, <1>5, <3>1, <3>2, MoveStep
  <2>3. CASE network = "local" /\ Goto(q, "charge")
    <3>1. Moved(q, "charge", req[q].status)
      BY <1>0, <2>3, GotoFields DEF FeeLabel
    <3>2. req[q].attempt \in Nat
      BY <1>0, FeeAssumption DEF RequestState
    <3>3. LocalInv(q)' /\ GateInv(q)' /\ RequestInv(q)'
      BY <1>0, <1>1, <1>2, <1>5, <2>3, <3>1, <3>2
      DEF LocalInv, GateInv, RequestInv, RefusedBehindGate, configVars, Moved
    <3>4. QED
      BY <1>1, <1>5, <3>1, <3>3, MoveStep
  <2>4. CASE network # "local" /\ Goto(q, "save")
    <3>1. Moved(q, "save", req[q].status)
      BY <1>0, <2>4, GotoFields DEF FeeLabel
    <3>2. LocalInv(q)' /\ GateInv(q)' /\ RequestInv(q)'
      BY <1>0, <1>1, <1>2, <1>5, <2>4, <3>1
      DEF LocalInv, GateInv, RequestInv, RefusedBehindGate, configVars, Moved
    <3>3. QED
      BY <1>1, <1>5, <3>1, <3>2, MoveStep
  <2>5. QED
    BY <1>5, <2>1, <2>2, <2>3, <2>4 DEF Handler
<1>6. QED
  BY <1>3, <1>4, <1>5 DEF find, Lookup, Failure

\* On the local network no request names a payment, so that charging one does
\* not use any.
LEMMA LocalUsers ==
    ASSUME FeeInv, NEW q \in Request, network = "local",
           \A r \in Request \ {q} : req'[r] = req[r] /\ charged'[r] = charged[r],
           req'[q].cred = req[q].cred, spent' = spent, restarts' = restarts
    PROVE  SpentInv'
<1>1. \A c \in Credential : c # None /\ req[q].cred # c /\ req'[q].cred # c
  BY FeeAssumption DEF FeeInv, RequestsInv, LocalInv
<1>2. QED
  BY <1>1, UsersKept DEF FeeInv

\* The handler's transfer is confirmed, or the balance does not suffice.
LEMMA chargeListingFeeStep ==
    ASSUME FeeInv, NEW q \in Request, chargeListingFee(q), restarts' = restarts
    PROVE  FeeInv'
<1>0. /\ FeeType /\ RequestsInv /\ RecordsInv /\ SpentInv
      /\ LocalInv(q) /\ GateInv(q) /\ RequestInv(q)
      /\ req \in [Request -> RequestState] /\ charged \in [Request -> Nat]
      /\ failures \in Nat /\ restarts \in Nat /\ charged[q] \in Nat
  BY DEF FeeInv, FeeType, RequestsInv
<1>1. /\ UNCHANGED <<configVars, gateVars, records, paid, missed, listed, overlap, failures>>
      /\ req[q].pc = "charge"
  BY DEF chargeListingFee
<1>2. network = "local" /\ charged[q] <= req[q].attempt /\ (charged[q] > 0 => failures > 0)
  BY <1>0, <1>1 DEF LocalInv, GateInv
<1>3. req[q].attempt \in Nat
  BY <1>0, FeeAssumption DEF RequestState
<1>4. CASE charged' = [charged EXCEPT ![q] = @ + 1] /\ Goto(q, "save")
  <2>1. Moved(q, "save", req[q].status)
    BY <1>0, <1>4, GotoFields DEF FeeLabel
  <2>2. /\ charged' \in [Request -> Nat] /\ charged'[q] = charged[q] + 1
        /\ \A r \in Request \ {q} : charged'[r] = charged[r]
    BY <1>0, <1>4
  <2>3. LocalInv(q)' /\ GateInv(q)' /\ RequestInv(q)'
    BY <1>0, <1>1, <1>2, <1>3, <2>1, <2>2
    DEF LocalInv, GateInv, RequestInv, RefusedBehindGate, configVars, Moved
  <2>4. SpentInv'
    BY <1>1, <1>2, <2>1, <2>2, LocalUsers DEF Moved, gateVars
  <2>5. RecordsInv'
    BY <1>0, <1>1 DEF RecordsInv, configVars
  <2>6. QED
    BY <1>0, <1>1, <2>1, <2>2, <2>3, <2>4, <2>5, OneRequest DEF FeeType, Moved, gateVars
<1>5. CASE Respond(q, 402) /\ UNCHANGED charged
  <2>1. PICK t \in {"store", "end"} : Moved(q, t, 402) /\ (t = "store" => database)
    BY <1>0, <1>5, RespondFields, StoredAnswers
  <2>2. LocalInv(q)' /\ GateInv(q)' /\ RequestInv(q)'
    BY <1>0, <1>1, <1>2, <1>5, <2>1 DEF LocalInv, GateInv, RequestInv, RefusedBehindGate, configVars, Moved
  <2>3. QED
    BY <1>1, <1>5, <2>1, <2>2, MoveStep
<1>6. QED
  BY <1>4, <1>5 DEF chargeListingFee

\* The transfer is included and fails, which goes unnoticed.
LEMMA transferFailsStep ==
    ASSUME FeeInv, NEW q \in Request, transferFails(q), restarts' = restarts
    PROVE  FeeInv'
<1>0. /\ FeeType /\ RequestsInv /\ RecordsInv /\ SpentInv
      /\ LocalInv(q) /\ GateInv(q) /\ RequestInv(q)
      /\ req \in [Request -> RequestState] /\ charged \in [Request -> Nat]
      /\ failures \in Nat /\ restarts \in Nat /\ charged[q] \in Nat
  BY DEF FeeInv, FeeType, RequestsInv
<1>1. /\ UNCHANGED <<configVars, gateVars, records, paid, charged, listed, overlap>>
      /\ req[q].pc = "charge" /\ Goto(q, "save")
      /\ missed' = missed \cup {q} /\ failures' = failures + 1
  BY DEF transferFails, Failure
<1>2. network = "local"
  BY <1>0, <1>1 DEF GateInv
<1>3. Moved(q, "save", req[q].status)
  BY <1>0, <1>1, GotoFields DEF FeeLabel
<1>4. LocalInv(q)' /\ GateInv(q)' /\ RequestInv(q)'
  BY <1>0, <1>1, <1>2, <1>3
  DEF LocalInv, GateInv, RequestInv, RefusedBehindGate, configVars, Moved
<1>5. RecordsInv' /\ SpentInv'
  BY <1>0, <1>1, <1>3, MovedKeepsUsers DEF RecordsInv, configVars, gateVars
<1>6. QED
  BY <1>0, <1>1, <1>3, <1>4, <1>5, OneRequest DEF FeeType, Moved, gateVars

\* A further attempt is counted, and nothing else of the requests changes.
LEMMA AttemptFields ==
    ASSUME req \in [Request -> RequestState], NEW q \in Request,
           req[q].attempt < Retries, req' = [req EXCEPT ![q].attempt = @ + 1]
    PROVE  /\ req' \in [Request -> RequestState]
           /\ \A r \in Request \ {q} : req'[r] = req[r]
           /\ req'[q].attempt = req[q].attempt + 1
           /\ req'[q].pc = req[q].pc /\ req'[q].status = req[q].status
           /\ req'[q].at = req[q].at
           /\ req'[q].key = req[q].key /\ req'[q].cred = req[q].cred
BY FeeAssumption DEF RequestState

\* The handler's transfer fails, before or after the money moved.
LEMMA chargeListingFeeFailsStep ==
    ASSUME FeeInv, NEW q \in Request, chargeListingFeeFails(q), restarts' = restarts
    PROVE  FeeInv'
<1>0. /\ FeeType /\ RequestsInv /\ RecordsInv /\ SpentInv
      /\ LocalInv(q) /\ GateInv(q) /\ RequestInv(q)
      /\ req \in [Request -> RequestState] /\ charged \in [Request -> Nat]
      /\ failures \in Nat /\ restarts \in Nat /\ charged[q] \in Nat
  BY DEF FeeInv, FeeType, RequestsInv
<1>1. /\ UNCHANGED <<configVars, gateVars, records, paid, missed, listed, overlap>>
      /\ req[q].pc = "charge" /\ failures' = failures + 1
  BY DEF chargeListingFeeFails, Failure
<1>2. network = "local" /\ charged[q] <= req[q].attempt
  BY <1>0, <1>1 DEF LocalInv, GateInv
<1>3. req[q].attempt \in Nat
  BY <1>0, FeeAssumption DEF RequestState
<1>4. /\ charged' \in [Request -> Nat] /\ charged'[q] \in {charged[q], charged[q] + 1}
      /\ \A r \in Request \ {q} : charged'[r] = charged[r]
  BY <1>0 DEF chargeListingFeeFails
<1>5. failures' + restarts' > 0 /\ failures' > 0
  BY <1>0, <1>1
<1>6. q \notin missed /\ (q \in listed => charged'[q] > 0)
  BY <1>0, <1>1, <1>4 DEF RequestInv
<1>7. RecordsInv'
  BY <1>0, <1>1 DEF RecordsInv, configVars
<1>8. CASE req[q].attempt < Retries /\ req' = [req EXCEPT ![q].attempt = @ + 1]
  <2>1. /\ req' \in [Request -> RequestState]
        /\ \A r \in Request \ {q} : req'[r] = req[r]
        /\ req'[q].attempt = req[q].attempt + 1
        /\ req'[q].pc = "charge" /\ req'[q].status = req[q].status /\ req'[q].at = req[q].at
        /\ req'[q].key = req[q].key /\ req'[q].cred = req[q].cred
    BY <1>0, <1>1, <1>8, AttemptFields
  <2>2. LocalInv(q)' /\ GateInv(q)' /\ RequestInv(q)'
    BY <1>0, <1>1, <1>2, <1>3, <1>4, <1>5, <1>6, <2>1
    DEF LocalInv, GateInv, RequestInv, RefusedBehindGate, configVars
  <2>3. SpentInv'
    BY <1>1, <1>2, <1>4, <2>1, LocalUsers DEF gateVars
  <2>4. QED
    BY <1>0, <1>1, <1>4, <1>7, <2>1, <2>2, <2>3, OneRequest DEF FeeType, gateVars
<1>9. CASE Respond(q, 502)
  <2>1. Moved(q, "end", 502)
    BY <1>0, <1>9, RespondFields, StoredAnswers
  <2>2. LocalInv(q)' /\ GateInv(q)' /\ RequestInv(q)'
    BY <1>0, <1>1, <1>2, <1>3, <1>4, <1>5, <1>6, <2>1
    DEF LocalInv, GateInv, RequestInv, RefusedBehindGate, configVars, Moved
  <2>3. SpentInv'
    BY <1>1, <1>2, <1>4, <2>1, LocalUsers DEF gateVars, Moved
  <2>4. QED
    BY <1>0, <1>1, <1>4, <1>7, <2>1, <2>2, <2>3, OneRequest DEF FeeType, gateVars, Moved
<1>10. QED
  BY <1>8, <1>9 DEF chargeListingFeeFails

\* The task is written, or the write fails.
LEMMA saveStep ==
    ASSUME FeeInv, NEW q \in Request, save(q), restarts' = restarts
    PROVE  FeeInv'
<1>0. /\ LocalInv(q) /\ GateInv(q) /\ RequestInv(q)
      /\ req \in [Request -> RequestState] /\ charged \in [Request -> Nat]
      /\ failures \in Nat /\ restarts \in Nat
  BY DEF FeeInv, FeeType, RequestsInv
<1>1. /\ UNCHANGED <<configVars, gateVars, records, paid, charged, missed, overlap>>
      /\ req[q].pc = "save"
  BY DEF save
<1>2. charged[q] > 0 \/ q \in missed
  BY <1>0, <1>1 DEF RequestInv
<1>3. CASE listed' = listed \cup {q} /\ Goto(q, "emit") /\ UNCHANGED failures
  <2>1. Moved(q, "emit", req[q].status)
    BY <1>0, <1>3, GotoFields DEF FeeLabel
  <2>2. LocalInv(q)' /\ GateInv(q)' /\ RequestInv(q)'
    BY <1>0, <1>1, <1>2, <1>3, <2>1 DEF LocalInv, GateInv, RequestInv, RefusedBehindGate, configVars, Moved
  <2>3. QED
    BY <1>1, <1>3, <2>1, <2>2, MoveStep
<1>4. CASE Failure /\ Respond(q, 500) /\ UNCHANGED listed
  <2>1. Moved(q, "end", 500)
    BY <1>0, <1>4, RespondFields, StoredAnswers
  <2>2. failures' = failures + 1 /\ failures' + restarts' > 0
    BY <1>0, <1>4 DEF Failure
  <2>3. LocalInv(q)' /\ GateInv(q)' /\ RequestInv(q)'
    BY <1>0, <1>1, <1>2, <1>4, <2>1, <2>2 DEF LocalInv, GateInv, RequestInv, RefusedBehindGate, configVars, Moved
  <2>4. QED
    BY <1>1, <1>4, <2>1, <2>2, <2>3, MoveStep
<1>5. QED
  BY <1>3, <1>4 DEF save

\* The event is emitted and the requester answered, or the emission fails.
LEMMA emitStep ==
    ASSUME FeeInv, NEW q \in Request, emit(q), restarts' = restarts
    PROVE  FeeInv'
<1>0. /\ LocalInv(q) /\ GateInv(q) /\ RequestInv(q)
      /\ req \in [Request -> RequestState] /\ charged \in [Request -> Nat]
      /\ failures \in Nat /\ restarts \in Nat
  BY DEF FeeInv, FeeType, RequestsInv
<1>1. /\ UNCHANGED <<configVars, gateVars, records, paid, charged, missed, listed, overlap>>
      /\ req[q].pc = "emit"
  BY DEF emit
<1>2. q \in listed /\ (charged[q] > 0 \/ q \in missed)
  BY <1>0, <1>1 DEF RequestInv
<1>3. CASE Respond(q, 201) /\ UNCHANGED failures
  <2>1. PICK t \in {"store", "end"} : Moved(q, t, 201) /\ (t = "store" => database)
    BY <1>0, <1>3, RespondFields, StoredAnswers
  <2>2. LocalInv(q)' /\ GateInv(q)' /\ RequestInv(q)'
    BY <1>0, <1>1, <1>2, <1>3, <2>1 DEF LocalInv, GateInv, RequestInv, RefusedBehindGate, configVars, Moved
  <2>3. QED
    BY <1>1, <1>3, <2>1, <2>2, MoveStep
<1>4. CASE Failure /\ Respond(q, 500)
  <2>1. Moved(q, "end", 500)
    BY <1>0, <1>4, RespondFields, StoredAnswers
  <2>2. failures' = failures + 1
    BY <1>4 DEF Failure
  <2>3. LocalInv(q)' /\ GateInv(q)' /\ RequestInv(q)'
    BY <1>0, <1>1, <1>2, <2>1, <2>2 DEF LocalInv, GateInv, RequestInv, RefusedBehindGate, configVars, Moved
  <2>4. QED
    BY <1>1, <2>1, <2>2, <2>3, MoveStep
<1>5. QED
  BY <1>3, <1>4 DEF emit

\* The answer is stored, or is not.
LEMMA insertStep ==
    ASSUME FeeInv, NEW q \in Request, insert(q), restarts' = restarts
    PROVE  FeeInv'
<1>0. /\ FeeType /\ RequestsInv /\ RecordsInv /\ SpentInv
      /\ LocalInv(q) /\ GateInv(q) /\ RequestInv(q)
      /\ req \in [Request -> RequestState] /\ charged \in [Request -> Nat]
      /\ failures \in Nat /\ restarts \in Nat
  BY DEF FeeInv, FeeType, RequestsInv
<1>1. /\ UNCHANGED <<configVars, gateVars, paid, charged, missed, listed, overlap>>
      /\ req[q].pc = "store" /\ Goto(q, "end")
      /\ failures' \in {failures, failures + 1}
  BY DEF insert, Failure
<1>2. Moved(q, "end", req[q].status)
  BY <1>0, <1>1, GotoFields DEF FeeLabel
<1>3. /\ failures + restarts > 0 => failures' + restarts' > 0
      /\ failures' \in Nat /\ failures' >= failures
  <2>1. CASE failures' = failures
    BY <1>0, <2>1
  <2>2. CASE failures' = failures + 1
    BY <1>0, <2>2
  <2>3. QED
    BY <1>1, <2>1, <2>2
<1>4. LocalInv(q)' /\ GateInv(q)' /\ RequestInv(q)'
  <2>1. LocalInv(q)'
    BY <1>0, <1>1, <1>2 DEF LocalInv, configVars, Moved
  <2>2. GateInv(q)'
    BY <1>0, <1>1, <1>2 DEF GateInv, configVars, Moved
  <2>3. RequestInv(q)'
    BY <1>0, <1>1, <1>2, <1>3 DEF RequestInv, configVars, Moved
  <2>4. QED
    BY <2>1, <2>2, <2>3
<1>5. req[q].status \in Nat /\ (network # "local" => req[q].status # 402)
  BY <1>0, <1>1 DEF RequestState, GateInv
<1>6. /\ records' \in [IdemKey -> Nat]
      /\ \A k \in IdemKey : records'[k] \in {records[k], req[q].status}
  BY <1>0, <1>5 DEF insert, FeeType
<1>7. RecordsInv'
  BY <1>0, <1>1, <1>5, <1>6 DEF RecordsInv, configVars
<1>8. SpentInv'
  BY <1>1, <1>2, MovedKeepsUsers DEF gateVars
<1>9. QED
  BY <1>0, <1>1, <1>2, <1>4, <1>6, <1>7, <1>8, OneRequest DEF FeeType, Moved, gateVars

\* An instance that ends takes its requests and its store along: a payment
\* may be used there once more.
LEMMA FeeRestartStep ==
    ASSUME FeeInv, NEW i \in Instance, FeeRestart(i), restarts' = restarts + 1, failures' = failures
    PROVE  FeeInv'
<1>0. /\ FeeType /\ RequestsInv /\ RecordsInv /\ SpentInv /\ MissedInv
      /\ req \in [Request -> RequestState] /\ charged \in [Request -> Nat]
      /\ failures \in Nat /\ restarts \in Nat
  BY DEF FeeInv, FeeType
<1>1. /\ UNCHANGED <<configVars, records, paid, charged, missed, listed, overlap>>
      /\ mppx' = [mppx EXCEPT ![i] = None] /\ spent' = [spent EXCEPT ![i] = {}]
      /\ req' = [q \in Request |->
                   IF InFlight(q) /\ req[q].at = i THEN [req[q] EXCEPT !.pc = "end"] ELSE req[q]]
  BY DEF FeeRestart
<1>2. req' \in [Request -> RequestState]
  BY <1>0, <1>1 DEF RequestState, FeeLabel
<1>3. \A q \in Request :
        \/ req'[q] = req[q]
        \/ /\ req[q].pc # "idle" /\ req'[q].pc = "end" /\ req'[q].at = req[q].at
           /\ req'[q].key = req[q].key /\ req'[q].cred = req[q].cred
           /\ req'[q].attempt = req[q].attempt /\ req'[q].status = req[q].status
  BY <1>0, <1>1 DEF RequestState, InFlight
<1>4. FeeType'
  <2>1. /\ mppx' \in [Instance -> {None, "loading", "ready", "failed"}]
        /\ spent' \in [Instance -> SUBSET paid']
    BY <1>0, <1>1 DEF FeeType
  <2>2. QED
    BY <1>0, <1>1, <1>2, <2>1 DEF FeeType, configVars
<1>5. RequestsInv'
  <2>1. ASSUME NEW q \in Request
        PROVE  LocalInv(q)' /\ GateInv(q)' /\ RequestInv(q)'
    <3>1. LocalInv(q) /\ GateInv(q) /\ RequestInv(q)
      BY <1>0 DEF RequestsInv
    <3>2. failures' + restarts' > 0
      BY <1>0
    <3>3. LocalInv(q)'
      BY <1>0, <1>1, <1>3, <3>1 DEF LocalInv, configVars
    <3>4. GateInv(q)'
      BY <1>1, <1>3, <3>1 DEF GateInv, configVars
    <3>5. RequestInv(q)'
      BY <1>1, <1>3, <3>1, <3>2 DEF RequestInv, configVars
    <3>6. QED
      BY <3>3, <3>4, <3>5
  <2>2. QED
    BY <2>1 DEF RequestsInv
<1>6. RecordsInv'
  BY <1>0, <1>1 DEF RecordsInv, configVars
<1>7. SpentInv'
  <2>1. ASSUME NEW c \in Credential
        PROVE  /\ IsFiniteSet(Users(c)')
               /\ Cardinality(Users(c)') <= restarts' + Cardinality(Holders(c)')
               /\ Holders(c)' \subseteq Shown(c)'
    <3>1. Users(c)' = Users(c)
      BY <1>1, <1>3 DEF Users
    <3>2. Holders(c)' = Holders(c) \ {i}
      BY <1>0, <1>1 DEF Holders, FeeType
    <3>3. /\ IsFiniteSet(Users(c)) /\ Cardinality(Users(c)) <= restarts + Cardinality(Holders(c))
          /\ IsFiniteSet(Holders(c)) /\ Holders(c) \subseteq Shown(c)
      BY <1>0, FeeAssumption, FS_Subset DEF SpentInv, Holders
    <3>4. PICK n \in Nat, m \in Nat : n = Cardinality(Users(c)) /\ m = Cardinality(Holders(c))
      BY <3>3, FS_CardinalityType
    <3>5. Cardinality(Holders(c)') \in {m, m - 1}
      BY <3>2, <3>3, <3>4, FS_RemoveElement
    <3>6. Shown(c)' = Shown(c)
      <4>1. \A q \in Request : req'[q].at = req[q].at
        BY <1>3
      <4>2. QED
        BY <3>1, <4>1 DEF Shown, Users
    <3>7. QED
      BY <1>0, <3>1, <3>2, <3>3, <3>4, <3>5, <3>6
  <2>2. QED
    BY <2>1 DEF SpentInv
<1>8. MissedInv'
  BY <1>0, <1>1 DEF MissedInv
<1>9. QED
  BY <1>4, <1>5, <1>6, <1>7, <1>8 DEF FeeInv

\* Every step of the fee route keeps the invariant.
LEMMA FeeStepInv ==
    ASSUME FeeInv, FeeStep, restarts' = restarts
    PROVE  FeeInv'
<1>1. ASSUME NEW q \in Request, Receive(q) \/ Serve(q)
      PROVE  FeeInv'
  BY <1>1, ReceiveStep, getMppxStep, chargeStep, signatureAuthStep, findStep,
     chargeListingFeeStep, transferFailsStep, chargeListingFeeFailsStep, saveStep, emitStep,
     insertStep DEF Serve
<1>2. ASSUME NEW c \in Credential, Pay(c)
      PROVE  FeeInv'
  BY <1>2, PayStep
<1>3. ASSUME NEW i \in Instance, Loaded(i)
      PROVE  FeeInv'
  BY <1>3, LoadedStep
<1>4. ASSUME NEW k \in IdemKey, OthersStore(k)
      PROVE  FeeInv'
  BY <1>4, OthersStoreStep
<1>5. QED
  BY <1>1, <1>2, <1>3, <1>4 DEF FeeStep

\* A failed call is counted once, on whichever route.
LEMMA FeeFailures ==
    ASSUME FeeStep
    PROVE  failures' \in {failures, failures + 1}
BY ZenonT(60) DEF FeeStep, Serve, Receive, getMppx, charge, signatureAuth, find, chargeListingFee,
       transferFails, chargeListingFeeFails, save, emit, insert, Loaded, Pay, OthersStore, Failure

-----------------------------------------------------------------------------
(* The arithmetic of amounts.                                              *)

\* The unit of USDC and its cent are positive numbers of stroops.
LEMMA Units == Unit \in Nat \ {0} /\ Cent \in Nat \ {0}
BY SMT DEF Unit, Cent, USDC_DECIMALS

\* What a decimal place is worth is a positive number of stroops.
LEMMA Powers ==
    ASSUME NEW p \in 0..7
    PROVE  10^(7 - p) \in Nat \ {0}
<1>1. PICK e : e = 7 - p
  OBVIOUS
<1>2. e = 0 \/ e = 1 \/ e = 2 \/ e = 3 \/ e = 4 \/ e = 5 \/ e = 6 \/ e = 7
  BY <1>1, SMT
<1>3. 10^e \in {10^0, 10^1, 10^2, 10^3, 10^4, 10^5, 10^6, 10^7}
  BY <1>2, Zenon
<1>4. {10^0, 10^1, 10^2, 10^3, 10^4, 10^5, 10^6, 10^7} \subseteq Nat \ {0}
  BY SMT
<1>5. QED
  BY <1>1, <1>3, <1>4, Zenon

\* A set of places that has the last one has a first one.
LEMMA Least ==
    ASSUME NEW S, 7 \in S
    PROVE  \E p \in 0..7 : p \in S /\ \A q \in 0..(p - 1) : q \notin S
<1>1. CASE 0 \in S
  BY <1>1
<1>2. CASE 0 \notin S /\ 1 \in S
  BY <1>2
<1>3. CASE 0 \notin S /\ 1 \notin S /\ 2 \in S
  BY <1>3
<1>4. CASE (\A q \in 0..2 : q \notin S) /\ 3 \in S
  BY <1>4
<1>5. CASE (\A q \in 0..3 : q \notin S) /\ 4 \in S
  BY <1>5
<1>6. CASE (\A q \in 0..4 : q \notin S) /\ 5 \in S
  BY <1>6
<1>7. CASE (\A q \in 0..5 : q \notin S) /\ 6 \in S
  BY <1>7
<1>8. CASE (\A q \in 0..6 : q \notin S) /\ 7 \in S
  BY <1>8
<1>9. QED
  BY <1>1, <1>2, <1>3, <1>4, <1>5, <1>6, <1>7, <1>8

\* Products of naturals are naturals.
LEMMA Products ==
    ASSUME NEW a \in Nat, NEW b \in Nat
    PROVE  a * b \in Nat
BY SMT

\* A multiple of k that is within half of k is nothing.
LEMMA NearestMultiple ==
    ASSUME NEW k \in Nat \ {0}, NEW z \in Int, 2 * (z * k) <= k, 2 * (-(z * k)) <= k
    PROVE  z = 0
<1>1. ASSUME z >= 1 PROVE FALSE
  <2>1. z * k >= k
    BY <1>1, SMT
  <2>2. QED
    BY <2>1, SMT
<1>2. ASSUME z <= -1 PROVE FALSE
  <2>1. -(z * k) >= k
    BY <1>2, SMT
  <2>2. QED
    BY <2>1, SMT
<1>3. QED
  BY <1>1, <1>2, SMT

\* Division without rest.
LEMMA DivExact ==
    ASSUME NEW r \in Nat, NEW k \in Nat \ {0}, r % k = 0
    PROVE  (r \div k) * k = r
BY SMT

\* Division with rest.
LEMMA DivRest ==
    ASSUME NEW n \in Nat, NEW k \in Nat \ {0}
    PROVE  /\ n % k \in Nat /\ n \div k \in Nat
           /\ n = (n \div k) * k + (n % k)
BY SMT


\* Formatting an amount and parsing the decimal gives the amount again.
LEMMA RoundTrip ==
    ASSUME NEW n \in Nat
    PROVE  parseUsdcDecimalToStroops(formatUsdcStroopsToDecimal(n)) = n
<1> DEFINE rest == n % Unit
           P(p) == /\ rest % 10^(7 - p) = 0
                   /\ \A q \in 0..(p - 1) : rest % 10^(7 - q) # 0
           S == {p \in 0..7 : rest % 10^(7 - p) = 0}
           places == CHOOSE p \in 0..7 : P(p)
<1>1. rest \in Nat /\ n \div Unit \in Nat /\ n = (n \div Unit) * Unit + rest
  BY Units, DivRest
<1>2. \E p \in 0..7 : P(p)
  <2>1. 10^(7 - 7) = 1
    BY SMT
  <2>2. rest % 1 = 0
    BY <1>1, SMT
  <2> HIDE DEF rest
  <2>3. 7 \in S
    BY <2>1, <2>2, SMT
  <2>4. PICK p \in 0..7 : p \in S /\ \A q \in 0..(p - 1) : q \notin S
    BY <2>3, Least
  <2>5. \A q \in 0..(p - 1) : q \in 0..7
    BY <2>4, SMT
  <2>6. P(p)
    BY <2>4, <2>5, Zenon
  <2>7. QED
    BY <2>4, <2>6
<1>3. places \in 0..7 /\ rest % 10^(7 - places) = 0
  <2> HIDE DEF rest
  <2>1. places \in 0..7 /\ P(places)
    BY <1>2, Zenon
  <2>2. QED
    BY <2>1
<1>4. formatUsdcStroopsToDecimal(n)
        = [whole |-> n \div Unit, frac |-> rest \div 10^(7 - places), places |-> places]
  BY Units, SMT DEF formatUsdcStroopsToDecimal, USDC_DECIMALS
<1> HIDE DEF rest, places
<1>5. PICK d : d = [whole |-> n \div Unit, frac |-> rest \div 10^(7 - places), places |-> places]
  OBVIOUS
<1>6. parseUsdcDecimalToStroops(d) = (n \div Unit) * Unit
                                      + (rest \div 10^(7 - places)) * 10^(7 - places)
  BY <1>5, Units, SMT DEF parseUsdcDecimalToStroops, USDC_DECIMALS
<1>7. PICK k \in Nat \ {0} : k = 10^(7 - places)
  BY <1>3, Powers
<1>8. (rest \div k) * k = rest
  <2>1. rest % k = 0
    BY <1>3, <1>7, Zenon
  <2>2. QED
    BY <1>1, <2>1, DivExact
<1>9. QED
  BY <1>1, <1>4, <1>5, <1>6, <1>7, <1>8, SMT

\* A decimal that parses is a number of stroops.
LEMMA ParseNat ==
    ASSUME NEW d \in Decimal, Parses(d)
    PROVE  parseUsdcDecimalToStroops(d) \in Nat
<1>1. d.whole \in Nat /\ d.frac \in Nat /\ d.places \in 0..7
  BY SMT DEF Decimal, Parses, USDC_DECIMALS
<1>2. PICK k \in Nat \ {0} : k = 10^(7 - d.places)
  BY <1>1, Powers
<1>3. parseUsdcDecimalToStroops(d) = d.whole * Unit + d.frac * k
  BY <1>2, Units, SMT DEF parseUsdcDecimalToStroops, USDC_DECIMALS
<1>4. d.whole * Unit \in Nat /\ d.frac * k \in Nat
  BY <1>1, <1>2, Units, Products
<1>5. QED
  BY <1>3, <1>4, SMT

\* The fee is half a percent to the nearest stroop.
LEMMA FeeNearest ==
    ASSUME NEW p \in Nat
    PROVE  /\ calculateListingFeeStroops(p) \in Nat
           /\ 1000 * calculateListingFeeStroops(p) - 5 * p \in -499..500
BY SMT DEF calculateListingFeeStroops

\* The shares of a collateral add up to it within half a cent, and exactly
\* when it is whole cents.
LEMMA SharesNear ==
    ASSUME NEW c \in Nat, NEW s \in confiscateShares(c)
    PROVE  /\ 2 * (s.requester + s.marketplace - c) \in -Cent..Cent
           /\ c % Cent = 0 => s.requester + s.marketplace = c
<1>1. PICK r \in Rounded(c * ShareTenths, 10 * Cent) :
        s \in {[requester |-> r * Cent, marketplace |-> m * Cent] : m \in Rounded(c - r * Cent, Cent)}
  BY Zenon DEF confiscateShares
<1>2. PICK m \in Rounded(c - r * Cent, Cent) :
        s = [requester |-> r * Cent, marketplace |-> m * Cent]
  BY <1>1, Zenon
<1>3. r \in Int
  BY <1>1, Units, SMT DEF Rounded, ShareTenths
<1>4. m \in Int /\ 2 * (c - r * Cent - m * Cent) <= Cent
                /\ 2 * (m * Cent - (c - r * Cent)) <= Cent
  BY <1>2, <1>3, Units, SMT DEF Rounded
<1>5. s.requester = r * Cent /\ s.marketplace = m * Cent
  BY <1>2, Units, SMT
<1>6. PICK x \in Int, y \in Int : x = r * Cent /\ y = m * Cent
  BY <1>3, <1>4, Units, SMT
<1>7. 2 * (c - x - y) <= Cent /\ 2 * (y - (c - x)) <= Cent
  BY <1>4, <1>6
<1>8. 2 * (s.requester + s.marketplace - c) \in -Cent..Cent
  BY <1>5, <1>6, <1>7, Units, SMT
<1>9. ASSUME c % Cent = 0
      PROVE  s.requester + s.marketplace = c
  <2>1. PICK j \in Int : c = j * Cent
    <3>1. (c \div Cent) * Cent = c
      BY <1>9, Units, DivExact
    <3>2. c \div Cent \in Int
      BY Units, DivRest
    <3>3. QED
      BY <3>1, <3>2
  <2>2. PICK z \in Int : z = j - r - m
    BY <1>3, <1>4, <2>1
  <2>3. z * Cent = c - x - y
    BY <1>3, <1>4, <1>6, <2>1, <2>2, Units, SMT
  <2>4. 2 * (z * Cent) <= Cent /\ 2 * (-(z * Cent)) <= Cent
    BY <1>6, <1>7, <2>3, Units, SMT
  <2>5. z = 0
    BY <2>4, Units, NearestMultiple
  <2>6. z * Cent = 0
    BY <2>5, Units, SMT
  <2>7. QED
    BY <1>5, <1>6, <2>3, <2>6, SMT
<1>10. QED
  BY <1>8, <1>9

-----------------------------------------------------------------------------
(* The theorems.                                                           *)

Inv == ReadInv /\ FeeInv

\* The invariant of both routes holds initially.
LEMMA InitInv == Init => Inv
BY ReadInitInv, FeeInitInv DEF Init, Inv

\* It is kept by every step.
LEMMA NextInv == Inv /\ [Next]_vars => Inv'
<1> SUFFICES ASSUME Inv, [Next]_vars
             PROVE  Inv'
  OBVIOUS
<1>0. ReadInv /\ FeeInv
  BY DEF Inv
<1>1. ASSUME UNCHANGED <<feeVars, restarts>>, failures' \in {failures, failures + 1}
      PROVE  FeeInv'
  <2>1. UNCHANGED <<configVars, gateVars, records, req, paid, charged, missed, listed, overlap,
                    restarts>>
    BY <1>1 DEF feeVars
  <2>2. FeeType /\ RecordsInv'
    BY <1>0, <2>1 DEF FeeInv, RecordsInv, configVars
  <2>3. QED
    BY <1>0, <1>1, <2>1, <2>2, StandStill DEF gateVars, FeeType
<1>2. CASE Fees
  <2>1. FeeInv'
    BY <1>0, <1>2, FeeStepInv DEF Fees
  <2>2. ReadInv'
    BY <1>0, <1>2, FeeFailures, ReadIdle DEF Fees
  <2>3. QED
    BY <2>1, <2>2 DEF Inv
<1>3. CASE Initialized
  <2>1. /\ \/ initialize(FALSE) /\ failures' = failures
           \/ initialize(TRUE) /\ failures' = failures + 1
        /\ restarts' = restarts
    BY <1>3 DEF Initialized, ReadsOrFails, Failure
  <2>2. ReadInv'
    BY <1>0, <2>1, InitializeStep
  <2>3. FeeInv'
    BY <1>1, <1>3, <2>1 DEF Initialized, ReadsOrFails
  <2>4. QED
    BY <2>2, <2>3 DEF Inv
<1>4. ASSUME NEW d \in Reader, ReaderSteps(d)
      PROVE  Inv'
  <2>1. /\ \/ Reads(d, FALSE) /\ failures' = failures
           \/ Reads(d, TRUE) /\ failures' = failures + 1
        /\ restarts' = restarts
    BY <1>4 DEF ReaderSteps, ReadsOrFails, Failure
  <2>2. ReadInv'
    BY <1>0, <2>1, ReadsStep
  <2>3. FeeInv'
    BY <1>1, <1>4, <2>1 DEF ReaderSteps, ReadsOrFails
  <2>4. QED
    BY <2>2, <2>3 DEF Inv
<1>5. CASE Around
  <2>1. ReadInv'
    BY <1>0, <1>5, AroundStep DEF Around
  <2>2. FeeInv'
    BY <1>1, <1>5 DEF Around
  <2>3. QED
    BY <2>1, <2>2 DEF Inv
<1>6. CASE Restart
  <2>1. PICK i \in Instance : FeeRestart(i)
    BY <1>6 DEF Restart
  <2>2. ReadRestart /\ restarts' = restarts + 1 /\ failures' = failures
    BY <1>6 DEF Restart
  <2>3. ReadInv' /\ FeeInv'
    BY <1>0, <2>1, <2>2, ReadRestartStep, FeeRestartStep
  <2>4. QED
    BY <2>3 DEF Inv
<1>7. CASE UNCHANGED vars
  <2>1. ReadInv'
    BY <1>0, <1>7, ReadIdle DEF vars
  <2>2. FeeInv'
    BY <1>1, <1>7 DEF vars
  <2>3. QED
    BY <2>1, <2>2 DEF Inv
<1>8. QED
  BY <1>2, <1>3, <1>4, <1>5, <1>6, <1>7 DEF Next

\* It is an invariant of the specification.
THEOREM SpecInv == Spec => []Inv
<1>1. QED
  BY InitInv, NextInv, PTL DEF Spec

\* A task is listed against a fee, or its transfer failed on the chain of the
\* local network and was counted; and one payment lists one task at each
\* instance and one for each restart: whatever the requests and retries.
THEOREM TasksTheorem == Spec => []TasksArePaid
<1>1. Inv => TasksArePaid
  <2> SUFFICES ASSUME FeeInv PROVE TasksArePaid
    BY DEF Inv
  <2>0. /\ FeeType /\ RequestsInv /\ SpentInv /\ MissedInv
        /\ req \in [Request -> RequestState] /\ charged \in [Request -> Nat]
        /\ restarts \in Nat /\ failures \in Nat
    BY DEF FeeInv, FeeType
  <2>1. FeeTypeOK
    <3>1. ASSUME NEW q \in Request
          PROVE  /\ req[q].attempt \in 0..Retries /\ req[q].at \in Instance \cup {None}
                 /\ charged[q] \in 0..(Retries + 1)
      <4>1. req[q].attempt \in 0..Retries /\ req[q].at \in Instance \cup {None}
        BY <2>0 DEF RequestState
      <4>2. charged[q] \in Nat /\ charged[q] <= req[q].attempt + 1
        BY <2>0 DEF RequestsInv, RequestInv
      <4>3. QED
        BY <4>1, <4>2, FeeAssumption
    <3>2. QED
      BY <2>0, <3>1 DEF FeeType, FeeTypeOK
  <2>2. \A q \in listed : charged[q] > 0 \/ (q \in missed /\ network = "local")
    <3>1. ASSUME NEW q \in listed
          PROVE  charged[q] > 0 \/ (q \in missed /\ network = "local")
      <4>1. q \in Request /\ RequestInv(q) /\ q \in listed
        BY <2>0, <3>1 DEF FeeType, RequestsInv
      <4>2. QED
        BY <4>1, Zenon DEF RequestInv
    <3>2. QED
      BY <3>1
  <2>3. Cardinality({q \in listed : charged[q] = 0}) <= failures
    <3>1. {q \in listed : charged[q] = 0} \subseteq missed
      BY <2>2
    <3>2. /\ IsFiniteSet({q \in listed : charged[q] = 0})
          /\ Cardinality({q \in listed : charged[q] = 0}) <= Cardinality(missed)
      BY <2>0, <3>1, FS_Subset DEF MissedInv
    <3>3. Cardinality({q \in listed : charged[q] = 0}) \in Nat /\ Cardinality(missed) \in Nat
      BY <2>0, <3>2, FS_CardinalityType DEF MissedInv
    <3>4. QED
      BY <2>0, <3>2, <3>3 DEF MissedInv
  <2>4. network # "local" => \A q \in listed : charged[q] > 0
    BY <2>2
  <2>5. ASSUME NEW c \in Credential
        PROVE  Cardinality(Users(c)) <= Cardinality({req[q].at : q \in Users(c)}) + restarts
    <3>1. /\ IsFiniteSet(Users(c)) /\ Cardinality(Users(c)) <= restarts + Cardinality(Holders(c))
          /\ Holders(c) \subseteq Shown(c)
      BY <2>0 DEF SpentInv
    <3>2. IsFiniteSet(Shown(c))
      <4>1. Shown(c) \subseteq Instance \cup {None}
        BY <2>0 DEF Shown, Users, RequestState
      <4>2. IsFiniteSet(Instance \cup {None})
        BY FeeAssumption, FS_AddElement
      <4>3. QED
        BY <4>1, <4>2, FS_Subset
    <3>3. IsFiniteSet(Holders(c)) /\ Cardinality(Holders(c)) <= Cardinality(Shown(c))
      BY <3>1, <3>2, FS_Subset
    <3>4. /\ Cardinality(Users(c)) \in Nat /\ Cardinality(Holders(c)) \in Nat
          /\ Cardinality(Shown(c)) \in Nat
      BY <3>1, <3>2, <3>3, FS_CardinalityType
    <3>5. QED
      BY <2>0, <3>1, <3>3, <3>4 DEF Shown
  <2>6. QED
    BY <2>1, <2>3, <2>4, <2>5 DEF TasksArePaid
<1>2. QED
  BY <1>1, SpecInv, PTL

\* A requester who paid and was answered has a task, or something failed, or
\* the gate had taken the fee before the request was refused behind it, in one
\* of the ways that RefusedBehindGate lists.
THEOREM PaidTheorem == Spec => []PaidIsListed
<1>1. Inv => PaidIsListed
  BY DEF Inv, FeeInv, RequestsInv, RequestInv, PaidIsListed
<1>2. QED
  BY <1>1, SpecInv, PTL

\* Who has the result has paid; who has paid has it, or met a failed call or a
\* restart for each payment; and a call that asks the policy does not pay an
\* executor outside the registry.
THEOREM ReaderTheorem == Spec => []ReaderPaysForResult
<1>1. Inv => ReaderPaysForResult
  <2> SUFFICES ASSUME ReadType, ReaderInv PROVE ReaderPaysForResult
    BY DEF Inv, ReadInv
  <2>1. ReadTypeOK
    BY DEF ReadType, ReadTypeOK, ReaderState
  <2>2. QED
    BY <2>1 DEF ReaderInv, ReaderPaysForResult
<1>2. QED
  BY <1>1, SpecInv, PTL

\* What rounding may make or lose, whatever the price: the fee is half a
\* percent to the nearest stroop, formatting and parsing are inverse, and the
\* shares of a confiscated collateral add up to it within half a cent.
THEOREM AmountsTheorem == Spec => []AmountsAreRounded
<1>1. FeeInv => AmountsAreRounded
  <2> SUFFICES ASSUME FeeInv PROVE FeeIsNearest /\ SharesNearlyAddUp
    BY DEF AmountsAreRounded
  <2>1. price \in Decimal
    BY FeeAssumption DEF FeeInv, FeeType
  <2>2. FeeIsNearest
    <3> SUFFICES ASSUME ValidPrice(price),
                        NEW p, p = parseUsdcDecimalToStroops(price)
                 PROVE  /\ 1000 * fee - 5 * p \in -499..500
                        /\ \A n \in {fee, p} : parseUsdcDecimalToStroops(formatUsdcStroopsToDecimal(n)) = n
      BY DEF FeeIsNearest
    <3>1. p \in Nat
      BY <2>1, ParseNat DEF ValidPrice
    <3>2. fee = calculateListingFeeStroops(p)
      BY DEF fee
    <3>3. fee \in Nat /\ 1000 * fee - 5 * p \in -499..500
      BY SMTT(30), <3>1, <3>2, FeeNearest
    <3>4. QED
      BY <3>1, <3>3, RoundTrip
  <2>3. SharesNearlyAddUp
    <3> SUFFICES ASSUME Parses(price),
                        NEW c, c = parseUsdcDecimalToStroops(price),
                        NEW s \in confiscateShares(c)
                 PROVE  /\ 2 * (s.requester + s.marketplace - c) \in -Cent..Cent
                        /\ c % Cent = 0 => s.requester + s.marketplace = c
      BY DEF SharesNearlyAddUp
    <3>1. c \in Nat
      BY <2>1, ParseNat
    <3>2. QED
      BY <3>1, SharesNear
  <2>4. QED
    BY <2>2, <2>3
<1>2. QED
  BY <1>1, SpecInv, PTL DEF Inv


-----------------------------------------------------------------------------
(* One fee for one key on the local network.  A key that no two requests   *)
(* used at the same time has at most one request in flight; what it has    *)
(* been charged beyond the failures is one fee, and that one has a request *)
(* about to store its answer, or the answer is stored.                     *)

Serving == {"save", "emit", "store"}

\* A request that goes on to pay, or has just paid, found no answer stored.
Fresh(n, p) == p \in {"charge", "save", "emit"} => n = NoAnswer

\* The one fee that needs no failure, of a key with stored answer n or a
\* request at p.
Covered(n, p) == IF n # NoAnswer \/ p \in Serving THEN 1 ELSE 0

KeyOK(k) ==
    /\ \A q, r \in Request : InFlight(q) /\ InFlight(r) /\ req[q].key = k /\ req[r].key = k => q = r
    /\ \A q \in Request : req[q].key = k => Fresh(records[k], req[q].pc)
    /\ Cardinality(FeesOf(k)) <= failures + restarts +
         (IF records[k] # NoAnswer \/ \E q \in Request : req[q].key = k /\ req[q].pc \in Serving
            THEN 1 ELSE 0)

KeyInv ==
    network = "local" /\ database =>
      /\ \A k \in IdemKey : IsFiniteSet(FeesOf(k))
      /\ \A q \in Request : req[q].pc = "store" => req[q].status # NoAnswer
      /\ \A k \in IdemKey \ overlap : KeyOK(k)

\* What a fee of a key is, before and after a step.
LEMMA FeePairs ==
    /\ \A k, x : x \in FeesOf(k) <=>
         \E q \in Request : req[q].key = k /\ x \in {q} \X (1..charged[q])
    /\ \A k, x : x \in FeesOf(k)' <=>
         \E q \in Request : req'[q].key = k /\ x \in {q} \X (1..charged'[q])
BY DEF FeesOf

\* A step of request q on the local network.
Serves(q) ==
    /\ \A r \in Request \ {q} : req'[r] = req[r] /\ charged'[r] = charged[r]
    /\ req'[q].key = req[q].key /\ InFlight(q)
    /\ charged'[q] \in {charged[q], charged[q] + 1}
    /\ failures' \in {failures, failures + 1}
    /\ UNCHANGED <<network, database, overlap, restarts>>
    /\ \A k \in IdemKey \ {req[q].key} : records'[k] = records[k]
    /\ req'[q].pc = "store" => req'[q].status # NoAnswer
    /\ Fresh(records[req[q].key], req[q].pc) =>
         /\ Fresh(records'[req[q].key], req'[q].pc)
         /\ charged'[q] + failures + Covered(records[req[q].key], req[q].pc)
              <= charged[q] + failures' + Covered(records'[req[q].key], req'[q].pc)

\* The fees of the other keys stay, those of its own grow by what it pays.
LEMMA FeesGrow ==
    ASSUME FeeInv, NEW q \in Request, Serves(q), NEW k \in IdemKey, IsFiniteSet(FeesOf(k))
    PROVE  /\ IsFiniteSet(FeesOf(k)')
           /\ k # req[q].key => FeesOf(k)' = FeesOf(k)
           /\ Cardinality(FeesOf(k)') <= Cardinality(FeesOf(k)) + (charged'[q] - charged[q])
           /\ Cardinality(FeesOf(k)) \in Nat /\ Cardinality(FeesOf(k)') \in Nat
<1>0. charged[q] \in Nat /\ Cardinality(FeesOf(k)) \in Nat
  BY FS_CardinalityType DEF FeeInv, FeeType
<1>1. \A r \in Request : req'[r].key = req[r].key
  BY DEF Serves
<1>2. CASE k # req[q].key \/ charged'[q] = charged[q]
  <2>1. \A x : x \in FeesOf(k)' <=> x \in FeesOf(k)
    BY <1>1, <1>2, FeePairs DEF Serves
  <2>2. FeesOf(k)' = FeesOf(k)
    BY <2>1
  <2>3. charged'[q] - charged[q] \in Nat
    BY <1>0 DEF Serves
  <2>4. QED
    BY <1>0, <2>2, <2>3
<1>3. CASE k = req[q].key /\ charged'[q] = charged[q] + 1
  <2>1. PICK y : y = <<q, charged[q] + 1>>
    OBVIOUS
  <2>2. \A x : x \in {q} \X (1..charged'[q]) <=> x \in {q} \X (1..charged[q]) \/ x = y
    <3>1. 1..charged'[q] = (1..charged[q]) \cup {charged[q] + 1}
      BY <1>0, <1>3
    <3>2. QED
      BY <2>1, <3>1
  <2>3. FeesOf(k)' = FeesOf(k) \cup {y}
    <3>1. \A r \in Request \ {q} : charged'[r] = charged[r]
      BY DEF Serves
    <3>2. \A x : x \in FeesOf(k)' <=> x \in FeesOf(k) \/ x = y
      BY <1>1, <1>3, <2>2, <3>1, FeePairs
    <3>3. QED
      BY <3>2
  <2>4. /\ IsFiniteSet(FeesOf(k) \cup {y})
        /\ Cardinality(FeesOf(k) \cup {y}) = IF y \in FeesOf(k) THEN Cardinality(FeesOf(k))
                                                               ELSE Cardinality(FeesOf(k)) + 1
    BY FS_AddElement
  <2>5. QED
    BY <1>0, <1>3, <2>3, <2>4
<1>4. QED
  BY <1>2, <1>3 DEF Serves

\* Such a step keeps the invariant of the keys.
LEMMA ServesKeeps ==
    ASSUME FeeInv, KeyInv, NEW q \in Request, Serves(q), network = "local", database
    PROVE  KeyInv'
<1>0. /\ req \in [Request -> RequestState] /\ failures \in Nat /\ restarts \in Nat
      /\ charged[q] \in Nat /\ records \in [IdemKey -> Nat]
  BY DEF FeeInv, FeeType
<1>1. \A k \in IdemKey : IsFiniteSet(FeesOf(k)')
  BY FeesGrow DEF KeyInv
<1>2. \A r \in Request : req'[r].pc = "store" => req'[r].status # NoAnswer
  BY DEF KeyInv, Serves
<1>3. ASSUME NEW k \in IdemKey \ overlap'
      PROVE  KeyOK(k)'
  <2>0. k \in IdemKey /\ k \notin overlap /\ KeyOK(k)
    BY <1>3 DEF KeyInv, Serves
  <2>1. \A r \in Request : /\ req'[r].key = req[r].key
                           /\ r # q => req'[r] = req[r]
                           /\ InFlight(r)' => InFlight(r)
    BY DEF Serves, InFlight
  <2>2. \A p, r \in Request : InFlight(p)' /\ InFlight(r)' /\ req'[p].key = k /\ req'[r].key = k => p = r
    BY <2>0, <2>1 DEF KeyOK
  <2>3. /\ IsFiniteSet(FeesOf(k)) /\ k # req[q].key => FeesOf(k)' = FeesOf(k)
        /\ Cardinality(FeesOf(k)') <= Cardinality(FeesOf(k)) + (charged'[q] - charged[q])
        /\ Cardinality(FeesOf(k)) \in Nat /\ Cardinality(FeesOf(k)') \in Nat
    BY <2>0, FeesGrow DEF KeyInv
  <2>4. CASE k # req[q].key
    <3>1. records'[k] = records[k]
      BY <2>0, <2>4 DEF Serves
    <3>2. \A r \in Request : req'[r].key = k => Fresh(records'[k], req'[r].pc)
      BY <2>0, <2>1, <2>4, <3>1 DEF KeyOK
    <3>3. (\E r \in Request : req'[r].key = k /\ req'[r].pc \in Serving) <=>
            (\E r \in Request : req[r].key = k /\ req[r].pc \in Serving)
      BY <2>1, <2>4
    <3>4. restarts' = restarts /\ failures' \in Nat /\ failures' >= failures
      BY <1>0 DEF Serves
    <3>5. Cardinality(FeesOf(k)') = Cardinality(FeesOf(k))
      <4>1. FeesOf(k)' = FeesOf(k)
        BY <2>0, <2>4, FeesGrow DEF KeyInv
      <4>2. QED
        BY <4>1
    <3>6. Cardinality(FeesOf(k)') <= failures' + restarts' +
            (IF records'[k] # NoAnswer \/ \E r \in Request : req'[r].key = k /\ req'[r].pc \in Serving
               THEN 1 ELSE 0)
      BY <1>0, <2>0, <2>3, <3>1, <3>3, <3>4, <3>5 DEF KeyOK
    <3>7. QED
      BY <2>2, <3>2, <3>6 DEF KeyOK
  <2>5. CASE k = req[q].key
    <3>1. \A r \in Request \ {q} : req[r].key = k => req[r].pc \in {"idle", "end"}
      <4>1. InFlight(q)
        BY DEF Serves
      <4>2. QED
        BY <2>0, <2>5, <4>1 DEF KeyOK, InFlight
    <3>2. (\E r \in Request : req[r].key = k /\ req[r].pc \in Serving) <=> req[q].pc \in Serving
      BY <2>5, <3>1 DEF Serving
    <3>3. (\E r \in Request : req'[r].key = k /\ req'[r].pc \in Serving) <=> req'[q].pc \in Serving
      BY <2>1, <2>5, <3>1 DEF Serving
    <3>4. Fresh(records[k], req[q].pc)
      BY <2>0, <2>5 DEF KeyOK
    <3>5. /\ Fresh(records'[k], req'[q].pc)
          /\ charged'[q] + failures + Covered(records[k], req[q].pc)
               <= charged[q] + failures' + Covered(records'[k], req'[q].pc)
      BY <2>5, <3>4 DEF Serves
    <3>6. \A r \in Request : req'[r].key = k => Fresh(records'[k], req'[r].pc)
      BY <2>1, <3>1, <3>5 DEF Fresh
    <3>7. Cardinality(FeesOf(k)) <= failures + restarts + Covered(records[k], req[q].pc)
      BY <2>0, <3>2 DEF KeyOK, Covered
    <3>8. /\ Covered(records[k], req[q].pc) \in Nat /\ Covered(records'[k], req'[q].pc) \in Nat
          /\ failures' \in Nat /\ charged'[q] \in Nat /\ restarts' = restarts
      BY <1>0 DEF Covered, Serves
    <3>9. Cardinality(FeesOf(k)') <= failures' + restarts' + Covered(records'[k], req'[q].pc)
      BY <1>0, <2>3, <3>5, <3>7, <3>8
    <3>10. Cardinality(FeesOf(k)') <= failures' + restarts' +
             (IF records'[k] # NoAnswer \/ \E r \in Request : req'[r].key = k /\ req'[r].pc \in Serving
                THEN 1 ELSE 0)
      BY <3>3, <3>9 DEF Covered
    <3>11. QED
      BY <2>2, <3>6, <3>10 DEF KeyOK
  <2>6. QED
    BY <2>4, <2>5
<1>4. QED
  BY <1>1, <1>2, <1>3 DEF KeyInv

\* The steps of a request on the local network are such steps.
LEMMA LocalServes ==
    ASSUME FeeInv, KeyInv, NEW q \in Request, Serve(q), network = "local", database,
           restarts' = restarts
    PROVE  Serves(q)
<1>0. /\ req \in [Request -> RequestState] /\ charged \in [Request -> Nat]
      /\ failures \in Nat /\ charged[q] \in Nat /\ records \in [IdemKey -> Nat]
      /\ LocalInv(q) /\ RequestInv(q)
  BY DEF FeeInv, FeeType, RequestsInv
<1>1. req[q].pc \notin {"load", "gate", "auth"}
  BY <1>0 DEF LocalInv
<1>2. ASSUME NEW p, NEW s, Moved(q, p, s), records' = records, charged' = charged,
             UNCHANGED <<network, database, overlap>>, InFlight(q), failures' \in {failures, failures + 1},
             p = "store" => s # NoAnswer,
             Fresh(records[req[q].key], req[q].pc) =>
               /\ Fresh(records[req[q].key], p)
               /\ failures + Covered(records[req[q].key], req[q].pc)
                    <= failures' + Covered(records[req[q].key], p)
      PROVE  Serves(q)
  <2>1. failures' \in Nat /\ \A n, l : Covered(n, l) \in Nat
    BY <1>0, <1>2 DEF Covered
  <2>2. req'[q].pc = p /\ req'[q].status = s /\ req'[q].key = req[q].key
    BY <1>2 DEF Moved
  <2>3. Fresh(records[req[q].key], req[q].pc) =>
          charged'[q] + failures + Covered(records[req[q].key], req[q].pc)
            <= charged[q] + failures' + Covered(records'[req[q].key], req'[q].pc)
    BY <1>0, <1>2, <2>1, <2>2
  <2>4. QED
    BY <1>2, <2>2, <2>3 DEF Serves, Moved
<1>3. CASE find(q)
  <2>1. /\ UNCHANGED <<network, database, records, charged, overlap>> /\ req[q].pc = "find"
        /\ InFlight(q) /\ failures' \in {failures, failures + 1}
    BY <1>3 DEF find, configVars, Failure, InFlight
  <2>2. CASE Replay(q) /\ req[q].key # None /\ records[req[q].key] # NoAnswer /\ failures' = failures
    <3>1. req[q].key \in IdemKey
      BY <1>0, <2>2 DEF RequestState
    <3>2. /\ \A r \in Request \ {q} : req'[r] = req[r]
          /\ req'[q].pc = "end" /\ req'[q].key = req[q].key
      BY <1>0, <2>1, <2>2, <3>1, ReplayFields
    <3>3. /\ Fresh(records[req[q].key], req'[q].pc)
          /\ Covered(records[req[q].key], req'[q].pc) = Covered(records[req[q].key], req[q].pc)
      BY <2>2, <3>2 DEF Fresh, Covered
    <3>4. QED
      BY <1>0, <2>1, <2>2, <3>2, <3>3 DEF Serves, Covered
  <2>3. ASSUME NEW u \in {400, 409, 500}, Finish(q, u)
        PROVE  Serves(q)
    <3>1. Moved(q, "end", u)
      BY <1>0, <2>3, FinishFields
    <3>2. /\ Fresh(records[req[q].key], "end")
          /\ Covered(records[req[q].key], req[q].pc) = Covered(records[req[q].key], "end")
          /\ Covered(records[req[q].key], "end") \in Nat
      BY <2>1 DEF Fresh, Covered, Serving
    <3>3. failures + Covered(records[req[q].key], req[q].pc)
            <= failures' + Covered(records[req[q].key], "end")
      BY <1>0, <2>1, <3>2
    <3>4. QED
      BY <1>2, <2>1, <3>1, <3>2, <3>3
  <2>4. CASE records[req[q].key] = NoAnswer /\ Handler(q) /\ failures' = failures
    <3>1. \/ Respond(q, 503) \/ Respond(q, 400) \/ Goto(q, "charge")
      BY <2>4 DEF Handler
    <3>2. \/ Moved(q, "end", 503) \/ Moved(q, "store", 400) \/ Moved(q, "charge", req[q].status)
      BY <1>0, <3>1, RespondFields, StoredAnswers, GotoFields DEF FeeLabel
    <3>3. \A p \in {"end", "store", "charge"} :
            /\ Fresh(records[req[q].key], p)
            /\ failures + Covered(records[req[q].key], req[q].pc)
                 <= failures' + Covered(records[req[q].key], p)
      BY <1>0, <2>1, <2>4 DEF Fresh, Covered, Serving
    <3>4. 503 # NoAnswer /\ 400 # NoAnswer
      BY DEF NoAnswer
    <3>5. QED
      BY <1>2, <2>1, <3>2, <3>3, <3>4
  <2>5. QED
    BY <1>3, <2>2, <2>3, <2>4 DEF find, Lookup
<1>4. CASE chargeListingFee(q)
  <2>1. UNCHANGED <<network, database, records, overlap, failures>> /\ req[q].pc = "charge" /\ InFlight(q)
    BY <1>4 DEF chargeListingFee, configVars, InFlight
  <2>2. CASE charged' = [charged EXCEPT ![q] = @ + 1] /\ Goto(q, "save")
    <3>1. Moved(q, "save", req[q].status)
      BY <1>0, <2>2, GotoFields DEF FeeLabel
    <3>2. charged'[q] = charged[q] + 1 /\ \A r \in Request \ {q} : charged'[r] = charged[r]
      BY <1>0, <2>2
    <3>3. Fresh(records[req[q].key], req[q].pc) =>
            /\ Fresh(records[req[q].key], "save")
            /\ Covered(records[req[q].key], req[q].pc) = 0 /\ Covered(records[req[q].key], "save") = 1
      BY <2>1 DEF Fresh, Covered, Serving
    <3>4. QED
      BY <1>0, <2>1, <3>1, <3>2, <3>3 DEF Serves, Moved
  <2>3. CASE Respond(q, 402) /\ UNCHANGED charged
    <3>1. Moved(q, "store", 402)
      BY <1>0, <2>3, RespondFields, StoredAnswers
    <3>2. Fresh(records[req[q].key], req[q].pc) =>
            /\ Fresh(records[req[q].key], "store")
            /\ failures + Covered(records[req[q].key], req[q].pc)
                 <= failures' + Covered(records[req[q].key], "store")
      BY <1>0, <2>1 DEF Fresh, Covered, Serving
    <3>3. QED
      BY <1>2, <2>1, <2>3, <3>1, <3>2 DEF NoAnswer
  <2>4. QED
    BY <1>4, <2>2, <2>3 DEF chargeListingFee
<1>5. CASE chargeListingFeeFails(q)
  <2>1. /\ UNCHANGED <<network, database, records, overlap>> /\ req[q].pc = "charge" /\ InFlight(q)
        /\ failures' = failures + 1
    BY <1>5 DEF chargeListingFeeFails, configVars, InFlight, Failure
  <2>2. /\ charged'[q] \in {charged[q], charged[q] + 1}
        /\ \A r \in Request \ {q} : charged'[r] = charged[r]
    BY <1>0, <1>5 DEF chargeListingFeeFails
  <2>3. /\ \A r \in Request \ {q} : req'[r] = req[r]
        /\ req'[q].key = req[q].key /\ req'[q].pc \in {"charge", "end"}
    <3>1. CASE req[q].attempt < Retries /\ req' = [req EXCEPT ![q].attempt = @ + 1]
      BY <1>0, <2>1, <3>1, AttemptFields
    <3>2. CASE Respond(q, 502)
      BY <1>0, <3>2, RespondFields, StoredAnswers DEF Moved
    <3>3. QED
      BY <1>5, <3>1, <3>2 DEF chargeListingFeeFails
  <2>4. Fresh(records[req[q].key], req[q].pc) =>
          /\ Fresh(records[req[q].key], req'[q].pc)
          /\ Covered(records[req[q].key], req[q].pc) = 0
          /\ Covered(records[req[q].key], req'[q].pc) = 0
    BY <2>1, <2>3 DEF Fresh, Covered, Serving
  <2>5. QED
    BY <1>0, <2>1, <2>2, <2>3, <2>4 DEF Serves
<1>6. ASSUME NEW p, NEW t, NEW n \in Nat, n # NoAnswer,
             req[q].pc = p, p \in {"save", "emit"}, t \in {"emit", "store"},
             UNCHANGED <<network, database, overlap, records, charged>>,
             \/ Moved(q, t, IF t = "emit" THEN req[q].status ELSE n) /\ failures' = failures
             \/ Moved(q, "end", 500) /\ failures' = failures + 1
      PROVE  Serves(q)
  <2>1. InFlight(q)
    BY <1>6 DEF InFlight
  <2>2. CASE Moved(q, t, IF t = "emit" THEN req[q].status ELSE n) /\ failures' = failures
    <3>1. Fresh(records[req[q].key], req[q].pc) =>
            /\ Fresh(records[req[q].key], t)
            /\ failures + Covered(records[req[q].key], req[q].pc)
                 <= failures' + Covered(records[req[q].key], t)
      BY <1>0, <1>6, <2>2 DEF Fresh, Covered, Serving
    <3>2. QED
      BY <1>2, <1>6, <2>1, <2>2, <3>1
  <2>3. CASE Moved(q, "end", 500) /\ failures' = failures + 1
    <3>1. Fresh(records[req[q].key], req[q].pc) =>
            /\ Fresh(records[req[q].key], "end")
            /\ failures + Covered(records[req[q].key], req[q].pc)
                 <= failures' + Covered(records[req[q].key], "end")
      BY <1>0, <1>6, <2>3 DEF Fresh, Covered, Serving
    <3>2. QED
      BY <1>2, <1>6, <2>1, <2>3, <3>1
  <2>4. QED
    BY <1>6, <2>2, <2>3
<1>7. CASE save(q)
  <2>1. UNCHANGED <<network, database, records, charged, overlap>> /\ req[q].pc = "save"
    BY <1>7 DEF save, configVars
  <2>2. \/ Moved(q, "emit", req[q].status) /\ failures' = failures
        \/ Moved(q, "end", 500) /\ failures' = failures + 1
    BY <1>0, <1>7, GotoFields, RespondFields, StoredAnswers DEF save, Failure, FeeLabel
  <2>3. QED
    BY <1>6, <2>1, <2>2 DEF NoAnswer
<1>8. CASE emit(q)
  <2>1. UNCHANGED <<network, database, records, charged, overlap>> /\ req[q].pc = "emit"
    BY <1>8 DEF emit, configVars
  <2>2. \/ Moved(q, "store", 201) /\ failures' = failures
        \/ Moved(q, "end", 500) /\ failures' = failures + 1
    BY <1>0, <1>8, RespondFields, StoredAnswers DEF emit, Failure
  <2>3. QED
    BY <1>6, <2>1, <2>2 DEF NoAnswer
<1>9. CASE insert(q)
  <2>1. /\ UNCHANGED <<network, database, charged, overlap>> /\ req[q].pc = "store" /\ Goto(q, "end")
        /\ InFlight(q)
    BY <1>9 DEF insert, configVars, InFlight
  <2>2. Moved(q, "end", req[q].status)
    BY <1>0, <2>1, GotoFields DEF FeeLabel
  <2>3. req[q].status # NoAnswer /\ req[q].key \in IdemKey
    BY <1>0, <2>1 DEF KeyInv, RequestInv
  <2>4. /\ \A k \in IdemKey \ {req[q].key} : records'[k] = records[k]
        /\ \/ records'[req[q].key] # NoAnswer /\ failures' = failures
           \/ failures' = failures + 1
    BY <1>0, <1>9, <2>3 DEF insert, Failure
  <2>5. /\ Fresh(records'[req[q].key], "end")
        /\ failures + Covered(records[req[q].key], req[q].pc)
             <= failures' + Covered(records'[req[q].key], "end")
    BY <1>0, <2>1, <2>4 DEF Fresh, Covered, Serving
  <2>6. QED
    <3>1. failures' \in Nat /\ \A n, l : Covered(n, l) \in Nat
      BY <1>0, <2>4 DEF Covered
    <3>2. QED
      BY <1>0, <2>1, <2>2, <2>4, <2>5, <3>1 DEF Serves, Moved
<1>10. CASE transferFails(q)
  <2>1. /\ UNCHANGED <<network, database, records, charged, overlap>> /\ req[q].pc = "charge"
        /\ InFlight(q) /\ failures' = failures + 1
    BY <1>10 DEF transferFails, configVars, InFlight, Failure
  <2>2. Moved(q, "save", req[q].status)
    BY <1>0, <1>10, GotoFields DEF transferFails, FeeLabel
  <2>3. Fresh(records[req[q].key], req[q].pc) =>
          /\ Fresh(records[req[q].key], "save")
          /\ failures + Covered(records[req[q].key], req[q].pc)
               <= failures' + Covered(records[req[q].key], "save")
    BY <1>0, <2>1 DEF Fresh, Covered, Serving
  <2>4. QED
    BY <1>2, <2>1, <2>2, <2>3
<1>11. QED
  BY <1>1, <1>3, <1>4, <1>5, <1>7, <1>8, <1>9, <1>10 DEF Serve, getMppx, charge, signatureAuth

\* Fees that are neither paid nor moved to another key are the same fees.
LEMMA SameFees ==
    ASSUME NEW k, \A q \in Request : /\ charged'[q] = charged[q]
                                     /\ (req'[q].key = k <=> req[q].key = k) \/ charged[q] = 0
    PROVE  FeesOf(k)' = FeesOf(k)
<1>1. 1..0 = {}
  OBVIOUS
<1>2. \A x : x \in FeesOf(k)' <=> x \in FeesOf(k)
  BY <1>1, FeePairs
<1>3. QED
  BY <1>2

\* A request that arrives has paid nothing; it is the only one in flight with
\* its key, or the key is one that overlaps.
LEMMA ReceiveKeeps ==
    ASSUME FeeInv, KeyInv, NEW q \in Request, Receive(q), network = "local", database,
           restarts' = restarts
    PROVE  KeyInv'
<1>0. /\ req \in [Request -> RequestState] /\ charged \in [Request -> Nat]
      /\ LocalInv(q) /\ req[q].pc = "idle" /\ charged[q] = 0
      /\ UNCHANGED <<network, database, records, charged, failures>>
  BY DEF FeeInv, FeeType, RequestsInv, LocalInv, Receive, Challenged, configVars
<1>1. PICK i \in Instance, j \in IdemKey \cup {None} :
        /\ req' = [req EXCEPT ![q] = [NoRequest EXCEPT !.at = i, !.key = j, !.pc = "find"]]
        /\ overlap' = IF j # None /\ InUse(j) THEN overlap \cup {j} ELSE overlap
  BY DEF Receive, Arrival
<1>2. /\ req'[q].pc = "find" /\ req'[q].key = j
      /\ \A r \in Request \ {q} : req'[r] = req[r]
  BY <1>0, <1>1 DEF NoRequest
<1>3. \A k \in IdemKey : FeesOf(k)' = FeesOf(k)
  <2>1. ASSUME NEW k \in IdemKey
        PROVE  FeesOf(k)' = FeesOf(k)
    BY <1>0, <1>2, SameFees
  <2>2. QED
    BY <2>1
<1>4. ASSUME NEW k \in IdemKey \ overlap'
      PROVE  KeyOK(k)'
  <2>0. KeyOK(k) /\ (k = j => \A r \in Request : InFlight(r) => req[r].key # j)
    BY <1>1, <1>4, FeeAssumption DEF KeyInv, InUse
  <2>1. \A p, r \in Request : InFlight(p)' /\ InFlight(r)' /\ req'[p].key = k /\ req'[r].key = k => p = r
    BY <1>2, <2>0 DEF KeyOK, InFlight
  <2>2. \A r \in Request : req'[r].key = k => Fresh(records'[k], req'[r].pc)
    BY <1>0, <1>2, <2>0 DEF KeyOK, Fresh
  <2>3. (\E r \in Request : req'[r].key = k /\ req'[r].pc \in Serving) <=>
          (\E r \in Request : req[r].key = k /\ req[r].pc \in Serving)
    BY <1>0, <1>2 DEF Serving
  <2>4. QED
    BY <1>0, <1>3, <2>0, <2>1, <2>2, <2>3 DEF KeyOK
<1>5. QED
  BY <1>0, <1>2, <1>3, <1>4 DEF KeyInv

\* A restart ends the requests in flight at one instance; the fee of the one
\* that was about to store its answer now counts against the restart.
LEMMA RestartKeeps ==
    ASSUME FeeInv, KeyInv, NEW i \in Instance, FeeRestart(i), restarts' = restarts + 1, failures' = failures
    PROVE  KeyInv'
<1> SUFFICES ASSUME network = "local", database
             PROVE  KeyInv'
  BY DEF FeeRestart, configVars, KeyInv
<1>0. /\ req \in [Request -> RequestState] /\ charged \in [Request -> Nat]
      /\ records \in [IdemKey -> Nat]
      /\ failures \in Nat /\ restarts \in Nat
      /\ UNCHANGED <<network, database, records, charged, overlap>>
  BY DEF FeeInv, FeeType, FeeRestart, configVars
<1>1. \A q \in Request : /\ (req'[q] = req[q] \/ req'[q].pc = "end")
                         /\ req'[q].key = req[q].key
  BY <1>0 DEF FeeRestart, RequestState, InFlight
<1>2. \A k \in IdemKey : FeesOf(k)' = FeesOf(k) /\ IsFiniteSet(FeesOf(k))
  <2>1. ASSUME NEW k \in IdemKey
        PROVE  FeesOf(k)' = FeesOf(k)
    BY <1>0, <1>1, SameFees
  <2>2. QED
    BY <2>1 DEF KeyInv
<1>3. ASSUME NEW k \in IdemKey \ overlap'
      PROVE  KeyOK(k)'
  <2>1. KeyOK(k)
    BY <1>0, <1>3 DEF KeyInv
  <2>2. PICK n \in Nat : n = Cardinality(FeesOf(k))
    BY <1>2, FS_CardinalityType
  <2>3. n <= failures + restarts + 1
    BY <1>0, <2>1, <2>2 DEF KeyOK
  <2>4. Cardinality(FeesOf(k)') <= failures' + restarts' +
          (IF records'[k] # NoAnswer \/ \E q \in Request : req'[q].key = k /\ req'[q].pc \in Serving
             THEN 1 ELSE 0)
    BY <1>0, <1>2, <2>2, <2>3
  <2>5. QED
    <3>1. \A q, r \in Request : InFlight(q)' /\ InFlight(r)' /\ req'[q].key = k /\ req'[r].key = k => q = r
      BY <1>1, <2>1 DEF KeyOK, InFlight
    <3>2. \A q \in Request : req'[q].key = k => Fresh(records'[k], req'[q].pc)
      BY <1>0, <1>1, <2>1 DEF KeyOK, Fresh
    <3>3. QED
      BY <2>4, <3>1, <3>2 DEF KeyOK
<1>4. QED
  BY <1>0, <1>1, <1>2, <1>3 DEF KeyInv

\* The answer of another request takes a key that no request uses, or one that
\* overlaps from then on.
LEMMA OthersStoreKeeps ==
    ASSUME FeeInv, KeyInv, NEW j \in IdemKey, OthersStore(j), restarts' = restarts
    PROVE  KeyInv'
<1> SUFFICES ASSUME network = "local", database
             PROVE  KeyInv'
  BY DEF OthersStore, configVars, KeyInv
<1>0. /\ failures \in Nat /\ restarts \in Nat
      /\ records \in [IdemKey -> Nat] /\ records' = [records EXCEPT ![j] = Other]
      /\ UNCHANGED <<network, database, req, charged, failures>>
      /\ overlap \subseteq overlap' /\ (InUse(j) => j \in overlap')
  BY DEF FeeInv, FeeType, OthersStore, configVars
<1>1. \A k \in IdemKey : FeesOf(k)' = FeesOf(k) /\ IsFiniteSet(FeesOf(k))
  BY <1>0 DEF FeesOf, KeyInv
<1>2. ASSUME NEW k \in IdemKey \ overlap'
      PROVE  KeyOK(k)'
  <2>0. KeyOK(k)
    BY <1>0, <1>2 DEF KeyInv
  <2>1. \A q, r \in Request : InFlight(q)' /\ InFlight(r)' /\ req'[q].key = k /\ req'[r].key = k => q = r
    BY <1>0, <2>0 DEF KeyOK, InFlight
  <2>2. CASE k # j
    <3>1. records'[k] = records[k]
      BY <1>0, <2>2
    <3>2. QED
      BY <1>0, <1>1, <2>0, <2>1, <3>1 DEF KeyOK
  <2>3. CASE k = j
    <3>1. \A q \in Request : req[q].key = k => req[q].pc \in {"idle", "end"}
      BY <1>0, <1>2, <2>3 DEF InUse, InFlight
    <3>2. \A q \in Request : req'[q].key = k => Fresh(records'[k], req'[q].pc)
      BY <1>0, <3>1 DEF Fresh
    <3>3. records'[k] # NoAnswer
      BY <1>0, <2>3 DEF Other, NoAnswer
    <3>4. PICK n \in Nat : n = Cardinality(FeesOf(k))
      BY <1>1, FS_CardinalityType
    <3>5. n <= failures + restarts + 1
      BY <1>0, <2>0, <3>4 DEF KeyOK
    <3>6. Cardinality(FeesOf(k)') <= failures' + restarts' + 1
      BY <1>0, <1>1, <3>4, <3>5
    <3>7. QED
      BY <2>1, <3>2, <3>3, <3>6 DEF KeyOK
  <2>4. QED
    BY <2>2, <2>3
<1>3. QED
  BY <1>0, <1>1, <1>2 DEF KeyInv

\* A step that leaves requests and answers alone keeps it; failures elsewhere
\* only add to the bound.
LEMMA OthersKeep ==
    ASSUME FeeInv, KeyInv, UNCHANGED <<network, database, records, req, charged, overlap, restarts>>,
           failures' \in {failures, failures + 1}
    PROVE  KeyInv'
<1> SUFFICES ASSUME network = "local", database
             PROVE  KeyInv'
  BY DEF KeyInv
<1>0. failures \in Nat /\ restarts \in Nat /\ failures' \in Nat /\ failures' >= failures
  BY DEF FeeInv, FeeType
<1>1. \A k \in IdemKey : FeesOf(k)' = FeesOf(k) /\ IsFiniteSet(FeesOf(k))
  BY DEF FeesOf, KeyInv
<1>2. ASSUME NEW k \in IdemKey \ overlap'
      PROVE  KeyOK(k)'
  <2>1. KeyOK(k)
    BY <1>2 DEF KeyInv
  <2>2. PICK n \in Nat : n = Cardinality(FeesOf(k))
    BY <1>1, FS_CardinalityType
  <2>3. Cardinality(FeesOf(k)') <= failures' + restarts' +
          (IF records'[k] # NoAnswer \/ \E q \in Request : req'[q].key = k /\ req'[q].pc \in Serving
             THEN 1 ELSE 0)
    BY <1>0, <1>1, <2>1, <2>2 DEF KeyOK
  <2>4. QED
    BY <2>1, <2>3 DEF KeyOK, InFlight
<1>3. QED
  BY <1>1, <1>2 DEF KeyInv

\* Nothing has been paid at the start.
LEMMA KeyInitInv == FeeInit /\ failures = 0 /\ restarts = 0 => KeyInv
<1> SUFFICES ASSUME FeeInit, failures = 0, restarts = 0
             PROVE  KeyInv
  OBVIOUS
<1>1. \A q \in Request : req[q].pc = "idle" /\ charged[q] = 0
  BY DEF FeeInit, NoRequest
<1>2. ASSUME NEW k \in IdemKey
      PROVE  FeesOf(k) = {}
  <2>1. 1..0 = {}
    OBVIOUS
  <2>2. \A x : x \notin FeesOf(k)
    BY <1>1, <2>1, FeePairs
  <2>3. QED
    BY <2>2
<1>3. \A k \in IdemKey : IsFiniteSet(FeesOf(k)) /\ Cardinality(FeesOf(k)) = 0
  BY <1>2, FS_EmptySet
<1>4. ASSUME NEW k \in IdemKey
      PROVE  KeyOK(k)
  <2>1. records[k] = NoAnswer
    BY DEF FeeInit
  <2>2. ~ \E q \in Request : req[q].key = k /\ req[q].pc \in Serving
    BY <1>1 DEF Serving
  <2>3. QED
    BY <1>1, <1>3, <2>1, <2>2 DEF KeyOK, InFlight, Fresh
<1>5. QED
  BY <1>1, <1>3, <1>4 DEF KeyInv

\* Every step keeps the invariant of the keys.
LEMMA KeyNext == FeeInv /\ KeyInv /\ [Next]_vars => KeyInv'
<1> SUFFICES ASSUME FeeInv, KeyInv, [Next]_vars
             PROVE  KeyInv'
  OBVIOUS
<1>1. CASE Fees
  <2>1. restarts' = restarts /\ FeeStep /\ failures' \in {failures, failures + 1}
    BY <1>1, FeeFailures DEF Fees
  <2>2. network' = network /\ database' = database
    BY <2>1 DEF FeeStep, Serve, Receive, getMppx, charge, signatureAuth, find, chargeListingFee,
       transferFails, chargeListingFeeFails, save, emit, insert, Loaded, Pay, OthersStore, configVars
  <2>3. CASE ~(network = "local" /\ database)
    BY <2>2, <2>3 DEF KeyInv
  <2>4. CASE network = "local" /\ database
    <3>1. ASSUME NEW q \in Request, Receive(q)
          PROVE  KeyInv'
      BY <2>1, <2>4, <3>1, ReceiveKeeps
    <3>2. ASSUME NEW q \in Request, Serve(q)
          PROVE  KeyInv'
      BY <2>1, <2>4, <3>2, LocalServes, ServesKeeps
    <3>3. ASSUME NEW i \in Instance, Loaded(i)
          PROVE  KeyInv'
      BY <2>1, <3>3, OthersKeep DEF Loaded, configVars
    <3>4. ASSUME NEW c \in Credential, Pay(c)
          PROVE  KeyInv'
      BY <2>1, <3>4, OthersKeep DEF Pay, configVars
    <3>5. ASSUME NEW k \in IdemKey, OthersStore(k)
          PROVE  KeyInv'
      BY <2>1, <3>5, OthersStoreKeeps
    <3>6. QED
      BY <2>1, <3>1, <3>2, <3>3, <3>4, <3>5 DEF FeeStep
  <2>5. QED
    BY <2>3, <2>4
<1>2. ASSUME UNCHANGED <<feeVars, restarts>>, failures' \in {failures, failures + 1}
      PROVE  KeyInv'
  BY <1>2, OthersKeep DEF feeVars, configVars
<1>3. CASE Initialized
  BY <1>2, <1>3 DEF Initialized, ReadsOrFails, Failure
<1>4. ASSUME NEW d \in Reader, ReaderSteps(d)
      PROVE  KeyInv'
  BY <1>2, <1>4 DEF ReaderSteps, ReadsOrFails, Failure
<1>5. CASE Around
  BY <1>2, <1>5 DEF Around
<1>6. CASE Restart
  <2>1. PICK i \in Instance : FeeRestart(i)
    BY <1>6 DEF Restart
  <2>2. QED
    BY <1>6, <2>1, RestartKeeps DEF Restart
<1>7. CASE UNCHANGED vars
  BY <1>2, <1>7 DEF vars
<1>8. QED
  BY <1>1, <1>3, <1>4, <1>5, <1>6, <1>7 DEF Next

\* Under one Idempotency-Key that no two requests used at the same time the
\* requester on the local network pays one fee when there is a database, and one more for each failed
\* call or restart: however many requests carry the key.
THEOREM ChargedTheorem == Spec => []ChargedOncePerKey
<1>1. Inv /\ KeyInv => ChargedOncePerKey
  <2> SUFFICES ASSUME FeeInv, KeyInv, network = "local", database,
                      NEW k \in IdemKey \ overlap
               PROVE  Cardinality(FeesOf(k)) <= 1 + failures + restarts
    BY DEF Inv, ChargedOncePerKey
  <2>1. failures \in Nat /\ restarts \in Nat /\ KeyOK(k) /\ IsFiniteSet(FeesOf(k))
    BY DEF FeeInv, FeeType, KeyInv
  <2>2. PICK n \in Nat : n = Cardinality(FeesOf(k))
    BY <2>1, FS_CardinalityType
  <2>3. QED
    BY <2>1, <2>2 DEF KeyOK
<1>2. Init => KeyInv
  BY KeyInitInv DEF Init
<1>3. Inv /\ KeyInv /\ [Next]_vars => KeyInv'
  BY KeyNext DEF Inv
<1>4. QED
  BY <1>1, <1>2, <1>3, SpecInv, PTL DEF Spec

=============================================================================
