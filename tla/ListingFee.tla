----------------------------- MODULE ListingFee -----------------------------
(***************************************************************************)
(* POST /tasks: the listing fee is paid, then the task is listed.  On the  *)
(* local network the handler charges the requester itself, behind the      *)
(* idempotency middleware.  Elsewhere the MPP Charge gate stands in front: *)
(* it asks for a payment, and lets the request on to signatureAuth, to the *)
(* idempotency middleware and to createPaid when it carries one.           *)
(*                                                                         *)
(* All requests are sent by one requester and ask for the same task at     *)
(* price; a retry is another request with the same Idempotency-Key or the  *)
(* same payment credential.  The server may run in several instances: they *)
(* share the database, while the store of the gate is in the memory of     *)
(* each.  Without a database, on the local network only, the middleware is *)
(* a pass-through.  Each await is one action.                              *)
(***************************************************************************)
EXTENDS Amounts, FiniteSets

CONSTANTS
    Request,        \* POST /tasks requests
    IdemKey,        \* values of the Idempotency-Key header
    Credential,     \* payments a requester may make
    Price,          \* values of reservePrice
    Network,        \* values of NETWORK
    Instance,       \* instances of the server
    Retries,        \* retries of withRetry (3)
    MaxFailures,    \* bound: failed calls
    MaxRestarts     \* bound: restarts of the server

None == "none"

ASSUME FeeAssumption ==
    /\ None \notin IdemKey \cup Credential /\ IsFiniteSet(Instance)
    /\ Price \subseteq Decimal
    /\ Network \subseteq {"local", "testnet", "pubnet"}
    /\ Retries \in Nat /\ MaxFailures \in Nat /\ MaxRestarts \in Nat

VARIABLES
    network, paused,    \* NETWORK and PAUSE_NEW_TASKS
    database,           \* is DATABASE_URL set?
    price,              \* reservePrice of the task
    mppx,               \* mppxPromise of the gate factory of each instance
    spent,              \* credentials in its Store.memory()
    records,            \* status stored in idempotency_keys for each key
    req,                \* the requests
    paid,               \* credentials the requester has paid
    charged,            \* history: fees taken by each request
    missed,             \* history: requests that went on after a transfer that failed
    listed,             \* requests whose task is in tasks
    overlap,            \* history: keys two requests used at the same time
    failures, restarts  \* failed calls and restarts so far

gateVars   == <<mppx, spent>>
configVars == <<network, paused, database, price>>
feeVars    == <<configVars, gateVars, records, req, paid, charged, missed, listed, overlap>>

-----------------------------------------------------------------------------
NoAnswer == 0      \* no HTTP status
Other    == 1      \* an answer to another route, another owner or another body

NoRequest == [pc |-> "idle", at |-> None, key |-> None, cred |-> None, attempt |-> 0,
              status |-> NoAnswer, replay |-> FALSE]

InFlight(q) == req[q].pc \notin {"idle", "end"}

FeeInit ==
    /\ network \in Network /\ paused \in BOOLEAN /\ price \in Price
    /\ database \in BOOLEAN /\ (network # "local" => database)
    /\ mppx = [i \in Instance |-> None] /\ spent = [i \in Instance |-> {}] /\ paid = {}
    /\ records = [k \in IdemKey |-> NoAnswer]
    /\ req = [q \in Request |-> NoRequest]
    /\ charged = [q \in Request |-> 0]
    /\ missed = {} /\ listed = {} /\ overlap = {}

Failure == failures < MaxFailures /\ failures' = failures + 1

Goto(q, p) == req' = [req EXCEPT ![q].pc = p]

\* The answer is sent.  An answer that went through the idempotency
\* middleware is stored afterwards, unless it is a 5xx.
Stored(s)     == database /\ s < 500
Finish(q, s)  == req' = [req EXCEPT ![q].pc = "end", ![q].status = s]
Respond(q, s) == req' = [req EXCEPT ![q].pc = IF Stored(s) THEN "store" ELSE "end", ![q].status = s]
Replay(q)     == req' = [req EXCEPT ![q].pc = "end", ![q].status = records[req[q].key],
                                    ![q].replay = TRUE]

\* What the listing costs, in stroops.
fee == calculateListingFeeStroops(parseUsdcDecimalToStroops(price))

-----------------------------------------------------------------------------
(* The request arrives.                                                    *)

\* A request that was challenged is sent again.
Challenged(q) == network # "local" /\ req[q].pc = "end" /\ req[q].status = 402

\* What comes in: at an instance, with an Idempotency-Key or without one, and
\* off the local network with a payment or without one.
Arrival(i, k, c) ==
    LET r == [NoRequest EXCEPT !.at = i, !.key = k] IN
    IF network = "local" THEN [r EXCEPT !.pc = "find"]
    ELSE IF ValidPrice(price) THEN [r EXCEPT !.pc = "load", !.cred = c]
    ELSE [r EXCEPT !.pc = "end", !.status = 400]

InUse(k) == \E r \in Request : InFlight(r) /\ req[r].key = k

Receive(q) ==
    /\ req[q].pc = "idle" \/ Challenged(q)
    /\ \E i \in Instance, k \in IdemKey \cup {None}, c \in paid \cup {None} :
         /\ network = "local" => c = None
         /\ req' = [req EXCEPT ![q] = Arrival(i, k, c)]
         /\ overlap' = IF k # None /\ InUse(k) THEN overlap \cup {k} ELSE overlap
    /\ UNCHANGED <<configVars, gateVars, records, paid, charged, missed, listed, failures>>

-----------------------------------------------------------------------------
(* The MPP Charge gate.                                                    *)

\* getMppx: the first request loads the modules, the others wait for it.
getMppx(q) ==
    LET i == req[q].at IN
    /\ req[q].pc = "load"
    /\ \/ mppx[i] = None /\ mppx' = [mppx EXCEPT ![i] = "loading"] /\ UNCHANGED req
       \/ mppx[i] = "ready" /\ Goto(q, "gate") /\ UNCHANGED mppx
       \/ mppx[i] = "failed" /\ Finish(q, 500) /\ UNCHANGED mppx
    /\ UNCHANGED <<configVars, spent, records, paid, charged, missed, listed, overlap, failures>>

\* mppxPromise settles, and is kept whichever way it does.
Loaded(i) ==
    /\ mppx[i] = "loading"
    /\ \/ mppx' = [mppx EXCEPT ![i] = "ready"] /\ UNCHANGED failures
       \/ mppx' = [mppx EXCEPT ![i] = "failed"] /\ Failure
    /\ UNCHANGED <<configVars, spent, records, req, paid, charged, missed, listed, overlap>>

\* The requester pays after a challenge.
Pay(c) ==
    /\ c \notin paid
    /\ \E q \in Request : Challenged(q)
    /\ paid' = paid \cup {c}
    /\ UNCHANGED <<configVars, gateVars, records, req, charged, missed, listed, overlap, failures>>

\* The gate finds a payment that this instance has not seen.
NewPayment(q) == req[q].cred # None /\ req[q].cred \notin spent[req[q].at]

\* Mutant: the store is not written.
chargeUnspent(q) ==
    /\ req[q].pc = "gate"
    /\ IF NewPayment(q)
         THEN charged' = [charged EXCEPT ![q] = 1] /\ Goto(q, "auth")
         ELSE Finish(q, 402) /\ UNCHANGED charged
    /\ UNCHANGED <<configVars, gateVars, records, paid, missed, listed, overlap, failures>>

\* Without a payment, or with one that is in the store, the answer is a
\* challenge; a new payment enters the store and the request goes on.
charge(q) ==
    /\ req[q].pc = "gate"
    /\ IF NewPayment(q)
         THEN /\ spent' = [spent EXCEPT ![req[q].at] = @ \cup {req[q].cred}]
              /\ charged' = [charged EXCEPT ![q] = 1]
              /\ Goto(q, "auth")
         ELSE Finish(q, 402) /\ UNCHANGED <<spent, charged>>
    /\ UNCHANGED <<configVars, mppx, records, paid, missed, listed, overlap, failures>>

\* signatureAuth: the signature may have grown too old on the way here, or
\* too many have failed; without Redis it cannot be looked at.
signatureAuth(q) ==
    /\ req[q].pc = "auth"
    /\ \/ Goto(q, "find") /\ UNCHANGED failures
       \/ \E s \in {401, 429} : Finish(q, s) /\ UNCHANGED failures
       \/ \E s \in {500, 503} : Finish(q, s) /\ Failure
    /\ UNCHANGED <<configVars, gateVars, records, paid, charged, missed, listed, overlap>>

-----------------------------------------------------------------------------
(* The idempotency middleware and the handlers.                            *)

\* create and createPaid up to their first await.
Handler(q) ==
    IF paused THEN Respond(q, 503)
    ELSE IF ~ValidPrice(price) THEN Respond(q, 400)
    ELSE Goto(q, IF network = "local" THEN "charge" ELSE "save")

\* Mutant: what is stored is not looked at.
findIgnored(q) ==
    /\ req[q].pc = "find"
    /\ Handler(q)
    /\ UNCHANGED <<configVars, gateVars, records, paid, charged, missed, listed, overlap, failures>>

\* The lookup of the middleware: no key, a key of another request, an answer
\* to replay, or the way on.
Lookup(q) ==
    IF ~database THEN Handler(q)
    ELSE IF req[q].key = None THEN Finish(q, 400)
    ELSE IF records[req[q].key] = NoAnswer THEN Handler(q)
    ELSE IF records[req[q].key] = Other THEN Finish(q, 409)
    ELSE Replay(q)

find(q) ==
    /\ req[q].pc = "find"
    /\ \/ Lookup(q) /\ UNCHANGED failures
       \/ database /\ req[q].key # None /\ Finish(q, 500) /\ Failure
    /\ UNCHANGED <<configVars, gateVars, records, paid, charged, missed, listed, overlap>>

\* Mutant: the balance that is left is found not to suffice.
chargeThenCheck(q) ==
    /\ req[q].pc = "charge"
    /\ charged' = [charged EXCEPT ![q] = @ + 1]
    /\ Goto(q, "save") \/ Respond(q, 402)
    /\ UNCHANGED <<configVars, gateVars, records, paid, missed, listed, overlap, failures>>

\* The transfer of the fee is sent and paid; or the balance does not suffice.
chargeListingFee(q) ==
    /\ req[q].pc = "charge"
    /\ \/ charged' = [charged EXCEPT ![q] = @ + 1] /\ Goto(q, "save")
       \/ Respond(q, 402) /\ UNCHANGED charged
    /\ UNCHANGED <<configVars, gateVars, records, paid, missed, listed, overlap, failures>>

\* The transaction is included and fails: signAndSend returns it as it
\* returns one that has moved the fee, and its result is not looked at.
transferFails(q) ==
    /\ req[q].pc = "charge" /\ Failure
    /\ missed' = missed \cup {q} /\ Goto(q, "save")
    /\ UNCHANGED <<configVars, gateVars, records, paid, charged, listed, overlap>>

\* A ChargeNetworkError, before the transfer or after it: a transient one is
\* retried, transfer included, until the retries are used up.
chargeListingFeeFails(q) ==
    /\ req[q].pc = "charge" /\ Failure
    /\ \/ charged' = [charged EXCEPT ![q] = @ + 1]
       \/ UNCHANGED charged
    /\ \/ req[q].attempt < Retries /\ req' = [req EXCEPT ![q].attempt = @ + 1]
       \/ Respond(q, 502)
    /\ UNCHANGED <<configVars, gateVars, records, paid, missed, listed, overlap>>

\* saveAndPublish: the row is written; the feed's errors are caught.
save(q) ==
    /\ req[q].pc = "save"
    /\ \/ listed' = listed \cup {q} /\ Goto(q, "emit") /\ UNCHANGED failures
       \/ Failure /\ Respond(q, 500) /\ UNCHANGED listed
    /\ UNCHANGED <<configVars, gateVars, records, paid, charged, missed, overlap>>

\* task_created goes to the outbox, and the requester is answered.
emit(q) ==
    /\ req[q].pc = "emit"
    /\ \/ Respond(q, 201) /\ UNCHANGED failures
       \/ Failure /\ Respond(q, 500)
    /\ UNCHANGED <<configVars, gateVars, records, paid, charged, missed, listed, overlap>>

\* On 'finish' the answer is inserted; an error, the key's own row among
\* them, is swallowed.
insert(q) ==
    /\ req[q].pc = "store"
    /\ Goto(q, "end")
    /\ \/ /\ records' = [records EXCEPT ![req[q].key] = IF @ = NoAnswer THEN req[q].status ELSE @]
          /\ UNCHANGED failures
       \/ Failure /\ UNCHANGED records
    /\ UNCHANGED <<configVars, gateVars, paid, charged, missed, listed, overlap>>

\* The key is stored for a request to another route, of another requester or
\* with another body.
OthersStore(k) ==
    /\ database /\ records[k] = NoAnswer
    /\ records' = [records EXCEPT ![k] = Other]
    /\ overlap' = IF InUse(k) THEN overlap \cup {k} ELSE overlap
    /\ UNCHANGED <<configVars, gateVars, req, paid, charged, missed, listed, failures>>

\* An instance ends with the requests it serves and with what it remembers.
FeeRestart(i) ==
    /\ mppx' = [mppx EXCEPT ![i] = None] /\ spent' = [spent EXCEPT ![i] = {}]
    /\ req' = [q \in Request |->
                 IF InFlight(q) /\ req[q].at = i THEN [req[q] EXCEPT !.pc = "end"] ELSE req[q]]
    /\ UNCHANGED <<configVars, records, paid, charged, missed, listed, overlap>>

Serve(q) ==
    \/ getMppx(q) \/ charge(q) \/ signatureAuth(q) \/ find(q)
    \/ chargeListingFee(q) \/ transferFails(q) \/ chargeListingFeeFails(q)
    \/ save(q) \/ emit(q) \/ insert(q)

FeeStep ==
    \/ \E q \in Request : Receive(q) \/ Serve(q)
    \/ \E i \in Instance : Loaded(i)
    \/ \E c \in Credential : Pay(c)
    \/ \E k \in IdemKey : OthersStore(k)

-----------------------------------------------------------------------------
(* Properties.                                                             *)

\* Type invariant: every variable of the fee route holds a value of its type.
FeeTypeOK ==
    /\ network \in Network /\ paused \in BOOLEAN /\ database \in BOOLEAN /\ price \in Price
    /\ mppx \in [Instance -> {None, "loading", "ready", "failed"}]
    /\ spent \in [Instance -> SUBSET paid] /\ paid \subseteq Credential
    /\ \A q \in Request : req[q].attempt \in 0..Retries /\ req[q].at \in Instance \cup {None}
    /\ charged \in [Request -> 0..(Retries + 1)]
    /\ listed \cup missed \subseteq Request /\ overlap \subseteq IdemKey

\* The requests that were let through for a payment.
Users(c) == {q \in Request : charged[q] > 0 /\ req[q].cred = c}

\* A task is listed against a fee, but for the tasks on the local network
\* whose transfer failed on the chain: each takes one such failure.  One
\* payment lets one request through at each instance it is presented to, and
\* one more for each restart, because the stores of the gate are in memory.
TasksArePaid ==
    /\ FeeTypeOK
    /\ Cardinality({q \in listed : charged[q] = 0}) <= failures
    /\ network # "local" => \A q \in listed : charged[q] > 0
    /\ \A c \in Credential :
         Cardinality(Users(c)) <= Cardinality({req[q].at : q \in Users(c)}) + restarts

\* Publishing a task pays its listing fee.  The code lists it as well when the
\* transfer was included and failed: chargeListingFee does not look at the
\* result of the transaction it has sent.
ListedIsPaid == \A q \in listed : charged[q] > 0

\* No call that changes state is served without an Idempotency-Key.  Without
\* a database the middleware is a pass-through.
KeyRequired == \A q \in listed : req[q].key # None

\* The fees that requests with one Idempotency-Key have paid.
FeesOf(k) == UNION {{q} \X (1..charged[q]) : q \in {r \in Request : req[r].key = k}}

\* With a database the local network's requester pays once under one
\* Idempotency-Key, unless requests with it overlap; each further fee takes a
\* failed call or a restart.
ChargedOncePerKey ==
    network = "local" /\ database =>
      \A k \in IdemKey \ overlap : Cardinality(FeesOf(k)) <= 1 + failures + restarts

\* What a request may still be answered behind the gate that took its fee: no
\* key (400), a signature too old (401), a key of another request (409), too
\* many failed signatures (429), tasks paused (503), or an old answer.
RefusedBehindGate(q) ==
    network # "local" /\ (req[q].status \in {400, 401, 409, 429, 503} \/ req[q].replay)

\* A requester who paid and was answered has a task, or there was a failure;
\* only off the local network is the fee also kept when the request is
\* refused behind the gate.
PaidIsListed ==
    \A q \in Request : req[q].pc = "end" /\ charged[q] > 0 =>
      q \in listed \/ failures + restarts > 0 \/ RefusedBehindGate(q)

\* The fee is half a percent of the price to the nearest stroop, the decimal
\* the requester is asked to pay is exactly that fee, and the price of the
\* task is shown with the amount it was sent with.
FeeIsNearest ==
    ValidPrice(price) =>
      LET p == parseUsdcDecimalToStroops(price) IN
        /\ 1000 * fee - 5 * p \in -499..500
        /\ \A n \in {fee, p} : parseUsdcDecimalToStroops(formatUsdcStroopsToDecimal(n)) = n

\* The shares of a confiscated collateral are within half a cent of the
\* collateral together, and exactly the collateral when it is whole cents.
SharesNearlyAddUp ==
    Parses(price) =>
      LET c == parseUsdcDecimalToStroops(price) IN
        \A s \in confiscateShares(c) :
          /\ 2 * (s.requester + s.marketplace - c) \in -Cent..Cent
          /\ c % Cent = 0 => s.requester + s.marketplace = c

\* The arithmetic of fees and shares loses and makes no more than its roundings
\* allow: half a stroop for a fee, half a cent for the shares.
AmountsAreRounded == FeeIsNearest /\ SharesNearlyAddUp

\* The collateral is split between requester and marketplace, to the stroop.
\* The code rounds both shares to cents: 12.345 is split into 8.64 and 3.71.
SharesAreTheCollateral ==
    Parses(price) =>
      LET c == parseUsdcDecimalToStroops(price) IN
        \A s \in confiscateShares(c) : s.requester + s.marketplace = c

=============================================================================
