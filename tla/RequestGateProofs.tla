------------------------- MODULE RequestGateProofs -------------------------
(***************************************************************************)
(* Proofs about RequestGate for any number of requests, signers and keys,  *)
(* any bounds and any limits.                                              *)
(*                                                                         *)
(* Nonces: a nonce the server grants is stored once, and GETDEL takes it   *)
(* away with the request it admits, so an admitted request's nonce is gone *)
(* for good.  A client nonce is remembered for its life, counted from a    *)
(* moment not earlier than one window before its timestamp; a request that *)
(* finds it forgotten was checked at most one window after the timestamp   *)
(* and has been held up since (NonceInv, Fresh).                           *)
(*                                                                         *)
(* Replays: a stored answer is what the handler of the request that stored *)
(* it answered, and a request past its handler does not change             *)
(* (RecordInv).                                                            *)
(*                                                                         *)
(* Limits: as long as nothing failed, a counter that has no expiry has a   *)
(* request at the await that is about to set one (LimitsLift).             *)
(***************************************************************************)
EXTENDS RequestGate, TLAPS

\* Awaits of a request that has a message, of one that is past its handler.
Checked  == {"getdel", "set_client", "find", "handler", "insert"}
Admitted == {"find", "handler", "insert", "end", "gone"}
Answered == {"insert", "end", "gone"}

MsgType   == [signer : Signer \cup {None}, nonce : Grant \cup {None}, ts : Time,
              call : Call \cup {None}, key : IdemKey \cup {None}, over : BOOLEAN]
GrantType == [to : Signer \cup {None}, at : Time]

\* The timestamp of request r was in the window when it was checked.
Fresh(r, ts) == ts - clock <= Window /\ clock - ts <= Window + stall[r]

\* What request r at await l, with message m, store v and answer a may assume.
RequestOK(r, l, m, v, a) ==
    /\ l \notin GrantAwait
    /\ l \in Checked => m.signer \in Signer /\ m.key \in IdemKey /\ m.call \in Call
    /\ l \in {"getdel", "set_client"} => m.nonce \in Grant /\ Fresh(r, m.ts)
    /\ l \in {"pk_incr", "pk_expire"} => m.signer \in Signer
    /\ v # "none" => l \in Admitted
    /\ a.from # None => l \in Answered
    /\ l = "insert" => a = [status |-> "ok", from |-> r]

GrantOK(l, g) ==
    /\ l \in GrantAwait \cup {"idle", "end", "gone"}
    /\ l \in GrantAwait => g.to \in Signer

ProcessInv ==
    /\ \A g \in Grant : GrantOK(pc[g], grant[g])
    /\ \A r \in Request : RequestOK(r, pc[r], msg[r], via[r], answer[r])

\* A server nonce that was handed out is gone from Redis and does not come
\* back; a client nonce that was spent is remembered until its life, counted
\* from the earliest time its timestamp was accepted, is over.
NonceInv ==
    /\ \A g \in Grant : pc[g] \in {"idle"} \cup GrantAwait =>
         /\ \A x \in nonces : x.nonce # g
         /\ \A r \in Request : via[r] = "server" => msg[r].nonce # g
    /\ \A r \in Request : via[r] = "server" =>
         \A x \in nonces : ~(x.nonce = msg[r].nonce /\ x.to = msg[r].signer)
    /\ \A r \in Request : via[r] = "client" =>
         \/ clock > msg[r].ts - Window + NonceTtl
         \/ \E x \in ClientNonce(r) : x.until >= msg[r].ts - Window + NonceTtl

\* Reply a is what request q's handler answered to call c of signer s under
\* key k.
Wrote(q, k, s, c, a) ==
    /\ a.status = "ok" /\ a.from = q /\ answer[q] = a
    /\ msg[q].key = k /\ msg[q].signer = s /\ msg[q].call = c
    /\ pc[q] \in Answered

RecordInv ==
    /\ \A k \in IdemKey : records[k] # NoRecord =>
         \E q \in Request : Wrote(q, k, records[k].owner, records[k].call, records[k].reply)
    /\ \A r, q \in Request : answer[r].from = q /\ q # r =>
         Wrote(q, msg[r].key, msg[r].signer, msg[r].call, answer[r])

-----------------------------------------------------------------------------
(* What a step of one process leaves alone.                                *)

\* The state of process q that only its own steps change.
Same(q) ==
    /\ pc'[q] = pc[q] /\ answer'[q] = answer[q]
    /\ q \in Request => msg'[q] = msg[q] /\ via'[q] = via[q]
    /\ q \in Grant => grant'[q] = grant[q]

Only(p) == \A q \in Process \ {p} : Same(q)

LocalType ==
    /\ pc \in [Process -> Label] /\ answer \in [Process -> Reply]
    /\ msg \in [Request -> MsgType] /\ via \in [Request -> {"none", "server", "client"}]
    /\ grant \in [Grant -> GrantType]

ProcessOK(p) ==
    /\ p \in Request => RequestOK(p, pc[p], msg[p], via[p], answer[p])
    /\ p \in Grant => GrantOK(pc[p], grant[p])

\* A step of process p keeps what is known of the processes.
Keeps(p) == Only(p) /\ LocalType' /\ ProcessOK(p)' /\ clock' = clock /\ stall' = stall

\* A process is a nonce request or a request to a route, never both.
LEMMA Kinds ==
    /\ Process = Grant \cup Request
    /\ \A p \in Process : p \in Grant <=> p \notin Request
  BY GateAssumption DEF Process

\* The plain answers are answers.
LEMMA SaysReply ==
    \A s \in {"none", "ok", "failed", "limited", "unauthorized", "conflict"} :
      Says(s) \in Reply /\ Says(s).from = None /\ Says(s).status = s
  BY DEF Says, Reply

\* The effect of going on to the next await.
LEMMA GotoEffect ==
    ASSUME LocalType, NEW p \in Process, NEW l \in Label, Goto(p, l)
    PROVE  /\ pc' \in [Process -> Label] /\ pc'[p] = l /\ answer' = answer
           /\ \A q \in Process \ {p} : pc'[q] = pc[q]
  BY DEF LocalType, Goto

\* The effect of an answer.
LEMMA AnswersEffect ==
    ASSUME LocalType, NEW p \in Process, NEW a \in Reply, Answers(p, a)
    PROVE  /\ pc' \in [Process -> Label] /\ pc'[p] = "end"
           /\ answer' \in [Process -> Reply] /\ answer'[p] = a
           /\ \A q \in Process \ {p} : pc'[q] = pc[q] /\ answer'[q] = answer[q]
  BY DEF LocalType, Answers, Label

\* A message of which only the public key is kept.
LEMMA BareMessage ==
    ASSUME NEW s \in Signer \cup {None}
    PROVE  [NoMessage EXCEPT !.signer = s] \in MsgType /\ [NoMessage EXCEPT !.signer = s].signer = s
  <1>1. 0 \in Time
    BY GateAssumption DEF Time
  <1> QED BY <1>1 DEF NoMessage, MsgType

\* The effect of fail.
LEMMA FailsEffect ==
    ASSUME LocalType, NEW r \in Request, NEW s \in Signer \cup {None}, Fails(r, s)
    PROVE  /\ pc' \in [Process -> Label] /\ pc'[r] = "ip_incr" /\ answer' = answer
           /\ \A q \in Process \ {r} : pc'[q] = pc[q]
           /\ msg' \in [Request -> MsgType] /\ msg'[r].signer = s
           /\ \A q \in Request \ {r} : msg'[q] = msg[q]
  <1>1. r \in Process /\ "ip_incr" \in Label /\ Goto(r, "ip_incr")
    BY DEF Process, Label, Await, FailAwait, Fails
  <1>2. PICK m \in MsgType : m = [NoMessage EXCEPT !.signer = s] /\ m.signer = s
    BY BareMessage
  <1>3. msg' = [msg EXCEPT ![r] = m]
    BY <1>2 DEF Fails
  <1> QED BY <1>1, <1>2, <1>3, GotoEffect DEF LocalType

\* A request that has failed to authenticate is well formed.
LEMMA FailsKeeps ==
    ASSUME LocalType, NEW r \in Request, ProcessOK(r), NEW s \in Signer \cup {None}, Fails(r, s),
           pc[r] \notin Admitted, UNCHANGED <<clock, stall, grant, via>>
    PROVE  Keeps(r)
  <1>1. r \in Process /\ r \notin Grant
    BY Kinds
  <1>2. via'[r] = "none" /\ answer'[r].from = None
    BY FailsEffect DEF ProcessOK, RequestOK, Admitted, Answered
  <1>3. ProcessOK(r)'
    BY <1>1, <1>2, FailsEffect DEF ProcessOK, RequestOK, GrantAwait, Checked
  <1>4. LocalType' /\ Only(r)
    BY <1>1, FailsEffect DEF LocalType, Only, Same
  <1> QED BY <1>3, <1>4 DEF Keeps

-----------------------------------------------------------------------------
(* The steps, one by one.                                                  *)

\* Bad headers are counted as a failure.
LEMMA ArrivesBadStep ==
    ASSUME LocalType, NEW r \in Request, ProcessOK(r), ArrivesBad(r) PROVE Keeps(r)
  <1>1. pc[r] \notin Admitted /\ UNCHANGED <<clock, stall, grant, via>>
    BY DEF ArrivesBad, Arrives, Admitted, env
  <1> QED BY <1>1, FailsKeeps DEF ArrivesBad

\* A signed message inside the window goes on to its nonce.
LEMMA ArrivesSignedStep ==
    ASSUME LocalType, clock \in Time, stall \in [Request -> Nat],
           NEW r \in Request, ProcessOK(r), ArrivesSigned(r)
    PROVE  Keeps(r)
  <1>1. pc[r] = "idle" /\ UNCHANGED <<clock, stall, grant, via>> /\ r \in Process /\ r \notin Grant
    BY Kinds DEF ArrivesSigned, Arrives, env
  <1>2. via[r] = "none" /\ answer[r].from = None
    BY <1>1 DEF ProcessOK, RequestOK, Admitted, Answered
  <1>3. PICK m \in Message :
          \/ InWindow(m.ts) /\ Goto(r, "getdel") /\ msg' = [msg EXCEPT ![r] = m]
          \/ ~InWindow(m.ts) /\ Fails(r, m.signer)
    BY DEF ArrivesSigned
  <1>4. CASE Fails(r, m.signer)
    BY <1>1, <1>4, FailsKeeps DEF Message, Admitted
  <1>5. CASE InWindow(m.ts) /\ Goto(r, "getdel") /\ msg' = [msg EXCEPT ![r] = m]
    <2>1. "getdel" \in Label
      BY DEF Label, Await
    <2>2. m \in MsgType
      BY GateAssumption DEF Message, MsgType, Time
    <2>3. LocalType' /\ Only(r)
      BY <1>1, <1>5, <2>1, <2>2, GotoEffect DEF LocalType, Only, Same
    <2>4. pc'[r] = "getdel" /\ msg'[r] = m /\ answer'[r] = answer[r] /\ via'[r] = via[r]
      BY <1>1, <1>5, <2>1, GotoEffect DEF LocalType
    <2>5. m.signer \in Signer /\ m.key \in IdemKey /\ m.call \in Call /\ m.nonce \in Grant
      BY DEF Message
    <2>6. Fresh(r, m.ts)
      <3>1. clock \in Int /\ m.ts \in Int /\ Window \in Nat /\ stall[r] \in Nat
        BY <2>2, GateAssumption DEF Time, MsgType
      <3> QED BY <1>5, <3>1 DEF InWindow, Fresh
    <2>7. ProcessOK(r)'
      BY <1>1, <1>2, <1>5, <2>4, <2>5, <2>6 DEF ProcessOK, RequestOK, GrantAwait, Fresh
    <2> QED BY <1>1, <2>3, <2>7 DEF Keeps
  <1> QED BY <1>3, <1>4, <1>5

\* A message of a route without signatureAuth.
UnsignedOf(s, c, k) == [NoMessage EXCEPT !.signer = s, !.call = c, !.key = k]

\* Such a message written out.
LEMMA UnsignedFields ==
    ASSUME NEW s, NEW c, NEW k, NEW m, m = [NoMessage EXCEPT !.signer = s, !.call = c, !.key = k]
    PROVE  m = [signer |-> s, nonce |-> None, ts |-> 0, call |-> c, key |-> k, over |-> FALSE]
  BY DEF NoMessage

\* The fields of such a message.
LEMMA UnsignedMessage ==
    ASSUME NEW s \in Signer, NEW c \in Call, NEW k \in IdemKey
    PROVE  /\ UnsignedOf(s, c, k) \in MsgType
           /\ UnsignedOf(s, c, k).signer = s /\ UnsignedOf(s, c, k).call = c
           /\ UnsignedOf(s, c, k).key = k
  <1>1. 0 \in Time
    BY GateAssumption DEF Time
  <1>2. UnsignedOf(s, c, k) =
          [signer |-> s, nonce |-> None, ts |-> 0, call |-> c, key |-> k, over |-> FALSE]
    BY UnsignedFields DEF UnsignedOf
  <1> QED BY <1>1, <1>2 DEF MsgType

\* A request to a route without signatureAuth goes on to idempotency.
LEMMA ArrivesUnsignedStep ==
    ASSUME LocalType, NEW r \in Request, ProcessOK(r), ArrivesUnsigned(r) PROVE Keeps(r)
  <1>1. pc[r] = "idle" /\ UNCHANGED <<clock, stall, grant, via>> /\ r \in Process /\ r \notin Grant
    BY Kinds DEF ArrivesUnsigned, Arrives, env
  <1>2. via[r] = "none" /\ answer[r].from = None
    BY <1>1 DEF ProcessOK, RequestOK, Admitted, Answered
  <1>3. PICK m : /\ \E s \in Signer, c \in Call, k \in IdemKey : m = UnsignedOf(s, c, k)
                 /\ msg' = [msg EXCEPT ![r] = m]
    BY DEF ArrivesUnsigned, UnsignedOf
  <1>4. m \in MsgType /\ m.signer \in Signer /\ m.call \in Call /\ m.key \in IdemKey
    BY <1>3, UnsignedMessage
  <1>5. Goto(r, "find") /\ "find" \in Label
    BY DEF ArrivesUnsigned, Label, Await
  <1>6. msg' = [msg EXCEPT ![r] = m]
    BY <1>3
  <1>7. LocalType' /\ Only(r)
    BY <1>1, <1>4, <1>5, <1>6, GotoEffect DEF LocalType, Only, Same
  <1>8. pc'[r] = "find" /\ msg'[r] = m /\ answer'[r] = answer[r] /\ via'[r] = via[r]
    BY <1>1, <1>5, <1>6, GotoEffect DEF LocalType
  <1>9. ProcessOK(r)'
    BY <1>1, <1>2, <1>4, <1>8 DEF ProcessOK, RequestOK, GrantAwait
  <1> QED BY <1>1, <1>7, <1>9 DEF Keeps

\* A request that keeps its message goes on to await l.
LEMMA RequestGoesOn ==
    ASSUME LocalType, NEW r \in Request, ProcessOK(r), NEW l \in Label, Goto(r, l),
           UNCHANGED <<clock, stall, grant>>, msg' = msg,
           via' \in [Request -> {"none", "server", "client"}],
           \A q \in Request \ {r} : via'[q] = via[q],
           RequestOK(r, l, msg[r], via'[r], answer[r])
    PROVE  Keeps(r)
  <1>1. r \in Process /\ r \notin Grant
    BY Kinds
  <1>2. pc'[r] = l /\ answer' = answer
    BY <1>1, GotoEffect
  <1>3. LocalType' /\ Only(r)
    BY <1>1, GotoEffect DEF LocalType, Only, Same
  <1>4. ProcessOK(r)'
    BY <1>1, <1>2 DEF ProcessOK, RequestOK, Fresh
  <1> QED BY <1>3, <1>4 DEF Keeps

\* The server's nonce lets the request through, or the client's is tried.
LEMMA ConsumeNonceStep ==
    ASSUME LocalType, NEW r \in Request, ProcessOK(r), ConsumeNonce(r) PROVE Keeps(r)
  <1>1. pc[r] = "getdel" /\ UNCHANGED <<clock, stall, grant>>
    BY DEF ConsumeNonce, GetDel, env
  <1>2. /\ via[r] = "none" /\ answer[r].from = None
        /\ msg[r].signer \in Signer /\ msg[r].key \in IdemKey /\ msg[r].call \in Call
        /\ msg[r].nonce \in Grant /\ Fresh(r, msg[r].ts)
    BY <1>1 DEF ProcessOK, RequestOK, Checked, Admitted, Answered
  <1>3. CASE Fails(r, msg[r].signer) /\ UNCHANGED via
    BY <1>1, <1>2, <1>3, FailsKeeps DEF Admitted
  <1>4. CASE via' = [via EXCEPT ![r] = "server"] /\ Goto(r, "find") /\ UNCHANGED msg
    <2>1. RequestOK(r, "find", msg[r], "server", answer[r])
      BY <1>2 DEF RequestOK, GrantAwait, Admitted
    <2> QED BY <1>1, <1>4, <2>1, RequestGoesOn DEF LocalType, Label, Await
  <1>5. CASE Goto(r, "set_client") /\ UNCHANGED <<msg, via>>
    <2>1. RequestOK(r, "set_client", msg[r], via[r], answer[r])
      BY <1>2 DEF RequestOK, GrantAwait
    <2> QED BY <1>1, <1>5, <2>1, RequestGoesOn DEF LocalType, Label, Await
  <1> QED BY <1>3, <1>4, <1>5 DEF ConsumeNonce

\* The client's nonce lets the request through or fails.
LEMMA ConsumeClientNonceStep ==
    ASSUME LocalType, NEW r \in Request, ProcessOK(r), ConsumeClientNonce(r) PROVE Keeps(r)
  <1>1. pc[r] = "set_client" /\ UNCHANGED <<clock, stall, grant>>
    BY DEF ConsumeClientNonce, SetClient, env
  <1>2. /\ via[r] = "none" /\ answer[r].from = None
        /\ msg[r].signer \in Signer /\ msg[r].key \in IdemKey /\ msg[r].call \in Call
    BY <1>1 DEF ProcessOK, RequestOK, Checked, Admitted, Answered
  <1>3. CASE Fails(r, msg[r].signer) /\ UNCHANGED via
    BY <1>1, <1>2, <1>3, FailsKeeps DEF Admitted
  <1>4. CASE via' = [via EXCEPT ![r] = "client"] /\ Goto(r, "find") /\ UNCHANGED msg
    <2>1. RequestOK(r, "find", msg[r], "client", answer[r])
      BY <1>2 DEF RequestOK, GrantAwait, Admitted
    <2> QED BY <1>1, <1>4, <2>1, RequestGoesOn DEF LocalType, Label, Await
  <1> QED BY <1>3, <1>4 DEF ConsumeClientNonce

\* A request that is answered is over.
LEMMA RequestAnswered ==
    ASSUME LocalType, NEW r \in Request, NEW a \in Reply, Answers(r, a),
           UNCHANGED <<clock, stall, grant, via>>, msg' \in [Request -> MsgType],
           \A q \in Request \ {r} : msg'[q] = msg[q]
    PROVE  Keeps(r)
  <1>1. r \in Process /\ r \notin Grant
    BY Kinds
  <1>2. pc'[r] = "end"
    BY <1>1, AnswersEffect
  <1>3. LocalType' /\ Only(r)
    BY <1>1, AnswersEffect DEF LocalType, Only, Same
  <1>4. ProcessOK(r)'
    BY <1>1, <1>2 DEF ProcessOK, RequestOK, GrantAwait, Checked, Admitted, Answered
  <1> QED BY <1>3, <1>4 DEF Keeps

\* idempotency answers from the table or lets the request through.
LEMMA FindRecordStep ==
    ASSUME LocalType, records \in [IdemKey -> Record \cup {NoRecord}],
           NEW r \in Request, ProcessOK(r), FindRecord(r)
    PROVE  Keeps(r)
  <1>1. pc[r] = "find" /\ UNCHANGED <<clock, stall, grant, msg, via>>
    BY DEF FindRecord, env
  <1>2. /\ answer[r].from = None
        /\ msg[r].signer \in Signer /\ msg[r].key \in IdemKey /\ msg[r].call \in Call
    BY <1>1 DEF ProcessOK, RequestOK, Checked, Answered
  <1>3. records[msg[r].key].reply \in Reply /\ Says("conflict") \in Reply
    BY <1>2, SaysReply DEF Record, NoRecord
  <1>4. CASE Goto(r, "handler")
    <2>1. RequestOK(r, "handler", msg[r], via[r], answer[r])
      BY <1>2 DEF RequestOK, GrantAwait, Admitted
    <2> QED BY <1>1, <1>4, <2>1, RequestGoesOn DEF LocalType, Label, Await
  <1>5. CASE \E a \in Reply : Answers(r, a)
    BY <1>1, <1>5, RequestAnswered DEF LocalType
  <1> QED BY <1>3, <1>4, <1>5 DEF FindRecord

\* The handler's answer is inserted unless it is an error or the connection
\* is gone.
LEMMA HandleStep ==
    ASSUME LocalType, NEW r \in Request, ProcessOK(r), Handle(r) PROVE Keeps(r)
  <1>1. pc[r] = "handler" /\ UNCHANGED <<clock, stall, grant, msg, via>> /\ r \in Process /\ r \notin Grant
    BY Kinds DEF Handle
  <1>2. msg[r].signer \in Signer /\ msg[r].key \in IdemKey /\ msg[r].call \in Call
    BY <1>1 DEF ProcessOK, RequestOK, Checked
  <1>3. PICK s \in {"ok", "failed"}, l \in {"insert", "end"} :
          /\ l = "insert" => s = "ok"
          /\ answer' = [answer EXCEPT ![r] = [status |-> s, from |-> r]]
          /\ pc' = [pc EXCEPT ![r] = l]
    BY DEF Handle
  <1>4. [status |-> s, from |-> r] \in Reply /\ l \in Label
    BY DEF Reply, Label, Await
  <1>5. LocalType' /\ Only(r)
    BY <1>1, <1>3, <1>4 DEF LocalType, Only, Same
  <1>6. pc'[r] = l /\ answer'[r] = [status |-> s, from |-> r] /\ msg'[r] = msg[r]
    BY <1>1, <1>3 DEF LocalType
  <1>7. ProcessOK(r)'
    BY <1>1, <1>2, <1>3, <1>6 DEF ProcessOK, RequestOK, GrantAwait, Checked, Admitted, Answered
  <1> QED BY <1>1, <1>5, <1>7 DEF Keeps

\* The insert ends the request.
LEMMA SaveAnswerStep ==
    ASSUME LocalType, NEW r \in Request, ProcessOK(r), SaveAnswer(r) PROVE Keeps(r)
  <1>1. Goto(r, "end") /\ UNCHANGED <<clock, stall, grant, msg, via>> /\ "end" \in Label
    BY DEF SaveAnswer, env, Label
  <1>2. RequestOK(r, "end", msg[r], via[r], answer[r])
    BY DEF RequestOK, GrantAwait, Checked, Admitted, Answered
  <1> QED BY <1>1, <1>2, RequestGoesOn DEF LocalType

\* A nonce request that goes on, or is answered.
LEMMA GrantGoesOn ==
    ASSUME LocalType, NEW g \in Grant, UNCHANGED <<clock, stall, msg, via>>,
           grant' \in [Grant -> GrantType], \A h \in Grant \ {g} : grant'[h] = grant[h],
           \/ \E l \in GrantAwait : Goto(g, l) /\ grant'[g].to \in Signer
           \/ \E a \in Reply : Answers(g, a)
    PROVE  Keeps(g)
  <1>1. g \in Process /\ g \notin Request /\ GrantAwait \subseteq Label
    BY Kinds DEF Label, Await
  <1>2. ASSUME NEW l \in GrantAwait, Goto(g, l), grant'[g].to \in Signer PROVE Keeps(g)
    <2>1. pc'[g] = l /\ l \in Label
      BY <1>1, <1>2, GotoEffect
    <2>2. LocalType' /\ Only(g)
      BY <1>1, <1>2, <2>1, GotoEffect DEF LocalType, Only, Same
    <2>3. ProcessOK(g)'
      BY <1>1, <1>2, <2>1 DEF ProcessOK, GrantOK
    <2> QED BY <2>2, <2>3 DEF Keeps
  <1>3. ASSUME NEW a \in Reply, Answers(g, a) PROVE Keeps(g)
    <2>1. pc'[g] = "end"
      BY <1>1, <1>3, AnswersEffect
    <2>2. LocalType' /\ Only(g)
      BY <1>1, <1>3, AnswersEffect DEF LocalType, Only, Same
    <2>3. ProcessOK(g)'
      BY <1>1, <2>1 DEF ProcessOK, GrantOK, GrantAwait
    <2> QED BY <2>2, <2>3 DEF Keeps
  <1> QED BY <1>2, <1>3

\* A request for a nonce is counted first.
LEMMA GrantArrivesStep ==
    ASSUME LocalType, NEW g \in Grant, GrantArrives(g) PROVE Keeps(g)
  <1>1. PICK s \in Signer : grant' = [grant EXCEPT ![g].to = s]
    BY DEF GrantArrives
  <1>2. /\ grant' \in [Grant -> GrantType] /\ grant'[g].to = s
        /\ \A h \in Grant \ {g} : grant'[h] = grant[h]
    BY <1>1 DEF LocalType, GrantType
  <1>3. Goto(g, "grant_incr") /\ "grant_incr" \in GrantAwait /\ UNCHANGED <<clock, stall, msg, via>>
    BY DEF GrantArrives, GrantAwait, env
  <1> QED BY <1>2, <1>3, GrantGoesOn

\* The nonce is stored and answered.
LEMMA GrantAnswerStep ==
    ASSUME LocalType, NEW g \in Grant, GrantAnswer(g) PROVE Keeps(g)
  <1>1. Answers(g, Says("ok")) /\ UNCHANGED <<clock, stall, grant, msg, via>>
    BY DEF GrantAnswer, env
  <1> QED BY <1>1, SaysReply, GrantGoesOn DEF LocalType

\* The process at an await of incrWithTtl, and its counter.
LEMMA AtCounter ==
    ASSUME LocalType, NEW p \in Process, ProcessOK(p)
    PROVE  /\ pc[p] \in {"grant_incr", "grant_expire"} => p \in Grant /\ CounterOf(p) = "nonce"
           /\ pc[p] \in {"ip_incr", "ip_expire"} => p \in Request /\ CounterOf(p) = "ip"
           /\ pc[p] \in {"pk_incr", "pk_expire"} => /\ p \in Request /\ CounterOf(p) = msg[p].signer
                                                    /\ msg[p].signer \in Signer
           /\ p \in Grant /\ pc[p] \in GrantAwait => grant[p].to \in Signer
           /\ p \in Request /\ pc[p] \in FailAwait => via[p] = "none" /\ answer[p].from = None
  <1>1. pc[p] \in {"grant_incr", "grant_expire"} => p \in Grant
    BY Kinds DEF ProcessOK, RequestOK, GrantAwait
  <1>2. pc[p] \in FailAwait => p \in Request
    BY Kinds DEF ProcessOK, GrantOK, GrantAwait, FailAwait
  <1>3. p \in Grant => p \notin Request
    BY Kinds
  <1>4. p \in Request /\ pc[p] \in FailAwait => via[p] = "none" /\ answer[p].from = None
    BY DEF ProcessOK, RequestOK, FailAwait, Admitted, Answered
  <1>5. p \in Request /\ pc[p] \in {"pk_incr", "pk_expire"} => msg[p].signer \in Signer
    BY DEF ProcessOK, RequestOK
  <1>6. p \in Grant /\ pc[p] \in GrantAwait => grant[p].to \in Signer
    BY DEF ProcessOK, GrantOK
  <1> QED BY <1>1, <1>2, <1>3, <1>4, <1>5, <1>6 DEF CounterOf, FailAwait

\* What a caller of incrWithTtl does with the count.
LEMMA CountedStep ==
    ASSUME LocalType, clock \in Time, NEW p \in Process, ProcessOK(p), NEW n \in Nat, Counted(p, n),
           pc[p] \in {"grant_incr", "grant_expire"} \cup FailAwait, UNCHANGED <<env, via>>
    PROVE  Keeps(p)
  <1>1. clock' = clock /\ stall' = stall
    BY DEF env
  <1>2. CASE GrantCounted(p, n)
    <2>1. p \in Grant /\ msg' = msg /\ pc[p] \in {"grant_incr", "grant_expire"}
      BY <1>2, Kinds, AtCounter DEF GrantCounted, FailAwait
    <2>2. CASE Answers(p, Says("limited")) /\ UNCHANGED grant
      BY <1>1, <2>1, <2>2, SaysReply, GrantGoesOn DEF LocalType
    <2>3. CASE grant' = [grant EXCEPT ![p].at = clock] /\ Goto(p, "grant_set")
      <3>1. grant[p].to \in Signer
        BY <2>1, AtCounter DEF GrantAwait
      <3>2. /\ grant' \in [Grant -> GrantType] /\ grant'[p].to \in Signer
            /\ \A h \in Grant \ {p} : grant'[h] = grant[h]
        BY <2>1, <2>3, <3>1 DEF LocalType, GrantType
      <3>3. "grant_set" \in GrantAwait
        BY DEF GrantAwait
      <3> QED BY <1>1, <2>1, <2>3, <3>2, <3>3, GrantGoesOn
    <2> QED BY <1>2, <2>2, <2>3 DEF GrantCounted
  <1>3. CASE FailIpCounted(p, n)
    <2>1. p \in Request /\ p \notin Grant /\ grant' = grant /\ via[p] = "none" /\ answer[p].from = None
      BY <1>3, Kinds, AtCounter DEF FailIpCounted, FailAwait
    <2>2. CASE /\ msg[p].signer # None
               /\ msg' = [msg EXCEPT ![p].over = n > IpLimit]
               /\ Goto(p, "pk_incr")
      <3>1. "pk_incr" \in Label
        BY DEF Label, Await, FailAwait
      <3>2. pc'[p] = "pk_incr" /\ answer' = answer
        BY <2>2, <3>1, GotoEffect
      <3>3. (n > IpLimit) \in BOOLEAN
        OBVIOUS
      <3>4. PICK o \in BOOLEAN : msg' = [msg EXCEPT ![p].over = o]
        BY <2>2, <3>3, Zenon
      <3>5. /\ msg' \in [Request -> MsgType] /\ msg'[p].signer = msg[p].signer
            /\ \A q \in Request \ {p} : msg'[q] = msg[q]
        BY <2>1, <3>4 DEF LocalType, MsgType
      <3>6. msg'[p].signer \in Signer
        BY <2>1, <2>2, <3>5 DEF LocalType, MsgType
      <3>7. ProcessOK(p)'
        BY <2>1, <3>2, <3>6 DEF ProcessOK, RequestOK, GrantAwait, Checked
      <3>8. LocalType' /\ Only(p)
        BY <2>1, <2>2, <3>1, <3>5, GotoEffect DEF LocalType, Only, Same
      <3> QED BY <1>1, <3>7, <3>8 DEF Keeps
    <2>3. CASE /\ Answers(p, Says(IF n > IpLimit THEN "limited" ELSE "unauthorized"))
               /\ UNCHANGED msg
      <3>1. Says(IF n > IpLimit THEN "limited" ELSE "unauthorized") \in Reply
        BY SaysReply
      <3> QED BY <1>1, <2>1, <2>3, <3>1, RequestAnswered DEF LocalType
    <2> QED BY <1>3, <2>2, <2>3 DEF FailIpCounted
  <1>4. CASE FailPkCounted(p, n)
    <2>1. p \in Request /\ grant' = grant
      BY <1>4, AtCounter DEF FailPkCounted
    <2>2. Says(IF msg[p].over \/ n > PkLimit THEN "limited" ELSE "unauthorized") \in Reply
      BY SaysReply
    <2>3. NoMessage \in MsgType
      <3>1. 0 \in Time
        BY GateAssumption DEF Time
      <3> QED BY <3>1 DEF NoMessage, MsgType
    <2>4. msg' \in [Request -> MsgType] /\ \A q \in Request \ {p} : msg'[q] = msg[q]
      BY <1>4, <2>1, <2>3 DEF FailPkCounted, LocalType
    <2> QED BY <1>1, <1>4, <2>1, <2>2, <2>4, RequestAnswered DEF FailPkCounted
  <1> QED BY <1>2, <1>3, <1>4 DEF Counted

\* The counter is incremented; the first to do so gives it a life next.
LEMMA CountUpStep ==
    ASSUME LocalType, clock \in Time, counters \in [Counter -> [n : Nat, armed : BOOLEAN]],
           NEW p \in Process, ProcessOK(p), CountUp(p)
    PROVE  Keeps(p) /\ CounterOf(p) \in Counter
  <1>1. pc[p] \in {"grant_incr", "ip_incr", "pk_incr"} /\ UNCHANGED <<env, via>> /\ clock' = clock /\ stall' = stall
    BY DEF CountUp, Incr, env
  <1>2. CounterOf(p) \in Counter
    BY <1>1, AtCounter DEF Counter
  <1>3. counters[CounterOf(p)].n + 1 \in Nat
    BY <1>2
  <1>4. CASE Counted(p, counters[CounterOf(p)].n + 1)
    BY <1>1, <1>2, <1>3, <1>4, CountedStep DEF FailAwait
  <1>5. CASE Goto(p, ExpireAfter[pc[p]]) /\ UNCHANGED <<grant, msg>>
    <2>1. CASE pc[p] = "grant_incr"
      <3>1. p \in Grant /\ grant[p].to \in Signer
        BY <2>1, AtCounter DEF GrantAwait
      <3>2. Goto(p, "grant_expire") /\ "grant_expire" \in GrantAwait
        BY <1>5, <2>1 DEF ExpireAfter, GrantAwait
      <3> QED BY <1>1, <1>2, <1>5, <3>1, <3>2, GrantGoesOn DEF LocalType
    <2>2. CASE pc[p] = "ip_incr"
      <3>1. p \in Request /\ via[p] = "none" /\ answer[p].from = None
        BY <2>2, AtCounter DEF FailAwait
      <3>2. Goto(p, "ip_expire") /\ "ip_expire" \in Label
        BY <1>5, <2>2 DEF ExpireAfter, Label, Await, FailAwait
      <3>3. RequestOK(p, "ip_expire", msg[p], via[p], answer[p])
        BY <3>1 DEF RequestOK, GrantAwait, Checked
      <3> QED BY <1>1, <1>2, <1>5, <3>1, <3>2, <3>3, RequestGoesOn DEF LocalType
    <2>3. CASE pc[p] = "pk_incr"
      <3>1. p \in Request /\ via[p] = "none" /\ answer[p].from = None /\ msg[p].signer \in Signer
        BY <2>3, AtCounter DEF FailAwait
      <3>2. Goto(p, "pk_expire") /\ "pk_expire" \in Label
        BY <1>5, <2>3 DEF ExpireAfter, Label, Await, FailAwait
      <3>3. RequestOK(p, "pk_expire", msg[p], via[p], answer[p])
        BY <3>1 DEF RequestOK, GrantAwait, Checked
      <3> QED BY <1>1, <1>2, <1>5, <3>1, <3>2, <3>3, RequestGoesOn DEF LocalType
    <2> QED BY <1>1, <2>1, <2>2, <2>3
  <1> QED BY <1>2, <1>4, <1>5 DEF CountUp

\* The counter is given its life.
LEMMA SetExpiryStep ==
    ASSUME LocalType, clock \in Time, NEW p \in Process, ProcessOK(p), SetExpiry(p)
    PROVE  Keeps(p) /\ CounterOf(p) \in Counter
  <1>1. /\ pc[p] \in {"grant_expire", "ip_expire", "pk_expire"} /\ UNCHANGED <<env, via>>
        /\ Counted(p, 1)
    BY DEF SetExpiry, Expire
  <1>2. CounterOf(p) \in Counter
    BY <1>1, AtCounter DEF Counter
  <1> QED BY <1>1, <1>2, CountedStep DEF FailAwait

\* A throw ends the request, with an answer or without.
LEMMA StatementFailsStep ==
    ASSUME LocalType, NEW p \in Process, ProcessOK(p), StatementFails(p) PROVE Keeps(p)
  <1>1. UNCHANGED <<clock, stall, grant, msg, via>>
    BY DEF StatementFails
  <1>2. CASE \E a \in Reply : Answers(p, a)
    <2>1. CASE p \in Request
      BY <1>1, <1>2, <2>1, RequestAnswered DEF LocalType
    <2>2. CASE p \in Grant
      BY <1>1, <1>2, <2>2, GrantGoesOn DEF LocalType
    <2> QED BY <2>1, <2>2 DEF Process
  <1>3. CASE pc[p] = "insert" /\ Goto(p, "end")
    <2>1. p \in Request /\ "end" \in Label
      BY <1>3, Kinds DEF ProcessOK, GrantOK, GrantAwait, Label
    <2>2. RequestOK(p, "end", msg[p], via[p], answer[p])
      BY DEF RequestOK, GrantAwait, Checked, Admitted, Answered
    <2> QED BY <1>1, <1>3, <2>1, <2>2, RequestGoesOn DEF LocalType
  <1> QED BY <1>2, <1>3, SaysReply DEF StatementFails

-----------------------------------------------------------------------------
(* Every step keeps the type invariant and ProcessInv.                     *)

StepOf(p) ==
    \/ CountUp(p) \/ SetExpiry(p) \/ StatementFails(p)
    \/ p \in Grant /\ (GrantArrives(p) \/ GrantAnswer(p))
    \/ p \in Request /\ (\/ ArrivesBad(p) \/ ArrivesSigned(p) \/ ArrivesUnsigned(p)
                         \/ ConsumeNonce(p) \/ ConsumeClientNonce(p)
                         \/ FindRecord(p) \/ Handle(p) \/ SaveAnswer(p))

\* A step is one of a process, of the clock, of a counter's life or a restart.
LEMMA NextCases ==
    Next => \/ Tick \/ Restart
            \/ \E c \in Counter : CounterExpires(c)
            \/ \E p \in Process : StepOf(p)
  BY DEF Next, StepOf, Process

\* The parts of the type invariant.
StoreType ==
    /\ nonces \subseteq [nonce : Grant, to : Signer, at : Time, until : Nat]
    /\ spent \subseteq [nonce : Grant, by : Signer, until : Nat]
    /\ counters \in [Counter -> [n : Nat, armed : BOOLEAN]]
    /\ records \in [IdemKey -> Record \cup {NoRecord}]

EnvType ==
    /\ clock \in Time /\ stall \in [Request -> Nat]
    /\ allowClient \in BOOLEAN /\ faults \in 0..MaxFaults

\* The type invariant is its parts.
LEMMA TypeParts ==
    /\ TypeOK <=> EnvType /\ StoreType /\ LocalType
    /\ TypeOK' <=> EnvType' /\ StoreType' /\ LocalType'
  BY DEF TypeOK, EnvType, StoreType, LocalType, MsgType, GrantType

\* A step of a process keeps what is known of it.
LEMMA StepKeeps ==
    ASSUME TypeOK, ProcessInv, NEW p \in Process, StepOf(p) PROVE Keeps(p)
  <1>1. /\ LocalType /\ clock \in Time /\ stall \in [Request -> Nat]
        /\ counters \in [Counter -> [n : Nat, armed : BOOLEAN]]
        /\ records \in [IdemKey -> Record \cup {NoRecord}]
    BY TypeParts DEF EnvType, StoreType
  <1>2. ProcessOK(p)
    BY DEF ProcessInv, ProcessOK
  <1> QED BY <1>1, <1>2, CountUpStep, SetExpiryStep, StatementFailsStep, GrantArrivesStep,
             GrantAnswerStep, ArrivesBadStep, ArrivesSignedStep, ArrivesUnsignedStep,
             ConsumeNonceStep, ConsumeClientNonceStep, FindRecordStep, HandleStep, SaveAnswerStep
          DEF StepOf

\* A command keeps the type of the stores.
LEMMA CommandType ==
    ASSUME TypeOK, ProcessInv, NEW p \in Process, Command(p) PROVE StoreType'
  <1>1. StoreType /\ LocalType /\ clock \in Time /\ ProcessOK(p)
    BY TypeParts DEF EnvType, ProcessInv, ProcessOK
  <1>2. clock \in Nat /\ clock + NonceTtl \in Nat
    BY <1>1, GateAssumption DEF Time
  <1>3. CASE Incr(p)
    <2>1. CounterOf(p) \in Counter
      BY <1>1, <1>3, AtCounter DEF Incr, Counter
    <2> QED BY <1>1, <1>3, <2>1 DEF Incr, StoreType
  <1>4. CASE Expire(p)
    <2>1. CounterOf(p) \in Counter
      BY <1>1, <1>4, AtCounter DEF Expire, Counter
    <2> QED BY <1>1, <1>4, <2>1 DEF Expire, StoreType
  <1>5. CASE SetNonce(p)
    <2>1. p \in Grant
      BY <1>1, <1>5, Kinds DEF SetNonce, ProcessOK, RequestOK, GrantAwait
    <2>2. grant[p].to \in Signer /\ grant[p].at \in Time
      BY <1>1, <1>5, <2>1, AtCounter DEF SetNonce, GrantAwait, LocalType, GrantType
    <2> QED BY <1>1, <1>2, <1>5, <2>1, <2>2 DEF SetNonce, StoreType
  <1>6. CASE GetDel(p)
    BY <1>1, <1>6 DEF GetDel, StoreType
  <1>7. CASE SetClient(p)
    <2>1. p \in Request
      BY <1>1, <1>7, Kinds DEF SetClient, ProcessOK, GrantOK, GrantAwait
    <2>2. msg[p].nonce \in Grant /\ msg[p].signer \in Signer
      BY <1>1, <1>7, <2>1 DEF SetClient, ProcessOK, RequestOK, Checked
    <2> QED BY <1>1, <1>2, <1>7, <2>2 DEF SetClient, StoreType
  <1>8. CASE Insert(p)
    <2>1. p \in Request
      BY <1>1, <1>8, Kinds DEF Insert, ProcessOK, GrantOK, GrantAwait
    <2>2. msg[p].key \in IdemKey /\ msg[p].signer \in Signer /\ msg[p].call \in Call /\ answer[p] \in Reply
      BY <1>1, <1>8, <2>1 DEF Insert, ProcessOK, RequestOK, Checked, LocalType
    <2>3. records' \in [IdemKey -> Record \cup {NoRecord}]
      BY <1>1, <1>8, <2>2 DEF Insert, StoreType, Record
    <2> QED BY <1>1, <1>8, <2>3 DEF Insert, StoreType, redis
  <1> QED BY <1>3, <1>4, <1>5, <1>6, <1>7, <1>8 DEF Command

\* What a step of a process does to the stores is one command, or nothing.
LEMMA StepStore ==
    ASSUME NEW p \in Process, StepOf(p) PROVE Command(p) \/ UNCHANGED store
  BY DEF StepOf, CountUp, SetExpiry, StatementFails, GrantArrives, GrantAnswer, ArrivesBad,
     ArrivesSigned, ArrivesUnsigned, ConsumeNonce, ConsumeClientNonce, FindRecord, Handle,
     SaveAnswer, Command

\* The failures counted by a step.
LEMMA StepFaults ==
    ASSUME NEW p \in Process, StepOf(p)
    PROVE  /\ allowClient' = allowClient
           /\ faults' = faults \/ (faults < MaxFaults /\ faults' = faults + 1)
  BY DEF StepOf, CountUp, SetExpiry, StatementFails, GrantArrives, GrantAnswer, ArrivesBad,
     ArrivesSigned, ArrivesUnsigned, ConsumeNonce, ConsumeClientNonce, FindRecord, Handle,
     SaveAnswer, Fault, env

\* Every step keeps the type invariant and ProcessInv.
LEMMA TypeStep ==
    ASSUME TypeOK, ProcessInv, Next PROVE TypeOK' /\ ProcessInv'
  <1>1. EnvType /\ StoreType /\ LocalType
    BY TypeParts
  <1>2. ASSUME NEW p \in Process, StepOf(p) PROVE TypeOK' /\ ProcessInv'
    <2>1. Keeps(p)
      BY <1>2, StepKeeps
    <2>2. StoreType'
      BY <1>1, <1>2, StepStore, CommandType DEF StoreType, store, redis
    <2>3. EnvType'
      BY <1>1, <1>2, <2>1, StepFaults, GateAssumption DEF EnvType, Keeps
    <2>4. ASSUME NEW q \in Process PROVE ProcessOK(q)'
      <3>1. CASE q = p
        BY <2>1, <3>1 DEF Keeps
      <3>2. CASE q # p
        BY <2>1, <3>2 DEF Keeps, Only, Same, ProcessInv, ProcessOK, RequestOK, Fresh
      <3> QED BY <3>1, <3>2
    <2>5. ProcessInv'
      BY <2>4 DEF ProcessInv, ProcessOK, Process
    <2>6. LocalType'
      BY <2>1 DEF Keeps
    <2>7. TypeOK'
      BY <2>2, <2>3, <2>6, TypeParts
    <2> QED BY <2>5, <2>7
  <1>3. CASE Tick
    <2>1. LocalType' /\ EnvType'
      BY <1>1, <1>3, GateAssumption DEF Tick, LocalType, EnvType, Time
    <2>2. StoreType'
      BY <1>1, <1>3 DEF Tick, StoreType
    <2>3. ASSUME NEW r \in Request PROVE RequestOK(r, pc[r], msg[r], via[r], answer[r])'
      <3>1. RequestOK(r, pc[r], msg[r], via[r], answer[r])
        BY DEF ProcessInv
      <3>2. clock \in Int /\ msg[r].ts \in Int /\ Window \in Nat /\ stall[r] \in Nat
        BY <1>1, GateAssumption DEF EnvType, LocalType, MsgType, Time
      <3>3. pc[r] \in {"getdel", "set_client"} => stall'[r] = stall[r] + 1
        BY <1>3 DEF Tick
      <3>4. pc[r] \in {"getdel", "set_client"} => Fresh(r, msg[r].ts)'
        BY <1>3, <3>1, <3>2, <3>3 DEF Tick, RequestOK, Fresh
      <3> QED BY <1>3, <3>1, <3>4 DEF Tick, RequestOK
    <2>4. ProcessInv'
      BY <1>3, <2>3 DEF Tick, ProcessInv
    <2> QED BY <2>1, <2>2, <2>4, TypeParts
  <1>4. CASE Restart
    <2>1. pc' \in [Process -> Label] /\ \A p \in Process : pc'[p] \in {"gone", pc[p]}
      BY <1>1, <1>4 DEF Restart, LocalType, Label
    <2>2. UNCHANGED <<clock, stall, store, grant, msg, answer, via>> /\ \A p \in Process : pc'[p] \notin Await
      BY <1>1, <1>4 DEF Restart, InFlight, Await, GrantAwait, FailAwait
    <2>3. EnvType'
      BY <1>1, <1>4, GateAssumption DEF Restart, Fault, EnvType
    <2>4. LocalType' /\ StoreType'
      BY <1>1, <2>1, <2>2 DEF LocalType, StoreType, store, redis
    <2>5. ASSUME NEW g \in Grant PROVE GrantOK(pc'[g], grant'[g])
      BY <2>1, <2>2, Kinds DEF ProcessInv, GrantOK, GrantAwait
    <2>6. ASSUME NEW r \in Request PROVE RequestOK(r, pc[r], msg[r], via[r], answer[r])'
      <3>1. r \in Process /\ pc'[r] \notin Checked \cup GrantAwait \cup FailAwait
        BY <2>2, Kinds DEF Await, Checked
      <3>2. RequestOK(r, pc[r], msg[r], via[r], answer[r])
        BY DEF ProcessInv
      <3> QED BY <2>1, <2>2, <3>1, <3>2 DEF RequestOK, Checked, FailAwait, Admitted, Answered
    <2>7. ProcessInv'
      BY <2>5, <2>6 DEF ProcessInv
    <2> QED BY <2>3, <2>4, <2>7, TypeParts
  <1>5. ASSUME NEW c \in Counter, CounterExpires(c) PROVE TypeOK' /\ ProcessInv'
    <2>1. counters' \in [Counter -> [n : Nat, armed : BOOLEAN]]
      BY <1>1, <1>5 DEF CounterExpires, StoreType
    <2> QED BY <1>5, <2>1 DEF CounterExpires, TypeOK, ProcessInv, RequestOK, Fresh, env
  <1> QED BY <1>2, <1>3, <1>4, <1>5, NextCases

-----------------------------------------------------------------------------
(* Nonces.                                                                 *)

Before == {"idle"} \cup GrantAwait

\* A step that is not one of p leaves p alone, except that a restart ends it.
LEMMA OthersSame ==
    ASSUME TypeOK, ProcessInv, Next, NEW q \in Process, ~StepOf(q)
    PROVE  /\ pc'[q] = pc[q] \/ (pc'[q] = "gone" /\ pc[q] \in Await)
           /\ answer'[q] = answer[q]
           /\ q \in Request => msg'[q] = msg[q] /\ via'[q] = via[q]
           /\ q \in Grant => grant'[q] = grant[q]
  <1>1. ASSUME NEW p \in Process, StepOf(p) PROVE Same(q)
    BY <1>1, StepKeeps DEF Keeps, Only
  <1>2. Tick => Same(q)
    BY DEF Tick, Same
  <1>3. \A c \in Counter : CounterExpires(c) => Same(q)
    BY DEF CounterExpires, Same
  <1>4. Restart => /\ pc'[q] = pc[q] \/ (pc'[q] = "gone" /\ pc[q] \in Await)
                   /\ UNCHANGED <<answer, msg, via, grant>>
    BY DEF Restart, InFlight
  <1> QED BY <1>1, <1>2, <1>3, <1>4, NextCases DEF Same

\* A nonce request that has not stored its nonce had not before.
LEMMA GrantStep ==
    ASSUME TypeOK, ProcessInv, Next, NEW g \in Grant, pc'[g] \in Before
    PROVE  pc[g] \in Before /\ ~(StepOf(g) /\ SetNonce(g))
  <1>1. g \in Process /\ g \notin Request /\ pc \in [Process -> Label]
    BY Kinds DEF TypeOK
  <1>2. CASE ~StepOf(g)
    <2>1. pc'[g] # "gone"
      BY DEF Before, GrantAwait
    <2> QED BY <1>1, <1>2, <2>1, OthersSame
  <1>3. CASE StepOf(g)
    <2>1. pc[g] \in Before
      <3>1. CountUp(g) \/ SetExpiry(g) \/ StatementFails(g) \/ GrantArrives(g) \/ GrantAnswer(g)
        BY <1>1, <1>3 DEF StepOf
      <3>2. pc[g] \notin {"end", "gone"}
        BY <3>1 DEF CountUp, Incr, SetExpiry, Expire, StatementFails, FailAwait, GrantAwait,
           GrantArrives, Arrives, GrantAnswer, SetNonce
      <3> QED BY <3>2 DEF ProcessInv, GrantOK, Before
    <2>2. ASSUME SetNonce(g) PROVE FALSE
      <3>1. pc[g] = "grant_set"
        BY <2>2 DEF SetNonce
      <3>2. GrantAnswer(g) \/ StatementFails(g)
        BY <1>1, <1>3, <3>1 DEF StepOf, CountUp, Incr, SetExpiry, Expire, GrantArrives, Arrives
      <3>3. pc'[g] = "end"
        BY <1>1, <3>1, <3>2 DEF GrantAnswer, StatementFails, Answers, FailAwait
      <3> QED BY <3>3 DEF Before, GrantAwait
    <2> QED BY <2>1, <2>2
  <1> QED BY <1>2, <1>3

\* An admitted request keeps its message; a new one has used a nonce.
LEMMA ViaStep ==
    ASSUME TypeOK, ProcessInv, Next, NEW r \in Request, via'[r] # "none"
    PROVE  /\ msg'[r] = msg[r]
           /\ \/ via'[r] = via[r]
              \/ /\ via'[r] = "server" /\ ConsumeNonce(r) /\ ServerNonce(r) # {}
                 /\ \A q \in Request \ {r} : via'[q] = via[q]
              \/ /\ via'[r] = "client" /\ ConsumeClientNonce(r) /\ ClientNonce(r) = {}
                 /\ \A q \in Request \ {r} : via'[q] = via[q]
  <1>1. r \in Process /\ r \notin Grant /\ via \in [Request -> {"none", "server", "client"}]
    BY Kinds DEF TypeOK
  <1>2. RequestOK(r, pc[r], msg[r], via[r], answer[r])
    BY DEF ProcessInv
  <1>3. CASE ~StepOf(r)
    BY <1>1, <1>3, OthersSame
  <1>4. CASE ConsumeNonce(r)
    <2>1. via[r] = "none"
      BY <1>2, <1>4 DEF ConsumeNonce, GetDel, RequestOK, Admitted
    <2> QED BY <1>1, <1>4, <2>1 DEF ConsumeNonce
  <1>5. CASE ConsumeClientNonce(r)
    <2>1. via[r] = "none"
      BY <1>2, <1>5 DEF ConsumeClientNonce, SetClient, RequestOK, Admitted
    <2> QED BY <1>1, <1>5, <2>1 DEF ConsumeClientNonce
  <1>6. CASE FindRecord(r) \/ Handle(r) \/ SaveAnswer(r) \/ StatementFails(r)
    BY <1>6 DEF FindRecord, Handle, SaveAnswer, StatementFails
  <1>7. CASE CountUp(r) \/ SetExpiry(r) \/ ArrivesBad(r) \/ ArrivesSigned(r) \/ ArrivesUnsigned(r)
    <2>1. pc[r] \notin Admitted /\ via' = via
      BY <1>7 DEF CountUp, Incr, SetExpiry, Expire, ArrivesBad, ArrivesSigned, ArrivesUnsigned,
         Arrives, Admitted
    <2> QED BY <1>2, <2>1 DEF RequestOK
  <1> QED BY <1>1, <1>3, <1>4, <1>5, <1>6, <1>7 DEF StepOf

\* Which nonces a step adds and removes.
LEMMA NoncesStep ==
    ASSUME TypeOK, ProcessInv, Next, NEW x \in nonces'
    PROVE  x \in nonces \/ (x.nonce \in Grant /\ StepOf(x.nonce) /\ SetNonce(x.nonce))
  <1>1. CASE x \notin nonces
    <2>1. PICK p \in Process : StepOf(p)
      BY <1>1, NextCases DEF Tick, Restart, CounterExpires, store, redis
    <2>2. SetNonce(p)
      BY <1>1, <2>1, StepStore DEF Command, Incr, Expire, GetDel, SetClient, Insert, store, redis
    <2>3. p \in Grant
      BY <2>2, Kinds DEF SetNonce, ProcessInv, RequestOK, GrantAwait
    <2>4. x.nonce = p
      BY <1>1, <2>2 DEF SetNonce
    <2> QED BY <2>1, <2>2, <2>3, <2>4
  <1> QED BY <1>1

\* A spent client nonce is forgotten only when its life is over.
LEMMA SpentStep ==
    ASSUME TypeOK, ProcessInv, Next, NEW x \in spent
    PROVE  x \in spent' \/ clock' > x.until
  <1>1. x.until \in Nat /\ clock \in Nat
    BY GateAssumption DEF TypeOK, Time
  <1>2. CASE Tick
    BY <1>1, <1>2 DEF Tick
  <1>3. ASSUME NEW p \in Process, StepOf(p) PROVE x \in spent'
    BY <1>3, StepStore DEF Command, Incr, Expire, GetDel, SetNonce, SetClient, Insert, store, redis
  <1> QED BY <1>2, <1>3, NextCases DEF Restart, CounterExpires, store, redis

\* Time does not go back.
LEMMA ClockStep ==
    ASSUME TypeOK, ProcessInv, Next PROVE clock \in Nat /\ clock' \in Nat /\ clock' >= clock
  <1>1. clock \in Nat
    BY GateAssumption DEF TypeOK, Time
  <1>2. ASSUME NEW p \in Process, StepOf(p) PROVE clock' = clock
    BY <1>2, StepKeeps DEF Keeps
  <1>3. Tick => clock' = clock + 1
    BY DEF Tick
  <1> QED BY <1>1, <1>2, <1>3, NextCases DEF Restart, CounterExpires, env

\* Neither does the time a request has been held up.
LEMMA StallStep ==
    ASSUME TypeOK, ProcessInv, Next, NEW r \in Request
    PROVE  stall[r] \in Nat /\ stall'[r] \in Nat /\ stall'[r] >= stall[r]
  <1>1. stall[r] \in Nat
    BY DEF TypeOK
  <1>2. ASSUME NEW p \in Process, StepOf(p) PROVE stall' = stall
    BY <1>2, StepKeeps DEF Keeps
  <1>3. Tick => stall'[r] \in {stall[r], stall[r] + 1}
    BY DEF Tick
  <1> QED BY <1>1, <1>2, <1>3, NextCases DEF Restart, CounterExpires, env

\* Every step keeps NonceInv and spends no nonce twice.
LEMMA NonceStep ==
    ASSUME TypeOK, ProcessInv, NonceInv, NonceSpentOnce, Next PROVE NonceInv' /\ NonceSpentOnce'
  <1>1. ASSUME NEW g \in Grant, pc'[g] \in Before
        PROVE  /\ \A x \in nonces' : x.nonce # g
               /\ \A r \in Request : via'[r] = "server" => msg'[r].nonce # g
    <2>1. pc[g] \in Before
      BY <1>1, GrantStep
    <2>2. /\ \A x \in nonces : x.nonce # g
          /\ \A r \in Request : via[r] = "server" => msg[r].nonce # g
      BY <2>1 DEF NonceInv, Before
    <2>3. ASSUME NEW x \in nonces', x.nonce = g PROVE FALSE
      BY <1>1, <2>2, <2>3, NoncesStep, GrantStep
    <2>4. ASSUME NEW r \in Request, via'[r] = "server", msg'[r].nonce = g PROVE FALSE
      <3>1. msg[r].nonce = g /\ via[r] # "server"
        BY <2>2, <2>4, ViaStep
      <3>2. ServerNonce(r) # {}
        BY <2>4, <3>1, ViaStep
      <3> QED BY <2>2, <3>1, <3>2 DEF ServerNonce
    <2> QED BY <2>3, <2>4
  <1>2. ASSUME NEW r \in Request, via'[r] = "server", NEW x \in nonces'
        PROVE  ~(x.nonce = msg'[r].nonce /\ x.to = msg'[r].signer)
    <2>1. CASE via[r] = "server"
      <3>1. msg'[r] = msg[r]
        BY <1>2, ViaStep
      <3>2. CASE x \in nonces
        BY <2>1, <3>1, <3>2 DEF NonceInv
      <3>3. CASE x.nonce \in Grant /\ SetNonce(x.nonce)
        <4>1. pc[x.nonce] \in Before
          BY <3>3 DEF SetNonce, Before, GrantAwait
        <4> QED BY <2>1, <3>1, <3>3, <4>1 DEF NonceInv, Before
      <3> QED BY <3>2, <3>3, NoncesStep
    <2>2. CASE via[r] # "server"
      <3>1. ConsumeNonce(r) /\ msg'[r] = msg[r]
        BY <1>2, <2>2, ViaStep
      <3>2. nonces' = nonces \ ServerNonce(r)
        BY <3>1 DEF ConsumeNonce, GetDel
      <3> QED BY <3>1, <3>2 DEF ServerNonce
    <2> QED BY <2>1, <2>2
  <1>3. ASSUME NEW r \in Request, via'[r] = "client"
        PROVE  \/ clock' > msg'[r].ts - Window + NonceTtl
               \/ \E x \in ClientNonce(r)' : x.until >= msg'[r].ts - Window + NonceTtl
    <2>1. msg'[r] = msg[r] /\ msg[r].ts \in Nat /\ Window \in Nat /\ NonceTtl \in Nat
      BY <1>3, ViaStep, GateAssumption DEF TypeOK, Time
    <2>2. clock \in Nat /\ clock' \in Nat /\ clock' >= clock
      BY ClockStep
    <2>3. CASE via[r] = "client"
      <3>1. CASE clock > msg[r].ts - Window + NonceTtl
        BY <2>1, <2>2, <3>1
      <3>2. ASSUME NEW x \in ClientNonce(r), x.until >= msg[r].ts - Window + NonceTtl
            PROVE  \/ clock' > msg'[r].ts - Window + NonceTtl
                   \/ \E y \in ClientNonce(r)' : y.until >= msg'[r].ts - Window + NonceTtl
        <4>1. x \in spent /\ x.until \in Nat
          BY <3>2 DEF ClientNonce, TypeOK
        <4>2. CASE clock' > x.until
          BY <2>1, <2>2, <3>2, <4>1, <4>2
        <4>3. CASE x \in spent'
          BY <2>1, <3>2, <4>3 DEF ClientNonce
        <4> QED BY <4>1, <4>2, <4>3, SpentStep
      <3> QED BY <2>3, <3>1, <3>2 DEF NonceInv
    <2>4. CASE via[r] # "client"
      <3>1. ConsumeClientNonce(r) /\ ClientNonce(r) = {}
        BY <1>3, <2>4, ViaStep
      <3>2. PICK x : x = [nonce |-> msg[r].nonce, by |-> msg[r].signer, until |-> clock + NonceTtl]
        OBVIOUS
      <3>3. x \in spent'
        BY <3>1, <3>2 DEF ConsumeClientNonce, SetClient
      <3>4. x.nonce = msg[r].nonce /\ x.by = msg[r].signer /\ x.until = clock + NonceTtl
        BY <3>2
      <3>5. msg[r].ts - clock <= Window
        BY <3>1 DEF ConsumeClientNonce, SetClient, ProcessInv, RequestOK, Fresh
      <3>6. x.until >= msg[r].ts - Window + NonceTtl
        BY <2>1, <2>2, <3>4, <3>5, GateAssumption
      <3> QED BY <2>1, <3>3, <3>4, <3>6 DEF ClientNonce
    <2> QED BY <2>3, <2>4
  <1>4. NonceInv'
    BY <1>1, <1>2, <1>3 DEF NonceInv, Before
  <1>5. ASSUME NEW r \in Request, NEW q \in Request, via'[q] # "none", via'[r] = via'[q], r # q,
               msg'[r].signer = msg'[q].signer, msg'[r].nonce = msg'[q].nonce, via'[q] # via[q]
        PROVE  /\ via'[q] = "client"
               /\ msg'[r].ts = msg'[q].ts => stall'[q] > NonceTtl - 2 * Window
    <2>1. msg'[r] = msg[r] /\ msg'[q] = msg[q]
      BY <1>5, ViaStep
    <2>2. via[r] = via'[r]
      BY <1>5, ViaStep
    <2>3. ASSUME via'[q] = "server" PROVE FALSE
      <3>1. PICK x \in nonces : x.nonce = msg[q].nonce /\ x.to = msg[q].signer
        BY <1>5, <2>3, ViaStep DEF ServerNonce
      <3> QED BY <1>5, <2>1, <2>2, <2>3, <3>1 DEF NonceInv
    <2>4. via'[q] = "client" /\ ConsumeClientNonce(q) /\ ClientNonce(q) = {}
      BY <1>5, <2>3, ViaStep
    <2>5. ASSUME msg'[r].ts = msg'[q].ts PROVE stall'[q] > NonceTtl - 2 * Window
      <3>1. Fresh(q, msg[q].ts) /\ stall' = stall
        BY <2>4 DEF ConsumeClientNonce, SetClient, ProcessInv, RequestOK, env
      <3>2. clock \in Int /\ msg[q].ts \in Int /\ Window \in Nat /\ NonceTtl \in Nat /\ stall[q] \in Nat
        BY GateAssumption DEF TypeOK, Time
      <3>3. ClientNonce(r) = {}
        BY <1>5, <2>1, <2>4 DEF ClientNonce
      <3>4. clock > msg[r].ts - Window + NonceTtl
        BY <1>5, <2>2, <2>4, <3>3 DEF NonceInv
      <3> QED BY <2>1, <2>5, <3>1, <3>2, <3>4 DEF Fresh
    <2> QED BY <2>4, <2>5
  <1>6. NonceSpentOnce'
    <2> SUFFICES ASSUME NEW r \in Request, NEW q \in Request, r # q, via'[r] # "none",
                        via'[r] = via'[q], msg'[r].signer = msg'[q].signer,
                        msg'[r].nonce = msg'[q].nonce
                 PROVE  /\ via'[r] = "client"
                        /\ msg'[r].ts = msg'[q].ts =>
                             \E x \in {r, q} : stall'[x] > NonceTtl - 2 * Window
      BY DEF NonceSpentOnce
    <2>1. CASE via'[q] # via[q] \/ via'[r] # via[r]
      BY <1>5, <2>1
    <2>2. CASE via'[q] = via[q] /\ via'[r] = via[r]
      <3>1. msg'[r] = msg[r] /\ msg'[q] = msg[q]
        BY ViaStep
      <3>2. /\ via[r] = "client"
            /\ msg[r].ts = msg[q].ts => \E x \in {r, q} : stall[x] > NonceTtl - 2 * Window
        BY <2>2, <3>1 DEF NonceSpentOnce
      <3>3. \A x \in {r, q} : stall[x] \in Nat /\ stall'[x] \in Nat /\ stall'[x] >= stall[x]
        BY StallStep
      <3>4. NonceTtl - 2 * Window \in Int
        BY GateAssumption
      <3> QED BY <2>2, <3>1, <3>2, <3>3, <3>4
    <2> QED BY <2>1, <2>2
  <1> QED BY <1>4, <1>6

-----------------------------------------------------------------------------
(* Stored answers.                                                         *)

\* A request past its handler keeps its answer and its message.
LEMMA Frozen ==
    ASSUME TypeOK, ProcessInv, Next, NEW r \in Request, pc[r] \in Answered
    PROVE  pc'[r] \in Answered /\ answer'[r] = answer[r] /\ msg'[r] = msg[r]
  <1>1. r \in Process /\ r \notin Grant /\ pc \in [Process -> Label]
    BY Kinds DEF TypeOK
  <1>2. CASE ~StepOf(r)
    BY <1>1, <1>2, OthersSame DEF Answered
  <1>3. CASE StepOf(r)
    <2>1. SaveAnswer(r) \/ StatementFails(r)
      BY <1>1, <1>3 DEF StepOf, CountUp, Incr, SetExpiry, Expire, ArrivesBad, ArrivesSigned,
         ArrivesUnsigned, Arrives, ConsumeNonce, GetDel, ConsumeClientNonce, SetClient, FindRecord,
         Handle, Answered
    <2>2. Goto(r, "end") /\ msg' = msg
      BY <2>1 DEF SaveAnswer, StatementFails, Answered, FailAwait, GrantAwait
    <2> QED BY <1>1, <2>2 DEF Goto, Answered
  <1> QED BY <1>2, <1>3

\* What a handler wrote it has written for good.
LEMMA WroteKept ==
    ASSUME TypeOK, ProcessInv, Next, NEW q \in Request, NEW k, NEW s, NEW c, NEW a,
           Wrote(q, k, s, c, a)
    PROVE  Wrote(q, k, s, c, a)'
  BY Frozen DEF Wrote

\* A row, once inserted, stays; a new one holds what its handler answered.
LEMMA RecordsStep ==
    ASSUME TypeOK, ProcessInv, Next, NEW k \in IdemKey
    PROVE  \/ records'[k] = records[k]
           \/ /\ records[k] = NoRecord
              /\ \E q \in Request :
                   Wrote(q, k, records'[k].owner, records'[k].call, records'[k].reply)
  <1>1. CASE records' # records
    <2>1. PICK p \in Process : StepOf(p)
      BY <1>1, NextCases DEF Tick, Restart, CounterExpires, store
    <2>2. Insert(p)
      BY <1>1, <2>1, StepStore DEF Command, Incr, Expire, GetDel, SetClient, SetNonce, store
    <2>3. p \in Request /\ pc[p] = "insert"
      BY <2>2, Kinds DEF Insert, ProcessInv, GrantOK, GrantAwait
    <2>4. answer[p] = [status |-> "ok", from |-> p] /\ msg[p].key \in IdemKey
      BY <2>3 DEF ProcessInv, RequestOK, Checked
    <2>5. PICK row : /\ row = [owner |-> msg[p].signer, call |-> msg[p].call, reply |-> answer[p]]
                     /\ records' = [records EXCEPT ![msg[p].key] = row]
                     /\ records[msg[p].key] = NoRecord
      BY <1>1, <2>2 DEF Insert
    <2>6. row.owner = msg[p].signer /\ row.call = msg[p].call /\ row.reply = answer[p]
      BY <2>5
    <2>7. answer[p].status = "ok" /\ answer[p].from = p
      BY <2>4
    <2>8. CASE msg[p].key = k
      <3>1. records'[k] = row /\ records[k] = NoRecord
        BY <2>5, <2>8 DEF TypeOK
      <3>2. Wrote(p, k, row.owner, row.call, row.reply)
        BY <2>3, <2>6, <2>7, <2>8 DEF Wrote, Answered
      <3> QED BY <2>3, <3>1, <3>2
    <2>9. CASE msg[p].key # k
      BY <2>5, <2>9 DEF TypeOK
    <2> QED BY <2>8, <2>9
  <1> QED BY <1>1

\* Where an answer with a body comes from.
LEMMA AnswerStep ==
    ASSUME TypeOK, ProcessInv, Next, NEW r \in Request, answer'[r].from # None
    PROVE  /\ msg'[r] = msg[r]
           /\ \/ answer'[r] = answer[r] /\ pc[r] \in Answered
              \/ pc[r] = "handler" /\ answer'[r].from = r
              \/ /\ pc[r] = "find" /\ records[msg[r].key] # NoRecord
                 /\ answer'[r] = records[msg[r].key].reply
                 /\ records[msg[r].key].owner = msg[r].signer
                 /\ records[msg[r].key].call = msg[r].call
  <1>1. r \in Process /\ r \notin Grant /\ answer \in [Process -> Reply]
    BY Kinds DEF TypeOK
  <1>2. RequestOK(r, pc[r], msg[r], via[r], answer[r])
    BY DEF ProcessInv
  <1>3. CASE pc[r] \in Answered
    BY <1>3, Frozen
  <1>4. CASE pc[r] \notin Answered /\ answer'[r] = answer[r]
    BY <1>2, <1>4 DEF RequestOK
  <1>5. CASE pc[r] \notin Answered /\ answer'[r] # answer[r]
    <2>1. StepOf(r)
      BY <1>1, <1>5, OthersSame
    <2>2. ~(ArrivesBad(r) \/ ArrivesSigned(r) \/ ArrivesUnsigned(r) \/ SaveAnswer(r))
      BY <1>5 DEF ArrivesBad, ArrivesSigned, ArrivesUnsigned, SaveAnswer, Goto, Fails
    <2>3. ~(ConsumeNonce(r) \/ ConsumeClientNonce(r))
      BY <1>5 DEF ConsumeNonce, ConsumeClientNonce, Goto, Fails
    <2>4. ASSUME NEW s \in {"none", "ok", "failed", "limited", "unauthorized", "conflict"},
                 Answers(r, Says(s))
          PROVE  FALSE
      <3>1. answer'[r] = Says(s)
        BY <1>1, <2>4 DEF Answers
      <3> QED BY <3>1, SaysReply
    <2>5. ~(CountUp(r) \/ SetExpiry(r))
      BY <1>1, <1>5, <2>4 DEF CountUp, SetExpiry, Counted, GrantCounted, FailIpCounted,
         FailPkCounted, Goto
    <2>6. ~StatementFails(r)
      BY <1>5, <2>4 DEF StatementFails, Goto
    <2>7. CASE Handle(r)
      <3>1. PICK s \in {"ok", "failed"} : answer' = [answer EXCEPT ![r] = [status |-> s, from |-> r]]
        BY <2>7 DEF Handle
      <3>2. answer'[r].from = r
        BY <1>1, <3>1
      <3> QED BY <2>7, <3>2 DEF Handle
    <2>8. CASE FindRecord(r)
      <3>1. msg[r].signer \in Signer /\ pc[r] = "find" /\ msg' = msg
        BY <1>2, <2>8 DEF FindRecord, RequestOK, Checked
      <3>2. /\ Answers(r, records[msg[r].key].reply)
            /\ records[msg[r].key].owner = msg[r].signer /\ records[msg[r].key].call = msg[r].call
        BY <1>5, <2>4, <2>8 DEF FindRecord, Goto
      <3>3. records[msg[r].key] # NoRecord
        BY <3>1, <3>2, GateAssumption DEF NoRecord, None
      <3>4. answer'[r] = records[msg[r].key].reply
        BY <1>1, <3>2 DEF Answers
      <3> QED BY <3>1, <3>2, <3>3, <3>4
    <2> QED BY <1>1, <2>1, <2>2, <2>3, <2>5, <2>6, <2>7, <2>8 DEF StepOf
  <1> QED BY <1>3, <1>4, <1>5

\* Every step keeps RecordInv.
LEMMA RecordStep ==
    ASSUME TypeOK, ProcessInv, RecordInv, Next PROVE RecordInv'
  <1>1. ASSUME NEW k \in IdemKey, records'[k] # NoRecord
        PROVE  \E q \in Request : Wrote(q, k, records[k].owner, records[k].call, records[k].reply)'
    <2>1. PICK o, c, a : o = records'[k].owner /\ c = records'[k].call /\ a = records'[k].reply
      OBVIOUS
    <2>2. PICK q \in Request : Wrote(q, k, o, c, a)
      BY <1>1, <2>1, RecordsStep DEF RecordInv
    <2>3. Wrote(q, k, o, c, a)'
      BY <2>2, WroteKept
    <2> QED BY <2>1, <2>3
  <1>2. ASSUME NEW r \in Request, NEW q \in Request, answer'[r].from = q, q # r
        PROVE  Wrote(q, msg[r].key, msg[r].signer, msg[r].call, answer[r])'
    <2>0. q # None /\ msg'[r] = msg[r]
      BY <1>2, AnswerStep, GateAssumption DEF None
    <2>1. PICK k, s, c, a : k = msg[r].key /\ s = msg[r].signer /\ c = msg[r].call /\ a = answer'[r]
      OBVIOUS
    <2>2. Wrote(q, k, s, c, a)
      <3>1. CASE answer'[r] = answer[r]
        BY <1>2, <2>1, <3>1 DEF RecordInv
      <3>2. CASE /\ pc[r] = "find" /\ records[msg[r].key] # NoRecord
                 /\ answer'[r] = records[msg[r].key].reply
                 /\ records[msg[r].key].owner = msg[r].signer
                 /\ records[msg[r].key].call = msg[r].call
        <4>1. msg[r].key \in IdemKey
          BY <3>2 DEF ProcessInv, RequestOK, Checked
        <4>2. PICK p \in Request : Wrote(p, k, s, c, a)
          BY <2>1, <3>2, <4>1 DEF RecordInv
        <4> QED BY <1>2, <2>1, <4>2 DEF Wrote
      <3> QED BY <1>2, <2>0, <3>1, <3>2, AnswerStep
    <2>3. Wrote(q, k, s, c, a)'
      BY <2>2, WroteKept
    <2> QED BY <2>0, <2>1, <2>3
  <1> QED BY <1>1, <1>2 DEF RecordInv

\* A request that reaches the handler found no row under its key.
LEMMA HandlerStep ==
    ASSUME TypeOK, ProcessInv, Next, NEW r \in Request, pc'[r] = "handler"
    PROVE  /\ msg'[r] = msg[r]
           /\ pc[r] = "handler" \/ (pc[r] = "find" /\ records[msg[r].key] = NoRecord)
  <1>1. r \in Process /\ r \notin Grant /\ pc \in [Process -> Label]
    BY Kinds DEF TypeOK
  <1>2. CASE ~StepOf(r)
    BY <1>1, <1>2, OthersSame
  <1>3. CASE StepOf(r)
    <2>1. \A l : Goto(r, l) => pc'[r] = l
      BY <1>1 DEF Goto
    <2>2. \A a : ~Answers(r, a)
      BY <1>1 DEF Answers
    <2>3. ~(ArrivesBad(r) \/ ArrivesSigned(r) \/ ArrivesUnsigned(r) \/ SaveAnswer(r))
      BY <2>1 DEF ArrivesBad, ArrivesSigned, ArrivesUnsigned, SaveAnswer, Fails
    <2>4. ~(ConsumeNonce(r) \/ ConsumeClientNonce(r))
      BY <2>1 DEF ConsumeNonce, ConsumeClientNonce, Fails
    <2>5. ~SetExpiry(r)
      BY <2>1, <2>2 DEF SetExpiry, Counted, GrantCounted, FailIpCounted, FailPkCounted
    <2>6. ~CountUp(r)
      <3>1. SUFFICES ASSUME CountUp(r) PROVE FALSE
        OBVIOUS
      <3>2. ~Counted(r, counters[CounterOf(r)].n + 1)
        BY <2>1, <2>2 DEF Counted, GrantCounted, FailIpCounted, FailPkCounted
      <3>3. pc'[r] = ExpireAfter[pc[r]] /\ pc[r] \in {"grant_incr", "ip_incr", "pk_incr"}
        BY <2>1, <3>1, <3>2 DEF CountUp, Incr
      <3> QED BY <3>3 DEF ExpireAfter
    <2>7. ~StatementFails(r)
      BY <2>1, <2>2 DEF StatementFails
    <2>8. ~Handle(r)
      BY <1>1 DEF Handle
    <2>9. FindRecord(r)
      BY <1>1, <1>3, <2>3, <2>4, <2>5, <2>6, <2>7, <2>8 DEF StepOf
    <2> QED BY <2>2, <2>9 DEF FindRecord
  <1> QED BY <1>2, <1>3

\* A key that has a row lets nobody through to the handler.
LEMMA NoNewRunsStep ==
    ASSUME TypeOK, ProcessInv, RecordInv, Next, NEW k \in IdemKey, records[k] # NoRecord
    PROVE  Runs(k)' \subseteq Runs(k)
  <1> SUFFICES ASSUME NEW r \in Request, msg'[r].key = k, pc'[r] = "handler" \/ answer'[r].from = r
               PROVE  r \in Runs(k)
    BY DEF Runs
  <1>1. CASE pc'[r] = "handler"
    BY <1>1, HandlerStep DEF Runs
  <1>2. CASE answer'[r].from = r
    <2>1. msg'[r] = msg[r] /\ answer'[r].from # None
      BY <1>2, AnswerStep, GateAssumption DEF None
    <2>2. CASE answer'[r] = answer[r] \/ pc[r] = "handler"
      BY <1>2, <2>1, <2>2 DEF Runs
    <2>3. CASE pc[r] = "find" /\ answer'[r] = records[msg[r].key].reply
      <3>1. PICK q \in Request : Wrote(q, k, records[k].owner, records[k].call, records[k].reply)
        BY DEF RecordInv
      <3>2. q = r
        BY <1>2, <2>1, <2>3, <3>1 DEF Wrote
      <3> QED BY <2>3, <3>1, <3>2 DEF Wrote, Answered
    <2> QED BY <2>1, <2>2, <2>3, AnswerStep
  <1> QED BY <1>1, <1>2

-----------------------------------------------------------------------------
(* Rate limits.                                                            *)

Expiring == {"grant_expire", "ip_expire", "pk_expire"}

\* Counter c is counting and has a life, or a request is about to give it one.
Lifts(c) ==
    counters[c].n > 0 => \/ counters[c].armed
                         \/ \E p \in Process : pc[p] \in Expiring /\ CounterOf(p) = c

\* A process that is about to give its counter a life does so next, unless it
\* throws.
LEMMA ExpiringStep ==
    ASSUME TypeOK, ProcessInv, Next, NEW q \in Process, pc[q] \in Expiring, ~StatementFails(q), ~Restart
    PROVE  \/ SetExpiry(q)
           \/ pc'[q] = pc[q] /\ CounterOf(q)' = CounterOf(q)
  <1>1. CASE StepOf(q)
    <2>1. ~CountUp(q)
      BY DEF CountUp, Incr, Expiring
    <2>2. ~(GrantArrives(q) \/ GrantAnswer(q) \/ ArrivesBad(q) \/ ArrivesSigned(q)
            \/ ArrivesUnsigned(q))
      BY DEF GrantArrives, GrantAnswer, SetNonce, ArrivesBad, ArrivesSigned, ArrivesUnsigned,
         Arrives, Expiring
    <2>3. ~(ConsumeNonce(q) \/ ConsumeClientNonce(q) \/ FindRecord(q) \/ Handle(q) \/ SaveAnswer(q))
      BY DEF ConsumeNonce, GetDel, ConsumeClientNonce, SetClient, FindRecord, Handle, SaveAnswer,
         Insert, Expiring
    <2> QED BY <1>1, <2>1, <2>2, <2>3 DEF StepOf
  <1>2. CASE ~StepOf(q)
    <2>1. pc'[q] = pc[q]
      <3>1. ASSUME NEW p \in Process, StepOf(p) PROVE Same(q)
        BY <1>2, <3>1, StepKeeps DEF Keeps, Only
      <3> QED BY <3>1, NextCases DEF Same, Tick, CounterExpires
    <2>2. q \in Request => msg'[q] = msg[q]
      BY <1>2, OthersSame
    <2>3. q \in Grant \/ q \in Request
      BY DEF Process
    <2> QED BY <2>1, <2>2, <2>3 DEF CounterOf
  <1> QED BY <1>1, <1>2

\* Only incrWithTtl and the end of a counter's life touch the counters.
LEMMA CountersStep ==
    ASSUME TypeOK, ProcessInv, Next, \A p \in Process : ~StatementFails(p)
    PROVE  \/ counters' = counters
           \/ \E p \in Process : CountUp(p) \/ SetExpiry(p)
           \/ \E c \in Counter : CounterExpires(c)
  <1>1. ASSUME NEW p \in Process, StepOf(p), ~CountUp(p), ~SetExpiry(p) PROVE counters' = counters
    <2>1. CASE GrantArrives(p) \/ GrantAnswer(p)
      BY <2>1 DEF GrantArrives, GrantAnswer, SetNonce, store, redis
    <2>2. CASE ArrivesBad(p) \/ ArrivesSigned(p) \/ ArrivesUnsigned(p)
      BY <2>2 DEF ArrivesBad, ArrivesSigned, ArrivesUnsigned, store, redis
    <2>3. CASE ConsumeNonce(p) \/ ConsumeClientNonce(p)
      BY <2>3 DEF ConsumeNonce, ConsumeClientNonce, GetDel, SetClient
    <2>4. CASE FindRecord(p) \/ Handle(p) \/ SaveAnswer(p)
      BY <2>4 DEF FindRecord, Handle, SaveAnswer, Insert, store, redis
    <2> QED BY <1>1, <2>1, <2>2, <2>3, <2>4 DEF StepOf
  <1> QED BY <1>1, NextCases DEF Tick, Restart, store, redis

\* Every step keeps LimitsLift.
LEMMA LimitsStep ==
    ASSUME TypeOK, TypeOK', ProcessInv, LimitsLift, Next PROVE LimitsLift'
  <1> SUFFICES ASSUME faults' = 0, NEW c \in Counter PROVE Lifts(c)'
    BY DEF LimitsLift, Lifts, Expiring
  <1>1. faults = 0 /\ ~Restart /\ \A p \in Process : ~StatementFails(p)
    <2>1. faults \in Nat
      BY GateAssumption DEF TypeOK
    <2>2. ~Restart /\ \A p \in Process : ~StatementFails(p)
      BY <2>1 DEF Restart, StatementFails, Fault
    <2>3. \A p \in Process : StepOf(p) => faults' = faults \/ faults' = faults + 1
      BY StepFaults
    <2>4. faults' = faults \/ faults' = faults + 1
      BY <2>2, <2>3, NextCases DEF Tick, CounterExpires, env
    <2> QED BY <2>1, <2>2, <2>4
  <1>2. Lifts(c)
    BY <1>1 DEF LimitsLift, Lifts, Expiring
  <1>3. counters \in [Counter -> [n : Nat, armed : BOOLEAN]]
    BY DEF TypeOK
  <1>4. ASSUME NEW q \in Process, pc[q] \in Expiring, CounterOf(q) = c, ~SetExpiry(q)
        PROVE  pc'[q] \in Expiring /\ CounterOf(q)' = c
    BY <1>1, <1>4, ExpiringStep
  <1>5. ASSUME NEW p \in Process, SetExpiry(p) PROVE Lifts(c)'
    <2>1. CounterOf(p) \in Counter /\ Keeps(p)
      <3>1. LocalType /\ clock \in Time
        BY TypeParts DEF EnvType
      <3>2. ProcessOK(p)
        BY DEF ProcessInv, ProcessOK
      <3> QED BY <1>5, <3>1, <3>2, SetExpiryStep
    <2>2. counters' = [counters EXCEPT ![CounterOf(p)].armed = TRUE]
      BY <1>5 DEF SetExpiry, Expire
    <2>3. CASE CounterOf(p) = c
      BY <1>3, <2>1, <2>2, <2>3 DEF Lifts
    <2>4. CASE CounterOf(p) # c
      <3>1. counters'[c] = counters[c]
        BY <1>3, <2>1, <2>2, <2>4
      <3>2. ASSUME NEW q \in Process, pc[q] \in Expiring, CounterOf(q) = c
            PROVE  pc'[q] \in Expiring /\ CounterOf(q)' = c
        <4>1. q # p
          BY <2>4, <3>2
        <4>2. Same(q)
          BY <2>1, <4>1 DEF Keeps, Only
        <4>3. q \in Grant \/ q \in Request
          BY DEF Process
        <4> QED BY <3>2, <4>2, <4>3 DEF Same, CounterOf
      <3> QED BY <1>2, <3>1, <3>2 DEF Lifts
    <2> QED BY <2>3, <2>4
  <1>6. ASSUME NEW p \in Process, CountUp(p), \A q \in Process : ~SetExpiry(q) PROVE Lifts(c)'
    <2>1. CounterOf(p) \in Counter
      <3>1. LocalType /\ clock \in Time
        BY TypeParts DEF EnvType
      <3>2. ProcessOK(p)
        BY DEF ProcessInv, ProcessOK
      <3> QED BY <1>3, <1>6, <3>1, <3>2, CountUpStep
    <2>2. /\ counters' = [counters EXCEPT ![CounterOf(p)].n = @ + 1]
          /\ pc[p] \in {"grant_incr", "ip_incr", "pk_incr"}
      BY <1>6 DEF CountUp, Incr
    <2>3. counters'[c].armed = counters[c].armed
      BY <1>3, <2>1, <2>2
    <2>4. CASE counters[c].n > 0
      BY <1>2, <1>4, <1>6, <2>3, <2>4 DEF Lifts
    <2>5. CASE ~(counters[c].n > 0) /\ CounterOf(p) # c
      <3>1. counters'[c] = counters[c]
        BY <1>3, <2>1, <2>2, <2>5
      <3> QED BY <2>5, <3>1 DEF Lifts
    <2>6. CASE ~(counters[c].n > 0) /\ CounterOf(p) = c
      <3>1. counters[c].n = 0
        BY <1>3, <2>6
      <3>2. Goto(p, ExpireAfter[pc[p]]) /\ msg' = msg
        BY <1>6, <2>6, <3>1 DEF CountUp
      <3>3. pc'[p] = ExpireAfter[pc[p]]
        BY <3>2 DEF Goto, TypeOK
      <3>4. pc'[p] \in Expiring
        BY <2>2, <3>3 DEF ExpireAfter, Expiring
      <3>5. CounterOf(p)' = c
        BY <2>2, <2>6, <3>2, <3>3 DEF CounterOf, ExpireAfter
      <3> QED BY <3>4, <3>5 DEF Lifts
    <2> QED BY <2>4, <2>5, <2>6
  <1>7. ASSUME NEW d \in Counter, CounterExpires(d), \A q \in Process : ~SetExpiry(q) PROVE Lifts(c)'
    <2>1. CASE c = d
      BY <1>3, <1>7, <2>1 DEF CounterExpires, Lifts
    <2>2. CASE c # d
      <3>1. counters'[c] = counters[c]
        BY <1>3, <1>7, <2>2 DEF CounterExpires
      <3> QED BY <1>2, <1>4, <1>7, <3>1 DEF Lifts
    <2> QED BY <2>1, <2>2
  <1>8. CASE counters' = counters /\ \A q \in Process : ~SetExpiry(q)
    BY <1>2, <1>4, <1>8 DEF Lifts
  <1> QED BY <1>1, <1>5, <1>6, <1>7, <1>8, CountersStep

-----------------------------------------------------------------------------
(* The inductive invariant and the theorems.                               *)

IndInv == TypeOK /\ ProcessInv /\ NonceInv /\ NonceSpentOnce /\ RecordInv /\ LimitsLift

\* The initial states satisfy the inductive invariant.
LEMMA InitIndInv == Init => IndInv
  <1> SUFFICES ASSUME Init PROVE IndInv
    OBVIOUS
  <1>0. 0 \in Time /\ 0 \in 0..MaxFaults /\ NonceLimit \in Nat
    BY GateAssumption DEF Time
  <1>1. LocalType
    <2>1. Says("none") \in Reply
      BY SaysReply
    <2>2. NoMessage \in MsgType
      BY <1>0 DEF NoMessage, MsgType
    <2>3. "idle" \in Label
      BY DEF Label
    <2> QED BY <1>0, <2>1, <2>2, <2>3 DEF Init, LocalType, GrantType
  <1>2. StoreType
    <2>1. PICK idle \in BOOLEAN :
            counters = [c \in Counter |-> IF c = "nonce" /\ ~idle THEN [n |-> NonceLimit, armed |-> TRUE]
                                          ELSE [n |-> 0, armed |-> FALSE]]
      BY DEF Init
    <2>2. counters \in [Counter -> [n : Nat, armed : BOOLEAN]]
      BY <1>0, <2>1
    <2> QED BY <2>2 DEF Init, StoreType
  <1>3. EnvType
    BY <1>0, GateAssumption DEF Init, EnvType
  <1>4. ProcessInv
    <2>1. Grant \subseteq Process /\ Request \subseteq Process
      BY DEF Process
    <2> QED BY <2>1, SaysReply DEF Init, ProcessInv, RequestOK, GrantOK, GrantAwait, Checked, Admitted,
               Answered
  <1>5. NonceInv /\ NonceSpentOnce
    BY DEF Init, NonceInv, NonceSpentOnce
  <1>6. RecordInv
    <2>1. \A r \in Request : answer[r].from = None
      BY SaysReply DEF Init, Process
    <2> QED BY <2>1, GateAssumption DEF Init, RecordInv, None
  <1>7. LimitsLift
    <2>1. \A c \in Counter : counters[c].n = 0 \/ counters[c].armed
      BY DEF Init
    <2> QED BY <2>1 DEF LimitsLift
  <1> QED BY <1>1, <1>2, <1>3, <1>4, <1>5, <1>6, <1>7, TypeParts DEF IndInv

\* Every step keeps the inductive invariant.
LEMMA NextIndInv == IndInv /\ [Next]_vars => IndInv'
  <1> SUFFICES ASSUME IndInv, [Next]_vars PROVE IndInv'
    OBVIOUS
  <1>1. CASE Next
    BY <1>1, TypeStep, NonceStep, RecordStep, LimitsStep DEF IndInv
  <1>2. CASE UNCHANGED vars
    BY <1>2 DEF IndInv, TypeOK, ProcessInv, RequestOK, Fresh, NonceInv, ClientNonce,
       NonceSpentOnce, RecordInv, Wrote, LimitsLift, CounterOf, vars, env, store, redis
  <1> QED BY <1>1, <1>2

\* The inductive invariant holds in every reachable state.
LEMMA SpecIndInv == Spec => []IndInv
  BY InitIndInv, NextIndInv, PTL DEF Spec

\* A server nonce is good for one request, whatever requests overlap, throw
\* or are cut off by a restart.  A client nonce is good for a second one with
\* its timestamp only if a request was held up, between the check of the
\* timestamp and SET NX, for longer than the life of the nonce exceeds two
\* windows.  For any window and any life of a nonce.
THEOREM NonceTheorem == Spec => []NonceSpentOnce
  <1>1. IndInv => NonceSpentOnce
    BY DEF IndInv
  <1> QED BY <1>1, SpecIndInv, PTL

\* What idempotency answers from its table is what a handler answered to the
\* same call of the same signer under the same key.
THEOREM ReplayTheorem == Spec => []ReplayIsFaithful
  <1>1. IndInv => ReplayIsFaithful
    <2> SUFFICES ASSUME IndInv, NEW r \in Request, NEW q \in Request, answer[r].from = q, q # r
                 PROVE  /\ msg[q].key = msg[r].key /\ msg[q].signer = msg[r].signer
                        /\ msg[q].call = msg[r].call
                        /\ answer[q] = answer[r] /\ answer[r].status = "ok"
      BY DEF IndInv, ReplayIsFaithful
    <2> QED BY DEF IndInv, RecordInv, Wrote
  <1> QED BY <1>1, SpecIndInv, PTL

\* As long as nothing fails, no counter of a rate limit is left without a
\* life.
THEOREM LimitsTheorem == Spec => []LimitsLift
  <1>1. IndInv => LimitsLift
    BY DEF IndInv
  <1> QED BY <1>1, SpecIndInv, PTL

\* Once an answer is stored under a key, no further request reaches the
\* handler with it.
THEOREM NoNewRunsTheorem == Spec => NoNewRuns
  <1>1. IndInv /\ [Next]_vars =>
          [\A k \in IdemKey : records[k] # NoRecord => Runs(k)' \subseteq Runs(k)]_vars
    BY NoNewRunsStep DEF IndInv
  <1> QED BY <1>1, SpecIndInv, PTL DEF Spec, NoNewRuns

=============================================================================
