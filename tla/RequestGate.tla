----------------------------- MODULE RequestGate -----------------------------
(***************************************************************************)
(* What stands in front of the request handlers: POST /auth/nonce, the     *)
(* signatureAuth middleware and the idempotency middleware.  Redis holds   *)
(* the nonces and the counters of the rate limits, Postgres the stored     *)
(* answers.  Each await is one action, and the code up to the next await   *)
(* belongs to it.                                                          *)
(*                                                                         *)
(* A nonce is named by the request that draws it.  A call is method, path  *)
(* and body, so requests have the same hash exactly when they make the     *)
(* same call.  The handler behind the gate is one action: it answers, or   *)
(* fails.  All requests come from one IP address.                          *)
(***************************************************************************)
EXTENDS Integers, FiniteSets

CONSTANTS
    Grant,          \* POST /auth/nonce requests
    Request,        \* requests to the routes behind the gate
    Signer,         \* public keys
    Call,           \* what requests ask for
    Signed,         \* calls of the routes that use signatureAuth
    IdemKey,        \* values of the Idempotency-Key header
    NonceLimit,     \* nonces per IP address and minute (60)
    IpLimit,        \* failures per IP address and minute (30)
    PkLimit,        \* failures per public key and minute (10)
    Window,         \* accepted distance of a timestamp from now (5 minutes)
    NonceTtl,       \* life of a nonce in Redis (10 minutes)
    AllowClientNonce, \* values TG_ALLOW_CLIENT_NONCE may have at a start
    Stamp,          \* timestamps the clients send
    MaxTime,        \* bound: the last time
    MaxInFlight,    \* bound: requests handled at the same time
    MaxFaults       \* bound: throws and restarts in a behaviour

ASSUME GateAssumption ==
    /\ Signed \subseteq Call
    /\ Grant \cap Request = {}
    /\ "none" \notin Signer \cup Request
    /\ AllowClientNonce \subseteq BOOLEAN
    /\ NonceLimit \in Nat \ {0} /\ IpLimit \in Nat \ {0} /\ PkLimit \in Nat \ {0}
    /\ Window \in Nat /\ NonceTtl \in Nat /\ MaxTime \in Nat
    /\ Stamp \subseteq 0..MaxTime
    /\ MaxInFlight \in Nat /\ MaxFaults \in Nat

VARIABLES
    clock,
    stall,          \* history: time that passed over each request between the check
                    \* of its timestamp and the use of its nonce
    allowClient,    \* TG_ALLOW_CLIENT_NONCE === 'true'
    nonces,         \* keys tg:nonce2 that live in Redis
    spent,          \* keys tg:nonce that live in Redis
    counters,       \* keys tg:authnonce:ip, tg:authfail:ip and tg:authfail:pk
    records,        \* rows of idempotency_keys
    pc,             \* the await each request is at
    grant,          \* public key and timestamp of each nonce request
    msg,            \* headers and call of each request, and whether ipCount > 30
    answer,         \* what each request was answered
    via,            \* history: the store whose nonce admitted the request
    faults          \* throws and restarts so far

redis == <<nonces, spent, counters>>
store == <<redis, records>>
env   == <<clock, stall, allowClient, faults>>
vars  == <<env, store, pc, grant, msg, answer, via>>

-----------------------------------------------------------------------------
None    == "none"
Process == Grant \cup Request
Time    == 0..MaxTime
Counter == {"nonce", "ip"} \cup Signer

GrantAwait == {"grant_incr", "grant_expire", "grant_set"}
FailAwait  == {"ip_incr", "ip_expire", "pk_incr", "pk_expire"}
Await      == GrantAwait \cup FailAwait \cup {"getdel", "set_client", "find", "handler", "insert"}
Label      == Await \cup {"idle", "end", "gone"}

Message   == [signer : Signer, nonce : Grant, ts : Stamp, call : Call, key : IdemKey, over : {FALSE}]
NoMessage == [signer |-> None, nonce |-> None, ts |-> 0, call |-> None, key |-> None, over |-> FALSE]

\* "ok" is any answer of a handler below 500, "failed" one of 500 and more;
\* from is the request whose handler wrote the body.
Reply   == [status : {"none", "ok", "failed", "limited", "unauthorized", "conflict"},
            from : Request \cup {None}]
Says(s) == [status |-> s, from |-> None]

Record   == [owner : Signer, call : Call, reply : Reply]
NoRecord == [owner |-> None, call |-> None, reply |-> Says("none")]

\* Earlier requests may have used up the nonces of the address.
Init ==
    /\ clock = 0 /\ stall = [r \in Request |-> 0]
    /\ allowClient \in AllowClientNonce /\ faults = 0
    /\ nonces = {} /\ spent = {}
    /\ \E idle \in BOOLEAN :
          counters = [c \in Counter |-> IF c = "nonce" /\ ~idle THEN [n |-> NonceLimit, armed |-> TRUE]
                                        ELSE [n |-> 0, armed |-> FALSE]]
    /\ records = [k \in IdemKey |-> NoRecord]
    /\ pc = [p \in Process |-> "idle"]
    /\ grant = [g \in Grant |-> [to |-> None, at |-> 0]]
    /\ msg = [r \in Request |-> NoMessage]
    /\ answer = [p \in Process |-> Says("none")]
    /\ via = [r \in Request |-> "none"]

-----------------------------------------------------------------------------
\* Steps of a handler.

InFlight == {p \in Process : pc[p] \in Await}

Arrives(p) == pc[p] = "idle" /\ Cardinality(InFlight) < MaxInFlight

Goto(p, label) == pc' = [pc EXCEPT ![p] = label] /\ UNCHANGED answer

\* fail is called: of the request only the public key matters from here on.
Fails(r, signer) ==
    /\ msg' = [msg EXCEPT ![r] = [NoMessage EXCEPT !.signer = signer]]
    /\ Goto(r, "ip_incr")

Answers(p, reply) ==
    /\ pc' = [pc EXCEPT ![p] = "end"]
    /\ answer' = [answer EXCEPT ![p] = reply]

-----------------------------------------------------------------------------
\* Commands to the stores: what an await does there.

\* The counter that p is at.
CounterOf(p) ==
    IF p \in Grant THEN "nonce" ELSE IF pc[p] \in {"ip_incr", "ip_expire"} THEN "ip" ELSE msg[p].signer

Incr(p) ==
    /\ pc[p] \in {"grant_incr", "ip_incr", "pk_incr"}
    /\ counters' = [counters EXCEPT ![CounterOf(p)].n = @ + 1]
    /\ UNCHANGED <<nonces, spent, records>>

Expire(p) ==
    /\ pc[p] \in {"grant_expire", "ip_expire", "pk_expire"}
    /\ counters' = [counters EXCEPT ![CounterOf(p)].armed = TRUE]
    /\ UNCHANGED <<nonces, spent, records>>

SetNonce(g) ==
    /\ pc[g] = "grant_set"
    /\ nonces' = nonces \cup {[nonce |-> g, to |-> grant[g].to, at |-> grant[g].at,
                               until |-> clock + NonceTtl]}
    /\ UNCHANGED <<spent, counters, records>>

ServerNonce(r) == {x \in nonces : x.nonce = msg[r].nonce /\ x.to = msg[r].signer}

\* Mutant of GetDel: the nonce is read and left there.
GetNonce(r) ==
    /\ pc[r] = "getdel"
    /\ UNCHANGED store

GetDel(r) ==
    /\ pc[r] = "getdel"
    /\ nonces' = nonces \ ServerNonce(r)
    /\ UNCHANGED <<spent, counters, records>>

ClientNonce(r) == {x \in spent : x.nonce = msg[r].nonce /\ x.by = msg[r].signer}

SetClient(r) ==
    /\ pc[r] = "set_client"
    /\ spent' = IF ClientNonce(r) # {} THEN spent
                ELSE spent \cup {[nonce |-> msg[r].nonce, by |-> msg[r].signer,
                                  until |-> clock + NonceTtl]}
    /\ UNCHANGED <<nonces, counters, records>>

\* The key is the primary key: a second insert throws, which is ignored.
Insert(r) ==
    /\ pc[r] = "insert"
    /\ records' = IF records[msg[r].key] # NoRecord THEN records
                  ELSE [records EXCEPT ![msg[r].key] =
                            [owner |-> msg[r].signer, call |-> msg[r].call, reply |-> answer[r]]]
    /\ UNCHANGED redis

Command(p) == Incr(p) \/ Expire(p) \/ SetNonce(p) \/ GetDel(p) \/ SetClient(p) \/ Insert(p)

-----------------------------------------------------------------------------
\* incrWithTtl, and what its three callers do with the count.

GrantCounted(g, count) ==
    /\ g \in Grant
    /\ \/ count > NonceLimit /\ Answers(g, Says("limited")) /\ UNCHANGED grant
       \/ /\ count <= NonceLimit
          /\ grant' = [grant EXCEPT ![g].at = clock]
          /\ Goto(g, "grant_set")
    /\ UNCHANGED msg

FailIpCounted(r, count) ==
    /\ pc[r] \in {"ip_incr", "ip_expire"}
    /\ \/ /\ msg[r].signer # None
          /\ msg' = [msg EXCEPT ![r].over = count > IpLimit]
          /\ Goto(r, "pk_incr")
       \/ /\ msg[r].signer = None
          /\ Answers(r, Says(IF count > IpLimit THEN "limited" ELSE "unauthorized"))
          /\ UNCHANGED msg
    /\ UNCHANGED grant

FailPkCounted(r, count) ==
    /\ pc[r] \in {"pk_incr", "pk_expire"}
    /\ Answers(r, Says(IF msg[r].over \/ count > PkLimit THEN "limited" ELSE "unauthorized"))
    /\ msg' = [msg EXCEPT ![r] = NoMessage]
    /\ UNCHANGED grant

Counted(p, count) == GrantCounted(p, count) \/ FailIpCounted(p, count) \/ FailPkCounted(p, count)

ExpireAfter == [grant_incr |-> "grant_expire", ip_incr |-> "ip_expire", pk_incr |-> "pk_expire"]

\* Mutant of CountUp: the counter is never given a life.
CountUpForever(p) ==
    /\ Incr(p)
    /\ Counted(p, counters[CounterOf(p)].n + 1)
    /\ UNCHANGED <<env, via>>

CountUp(p) ==
    /\ Incr(p)
    /\ LET count == counters[CounterOf(p)].n + 1 IN
       \/ count = 1 /\ Goto(p, ExpireAfter[pc[p]]) /\ UNCHANGED <<grant, msg>>
       \/ count # 1 /\ Counted(p, count)
    /\ UNCHANGED <<env, via>>

SetExpiry(p) ==
    /\ Expire(p)
    /\ Counted(p, 1)
    /\ UNCHANGED <<env, via>>

-----------------------------------------------------------------------------
\* POST /auth/nonce.

GrantArrives(g) ==
    /\ Arrives(g)
    /\ \E s \in Signer : grant' = [grant EXCEPT ![g].to = s]
    /\ Goto(g, "grant_incr")
    /\ UNCHANGED <<env, store, msg, via>>

GrantAnswer(g) ==
    /\ SetNonce(g)
    /\ Answers(g, Says("ok"))
    /\ UNCHANGED <<env, grant, msg, via>>

-----------------------------------------------------------------------------
\* signatureAuth.

\* Headers that are missing or malformed, a key that is not the one in the
\* body, or a signature that does not verify.
ArrivesBad(r) ==
    /\ Arrives(r)
    /\ \E s \in Signer \cup {None} : Fails(r, s)
    /\ UNCHANGED <<env, store, grant, via>>

InWindow(ts) == clock - ts <= Window /\ ts - clock <= Window

ArrivesSigned(r) ==
    /\ Arrives(r)
    /\ \E m \in Message :
          /\ m.call \in Signed
          /\ \/ InWindow(m.ts) /\ Goto(r, "getdel") /\ msg' = [msg EXCEPT ![r] = m]
             \/ ~InWindow(m.ts) /\ Fails(r, m.signer)
    /\ UNCHANGED <<env, store, grant, via>>

\* A route without signatureAuth.
ArrivesUnsigned(r) ==
    /\ Arrives(r)
    /\ \E s \in Signer, c \in Call \ Signed, k \in IdemKey :
          msg' = [msg EXCEPT ![r] = [NoMessage EXCEPT !.signer = s, !.call = c, !.key = k]]
    /\ Goto(r, "find")
    /\ UNCHANGED <<env, store, grant, via>>

ConsumeNonce(r) ==
    /\ GetDel(r)
    /\ \/ /\ \E x \in ServerNonce(r) : x.at = msg[r].ts
          /\ via' = [via EXCEPT ![r] = "server"]
          /\ Goto(r, "find") /\ UNCHANGED msg
       \/ /\ \E x \in ServerNonce(r) : x.at # msg[r].ts
          /\ Fails(r, msg[r].signer) /\ UNCHANGED via
       \/ /\ ServerNonce(r) = {} /\ allowClient
          /\ Goto(r, "set_client") /\ UNCHANGED <<msg, via>>
       \/ /\ ServerNonce(r) = {} /\ ~allowClient
          /\ Fails(r, msg[r].signer) /\ UNCHANGED via
    /\ UNCHANGED <<env, grant>>

ConsumeClientNonce(r) ==
    /\ SetClient(r)
    /\ \/ /\ ClientNonce(r) = {}
          /\ via' = [via EXCEPT ![r] = "client"]
          /\ Goto(r, "find") /\ UNCHANGED msg
       \/ ClientNonce(r) # {} /\ Fails(r, msg[r].signer) /\ UNCHANGED via
    /\ UNCHANGED <<env, grant>>

-----------------------------------------------------------------------------
\* idempotency.

\* Mutant of FindRecord: the request hash is not compared.
FindRecordAnyHash(r) ==
    /\ pc[r] = "find"
    /\ LET existing == records[msg[r].key] IN
       \/ existing = NoRecord /\ Goto(r, "handler")
       \/ /\ existing # NoRecord /\ existing.owner # msg[r].signer
          /\ Answers(r, Says("conflict"))
       \/ existing.owner = msg[r].signer /\ Answers(r, existing.reply)
    /\ UNCHANGED <<env, store, grant, msg, via>>

\* Mutant of FindRecord: only the key's owner is held to the stored answer.
FindRecordOwn(r) ==
    /\ pc[r] = "find"
    /\ LET existing == records[msg[r].key] IN
       \/ existing.owner # msg[r].signer /\ Goto(r, "handler")
       \/ /\ existing.owner = msg[r].signer /\ existing.call # msg[r].call
          /\ Answers(r, Says("conflict"))
       \/ /\ existing.owner = msg[r].signer /\ existing.call = msg[r].call
          /\ Answers(r, existing.reply)
    /\ UNCHANGED <<env, store, grant, msg, via>>

FindRecord(r) ==
    /\ pc[r] = "find"
    /\ LET existing == records[msg[r].key] IN
       \/ existing = NoRecord /\ Goto(r, "handler")
       \/ /\ existing # NoRecord
          /\ existing.owner # msg[r].signer \/ existing.call # msg[r].call
          /\ Answers(r, Says("conflict"))
       \/ /\ existing.owner = msg[r].signer /\ existing.call = msg[r].call
          /\ Answers(r, existing.reply)
    /\ UNCHANGED <<env, store, grant, msg, via>>

\* The handler answers; 'finish' inserts the answer unless its status is 500
\* or more.  A connection that is gone never finishes.
Handle(r) ==
    /\ pc[r] = "handler"
    /\ \E s \in {"ok", "failed"}, finish \in BOOLEAN :
          /\ finish \/ faults < MaxFaults
          /\ faults' = IF finish THEN faults ELSE faults + 1
          /\ answer' = [answer EXCEPT ![r] = [status |-> s, from |-> r]]
          /\ pc' = [pc EXCEPT ![r] = IF finish /\ s # "failed" THEN "insert" ELSE "end"]
    /\ UNCHANGED <<clock, stall, allowClient, store, grant, msg, via>>

SaveAnswer(r) ==
    /\ Insert(r)
    /\ Goto(r, "end")
    /\ UNCHANGED <<env, grant, msg, via>>

-----------------------------------------------------------------------------
\* Time and failures.

\* Time passes, also between the check of a timestamp and the use of its nonce.
Tick ==
    /\ clock < MaxTime
    /\ clock' = clock + 1
    /\ stall' = [r \in Request |-> IF pc[r] \in {"getdel", "set_client"} THEN stall[r] + 1
                                   ELSE stall[r]]
    /\ nonces' = {x \in nonces : x.until >= clock + 1}
    /\ spent' = {x \in spent : x.until >= clock + 1}
    /\ UNCHANGED <<allowClient, faults, counters, records, pc, grant, msg, answer, via>>

\* The life of a counter (60 s) ends.
CounterExpires(c) ==
    /\ counters[c].armed
    /\ counters' = [counters EXCEPT ![c] = [n |-> 0, armed |-> FALSE]]
    /\ UNCHANGED <<env, nonces, spent, records, pc, grant, msg, answer, via>>

Fault == faults < MaxFaults /\ faults' = faults + 1

\* An await throws, the command having taken effect or not: fail answers 401
\* as if nothing had happened, the error handler answers 500, and a failed
\* insert is ignored.
StatementFails(p) ==
    /\ Fault
    /\ UNCHANGED store \/ Command(p)
    /\ \/ pc[p] \in FailAwait /\ Answers(p, Says("unauthorized"))
       \/ pc[p] \in GrantAwait \cup {"getdel", "set_client", "find"} /\ Answers(p, Says("failed"))
       \/ pc[p] = "insert" /\ Goto(p, "end")
    /\ UNCHANGED <<clock, stall, allowClient, grant, msg, via>>

\* The process dies and starts again.
Restart ==
    /\ Fault
    /\ allowClient' \in AllowClientNonce
    /\ pc' = [p \in Process |-> IF p \in InFlight THEN "gone" ELSE pc[p]]
    /\ UNCHANGED <<clock, stall, store, grant, msg, answer, via>>

Next ==
    \/ Tick \/ Restart
    \/ \E c \in Counter : CounterExpires(c)
    \/ \E p \in Process : CountUp(p) \/ SetExpiry(p) \/ StatementFails(p)
    \/ \E g \in Grant : GrantArrives(g) \/ GrantAnswer(g)
    \/ \E r \in Request :
          \/ ArrivesBad(r) \/ ArrivesSigned(r) \/ ArrivesUnsigned(r)
          \/ ConsumeNonce(r) \/ ConsumeClientNonce(r)
          \/ FindRecord(r) \/ Handle(r) \/ SaveAnswer(r)

Spec == Init /\ [][Next]_vars

-----------------------------------------------------------------------------
(***************************************************************************)
(* Properties.                                                             *)
(***************************************************************************)

\* The shape of Redis keys, idempotency_keys rows and requests in flight.
TypeOK ==
    /\ clock \in Time /\ stall \in [Request -> Nat]
    /\ allowClient \in BOOLEAN /\ faults \in 0..MaxFaults
    /\ nonces \subseteq [nonce : Grant, to : Signer, at : Time, until : Nat]
    /\ spent \subseteq [nonce : Grant, by : Signer, until : Nat]
    /\ counters \in [Counter -> [n : Nat, armed : BOOLEAN]]
    /\ records \in [IdemKey -> Record \cup {NoRecord}]
    /\ pc \in [Process -> Label]
    /\ grant \in [Grant -> [to : Signer \cup {None}, at : Time]]
    /\ msg \in [Request -> [signer : Signer \cup {None}, nonce : Grant \cup {None}, ts : Time,
                            call : Call \cup {None}, key : IdemKey \cup {None}, over : BOOLEAN]]
    /\ answer \in [Process -> Reply]
    /\ via \in [Request -> {"none", "server", "client"}]

\* A server nonce admits one request, ever, however requests for it overlap
\* and whatever fails.  A client nonce admits a second request with the same
\* timestamp only if one of the two was held up, between the check of its
\* timestamp and SET NX, for longer than the life of the nonce exceeds two
\* windows: only then can the key expire while the timestamp still counts.
\* (With the code's 600 s and 2 x 300 s, for any time at all.)
NonceSpentOnce ==
    \A r, q \in Request :
        /\ r # q /\ via[r] # "none" /\ via[r] = via[q]
        /\ msg[r].signer = msg[q].signer /\ msg[r].nonce = msg[q].nonce
        => /\ via[r] = "client"
           /\ msg[r].ts = msg[q].ts =>
                \E x \in {r, q} : stall[x] > NonceTtl - 2 * Window

\* What the README's glossary says of a nonce: it is one-time.  Nobody is
\* admitted again with the signer, nonce and timestamp of another request,
\* whichever of the two stores the nonce is taken from.
NonceOneTime ==
    \A r, q \in Request :
        /\ via[r] # "none" /\ via[q] # "none"
        /\ msg[r].signer = msg[q].signer /\ msg[r].nonce = msg[q].nonce /\ msg[r].ts = msg[q].ts
        => r = q

\* A request that idempotency answers from the table gets, status included,
\* what a handler really answered to the same call of the same signer under
\* the same key, and never an answer of 500 or more.  Stored rows and answers
\* are well formed (TypeOK).
ReplayIsFaithful ==
    /\ TypeOK
    /\ \A r, q \in Request :
         answer[r].from = q /\ q # r =>
             /\ msg[q].key = msg[r].key /\ msg[q].signer = msg[r].signer /\ msg[q].call = msg[r].call
             /\ answer[q] = answer[r] /\ answer[r].status = "ok"

\* The requests with key k that have passed idempotency's lookup and have run
\* the handler or will.
Runs(k) == {r \in Request : msg[r].key = k /\ (pc[r] = "handler" \/ answer[r].from = r)}

\* Once an answer is stored under a key, no further request reaches the
\* handler with it: only those that had looked the key up before still run.
NoNewRuns ==
    [][\A k \in IdemKey : records[k] # NoRecord => Runs(k)' \subseteq Runs(k)]_vars

\* A rate limit that is counting ends: as long as nothing fails, incrWithTtl
\* leaves no counter without a life, however the requests that share it
\* overlap.
LimitsLift ==
    \A c \in Counter :
        faults = 0 /\ counters[c].n > 0 =>
            \/ counters[c].armed
            \/ \E p \in Process : /\ pc[p] \in {"grant_expire", "ip_expire", "pk_expire"}
                                  /\ CounterOf(p) = c

=============================================================================
