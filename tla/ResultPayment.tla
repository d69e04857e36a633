---------------------------- MODULE ResultPayment ----------------------------
(***************************************************************************)
(* GET /executor/tasks/:taskId/result behind the x402 gate, and the        *)
(* requester's X402PaymentService that pays for it.  The gate asks the     *)
(* facilitator what it supports when the first request comes and keeps the *)
(* promise; the x402 middleware verifies the payment before the handler    *)
(* and settles it after the handler, when the answer is a 2xx.             *)
(***************************************************************************)
EXTENDS Naturals

CONSTANT
    Reader          \* calls of payForResult, for the result of one task

VARIABLES
    initPromise,    \* of the gate: none, pending or done
    reader,         \* where each call is, and whether its request is signed
    policed,        \* calls with a PolicyService and the executor's public key
    registered,     \* is the executor in the registry?
    result,         \* of the task: none, ready, or gone with the task's status
    settled,        \* history: payments each reader has settled
    delivered       \* readers that have the result

readVars == <<initPromise, reader, policed, registered, result, settled, delivered>>

-----------------------------------------------------------------------------
NoReader == [pc |-> "idle", signed |-> FALSE]

ReadInit ==
    /\ initPromise = "none"
    /\ reader = [d \in Reader |-> NoReader]
    /\ policed \in SUBSET Reader
    /\ registered \in BOOLEAN
    /\ result = "none"
    /\ settled = [d \in Reader |-> 0] /\ delivered = {}

At(d, p)    == reader[d].pc = p
Reach(d, p) == reader' = [reader EXCEPT ![d].pc = p]
Throws(d)   == reader' = [reader EXCEPT ![d] = [pc |-> "failed", signed |-> FALSE]]

-----------------------------------------------------------------------------
(* The world around: the executor registers, the result is published, the  *)
(* task expires.                                                           *)

Registers ==
    /\ ~registered /\ registered' = TRUE
    /\ UNCHANGED <<initPromise, reader, policed, result, settled, delivered>>

ResultChanges ==
    /\ \/ result = "none" /\ result' = "ready"
       \/ result = "ready" /\ result' = "gone"
    /\ UNCHANGED <<initPromise, reader, policed, registered, settled, delivered>>

-----------------------------------------------------------------------------
(* The client.                                                             *)

\* Mutant: the payment is signed before the registry has answered.
payUnasked(d) ==
    /\ At(d, "idle")
    /\ Reach(d, "arrive")
    /\ UNCHANGED <<initPromise, policed, registered, result, settled, delivered>>

\* The policy is asked first, if there is one and it is known whom to ask for:
\* an executor that is not registered is then not paid.
payForResult(d) ==
    /\ At(d, "idle")
    /\ IF d \in policed => registered THEN Reach(d, "arrive") ELSE Throws(d)
    /\ UNCHANGED <<initPromise, policed, registered, result, settled, delivered>>

\* The caller of payForResult tries again after an error.
Again(d) ==
    /\ At(d, "failed")
    /\ Reach(d, "idle")
    /\ UNCHANGED <<initPromise, policed, registered, result, settled, delivered>>

-----------------------------------------------------------------------------
(* The server; Fault is a failed call.                                     *)

\* A request reaches the gate.
arrive(d) ==
    /\ At(d, "arrive")
    /\ IF initPromise = "done" THEN Reach(d, "verify") /\ UNCHANGED initPromise
       ELSE /\ Reach(d, "wait")
            /\ initPromise' = IF initPromise = "none" THEN "pending" ELSE initPromise
    /\ UNCHANGED <<policed, registered, result, settled, delivered>>

\* Mutant: the promise that failed is kept.
initializeKept(Fault) ==
    /\ initPromise = "pending"
    /\ initPromise' = IF Fault THEN "rejected" ELSE "done"
    /\ reader' = [d \in Reader |->
                    IF ~At(d, "wait") THEN reader[d]
                    ELSE IF Fault THEN [pc |-> "failed", signed |-> FALSE]
                    ELSE [reader[d] EXCEPT !.pc = "verify"]]
    /\ UNCHANGED <<policed, registered, result, settled, delivered>>

\* The facilitator answers, or fails: everybody who waits gets a 503 and the
\* next request asks again.
initialize(Fault) ==
    /\ initPromise = "pending"
    /\ initPromise' = IF Fault THEN "none" ELSE "done"
    /\ reader' = [d \in Reader |->
                    IF ~At(d, "wait") THEN reader[d]
                    ELSE IF Fault THEN [pc |-> "failed", signed |-> FALSE]
                    ELSE [reader[d] EXCEPT !.pc = "verify"]]
    /\ UNCHANGED <<policed, registered, result, settled, delivered>>

\* Without a payment the answer is 402, and the client signs one and sends
\* the request again; with one, the facilitator verifies it.
verify(d, Fault) ==
    /\ At(d, "verify")
    /\ IF ~reader[d].signed THEN ~Fault /\ reader' = [reader EXCEPT ![d] = [pc |-> "arrive", signed |-> TRUE]]
       ELSE IF Fault THEN Throws(d) ELSE Reach(d, "handler")
    /\ UNCHANGED <<initPromise, policed, registered, result, settled, delivered>>

\* 404 or 409 when there is no result, or the task is not at it any more.
getResult(d) ==
    /\ At(d, "handler")
    /\ IF result = "ready" THEN Reach(d, "settle") ELSE Throws(d)
    /\ UNCHANGED <<initPromise, policed, registered, result, settled, delivered>>

\* The payment is settled and the answer goes out; or it is not settled, or
\* the answer is lost.
settle(d, Fault) ==
    /\ At(d, "settle")
    /\ IF ~Fault
         THEN /\ settled' = [settled EXCEPT ![d] = @ + 1]
              /\ Reach(d, "done") /\ delivered' = delivered \cup {d}
         ELSE /\ settled' \in {settled, [settled EXCEPT ![d] = @ + 1]}
              /\ Throws(d) /\ UNCHANGED delivered
    /\ UNCHANGED <<initPromise, policed, registered, result>>

\* The process ends, and the calls it served fail, some of them after the
\* facilitator has settled the payment.
ReadRestart ==
    /\ initPromise' = "none"
    /\ \E lost \in SUBSET {d \in Reader : At(d, "settle")} :
         settled' = [d \in Reader |-> settled[d] + IF d \in lost THEN 1 ELSE 0]
    /\ reader' = [d \in Reader |->
                    IF reader[d].pc \in {"wait", "verify", "handler", "settle"}
                      THEN [pc |-> "failed", signed |-> FALSE] ELSE reader[d]]
    /\ UNCHANGED <<policed, registered, result, delivered>>

\* The steps of one call, and what they may meet.
Reads(d, Fault) ==
    \/ ~Fault /\ (payForResult(d) \/ Again(d) \/ arrive(d) \/ getResult(d))
    \/ verify(d, Fault) \/ settle(d, Fault)

-----------------------------------------------------------------------------
(* Properties.                                                             *)

\* Type invariant: every variable of the result route holds a value of its type.
ReadTypeOK ==
    /\ initPromise \in {"none", "pending", "done"}
    /\ \A d \in Reader : reader[d].signed \in BOOLEAN
    /\ policed \subseteq Reader /\ registered \in BOOLEAN /\ result \in {"none", "ready", "gone"}
    /\ settled \in [Reader -> Nat] /\ delivered \subseteq Reader

=============================================================================
