---------------------------- MODULE ResultWebhook ----------------------------
(***************************************************************************)
(* An executor publishes the result of a task, and the worker announces it *)
(* to a partner: publishResult writes task_results, reads the row back and *)
(* emits result_published; handleResultPublished posts it to the webhook   *)
(* with the retries of postJson inside the attempts of the worker.         *)
(*                                                                         *)
(* One task with a selected bid.  A payload is its hash, which is taken    *)
(* over the canonical form, so payloads that differ in the order of their  *)
(* keys are the same.  An event is named by the request that emits it.     *)
(* Requests of anyone but the selected executor end without a trace, like  *)
(* all the requests that publishResult refuses.                            *)
(***************************************************************************)
EXTENDS Naturals

CONSTANTS
    Publisher,      \* POST /executor/tasks/:taskId/result requests
    Worker,         \* worker processes
    Hash,           \* payload hashes
    MaxRetries,     \* WEBHOOK_MAX_RETRIES (3)
    MaxAttempts,    \* WORKER_MAX_ATTEMPTS
    MaxFaults       \* bound: throws and crashes in a behaviour

ASSUME WebhookAssumption ==
    /\ MaxRetries \in Nat /\ MaxAttempts \in Nat \ {0} /\ MaxFaults \in Nat
    /\ Publisher \cap Worker = {}
    /\ "none" \notin Hash /\ "none" \notin Publisher

VARIABLES
    status,         \* the task's status
    row,            \* the row of task_results
    pc,             \* the await a request or a worker is at
    job,            \* what a request was sent and has read back
    event,          \* result_published events: the hash each one carries
    consumption,    \* rows of event_consumptions
    call,           \* each worker's call of postJson: its event and its attempts
    posts,          \* history: HTTP requests made for an event
    received,       \* history: events the partner has taken in
    faults          \* throws and crashes so far

request == <<job, event>>
partner == <<posts, received>>
vars    == <<status, row, pc, request, consumption, call, partner, faults>>

-----------------------------------------------------------------------------
None == "none"

PublishAwait == {"find_bids", "upsert", "read_back", "emit"}
WorkerAwait  == {"post", "sleep", "mark_succeeded", "mark_failed"}
NoCall       == [event |-> None, attempt |-> 0]

Init ==
    /\ status = "ASSIGNED" /\ row = None /\ faults = 0
    /\ pc = [p \in Publisher \cup Worker |-> "idle"]
    /\ job = [p \in Publisher |-> [sent |-> None, stored |-> None]]
    /\ event = [p \in Publisher |-> None]
    /\ consumption = [p \in Publisher |-> [status |-> "NONE", attempts |-> 0]]
    /\ call = [w \in Worker |-> NoCall]
    /\ posts = [p \in Publisher |-> 0]
    /\ received = {}

Goto(p, label) == pc' = [pc EXCEPT ![p] = label]

-----------------------------------------------------------------------------
\* publishResult.

FindTask(p) ==
    /\ pc[p] = "idle"
    /\ \/ /\ status = "ASSIGNED"
          /\ \E h \in Hash : job' = [job EXCEPT ![p].sent = h]
          /\ Goto(p, "find_bids")
       \/ status # "ASSIGNED" /\ Goto(p, "end") /\ UNCHANGED job
    /\ UNCHANGED <<status, row, event, consumption, call, partner, faults>>

FindBids(p) ==
    /\ pc[p] = "find_bids"
    /\ Goto(p, "upsert")
    /\ UNCHANGED <<status, row, request, consumption, call, partner, faults>>

\* Mutant of Upsert: the row is read back before it is written.
UpsertUnawaited(p) ==
    /\ pc[p] = "upsert"
    /\ row' = job[p].sent
    /\ job' = [job EXCEPT ![p].stored = IF row = None THEN job[p].sent ELSE row]
    /\ Goto(p, "emit")
    /\ UNCHANGED <<status, event, consumption, call, partner, faults>>

Upsert(p) ==
    /\ pc[p] = "upsert"
    /\ row' = job[p].sent
    /\ Goto(p, "read_back")
    /\ UNCHANGED <<status, request, consumption, call, partner, faults>>

ReadBack(p) ==
    /\ pc[p] = "read_back"
    /\ job' = [job EXCEPT ![p].stored = row]
    /\ Goto(p, "emit")
    /\ UNCHANGED <<status, row, event, consumption, call, partner, faults>>

Emit(p) ==
    /\ pc[p] = "emit"
    /\ event' = [event EXCEPT ![p] = job[p].stored]
    /\ Goto(p, "end")
    /\ UNCHANGED <<status, row, job, consumption, call, partner, faults>>

-----------------------------------------------------------------------------
\* The worker: tryStart, handleResultPublished and the outcome.

TryStart(e) ==
    /\ event[e] # None
    /\ \/ consumption[e].status = "NONE"
       \/ consumption[e].status # "SUCCEEDED" /\ consumption[e].attempts < MaxAttempts
    /\ consumption' = [consumption EXCEPT ![e] = [status |-> "PROCESSING", attempts |-> @.attempts + 1]]

\* Any event that tryStart admits is handled, in any order.
HandleResultPublished(w, e) ==
    /\ pc[w] = "idle"
    /\ TryStart(e)
    /\ call' = [call EXCEPT ![w] = [event |-> e, attempt |-> 0]]
    /\ Goto(w, "post")
    /\ UNCHANGED <<status, row, request, partner, faults>>

\* Mutant of GivesUp: one attempt too many.
GivesUpLate(w) == call[w].attempt = MaxRetries + 1

\* attempt === retries, counted from 0 in withRetry.
GivesUp(w) == call[w].attempt = MaxRetries

\* Mutant of Outcome: a call that gives up returns instead of throwing.
ReturnsAlways(w, answer) ==
    IF answer = "transient" /\ ~GivesUp(w) THEN "sleep" ELSE "mark_succeeded"

\* Where withRetry goes on: 2xx returns; a 5xx, 408, 429, timeout or network
\* error is retried until the retries are used up; any other status throws.
Outcome(w, answer) ==
    CASE answer = "2xx"                        -> "mark_succeeded"
      [] answer = "transient" /\ ~GivesUp(w) -> "sleep"
      [] OTHER                                 -> "mark_failed"

\* What isWebhookRetryableError tells apart: success, an error that is
\* retried, and one that is not.
Answer == {"2xx", "transient", "refused"}

\* An HTTP attempt.  The partner has taken the event in when it says so, and
\* perhaps when it says something else, or its answer is lost or late.
Post(w) ==
    LET e == call[w].event IN
    /\ pc[w] = "post"
    /\ posts' = [posts EXCEPT ![e] = @ + 1]
    /\ \E answer \in Answer, taken \in BOOLEAN :
          /\ answer = "2xx" => taken
          /\ received' = IF taken THEN received \cup {e} ELSE received
          /\ Goto(w, Outcome(w, answer))
    /\ UNCHANGED <<status, row, request, consumption, call, faults>>

\* The backoff, or the Retry-After of the answer, is over.
Awake(w) ==
    /\ pc[w] = "sleep"
    /\ call' = [call EXCEPT ![w].attempt = @ + 1]
    /\ Goto(w, "post")
    /\ UNCHANGED <<status, row, request, consumption, partner, faults>>

SetStatus(w, s) == consumption' = [consumption EXCEPT ![call[w].event].status = s]

\* The row is updated whatever its status: a worker that is late overwrites
\* what another one has written.
Mark(w) ==
    /\ \/ pc[w] = "mark_succeeded" /\ SetStatus(w, "SUCCEEDED")
       \/ pc[w] = "mark_failed" /\ SetStatus(w, "FAILED")
    /\ call' = [call EXCEPT ![w] = NoCall]
    /\ Goto(w, "idle")
    /\ UNCHANGED <<status, row, request, partner, faults>>

-----------------------------------------------------------------------------
\* The task, and failures.

\* The requester completes the task, or the sweep expires it.
TaskMoves ==
    /\ \/ status = "ASSIGNED" /\ status' \in {"COMPLETING", "EXPIRED"}
       \/ status = "COMPLETING" /\ status' = "COMPLETED"
    /\ UNCHANGED <<row, pc, request, consumption, call, partner, faults>>

Fault == faults < MaxFaults /\ faults' = faults + 1

\* An await of the request throws, or its process dies.
PublishStops(p) ==
    /\ Fault
    /\ pc[p] \in PublishAwait
    /\ Goto(p, "end")
    /\ UNCHANGED <<status, row, request, consumption, call, partner>>

\* markSucceeded, having updated the row or not, throws into the catch block.
MarkThrows(w) ==
    /\ Fault
    /\ pc[w] = "mark_succeeded"
    /\ SetStatus(w, "SUCCEEDED") \/ UNCHANGED consumption
    /\ Goto(w, "mark_failed")
    /\ UNCHANGED <<status, row, request, call, partner>>

\* The worker dies, or markFailed throws: the row stays PROCESSING.
WorkerStops(w) ==
    /\ Fault
    /\ pc[w] \in WorkerAwait
    /\ call' = [call EXCEPT ![w] = NoCall]
    /\ Goto(w, "idle")
    /\ UNCHANGED <<status, row, request, consumption, partner>>

Next ==
    \/ TaskMoves
    \/ \E p \in Publisher :
          FindTask(p) \/ FindBids(p) \/ Upsert(p) \/ ReadBack(p) \/ Emit(p) \/ PublishStops(p)
    \/ \E w \in Worker :
          \/ Post(w) \/ Awake(w) \/ Mark(w) \/ MarkThrows(w) \/ WorkerStops(w)
          \/ \E e \in Publisher : HandleResultPublished(w, e)

Spec == Init /\ [][Next]_vars

-----------------------------------------------------------------------------
(***************************************************************************)
(* Properties.                                                             *)
(***************************************************************************)

\* The shape of the task, the tables, the requests and the workers; a worker
\* is in a call of postJson exactly while it handles an event.
TypeOK ==
    /\ status \in {"ASSIGNED", "COMPLETING", "COMPLETED", "EXPIRED"}
    /\ row \in Hash \cup {None}
    /\ pc \in [Publisher \cup Worker -> {"idle", "end"} \cup PublishAwait \cup WorkerAwait]
    /\ job \in [Publisher -> [sent : Hash \cup {None}, stored : Hash \cup {None}]]
    /\ event \in [Publisher -> Hash \cup {None}]
    /\ consumption \in [Publisher -> [status : {"NONE", "PROCESSING", "SUCCEEDED", "FAILED"},
                                      attempts : 0..MaxAttempts]]
    /\ call \in [Worker -> [event : Publisher \cup {None}, attempt : 0..MaxRetries]]
    /\ \A p \in Publisher : pc[p] \in {"idle", "end"} \cup PublishAwait
    /\ \A w \in Worker : /\ pc[w] \in {"idle"} \cup WorkerAwait
                         /\ pc[w] # "idle" <=> call[w].event # None
    /\ posts \in [Publisher -> Nat]
    /\ received \subseteq Publisher
    /\ faults \in 0..MaxFaults

\* The retries of postJson and the attempts of the worker multiply and do not
\* exceed their product, whether calls are cut short by a crash or made by two
\* workers at a time.
PostsBounded == \A e \in Publisher : posts[e] <= MaxAttempts * (MaxRetries + 1)

\* An event is marked SUCCEEDED only when the partner has taken it in: no way
\* out of the nested retries passes a failure for a delivery.
SucceededWasReceived ==
    \A e \in Publisher : consumption[e].status = "SUCCEEDED" => e \in received

\* The result in the table is announced, or a request still in publishResult
\* is about to announce it: however upserts and read-backs of several requests
\* overlap, the last one written does not go unannounced unless its request
\* failed.
LatestAnnounced ==
    row # None /\ faults = 0 =>
        \E p \in Publisher :
            \/ event[p] = row
            \/ pc[p] = "read_back"
            \/ pc[p] = "emit" /\ job[p].stored = row

\* What the API documentation promises with its 409: a task that is not
\* ASSIGNED takes no result.
ResultsWhileAssigned == [][row' # row => status = "ASSIGNED"]_vars

=============================================================================
