---------------------------- MODULE Marketplace ----------------------------
(***************************************************************************)
(* The task lifecycle of TrustGate: the request handlers of TaskController *)
(* and BidController, the auction, the timeout sweep and the worker's      *)
(* completion handler, over the tasks, bids, outbox_events and             *)
(* event_consumptions tables and the escrow provider.                      *)
(*                                                                         *)
(* No handler opens a transaction that spans two statements, so a handler  *)
(* is a small program and each of its awaits is one action here: between   *)
(* two of them any other handler may run, and the handler continues with   *)
(* the rows it read before (its job).  Identifiers drawn by randomUUID are *)
(* modelled by the request that draws them: a task is known by the request *)
(* that created it, a bid, like the escrow that backs it, by the request   *)
(* that placed it, a completion event by the request that asked for it.    *)
(***************************************************************************)
EXTENDS Naturals, FiniteSets

CONSTANTS
    CreateReq,      \* POST /tasks requests
    BidReq,         \* POST /bids requests
    SelectReq,      \* POST /tasks/:id/select requests
    CompleteReq,    \* POST /tasks/:id/complete requests
    Sweep,          \* runs of the timeout sweep, by the cron job or the admin route
    Worker,         \* worker processes
    Executor,       \* executor public keys
    Registered,     \* the executors on the on-chain Registry
    Amount,         \* bid amounts, in stroops
    UseOutbox,      \* TRUE with Postgres, FALSE in the in-memory mode
    SameMillisecond,\* may two bids carry the same createdAt?
    ReplyLost,      \* may the provider act and the reply be lost?
    MaxAttempts,    \* WORKER_MAX_ATTEMPTS
    MaxInFlight,    \* bound: handlers running at the same time
    MaxFaults       \* bound: failed statements and restarts in a behaviour

None == "none"      \* no task, bid, event or executor

ASSUME ConfigAssumption ==
    /\ UseOutbox \in BOOLEAN /\ SameMillisecond \in BOOLEAN /\ ReplyLost \in BOOLEAN
    /\ MaxAttempts \in Nat /\ MaxInFlight \in Nat /\ MaxFaults \in Nat
    /\ Amount \subseteq Nat
    /\ Registered \subseteq Executor
    /\ None \notin CreateReq
    /\ Worker \cap (CreateReq \cup BidReq \cup SelectReq \cup CompleteReq \cup Sweep) = {}

VARIABLES
    tasks,          \* status of each row of tasks, "NONE" before it is saved
    bids,           \* rows of bids
    escrow,         \* escrows the provider has created
    released,       \* release calls the provider has accepted, per escrow
    confiscated,    \* confiscate calls it has accepted; each raises a dispute asking
                    \* Trustless Work to split the collateral
    refused,        \* release and confiscate calls answered with success = false
    outbox,         \* events inserted into outbox_events
    completion,     \* task of each task_completion_requested event
    consumption,    \* rows of event_consumptions for those events
    overdue,        \* tasks whose deadline has passed
    denylist,       \* EXECUTOR_DENYLIST of the running process
    clock,          \* wall clock that stamps createdAt
    faults,         \* statements failed and restarts so far
    pc,             \* where each handler is
    job             \* the rows each handler has read

store    == <<tasks, bids>>
provider == <<escrow, released, confiscated, refused>>
queue    == <<outbox, completion, consumption>>
env      == <<overdue, denylist, clock, faults>>
vars     == <<store, provider, queue, env, pc, job>>

-----------------------------------------------------------------------------
Task == CreateReq
Proc == CreateReq \cup BidReq \cup SelectReq \cup CompleteReq \cup Sweep \cup Worker

TaskStatus == {"OPEN", "ASSIGNED", "COMPLETING", "COMPLETED", "EXPIRED"}
BidStatus  == {"PENDING", "SELECTED", "REJECTED"}

\* A row of bids; NoBid stands for the row that is not there.
BidRow == [status : BidStatus, task : Task, executor : Executor,
           amount : Nat, createdAt : Nat]
NoBid  == [status |-> "NONE"]

\* A row of event_consumptions; status "NONE" before tryStart inserts it.
ConsumptionRow == [status : {"NONE", "PROCESSING", "SUCCEEDED", "FAILED"}, attempts : Nat]

EventType == {"task_created", "bid_placed", "task_assigned", "task_completion_requested",
              "task_completed", "task_expired"}
OutboxEvent == [type : EventType, task : Task]

\* What a handler carries from one await to the next.
Job   == [task : Task \cup {None}, win : BidReq \cup {None}, rest : SUBSET (BidReq \cup Task),
          event : CompleteReq \cup {None}, executor : Executor \cup {None}, amount : Nat,
          createdAt : Nat]
NoJob == [task |-> None, win |-> None, rest |-> {}, event |-> None,
          executor |-> None, amount |-> 0, createdAt |-> 0]

Label == {"idle", "done",
          "create_save", "create_emit",
          "bid_escrow", "bid_save", "bid_emit",
          "sel_task", "sel_bids", "sel_assign", "sel_winner", "sel_reject", "sel_emit",
          "cmp_bid", "cmp_save", "cmp_emit", "cmp_release", "cmp_completed",
          "swp_next", "swp_confiscate", "swp_save", "swp_emit",
          "wrk_task", "wrk_bid", "wrk_release", "wrk_save", "wrk_emit", "wrk_ok", "wrk_failed"}

\* Inside the try block of the worker: what throws there is recorded.
Dispatching == {"wrk_task", "wrk_bid", "wrk_release", "wrk_save", "wrk_emit", "wrk_ok"}

Init ==
    /\ tasks = [t \in Task |-> "NONE"]
    /\ bids = [b \in BidReq |-> NoBid]
    /\ escrow = {}
    /\ released = [b \in BidReq |-> 0]
    /\ confiscated = [b \in BidReq |-> 0]
    /\ refused = {}
    /\ outbox = {}
    /\ completion = [e \in CompleteReq |-> None]
    /\ consumption = [e \in CompleteReq |-> [status |-> "NONE", attempts |-> 0]]
    /\ overdue = {}
    /\ denylist \in SUBSET Executor
    /\ clock = 0
    /\ faults = 0
    /\ pc = [p \in Proc |-> "idle"]
    /\ job = [p \in Proc |-> NoJob]

-----------------------------------------------------------------------------
(* Queries and steps shared by the handlers.                               *)

BidsOf(t)   == {b \in BidReq : bids[b].status # "NONE" /\ bids[b].task = t}
Pending(t)  == {b \in BidsOf(t) : bids[b].status = "PENDING"}
Selected(t) == {b \in BidsOf(t) : bids[b].status = "SELECTED"}

\* Postgres orders findByTaskId by created_at, so find() returns the oldest
\* SELECTED bid; the in-memory repository returns them in the order of their
\* first save, which is left open.
IsWinningBid(t, b) ==
    /\ b \in Selected(t)
    /\ UseOutbox => \A c \in Selected(t) : bids[b].createdAt <= bids[c].createdAt

\* Mutant: the first bid returned wins, whatever its amount.
FirstReturned(b, S) == b \in S

\* The reduce of selectWinner: the lowest amount, then the oldest; which of
\* two equal bids comes first is up to the database.
IsLowest(b, S) ==
    /\ b \in S
    /\ \A c \in S : \/ bids[b].amount < bids[c].amount
                    \/ /\ bids[b].amount = bids[c].amount
                       /\ bids[b].createdAt <= bids[c].createdAt

InFlight == {p \in Proc : pc[p] \notin {"idle", "done"}}

\* A handler begins, continues at the next await, or is over.  A request and
\* a run of the sweep happen once; a worker takes one event after another.
Begins(p)   == pc[p] = "idle" /\ Cardinality(InFlight) < MaxInFlight
Rest(p)     == IF p \in Worker THEN "idle" ELSE "done"
At(p, l)    == pc[p] = l
Goto(p, l)  == pc' = [pc EXCEPT ![p] = l]
Ends(p)     == /\ pc' = [pc EXCEPT ![p] = Rest(p)]
               /\ job' = [job EXCEPT ![p] = NoJob]

SaveTask(t, s) == tasks' = [tasks EXCEPT ![t] = s]
SaveBid(b, s)  == bids' = [bids EXCEPT ![b].status = s]
Emit(ty, t)    == outbox' = IF UseOutbox THEN outbox \cup {[type |-> ty, task |-> t]} ELSE outbox

-----------------------------------------------------------------------------
(* POST /tasks: charge the listing fee, save the task, publish and emit.   *)

CreateCharge(p) ==
    /\ p \in CreateReq /\ Begins(p)
    /\ \/ Goto(p, "create_save") /\ job' = [job EXCEPT ![p].task = p]
       \/ Ends(p)                                   \* 400, 402, 502, 503
    /\ UNCHANGED <<store, provider, queue, env>>

CreateSave(p) ==
    /\ p \in CreateReq /\ At(p, "create_save")
    /\ SaveTask(p, "OPEN")
    /\ Goto(p, "create_emit")
    /\ UNCHANGED <<bids, provider, queue, env, job>>

CreateEmit(p) ==
    /\ p \in CreateReq /\ At(p, "create_emit")
    /\ Emit("task_created", p)
    /\ Ends(p)
    /\ UNCHANGED <<store, provider, completion, consumption, env>>

-----------------------------------------------------------------------------
(* POST /bids: look the task up, lock the collateral, save the bid, emit,  *)
(* then run the auction.                                                   *)

BidFindTask(p) ==
    /\ p \in BidReq /\ Begins(p)
    /\ \E t \in Task, x \in Executor, a \in Amount :
         IF x \notin denylist /\ tasks[t] = "OPEN" /\ x \in Registered
           THEN /\ Goto(p, "bid_escrow")
                /\ job' = [job EXCEPT ![p] = [NoJob EXCEPT !.task = t, !.executor = x, !.amount = a]]
           ELSE Ends(p)                             \* 403, 404, 409
    /\ UNCHANGED <<store, provider, queue, env>>

\* createdAt is stamped when the provider answers, before the row is saved.
\* Whether the answer says success is not looked at.
BidCreateEscrow(p) ==
    /\ p \in BidReq /\ At(p, "bid_escrow")
    /\ \/ /\ escrow' \in {escrow, escrow \cup {p}}
          /\ Goto(p, "bid_save")
          /\ job' = [job EXCEPT ![p].createdAt = clock]
          /\ clock' \in {clock + 1} \cup (IF SameMillisecond THEN {clock} ELSE {})
       \/ escrow' = escrow /\ Ends(p) /\ UNCHANGED clock               \* 502
       \/ ReplyLost /\ escrow' = escrow \cup {p} /\ Ends(p) /\ UNCHANGED clock
    /\ UNCHANGED <<store, released, confiscated, refused, queue, overdue, denylist, faults>>

\* Mutant: the bid is dropped when the task was taken meanwhile.
BidSaveIfOpen(p) ==
    /\ p \in BidReq /\ At(p, "bid_save")
    /\ IF tasks[job[p].task] = "OPEN"
         THEN /\ bids' = [bids EXCEPT ![p] = [status |-> "PENDING", task |-> job[p].task,
                            executor |-> job[p].executor, amount |-> job[p].amount,
                            createdAt |-> job[p].createdAt]]
              /\ Goto(p, "bid_emit") /\ UNCHANGED job
         ELSE Ends(p) /\ UNCHANGED bids
    /\ UNCHANGED <<tasks, provider, queue, env>>

BidSave(p) ==
    /\ p \in BidReq /\ At(p, "bid_save")
    /\ bids' = [bids EXCEPT ![p] = [status |-> "PENDING", task |-> job[p].task,
                  executor |-> job[p].executor, amount |-> job[p].amount,
                  createdAt |-> job[p].createdAt]]
    /\ Goto(p, "bid_emit")
    /\ UNCHANGED <<tasks, provider, queue, env, job>>

BidEmit(p) ==
    /\ p \in BidReq /\ At(p, "bid_emit")
    /\ Emit("bid_placed", job[p].task)
    /\ Goto(p, "sel_task")
    /\ UNCHANGED <<store, provider, completion, consumption, env, job>>

-----------------------------------------------------------------------------
(* AuctionService.selectWinner, run by a select request and by every bid.  *)

SelectBegin(p) ==
    /\ p \in SelectReq /\ Begins(p)
    /\ \E t \in Task : job' = [job EXCEPT ![p].task = t]
    /\ Goto(p, "sel_task")
    /\ UNCHANGED <<store, provider, queue, env>>

SelectFindTask(p) ==
    /\ At(p, "sel_task")
    /\ IF tasks[job[p].task] = "OPEN"
         THEN Goto(p, "sel_bids") /\ UNCHANGED job
         ELSE Ends(p)
    /\ UNCHANGED <<store, provider, queue, env>>

SelectFindBids(p) ==
    /\ At(p, "sel_bids")
    /\ LET S == Pending(job[p].task) IN
         \/ S = {} /\ Ends(p)
         \/ \E w \in S : /\ IsLowest(w, S)
                         /\ job' = [job EXCEPT ![p].win = w, ![p].rest = S \ {w}]
                         /\ Goto(p, "sel_assign")
    /\ UNCHANGED <<store, provider, queue, env>>

SelectAssign(p) ==
    /\ At(p, "sel_assign")
    /\ SaveTask(job[p].task, "ASSIGNED")
    /\ Goto(p, "sel_winner")
    /\ UNCHANGED <<bids, provider, queue, env, job>>

SelectSaveWinner(p) ==
    /\ At(p, "sel_winner")
    /\ SaveBid(job[p].win, "SELECTED")
    /\ Goto(p, "sel_reject")
    /\ UNCHANGED <<tasks, provider, queue, env, job>>

SelectRejectNext(p) ==
    /\ At(p, "sel_reject")
    /\ \E b \in job[p].rest : /\ SaveBid(b, "REJECTED")
                              /\ job' = [job EXCEPT ![p].rest = @ \ {b}]
    /\ UNCHANGED <<tasks, provider, queue, env, pc>>

\* The controller emits task_assigned; the automatic selection does not.
SelectReturn(p) ==
    /\ At(p, "sel_reject") /\ job[p].rest = {}
    /\ IF p \in SelectReq THEN Goto(p, "sel_emit") /\ UNCHANGED job ELSE Ends(p)
    /\ UNCHANGED <<store, provider, queue, env>>

SelectEmit(p) ==
    /\ At(p, "sel_emit")
    /\ Emit("task_assigned", job[p].task)
    /\ Ends(p)
    /\ UNCHANGED <<store, provider, completion, consumption, env>>

-----------------------------------------------------------------------------
(* POST /tasks/:id/complete.  With an outbox the release is left to the    *)
(* worker; without one the handler releases the milestone itself.          *)

CompleteFindTask(p) ==
    /\ p \in CompleteReq /\ Begins(p)
    /\ \E t \in Task :
         IF tasks[t] = "ASSIGNED"
           THEN Goto(p, "cmp_bid") /\ job' = [job EXCEPT ![p].task = t]
           ELSE Ends(p)                             \* 200, 202, 404, 409
    /\ UNCHANGED <<store, provider, queue, env>>

CompleteFindBid(p) ==
    /\ At(p, "cmp_bid")
    /\ \/ /\ Selected(job[p].task) = {}
          /\ Ends(p)                                \* 409
       \/ \E b \in BidReq :
            /\ IsWinningBid(job[p].task, b)
            /\ IF bids[b].executor \in denylist
                 THEN Ends(p)                       \* 403
                 ELSE /\ Goto(p, IF UseOutbox THEN "cmp_save" ELSE "cmp_release")
                      /\ job' = [job EXCEPT ![p].win = b]
    /\ UNCHANGED <<store, provider, queue, env>>

CompleteSave(p) ==
    /\ At(p, "cmp_save")
    /\ SaveTask(job[p].task, "COMPLETING")
    /\ Goto(p, "cmp_emit")
    /\ UNCHANGED <<bids, provider, queue, env, job>>

CompleteEmit(p) ==
    /\ p \in CompleteReq /\ At(p, "cmp_emit")
    /\ Emit("task_completion_requested", job[p].task)
    /\ completion' = [completion EXCEPT ![p] = job[p].task]
    /\ Ends(p)
    /\ UNCHANGED <<store, provider, consumption, env>>

\* The provider is asked to release the milestone of the winning bid: it does,
\* it answers success = false, which the caller takes for a success, or the
\* call throws, possibly after the provider has acted.
Release(p, next, failed) ==
    /\ \/ job[p].win \in escrow /\ released' = [released EXCEPT ![job[p].win] = @ + 1]
          /\ refused' = refused /\ next
       \/ refused' = refused \cup {<<"release", job[p].win>>} /\ released' = released /\ next
       \/ released' = released /\ refused' = refused /\ failed
       \/ ReplyLost /\ job[p].win \in escrow
          /\ released' = [released EXCEPT ![job[p].win] = @ + 1] /\ refused' = refused /\ failed
    /\ UNCHANGED <<escrow, confiscated>>

\* Mutant: a failed release is logged and the task completed all the same.
CompleteReleaseSwallow(p) ==
    /\ At(p, "cmp_release")
    /\ Release(p, Goto(p, "cmp_completed"), Goto(p, "cmp_completed"))
    /\ UNCHANGED <<store, queue, env, job>>

CompleteRelease(p) ==
    /\ At(p, "cmp_release")
    /\ Release(p, Goto(p, "cmp_completed") /\ UNCHANGED job, Ends(p))
    /\ UNCHANGED <<store, queue, env>>

CompleteSaveCompleted(p) ==
    /\ At(p, "cmp_completed")
    /\ SaveTask(job[p].task, "COMPLETED")
    /\ Ends(p)
    /\ UNCHANGED <<bids, provider, queue, env>>

-----------------------------------------------------------------------------
(* TimeoutService.runOnce: confiscate the collateral of every overdue      *)
(* assigned task, one after the other.                                     *)

\* Mutant: the deadline is not looked at.
SweepListAssigned(p) ==
    /\ p \in Sweep /\ Begins(p)
    /\ job' = [job EXCEPT ![p].rest = {t \in Task : tasks[t] = "ASSIGNED"}]
    /\ Goto(p, "swp_next")
    /\ UNCHANGED <<store, provider, queue, env>>

SweepList(p) ==
    /\ p \in Sweep /\ Begins(p)
    /\ job' = [job EXCEPT ![p].rest = {t \in overdue : tasks[t] = "ASSIGNED"}]
    /\ Goto(p, "swp_next")
    /\ UNCHANGED <<store, provider, queue, env>>

SweepFindBid(p) ==
    /\ At(p, "swp_next")
    /\ \E t \in job[p].rest :
         \/ /\ Selected(t) = {}                     \* skipped with a warning
            /\ job' = [job EXCEPT ![p].rest = @ \ {t}]
            /\ UNCHANGED pc
         \/ \E b \in BidReq :
              /\ IsWinningBid(t, b)
              /\ job' = [job EXCEPT ![p] = [job[p] EXCEPT !.rest = @ \ {t}, !.task = t, !.win = b]]
              /\ Goto(p, "swp_confiscate")
    /\ UNCHANGED <<store, provider, queue, env>>

\* An answer with success = false counts as a success here too; a call that
\* throws leaves the task to the next sweep.
SweepConfiscate(p) ==
    /\ At(p, "swp_confiscate")
    /\ \/ /\ job[p].win \in escrow
          /\ confiscated' = [confiscated EXCEPT ![job[p].win] = @ + 1] /\ refused' = refused
          /\ Goto(p, "swp_save")
       \/ /\ refused' = refused \cup {<<"confiscate", job[p].win>>} /\ confiscated' = confiscated
          /\ Goto(p, "swp_save")
       \/ UNCHANGED <<confiscated, refused>> /\ Goto(p, "swp_next")
       \/ /\ ReplyLost /\ job[p].win \in escrow
          /\ confiscated' = [confiscated EXCEPT ![job[p].win] = @ + 1] /\ refused' = refused
          /\ Goto(p, "swp_next")
    /\ UNCHANGED <<store, escrow, released, queue, env, job>>

SweepSaveExpired(p) ==
    /\ At(p, "swp_save")
    /\ SaveTask(job[p].task, "EXPIRED")
    /\ Goto(p, "swp_emit")
    /\ UNCHANGED <<bids, provider, queue, env, job>>

SweepEmit(p) ==
    /\ At(p, "swp_emit")
    /\ Emit("task_expired", job[p].task)
    /\ Goto(p, "swp_next")
    /\ UNCHANGED <<store, provider, completion, consumption, env, job>>

SweepReturn(p) ==
    /\ At(p, "swp_next") /\ job[p].rest = {}
    /\ Ends(p)
    /\ UNCHANGED <<store, provider, queue, env>>

-----------------------------------------------------------------------------
(* The worker: tryStart records the attempt, dispatch runs the completion  *)
(* handler, and the outcome is recorded.  Any event that tryStart admits   *)
(* may be delivered, once or again (stream, claim or due retry).           *)

\* Mutant: a failed event is never started again.
TryStartOnce(e) ==
    /\ completion[e] # None
    /\ consumption[e].status = "NONE"
    /\ consumption' = [consumption EXCEPT ![e] = [status |-> "PROCESSING", attempts |-> 1]]

\* Mutant: a repeated attempt is not counted.
TryStartUncounted(e) ==
    /\ completion[e] # None
    /\ consumption[e].status # "SUCCEEDED"
    /\ consumption' = [consumption EXCEPT ![e] = [status |-> "PROCESSING", attempts |-> 1]]

TryStart(e) ==
    /\ completion[e] # None
    /\ \/ consumption[e].status = "NONE"
       \/ consumption[e].status # "SUCCEEDED" /\ consumption[e].attempts < MaxAttempts
    /\ consumption' = [consumption EXCEPT ![e] =
                         [status |-> "PROCESSING", attempts |-> @.attempts + 1]]

WorkerStart(w, e) ==
    /\ w \in Worker /\ Begins(w)
    /\ TryStart(e)
    /\ job' = [job EXCEPT ![w] = [NoJob EXCEPT !.event = e, !.task = completion[e]]]
    /\ Goto(w, "wrk_task")
    /\ UNCHANGED <<store, provider, outbox, completion, env>>

WorkerFindTask(w) ==
    /\ At(w, "wrk_task")
    /\ Goto(w, CASE tasks[job[w].task] = "COMPLETED"  -> "wrk_ok"
                  [] tasks[job[w].task] = "COMPLETING" -> "wrk_bid"
                  [] OTHER                             -> "wrk_failed")
    /\ UNCHANGED <<store, provider, queue, env, job>>

\* Mutant: the release is skipped.
WorkerFindBidNoRelease(w) ==
    /\ At(w, "wrk_bid")
    /\ \/ Selected(job[w].task) = {} /\ Goto(w, "wrk_failed") /\ UNCHANGED job
       \/ \E b \in BidReq : /\ IsWinningBid(job[w].task, b)
                            /\ job' = [job EXCEPT ![w].win = b]
                            /\ Goto(w, "wrk_save")
    /\ UNCHANGED <<store, provider, queue, env>>

WorkerFindBid(w) ==
    /\ At(w, "wrk_bid")
    /\ \/ Selected(job[w].task) = {} /\ Goto(w, "wrk_failed") /\ UNCHANGED job
       \/ \E b \in BidReq : /\ IsWinningBid(job[w].task, b)
                            /\ job' = [job EXCEPT ![w].win = b]
                            /\ Goto(w, "wrk_release")
    /\ UNCHANGED <<store, provider, queue, env>>

WorkerRelease(w) ==
    /\ At(w, "wrk_release")
    /\ Release(w, Goto(w, "wrk_save"), Goto(w, "wrk_failed"))
    /\ UNCHANGED <<store, queue, env, job>>

WorkerSaveCompleted(w) ==
    /\ At(w, "wrk_save")
    /\ SaveTask(job[w].task, "COMPLETED")
    /\ Goto(w, "wrk_emit")
    /\ UNCHANGED <<bids, provider, queue, env, job>>

WorkerEmit(w) ==
    /\ At(w, "wrk_emit")
    /\ Emit("task_completed", job[w].task)
    /\ Goto(w, "wrk_ok")
    /\ UNCHANGED <<store, provider, completion, consumption, env, job>>

\* markSucceeded is inside the try block too: when its answer is lost, the
\* row is SUCCEEDED and is marked FAILED next.
WorkerMarkSucceeded(w) ==
    /\ At(w, "wrk_ok")
    /\ consumption' = [consumption EXCEPT ![job[w].event].status = "SUCCEEDED"]
    /\ \/ Ends(w) /\ faults' = faults
       \/ /\ faults < MaxFaults /\ faults' = faults + 1
          /\ Goto(w, "wrk_failed") /\ UNCHANGED job
    /\ UNCHANGED <<store, provider, outbox, completion, overdue, denylist, clock>>

WorkerMarkFailed(w) ==
    /\ At(w, "wrk_failed")
    /\ consumption' = [consumption EXCEPT ![job[w].event].status = "FAILED"]
    /\ Ends(w)
    /\ UNCHANGED <<store, provider, outbox, completion, env>>

-----------------------------------------------------------------------------
(* Time and failures.                                                      *)

DeadlinePasses(t) ==
    /\ t \notin overdue /\ tasks[t] # "NONE"
    /\ overdue' = overdue \cup {t}
    /\ UNCHANGED <<store, provider, queue, denylist, clock, faults, pc, job>>

\* The await of a handler throws.  A request answers 500 and a sweep stops;
\* the worker catches what its handler throws and records the failure.  A
\* statement that commits and throws is its own step followed by this one.
StatementFails(p) ==
    /\ p \in InFlight /\ faults < MaxFaults
    /\ faults' = faults + 1
    /\ IF pc[p] \in Dispatching
         THEN Goto(p, "wrk_failed") /\ UNCHANGED job
         ELSE Ends(p)
    /\ UNCHANGED <<store, provider, queue, overdue, denylist, clock>>

\* The server process, which runs the sweep and the worker too, dies and is
\* started again with another EXECUTOR_DENYLIST.  The tables survive in
\* Postgres; the in-memory repositories are empty again.
Restart(D) ==
    /\ faults < MaxFaults
    /\ faults' = faults + 1
    /\ denylist' = D
    /\ pc' = [p \in Proc |-> IF p \in InFlight THEN Rest(p) ELSE pc[p]]
    /\ job' = [p \in Proc |-> NoJob]
    /\ IF UseOutbox
         THEN UNCHANGED store
         ELSE tasks' = [t \in Task |-> "NONE"] /\ bids' = [b \in BidReq |-> NoBid]
    /\ UNCHANGED <<provider, queue, overdue, clock>>

\* The server waits for requests.
Idle == InFlight = {} /\ UNCHANGED vars

Continue(p) ==
    \/ CreateSave(p) \/ CreateEmit(p)
    \/ BidCreateEscrow(p) \/ BidSave(p) \/ BidEmit(p)
    \/ SelectFindTask(p) \/ SelectFindBids(p) \/ SelectAssign(p) \/ SelectSaveWinner(p)
    \/ SelectRejectNext(p) \/ SelectReturn(p) \/ SelectEmit(p)
    \/ CompleteFindBid(p) \/ CompleteSave(p) \/ CompleteEmit(p)
    \/ CompleteRelease(p) \/ CompleteSaveCompleted(p)
    \/ SweepFindBid(p) \/ SweepConfiscate(p) \/ SweepSaveExpired(p) \/ SweepEmit(p)
    \/ SweepReturn(p)
    \/ WorkerFindTask(p) \/ WorkerFindBid(p) \/ WorkerRelease(p) \/ WorkerSaveCompleted(p)
    \/ WorkerEmit(p) \/ WorkerMarkSucceeded(p) \/ WorkerMarkFailed(p)

Arrives(p) ==
    \/ CreateCharge(p) \/ BidFindTask(p) \/ SelectBegin(p) \/ CompleteFindTask(p) \/ SweepList(p)

Next ==
    \/ \E p \in Proc : Arrives(p) \/ Continue(p) \/ StatementFails(p)
    \/ \E w \in Worker, e \in CompleteReq : WorkerStart(w, e)
    \/ \E t \in Task : DeadlinePasses(t)
    \/ \E D \in SUBSET Executor : Restart(D)
    \/ Idle

Spec == Init /\ [][Next]_vars

\* A started handler runs on, and a polling worker takes what it may start;
\* requests need not arrive.
FairSpec ==
    /\ Spec
    /\ \A p \in Proc : WF_vars(Continue(p))
    /\ \A w \in Worker : WF_vars(\E e \in CompleteReq : WorkerStart(w, e))

-----------------------------------------------------------------------------
(* Properties.                                                             *)

\* Type invariant: every variable holds a value of its type.
TypeOK ==
    /\ tasks \in [Task -> TaskStatus \cup {"NONE"}]
    /\ bids \in [BidReq -> BidRow \cup {NoBid}]
    /\ escrow \subseteq BidReq
    /\ released \in [BidReq -> Nat]
    /\ confiscated \in [BidReq -> Nat]
    /\ refused \subseteq {"release", "confiscate"} \X BidReq
    /\ outbox \subseteq OutboxEvent
    /\ completion \in [CompleteReq -> Task \cup {None}]
    /\ consumption \in [CompleteReq -> ConsumptionRow]
    /\ overdue \subseteq Task
    /\ denylist \subseteq Executor
    /\ clock \in Nat
    /\ faults \in 0..MaxFaults
    /\ pc \in [Proc -> Label]
    /\ job \in [Proc -> Job]

\* The provider answered a release, or a confiscation, of the escrow of b;
\* what success it reported is not looked at.
ReleaseAnswered(b)    == released[b] > 0 \/ <<"release", b>> \in refused
ConfiscateAnswered(b) == confiscated[b] > 0 \/ <<"confiscate", b>> \in refused

\* A final status is never guessed: a task is COMPLETED only after the provider
\* answered a release of the escrow of one of its bids, and EXPIRED only after
\* it answered a confiscation, whatever handlers overlap, calls throw or
\* processes restart.  A call that throws leaves the task to a retry.
SettledWasAnswered ==
    \A t \in Task :
      /\ tasks[t] = "COMPLETED" => \E b \in BidsOf(t) : ReleaseAnswered(b)
      /\ tasks[t] = "EXPIRED"   => \E b \in BidsOf(t) : ConfiscateAnswered(b)

\* "Escrow releases on completion" (README): a COMPLETED task has a bid whose
\* escrow the provider released.  handleTaskCompletionRequested and complete
\* save COMPLETED without reading the success of the answer.
CompletedIsPaid ==
    \A t \in Task : tasks[t] = "COMPLETED" => \E b \in BidsOf(t) : released[b] > 0

\* Collateral moves only for cause (with the outbox).  A released escrow backs
\* a bid that the auction chose, on a task whose requester asked for
\* completion; a confiscated one backs a chosen bid of an overdue task.
SettlementJustified ==
    \A b \in BidReq :
      /\ released[b] > 0 =>
           /\ bids[b].status \in {"SELECTED", "REJECTED"}
           /\ \E e \in CompleteReq : completion[e] = bids[b].task
      /\ confiscated[b] > 0 =>
           /\ bids[b].status \in {"SELECTED", "REJECTED"}
           /\ bids[b].task \in overdue

\* Overlapping auctions, each rejecting the losers it read, never leave a
\* task that had a winner without one (createdAt values being distinct).
SelectedSurvives ==
    [][\A t \in Task : Selected(t) # {} => (Selected(t))' # {}]_vars

\* Without failures, once the handlers are through, a task with a bid has been
\* taken off the market and has a winner: the automatic selection after a
\* bid never gives up on a task that is still OPEN.
AuctionSettles ==
    InFlight = {} => \A t \in Task : BidsOf(t) # {} => tasks[t] # "OPEN" /\ Selected(t) # {}

\* Without failures, once the handlers are through, the outbox holds the event
\* that announces the status of each task, and the request a COMPLETING task
\* waits for.
StatusAnnounced ==
    InFlight = {} =>
      \A t \in Task :
        /\ tasks[t] = "COMPLETED"  => [type |-> "task_completed", task |-> t] \in outbox
        /\ tasks[t] = "EXPIRED"    => [type |-> "task_expired", task |-> t] \in outbox
        /\ tasks[t] = "COMPLETING" => \E e \in CompleteReq : completion[e] = t

\* The auction is lost only to a better bid: every REJECTED bid has a SELECTED
\* rival on its task with a lower amount, or the same amount and an older
\* createdAt, although overlapping runs of selectWinner each decide on the
\* bids they read and may stop half way (createdAt values being distinct).
LosersAreBeaten ==
    \A b \in BidReq : bids[b].status = "REJECTED" =>
      \E c \in Selected(bids[b].task) :
        \/ bids[c].amount < bids[b].amount
        \/ bids[c].amount = bids[b].amount /\ bids[c].createdAt < bids[b].createdAt

\* "picks a winner" (README), "the first valid bid as the winner" (the
\* automatic selection of BidController): a task has at most one SELECTED bid.
\* selectWinner reads the task, then the bids, and saves both blindly.
AtMostOneWinner == \A t \in Task : Cardinality(Selected(t)) <= 1

\* "Nothing double-fires" (README), "exactly once" (README, ADR 0001): the
\* collateral of a bid is released once.  The worker releases first and
\* records it afterwards, and the call carries no key of its own.
ReleasedOnce == \A b \in BidReq : released[b] <= 1

\* "Any task still ASSIGNED past its deadline" (TimeoutService): the sweep
\* expires no task that has meanwhile been completed or approved.  runOnce
\* saves the row it listed, with the status it had then.
ExpiredWasAssigned ==
    [][\A t \in Task : tasks[t] # "EXPIRED" /\ tasks'[t] = "EXPIRED" => tasks[t] = "ASSIGNED"]_vars

\* "Queued through the Outbox before the HTTP transaction commits" (README): a
\* COMPLETING task has its completion request in the outbox, or the handler
\* that puts it there is still running.  complete saves the status and emits
\* the event in two statements of their own.
CompletionNeverLost ==
    \A t \in Task : tasks[t] = "COMPLETING" =>
      \/ \E e \in CompleteReq : completion[e] = t
      \/ \E p \in CompleteReq : At(p, "cmp_emit") /\ job[p].task = t

\* Lost replies, failed saves and overlapping requests may release an escrow
\* more than once, but never more often than the worker was let into the
\* handler for completion requests of its task.
ReleasesBounded ==
    \A b \in BidReq : released[b] > 0 =>
      released[b] <= Cardinality({x \in CompleteReq \X (1..MaxAttempts + 1) :
                                    /\ completion[x[1]] = bids[b].task
                                    /\ x[2] <= consumption[x[1]].attempts})

\* Without failures, once the handlers are through, all collateral that is
\* locked backs a bid in the table, and the task of that bid is decided: no
\* escrow is forgotten when the task is taken while it is being created.
CollateralHasBid ==
    InFlight = {} =>
      \A b \in escrow : bids[b].status # "NONE" /\ tasks[bids[b].task] # "OPEN"

\* What the handlers leave behind when all of them are through and nothing
\* failed, in whatever order their steps came: decided auctions, announced
\* statuses and no collateral without a bid.
AtRest == AuctionSettles /\ StatusAnnounced /\ CollateralHasBid

\* A COMPLETING task leaves that status, unless the worker has used up all the
\* attempts of a completion request for it.
CompletionFinishes ==
    \A t \in Task :
      (tasks[t] = "COMPLETING") ~>
        \/ tasks[t] # "COMPLETING"
        \/ \E e \in CompleteReq : /\ completion[e] = t
                                  /\ consumption[e].status = "FAILED"
                                  /\ consumption[e].attempts >= MaxAttempts

=============================================================================
