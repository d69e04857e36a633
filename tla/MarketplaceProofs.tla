------------------------- MODULE MarketplaceProofs -------------------------
(***************************************************************************)
(* Proofs about Marketplace for any number of requests, sweeps, workers    *)
(* and failures.                                                           *)
(*                                                                         *)
(* The handlers work on rows they read several awaits ago, so every        *)
(* invariant rests on what a handler at a given await may still assume of  *)
(* the tables: Relies.  These facts survive the steps of the others        *)
(* because rows are never deleted, a chosen bid never becomes PENDING      *)
(* again, and the provider's answers and the overdue tasks only grow:      *)
(* Frame.                                                                  *)
(*                                                                         *)
(* The last part is about handlers that overlap but do not fail (RestInv). *)
(***************************************************************************)
EXTENDS Marketplace, FiniteSetTheorems, TLAPS

Saved(b)  == bids[b].status # "NONE"
Chosen(b) == bids[b].status \in {"SELECTED", "REJECTED"}

\* Labels at which the handler has a task, a bid of that task, a chosen bid.
HasTask   == Label \ {"idle", "done", "swp_next"}
HasBid    == {"sel_assign", "sel_winner", "sel_reject", "cmp_save", "cmp_emit", "cmp_release",
              "cmp_completed", "swp_confiscate", "swp_save", "swp_emit", "wrk_release", "wrk_save"}
HasChosen == {"cmp_release", "cmp_completed", "swp_confiscate", "swp_save", "wrk_release", "wrk_save"}

\* What a handler at await l with job j may assume of the tables.
Relies(l, j) ==
    /\ l \in HasTask => j.task \in Task
    /\ l \in HasBid => j.win \in BidReq /\ Saved(j.win) /\ bids[j.win].task = j.task
    /\ l \in HasChosen => Chosen(j.win)
    /\ l \in {"bid_escrow", "bid_save"} => j.executor \in Executor
    /\ l \in {"sel_assign", "sel_winner", "sel_reject"} =>
         \A b \in j.rest : b \in BidReq /\ Saved(b) /\ bids[b].task = j.task
    /\ l \in {"swp_next", "swp_confiscate", "swp_save", "swp_emit"} => j.rest \subseteq overdue
    /\ l \in {"swp_confiscate", "swp_save"} => j.task \in overdue
    /\ l \in {"wrk_save", "cmp_completed"} => ReleaseAnswered(j.win)
    /\ l = "swp_save" => ConfiscateAnswered(j.win)
    /\ l \in {"cmp_release", "cmp_completed"} => ~UseOutbox
    /\ l \in Dispatching \cup {"wrk_failed"} =>
         j.event \in CompleteReq /\ completion[j.event] = j.task

HandlerOK(p) == Relies(pc[p], job[p])

HandlerInv == \A p \in Proc : HandlerOK(p)

\* A request runs once: its bid is saved, its event inserted, once.
OnceInv ==
    /\ \A b \in BidReq : pc[b] \in {"idle", "bid_escrow", "bid_save"} => ~Saved(b)
    /\ \A e \in CompleteReq : pc[e] # "done" => completion[e] = None

-----------------------------------------------------------------------------
(* What the steps of a handler do to pc and job.                           *)

\* A handler that ends is at rest with an empty job.
LEMMA EndsType ==
    ASSUME TypeOK, NEW p \in Proc, Ends(p) PROVE pc' \in [Proc -> Label] /\ job' \in [Proc -> Job]
  BY DEF TypeOK, Ends, Rest, NoJob, Job, Label

\* An update of one field of a job is a job.
LEMMA JobUpdate ==
    ASSUME NEW p \in Proc, job \in [Proc -> Job],
           NEW j \in Job, job' = [job EXCEPT ![p] = j]
    PROVE  job' \in [Proc -> Job]
  OBVIOUS

\* The handlers that emit an event have a task.
LEMMA HandlerFacts ==
    ASSUME TypeOK, HandlerInv, NEW p \in Proc,
           pc[p] \in {"create_emit", "bid_save", "bid_emit", "sel_task", "sel_bids", "sel_emit",
                      "cmp_emit", "swp_emit", "wrk_emit"}
    PROVE  job[p].task \in Task
  BY DEF HandlerInv, HandlerOK, Relies, HasTask, Label

\* The job of a handler that reads a task, or chooses a bid.
LEMMA JobTask ==
    ASSUME job \in [Proc -> Job], NEW p \in Proc, NEW t \in Task,
           job' = [job EXCEPT ![p].task = t]
    PROVE  job' \in [Proc -> Job]
  BY DEF Job

\* A handler that reads a task and its winning bid has a job.
LEMMA JobWin ==
    ASSUME job \in [Proc -> Job], NEW p \in Proc, NEW b \in BidReq,
           job' = [job EXCEPT ![p].win = b]
    PROVE  job' \in [Proc -> Job]
  BY DEF Job

\* A handler that keeps a set of bids or tasks to work through has a job.
LEMMA JobRest ==
    ASSUME job \in [Proc -> Job], NEW p \in Proc, NEW S \in SUBSET (BidReq \cup Task),
           job' = [job EXCEPT ![p].rest = S]
    PROVE  job' \in [Proc -> Job]
  BY DEF Job

\* The bids a handler saves are rows of the table.
LEMMA BidFacts ==
    ASSUME HandlerInv, NEW p \in Proc
    PROVE  /\ pc[p] \in HasBid => job[p].win \in BidReq /\ Saved(job[p].win)
           /\ pc[p] = "bid_save" => job[p].executor \in Executor
  BY DEF HandlerInv, HandlerOK, Relies

\* The losers a run of selectWinner still has to reject are bids.
LEMMA RestFacts ==
    ASSUME HandlerInv, NEW p \in Proc, pc[p] = "sel_reject", NEW b \in job[p].rest
    PROVE  b \in BidReq /\ Saved(b)
  BY DEF HandlerInv, HandlerOK, Relies

\* Saving a bid under another status keeps the table's type.
LEMMA SaveBidType ==
    ASSUME bids \in [BidReq -> BidRow \cup {NoBid}], NEW b \in BidReq, Saved(b),
           NEW s \in BidStatus, SaveBid(b, s)
    PROVE  bids' \in [BidReq -> BidRow \cup {NoBid}]
  BY DEF BidRow, NoBid, Saved, SaveBid, BidStatus

\* A run of selectWinner that has chosen has a job.
LEMMA JobChoice ==
    ASSUME job \in [Proc -> Job], NEW p \in Proc, NEW w \in BidReq,
           NEW S \in SUBSET (BidReq \cup Task),
           job' = [job EXCEPT ![p].win = w, ![p].rest = S]
    PROVE  job' \in [Proc -> Job]
  BY ZenonT(60) DEF Job

\* A sweep that takes up the next task has a job.
LEMMA JobSweep ==
    ASSUME NEW j \in Job, NEW S \in SUBSET (BidReq \cup Task), NEW t \in Task, NEW b \in BidReq
    PROVE  [j EXCEPT !.rest = S, !.task = t, !.win = b] \in Job
  BY DEF Job

\* Every step keeps the type invariant.
LEMMA TypeStep ==
    ASSUME TypeOK, HandlerInv, [Next]_vars PROVE TypeOK'
  <1>1. ASSUME NEW p \in Proc, CreateCharge(p) PROVE TypeOK'
    <2>1. pc' \in [Proc -> Label]
      BY <1>1, EndsType DEF CreateCharge, Goto, TypeOK, Label
    <2>2. job' \in [Proc -> Job]
      BY <1>1, EndsType, JobTask DEF CreateCharge, TypeOK, Task
    <2> QED BY <1>1, <2>1, <2>2 DEF CreateCharge, TypeOK, store, provider, queue, env
  <1>2. ASSUME NEW p \in Proc, CreateSave(p) PROVE TypeOK'
    <2>1. tasks' \in [Task -> TaskStatus \cup {"NONE"}]
      BY <1>2 DEF CreateSave, SaveTask, TypeOK, TaskStatus
    <2>2. pc' \in [Proc -> Label]
      BY <1>2, EndsType DEF CreateSave, Goto, TypeOK, Label
    <2> QED BY <1>2, <2>1, <2>2 DEF CreateSave, TypeOK, store, provider, queue, env
  <1>3. ASSUME NEW p \in Proc, CreateEmit(p) PROVE TypeOK'
    <2>1. outbox' \in SUBSET OutboxEvent
      BY <1>3 DEF CreateEmit, Emit, TypeOK, OutboxEvent, EventType, Task
    <2>2. pc' \in [Proc -> Label]
      BY <1>3, EndsType DEF CreateEmit, Goto, TypeOK, Label
    <2>3. job' \in [Proc -> Job]
      BY <1>3, EndsType DEF CreateEmit, TypeOK, Job
    <2> QED BY <1>3, <2>1, <2>2, <2>3 DEF CreateEmit, TypeOK, store, provider, queue, env
  <1>4. ASSUME NEW p \in Proc, BidFindTask(p) PROVE TypeOK'
    <2>1. pc' \in [Proc -> Label]
      BY <1>4, EndsType DEF BidFindTask, Goto, TypeOK, Label
    <2>2. job' \in [Proc -> Job]
      <3>1. CASE Ends(p)
        BY <3>1, EndsType
      <3>2. CASE ~Ends(p)
        <4>1. PICK t \in Task, x \in Executor, a \in Amount :
                job' = [job EXCEPT ![p] = [NoJob EXCEPT !.task = t, !.executor = x, !.amount = a]]
          BY <1>4, <3>2 DEF BidFindTask
        <4>2. [NoJob EXCEPT !.task = t, !.executor = x, !.amount = a] \in Job
          BY ConfigAssumption DEF NoJob, Job
        <4> QED BY <4>1, <4>2, JobUpdate DEF TypeOK
      <3> QED BY <3>1, <3>2
    <2> QED BY <1>4, <2>1, <2>2 DEF BidFindTask, TypeOK, store, provider, queue, env
  <1>5. ASSUME NEW p \in Proc, BidCreateEscrow(p) PROVE TypeOK'
    <2>1. escrow' \in SUBSET BidReq
      BY <1>5 DEF BidCreateEscrow, TypeOK
    <2>2. clock' \in Nat
      BY <1>5 DEF BidCreateEscrow, TypeOK
    <2>3. pc' \in [Proc -> Label]
      BY <1>5, EndsType DEF BidCreateEscrow, Goto, TypeOK, Label
    <2>4. job' \in [Proc -> Job]
      BY SMTT(30), <1>5, EndsType DEF BidCreateEscrow, TypeOK, Job
    <2> QED BY <1>5, <2>1, <2>2, <2>3, <2>4 DEF BidCreateEscrow, TypeOK, store, provider, queue, env
  <1>6. ASSUME NEW p \in Proc, BidSave(p) PROVE TypeOK'
    <2>1. bids' \in [BidReq -> BidRow \cup {NoBid}]
      BY <1>6, HandlerFacts, BidFacts DEF BidSave, TypeOK, Job, BidRow, BidStatus, At
    <2>2. pc' \in [Proc -> Label]
      BY <1>6, EndsType DEF BidSave, Goto, TypeOK, Label
    <2> QED BY <1>6, <2>1, <2>2 DEF BidSave, TypeOK, store, provider, queue, env
  <1>7. ASSUME NEW p \in Proc, BidEmit(p) PROVE TypeOK'
    <2>1. outbox' \in SUBSET OutboxEvent
      BY <1>7, HandlerFacts DEF BidEmit, Emit, TypeOK, OutboxEvent, EventType, At
    <2>2. pc' \in [Proc -> Label]
      BY <1>7, EndsType DEF BidEmit, Goto, TypeOK, Label
    <2> QED BY <1>7, <2>1, <2>2 DEF BidEmit, TypeOK, store, provider, queue, env
  <1>8. ASSUME NEW p \in Proc, SelectBegin(p) PROVE TypeOK'
    <2>1. pc' \in [Proc -> Label]
      BY <1>8, EndsType DEF SelectBegin, Goto, TypeOK, Label
    <2>2. job' \in [Proc -> Job]
      BY <1>8, JobTask DEF SelectBegin, TypeOK
    <2> QED BY <1>8, <2>1, <2>2 DEF SelectBegin, TypeOK, store, provider, queue, env
  <1>9. ASSUME NEW p \in Proc, SelectFindTask(p) PROVE TypeOK'
    <2>1. pc' \in [Proc -> Label]
      BY <1>9, EndsType DEF SelectFindTask, Goto, TypeOK, Label
    <2>2. job' \in [Proc -> Job]
      BY <1>9, EndsType DEF SelectFindTask, TypeOK, Job
    <2> QED BY <1>9, <2>1, <2>2 DEF SelectFindTask, TypeOK, store, provider, queue, env
  <1>10. ASSUME NEW p \in Proc, SelectFindBids(p) PROVE TypeOK'
    <2>1. pc' \in [Proc -> Label]
      BY <1>10, EndsType DEF SelectFindBids, Goto, TypeOK, Label
    <2>2. job' \in [Proc -> Job]
      <3>1. CASE Ends(p)
        BY <3>1, EndsType
      <3>2. ASSUME NEW w \in Pending(job[p].task),
                   job' = [job EXCEPT ![p].win = w, ![p].rest = Pending(job[p].task) \ {w}]
            PROVE  job' \in [Proc -> Job]
        <4>1. Pending(job[p].task) \subseteq BidReq
          BY DEF Pending, BidsOf
        <4>2. /\ w \in BidReq
              /\ Pending(job[p].task) \ {w} \in SUBSET (BidReq \cup Task)
          BY <4>1
        <4> QED BY <3>2, <4>2, JobChoice DEF TypeOK
      <3> QED BY <1>10, <3>1, <3>2 DEF SelectFindBids
    <2> QED BY <1>10, <2>1, <2>2 DEF SelectFindBids, TypeOK, store, provider, queue, env
  <1>11. ASSUME NEW p \in Proc, SelectAssign(p) PROVE TypeOK'
    <2>1. tasks' \in [Task -> TaskStatus \cup {"NONE"}]
      BY <1>11 DEF SelectAssign, SaveTask, TypeOK, TaskStatus
    <2>2. pc' \in [Proc -> Label]
      BY <1>11, EndsType DEF SelectAssign, Goto, TypeOK, Label
    <2> QED BY <1>11, <2>1, <2>2 DEF SelectAssign, TypeOK, store, provider, queue, env
  <1>12. ASSUME NEW p \in Proc, SelectSaveWinner(p) PROVE TypeOK'
    <2>1. bids' \in [BidReq -> BidRow \cup {NoBid}]
      BY <1>12, BidFacts, SaveBidType DEF SelectSaveWinner, TypeOK, At, HasBid, BidStatus
    <2>2. pc' \in [Proc -> Label]
      BY <1>12, EndsType DEF SelectSaveWinner, Goto, TypeOK, Label
    <2> QED BY <1>12, <2>1, <2>2 DEF SelectSaveWinner, TypeOK, store, provider, queue, env
  <1>13. ASSUME NEW p \in Proc, SelectRejectNext(p) PROVE TypeOK'
    <2>1. bids' \in [BidReq -> BidRow \cup {NoBid}]
      BY <1>13, RestFacts, SaveBidType DEF SelectRejectNext, TypeOK, At, BidStatus
    <2>2. job' \in [Proc -> Job]
      <3>1. PICK b \in job[p].rest : job' = [job EXCEPT ![p].rest = job[p].rest \ {b}]
        BY <1>13 DEF SelectRejectNext, TypeOK
      <3>2. job[p].rest \ {b} \in SUBSET (BidReq \cup Task)
        BY DEF TypeOK, Job
      <3> QED BY <3>1, <3>2, JobRest DEF TypeOK
    <2> QED BY <1>13, <2>1, <2>2 DEF SelectRejectNext, TypeOK, store, provider, queue, env
  <1>14. ASSUME NEW p \in Proc, SelectReturn(p) PROVE TypeOK'
    <2>1. pc' \in [Proc -> Label]
      BY <1>14, EndsType DEF SelectReturn, Goto, TypeOK, Label
    <2>2. job' \in [Proc -> Job]
      BY <1>14, EndsType DEF SelectReturn, TypeOK, Job
    <2> QED BY <1>14, <2>1, <2>2 DEF SelectReturn, TypeOK, store, provider, queue, env
  <1>15. ASSUME NEW p \in Proc, SelectEmit(p) PROVE TypeOK'
    <2>1. outbox' \in SUBSET OutboxEvent
      BY <1>15, HandlerFacts DEF SelectEmit, Emit, TypeOK, OutboxEvent, EventType, At
    <2>2. pc' \in [Proc -> Label]
      BY <1>15, EndsType DEF SelectEmit, Goto, TypeOK, Label
    <2>3. job' \in [Proc -> Job]
      BY <1>15, EndsType DEF SelectEmit, TypeOK, Job
    <2> QED BY <1>15, <2>1, <2>2, <2>3 DEF SelectEmit, TypeOK, store, provider, queue, env
  <1>16. ASSUME NEW p \in Proc, CompleteFindTask(p) PROVE TypeOK'
    <2>1. pc' \in [Proc -> Label]
      BY <1>16, EndsType DEF CompleteFindTask, Goto, TypeOK, Label
    <2>2. job' \in [Proc -> Job]
      BY <1>16, EndsType, JobTask DEF CompleteFindTask, TypeOK
    <2> QED BY <1>16, <2>1, <2>2 DEF CompleteFindTask, TypeOK, store, provider, queue, env
  <1>17. ASSUME NEW p \in Proc, CompleteFindBid(p) PROVE TypeOK'
    <2>1. pc' \in [Proc -> Label]
      BY <1>17, EndsType DEF CompleteFindBid, Goto, TypeOK, Label
    <2>2. job' \in [Proc -> Job]
      BY SMTT(30), <1>17, EndsType DEF CompleteFindBid, TypeOK, Job
    <2> QED BY <1>17, <2>1, <2>2 DEF CompleteFindBid, TypeOK, store, provider, queue, env
  <1>18. ASSUME NEW p \in Proc, CompleteSave(p) PROVE TypeOK'
    <2>1. tasks' \in [Task -> TaskStatus \cup {"NONE"}]
      BY <1>18 DEF CompleteSave, SaveTask, TypeOK, TaskStatus
    <2>2. pc' \in [Proc -> Label]
      BY <1>18, EndsType DEF CompleteSave, Goto, TypeOK, Label
    <2> QED BY <1>18, <2>1, <2>2 DEF CompleteSave, TypeOK, store, provider, queue, env
  <1>19. ASSUME NEW p \in Proc, CompleteEmit(p) PROVE TypeOK'
    <2>1. outbox' \in SUBSET OutboxEvent
      BY <1>19, HandlerFacts DEF CompleteEmit, Emit, TypeOK, OutboxEvent, EventType, At
    <2>2. completion' \in [CompleteReq -> Task \cup {None}]
      BY <1>19, HandlerFacts DEF CompleteEmit, TypeOK, At
    <2>3. pc' \in [Proc -> Label]
      BY <1>19, EndsType DEF CompleteEmit, Goto, TypeOK, Label
    <2>4. job' \in [Proc -> Job]
      BY <1>19, EndsType DEF CompleteEmit, TypeOK, Job
    <2> QED BY <1>19, <2>1, <2>2, <2>3, <2>4 DEF CompleteEmit, TypeOK, store, provider, queue, env
  <1>20. ASSUME NEW p \in Proc, CompleteRelease(p) PROVE TypeOK'
    <2>1. released' \in [BidReq -> Nat]
      BY <1>20 DEF CompleteRelease, Release, TypeOK
    <2>2. pc' \in [Proc -> Label]
      BY <1>20, EndsType DEF CompleteRelease, Release, Goto, TypeOK, Label
    <2>3. job' \in [Proc -> Job]
      BY <1>20, EndsType DEF CompleteRelease, Release, TypeOK
    <2>4. refused' \subseteq {"release", "confiscate"} \X BidReq
      BY <1>20, BidFacts DEF CompleteRelease, Release, At, HasBid, TypeOK
    <2> QED BY <1>20, <2>1, <2>2, <2>3, <2>4
        DEF CompleteRelease, TypeOK, store, provider, queue, env, Release
  <1>21. ASSUME NEW p \in Proc, CompleteSaveCompleted(p) PROVE TypeOK'
    <2>1. tasks' \in [Task -> TaskStatus \cup {"NONE"}]
      BY <1>21 DEF CompleteSaveCompleted, SaveTask, TypeOK, TaskStatus
    <2>2. pc' \in [Proc -> Label]
      BY <1>21, EndsType DEF CompleteSaveCompleted, Goto, TypeOK, Label
    <2>3. job' \in [Proc -> Job]
      BY <1>21, EndsType DEF CompleteSaveCompleted, TypeOK, Job
    <2> QED BY <1>21, <2>1, <2>2, <2>3 DEF CompleteSaveCompleted, TypeOK, store, provider, queue, env
  <1>22. ASSUME NEW p \in Proc, SweepList(p) PROVE TypeOK'
    <2>1. pc' \in [Proc -> Label]
      BY <1>22, EndsType DEF SweepList, Goto, TypeOK, Label
    <2>2. job' \in [Proc -> Job]
      <3>1. job[p] \in Job
        BY DEF TypeOK
      <3>2. {t \in overdue : tasks[t] = "ASSIGNED"} \in SUBSET (BidReq \cup Task)
        BY DEF TypeOK
      <3>3. job' = [job EXCEPT ![p].rest = {t \in overdue : tasks[t] = "ASSIGNED"}]
        BY <1>22 DEF SweepList
      <3> QED BY <3>1, <3>2, <3>3, JobRest DEF TypeOK
    <2> QED BY <1>22, <2>1, <2>2 DEF SweepList, TypeOK, store, provider, queue, env
  <1>23. ASSUME NEW p \in Proc, SweepFindBid(p) PROVE TypeOK'
    <2>1. pc' \in [Proc -> Label]
      BY <1>23, EndsType DEF SweepFindBid, Goto, TypeOK, Label
    <2>2. job' \in [Proc -> Job]
      <3>1. PICK t \in job[p].rest :
              \/ job' = [job EXCEPT ![p].rest = job[p].rest \ {t}]
              \/ \E b \in BidReq :
                   job' = [job EXCEPT ![p] = [job[p] EXCEPT !.rest = @ \ {t},
                                                            !.task = t, !.win = b]]
        BY <1>23 DEF SweepFindBid, TypeOK
      <3>2. job[p] \in Job /\ job[p].rest \ {t} \in SUBSET (BidReq \cup Task)
        BY DEF TypeOK, Job
      <3>3. t \in Task
        BY <1>23 DEF SweepFindBid, HandlerInv, HandlerOK, Relies, At, TypeOK
      <3>4. \A b \in BidReq :
              [job[p] EXCEPT !.rest = job[p].rest \ {t}, !.task = t, !.win = b] \in Job
        BY <3>2, <3>3, JobSweep
      <3> QED BY <3>1, <3>2, <3>4, JobRest DEF TypeOK
    <2> QED BY <1>23, <2>1, <2>2 DEF SweepFindBid, TypeOK, store, provider, queue, env
  <1>24. ASSUME NEW p \in Proc, SweepConfiscate(p) PROVE TypeOK'
    <2>1. confiscated' \in [BidReq -> Nat]
      BY <1>24 DEF SweepConfiscate, TypeOK
    <2>2. pc' \in [Proc -> Label]
      BY <1>24, EndsType DEF SweepConfiscate, Goto, TypeOK, Label
    <2>3. refused' \subseteq {"release", "confiscate"} \X BidReq
      BY <1>24, BidFacts DEF SweepConfiscate, At, HasBid, TypeOK
    <2> QED BY <1>24, <2>1, <2>2, <2>3 DEF SweepConfiscate, TypeOK, store, provider, queue, env
  <1>25. ASSUME NEW p \in Proc, SweepSaveExpired(p) PROVE TypeOK'
    <2>1. tasks' \in [Task -> TaskStatus \cup {"NONE"}]
      BY <1>25 DEF SweepSaveExpired, SaveTask, TypeOK, TaskStatus
    <2>2. pc' \in [Proc -> Label]
      BY <1>25, EndsType DEF SweepSaveExpired, Goto, TypeOK, Label
    <2> QED BY <1>25, <2>1, <2>2 DEF SweepSaveExpired, TypeOK, store, provider, queue, env
  <1>26. ASSUME NEW p \in Proc, SweepEmit(p) PROVE TypeOK'
    <2>1. outbox' \in SUBSET OutboxEvent
      BY <1>26, HandlerFacts DEF SweepEmit, Emit, TypeOK, OutboxEvent, EventType, At
    <2>2. pc' \in [Proc -> Label]
      BY <1>26, EndsType DEF SweepEmit, Goto, TypeOK, Label
    <2> QED BY <1>26, <2>1, <2>2 DEF SweepEmit, TypeOK, store, provider, queue, env
  <1>27. ASSUME NEW p \in Proc, SweepReturn(p) PROVE TypeOK'
    <2>1. pc' \in [Proc -> Label]
      BY <1>27, EndsType DEF SweepReturn, Goto, TypeOK, Label
    <2>2. job' \in [Proc -> Job]
      BY <1>27, EndsType DEF SweepReturn, TypeOK, Job
    <2> QED BY <1>27, <2>1, <2>2 DEF SweepReturn, TypeOK, store, provider, queue, env
  <1>28. ASSUME NEW p \in Proc, WorkerFindTask(p) PROVE TypeOK'
    <2>1. pc' \in [Proc -> Label]
      BY <1>28, EndsType DEF WorkerFindTask, Goto, TypeOK, Label
    <2> QED BY <1>28, <2>1 DEF WorkerFindTask, TypeOK, store, provider, queue, env
  <1>29. ASSUME NEW p \in Proc, WorkerFindBid(p) PROVE TypeOK'
    <2>1. pc' \in [Proc -> Label]
      BY <1>29, EndsType DEF WorkerFindBid, Goto, TypeOK, Label
    <2>2. job' \in [Proc -> Job]
      BY <1>29, JobWin DEF WorkerFindBid, TypeOK
    <2> QED BY <1>29, <2>1, <2>2 DEF WorkerFindBid, TypeOK, store, provider, queue, env
  <1>30. ASSUME NEW p \in Proc, WorkerRelease(p) PROVE TypeOK'
    <2>1. released' \in [BidReq -> Nat]
      BY <1>30 DEF WorkerRelease, Release, TypeOK
    <2>2. pc' \in [Proc -> Label]
      BY <1>30, EndsType DEF WorkerRelease, Release, Goto, TypeOK, Label
    <2>3. refused' \subseteq {"release", "confiscate"} \X BidReq
      BY <1>30, BidFacts DEF WorkerRelease, Release, At, HasBid, TypeOK
    <2> QED BY <1>30, <2>1, <2>2, <2>3 DEF WorkerRelease, TypeOK, store, provider, queue, env, Release
  <1>31. ASSUME NEW p \in Proc, WorkerSaveCompleted(p) PROVE TypeOK'
    <2>1. tasks' \in [Task -> TaskStatus \cup {"NONE"}]
      BY <1>31 DEF WorkerSaveCompleted, SaveTask, TypeOK, TaskStatus
    <2>2. pc' \in [Proc -> Label]
      BY <1>31, EndsType DEF WorkerSaveCompleted, Goto, TypeOK, Label
    <2> QED BY <1>31, <2>1, <2>2 DEF WorkerSaveCompleted, TypeOK, store, provider, queue, env
  <1>32. ASSUME NEW p \in Proc, WorkerEmit(p) PROVE TypeOK'
    <2>1. outbox' \in SUBSET OutboxEvent
      BY <1>32, HandlerFacts DEF WorkerEmit, Emit, TypeOK, OutboxEvent, EventType, At
    <2>2. pc' \in [Proc -> Label]
      BY <1>32, EndsType DEF WorkerEmit, Goto, TypeOK, Label
    <2> QED BY <1>32, <2>1, <2>2 DEF WorkerEmit, TypeOK, store, provider, queue, env
  <1>33. ASSUME NEW p \in Proc, WorkerMarkSucceeded(p) PROVE TypeOK'
    <2>1. consumption' \in [CompleteReq -> ConsumptionRow]
      BY <1>33 DEF WorkerMarkSucceeded, TypeOK, ConsumptionRow
    <2>2. pc' \in [Proc -> Label]
      BY <1>33, EndsType DEF WorkerMarkSucceeded, Goto, TypeOK, Label
    <2>3. job' \in [Proc -> Job]
      BY <1>33, EndsType DEF WorkerMarkSucceeded, TypeOK, Job
    <2>4. faults' \in 0..MaxFaults
      BY <1>33, ConfigAssumption DEF WorkerMarkSucceeded, TypeOK
    <2> QED BY <1>33, <2>1, <2>2, <2>3, <2>4
        DEF WorkerMarkSucceeded, TypeOK, store, provider, queue, env
  <1>34. ASSUME NEW p \in Proc, WorkerMarkFailed(p) PROVE TypeOK'
    <2>1. consumption' \in [CompleteReq -> ConsumptionRow]
      BY <1>34 DEF WorkerMarkFailed, TypeOK, ConsumptionRow
    <2>2. pc' \in [Proc -> Label]
      BY <1>34, EndsType DEF WorkerMarkFailed, Goto, TypeOK, Label
    <2>3. job' \in [Proc -> Job]
      BY <1>34, EndsType DEF WorkerMarkFailed, TypeOK, Job
    <2> QED BY <1>34, <2>1, <2>2, <2>3 DEF WorkerMarkFailed, TypeOK, store, provider, queue, env
  <1>35. ASSUME NEW p \in Proc, StatementFails(p) PROVE TypeOK'
    <2>1. faults' \in 0..MaxFaults
      BY <1>35, ConfigAssumption DEF StatementFails, TypeOK
    <2>2. pc' \in [Proc -> Label]
      BY <1>35, EndsType DEF StatementFails, Goto, TypeOK, Label, InFlight
    <2>3. job' \in [Proc -> Job]
      BY <1>35, EndsType DEF StatementFails, TypeOK, Job
    <2> QED BY <1>35, <2>1, <2>2, <2>3 DEF StatementFails, TypeOK, store, provider, queue, env
  <1>51. ASSUME NEW w \in Worker, NEW e \in CompleteReq, WorkerStart(w, e) PROVE TypeOK'
    <2>1. w \in Proc
      BY DEF Proc
    <2>2. pc' \in [Proc -> Label]
      BY <1>51, <2>1 DEF WorkerStart, Goto, TypeOK, Label
    <2>3. [NoJob EXCEPT !.event = e, !.task = completion[e]] \in Job
      BY DEF NoJob, Job, TypeOK
    <2>4. job' \in [Proc -> Job]
      BY <1>51, <2>1, <2>3, JobUpdate DEF WorkerStart, TypeOK
    <2>5. consumption' \in [CompleteReq -> ConsumptionRow]
      BY <1>51 DEF WorkerStart, TryStart, TypeOK, ConsumptionRow
    <2> QED BY <1>51, <2>2, <2>4, <2>5 DEF WorkerStart, TypeOK, store, provider, env
  <1>52. ASSUME NEW t \in Task, DeadlinePasses(t) PROVE TypeOK'
    BY <1>52 DEF DeadlinePasses, TypeOK, store, provider, queue
  <1>53. ASSUME NEW D \in SUBSET Executor, Restart(D) PROVE TypeOK'
    <2>1. pc' \in [Proc -> Label] /\ job' \in [Proc -> Job]
      BY <1>53 DEF Restart, Rest, TypeOK, Label, NoJob, Job
    <2>2. tasks' \in [Task -> TaskStatus \cup {"NONE"}] /\ bids' \in [BidReq -> BidRow \cup {NoBid}]
      BY <1>53 DEF Restart, TypeOK, store
    <2>3. faults' \in 0..MaxFaults
      BY <1>53, ConfigAssumption DEF Restart, TypeOK
    <2> QED BY <1>53, <2>1, <2>2, <2>3 DEF Restart, TypeOK, provider, queue
  <1>54. CASE UNCHANGED vars
    BY <1>54 DEF TypeOK, vars, store, provider, queue, env
  <1> QED
    BY <1>1, <1>2, <1>3, <1>4, <1>5, <1>6, <1>7, <1>8, <1>9, <1>10, <1>11, <1>12, <1>13, <1>14, <1>15, <1>16, <1>17, <1>18, <1>19, <1>20, <1>21, <1>22, <1>23, <1>24, <1>25, <1>26, <1>27, <1>28, <1>29, <1>30, <1>31, <1>32, <1>33, <1>34, <1>35, <1>51, <1>52, <1>53, <1>54 DEF Next, Arrives, Continue, Idle

-----------------------------------------------------------------------------
(* What no step takes back, short of losing the in-memory repositories.    *)

Frame ==
    /\ \A b \in BidReq : Saved(b) =>
         /\ Saved(b)'
         /\ bids'[b].task = bids[b].task
         /\ bids'[b].amount = bids[b].amount
         /\ bids'[b].createdAt = bids[b].createdAt
         /\ Chosen(b) => Chosen(b)'
    /\ \A b \in BidReq : released'[b] >= released[b] /\ confiscated'[b] >= confiscated[b]
    /\ refused \subseteq refused'
    /\ overdue \subseteq overdue'
    /\ \A e \in CompleteReq : completion[e] # None => completion'[e] = completion[e]

\* Only handler p moves.
Moves(p) == \A q \in Proc \ {p} : pc'[q] = pc[q] /\ job'[q] = job[q]

\* A step that leaves the tables, the provider's counters, the events and the
\* deadlines alone takes nothing back.
LEMMA FrameUnchanged ==
    ASSUME TypeOK, UNCHANGED <<bids, released, confiscated, refused, overdue, completion>>
    PROVE  Frame
  BY DEF Frame, TypeOK, Saved, Chosen

\* Changing the status of a saved bid to a chosen one takes nothing back.
LEMMA FrameSaveBid ==
    ASSUME TypeOK, NEW b \in BidReq, Saved(b), NEW s \in {"SELECTED", "REJECTED"}, SaveBid(b, s),
           UNCHANGED <<released, confiscated, refused, overdue, completion>>
    PROVE  Frame
  <1>1. \A c \in BidReq : /\ bids'[c].status = IF c = b THEN s ELSE bids[c].status
                          /\ Saved(c) => /\ bids'[c].task = bids[c].task
                                         /\ bids'[c].amount = bids[c].amount
                                         /\ bids'[c].createdAt = bids[c].createdAt
    BY DEF SaveBid, TypeOK, BidRow, NoBid, Saved
  <1>2. \A c \in BidReq : released'[c] >= released[c] /\ confiscated'[c] >= confiscated[c]
    BY DEF TypeOK
  <1> QED BY <1>1, <1>2 DEF Frame, Saved, Chosen

\* Short of a restart, no step takes anything back.
LEMMA FrameStep ==
    ASSUME TypeOK, HandlerInv, OnceInv, Next, \A D \in SUBSET Executor : ~Restart(D)
    PROVE  Frame
  <1>1. ASSUME NEW p \in Proc, BidSave(p) PROVE Frame
    <2>1. p \in BidReq /\ ~Saved(p)
      BY <1>1 DEF BidSave, OnceInv, At
    <2>2. \A c \in BidReq : Saved(c) => bids'[c] = bids[c]
      BY <1>1, <2>1 DEF BidSave, TypeOK
    <2> QED BY <1>1, <2>2 DEF BidSave, Frame, TypeOK, Saved, Chosen, provider, queue, env
  <1>2. ASSUME NEW p \in Proc, SelectSaveWinner(p) PROVE Frame
    BY <1>2, BidFacts, FrameSaveBid DEF SelectSaveWinner, At, HasBid, provider, queue, env
  <1>3. ASSUME NEW p \in Proc, SelectRejectNext(p) PROVE Frame
    BY <1>3, RestFacts, FrameSaveBid DEF SelectRejectNext, At, provider, queue, env
  <1>4. ASSUME NEW p \in Proc, CompleteEmit(p) PROVE Frame
    <2>1. completion[p] = None
      BY <1>4 DEF CompleteEmit, OnceInv, At
    <2>2. \A e \in CompleteReq : completion[e] # None => completion'[e] = completion[e]
      BY <1>4, <2>1 DEF CompleteEmit, TypeOK
    <2> QED BY <1>4, <2>2 DEF CompleteEmit, Frame, TypeOK, Saved, Chosen, store, provider, env
  <1>5. ASSUME NEW p \in Proc, CompleteRelease(p) \/ WorkerRelease(p) PROVE Frame
    <2>1. \A b \in BidReq : released'[b] >= released[b]
      BY <1>5 DEF CompleteRelease, WorkerRelease, Release, TypeOK
    <2>2. UNCHANGED <<bids, confiscated, overdue, completion>> /\ refused \subseteq refused'
      BY <1>5 DEF CompleteRelease, WorkerRelease, Release, store, queue, env
    <2> QED BY <2>1, <2>2 DEF Frame, TypeOK, Saved, Chosen
  <1>6. ASSUME NEW p \in Proc, SweepConfiscate(p) PROVE Frame
    <2>1. (\A b \in BidReq : confiscated'[b] >= confiscated[b]) /\ refused \subseteq refused'
      BY <1>6 DEF SweepConfiscate, TypeOK
    <2> QED BY <1>6, <2>1 DEF SweepConfiscate, Frame, TypeOK, Saved, Chosen, store, queue, env
  <1>7. ASSUME NEW t \in Task, DeadlinePasses(t) PROVE Frame
    BY <1>7 DEF DeadlinePasses, Frame, TypeOK, Saved, Chosen, store, provider, queue
  <1>8. ASSUME NEW p \in Proc, Arrives(p) PROVE Frame
    BY <1>8, FrameUnchanged DEF Arrives, CreateCharge, BidFindTask, SelectBegin, CompleteFindTask,
       SweepList, store, provider, queue, env
  <1>9. ASSUME NEW p \in Proc,
               \/ CreateSave(p) \/ CreateEmit(p) \/ BidCreateEscrow(p) \/ BidEmit(p)
               \/ SelectFindTask(p) \/ SelectFindBids(p) \/ SelectAssign(p) \/ SelectReturn(p)
               \/ SelectEmit(p) \/ CompleteFindBid(p) \/ CompleteSave(p) \/ CompleteSaveCompleted(p)
        PROVE  Frame
    <2> UNCHANGED <<bids, released, confiscated, refused, overdue, completion>>
      BY <1>9 DEF CreateSave, CreateEmit, BidCreateEscrow, BidEmit, SelectFindTask, SelectFindBids,
         SelectAssign, SelectReturn, SelectEmit, CompleteFindBid, CompleteSave,
         CompleteSaveCompleted, store, provider, queue, env
    <2> QED BY FrameUnchanged
  <1>10. ASSUME NEW p \in Proc,
                \/ SweepFindBid(p) \/ SweepSaveExpired(p) \/ SweepEmit(p) \/ SweepReturn(p)
                \/ WorkerFindTask(p) \/ WorkerFindBid(p) \/ WorkerSaveCompleted(p) \/ WorkerEmit(p)
                \/ WorkerMarkSucceeded(p) \/ WorkerMarkFailed(p) \/ StatementFails(p)
         PROVE  Frame
    <2> UNCHANGED <<bids, released, confiscated, refused, overdue, completion>>
      BY <1>10 DEF SweepFindBid, SweepSaveExpired, SweepEmit, SweepReturn, WorkerFindTask,
         WorkerFindBid, WorkerSaveCompleted, WorkerEmit, WorkerMarkSucceeded, WorkerMarkFailed,
         StatementFails, store, provider, queue, env
    <2> QED BY FrameUnchanged
  <1>11. ASSUME NEW w \in Worker, NEW e \in CompleteReq, WorkerStart(w, e) PROVE Frame
    BY <1>11, FrameUnchanged DEF WorkerStart, store, provider, env
  <1>12. CASE Idle
    BY <1>12, FrameUnchanged DEF Idle, vars, store, provider, queue, env
  <1> QED
    BY <1>1, <1>2, <1>3, <1>4, <1>5, <1>6, <1>7, <1>8, <1>9, <1>10, <1>11, <1>12
    DEF Next, Continue

-----------------------------------------------------------------------------
(* The steps keep what the handlers rely on.                               *)

\* What may be assumed may be assumed after the next step.
LEMMA ReliesKeep ==
    ASSUME TypeOK, TypeOK', Frame, NEW l, NEW j, Relies(l, j) PROVE Relies(l, j)'
  <1>1. l \in HasBid => /\ Saved(j.win)'
                        /\ bids'[j.win].task = j.task
                        /\ released'[j.win] >= released[j.win]
                        /\ confiscated'[j.win] >= confiscated[j.win]
                        /\ Chosen(j.win) => Chosen(j.win)'
    BY DEF Relies, Frame
  <1>2. l \in {"sel_assign", "sel_winner", "sel_reject"} =>
          \A b \in j.rest : Saved(b)' /\ bids'[b].task = j.task
    BY DEF Relies, Frame
  <1>3. l \in Dispatching \cup {"wrk_failed"} => completion'[j.event] = j.task
    <2> HAVE l \in Dispatching \cup {"wrk_failed"}
    <2>1. j.task \in Task
      BY DEF Relies, HasTask, Label, Dispatching
    <2>2. completion[j.event] # None
      BY <2>1, ConfigAssumption DEF Relies, Task
    <2> QED BY <2>2 DEF Relies, Frame
  <1>4. /\ l \in {"wrk_save", "cmp_completed"} => ReleaseAnswered(j.win)'
        /\ l = "swp_save" => ConfiscateAnswered(j.win)'
    <2>1. l \in {"wrk_save", "cmp_completed", "swp_save"} => l \in HasBid
      BY DEF HasBid
    <2>2. l \in HasBid => /\ released[j.win] \in Nat /\ released'[j.win] \in Nat
                          /\ confiscated[j.win] \in Nat /\ confiscated'[j.win] \in Nat
      BY DEF Relies, TypeOK
    <2> QED BY <1>1, <2>1, <2>2 DEF Relies, Frame, ReleaseAnswered, ConfiscateAnswered
  <1>5. l \in HasChosen => l \in HasBid
    BY DEF HasChosen, HasBid
  <1> QED BY <1>1, <1>2, <1>3, <1>4, <1>5 DEF Relies, Frame, Saved, Chosen

\* It is enough that what the handler assumes next holds before its step.
LEMMA MoveOn ==
    ASSUME TypeOK, TypeOK', Frame, NEW p \in Proc, NEW l, NEW j,
           Relies(l, j), pc'[p] = l, job'[p] = j
    PROVE  HandlerOK(p)'
  BY ReliesKeep DEF HandlerOK

\* A handler that moves on with the same job may go on relying on it.
LEMMA SameJob ==
    ASSUME TypeOK, TypeOK', Frame, NEW p \in Proc, NEW l,
           Relies(l, job[p]), Goto(p, l), UNCHANGED job
    PROVE  HandlerOK(p)' /\ Moves(p)
  <1>1. PICK j : j = job[p]
    OBVIOUS
  <1>2. pc'[p] = l /\ job'[p] = j /\ Moves(p)
    BY <1>1 DEF Goto, Moves, TypeOK
  <1> QED BY <1>1, <1>2, MoveOn

\* A handler that moves on with another job may rely on that one.
LEMMA NewJob ==
    ASSUME TypeOK, TypeOK', Frame, NEW p \in Proc, NEW l, NEW j,
           Relies(l, j), Goto(p, l), job' = [job EXCEPT ![p] = j]
    PROVE  HandlerOK(p)' /\ Moves(p)
  <1>1. pc'[p] = l /\ job'[p] = j /\ Moves(p)
    BY DEF Goto, Moves, TypeOK
  <1> QED BY <1>1, MoveOn

\* A handler that does not move keeps what it relies on.
LEMMA OthersKeep ==
    ASSUME TypeOK, TypeOK', Frame, NEW q \in Proc, HandlerOK(q), pc'[q] = pc[q], job'[q] = job[q]
    PROVE  HandlerOK(q)'
  <1>1. PICK l, j : l = pc[q] /\ j = job[q]
    OBVIOUS
  <1> QED BY <1>1, ReliesKeep DEF HandlerOK

\* A handler that has ended relies on nothing.
LEMMA EndsOK ==
    ASSUME TypeOK, NEW p \in Proc, Ends(p) PROVE HandlerOK(p)' /\ Moves(p)
  <1>1. pc'[p] \in {"idle", "done"}
    BY DEF Ends, Rest, TypeOK
  <1>2. Moves(p)
    BY DEF Ends, Moves, TypeOK
  <1> QED BY <1>1, <1>2 DEF HandlerOK, Relies, HasTask, HasBid, HasChosen, Dispatching, Label

\* Every step of a handler keeps what the handlers rely on.
LEMMA HandlerStep ==
    ASSUME TypeOK, TypeOK', HandlerInv, OnceInv, Frame, NEW p \in Proc,
           Arrives(p) \/ Continue(p) \/ StatementFails(p)
    PROVE  HandlerInv' /\ Moves(p)
  <1> HandlerOK(p)
    BY DEF HandlerInv
  <1> SUFFICES HandlerOK(p)' /\ Moves(p)
    BY OthersKeep DEF HandlerInv, Moves
  <1>1. CASE CreateCharge(p)
    <2>1. CASE Ends(p)
      BY <2>1, EndsOK
    <2>2. CASE ~Ends(p)
      <3>1. Goto(p, "create_save") /\ job' = [job EXCEPT ![p].task = p]
        BY <1>1, <2>2 DEF CreateCharge, Task
      <3>2. PICK j : j = [job[p] EXCEPT !.task = p]
        OBVIOUS
      <3>3. job' = [job EXCEPT ![p] = j]
        BY <3>1, <3>2 DEF TypeOK
      <3>4. Relies("create_save", j)
        BY <1>1, <3>1, <3>2 DEF CreateCharge, At, HandlerOK, TypeOK, Job, Relies, HasTask, HasBid, HasChosen, Dispatching, Label, Task
      <3> QED BY <3>1, <3>3, <3>4, NewJob
    <2> QED BY <2>1, <2>2
  <1>2. CASE CreateSave(p)
    <2>1. Relies("create_save", job[p])
      BY <1>2 DEF CreateSave, At, HandlerOK
    <2>2. Relies("create_emit", job[p])
      BY <2>1 DEF Relies, HasTask, HasBid, HasChosen, Dispatching, Label
    <2> QED BY <1>2, <2>2, SameJob DEF CreateSave
  <1>3. CASE CreateEmit(p)
    BY <1>3, EndsOK, SameJob DEF CreateEmit, At, HandlerOK, Relies, HasTask, HasBid, HasChosen, Dispatching, Label
  <1>4. CASE BidFindTask(p)
    <2>1. CASE Ends(p)
      BY <2>1, EndsOK
    <2>2. CASE ~Ends(p)
      <3>1. PICK t \in Task, x \in Executor, a \in Amount :
              Goto(p, "bid_escrow") /\ job' = [job EXCEPT ![p] = [NoJob EXCEPT !.task = t, !.executor = x, !.amount = a]]
        BY <1>4, <2>2 DEF BidFindTask, NoJob
      <3>2. PICK j : j = [NoJob EXCEPT !.task = t, !.executor = x, !.amount = a]
        OBVIOUS
      <3>3. job' = [job EXCEPT ![p] = j]
        BY <3>1, <3>2 DEF TypeOK
      <3>4. Relies("bid_escrow", j)
        BY <1>4, <3>1, <3>2 DEF BidFindTask, At, HandlerOK, TypeOK, Job, Relies, HasTask, HasBid, HasChosen, Dispatching, Label, NoJob
      <3> QED BY <3>1, <3>3, <3>4, NewJob
    <2> QED BY <2>1, <2>2
  <1>5. CASE BidCreateEscrow(p)
    <2>1. CASE Ends(p)
      BY <2>1, EndsOK
    <2>2. CASE ~Ends(p)
      <3>1. Goto(p, "bid_save") /\ job' = [job EXCEPT ![p].createdAt = clock]
        BY <1>5, <2>2 DEF BidCreateEscrow
      <3>2. PICK j : j = [job[p] EXCEPT !.createdAt = clock]
        OBVIOUS
      <3>3. job' = [job EXCEPT ![p] = j]
        BY <3>1, <3>2 DEF TypeOK
      <3>4. Relies("bid_save", j)
        BY <1>5, <3>1, <3>2 DEF BidCreateEscrow, At, HandlerOK, TypeOK, Job, Relies, HasTask, HasBid, HasChosen, Dispatching, Label
      <3> QED BY <3>1, <3>3, <3>4, NewJob
    <2> QED BY <2>1, <2>2
  <1>6. CASE BidSave(p)
    <2>1. Relies("bid_save", job[p])
      BY <1>6 DEF BidSave, At, HandlerOK
    <2>2. Relies("bid_emit", job[p])
      BY <2>1 DEF Relies, HasTask, HasBid, HasChosen, Dispatching, Label
    <2> QED BY <1>6, <2>2, SameJob DEF BidSave
  <1>7. CASE BidEmit(p)
    <2>1. Relies("bid_emit", job[p])
      BY <1>7 DEF BidEmit, At, HandlerOK
    <2>2. Relies("sel_task", job[p])
      BY <2>1 DEF Relies, HasTask, HasBid, HasChosen, Dispatching, Label
    <2> QED BY <1>7, <2>2, SameJob DEF BidEmit
  <1>8. CASE SelectBegin(p)
    <2>1. PICK t \in Task : Goto(p, "sel_task") /\ job' = [job EXCEPT ![p].task = t]
      BY <1>8 DEF SelectBegin
    <2>2. PICK j : j = [job[p] EXCEPT !.task = t]
      OBVIOUS
    <2>3. job' = [job EXCEPT ![p] = j]
      BY <2>1, <2>2 DEF TypeOK
    <2>4. Relies("sel_task", j)
      BY <1>8, <2>1, <2>2 DEF SelectBegin, At, HandlerOK, TypeOK, Job, Relies, HasTask, HasBid, HasChosen, Dispatching, Label
    <2> QED BY <2>1, <2>3, <2>4, NewJob
  <1>9. CASE SelectFindTask(p)
    <2>1. Relies("sel_task", job[p])
      BY <1>9 DEF SelectFindTask, At, HandlerOK
    <2>2. Relies("sel_bids", job[p])
      BY <2>1 DEF Relies, HasTask, HasBid, HasChosen, Dispatching, Label
    <2> QED BY <1>9, <2>2, SameJob, EndsOK DEF SelectFindTask
  <1>10. CASE SelectFindBids(p)
    <2>1. CASE Ends(p)
      BY <2>1, EndsOK
    <2>2. CASE ~Ends(p)
      <3>1. PICK w \in Pending(job[p].task) :
              Goto(p, "sel_assign") /\ job' = [job EXCEPT ![p].win = w, ![p].rest = Pending(job[p].task) \ {w}]
        BY <1>10, <2>2 DEF SelectFindBids, Pending, BidsOf, Saved
      <3>2. PICK j : j = [job[p] EXCEPT !.win = w, !.rest = Pending(job[p].task) \ {w}]
        OBVIOUS
      <3>3. job' = [job EXCEPT ![p] = j]
        BY <3>1, <3>2 DEF TypeOK
      <3>4. Relies("sel_assign", j)
        BY <1>10, <3>1, <3>2 DEF SelectFindBids, At, HandlerOK, TypeOK, Job, Relies, HasTask, HasBid, HasChosen, Dispatching, Label, Pending, BidsOf, Saved
      <3> QED BY <3>1, <3>3, <3>4, NewJob
    <2> QED BY <2>1, <2>2
  <1>11. CASE SelectAssign(p)
    <2>1. Relies("sel_assign", job[p])
      BY <1>11 DEF SelectAssign, At, HandlerOK
    <2>2. Relies("sel_winner", job[p])
      BY <2>1 DEF Relies, HasTask, HasBid, HasChosen, Dispatching, Label
    <2> QED BY <1>11, <2>2, SameJob DEF SelectAssign
  <1>12. CASE SelectSaveWinner(p)
    <2>1. Relies("sel_winner", job[p])
      BY <1>12 DEF SelectSaveWinner, At, HandlerOK
    <2>2. Relies("sel_reject", job[p])
      BY <2>1 DEF Relies, HasTask, HasBid, HasChosen, Dispatching, Label
    <2> QED BY <1>12, <2>2, SameJob DEF SelectSaveWinner
  <1>13. CASE SelectRejectNext(p)
    <2>1. PICK b \in job[p].rest : job' = [job EXCEPT ![p].rest = job[p].rest \ {b}]
      BY <1>13 DEF SelectRejectNext, TypeOK
    <2>2. PICK j : j = [job[p] EXCEPT !.rest = job[p].rest \ {b}]
      OBVIOUS
    <2>3. pc'[p] = "sel_reject" /\ job'[p] = j /\ Moves(p)
      BY <1>13, <2>1, <2>2 DEF SelectRejectNext, At, Moves, TypeOK
    <2>4. Relies("sel_reject", j)
      BY <1>13, <2>2 DEF SelectRejectNext, At, HandlerOK, TypeOK, Job, Relies, HasTask, HasBid,
         HasChosen, Dispatching, Label
    <2> QED BY <2>3, <2>4, MoveOn
  <1>14. CASE SelectReturn(p)
    <2>1. Relies("sel_reject", job[p])
      BY <1>14 DEF SelectReturn, At, HandlerOK
    <2>2. Relies("sel_emit", job[p])
      BY <2>1 DEF Relies, HasTask, HasBid, HasChosen, Dispatching, Label
    <2> QED BY <1>14, <2>2, SameJob, EndsOK DEF SelectReturn
  <1>15. CASE SelectEmit(p)
    BY <1>15, EndsOK, SameJob DEF SelectEmit, At, HandlerOK, Relies, HasTask, HasBid, HasChosen, Dispatching, Label
  <1>16. CASE CompleteFindTask(p)
    <2>1. CASE Ends(p)
      BY <2>1, EndsOK
    <2>2. CASE ~Ends(p)
      <3>1. PICK t \in Task : Goto(p, "cmp_bid") /\ job' = [job EXCEPT ![p].task = t]
        BY <1>16, <2>2 DEF CompleteFindTask
      <3>2. PICK j : j = [job[p] EXCEPT !.task = t]
        OBVIOUS
      <3>3. job' = [job EXCEPT ![p] = j]
        BY <3>1, <3>2 DEF TypeOK
      <3>4. Relies("cmp_bid", j)
        BY <1>16, <3>1, <3>2 DEF CompleteFindTask, At, HandlerOK, TypeOK, Job, Relies, HasTask, HasBid, HasChosen, Dispatching, Label
      <3> QED BY <3>1, <3>3, <3>4, NewJob
    <2> QED BY <2>1, <2>2
  <1>17. CASE CompleteFindBid(p)
    <2>1. CASE Ends(p)
      BY <2>1, EndsOK
    <2>2. ASSUME NEW b \in BidReq, IsWinningBid(job[p].task, b), job' = [job EXCEPT ![p].win = b],
                 Goto(p, IF UseOutbox THEN "cmp_save" ELSE "cmp_release")
          PROVE  HandlerOK(p)' /\ Moves(p)
      <3>1. PICK j : j = [job[p] EXCEPT !.win = b]
        OBVIOUS
      <3>2. job' = [job EXCEPT ![p] = j]
        BY <2>2, <3>1 DEF TypeOK
      <3>3. /\ j.task = job[p].task /\ j.win = b /\ j.event = job[p].event
            /\ Saved(b) /\ Chosen(b) /\ bids[b].task = j.task
        BY <2>2, <3>1 DEF TypeOK, Job, IsWinningBid, Selected, BidsOf, Saved, Chosen
      <3>4. Relies(IF UseOutbox THEN "cmp_save" ELSE "cmp_release", j)
        BY <1>17, <3>3 DEF CompleteFindBid, At, HandlerOK, Relies, HasTask, HasBid, HasChosen, Dispatching, Label
      <3> QED BY <2>2, <3>2, <3>4, NewJob
    <2> QED BY <1>17, <2>1, <2>2 DEF CompleteFindBid
  <1>18. CASE CompleteSave(p)
    <2>1. Relies("cmp_save", job[p])
      BY <1>18 DEF CompleteSave, At, HandlerOK
    <2>2. Relies("cmp_emit", job[p])
      BY <2>1 DEF Relies, HasTask, HasBid, HasChosen, Dispatching, Label
    <2> QED BY <1>18, <2>2, SameJob DEF CompleteSave
  <1>19. CASE CompleteEmit(p)
    BY <1>19, EndsOK, SameJob DEF CompleteEmit, At, HandlerOK, Relies, HasTask, HasBid, HasChosen, Dispatching, Label
  <1>20. CASE CompleteRelease(p)
    <2>1. Relies("cmp_release", job[p])
      BY <1>20 DEF CompleteRelease, At, HandlerOK
    <2>2. CASE Ends(p)
      BY <2>2, EndsOK
    <2>3. CASE /\ \/ released' = [released EXCEPT ![job[p].win] = @ + 1]
                  \/ refused' = refused \cup {<<"release", job[p].win>>}
               /\ Goto(p, "cmp_completed") /\ UNCHANGED job
      <3>1. PICK j : j = job[p]
        OBVIOUS
      <3>2. Relies("cmp_release", j)'
        BY <2>1, <3>1, ReliesKeep
      <3>3. ReleaseAnswered(j.win)'
        BY <2>1, <2>3, <3>1 DEF Relies, HasBid, TypeOK, ReleaseAnswered
      <3>4. Relies("cmp_completed", j)'
        BY <3>2, <3>3 DEF Relies, HasTask, HasBid, HasChosen, Dispatching, Label
      <3>5. pc'[p] = "cmp_completed" /\ job'[p] = j /\ Moves(p)
        BY <2>3, <3>1 DEF Goto, Moves, TypeOK
      <3> QED BY <3>4, <3>5 DEF HandlerOK
    <2> QED BY <1>20, <2>2, <2>3 DEF CompleteRelease, Release
  <1>21. CASE CompleteSaveCompleted(p)
    BY <1>21, EndsOK, SameJob DEF CompleteSaveCompleted, At, HandlerOK, Relies, HasTask, HasBid, HasChosen, Dispatching, Label
  <1>22. CASE SweepList(p)
    <2>1. Goto(p, "swp_next") /\ job' = [job EXCEPT ![p].rest = {t \in overdue : tasks[t] = "ASSIGNED"}]
      BY <1>22 DEF SweepList
    <2>2. PICK j : j = [job[p] EXCEPT !.rest = {t \in overdue : tasks[t] = "ASSIGNED"}]
      OBVIOUS
    <2>3. job' = [job EXCEPT ![p] = j]
      BY <2>1, <2>2 DEF TypeOK
    <2>4. Relies("swp_next", j)
      BY <1>22, <2>1, <2>2 DEF SweepList, At, HandlerOK, TypeOK, Job, Relies, HasTask, HasBid, HasChosen, Dispatching, Label
    <2> QED BY <2>1, <2>3, <2>4, NewJob
  <1>23. CASE SweepFindBid(p)
    <2>1. Relies("swp_next", job[p])
      BY <1>23 DEF SweepFindBid, At, HandlerOK
    <2>2. ASSUME NEW t \in job[p].rest, job' = [job EXCEPT ![p].rest = job[p].rest \ {t}],
                 UNCHANGED pc
          PROVE  HandlerOK(p)' /\ Moves(p)
      <3>1. PICK j : j = [job[p] EXCEPT !.rest = job[p].rest \ {t}]
        OBVIOUS
      <3>2. pc'[p] = "swp_next" /\ job'[p] = j /\ Moves(p)
        BY <1>23, <2>2, <3>1 DEF SweepFindBid, At, Moves, TypeOK
      <3>3. Relies("swp_next", j)
        BY <2>1, <3>1 DEF TypeOK, Job, Relies, HasTask, HasBid, HasChosen, Dispatching, Label
      <3> QED BY <3>2, <3>3, MoveOn
    <2>3. ASSUME NEW t \in job[p].rest, NEW b \in BidReq, IsWinningBid(t, b),
                 job' = [job EXCEPT ![p] = [job[p] EXCEPT !.rest = @ \ {t}, !.task = t, !.win = b]],
                 Goto(p, "swp_confiscate")
          PROVE  HandlerOK(p)' /\ Moves(p)
      <3>1. PICK j : j = [job[p] EXCEPT !.rest = @ \ {t}, !.task = t, !.win = b]
        OBVIOUS
      <3>2. /\ j.task = t /\ j.win = b /\ j.rest = job[p].rest \ {t}
            /\ Saved(b) /\ Chosen(b) /\ bids[b].task = t
        BY <2>3, <3>1 DEF TypeOK, Job, IsWinningBid, Selected, BidsOf, Saved, Chosen
      <3>3. Relies("swp_confiscate", j)
        BY <2>1, <3>2 DEF TypeOK, Relies, HasTask, HasBid, HasChosen, Dispatching, Label
      <3> QED BY <2>3, <3>1, <3>3, NewJob
    <2> QED BY <1>23, <2>2, <2>3 DEF SweepFindBid, TypeOK
  <1>24. CASE SweepConfiscate(p)
    <2>1. Relies("swp_confiscate", job[p])
      BY <1>24 DEF SweepConfiscate, At, HandlerOK
    <2>2. CASE Goto(p, "swp_next")
      BY <1>24, <2>1, <2>2, SameJob DEF SweepConfiscate, Relies, HasTask, HasBid, HasChosen, Dispatching, Label
    <2>3. CASE /\ \/ confiscated' = [confiscated EXCEPT ![job[p].win] = @ + 1]
                  \/ refused' = refused \cup {<<"confiscate", job[p].win>>}
               /\ Goto(p, "swp_save") /\ UNCHANGED job
      <3>1. PICK j : j = job[p]
        OBVIOUS
      <3>2. Relies("swp_confiscate", j)'
        BY <2>1, <3>1, ReliesKeep
      <3>3. ConfiscateAnswered(j.win)'
        BY <2>1, <2>3, <3>1 DEF Relies, HasBid, TypeOK, ConfiscateAnswered
      <3>4. Relies("swp_save", j)'
        BY <3>2, <3>3 DEF Relies, HasTask, HasBid, HasChosen, Dispatching, Label
      <3>5. pc'[p] = "swp_save" /\ job'[p] = j /\ Moves(p)
        BY <2>3, <3>1 DEF Goto, Moves, TypeOK
      <3> QED BY <3>4, <3>5 DEF HandlerOK
    <2> QED BY <1>24, <2>2, <2>3 DEF SweepConfiscate
  <1>25. CASE SweepSaveExpired(p)
    <2>1. Relies("swp_save", job[p])
      BY <1>25 DEF SweepSaveExpired, At, HandlerOK
    <2>2. Relies("swp_emit", job[p])
      BY <2>1 DEF Relies, HasTask, HasBid, HasChosen, Dispatching, Label
    <2> QED BY <1>25, <2>2, SameJob DEF SweepSaveExpired
  <1>26. CASE SweepEmit(p)
    <2>1. Relies("swp_emit", job[p])
      BY <1>26 DEF SweepEmit, At, HandlerOK
    <2>2. Relies("swp_next", job[p])
      BY <2>1 DEF Relies, HasTask, HasBid, HasChosen, Dispatching, Label
    <2> QED BY <1>26, <2>2, SameJob DEF SweepEmit
  <1>27. CASE SweepReturn(p)
    BY <1>27, EndsOK, SameJob DEF SweepReturn, At, HandlerOK, Relies, HasTask, HasBid, HasChosen, Dispatching, Label
  <1>28. CASE WorkerFindTask(p)
    BY <1>28, EndsOK, SameJob DEF WorkerFindTask, At, HandlerOK, Relies, HasTask, HasBid, HasChosen, Dispatching, Label
  <1>29. CASE WorkerFindBid(p)
    <2>1. CASE Goto(p, "wrk_failed") /\ UNCHANGED job
      BY <1>29, <2>1, SameJob DEF WorkerFindBid, At, HandlerOK, Relies, HasTask, HasBid, HasChosen, Dispatching, Label
    <2>2. ASSUME NEW b \in BidReq, IsWinningBid(job[p].task, b), job' = [job EXCEPT ![p].win = b],
                 Goto(p, "wrk_release")
          PROVE  HandlerOK(p)' /\ Moves(p)
      <3>1. PICK j : j = [job[p] EXCEPT !.win = b]
        OBVIOUS
      <3>2. job' = [job EXCEPT ![p] = j]
        BY <2>2, <3>1 DEF TypeOK
      <3>3. /\ j.task = job[p].task /\ j.win = b /\ j.event = job[p].event
            /\ Saved(b) /\ Chosen(b) /\ bids[b].task = j.task
        BY <2>2, <3>1 DEF TypeOK, Job, IsWinningBid, Selected, BidsOf, Saved, Chosen
      <3>4. Relies("wrk_release", j)
        BY <1>29, <3>3 DEF WorkerFindBid, At, HandlerOK, Relies, HasTask, HasBid, HasChosen, Dispatching, Label
      <3> QED BY <2>2, <3>2, <3>4, NewJob
    <2> QED BY <1>29, <2>1, <2>2 DEF WorkerFindBid
  <1>30. CASE WorkerRelease(p)
    <2>1. Relies("wrk_release", job[p])
      BY <1>30 DEF WorkerRelease, At, HandlerOK
    <2>2. CASE Goto(p, "wrk_failed")
      BY <1>30, <2>1, <2>2, SameJob DEF WorkerRelease, Relies, HasTask, HasBid, HasChosen, Dispatching, Label
    <2>3. CASE /\ \/ released' = [released EXCEPT ![job[p].win] = @ + 1]
                  \/ refused' = refused \cup {<<"release", job[p].win>>}
               /\ Goto(p, "wrk_save") /\ UNCHANGED job
      <3>1. PICK j : j = job[p]
        OBVIOUS
      <3>2. Relies("wrk_release", j)'
        BY <2>1, <3>1, ReliesKeep
      <3>3. ReleaseAnswered(j.win)'
        BY <2>1, <2>3, <3>1 DEF Relies, HasBid, TypeOK, ReleaseAnswered
      <3>4. Relies("wrk_save", j)'
        BY <3>2, <3>3 DEF Relies, HasTask, HasBid, HasChosen, Dispatching, Label
      <3>5. pc'[p] = "wrk_save" /\ job'[p] = j /\ Moves(p)
        BY <2>3, <3>1 DEF Goto, Moves, TypeOK
      <3> QED BY <3>4, <3>5 DEF HandlerOK
    <2> QED BY <1>30, <2>2, <2>3 DEF WorkerRelease, Release
  <1>31. CASE WorkerSaveCompleted(p)
    <2>1. Relies("wrk_save", job[p])
      BY <1>31 DEF WorkerSaveCompleted, At, HandlerOK
    <2>2. Relies("wrk_emit", job[p])
      BY <2>1 DEF Relies, HasTask, HasBid, HasChosen, Dispatching, Label
    <2> QED BY <1>31, <2>2, SameJob DEF WorkerSaveCompleted
  <1>32. CASE WorkerEmit(p)
    <2>1. Relies("wrk_emit", job[p])
      BY <1>32 DEF WorkerEmit, At, HandlerOK
    <2>2. Relies("wrk_ok", job[p])
      BY <2>1 DEF Relies, HasTask, HasBid, HasChosen, Dispatching, Label
    <2> QED BY <1>32, <2>2, SameJob DEF WorkerEmit
  <1>33. CASE WorkerMarkSucceeded(p)
    BY <1>33, EndsOK, SameJob DEF WorkerMarkSucceeded, At, HandlerOK, Relies, HasTask, HasBid, HasChosen, Dispatching, Label
  <1>34. CASE WorkerMarkFailed(p)
    BY <1>34, EndsOK, SameJob DEF WorkerMarkFailed, At, HandlerOK, Relies, HasTask, HasBid, HasChosen, Dispatching, Label
  <1>35. CASE StatementFails(p)
    BY <1>35, EndsOK, SameJob DEF StatementFails, At, HandlerOK, Relies, HasTask, HasBid, HasChosen, Dispatching, Label
  <1> QED BY <1>1, <1>2, <1>3, <1>4, <1>5, <1>6, <1>7, <1>8, <1>9, <1>10, <1>11, <1>12, <1>13, <1>14, <1>15, <1>16, <1>17, <1>18, <1>19, <1>20, <1>21, <1>22, <1>23, <1>24, <1>25, <1>26, <1>27, <1>28, <1>29, <1>30, <1>31, <1>32, <1>33, <1>34, <1>35 DEF Arrives, Continue


-----------------------------------------------------------------------------
(* A request runs once.                                                    *)

Unsaved == {"idle", "bid_escrow", "bid_save"}

\* A handler that is done stays done, and a bid request never comes back to
\* the awaits before its row is saved.
LEMMA PcStep ==
    ASSUME TypeOK, NEW p \in Proc, Arrives(p) \/ Continue(p) \/ StatementFails(p)
    PROVE  /\ pc[p] # "done"
           /\ p \in BidReq /\ pc'[p] \in Unsaved => pc[p] \in Unsaved
  <1>1. Ends(p) /\ p \in BidReq => pc'[p] = "done"
    BY ConfigAssumption DEF Ends, Rest, TypeOK
  <1>2. \A l : Goto(p, l) => pc'[p] = l
    BY DEF Goto, TypeOK
  <1>3. CASE CreateCharge(p) \/ CreateSave(p) \/ CreateEmit(p)
              \/ BidFindTask(p) \/ BidCreateEscrow(p) \/ BidSave(p)
    BY <1>1, <1>2, <1>3 DEF CreateCharge, CreateSave, CreateEmit, BidFindTask,
         BidCreateEscrow, BidSave, At, Begins, Unsaved
  <1>4. CASE BidEmit(p) \/ SelectBegin(p) \/ SelectFindTask(p)
              \/ SelectFindBids(p) \/ SelectAssign(p) \/ SelectSaveWinner(p)
    BY <1>1, <1>2, <1>4 DEF BidEmit, SelectBegin, SelectFindTask, SelectFindBids,
         SelectAssign, SelectSaveWinner, At, Begins, Unsaved
  <1>5. CASE SelectRejectNext(p) \/ SelectReturn(p) \/ SelectEmit(p)
              \/ CompleteFindTask(p) \/ CompleteFindBid(p) \/ CompleteSave(p)
    BY <1>1, <1>2, <1>5 DEF SelectRejectNext, SelectReturn, SelectEmit, CompleteFindTask,
         CompleteFindBid, CompleteSave, At, Begins, Unsaved
  <1>6. CASE CompleteEmit(p) \/ CompleteRelease(p) \/ CompleteSaveCompleted(p)
              \/ SweepList(p) \/ SweepFindBid(p) \/ SweepConfiscate(p)
    BY <1>1, <1>2, <1>6 DEF CompleteEmit, CompleteRelease, CompleteSaveCompleted,
         SweepList, SweepFindBid, SweepConfiscate, At, Begins, Unsaved, Release
  <1>7. CASE SweepSaveExpired(p) \/ SweepEmit(p) \/ SweepReturn(p)
              \/ WorkerFindTask(p) \/ WorkerFindBid(p) \/ WorkerRelease(p)
    BY <1>1, <1>2, <1>7 DEF SweepSaveExpired, SweepEmit, SweepReturn, WorkerFindTask,
         WorkerFindBid, WorkerRelease, At, Begins, Unsaved, Release
  <1>8. CASE WorkerSaveCompleted(p) \/ WorkerEmit(p) \/ WorkerMarkSucceeded(p)
              \/ WorkerMarkFailed(p) \/ StatementFails(p)
    BY <1>1, <1>2, <1>8 DEF WorkerSaveCompleted, WorkerEmit, WorkerMarkSucceeded,
         WorkerMarkFailed, StatementFails, At, Begins, Unsaved, InFlight
  <1> QED BY <1>3, <1>4, <1>5, <1>6, <1>7, <1>8 DEF Arrives, Continue

\* Every step of a handler keeps OnceInv.
LEMMA OnceStep ==
    ASSUME TypeOK, HandlerInv, OnceInv, NEW p \in Proc, Moves(p),
           Arrives(p) \/ Continue(p) \/ StatementFails(p)
    PROVE  OnceInv'
  <1>1. /\ pc[p] # "done"
        /\ p \in BidReq /\ pc'[p] \in Unsaved => pc[p] \in Unsaved
        /\ \A q \in Proc \ {p} : pc'[q] = pc[q]
    BY PcStep DEF Moves
  <1>2. BidReq \subseteq Proc /\ CompleteReq \subseteq Proc
    BY DEF Proc
  <1>3. CASE BidSave(p)
    <2>1. \A b \in BidReq \ {p} : bids'[b] = bids[b]
      BY <1>3 DEF BidSave, TypeOK
    <2>2. pc'[p] = "bid_emit" /\ completion' = completion
      BY <1>3 DEF BidSave, Goto, TypeOK, queue
    <2> QED BY <1>1, <1>2, <2>1, <2>2 DEF OnceInv, Saved, Unsaved
  <1>4. CASE CompleteEmit(p)
    <2>1. \A e \in CompleteReq \ {p} : completion'[e] = completion[e]
      BY <1>4 DEF CompleteEmit, TypeOK
    <2>2. pc'[p] = "done" /\ bids' = bids
      BY <1>4, ConfigAssumption DEF CompleteEmit, Ends, Rest, TypeOK, store
    <2> QED BY <1>1, <1>2, <2>1, <2>2 DEF OnceInv, Saved, Unsaved
  <1>5. CASE ~BidSave(p) /\ ~CompleteEmit(p)
    <2>1. completion' = completion
      BY <1>5 DEF Arrives, Continue, CreateCharge, CreateSave, CreateEmit, BidFindTask,
         BidCreateEscrow, BidEmit, SelectBegin, SelectFindTask, SelectFindBids,
         SelectAssign, SelectSaveWinner, SelectRejectNext, SelectReturn, SelectEmit,
         CompleteFindTask, CompleteFindBid, CompleteSave, CompleteRelease,
         CompleteSaveCompleted, SweepList, SweepFindBid, SweepConfiscate, SweepSaveExpired,
         SweepEmit, SweepReturn, WorkerFindTask, WorkerFindBid, WorkerRelease,
         WorkerSaveCompleted, WorkerEmit, WorkerMarkSucceeded, WorkerMarkFailed,
         StatementFails, queue
    <2>2. \A b \in BidReq : ~Saved(b) => ~Saved(b)'
      <3>1. CASE SelectSaveWinner(p)
        BY <3>1, BidFacts DEF SelectSaveWinner, SaveBid, At, HasBid, TypeOK, Saved
      <3>2. CASE SelectRejectNext(p)
        BY <3>2, RestFacts DEF SelectRejectNext, SaveBid, At, TypeOK, Saved
      <3>3. CASE ~SelectSaveWinner(p) /\ ~SelectRejectNext(p)
        <4>1. bids' = bids
          BY <1>5, <3>3 DEF Arrives, Continue, CreateCharge, CreateSave, CreateEmit,
         BidFindTask, BidCreateEscrow, BidEmit, SelectBegin, SelectFindTask,
         SelectFindBids, SelectAssign, SelectReturn, SelectEmit, CompleteFindTask,
         CompleteFindBid, CompleteSave, CompleteRelease, CompleteSaveCompleted, SweepList,
         SweepFindBid, SweepConfiscate, SweepSaveExpired, SweepEmit, SweepReturn,
         WorkerFindTask, WorkerFindBid, WorkerRelease, WorkerSaveCompleted, WorkerEmit,
         WorkerMarkSucceeded, WorkerMarkFailed, StatementFails, store
        <4> QED BY <4>1 DEF Saved
      <3> QED BY <3>1, <3>2, <3>3
    <2> QED BY <1>1, <1>2, <2>1, <2>2 DEF OnceInv, Unsaved
  <1> QED BY <1>3, <1>4, <1>5

-----------------------------------------------------------------------------
(* Settlement.                                                             *)

\* The task rows a step writes: COMPLETED only by a handler that has seen the
\* release, EXPIRED only by a sweep that has seen the confiscation.
LEMMA TaskStep ==
    ASSUME TypeOK, HandlerInv, NEW t \in Task, Next, tasks'[t] # tasks[t]
    PROVE  /\ tasks'[t] = "COMPLETED" =>
                \E p \in Proc : pc[p] \in {"wrk_save", "cmp_completed"} /\ job[p].task = t
           /\ tasks'[t] = "EXPIRED" => \E p \in Proc : pc[p] = "swp_save" /\ job[p].task = t
           /\ tasks'[t] = "COMPLETING" => \E p \in Proc : CompleteSave(p) /\ job[p].task = t
  <1>1. ASSUME NEW p \in Proc, WorkerSaveCompleted(p) \/ CompleteSaveCompleted(p)
        PROVE  pc[p] \in {"wrk_save", "cmp_completed"} /\ job[p].task = t /\ tasks'[t] = "COMPLETED"
    BY <1>1 DEF WorkerSaveCompleted, CompleteSaveCompleted, SaveTask, At, TypeOK
  <1>2. ASSUME NEW p \in Proc, SweepSaveExpired(p)
        PROVE  pc[p] = "swp_save" /\ job[p].task = t /\ tasks'[t] = "EXPIRED"
    BY <1>2 DEF SweepSaveExpired, SaveTask, At, TypeOK
  <1>3. ASSUME NEW p \in Proc, CreateSave(p) \/ SelectAssign(p)
        PROVE  tasks'[t] \notin {"COMPLETED", "EXPIRED", "COMPLETING"}
    BY <1>3 DEF CreateSave, SelectAssign, SaveTask, TypeOK
  <1>10. ASSUME NEW p \in Proc, CompleteSave(p)
        PROVE  tasks'[t] \notin {"COMPLETED", "EXPIRED"} /\ job[p].task = t
    BY <1>10 DEF CompleteSave, SaveTask, TypeOK
  <1>4. ASSUME NEW D \in SUBSET Executor, Restart(D)
        PROVE  tasks'[t] \notin {"COMPLETED", "EXPIRED", "COMPLETING"}
    BY <1>4 DEF Restart, TypeOK, store
  <1>5. ASSUME NEW p \in Proc,
               \/ CreateEmit(p) \/ BidCreateEscrow(p) \/ BidSave(p) \/ BidEmit(p)
               \/ SelectFindTask(p) \/ SelectFindBids(p) \/ SelectSaveWinner(p)
               \/ SelectRejectNext(p) \/ SelectReturn(p) \/ SelectEmit(p)
               \/ CompleteFindBid(p) \/ CompleteEmit(p) \/ CompleteRelease(p)
        PROVE  FALSE
    BY <1>5 DEF CreateEmit, BidCreateEscrow, BidSave, BidEmit, SelectFindTask, SelectFindBids,
       SelectSaveWinner, SelectRejectNext, SelectReturn, SelectEmit, CompleteFindBid, CompleteEmit,
       CompleteRelease, store
  <1>6. ASSUME NEW p \in Proc,
               \/ SweepFindBid(p) \/ SweepConfiscate(p) \/ SweepEmit(p) \/ SweepReturn(p)
               \/ WorkerFindTask(p) \/ WorkerFindBid(p) \/ WorkerRelease(p) \/ WorkerEmit(p)
               \/ WorkerMarkSucceeded(p) \/ WorkerMarkFailed(p)
               \/ Arrives(p) \/ StatementFails(p)
        PROVE  FALSE
    BY <1>6 DEF SweepFindBid, SweepConfiscate, SweepEmit, SweepReturn, WorkerFindTask,
       WorkerFindBid, WorkerRelease, WorkerEmit, WorkerMarkSucceeded, WorkerMarkFailed, Arrives,
       CreateCharge, BidFindTask, SelectBegin, CompleteFindTask, SweepList, StatementFails, store
  <1>7. ASSUME NEW w \in Worker, NEW e \in CompleteReq, WorkerStart(w, e) PROVE FALSE
    BY <1>7 DEF WorkerStart, store
  <1>8. ASSUME NEW u \in Task, DeadlinePasses(u) PROVE FALSE
    BY <1>8 DEF DeadlinePasses, store
  <1>9. ~Idle
    BY DEF Idle, vars, store
  <1> QED BY <1>1, <1>2, <1>3, <1>4, <1>5, <1>6, <1>7, <1>8, <1>9, <1>10 DEF Next, Continue

\* The provider's answers stay.
LEMMA AnswersKept ==
    ASSUME TypeOK, TypeOK', Frame, NEW b \in BidReq
    PROVE  /\ ReleaseAnswered(b) => ReleaseAnswered(b)'
           /\ ConfiscateAnswered(b) => ConfiscateAnswered(b)'
  <1>1. /\ released[b] \in Nat /\ released'[b] \in Nat
        /\ confiscated[b] \in Nat /\ confiscated'[b] \in Nat
    BY DEF TypeOK
  <1> QED BY <1>1 DEF Frame, ReleaseAnswered, ConfiscateAnswered

\* What the handlers rely on makes the settlement invariant inductive.
LEMMA AnsweredStep ==
    ASSUME TypeOK, TypeOK', HandlerInv, Next, Frame, SettledWasAnswered
    PROVE  SettledWasAnswered'
  <1>1. \A t \in Task, b \in BidReq : b \in BidsOf(t) => b \in BidsOf(t)'
    BY DEF BidsOf, Frame, Saved, TypeOK
  <1>2. ASSUME NEW t \in Task, tasks'[t] = "COMPLETED"
        PROVE  \E b \in BidsOf(t) : ReleaseAnswered(b)
    <2>1. CASE tasks[t] = "COMPLETED"
      BY <2>1 DEF SettledWasAnswered
    <2>2. CASE tasks[t] # "COMPLETED"
      <3>1. PICK p \in Proc : pc[p] \in {"wrk_save", "cmp_completed"} /\ job[p].task = t
        BY <1>2, <2>2, TaskStep
      <3> QED BY <3>1 DEF HandlerInv, HandlerOK, Relies, HasBid, BidsOf, Saved
    <2> QED BY <2>1, <2>2
  <1>3. ASSUME NEW t \in Task, tasks'[t] = "EXPIRED"
        PROVE  \E b \in BidsOf(t) : ConfiscateAnswered(b)
    <2>1. CASE tasks[t] = "EXPIRED"
      BY <2>1 DEF SettledWasAnswered
    <2>2. CASE tasks[t] # "EXPIRED"
      <3>1. PICK p \in Proc : pc[p] = "swp_save" /\ job[p].task = t
        BY <1>3, <2>2, TaskStep
      <3> QED BY <3>1 DEF HandlerInv, HandlerOK, Relies, HasBid, BidsOf, Saved
    <2> QED BY <2>1, <2>2
  <1>4. \A t \in Task : BidsOf(t) \subseteq BidReq
    BY DEF BidsOf
  <1>5. ASSUME NEW t \in Task, tasks'[t] = "COMPLETED"
        PROVE  \E b \in BidsOf(t)' : ReleaseAnswered(b)'
    BY <1>1, <1>2, <1>4, <1>5, AnswersKept
  <1>6. ASSUME NEW t \in Task, tasks'[t] = "EXPIRED"
        PROVE  \E b \in BidsOf(t)' : ConfiscateAnswered(b)'
    BY <1>1, <1>3, <1>4, <1>6, AnswersKept
  <1> QED BY <1>5, <1>6 DEF SettledWasAnswered

\* Who moves the provider's counters.
LEMMA ReleasedStep ==
    ASSUME Next
    PROVE  /\ released' = released \/ \E p \in Proc : CompleteRelease(p) \/ WorkerRelease(p)
           /\ confiscated' = confiscated \/ \E p \in Proc : SweepConfiscate(p)
  <1>1. ASSUME NEW p \in Proc, Arrives(p) \/ StatementFails(p)
        PROVE  UNCHANGED <<released, confiscated>>
    BY <1>1 DEF Arrives, CreateCharge, BidFindTask, SelectBegin, CompleteFindTask, SweepList,
       StatementFails, provider
  <1>2. ASSUME NEW p \in Proc,
               \/ CreateSave(p) \/ CreateEmit(p) \/ BidCreateEscrow(p) \/ BidSave(p) \/ BidEmit(p)
               \/ SelectFindTask(p) \/ SelectFindBids(p) \/ SelectAssign(p)
               \/ SelectSaveWinner(p) \/ SelectRejectNext(p) \/ SelectReturn(p) \/ SelectEmit(p)
        PROVE  UNCHANGED <<released, confiscated>>
    BY <1>2 DEF CreateSave, CreateEmit, BidCreateEscrow, BidSave, BidEmit, SelectFindTask,
       SelectFindBids, SelectAssign, SelectSaveWinner, SelectRejectNext, SelectReturn, SelectEmit,
       provider
  <1>3. ASSUME NEW p \in Proc,
               \/ CompleteFindBid(p) \/ CompleteSave(p) \/ CompleteEmit(p)
               \/ CompleteSaveCompleted(p) \/ SweepFindBid(p) \/ SweepSaveExpired(p)
               \/ SweepEmit(p) \/ SweepReturn(p) \/ WorkerFindTask(p) \/ WorkerFindBid(p)
               \/ WorkerSaveCompleted(p) \/ WorkerEmit(p)
               \/ WorkerMarkSucceeded(p) \/ WorkerMarkFailed(p)
        PROVE  UNCHANGED <<released, confiscated>>
    BY <1>3 DEF CompleteFindBid, CompleteSave, CompleteEmit, CompleteSaveCompleted, SweepFindBid,
       SweepSaveExpired, SweepEmit, SweepReturn, WorkerFindTask, WorkerFindBid,
       WorkerSaveCompleted, WorkerEmit, WorkerMarkSucceeded, WorkerMarkFailed, provider
  <1>4. ASSUME NEW p \in Proc, CompleteRelease(p) \/ WorkerRelease(p) PROVE confiscated' = confiscated
    BY <1>4 DEF CompleteRelease, WorkerRelease, Release
  <1>5. ASSUME NEW p \in Proc, SweepConfiscate(p) PROVE released' = released
    BY <1>5 DEF SweepConfiscate
  <1>6. ASSUME NEW w \in Worker, NEW e \in CompleteReq, WorkerStart(w, e)
        PROVE  UNCHANGED <<released, confiscated>>
    BY <1>6 DEF WorkerStart, provider
  <1>7. ASSUME NEW t \in Task, DeadlinePasses(t) PROVE UNCHANGED <<released, confiscated>>
    BY <1>7 DEF DeadlinePasses, provider
  <1>8. ASSUME NEW D \in SUBSET Executor, Restart(D) PROVE UNCHANGED <<released, confiscated>>
    BY <1>8 DEF Restart, provider
  <1>9. Idle => UNCHANGED <<released, confiscated>>
    BY DEF Idle, vars, provider
  <1> QED
    BY <1>1, <1>2, <1>3, <1>4, <1>5, <1>6, <1>7, <1>8, <1>9 DEF Next, Continue

\* With the outbox, the provider's counters move only for cause.
LEMMA JustifiedStep ==
    ASSUME TypeOK, TypeOK', HandlerInv, UseOutbox, Next, Frame, SettlementJustified
    PROVE  SettlementJustified'
  <1>1. ASSUME NEW b \in BidReq, released'[b] # released[b]
        PROVE  /\ bids[b].status \in {"SELECTED", "REJECTED"}
               /\ \E e \in CompleteReq : completion[e] = bids[b].task
    <2>1. PICK p \in Proc : CompleteRelease(p) \/ WorkerRelease(p)
      <3>1. released' = released \/ \E p \in Proc : CompleteRelease(p) \/ WorkerRelease(p)
        BY ReleasedStep
      <3> QED BY <1>1, <3>1
    <2>2. job[p].win = b /\ pc[p] = "wrk_release"
      <3>1. job[p].win = b
        BY <1>1, <2>1 DEF CompleteRelease, WorkerRelease, Release, TypeOK
      <3>2. pc[p] # "cmp_release"
        BY DEF HandlerInv, HandlerOK, Relies
      <3> QED BY <2>1, <3>1, <3>2 DEF CompleteRelease, WorkerRelease, At
    <2> QED BY <2>2 DEF HandlerInv, HandlerOK, Relies, HasBid, HasChosen, Dispatching, Chosen
  <1>2. ASSUME NEW b \in BidReq, confiscated'[b] # confiscated[b]
        PROVE  bids[b].status \in {"SELECTED", "REJECTED"} /\ bids[b].task \in overdue
    <2>1. PICK p \in Proc : SweepConfiscate(p)
      <3>1. confiscated' = confiscated \/ \E p \in Proc : SweepConfiscate(p)
        BY ReleasedStep
      <3> QED BY <1>2, <3>1
    <2>2. job[p].win = b /\ pc[p] = "swp_confiscate"
      BY <1>2, <2>1 DEF SweepConfiscate, At, TypeOK
    <2> QED BY <2>2 DEF HandlerInv, HandlerOK, Relies, HasBid, HasChosen, Chosen
  <1>3. \A b \in BidReq : bids[b].status \in {"SELECTED", "REJECTED"} =>
          /\ bids'[b].status \in {"SELECTED", "REJECTED"}
          /\ bids'[b].task = bids[b].task
    BY DEF Frame, Saved, Chosen
  <1>4. \A b \in BidReq : /\ bids[b].status \in {"SELECTED", "REJECTED"} => bids[b].task \in Task
    BY DEF TypeOK, BidRow, NoBid
  <1>5. \A e \in CompleteReq, t \in Task : completion[e] = t => completion'[e] = t
    BY ConfigAssumption DEF Frame, Task
  <1>6. ASSUME NEW b \in BidReq, released'[b] > 0
        PROVE  /\ bids'[b].status \in {"SELECTED", "REJECTED"}
               /\ \E e \in CompleteReq : completion'[e] = bids'[b].task
    <2>1. /\ bids[b].status \in {"SELECTED", "REJECTED"}
          /\ \E e \in CompleteReq : completion[e] = bids[b].task
      BY <1>1, <1>6 DEF SettlementJustified
    <2> QED BY <1>3, <1>4, <1>5, <2>1
  <1>7. ASSUME NEW b \in BidReq, confiscated'[b] > 0
        PROVE  bids'[b].status \in {"SELECTED", "REJECTED"} /\ bids'[b].task \in overdue'
    <2>1. bids[b].status \in {"SELECTED", "REJECTED"} /\ bids[b].task \in overdue
      BY <1>2, <1>7 DEF SettlementJustified
    <2> QED BY <1>3, <2>1 DEF Frame
  <1> QED BY <1>6, <1>7 DEF SettlementJustified

-----------------------------------------------------------------------------
(* The inductive invariant and the theorems.                               *)

IndInv ==
    /\ TypeOK /\ HandlerInv /\ OnceInv
    /\ SettledWasAnswered
    /\ UseOutbox => SettlementJustified

\* The initial states satisfy the inductive invariant.
LEMMA InitInv == Init => IndInv
  <1> SUFFICES ASSUME Init PROVE IndInv
    OBVIOUS
  <1>1. TypeOK
    <2>1. job \in [Proc -> Job] /\ pc \in [Proc -> Label]
      BY DEF Init, NoJob, Job, Label
    <2>2. bids \in [BidReq -> BidRow \cup {NoBid}] /\ tasks \in [Task -> TaskStatus \cup {"NONE"}]
      BY DEF Init
    <2> QED BY <2>1, <2>2, ConfigAssumption DEF Init, TypeOK, ConsumptionRow
  <1>2. HandlerInv
    BY DEF Init, HandlerInv, HandlerOK, Relies, HasTask, HasBid, HasChosen, Dispatching, Label
  <1>3. OnceInv
    BY DEF Init, OnceInv, Saved, NoBid
  <1>4. SettledWasAnswered /\ SettlementJustified
    BY DEF Init, SettledWasAnswered, SettlementJustified
  <1> QED BY <1>1, <1>2, <1>3, <1>4 DEF IndInv

\* A worker that takes an event relies on what the event says.
LEMMA StartStep ==
    ASSUME TypeOK, TypeOK', HandlerInv, OnceInv, Frame,
           NEW w \in Worker, NEW e \in CompleteReq, WorkerStart(w, e)
    PROVE  HandlerInv' /\ OnceInv'
  <1>1. w \in Proc /\ w \notin BidReq /\ w \notin CompleteReq
    BY ConfigAssumption DEF Proc
  <1>2. PICK j : j = [NoJob EXCEPT !.event = e, !.task = completion[e]]
    OBVIOUS
  <1>3. Goto(w, "wrk_task") /\ job' = [job EXCEPT ![w] = j]
    BY <1>2 DEF WorkerStart
  <1>4. j.event = e /\ j.task = completion[e] /\ completion[e] \in Task
    BY <1>2 DEF NoJob, WorkerStart, TryStart, TypeOK
  <1>5. Relies("wrk_task", j)
    BY <1>4 DEF Relies, HasTask, HasBid, HasChosen, Dispatching, Label
  <1>6. HandlerOK(w)' /\ Moves(w)
    BY <1>1, <1>3, <1>5, NewJob
  <1>7. HandlerInv'
    BY <1>1, <1>6, OthersKeep DEF HandlerInv, Moves
  <1>8. OnceInv'
    BY <1>1, <1>6 DEF WorkerStart, OnceInv, Saved, Moves, Proc, store
  <1> QED BY <1>7, <1>8

\* A restart leaves no handler that relies on anything.
LEMMA RestartStep ==
    ASSUME IndInv, TypeOK', NEW D \in SUBSET Executor, Restart(D) PROVE IndInv'
  <1> USE DEF IndInv
  <1>1. \A p \in Proc : pc'[p] \in {"idle", "done"}
    BY DEF Restart, Rest, InFlight, TypeOK
  <1>2. HandlerInv'
    BY <1>1 DEF HandlerInv, HandlerOK, Relies, HasTask, HasBid, HasChosen, Dispatching, Label
  <1>3. /\ \A b \in BidReq : pc'[b] = "idle" => pc[b] = "idle"
        /\ \A e \in CompleteReq : pc[e] = "done" => pc'[e] = "done"
    <2>1. /\ \A b \in BidReq : b \in Proc /\ b \notin Worker
          /\ \A e \in CompleteReq : e \in Proc /\ e \notin Worker
      BY ConfigAssumption DEF Proc
    <2> QED BY <2>1 DEF Restart, Rest, InFlight
  <1>4. OnceInv'
    <2>1. completion' = completion /\ (bids' = bids \/ \A b \in BidReq : bids'[b] = NoBid)
      BY DEF Restart, store, queue
    <2>2. \A b \in BidReq : ~Saved(b) => ~Saved(b)'
      BY <2>1 DEF Saved, NoBid
    <2>3. \A b \in BidReq : pc'[b] \in {"idle", "bid_escrow", "bid_save"} => pc[b] = "idle"
      BY <1>1, <1>3 DEF Proc
    <2>4. \A e \in CompleteReq : pc'[e] # "done" => pc[e] # "done"
      BY <1>3
    <2> QED BY <2>1, <2>2, <2>3, <2>4 DEF OnceInv
  <1>5. UNCHANGED <<released, confiscated, refused, completion, overdue>>
    BY DEF Restart, provider, queue
  <1>6. SettledWasAnswered'
    <2>1. CASE UseOutbox
      BY <1>5, <2>1 DEF Restart, store, SettledWasAnswered, ReleaseAnswered, ConfiscateAnswered, BidsOf
    <2>2. CASE ~UseOutbox
      BY <2>2 DEF Restart, SettledWasAnswered
    <2> QED BY <2>1, <2>2
  <1>7. UseOutbox => SettlementJustified'
    BY <1>5 DEF Restart, store, SettlementJustified
  <1> QED BY <1>2, <1>4, <1>6, <1>7

\* Every step keeps the inductive invariant.
LEMMA StepInv == IndInv /\ [Next]_vars => IndInv'
  <1> SUFFICES ASSUME IndInv, [Next]_vars PROVE IndInv'
    OBVIOUS
  <1>1. TypeOK'
    BY TypeStep DEF IndInv
  <1>2. ASSUME NEW D \in SUBSET Executor, Restart(D) PROVE IndInv'
    BY <1>1, <1>2, RestartStep
  <1>3. ASSUME Next, \A D \in SUBSET Executor : ~Restart(D) PROVE IndInv'
    <2>1. Frame
      BY <1>3, FrameStep DEF IndInv
    <2>2. SettledWasAnswered' /\ (UseOutbox => SettlementJustified')
      BY <1>1, <1>3, <2>1, AnsweredStep, JustifiedStep DEF IndInv
    <2>3. ASSUME NEW p \in Proc, Arrives(p) \/ Continue(p) \/ StatementFails(p)
          PROVE  HandlerInv' /\ OnceInv'
      BY <1>1, <2>1, <2>3, HandlerStep, OnceStep DEF IndInv
    <2>4. ASSUME NEW w \in Worker, NEW e \in CompleteReq, WorkerStart(w, e)
          PROVE  HandlerInv' /\ OnceInv'
      BY <1>1, <2>1, <2>4, StartStep DEF IndInv
    <2>5. ASSUME UNCHANGED <<bids, completion, pc, job>> PROVE HandlerInv' /\ OnceInv'
      <3>1. HandlerInv'
        BY <1>1, <2>1, <2>5, OthersKeep DEF IndInv, HandlerInv
      <3> QED BY <2>5, <3>1 DEF IndInv, OnceInv, Saved
    <2>6. ASSUME NEW t \in Task, DeadlinePasses(t) PROVE UNCHANGED <<bids, completion, pc, job>>
      BY <2>6 DEF DeadlinePasses, store, queue
    <2>7. Idle => UNCHANGED <<bids, completion, pc, job>>
      BY DEF Idle, vars, store, queue
    <2> QED BY <1>1, <1>3, <2>2, <2>3, <2>4, <2>5, <2>6, <2>7 DEF Next, IndInv
  <1>4. CASE UNCHANGED vars
    <2>1. HandlerInv'
      BY <1>4 DEF vars, store, provider, queue, env, IndInv, HandlerInv, HandlerOK, Relies, Saved,
         Chosen, ReleaseAnswered, ConfiscateAnswered
    <2>2. SettledWasAnswered'
      BY <1>4 DEF vars, store, provider, IndInv, SettledWasAnswered, ReleaseAnswered,
         ConfiscateAnswered, BidsOf
    <2>3. OnceInv' /\ (UseOutbox => SettlementJustified')
      BY <1>4 DEF vars, store, provider, queue, env, IndInv, OnceInv, Saved, SettlementJustified
    <2> QED BY <1>1, <2>1, <2>2, <2>3 DEF IndInv
  <1> QED BY <1>2, <1>3, <1>4

\* The inductive invariant holds in every reachable state.
THEOREM Invariance == Spec => []IndInv
  BY InitInv, StepInv, PTL DEF Spec

\* The tables, the provider's counters and the handlers keep their types.
THEOREM TypeCorrect == Spec => []TypeOK
  <1>1. IndInv => TypeOK
    BY DEF IndInv
  <1> QED BY Invariance, <1>1, PTL

\* A COMPLETED task has had a release answered by the provider and an EXPIRED
\* one a confiscation, however many handlers overlap, calls throw and processes
\* restart, in both storage modes: SettledWasAnswered.
THEOREM SettledStatusWasAnswered == Spec => []SettledWasAnswered
  <1>1. IndInv => SettledWasAnswered
    BY DEF IndInv
  <1> QED BY Invariance, <1>1, PTL

\* With the outbox, no collateral moves without a completion request for its
\* task, or a missed deadline, and a decision of the auction.
THEOREM CollateralMovesForCause ==
    ASSUME UseOutbox PROVE Spec => []SettlementJustified
  <1>1. IndInv => SettlementJustified
    BY DEF IndInv
  <1> QED BY Invariance, <1>1, PTL

-----------------------------------------------------------------------------
(***************************************************************************)
(* What overlapping handlers cannot do to each other.                      *)
(*                                                                         *)
(* Overlapping runs of selectWinner, each saving its winner and rejecting  *)
(* the losers it read, never leave a task that had a winner without one.   *)
(* The argument: createdAt values being distinct, lower amount then older  *)
(* bid is a strict order.  A run rejects only bids that come after its own *)
(* winner, and it saves that winner first, so some SELECTED bid always     *)
(* comes no later than the winner of any run that is rejecting: Led.  For  *)
(* the same reason whoever is rejected is beaten by a SELECTED bid.        *)
(*                                                                         *)
(* A completion request is lost only by a fault: between the save of       *)
(* COMPLETING and the emit the handler stays at one await, and nothing but *)
(* a failed statement or a restart takes it from there.                    *)
(*                                                                         *)
(* An escrow is released at most once for each attempt tryStart granted:   *)
(* the releases made and the handlers that may still release one never     *)
(* outnumber the attempts granted, BudgetInv, for each handler brings its  *)
(* own attempt and gives it up when it releases.                           *)
(***************************************************************************)

\* The order of the reduce in selectWinner.
Before(b, c) ==
    \/ bids[b].amount < bids[c].amount
    \/ bids[b].amount = bids[c].amount /\ bids[b].createdAt < bids[c].createdAt

Led(t, w) == \E s \in Selected(t) : s = w \/ Before(s, w)

\* createdAt values are distinct, in the table and among those about to be
\* saved.
StampInv ==
    /\ \A b \in BidReq : Saved(b) => bids[b].createdAt < clock
    /\ \A p \in BidReq : pc[p] = "bid_save" => job[p].createdAt < clock
    /\ \A b, c \in BidReq : Saved(b) /\ Saved(c) /\ b # c => bids[b].createdAt # bids[c].createdAt
    /\ \A b, p \in BidReq : Saved(b) /\ pc[p] = "bid_save" =>
                              bids[b].createdAt # job[p].createdAt
    /\ \A p, q \in BidReq : pc[p] = "bid_save" /\ pc[q] = "bid_save" /\ p # q =>
                              job[p].createdAt # job[q].createdAt

Selecting == {"sel_assign", "sel_winner", "sel_reject"}

\* The losers of a run come after its winner, and while it rejects them the
\* task has a winner that comes no later than its own.
WinnerInv ==
    \A p \in Proc :
      /\ pc[p] \in Selecting => \A c \in job[p].rest : Before(job[p].win, c)
      /\ pc[p] = "sel_reject" => Led(job[p].task, job[p].win)

-----------------------------------------------------------------------------
\* A strict order on the saved bids, which no step changes.
LEMMA BeforeOrder ==
    ASSUME TypeOK
    PROVE  /\ \A b \in BidReq : Saved(b) => ~Before(b, b)
           /\ \A b, c, d \in BidReq : Saved(b) /\ Saved(c) /\ Saved(d) =>
                (Before(b, c) /\ Before(c, d) => Before(b, d))
  <1>1. \A b \in BidReq : Saved(b) => bids[b].amount \in Nat /\ bids[b].createdAt \in Nat
    BY DEF TypeOK, BidRow, NoBid, Saved
  <1> QED BY <1>1 DEF Before

\* No step changes which of two saved bids comes before the other.
LEMMA BeforeKept ==
    ASSUME Frame, NEW b \in BidReq, NEW c \in BidReq, Saved(b), Saved(c)
    PROVE  Before(b, c)' <=> Before(b, c)
  BY DEF Frame, Before

\* The rows a step writes.
LEMMA BidsStep ==
    ASSUME IndInv, UseOutbox, Next
    PROVE  \/ bids' = bids
           \/ \E p \in Proc : BidSave(p) \/ SelectSaveWinner(p) \/ SelectRejectNext(p)
  <1>1. ASSUME NEW p \in Proc, Arrives(p) \/ StatementFails(p) PROVE bids' = bids
    BY <1>1 DEF Arrives, CreateCharge, BidFindTask, SelectBegin, CompleteFindTask, SweepList,
       StatementFails, store
  <1>2. ASSUME NEW p \in Proc, ~BidSave(p), ~SelectSaveWinner(p), ~SelectRejectNext(p), Continue(p)
        PROVE  bids' = bids
    BY <1>2 DEF Continue, CreateSave, CreateEmit, BidCreateEscrow, BidEmit, SelectFindTask,
       SelectFindBids, SelectAssign, SelectReturn, SelectEmit, CompleteFindBid, CompleteSave,
       CompleteEmit, CompleteRelease, CompleteSaveCompleted, SweepFindBid, SweepConfiscate,
       SweepSaveExpired, SweepEmit, SweepReturn, WorkerFindTask, WorkerFindBid, WorkerRelease,
       WorkerSaveCompleted, WorkerEmit, WorkerMarkSucceeded, WorkerMarkFailed, store
  <1>3. ASSUME NEW w \in Worker, NEW e \in CompleteReq, WorkerStart(w, e) PROVE bids' = bids
    BY <1>3 DEF WorkerStart, store
  <1>4. ASSUME NEW t \in Task, DeadlinePasses(t) PROVE bids' = bids
    BY <1>4 DEF DeadlinePasses, store
  <1>5. ASSUME NEW D \in SUBSET Executor, Restart(D) PROVE bids' = bids
    BY <1>5 DEF Restart, store
  <1>6. Idle => bids' = bids
    BY DEF Idle, vars, store
  <1> QED BY <1>1, <1>2, <1>3, <1>4, <1>5, <1>6 DEF Next

\* With the outbox a restart takes nothing back either.
LEMMA FrameNext ==
    ASSUME IndInv, UseOutbox, Next PROVE Frame
  <1>1. ASSUME NEW D \in SUBSET Executor, Restart(D) PROVE Frame
    BY <1>1, FrameUnchanged DEF IndInv, Restart, store, provider, queue
  <1> QED BY <1>1, FrameStep DEF IndInv

\* The heart of the argument: a bid that has a SELECTED bid no later than it
\* still has one after any step.
LEMMA LedKeeps ==
    ASSUME IndInv, WinnerInv, UseOutbox, Next,
           NEW t \in Task, NEW w \in BidReq, Saved(w), Led(t, w)
    PROVE  Led(t, w)'
  <1> USE DEF IndInv
  <1>1. Frame
    BY FrameNext
  <1>2. PICK s \in Selected(t) : s = w \/ Before(s, w)
    BY DEF Led
  <1>3. s \in BidReq /\ Saved(s) /\ bids[s].task = t /\ bids[s].status = "SELECTED"
    BY DEF Selected, BidsOf, Saved
  <1>4. ASSUME NEW r \in BidReq, Saved(r), bids[r].task = t, bids'[r].status = "SELECTED",
               r = w \/ Before(r, w)
        PROVE  Led(t, w)'
    <2>1. r \in Selected(t)'
      BY <1>1, <1>4 DEF Frame, Selected, BidsOf
    <2>2. r = w \/ Before(r, w)'
      BY <1>1, <1>4, BeforeKept
    <2> QED BY <2>1, <2>2 DEF Led
  <1>5. CASE bids'[s].status = "SELECTED"
    BY <1>2, <1>3, <1>4, <1>5
  <1>6. CASE bids'[s].status # "SELECTED"
    <2>1. PICK p \in Proc : BidSave(p) \/ SelectSaveWinner(p) \/ SelectRejectNext(p)
      BY <1>3, <1>6, BidsStep
    <2>2. ~BidSave(p)
      BY <1>3, <1>6 DEF BidSave, OnceInv, At, TypeOK
    <2>3. ~SelectSaveWinner(p)
      BY <1>3, <1>6 DEF SelectSaveWinner, SaveBid, TypeOK, BidRow, NoBid, Saved
    <2>4. SelectRejectNext(p) /\ pc[p] = "sel_reject" /\ s \in job[p].rest
      BY <1>3, <1>6, <2>1, <2>2, <2>3 DEF SelectRejectNext, At, SaveBid, TypeOK
    <2>5. /\ job[p].task = t
          /\ job[p].win \in BidReq /\ Saved(job[p].win)
          /\ Before(job[p].win, s)
      BY <1>3, <2>4 DEF HandlerInv, HandlerOK, Relies, HasBid, WinnerInv, Selecting
    <2>6. PICK r \in Selected(t) : r = job[p].win \/ Before(r, job[p].win)
      BY <2>4, <2>5 DEF WinnerInv, Led
    <2>7. r \in BidReq /\ Saved(r) /\ bids[r].task = t /\ bids[r].status = "SELECTED"
      BY DEF Selected, BidsOf, Saved
    <2>8. Before(r, s)
      BY <1>3, <2>5, <2>6, <2>7, BeforeOrder
    <2>9. r # s
      BY <1>3, <2>8, BeforeOrder
    <2>10. bids'[r].status = "SELECTED"
      <3>1. PICK b \in job[p].rest : SaveBid(b, "REJECTED")
        BY <2>4 DEF SelectRejectNext
      <3>2. b = s
        BY <1>3, <1>6, <3>1 DEF SaveBid, TypeOK
      <3> QED BY <2>7, <2>9, <3>1, <3>2 DEF SaveBid, TypeOK
    <2>11. Before(r, w)
      BY <1>2, <1>3, <2>7, <2>8, BeforeOrder
    <2> QED BY <1>4, <2>7, <2>10, <2>11
  <1> QED BY <1>5, <1>6

-----------------------------------------------------------------------------
\* Which steps lead to the awaits StampInv and WinnerInv are about.
LEMMA LabelStep ==
    ASSUME TypeOK, NEW p \in Proc, Arrives(p) \/ Continue(p) \/ StatementFails(p)
    PROVE  /\ pc'[p] = "bid_save" => BidCreateEscrow(p)
           /\ pc'[p] \in Selecting => \/ SelectFindBids(p) \/ SelectAssign(p)
                                      \/ SelectSaveWinner(p) \/ SelectRejectNext(p)
  <1>1. Ends(p) => pc'[p] \in {"idle", "done"}
    BY DEF Ends, Rest, TypeOK
  <1>2. \A l : Goto(p, l) => pc'[p] = l
    BY DEF Goto, TypeOK
  <1>3. SelectFindBids(p) => pc'[p] # "bid_save"
    BY <1>1, <1>2 DEF SelectFindBids
  <1>4. SelectAssign(p) \/ SelectSaveWinner(p) \/ SelectRejectNext(p) => pc'[p] # "bid_save"
    BY <1>2 DEF SelectAssign, SelectSaveWinner, SelectRejectNext, At
  <1>5. BidCreateEscrow(p) => pc'[p] \notin Selecting
    BY <1>1, <1>2 DEF BidCreateEscrow, Selecting
  <1>6. CreateCharge(p) \/ CreateSave(p) \/ CreateEmit(p)
        \/ BidFindTask(p) \/ BidSave(p) \/ BidEmit(p)
          => pc'[p] \notin Selecting \cup {"bid_save"}
    BY <1>1, <1>2 DEF CreateCharge, CreateSave, CreateEmit, BidFindTask, BidSave, BidEmit,
         At, Selecting
  <1>7. SelectBegin(p) \/ SelectFindTask(p) \/ SelectReturn(p)
        \/ SelectEmit(p) \/ CompleteFindTask(p) \/ CompleteFindBid(p)
          => pc'[p] \notin Selecting \cup {"bid_save"}
    BY <1>1, <1>2 DEF SelectBegin, SelectFindTask, SelectReturn, SelectEmit,
         CompleteFindTask, CompleteFindBid, At, Selecting
  <1>8. CompleteSave(p) \/ CompleteEmit(p) \/ CompleteRelease(p)
        \/ CompleteSaveCompleted(p) \/ SweepList(p) \/ SweepFindBid(p)
          => pc'[p] \notin Selecting \cup {"bid_save"}
    BY <1>1, <1>2 DEF CompleteSave, CompleteEmit, CompleteRelease, CompleteSaveCompleted,
         SweepList, SweepFindBid, At, Selecting, Release
  <1>9. SweepConfiscate(p) \/ SweepSaveExpired(p) \/ SweepEmit(p)
        \/ SweepReturn(p) \/ WorkerFindTask(p) \/ WorkerFindBid(p)
          => pc'[p] \notin Selecting \cup {"bid_save"}
    BY <1>1, <1>2 DEF SweepConfiscate, SweepSaveExpired, SweepEmit, SweepReturn,
         WorkerFindTask, WorkerFindBid, At, Selecting
  <1>10. WorkerRelease(p) \/ WorkerSaveCompleted(p) \/ WorkerEmit(p)
        \/ WorkerMarkSucceeded(p) \/ WorkerMarkFailed(p) \/ StatementFails(p)
          => pc'[p] \notin Selecting \cup {"bid_save"}
    BY <1>1, <1>2 DEF WorkerRelease, WorkerSaveCompleted, WorkerEmit, WorkerMarkSucceeded,
         WorkerMarkFailed, StatementFails, At, Selecting, Release
  <1> QED BY <1>3, <1>4, <1>5, <1>6, <1>7, <1>8, <1>9, <1>10 DEF Arrives, Continue

\* A row appears only when its bid is saved, and the clock moves only when a
\* bid is stamped.
LEMMA SavedStep ==
    ASSUME IndInv, UseOutbox, Next
    PROVE  \A b \in BidReq : Saved(b)' => Saved(b) \/ BidSave(b)
  <1> USE DEF IndInv
  <1>1. ASSUME NEW p \in Proc, BidSave(p), NEW b \in BidReq, Saved(b)' PROVE Saved(b) \/ BidSave(b)
    BY <1>1 DEF BidSave, TypeOK, Saved
  <1>2. ASSUME NEW p \in Proc, SelectSaveWinner(p), NEW b \in BidReq, Saved(b)' PROVE Saved(b)
    BY <1>2, BidFacts DEF SelectSaveWinner, SaveBid, At, HasBid, TypeOK, Saved
  <1>3. ASSUME NEW p \in Proc, SelectRejectNext(p), NEW b \in BidReq, Saved(b)' PROVE Saved(b)
    BY <1>3, RestFacts DEF SelectRejectNext, SaveBid, At, TypeOK, Saved
  <1>4. ASSUME bids' = bids, NEW b \in BidReq, Saved(b)' PROVE Saved(b)
    BY <1>4 DEF Saved
  <1> QED BY <1>1, <1>2, <1>3, <1>4, BidsStep

\* Only the stamping of a bid moves the clock.
LEMMA ClockStep ==
    ASSUME Next PROVE clock' = clock \/ \E p \in Proc : BidCreateEscrow(p)
  <1>1. ASSUME NEW p \in Proc, Arrives(p) \/ StatementFails(p) PROVE clock' = clock
    BY <1>1 DEF Arrives, CreateCharge, BidFindTask, SelectBegin, CompleteFindTask, SweepList,
       StatementFails, env
  <1>2. ASSUME NEW p \in Proc, ~BidCreateEscrow(p), Continue(p) PROVE clock' = clock
    BY <1>2 DEF Continue, CreateSave, CreateEmit, BidSave, BidEmit, SelectFindTask,
       SelectFindBids, SelectAssign, SelectSaveWinner, SelectRejectNext, SelectReturn, SelectEmit,
       CompleteFindBid, CompleteSave, CompleteEmit, CompleteRelease, CompleteSaveCompleted,
       SweepFindBid, SweepConfiscate, SweepSaveExpired, SweepEmit, SweepReturn, WorkerFindTask,
       WorkerFindBid, WorkerRelease, WorkerSaveCompleted, WorkerEmit, WorkerMarkSucceeded,
       WorkerMarkFailed, env
  <1>3. ASSUME NEW w \in Worker, NEW e \in CompleteReq, WorkerStart(w, e) PROVE clock' = clock
    BY <1>3 DEF WorkerStart, env
  <1>4. ASSUME NEW t \in Task, DeadlinePasses(t) PROVE clock' = clock
    BY <1>4 DEF DeadlinePasses
  <1>5. ASSUME NEW D \in SUBSET Executor, Restart(D) PROVE clock' = clock
    BY <1>5 DEF Restart
  <1>6. Idle => clock' = clock
    BY DEF Idle, vars, env
  <1> QED BY <1>1, <1>2, <1>3, <1>4, <1>5, <1>6 DEF Next

\* A step moves one handler, ends all of them, or moves none.
LEMMA MovesStep ==
    ASSUME IndInv, IndInv', UseOutbox, Next
    PROVE  \/ \E p \in Proc : Moves(p) /\ (Arrives(p) \/ Continue(p) \/ StatementFails(p))
           \/ \E w \in Worker : w \in Proc /\ w \notin BidReq /\ Moves(w) /\ pc'[w] = "wrk_task"
           \/ \A p \in Proc : pc'[p] \in {"idle", "done"}
           \/ UNCHANGED <<pc, job>>
  <1>1. ASSUME NEW p \in Proc, Arrives(p) \/ Continue(p) \/ StatementFails(p) PROVE Moves(p)
    BY <1>1, FrameNext, HandlerStep DEF IndInv
  <1>2. ASSUME NEW w \in Worker, NEW e \in CompleteReq, WorkerStart(w, e)
        PROVE  w \in Proc /\ w \notin BidReq /\ Moves(w) /\ pc'[w] = "wrk_task"
    <2>1. w \in Proc /\ w \notin BidReq
      BY ConfigAssumption DEF Proc
    <2> QED BY <1>2, <2>1 DEF WorkerStart, Goto, Moves, IndInv, TypeOK
  <1>3. ASSUME NEW D \in SUBSET Executor, Restart(D) PROVE \A p \in Proc : pc'[p] \in {"idle", "done"}
    BY <1>3 DEF Restart, Rest, InFlight
  <1>4. ASSUME NEW t \in Task, DeadlinePasses(t) PROVE UNCHANGED <<pc, job>>
    BY <1>4 DEF DeadlinePasses
  <1>5. Idle => UNCHANGED <<pc, job>>
    BY DEF Idle, vars
  <1> QED BY <1>1, <1>2, <1>3, <1>4, <1>5 DEF Next

\* createdAt values stay distinct.
LEMMA StampStep ==
    ASSUME IndInv, IndInv', StampInv, UseOutbox, ~SameMillisecond, Next PROVE StampInv'
  <1> USE DEF IndInv
  <1>1. Frame
    BY FrameNext
  <1>2. clock \in Nat /\ \A b \in BidReq : Saved(b) => bids'[b].createdAt = bids[b].createdAt
    BY <1>1 DEF Frame, TypeOK
  <1>3. BidReq \subseteq Proc
    BY DEF Proc
  <1>4. ASSUME NEW p \in Proc, BidSave(p) PROVE StampInv'
    <2>1. /\ p \in BidReq /\ pc[p] = "bid_save" /\ ~Saved(p)
          /\ bids'[p].createdAt = job[p].createdAt /\ pc'[p] = "bid_emit"
          /\ clock' = clock /\ job' = job
          /\ \A q \in BidReq \ {p} : pc'[q] = pc[q] /\ bids'[q] = bids[q]
      BY <1>3, <1>4 DEF BidSave, At, Goto, TypeOK, OnceInv, env
    <2>2. \A b \in BidReq \ {p} : Saved(b)' <=> Saved(b)
      BY <2>1 DEF Saved
    <2> QED BY <1>2, <2>1, <2>2 DEF StampInv
  <1>5. ASSUME NEW p \in Proc, BidCreateEscrow(p) PROVE StampInv'
    <2>1. p \in BidReq /\ bids' = bids /\ clock' \in {clock, clock + 1}
      BY <1>5 DEF BidCreateEscrow, store
    <2>2. \A q \in BidReq \ {p} : pc'[q] = pc[q] /\ job'[q] = job[q]
      BY <1>3, <1>5 DEF BidCreateEscrow, Goto, Ends, TypeOK
    <2>3. pc'[p] = "bid_save" => job'[p].createdAt = clock /\ clock' = clock + 1
      <3>1. CASE Ends(p)
        BY <3>1 DEF Ends, Rest, TypeOK
      <3>2. CASE ~Ends(p)
        BY <1>5, <3>2 DEF BidCreateEscrow, TypeOK, Job
      <3> QED BY <3>1, <3>2
    <2>4. \A b \in BidReq : Saved(b)' <=> Saved(b)
      BY <2>1 DEF Saved
    <2>5. /\ \A b \in BidReq : Saved(b) => bids[b].createdAt \in Nat
          /\ \A q \in BidReq : job[q].createdAt \in Nat
      BY <1>3 DEF TypeOK, BidRow, NoBid, Saved, Job
    <2> QED BY <1>2, <2>1, <2>2, <2>3, <2>4, <2>5 DEF StampInv
  <1>6. ASSUME \A p \in Proc : ~BidSave(p) /\ ~BidCreateEscrow(p) PROVE StampInv'
    <2>1. clock' = clock /\ \A b \in BidReq : Saved(b)' => Saved(b)
      BY <1>3, <1>6, ClockStep, SavedStep
    <2>2. \A q \in BidReq : pc'[q] = "bid_save" =>
            pc[q] = "bid_save" /\ job'[q].createdAt = job[q].createdAt
      BY <1>3, <1>6, MovesStep, LabelStep DEF Moves
    <2> QED BY <1>2, <2>1, <2>2 DEF StampInv
  <1> QED BY <1>4, <1>5, <1>6

\* A run of selectWinner keeps what WinnerInv says of it.
LEMMA WinnerKeeps ==
    ASSUME IndInv, WinnerInv, UseOutbox, Next, NEW p \in Proc, NEW j, j = job[p]
    PROVE  /\ pc[p] \in Selecting => \A c \in j.rest : Before(j.win, c)'
           /\ pc[p] = "sel_reject" => Led(j.task, j.win)'
  <1>1. pc[p] \in Selecting =>
          /\ j.win \in BidReq /\ Saved(j.win) /\ j.task \in Task
          /\ \A c \in j.rest : c \in BidReq /\ Saved(c)
    BY DEF IndInv, HandlerInv, HandlerOK, Relies, HasBid, HasTask, Label, Selecting
  <1>2. Frame
    BY FrameNext
  <1>3. pc[p] \in Selecting => \A c \in j.rest : Before(j.win, c)'
    BY <1>1, <1>2, BeforeKept DEF WinnerInv
  <1>4. pc[p] = "sel_reject" => Led(j.task, j.win)'
    BY <1>1, LedKeeps DEF WinnerInv, Selecting
  <1> QED BY <1>3, <1>4

\* Every step keeps WinnerInv.
LEMMA WinnerStep ==
    ASSUME IndInv, IndInv', StampInv, WinnerInv, UseOutbox, Next PROVE WinnerInv'
  <1> USE DEF IndInv
  <1> DEFINE WinnerOK(p) == /\ pc[p] \in Selecting => \A c \in job[p].rest : Before(job[p].win, c)
                            /\ pc[p] = "sel_reject" => Led(job[p].task, job[p].win)
  <1>1. ASSUME NEW q \in Proc, pc'[q] = pc[q], job'[q] = job[q] PROVE WinnerOK(q)'
    <2>1. PICK j : j = job[q]
      OBVIOUS
    <2> QED BY <1>1, <2>1, WinnerKeeps
  <1>2. ASSUME NEW p \in Proc, pc'[p] \notin Selecting PROVE WinnerOK(p)'
    BY <1>2 DEF Selecting
  <1>3. ASSUME NEW p \in Proc, SelectFindBids(p) PROVE WinnerOK(p)'
    <2>1. CASE Ends(p)
      BY <1>2, <2>1 DEF Ends, Rest, TypeOK, Selecting
    <2>2. CASE ~Ends(p)
      <3>1. PICK w \in Pending(job[p].task) :
              /\ IsLowest(w, Pending(job[p].task))
              /\ job' = [job EXCEPT ![p].win = w, ![p].rest = Pending(job[p].task) \ {w}]
              /\ Goto(p, "sel_assign")
        BY <1>3, <2>2 DEF SelectFindBids
      <3>2. /\ pc'[p] = "sel_assign" /\ job'[p].win = w
            /\ job'[p].rest = Pending(job[p].task) \ {w}
        BY <3>1 DEF Goto, TypeOK, Job
      <3>3. \A c \in Pending(job[p].task) : c \in BidReq /\ Saved(c)
        BY DEF Pending, BidsOf, Saved
      <3>4. \A c \in BidReq : Saved(c) => bids[c].amount \in Nat /\ bids[c].createdAt \in Nat
        BY DEF TypeOK, BidRow, NoBid, Saved
      <3>5. \A c \in Pending(job[p].task) \ {w} : Before(w, c)
        BY <3>1, <3>3, <3>4 DEF IsLowest, StampInv, Before
      <3>6. bids' = bids
        BY <1>3 DEF SelectFindBids, store
      <3> QED BY <3>2, <3>5, <3>6 DEF Before, Selecting
    <2> QED BY <2>1, <2>2
  <1>4. ASSUME NEW p \in Proc, SelectAssign(p) PROVE WinnerOK(p)'
    <2>1. pc[p] = "sel_assign" /\ pc'[p] = "sel_winner" /\ job' = job
      BY <1>4 DEF SelectAssign, At, Goto, TypeOK
    <2>2. PICK j : j = job[p]
      OBVIOUS
    <2> QED BY <2>1, <2>2, WinnerKeeps DEF Selecting
  <1>5. ASSUME NEW p \in Proc, SelectSaveWinner(p) PROVE WinnerOK(p)'
    <2>1. pc[p] = "sel_winner" /\ pc'[p] = "sel_reject" /\ job' = job
      BY <1>5 DEF SelectSaveWinner, At, Goto, TypeOK
    <2>2. PICK j : j = job[p]
      OBVIOUS
    <2>3. j.win \in BidReq /\ Saved(j.win) /\ bids[j.win].task = j.task
      BY <2>1, <2>2 DEF HandlerInv, HandlerOK, Relies, HasBid
    <2>4. bids'[j.win].status = "SELECTED" /\ bids'[j.win].task = j.task
      BY <1>5, <2>2, <2>3 DEF SelectSaveWinner, SaveBid, TypeOK, BidRow, NoBid, Saved
    <2>5. Led(j.task, j.win)'
      BY <2>3, <2>4 DEF Led, Selected, BidsOf
    <2> QED BY <2>1, <2>2, <2>5, WinnerKeeps DEF Selecting
  <1>6. ASSUME NEW p \in Proc, SelectRejectNext(p) PROVE WinnerOK(p)'
    <2>1. PICK b \in job[p].rest : job' = [job EXCEPT ![p].rest = job[p].rest \ {b}]
      BY <1>6 DEF SelectRejectNext, TypeOK
    <2>2. PICK j : j = job[p]
      OBVIOUS
    <2>3. /\ pc[p] = "sel_reject" /\ pc'[p] = "sel_reject"
          /\ job'[p].win = j.win /\ job'[p].task = j.task /\ job'[p].rest \subseteq j.rest
      BY <1>6, <2>1, <2>2 DEF SelectRejectNext, At, TypeOK, Job
    <2> QED BY <2>2, <2>3, WinnerKeeps DEF Selecting
  <1>7. ASSUME NEW p \in Proc, Arrives(p) \/ Continue(p) \/ StatementFails(p) PROVE WinnerOK(p)'
    BY <1>2, <1>3, <1>4, <1>5, <1>6, <1>7, LabelStep
  <1>8. ASSUME NEW q \in Proc PROVE WinnerOK(q)'
    <2>1. CASE \A p \in Proc : pc'[p] \in {"idle", "done"}
      BY <1>2, <2>1 DEF Selecting
    <2>2. CASE UNCHANGED <<pc, job>>
      BY <1>1, <2>2
    <2>3. ASSUME NEW p \in Proc, Moves(p), Arrives(p) \/ Continue(p) \/ StatementFails(p)
          PROVE  WinnerOK(q)'
      BY <1>1, <1>7, <2>3 DEF Moves
    <2>4. ASSUME NEW w \in Proc, Moves(w), pc'[w] = "wrk_task" PROVE WinnerOK(q)'
      BY <1>1, <1>2, <2>4 DEF Moves, Selecting
    <2> QED BY <2>1, <2>2, <2>3, <2>4, MovesStep
  <1> QED BY <1>8 DEF WinnerInv

-----------------------------------------------------------------------------
AuctionInv == IndInv /\ StampInv /\ WinnerInv

\* The auction invariant holds in every reachable state.
THEOREM AuctionInvariance ==
    ASSUME UseOutbox, ~SameMillisecond PROVE Spec => []AuctionInv
  <1>1. Init => AuctionInv
    BY InitInv DEF AuctionInv, Init, StampInv, WinnerInv, Saved, NoBid, Selecting, Proc
  <1>2. AuctionInv /\ [Next]_vars => AuctionInv'
    <2> SUFFICES ASSUME AuctionInv, [Next]_vars PROVE AuctionInv'
      OBVIOUS
    <2>1. IndInv'
      BY StepInv DEF AuctionInv
    <2>2. CASE Next
      BY <2>1, <2>2, StampStep, WinnerStep DEF AuctionInv
    <2>3. CASE UNCHANGED vars
      BY <2>1, <2>3 DEF AuctionInv, StampInv, WinnerInv, Saved, Before, Led, Selected, BidsOf, vars,
         store, env
    <2> QED BY <2>2, <2>3
  <1> QED BY <1>1, <1>2, PTL DEF Spec

\* With distinct createdAt values, a task that has a SELECTED bid keeps one,
\* whatever runs of selectWinner overlap on it.
THEOREM WinnerSurvives ==
    ASSUME UseOutbox, ~SameMillisecond PROVE Spec => SelectedSurvives
  <1>1. AuctionInv /\ [Next]_vars =>
          [\A t \in Task : Selected(t) # {} => (Selected(t))' # {}]_vars
    <2> SUFFICES ASSUME AuctionInv, Next, NEW t \in Task, Selected(t) # {}
                 PROVE  (Selected(t))' # {}
      OBVIOUS
    <2>1. PICK s \in BidReq : s \in Selected(t) /\ Saved(s)
      BY DEF Selected, BidsOf, Saved
    <2>2. Led(t, s)
      BY <2>1 DEF Led
    <2>3. Led(t, s)'
      BY <2>1, <2>2, LedKeeps DEF AuctionInv
    <2> QED BY <2>3 DEF Led
  <1> QED BY <1>1, AuctionInvariance, PTL DEF Spec, SelectedSurvives

\* A bid whose row is written as REJECTED was among the losers of a run.
LEMMA RejectedStep ==
    ASSUME IndInv, UseOutbox, Next, NEW b \in BidReq,
           bids[b].status # "REJECTED", bids'[b].status = "REJECTED"
    PROVE  \E p \in Proc : pc[p] = "sel_reject" /\ b \in job[p].rest
  <1> USE DEF IndInv
  <1>1. ASSUME NEW p \in Proc, BidSave(p) PROVE FALSE
    BY <1>1 DEF BidSave, TypeOK
  <1>2. ASSUME NEW p \in Proc, SelectSaveWinner(p) PROVE FALSE
    <2>1. job[p].win \in BidReq /\ Saved(job[p].win)
      BY <1>2, BidFacts DEF SelectSaveWinner, At, HasBid
    <2> QED BY <1>2, <2>1 DEF SelectSaveWinner, SaveBid, TypeOK, BidRow, NoBid, Saved
  <1>3. ASSUME NEW p \in Proc, SelectRejectNext(p) PROVE pc[p] = "sel_reject" /\ b \in job[p].rest
    BY <1>3 DEF SelectRejectNext, At, SaveBid, TypeOK
  <1> QED BY <1>1, <1>2, <1>3, BidsStep

\* Every step keeps LosersAreBeaten.
LEMMA LosersStep ==
    ASSUME IndInv, IndInv', WinnerInv, LosersAreBeaten, UseOutbox, Next PROVE LosersAreBeaten'
  <1> SUFFICES ASSUME NEW b \in BidReq, bids'[b].status = "REJECTED"
               PROVE  \E c \in Selected(bids[b].task)' :
                        \/ bids'[c].amount < bids'[b].amount
                        \/ bids'[c].amount = bids'[b].amount /\ bids'[c].createdAt < bids'[b].createdAt
    BY DEF LosersAreBeaten
  <1>1. Saved(b) /\ bids[b].task \in Task /\ Led(bids[b].task, b)
    <2>1. CASE bids[b].status = "REJECTED"
      BY <2>1 DEF LosersAreBeaten, Led, Before, Saved, IndInv, TypeOK, BidRow, NoBid
    <2>2. CASE bids[b].status # "REJECTED"
      <3>1. PICK p \in Proc : pc[p] = "sel_reject" /\ b \in job[p].rest
        BY <2>2, RejectedStep
      <3>2. /\ Saved(b) /\ bids[b].task = job[p].task /\ job[p].task \in Task
            /\ job[p].win \in BidReq /\ Saved(job[p].win)
        BY <3>1 DEF IndInv, HandlerInv, HandlerOK, Relies, HasBid, HasTask, Label
      <3>3. Before(job[p].win, b) /\ Led(job[p].task, job[p].win)
        BY <3>1 DEF WinnerInv, Selecting
      <3>4. PICK s \in Selected(job[p].task) : s = job[p].win \/ Before(s, job[p].win)
        BY <3>3 DEF Led
      <3>5. s \in BidReq /\ Saved(s)
        BY DEF Selected, BidsOf, Saved
      <3>6. Before(s, b)
        BY <3>2, <3>3, <3>4, <3>5, BeforeOrder DEF IndInv
      <3> QED BY <3>2, <3>4, <3>6 DEF Led
    <2> QED BY <2>1, <2>2
  <1>2. Led(bids[b].task, b)'
    <2>1. PICK t \in Task : t = bids[b].task
      BY <1>1
    <2>2. Led(t, b)'
      BY <1>1, <2>1, LedKeeps
    <2>3. bids'[b].task = t
      BY <1>1, <2>1, FrameNext DEF Frame
    <2> QED BY <2>2, <2>3
  <1>3. PICK s \in Selected(bids[b].task)' : s = b \/ Before(s, b)'
    BY <1>2 DEF Led
  <1>4. s # b
    BY DEF Selected
  <1> QED BY <1>3, <1>4 DEF Before

\* With distinct createdAt values, whoever is REJECTED was beaten: a SELECTED
\* bid of the task is lower, or as low and older, whatever runs of
\* selectWinner overlap, stop half way or are cut off: LosersAreBeaten.
THEOREM LosersTheorem ==
    ASSUME UseOutbox, ~SameMillisecond PROVE Spec => []LosersAreBeaten
  <1>1. Init => LosersAreBeaten
    BY DEF Init, LosersAreBeaten, NoBid
  <1>2. AuctionInv /\ AuctionInv' /\ LosersAreBeaten /\ [Next]_vars => LosersAreBeaten'
    <2>1. ASSUME AuctionInv, AuctionInv', LosersAreBeaten, Next PROVE LosersAreBeaten'
      BY <2>1, LosersStep DEF AuctionInv
    <2>2. ASSUME LosersAreBeaten, UNCHANGED vars PROVE LosersAreBeaten'
      BY <2>2 DEF LosersAreBeaten, Selected, BidsOf, vars, store
    <2> QED BY <2>1, <2>2
  <1> QED BY <1>1, <1>2, AuctionInvariance, PTL DEF Spec

-----------------------------------------------------------------------------
(* A completion request is never lost without a fault.                     *)

\* The awaits of complete up to the emit of the request.
Completing == {"cmp_bid", "cmp_save", "cmp_emit"}

\* Only a completion request runs complete.
CompleterInv == \A p \in Proc : pc[p] \in Completing => p \in CompleteReq

\* Which steps lead to the awaits CompleterInv is about, and which one leaves
\* the last of them.
LEMMA CompleterLabels ==
    ASSUME TypeOK, NEW p \in Proc, Arrives(p) \/ Continue(p) \/ StatementFails(p)
    PROVE  /\ pc'[p] \in Completing => \/ CompleteFindTask(p) \/ CompleteFindBid(p)
                                       \/ CompleteSave(p)
           /\ pc[p] = "cmp_emit" => CompleteEmit(p) \/ StatementFails(p)
  <1>1. Ends(p) => pc'[p] \in {"idle", "done"}
    BY DEF Ends, Rest, TypeOK
  <1>2. \A l : Goto(p, l) => pc'[p] = l
    BY DEF Goto, TypeOK
  <1>3. CompleteFindTask(p) \/ CompleteFindBid(p) \/ CompleteSave(p) => pc[p] # "cmp_emit"
    BY DEF CompleteFindTask, CompleteFindBid, CompleteSave, Begins, At
  <1>4. CreateCharge(p) \/ CreateSave(p) \/ CreateEmit(p)
        \/ BidFindTask(p) \/ BidCreateEscrow(p) \/ BidSave(p) \/ BidEmit(p)
          => pc'[p] \notin Completing /\ pc[p] # "cmp_emit"
    BY <1>1, <1>2 DEF CreateCharge, CreateSave, CreateEmit, BidFindTask, BidCreateEscrow, BidSave,
         BidEmit, At, Begins, Completing
  <1>5. SelectBegin(p) \/ SelectFindTask(p) \/ SelectFindBids(p) \/ SelectAssign(p)
        \/ SelectSaveWinner(p) \/ SelectRejectNext(p) \/ SelectReturn(p) \/ SelectEmit(p)
          => pc'[p] \notin Completing /\ pc[p] # "cmp_emit"
    BY <1>1, <1>2 DEF SelectBegin, SelectFindTask, SelectFindBids, SelectAssign, SelectSaveWinner,
         SelectRejectNext, SelectReturn, SelectEmit, At, Begins, Completing
  <1>6. CompleteRelease(p) \/ CompleteSaveCompleted(p) \/ SweepList(p) \/ SweepFindBid(p)
          => pc'[p] \notin Completing /\ pc[p] # "cmp_emit"
    BY <1>1, <1>2 DEF CompleteRelease, CompleteSaveCompleted, SweepList, SweepFindBid, At, Begins,
         Completing, Release
  <1>7. SweepConfiscate(p) \/ SweepSaveExpired(p) \/ SweepEmit(p)
        \/ SweepReturn(p) \/ WorkerFindTask(p) \/ WorkerFindBid(p)
          => pc'[p] \notin Completing /\ pc[p] # "cmp_emit"
    BY <1>1, <1>2 DEF SweepConfiscate, SweepSaveExpired, SweepEmit, SweepReturn,
         WorkerFindTask, WorkerFindBid, At, Completing
  <1>8. WorkerRelease(p) \/ WorkerSaveCompleted(p) \/ WorkerEmit(p)
        \/ WorkerMarkSucceeded(p) \/ WorkerMarkFailed(p)
          => pc'[p] \notin Completing /\ pc[p] # "cmp_emit"
    BY <1>1, <1>2 DEF WorkerRelease, WorkerSaveCompleted, WorkerEmit, WorkerMarkSucceeded,
         WorkerMarkFailed, At, Completing, Release
  <1>9. CompleteEmit(p) \/ StatementFails(p) => pc'[p] \notin Completing
    BY <1>1, <1>2 DEF CompleteEmit, StatementFails, Completing
  <1> QED BY <1>3, <1>4, <1>5, <1>6, <1>7, <1>8, <1>9 DEF Arrives, Continue

\* Failures are counted and never forgotten.
LEMMA FaultsStep ==
    ASSUME TypeOK, Next
    PROVE  /\ faults' >= faults
           /\ \A p \in Proc : StatementFails(p) => faults' > 0
           /\ \A D \in SUBSET Executor : Restart(D) => faults' > 0
  <1>1. faults \in Nat
    BY ConfigAssumption DEF TypeOK
  <1>2. ASSUME NEW p \in Proc, Arrives(p) PROVE faults' = faults
    BY <1>2 DEF Arrives, CreateCharge, BidFindTask, SelectBegin, CompleteFindTask, SweepList, env
  <1>3. ASSUME NEW p \in Proc, Continue(p) PROVE faults' = faults \/ faults' = faults + 1
    BY <1>3 DEF Continue, CreateSave, CreateEmit, BidCreateEscrow, BidSave, BidEmit, SelectFindTask,
       SelectFindBids, SelectAssign, SelectSaveWinner, SelectRejectNext, SelectReturn, SelectEmit,
       CompleteFindBid, CompleteSave, CompleteEmit, CompleteRelease, CompleteSaveCompleted,
       SweepFindBid, SweepConfiscate, SweepSaveExpired, SweepEmit, SweepReturn, WorkerFindTask,
       WorkerFindBid, WorkerRelease, WorkerSaveCompleted, WorkerEmit, WorkerMarkSucceeded,
       WorkerMarkFailed, env
  <1>4. ASSUME NEW w \in Worker, NEW e \in CompleteReq, WorkerStart(w, e) PROVE faults' = faults
    BY <1>4 DEF WorkerStart, env
  <1>5. ASSUME NEW t \in Task, DeadlinePasses(t) PROVE faults' = faults
    BY <1>5 DEF DeadlinePasses
  <1>6. \A p \in Proc : StatementFails(p) => faults' = faults + 1
    BY DEF StatementFails
  <1>7. \A D \in SUBSET Executor : Restart(D) => faults' = faults + 1
    BY DEF Restart
  <1>8. Idle => faults' = faults
    BY DEF Idle, vars, env
  <1>9. faults' = faults \/ faults' = faults + 1
    BY <1>2, <1>3, <1>4, <1>5, <1>6, <1>7, <1>8 DEF Next
  <1> QED BY <1>1, <1>6, <1>7, <1>9

\* Who moves in a step that is not a restart.
LEMMA MovesNext ==
    ASSUME IndInv, IndInv', Frame, Next
    PROVE  \/ \E p \in Proc : Moves(p) /\ (Arrives(p) \/ Continue(p) \/ StatementFails(p))
           \/ \E w \in Worker, e \in CompleteReq :
                /\ w \in Proc /\ Moves(w) /\ pc[w] = "idle" /\ pc'[w] = "wrk_task"
                /\ WorkerStart(w, e)
           \/ \E D \in SUBSET Executor : Restart(D)
           \/ UNCHANGED <<pc, job>>
  <1>1. ASSUME NEW p \in Proc, Arrives(p) \/ Continue(p) \/ StatementFails(p) PROVE Moves(p)
    BY <1>1, HandlerStep DEF IndInv
  <1>2. ASSUME NEW w \in Worker, NEW e \in CompleteReq, WorkerStart(w, e)
        PROVE  w \in Proc /\ Moves(w) /\ pc[w] = "idle" /\ pc'[w] = "wrk_task"
    <2>1. w \in Proc
      BY DEF Proc
    <2> QED BY <1>2, <2>1 DEF WorkerStart, Goto, Moves, Begins, IndInv, TypeOK
  <1>4. ASSUME NEW t \in Task, DeadlinePasses(t) PROVE UNCHANGED <<pc, job>>
    BY <1>4 DEF DeadlinePasses
  <1>5. Idle => UNCHANGED <<pc, job>>
    BY DEF Idle, vars
  <1> QED BY <1>1, <1>2, <1>4, <1>5 DEF Next

\* Every step keeps CompleterInv.
LEMMA CompleterStep ==
    ASSUME IndInv, IndInv', CompleterInv, Next PROVE CompleterInv'
  <1>1. ASSUME NEW D \in SUBSET Executor, Restart(D) PROVE CompleterInv'
    <2>1. \A p \in Proc : pc'[p] \in {"idle", "done"}
      BY <1>1 DEF Restart, Rest, InFlight
    <2> QED BY <2>1 DEF CompleterInv, Completing
  <1>2. ASSUME \A D \in SUBSET Executor : ~Restart(D) PROVE CompleterInv'
    <2>1. Frame
      BY <1>2, FrameStep DEF IndInv
    <2>2. ASSUME NEW p \in Proc, Arrives(p) \/ Continue(p) \/ StatementFails(p), pc'[p] \in Completing
          PROVE  p \in CompleteReq
      <3>1. CompleteFindTask(p) \/ CompleteFindBid(p) \/ CompleteSave(p)
        BY <2>2, CompleterLabels DEF IndInv
      <3>2. CompleteFindTask(p) => p \in CompleteReq
        BY DEF CompleteFindTask
      <3>3. CompleteFindBid(p) \/ CompleteSave(p) => pc[p] \in Completing
        BY DEF CompleteFindBid, CompleteSave, At, Completing
      <3> QED BY <3>1, <3>2, <3>3 DEF CompleterInv
    <2>3. "wrk_task" \notin Completing
      BY DEF Completing
    <2>4. UNCHANGED <<pc, job>> => CompleterInv'
      BY DEF CompleterInv
    <2> QED BY <1>2, <2>1, <2>2, <2>3, <2>4, MovesNext DEF CompleterInv, Moves
  <1> QED BY <1>1, <1>2

\* A step loses a completion request only if it is a fault.
LEMMA RequestStep ==
    ASSUME IndInv, IndInv', CompleterInv, CompletionNeverLost \/ faults > 0, Next
    PROVE  CompletionNeverLost' \/ faults' > 0
  <1>1. CASE faults' > 0
    BY <1>1
  <1>2. ASSUME ~(faults' > 0), NEW t \in Task, tasks'[t] = "COMPLETING"
        PROVE  \/ \E e \in CompleteReq : completion'[e] = t
               \/ \E p \in CompleteReq : pc'[p] = "cmp_emit" /\ job'[p].task = t
    <2>1. /\ ~(faults > 0)
          /\ \A p \in Proc : ~StatementFails(p)
          /\ \A D \in SUBSET Executor : ~Restart(D)
      <3>1. faults \in Nat /\ faults' \in Nat
        BY ConfigAssumption DEF IndInv, TypeOK
      <3> QED BY <1>2, <3>1, FaultsStep DEF IndInv
    <2>2. Frame
      BY <2>1, FrameStep DEF IndInv
    <2>3. t # None /\ CompleteReq \subseteq Proc
      BY ConfigAssumption DEF Task, Proc
    <2>4. CASE tasks[t] # "COMPLETING"
      <3>1. PICK p \in Proc : CompleteSave(p) /\ job[p].task = t
        BY <1>2, <2>4, TaskStep DEF IndInv
      <3>2. p \in CompleteReq
        BY <3>1 DEF CompleteSave, At, CompleterInv, Completing
      <3>3. pc'[p] = "cmp_emit" /\ job'[p].task = t
        BY <3>1 DEF CompleteSave, Goto, IndInv, TypeOK
      <3> QED BY <3>2, <3>3
    <2>5. ASSUME NEW e \in CompleteReq, completion[e] = t PROVE completion'[e] = t
      BY <2>2, <2>3, <2>5 DEF Frame
    <2>6. ASSUME NEW p \in CompleteReq, pc[p] = "cmp_emit", job[p].task = t
          PROVE  completion'[p] = t \/ (pc'[p] = "cmp_emit" /\ job'[p].task = t)
      <3>1. p \in Proc
        BY <2>3
      <3>2. CASE Arrives(p) \/ Continue(p)
        <4>1. CompleteEmit(p)
          BY <2>1, <2>6, <3>1, <3>2, CompleterLabels DEF IndInv
        <4> QED BY <2>6, <4>1 DEF CompleteEmit, IndInv, TypeOK
      <3>3. CASE ~(Arrives(p) \/ Continue(p))
        <4>1. pc'[p] = pc[p] /\ job'[p] = job[p]
          BY <2>1, <2>2, <2>6, <3>1, <3>3, MovesNext DEF Moves
        <4> QED BY <2>6, <4>1
      <3> QED BY <3>2, <3>3
    <2>7. CASE tasks[t] = "COMPLETING"
      BY <2>1, <2>5, <2>6, <2>7 DEF CompletionNeverLost, At
    <2> QED BY <2>4, <2>7
  <1> QED BY <1>1, <1>2 DEF CompletionNeverLost, At

\* Without a failed statement or a restart, a COMPLETING task has its
\* completion request in the outbox or on its way there, whatever other
\* handlers run in between.
THEOREM RequestNeverLost == Spec => [](CompletionNeverLost \/ faults > 0)
  <1> DEFINE Inv == IndInv /\ CompleterInv /\ (CompletionNeverLost \/ faults > 0)
  <1>1. Init => Inv
    BY InitInv DEF Init, CompleterInv, CompletionNeverLost, Completing
  <1>2. Inv /\ [Next]_vars => Inv'
    <2> SUFFICES ASSUME Inv, [Next]_vars PROVE Inv'
      OBVIOUS
    <2>1. IndInv'
      BY StepInv
    <2>2. CASE Next
      BY <2>1, <2>2, CompleterStep, RequestStep
    <2>3. CASE UNCHANGED vars
      BY <2>1, <2>3 DEF CompleterInv, CompletionNeverLost, At, vars, store, queue, env
    <2> QED BY <2>2, <2>3
  <1> QED BY <1>1, <1>2, PTL DEF Spec

-----------------------------------------------------------------------------
(* How often an escrow may be released.                                    *)

\* The attempts tryStart has granted for the completion requests of task t.
Admitted(t) == {x \in CompleteReq \X (1..MaxAttempts + 1) :
                  /\ completion[x[1]] = t
                  /\ x[2] <= consumption[x[1]].attempts}

\* The awaits of the worker from tryStart up to the release.
Spending == {"wrk_task", "wrk_bid", "wrk_release"}

\* The handlers of task t that may still release.
Entitled(t) == {p \in Proc : pc[p] \in Spending /\ job[p].task = t}

\* No attempt is counted before the request is known and its row inserted.
AttemptInv ==
    \A e \in CompleteReq :
      completion[e] = None \/ consumption[e].status = "NONE" => consumption[e].attempts = 0

\* Each release of an escrow and each handler that may still release one has
\* an attempt of its own.
BudgetInv ==
    \A t \in Task :
      /\ IsFiniteSet(Admitted(t)) /\ IsFiniteSet(Entitled(t))
      /\ Cardinality(Entitled(t)) <= Cardinality(Admitted(t))
      /\ \A b \in BidsOf(t) : released[b] + Cardinality(Entitled(t)) <= Cardinality(Admitted(t))

\* Which steps lead to the awaits before a release.
LEMMA SpendingLabels ==
    ASSUME TypeOK, NEW p \in Proc, Arrives(p) \/ Continue(p) \/ StatementFails(p),
           pc'[p] \in Spending
    PROVE  WorkerFindTask(p) \/ WorkerFindBid(p)
  <1>1. Ends(p) => pc'[p] \in {"idle", "done"}
    BY DEF Ends, Rest, TypeOK
  <1>2. \A l : Goto(p, l) => pc'[p] = l
    BY DEF Goto, TypeOK
  <1>3. ~(CreateCharge(p) \/ CreateSave(p) \/ CreateEmit(p)
          \/ BidFindTask(p) \/ BidCreateEscrow(p) \/ BidSave(p) \/ BidEmit(p))
    BY <1>1, <1>2 DEF CreateCharge, CreateSave, CreateEmit, BidFindTask, BidCreateEscrow, BidSave,
         BidEmit, Spending
  <1>4. ~(SelectBegin(p) \/ SelectFindTask(p) \/ SelectFindBids(p) \/ SelectAssign(p)
          \/ SelectSaveWinner(p) \/ SelectRejectNext(p) \/ SelectReturn(p) \/ SelectEmit(p))
    BY <1>1, <1>2 DEF SelectBegin, SelectFindTask, SelectFindBids, SelectAssign, SelectSaveWinner,
         SelectRejectNext, SelectReturn, SelectEmit, At, Spending
  <1>5. ~(CompleteFindTask(p) \/ CompleteFindBid(p) \/ CompleteSave(p) \/ CompleteEmit(p)
          \/ CompleteRelease(p) \/ CompleteSaveCompleted(p))
    BY <1>1, <1>2 DEF CompleteFindTask, CompleteFindBid, CompleteSave, CompleteEmit,
         CompleteRelease, CompleteSaveCompleted, Spending, Release
  <1>6. ~(SweepList(p) \/ SweepFindBid(p) \/ SweepConfiscate(p) \/ SweepSaveExpired(p)
          \/ SweepEmit(p) \/ SweepReturn(p))
    BY <1>1, <1>2 DEF SweepList, SweepFindBid, SweepConfiscate, SweepSaveExpired, SweepEmit,
         SweepReturn, At, Spending
  <1>7. ~(WorkerRelease(p) \/ WorkerSaveCompleted(p) \/ WorkerEmit(p)
          \/ WorkerMarkSucceeded(p) \/ WorkerMarkFailed(p) \/ StatementFails(p))
    BY <1>1, <1>2 DEF WorkerRelease, WorkerSaveCompleted, WorkerEmit, WorkerMarkSucceeded,
         WorkerMarkFailed, StatementFails, Spending, Release
  <1> QED BY <1>3, <1>4, <1>5, <1>6, <1>7 DEF Arrives, Continue

\* A worker that looks up the task or the bid goes on with the same task, and
\* the one that releases is done with it.
LEMMA SpendingJob ==
    ASSUME TypeOK, NEW p \in Proc
    PROVE  /\ WorkerFindTask(p) \/ WorkerFindBid(p) =>
                pc[p] \in Spending /\ job'[p].task = job[p].task
           /\ WorkerRelease(p) =>
                /\ pc[p] = "wrk_release" /\ pc'[p] \notin Spending
                /\ \/ released' = [released EXCEPT ![job[p].win] = @ + 1]
                   \/ released' = released
  <1>1. WorkerFindTask(p) => pc[p] \in Spending /\ job'[p].task = job[p].task
    BY DEF WorkerFindTask, At, Spending
  <1>2. WorkerFindBid(p) => pc[p] \in Spending /\ job'[p].task = job[p].task
    BY DEF WorkerFindBid, At, Spending, TypeOK, Job
  <1>3. WorkerRelease(p) =>
          /\ pc[p] = "wrk_release" /\ pc'[p] \notin Spending
          /\ released' = [released EXCEPT ![job[p].win] = @ + 1] \/ released' = released
    BY DEF WorkerRelease, Release, Goto, At, Spending, TypeOK
  <1> QED BY <1>1, <1>2, <1>3

\* Who writes the completion requests and their consumption rows.
LEMMA QueueStep ==
    ASSUME Next
    PROVE  \/ UNCHANGED <<completion, consumption>>
           \/ \E p \in Proc : CompleteEmit(p) \/ WorkerMarkSucceeded(p) \/ WorkerMarkFailed(p)
           \/ \E w \in Worker, e \in CompleteReq : WorkerStart(w, e)
  <1>1. ASSUME NEW p \in Proc, Arrives(p) \/ StatementFails(p) PROVE UNCHANGED <<completion, consumption>>
    BY <1>1 DEF Arrives, CreateCharge, BidFindTask, SelectBegin, CompleteFindTask, SweepList,
       StatementFails, queue
  <1>2. ASSUME NEW p \in Proc, Continue(p),
               ~CompleteEmit(p), ~WorkerMarkSucceeded(p), ~WorkerMarkFailed(p)
        PROVE  UNCHANGED <<completion, consumption>>
    BY <1>2 DEF Continue, CreateSave, CreateEmit, BidCreateEscrow, BidSave, BidEmit, SelectFindTask,
       SelectFindBids, SelectAssign, SelectSaveWinner, SelectRejectNext, SelectReturn, SelectEmit,
       CompleteFindBid, CompleteSave, CompleteRelease, CompleteSaveCompleted, SweepFindBid,
       SweepConfiscate, SweepSaveExpired, SweepEmit, SweepReturn, WorkerFindTask, WorkerFindBid,
       WorkerRelease, WorkerSaveCompleted, WorkerEmit, queue
  <1>3. ASSUME NEW t \in Task, DeadlinePasses(t) PROVE UNCHANGED <<completion, consumption>>
    BY <1>3 DEF DeadlinePasses, queue
  <1>4. ASSUME NEW D \in SUBSET Executor, Restart(D) PROVE UNCHANGED <<completion, consumption>>
    BY <1>4 DEF Restart, queue
  <1>5. Idle => UNCHANGED <<completion, consumption>>
    BY DEF Idle, vars, queue
  <1> QED BY <1>1, <1>2, <1>3, <1>4, <1>5 DEF Next

\* A step that starts no attempt grants none, and keeps AttemptInv.
LEMMA AdmittedKept ==
    ASSUME IndInv, IndInv', AttemptInv, Next,
           \A w \in Worker, e \in CompleteReq : ~WorkerStart(w, e)
    PROVE  AttemptInv' /\ \A t \in Task : Admitted(t)' = Admitted(t)
  <1>1. CASE UNCHANGED <<completion, consumption>>
    BY <1>1 DEF AttemptInv, Admitted
  <1>2. ASSUME NEW p \in Proc, WorkerMarkSucceeded(p) \/ WorkerMarkFailed(p)
        PROVE  AttemptInv' /\ \A t \in Task : Admitted(t)' = Admitted(t)
    <2>1. job[p].event \in CompleteReq /\ completion[job[p].event] # None
      <3>1. pc[p] \in {"wrk_ok", "wrk_failed"}
        BY <1>2 DEF WorkerMarkSucceeded, WorkerMarkFailed, At
      <3> QED BY <3>1, ConfigAssumption DEF IndInv, HandlerInv, HandlerOK, Relies, Dispatching,
                HasTask, Label, Task
    <2>2. /\ completion' = completion
          /\ \A e \in CompleteReq : /\ consumption'[e].attempts = consumption[e].attempts
                                    /\ consumption'[e].status = "NONE" => consumption[e].status = "NONE"
      BY SMTT(30), <1>2, <2>1 DEF WorkerMarkSucceeded, WorkerMarkFailed, IndInv, TypeOK, ConsumptionRow
    <2>3. AttemptInv'
      BY <2>2 DEF AttemptInv
    <2>4. \A t \in Task : Admitted(t)' = Admitted(t)
      BY <2>2 DEF Admitted
    <2> QED BY <2>3, <2>4
  <1>3. ASSUME NEW p \in Proc, CompleteEmit(p)
        PROVE  AttemptInv' /\ \A t \in Task : Admitted(t)' = Admitted(t)
    <2>1. /\ p \in CompleteReq /\ completion[p] = None /\ consumption' = consumption
          /\ \A e \in CompleteReq \ {p} : completion'[e] = completion[e]
      BY <1>3 DEF CompleteEmit, At, IndInv, OnceInv, TypeOK
    <2>2. consumption[p].attempts = 0
      BY <2>1 DEF AttemptInv
    <2>3. AttemptInv'
      BY <2>1, <2>2 DEF AttemptInv
    <2>4. \A e \in CompleteReq, n \in 1..MaxAttempts + 1 : n <= consumption[e].attempts => e # p
      BY <2>2, ConfigAssumption
    <2>5. \A t \in Task : Admitted(t)' = Admitted(t)
      BY <2>1, <2>4 DEF Admitted
    <2> QED BY <2>3, <2>5
  <1> QED BY <1>1, <1>2, <1>3, QueueStep

\* A step that starts no attempt entitles no handler.
LEMMA EntitledKept ==
    ASSUME IndInv, IndInv', UseOutbox, Next,
           \A w \in Worker, e \in CompleteReq : ~WorkerStart(w, e)
    PROVE  \A t \in Task : Entitled(t)' \subseteq Entitled(t)
  <1>1. ASSUME NEW q \in Proc, pc'[q] \in Spending
        PROVE  pc[q] \in Spending /\ job'[q].task = job[q].task
    <2>1. CASE Arrives(q) \/ Continue(q) \/ StatementFails(q)
      BY <1>1, <2>1, SpendingLabels, SpendingJob DEF IndInv
    <2>2. CASE ~(Arrives(q) \/ Continue(q) \/ StatementFails(q))
      <3>1. Frame
        BY FrameNext
      <3>2. ASSUME NEW D \in SUBSET Executor, Restart(D) PROVE FALSE
        <4>1. pc'[q] \in {"idle", "done"}
          BY <3>2 DEF Restart, Rest, InFlight
        <4> QED BY <1>1, <4>1 DEF Spending
      <3>3. pc'[q] = pc[q] /\ job'[q] = job[q]
        BY <2>2, <3>1, <3>2, MovesNext DEF Moves
      <3> QED BY <1>1, <3>3
    <2> QED BY <2>1, <2>2
  <1> QED BY <1>1 DEF Entitled

\* A bid is saved before anything is released from its escrow.
LEMMA UnsavedUnpaid ==
    ASSUME IndInv, UseOutbox, NEW b \in BidReq, ~Saved(b) PROVE released[b] = 0
  BY DEF IndInv, SettlementJustified, Saved, TypeOK

\* The bids of a task after a step were its bids before, or are new.
LEMMA BidsOfStep ==
    ASSUME IndInv, UseOutbox, Next, NEW t \in Task, NEW b \in BidsOf(t)'
    PROVE  b \in BidsOf(t) \/ (b \in BidReq /\ ~Saved(b))
  <1>1. Frame
    BY FrameNext
  <1> QED BY <1>1 DEF Frame, BidsOf, Saved

\* Finite sets of attempts and of handlers, one larger or one smaller.
LEMMA BudgetArith ==
    ASSUME NEW A, NEW E, NEW B, NEW F, IsFiniteSet(A), IsFiniteSet(E), NEW r \in Nat, NEW s \in Nat,
           Cardinality(E) <= Cardinality(A), r + Cardinality(E) <= Cardinality(A)
    PROVE  /\ B = A /\ F \subseteq E /\ s = r =>
                /\ IsFiniteSet(B) /\ IsFiniteSet(F)
                /\ Cardinality(F) <= Cardinality(B) /\ s + Cardinality(F) <= Cardinality(B)
           /\ \A p : B = A /\ p \in E /\ F \subseteq E \ {p} /\ s <= r + 1 =>
                /\ IsFiniteSet(B) /\ IsFiniteSet(F)
                /\ Cardinality(F) <= Cardinality(B) /\ s + Cardinality(F) <= Cardinality(B)
           /\ \A x, p : x \notin A /\ B = A \cup {x} /\ F = E \cup {p} /\ s = r =>
                /\ IsFiniteSet(B) /\ IsFiniteSet(F)
                /\ Cardinality(F) <= Cardinality(B) /\ s + Cardinality(F) <= Cardinality(B)
  <1>1. Cardinality(A) \in Nat /\ Cardinality(E) \in Nat
    BY FS_CardinalityType
  <1>2. ASSUME B = A, F \subseteq E, s = r
        PROVE  /\ IsFiniteSet(B) /\ IsFiniteSet(F)
               /\ Cardinality(F) <= Cardinality(B) /\ s + Cardinality(F) <= Cardinality(B)
    <2>1. IsFiniteSet(F) /\ Cardinality(F) <= Cardinality(E)
      BY <1>2, FS_Subset
    <2>2. Cardinality(F) \in Nat
      BY <2>1, FS_CardinalityType
    <2> QED BY <1>1, <1>2, <2>1, <2>2
  <1>3. ASSUME NEW p, B = A, p \in E, F \subseteq E \ {p}, s <= r + 1
        PROVE  /\ IsFiniteSet(B) /\ IsFiniteSet(F)
               /\ Cardinality(F) <= Cardinality(B) /\ s + Cardinality(F) <= Cardinality(B)
    <2>1. IsFiniteSet(E \ {p}) /\ Cardinality(E \ {p}) = Cardinality(E) - 1
      BY <1>3, FS_RemoveElement
    <2>2. IsFiniteSet(F) /\ Cardinality(F) <= Cardinality(E \ {p})
      BY <1>3, <2>1, FS_Subset
    <2>3. Cardinality(F) \in Nat
      BY <2>2, FS_CardinalityType
    <2> QED BY <1>1, <1>3, <2>1, <2>2, <2>3
  <1>4. ASSUME NEW x, NEW p, x \notin A, B = A \cup {x}, F = E \cup {p}, s = r
        PROVE  /\ IsFiniteSet(B) /\ IsFiniteSet(F)
               /\ Cardinality(F) <= Cardinality(B) /\ s + Cardinality(F) <= Cardinality(B)
    <2>1. IsFiniteSet(B) /\ Cardinality(B) = Cardinality(A) + 1
      BY <1>4, FS_AddElement
    <2>2. IsFiniteSet(F) /\ Cardinality(F) <= Cardinality(E) + 1
      <3>1. /\ IsFiniteSet(E \cup {p})
            /\ Cardinality(E \cup {p}) = IF p \in E THEN Cardinality(E) ELSE Cardinality(E) + 1
        BY FS_AddElement
      <3>2. PICK k \in Nat : k = Cardinality(E)
        BY <1>1
      <3> QED BY <1>4, <3>1, <3>2
    <2>3. Cardinality(F) \in Nat
      BY <2>2, FS_CardinalityType
    <2> QED BY <1>1, <1>4, <2>1, <2>2, <2>3
  <1> QED BY <1>2, <1>3, <1>4

\* A worker that starts an attempt has it granted.
LEMMA AdmittedStart ==
    ASSUME IndInv, IndInv', AttemptInv, NEW w \in Worker, NEW e \in CompleteReq, WorkerStart(w, e),
           NEW u, u = completion[e]
    PROVE  /\ AttemptInv'
           /\ u \in Task
           /\ \A t \in Task \ {u} :
                Admitted(t)' = Admitted(t) /\ Entitled(t)' = Entitled(t)
           /\ \E x : /\ x \notin Admitted(u)
                     /\ Admitted(u)' = Admitted(u) \cup {x}
           /\ Entitled(u)' = Entitled(u) \cup {w}
  <1> DEFINE n == consumption[e].attempts
  <1>1. /\ completion' = completion /\ completion[e] \in Task /\ n \in Nat
        /\ \A f \in CompleteReq \ {e} : consumption'[f] = consumption[f]
        /\ consumption'[e].attempts = n + 1 /\ consumption'[e].status = "PROCESSING"
    BY DEF WorkerStart, TryStart, IndInv, TypeOK, ConsumptionRow
  <1>2. n + 1 \in 1..MaxAttempts + 1
    <2>1. n = 0 \/ n < MaxAttempts
      BY DEF WorkerStart, TryStart, AttemptInv
    <2> QED BY <1>1, <2>1, ConfigAssumption
  <1>3. AttemptInv'
    BY <1>1, ConfigAssumption DEF AttemptInv, Task
  <1>4. \A t \in Task \ {u} : Admitted(t)' = Admitted(t)
    BY <1>1 DEF Admitted
  <1>5. /\ <<e, n + 1>> \notin Admitted(u)
        /\ Admitted(u)' = Admitted(u) \cup {<<e, n + 1>>}
    <2> HIDE DEF n
    <2>0. n = consumption[e].attempts
      BY DEF n
    <2>1. <<e, n + 1>> \notin Admitted(u)
      BY <1>1, <2>0 DEF Admitted
    <2>2. ASSUME NEW f \in CompleteReq, NEW m \in 1..MaxAttempts + 1
          PROVE  <<f, m>> \in Admitted(u)' <=>
                   <<f, m>> \in Admitted(u) \cup {<<e, n + 1>>}
      <3>1. m \in Nat
        BY ConfigAssumption
      <3>2. CASE f = e
        BY <1>1, <2>0, <3>1, <3>2 DEF Admitted
      <3>3. CASE f # e
        BY <1>1, <3>3 DEF Admitted
      <3> QED BY <3>2, <3>3
    <2>3. /\ Admitted(u)' \subseteq CompleteReq \X (1..MaxAttempts + 1)
          /\ Admitted(u) \cup {<<e, n + 1>>} \subseteq CompleteReq \X (1..MaxAttempts + 1)
      BY <1>2 DEF Admitted, n
    <2>4. ASSUME NEW x \in CompleteReq \X (1..MaxAttempts + 1)
          PROVE  x \in Admitted(u)' <=> x \in Admitted(u) \cup {<<e, n + 1>>}
      <3>1. PICK f \in CompleteReq, m \in 1..MaxAttempts + 1 : x = <<f, m>>
        OBVIOUS
      <3> QED BY <2>2, <3>1
    <2> QED BY <2>1, <2>3, <2>4
  <1>6. /\ w \in Proc /\ pc'[w] = "wrk_task" /\ job'[w].task = completion[e] /\ pc[w] = "idle"
        /\ \A q \in Proc \ {w} : pc'[q] = pc[q] /\ job'[q] = job[q]
    <2>1. w \in Proc
      BY DEF Proc
    <2>2. pc[w] = "idle" /\ pc'[w] = "wrk_task" /\ \A q \in Proc \ {w} : pc'[q] = pc[q]
      BY <2>1 DEF WorkerStart, Begins, Goto, IndInv, TypeOK
    <2>3. PICK j : j = [NoJob EXCEPT !.event = e, !.task = completion[e]]
      OBVIOUS
    <2>4. j.task = completion[e]
      BY <2>3 DEF NoJob
    <2>5. job'[w] = j /\ \A q \in Proc \ {w} : job'[q] = job[q]
      BY <2>1, <2>3 DEF WorkerStart, IndInv, TypeOK
    <2> QED BY <2>1, <2>2, <2>4, <2>5
  <1>7. /\ \A t \in Task \ {u} : Entitled(t)' = Entitled(t)
        /\ Entitled(u)' = Entitled(u) \cup {w}
    BY <1>6 DEF Entitled, Spending
  <1> QED BY <1>1, <1>3, <1>4, <1>5, <1>7

\* Every step keeps the budget.
LEMMA BudgetStep ==
    ASSUME IndInv, IndInv', AttemptInv, BudgetInv, UseOutbox, Next
    PROVE  AttemptInv' /\ BudgetInv'
  <1> DEFINE Within(A, E, r) == /\ IsFiniteSet(A) /\ IsFiniteSet(E)
                                /\ Cardinality(E) <= Cardinality(A)
                                /\ r + Cardinality(E) <= Cardinality(A)
  <1>1. \A b \in BidReq : released[b] \in Nat /\ released'[b] \in Nat
    BY DEF IndInv, TypeOK
  <1>2. ASSUME NEW t \in Task PROVE Within(Admitted(t), Entitled(t), 0)
    BY FS_CardinalityType DEF BudgetInv
  <1>3. ASSUME NEW t \in Task, NEW b \in BidsOf(t)'
        PROVE  b \in BidReq /\ Within(Admitted(t), Entitled(t), released[b])
    <2>1. CASE b \in BidsOf(t)
      BY <2>1 DEF BudgetInv, BidsOf
    <2>2. CASE b \in BidReq /\ ~Saved(b)
      BY <1>2, <2>2, UnsavedUnpaid
    <2> QED BY <2>1, <2>2, BidsOfStep
  <1>4. ASSUME \A t \in Task : /\ Within(Admitted(t)', Entitled(t)', 0)
                               /\ \A b \in BidsOf(t)' : Within(Admitted(t)', Entitled(t)', released'[b])
        PROVE  BudgetInv'
    BY <1>4 DEF BudgetInv
  <1> HIDE DEF Within
  <1>5. ASSUME NEW A, NEW E, NEW B, NEW F, NEW r \in Nat, NEW s \in Nat, Within(A, E, r)
        PROVE  /\ B = A /\ F \subseteq E /\ s = r => Within(B, F, s)
               /\ \A p : B = A /\ p \in E /\ F \subseteq E \ {p} /\ s <= r + 1 => Within(B, F, s)
               /\ \A x, p : x \notin A /\ B = A \cup {x} /\ F = E \cup {p} /\ s = r => Within(B, F, s)
    BY <1>5, BudgetArith DEF Within
  <1>6. CASE \E w \in Worker, e \in CompleteReq : WorkerStart(w, e)
    <2>1. PICK w \in Worker, e \in CompleteReq : WorkerStart(w, e)
      BY <1>6
    <2>2. released' = released
      BY <2>1 DEF WorkerStart, provider
    <2>3. ASSUME NEW t \in Task, NEW r \in Nat, Within(Admitted(t), Entitled(t), r)
          PROVE  Within(Admitted(t)', Entitled(t)', r)
      <3>1. CASE t = completion[e]
        <4>1. Entitled(t)' = Entitled(t) \cup {w}
          BY <2>1, <3>1, AdmittedStart
        <4>2. PICK x : x \notin Admitted(t) /\ Admitted(t)' = Admitted(t) \cup {x}
          BY <2>1, <3>1, AdmittedStart
        <4> QED BY <1>5, <2>3, <4>1, <4>2
      <3>2. CASE t # completion[e]
        BY <2>1, <2>3, <3>2, AdmittedStart
      <3> QED BY <3>1, <3>2
    <2>4. BudgetInv'
      BY <1>1, <1>2, <1>3, <1>4, <2>2, <2>3
    <2> QED BY <2>1, <2>4, AdmittedStart
  <1>7. CASE \A w \in Worker, e \in CompleteReq : ~WorkerStart(w, e)
    <2>1. AttemptInv' /\ \A t \in Task : Admitted(t)' = Admitted(t)
      BY <1>7, AdmittedKept
    <2>2. \A t \in Task : Entitled(t)' \subseteq Entitled(t)
      BY <1>7, EntitledKept
    <2>3. ASSUME NEW t \in Task PROVE Within(Admitted(t)', Entitled(t)', 0)
      BY <1>2, <1>5, <2>1, <2>2
    <2>4. ASSUME NEW t \in Task, NEW b \in BidsOf(t)', released'[b] = released[b]
          PROVE  Within(Admitted(t)', Entitled(t)', released'[b])
      <3>1. b \in BidReq /\ Within(Admitted(t), Entitled(t), released[b])
        BY <1>3
      <3>2. released[b] \in Nat
        BY <1>1, <3>1
      <3> QED BY <1>5, <2>1, <2>2, <2>4, <3>1, <3>2
    <2>5. ASSUME NEW t \in Task, NEW b \in BidsOf(t)', released'[b] # released[b]
          PROVE  Within(Admitted(t)', Entitled(t)', released'[b])
      <3>1. PICK p \in Proc : CompleteRelease(p) \/ WorkerRelease(p)
        BY <2>5, ReleasedStep
      <3>2. ~CompleteRelease(p)
        BY DEF CompleteRelease, At, IndInv, HandlerInv, HandlerOK, Relies
      <3>3. /\ WorkerRelease(p) /\ pc[p] = "wrk_release" /\ pc'[p] \notin Spending
            /\ released' = [released EXCEPT ![job[p].win] = @ + 1]
        BY <2>5, <3>1, <3>2, SpendingJob DEF IndInv
      <3>4. b \in BidReq /\ Within(Admitted(t), Entitled(t), released[b])
        BY <1>3
      <3>5. released[b] \in Nat /\ released'[b] \in Nat /\ released'[b] <= released[b] + 1 /\ b = job[p].win
        BY <1>1, <2>5, <3>3, <3>4 DEF IndInv, TypeOK
      <3>6. job[p].task = t
        <4>1. /\ bids[b].task = job[p].task /\ Saved(b)
          BY <3>3, <3>5 DEF IndInv, HandlerInv, HandlerOK, Relies, HasBid
        <4>2. bids' = bids
          BY <3>3 DEF WorkerRelease, store
        <4> QED BY <4>1, <4>2 DEF BidsOf
      <3>7. p \in Entitled(t) /\ p \notin Entitled(t)'
        BY <3>3, <3>6 DEF Entitled, Spending
      <3>8. Entitled(t)' \subseteq Entitled(t) \ {p}
        BY <2>2, <3>7
      <3> QED BY <1>5, <2>1, <3>4, <3>5, <3>7, <3>8
    <2> QED BY <1>4, <2>1, <2>3, <2>4, <2>5
  <1> QED BY <1>6, <1>7

\* With the outbox, an escrow is released at most once for every attempt
\* tryStart granted the completion requests of its task, whatever replies
\* are lost, statements fail and processes restart.
THEOREM ReleasesWithinBudget ==
    ASSUME UseOutbox PROVE Spec => []ReleasesBounded
  <1> DEFINE Inv == IndInv /\ AttemptInv /\ BudgetInv
  <1>1. Init => Inv
    <2> SUFFICES ASSUME Init PROVE Inv
      OBVIOUS
    <2>1. AttemptInv
      BY DEF Init, AttemptInv
    <2>2. \A t \in Task : Admitted(t) = {} /\ Entitled(t) = {}
      BY ConfigAssumption DEF Init, Admitted, Entitled, Spending, Task
    <2>3. \A t \in Task : BidsOf(t) = {}
      BY DEF Init, BidsOf, NoBid
    <2>4. BudgetInv
      BY <2>2, <2>3, FS_EmptySet DEF BudgetInv
    <2> QED BY <2>1, <2>4, InitInv
  <1>2. Inv /\ [Next]_vars => Inv'
    <2> SUFFICES ASSUME Inv, [Next]_vars PROVE Inv'
      OBVIOUS
    <2>1. IndInv'
      BY StepInv
    <2>2. CASE Next
      BY <2>1, <2>2, BudgetStep
    <2>3. CASE UNCHANGED vars
      BY <2>1, <2>3 DEF AttemptInv, BudgetInv, Admitted, Entitled, BidsOf, vars, store, provider, queue
    <2> QED BY <2>2, <2>3
  <1>3. Inv => ReleasesBounded
    <2> SUFFICES ASSUME Inv, NEW b \in BidReq, released[b] > 0
                 PROVE  released[b] <= Cardinality(Admitted(bids[b].task))
      BY DEF ReleasesBounded, Admitted
    <2>1. bids[b].task \in Task /\ b \in BidsOf(bids[b].task)
      BY DEF IndInv, SettlementJustified, BidsOf, TypeOK, BidRow, NoBid
    <2>2. released[b] + Cardinality(Entitled(bids[b].task)) <= Cardinality(Admitted(bids[b].task))
      BY <2>1 DEF BudgetInv
    <2>3. Cardinality(Entitled(bids[b].task)) \in Nat /\ Cardinality(Admitted(bids[b].task)) \in Nat
      BY <2>1, FS_CardinalityType DEF BudgetInv
    <2> QED BY <2>2, <2>3 DEF IndInv, TypeOK
  <1> QED BY <1>1, <1>2, <1>3, PTL DEF Spec

-----------------------------------------------------------------------------
(***************************************************************************)
(* What the handlers leave behind, however their steps interleave.         *)
(*                                                                         *)
(* Nothing failing, whatever is not yet in order has a handler under way   *)
(* that will see to it (RestInv): a bid on an OPEN task one that is in the *)
(* auction, a task off the market its winner or one about to save it, a    *)
(* final status its event or one about to emit it, and an escrow its bid   *)
(* or the request about to save it.  When no handler is left, all is in    *)
(* order.                                                                  *)
(***************************************************************************)

\* A handler that goes on is running, and one that arrives has its turn.
LEMMA Running ==
    ASSUME NEW p \in Proc
    PROVE  /\ Arrives(p) => Begins(p)
           /\ Continue(p) \/ StatementFails(p) => p \in InFlight
  <1>1. Arrives(p) => Begins(p)
    BY DEF Arrives, CreateCharge, BidFindTask, SelectBegin, CompleteFindTask, SweepList
  <1>2. \A l : At(p, l) /\ l \notin {"idle", "done"} => p \in InFlight
    BY DEF At, InFlight
  <1>3. CreateSave(p) \/ CreateEmit(p) \/ BidCreateEscrow(p) \/ BidSave(p) \/ BidEmit(p)
        \/ SelectFindTask(p) \/ SelectFindBids(p) \/ SelectAssign(p) \/ SelectSaveWinner(p)
          => p \in InFlight
    BY <1>2 DEF CreateSave, CreateEmit, BidCreateEscrow, BidSave, BidEmit, SelectFindTask,
       SelectFindBids, SelectAssign, SelectSaveWinner
  <1>4. SelectRejectNext(p) \/ SelectReturn(p) \/ SelectEmit(p) \/ CompleteFindBid(p)
        \/ CompleteSave(p) \/ CompleteEmit(p) \/ CompleteRelease(p) \/ CompleteSaveCompleted(p)
          => p \in InFlight
    BY <1>2 DEF SelectRejectNext, SelectReturn, SelectEmit, CompleteFindBid, CompleteSave,
       CompleteEmit, CompleteRelease, CompleteSaveCompleted
  <1>5. SweepFindBid(p) \/ SweepConfiscate(p) \/ SweepSaveExpired(p) \/ SweepEmit(p)
        \/ SweepReturn(p) \/ WorkerFindTask(p) \/ WorkerFindBid(p) \/ WorkerRelease(p)
          => p \in InFlight
    BY <1>2 DEF SweepFindBid, SweepConfiscate, SweepSaveExpired, SweepEmit, SweepReturn,
       WorkerFindTask, WorkerFindBid, WorkerRelease
  <1>6. WorkerSaveCompleted(p) \/ WorkerEmit(p) \/ WorkerMarkSucceeded(p) \/ WorkerMarkFailed(p)
          => p \in InFlight
    BY <1>2 DEF WorkerSaveCompleted, WorkerEmit, WorkerMarkSucceeded, WorkerMarkFailed
  <1>7. StatementFails(p) => p \in InFlight
    BY DEF StatementFails
  <1> QED BY <1>1, <1>3, <1>4, <1>5, <1>6, <1>7 DEF Continue

\* The steps that write task rows.
LEMMA TasksStep ==
    ASSUME IndInv, UseOutbox, Next
    PROVE  \/ tasks' = tasks
           \/ \E p \in Proc : \/ CreateSave(p) \/ SelectAssign(p) \/ CompleteSave(p)
                              \/ SweepSaveExpired(p) \/ WorkerSaveCompleted(p)
  <1>1. ASSUME NEW p \in Proc, Arrives(p) \/ StatementFails(p) PROVE tasks' = tasks
    BY <1>1 DEF Arrives, CreateCharge, BidFindTask, SelectBegin, CompleteFindTask, SweepList,
       StatementFails, store
  <1>2. ASSUME NEW p \in Proc PROVE ~CompleteSaveCompleted(p)
    BY DEF CompleteSaveCompleted, At, IndInv, HandlerInv, HandlerOK, Relies
  <1>3. ASSUME NEW p \in Proc, ~CreateSave(p), ~SelectAssign(p), ~CompleteSave(p),
               ~SweepSaveExpired(p), ~WorkerSaveCompleted(p), Continue(p)
        PROVE  tasks' = tasks
    BY <1>2, <1>3 DEF Continue, CreateEmit, BidCreateEscrow, BidSave, BidEmit, SelectFindTask,
       SelectFindBids, SelectSaveWinner, SelectRejectNext, SelectReturn, SelectEmit,
       CompleteFindBid, CompleteEmit, CompleteRelease, SweepFindBid, SweepConfiscate, SweepEmit,
       SweepReturn, WorkerFindTask, WorkerFindBid, WorkerRelease, WorkerEmit,
       WorkerMarkSucceeded, WorkerMarkFailed, store
  <1>4. ASSUME NEW w \in Worker, NEW e \in CompleteReq, WorkerStart(w, e) PROVE tasks' = tasks
    BY <1>4 DEF WorkerStart, store
  <1>5. ASSUME NEW t \in Task, DeadlinePasses(t) PROVE tasks' = tasks
    BY <1>5 DEF DeadlinePasses, store
  <1>6. ASSUME NEW D \in SUBSET Executor, Restart(D) PROVE tasks' = tasks
    BY <1>6 DEF Restart, store
  <1>7. Idle => tasks' = tasks
    BY DEF Idle, vars, store
  <1> QED BY <1>1, <1>3, <1>4, <1>5, <1>6, <1>7 DEF Next

\* Which step leads to the await before a task is saved.
LEMMA CreateLabels ==
    ASSUME TypeOK, NEW p \in Task, p \in Proc, Arrives(p) \/ Continue(p) \/ StatementFails(p),
           pc'[p] \in {"idle", "create_save"}
    PROVE  pc[p] = "idle"
  <1>1. Ends(p) => pc'[p] = "done"
    BY ConfigAssumption DEF Ends, Rest, TypeOK, Task
  <1>2. \A l : Goto(p, l) => pc'[p] = l
    BY DEF Goto, TypeOK
  <1>3. Arrives(p) => pc[p] = "idle"
    BY Running DEF Begins
  <1>4. CreateSave(p) \/ CreateEmit(p) \/ BidCreateEscrow(p) \/ BidSave(p) \/ BidEmit(p)
        \/ SelectFindTask(p) \/ SelectFindBids(p) \/ SelectAssign(p) \/ SelectSaveWinner(p)
          => pc'[p] \notin {"idle", "create_save"}
    BY <1>1, <1>2 DEF CreateSave, CreateEmit, BidCreateEscrow, BidSave, BidEmit, SelectFindTask,
       SelectFindBids, SelectAssign, SelectSaveWinner
  <1>5. SelectRejectNext(p) \/ SelectReturn(p) \/ SelectEmit(p) \/ CompleteFindBid(p)
        \/ CompleteSave(p) \/ CompleteEmit(p) \/ CompleteRelease(p) \/ CompleteSaveCompleted(p)
          => pc'[p] \notin {"idle", "create_save"}
    BY <1>1, <1>2 DEF SelectRejectNext, SelectReturn, SelectEmit, CompleteFindBid, CompleteSave,
       CompleteEmit, CompleteRelease, CompleteSaveCompleted, At, Release
  <1>6. SweepFindBid(p) \/ SweepConfiscate(p) \/ SweepSaveExpired(p) \/ SweepEmit(p)
        \/ SweepReturn(p) \/ WorkerFindTask(p) \/ WorkerFindBid(p) \/ WorkerRelease(p)
          => pc'[p] \notin {"idle", "create_save"}
    BY <1>1, <1>2 DEF SweepFindBid, SweepConfiscate, SweepSaveExpired, SweepEmit, SweepReturn,
       WorkerFindTask, WorkerFindBid, WorkerRelease, At, Release
  <1>7. WorkerSaveCompleted(p) \/ WorkerEmit(p) \/ WorkerMarkSucceeded(p) \/ WorkerMarkFailed(p)
        \/ StatementFails(p) => pc'[p] \notin {"idle", "create_save"}
    BY <1>1, <1>2 DEF WorkerSaveCompleted, WorkerEmit, WorkerMarkSucceeded, WorkerMarkFailed,
       StatementFails
  <1> QED BY <1>3, <1>4, <1>5, <1>6, <1>7 DEF Continue

\* The awaits at which a handler counts on what it has read.
Expecting == {"sel_bids", "sel_assign", "sel_winner", "cmp_bid", "cmp_save", "swp_next",
              "swp_confiscate", "swp_save", "swp_emit", "wrk_bid", "wrk_release", "wrk_save"}

\* Which steps lead there.
LEMMA ExpectLabels ==
    ASSUME TypeOK, NEW p \in Proc, Arrives(p) \/ Continue(p) \/ StatementFails(p),
           pc'[p] \in Expecting
    PROVE  \/ SelectFindTask(p) \/ SelectFindBids(p) \/ SelectAssign(p)
           \/ CompleteFindTask(p) \/ CompleteFindBid(p)
           \/ SweepList(p) \/ SweepFindBid(p) \/ SweepConfiscate(p) \/ SweepSaveExpired(p)
           \/ SweepEmit(p) \/ WorkerFindTask(p) \/ WorkerFindBid(p) \/ WorkerRelease(p)
  <1>1. Ends(p) => pc'[p] \in {"idle", "done"}
    BY DEF Ends, Rest, TypeOK
  <1>2. \A l : Goto(p, l) => pc'[p] = l
    BY DEF Goto, TypeOK
  <1>3. ~(CreateCharge(p) \/ CreateSave(p) \/ CreateEmit(p) \/ BidFindTask(p)
          \/ BidCreateEscrow(p) \/ BidSave(p) \/ BidEmit(p) \/ SelectBegin(p))
    BY <1>1, <1>2 DEF CreateCharge, CreateSave, CreateEmit, BidFindTask, BidCreateEscrow, BidSave,
       BidEmit, SelectBegin, Expecting
  <1>4. ~(SelectSaveWinner(p) \/ SelectRejectNext(p) \/ SelectReturn(p) \/ SelectEmit(p)
          \/ CompleteSave(p) \/ CompleteEmit(p) \/ CompleteRelease(p) \/ CompleteSaveCompleted(p))
    BY <1>1, <1>2 DEF SelectSaveWinner, SelectRejectNext, SelectReturn, SelectEmit, CompleteSave,
       CompleteEmit, CompleteRelease, CompleteSaveCompleted, At, Release, Expecting
  <1>5. ~(SweepReturn(p) \/ WorkerSaveCompleted(p) \/ WorkerEmit(p) \/ WorkerMarkSucceeded(p)
          \/ WorkerMarkFailed(p) \/ StatementFails(p))
    BY <1>1, <1>2 DEF SweepReturn, WorkerSaveCompleted, WorkerEmit, WorkerMarkSucceeded,
       WorkerMarkFailed, StatementFails, Expecting
  <1> QED BY <1>3, <1>4, <1>5 DEF Arrives, Continue

\* The task is off the market.
Sold(t) == tasks[t] \notin {"NONE", "OPEN"}

\* What a handler at await l with job j has seen of its task, whatever other
\* handlers have saved since.
Knows(l, j) ==
    /\ l \in {"bid_escrow", "bid_save", "sel_bids", "sel_assign"} => tasks[j.task] # "NONE"
    /\ l \in {"sel_winner", "sel_reject", "cmp_bid", "cmp_save", "swp_confiscate", "swp_save",
              "wrk_bid", "wrk_release", "wrk_save"} => Sold(j.task)
    /\ l \in {"swp_next", "swp_confiscate", "swp_save", "swp_emit"} => \A t \in j.rest : Sold(t)

\* A handler at one of these awaits works on task t.
Under(S, t) == \E p \in Proc : pc[p] \in S /\ job[p].task = t

KnowsInv ==
    /\ \A p \in Proc : Knows(pc[p], job[p])
    /\ \A t \in Task : pc[t] \in {"idle", "create_save"} => tasks[t] = "NONE"

\* A bid is on a task that is there, and while the task is OPEN an auction is
\* under way.
OpenInv ==
    \A b \in BidReq : Saved(b) =>
      /\ tasks[bids[b].task] # "NONE"
      /\ tasks[bids[b].task] = "OPEN" =>
           /\ bids[b].status = "PENDING"
           /\ Under({"bid_emit", "sel_task", "sel_bids", "sel_assign"}, bids[b].task)

SoldInv == \A t \in Task : Sold(t) => Selected(t) # {} \/ Under({"sel_winner"}, t)

AnnounceInv ==
    \A t \in Task :
      /\ tasks[t] = "COMPLETED" => [type |-> "task_completed", task |-> t] \in outbox \/ Under({"wrk_emit"}, t)
      /\ tasks[t] = "EXPIRED"   => [type |-> "task_expired", task |-> t] \in outbox \/ Under({"swp_emit"}, t)

EscrowInv == \A b \in escrow : Saved(b) \/ pc[b] = "bid_save"

RestInv == KnowsInv /\ OpenInv /\ SoldInv /\ AnnounceInv /\ EscrowInv
-----------------------------------------------------------------------------
\* Each of these awaits is left by one step only.
LEMMA NextAwait ==
    ASSUME NEW p \in Proc, Arrives(p) \/ Continue(p)
    PROVE  /\ pc[p] = "bid_save"   => BidSave(p)
           /\ pc[p] = "bid_emit"   => BidEmit(p)
           /\ pc[p] = "sel_task"   => SelectFindTask(p)
           /\ pc[p] = "sel_bids"   => SelectFindBids(p)
           /\ pc[p] = "sel_assign" => SelectAssign(p)
           /\ pc[p] = "sel_winner" => SelectSaveWinner(p)
           /\ pc[p] = "swp_emit"   => SweepEmit(p)
           /\ pc[p] = "wrk_emit"   => WorkerEmit(p)
  <1> DEFINE Here == {"bid_save", "bid_emit", "sel_task", "sel_bids", "sel_assign", "sel_winner",
                      "swp_emit", "wrk_emit"}
  <1>1. CreateCharge(p) \/ CreateSave(p) \/ CreateEmit(p) \/ BidFindTask(p)
        \/ BidCreateEscrow(p) \/ SelectBegin(p) \/ SelectRejectNext(p) \/ SelectReturn(p)
        \/ SelectEmit(p) => pc[p] \notin Here
    BY DEF CreateCharge, CreateSave, CreateEmit, BidFindTask, BidCreateEscrow, SelectBegin,
       SelectRejectNext, SelectReturn, SelectEmit, Begins, At
  <1>2. CompleteFindTask(p) \/ CompleteFindBid(p) \/ CompleteSave(p) \/ CompleteEmit(p)
        \/ CompleteRelease(p) \/ CompleteSaveCompleted(p) \/ SweepList(p) \/ SweepFindBid(p)
          => pc[p] \notin Here
    BY DEF CompleteFindTask, CompleteFindBid, CompleteSave, CompleteEmit, CompleteRelease,
       CompleteSaveCompleted, SweepList, SweepFindBid, Begins, At
  <1>3. SweepConfiscate(p) \/ SweepSaveExpired(p) \/ SweepReturn(p) \/ WorkerFindTask(p)
        \/ WorkerFindBid(p) \/ WorkerRelease(p) \/ WorkerSaveCompleted(p)
        \/ WorkerMarkSucceeded(p) \/ WorkerMarkFailed(p) => pc[p] \notin Here
    BY DEF SweepConfiscate, SweepSaveExpired, SweepReturn, WorkerFindTask, WorkerFindBid,
       WorkerRelease, WorkerSaveCompleted, WorkerMarkSucceeded, WorkerMarkFailed, At
  <1>4. /\ BidSave(p) => pc[p] = "bid_save"
        /\ BidEmit(p) => pc[p] = "bid_emit"
        /\ SelectFindTask(p) => pc[p] = "sel_task"
        /\ SelectFindBids(p) => pc[p] = "sel_bids"
        /\ SelectAssign(p) => pc[p] = "sel_assign"
        /\ SelectSaveWinner(p) => pc[p] = "sel_winner"
        /\ SweepEmit(p) => pc[p] = "swp_emit"
        /\ WorkerEmit(p) => pc[p] = "wrk_emit"
    BY DEF BidSave, BidEmit, SelectFindTask, SelectFindBids, SelectAssign, SelectSaveWinner,
       SweepEmit, WorkerEmit, At
  <1> QED BY <1>1, <1>2, <1>3, <1>4 DEF Arrives, Continue

\* Whose step it is when nothing fails.
LEMMA Calm ==
    ASSUME IndInv, IndInv', UseOutbox, MaxFaults = 0, Next
    PROVE  \/ \E p \in Proc : (Arrives(p) \/ Continue(p)) /\ Moves(p)
           \/ \E w \in Proc : /\ w \notin Task /\ w \notin BidReq /\ Moves(w)
                              /\ pc[w] = "idle" /\ pc'[w] = "wrk_task"
                              /\ UNCHANGED <<tasks, bids>>
           \/ UNCHANGED <<pc, job, tasks, bids>>
  <1>1. /\ \A p \in Proc : ~StatementFails(p)
        /\ \A D \in SUBSET Executor : ~Restart(D)
    BY DEF StatementFails, Restart, IndInv, TypeOK
  <1>2. ASSUME NEW p \in Proc, Arrives(p) \/ Continue(p) PROVE Moves(p)
    BY <1>2, FrameNext, HandlerStep DEF IndInv
  <1>3. ASSUME NEW w \in Worker, NEW e \in CompleteReq, WorkerStart(w, e)
        PROVE  /\ w \in Proc /\ w \notin Task /\ w \notin BidReq /\ Moves(w)
               /\ pc[w] = "idle" /\ pc'[w] = "wrk_task" /\ UNCHANGED <<tasks, bids>>
    <2>1. w \in Proc /\ w \notin Task /\ w \notin BidReq
      BY ConfigAssumption DEF Proc, Task
    <2> QED BY <1>3, <2>1 DEF WorkerStart, Begins, Goto, Moves, IndInv, TypeOK, store
  <1>4. ASSUME NEW t \in Task, DeadlinePasses(t) PROVE UNCHANGED <<pc, job, tasks, bids>>
    BY <1>4 DEF DeadlinePasses, store
  <1>5. Idle => UNCHANGED <<pc, job, tasks, bids>>
    BY DEF Idle, vars, store
  <1> QED BY <1>1, <1>2, <1>3, <1>4, <1>5 DEF Next

\* The statuses handlers write, each on a task that is there.
LEMMA TaskWrites ==
    ASSUME IndInv, KnowsInv, UseOutbox, Next, NEW t \in Task, tasks'[t] # tasks[t]
    PROVE  \/ tasks[t] = "NONE" /\ tasks'[t] = "OPEN" /\ pc'[t] = "create_emit"
           \/ /\ tasks[t] # "NONE" /\ tasks'[t] = "ASSIGNED"
              /\ \E p \in Proc : SelectAssign(p) /\ job[p].task = t
           \/ Sold(t) /\ tasks'[t] = "COMPLETING"
           \/ /\ Sold(t) /\ tasks'[t] = "EXPIRED"
              /\ \E p \in Proc : SweepSaveExpired(p) /\ job[p].task = t
           \/ /\ Sold(t) /\ tasks'[t] = "COMPLETED"
              /\ \E p \in Proc : WorkerSaveCompleted(p) /\ job[p].task = t
  <1>0. tasks \in [Task -> TaskStatus \cup {"NONE"}] /\ pc \in [Proc -> Label]
        /\ Task \subseteq Proc /\ \A p \in Proc : Knows(pc[p], job[p])
    BY DEF IndInv, TypeOK, KnowsInv, Proc, Task
  <1>1. ASSUME NEW p \in Proc, CreateSave(p)
        PROVE  tasks[t] = "NONE" /\ tasks'[t] = "OPEN" /\ pc'[t] = "create_emit"
    <2>1. p = t /\ tasks'[t] = "OPEN" /\ pc[t] = "create_save"
      BY <1>0, <1>1 DEF CreateSave, SaveTask, At
    <2> QED BY <1>0, <1>1, <2>1 DEF CreateSave, Goto, KnowsInv
  <1>2. ASSUME NEW p \in Proc, SelectAssign(p)
        PROVE  tasks[t] # "NONE" /\ tasks'[t] = "ASSIGNED" /\ job[p].task = t
    BY <1>0, <1>2 DEF SelectAssign, SaveTask, At, Knows
  <1>3. ASSUME NEW p \in Proc, CompleteSave(p) PROVE Sold(t) /\ tasks'[t] = "COMPLETING"
    BY <1>0, <1>3 DEF CompleteSave, SaveTask, At, Knows
  <1>4. ASSUME NEW p \in Proc, SweepSaveExpired(p)
        PROVE  Sold(t) /\ tasks'[t] = "EXPIRED" /\ job[p].task = t
    BY <1>0, <1>4 DEF SweepSaveExpired, SaveTask, At, Knows
  <1>5. ASSUME NEW p \in Proc, WorkerSaveCompleted(p)
        PROVE  Sold(t) /\ tasks'[t] = "COMPLETED" /\ job[p].task = t
    BY <1>0, <1>5 DEF WorkerSaveCompleted, SaveTask, At, Knows
  <1> QED BY <1>1, <1>2, <1>3, <1>4, <1>5, TasksStep

\* A task that is there stays, and one off the market stays off.
LEMMA SoldKept ==
    ASSUME IndInv, KnowsInv, UseOutbox, Next, NEW t \in Task
    PROVE  /\ tasks[t] # "NONE" => tasks'[t] # "NONE"
           /\ Sold(t) => Sold(t)'
           /\ tasks'[t] = "OPEN" /\ tasks[t] # "NONE" => tasks[t] = "OPEN"
  BY TaskWrites DEF Sold

\* So what a handler knows stays true while others run.
LEMMA KnowsKept ==
    ASSUME IndInv, KnowsInv, UseOutbox, Next, NEW q \in Proc, pc'[q] = pc[q], job'[q] = job[q]
    PROVE  Knows(pc[q], job[q])'
  <1>1. Knows(pc[q], job[q]) /\ Relies(pc[q], job[q]) /\ overdue \subseteq Task
    BY DEF KnowsInv, IndInv, HandlerInv, HandlerOK, TypeOK
  <1>2. pc[q] \in {"bid_escrow", "bid_save", "sel_bids", "sel_assign"} => tasks'[job[q].task] # "NONE"
    BY <1>1, SoldKept DEF Knows, Relies, HasTask, Label
  <1>3. pc[q] \in {"sel_winner", "sel_reject", "cmp_bid", "cmp_save", "swp_confiscate", "swp_save",
                   "wrk_bid", "wrk_release", "wrk_save"} => tasks'[job[q].task] \notin {"NONE", "OPEN"}
    BY <1>1, SoldKept DEF Knows, Relies, HasTask, Label, Sold
  <1>4. pc[q] \in {"swp_next", "swp_confiscate", "swp_save", "swp_emit"} =>
          \A t \in job[q].rest : tasks'[t] \notin {"NONE", "OPEN"}
    BY <1>1, SoldKept DEF Knows, Relies, Sold
  <1> QED BY <1>2, <1>3, <1>4 DEF Knows, Sold

\* The awaits at which a handler knows something of its task.
Knowing == Expecting \cup {"bid_escrow", "bid_save", "sel_reject"}

\* Which steps lead there.
LEMMA KnowLabels ==
    ASSUME TypeOK, NEW p \in Proc, Arrives(p) \/ Continue(p), pc'[p] \in Knowing
    PROVE  \/ SelectFindTask(p) \/ SelectFindBids(p) \/ SelectAssign(p)
           \/ CompleteFindTask(p) \/ CompleteFindBid(p)
           \/ SweepList(p) \/ SweepFindBid(p) \/ SweepConfiscate(p) \/ SweepSaveExpired(p)
           \/ SweepEmit(p) \/ WorkerFindTask(p) \/ WorkerFindBid(p) \/ WorkerRelease(p)
           \/ BidFindTask(p) \/ BidCreateEscrow(p) \/ SelectSaveWinner(p) \/ SelectRejectNext(p)
  <1>1. Ends(p) => pc'[p] \in {"idle", "done"}
    BY DEF Ends, Rest, TypeOK
  <1>2. \A l : Goto(p, l) => pc'[p] = l
    BY DEF Goto, TypeOK
  <1>3. CASE pc'[p] \in Expecting
    BY <1>3, ExpectLabels
  <1>4. CASE pc'[p] \in {"bid_escrow", "bid_save", "sel_reject"}
    <2>1. ~(CreateCharge(p) \/ CreateSave(p) \/ CreateEmit(p) \/ BidSave(p) \/ BidEmit(p)
            \/ SelectBegin(p) \/ SelectReturn(p) \/ SelectEmit(p))
      BY <1>1, <1>2, <1>4 DEF CreateCharge, CreateSave, CreateEmit, BidSave, BidEmit, SelectBegin,
         SelectReturn, SelectEmit
    <2>2. ~(CompleteSave(p) \/ CompleteEmit(p) \/ CompleteRelease(p) \/ CompleteSaveCompleted(p)
            \/ SweepReturn(p) \/ WorkerSaveCompleted(p) \/ WorkerEmit(p)
            \/ WorkerMarkSucceeded(p) \/ WorkerMarkFailed(p))
      BY <1>1, <1>2, <1>4 DEF CompleteSave, CompleteEmit, CompleteRelease, CompleteSaveCompleted,
         SweepReturn, WorkerSaveCompleted, WorkerEmit, WorkerMarkSucceeded, WorkerMarkFailed, Release
    <2> QED BY <2>1, <2>2 DEF Arrives, Continue
  <1> QED BY <1>3, <1>4 DEF Knowing

\* What a handler comes to know is so.
LEMMA KnowsMover ==
    ASSUME IndInv, KnowsInv, UseOutbox, NEW p \in Proc, Arrives(p) \/ Continue(p)
    PROVE  Knows(pc[p], job[p])'
  <1>0. /\ pc \in [Proc -> Label] /\ job \in [Proc -> Job] /\ job[p] \in Job
        /\ tasks \in [Task -> TaskStatus \cup {"NONE"}]
        /\ TypeOK /\ Knows(pc[p], job[p]) /\ Relies(pc[p], job[p])
    BY DEF IndInv, TypeOK, KnowsInv, HandlerInv, HandlerOK
  <1>1. CASE pc'[p] \notin Knowing
    BY <1>1 DEF Knowing, Expecting, Knows
  <1>2. CASE pc'[p] \in Knowing
    <2>0. pc'[p] \notin {"idle", "done"} /\ ~Ends(p)
      BY <1>0, <1>2 DEF Knowing, Expecting, Ends, Rest
    <2>1. CASE SelectFindTask(p)
      <3>1. UNCHANGED <<tasks, job>> /\ tasks[job[p].task] = "OPEN" /\ pc'[p] = "sel_bids"
        BY <1>0, <2>0, <2>1 DEF SelectFindTask, Goto, store
      <3> QED BY <3>1 DEF Knows
    <2>2. CASE SelectFindBids(p)
      <3>1. PICK w, S : job' = [job EXCEPT ![p].win = w, ![p].rest = S] /\ Goto(p, "sel_assign")
        BY <2>0, <2>2 DEF SelectFindBids
      <3>2. job'[p].task = job[p].task
        BY ZenonT(60), <1>0, <3>1 DEF Job
      <3>3. tasks' = tasks /\ tasks[job[p].task] # "NONE" /\ pc'[p] = "sel_assign"
        BY <1>0, <2>2, <3>1 DEF SelectFindBids, Goto, At, Knows, store
      <3> QED BY <3>2, <3>3 DEF Knows
    <2>3. CASE SelectAssign(p)
      <3>1. job[p].task \in Task /\ pc'[p] = "sel_winner" /\ UNCHANGED job
        BY <1>0, <2>3 DEF SelectAssign, Goto, At, Relies, HasTask, Label
      <3>2. tasks'[job[p].task] = "ASSIGNED"
        BY <1>0, <2>3, <3>1 DEF SelectAssign, SaveTask
      <3> QED BY <3>1, <3>2 DEF Knows, Sold
    <2>4. CASE CompleteFindTask(p)
      <3>1. tasks' = tasks /\ tasks[job'[p].task] = "ASSIGNED" /\ pc'[p] = "cmp_bid"
        BY <1>0, <2>0, <2>4 DEF CompleteFindTask, Goto, Job, store
      <3> QED BY <3>1 DEF Knows, Sold
    <2>5. CASE CompleteFindBid(p)
      <3>1. /\ tasks' = tasks /\ Sold(job[p].task) /\ pc'[p] \in {"cmp_save", "cmp_release"}
            /\ job'[p].task = job[p].task
        BY <1>0, <2>0, <2>5 DEF CompleteFindBid, Goto, At, Knows, Job, store
      <3> QED BY <3>1 DEF Knows, Sold
    <2>6. CASE SweepList(p)
      <3>1. /\ tasks' = tasks /\ pc'[p] = "swp_next"
            /\ \A t \in job'[p].rest : tasks[t] = "ASSIGNED"
        BY <1>0, <2>6 DEF SweepList, Goto, Job, store
      <3> QED BY <3>1 DEF Knows, Sold
    <2>7. CASE SweepFindBid(p)
      <3>1. pc[p] = "swp_next" /\ tasks' = tasks /\ \A t \in job[p].rest : Sold(t)
        BY <1>0, <2>7 DEF SweepFindBid, At, Knows, store
      <3>2. PICK t \in job[p].rest :
              \/ job' = [job EXCEPT ![p].rest = @ \ {t}] /\ UNCHANGED pc
              \/ \E b \in BidReq :
                   /\ job' = [job EXCEPT ![p] = [job[p] EXCEPT !.rest = @ \ {t}, !.task = t, !.win = b]]
                   /\ Goto(p, "swp_confiscate")
        BY <2>7 DEF SweepFindBid
      <3>3. CASE job' = [job EXCEPT ![p].rest = @ \ {t}] /\ UNCHANGED pc
        <4>1. job'[p].rest = job[p].rest \ {t} /\ pc'[p] = "swp_next"
          BY <1>0, <3>1, <3>3 DEF Job
        <4> QED BY <3>1, <4>1 DEF Knows, Sold
      <3>4. ASSUME NEW b \in BidReq, Goto(p, "swp_confiscate"),
                   job' = [job EXCEPT ![p] = [job[p] EXCEPT !.rest = @ \ {t}, !.task = t, !.win = b]]
            PROVE  Knows(pc[p], job[p])'
        <4>1. job'[p].rest = job[p].rest \ {t} /\ job'[p].task = t /\ pc'[p] = "swp_confiscate"
          BY <1>0, <3>4 DEF Job, Goto
        <4> QED BY <3>1, <3>2, <4>1 DEF Knows, Sold
      <3> QED BY <3>2, <3>3, <3>4
    <2>8. CASE SweepConfiscate(p)
      <3>1. UNCHANGED <<tasks, job>> /\ pc[p] = "swp_confiscate" /\ pc'[p] \in {"swp_save", "swp_next"}
        BY <1>0, <2>8 DEF SweepConfiscate, Goto, At, store
      <3> QED BY <1>0, <3>1 DEF Knows, Sold
    <2>9. CASE SweepSaveExpired(p)
      <3>1. /\ pc[p] = "swp_save" /\ pc'[p] = "swp_emit" /\ UNCHANGED job
            /\ \A t \in job[p].rest : Sold(t)
        BY <1>0, <2>9 DEF SweepSaveExpired, Goto, At, Knows
      <3>2. \A t \in job[p].rest : tasks'[t] \notin {"NONE", "OPEN"}
        <4>1. job[p].rest \subseteq Task
          BY <1>0, <3>1 DEF Relies, TypeOK
        <4> QED BY <1>0, <2>9, <3>1, <4>1 DEF SweepSaveExpired, SaveTask, Sold
      <3> QED BY <3>1, <3>2 DEF Knows, Sold
    <2>10. CASE SweepEmit(p)
      <3>1. UNCHANGED <<tasks, job>> /\ pc[p] = "swp_emit" /\ pc'[p] = "swp_next"
        BY <1>0, <2>10 DEF SweepEmit, Goto, At, store
      <3> QED BY <1>0, <3>1 DEF Knows, Sold
    <2>11. CASE WorkerFindTask(p)
      <3>1. UNCHANGED <<tasks, job>> /\ pc'[p] \in {"wrk_ok", "wrk_bid", "wrk_failed"}
            /\ (pc'[p] = "wrk_bid" => tasks[job[p].task] = "COMPLETING")
        BY <1>0, <2>11 DEF WorkerFindTask, Goto, store
      <3> QED BY <3>1 DEF Knows, Sold
    <2>12. CASE WorkerFindBid(p)
      <3>1. /\ tasks' = tasks /\ Sold(job[p].task)
            /\ pc'[p] \in {"wrk_failed", "wrk_release"} /\ job'[p].task = job[p].task
        BY <1>0, <2>12 DEF WorkerFindBid, Goto, At, Knows, Job, store
      <3> QED BY <3>1 DEF Knows, Sold
    <2>13. CASE WorkerRelease(p)
      <3>1. /\ UNCHANGED <<tasks, job>> /\ Sold(job[p].task)
            /\ pc'[p] \in {"wrk_failed", "wrk_save"}
        BY <1>0, <2>13 DEF WorkerRelease, Release, Goto, At, Knows, store
      <3> QED BY <3>1 DEF Knows, Sold
    <2>14. CASE BidFindTask(p)
      <3>1. PICK t \in Task, x \in Executor, a \in Amount :
              /\ tasks[t] = "OPEN" /\ Goto(p, "bid_escrow")
              /\ job' = [job EXCEPT ![p] = [NoJob EXCEPT !.task = t, !.executor = x, !.amount = a]]
        BY <2>0, <2>14 DEF BidFindTask
      <3>2. job'[p].task = t
        BY ZenonT(60), <1>0, <3>1 DEF NoJob
      <3>3. tasks' = tasks /\ pc'[p] = "bid_escrow"
        BY <1>0, <2>14, <3>1 DEF BidFindTask, Goto, store
      <3> QED BY <3>1, <3>2, <3>3 DEF Knows
    <2>15. CASE BidCreateEscrow(p)
      <3>1. /\ tasks' = tasks /\ tasks[job[p].task] # "NONE" /\ pc'[p] = "bid_save"
            /\ job'[p].task = job[p].task
        BY <1>0, <2>0, <2>15 DEF BidCreateEscrow, Goto, At, Knows, Job, store
      <3> QED BY <3>1 DEF Knows
    <2>16. CASE SelectSaveWinner(p)
      <3>1. UNCHANGED <<tasks, job>> /\ Sold(job[p].task) /\ pc'[p] = "sel_reject"
        BY <1>0, <2>16 DEF SelectSaveWinner, Goto, At, Knows
      <3> QED BY <3>1 DEF Knows, Sold
    <2>17. CASE SelectRejectNext(p)
      <3>1. /\ tasks' = tasks /\ Sold(job[p].task) /\ pc'[p] = "sel_reject"
            /\ job'[p].task = job[p].task
        BY <1>0, <2>17 DEF SelectRejectNext, At, Knows, Job
      <3> QED BY <3>1 DEF Knows, Sold
    <2> QED
      BY <1>0, <1>2, <2>1, <2>2, <2>3, <2>4, <2>5, <2>6, <2>7, <2>8, <2>9, <2>10, <2>11, <2>12, <2>13,
         <2>14, <2>15, <2>16, <2>17, KnowLabels
  <1> QED BY <1>1, <1>2

\* Every step keeps what the handlers know.
LEMMA KnowsStep ==
    ASSUME IndInv, IndInv', KnowsInv, UseOutbox, MaxFaults = 0, Next PROVE KnowsInv'
  <1>1. ASSUME NEW q \in Proc PROVE Knows(pc[q], job[q])'
    <2>1. ASSUME NEW p \in Proc, Arrives(p) \/ Continue(p), Moves(p) PROVE Knows(pc[q], job[q])'
      BY <2>1, KnowsMover, KnowsKept DEF Moves
    <2>2. ASSUME NEW w \in Proc, Moves(w), pc'[w] = "wrk_task" PROVE Knows(pc[q], job[q])'
      <3>1. CASE q = w
        BY <2>2, <3>1 DEF Knows
      <3>2. CASE q # w
        BY <2>2, <3>2, KnowsKept DEF Moves
      <3> QED BY <3>1, <3>2
    <2>3. ASSUME UNCHANGED <<pc, job>> PROVE Knows(pc[q], job[q])'
      BY <2>3, KnowsKept
    <2> QED BY <2>1, <2>2, <2>3, Calm
  <1>2. ASSUME NEW t \in Task, pc'[t] \in {"idle", "create_save"} PROVE tasks'[t] = "NONE"
    <2>1. t \in Proc
      BY DEF Proc, Task
    <2>2. ASSUME NEW p \in Proc, Arrives(p) \/ Continue(p), Moves(p)
          PROVE  pc[t] \in {"idle", "create_save"}
      BY <1>2, <2>1, <2>2, CreateLabels DEF Moves, IndInv
    <2>3. pc[t] \in {"idle", "create_save"}
      BY <1>2, <2>1, <2>2, Calm DEF Moves
    <2>4. tasks[t] = "NONE"
      BY <2>3 DEF KnowsInv
    <2> QED BY <1>2, <2>4, TaskWrites DEF Sold
  <1> QED BY <1>1, <1>2 DEF KnowsInv

-----------------------------------------------------------------------------
\* A handler that does not move stays under way on its task.
LEMMA UnderKept ==
    ASSUME NEW q \in Proc, pc'[q] = pc[q], job'[q] = job[q], NEW S, pc[q] \in S
    PROVE  Under(S, job[q].task)'
  BY DEF Under

\* A bid on an OPEN task has an auction under way.
LEMMA OpenStep ==
    ASSUME IndInv, IndInv', KnowsInv, OpenInv, UseOutbox, MaxFaults = 0, Next PROVE OpenInv'
  <1> DEFINE L == {"bid_emit", "sel_task", "sel_bids", "sel_assign"}
  <1>0. /\ TypeOK /\ HandlerInv /\ pc \in [Proc -> Label] /\ job \in [Proc -> Job]
        /\ bids \in [BidReq -> BidRow \cup {NoBid}]
    BY DEF IndInv, TypeOK
  <1> SUFFICES ASSUME NEW b \in BidReq, Saved(b)'
               PROVE  /\ tasks'[bids'[b].task] # "NONE"
                      /\ tasks'[bids'[b].task] = "OPEN" =>
                           /\ bids'[b].status = "PENDING"
                           /\ Under(L, bids[b].task)'
    BY DEF OpenInv
  <1>1. CASE BidSave(b)
    <2>1. b \in Proc /\ pc[b] = "bid_save" /\ job[b].task \in Task /\ tasks[job[b].task] # "NONE"
      BY <1>0, <1>1 DEF BidSave, At, Proc, HandlerInv, HandlerOK, Relies, HasTask, Label, KnowsInv, Knows
    <2>2. /\ bids'[b].status = "PENDING" /\ bids'[b].task = job[b].task
          /\ pc'[b] = "bid_emit" /\ job' = job /\ tasks' = tasks
      BY <1>0, <1>1, <2>1 DEF BidSave, Goto
    <2>3. Under(L, bids[b].task)'
      BY <2>1, <2>2 DEF Under
    <2> QED BY <2>1, <2>2, <2>3
  <1>2. CASE Saved(b)
    <2>1. PICK t \in Task : t = bids[b].task
      BY <1>0, <1>2 DEF BidRow, NoBid, Saved
    <2>2. bids'[b].task = t
      BY <1>2, <2>1, FrameNext DEF Frame
    <2>3. tasks'[t] # "NONE" /\ (tasks'[t] = "OPEN" => tasks[t] = "OPEN")
      BY <1>2, <2>1, SoldKept DEF OpenInv
    <2>4. ASSUME tasks'[t] = "OPEN"
          PROVE  bids'[b].status = "PENDING" /\ Under(L, t)'
      <3>0. tasks[t] = "OPEN" /\ bids[b].status = "PENDING"
        BY <1>2, <2>1, <2>3, <2>4 DEF OpenInv
      <3>1. PICK p \in Proc : pc[p] \in L /\ job[p].task = t
        BY <1>2, <2>1, <3>0 DEF OpenInv, Under
      <3>2. bids'[b].status = "PENDING"
        <4>1. ASSUME NEW q \in Proc, BidSave(q) PROVE bids'[b].status = "PENDING"
          BY <1>0, <3>0, <4>1 DEF BidSave
        <4>2. ASSUME NEW q \in Proc, SelectSaveWinner(q) PROVE bids'[b] = bids[b]
          <5>1. /\ Sold(job[q].task) /\ job[q].win \in BidReq /\ bids[job[q].win].task = job[q].task
            BY <1>0, <4>2 DEF SelectSaveWinner, At, KnowsInv, Knows, HandlerInv, HandlerOK, Relies, HasBid
          <5>2. b # job[q].win
            BY <2>1, <3>0, <5>1 DEF Sold
          <5> QED BY <1>0, <4>2, <5>1, <5>2 DEF SelectSaveWinner, SaveBid
        <4>3. ASSUME NEW q \in Proc, SelectRejectNext(q) PROVE bids'[b] = bids[b]
          <5>1. PICK c \in job[q].rest : SaveBid(c, "REJECTED")
            BY <4>3 DEF SelectRejectNext
          <5>2. Sold(job[q].task) /\ c \in BidReq /\ bids[c].task = job[q].task
            BY <1>0, <4>3 DEF SelectRejectNext, At, KnowsInv, Knows, HandlerInv, HandlerOK, Relies
          <5>3. b # c
            BY <2>1, <3>0, <5>2 DEF Sold
          <5> QED BY <1>0, <5>1, <5>2, <5>3 DEF SaveBid
        <4> QED BY <3>0, <4>1, <4>2, <4>3, BidsStep
      <3>3. CASE ~(Arrives(p) \/ Continue(p))
        <4>1. pc'[p] = pc[p] /\ job'[p] = job[p]
          BY <3>1, <3>3, Calm DEF Moves
        <4> QED BY <3>1, <3>2, <4>1, UnderKept
      <3>4. CASE Arrives(p) \/ Continue(p)
        <4>1. CASE pc[p] = "bid_emit"
          <5>1. pc'[p] = "sel_task" /\ job' = job
            BY <1>0, <3>4, <4>1, NextAwait DEF BidEmit, Goto
          <5> QED BY <3>1, <3>2, <5>1 DEF Under
        <4>2. CASE pc[p] = "sel_task"
          <5>1. pc'[p] = "sel_bids" /\ job' = job
            BY <1>0, <3>0, <3>1, <3>4, <4>2, NextAwait DEF SelectFindTask, Goto
          <5> QED BY <3>1, <3>2, <5>1 DEF Under
        <4>3. CASE pc[p] = "sel_bids"
          <5>0. SelectFindBids(p)
            BY <3>4, <4>3, NextAwait
          <5>1. b \in Pending(t)
            BY <1>2, <2>1, <3>0 DEF Pending, BidsOf, Saved
          <5>2. PICK w, S : job' = [job EXCEPT ![p].win = w, ![p].rest = S] /\ Goto(p, "sel_assign")
            BY <3>1, <5>0, <5>1 DEF SelectFindBids
          <5>3. job'[p].task = job[p].task
            BY ZenonT(60), <1>0, <5>2 DEF Job
          <5>4. pc'[p] = "sel_assign"
            BY <1>0, <5>2 DEF Goto
          <5> QED BY <3>1, <3>2, <5>3, <5>4 DEF Under
        <4>4. CASE pc[p] = "sel_assign"
          <5>1. tasks'[t] = "ASSIGNED"
            BY <1>0, <2>1, <3>1, <3>4, <4>4, NextAwait DEF SelectAssign, SaveTask, TypeOK
          <5> QED BY <2>4, <5>1
        <4> QED BY <3>1, <4>1, <4>2, <4>3, <4>4
      <3> QED BY <3>3, <3>4
    <2>5. Under(L, t)' => Under(L, bids[b].task)'
      BY <2>2 DEF Under
    <2> QED BY <2>2, <2>3, <2>4, <2>5
  <1> QED BY <1>1, <1>2, SavedStep

\* A task that had a winner keeps one.
LEMMA WinnerKept ==
    ASSUME AuctionInv, UseOutbox, Next, NEW t \in Task, Selected(t) # {}
    PROVE  (Selected(t))' # {}
  <1>1. PICK s \in BidReq : s \in Selected(t) /\ Saved(s)
    BY DEF Selected, BidsOf, Saved
  <1>2. Led(t, s)
    BY <1>1 DEF Led
  <1>3. Led(t, s)'
    BY <1>1, <1>2, LedKeeps DEF AuctionInv
  <1> QED BY <1>3 DEF Led

\* A task off the market has a winner, or one is about to be saved.
LEMMA SoldStep ==
    ASSUME AuctionInv, IndInv', KnowsInv, SoldInv, UseOutbox, MaxFaults = 0, Next PROVE SoldInv'
  <1>0. /\ IndInv /\ TypeOK /\ HandlerInv /\ pc \in [Proc -> Label]
        /\ bids \in [BidReq -> BidRow \cup {NoBid}]
    BY DEF AuctionInv, IndInv, TypeOK
  <1> SUFFICES ASSUME NEW t \in Task, Sold(t)'
               PROVE  (Selected(t))' # {} \/ Under({"sel_winner"}, t)'
    BY DEF SoldInv
  <1>1. ASSUME NEW p \in Proc, SelectAssign(p), job[p].task = t
        PROVE  Under({"sel_winner"}, t)'
    <2>1. pc'[p] = "sel_winner" /\ job' = job
      BY <1>0, <1>1 DEF SelectAssign, Goto
    <2> QED BY <1>1, <2>1 DEF Under
  <1>2. CASE Sold(t)
    <2>1. CASE Selected(t) # {}
      BY <2>1, WinnerKept
    <2>2. ASSUME NEW p \in Proc, pc[p] = "sel_winner", job[p].task = t
          PROVE  (Selected(t))' # {} \/ Under({"sel_winner"}, t)'
      <3>1. CASE ~(Arrives(p) \/ Continue(p))
        <4>1. pc'[p] = pc[p] /\ job'[p] = job[p]
          BY <1>0, <2>2, <3>1, Calm DEF Moves
        <4> QED BY <2>2, <4>1, UnderKept
      <3>2. CASE Arrives(p) \/ Continue(p)
        <4>0. SelectSaveWinner(p)
          BY <2>2, <3>2, NextAwait
        <4>1. job[p].win \in BidReq /\ Saved(job[p].win) /\ bids[job[p].win].task = t
          BY <1>0, <2>2 DEF HandlerInv, HandlerOK, Relies, HasBid
        <4>2. bids'[job[p].win].status = "SELECTED" /\ bids'[job[p].win].task = t
          BY <1>0, <4>0, <4>1 DEF SelectSaveWinner, SaveBid, BidRow, NoBid, Saved
        <4>3. job[p].win \in Selected(t)'
          BY <4>1, <4>2 DEF Selected, BidsOf
        <4> QED BY <4>3
      <3> QED BY <3>1, <3>2
    <2> QED BY <1>2, <2>1, <2>2 DEF SoldInv, Under
  <1>3. CASE ~Sold(t)
    <2>1. \E p \in Proc : SelectAssign(p) /\ job[p].task = t
      BY <1>0, <1>3, TaskWrites DEF Sold
    <2> QED BY <1>1, <2>1
  <1> QED BY <1>2, <1>3

\* Events are only added to the outbox.
LEMMA OutboxGrows ==
    ASSUME Next PROVE outbox \subseteq outbox'
  <1>1. ASSUME NEW p \in Proc, Arrives(p) \/ StatementFails(p) PROVE outbox' = outbox
    BY <1>1 DEF Arrives, CreateCharge, BidFindTask, SelectBegin, CompleteFindTask, SweepList,
       StatementFails, queue
  <1>2. ASSUME NEW p \in Proc, Continue(p) PROVE outbox \subseteq outbox'
    <2>1. \A ty, t : Emit(ty, t) => outbox \subseteq outbox'
      BY DEF Emit
    <2> QED BY <1>2, <2>1 DEF Continue, CreateSave, CreateEmit, BidCreateEscrow, BidSave, BidEmit,
       SelectFindTask, SelectFindBids, SelectAssign, SelectSaveWinner, SelectRejectNext, SelectReturn,
       SelectEmit, CompleteFindBid, CompleteSave, CompleteEmit, CompleteRelease,
       CompleteSaveCompleted, SweepFindBid, SweepConfiscate, SweepSaveExpired, SweepEmit,
       SweepReturn, WorkerFindTask, WorkerFindBid, WorkerRelease, WorkerSaveCompleted, WorkerEmit,
       WorkerMarkSucceeded, WorkerMarkFailed, queue
  <1>3. ASSUME NEW w \in Worker, NEW e \in CompleteReq, WorkerStart(w, e) PROVE outbox' = outbox
    BY <1>3 DEF WorkerStart
  <1>4. ASSUME NEW t \in Task, DeadlinePasses(t) PROVE outbox' = outbox
    BY <1>4 DEF DeadlinePasses, queue
  <1>5. ASSUME NEW D \in SUBSET Executor, Restart(D) PROVE outbox' = outbox
    BY <1>5 DEF Restart, queue
  <1>6. Idle => outbox' = outbox
    BY DEF Idle, vars, queue
  <1> QED BY <1>1, <1>2, <1>3, <1>4, <1>5, <1>6 DEF Next

\* A final status has its event, or one is about to be emitted.
LEMMA AnnounceStep ==
    ASSUME IndInv, IndInv', KnowsInv, AnnounceInv, UseOutbox, MaxFaults = 0, Next PROVE AnnounceInv'
  <1>0. pc \in [Proc -> Label] /\ job \in [Proc -> Job] /\ outbox \subseteq outbox'
    BY OutboxGrows DEF IndInv, TypeOK
  <1>1. ASSUME NEW t \in Task, tasks'[t] = "COMPLETED"
        PROVE  [type |-> "task_completed", task |-> t] \in outbox' \/ Under({"wrk_emit"}, t)'
    <2>1. CASE tasks[t] # "COMPLETED"
      <3>1. PICK p \in Proc : WorkerSaveCompleted(p) /\ job[p].task = t
        BY <1>1, <2>1, TaskWrites
      <3>2. pc'[p] = "wrk_emit" /\ job' = job
        BY <1>0, <3>1 DEF WorkerSaveCompleted, Goto
      <3> QED BY <3>1, <3>2 DEF Under
    <2>2. ASSUME NEW p \in Proc, pc[p] = "wrk_emit", job[p].task = t
          PROVE  [type |-> "task_completed", task |-> t] \in outbox' \/ Under({"wrk_emit"}, t)'
      <3>1. CASE Arrives(p) \/ Continue(p)
        BY <2>2, <3>1, NextAwait DEF WorkerEmit, Emit
      <3>2. CASE ~(Arrives(p) \/ Continue(p))
        <4>1. pc'[p] = pc[p] /\ job'[p] = job[p]
          BY <2>2, <3>2, Calm DEF Moves
        <4> QED BY <2>2, <4>1, UnderKept
      <3> QED BY <3>1, <3>2
    <2> QED BY <1>0, <2>1, <2>2 DEF AnnounceInv, Under
  <1>2. ASSUME NEW t \in Task, tasks'[t] = "EXPIRED"
        PROVE  [type |-> "task_expired", task |-> t] \in outbox' \/ Under({"swp_emit"}, t)'
    <2>1. CASE tasks[t] # "EXPIRED"
      <3>1. PICK p \in Proc : SweepSaveExpired(p) /\ job[p].task = t
        BY <1>2, <2>1, TaskWrites
      <3>2. pc'[p] = "swp_emit" /\ job' = job
        BY <1>0, <3>1 DEF SweepSaveExpired, Goto
      <3> QED BY <3>1, <3>2 DEF Under
    <2>2. ASSUME NEW p \in Proc, pc[p] = "swp_emit", job[p].task = t
          PROVE  [type |-> "task_expired", task |-> t] \in outbox' \/ Under({"swp_emit"}, t)'
      <3>1. CASE Arrives(p) \/ Continue(p)
        BY <2>2, <3>1, NextAwait DEF SweepEmit, Emit
      <3>2. CASE ~(Arrives(p) \/ Continue(p))
        <4>1. pc'[p] = pc[p] /\ job'[p] = job[p]
          BY <2>2, <3>2, Calm DEF Moves
        <4> QED BY <2>2, <4>1, UnderKept
      <3> QED BY <3>1, <3>2
    <2> QED BY <1>0, <2>1, <2>2 DEF AnnounceInv, Under
  <1> QED BY <1>1, <1>2 DEF AnnounceInv

\* Only the handler of a bid has an escrow created.
LEMMA EscrowGrows ==
    ASSUME Next, ~ReplyLost
    PROVE  escrow' = escrow \/ \E p \in BidReq : escrow' = escrow \cup {p} /\ Goto(p, "bid_save")
  <1>1. ASSUME NEW p \in Proc, Arrives(p) \/ StatementFails(p) PROVE escrow' = escrow
    BY <1>1 DEF Arrives, CreateCharge, BidFindTask, SelectBegin, CompleteFindTask, SweepList,
       StatementFails, provider
  <1>2. ASSUME NEW p \in Proc, BidCreateEscrow(p)
        PROVE  escrow' = escrow \/ (p \in BidReq /\ escrow' = escrow \cup {p} /\ Goto(p, "bid_save"))
    BY <1>2 DEF BidCreateEscrow
  <1>3. ASSUME NEW p \in Proc, Continue(p), ~BidCreateEscrow(p) PROVE escrow' = escrow
    BY <1>3 DEF Continue, CreateSave, CreateEmit, BidSave, BidEmit,
       SelectFindTask, SelectFindBids, SelectAssign, SelectSaveWinner, SelectRejectNext, SelectReturn,
       SelectEmit, CompleteFindBid, CompleteSave, CompleteEmit, CompleteRelease, Release,
       CompleteSaveCompleted, SweepFindBid, SweepConfiscate, SweepSaveExpired, SweepEmit,
       SweepReturn, WorkerFindTask, WorkerFindBid, WorkerRelease, WorkerSaveCompleted, WorkerEmit,
       WorkerMarkSucceeded, WorkerMarkFailed, provider
  <1>4. ASSUME NEW w \in Worker, NEW e \in CompleteReq, WorkerStart(w, e) PROVE escrow' = escrow
    BY <1>4 DEF WorkerStart, provider
  <1>5. ASSUME NEW t \in Task, DeadlinePasses(t) PROVE escrow' = escrow
    BY <1>5 DEF DeadlinePasses, provider
  <1>6. ASSUME NEW D \in SUBSET Executor, Restart(D) PROVE escrow' = escrow
    BY <1>6 DEF Restart, provider
  <1>7. Idle => escrow' = escrow
    BY DEF Idle, vars, provider
  <1> QED BY <1>1, <1>2, <1>3, <1>4, <1>5, <1>6, <1>7 DEF Next

\* An escrow has its bid, or the request is about to save it.
LEMMA EscrowStep ==
    ASSUME IndInv, IndInv', EscrowInv, UseOutbox, ~ReplyLost, MaxFaults = 0, Next PROVE EscrowInv'
  <1>0. pc \in [Proc -> Label] /\ escrow \subseteq BidReq /\ BidReq \subseteq Proc
    BY DEF IndInv, TypeOK, Proc
  <1>1. ASSUME NEW b \in escrow PROVE Saved(b)' \/ pc'[b] = "bid_save"
    <2>0. b \in BidReq /\ b \in Proc
      BY <1>0
    <2>1. CASE Saved(b)
      BY <2>0, <2>1, FrameNext DEF Frame
    <2>2. CASE pc[b] = "bid_save"
      <3>1. CASE Arrives(b) \/ Continue(b)
        <4>1. BidSave(b)
          BY <2>0, <2>2, <3>1, NextAwait
        <4>2. bids'[b].status = "PENDING"
          BY <2>0, <4>1 DEF BidSave, IndInv, TypeOK
        <4> QED BY <4>2 DEF Saved
      <3>2. CASE ~(Arrives(b) \/ Continue(b))
        <4>1. pc'[b] = pc[b]
          BY <2>0, <2>2, <3>2, Calm DEF Moves
        <4> QED BY <2>2, <4>1
      <3> QED BY <3>1, <3>2
    <2> QED BY <2>1, <2>2 DEF EscrowInv
  <1>2. ASSUME NEW p \in BidReq, Goto(p, "bid_save") PROVE pc'[p] = "bid_save"
    BY <1>0, <1>2 DEF Goto
  <1> QED BY <1>1, <1>2, EscrowGrows DEF EscrowInv

\* When nothing fails and the handlers are through, in whatever order their
\* steps came, every auction is decided, every status announced and all
\* collateral backs a bid.
THEOREM RestTheorem ==
    ASSUME UseOutbox, ~SameMillisecond, ~ReplyLost, MaxFaults = 0 PROVE Spec => []AtRest
  <1>1. Init => RestInv
    <2> SUFFICES ASSUME Init PROVE RestInv
      OBVIOUS
    <2>1. KnowsInv
      BY DEF Init, KnowsInv, Knows
    <2> QED BY <2>1 DEF Init, RestInv, OpenInv, SoldInv, AnnounceInv, EscrowInv, Saved, NoBid, Sold
  <1>2. AuctionInv /\ AuctionInv' /\ RestInv /\ [Next]_vars => RestInv'
    <2> SUFFICES ASSUME AuctionInv, AuctionInv', RestInv, [Next]_vars PROVE RestInv'
      OBVIOUS
    <2>1. IndInv /\ IndInv'
      BY DEF AuctionInv
    <2>2. CASE Next
      BY <2>1, <2>2, KnowsStep, OpenStep, SoldStep, AnnounceStep, EscrowStep DEF RestInv
    <2>3. CASE UNCHANGED vars
      BY <2>3 DEF RestInv, KnowsInv, Knows, OpenInv, SoldInv, AnnounceInv, EscrowInv, Under, Sold, Saved,
         Selected, BidsOf, vars, store, provider, queue
    <2> QED BY <2>2, <2>3
  <1>3. AuctionInv /\ RestInv /\ (CompletionNeverLost \/ faults > 0) => AtRest
    <2> SUFFICES ASSUME AuctionInv, RestInv, CompletionNeverLost \/ faults > 0, InFlight = {}
                 PROVE  AuctionSettles /\ StatusAnnounced /\ CollateralHasBid
      BY DEF AtRest, AuctionSettles, StatusAnnounced, CollateralHasBid
    <2>0. /\ \A p \in Proc : pc[p] \in {"idle", "done"}
          /\ faults = 0
          /\ bids \in [BidReq -> BidRow \cup {NoBid}] /\ escrow \subseteq BidReq
          /\ BidReq \subseteq Proc /\ CompleteReq \subseteq Proc
      BY DEF InFlight, AuctionInv, IndInv, TypeOK, Proc
    <2>1. \A b \in BidReq : Saved(b) => bids[b].task \in Task /\ Sold(bids[b].task)
      BY <2>0 DEF RestInv, OpenInv, Under, Sold, BidRow, NoBid, Saved
    <2>2. \A t \in Task : Sold(t) => Selected(t) # {}
      BY <2>0 DEF RestInv, SoldInv, Under
    <2>3. AuctionSettles
      BY <2>1, <2>2 DEF AuctionSettles, BidsOf, Saved, Sold
    <2>4. StatusAnnounced
      <3> SUFFICES ASSUME NEW t \in Task
                   PROVE  /\ tasks[t] = "COMPLETED"  => [type |-> "task_completed", task |-> t] \in outbox
                          /\ tasks[t] = "EXPIRED"    => [type |-> "task_expired", task |-> t] \in outbox
                          /\ tasks[t] = "COMPLETING" => \E e \in CompleteReq : completion[e] = t
        BY DEF StatusAnnounced
      <3>1. ~Under({"wrk_emit"}, t) /\ ~Under({"swp_emit"}, t)
        BY <2>0 DEF Under
      <3>2. ~(faults > 0) /\ \A p \in CompleteReq : ~At(p, "cmp_emit")
        BY <2>0 DEF At
      <3>3. tasks[t] = "COMPLETING" => \E e \in CompleteReq : completion[e] = t
        BY <3>2 DEF CompletionNeverLost
      <3> QED BY <3>1, <3>3, Zenon DEF RestInv, AnnounceInv
    <2>5. CollateralHasBid
      BY <2>0, <2>1 DEF RestInv, EscrowInv, CollateralHasBid, Saved, Sold
    <2> QED BY <2>3, <2>4, <2>5
  <1> QED BY <1>1, <1>2, <1>3, AuctionInvariance, RequestNeverLost, PTL DEF Spec

=============================================================================
