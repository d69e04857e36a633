--------------------------- MODULE TaskFlowProofs ---------------------------
(***************************************************************************)
(* Theorems about TaskFlow: what the browser shows of a run is in order,   *)
(* and was done by the server, however the rival, the worker and the sweep *)
(* move the task in between and wherever an answer is lost.                *)
(***************************************************************************)
EXTENDS TaskFlow, TLAPS

Rank == [register |-> 1, create |-> 2, bid |-> 3, assign |-> 4, publish |-> 5, complete |-> 6]

\* A timeline st in which step s has status v: what comes before it is done,
\* what comes after it has not begun.
Stage(st, s, v) ==
    \A r \in StepId :
      st[r] = IF Rank[r] < Rank[s] THEN "done" ELSE IF r = s THEN v ELSE "pending"

\* The steps that make a call.
Calling == StepId \ {"assign"}

\* The timeline that belongs to each place of the run.
StageInv ==
    /\ pc = "ready" => \/ Stage(steps, "register", "pending")
                       \/ \E s \in Calling : Stage(steps, s, "error")
                       \/ Stage(steps, "complete", "done")
    /\ pc \in {"nonce", "call"} => \E s \in Calling : Stage(steps, s, "running")
    /\ pc \in {"poll", "poll_sleep", "poll_last"} => Stage(steps, "complete", "running")
    /\ pc = "before_create"   => Stage(steps, "create", "pending")
    /\ pc = "before_bid"      => Stage(steps, "bid", "pending")
    /\ pc = "before_assigned" => Stage(steps, "assign", "running")
    /\ pc = "before_publish"  => Stage(steps, "publish", "pending")
    /\ pc = "before_complete" => Stage(steps, "complete", "pending")

\* The two panels belong to the timeline.
PanelInv ==
    /\ error  <=> \E s \in StepId : steps[s] = "error"
    /\ result <=> \A s \in StepId : steps[s] = "done"

\* A request is in flight exactly while the run awaits; the ones that are
\* served in several steps are calls, whose earlier steps have left their mark.
WireInv ==
    /\ pc \in Awaiting <=> wire # "none"
    /\ wire \in {"checked", "selected", "auction"} => pc = "call"
    /\ wire = "auction" => Running("bid") /\ bid # "NONE"
    /\ wire = "selected" /\ Running("publish") => "SELECTED" \in had

\* What the server has done for a step that is answered.
Served(s) ==
    CASE s = "register" -> registered
      [] s = "create"   -> "OPEN" \in reached /\ network = "local"
      [] s = "bid"      -> bid # "NONE"
      [] s = "publish"  -> published /\ "SELECTED" \in had
      [] s = "complete" -> reached \cap {"COMPLETING", "COMPLETED"} # {}
      [] OTHER          -> TRUE

\* An answer that is ok was preceded by the effect of its call.
AnswerInv ==
    /\ \A s \in Calling : pc = "call" /\ wire = "ok" /\ Running(s) => Served(s)
    /\ pc \in {"poll", "poll_sleep", "poll_last"} => Served("complete")
    /\ pc = "poll_last" => waited >= PollTimeout
    /\ pc = "poll" /\ wire = "ok" => status \in TaskStatus

\* The status of the task is the last one it has reached, an answer carries
\* one it had, and an auction saves the task before it decides a bid.
ReachedInv ==
    /\ \/ task \in reached
       \/ task = "NONE" /\ reached = {}
    /\ status \in reached \cup {"none"}
    /\ bid \in {"SELECTED", "REJECTED"} => "ASSIGNED" \in reached
    /\ bid \in had \cup {"NONE"}
    /\ \A a \in Party : auction[a].at \in {"save_winner", "reject"} => "ASSIGNED" \in reached

\* The server's part of the type invariant.
ServerType ==
    /\ registered \in BOOLEAN /\ published \in BOOLEAN /\ saving \subseteq {"COMPLETED", "EXPIRED"}
    /\ task \in TaskStatus \cup {"NONE"} /\ reached \subseteq TaskStatus
    /\ bid \in BidStatus /\ had \subseteq BidStatus /\ rival \in BidStatus
    /\ auction \in [Party -> [at : AuctionAwait \cup {"none"}, seen : SUBSET Party]]

IndInv ==
    /\ TypeOK /\ StageInv /\ PanelInv /\ WireInv /\ AnswerInv /\ ReachedInv
    /\ DoneWasServed /\ ShownHappened

-----------------------------------------------------------------------------
(* Lemmas on the timeline.                                                 *)

\* The six equalities a stage stands for.
LEMMA StageSteps ==
    ASSUME NEW st, NEW s \in StepId, NEW v, Stage(st, s, v)
    PROVE  \A r \in StepId : /\ Rank[r] < Rank[s] => st[r] = "done"
                             /\ r = s => st[r] = v
                             /\ Rank[r] > Rank[s] => st[r] = "pending"
  BY DEF Stage, Rank, StepId

\* A step that runs is the one its stage is about.
LEMMA OneRuns ==
    ASSUME NEW s \in StepId, NEW r \in StepId, Stage(steps, s, "running"), Running(r)
    PROVE  r = s
  BY DEF Stage, Running, Rank, StepId

\* Which panels belong to a stage.
LEMMA StagePanels ==
    ASSUME NEW st, NEW s \in StepId, NEW v \in StepStatus, Stage(st, s, v)
    PROVE  /\ (\E r \in StepId : st[r] = "error") <=> v = "error"
           /\ (\A r \in StepId : st[r] = "done") <=> s = "complete" /\ v = "done"
<1>1. \A r \in StepId : Rank[r] \in 1..6 /\ (r # "complete" => Rank[r] < Rank["complete"])
  BY DEF Rank, StepId
<1>2. (\E r \in StepId : st[r] = "error") <=> v = "error"
  BY <1>1 DEF Stage, StepStatus
<1>3. s = "complete" /\ v = "done" => \A r \in StepId : st[r] = "done"
  BY <1>1 DEF Stage
<1>4. (\A r \in StepId : st[r] = "done") => v = "done"
  BY DEF Stage, Rank, StepId
<1>5. (\A r \in StepId : st[r] = "done") => s = "complete"
  BY <1>1 DEF Stage, StepId
<1> QED BY <1>2, <1>3, <1>4, <1>5

\* What patch, patchNext and catch make of a stage.
LEMMA StageDone ==
    ASSUME NEW st \in [StepId -> StepStatus], NEW s \in StepId, NEW n \in StepId,
           Rank[n] = Rank[s] + 1, Stage(st, s, "running")
    PROVE  Stage([st EXCEPT ![s] = "done"], n, "pending")
  BY DEF Stage, Rank, StepId

\* A step is done and the next one runs.
LEMMA StageDoneNext ==
    ASSUME NEW st \in [StepId -> StepStatus], NEW s \in StepId, NEW n \in StepId,
           Rank[n] = Rank[s] + 1, Stage(st, s, "running")
    PROVE  Stage([st EXCEPT ![s] = "done", ![n] = "running"], n, "running")
  BY DEF Stage, Rank, StepId

\* The step that is not done yet changes its status.
LEMMA StageSet ==
    ASSUME NEW st \in [StepId -> StepStatus], NEW s \in StepId, NEW u, NEW v, Stage(st, s, u)
    PROVE  Stage([st EXCEPT ![s] = v], s, v)
  BY DEF Stage, Rank, StepId

\* The step that runs fails.
LEMMA StageError ==
    ASSUME NEW st \in [StepId -> StepStatus], NEW s \in StepId, Stage(st, s, "running")
    PROVE  Stage([r \in StepId |-> IF st[r] = "running" THEN "error" ELSE st[r]], s, "error")
  BY DEF Stage, Rank, StepId

\* While a call is made, exactly the step of the call runs.
LEMMA CallStage ==
    ASSUME StageInv, pc \in {"nonce", "call"}, NEW r \in StepId, Running(r)
    PROVE  Stage(steps, r, "running")
  BY OneRuns DEF StageInv, Calling

\* While a call is in flight only its step runs.
LEMMA OnlyRuns ==
    ASSUME IndInv, pc \in {"nonce", "call"}, NEW s \in StepId, Running(s)
    PROVE  \A r \in StepId : Running(r) => r = s
  BY CallStage, OneRuns DEF IndInv

\* A step that leaves the component alone keeps timeline and panels.
LEMMA UiKept ==
    ASSUME StageInv, PanelInv, UNCHANGED <<ui, pc>>
    PROVE  StageInv' /\ PanelInv'
  BY DEF StageInv, PanelInv, Stage, ui

-----------------------------------------------------------------------------
(* One lemma per action.                                                   *)

\* What a step of the server or of the others keeps: the component stays as
\* it is, and what the task and the bid have been they have been.
LEMMA ServerStep ==
    ASSUME IndInv, UNCHANGED <<config, ui, pc, waited, runs>>,
           wire' \in {"none", "sent", "checked", "selected", "auction", "ok", "failed"},
           status' \in TaskStatus \cup {"none"}, ServerType', WireInv', ReachedInv',
           registered => registered', published => published',
           reached \subseteq reached', had \subseteq had',
           bid # "NONE" => bid' # "NONE",
           bid' \in {bid, "PENDING"} \/ "ASSIGNED" \in reached',
           \A s \in Calling : pc = "call" /\ wire' = "ok" /\ Running(s) => Served(s) \/ Served(s)',
           pc = "poll" /\ wire' = "ok" => status' \in TaskStatus
    PROVE  IndInv'
<1>1. StageInv' /\ PanelInv'
  BY UiKept DEF IndInv, ui
<1>2. TypeOK'
  BY DEF IndInv, TypeOK, ServerType, ui, config
<1>3. \A s \in StepId : Served(s) => Served(s)'
  BY DEF Served, StepId, config
<1>4. AnswerInv'
  <2>1. \A s \in Calling : pc' = "call" /\ wire' = "ok" /\ Running(s)' => Served(s)'
    BY <1>3 DEF Running, Calling, ui
  <2>2. pc' \in {"poll", "poll_sleep", "poll_last"} => Served("complete")'
    BY <1>3 DEF IndInv, AnswerInv, StepId
  <2>3. pc' = "poll_last" => waited' >= PollTimeout
    BY DEF IndInv, AnswerInv
  <2> QED BY <2>1, <2>2, <2>3 DEF AnswerInv
<1>5. DoneWasServed'
  <2>1. steps' = steps /\ network' = network
    BY DEF ui, config
  <2> QED BY <2>1 DEF IndInv, DoneWasServed
<1>6. ShownHappened'
  <2>1. taskState' = taskState /\ result' = result /\ waited' = waited
    BY DEF ui
  <2> QED BY <2>1 DEF IndInv, ShownHappened
<1> QED BY <1>1, <1>2, <1>4, <1>5, <1>6 DEF IndInv, WireInv

\* The steps that change nothing but the request.
LEMMA WireStep ==
    ASSUME IndInv, UNCHANGED <<config, ui, pc, waited, status, server, runs>>,
           wire # "none", wire' \in {"ok", "failed", "checked", "selected"},
           wire' = "ok" => pc = "nonce",
           wire' \in {"checked", "selected"} => pc = "call",
           wire' = "selected" /\ Running("publish") => "SELECTED" \in had
    PROVE  IndInv'
<1>1. ServerType' /\ ReachedInv'
  BY DEF IndInv, TypeOK, ServerType, ReachedInv, server, market
<1>2. WireInv'
  BY DEF IndInv, WireInv, Running, ui, server, market
<1>3. status' \in TaskStatus \cup {"none"}
  BY DEF IndInv, TypeOK
<1> QED BY <1>1, <1>2, <1>3, ServerStep DEF server, market

\* A call that is refused, an answer that is lost, a nonce, and the reads of a
\* handler.
LEMMA RefuseStep == ASSUME IndInv, Refuse PROVE IndInv'
  BY WireStep DEF Refuse

\* An answer that is lost is no effect undone.
LEMMA ReplyLostStep == ASSUME IndInv, ReplyLost PROVE IndInv'
  BY WireStep DEF ReplyLost

\* A nonce answers no step.
LEMMA ServeNonceStep == ASSUME IndInv, ServeNonce PROVE IndInv'
  BY WireStep DEF ServeNonce

\* The task is read.
LEMMA ServeCheckedStep == ASSUME IndInv, ServeChecked PROVE IndInv'
  BY WireStep DEF ServeChecked, ServeBid, ServePublish, ServeComplete, Sent

\* The bids are read: what is selected then has been selected.
LEMMA ServeSelectedStep == ASSUME IndInv, ServeSelected PROVE IndInv'
<1>1. UNCHANGED <<config, ui, pc, waited, status, server, runs>> /\ wire = "checked" /\ wire' = "selected"
  BY DEF ServeSelected, At
<1>2. pc = "call"
  BY <1>1 DEF IndInv, WireInv
<1>3. Running("publish") => "SELECTED" \in had
  <2>1. ~(Running("publish") /\ Running("complete"))
    BY <1>2, OnlyRuns DEF StepId
  <2> QED BY <2>1 DEF ServeSelected, At, IndInv, ReachedInv
<1> QED BY <1>1, <1>2, <1>3, WireStep

\* The effect of a call in flight precedes its answer: s is the step it is for.
LEMMA EffectStep ==
    ASSUME IndInv, NEW s \in Calling, pc = "call", Running(s), wire # "none", wire' = "ok",
           UNCHANGED <<config, ui, pc, waited, bid, had, rival, auction, saving, runs>>,
           status' \in {status, task'}, registered' \in BOOLEAN, published' \in BOOLEAN,
           registered => registered', published => published',
           \/ task' = task /\ reached' = reached
           \/ task' \in TaskStatus /\ reached' = reached \cup {task'},
           status' = "NONE" => FALSE, Served(s)'
    PROVE  IndInv'
<1>1. \A r \in StepId : Running(r) => r = s
  BY OnlyRuns DEF Calling
<1>2. /\ task' \in TaskStatus \cup {"NONE"} /\ reached' \subseteq TaskStatus
      /\ status' \in TaskStatus \cup {"none"}
  BY DEF IndInv, TypeOK
<1>3. ServerType'
  BY <1>2 DEF IndInv, TypeOK, ServerType
<1>4. WireInv'
  BY DEF WireInv, Awaiting
<1>5. ReachedInv'
  BY DEF IndInv, ReachedInv, TypeOK
<1> QED BY <1>1, <1>2, <1>3, <1>4, <1>5, ServerStep DEF Calling

\* The effect of the call precedes its answer.
LEMMA ServeRegisterStep == ASSUME IndInv, ServeRegister PROVE IndInv'
<1>1. /\ UNCHANGED <<config, ui, pc, waited, bid, had, rival, auction, saving, runs>>
      /\ task' = task /\ reached' = reached /\ status' = status /\ published' = published
      /\ registered' = TRUE /\ wire = "sent" /\ wire' = "ok" /\ pc = "call" /\ Running("register")
  BY DEF ServeRegister, Sent, market
<1>2. Served("register")'
  BY <1>1 DEF Served
<1>3. published \in BOOLEAN /\ status # "NONE" /\ "register" \in Calling
  BY DEF IndInv, TypeOK, TaskStatus, Calling, StepId
<1> QED BY <1>1, <1>2, <1>3, EffectStep

\* The effect of the call precedes its answer.
LEMMA ServeCreateStep == ASSUME IndInv, ServeCreate PROVE IndInv'
<1>1. Served("create")'
  BY DEF ServeCreate, Becomes, Served, config
<1> QED BY <1>1, EffectStep DEF ServeCreate, Becomes, Sent, Calling, StepId, TaskStatus, IndInv, TypeOK

\* Only a request that has found its bid selected publishes.
LEMMA ServePublishedStep == ASSUME IndInv, ServePublished PROVE IndInv'
<1>1. /\ UNCHANGED <<config, ui, pc, waited, bid, had, rival, auction, saving, runs>>
      /\ task' = task /\ reached' = reached /\ status' = status /\ registered' = registered
      /\ published' = TRUE /\ wire = "selected" /\ wire' = "ok" /\ Running("publish")
  BY DEF ServePublished, At, market
<1>2. pc = "call" /\ "SELECTED" \in had
  BY <1>1 DEF IndInv, WireInv
<1>3. Served("publish")'
  BY <1>1, <1>2 DEF Served
<1>4. registered \in BOOLEAN /\ status # "NONE" /\ "publish" \in Calling
  BY DEF IndInv, TypeOK, TaskStatus, Calling, StepId
<1> QED BY <1>1, <1>2, <1>3, <1>4, EffectStep

\* The effect of the call precedes its answer.
LEMMA ServeCompletedStep == ASSUME IndInv, ServeCompleted PROVE IndInv'
<1>1. /\ UNCHANGED <<config, ui, pc, waited, bid, had, rival, auction, saving, runs>>
      /\ status' = status /\ registered' = registered /\ published' = published
      /\ wire = "selected" /\ wire' = "ok" /\ Running("complete")
      /\ task' \in {"COMPLETING", "COMPLETED"} /\ reached' = reached \cup {task'}
  BY DEF ServeCompleted, At, Becomes
<1>2. pc = "call"
  BY <1>1 DEF IndInv, WireInv
<1>3. Served("complete")'
  BY <1>1 DEF Served
<1>4. /\ registered \in BOOLEAN /\ published \in BOOLEAN /\ status # "NONE"
      /\ "complete" \in Calling /\ task' \in TaskStatus
  BY <1>1 DEF IndInv, TypeOK, TaskStatus, Calling, StepId
<1> QED BY <1>1, <1>2, <1>3, <1>4, EffectStep

\* A saved bid is there whatever becomes of the auction.
LEMMA ServeBidSavedStep == ASSUME IndInv, ServeBidSaved PROVE IndInv'
<1>1. /\ UNCHANGED <<config, ui, pc, waited, status, registered, task, reached, rival, published,
                     saving, runs>>
      /\ wire = "checked" /\ Running("bid") /\ wire' \in {"auction", "failed"}
      /\ bid' = "PENDING" /\ had' = had \cup {"PENDING"}
  BY DEF ServeBidSaved, At
<1>2. pc = "call"
  BY <1>1 DEF IndInv, WireInv
<1>3. /\ auction' \in [Party -> [at : AuctionAwait \cup {"none"}, seen : SUBSET Party]]
      /\ \A a \in Party : auction'[a].at \in {auction[a].at, "find_task"}
  <2>1. auction \in [Party -> [at : AuctionAwait \cup {"none"}, seen : SUBSET Party]]
    BY DEF IndInv, TypeOK
  <2>2. "find_task" \in AuctionAwait /\ "run" \in Party
    BY DEF AuctionAwait, Party
  <2> QED BY <2>1, <2>2 DEF ServeBidSaved
<1>4. ServerType'
  BY <1>1, <1>3 DEF IndInv, TypeOK, ServerType, BidStatus
<1>5. WireInv'
  BY <1>1, <1>2 DEF WireInv, Awaiting, Running, ui
<1>6. ReachedInv'
  BY <1>1, <1>3 DEF IndInv, ReachedInv
<1>7. status' \in TaskStatus \cup {"none"}
  BY <1>1 DEF IndInv, TypeOK
<1> QED BY <1>1, <1>2, <1>4, <1>5, <1>6, <1>7, ServerStep

\* A task that is polled exists: its approval was served.
LEMMA ServeGetTaskStep == ASSUME IndInv, ServeGetTask PROVE IndInv'
<1>1. UNCHANGED <<config, ui, pc, waited, server, runs>> /\ wire' = "ok" /\ status' = task
  BY DEF ServeGetTask
<1>2. pc \in {"poll", "poll_last"} /\ wire = "sent"
  BY DEF ServeGetTask
<1>3. task \in TaskStatus /\ task \in reached
  BY DEF IndInv, ServeGetTask, AnswerInv, Served, ReachedInv, TypeOK
<1>4. ServerType' /\ ReachedInv'
  BY <1>1, <1>3 DEF IndInv, TypeOK, ServerType, ReachedInv, server, market
<1>5. WireInv'
  BY <1>1, <1>2 DEF WireInv, Awaiting
<1> QED BY <1>1, <1>2, <1>3, <1>4, <1>5, ServerStep DEF server, market

\* Whatever an auction has read, it saves the task before a bid, and what it
\* saves of a bid is a decision.
LEMMA AuctionStep ==
    ASSUME IndInv, NEW a \in Party, Auction(a)
    PROVE  IndInv'
<1>1. /\ UNCHANGED <<config, ui, pc, waited, status, registered, published, saving, runs>>
      /\ auction \in [Party -> [at : AuctionAwait \cup {"none"}, seen : SUBSET Party]]
      /\ bid \in BidStatus /\ rival \in BidStatus /\ had \subseteq BidStatus
  BY DEF Auction, IndInv, TypeOK
<1>2. \A l \in AuctionAwait : AuctionGoes(a, l) =>
         /\ auction' \in [Party -> [at : AuctionAwait \cup {"none"}, seen : SUBSET Party]]
         /\ auction'[a].at = l /\ wire' = wire
         /\ \A b \in Party \ {a} : auction'[b] = auction[b]
  BY <1>1 DEF AuctionGoes
<1>3. AuctionEnds(a) =>
         /\ auction' \in [Party -> [at : AuctionAwait \cup {"none"}, seen : SUBSET Party]]
         /\ auction'[a].at = "none" /\ (wire' = wire \/ (wire' = "ok" /\ wire = "auction"))
         /\ \A b \in Party \ {a} : auction'[b] = auction[b]
  BY <1>1 DEF AuctionEnds, NoAuction
<1>4. auction[a].at \in {"save_winner", "reject"} => "ASSIGNED" \in reached
  BY DEF IndInv, ReachedInv
<1> DEFINE Moved ==
      /\ auction' \in [Party -> [at : AuctionAwait \cup {"none"}, seen : SUBSET Party]]
      /\ \A b \in Party \ {a} : auction'[b] = auction[b]
      /\ wire' = wire \/ (wire' = "ok" /\ wire = "auction")
      /\ auction'[a].at \in {"save_winner", "reject"} => "ASSIGNED" \in reached'
<1>5. ASSUME NEW b \in Party, NEW s \in {"SELECTED", "REJECTED"}, SaveBid(b, s)
      PROVE  /\ bid' \in {bid, s} /\ rival' \in {rival, s} /\ had \subseteq had'
             /\ had' \subseteq BidStatus /\ (bid' = bid \/ bid' \in had')
  BY <1>1, <1>5 DEF SaveBid, BidStatus
<1>6. /\ Moved
      /\ \/ task' = task /\ reached' = reached
         \/ task' = "ASSIGNED" /\ reached' = reached \cup {"ASSIGNED"}
      /\ bid' = bid \/ (bid' \in {"SELECTED", "REJECTED"} /\ "ASSIGNED" \in reached' /\ bid' \in had')
      /\ rival' \in BidStatus /\ had \subseteq had' /\ had' \subseteq BidStatus
  <2>1. CASE AuctionFindTask(a)
    BY <1>1, <1>2, <1>3, <2>1 DEF AuctionFindTask, AuctionAwait
  <2>2. CASE AuctionFindBids(a)
    <3>1. CASE AuctionEnds(a)
      BY <1>1, <1>3, <2>2, <3>1 DEF AuctionFindBids
    <3>2. CASE /\ auction' = [auction EXCEPT ![a] = [at |-> "save_task", seen |-> PendingBids]]
               /\ UNCHANGED wire
      <4>1. [at |-> "save_task", seen |-> PendingBids] \in [at : AuctionAwait \cup {"none"}, seen : SUBSET Party]
        BY DEF AuctionAwait, PendingBids
      <4>2. Moved
        BY <1>1, <3>2, <4>1
      <4> QED BY <1>1, <2>2, <4>2 DEF AuctionFindBids
    <3> QED BY <2>2, <3>1, <3>2 DEF AuctionFindBids
  <2>3. CASE AuctionSaveTask(a)
    BY <1>1, <1>2, <2>3 DEF AuctionSaveTask, Becomes, AuctionAwait
  <2>4. CASE AuctionSaveWinner(a)
    <3>1. WinningBid(a) \in Party
      BY DEF WinningBid, Party
    <3>2. Moved
      BY <1>2, <1>3, <1>4, <2>4 DEF AuctionSaveWinner, AuctionAwait
    <3> QED BY <1>1, <1>4, <1>5, <2>4, <3>1, <3>2 DEF AuctionSaveWinner, BidStatus
  <2>5. CASE AuctionReject(a)
    <3>1. PICK b \in Party : SaveBid(b, "REJECTED")
      BY <1>1, <2>5 DEF AuctionReject
    <3>2. Moved
      BY <1>3, <2>5 DEF AuctionReject
    <3> QED BY <1>1, <1>4, <1>5, <2>5, <3>1, <3>2 DEF AuctionReject, BidStatus
  <2>6. CASE AuctionThrows(a)
    BY <1>1, <1>3, <2>6 DEF AuctionThrows
  <2> QED BY <2>1, <2>2, <2>3, <2>4, <2>5, <2>6 DEF Auction
<1>7. ServerType'
  BY <1>1, <1>6 DEF IndInv, TypeOK, ServerType, BidStatus, TaskStatus
<1>8. ReachedInv'
  BY <1>1, <1>6 DEF IndInv, ReachedInv
<1>9. WireInv'
  <2>1. bid # "NONE" => bid' # "NONE"
    BY <1>6
  <2> QED BY <1>1, <1>6, <2>1 DEF IndInv, WireInv, Running, Awaiting, ui
<1>10. wire' = "ok" => wire = "ok" \/ (pc = "call" /\ Running("bid") /\ bid' # "NONE")
  BY <1>6 DEF IndInv, WireInv
<1>11. \A s \in Calling : pc = "call" /\ wire' = "ok" /\ Running(s) => Served(s) \/ Served(s)'
  BY <1>10, OnlyRuns DEF IndInv, AnswerInv, Calling, Served, StepId
<1>12. /\ wire' \in {"none", "sent", "checked", "selected", "auction", "ok", "failed"}
       /\ status' \in TaskStatus \cup {"none"}
       /\ pc = "poll" /\ wire' = "ok" => status' \in TaskStatus
  BY <1>1, <1>6, <1>10 DEF IndInv, TypeOK, AnswerInv
<1> QED BY <1>1, <1>6, <1>7, <1>8, <1>9, <1>11, <1>12, ServerStep

\* The others bid, start an auction, and add to what the task has reached.
LEMMA OthersStep ==
    ASSUME IndInv, RivalBids \/ RivalAuction \/ OthersRead \/ OthersSave
    PROVE  IndInv'
<1>1. UNCHANGED <<config, ui, pc, waited, wire, status, registered, bid, had, published, runs>>
  BY DEF RivalBids, RivalAuction, AuctionGoes, OthersRead, OthersSave, market
<1>2. \/ task' = task /\ reached' = reached
      \/ task' \in TaskStatus /\ reached' = reached \cup {task'}
  BY DEF RivalBids, RivalAuction, OthersRead, OthersSave, Becomes, market, IndInv, TypeOK, TaskStatus
<1>3. rival' \in BidStatus /\ saving' \subseteq {"COMPLETED", "EXPIRED"}
  BY DEF RivalBids, RivalAuction, OthersRead, OthersSave, market, IndInv, TypeOK, BidStatus
<1>4. /\ auction' \in [Party -> [at : AuctionAwait \cup {"none"}, seen : SUBSET Party]]
      /\ \A a \in Party : auction'[a].at \in {auction[a].at, "find_task"}
  <2>1. auction \in [Party -> [at : AuctionAwait \cup {"none"}, seen : SUBSET Party]]
    BY DEF IndInv, TypeOK
  <2>2. "find_task" \in AuctionAwait /\ "other" \in Party
    BY DEF AuctionAwait, Party
  <2> QED BY <2>1, <2>2 DEF RivalBids, RivalAuction, AuctionGoes, OthersRead, OthersSave, market
<1>5. ServerType'
  BY <1>1, <1>2, <1>3, <1>4 DEF IndInv, TypeOK, ServerType
<1>6. ReachedInv'
  BY <1>1, <1>2, <1>4 DEF IndInv, ReachedInv
<1>7. WireInv'
  BY <1>1 DEF IndInv, WireInv, Running, ui
<1>8. /\ wire' \in {"none", "sent", "checked", "selected", "auction", "ok", "failed"}
      /\ status' \in TaskStatus \cup {"none"}
      /\ pc = "poll" /\ wire' = "ok" => status' \in TaskStatus
      /\ \A s \in Calling : pc = "call" /\ wire' = "ok" /\ Running(s) => Served(s)
  BY <1>1 DEF IndInv, TypeOK, AnswerInv
<1> QED BY <1>1, <1>2, <1>5, <1>6, <1>7, <1>8, ServerStep

\* Timeline and panels belong together when neither panel is there.
LEMMA NoPanels ==
    ASSUME NEW s \in StepId, NEW v \in {"pending", "running"}, Stage(steps, s, v), PanelInv,
           error \in BOOLEAN, result \in BOOLEAN
    PROVE  error = FALSE /\ result = FALSE
  BY StagePanels DEF PanelInv, StepStatus

\* Before a step has an outcome no panel has to be shown.
LEMMA NoPanelsNext ==
    ASSUME NEW s \in StepId, NEW v \in {"pending", "running"}, Stage(steps', s, v),
           error' = FALSE, result' = FALSE
    PROVE  PanelInv'
  BY StagePanels DEF PanelInv, StepStatus

\* A run starts with a timeline of its own, and nothing shown or served.
LEMMA StartStep ==
    ASSUME IndInv, Start
    PROVE  IndInv'
<1>1. Stage(steps', "register", "running")
  BY DEF Start, Pending, Stage, Rank, StepId
<1>2. pc' \in {"nonce", "call"}
  BY DEF Start, signedRequest
<1>3. StageInv'
  BY <1>1, <1>2 DEF StageInv, Calling, StepId
<1>4. PanelInv'
  BY <1>1, NoPanelsNext DEF Start, StepId
<1>5. steps' \in [StepId -> StepStatus]
  BY DEF Start, Pending, StepStatus
<1>6. TypeOK'
  <2>1. waited' \in 0..PollTimeout /\ runs' \in 0..MaxRuns
    BY FlowAssumption DEF IndInv, TypeOK, Start
  <2>2. auction' \in [Party -> [at : AuctionAwait \cup {"none"}, seen : SUBSET Party]]
    BY DEF Start, NewTask, NoAuction
  <2>3. /\ registered' \in BOOLEAN /\ published' \in BOOLEAN /\ saving' \subseteq {"COMPLETED", "EXPIRED"}
        /\ task' \in TaskStatus \cup {"NONE"} /\ reached' \subseteq TaskStatus
        /\ bid' \in BidStatus /\ had' \subseteq BidStatus /\ rival' \in BidStatus
    BY DEF Start, NewTask, BidStatus
  <2> QED BY <1>2, <1>5, <2>1, <2>2, <2>3 DEF IndInv, TypeOK, Start, signedRequest, request, Awaiting, config
<1>7. WireInv'
  BY <1>2 DEF WireInv, Start, signedRequest, request, Awaiting
<1>8. AnswerInv'
  BY <1>2 DEF AnswerInv, Start, signedRequest, request
<1>9. ReachedInv'
  BY DEF ReachedInv, Start, NewTask, NoAuction
<1>10. DoneWasServed'
  BY <1>1, StageSteps DEF DoneWasServed, StepId, Rank
<1>11. ShownHappened'
  BY DEF ShownHappened, Start
<1> QED BY <1>3, <1>4, <1>6, <1>7, <1>8, <1>9, <1>10, <1>11 DEF IndInv

\* The signed request follows the nonce for the same step.
LEMMA SendSignedStep ==
    ASSUME IndInv, SendSigned
    PROVE  IndInv'
<1>1. StageInv'
  BY DEF IndInv, StageInv, SendSigned, Answered, ui
<1>2. PanelInv'
  BY DEF IndInv, PanelInv, SendSigned, ui
<1>3. TypeOK'
  BY DEF IndInv, TypeOK, SendSigned, Answered, request, ui, config, server, market, Awaiting
<1>4. WireInv' /\ AnswerInv'
  BY DEF IndInv, WireInv, AnswerInv, SendSigned, Answered, request, ui, server, market, Awaiting
<1>5. ReachedInv' /\ DoneWasServed' /\ ShownHappened'
  BY DEF IndInv, ReachedInv, DoneWasServed, ShownHappened, SendSigned, ui, config, server, market
<1> QED BY <1>1, <1>2, <1>3, <1>4, <1>5 DEF IndInv

\* What every stretch that ends one step and sleeps before the next keeps.
LEMMA AnsweredStep ==
    ASSUME IndInv, NEW s \in Calling \ {"complete"},
           Answered("call"), Running(s),
           StageInv', PanelInv', steps' \in [StepId -> StepStatus],
           \A r \in StepId : steps'[r] = "done" => steps[r] = "done" \/ r = s,
           pc' \in Sleeping \ {"poll_sleep"},
           wire' = "none", taskState' \in {taskState, status},
           UNCHANGED <<config, loading, result, error, waited, status, server, runs>>
    PROVE  IndInv'
<1>2. Stage(steps, s, "running")
  BY CallStage DEF IndInv, Calling, Answered
<1>3. error = FALSE /\ result = FALSE
  BY <1>2, NoPanels DEF IndInv, TypeOK, Calling
<1>5. TypeOK'
  BY DEF IndInv, TypeOK, Answered, Awaiting, Sleeping, Before, config, server, market
<1>6. WireInv' /\ AnswerInv'
  BY DEF WireInv, AnswerInv, Awaiting, Sleeping, Before
<1>7. ReachedInv'
  BY DEF IndInv, ReachedInv, server, market
<1>8. Served(s)
  BY DEF IndInv, AnswerInv, Answered
<1>9. DoneWasServed'
  BY <1>8 DEF IndInv, DoneWasServed, Served, Calling, StepId, config, server, market
<1>10. ShownHappened'
  BY <1>3 DEF IndInv, ShownHappened, ReachedInv, server, market
<1> QED BY <1>5, <1>6, <1>7, <1>9, <1>10 DEF IndInv

\* The registration is answered.
LEMMA RegisterAnsweredStep ==
    ASSUME IndInv, RegisterAnswered
    PROVE  IndInv'
<1>1. Stage(steps, "register", "running")
  BY CallStage DEF IndInv, RegisterAnswered, Answered, StepId
<1>2. Stage(steps', "create", "pending")
  <2>1. Rank["create"] = Rank["register"] + 1
    BY DEF Rank
  <2> QED BY <1>1, <2>1, StageDone DEF IndInv, TypeOK, RegisterAnswered, patch, StepId
<1>3. error = FALSE /\ result = FALSE
  BY <1>1, NoPanels DEF IndInv, TypeOK, StepId
<1>4. StageInv'
  BY <1>2 DEF StageInv, RegisterAnswered, Before
<1>5. PanelInv'
  BY <1>2, <1>3, NoPanelsNext DEF RegisterAnswered, StepId
<1>6. /\ steps' \in [StepId -> StepStatus]
      /\ \A r \in StepId : steps'[r] = "done" => steps[r] = "done" \/ r = "register"
  BY DEF IndInv, TypeOK, RegisterAnswered, patch, StepId, StepStatus
<1>7. pc' \in Sleeping \ {"poll_sleep"}
  BY DEF RegisterAnswered, Sleeping, Before
<1> QED BY <1>4, <1>5, <1>6, <1>7, AnsweredStep DEF RegisterAnswered, Calling, StepId

\* The creation is answered.
LEMMA CreateAnsweredStep ==
    ASSUME IndInv, CreateAnswered
    PROVE  IndInv'
<1>1. Stage(steps, "create", "running")
  BY CallStage DEF IndInv, CreateAnswered, Answered, StepId
<1>2. Stage(steps', "bid", "pending")
  <2>1. Rank["bid"] = Rank["create"] + 1
    BY DEF Rank
  <2> QED BY <1>1, <2>1, StageDone DEF IndInv, TypeOK, CreateAnswered, patch, StepId
<1>3. error = FALSE /\ result = FALSE
  BY <1>1, NoPanels DEF IndInv, TypeOK, StepId
<1>4. StageInv'
  BY <1>2 DEF StageInv, CreateAnswered, Before
<1>5. PanelInv'
  BY <1>2, <1>3, NoPanelsNext DEF CreateAnswered, StepId
<1>6. /\ steps' \in [StepId -> StepStatus]
      /\ \A r \in StepId : steps'[r] = "done" => steps[r] = "done" \/ r = "create"
  BY DEF IndInv, TypeOK, CreateAnswered, patch, StepId, StepStatus
<1>7. pc' \in Sleeping \ {"poll_sleep"}
  BY DEF CreateAnswered, Sleeping, Before
<1> QED BY <1>4, <1>5, <1>6, <1>7, AnsweredStep DEF CreateAnswered, Calling, StepId

\* The bid is answered.
LEMMA BidAnsweredStep ==
    ASSUME IndInv, BidAnswered
    PROVE  IndInv'
<1>1. Stage(steps, "bid", "running")
  BY CallStage DEF IndInv, BidAnswered, Answered, StepId
<1>2. Stage(steps', "assign", "running")
  <2>1. Rank["assign"] = Rank["bid"] + 1
    BY DEF Rank
  <2> QED BY <1>1, <2>1, StageDoneNext DEF IndInv, TypeOK, BidAnswered, patchNext, StepId
<1>3. error = FALSE /\ result = FALSE
  BY <1>1, NoPanels DEF IndInv, TypeOK, StepId
<1>4. StageInv'
  BY <1>2 DEF StageInv, BidAnswered, Before
<1>5. PanelInv'
  BY <1>2, <1>3, NoPanelsNext DEF BidAnswered, StepId
<1>6. /\ steps' \in [StepId -> StepStatus]
      /\ \A r \in StepId : steps'[r] = "done" => steps[r] = "done" \/ r = "bid"
  BY DEF IndInv, TypeOK, BidAnswered, patchNext, StepId, StepStatus
<1>7. pc' \in Sleeping \ {"poll_sleep"}
  BY DEF BidAnswered, Sleeping, Before
<1> QED BY <1>4, <1>5, <1>6, <1>7, AnsweredStep DEF BidAnswered, Calling, StepId

\* The publication is answered.
LEMMA PublishAnsweredStep ==
    ASSUME IndInv, PublishAnswered
    PROVE  IndInv'
<1>1. Stage(steps, "publish", "running")
  BY CallStage DEF IndInv, PublishAnswered, Answered, StepId
<1>2. Stage(steps', "complete", "pending")
  <2>1. Rank["complete"] = Rank["publish"] + 1
    BY DEF Rank
  <2> QED BY <1>1, <2>1, StageDone DEF IndInv, TypeOK, PublishAnswered, patch, StepId
<1>3. error = FALSE /\ result = FALSE
  BY <1>1, NoPanels DEF IndInv, TypeOK, StepId
<1>4. StageInv'
  BY <1>2 DEF StageInv, PublishAnswered, Before
<1>5. PanelInv'
  BY <1>2, <1>3, NoPanelsNext DEF PublishAnswered, StepId
<1>6. /\ steps' \in [StepId -> StepStatus]
      /\ \A r \in StepId : steps'[r] = "done" => steps[r] = "done" \/ r = "publish"
  BY DEF IndInv, TypeOK, PublishAnswered, patch, StepId, StepStatus
<1>7. pc' \in Sleeping \ {"poll_sleep"}
  BY DEF PublishAnswered, Sleeping, Before
<1> QED BY <1>4, <1>5, <1>6, <1>7, AnsweredStep DEF PublishAnswered, Calling, StepId

\* The assignment is shown while the bid is at least saved.
LEMMA ShowAssignedStep ==
    ASSUME IndInv, ShowAssigned
    PROVE  IndInv'
<1>1. Stage(steps, "assign", "running")
  BY DEF IndInv, StageInv, ShowAssigned, Before
<1>2. Stage(steps', "publish", "pending")
  <2>1. Rank["publish"] = Rank["assign"] + 1
    BY DEF Rank
  <2> QED BY <1>1, <2>1, StageDone DEF IndInv, TypeOK, ShowAssigned, patch, StepId
<1>3. error = FALSE /\ result = FALSE
  BY <1>1, NoPanels DEF IndInv, TypeOK, StepId
<1>4. StageInv'
  BY <1>2 DEF StageInv, ShowAssigned, Before
<1>5. PanelInv'
  BY <1>2, <1>3, NoPanelsNext DEF ShowAssigned, StepId
<1>6. steps' \in [StepId -> StepStatus] /\ (\A r \in StepId : r # "assign" => steps'[r] = steps[r])
  BY DEF IndInv, TypeOK, ShowAssigned, patch, StepId, StepStatus
<1>7. steps["bid"] = "done"
  BY <1>1, StageSteps DEF StepId, Rank
<1>8. TypeOK'
  BY <1>6 DEF IndInv, TypeOK, ShowAssigned, TaskStatus, Awaiting, Sleeping, Before, config, server, market
<1>9. WireInv' /\ AnswerInv'
  BY DEF IndInv, WireInv, AnswerInv, ShowAssigned, Awaiting, Before
<1>10. ReachedInv'
  BY DEF IndInv, ReachedInv, ShowAssigned, server, market
<1>11. DoneWasServed'
  BY <1>6 DEF IndInv, DoneWasServed, ShowAssigned, StepId, config, server, market
<1>12. ShownHappened'
  BY <1>3, <1>7 DEF IndInv, TypeOK, BidStatus, DoneWasServed, ReachedInv, ShownHappened, ShowAssigned, server, market
<1> QED BY <1>4, <1>5, <1>8, <1>9, <1>10, <1>11, <1>12 DEF IndInv

\* The next step is shown as running and its call is made.
LEMMA NextStepStep ==
    ASSUME IndInv, NextStep
    PROVE  IndInv'
<1>1. PICK n \in {"create", "bid", "publish", "complete"} : pc = Before[n] /\ patch(n, "running")
  BY DEF NextStep
<1>2. Stage(steps, n, "pending") /\ n \in StepId /\ n \in Calling
  BY <1>1 DEF IndInv, StageInv, Before, StepId, Calling
<1>3. Stage(steps', n, "running")
  BY <1>1, <1>2, StageSet DEF IndInv, TypeOK, patch
<1>4. error = FALSE /\ result = FALSE
  BY <1>2, NoPanels DEF IndInv, TypeOK
<1>5. pc' \in {"nonce", "call"} /\ wire' = "sent"
  BY DEF NextStep, signedRequest, request
<1>6. StageInv'
  BY <1>2, <1>3, <1>5 DEF StageInv
<1>7. PanelInv'
  BY <1>2, <1>3, <1>4, NoPanelsNext DEF NextStep
<1>8. steps' \in [StepId -> StepStatus] /\ (\A r \in StepId : r # n => steps'[r] = steps[r])
  BY <1>1, <1>2 DEF IndInv, TypeOK, patch, StepStatus
<1>9. TypeOK'
  BY <1>1, <1>5, <1>8 DEF IndInv, TypeOK, NextStep, Awaiting, Sleeping, Before, config, server, market
<1>10. WireInv' /\ AnswerInv'
  BY <1>5 DEF WireInv, AnswerInv, Awaiting
<1>11. ReachedInv'
  BY DEF IndInv, ReachedInv, NextStep, server, market
<1>12. steps'[n] # "done"
  BY <1>2, <1>3, StageSteps
<1>13. DoneWasServed'
  BY <1>2, <1>8, <1>12 DEF IndInv, DoneWasServed, NextStep, StepId, config, server, market
<1>14. ShownHappened'
  BY <1>4 DEF IndInv, ShownHappened, NextStep, server, market
<1> QED BY <1>6, <1>7, <1>9, <1>10, <1>11, <1>13, <1>14 DEF IndInv

\* The approval was served, so COMPLETING was reached or skipped.
LEMMA CompleteAnsweredStep ==
    ASSUME IndInv, CompleteAnswered
    PROVE  IndInv'
<1>1. Stage(steps, "complete", "running")
  BY CallStage DEF IndInv, CompleteAnswered, Answered, StepId
<1>2. error = FALSE /\ result = FALSE
  BY <1>1, NoPanels DEF IndInv, TypeOK, StepId
<1>3. Served("complete")
  BY DEF IndInv, AnswerInv, CompleteAnswered, Answered, Calling, StepId
<1>4. StageInv' /\ PanelInv'
  BY <1>1 DEF IndInv, StageInv, PanelInv, CompleteAnswered
<1>5. TypeOK'
  BY DEF IndInv, TypeOK, CompleteAnswered, Answered, request, TaskStatus, Awaiting, config, server, market
<1>6. WireInv' /\ AnswerInv'
  BY <1>3 DEF WireInv, AnswerInv, Served, CompleteAnswered, request, Awaiting, server, market
<1>7. ReachedInv' /\ DoneWasServed'
  BY DEF IndInv, ReachedInv, DoneWasServed, CompleteAnswered, server, market, config
<1>8. ShownHappened'
  BY <1>2, <1>3 DEF Served, ShownHappened, CompleteAnswered, server, market
<1> QED BY <1>4, <1>5, <1>6, <1>7, <1>8 DEF IndInv

\* Another poll follows.
LEMMA PollAgainStep ==
    ASSUME IndInv, PollAgain
    PROVE  IndInv'
<1>1. StageInv' /\ PanelInv'
  BY DEF IndInv, StageInv, PanelInv, PollAgain, Answered, ui
<1>2. TypeOK'
  BY DEF IndInv, TypeOK, PollAgain, Answered, Awaiting, Sleeping, ui, config, server, market
<1>3. WireInv' /\ AnswerInv'
  BY DEF IndInv, WireInv, AnswerInv, Served, PollAgain, Answered, Awaiting, ui, server, market
<1>4. ReachedInv' /\ DoneWasServed' /\ ShownHappened'
  BY DEF IndInv, ReachedInv, DoneWasServed, ShownHappened, PollAgain, ui, config, server, market
<1> QED BY <1>1, <1>2, <1>3, <1>4 DEF IndInv

\* The last poll is made when the time is over, and not before.
LEMMA PollSleepsStep ==
    ASSUME IndInv, PollSleeps
    PROVE  IndInv'
<1>1. pc' \in {"poll", "poll_last"} /\ wire' = "sent" /\ waited' \in 0..PollTimeout /\ waited' >= waited
  BY FlowAssumption DEF IndInv, TypeOK, PollSleeps, request
<1>2. pc' = "poll_last" => waited' >= PollTimeout
  BY <1>1, FlowAssumption DEF PollSleeps, WithinTimeout
<1>3. StageInv' /\ PanelInv'
  BY <1>1 DEF IndInv, StageInv, PanelInv, PollSleeps, ui
<1>4. TypeOK'
  BY <1>1 DEF IndInv, TypeOK, PollSleeps, Awaiting, ui, config, server, market
<1>5. WireInv' /\ AnswerInv'
  BY <1>1, <1>2 DEF IndInv, WireInv, AnswerInv, Served, PollSleeps, Awaiting, ui, server, market
<1>6. ReachedInv' /\ DoneWasServed'
  BY DEF IndInv, ReachedInv, DoneWasServed, PollSleeps, ui, config, server, market
<1>7. result = FALSE
  BY NoPanels DEF IndInv, StageInv, TypeOK, PollSleeps, StepId
<1>8. ShownHappened'
  BY <1>7 DEF IndInv, ShownHappened, PollSleeps, ui, server, market
<1> QED BY <1>3, <1>4, <1>5, <1>6, <1>8 DEF IndInv

\* The result stands for a settled task or for a time limit.
LEMMA FinishStep ==
    ASSUME IndInv, Finish
    PROVE  IndInv'
<1>1. pc \in {"poll", "poll_last"} /\ Stage(steps, "complete", "running")
  BY DEF IndInv, StageInv, Finish, Answered
<1>2. Stage(steps', "complete", "done")
  BY <1>1, StageSet DEF IndInv, TypeOK, Finish, patch, StepId
<1>3. error = FALSE
  BY <1>1, NoPanels DEF IndInv, TypeOK, StepId
<1>4. StageInv'
  BY <1>2 DEF StageInv, Finish
<1>5. PanelInv'
  BY <1>2, <1>3, StagePanels DEF PanelInv, Finish, StepId, StepStatus
<1>6. steps' \in [StepId -> StepStatus] /\ (\A r \in StepId : r # "complete" => steps'[r] = steps[r])
  BY DEF IndInv, TypeOK, Finish, patch, StepId, StepStatus
<1>7. TypeOK'
  BY <1>6 DEF IndInv, TypeOK, Finish, config, server, market
<1>8. WireInv' /\ AnswerInv'
  BY DEF WireInv, AnswerInv, Finish, Awaiting
<1>9. ReachedInv'
  BY DEF IndInv, ReachedInv, Finish, server, market
<1>10. Served("complete")
  BY <1>1 DEF IndInv, AnswerInv
<1>11. DoneWasServed'
  BY <1>6, <1>10 DEF IndInv, DoneWasServed, Served, Finish, StepId, config, server, market
<1>12. ShownHappened'
  BY <1>1 DEF IndInv, ShownHappened, ReachedInv, AnswerInv, Finish, Answered, Settled, server, market
<1> QED BY <1>4, <1>5, <1>7, <1>8, <1>9, <1>11, <1>12 DEF IndInv

\* A call that threw: the step that runs is the one that failed.
LEMMA FailStep ==
    ASSUME IndInv, Fail
    PROVE  IndInv'
<1>1. PICK s \in Calling : Stage(steps, s, "running")
  BY DEF IndInv, StageInv, Fail, Threw, Awaiting, Calling, StepId
<1>2. s \in StepId /\ Stage(steps', s, "error")
  BY <1>1, StageError DEF IndInv, TypeOK, Fail, Running, Calling
<1>3. result = FALSE
  BY <1>1, NoPanels DEF IndInv, TypeOK, Calling
<1>4. StageInv'
  BY <1>2 DEF StageInv, Fail
<1>5. PanelInv'
  BY <1>2, <1>3, StagePanels DEF PanelInv, Fail, StepStatus
<1>6. steps' \in [StepId -> StepStatus] /\ (\A r \in StepId : steps'[r] = "done" => steps[r] = "done")
  BY DEF IndInv, TypeOK, Fail, StepStatus
<1>7. TypeOK'
  BY <1>6 DEF IndInv, TypeOK, Fail, config, server, market
<1>8. WireInv' /\ AnswerInv'
  BY DEF WireInv, AnswerInv, Fail, Awaiting
<1>9. ReachedInv'
  BY DEF IndInv, ReachedInv, Fail, server, market
<1>10. DoneWasServed'
  BY <1>6 DEF IndInv, DoneWasServed, Fail, StepId, config, server, market
<1>11. ShownHappened'
  BY <1>3 DEF IndInv, ShownHappened, Fail, server, market
<1> QED BY <1>4, <1>5, <1>7, <1>8, <1>9, <1>10, <1>11 DEF IndInv

-----------------------------------------------------------------------------
(* The theorems.                                                           *)

\* The initial state.
LEMMA InitIndInv == Init => IndInv
<1> SUFFICES ASSUME Init PROVE IndInv
  OBVIOUS
<1>1. Stage(steps, "register", "pending")
  BY DEF Init, Pending, Stage, StepId, Rank
<1>2. TypeOK
  <2>1. waited \in 0..PollTimeout /\ runs \in 0..MaxRuns
    BY FlowAssumption DEF Init
  <2>2. steps \in [StepId -> StepStatus]
    BY DEF Init, Pending, StepStatus
  <2>3. auction \in [Party -> [at : AuctionAwait \cup {"none"}, seen : SUBSET Party]]
    BY DEF Init, NoAuction
  <2> QED BY <2>1, <2>2, <2>3 DEF Init, TypeOK, BidStatus
<1>3. StageInv
  BY <1>1 DEF Init, StageInv
<1>4. PanelInv
  BY DEF Init, PanelInv, Pending, StepId
<1>5. WireInv /\ AnswerInv /\ ReachedInv
  BY DEF Init, WireInv, AnswerInv, ReachedInv, Awaiting, NoAuction
<1>6. DoneWasServed /\ ShownHappened
  BY DEF Init, DoneWasServed, ShownHappened, Pending, StepId
<1> QED BY <1>2, <1>3, <1>4, <1>5, <1>6 DEF IndInv

\* Every step keeps the invariant.
LEMMA NextIndInv == IndInv /\ [Next]_vars => IndInv'
<1> SUFFICES ASSUME IndInv, [Next]_vars PROVE IndInv'
  OBVIOUS
<1>1. CASE Start
  BY <1>1, StartStep
<1>2. CASE Run
  BY <1>2, SendSignedStep, RegisterAnsweredStep, CreateAnsweredStep, BidAnsweredStep, ShowAssignedStep,
     PublishAnsweredStep, NextStepStep, CompleteAnsweredStep, PollAgainStep, PollSleepsStep,
     FinishStep, FailStep DEF Run
<1>3. CASE Serve
  BY <1>3, RefuseStep, ServeNonceStep, ServeRegisterStep, ServeCreateStep, ServeCheckedStep,
     ServeBidSavedStep, ServeSelectedStep, ServePublishedStep, ServeCompletedStep,
     ServeGetTaskStep, AuctionStep DEF Serve, Party
<1>4. CASE ReplyLost \/ RivalBids \/ RivalAuction \/ Auction("other") \/ OthersRead \/ OthersSave
  BY <1>4, ReplyLostStep, AuctionStep, OthersStep DEF Party
<1>5. CASE UNCHANGED vars
  <2>1. StageInv' /\ PanelInv'
    BY <1>5, UiKept DEF IndInv, vars, ui
  <2>2. TypeOK' /\ WireInv'
    BY <1>5 DEF IndInv, TypeOK, WireInv, Running, vars, ui, config, server, market
  <2>3. AnswerInv' /\ ReachedInv'
    BY <1>5 DEF IndInv, AnswerInv, ReachedInv, Served, Running, vars, ui, config, server, market
  <2>4. DoneWasServed' /\ ShownHappened'
    BY <1>5 DEF IndInv, DoneWasServed, ShownHappened, vars, ui, config, server, market
  <2> QED BY <2>1, <2>2, <2>3, <2>4 DEF IndInv
<1> QED BY <1>1, <1>2, <1>3, <1>4, <1>5 DEF Next

\* The invariant holds.
LEMMA SpecIndInv == Spec => []IndInv
  BY InitIndInv, NextIndInv, PTL DEF Spec

\* Every place of the run has a timeline in order.
LEMMA InOrder == IndInv => TimelineInOrder
<1> SUFFICES ASSUME IndInv PROVE TimelineInOrder
  OBVIOUS
<1>1. \E s \in StepId, v \in StepStatus : Stage(steps, s, v)
  BY DEF IndInv, TypeOK, StageInv, Calling, StepId, StepStatus, Awaiting, Sleeping, Before
<1>2. PICK s \in StepId, v \in StepStatus : Stage(steps, s, v)
  BY <1>1
<1>3. Rank[s] - 1 \in 0..6 /\ (\A i \in 1..6 : STEPS[i] \in StepId /\ Rank[STEPS[i]] = i)
  BY DEF Rank, StepId, STEPS
<1>4. \A i \in 1..Rank[s] - 1 : steps[STEPS[i]] = "done"
  BY <1>2, <1>3, StageSteps
<1>5. \A i \in (Rank[s] - 1) + 2..6 : steps[STEPS[i]] = "pending"
  BY <1>2, <1>3, StageSteps
<1>6. \E k \in 0..6 : /\ \A i \in 1..k : steps[STEPS[i]] = "done"
                      /\ \A i \in k + 2..6 : steps[STEPS[i]] = "pending"
  BY <1>3, <1>4, <1>5
<1> QED BY <1>6 DEF IndInv, PanelInv, TimelineInOrder

\* The timeline TaskFlow renders is in order and its panels belong to it in
\* every state of every number of runs, whatever the time limit is and
\* wherever a call fails.
THEOREM TimelineTheorem == Spec => []TimelineInOrder
  BY SpecIndInv, InOrder, PTL

\* No step is shown as finished that the server did not do, although start
\* shows the assignment without asking.
THEOREM ServedTheorem == Spec => []DoneWasServed
<1>1. IndInv => DoneWasServed
  BY DEF IndInv
<1> QED BY <1>1, SpecIndInv, PTL

\* The status shown was had by the task, and a result panel over a task that
\* is not settled means the time limit of pollUntilSettled.
THEOREM ShownTheorem == Spec => []ShownHappened
<1>1. IndInv => ShownHappened
  BY DEF IndInv
<1> QED BY <1>1, SpecIndInv, PTL

=============================================================================
