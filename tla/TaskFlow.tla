------------------------------ MODULE TaskFlow ------------------------------
(***************************************************************************)
(* The browser's run of one task lifecycle (TaskFlow.tsx over api.ts)      *)
(* against the marketplace API.  React renders what the handler has set    *)
(* when it reaches its next await, so a stretch between two awaits is one  *)
(* action.  Every run draws new keypairs and creates a task of its own:    *)
(* the server variables describe the task of the current run.              *)
(*                                                                         *)
(* Two actors share that task with the run: another executor, whose bid    *)
(* may win and whose auction may overlap the run's, and the marketplace's  *)
(* own worker and timeout sweep, which move it while the browser waits.    *)
(***************************************************************************)
EXTENDS Naturals, FiniteSets

CONSTANTS
    Network,        \* values of VITE_NETWORK, with a server of the same NETWORK
    Outbox,         \* may the server have Postgres, so that a worker settles?
    PollTimeout,    \* timeoutMs of pollUntilSettled, in sleeps of 2000 ms
    MaxRuns         \* bound: clicks on the start button

ASSUME FlowAssumption ==
    /\ Network \subseteq {"local", "testnet", "pubnet"}
    /\ Outbox \subseteq BOOLEAN
    /\ PollTimeout \in Nat \ {0} /\ MaxRuns \in Nat

VARIABLES
    network,        \* VITE_NETWORK of this build
    outbox,         \* TRUE with Postgres, FALSE in the in-memory mode
    runLower,       \* TRUE if the run's bid beats the other one
    loading, steps, \* state of the components: the button, the timeline,
    taskState,      \*   the status shown for the task,
    result, error,  \*   and whether the result and the error panel are there
    pc, waited,     \* where the run is; time spent in pollUntilSettled
    wire, status,   \* the request in flight; the status its answer carries
    registered,     \* server: the executor is in the Registry
    task, reached,  \* server: status of the task, and all it has had so far
    bid, had,       \* server: status of the run's bid, and all it has had so far
    rival,          \* server: status of the other executor's bid
    auction,        \* server: the call of selectWinner that follows each bid: the
                    \*   await it is at, and the pending bids it has read
    published,      \* server: the result is stored
    saving,         \* server: what the worker and the sweep are about to save
    runs            \* clicks so far

config == <<network, outbox, runLower>>
ui     == <<loading, steps, taskState, result, error>>
market == <<task, reached, bid, had, rival, auction>>
server == <<registered, market, published, saving>>
vars   == <<config, ui, pc, waited, wire, status, server, runs>>

-----------------------------------------------------------------------------
StepId == {"register", "create", "bid", "assign", "publish", "complete"}
STEPS  == <<"register", "create", "bid", "assign", "publish", "complete">>

TaskStatus == {"OPEN", "ASSIGNED", "COMPLETING", "COMPLETED", "EXPIRED"}
StepStatus == {"pending", "running", "done", "error"}
BidStatus  == {"NONE", "PENDING", "SELECTED", "REJECTED"}
Pending    == [s \in StepId |-> "pending"]
Party      == {"run", "other"}
AuctionAwait == {"find_task", "find_bids", "save_task", "save_winner", "reject"}
NoAuction  == [at |-> "none", seen |-> {}]

\* The sleeps of start, by the step that follows.
Before == [create |-> "before_create", bid |-> "before_bid", assign |-> "before_assigned",
           publish |-> "before_publish", complete |-> "before_complete"]

\* The run awaits an answer, or sleeps before what it does next.
Awaiting == {"nonce", "call", "poll", "poll_last"}
Sleeping == {Before[s] : s \in DOMAIN Before} \cup {"poll_sleep"}

Init ==
    /\ network \in Network
    /\ outbox \in Outbox /\ (network # "local" => outbox)
    /\ runLower \in BOOLEAN
    /\ loading = FALSE /\ steps = Pending /\ taskState = "none"
    /\ result = FALSE /\ error = FALSE
    /\ pc = "ready" /\ waited = 0 /\ wire = "none" /\ status = "none"
    /\ registered = FALSE /\ published = FALSE /\ saving = {}
    /\ task = "NONE" /\ reached = {} /\ bid = "NONE" /\ had = {} /\ rival = "NONE"
    /\ auction = [a \in Party |-> NoAuction]
    /\ runs = 0

-----------------------------------------------------------------------------
(* api.ts: a call is one request, preceded by a nonce when it is signed.   *)

USE_SIGNING == network # "local"

request       == wire' = "sent"
signedRequest == request /\ pc' = IF USE_SIGNING THEN "nonce" ELSE "call"

\* What the next stretch does with the answer: it goes on, or it throws.
Answered(p) == pc = p /\ wire = "ok"
Threw       == pc \in Awaiting /\ wire = "failed"

-----------------------------------------------------------------------------
(* start.                                                                  *)

patch(s, v)    == steps' = [steps EXCEPT ![s] = v]
patchNext(s,n) == steps' = [steps EXCEPT ![s] = "done", ![n] = "running"]
Running(s)     == steps[s] = "running"

\* New keypairs mean a new executor and a new task.
NewTask ==
    /\ registered' = FALSE /\ published' = FALSE /\ saving' = {}
    /\ task' = "NONE" /\ reached' = {} /\ bid' = "NONE" /\ had' = {} /\ rival' = "NONE"
    /\ auction' = [a \in Party |-> NoAuction]

\* Mutants: a state of the component that the next run does not reset.
StartKeepsSteps ==
    /\ ~loading /\ runs < MaxRuns /\ runs' = runs + 1
    /\ loading' = TRUE /\ error' = FALSE /\ result' = FALSE /\ taskState' = "none"
    /\ patch("register", "running")
    /\ signedRequest
    /\ waited' = 0 /\ status' = "none"
    /\ NewTask
    /\ UNCHANGED config
StartKeepsState ==
    /\ ~loading /\ runs < MaxRuns /\ runs' = runs + 1
    /\ loading' = TRUE /\ error' = FALSE /\ result' = FALSE
    /\ steps' = [Pending EXCEPT !["register"] = "running"]
    /\ signedRequest
    /\ waited' = 0 /\ status' = "none"
    /\ NewTask
    /\ UNCHANGED <<config, taskState>>

\* A click on the button, which is disabled while loading: everything the
\* last run has shown is reset.
Start ==
    /\ ~loading /\ runs < MaxRuns /\ runs' = runs + 1
    /\ loading' = TRUE /\ error' = FALSE /\ result' = FALSE /\ taskState' = "none"
    /\ steps' = [Pending EXCEPT !["register"] = "running"]
    /\ signedRequest
    /\ waited' = 0 /\ status' = "none"
    /\ NewTask
    /\ UNCHANGED config

\* The nonce has come: the request is signed and sent.
SendSigned ==
    /\ Answered("nonce")
    /\ request /\ pc' = "call"
    /\ UNCHANGED <<config, ui, waited, status, server, runs>>

RegisterAnswered ==
    /\ Answered("call") /\ Running("register")
    /\ patch("register", "done")
    /\ pc' = Before["create"] /\ wire' = "none"
    /\ UNCHANGED <<config, loading, taskState, result, error, waited, status, server, runs>>

CreateAnswered ==
    /\ Answered("call") /\ Running("create")
    /\ taskState' = status
    /\ patch("create", "done")
    /\ pc' = Before["bid"] /\ wire' = "none"
    /\ UNCHANGED <<config, loading, result, error, waited, status, server, runs>>

\* The timeline goes on to the assignment at once, and asks nobody about it.
BidAnswered ==
    /\ Answered("call") /\ Running("bid")
    /\ patchNext("bid", "assign")
    /\ pc' = Before["assign"] /\ wire' = "none"
    /\ UNCHANGED <<config, loading, taskState, result, error, waited, status, server, runs>>

ShowAssigned ==
    /\ pc = Before["assign"]
    /\ taskState' = "ASSIGNED"
    /\ patch("assign", "done")
    /\ pc' = Before["publish"]
    /\ UNCHANGED <<config, loading, result, error, waited, wire, status, server, runs>>

PublishAnswered ==
    /\ Answered("call") /\ Running("publish")
    /\ patch("publish", "done")
    /\ pc' = Before["complete"] /\ wire' = "none"
    /\ UNCHANGED <<config, loading, taskState, result, error, waited, status, server, runs>>

\* The sleep after a step is over: the next step is shown and its call made.
NextStep ==
    /\ \E n \in {"create", "bid", "publish", "complete"} :
         /\ pc = Before[n]
         /\ patch(n, "running")
    /\ signedRequest
    /\ UNCHANGED <<config, loading, taskState, result, error, waited, status, server, runs>>

\* completion.status is there only when the task was settled or settling
\* before; the answer to a first approval has none.
CompleteAnswered ==
    /\ Answered("call") /\ Running("complete")
    /\ taskState' = "COMPLETING"
    /\ request /\ pc' = "poll"
    /\ UNCHANGED <<config, loading, steps, result, error, waited, status, server, runs>>

-----------------------------------------------------------------------------
(* pollUntilSettled.                                                       *)

Settled(s) == s \in {"COMPLETED", "EXPIRED"}

\* Mutant: the loop has no time limit.
WithinForever(w) == TRUE

WithinTimeout(w) == w < PollTimeout

PollAgain ==
    /\ Answered("poll") /\ ~Settled(status)
    /\ pc' = "poll_sleep" /\ wire' = "none"
    /\ UNCHANGED <<config, ui, waited, status, server, runs>>

\* A sleep of 2 s, and as much more as the answer took.
PollSleeps ==
    /\ pc = "poll_sleep"
    /\ waited' \in waited..PollTimeout /\ (waited < PollTimeout => waited' > waited)
    /\ request /\ pc' = IF WithinTimeout(waited') THEN "poll" ELSE "poll_last"
    /\ UNCHANGED <<config, ui, status, server, runs>>

\* The poll returned a task, the last one whatever its status: the run is over.
Finish ==
    /\ \/ Answered("poll") /\ Settled(status)
       \/ Answered("poll_last")
    /\ taskState' = status
    /\ patch("complete", "done")
    /\ result' = TRUE /\ loading' = FALSE
    /\ pc' = "ready" /\ wire' = "none"
    /\ UNCHANGED <<config, error, waited, status, server, runs>>

\* catch and finally.
Fail ==
    /\ Threw
    /\ error' = TRUE /\ loading' = FALSE
    /\ steps' = [s \in StepId |-> IF Running(s) THEN "error" ELSE steps[s]]
    /\ pc' = "ready" /\ wire' = "none"
    /\ UNCHANGED <<config, taskState, result, waited, status, server, runs>>

-----------------------------------------------------------------------------
(* The server's side of the calls.  A handler may fail at any statement,   *)
(* so an effect is no promise of an answer.  A request is "checked" when   *)
(* its handler has read the task, "selected" when it has found the bid it  *)
(* needs; neither is read again before the handler saves.                  *)

Sent(s)    == wire = "sent" /\ pc = "call" /\ Running(s)
At(w, s)   == wire = w /\ Running(s)
Becomes(t) == task' = t /\ reached' = reached \cup {t}

\* Mutant: request returns the body of an answer that is not ok.
ReplyIgnored ==
    /\ wire \in {"sent", "checked", "selected"}
    /\ wire' = "ok"
    /\ UNCHANGED <<config, ui, pc, waited, status, server, runs>>

\* request throws when the answer is not ok, and when there is no answer.
Refuse ==
    /\ wire \in {"sent", "checked", "selected"}
    /\ wire' = "failed"
    /\ UNCHANGED <<config, ui, pc, waited, status, server, runs>>

ReplyLost ==
    /\ wire \in {"auction", "ok"}
    /\ wire' = "failed"
    /\ UNCHANGED <<config, ui, pc, waited, status, server, runs>>

ServeNonce ==
    /\ wire = "sent" /\ pc = "nonce"
    /\ wire' = "ok"
    /\ UNCHANGED <<config, ui, pc, waited, status, server, runs>>

\* A signed call is let in when its timestamp is the one of the nonce; api.ts
\* sends the browser's clock instead, so it passes when the two coincide.
ServeRegister ==
    /\ Sent("register")
    /\ registered' = TRUE
    /\ wire' = "ok"
    /\ UNCHANGED <<config, ui, pc, waited, status, market, published, saving, runs>>

\* On testnet and pubnet the MPP gate answers 402: api.ts has no credential.
ServeCreate ==
    /\ Sent("create") /\ network = "local"
    /\ Becomes("OPEN") /\ status' = "OPEN"
    /\ wire' = "ok"
    /\ UNCHANGED <<config, ui, pc, waited, registered, bid, had, rival, auction, published,
                   saving, runs>>

\* The handlers of the calls that read the task first.
ServeBid      == Sent("bid") /\ task = "OPEN" /\ registered
ServePublish  == Sent("publish") /\ task = "ASSIGNED"
ServeComplete == Sent("complete") /\ task = "ASSIGNED"

ServeChecked ==
    /\ ServeBid \/ ServePublish \/ ServeComplete
    /\ wire' = "checked"
    /\ UNCHANGED <<config, ui, pc, waited, status, server, runs>>

\* The bid is saved; if the event is written too, the auction follows.
ServeBidSaved ==
    /\ At("checked", "bid")
    /\ bid' = "PENDING" /\ had' = had \cup {"PENDING"}
    /\ \/ wire' = "auction" /\ auction' = [auction EXCEPT !["run"].at = "find_task"]
       \/ wire' = "failed" /\ UNCHANGED auction
    /\ UNCHANGED <<config, ui, pc, waited, status, registered, task, reached, rival, published,
                   saving, runs>>

\* Only the selected executor publishes; any selected bid will do to complete.
ServeSelected ==
    /\ \/ At("checked", "publish") /\ bid = "SELECTED"
       \/ At("checked", "complete") /\ "SELECTED" \in {bid, rival}
    /\ wire' = "selected"
    /\ UNCHANGED <<config, ui, pc, waited, status, server, runs>>

ServePublished ==
    /\ At("selected", "publish")
    /\ published' = TRUE
    /\ wire' = "ok"
    /\ UNCHANGED <<config, ui, pc, waited, status, registered, market, saving, runs>>

ServeCompleted ==
    /\ At("selected", "complete")
    /\ Becomes(IF outbox THEN "COMPLETING" ELSE "COMPLETED")
    /\ wire' = "ok"
    /\ UNCHANGED <<config, ui, pc, waited, status, registered, bid, had, rival, auction,
                   published, saving, runs>>

ServeGetTask ==
    /\ wire = "sent" /\ pc \in {"poll", "poll_last"}
    /\ status' = task
    /\ wire' = "ok"
    /\ UNCHANGED <<config, ui, pc, waited, server, runs>>

-----------------------------------------------------------------------------
(* selectWinner, called after each bid: every await is a step, and what it *)
(* has read may be stale when it saves.                                    *)

AuctionGoes(a, label) ==
    auction' = [auction EXCEPT ![a].at = label] /\ UNCHANGED wire

\* The caller ignores the outcome; the request for the run's bid is answered.
AuctionEnds(a) ==
    /\ auction' = [auction EXCEPT ![a] = NoAuction]
    /\ wire' = IF a = "run" /\ wire = "auction" THEN "ok" ELSE wire

AuctionFindTask(a) ==
    /\ auction[a].at = "find_task"
    /\ \/ task = "OPEN" /\ AuctionGoes(a, "find_bids")
       \/ task # "OPEN" /\ AuctionEnds(a)
    /\ UNCHANGED <<task, reached, bid, had, rival>>

PendingBids == {b \in Party : (IF b = "run" THEN bid ELSE rival) = "PENDING"}

AuctionFindBids(a) ==
    /\ auction[a].at = "find_bids"
    /\ \/ PendingBids = {} /\ AuctionEnds(a)
       \/ /\ PendingBids # {} /\ UNCHANGED wire
          /\ auction' = [auction EXCEPT ![a] = [at |-> "save_task", seen |-> PendingBids]]
    /\ UNCHANGED <<task, reached, bid, had, rival>>

AuctionSaveTask(a) ==
    /\ auction[a].at = "save_task"
    /\ Becomes("ASSIGNED")
    /\ AuctionGoes(a, "save_winner")
    /\ UNCHANGED <<bid, had, rival>>

\* The lower of the bids that were pending.
WinningBid(a) ==
    IF "run" \in auction[a].seen /\ (runLower \/ "other" \notin auction[a].seen) THEN "run" ELSE "other"

SaveBid(b, s) ==
    \/ b = "run" /\ bid' = s /\ had' = had \cup {s} /\ UNCHANGED rival
    \/ b = "other" /\ rival' = s /\ UNCHANGED <<bid, had>>

AuctionSaveWinner(a) ==
    /\ auction[a].at = "save_winner"
    /\ SaveBid(WinningBid(a), "SELECTED")
    /\ \/ auction[a].seen = {WinningBid(a)} /\ AuctionEnds(a)
       \/ auction[a].seen # {WinningBid(a)} /\ AuctionGoes(a, "reject")
    /\ UNCHANGED <<task, reached>>

AuctionReject(a) ==
    /\ auction[a].at = "reject"
    /\ \E b \in auction[a].seen \ {WinningBid(a)} : SaveBid(b, "REJECTED")
    /\ AuctionEnds(a)
    /\ UNCHANGED <<task, reached>>

\* An await throws, which is only logged.
AuctionThrows(a) ==
    /\ auction[a].at # "none"
    /\ AuctionEnds(a)
    /\ UNCHANGED <<task, reached, bid, had, rival>>

Auction(a) ==
    /\ \/ AuctionFindTask(a) \/ AuctionFindBids(a) \/ AuctionSaveTask(a)
       \/ AuctionSaveWinner(a) \/ AuctionReject(a) \/ AuctionThrows(a)
    /\ UNCHANGED <<config, ui, pc, waited, status, registered, published, saving, runs>>

Serve == \/ Refuse \/ ServeNonce \/ ServeRegister \/ ServeCreate \/ ServeChecked \/ ServeBidSaved
         \/ ServeSelected \/ ServePublished \/ ServeCompleted \/ ServeGetTask
         \/ Auction("run")

-----------------------------------------------------------------------------
(* The others.                                                             *)

\* Another executor's bid on the task that was open when it was asked for,
\* and the auction that follows it or a call of POST /tasks/:id/select.
RivalBids ==
    /\ "OPEN" \in reached /\ rival = "NONE"
    /\ rival' = "PENDING"
    /\ UNCHANGED <<config, ui, pc, waited, wire, status, registered, task, reached, bid, had,
                   auction, published, saving, runs>>
RivalAuction ==
    /\ task # "NONE" /\ auction["other"].at = "none"
    /\ AuctionGoes("other", "find_task")
    /\ UNCHANGED <<config, ui, pc, waited, status, registered, task, reached, bid, had, rival,
                   published, saving, runs>>

\* The worker and the sweep save what they have decided, whatever has happened
\* to the task since they read it.
OthersRead ==
    /\ \/ task = "COMPLETING" /\ saving' = saving \cup {"COMPLETED"}
       \/ task = "ASSIGNED" /\ saving' = saving \cup {"EXPIRED"}
    /\ UNCHANGED <<config, ui, pc, waited, wire, status, registered, market, published, runs>>
OthersSave ==
    /\ \E t \in saving : Becomes(t) /\ saving' = saving \ {t}
    /\ UNCHANGED <<config, ui, pc, waited, wire, status, registered, bid, had, rival, auction,
                   published, runs>>

-----------------------------------------------------------------------------
Run == \/ SendSigned \/ RegisterAnswered \/ CreateAnswered \/ BidAnswered \/ ShowAssigned
       \/ PublishAnswered \/ NextStep \/ CompleteAnswered \/ PollAgain \/ PollSleeps
       \/ Finish \/ Fail

Next == \/ Start \/ Run \/ Serve \/ ReplyLost
        \/ RivalBids \/ RivalAuction \/ Auction("other") \/ OthersRead \/ OthersSave

Spec == Init /\ [][Next]_vars

\* A request is answered or fails, and the browser goes on; nothing is
\* assumed of the worker, the sweep or the other executors.
FairSpec == Spec /\ WF_vars(Run) /\ WF_vars(Serve)

-----------------------------------------------------------------------------
(* Properties.                                                             *)

\* Type invariant: every variable holds a value of its type, and the run is
\* at an await exactly while the button is disabled.
TypeOK ==
    /\ network \in Network /\ outbox \in Outbox /\ runLower \in BOOLEAN
    /\ loading \in BOOLEAN /\ result \in BOOLEAN /\ error \in BOOLEAN
    /\ steps \in [StepId -> StepStatus]
    /\ taskState \in TaskStatus \cup {"none"} /\ status \in TaskStatus \cup {"none"}
    /\ pc \in Awaiting \cup Sleeping \cup {"ready"}
    /\ loading <=> pc # "ready"
    /\ waited \in 0..PollTimeout
    /\ wire \in {"none", "sent", "checked", "selected", "auction", "ok", "failed"}
    /\ registered \in BOOLEAN /\ published \in BOOLEAN /\ saving \subseteq {"COMPLETED", "EXPIRED"}
    /\ task \in TaskStatus \cup {"NONE"} /\ reached \subseteq TaskStatus
    /\ bid \in BidStatus /\ had \subseteq BidStatus /\ rival \in BidStatus
    /\ auction \in [Party -> [at : AuctionAwait \cup {"none"}, seen : SUBSET Party]]
    /\ runs \in 0..MaxRuns

\* The timeline of TaskFlow is a prefix of finished steps, then at most one
\* that runs or failed, then steps not started; an error panel is there
\* exactly when a step failed, the result panel when all are finished, and
\* the button is disabled exactly while the run is at an await (TypeOK).
TimelineInOrder ==
    /\ TypeOK
    /\ \E k \in 0..6 :
         /\ \A i \in 1..k : steps[STEPS[i]] = "done"
         /\ \A i \in k + 2..6 : steps[STEPS[i]] = "pending"
    /\ error  <=> \E s \in StepId : steps[s] = "error"
    /\ result <=> \A s \in StepId : steps[s] = "done"

\* A step is shown as finished only when the server did it: in particular a
\* run gets past publishing only if its own executor had been selected,
\* although the assignment before was shown without asking and an overlapping
\* auction may have rejected the bid since; and never on a network where the
\* listing fee is charged by the MPP gate.
DoneWasServed ==
    /\ steps["register"] = "done" => registered
    /\ steps["create"] = "done"   => "OPEN" \in reached /\ network = "local"
    /\ steps["bid"] = "done"      => bid # "NONE"
    /\ steps["publish"] = "done"  => published /\ "SELECTED" \in had
    /\ steps["complete"] = "done" => reached \cap {"COMPLETING", "COMPLETED"} # {}

\* The status shown is one the task has had.  The two exceptions are what
\* start sets by itself: ASSIGNED while the bid waits for an auction that
\* failed, and COMPLETING where the approval has settled the task directly.
\* The result panel stands for a settled task, unless pollUntilSettled ran
\* into its time limit.
ShownHappened ==
    /\ \/ taskState \in reached \cup {"none"}
       \/ taskState = "ASSIGNED" /\ bid = "PENDING"
       \/ taskState = "COMPLETING" /\ "COMPLETED" \in reached
    /\ result => taskState \in {"COMPLETED", "EXPIRED"} \/ waited >= PollTimeout

\* A run ends, though the worker may never settle the task: the answers and
\* the time limit of pollUntilSettled are enough.
RunEnds == loading ~> ~loading

=============================================================================
