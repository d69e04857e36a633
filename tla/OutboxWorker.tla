---------------------------- MODULE OutboxWorker ----------------------------
(***************************************************************************)
(* The delivery pipeline: rows of outbox_events are relayed to a Redis     *)
(* stream by OutboxPublisher, read through a consumer group by             *)
(* EventConsumer, and dispatched by WorkerService under the bookkeeping of *)
(* event_consumptions.  A tick of a worker is a sequence of awaits, one    *)
(* action each: relay the unprocessed rows, reclaim idle entries, poll new *)
(* entries, retry what is due.                                             *)
(*                                                                         *)
(* All events have one type that has a handler, so that (handler_name,     *)
(* event_id) is the event; the handler itself is any action that succeeds  *)
(* or throws.  An entry id is the entry's position in the log of all the   *)
(* entries ever added.                                                     *)
(***************************************************************************)
EXTENDS Naturals, SequencesExt

CONSTANTS
    Event,          \* ids of outbox_events
    Worker,         \* worker processes
    MaxAttempts,    \* WORKER_MAX_ATTEMPTS
    RetryLimit,     \* limit of listDueRetries (25)
    ReadCount,      \* COUNT of XREADGROUP (20)
    StreamMaxLen,   \* MAXLEN threshold of XADD (10000)
    PauseWorkerConsumption, \* values PAUSE_WORKER_CONSUMPTION may have at a start
    MayThrow,       \* awaits that may throw
    MayCrash,       \* phases of a tick in which the process may die
    MaxEntries,     \* bound: entries added to the stream
    MaxFaults       \* bound: throws and crashes in a behaviour

ASSUME WorkerAssumption ==
    /\ MaxAttempts \in Nat /\ RetryLimit \in Nat /\ ReadCount \in Nat \ {0}
    /\ StreamMaxLen \in Nat \ {0} /\ MaxEntries \in Nat /\ MaxFaults \in Nat
    /\ PauseWorkerConsumption \subseteq BOOLEAN

VARIABLES
    outbox,         \* state of each outbox_events row: "none", "new" or "processed"
    log,            \* the event of each entry ever added to the stream
    first,          \* oldest entry that trimming has left in the stream
    delivered,      \* last-delivered-id of the consumer group
    pel,            \* pending entries: delivered and not acknowledged
    consumption,    \* rows of event_consumptions
    retries,        \* FAILED rows in the order of next_retry_at
    due,            \* how many of them have a next_retry_at that has passed
    effects,        \* history: times the handler of an event took effect
    dropped,        \* history: events cut off where nothing brings them back
    wk,             \* the workers
    faults          \* throws and crashes so far

redis   == <<log, first, delivered, pel>>
table   == <<consumption, retries, due>>
history == <<effects, dropped>>
vars    == <<outbox, redis, table, history, wk, faults>>

-----------------------------------------------------------------------------
None  == "none"
Entry == 1..MaxEntries
Phase == {"publish", "claim", "poll", "retry"}

\* Awaits of a tick; "next" looks for the next entry or row of the phase.
Await == {"xadd", "mark_processed", "mark_unpublished", "claim", "poll", "list_due",
          "try_start", "find_event", "dispatch", "mark_succeeded", "mark_failed",
          "ack", "ack_throw"}
Label == Await \cup {"down", "idle", "next"}

ConsumptionRow == [status : {"NONE", "PROCESSING", "SUCCEEDED", "FAILED"}, attempts : Nat]

\* A process: where it is, the rows and entries it has read and not handled
\* yet, the one in hand, and EventConsumer's claiming flag.
WorkerState == [pc : Label, phase : Phase, rows : SUBSET Event, entries : SUBSET Entry,
                event : Event \cup {None}, entry : Nat, claiming : BOOLEAN, paused : BOOLEAN]
Down == [pc |-> "down", phase |-> "publish", rows |-> {}, entries |-> {},
         event |-> None, entry |-> 0, claiming |-> FALSE, paused |-> FALSE]

Init ==
    /\ outbox = [e \in Event |-> "none"]
    /\ log = <<>> /\ first = 1 /\ delivered = 0 /\ pel = {}
    /\ consumption = [e \in Event |-> [status |-> "NONE", attempts |-> 0]]
    /\ retries = <<>> /\ due = 0
    /\ effects = [e \in Event |-> 0] /\ dropped = {}
    /\ wk = [w \in Worker |-> Down]
    /\ faults = 0

At(w, l)     == wk[w].pc = l
Goto(w, l)   == wk' = [wk EXCEPT ![w].pc = l]
Live(n)      == n \in first..Len(log)

\* The tick is over, or it has thrown: what was read is forgotten, and the
\* finally block of autoClaimOnce has run.
Rest(w) == [Down EXCEPT !.pc = "idle", !.paused = wk[w].paused,
                        !.claiming = wk[w].claiming /\ wk[w].phase # "claim"]

-----------------------------------------------------------------------------
(* A request inserts an event; a worker process starts, pauses and ticks.  *)

Insert(e) ==
    /\ outbox[e] = "none"
    /\ outbox' = [outbox EXCEPT ![e] = "new"]
    /\ UNCHANGED <<redis, table, history, wk, faults>>

\* ensureGroup: the group is created with the stream, before the first tick
\* of any worker; later calls are answered BUSYGROUP.
Start(w) ==
    /\ At(w, "down")
    /\ \E p \in PauseWorkerConsumption :
         wk' = [wk EXCEPT ![w] = [Down EXCEPT !.pc = "idle", !.paused = p]]
    /\ UNCHANGED <<outbox, redis, table, history, faults>>

ListUnprocessed(w) ==
    /\ At(w, "idle")
    /\ wk' = [wk EXCEPT ![w] = [@ EXCEPT !.pc = "next", !.phase = "publish",
                                         !.rows = {e \in Event : outbox[e] = "new"}]]
    /\ UNCHANGED <<outbox, redis, table, history, faults>>

\* What follows when a phase has nothing left; a paused worker only relays.
NextPhase(w) ==
    /\ At(w, "next") /\ wk[w].rows = {} /\ wk[w].entries = {}
    /\ wk' = [wk EXCEPT ![w] =
                CASE wk[w].phase = "publish" /\ wk[w].paused -> Rest(w)
                  [] wk[w].phase = "publish" /\ ~wk[w].paused ->
                       [@ EXCEPT !.pc = "claim", !.phase = "claim"]
                  [] wk[w].phase = "claim" -> [@ EXCEPT !.pc = "poll", !.phase = "poll",
                                                        !.claiming = FALSE]
                  [] wk[w].phase = "poll"  -> [@ EXCEPT !.pc = "list_due", !.phase = "retry"]
                  [] wk[w].phase = "retry" -> Rest(w)]
    /\ UNCHANGED <<outbox, redis, table, history, faults>>

\* The loop of the phase takes up a row, or the oldest entry it was given.
TakeRow(w) ==
    /\ At(w, "next")
    /\ \E e \in wk[w].rows :
         wk' = [wk EXCEPT ![w] = [@ EXCEPT !.rows = wk[w].rows \ {e}, !.event = e,
                  !.pc = IF wk[w].phase = "publish" THEN "xadd" ELSE "try_start"]]
    /\ UNCHANGED <<outbox, redis, table, history, faults>>

TakeEntry(w) ==
    /\ At(w, "next")
    /\ \E n \in wk[w].entries :
         /\ \A m \in wk[w].entries : n <= m
         /\ wk' = [wk EXCEPT ![w] = [@ EXCEPT !.entries = wk[w].entries \ {n}, !.entry = n,
                                              !.event = log[n], !.pc = "try_start"]]
    /\ UNCHANGED <<outbox, redis, table, history, faults>>

-----------------------------------------------------------------------------
(* publishOnce.                                                            *)

\* XADD with MAXLEN ~: trimming may leave more than the threshold, never less.
XAdd(w) ==
    /\ At(w, "xadd") /\ Len(log) < MaxEntries
    /\ log' = Append(log, wk[w].event)
    /\ first' \in {k \in first..Len(log) + 1 : k = first \/ k + StreamMaxLen <= Len(log) + 2}
    /\ Goto(w, "mark_processed")
    /\ UNCHANGED <<outbox, delivered, pel, table, history, faults>>

MarkProcessed(w) ==
    /\ At(w, "mark_processed")
    /\ outbox' = [outbox EXCEPT ![wk[w].event] = "processed"]
    /\ Goto(w, "next")
    /\ UNCHANGED <<redis, table, history, faults>>

\* outbox.markFailed counts the attempt and leaves the row unprocessed.
MarkUnpublished(w) ==
    /\ At(w, "mark_unpublished")
    /\ Goto(w, "next")
    /\ UNCHANGED <<outbox, redis, table, history, faults>>

-----------------------------------------------------------------------------
(* autoClaimOnce, pollOnce and listDueRetries.                             *)

\* XAUTOCLAIM returns pending entries that nobody touched for 30 s, whoever
\* holds them, and drops those that were trimmed from the stream.
AutoClaim(w, C) ==
    /\ At(w, "claim")
    /\ IF wk[w].claiming
         THEN /\ wk' = [wk EXCEPT ![w] = [@ EXCEPT !.pc = "poll", !.phase = "poll"]]
              /\ UNCHANGED pel
         ELSE /\ wk' = [wk EXCEPT ![w] = [@ EXCEPT !.pc = "next", !.entries = C,
                                                   !.claiming = TRUE]]
              /\ pel' = {n \in pel : Live(n)}
    /\ UNCHANGED <<outbox, log, first, delivered, table, history, faults>>

Claimable == {n \in pel : Live(n)}

PollOnce(w) ==
    /\ At(w, "poll")
    /\ LET from == IF delivered < first THEN first ELSE delivered + 1
           to   == IF from + ReadCount - 1 < Len(log) THEN from + ReadCount - 1 ELSE Len(log)
       IN  /\ delivered' = IF from <= to THEN to ELSE delivered
           /\ pel' = pel \cup from..to
           /\ wk' = [wk EXCEPT ![w] = [@ EXCEPT !.pc = "next", !.entries = from..to]]
    /\ UNCHANGED <<outbox, log, first, table, history, faults>>

\* Mutant: one row fewer than the limit.
ListFewerRetries(w) ==
    /\ At(w, "list_due")
    /\ wk' = [wk EXCEPT ![w] = [@ EXCEPT !.pc = "next",
                !.rows = {retries[i] : i \in {j \in 1..due : j < RetryLimit}}]]
    /\ UNCHANGED <<outbox, redis, table, history, faults>>

ListDueRetries(w) ==
    /\ At(w, "list_due")
    /\ wk' = [wk EXCEPT ![w] = [@ EXCEPT !.pc = "next",
                !.rows = {retries[i] : i \in {j \in 1..due : j <= RetryLimit}}]]
    /\ UNCHANGED <<outbox, redis, table, history, faults>>

-----------------------------------------------------------------------------
(* tryStart, dispatch and the record of the outcome.                       *)

\* The order of next_retry_at without an event, with the number of its due
\* members, and with the event put back behind everything that is due.
Without(e)    ==
    IF \E i \in 1..Len(retries) : retries[i] = e
      THEN RemoveAt(retries, CHOOSE i \in 1..Len(retries) : retries[i] = e) ELSE retries
DueWithout(e) == IF \E i \in 1..due : retries[i] = e THEN due - 1 ELSE due
BackedOff(e)  == \E i \in 1..Len(retries) : i > due /\ retries[i] = e
Forget(e)     == retries' = Without(e) /\ due' = DueWithout(e)
Delay(e)      == /\ due' = DueWithout(e)
                 /\ \E k \in due' + 1..Len(Without(e)) + 1 : retries' = InsertAt(Without(e), k, e)

\* Mutants: the attempts are not counted against the maximum; a success is
\* not remembered; a row left in PROCESSING is taken to be in good hands.
CanStartAlways(e) == consumption[e].status # "SUCCEEDED" /\ ~BackedOff(e)
CanStartAgain(e)  == consumption[e].attempts < MaxAttempts /\ ~BackedOff(e)
CanStartIdle(e)   ==
    \/ consumption[e].status = "NONE"
    \/ /\ consumption[e].status = "FAILED"
       /\ consumption[e].attempts < MaxAttempts
       /\ ~BackedOff(e)

CanStart(e) ==
    \/ consumption[e].status = "NONE"
    \/ /\ consumption[e].status # "SUCCEEDED"
       /\ consumption[e].attempts < MaxAttempts
       /\ ~BackedOff(e)

\* What the loop does with an item it is through with: an entry is
\* acknowledged, a row of the retry list is just left.
Settled(w) == IF wk[w].phase = "retry" THEN "next" ELSE "ack"

\* The statements of tryStart, markSucceeded and markFailed; computeBackoff
\* puts next_retry_at into the future.
SetProcessing(e) ==
    /\ consumption' = [consumption EXCEPT ![e] =
                         [status |-> "PROCESSING", attempts |-> @.attempts + 1]]
    /\ Forget(e)
SetSucceeded(e)  == consumption' = [consumption EXCEPT ![e].status = "SUCCEEDED"] /\ Forget(e)
SetFailed(e)     == consumption' = [consumption EXCEPT ![e].status = "FAILED"] /\ Delay(e)

TryStart(w) ==
    /\ At(w, "try_start")
    /\ IF CanStart(wk[w].event)
         THEN /\ SetProcessing(wk[w].event)
              /\ Goto(w, IF wk[w].phase = "retry" THEN "find_event" ELSE "dispatch")
         ELSE Goto(w, Settled(w)) /\ UNCHANGED table
    /\ UNCHANGED <<outbox, redis, history, faults>>

\* The retry loop reads the event from outbox_events, where it always is.
FindEvent(w) ==
    /\ At(w, "find_event")
    /\ Goto(w, "dispatch")
    /\ UNCHANGED <<outbox, redis, table, history, faults>>

Dispatch(w) ==
    /\ At(w, "dispatch")
    /\ effects' = [effects EXCEPT ![wk[w].event] = @ + 1]
    /\ Goto(w, "mark_succeeded")
    /\ UNCHANGED <<outbox, redis, table, dropped, faults>>

MarkSucceeded(w) ==
    /\ At(w, "mark_succeeded")
    /\ SetSucceeded(wk[w].event)
    /\ Goto(w, Settled(w))
    /\ UNCHANGED <<outbox, redis, history, faults>>

MarkFailed(w) ==
    /\ At(w, "mark_failed")
    /\ SetFailed(wk[w].event)
    /\ Goto(w, Settled(w))
    /\ UNCHANGED <<outbox, redis, history, faults>>

\* The finally block; what markFailed threw is thrown on after it.
Ack(w) ==
    /\ wk[w].pc \in {"ack", "ack_throw"}
    /\ pel' = pel \ {wk[w].entry}
    /\ wk' = [wk EXCEPT ![w] = IF At(w, "ack") THEN [@ EXCEPT !.pc = "next"] ELSE Rest(w)]
    /\ UNCHANGED <<outbox, log, first, delivered, table, history, faults>>

-----------------------------------------------------------------------------
(* Time and failures.                                                      *)

BackoffElapses ==
    /\ due < Len(retries)
    /\ due' = due + 1
    /\ UNCHANGED <<outbox, redis, consumption, retries, history, wk, faults>>

\* Where the worker goes on when an await throws.  publishOnce and the try
\* block around dispatch catch; anything else ends the tick, and an
\* XAUTOCLAIM that throws leaves the claiming flag set.
Thrown(w) ==
    CASE wk[w].pc \in {"xadd", "mark_processed"}     -> [wk[w] EXCEPT !.pc = "mark_unpublished"]
      [] wk[w].pc \in {"dispatch", "mark_succeeded"} -> [wk[w] EXCEPT !.pc = "mark_failed"]
      [] At(w, "mark_failed") /\ wk[w].phase # "retry" -> [wk[w] EXCEPT !.pc = "ack_throw"]
      [] At(w, "claim") -> [Rest(w) EXCEPT !.claiming = TRUE]
      [] OTHER          -> Rest(w)

\* The worker is at work on an event.
Handling(w, e) ==
    wk[w].event = e /\ wk[w].pc \in {"find_event", "dispatch", "mark_succeeded", "mark_failed"}

\* Nothing brings back an event whose worker dies in the retry loop, or at
\* work on an entry that was acknowledged or is about to be by another worker.
OnItsOwn(w) ==
    \/ wk[w].phase = "retry" \/ wk[w].entry \notin pel
    \/ \E v \in Worker \ {w} : wk[v].entry = wk[w].entry /\ wk[v].pc \in {"ack", "ack_throw"}

\* What an await that throws had done before its answer was lost: the handler
\* took effect, or the statement on event_consumptions was committed.  (The
\* other awaits that change something leave what they leave when the next
\* one throws.)
DoneUnanswered(w) ==
    \/ /\ At(w, "dispatch")
       /\ effects' = [effects EXCEPT ![wk[w].event] = @ + 1]
       /\ UNCHANGED table
    \/ /\ \/ At(w, "try_start") /\ CanStart(wk[w].event) /\ SetProcessing(wk[w].event)
          \/ At(w, "mark_succeeded") /\ SetSucceeded(wk[w].event)
          \/ At(w, "mark_failed") /\ SetFailed(wk[w].event)
       /\ UNCHANGED effects

Throws(w) ==
    /\ wk[w].pc \in MayThrow /\ faults < MaxFaults
    /\ faults' = faults + 1
    /\ wk' = [wk EXCEPT ![w] = Thrown(w)]
    /\ DoneUnanswered(w) \/ UNCHANGED <<table, effects>>
    /\ dropped' = dropped \cup {e \in Event :
         /\ wk[w].event = e /\ consumption'[e].status = "PROCESSING"
         /\ \/ wk[w].pc \in {"find_event", "mark_failed"}
            \/ At(w, "try_start") /\ consumption' # consumption /\ OnItsOwn(w)}
    /\ UNCHANGED <<outbox, redis>>

Crash(w) ==
    /\ wk[w].pc # "down" /\ wk[w].phase \in MayCrash /\ faults < MaxFaults
    /\ faults' = faults + 1
    /\ wk' = [wk EXCEPT ![w] = Down]
    /\ dropped' = dropped \cup {e \in Event : Handling(w, e) /\ OnItsOwn(w)}
    /\ UNCHANGED <<outbox, redis, table, effects>>

Step(w) ==
    \/ ListUnprocessed(w) \/ NextPhase(w) \/ TakeRow(w) \/ TakeEntry(w)
    \/ XAdd(w) \/ MarkProcessed(w) \/ MarkUnpublished(w)
    \/ \E C \in SUBSET Claimable : AutoClaim(w, C)
    \/ PollOnce(w) \/ ListDueRetries(w)
    \/ TryStart(w) \/ FindEvent(w) \/ Dispatch(w) \/ MarkSucceeded(w) \/ MarkFailed(w)
    \/ Ack(w)

Next ==
    \/ \E e \in Event : Insert(e)
    \/ \E w \in Worker : Start(w) \/ Step(w) \/ Throws(w) \/ Crash(w)
    \/ BackoffElapses

Spec == Init /\ [][Next]_vars

\* A process that died is started again, a running one keeps ticking, time
\* passes, and an entry that stays pending becomes idle and is reclaimed.
FairSpec ==
    /\ Spec
    /\ WF_vars(BackoffElapses)
    /\ \A w \in Worker : WF_vars(Start(w)) /\ WF_vars(Step(w))
    /\ \A w \in Worker : SF_vars(AutoClaim(w, Claimable))

-----------------------------------------------------------------------------
(* Properties.                                                             *)

\* Type invariant: every variable holds a value of its type; only delivered
\* entries are pending, and retries lists exactly the FAILED rows.
TypeOK ==
    /\ outbox \in [Event -> {"none", "new", "processed"}]
    /\ log \in Seq(Event) /\ Len(log) <= MaxEntries
    /\ first \in 1..MaxEntries + 1
    /\ delivered \in 0..Len(log)
    /\ pel \subseteq 1..delivered
    /\ consumption \in [Event -> ConsumptionRow]
    /\ retries \in Seq(Event) /\ due \in 0..Len(retries)
    /\ {retries[i] : i \in DOMAIN retries} = {e \in Event : consumption[e].status = "FAILED"}
    /\ effects \in [Event -> Nat] /\ dropped \subseteq Event
    /\ wk \in [Worker -> WorkerState]
    /\ faults \in 0..MaxFaults

\* An event that was relayed is never forgotten: it succeeded, used up its
\* attempts, waits for a retry, is still in the stream, unread or pending, or
\* in the hands of a worker; unless its entry was trimmed, or the one who was
\* at work on it was cut off where nothing brings it back.
NeverForgotten ==
    \A e \in Event : outbox[e] = "processed" =>
      \/ consumption[e].status \in {"SUCCEEDED", "FAILED"}
      \/ consumption[e].attempts > 0 /\ consumption[e].attempts >= MaxAttempts
      \/ \E n \in 1..Len(log) : log[n] = e /\ (n < first \/ n > delivered \/ n \in pel)
      \/ \E w \in Worker : Handling(w, e)
      \/ e \in dropped

\* In well-formed tables and streams (TypeOK), the handler of an event takes
\* effect at most once per attempt, and attempts stop at the maximum:
\* duplicated entries and redeliveries do not multiply the effects beyond
\* WORKER_MAX_ATTEMPTS.
EffectsBounded ==
    /\ TypeOK
    /\ \A e \in Event :
         /\ effects[e] <= consumption[e].attempts
         /\ consumption[e].attempts <= (IF MaxAttempts = 0 THEN 1 ELSE MaxAttempts)

\* A row left in PROCESSING by a worker that is gone, with no entry of the
\* stream that would bring the event back: nothing looks for such rows.
Orphaned(e) ==
    /\ consumption[e].status = "PROCESSING"
    /\ \A w \in Worker : ~Handling(w, e)
    /\ \A n \in 1..Len(log) : log[n] = e /\ Live(n) => n <= delivered /\ n \notin pel

\* Rows that have used up their attempts stay FAILED and due, and there are
\* enough of them to fill the list that listDueRetries returns.
Starved ==
    Cardinality({i \in 1..due : consumption[retries[i]].attempts >= MaxAttempts}) >= RetryLimit

\* As long as some worker is not paused for good, nor stopped from claiming
\* by an XAUTOCLAIM that threw, every event is done, uses up its attempts,
\* is orphaned or starved, wherever ticks throw and processes die.
EventsAreSettled ==
    (\E w \in Worker : <>[](~wk[w].paused) /\ []<>(~wk[w].claiming)) =>
      \A e \in Event :
        (outbox[e] # "none") ~> \/ consumption[e].status = "SUCCEEDED"
                               \/ consumption[e].attempts >= MaxAttempts
                               \/ Orphaned(e) \/ Starved

\* What .env.example and the comment on the pause gate promise of a worker
\* that relays and does not consume: an event that was relayed and never
\* begun is in the stream, unread or pending.
PausedLosesNothing ==
    \A e \in Event : outbox[e] = "processed" /\ consumption[e].status = "NONE" =>
      \E n \in 1..Len(log) : log[n] = e /\ Live(n) /\ (n > delivered \/ n \in pel)

\* What a worker is at, to EventDelivery.
Doing(w) ==
    CASE wk[w].pc \in {"find_event", "dispatch"} -> <<"begun", wk[w].event>>
      [] At(w, "mark_succeeded")                 -> <<"effected", wk[w].event>>
      [] At(w, "mark_failed")                    -> <<"failing", wk[w].event>>
      [] OTHER                                   -> <<"idle", None>>

\* The pipeline is an EventDelivery whose runners are the workers: however
\* often rows are relayed again and entries redelivered, whoever dies and
\* whatever answer is lost, what the table event_consumptions says of an
\* event moves as the abstract specification allows.
Delivery == INSTANCE EventDelivery WITH
    Runner <- Worker,
    Limit <- IF MaxAttempts = 0 THEN 1 ELSE MaxAttempts,
    state <- [e \in Event |->
                CASE consumption[e].status = "PROCESSING" -> "running"
                  [] consumption[e].status = "SUCCEEDED"  -> "done"
                  [] outbox[e] = "none"                   -> "absent"
                  [] OTHER                                -> "waiting"],
    tries <- [e \in Event |-> consumption[e].attempts],
    effects <- effects,
    run <- [w \in Worker |-> Doing(w)]

\* The refinement: every step of relay, stream, consumers and workers is a
\* step of Delivery or leaves what it says unchanged.
ImplementsDelivery == Delivery!Spec

=============================================================================
