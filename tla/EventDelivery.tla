---------------------------- MODULE EventDelivery ----------------------------
(***************************************************************************)
(* What the delivery pipeline promises to whoever emits an event, without  *)
(* outbox rows, stream, consumer group or ticks.  Runners take events up,  *)
(* any number of them the same event at a time.  An event is handed over a *)
(* limited number of times and takes effect at most once each time; it is  *)
(* done only by a runner for whom it took effect; a done event is not      *)
(* taken up again, unless a runner still at work on it reports a failure.  *)
(***************************************************************************)
EXTENDS Naturals

CONSTANTS
    Event,          \* events
    Runner,         \* who takes events up
    Limit           \* how often an event is handed over at most

VARIABLES
    state,          \* "absent", "waiting", "running" or "done"
    tries,          \* times the event was handed over
    effects,        \* times it took effect
    run             \* what each runner is at: how far, and the event

vars == <<state, tries, effects, run>>

Idle        == <<"idle", "none">>
At(r, l, e) == run[r] = <<l, e>>
Goto(r, x)  == run' = [run EXCEPT ![r] = x]

Init ==
    /\ state = [e \in Event |-> "absent"]
    /\ tries = [e \in Event |-> 0]
    /\ effects = [e \in Event |-> 0]
    /\ run = [r \in Runner |-> Idle]

Emit(e) ==
    /\ state[e] = "absent"
    /\ state' = [state EXCEPT ![e] = "waiting"]
    /\ UNCHANGED <<tries, effects, run>>

\* Also for an event that runs: whoever had it may have died.  A runner that
\* does not learn that it has begun leaves the event running.
Begin(r, e) ==
    /\ run[r] = Idle /\ state[e] \in {"waiting", "running"} /\ tries[e] < Limit
    /\ state' = [state EXCEPT ![e] = "running"]
    /\ tries' = [tries EXCEPT ![e] = @ + 1]
    /\ Goto(r, <<"begun", e>>) \/ UNCHANGED run
    /\ UNCHANGED effects

\* The event takes effect; the runner may take it for a failure.
Effect(r, e) ==
    /\ At(r, "begun", e)
    /\ effects' = [effects EXCEPT ![e] = @ + 1]
    /\ Goto(r, <<"effected", e>>) \/ Goto(r, <<"failing", e>>)
    /\ UNCHANGED <<state, tries>>

\* Success is recorded only after an effect; a runner that does not learn
\* that it is recorded goes on to report a failure.
Succeed(r, e) ==
    /\ At(r, "effected", e)
    /\ state' = [state EXCEPT ![e] = "done"]
    /\ Goto(r, Idle) \/ Goto(r, <<"failing", e>>)
    /\ UNCHANGED <<tries, effects>>

Falter(r, e) ==
    /\ At(r, "begun", e) \/ At(r, "effected", e)
    /\ Goto(r, <<"failing", e>>)
    /\ UNCHANGED <<state, tries, effects>>

\* The report of a failure overwrites what other runners reported.
Fail(r, e) ==
    /\ At(r, "failing", e)
    /\ state' = [state EXCEPT ![e] = "waiting"]
    /\ Goto(r, Idle)
    /\ UNCHANGED <<tries, effects>>

Die(r) == Goto(r, Idle) /\ UNCHANGED <<state, tries, effects>>

Next ==
    \/ \E e \in Event : Emit(e)
    \/ \E r \in Runner, e \in Event :
         Begin(r, e) \/ Effect(r, e) \/ Succeed(r, e) \/ Falter(r, e) \/ Fail(r, e)
    \/ \E r \in Runner : Die(r)

Spec == Init /\ [][Next]_vars

=============================================================================
