SPECIFICATION FairSpec
CONSTANTS
    Network = {"local", "testnet"}
    Outbox = {TRUE, FALSE}
    PollTimeout = 2
    MaxRuns = 2
CHECK_DEADLOCK FALSE
INVARIANT TimelineInOrder
INVARIANT DoneWasServed
INVARIANT ShownHappened
PROPERTY RunEnds
