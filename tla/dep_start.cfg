SPECIFICATION FairSpec
CONSTANTS
    Replica = {r1, r2}
    WorkerReplica = {r1}
    LastMigration = 2
    MaxEntries = 1
    MaxDeaths = 1
    Contract = {c1, c2}
    Executor = {x1}
    Metadata = {m1, m2}
    Request = {q1, q2}
    Network = {"local", "testnet"}
    Retries = 1
    MaxScripts = 2
    MaxFailures = 1
CHECK_DEADLOCK FALSE
INVARIANT MigratedOnce
INVARIANT GroupSeesAll
INVARIANT RowsAreHonoured
PROPERTY EventuallyListens
