------------------------------- MODULE Startup -------------------------------
(***************************************************************************)
(* The start of a server process with a database: server.ts main runs the  *)
(* migrations, builds the application, starts the worker and listens.      *)
(* Several replicas start against one database and one Redis.              *)
(*                                                                         *)
(* runMigrations reads schema_migrations once and then takes the files in  *)
(* order, each in a transaction.  All its queries go through the pool and  *)
(* not through one client; a pool that serves one caller hands out the     *)
(* same connection, and an idle connection that is lost raises an error    *)
(* nobody listens for, so a lost connection is the death of the process.   *)
(* Whatever throws in main ends the process as well.                       *)
(***************************************************************************)
EXTENDS Naturals, FiniteSets

CONSTANTS
    Replica,        \* server processes
    WorkerReplica,  \* those with REDIS_URL and WORKER_ENABLED
    LastMigration,  \* the files of migrations/ are 1, 2, ..., LastMigration
    MaxEntries,     \* bound: entries added to the stream
    MaxDeaths       \* bound: processes that throw or crash

NoContract == "none"

ASSUME StartupAssumption ==
    /\ WorkerReplica \subseteq Replica
    /\ LastMigration \in Nat /\ MaxEntries \in Nat /\ MaxDeaths \in Nat

VARIABLES
    replica,        \* the processes
    applied,        \* rows of schema_migrations
    schema,         \* how often the SQL of each file was committed
    stream,         \* entries added to the Redis stream
    group,          \* position at which the consumer group was created; {} before
    deaths          \* processes that died so far

database  == <<applied, schema>>
redis     == <<stream, group>>
startVars == <<replica, database, redis, deaths>>

-----------------------------------------------------------------------------
Migration == 1..LastMigration

Phase == {"down", "read", "sql", "record", "commit", "app", "group", "listen",
          "listening"}

\* A process: where main is, what it has read of schema_migrations, the file
\* in hand, and the registry contract of its environment.
Down == [pc |-> "down", seen |-> {}, file |-> 0, contract |-> NoContract]

StartInit ==
    /\ replica = [r \in Replica |-> Down]
    /\ applied = {}
    /\ schema = [m \in Migration |-> 0]
    /\ stream = 0 /\ group = {}
    /\ deaths = 0

At(r, p)     == replica[r].pc = p
Goto(r, p)   == replica' = [replica EXCEPT ![r].pc = p]
Listening(r) == At(r, "listening")

-----------------------------------------------------------------------------
(* runMigrations.                                                          *)

\* dotenv reads .env, which names the contract c; the checks of the Stellar
\* connection that follow only log.
Boot(r, c) ==
    /\ At(r, "down")
    /\ replica' = [replica EXCEPT ![r] = [Down EXCEPT !.pc = "read", !.contract = c]]
    /\ UNCHANGED <<database, redis, deaths>>

\* The loop goes on to the first file after m that was not seen.
Pending(seen, m) == {f \in Migration : f > m /\ f \notin seen}
NextFile(r, seen, m) ==
    replica' = [replica EXCEPT ![r] =
        IF Pending(seen, m) = {}
          THEN [@ EXCEPT !.pc = "app", !.seen = {}, !.file = 0]
          ELSE [@ EXCEPT !.pc = "sql", !.seen = seen,
                         !.file = CHOOSE f \in Pending(seen, m) :
                                    \A g \in Pending(seen, m) : f <= g]]

\* Mutant: what was applied is not read.
getNoMigrations(r) ==
    /\ At(r, "read")
    /\ NextFile(r, {}, 0)
    /\ UNCHANGED <<database, redis, deaths>>

\* The table of migrations is created if it is not there, then read.
getAppliedMigrations(r) ==
    /\ At(r, "read")
    /\ NextFile(r, applied, 0)
    /\ UNCHANGED <<database, redis, deaths>>

\* Mutant: without a transaction the SQL is committed at once.
RunSqlAtOnce(r) ==
    /\ At(r, "sql")
    /\ schema' = [schema EXCEPT ![replica[r].file] = @ + 1]
    /\ Goto(r, "record")
    /\ UNCHANGED <<applied, redis, deaths>>

\* begin and the SQL of the file.  Its statements lock what they create or
\* alter, so a second replica waits until the first one's transaction ends.
RunSql(r) ==
    /\ At(r, "sql")
    /\ \A s \in Replica \ {r} : replica[s].pc \notin {"record", "commit"}
    /\ Goto(r, "record")
    /\ UNCHANGED <<database, redis, deaths>>

\* The insert fails when another replica has recorded the file since: the
\* transaction is rolled back, the error thrown and the process ends.
RecordMigration(r) ==
    /\ At(r, "record")
    /\ replica' = [replica EXCEPT ![r] =
                     IF @.file \in applied THEN Down ELSE [@ EXCEPT !.pc = "commit"]]
    /\ UNCHANGED <<database, redis, deaths>>

CommitMigration(r) ==
    /\ At(r, "commit")
    /\ applied' = applied \cup {replica[r].file}
    /\ schema' = [schema EXCEPT ![replica[r].file] = @ + 1]
    /\ NextFile(r, replica[r].seen, replica[r].file)
    /\ UNCHANGED <<redis, deaths>>

-----------------------------------------------------------------------------
(* createApp, the worker and listen.                                       *)

\* createApp throws without a REGISTRY_CONTRACT_ID.
createApp(r) ==
    /\ At(r, "app")
    /\ replica' = [replica EXCEPT ![r] =
                     IF @.contract = NoContract THEN Down
                     ELSE [@ EXCEPT !.pc = IF r \in WorkerReplica THEN "group" ELSE "listen"]]
    /\ UNCHANGED <<database, redis, deaths>>

\* Mutant: the group is created after the first ticks.
ensureGroupLater(r) ==
    /\ At(r, "group")
    /\ group' = IF group = {} /\ stream > 0 THEN {stream} ELSE group
    /\ Goto(r, "listen")
    /\ UNCHANGED <<database, stream, deaths>>

\* XGROUP CREATE at '$': behind every entry that is there; BUSYGROUP is fine.
ensureGroup(r) ==
    /\ At(r, "group")
    /\ group' = IF group = {} THEN {stream} ELSE group
    /\ Goto(r, "listen")
    /\ UNCHANGED <<database, stream, deaths>>

\* A tick of the started worker relays an event; it may precede listen.
Publish(r) ==
    /\ r \in WorkerReplica /\ replica[r].pc \in {"listen", "listening"}
    /\ stream < MaxEntries
    /\ stream' = stream + 1
    /\ UNCHANGED <<replica, database, group, deaths>>

Listen(r) ==
    /\ At(r, "listen")
    /\ Goto(r, "listening")
    /\ UNCHANGED <<database, redis, deaths>>

\* Something in main throws, or the process crashes; a transaction that is
\* open is rolled back.
Dies(r) ==
    /\ ~At(r, "down") /\ deaths < MaxDeaths
    /\ deaths' = deaths + 1
    /\ replica' = [replica EXCEPT ![r] = Down]
    /\ UNCHANGED <<database, redis>>

\* main, from the migrations to listen.
Main(r) ==
    \/ getAppliedMigrations(r) \/ RunSql(r) \/ RecordMigration(r) \/ CommitMigration(r)
    \/ createApp(r) \/ ensureGroup(r) \/ Listen(r)

-----------------------------------------------------------------------------
(* Properties.                                                             *)

\* Type invariant: every variable of the start-up holds a value of its type.
StartTypeOK ==
    /\ \A r \in Replica : /\ replica[r].pc \in Phase /\ replica[r].seen \subseteq Migration
                          /\ replica[r].file \in 0..LastMigration
    /\ applied \subseteq Migration
    /\ schema \in [Migration -> Nat]
    /\ stream \in 0..MaxEntries /\ group \subseteq 0..MaxEntries
    /\ deaths \in 0..MaxDeaths

\* The SQL of a migration is committed at most once, together with its row
\* of schema_migrations and after all earlier files, however many replicas
\* race through runMigrations and wherever they die.
AppliedOnce ==
    \A m \in Migration :
      /\ schema[m] = IF m \in applied THEN 1 ELSE 0
      /\ m \in applied => 1..m \subseteq applied

\* A process whose worker runs or which takes requests has the whole schema.
ServesMigrated ==
    \A r \in Replica : replica[r].pc \in {"app", "group", "listen", "listening"} =>
                         applied = Migration

\* The database of racing replicas: migrated once, in order, and before it
\* is used.
MigratedOnce == StartTypeOK /\ AppliedOnce /\ ServesMigrated

\* No entry is added before the consumer group exists: the group, created at
\* '$' by ensureGroup, is to deliver all of them.
GroupSeesAll == stream > 0 => group = {0}

=============================================================================
