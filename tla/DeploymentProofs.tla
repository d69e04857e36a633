-------------------------- MODULE DeploymentProofs --------------------------
(***************************************************************************)
(* Theorems about Deployment, for any number of replicas, migrations,      *)
(* executors, requests and deployed registries: the database is migrated   *)
(* once, the consumer group misses nothing, and what was answered 201 is   *)
(* honoured.                                                               *)
(***************************************************************************)
EXTENDS Deployment, FiniteSetTheorems, TLAPS

Process == [pc : Phase, seen : SUBSET Migration, file : 0..LastMigration,
            contract : Contract \cup {None}]
Posted  == [pc : {"idle", "register", "lookup", "save", "answered"},
            executor : Executor \cup {None}, metadata : Metadata \cup {None},
            server : Replica \cup {None}, contract : Contract \cup {None}, attempt : 0..Retries]

\* The types of the start-up and of the registry, with those of the records.
FullTypeOK ==
    /\ StartTypeOK /\ RegistryTypeOK
    /\ replica \in [Replica -> Process] /\ req \in [Request -> Posted]
    /\ script \in [pc : {"off", "check", "deploy", "save"}, contract : Contract \cup {None}]

\* What a replica in the migration loop knows of schema_migrations: rows are
\* never deleted, and every file before the one in hand is there.
LoopInv ==
    \A r \in Replica :
      /\ replica[r].seen \subseteq applied
      /\ replica[r].pc \in {"sql", "record", "commit"} =>
           /\ replica[r].file \in Migration
           /\ \A f \in Migration : f < replica[r].file => f \in applied
      /\ replica[r].pc = "commit" => replica[r].file \notin applied

\* One transaction at a time has run its SQL.
OneTransaction ==
    \A r, s \in Replica : replica[r].pc \in {"record", "commit"} /\ replica[s].pc \in {"record", "commit"} => r = s

\* The group is created at position 0, because only a worker that has called
\* ensureGroup adds an entry.
GroupInv ==
    /\ group \in {{}, {0}}
    /\ group = {} => /\ stream = 0
                     /\ \A r \in WorkerReplica : replica[r].pc \notin {"listen", "listening"}

\* Every contract in use was in .env once.
ContractInv ==
    /\ IsFiniteSet(saved) /\ env \in saved \cup {None}
    /\ script.pc = "save" => script.contract \in deployed
    /\ \A r \in Replica :
         /\ replica[r].contract \in saved \cup {None}
         /\ replica[r].pc \in {"group", "listen", "listening"} => replica[r].contract # None

\* A request works on a contract of .env, and one that is about to save its
\* row has its registration on the chain.
RequestInv ==
    \A q \in Request : req[q].pc \in {"register", "lookup", "save"} =>
      /\ req[q].executor \in Executor /\ req[q].metadata \in Metadata /\ req[q].contract \in saved
      /\ req[q].pc = "lookup" => network # "local"
      /\ req[q].pc = "save" =>
           /\ is_registered(req[q].contract, req[q].executor)
           /\ network = "local" => chain[req[q].contract][req[q].executor] = req[q].metadata

\* A row rests on a registration in a contract that was in .env.
RowInv ==
    \A x \in Executor : executors[x] # None =>
      \E c \in saved : /\ is_registered(c, x)
                       /\ network = "local" => chain[c][x] = executors[x]

StartInv == LoopInv /\ OneTransaction /\ AppliedOnce /\ ServesMigrated /\ GroupInv
ChainInv == ContractInv /\ RequestInv /\ RowInv

IndInv == FullTypeOK /\ StartInv /\ ChainInv

-----------------------------------------------------------------------------
(* A step of one replica that leaves the database alone.                   *)

\* What the record p of replica r has to satisfy.
Fits(r, p) ==
    /\ p \in Process
    /\ p.seen \subseteq applied
    /\ p.pc \in {"sql", "record", "commit"} =>
         p.file \in Migration /\ \A f \in Migration : f < p.file => f \in applied
    /\ p.pc = "commit" => p.file \notin applied
    /\ p.pc \in {"record", "commit"} =>
         \A s \in Replica \ {r} : replica[s].pc \notin {"record", "commit"}
    /\ p.pc \in {"app", "group", "listen", "listening"} => applied = Migration
    /\ r \in WorkerReplica /\ p.pc \in {"listen", "listening"} => group # {}
    /\ p.contract \in saved \cup {None}
    /\ p.pc \in {"group", "listen", "listening"} => p.contract # None

\* The record of a replica fits.
LEMMA RecordFits ==
    ASSUME IndInv, NEW r \in Replica
    PROVE  Fits(r, replica[r])
<1>1. replica[r] \in Process
  BY DEF IndInv, FullTypeOK
<1>2. /\ replica[r].seen \subseteq applied
      /\ replica[r].pc \in {"sql", "record", "commit"} =>
           replica[r].file \in Migration /\ \A f \in Migration : f < replica[r].file => f \in applied
      /\ replica[r].pc = "commit" => replica[r].file \notin applied
  BY DEF IndInv, StartInv, LoopInv
<1>3. replica[r].pc \in {"record", "commit"} =>
         \A s \in Replica \ {r} : replica[s].pc \notin {"record", "commit"}
  BY DEF IndInv, StartInv, OneTransaction
<1>4. /\ replica[r].pc \in {"app", "group", "listen", "listening"} => applied = Migration
      /\ r \in WorkerReplica /\ replica[r].pc \in {"listen", "listening"} => group # {}
  BY DEF IndInv, StartInv, ServesMigrated, GroupInv
<1>5. /\ replica[r].contract \in saved \cup {None}
      /\ replica[r].pc \in {"group", "listen", "listening"} => replica[r].contract # None
  BY DEF IndInv, ChainInv, ContractInv
<1> QED BY <1>1, <1>2, <1>3, <1>4, <1>5 DEF Fits

\* A replica that takes a record that fits keeps the invariant.
LEMMA LocalStep ==
    ASSUME IndInv, NEW r \in Replica, NEW p, Fits(r, p),
           replica' = [replica EXCEPT ![r] = p],
           UNCHANGED <<database, redis>>, deaths' \in 0..MaxDeaths
    PROVE  StartTypeOK' /\ replica' \in [Replica -> Process] /\ StartInv'
           /\ (UNCHANGED <<env, saved, deployed, script>> => ContractInv')
<1>1. /\ replica' \in [Replica -> Process]
      /\ replica'[r] = p /\ \A s \in Replica \ {r} : replica'[s] = replica[s]
  BY DEF IndInv, FullTypeOK, Fits
<1>2. StartTypeOK'
  BY <1>1 DEF IndInv, FullTypeOK, StartTypeOK, Process, database, redis
<1>3. LoopInv'
  BY <1>1 DEF IndInv, StartInv, LoopInv, Fits, database
<1>4. OneTransaction'
  BY <1>1 DEF IndInv, StartInv, OneTransaction, Fits
<1>5. AppliedOnce'
  BY DEF IndInv, StartInv, AppliedOnce, database
<1>6. ServesMigrated'
  BY <1>1 DEF IndInv, StartInv, ServesMigrated, Fits, database
<1>7. GroupInv'
  BY <1>1, StartupAssumption DEF IndInv, StartInv, GroupInv, Fits, redis
<1>8. UNCHANGED <<env, saved, deployed, script>> => ContractInv'
  BY <1>1 DEF IndInv, ChainInv, ContractInv, Fits
<1> QED BY <1>1, <1>2, <1>3, <1>4, <1>5, <1>6, <1>7, <1>8 DEF StartInv

\* A set of migrations that is not empty has a first one.
LEMMA FirstOf ==
    ASSUME NEW S \in SUBSET Migration, S # {}
    PROVE  \E f \in S : \A g \in S : f <= g
<1>1. S \subseteq Nat
  BY StartupAssumption DEF Migration
<1>2. \E x \in S : \A y \in S : ~ (<<y, x>> \in OpToRel(<, Nat))
  BY <1>1, WFMin, NatLessThanWellFounded
<1>3. \A x, y \in Nat : y < x => <<y, x>> \in OpToRel(<, Nat)
  BY DEF OpToRel
<1>4. PICK R : /\ \E x \in S : \A y \in S : ~ (<<y, x>> \in R)
               /\ \A x, y \in Nat : y < x => <<y, x>> \in R
  BY <1>2, <1>3, Zenon
<1>5. PICK x \in S : \A y \in S : ~ (<<y, x>> \in R)
  BY <1>4
<1>6. ASSUME NEW y \in S PROVE x <= y
  <2>1. x \in Nat /\ y \in Nat
    BY <1>1
  <2>2. ~ (<<y, x>> \in R)
    BY <1>5
  <2>3. y < x => <<y, x>> \in R
    BY <1>4, <2>1
  <2> QED BY <2>1, <2>2, <2>3
<1> QED BY <1>6

\* What NextFile makes of a record.
Updated(p, l, seen, n) == [p EXCEPT !.pc = l, !.seen = seen, !.file = n]

\* The fields of a process that was updated.
LEMMA UpdatedFields ==
    ASSUME NEW p \in Process, NEW l \in Phase, NEW seen \in SUBSET Migration, NEW n \in 0..LastMigration
    PROVE  /\ Updated(p, l, seen, n) \in Process
           /\ Updated(p, l, seen, n).pc = l /\ Updated(p, l, seen, n).seen = seen
           /\ Updated(p, l, seen, n).file = n /\ Updated(p, l, seen, n).contract = p.contract
  BY DEF Process, Updated

\* The loop goes on with the first file it has not seen, or has seen all.
LEMMA NextFileRecord ==
    ASSUME FullTypeOK, NEW r \in Replica, NEW seen \in SUBSET Migration, NEW m \in 0..LastMigration,
           NextFile(r, seen, m)
    PROVE  \E p \in Process :
             /\ replica' = [replica EXCEPT ![r] = p]
             /\ p.contract = replica[r].contract
             /\ \/ /\ p.pc = "app" /\ p.seen = {}
                   /\ \A f \in Migration : f <= m \/ f \in seen
                \/ /\ p.pc = "sql" /\ p.seen = seen /\ p.file \in Migration
                   /\ \A f \in Migration : f < p.file => f <= m \/ f \in seen
<1>0. replica[r] \in Process
  BY DEF FullTypeOK
<1>1. CASE Pending(seen, m) = {}
  <2> DEFINE p == Updated(replica[r], "app", {}, 0)
  <2>1. "app" \in Phase /\ {} \in SUBSET Migration /\ 0 \in 0..LastMigration
    BY StartupAssumption DEF Phase
  <2>2. p \in Process /\ p.contract = replica[r].contract /\ p.pc = "app" /\ p.seen = {}
    BY <1>0, <2>1, UpdatedFields
  <2>3. replica' = [replica EXCEPT ![r] = p]
    BY <1>1 DEF NextFile, FullTypeOK, Updated
  <2>4. \A f \in Migration : f <= m \/ f \in seen
    BY <1>1, StartupAssumption DEF Pending, Migration
  <2> HIDE DEF p
  <2> QED BY <2>2, <2>3, <2>4
<1>2. CASE Pending(seen, m) # {}
  <2> DEFINE n == CHOOSE f \in Pending(seen, m) : \A g \in Pending(seen, m) : f <= g
             p == Updated(replica[r], "sql", seen, n)
  <2>1. n \in Pending(seen, m) /\ \A g \in Pending(seen, m) : n <= g
    BY <1>2, FirstOf DEF Pending
  <2>2. replica' = [replica EXCEPT ![r] = p]
    BY <1>2 DEF NextFile, FullTypeOK, Updated
  <2> HIDE DEF n
  <2>3. n \in Migration /\ n \in 0..LastMigration /\ \A f \in Migration : f < n => f <= m \/ f \in seen
    BY <2>1, StartupAssumption DEF Pending, Migration
  <2>4. p \in Process /\ p.contract = replica[r].contract /\ p.pc = "sql" /\ p.seen = seen /\ p.file = n
    BY <1>0, <2>3, UpdatedFields DEF Phase
  <2> HIDE DEF p
  <2> QED BY <2>2, <2>3, <2>4
<1> QED BY <1>1, <1>2

-----------------------------------------------------------------------------
(* The steps of main.                                                      *)

\* A step of main leaves the registry's side as it is.
LEMMA RegistryKept ==
    ASSUME IndInv, UNCHANGED registryVars
    PROVE  /\ RegistryTypeOK' /\ req' \in [Request -> Posted]
           /\ script' \in [pc : {"off", "check", "deploy", "save"}, contract : Contract \cup {None}]
           /\ RequestInv' /\ RowInv'
<1>1. RegistryTypeOK' /\ req' = req /\ script' = script
  BY DEF IndInv, FullTypeOK, RegistryTypeOK, registryVars, ledger
<1>2. RequestInv' /\ RowInv'
  BY DEF IndInv, ChainInv, RequestInv, RowInv, is_registered, registryVars, ledger
<1> QED BY <1>1, <1>2 DEF IndInv, FullTypeOK

\* A step of main that only moves the replica keeps the invariant when the
\* replica's new state fits the tables.
LEMMA MainStep ==
    ASSUME IndInv, NEW r \in Replica, NEW p, Fits(r, p),
           replica' = [replica EXCEPT ![r] = p],
           UNCHANGED <<database, redis>>, deaths' \in 0..MaxDeaths, UNCHANGED registryVars
    PROVE  IndInv'
  BY LocalStep, RegistryKept DEF IndInv, FullTypeOK, ChainInv, registryVars, ledger

\* A process that is down fits everywhere.
LEMMA DownFits ==
    ASSUME NEW r \in Replica
    PROVE  Fits(r, Down)
  BY StartupAssumption DEF Fits, Down, Process, Phase, NoContract, None

\* A process that starts keeps the contract .env names.
Booted(p, c) == [p EXCEPT !.pc = "read", !.contract = c]

\* The fields of a process that has read .env.
LEMMA BootedFields ==
    ASSUME NEW p \in Process, NEW c \in Contract \cup {None}
    PROVE  /\ Booted(p, c) \in Process /\ Booted(p, c).pc = "read" /\ Booted(p, c).contract = c
           /\ Booted(p, c).seen = p.seen
  BY DEF Process, Phase, Booted

\* A replica starts.
LEMMA StartsStep ==
    ASSUME IndInv, NEW r \in Replica, Starts(r)
    PROVE  IndInv'
<1> DEFINE p == Booted(Down, env)
<1>1. Down \in Process /\ Down.seen = {} /\ env \in Contract \cup {None} /\ env \in saved \cup {None}
  BY DownFits DEF Fits, Down, IndInv, FullTypeOK, RegistryTypeOK, ChainInv, ContractInv
<1>2. replica' = [replica EXCEPT ![r] = p] /\ UNCHANGED <<database, redis>> /\ deaths' = deaths
  BY DEF Starts, Boot, Booted
<1> HIDE DEF p
<1>3. p \in Process /\ p.pc = "read" /\ p.contract = env /\ p.seen = {}
  BY <1>1, BootedFields DEF p
<1>4. Fits(r, p)
  BY <1>1, <1>3 DEF Fits
<1>5. deaths' \in 0..MaxDeaths /\ UNCHANGED registryVars
  BY <1>2 DEF IndInv, FullTypeOK, StartTypeOK, Starts
<1> QED BY <1>2, <1>4, <1>5, MainStep

\* A file is taken when all before it are applied.
LEMMA GetAppliedStep ==
    ASSUME IndInv, NEW r \in Replica, getAppliedMigrations(r), UNCHANGED registryVars
    PROVE  IndInv'
<1>1. applied \in SUBSET Migration /\ 0 \in 0..LastMigration /\ deaths' \in 0..MaxDeaths
  BY StartupAssumption DEF IndInv, FullTypeOK, StartTypeOK, getAppliedMigrations
<1>2. PICK p \in Process :
             /\ replica' = [replica EXCEPT ![r] = p]
             /\ p.contract = replica[r].contract
             /\ \/ /\ p.pc = "app" /\ p.seen = {}
                   /\ \A f \in Migration : f <= 0 \/ f \in applied
                \/ /\ p.pc = "sql" /\ p.seen = applied /\ p.file \in Migration
                   /\ \A f \in Migration : f < p.file => f <= 0 \/ f \in applied
  BY <1>1, NextFileRecord DEF IndInv, getAppliedMigrations
<1>3. \A f \in Migration : ~(f <= 0)
  BY StartupAssumption DEF Migration
<1>4. p.pc = "app" => applied = Migration
  BY <1>1, <1>2, <1>3
<1>5. Fits(r, p)
  BY <1>2, <1>3, <1>4, RecordFits DEF Fits
<1> QED BY <1>1, <1>2, <1>5, MainStep DEF getAppliedMigrations

\* The locks of the SQL keep the others out of their transactions.
LEMMA RunSqlStep ==
    ASSUME IndInv, NEW r \in Replica, RunSql(r), UNCHANGED registryVars
    PROVE  IndInv'
<1> DEFINE p == [replica[r] EXCEPT !.pc = "record"]
<1>1. replica[r] \in Process /\ replica' = [replica EXCEPT ![r] = p] /\ deaths' \in 0..MaxDeaths
  BY DEF IndInv, FullTypeOK, StartTypeOK, RunSql, Goto
<1>2. /\ p \in Process /\ p.pc = "record"
      /\ p.seen = replica[r].seen /\ p.file = replica[r].file /\ p.contract = replica[r].contract
  BY <1>1 DEF Process, Phase
<1> HIDE DEF p
<1>3. Fits(r, p)
  BY <1>2, RecordFits DEF Fits, RunSql, At
<1> QED BY <1>1, <1>3, MainStep DEF RunSql

\* The row is inserted only when nobody else has inserted it.
LEMMA RecordStep ==
    ASSUME IndInv, NEW r \in Replica, RecordMigration(r), UNCHANGED registryVars
    PROVE  IndInv'
<1> DEFINE p == [replica[r] EXCEPT !.pc = "commit"]
<1>1. replica[r] \in Process /\ deaths' \in 0..MaxDeaths
  BY DEF IndInv, FullTypeOK, StartTypeOK, RecordMigration
<1>2. /\ p \in Process /\ p.pc = "commit"
      /\ p.seen = replica[r].seen /\ p.file = replica[r].file /\ p.contract = replica[r].contract
  BY <1>1 DEF Process, Phase
<1>3. CASE replica[r].file \in applied
  <2>1. replica' = [replica EXCEPT ![r] = Down]
    BY <1>3 DEF RecordMigration, IndInv, FullTypeOK
  <2> QED BY <1>1, <2>1, DownFits, MainStep DEF RecordMigration
<1>4. CASE replica[r].file \notin applied
  <2>1. replica' = [replica EXCEPT ![r] = p]
    BY <1>4 DEF RecordMigration, IndInv, FullTypeOK
  <2> HIDE DEF p
  <2>2. Fits(r, p)
    BY <1>2, <1>4, RecordFits DEF Fits, RecordMigration, At
  <2> QED BY <1>1, <2>1, <2>2, MainStep DEF RecordMigration
<1> QED BY <1>3, <1>4

\* createApp needs a contract.
LEMMA CreateAppStep ==
    ASSUME IndInv, NEW r \in Replica, createApp(r), UNCHANGED registryVars
    PROVE  IndInv'
<1> DEFINE l == IF r \in WorkerReplica THEN "group" ELSE "listen"
           p == [replica[r] EXCEPT !.pc = l]
<1>1. replica[r] \in Process /\ deaths' \in 0..MaxDeaths
  BY DEF IndInv, FullTypeOK, StartTypeOK, createApp
<1>2. /\ p \in Process /\ p.pc = l
      /\ p.seen = replica[r].seen /\ p.file = replica[r].file /\ p.contract = replica[r].contract
  BY <1>1 DEF Process, Phase
<1>3. CASE replica[r].contract = NoContract
  <2>1. replica' = [replica EXCEPT ![r] = Down]
    BY <1>3 DEF createApp, IndInv, FullTypeOK
  <2> QED BY <1>1, <2>1, DownFits, MainStep DEF createApp
<1>4. CASE replica[r].contract # NoContract
  <2>1. replica' = [replica EXCEPT ![r] = p]
    BY <1>4 DEF createApp, IndInv, FullTypeOK
  <2>2. Fits(r, p)
    <3> HIDE DEF p
    <3> QED BY <1>2, <1>4, RecordFits DEF Fits, createApp, At, None, NoContract
  <2> HIDE DEF p
  <2> QED BY <1>1, <2>1, <2>2, MainStep DEF createApp
<1> QED BY <1>3, <1>4

\* The last step of main.
LEMMA ListenStep ==
    ASSUME IndInv, NEW r \in Replica, Listen(r), UNCHANGED registryVars
    PROVE  IndInv'
<1> DEFINE p == [replica[r] EXCEPT !.pc = "listening"]
<1>1. replica[r] \in Process /\ replica' = [replica EXCEPT ![r] = p] /\ deaths' \in 0..MaxDeaths
  BY DEF IndInv, FullTypeOK, StartTypeOK, Listen, Goto
<1>2. /\ p \in Process /\ p.pc = "listening"
      /\ p.seen = replica[r].seen /\ p.file = replica[r].file /\ p.contract = replica[r].contract
  BY <1>1 DEF Process, Phase
<1> HIDE DEF p
<1>3. Fits(r, p)
  BY <1>2, RecordFits DEF Fits, Listen, At
<1> QED BY <1>1, <1>3, MainStep DEF Listen

\* A commit adds a file that was not there, after all before it.
LEMMA CommitStep ==
    ASSUME IndInv, NEW r \in Replica, CommitMigration(r), UNCHANGED registryVars
    PROVE  IndInv'
<1> DEFINE m == replica[r].file
<1>1. /\ replica[r] \in Process /\ replica[r].pc = "commit" /\ m \in Migration /\ m \notin applied
      /\ m \in 0..LastMigration /\ replica[r].seen \in SUBSET Migration
      /\ replica[r].seen \subseteq applied
      /\ \A f \in Migration : f < m => f \in applied
      /\ \A s \in Replica \ {r} : replica[s].pc \notin {"record", "commit"}
      /\ replica[r].contract \in saved \cup {None}
  BY RecordFits DEF Fits, CommitMigration, At, Process
<1>2. /\ applied' = applied \cup {m} /\ schema' = [schema EXCEPT ![m] = @ + 1]
      /\ UNCHANGED <<redis, deaths>>
  BY DEF CommitMigration
<1>3. PICK p \in Process :
             /\ replica' = [replica EXCEPT ![r] = p]
             /\ p.contract = replica[r].contract
             /\ \/ /\ p.pc = "app" /\ p.seen = {}
                   /\ \A f \in Migration : f <= m \/ f \in replica[r].seen
                \/ /\ p.pc = "sql" /\ p.seen = replica[r].seen /\ p.file \in Migration
                   /\ \A f \in Migration : f < p.file => f <= m \/ f \in replica[r].seen
  BY <1>1, NextFileRecord DEF IndInv, CommitMigration
<1>4. /\ replica' \in [Replica -> Process]
      /\ replica'[r] = p /\ \A s \in Replica \ {r} : replica'[s] = replica[s]
  BY <1>3 DEF IndInv, FullTypeOK
<1>5. \A f \in Migration : f <= m => f \in applied'
  BY <1>1, <1>2, StartupAssumption DEF Migration
<1>6. applied \subseteq Migration /\ applied \subseteq applied' /\ applied' \subseteq Migration
  BY <1>1, <1>2 DEF IndInv, FullTypeOK, StartTypeOK
<1> HIDE DEF m
<1>7. StartTypeOK'
  <2>1. schema' \in [Migration -> Nat]
    BY <1>1, <1>2 DEF IndInv, FullTypeOK, StartTypeOK
  <2> QED BY <1>2, <1>4, <1>6, <2>1 DEF IndInv, FullTypeOK, StartTypeOK, Process, redis
<1>8. LoopInv'
  <2>1. ASSUME NEW s \in Replica, s # r
        PROVE  /\ replica'[s].seen \subseteq applied'
               /\ replica'[s].pc \in {"sql", "record", "commit"} =>
                    replica'[s].file \in Migration
                    /\ \A f \in Migration : f < replica'[s].file => f \in applied'
               /\ replica'[s].pc # "commit"
    BY <1>1, <1>4, <1>6, <2>1 DEF IndInv, StartInv, LoopInv
  <2>2. /\ p.seen \subseteq applied' /\ p.pc # "commit" /\ p.pc # "record"
        /\ p.pc = "sql" => p.file \in Migration /\ \A f \in Migration : f < p.file => f \in applied'
    BY <1>1, <1>3, <1>5, <1>6
  <2> QED BY <1>4, <2>1, <2>2 DEF LoopInv
<1>9. OneTransaction'
  BY <1>1, <1>3, <1>4 DEF OneTransaction
<1>10. AppliedOnce'
  <2>1. ASSUME NEW n \in Migration PROVE schema'[n] = IF n \in applied' THEN 1 ELSE 0
    BY <1>1, <1>2 DEF IndInv, FullTypeOK, StartTypeOK, StartInv, AppliedOnce
  <2>2. ASSUME NEW n \in Migration, n \in applied' PROVE 1..n \subseteq applied'
    <3>1. CASE n = m
      BY <1>5, <3>1, StartupAssumption DEF Migration
    <3>2. CASE n # m
      BY <1>2, <1>6, <2>2, <3>2 DEF IndInv, StartInv, AppliedOnce
    <3> QED BY <3>1, <3>2
  <2> QED BY <2>1, <2>2 DEF AppliedOnce
<1>11. ServesMigrated'
  <2>1. p.pc = "app" => applied' = Migration
    BY <1>1, <1>3, <1>5, <1>6
  <2>2. \A s \in Replica \ {r} : replica[s].pc \in {"app", "group", "listen", "listening"} => applied' = Migration
    BY <1>6 DEF IndInv, StartInv, ServesMigrated
  <2> QED BY <1>3, <1>4, <2>1, <2>2 DEF ServesMigrated
<1>12. GroupInv'
  BY <1>2, <1>3, <1>4, StartupAssumption DEF IndInv, StartInv, GroupInv, redis
<1>13. ContractInv'
  BY <1>1, <1>3, <1>4 DEF IndInv, ChainInv, ContractInv, registryVars, ledger
<1> QED BY <1>4, <1>7, <1>8, <1>9, <1>10, <1>11, <1>12, <1>13, RegistryKept
         DEF IndInv, FullTypeOK, StartInv, ChainInv

\* The first worker creates the group, when the stream is still empty.
LEMMA EnsureGroupStep ==
    ASSUME IndInv, NEW r \in Replica, ensureGroup(r), UNCHANGED registryVars
    PROVE  IndInv'
<1> DEFINE p == [replica[r] EXCEPT !.pc = "listen"]
<1>1. /\ replica[r] \in Process /\ replica[r].pc = "group" /\ replica' = [replica EXCEPT ![r] = p]
      /\ UNCHANGED <<database, stream, deaths>>
  BY DEF IndInv, FullTypeOK, ensureGroup, Goto, At
<1>2. /\ p \in Process /\ p.pc = "listen"
      /\ p.seen = replica[r].seen /\ p.file = replica[r].file /\ p.contract = replica[r].contract
  BY <1>1 DEF Process, Phase
<1> HIDE DEF p
<1>3. group' = {0}
  BY DEF IndInv, StartInv, GroupInv, ensureGroup
<1>4. /\ replica' \in [Replica -> Process]
      /\ replica'[r] = p /\ \A s \in Replica \ {r} : replica'[s] = replica[s]
  BY <1>1, <1>2 DEF IndInv, FullTypeOK
<1>5. StartTypeOK'
  BY <1>1, <1>3, <1>4, StartupAssumption DEF IndInv, FullTypeOK, StartTypeOK, Process, database
<1>6. LoopInv' /\ OneTransaction'
  BY <1>1, <1>2, <1>4 DEF IndInv, StartInv, LoopInv, OneTransaction, database
<1>7. AppliedOnce' /\ ServesMigrated'
  BY <1>1, <1>2, <1>4 DEF IndInv, StartInv, AppliedOnce, ServesMigrated, database
<1>8. GroupInv'
  BY <1>3 DEF GroupInv
<1>9. ContractInv'
  BY <1>1, <1>2, <1>4 DEF IndInv, ChainInv, ContractInv, registryVars, ledger
<1> QED BY <1>4, <1>5, <1>6, <1>7, <1>8, <1>9, RegistryKept DEF IndInv, FullTypeOK, StartInv, ChainInv

\* Only a worker that has called ensureGroup adds an entry.
LEMMA PublishStep ==
    ASSUME IndInv, NEW r \in Replica, Publish(r), UNCHANGED registryVars
    PROVE  IndInv'
<1>1. UNCHANGED <<replica, database, group, deaths>> /\ group # {}
  BY DEF IndInv, StartInv, GroupInv, Publish
<1>2. StartTypeOK'
  BY <1>1, StartupAssumption DEF IndInv, FullTypeOK, StartTypeOK, Publish, database
<1>3. StartInv'
  BY <1>1 DEF IndInv, StartInv, LoopInv, OneTransaction, AppliedOnce, ServesMigrated, GroupInv, database
<1>4. ContractInv'
  BY <1>1 DEF IndInv, ChainInv, ContractInv, registryVars, ledger
<1> QED BY <1>1, <1>2, <1>3, <1>4, RegistryKept DEF IndInv, FullTypeOK, ChainInv

\* The requests of a process that dies end without a row.
LEMMA FailsStep ==
    ASSUME IndInv, NEW r \in Replica, Fails(r)
    PROVE  IndInv'
<1>1. /\ replica' = [replica EXCEPT ![r] = Down] /\ UNCHANGED <<database, redis>>
      /\ deaths' \in 0..MaxDeaths
      /\ UNCHANGED <<network, env, saved, deployed, chain, script, executors, scripts, failures>>
  BY StartupAssumption DEF IndInv, FullTypeOK, StartTypeOK, Fails, Dies, Drop, ledger
<1>2. StartTypeOK' /\ replica' \in [Replica -> Process] /\ StartInv' /\ ContractInv'
  BY <1>1, DownFits, LocalStep
<1> DEFINE d == [NoRequest EXCEPT !.pc = "answered"]
<1>3. d \in Posted /\ d.pc = "answered"
  BY RegistryAssumption DEF NoRequest, Posted
<1>4. req' = [q \in Request |-> IF req[q].server = r THEN d ELSE req[q]]
  BY DEF Fails, Drop
<1> HIDE DEF d
<1>5. req' \in [Request -> Posted] /\ \A q \in Request : req'[q] = req[q] \/ req'[q].pc = "answered"
  BY <1>3, <1>4 DEF IndInv, FullTypeOK
<1>6. RegistryTypeOK'
  BY <1>1, <1>5 DEF IndInv, FullTypeOK, RegistryTypeOK, Posted
<1>7. RequestInv'
  BY <1>1, <1>5 DEF IndInv, ChainInv, RequestInv, is_registered
<1>8. RowInv'
  BY <1>1 DEF IndInv, ChainInv, RowInv, is_registered
<1> QED BY <1>1, <1>2, <1>5, <1>6, <1>7, <1>8 DEF IndInv, FullTypeOK, ChainInv

-----------------------------------------------------------------------------
(* The steps of the registry.                                              *)

\* They leave the start-up alone.
LEMMA StartKept ==
    ASSUME IndInv, UNCHANGED startVars
    PROVE  StartTypeOK' /\ replica' \in [Replica -> Process] /\ StartInv'
<1>1. UNCHANGED <<replica, applied, schema, stream, group, deaths>>
  BY DEF startVars, database, redis
<1>2. StartTypeOK' /\ replica' \in [Replica -> Process]
  BY <1>1 DEF IndInv, FullTypeOK, StartTypeOK
<1>3. LoopInv' /\ OneTransaction' /\ AppliedOnce'
  BY <1>1 DEF IndInv, StartInv, LoopInv, OneTransaction, AppliedOnce
<1>4. ServesMigrated' /\ GroupInv'
  BY <1>1 DEF IndInv, StartInv, ServesMigrated, GroupInv
<1> QED BY <1>2, <1>3, <1>4 DEF StartInv

\* A request is received by a process that listens, and so has a contract.
LEMMA AcceptsStep ==
    ASSUME IndInv, NEW r \in Replica, NEW q \in Request, Accepts(r, q)
    PROVE  IndInv'
<1>1. UNCHANGED <<network, env, saved, deployed, chain, script, executors, scripts, failures, replica>>
  BY DEF Accepts, Receive, ledger, startVars
<1>2. PICK x \in Executor, m \in Metadata :
         req' = [req EXCEPT ![q] = [pc |-> IF network = "local" THEN "register" ELSE "lookup",
                   executor |-> x, metadata |-> m, server |-> r, contract |-> replica[r].contract,
                   attempt |-> 0]]
  BY DEF Accepts, Receive
<1> DEFINE p == [pc |-> IF network = "local" THEN "register" ELSE "lookup",
                   executor |-> x, metadata |-> m, server |-> r, contract |-> replica[r].contract,
                   attempt |-> 0]
<1>3. replica[r].contract \in saved /\ replica[r].contract \in Contract \cup {None}
  BY DEF Accepts, Listening, At, IndInv, ChainInv, ContractInv, FullTypeOK, Process
<1>4. /\ p \in Posted /\ p.pc \in {"register", "lookup"}
      /\ p.executor \in Executor /\ p.metadata \in Metadata /\ p.contract \in saved
      /\ p.pc = "lookup" => network # "local"
  BY <1>3, RegistryAssumption DEF Posted
<1>5. req' = [req EXCEPT ![q] = p]
  BY <1>2
<1> HIDE DEF p
<1>6. req' \in [Request -> Posted] /\ req'[q] = p /\ \A o \in Request \ {q} : req'[o] = req[o]
  BY <1>4, <1>5 DEF IndInv, FullTypeOK
<1>7. RegistryTypeOK'
  BY <1>1, <1>6 DEF IndInv, FullTypeOK, RegistryTypeOK, Posted
<1>8. RequestInv'
  BY <1>1, <1>4, <1>6 DEF IndInv, ChainInv, RequestInv, is_registered
<1>9. RowInv' /\ ContractInv'
  BY <1>1 DEF IndInv, ChainInv, RowInv, ContractInv, is_registered
<1> QED BY <1>1, <1>6, <1>7, <1>8, <1>9, StartKept DEF IndInv, FullTypeOK, ChainInv, Accepts

\* A registration is never changed.
Grows == \A c \in Contract, x \in Executor : chain[c][x] # None => chain'[c][x] = chain[c][x]

\* register_executor adds an executor and takes none away.
LEMMA RegisterGrows ==
    ASSUME IndInv, NEW c \in Contract, NEW x \in Executor, NEW m \in Metadata,
           register_executor(c, x, m)
    PROVE  /\ chain' \in [Contract -> [Executor -> Metadata \cup {None}]]
           /\ Grows
           /\ ~is_registered(c, x) => chain'[c][x] = m
  BY DEF IndInv, FullTypeOK, RegistryTypeOK, register_executor, is_registered, Grows

\* A request that goes on, ends, or comes to have its registration.
Goes(q) ==
    \/ req'[q].pc \in {"idle", "answered"}
    \/ /\ req'[q].executor = req[q].executor /\ req'[q].metadata = req[q].metadata
       /\ req'[q].contract = req[q].contract
       /\ req[q].pc \in {"register", "lookup", "save"}
       /\ \/ req'[q].pc = req[q].pc
          \/ req'[q].pc = "save" /\ chain'[req[q].contract][req[q].executor] # None
             /\ (network = "local" => chain'[req[q].contract][req[q].executor] = req[q].metadata)

\* What every step of the registry keeps, when its requests go on and its rows
\* have their registrations.
LEMMA RegistryStepInv ==
    ASSUME IndInv, UNCHANGED startVars, network' = network, saved \subseteq saved', Grows,
           RegistryTypeOK', req' \in [Request -> Posted], ContractInv',
           script' \in [pc : {"off", "check", "deploy", "save"}, contract : Contract \cup {None}],
           \A q \in Request : Goes(q),
           \A x \in Executor : \/ executors'[x] = executors[x]
                               \/ \E c \in saved : /\ chain[c][x] # None
                                                   /\ network = "local" => chain[c][x] = executors'[x]
    PROVE  IndInv'
<1>1. saved \subseteq Contract
  BY DEF IndInv, FullTypeOK, RegistryTypeOK
<1>2. RequestInv'
  <2> SUFFICES ASSUME NEW q \in Request, req'[q].pc \in {"register", "lookup", "save"}
               PROVE  /\ req'[q].executor \in Executor /\ req'[q].metadata \in Metadata
                      /\ req'[q].contract \in saved'
                      /\ req'[q].pc = "lookup" => network' # "local"
                      /\ req'[q].pc = "save" =>
                           /\ chain'[req'[q].contract][req'[q].executor] # None
                           /\ network' = "local" =>
                                chain'[req'[q].contract][req'[q].executor] = req'[q].metadata
    BY DEF RequestInv, is_registered
  <2>1. /\ req'[q].executor = req[q].executor /\ req'[q].metadata = req[q].metadata
        /\ req'[q].contract = req[q].contract /\ req[q].pc \in {"register", "lookup", "save"}
    BY DEF Goes
  <2>2. /\ req[q].executor \in Executor /\ req[q].metadata \in Metadata /\ req[q].contract \in saved
        /\ req[q].pc = "lookup" => network # "local"
        /\ req[q].pc = "save" =>
             /\ chain[req[q].contract][req[q].executor] # None
             /\ network = "local" => chain[req[q].contract][req[q].executor] = req[q].metadata
    BY <2>1 DEF IndInv, ChainInv, RequestInv, is_registered
  <2>3. req[q].pc = "save" => chain'[req[q].contract][req[q].executor] = chain[req[q].contract][req[q].executor]
    BY <1>1, <2>2 DEF Grows
  <2> QED BY <2>1, <2>2, <2>3 DEF Goes
<1>3. RowInv'
  <2> SUFFICES ASSUME NEW x \in Executor, executors'[x] # None
               PROVE  \E c \in saved' : /\ chain'[c][x] # None
                                        /\ network' = "local" => chain'[c][x] = executors'[x]
    BY DEF RowInv, is_registered
  <2>1. PICK c \in saved : chain[c][x] # None /\ (network = "local" => chain[c][x] = executors'[x])
    BY DEF IndInv, ChainInv, RowInv, is_registered
  <2>2. chain'[c][x] = chain[c][x]
    BY <1>1, <2>1 DEF Grows
  <2> QED BY <2>1, <2>2
<1> QED BY <1>2, <1>3, StartKept DEF IndInv, FullTypeOK, ChainInv

\* Steps that leave requests and rows alone.
LEMMA ScriptStepInv ==
    ASSUME IndInv, UNCHANGED startVars, UNCHANGED <<network, req, executors>>, saved \subseteq saved', Grows,
           RegistryTypeOK', ContractInv',
           script' \in [pc : {"off", "check", "deploy", "save"}, contract : Contract \cup {None}]
    PROVE  IndInv'
<1>1. \A q \in Request : Goes(q)
  BY DEF Goes, IndInv, FullTypeOK, Posted
<1>2. req' \in [Request -> Posted]
  BY DEF IndInv, FullTypeOK
<1> QED BY <1>1, <1>2, RegistryStepInv

\* Somebody calls the contract directly.
LEMMA RegisterDirectlyStep ==
    ASSUME IndInv, NEW x \in Executor, RegisterDirectly(x), UNCHANGED startVars
    PROVE  IndInv'
<1>1. env \in Contract
  BY DEF RegisterDirectly, IndInv, FullTypeOK, RegistryTypeOK
<1>2. chain' \in [Contract -> [Executor -> Metadata \cup {None}]] /\ Grows
  BY <1>1, RegisterGrows DEF RegisterDirectly
<1>3. RegistryTypeOK'
  BY <1>2 DEF RegisterDirectly, IndInv, FullTypeOK, RegistryTypeOK
<1>4. ContractInv'
  BY DEF RegisterDirectly, IndInv, ChainInv, ContractInv, startVars
<1> QED BY <1>2, <1>3, <1>4, ScriptStepInv DEF RegisterDirectly, IndInv, FullTypeOK

\* The deploy script starts.
LEMMA DeployStartStep ==
    ASSUME IndInv, DeployStart, UNCHANGED startVars
    PROVE  IndInv'
<1>1. /\ script' \in [pc : {"off", "check", "deploy", "save"}, contract : Contract \cup {None}]
      /\ script'.pc \in {"check", "deploy"}
  BY DEF DeployStart, IndInv, FullTypeOK
<1>2. RegistryTypeOK'
  BY <1>1, RegistryAssumption DEF DeployStart, IndInv, FullTypeOK, RegistryTypeOK, ledger
<1>3. ContractInv'
  BY <1>1 DEF DeployStart, IndInv, ChainInv, ContractInv, startVars, ledger
<1>4. Grows
  BY DEF Grows, DeployStart, ledger
<1> QED BY <1>1, <1>2, <1>3, <1>4, ScriptStepInv DEF DeployStart

\* The script looks the contract up.
LEMMA ContractIsActiveStep ==
    ASSUME IndInv, contractIsActive, UNCHANGED startVars
    PROVE  IndInv'
<1>1. /\ script' \in [pc : {"off", "check", "deploy", "save"}, contract : Contract \cup {None}]
      /\ script'.pc \in {"off", "deploy"}
  BY DEF contractIsActive, NoScript, IndInv, FullTypeOK
<1>2. failures' \in 0..MaxFailures
  BY RegistryAssumption DEF contractIsActive, Failure, IndInv, FullTypeOK, RegistryTypeOK
<1>3. RegistryTypeOK'
  BY <1>1, <1>2 DEF contractIsActive, IndInv, FullTypeOK, RegistryTypeOK, ledger
<1>4. ContractInv'
  BY <1>1 DEF contractIsActive, IndInv, ChainInv, ContractInv, startVars, ledger
<1>5. Grows
  BY DEF Grows, contractIsActive, ledger
<1> QED BY <1>1, <1>3, <1>4, <1>5, ScriptStepInv DEF contractIsActive

\* The script deploys a contract.
LEMMA DeployStep ==
    ASSUME IndInv, Deploy, UNCHANGED startVars
    PROVE  IndInv'
<1> DEFINE c == CHOOSE d \in Contract \ deployed : TRUE
<1>1. c \in Contract
  BY DEF Deploy, IndInv, FullTypeOK, RegistryTypeOK
<1>2. /\ \/ deployed' = deployed \cup {c} /\ script' = [pc |-> "save", contract |-> c] /\ UNCHANGED failures
         \/ Failure /\ script' = NoScript /\ deployed' \in {deployed, deployed \cup {c}}
      /\ UNCHANGED <<network, env, saved, chain, executors, req, scripts>>
  BY DEF Deploy
<1> HIDE DEF c
<1>3. /\ deployed' \subseteq Contract /\ deployed \subseteq deployed'
      /\ script' \in [pc : {"off", "check", "deploy", "save"}, contract : Contract \cup {None}]
      /\ script'.pc = "save" => script'.contract \in deployed'
  BY <1>1, <1>2 DEF NoScript, IndInv, FullTypeOK, RegistryTypeOK
<1>4. failures' \in 0..MaxFailures
  BY <1>2, RegistryAssumption DEF Failure, IndInv, FullTypeOK, RegistryTypeOK
<1>5. RegistryTypeOK'
  BY <1>2, <1>3, <1>4 DEF IndInv, FullTypeOK, RegistryTypeOK
<1>6. ContractInv'
  BY <1>2, <1>3 DEF IndInv, ChainInv, ContractInv, startVars
<1>7. Grows
  BY <1>2 DEF Grows
<1> QED BY <1>2, <1>3, <1>5, <1>6, <1>7, ScriptStepInv

\* The script writes the contract's id to .env.
LEMMA SaveIdStep ==
    ASSUME IndInv, SaveId, UNCHANGED startVars
    PROVE  IndInv'
<1>1. script.contract \in deployed /\ deployed \subseteq Contract /\ script' = NoScript
  BY DEF SaveId, IndInv, FullTypeOK, RegistryTypeOK, ChainInv, ContractInv
<1>2. /\ saved \subseteq saved' /\ saved' \subseteq deployed /\ env' \in saved' \cup {None}
      /\ IsFiniteSet(saved') /\ deployed' = deployed
  <2>1. IsFiniteSet(saved) /\ IsFiniteSet(saved \cup {script.contract})
    BY FS_AddElement DEF IndInv, ChainInv, ContractInv
  <2> QED BY <1>1, <2>1 DEF SaveId, IndInv, FullTypeOK, RegistryTypeOK, ChainInv, ContractInv, ledger
<1>3. failures' \in 0..MaxFailures
  BY RegistryAssumption DEF SaveId, Failure, IndInv, FullTypeOK, RegistryTypeOK
<1>4. script' \in [pc : {"off", "check", "deploy", "save"}, contract : Contract \cup {None}]
      /\ script'.pc = "off"
  BY <1>1 DEF NoScript
<1>5. RegistryTypeOK'
  BY <1>1, <1>2, <1>3, <1>4 DEF SaveId, IndInv, FullTypeOK, RegistryTypeOK, ledger
<1>6. ContractInv'
  BY <1>2, <1>4 DEF IndInv, ChainInv, ContractInv, startVars
<1>7. Grows
  BY DEF Grows, SaveId, ledger
<1> QED BY <1>2, <1>4, <1>5, <1>6, <1>7, ScriptStepInv DEF SaveId

\* A request that is answered, that is continued, and that is tried again.
LEMMA AnswerGoes ==
    ASSUME IndInv, NEW q \in Request, Answer(q)
    PROVE  req' \in [Request -> Posted] /\ \A o \in Request : Goes(o)
<1> DEFINE d == [NoRequest EXCEPT !.pc = "answered"]
<1>1. d \in Posted /\ d.pc = "answered"
  BY RegistryAssumption DEF NoRequest, Posted
<1>2. req' = [req EXCEPT ![q] = d]
  BY DEF Answer
<1> HIDE DEF d
<1>3. req' \in [Request -> Posted] /\ req'[q] = d /\ \A o \in Request \ {q} : req'[o] = req[o]
  BY <1>1, <1>2 DEF IndInv, FullTypeOK
<1> QED BY <1>1, <1>3 DEF Goes, IndInv, FullTypeOK, Posted

\* A request that goes on to the save has seen its executor on the chain.
LEMMA ContinueGoes ==
    ASSUME IndInv, NEW q \in Request, Continue(q, "save"), req[q].pc \in {"register", "lookup"},
           chain'[req[q].contract][req[q].executor] # None,
           network = "local" => chain'[req[q].contract][req[q].executor] = req[q].metadata
    PROVE  req' \in [Request -> Posted] /\ \A o \in Request : Goes(o)
<1> DEFINE d == [req[q] EXCEPT !.pc = "save"]
<1>1. req[q] \in Posted /\ req' = [req EXCEPT ![q] = d]
  BY DEF Continue, IndInv, FullTypeOK
<1>2. /\ d \in Posted /\ d.pc = "save" /\ d.executor = req[q].executor
      /\ d.metadata = req[q].metadata /\ d.contract = req[q].contract
  BY <1>1 DEF Posted
<1> HIDE DEF d
<1>3. req' \in [Request -> Posted] /\ req'[q] = d /\ \A o \in Request \ {q} : req'[o] = req[o]
  BY <1>1, <1>2 DEF IndInv, FullTypeOK
<1> QED BY <1>2, <1>3 DEF Goes, IndInv, FullTypeOK, Posted

\* A request that retries, or gives up, goes where it may.
LEMMA RetryGoes ==
    ASSUME IndInv, NEW q \in Request, Retry(q), req[q].pc \in {"register", "lookup"}
    PROVE  req' \in [Request -> Posted] /\ \A o \in Request : Goes(o)
<1>1. CASE Answer(q)
  BY <1>1, AnswerGoes
<1>2. CASE req[q].attempt < Retries /\ req' = [req EXCEPT ![q].attempt = @ + 1]
  <2> DEFINE d == [req[q] EXCEPT !.attempt = @ + 1]
  <2>1. req[q] \in Posted /\ req' = [req EXCEPT ![q] = d]
    BY <1>2 DEF IndInv, FullTypeOK
  <2>2. /\ d \in Posted /\ d.pc = req[q].pc /\ d.executor = req[q].executor
        /\ d.metadata = req[q].metadata /\ d.contract = req[q].contract
    BY <1>2, <2>1, RegistryAssumption DEF Posted
  <2> HIDE DEF d
  <2>3. req' \in [Request -> Posted] /\ req'[q] = d /\ \A o \in Request \ {q} : req'[o] = req[o]
    BY <2>1, <2>2 DEF IndInv, FullTypeOK
  <2> QED BY <2>2, <2>3 DEF Goes, IndInv, FullTypeOK, Posted
<1> QED BY <1>1, <1>2 DEF Retry

\* Types of a request's step, and the contracts it leaves alone.
LEMMA RequestStepInv ==
    ASSUME IndInv, UNCHANGED startVars, UNCHANGED <<network, env, saved, deployed, script, scripts>>, Grows,
           chain' \in [Contract -> [Executor -> Metadata \cup {None}]],
           executors' \in [Executor -> Metadata \cup {None}],
           req' \in [Request -> Posted], \A q \in Request : Goes(q),
           failures' = failures \/ Failure,
           \A x \in Executor : \/ executors'[x] = executors[x]
                               \/ \E c \in saved : /\ chain[c][x] # None
                                                   /\ network = "local" => chain[c][x] = executors'[x]
    PROVE  IndInv'
<1>1. failures' \in 0..MaxFailures
  BY RegistryAssumption DEF Failure, IndInv, FullTypeOK, RegistryTypeOK
<1>2. RegistryTypeOK'
  BY <1>1 DEF IndInv, FullTypeOK, RegistryTypeOK, Posted
<1>3. ContractInv'
  BY DEF IndInv, ChainInv, ContractInv, startVars
<1> QED BY <1>2, <1>3, RegistryStepInv DEF IndInv, FullTypeOK

\* A request in progress works on what it was sent with.
LEMMA InProgress ==
    ASSUME IndInv, NEW q \in Request, req[q].pc \in {"register", "lookup", "save"}
    PROVE  /\ req[q].executor \in Executor /\ req[q].metadata \in Metadata
           /\ req[q].contract \in saved /\ req[q].contract \in Contract
  BY DEF IndInv, ChainInv, RequestInv, FullTypeOK, RegistryTypeOK

\* A registration is submitted and answered.
LEMMA RegisterExecutorStep ==
    ASSUME IndInv, NEW q \in Request, registerExecutor(q), UNCHANGED startVars
    PROVE  IndInv'
<1>1. /\ chain' \in [Contract -> [Executor -> Metadata \cup {None}]] /\ Grows
      /\ ~is_registered(req[q].contract, req[q].executor) =>
             chain'[req[q].contract][req[q].executor] = req[q].metadata
      /\ req[q].metadata # None
  BY InProgress, RegisterGrows, RegistryAssumption DEF registerExecutor
<1>2. req' \in [Request -> Posted] /\ \A o \in Request : Goes(o)
  BY <1>1, AnswerGoes, ContinueGoes DEF registerExecutor
<1> QED BY <1>1, <1>2, RequestStepInv DEF registerExecutor, IndInv, FullTypeOK, RegistryTypeOK

\* A registration fails, after or before it was submitted.
LEMMA RegisterExecutorFailsStep ==
    ASSUME IndInv, NEW q \in Request, registerExecutorFails(q), UNCHANGED startVars
    PROVE  IndInv'
<1>1. chain' \in [Contract -> [Executor -> Metadata \cup {None}]] /\ Grows
  <2>1. CASE UNCHANGED chain
    BY <2>1 DEF Grows, IndInv, FullTypeOK, RegistryTypeOK
  <2>2. CASE register_executor(req[q].contract, req[q].executor, req[q].metadata)
    BY <2>2, InProgress, RegisterGrows DEF registerExecutorFails
  <2> QED BY <2>1, <2>2 DEF registerExecutorFails
<1>2. req' \in [Request -> Posted] /\ \A o \in Request : Goes(o)
  BY RetryGoes DEF registerExecutorFails
<1> QED BY <1>1, <1>2, RequestStepInv DEF registerExecutorFails, IndInv, FullTypeOK, RegistryTypeOK

\* The executor is looked up.
LEMMA IsRegisteredStep ==
    ASSUME IndInv, NEW q \in Request, isRegistered(q), UNCHANGED startVars
    PROVE  IndInv'
<1>1. chain' \in [Contract -> [Executor -> Metadata \cup {None}]] /\ Grows /\ chain' = chain
  BY DEF isRegistered, Grows, IndInv, FullTypeOK, RegistryTypeOK, ledger
<1>3. network # "local"
  BY DEF isRegistered, IndInv, ChainInv, RequestInv
<1>2. req' \in [Request -> Posted] /\ \A o \in Request : Goes(o)
  BY <1>1, <1>3, AnswerGoes, ContinueGoes, RetryGoes DEF isRegistered, is_registered
<1> QED BY <1>1, <1>2, RequestStepInv DEF isRegistered, IndInv, FullTypeOK, RegistryTypeOK, ledger

\* The row of the executor is saved.
LEMMA SaveExecutorStep ==
    ASSUME IndInv, NEW q \in Request, SaveExecutor(q), UNCHANGED startVars
    PROVE  IndInv'
<1>1. chain' \in [Contract -> [Executor -> Metadata \cup {None}]] /\ Grows
  BY DEF SaveExecutor, Grows, IndInv, FullTypeOK, RegistryTypeOK, ledger
<1>2. req' \in [Request -> Posted] /\ \A o \in Request : Goes(o)
  BY AnswerGoes DEF SaveExecutor
<1>3. /\ req[q].executor \in Executor /\ req[q].metadata \in Metadata /\ req[q].contract \in saved
      /\ chain[req[q].contract][req[q].executor] # None
      /\ network = "local" => chain[req[q].contract][req[q].executor] = req[q].metadata
  BY DEF SaveExecutor, IndInv, ChainInv, RequestInv, is_registered
<1>4. \/ executors' = executors
      \/ executors' = [executors EXCEPT ![req[q].executor] = req[q].metadata]
  BY DEF SaveExecutor
<1>5. /\ executors' \in [Executor -> Metadata \cup {None}]
      /\ \A x \in Executor : \/ executors'[x] = executors[x]
                             \/ x = req[q].executor /\ executors'[x] = req[q].metadata
  BY <1>3, <1>4 DEF IndInv, FullTypeOK, RegistryTypeOK
<1>6. \A x \in Executor : \/ executors'[x] = executors[x]
                          \/ \E c \in saved : /\ chain[c][x] # None
                                              /\ network = "local" => chain[c][x] = executors'[x]
  BY <1>3, <1>5
<1> QED BY <1>1, <1>2, <1>5, <1>6, RequestStepInv DEF SaveExecutor, ledger

-----------------------------------------------------------------------------
(* The theorems.                                                           *)

\* The initial state.
LEMMA InitIndInv == Init => IndInv
<1> SUFFICES ASSUME Init PROVE IndInv
  OBVIOUS
<1>1. replica \in [Replica -> Process] /\ \A r \in Replica : replica[r] = Down
  BY DownFits DEF Init, StartInit, Fits
<1>2. Down.pc = "down" /\ Down.seen = {} /\ Down.file = 0 /\ Down.contract = None
  BY DEF Down, None, NoContract
<1>3. StartTypeOK
  BY <1>1, <1>2, StartupAssumption DEF Init, StartInit, StartTypeOK, Phase
<1>4. StartInv
  BY <1>1, <1>2, StartupAssumption DEF Init, StartInit, StartInv, LoopInv, OneTransaction, AppliedOnce,
     ServesMigrated, GroupInv
<1>5. /\ req \in [Request -> Posted]
      /\ \A q \in Request : req[q].pc = "idle" /\ req[q].attempt = 0
  BY RegistryAssumption DEF Init, RegistryInit, NoRequest, Posted
<1>6. /\ script \in [pc : {"off", "check", "deploy", "save"}, contract : Contract \cup {None}]
      /\ script.pc = "off"
  BY DEF Init, RegistryInit, NoScript
<1>7. RegistryTypeOK
  BY <1>5, <1>6, RegistryAssumption DEF Init, RegistryInit, RegistryTypeOK
<1>8. ContractInv
  BY <1>1, <1>2, <1>6, FS_EmptySet DEF Init, RegistryInit, ContractInv
<1>9. RequestInv /\ RowInv
  BY <1>5 DEF Init, RegistryInit, RequestInv, RowInv
<1> QED BY <1>1, <1>3, <1>4, <1>5, <1>6, <1>7, <1>8, <1>9 DEF IndInv, FullTypeOK, ChainInv

\* Every step keeps the invariant.
LEMMA NextIndInv == IndInv /\ [Next]_vars => IndInv'
<1> SUFFICES ASSUME IndInv, [Next]_vars PROVE IndInv'
  OBVIOUS
<1>1. ASSUME NEW r \in Replica, Starts(r) PROVE IndInv'
  BY <1>1, StartsStep
<1>2. ASSUME NEW r \in Replica, Proceeds(r) PROVE IndInv'
  <2>1. UNCHANGED registryVars
    BY <1>2 DEF Proceeds
  <2>2. CASE Publish(r)
    BY <2>1, <2>2, PublishStep
  <2>3. CASE Main(r)
    BY <2>1, <2>3, GetAppliedStep, RunSqlStep, RecordStep, CommitStep, CreateAppStep, EnsureGroupStep,
       ListenStep DEF Main
  <2> QED BY <1>2, <2>2, <2>3 DEF Proceeds
<1>3. ASSUME NEW r \in Replica, Fails(r) PROVE IndInv'
  BY <1>3, FailsStep
<1>4. ASSUME NEW r \in Replica, NEW q \in Request, Accepts(r, q) PROVE IndInv'
  BY <1>4, AcceptsStep
<1>5. CASE RegistryStep /\ UNCHANGED startVars
  BY <1>5, RegisterDirectlyStep, DeployStartStep, ContractIsActiveStep, DeployStep, SaveIdStep,
     RegisterExecutorStep, RegisterExecutorFailsStep, IsRegisteredStep, SaveExecutorStep DEF RegistryStep
<1>6. CASE UNCHANGED vars
  <2>1. UNCHANGED startVars /\ UNCHANGED registryVars
    BY <1>6 DEF vars
  <2>2. ContractInv'
    BY <2>1 DEF IndInv, ChainInv, ContractInv, startVars, registryVars, ledger
  <2> QED BY <2>1, <2>2, StartKept, RegistryKept DEF IndInv, FullTypeOK, ChainInv
<1> QED BY <1>1, <1>2, <1>3, <1>4, <1>5, <1>6 DEF Next

\* The invariant holds.
LEMMA SpecIndInv == Spec => []IndInv
  BY InitIndInv, NextIndInv, PTL DEF Spec

\* Two ids that .env has held are more than one.
LEMMA TwoSaved ==
    ASSUME IsFiniteSet(saved), NEW c \in saved, NEW d \in saved, c # d
    PROVE  Cardinality(saved) > 1
<1>1. IsFiniteSet({c}) /\ Cardinality({c}) = 1
  BY FS_Singleton
<1>2. Cardinality({c} \cup {d}) = 2
  BY <1>1, FS_AddElement
<1>3. {c} \cup {d} \in SUBSET saved
  OBVIOUS
<1>4. Cardinality({c} \cup {d}) <= Cardinality(saved) /\ Cardinality(saved) \in Nat
  BY <1>3, FS_Subset, FS_CardinalityType
<1> QED BY <1>2, <1>4

\* The invariant implies RowsAreHonoured.
LEMMA Honoured == IndInv => RowsAreHonoured
<1> SUFFICES ASSUME IndInv PROVE RowsAreHonoured
  OBVIOUS
<1>1. RowIsOnChain
  BY DEF IndInv, FullTypeOK, RegistryTypeOK, ChainInv, RowInv, RowIsOnChain
<1>2. ASSUME NEW x \in Executor, NEW r \in Replica, executors[x] # None, Listening(r)
      PROVE  authorizeExecutorPayment(replica[r].contract, x) \/ Cardinality(saved) > 1
  <2>1. PICK c \in saved : is_registered(c, x)
    BY <1>2 DEF IndInv, ChainInv, RowInv
  <2>2. replica[r].contract \in saved /\ IsFiniteSet(saved)
    BY <1>2 DEF IndInv, ChainInv, ContractInv, Listening, At
  <2>3. CASE c = replica[r].contract
    BY <2>1, <2>3 DEF authorizeExecutorPayment
  <2>4. CASE c # replica[r].contract
    BY <2>2, <2>4, TwoSaved
  <2> QED BY <2>3, <2>4
<1> QED BY <1>1, <1>2 DEF RowsAreHonoured, IndInv, FullTypeOK

\* However many replicas race through runMigrations and wherever they die,
\* the SQL of every file is committed at most once, together with its row and
\* after all files before it, and nothing runs on a schema that is not whole.
THEOREM MigratedTheorem == Spec => []MigratedOnce
<1>1. IndInv => MigratedOnce
  BY DEF IndInv, FullTypeOK, StartInv, MigratedOnce
<1> QED BY <1>1, SpecIndInv, PTL

\* The consumer group, created at '$' by whichever worker comes first, is to
\* deliver every entry of the stream.
THEOREM GroupTheorem == Spec => []GroupSeesAll
<1>1. IndInv => GroupSeesAll
  BY DEF IndInv, FullTypeOK, StartTypeOK, StartInv, GroupInv, GroupSeesAll
<1> QED BY <1>1, SpecIndInv, PTL

\* An executor answered 201 is on the chain, and every listening replica lets
\* it bid and be paid as long as .env has only ever named one registry.
THEOREM HonouredTheorem == Spec => []RowsAreHonoured
  BY SpecIndInv, Honoured, PTL

=============================================================================
