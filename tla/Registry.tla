------------------------------- MODULE Registry -------------------------------
(***************************************************************************)
(* The on-chain registry of executors: the contract, the script that       *)
(* deploys it and writes its id to .env, RegistryService with its retries, *)
(* and POST /executors/register.  A transaction on the chain is atomic;    *)
(* its reply may be lost, and withRetry then submits it again.             *)
(***************************************************************************)
EXTENDS Naturals, FiniteSets

CONSTANTS
    Contract,       \* ids of contract instances
    Executor,       \* executor accounts
    Metadata,       \* metadata URIs
    Request,        \* POST /executors/register requests
    Network,        \* values of NETWORK
    Retries,        \* retries of withRetry (3)
    MaxScripts,     \* bound: runs of deploy-registry.ts
    MaxFailures     \* bound: failed calls

None == "none"

ASSUME RegistryAssumption ==
    /\ None \notin Contract \cup Metadata
    /\ Network \subseteq {"local", "testnet", "pubnet"}
    /\ Retries \in Nat /\ MaxScripts \in Nat /\ MaxFailures \in Nat

VARIABLES
    network,        \* NETWORK of the deployment
    env,            \* REGISTRY_CONTRACT_ID in .env
    saved,          \* history: every id .env has held
    deployed,       \* contract instances on the chain
    chain,          \* what each of them holds about each executor
    script,         \* the deploy script: where it is, and the instance in hand
    executors,      \* rows of executors
    req,            \* the requests
    scripts, failures   \* runs of the script and failed calls so far

ledger       == <<deployed, chain>>
registryVars == <<network, env, saved, ledger, script, executors, req, scripts, failures>>

-----------------------------------------------------------------------------
NoScript == [pc |-> "off", contract |-> None]

\* A request: where it is, what it asks for, the process that serves it, the
\* contract that process calls, and the attempts withRetry has made.
NoRequest == [pc |-> "idle", executor |-> None, metadata |-> None, server |-> None,
              contract |-> None, attempt |-> 0]

RegistryInit ==
    /\ network \in Network
    /\ env = None /\ saved = {} /\ deployed = {}
    /\ chain = [c \in Contract |-> [x \in Executor |-> None]]
    /\ script = NoScript
    /\ executors = [x \in Executor |-> None]
    /\ req = [q \in Request |-> NoRequest]
    /\ scripts = 0 /\ failures = 0

Failure == failures < MaxFailures /\ failures' = failures + 1

-----------------------------------------------------------------------------
(* The contract.                                                           *)

is_registered(c, x) == chain[c][x] # None

\* AlreadyRegistered leaves the entry as it is.
register_executor(c, x, m) ==
    chain' = IF is_registered(c, x) THEN chain ELSE [chain EXCEPT ![c][x] = m]

\* policyService: may this executor be paid, and may it bid?
authorizeExecutorPayment(c, x) == is_registered(c, x)

\* Off the local network an executor registers itself, with its own wallet.
RegisterDirectly(x) ==
    /\ network # "local" /\ env # None
    /\ \E m \in Metadata : register_executor(env, x, m)
    /\ UNCHANGED <<network, env, saved, deployed, script, executors, req, scripts, failures>>

-----------------------------------------------------------------------------
(* scripts/deploy-registry.ts.                                             *)

DeployStart ==
    /\ script.pc = "off" /\ scripts < MaxScripts
    /\ scripts' = scripts + 1
    /\ script' = [script EXCEPT !.pc = IF env = None THEN "deploy" ELSE "check"]
    /\ UNCHANGED <<network, env, saved, ledger, executors, req, failures>>

\* Whatever goes wrong while the instance is looked up is taken to mean that
\* it is not there, and the script deploys another one.
contractIsActive ==
    /\ script.pc = "check"
    /\ \/ script' = NoScript /\ UNCHANGED failures
       \/ Failure /\ script' = [script EXCEPT !.pc = "deploy"]
    /\ UNCHANGED <<network, env, saved, ledger, executors, req, scripts>>

\* Upload and instantiation; the script dies with an error when the call
\* fails, whether or not the instance was created.
Deploy ==
    /\ script.pc = "deploy"
    /\ Contract # deployed
    /\ LET c == CHOOSE d \in Contract \ deployed : TRUE IN
         \/ deployed' = deployed \cup {c} /\ script' = [pc |-> "save", contract |-> c]
            /\ UNCHANGED failures
         \/ Failure /\ script' = NoScript /\ deployed' \in {deployed, deployed \cup {c}}
    /\ UNCHANGED <<network, env, saved, chain, executors, req, scripts>>

\* upsertEnvVar, unless the script dies before.
SaveId ==
    /\ script.pc = "save"
    /\ \/ env' = script.contract /\ saved' = saved \cup {script.contract} /\ UNCHANGED failures
       \/ Failure /\ UNCHANGED <<env, saved>>
    /\ script' = NoScript
    /\ UNCHANGED <<network, ledger, executors, req, scripts>>

-----------------------------------------------------------------------------
(* POST /executors/register, served by process s for the contract c.       *)

Continue(q, p) == req' = [req EXCEPT ![q].pc = p]
Answer(q)      == req' = [req EXCEPT ![q] = [NoRequest EXCEPT !.pc = "answered"]]

Receive(q, s, c) ==
    /\ req[q].pc = "idle"
    /\ \E x \in Executor, m \in Metadata :
         req' = [req EXCEPT ![q] = [pc |-> IF network = "local" THEN "register" ELSE "lookup",
                   executor |-> x, metadata |-> m, server |-> s, contract |-> c, attempt |-> 0]]
    /\ UNCHANGED <<network, env, saved, ledger, script, executors, scripts, failures>>

\* withRetry: after a transient error the call is made again, until the
\* retries are used up; any other error is final.
Retry(q) ==
    \/ /\ req[q].attempt < Retries
       /\ req' = [req EXCEPT ![q].attempt = @ + 1]
    \/ Answer(q)

registerExecutor(q) ==
    /\ req[q].pc = "register"
    /\ register_executor(req[q].contract, req[q].executor, req[q].metadata)
    /\ IF is_registered(req[q].contract, req[q].executor)
         THEN Answer(q)                             \* 409
         ELSE Continue(q, "save")
    /\ UNCHANGED <<network, env, saved, deployed, script, executors, scripts, failures>>

\* The transaction is not submitted, or it is and the reply is lost.
registerExecutorFails(q) ==
    /\ req[q].pc = "register" /\ Failure
    /\ \/ register_executor(req[q].contract, req[q].executor, req[q].metadata)
       \/ UNCHANGED chain
    /\ Retry(q)                                     \* 409
    /\ UNCHANGED <<network, env, saved, deployed, script, executors, scripts>>

\* Mutant: the answer of the registry is not looked at.
isRegisteredIgnored(q) ==
    /\ req[q].pc = "lookup"
    /\ Continue(q, "save")
    /\ UNCHANGED <<network, env, saved, ledger, script, executors, scripts, failures>>

isRegistered(q) ==
    /\ req[q].pc = "lookup"
    /\ \/ /\ IF is_registered(req[q].contract, req[q].executor)
               THEN Continue(q, "save")
               ELSE Answer(q)                       \* 409
          /\ UNCHANGED failures
       \/ Failure /\ Retry(q)                       \* 500
    /\ UNCHANGED <<network, env, saved, ledger, script, executors, scripts>>

\* The upsert of the row, 201; or the statement fails, 500.
SaveExecutor(q) ==
    /\ req[q].pc = "save"
    /\ \/ executors' = [executors EXCEPT ![req[q].executor] = req[q].metadata]
          /\ UNCHANGED failures
       \/ Failure /\ UNCHANGED executors
    /\ Answer(q)
    /\ UNCHANGED <<network, env, saved, ledger, script, scripts>>

\* The process that serves the request dies.
Drop(s) ==
    /\ req' = [q \in Request |-> IF req[q].server = s
                                   THEN [NoRequest EXCEPT !.pc = "answered"] ELSE req[q]]
    /\ UNCHANGED <<network, env, saved, ledger, script, executors, scripts, failures>>

RegistryStep ==
    \/ \E x \in Executor : RegisterDirectly(x)
    \/ DeployStart \/ contractIsActive \/ Deploy \/ SaveId
    \/ \E q \in Request : \/ registerExecutor(q) \/ registerExecutorFails(q)
                          \/ isRegistered(q) \/ SaveExecutor(q)

-----------------------------------------------------------------------------
(* Properties.                                                             *)

\* Type invariant: every variable of the registry holds a value of its type.
RegistryTypeOK ==
    /\ network \in Network
    /\ env \in Contract \cup {None} /\ saved \subseteq deployed /\ deployed \subseteq Contract
    /\ chain \in [Contract -> [Executor -> Metadata \cup {None}]]
    /\ script.pc \in {"off", "check", "deploy", "save"}
    /\ executors \in [Executor -> Metadata \cup {None}]
    /\ \A q \in Request : req[q].attempt \in 0..Retries
    /\ scripts \in 0..MaxScripts /\ failures \in 0..MaxFailures

\* Every row of executors rests on a registration in a deployed contract; on
\* the local network, where the server made it, with the row's metadata.
RowIsOnChain ==
    \A x \in Executor : executors[x] # None =>
      \E c \in deployed : /\ is_registered(c, x)
                          /\ network = "local" => chain[c][x] = executors[x]

=============================================================================
