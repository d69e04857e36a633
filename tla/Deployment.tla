----------------------------- MODULE Deployment -----------------------------
(***************************************************************************)
(* A deployment: replicas that start, die and are started again, the       *)
(* registry whose id they read from .env when they start, and the          *)
(* executors they register while they listen.                              *)
(***************************************************************************)
EXTENDS Startup, Registry

vars == <<startVars, registryVars>>

Init == StartInit /\ RegistryInit

\* A process reads .env once, when it starts, and keeps the contract.
Starts(r) ==
    /\ Boot(r, env)
    /\ UNCHANGED registryVars

Proceeds(r) ==
    /\ Main(r) \/ Publish(r)
    /\ UNCHANGED registryVars

\* The requests a process serves die with it.
Fails(r) ==
    /\ Dies(r)
    /\ Drop(r)

Accepts(r, q) ==
    /\ Listening(r)
    /\ Receive(q, r, replica[r].contract)
    /\ UNCHANGED startVars

Next ==
    \/ \E r \in Replica : \/ Starts(r) \/ Proceeds(r) \/ Fails(r)
                          \/ \E q \in Request : Accepts(r, q)
    \/ RegistryStep /\ UNCHANGED startVars

Spec == Init /\ [][Next]_vars

\* An operator starts again what has died, and main runs on; nobody has to
\* run the deploy script or to send a request.
FairSpec ==
    /\ Spec
    /\ \A r \in Replica : WF_vars(Starts(r)) /\ WF_vars(Main(r) /\ UNCHANGED registryVars)

-----------------------------------------------------------------------------
(* Properties.                                                             *)

\* An executor that was answered 201 is on the chain, and may bid and be paid
\* at every replica that listens, unless the registry was deployed anew: the
\* replicas then look it up in different contracts, depending on when they
\* were started.
RowsAreHonoured ==
    /\ RegistryTypeOK /\ RowIsOnChain
    /\ \A x \in Executor, r \in Replica :
         executors[x] # None /\ Listening(r) =>
           \/ authorizeExecutorPayment(replica[r].contract, x)
           \/ Cardinality(saved) > 1

\* Once .env names a registry every replica comes to listen, although it may
\* have started too early, lost a migration race or died on the way.
EventuallyListens ==
    \A r \in Replica : (env # None) ~> Listening(r)

=============================================================================
