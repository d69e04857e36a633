------------------------------ MODULE Payments ------------------------------
(***************************************************************************)
(* What is paid: the listing fee of a task and the price of its result,    *)
(* at a server that may be restarted.  The two routes share nothing but    *)
(* the process, so a behaviour is about one of them, the one it starts     *)
(* with, and the other is left alone.  A reader's calls go to one endpoint *)
(* and so to one gate; any restart is taken to end it.                     *)
(***************************************************************************)
EXTENDS ListingFee, ResultPayment

VARIABLE route      \* the route the behaviour is about

vars == <<feeVars, readVars, failures, restarts, route>>

Init ==
    /\ route \in {"POST /tasks", "GET /result"}
    /\ FeeInit /\ ReadInit /\ failures = 0 /\ restarts = 0

Fees ==
    /\ route = "POST /tasks" /\ FeeStep
    /\ UNCHANGED <<readVars, restarts, route>>

\* A step of a reader, or of the gate it waits at, that may fail.
ReadsOrFails(Step(_)) ==
    /\ route = "GET /result"
    /\ \/ Step(FALSE) /\ UNCHANGED failures
       \/ Failure /\ Step(TRUE)
    /\ UNCHANGED <<feeVars, restarts, route>>

Initialized == ReadsOrFails(initialize)
ReaderSteps(d) == ReadsOrFails(LAMBDA fault : Reads(d, fault))

Around ==
    /\ route = "GET /result" /\ (Registers \/ ResultChanges)
    /\ UNCHANGED <<feeVars, failures, restarts, route>>

Restart ==
    /\ restarts < MaxRestarts /\ restarts' = restarts + 1
    /\ \E i \in Instance : FeeRestart(i)
    /\ ReadRestart
    /\ UNCHANGED <<failures, route>>

Next ==
    \/ Fees \/ Initialized \/ Around \/ Restart
    \/ \E d \in Reader : ReaderSteps(d)

Spec == Init /\ [][Next]_vars

\* The gate's promise settles, and the readers go on and ask again; nobody
\* has to create a task, to register or to publish.
FairSpec ==
    /\ Spec
    /\ WF_vars(Initialized)
    /\ \A d \in Reader : WF_vars(ReaderSteps(d))

-----------------------------------------------------------------------------
(* Properties.                                                             *)

\* Who has the result has paid for it; who has paid has the result, or was
\* let down by one failed call or one restart for each further payment.
\* Nobody is paid before there is a result, and no call that asks the policy
\* pays an executor outside the registry.
ReaderPaysForResult ==
    /\ ReadTypeOK
    /\ \A d \in Reader :
         /\ d \in delivered => settled[d] > 0
         /\ settled[d] <= failures + restarts + (IF d \in delivered THEN 1 ELSE 0)
         /\ settled[d] > 0 => result # "none"
         /\ settled[d] > 0 /\ d \in policed => registered

\* The gate recovers: a facilitator that could not be reached does not keep a
\* reader from a result that stays there.
ResultObtained ==
    \A d \in Reader :
      <>[](registered /\ result = "ready") => <>(d \in delivered)

=============================================================================
