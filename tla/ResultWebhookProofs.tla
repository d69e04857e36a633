------------------------ MODULE ResultWebhookProofs ------------------------
(***************************************************************************)
(* Proofs about ResultWebhook for every number of requests, workers,       *)
(* retries, attempts and faults.                                           *)
(***************************************************************************)
EXTENDS ResultWebhook, FiniteSetTheorems, TLAPS

\* A row is created by its first attempt.
FreshRow == \A e \in Publisher : consumption[e].status = "NONE" => consumption[e].attempts = 0

\* A worker that waits for a retry has one left.
RetryLeft == \A w \in Worker : pc[w] = "sleep" => call[w].attempt < MaxRetries

\* A worker about to write SUCCEEDED has had its 2xx.
SuccessEarned == \A w \in Worker : pc[w] = "mark_succeeded" => call[w].event \in received

\* A request emits once, as its last step.
EmittedAtEnd == \A p \in Publisher : pc[p] # "end" => event[p] = None

IndInv ==
    /\ TypeOK
    /\ EmittedAtEnd
    /\ FreshRow
    /\ RetryLeft
    /\ SuccessEarned
    /\ SucceededWasReceived
    /\ LatestAnnounced

\* The initial states satisfy the invariant.
LEMMA InitInv == Init => IndInv
  BY WebhookAssumption DEF Init, IndInv, TypeOK, EmittedAtEnd, FreshRow, RetryLeft, SuccessEarned,
     SucceededWasReceived, LatestAnnounced, NoCall, None, PublishAwait, WorkerAwait

\* A step of publishResult: the workers and their rows stay as they are.
LEMMA PublishStep ==
    ASSUME IndInv, NEW p \in Publisher,
           \/ FindTask(p) \/ FindBids(p) \/ Upsert(p) \/ ReadBack(p) \/ Emit(p) \/ PublishStops(p)
    PROVE  IndInv'
  <1> USE WebhookAssumption DEF None
  <1>1. \A w \in Worker : w # p
    OBVIOUS
  <1>2. TypeOK'
    <2>1. CASE FindTask(p)
      <3>1. job' \in [Publisher -> [sent : Hash \cup {None}, stored : Hash \cup {None}]]
        <4>1. CASE UNCHANGED job
          BY <4>1 DEF IndInv, TypeOK
        <4>2. ASSUME NEW h \in Hash, job' = [job EXCEPT ![p].sent = h]
              PROVE  job' \in [Publisher -> [sent : Hash \cup {None}, stored : Hash \cup {None}]]
          <5>1. job \in [Publisher -> [sent : Hash \cup {None}, stored : Hash \cup {None}]]
            BY DEF IndInv, TypeOK
          <5>2. [job[p] EXCEPT !.sent = h] \in [sent : Hash \cup {None}, stored : Hash \cup {None}]
            BY <5>1
          <5> QED BY <4>2, <5>1, <5>2
        <4> QED BY <2>1, <4>1, <4>2 DEF FindTask
      <3>2. pc' = [pc EXCEPT ![p] = "find_bids"] \/ pc' = [pc EXCEPT ![p] = "end"]
        BY <2>1 DEF FindTask, Goto
      <3>3. UNCHANGED <<status, row, event, consumption, call, posts, received, faults>>
        BY <2>1 DEF FindTask, partner
      <3> QED BY ZenonT(60), <1>1, <3>1, <3>2, <3>3 DEF IndInv, TypeOK, PublishAwait, WorkerAwait
    <2>2. CASE FindBids(p)
      BY <1>1, <2>2 DEF IndInv, TypeOK, FindBids, Goto, request, partner, PublishAwait, WorkerAwait
    <2>3. CASE Upsert(p)
      BY <1>1, <2>3 DEF IndInv, TypeOK, Upsert, Goto, request, partner, PublishAwait, WorkerAwait
    <2>4. CASE ReadBack(p)
      <3>1. job \in [Publisher -> [sent : Hash \cup {None}, stored : Hash \cup {None}]] /\ row \in Hash \cup {None}
        BY DEF IndInv, TypeOK
      <3>2. job' \in [Publisher -> [sent : Hash \cup {None}, stored : Hash \cup {None}]]
        <4>1. [job[p] EXCEPT !.stored = row] \in [sent : Hash \cup {None}, stored : Hash \cup {None}]
          BY <3>1
        <4> QED BY <2>4, <3>1, <4>1 DEF ReadBack
      <3>3. pc[p] = "read_back" /\ pc' = [pc EXCEPT ![p] = "emit"]
        BY <2>4 DEF ReadBack, Goto
      <3>4. UNCHANGED <<status, row, event, consumption, call, posts, received, faults>>
        BY <2>4 DEF ReadBack, partner
      <3> QED BY <1>1, <3>2, <3>3, <3>4 DEF IndInv, TypeOK, PublishAwait, WorkerAwait
    <2>5. CASE Emit(p)
      BY <1>1, <2>5 DEF IndInv, TypeOK, Emit, Goto, request, partner, PublishAwait, WorkerAwait
    <2>6. CASE PublishStops(p)
      BY <1>1, <2>6 DEF IndInv, TypeOK, PublishStops, Fault, Goto, request, partner, PublishAwait, WorkerAwait
    <2> QED BY <2>1, <2>2, <2>3, <2>4, <2>5, <2>6
  <1>3. /\ UNCHANGED <<consumption, call, received>>
        /\ \A w \in Worker : pc'[w] = pc[w]
    BY <1>1 DEF IndInv, TypeOK, FindTask, FindBids, Upsert, ReadBack, Emit, PublishStops, Fault, Goto,
       request, partner
  <1>4. FreshRow' /\ RetryLeft' /\ SuccessEarned' /\ SucceededWasReceived'
    BY <1>3 DEF IndInv, FreshRow, RetryLeft, SuccessEarned, SucceededWasReceived
  <1>5. LatestAnnounced'
    <2>1. CASE FindTask(p)
      <3>1. UNCHANGED <<row, event, faults>>
        BY <2>1 DEF FindTask
      <3>2. \A q \in Publisher : job'[q].stored = job[q].stored
        BY <2>1 DEF FindTask, IndInv, TypeOK
      <3>3. \A q \in Publisher : pc[q] \in {"read_back", "emit"} => pc'[q] = pc[q]
        BY <2>1 DEF FindTask, Goto, IndInv, TypeOK
      <3> QED BY <3>1, <3>2, <3>3 DEF IndInv, LatestAnnounced
    <2>2. CASE FindBids(p)
      BY <2>2 DEF IndInv, TypeOK, LatestAnnounced, FindBids, Goto, request, partner
    <2>3. CASE Upsert(p)
      BY <2>3 DEF IndInv, TypeOK, LatestAnnounced, Upsert, Goto
    <2>4. CASE ReadBack(p)
      BY <2>4 DEF IndInv, TypeOK, LatestAnnounced, ReadBack, Goto
    <2>5. CASE Emit(p)
      <3>1. UNCHANGED <<row, job, faults>>
        BY <2>5 DEF Emit
      <3>2. pc[p] = "emit" /\ \A q \in Publisher : q # p => pc'[q] = pc[q] /\ event'[q] = event[q]
        BY <2>5 DEF Emit, Goto, IndInv, TypeOK
      <3>3. event'[p] = job[p].stored
        BY <2>5 DEF Emit, IndInv, TypeOK
      <3>4. event[p] = None
        BY <3>2 DEF IndInv, EmittedAtEnd
      <3> QED BY <3>1, <3>2, <3>3, <3>4 DEF IndInv, LatestAnnounced
    <2>6. CASE PublishStops(p)
      BY <2>6 DEF IndInv, TypeOK, LatestAnnounced, PublishStops, Fault
    <2> QED BY <2>1, <2>2, <2>3, <2>4, <2>5, <2>6
  <1>6. EmittedAtEnd'
    BY DEF IndInv, TypeOK, EmittedAtEnd, FindTask, FindBids, Upsert, ReadBack, Emit, PublishStops, Goto, request
  <1> QED BY <1>2, <1>4, <1>5, <1>6 DEF IndInv

\* A step of a worker leaves the table of results, the requests and their
\* events alone.
LEMMA AnnouncedByWorker ==
    ASSUME IndInv, NEW w \in Worker,
           UNCHANGED <<row, request>>, \A p \in Publisher : pc'[p] = pc[p],
           faults' = faults \/ faults' = faults + 1
    PROVE  LatestAnnounced' /\ EmittedAtEnd'
  BY DEF IndInv, TypeOK, LatestAnnounced, EmittedAtEnd, request

\* tryStart counts an attempt; the event is not SUCCEEDED.
LEMMA StartStep ==
    ASSUME IndInv, NEW w \in Worker, NEW e \in Publisher, HandleResultPublished(w, e)
    PROVE  IndInv'
  <1> USE WebhookAssumption DEF None
  <1>1. \A p \in Publisher : p # w
    OBVIOUS
  <1>2. consumption[e].attempts \in 0..MaxAttempts /\ consumption[e].attempts + 1 \in 0..MaxAttempts
    BY DEF HandleResultPublished, TryStart, IndInv, TypeOK, FreshRow
  <1>3. TypeOK'
    BY <1>1, <1>2 DEF IndInv, TypeOK, HandleResultPublished, TryStart, Goto, request, partner, PublishAwait, WorkerAwait
  <1>4. FreshRow' /\ RetryLeft' /\ SuccessEarned' /\ SucceededWasReceived'
    BY DEF IndInv, TypeOK, HandleResultPublished, TryStart, Goto, partner, FreshRow, RetryLeft, SuccessEarned, SucceededWasReceived
  <1>5. LatestAnnounced' /\ EmittedAtEnd'
    BY <1>1, AnnouncedByWorker DEF HandleResultPublished, Goto, IndInv, TypeOK
  <1> QED BY <1>3, <1>4, <1>5 DEF IndInv

\* An HTTP attempt: a 2xx leaves the event received, and a retry is taken only
\* while one is left.
LEMMA PostStep ==
    ASSUME IndInv, NEW w \in Worker, Post(w)
    PROVE  IndInv'
  <1> USE WebhookAssumption DEF None
  <1>1. \A p \in Publisher : p # w
    OBVIOUS
  <1> DEFINE e == call[w].event
  <1>2. pc[w] = "post" /\ e \in Publisher /\ call[w].attempt \in 0..MaxRetries
    BY DEF Post, IndInv, TypeOK
  <1>3. PICK answer \in Answer, taken \in BOOLEAN :
            /\ answer = "2xx" => taken
            /\ received' = IF taken THEN received \cup {e} ELSE received
            /\ Goto(w, Outcome(w, answer))
    BY DEF Post
  <1>4. /\ posts' = [posts EXCEPT ![e] = @ + 1]
        /\ UNCHANGED <<status, row, request, consumption, call, faults>>
    BY DEF Post
  <1>5. /\ Outcome(w, answer) \in {"mark_succeeded", "sleep", "mark_failed"}
        /\ Outcome(w, answer) = "mark_succeeded" => e \in received'
        /\ Outcome(w, answer) = "sleep" => call[w].attempt < MaxRetries
    BY <1>2, <1>3 DEF Outcome, GivesUp, Answer
  <1>6. pc' = [pc EXCEPT ![w] = Outcome(w, answer)]
    BY <1>3 DEF Goto
  <1>7. received \subseteq received' /\ received' \subseteq Publisher
    BY <1>2, <1>3 DEF IndInv, TypeOK
  <1> HIDE DEF e
  <1>8. TypeOK'
    BY <1>1, <1>2, <1>4, <1>5, <1>6, <1>7 DEF e, IndInv, TypeOK, request, PublishAwait, WorkerAwait
  <1>9. FreshRow' /\ RetryLeft' /\ SuccessEarned' /\ SucceededWasReceived'
    BY <1>4, <1>5, <1>6, <1>7 DEF e, IndInv, TypeOK, FreshRow, RetryLeft, SuccessEarned, SucceededWasReceived
  <1>10. LatestAnnounced' /\ EmittedAtEnd'
    BY <1>1, <1>4, <1>6, AnnouncedByWorker DEF IndInv, TypeOK
  <1> QED BY <1>8, <1>9, <1>10 DEF IndInv

\* The statement of markSucceeded and of markFailed.
LEMMA StatusSet ==
    ASSUME IndInv, NEW w \in Worker, NEW s \in {"SUCCEEDED", "FAILED"}, call[w].event \in Publisher,
           SetStatus(w, s)
    PROVE  /\ consumption' \in [Publisher -> [status : {"NONE", "PROCESSING", "SUCCEEDED", "FAILED"},
                                             attempts : 0..MaxAttempts]]
           /\ consumption'[call[w].event].status = s
           /\ \A e \in Publisher : /\ consumption'[e].attempts = consumption[e].attempts
                                   /\ e # call[w].event => consumption'[e] = consumption[e]
  BY DEF SetStatus, IndInv, TypeOK

\* What a worker does besides starting and posting.
LEMMA WorkerStep ==
    ASSUME IndInv, NEW w \in Worker, Awake(w) \/ Mark(w) \/ MarkThrows(w) \/ WorkerStops(w)
    PROVE  IndInv'
  <1> USE WebhookAssumption DEF None
  <1>1. \A p \in Publisher : p # w
    OBVIOUS
  <1>2. TypeOK'
    <2>1. CASE Awake(w)
      <3>1. call[w].attempt + 1 \in 0..MaxRetries
        BY <2>1 DEF Awake, IndInv, TypeOK, RetryLeft
      <3> QED BY <1>1, <2>1, <3>1
            DEF IndInv, TypeOK, Awake, Goto, request, partner, PublishAwait, WorkerAwait
    <2>2. CASE Mark(w)
      <3>1. call[w].event \in Publisher
        BY <2>2 DEF Mark, IndInv, TypeOK
      <3>2. consumption' \in [Publisher -> [status : {"NONE", "PROCESSING", "SUCCEEDED", "FAILED"},
                                            attempts : 0..MaxAttempts]]
        BY <2>2, <3>1, StatusSet DEF Mark
      <3>4. call' = [call EXCEPT ![w] = NoCall] /\ pc' = [pc EXCEPT ![w] = "idle"]
        BY <2>2 DEF Mark, SetStatus, Goto
      <3>5. UNCHANGED <<status, row, job, event, posts, received, faults>>
        BY <2>2 DEF Mark, request, partner
      <3> QED BY <1>1, <3>2, <3>4, <3>5 DEF IndInv, TypeOK, NoCall, PublishAwait, WorkerAwait
    <2>3. CASE MarkThrows(w)
      <3>1. call[w].event \in Publisher
        BY <2>3 DEF MarkThrows, IndInv, TypeOK
      <3>2. consumption' \in [Publisher -> [status : {"NONE", "PROCESSING", "SUCCEEDED", "FAILED"},
                                            attempts : 0..MaxAttempts]]
        BY <2>3, <3>1, StatusSet DEF MarkThrows, IndInv, TypeOK
      <3> QED BY <1>1, <2>3, <3>2 DEF IndInv, TypeOK, MarkThrows, Fault, Goto, request, partner,
                 PublishAwait, WorkerAwait
    <2>4. CASE WorkerStops(w)
      BY <1>1, <2>4 DEF IndInv, TypeOK, WorkerStops, Fault, NoCall, Goto, request, partner,
         PublishAwait, WorkerAwait
    <2> QED BY <2>1, <2>2, <2>3, <2>4
  <1>3. FreshRow' /\ RetryLeft' /\ SuccessEarned' /\ SucceededWasReceived'
    <2>1. CASE Awake(w)
      BY <2>1 DEF IndInv, TypeOK, Awake, Goto, partner, FreshRow, RetryLeft, SuccessEarned, SucceededWasReceived
    <2>2. CASE Mark(w)
      <3>1. call[w].event \in Publisher
        BY <2>2 DEF Mark, IndInv, TypeOK
      <3>2. pc[w] = "mark_succeeded" => call[w].event \in received
        BY DEF IndInv, SuccessEarned
      <3>3. /\ \A e \in Publisher : consumption'[e].attempts = consumption[e].attempts
            /\ \A e \in Publisher : e # call[w].event => consumption'[e] = consumption[e]
            /\ consumption'[call[w].event].status \in {"SUCCEEDED", "FAILED"}
            /\ consumption'[call[w].event].status = "SUCCEEDED" => call[w].event \in received
        BY <2>2, <3>1, <3>2, StatusSet DEF Mark
      <3>4. FreshRow' /\ SucceededWasReceived'
        BY <2>2, <3>3 DEF Mark, partner, IndInv, FreshRow, SucceededWasReceived
      <3>5. RetryLeft' /\ SuccessEarned'
        BY <2>2 DEF IndInv, TypeOK, Mark, Goto, partner, RetryLeft, SuccessEarned
      <3> QED BY <3>4, <3>5
    <2>3. CASE MarkThrows(w)
      <3>1. call[w].event \in Publisher /\ call[w].event \in received
        BY <2>3 DEF MarkThrows, IndInv, TypeOK, SuccessEarned
      <3>2. /\ \A e \in Publisher : consumption'[e].attempts = consumption[e].attempts
            /\ \A e \in Publisher : e # call[w].event => consumption'[e] = consumption[e]
            /\ consumption'[call[w].event] = consumption[call[w].event]
               \/ consumption'[call[w].event].status = "SUCCEEDED"
        BY <2>3, <3>1, StatusSet DEF MarkThrows
      <3>3. FreshRow' /\ SucceededWasReceived'
        BY <2>3, <3>1, <3>2 DEF MarkThrows, partner, IndInv, FreshRow, SucceededWasReceived
      <3>4. RetryLeft' /\ SuccessEarned'
        BY <2>3 DEF IndInv, TypeOK, MarkThrows, Goto, partner, RetryLeft, SuccessEarned
      <3> QED BY <3>3, <3>4
    <2>4. CASE WorkerStops(w)
      BY <2>4 DEF IndInv, TypeOK, WorkerStops, Goto, partner, FreshRow, RetryLeft, SuccessEarned,
         SucceededWasReceived
    <2> QED BY <2>1, <2>2, <2>3, <2>4
  <1>4. LatestAnnounced' /\ EmittedAtEnd'
    <2>1. UNCHANGED <<row, request>> /\ (faults' = faults \/ faults' = faults + 1)
      BY DEF Awake, Mark, MarkThrows, WorkerStops, Fault
    <2>2. \A p \in Publisher : pc'[p] = pc[p]
      BY <1>1 DEF Awake, Mark, MarkThrows, WorkerStops, Goto, IndInv, TypeOK
    <2> QED BY <2>1, <2>2, AnnouncedByWorker
  <1> QED BY <1>2, <1>3, <1>4 DEF IndInv

\* Every step of the requests, the workers and the task keeps the invariant.
LEMMA NextInv == IndInv /\ [Next]_vars => IndInv'
  <1> SUFFICES ASSUME IndInv, [Next]_vars PROVE IndInv'
    OBVIOUS
  <1>1. CASE TaskMoves
    BY <1>1 DEF IndInv, TypeOK, EmittedAtEnd, FreshRow, RetryLeft, SuccessEarned, SucceededWasReceived,
       LatestAnnounced, TaskMoves, request, partner
  <1>2. CASE \E p \in Publisher :
            FindTask(p) \/ FindBids(p) \/ Upsert(p) \/ ReadBack(p) \/ Emit(p) \/ PublishStops(p)
    BY <1>2, PublishStep
  <1>3. CASE \E w \in Worker :
            \/ Post(w) \/ Awake(w) \/ Mark(w) \/ MarkThrows(w) \/ WorkerStops(w)
            \/ \E e \in Publisher : HandleResultPublished(w, e)
    BY <1>3, StartStep, PostStep, WorkerStep
  <1>4. CASE UNCHANGED vars
    BY <1>4 DEF IndInv, TypeOK, EmittedAtEnd, FreshRow, RetryLeft, SuccessEarned, SucceededWasReceived,
       LatestAnnounced, vars, request, partner
  <1> QED BY <1>1, <1>2, <1>3, <1>4 DEF Next

\* The inductive invariant of publication and announcement.
THEOREM WebhookInvariance == Spec => []IndInv
  BY InitInv, NextInv, PTL DEF Spec

\* Tables, requests and workers keep their shape; no row has more attempts,
\* and no call of postJson more retries, than configured.
THEOREM WebhookTypeCorrect == Spec => []TypeOK
  BY WebhookInvariance, PTL DEF IndInv

\* With any number of workers and crashes, an event that event_consumptions
\* calls SUCCEEDED has been taken in by the partner.
THEOREM DeliveryIsReal == Spec => []SucceededWasReceived
  BY WebhookInvariance, PTL DEF IndInv

\* With any number of overlapping requests, the result in the table has been
\* announced or is about to be, unless a request failed.
THEOREM LastResultIsAnnounced == Spec => []LatestAnnounced
  BY WebhookInvariance, PTL DEF IndInv

-----------------------------------------------------------------------------
(* The bound on the posts.  Each attempt tryStart grants pays for          *)
(* MaxRetries + 1 posts; Open(e) are those that the calls of postJson      *)
(* under way may still make.                                               *)

\* The first attempt of withRetry that worker w has still to make.
FirstLeft(w) == CASE pc[w] = "post"  -> call[w].attempt
                  [] pc[w] = "sleep" -> call[w].attempt + 1
                  [] OTHER           -> MaxRetries + 1

Open(e) == {x \in Worker \X (0..MaxRetries) : call[x[1]].event = e /\ x[2] >= FirstLeft(x[1])}

PostsInv ==
    \A e \in Publisher :
      /\ IsFiniteSet(Open(e))
      /\ posts[e] + Cardinality(Open(e)) <= consumption[e].attempts * (MaxRetries + 1)

\* One attempt more pays for one round of retries more.
LEMMA OneMore ==
    ASSUME NEW a \in Nat, NEW b \in Nat, a <= b
    PROVE  /\ a * (MaxRetries + 1) \in Nat
           /\ (a + 1) * (MaxRetries + 1) = a * (MaxRetries + 1) + (MaxRetries + 1)
           /\ a * (MaxRetries + 1) <= b * (MaxRetries + 1)
  <1>1. PICK n \in Nat : n = MaxRetries + 1
    BY WebhookAssumption
  <1>2. PICK d \in Nat : b = a + d
    <2>1. b - a \in Nat /\ b = a + (b - a)
      OBVIOUS
    <2> QED BY <2>1
  <1>3. a * n \in Nat /\ d * n \in Nat /\ (a + 1) * n = a * n + n
    OBVIOUS
  <1>4. (a + d) * n = a * n + d * n
    OBVIOUS
  <1> QED BY <1>1, <1>2, <1>3, <1>4

\* What a pair of Open is.
LEMMA OpenPairs ==
    ASSUME NEW e
    PROVE  /\ \A w \in Worker, k \in 0..MaxRetries :
                <<w, k>> \in Open(e) <=> call[w].event = e /\ k >= FirstLeft(w)
           /\ \A w \in Worker, k \in 0..MaxRetries :
                <<w, k>> \in Open(e)' <=> call'[w].event = e /\ k >= FirstLeft(w)'
           /\ Open(e) \subseteq Worker \X (0..MaxRetries)
           /\ Open(e)' \subseteq Worker \X (0..MaxRetries)
  BY DEF Open

\* An event for which nothing is granted or posted, and for which no call has
\* more left than before, keeps its bound.
LEMMA OpenShrinks ==
    ASSUME IndInv, PostsInv, NEW e \in Publisher,
           posts'[e] = posts[e], consumption'[e].attempts = consumption[e].attempts,
           \A v \in Worker : call'[v].event = e =>
             call[v].event = e /\ (FirstLeft(v)' = FirstLeft(v) \/ FirstLeft(v)' = MaxRetries + 1)
    PROVE  /\ IsFiniteSet(Open(e)')
           /\ posts'[e] + Cardinality(Open(e)') <= consumption'[e].attempts * (MaxRetries + 1)
  <1>1. Open(e)' \in SUBSET Open(e)
    <2>1. ASSUME NEW w \in Worker, NEW k \in 0..MaxRetries, <<w, k>> \in Open(e)'
          PROVE  <<w, k>> \in Open(e)
      <3>1. call'[w].event = e /\ k >= FirstLeft(w)'
        BY <2>1, OpenPairs
      <3>2. FirstLeft(w)' # MaxRetries + 1
        BY <3>1, WebhookAssumption
      <3> QED BY <3>1, <3>2, OpenPairs
    <2> QED BY <2>1, OpenPairs
  <1>2. IsFiniteSet(Open(e)) /\ posts[e] + Cardinality(Open(e)) <= consumption[e].attempts * (MaxRetries + 1)
    BY DEF PostsInv
  <1>3. /\ IsFiniteSet(Open(e)') /\ Cardinality(Open(e)') <= Cardinality(Open(e))
        /\ Cardinality(Open(e)) \in Nat /\ Cardinality(Open(e)') \in Nat
    BY <1>1, <1>2, FS_Subset, FS_CardinalityType
  <1>4. posts[e] \in Nat /\ consumption[e].attempts \in Nat
    BY WebhookAssumption DEF IndInv, TypeOK
  <1>5. consumption[e].attempts * (MaxRetries + 1) \in Nat
    BY <1>4, OneMore
  <1> QED BY <1>2, <1>3, <1>4, <1>5

\* Each post uses up one that was open.
LEMMA PostCounts ==
    ASSUME IndInv, PostsInv, NEW w \in Worker, Post(w)
    PROVE  PostsInv'
  <1> USE WebhookAssumption
  <1> DEFINE d == call[w].event
             k == call[w].attempt
  <1>0. d \in Publisher /\ k \in 0..MaxRetries /\ pc[w] = "post"
    BY DEF Post, IndInv, TypeOK
  <1>1. /\ pc'[w] \in {"mark_succeeded", "sleep", "mark_failed"}
        /\ \A v \in Worker \ {w} : pc'[v] = pc[v]
        /\ call' = call /\ consumption' = consumption
    BY DEF Post, Outcome, Goto, IndInv, TypeOK
  <1>2. posts' = [posts EXCEPT ![d] = posts[d] + 1]
    BY DEF Post
  <1>3. FirstLeft(w) = k /\ FirstLeft(w)' \in {k + 1, MaxRetries + 1}
    BY <1>0, <1>1 DEF FirstLeft
  <1>4. \A v \in Worker \ {w} : FirstLeft(v)' = FirstLeft(v)
    BY <1>1 DEF FirstLeft
  <1> SUFFICES ASSUME NEW e \in Publisher
               PROVE  /\ IsFiniteSet(Open(e)')
                      /\ posts'[e] + Cardinality(Open(e)') <= consumption'[e].attempts * (MaxRetries + 1)
    BY DEF PostsInv
  <1>5. CASE e # d
    <2>1. posts'[e] = posts[e]
      BY <1>0, <1>2, <1>5 DEF IndInv, TypeOK
    <2> QED BY <1>1, <1>4, <1>5, <2>1, OpenShrinks
  <1>6. CASE e = d
    <2>1. Open(e)' \in SUBSET (Open(e) \ {<<w, k>>}) /\ <<w, k>> \in Open(e)
      <3>1. <<w, k>> \in Open(e)
        BY <1>0, <1>3, <1>6, OpenPairs
      <3>2. <<w, k>> \notin Open(e)'
        BY <1>0, <1>3, OpenPairs
      <3>3. ASSUME NEW v \in Worker, NEW j \in 0..MaxRetries, <<v, j>> \in Open(e)'
            PROVE  <<v, j>> \in Open(e)
        <4>1. call[v].event = e /\ j >= FirstLeft(v)'
          BY <1>1, <3>3, OpenPairs
        <4>2. j >= FirstLeft(v)
          BY <1>0, <1>3, <1>4, <4>1
        <4> QED BY <4>1, <4>2, OpenPairs
      <3> QED BY <3>1, <3>2, <3>3, OpenPairs
    <2>2. IsFiniteSet(Open(e)) /\ posts[e] + Cardinality(Open(e)) <= consumption[e].attempts * (MaxRetries + 1)
      BY DEF PostsInv
    <2>3. PICK x : x = <<w, k>>
      OBVIOUS
    <2> HIDE DEF k, d
    <2> DEFINE S == Open(e) \ {x}
    <2>4. IsFiniteSet(S) /\ Cardinality(S) = Cardinality(Open(e)) - 1
      <3>1. x \in Open(e)
        BY <2>1, <2>3
      <3> QED BY <2>2, <3>1, FS_RemoveElement
    <2>5. IsFiniteSet(Open(e)') /\ Cardinality(Open(e)') <= Cardinality(S)
      <3>1. Open(e)' \in SUBSET S
        BY <2>1, <2>3
      <3> HIDE DEF S
      <3> QED BY <2>4, <3>1, FS_Subset
    <2> HIDE DEF S
    <2>6. /\ Cardinality(Open(e)) \in Nat /\ Cardinality(Open(e)') \in Nat
          /\ posts[e] \in Nat /\ consumption[e].attempts \in Nat
      BY <2>2, <2>5, FS_CardinalityType DEF IndInv, TypeOK
    <2>7. consumption[e].attempts * (MaxRetries + 1) \in Nat
      BY ONLY <2>6, OneMore
    <2>8. posts'[e] = posts[e] + 1
      BY <1>0, <1>2, <1>6 DEF IndInv, TypeOK
    <2> QED BY <1>1, <2>2, <2>4, <2>5, <2>6, <2>7, <2>8
  <1> QED BY <1>5, <1>6

\* tryStart opens a round of retries and grants the attempt that pays for it.
LEMMA HandleCounts ==
    ASSUME IndInv, PostsInv, NEW w \in Worker, NEW d \in Publisher, HandleResultPublished(w, d)
    PROVE  PostsInv'
  <1> USE WebhookAssumption
  <1>0. pc[w] = "idle" /\ call[w].event = None /\ None \notin Publisher
    BY DEF HandleResultPublished, IndInv, TypeOK, None
  <1>1. /\ pc'[w] = "post" /\ call'[w] = [event |-> d, attempt |-> 0]
        /\ \A v \in Worker \ {w} : pc'[v] = pc[v] /\ call'[v] = call[v]
        /\ posts' = posts
    BY DEF HandleResultPublished, Goto, partner, IndInv, TypeOK
  <1>2. /\ consumption'[d].attempts = consumption[d].attempts + 1
        /\ \A e \in Publisher \ {d} : consumption'[e] = consumption[e]
    BY DEF HandleResultPublished, TryStart, IndInv, TypeOK
  <1>3. call'[w].event = d /\ FirstLeft(w)' = 0
    BY <1>1 DEF FirstLeft
  <1>4. \A v \in Worker \ {w} : FirstLeft(v)' = FirstLeft(v)
    BY <1>1 DEF FirstLeft
  <1> SUFFICES ASSUME NEW e \in Publisher
               PROVE  /\ IsFiniteSet(Open(e)')
                      /\ posts'[e] + Cardinality(Open(e)') <= consumption'[e].attempts * (MaxRetries + 1)
    BY DEF PostsInv
  <1>5. CASE e # d
    BY <1>1, <1>2, <1>3, <1>4, <1>5, OpenShrinks
  <1>6. CASE e = d
    <2>1. PICK U : U = {w} \X (0..MaxRetries)
      OBVIOUS
    <2>2. IsFiniteSet(U) /\ Cardinality(U) = MaxRetries + 1
      <3>1. IsFiniteSet({w}) /\ Cardinality({w}) = 1
        BY FS_Singleton
      <3>2. IsFiniteSet(0..MaxRetries) /\ Cardinality(0..MaxRetries) = MaxRetries + 1
        BY FS_Interval
      <3>3. IsFiniteSet(U) /\ Cardinality(U) = Cardinality({w}) * Cardinality(0..MaxRetries)
        BY <2>1, <3>1, <3>2, FS_Product, Zenon
      <3> QED BY <3>1, <3>2, <3>3
    <2>3. Open(e)' = Open(e) \cup U /\ Open(e) \cap U = {}
      <3>1. ASSUME NEW v \in Worker, NEW j \in 0..MaxRetries
            PROVE  /\ <<v, j>> \in Open(e)' <=> <<v, j>> \in Open(e) \/ v = w
                   /\ ~(<<v, j>> \in Open(e) /\ v = w)
        <4>1. CASE v = w
          BY <1>0, <1>3, <1>6, <4>1, OpenPairs
        <4>2. CASE v # w
          BY <1>1, <1>4, <4>2, OpenPairs
        <4> QED BY <4>1, <4>2
      <3>2. \A v, j : <<v, j>> \in U <=> v = w /\ j \in 0..MaxRetries
        BY <2>1
      <3>3. U \subseteq Worker \X (0..MaxRetries)
        BY <2>1
      <3> QED BY <3>1, <3>2, <3>3, OpenPairs
    <2>4. IsFiniteSet(Open(e)) /\ posts[e] + Cardinality(Open(e)) <= consumption[e].attempts * (MaxRetries + 1)
      BY DEF PostsInv
    <2>5. IsFiniteSet(Open(e)') /\ Cardinality(Open(e)') = Cardinality(Open(e)) + (MaxRetries + 1)
      <3>1. Cardinality(Open(e) \cap U) = 0
        BY <2>3, FS_EmptySet
      <3>2. /\ IsFiniteSet(Open(e) \cup U)
            /\ Cardinality(Open(e) \cup U) = Cardinality(Open(e)) + Cardinality(U) - Cardinality(Open(e) \cap U)
        BY <2>2, <2>4, FS_Union
      <3>3. Cardinality(Open(e)) \in Nat
        BY <2>4, FS_CardinalityType
      <3> QED BY <2>2, <2>3, <3>1, <3>2, <3>3
    <2>6. Cardinality(Open(e)) \in Nat /\ posts[e] \in Nat /\ consumption[e].attempts \in Nat
      BY <2>4, FS_CardinalityType DEF IndInv, TypeOK
    <2>7. /\ consumption[e].attempts * (MaxRetries + 1) \in Nat
          /\ consumption'[e].attempts * (MaxRetries + 1)
               = consumption[e].attempts * (MaxRetries + 1) + (MaxRetries + 1)
      BY <1>2, <1>6, <2>6, OneMore
    <2> QED BY <1>1, <2>4, <2>5, <2>6, <2>7
  <1> QED BY <1>5, <1>6

\* Every step keeps the bound.
LEMMA StepCounts == IndInv /\ PostsInv /\ [Next]_vars => PostsInv'
  <1> SUFFICES ASSUME IndInv, PostsInv, [Next]_vars PROVE PostsInv'
    OBVIOUS
  <1> USE WebhookAssumption
  <1>1. ASSUME posts' = posts,
               \A e \in Publisher : consumption'[e].attempts = consumption[e].attempts,
               \A v \in Worker : call'[v].event \in Publisher =>
                 /\ call'[v].event = call[v].event
                 /\ FirstLeft(v)' = FirstLeft(v) \/ FirstLeft(v)' = MaxRetries + 1
        PROVE  PostsInv'
    <2> SUFFICES ASSUME NEW e \in Publisher
                 PROVE  /\ IsFiniteSet(Open(e)')
                        /\ posts'[e] + Cardinality(Open(e)') <= consumption'[e].attempts * (MaxRetries + 1)
      BY DEF PostsInv
    <2> QED BY <1>1, OpenShrinks
  <1>2. ASSUME NEW p \in Publisher,
               \/ FindTask(p) \/ FindBids(p) \/ Upsert(p) \/ ReadBack(p) \/ Emit(p) \/ PublishStops(p)
        PROVE  PostsInv'
    <2>1. /\ posts' = posts /\ consumption' = consumption /\ call' = call
          /\ \A v \in Worker : pc'[v] = pc[v]
      BY <1>2 DEF FindTask, FindBids, Upsert, ReadBack, Emit, PublishStops, Goto, partner, IndInv, TypeOK
    <2>2. \A v \in Worker : FirstLeft(v)' = FirstLeft(v)
      BY <2>1 DEF FirstLeft
    <2> QED BY <1>1, <2>1, <2>2
  <1>3. ASSUME NEW w \in Worker, Awake(w) PROVE PostsInv'
    <2>1. /\ posts' = posts /\ consumption' = consumption /\ pc[w] = "sleep" /\ pc'[w] = "post"
          /\ call'[w].event = call[w].event /\ call'[w].attempt = call[w].attempt + 1
          /\ \A v \in Worker \ {w} : pc'[v] = pc[v] /\ call'[v] = call[v]
      BY <1>3 DEF Awake, Goto, partner, IndInv, TypeOK
    <2>2. \A v \in Worker : FirstLeft(v)' = FirstLeft(v)
      BY <2>1 DEF FirstLeft
    <2> QED BY <1>1, <2>1, <2>2
  <1>4. ASSUME NEW w \in Worker, Mark(w) \/ WorkerStops(w) PROVE PostsInv'
    <2>1. /\ posts' = posts /\ call'[w].event = None
          /\ \A v \in Worker \ {w} : pc'[v] = pc[v] /\ call'[v] = call[v]
      BY <1>4 DEF Mark, WorkerStops, NoCall, Goto, partner, IndInv, TypeOK
    <2>2. \A e \in Publisher : consumption'[e].attempts = consumption[e].attempts
      <3>1. CASE WorkerStops(w)
        BY <3>1 DEF WorkerStops
      <3>2. CASE Mark(w)
        <4>1. call[w].event \in Publisher
          BY <3>2 DEF Mark, IndInv, TypeOK
        <4> QED BY <3>2, <4>1, StatusSet DEF Mark
      <3> QED BY <1>4, <3>1, <3>2
    <2>3. \A v \in Worker \ {w} : FirstLeft(v)' = FirstLeft(v)
      BY <2>1 DEF FirstLeft
    <2>4. None \notin Publisher
      BY DEF None
    <2> QED BY <1>1, <2>1, <2>2, <2>3, <2>4
  <1>5. ASSUME NEW w \in Worker, MarkThrows(w) PROVE PostsInv'
    <2>1. /\ posts' = posts /\ call' = call
          /\ pc[w] = "mark_succeeded" /\ pc'[w] = "mark_failed"
          /\ \A v \in Worker \ {w} : pc'[v] = pc[v]
      BY <1>5 DEF MarkThrows, Goto, partner, IndInv, TypeOK
    <2>2. \A e \in Publisher : consumption'[e].attempts = consumption[e].attempts
      <3>1. call[w].event \in Publisher
        BY <2>1 DEF IndInv, TypeOK
      <3> QED BY <1>5, <3>1, StatusSet DEF MarkThrows
    <2>3. \A v \in Worker : FirstLeft(v)' = FirstLeft(v)
      BY <2>1 DEF FirstLeft
    <2> QED BY <1>1, <2>1, <2>2, <2>3
  <1>6. CASE TaskMoves \/ UNCHANGED vars
    <2>1. posts' = posts /\ consumption' = consumption /\ call' = call /\ pc' = pc
      BY <1>6 DEF TaskMoves, vars, partner
    <2>2. \A v \in Worker : FirstLeft(v)' = FirstLeft(v)
      BY <2>1 DEF FirstLeft
    <2> QED BY <1>1, <2>1, <2>2
  <1> QED BY <1>2, <1>3, <1>4, <1>5, <1>6, PostCounts, HandleCounts DEF Next

\* With any number of workers and crashes, an event is posted at most
\* MaxAttempts * (MaxRetries + 1) times: a worker that takes over while a
\* slow one is still retrying does so on an attempt of its own.
THEOREM PostsWithinBudget == Spec => []PostsBounded
  <1>1. Init => PostsInv
    <2> SUFFICES ASSUME Init, NEW e \in Publisher
                 PROVE  /\ IsFiniteSet(Open(e))
                        /\ posts[e] + Cardinality(Open(e)) <= consumption[e].attempts * (MaxRetries + 1)
      BY DEF PostsInv
    <2>1. Open(e) = {}
      BY WebhookAssumption DEF Init, Open, NoCall, None
    <2>2. posts[e] = 0 /\ consumption[e].attempts = 0
      BY DEF Init
    <2>3. 0 * (MaxRetries + 1) \in Nat
      BY OneMore
    <2> QED BY <2>1, <2>2, <2>3, FS_EmptySet
  <1>2. IndInv /\ PostsInv => PostsBounded
    <2> SUFFICES ASSUME IndInv, PostsInv, NEW e \in Publisher
                 PROVE  posts[e] <= MaxAttempts * (MaxRetries + 1)
      BY DEF PostsBounded
    <2>1. /\ posts[e] \in Nat /\ consumption[e].attempts \in Nat /\ MaxAttempts \in Nat
          /\ consumption[e].attempts <= MaxAttempts
      BY WebhookAssumption DEF IndInv, TypeOK
    <2>2. IsFiniteSet(Open(e)) /\ posts[e] + Cardinality(Open(e)) <= consumption[e].attempts * (MaxRetries + 1)
      BY DEF PostsInv
    <2>3. Cardinality(Open(e)) \in Nat
      BY <2>2, FS_CardinalityType
    <2>4. /\ consumption[e].attempts * (MaxRetries + 1) \in Nat /\ MaxAttempts * (MaxRetries + 1) \in Nat
          /\ consumption[e].attempts * (MaxRetries + 1) <= MaxAttempts * (MaxRetries + 1)
      BY <2>1, OneMore
    <2> QED BY <2>1, <2>2, <2>3, <2>4
  <1> QED BY <1>1, <1>2, WebhookInvariance, StepCounts, PTL DEF Spec

=============================================================================
