-------------------------- MODULE BackgroundProofs --------------------------
(***************************************************************************)
(* Proofs about what the server does in the background: the webhooks, the  *)
(* queues they implement, and the pool of media workers.                   *)
(***************************************************************************)
EXTENDS WebhooksRefinement, WorkerPool, FiniteSetTheorems, FunctionTheorems, SequenceTheorems, TLAPS

-----------------------------------------------------------------------------
(***************************************************************************)
(* Proofs about Webhooks, for any number of events, projects and retries:  *)
(* the promise chains are FIFO queues, and `tails' tracks them exactly.    *)
(***************************************************************************)

\* A job that has had its turn: an attempt was made, or it ended without one.
Begun(e) == tries[e] > 0 \/ status[e] \in {"posting", "backoff"} \/ Settled(e)

\* The stages of an event and the number of its attempts go together.
StagesAgree ==
    \A e \in Events :
        /\ Enqueued(e) <=> status[e] \in InChain \cup Over
        /\ status[e] \notin {"posting", "backoff"} \cup Over => tries[e] = 0
        /\ status[e] = "backoff" => tries[e] < MaxAttempts

\* Tickets are handed out once each, in increasing order.
TicketsUnique ==
    /\ \A e \in Events : ticket[e] <= issued
    /\ \A d, e \in Events : Enqueued(d) /\ ticket[d] = ticket[e] => d = e

\* The tail of a chain is its last job, and it is still to finish; a project
\* without a tail has no unfinished job.
TailIsLast ==
    \A p \in Projects :
        /\ tail[p] = NoJob =>
              \A d \in Events : ProjectOf[d] = p /\ Enqueued(d) => Settled(d)
        /\ tail[p] # NoJob =>
              /\ ProjectOf[tail[p]] = p
              /\ status[tail[p]] \in InChain
              /\ \A d \in Events : ProjectOf[d] = p /\ Enqueued(d)
                                      => ticket[d] <= ticket[tail[p]]

\* What comes before a job is over, or comes before or is its predecessor.
ChainLinked ==
    \A d, e \in Events : Precedes(d, e) =>
        \/ Settled(d)
        \/ /\ after[e] # NoJob
           /\ ProjectOf[after[e]] = ProjectOf[e]
           /\ ticket[d] <= ticket[after[e]]

\* A job begins only when everything before it is over.
BegunInOrder == \A d, e \in Events : Precedes(d, e) /\ Begun(e) => Settled(d)

\* The inductive invariant.  BegunInOrder is what is wanted; the promise
\* chain looks at one predecessor only, so ChainLinked must carry it back to
\* all earlier jobs, and TailIsLast says why a new job links to the right one.
IInv ==
    /\ TypeOK
    /\ StagesAgree
    /\ TicketsUnique
    /\ TailIsLast
    /\ ChainLinked
    /\ BegunInOrder

-----------------------------------------------------------------------------

\* The initial state satisfies the invariant.
LEMMA InitEstablishes == Init => IInv
<1> SUFFICES ASSUME Init PROVE IInv
  OBVIOUS
<1>1. TypeOK
  BY SomeAttempt DEF Init, TypeOK, Statuses
<1> QED
  BY <1>1 DEF Init, IInv, StagesAgree, TicketsUnique, TailIsLast, ChainLinked,
              BegunInOrder, Precedes, Enqueued, Settled, InChain, Over

\* The parts that hold of the tickets and links are untouched while tickets
\* and links are and no settled job comes back.
LEMMA LinksStay ==
    ASSUME IInv, UNCHANGED chainVars,
           \A d \in Events : Settled(d) => Settled(d)'
    PROVE  TicketsUnique' /\ ChainLinked'
  BY DEF IInv, TicketsUnique, ChainLinked, Precedes, Enqueued, chainVars

\* When a job's turn has come, or it already had it, what precedes it is over.
LEMMA TurnMeansFirst ==
    ASSUME IInv, NEW e \in Events, MayAttempt(e) \/ status[e] = "posting",
           NEW d \in Events, Precedes(d, e)
    PROVE  Settled(d)
<1>1. CASE status[e] \in {"posting", "backoff"}
  BY <1>1 DEF IInv, BegunInOrder, Begun
<1>2. CASE status[e] = "queued" /\ Turn(e)
  <2> SUFFICES ASSUME ~Settled(d) PROVE FALSE
    OBVIOUS
  <2> DEFINE a == after[e]
  <2>1. a # NoJob /\ ProjectOf[a] = ProjectOf[e] /\ ticket[d] <= ticket[a]
    BY DEF IInv, ChainLinked
  <2>2. a \in Events /\ Settled(a)
    BY <1>2, <2>1 DEF Turn, IInv, TypeOK
  <2>3. CASE ticket[d] = ticket[a]
    BY <2>2, <2>3 DEF Precedes, IInv, TicketsUnique
  <2>4. CASE ticket[d] < ticket[a]
    <3>1. Precedes(d, a)
      BY <2>1, <2>4 DEF Precedes
    <3> QED BY <2>2, <3>1 DEF IInv, BegunInOrder, Begun
  <2> QED BY <2>1, <2>2, <2>3, <2>4 DEF IInv, TypeOK
<1> QED BY <1>1, <1>2 DEF MayAttempt

\* A job that ends hands its chain on: the invariant holds afterwards,
\* whether or not the job leaves an empty chain behind.
LEMMA SettlePreserves ==
    ASSUME IInv, NEW e \in Events, MayAttempt(e) \/ status[e] = "posting",
           Settle(e, "delivered") \/ Settle(e, "discarded"),
           UNCHANGED <<configured, chainVars, tries>>,
           reached' \subseteq Events
    PROVE  IInv'
<1> DEFINE p == ProjectOf[e]
<1>0. /\ status \in [Events -> Statuses] /\ p \in Projects
      /\ tail \in [Projects -> Events \cup {NoJob}]
      /\ ticket \in [Events -> Nat] /\ issued \in Nat
      /\ status[e] \in InChain /\ status[e] \notin Over /\ Enqueued(e)
  BY OwnerOfEvent DEF IInv, TypeOK, StagesAgree, MayAttempt, InChain, Over
<1>1. /\ status'[e] \in Over
      /\ \A d \in Events \ {e} : status'[d] = status[d]
      /\ status' \in [Events -> Statuses]
  BY <1>0 DEF Settle, Over, Statuses
<1>2. /\ tail' \in [Projects -> Events \cup {NoJob}]
      /\ tail'[p] = IF tail[p] = e THEN NoJob ELSE tail[p]
      /\ \A q \in Projects \ {p} : tail'[q] = tail[q]
  BY <1>0 DEF Settle, TailWithout
<1>3. TypeOK'
  BY <1>1, <1>2 DEF IInv, TypeOK, chainVars
<1>4. \A d \in Events : Settled(d) => Settled(d)'
  BY <1>1 DEF Settled
<1>5. StagesAgree'
  BY <1>0, <1>1 DEF IInv, StagesAgree, Enqueued, chainVars, Over, InChain
<1>6. TicketsUnique' /\ ChainLinked'
  BY <1>4, LinksStay
<1>7. BegunInOrder'
  <2> SUFFICES ASSUME NEW d \in Events, NEW f \in Events,
                      Precedes(d, f)', Begun(f)'
               PROVE  Settled(d)'
    BY DEF BegunInOrder
  <2>1. Precedes(d, f)
    BY DEF Precedes, Enqueued, chainVars
  <2>2. CASE f = e
    BY <2>1, <2>2, <1>4, TurnMeansFirst
  <2>3. CASE f # e
    <3>1. Begun(f)
      BY <1>1, <2>3 DEF Begun, Settled
    <3> QED BY <2>1, <3>1, <1>4 DEF IInv, BegunInOrder
  <2> QED BY <2>2, <2>3
<1>8. TailIsLast'
  <2> SUFFICES ASSUME NEW q \in Projects
               PROVE  /\ tail'[q] = NoJob =>
                           \A d \in Events :
                              ProjectOf[d] = q /\ Enqueued(d)' => Settled(d)'
                      /\ tail'[q] # NoJob =>
                           /\ ProjectOf[tail'[q]] = q
                           /\ status'[tail'[q]] \in InChain
                           /\ \A d \in Events :
                                 ProjectOf[d] = q /\ Enqueued(d)'
                                     => ticket'[d] <= ticket'[tail'[q]]
    BY DEF TailIsLast
  <2>1. ticket' = ticket /\ \A d \in Events : Enqueued(d)' <=> Enqueued(d)
    BY DEF chainVars, Enqueued
  <2>2. CASE q = p /\ tail[p] = e
    <3>1. tail'[q] = NoJob
      BY <1>2, <2>2
    <3>2. ASSUME NEW d \in Events, ProjectOf[d] = q, Enqueued(d), d # e
          PROVE  Settled(d)
      <4>1. ticket[d] <= ticket[e] /\ ticket[d] # ticket[e]
        BY <3>2, <2>2, <1>0, NoJobIsNone DEF IInv, TailIsLast, TicketsUnique
      <4>2. Precedes(d, e)
        BY <4>1, <3>2, <2>2, <1>0 DEF Precedes
      <4> QED BY <4>2, TurnMeansFirst
    <3> QED BY <3>1, <3>2, <2>1, <1>1, <1>4 DEF Settled
  <2>3. CASE q # p \/ tail[p] # e
    <3>1. tail'[q] = tail[q]
      BY <1>2, <2>3
    <3>2. tail[q] # NoJob => tail[q] \in Events \ {e}
      BY <2>3, <1>0 DEF IInv, TailIsLast
    <3> QED BY <3>1, <3>2, <2>1, <1>1, <1>4 DEF IInv, TailIsLast
  <2> QED BY <2>2, <2>3
<1> QED BY <1>3, <1>5, <1>6, <1>7, <1>8 DEF IInv

\* A step that moves one event along outside the queue, or one job between
\* its attempts, keeps the invariant: no ticket, link or tail changes.
LEMMA MovePreserves ==
    ASSUME IInv, NEW e \in Events, NEW how \in Statuses,
           status' = [status EXCEPT ![e] = how],
           ~Settled(e), how \notin Over,
           how \in InChain <=> status[e] \in InChain,
           how \in {"posting", "backoff"} =>
               MayAttempt(e) \/ status[e] = "posting",
           how = "queued" => status[e] = "queued",
           UNCHANGED <<chainVars, tail>>,
           tries' \in [Events -> 0..MaxAttempts],
           \A d \in Events \ {e} : tries'[d] = tries[d],
           how \notin {"posting", "backoff"} => tries'[e] = tries[e] /\ status[e] \notin {"posting", "backoff"},
           how = "backoff" => tries'[e] < MaxAttempts,
           configured' \subseteq Projects, reached' \subseteq Events
    PROVE  IInv'
<1>0. status \in [Events -> Statuses]
  BY DEF IInv, TypeOK
<1>1. /\ status'[e] = how /\ status' \in [Events -> Statuses]
      /\ \A d \in Events \ {e} : status'[d] = status[d]
  BY <1>0
<1>2. TypeOK'
  BY <1>1 DEF IInv, TypeOK, chainVars
<1>3. \A d \in Events : Settled(d) <=> Settled(d)'
  BY <1>1 DEF Settled
<1>4. StagesAgree'
  <2> SUFFICES ASSUME NEW d \in Events
               PROVE  /\ Enqueued(d)' <=> status'[d] \in InChain \cup Over
                      /\ status'[d] \notin {"posting", "backoff"} \cup Over
                            => tries'[d] = 0
                      /\ status'[d] = "backoff" => tries'[d] < MaxAttempts
    BY DEF StagesAgree
  <2>1. Enqueued(d)' <=> Enqueued(d)
    BY DEF Enqueued, chainVars
  <2>2. CASE d # e
    BY <2>1, <2>2, <1>1 DEF IInv, StagesAgree
  <2>3. CASE d = e
    BY <2>1, <2>3, <1>1 DEF IInv, StagesAgree, Settled
  <2> QED BY <2>2, <2>3
<1>5. TicketsUnique' /\ ChainLinked'
  BY <1>3, LinksStay
<1>6. TailIsLast'
  <2>1. ASSUME NEW q \in Projects, tail[q] # NoJob
        PROVE  status'[tail[q]] \in InChain
    BY <2>1, <1>1 DEF IInv, TypeOK, TailIsLast
  <2> QED BY <2>1, <1>3 DEF IInv, TailIsLast, Enqueued, chainVars
<1>7. BegunInOrder'
  <2> SUFFICES ASSUME NEW d \in Events, NEW f \in Events,
                      Precedes(d, f)', Begun(f)'
               PROVE  Settled(d)
    BY <1>3 DEF BegunInOrder
  <2>1. Precedes(d, f)
    BY DEF Precedes, Enqueued, chainVars
  <2>2. CASE f # e
    BY <2>1, <2>2, <1>1, <1>3 DEF IInv, BegunInOrder, Begun
  <2>3. CASE f = e /\ how \in {"posting", "backoff"}
    BY <2>1, <2>3, TurnMeansFirst
  <2>4. CASE f = e /\ how \notin {"posting", "backoff"}
    BY <2>1, <2>4, <1>1, <1>3 DEF IInv, BegunInOrder, Begun
  <2> QED BY <2>2, <2>3, <2>4
<1> QED BY <1>2, <1>4, <1>5, <1>6, <1>7 DEF IInv

\* Enqueueing keeps the invariant: the new job links to the last unfinished
\* one, or finds everything before it over.
LEMMA EnqueuePreserves ==
    ASSUME IInv, NEW e \in Events, Enqueue(e)
    PROVE  IInv'
<1> DEFINE p == ProjectOf[e]
<1>0. /\ status \in [Events -> Statuses] /\ p \in Projects
      /\ tail \in [Projects -> Events \cup {NoJob}]
      /\ ticket \in [Events -> Nat] /\ issued \in Nat
      /\ after \in [Events -> Events \cup {NoJob}]
      /\ ~Enqueued(e) /\ ~Settled(e) /\ ticket[e] = 0 /\ tries[e] = 0
      /\ \A d \in Events : ticket[d] <= issued
  BY OwnerOfEvent DEF IInv, TypeOK, StagesAgree, TicketsUnique, Enqueue, Enqueued, Settled,
     InChain, Over
<1>1. /\ status'[e] = "queued" /\ ticket'[e] = issued + 1
      /\ after'[e] = tail[p] /\ tail'[p] = e /\ issued' = issued + 1
      /\ \A d \in Events \ {e} :
            /\ status'[d] = status[d] /\ ticket'[d] = ticket[d]
            /\ after'[d] = after[d]
      /\ \A q \in Projects \ {p} : tail'[q] = tail[q]
      /\ UNCHANGED <<configured, tries, reached>>
  BY <1>0 DEF Enqueue
<1>2. /\ status' \in [Events -> Statuses]
      /\ tail' \in [Projects -> Events \cup {NoJob}]
      /\ ticket' \in [Events -> Nat] /\ issued' \in Nat
      /\ after' \in [Events -> Events \cup {NoJob}]
  BY <1>0 DEF Enqueue, Statuses
<1>3. TypeOK'
  BY <1>1, <1>2 DEF IInv, TypeOK
<1>4. \A d \in Events : (Settled(d)' <=> Settled(d)) /\ (Begun(d)' <=> Begun(d))
  BY <1>0, <1>1 DEF Settled, Begun, Over, Enqueue
<1>5. StagesAgree'
  BY <1>0, <1>1 DEF IInv, StagesAgree, Enqueued, InChain, Over
<1>6. TicketsUnique'
  BY <1>0, <1>1, <1>2 DEF IInv, TicketsUnique, Enqueued
<1>7. \A d \in Events : ProjectOf[d] = p /\ Enqueued(d) =>
          \/ Settled(d)
          \/ /\ tail[p] # NoJob /\ ProjectOf[tail[p]] = p
             /\ ticket[d] <= ticket[tail[p]]
  BY <1>0 DEF IInv, TailIsLast
<1>8. tail[p] # NoJob => tail[p] \in Events \ {e}
  BY <1>0 DEF IInv, TailIsLast, StagesAgree
<1>9. ChainLinked'
  <2> SUFFICES ASSUME NEW d \in Events, NEW f \in Events, Precedes(d, f)'
               PROVE  \/ Settled(d)'
                      \/ /\ after'[f] # NoJob
                         /\ ProjectOf[after'[f]] = ProjectOf[f]
                         /\ ticket'[d] <= ticket'[after'[f]]
    BY DEF ChainLinked
  <2>1. d # e /\ ticket'[d] = ticket[d] /\ Enqueued(d)
    BY <1>0, <1>1, <1>2 DEF Precedes, Enqueued
  <2>2. CASE f = e
    BY <2>1, <2>2, <1>1, <1>4, <1>7, <1>8 DEF Precedes
  <2>3. CASE f # e
    <3>1. Precedes(d, f)
      BY <2>1, <2>3, <1>1 DEF Precedes
    <3>2. \/ Settled(d)
          \/ after[f] # NoJob /\ ProjectOf[after[f]] = ProjectOf[f] /\ ticket[d] <= ticket[after[f]]
      BY <3>1 DEF IInv, ChainLinked
    <3>3. after[f] # e \/ Settled(d)
      BY <3>2, <2>1, <1>0 DEF Enqueued
    <3> QED BY <3>2, <3>3, <2>1, <2>3, <1>0, <1>1, <1>4
  <2> QED BY <2>2, <2>3
<1>10. BegunInOrder'
  <2> SUFFICES ASSUME NEW d \in Events, NEW f \in Events,
                      Precedes(d, f)', Begun(f)'
               PROVE  Settled(d)
    BY <1>4 DEF BegunInOrder
  <2>1. d # e /\ ticket'[d] = ticket[d] /\ Enqueued(d)
    BY <1>0, <1>1, <1>2 DEF Precedes, Enqueued
  <2>2. Begun(f) /\ f # e
    BY <1>0, <1>1, <1>4 DEF Begun, Settled, Over
  <2> QED BY <2>1, <2>2, <1>1 DEF IInv, BegunInOrder, Precedes
<1>11. TailIsLast'
  <2> SUFFICES ASSUME NEW q \in Projects
               PROVE  /\ tail'[q] = NoJob =>
                           \A d \in Events :
                              ProjectOf[d] = q /\ Enqueued(d)' => Settled(d)'
                      /\ tail'[q] # NoJob =>
                           /\ ProjectOf[tail'[q]] = q
                           /\ status'[tail'[q]] \in InChain
                           /\ \A d \in Events :
                                 ProjectOf[d] = q /\ Enqueued(d)'
                                     => ticket'[d] <= ticket'[tail'[q]]
    BY DEF TailIsLast
  <2>1. CASE q = p
    BY <2>1, <1>0, <1>1, NoJobIsNone DEF InChain
  <2>2. CASE q # p
    <3>1. \A d \in Events : ProjectOf[d] = q =>
              d # e /\ ticket'[d] = ticket[d] /\ (Enqueued(d)' <=> Enqueued(d))
      BY <2>2, <1>1 DEF Enqueued
    <3>2. tail'[q] = tail[q] /\ (tail[q] # NoJob => tail[q] \in Events)
      BY <2>2, <1>0, <1>1
    <3> QED BY <3>1, <3>2, <1>1, <1>4 DEF IInv, TailIsLast
  <2> QED BY <2>1, <2>2
<1> QED BY <1>3, <1>5, <1>6, <1>9, <1>10, <1>11 DEF IInv

-----------------------------------------------------------------------------

\* Every step keeps the invariant.
LEMMA NextPreserves == IInv /\ [Next]_vars => IInv'
<1> SUFFICES ASSUME IInv, [Next]_vars PROVE IInv'
  OBVIOUS
<1>1. ASSUME NEW p \in Projects, Configure(p) PROVE IInv'
  <2>1. UNCHANGED <<status, chainVars, tail, tries, reached>>
        /\ configured' \subseteq Projects
    BY <1>1 DEF Configure, IInv, TypeOK
  <2> QED
    BY <2>1 DEF IInv, TypeOK, StagesAgree, TicketsUnique, TailIsLast, ChainLinked,
        BegunInOrder, Begun, Precedes, Enqueued, Settled, chainVars
<1>2. ASSUME NEW e \in Events, Emit(e) PROVE IInv'
  <2>1. "looking" \in Statuses /\ tries \in [Events -> 0..MaxAttempts]
        /\ configured \subseteq Projects /\ reached \subseteq Events
    BY DEF Statuses, IInv, TypeOK
  <2> QED BY <1>2, <2>1, MovePreserves DEF Emit, Settled, InChain, Over
<1>3. ASSUME NEW e \in Events, StaySilent(e) PROVE IInv'
  <2>1. "silent" \in Statuses /\ tries \in [Events -> 0..MaxAttempts]
        /\ configured \subseteq Projects /\ reached \subseteq Events
    BY DEF Statuses, IInv, TypeOK
  <2> QED BY <1>3, <2>1, MovePreserves DEF StaySilent, Settled, InChain, Over
<1>4. ASSUME NEW e \in Events, Enqueue(e) PROVE IInv'
  BY <1>4, EnqueuePreserves
<1>5. ASSUME NEW e \in Events, StartAttempt(e) PROVE IInv'
  <2>1. /\ "posting" \in Statuses /\ tries \in [Events -> 0..MaxAttempts]
        /\ configured \subseteq Projects /\ reached \subseteq Events
    BY DEF Statuses, IInv, TypeOK
  <2>2. tries[e] < MaxAttempts
    BY <1>5, SomeAttempt DEF IInv, StagesAgree, StartAttempt, MayAttempt, Over
  <2>3. /\ tries' \in [Events -> 0..MaxAttempts]
        /\ \A d \in Events \ {e} : tries'[d] = tries[d]
    BY <1>5, <2>1, <2>2, SomeAttempt DEF StartAttempt
  <2> QED
    BY <1>5, <2>1, <2>3, MovePreserves
       DEF StartAttempt, MayAttempt, Settled, InChain, Over
<1>6. ASSUME NEW e \in Events, Abandon(e) PROVE IInv'
  BY <1>6, SettlePreserves DEF Abandon, IInv, TypeOK
<1>7. ASSUME NEW e \in Events, ReadFails(e) PROVE IInv'
  BY <1>7, SettlePreserves DEF ReadFails, IInv, TypeOK
<1>8. ASSUME NEW e \in Events, PostAccepted(e) PROVE IInv'
  BY <1>8, SettlePreserves DEF PostAccepted, IInv, TypeOK
<1>9. ASSUME NEW e \in Events, NEW arrived \in BOOLEAN, PostFails(e, arrived)
      PROVE  IInv'
  <2>1. reached' \subseteq Events
    BY <1>9 DEF PostFails, IInv, TypeOK
  <2>2. CASE Exhausted(e)
    BY <1>9, <2>1, <2>2, SettlePreserves DEF PostFails
  <2>3. CASE ~Exhausted(e)
    <3>1. /\ "backoff" \in Statuses /\ tries \in [Events -> 0..MaxAttempts]
          /\ configured \subseteq Projects
      BY DEF Statuses, IInv, TypeOK
    <3>2. tries[e] < MaxAttempts
      BY <2>3, <3>1, SomeAttempt DEF Exhausted
    <3> QED
      BY <1>9, <2>1, <2>3, <3>1, <3>2, MovePreserves
         DEF PostFails, Settled, InChain, Over
  <2> QED BY <2>2, <2>3
<1>10. CASE UNCHANGED vars
  BY <1>10 DEF vars, IInv, TypeOK, StagesAgree, TicketsUnique, TailIsLast, ChainLinked,
      BegunInOrder, Begun, Precedes, Enqueued, Settled
<1> QED
  BY <1>1, <1>2, <1>3, <1>4, <1>5, <1>6, <1>7, <1>8, <1>9, <1>10 DEF Next, Run

\* The inductive invariant holds of every behaviour.
THEOREM Invariance == Spec => []IInv
<1> QED BY InitEstablishes, NextPreserves, PTL DEF Spec

\* The maps of the queue keep their types: in particular no job is attempted
\* more often than the retry table allows.
THEOREM TypeCorrect == Spec => []TypeOK
<1>1. IInv => TypeOK
  BY DEF IInv
<1> QED BY <1>1, Invariance, PTL

\* Deliveries of a project run strictly in enqueue order, retries included.
THEOREM NeverOvertaken == Spec => []NothingOvertakes
<1>1. IInv => NothingOvertakes
  BY DEF IInv, BegunInOrder, Begun, NothingOvertakes
<1> QED BY <1>1, Invariance, PTL

\* `tails' neither keeps the chain of an idle project nor loses a running one.
THEOREM TailAlwaysTracksWork == Spec => []TailTracksWork
<1>1. IInv => TailTracksWork
  <2> SUFFICES ASSUME IInv, NEW p \in Projects
               PROVE  tail[p] # NoJob <=>
                        \E e \in Events : ProjectOf[e] = p /\ status[e] \in InChain
    BY DEF TailTracksWork
  <2>1. ASSUME tail[p] # NoJob
        PROVE  \E e \in Events : ProjectOf[e] = p /\ status[e] \in InChain
    BY <2>1 DEF IInv, TypeOK, TailIsLast
  <2>2. ASSUME NEW e \in Events, ProjectOf[e] = p, status[e] \in InChain
        PROVE  tail[p] # NoJob
    BY <2>2 DEF IInv, StagesAgree, TailIsLast, Settled, InChain, Over
  <2> QED BY <2>1, <2>2
<1> QED BY <1>1, Invariance, PTL

-----------------------------------------------------------------------------
(* Jobs in the order of their numbers.                                     *)

Numbered(jobs, number) ==
    /\ IsFiniteSet(jobs) /\ \A e \in jobs : number[e] \in Nat
    /\ \A d, e \in jobs : number[d] = number[e] => d = e

\* No two jobs have one place, and every place is some job's.
LEMMA PlacesAreTaken ==
    ASSUME NEW jobs, NEW number, Numbered(jobs, number)
    PROVE  /\ \A e \in jobs : Place(jobs, number, e) \in 1 .. Cardinality(jobs)
           /\ \A d, e \in jobs : number[d] < number[e] => Place(jobs, number, d) < Place(jobs, number, e)
           /\ \A i \in 1 .. Cardinality(jobs) : \E e \in jobs : Place(jobs, number, e) = i
<1> DEFINE UpTo(e) == {d \in jobs : number[d] <= number[e]}
           place == [e \in jobs |-> Place(jobs, number, e)]
<1>0. /\ IsFiniteSet(jobs) /\ Cardinality(jobs) \in Nat
      /\ \A e \in jobs : number[e] \in Nat
      /\ \A d, e \in jobs : number[d] = number[e] => d = e
  BY FS_CardinalityType DEF Numbered
<1>1. ASSUME NEW e \in jobs
      PROVE  /\ IsFiniteSet(UpTo(e)) /\ e \in UpTo(e)
             /\ Place(jobs, number, e) = Cardinality(UpTo(e))
             /\ Cardinality(UpTo(e)) \in 1 .. Cardinality(jobs)
  <2>1. UpTo(e) \subseteq jobs /\ e \in UpTo(e)
    BY <1>0
  <2>2. IsFiniteSet(UpTo(e)) /\ Cardinality(UpTo(e)) <= Cardinality(jobs)
    BY <1>0, <2>1, FS_Subset
  <2>3. Cardinality(UpTo(e)) \in Nat /\ Cardinality(UpTo(e)) # 0
    BY <2>1, <2>2, FS_CardinalityType, FS_EmptySet
  <2> QED BY <1>0, <2>1, <2>2, <2>3 DEF Place
<1>2. ASSUME NEW d \in jobs, NEW e \in jobs, number[d] < number[e]
      PROVE  Place(jobs, number, d) < Place(jobs, number, e)
  <2>1. UpTo(d) \subseteq UpTo(e) /\ UpTo(d) # UpTo(e)
    <3>1. e \in UpTo(e) /\ e \notin UpTo(d)
      BY <1>0, <1>2
    <3>2. \A f \in UpTo(d) : f \in UpTo(e)
      BY <1>0, <1>2
    <3> QED BY <3>1, <3>2
  <2>2. Cardinality(UpTo(d)) < Cardinality(UpTo(e))
    <3>1. IsFiniteSet(UpTo(e)) /\ IsFiniteSet(UpTo(d))
      BY <1>1
    <3>2. Cardinality(UpTo(d)) <= Cardinality(UpTo(e)) /\ Cardinality(UpTo(d)) # Cardinality(UpTo(e))
      BY <2>1, <3>1, FS_Subset
    <3> QED BY <3>1, <3>2, FS_CardinalityType
  <2> QED BY <1>1, <2>2
<1>3. place \in Injection(jobs, 1 .. Cardinality(jobs))
  <2>1. place \in [jobs -> 1 .. Cardinality(jobs)]
    BY <1>1
  <2>2. \A d, e \in jobs : place[d] = place[e] => d = e
    <3> SUFFICES ASSUME NEW d \in jobs, NEW e \in jobs, d # e PROVE place[d] # place[e]
      OBVIOUS
    <3>1. number[d] < number[e] \/ number[e] < number[d]
      BY <1>0
    <3>2. /\ place[d] = Place(jobs, number, d) /\ place[e] = Place(jobs, number, e)
          /\ Place(jobs, number, d) \in Nat /\ Place(jobs, number, e) \in Nat
      <4>1. place[d] = Place(jobs, number, d) /\ place[e] = Place(jobs, number, e)
        OBVIOUS
      <4> HIDE DEF place
      <4>2. /\ Place(jobs, number, d) \in 1 .. Cardinality(jobs)
            /\ Place(jobs, number, e) \in 1 .. Cardinality(jobs)
        BY <1>1
      <4> QED BY <1>0, <4>1, <4>2
    <3>3. place[d] < place[e] \/ place[e] < place[d]
      BY <1>2, <3>1, <3>2
    <3> QED BY <3>2, <3>3
  <2> HIDE DEF place
  <2> QED BY <2>1, <2>2 DEF Injection, IsInjective
<1>4. IsFiniteSet(1 .. Cardinality(jobs)) /\ Cardinality(1 .. Cardinality(jobs)) = Cardinality(jobs)
  BY <1>0, FS_Interval
<1>5. place \in Surjection(jobs, 1 .. Cardinality(jobs))
  BY <1>3, <1>4, FS_Injection
<1>6. \A i \in 1 .. Cardinality(jobs) : \E e \in jobs : place[e] = i
  BY <1>5 DEF Surjection
<1> QED BY <1>1, <1>2, <1>6

\* The sequence has each job at its place, and is the only one that has.
LEMMA InOrderPlaces ==
    ASSUME NEW jobs, NEW number, Numbered(jobs, number)
    PROVE  /\ InOrder(jobs, number) \in Seq(jobs) /\ Len(InOrder(jobs, number)) = Cardinality(jobs)
           /\ Cardinality(jobs) \in Nat
           /\ \A i \in 1 .. Cardinality(jobs) :
                 /\ InOrder(jobs, number)[i] \in jobs
                 /\ Place(jobs, number, InOrder(jobs, number)[i]) = i
           /\ \A e \in jobs : InOrder(jobs, number)[Place(jobs, number, e)] = e
<1> DEFINE S == InOrder(jobs, number)
<1>0. IsFiniteSet(jobs) /\ Cardinality(jobs) \in Nat
  BY FS_CardinalityType DEF Numbered
<1>1. \A i \in 1 .. Cardinality(jobs) : S[i] \in jobs /\ Place(jobs, number, S[i]) = i
  BY PlacesAreTaken DEF InOrder
<1>2. S = [i \in 1 .. Cardinality(jobs) |-> S[i]]
  BY DEF InOrder
<1>3. \A e \in jobs : S[Place(jobs, number, e)] = e
  <2> SUFFICES ASSUME NEW e \in jobs PROVE S[Place(jobs, number, e)] = e
    OBVIOUS
  <2> DEFINE f == S[Place(jobs, number, e)]
  <2>1. f \in jobs /\ Place(jobs, number, f) = Place(jobs, number, e)
        /\ Place(jobs, number, e) \in 1 .. Cardinality(jobs)
    BY <1>1, PlacesAreTaken
  <2> HIDE DEF f
  <2>2. ~(number[f] < number[e]) /\ ~(number[e] < number[f])
    <3>1. ~(Place(jobs, number, f) < Place(jobs, number, e)) /\ ~(Place(jobs, number, e) < Place(jobs, number, f))
      BY <1>0, <2>1
    <3> QED BY <2>1, <3>1, PlacesAreTaken
  <2>3. f = e
    BY <2>1, <2>2 DEF Numbered
  <2> QED BY <2>3 DEF f
<1> HIDE DEF S
<1>4. S \in Seq(jobs) /\ Len(S) = Cardinality(jobs)
  BY <1>0, <1>1, <1>2
<1> QED BY <1>0, <1>1, <1>3, <1>4 DEF S

ComesLast(jobs, number, e, numberThen) ==
    /\ e \notin jobs /\ numberThen[e] \in Nat
    /\ \A d \in jobs : numberThen[d] = number[d] /\ number[d] < numberThen[e]

JoinsLast(queue, e, longer) == longer = Append(queue, e)

\* A job that comes with the greatest number goes to the end.
LEMMA LastIsAppended ==
    ASSUME NEW jobs, NEW number, NEW e, NEW numberThen,
           Numbered(jobs, number), ComesLast(jobs, number, e, numberThen)
    PROVE  JoinsLast(InOrder(jobs, number), e, InOrder(jobs \cup {e}, numberThen))
<1> DEFINE more == jobs \cup {e}
           n == Cardinality(jobs)
           S == InOrder(jobs, number)
           M == InOrder(more, numberThen)
<1>a. /\ e \notin jobs /\ numberThen[e] \in Nat
      /\ \A d \in jobs : numberThen[d] = number[d] /\ number[d] < numberThen[e]
  BY DEF ComesLast
<1>0. IsFiniteSet(jobs) /\ n \in Nat /\ Cardinality(more) = n + 1 /\ IsFiniteSet(more)
  BY <1>a, FS_CardinalityType, FS_AddElement DEF Numbered
<1>1. Numbered(more, numberThen)
  BY <1>a, <1>0 DEF Numbered
<1>2. \A d \in jobs : Place(more, numberThen, d) = Place(jobs, number, d)
  <2> SUFFICES ASSUME NEW d \in jobs PROVE Place(more, numberThen, d) = Place(jobs, number, d)
    OBVIOUS
  <2>1. {f \in more : numberThen[f] <= numberThen[d]} = {f \in jobs : number[f] <= number[d]}
    BY <1>a DEF Numbered
  <2> QED BY <2>1 DEF Place
<1>3. Place(more, numberThen, e) = n + 1
  <2>1. {f \in more : numberThen[f] <= numberThen[e]} = more
    BY <1>a DEF Numbered
  <2> QED BY <1>0, <2>1 DEF Place
<1>4. /\ S \in Seq(jobs) /\ Len(S) = n /\ \A d \in jobs : S[Place(jobs, number, d)] = d
      /\ \A i \in 1 .. n : S[i] \in jobs /\ Place(jobs, number, S[i]) = i
  BY InOrderPlaces
<1>5. /\ M \in Seq(more) /\ Len(M) = n + 1 /\ \A d \in more : M[Place(more, numberThen, d)] = d
  BY <1>0, <1>1, InOrderPlaces
<1> HIDE DEF S, M, n, more
<1>6. \A i \in 1 .. n : M[i] = S[i]
  BY <1>2, <1>4, <1>5 DEF more
<1>7. M[n + 1] = e
  BY <1>3, <1>5 DEF more
<1>8. Append(S, e) \in Seq(more)
  BY <1>4 DEF more
<1>9. M = Append(S, e)
  <2>1. Len(Append(S, e)) = n + 1
    BY <1>0, <1>4
  <2>2. \A i \in 1 .. n + 1 : M[i] = Append(S, e)[i]
    BY <1>0, <1>4, <1>6, <1>7
  <2> QED BY <1>0, <1>5, <1>8, <2>1, <2>2, SeqEqual
<1> QED BY <1>9 DEF S, M, more, JoinsLast

\* The job with the least number is the first, and what remains is in order.
LEMMA FirstIsHead ==
    ASSUME NEW jobs, NEW number, Numbered(jobs, number), NEW e \in jobs,
           \A d \in jobs : number[e] <= number[d]
    PROVE  /\ InOrder(jobs, number) # <<>> /\ Head(InOrder(jobs, number)) = e
           /\ InOrder(jobs \ {e}, number) = Tail(InOrder(jobs, number))
<1> DEFINE rest == jobs \ {e}
           n == Cardinality(jobs)
           S == InOrder(jobs, number)
           R == InOrder(rest, number)
<1>0. IsFiniteSet(jobs) /\ n \in Nat /\ Cardinality(rest) = n - 1 /\ IsFiniteSet(rest) /\ n > 0
  BY FS_CardinalityType, FS_RemoveElement, FS_EmptySet DEF Numbered
<1>1. Numbered(rest, number)
  BY <1>0 DEF Numbered
<1>2. \A d \in rest : Place(rest, number, d) = Place(jobs, number, d) - 1
  <2> SUFFICES ASSUME NEW d \in rest PROVE Place(rest, number, d) = Place(jobs, number, d) - 1
    OBVIOUS
  <2> DEFINE U == {f \in jobs : number[f] <= number[d]}
  <2>1. {f \in rest : number[f] <= number[d]} = U \ {e} /\ e \in U /\ U \subseteq jobs
    OBVIOUS
  <2>2. IsFiniteSet(U)
    BY <1>0, <2>1, FS_Subset
  <2>3. Cardinality(U \ {e}) = Cardinality(U) - 1
    BY <2>1, <2>2, FS_RemoveElement
  <2> QED BY <2>1, <2>3 DEF Place
<1>3. Place(jobs, number, e) = 1
  <2>1. {f \in jobs : number[f] <= number[e]} = {e}
    BY DEF Numbered
  <2> QED BY <2>1, FS_Singleton DEF Place
<1>4. /\ S \in Seq(jobs) /\ Len(S) = n /\ \A d \in jobs : S[Place(jobs, number, d)] = d
      /\ \A i \in 1 .. n : S[i] \in jobs /\ Place(jobs, number, S[i]) = i
  BY InOrderPlaces
<1>5. /\ R \in Seq(rest) /\ Len(R) = n - 1 /\ \A d \in rest : R[Place(rest, number, d)] = d
  BY <1>0, <1>1, InOrderPlaces
<1> HIDE DEF S, R, n, rest
<1>6. S # <<>> /\ Head(S) = e
  BY <1>0, <1>3, <1>4
<1>7. \A i \in 1 .. n - 1 : R[i] = S[i + 1]
  <2> SUFFICES ASSUME NEW i \in 1 .. n - 1 PROVE R[i] = S[i + 1]
    OBVIOUS
  <2>1. S[i + 1] \in jobs /\ Place(jobs, number, S[i + 1]) = i + 1
    BY <1>0, <1>4
  <2>2. S[i + 1] \in rest
    BY <1>3, <2>1, <1>0 DEF rest
  <2>3. Place(rest, number, S[i + 1]) = i
    BY <1>2, <2>1, <2>2
  <2> QED BY <1>5, <2>2, <2>3
<1>8. Tail(S) \in Seq(jobs) /\ Len(Tail(S)) = n - 1 /\ \A i \in 1 .. n - 1 : Tail(S)[i] = S[i + 1]
  BY <1>0, <1>4, <1>6, HeadTailProperties
<1>9. R = Tail(S)
  <2>1. R \in Seq(jobs)
    BY <1>5 DEF rest
  <2> QED BY <1>0, <1>5, <1>7, <1>8, <2>1, SeqEqual
<1> QED BY <1>6, <1>9 DEF S, R, rest

-----------------------------------------------------------------------------
(* Each step of the chains is one of the queue, or none.                   *)

\* The jobs of a chain have tickets of their own.
LEMMA JobsAreNumbered ==
    ASSUME IInv, NEW p
    PROVE  Numbered(Jobs(p), ticket)
<1>1. IsFiniteSet(Events)
  BY EventsAreFinitelyMany, FS_Interval DEF Events
<1>2. IsFiniteSet(Jobs(p))
  BY <1>1, FS_Subset DEF Jobs
<1> QED BY <1>2 DEF Numbered, Jobs, IInv, TypeOK, TicketsUnique, StagesAgree, InChain

\* A job that has its turn is the first of its chain.
LEMMA TurnMeansHead ==
    ASSUME IInv, NEW e \in Events, MayAttempt(e) \/ status[e] = "posting"
    PROVE  /\ e \in Jobs(ProjectOf[e]) /\ QueueOf(ProjectOf[e]) # <<>>
           /\ Head(QueueOf(ProjectOf[e])) = e
           /\ InOrder(Jobs(ProjectOf[e]) \ {e}, ticket) = Tail(QueueOf(ProjectOf[e]))
<1> DEFINE p == ProjectOf[e]
<1>1. e \in Jobs(p) /\ Enqueued(e)
  BY DEF Jobs, MayAttempt, InChain, IInv, StagesAgree
<1>2. \A d \in Jobs(p) : ticket[e] <= ticket[d]
  <2> SUFFICES ASSUME NEW d \in Jobs(p), ticket[d] < ticket[e] PROVE FALSE
    BY DEF IInv, TypeOK, Jobs
  <2>1. d \in Events /\ Precedes(d, e) /\ status[d] \in InChain
    BY DEF Jobs, Precedes, IInv, StagesAgree
  <2>2. Settled(d)
    BY <2>1, TurnMeansFirst
  <2> QED BY <2>1, <2>2 DEF Settled, InChain, Over
<1> QED BY <1>1, <1>2, FirstIsHead, JobsAreNumbered DEF QueueOf

\* A job whose delivery is over leaves the head of its queue.
LEMMA SettleConcludes ==
    ASSUME IInv, NEW e \in Events, MayAttempt(e) \/ status[e] = "posting",
           Settle(e, "delivered") \/ Settle(e, "discarded"), UNCHANGED chainVars,
           reached' \in {reached, reached \cup {e}}
    PROVE  Fifo!Conclude(ProjectOf[e])
<1> DEFINE p == ProjectOf[e]
           Q == [q \in Projects |-> QueueOf(q)]
<1>0. p \in Projects /\ status \in [Events -> Statuses] /\ ticket' = ticket
  BY OwnerOfEvent DEF IInv, TypeOK, chainVars
<1>1. /\ e \in Jobs(p) /\ Q[p] # <<>> /\ Head(Q[p]) = e
      /\ InOrder(Jobs(p) \ {e}, ticket) = Tail(Q[p])
  BY <1>0, TurnMeansHead
<1>2. status'[e] \in Over /\ \A d \in Events : d # e => status'[d] = status[d]
  BY <1>0 DEF Settle, Over
<1>3. Jobs(p)' = Jobs(p) \ {e}
  BY <1>2 DEF Jobs, InChain, Over
<1>4. \A q \in Projects : q # p => Jobs(q)' = Jobs(q)
  BY <1>2 DEF Jobs
<1>5. QueueOf(p)' = Tail(Q[p])
  BY <1>0, <1>1, <1>3 DEF QueueOf
<1>6. \A q \in Projects : q # p => QueueOf(q)' = Q[q]
  BY <1>0, <1>4 DEF QueueOf
<1>7. Q' = [Q EXCEPT ![p] = Tail(@)]
  BY <1>0, <1>5, <1>6
<1>8. {d \in Events : Settled(d)}' = {d \in Events : Settled(d)} \cup {Head(Q[p])}
  BY <1>1, <1>2 DEF Settled
<1>9. reached' \in {reached, reached \cup {Head(Q[p])}}
  BY <1>1
<1> QED BY <1>1, <1>7, <1>8, <1>9 DEF Fifo!Conclude

\* An event that enters its chain joins the queue at the tail.
LEMMA EnqueueAccepts ==
    ASSUME IInv, NEW e \in Events, Enqueue(e)
    PROVE  Fifo!Accept(e)
<1> DEFINE p == ProjectOf[e]
           Q == [q \in Projects |-> QueueOf(q)]
<1>0. /\ p \in Projects /\ status \in [Events -> Statuses] /\ ticket \in [Events -> Nat]
      /\ issued \in Nat /\ \A d \in Events : ticket[d] <= issued
  BY OwnerOfEvent DEF IInv, TypeOK, TicketsUnique
<1>1. /\ status'[e] = "queued" /\ \A d \in Events : d # e => status'[d] = status[d]
      /\ ticket'[e] = issued + 1 /\ \A d \in Events : d # e => ticket'[d] = ticket[d]
      /\ status[e] = "looking" /\ reached' = reached
  BY <1>0 DEF Enqueue
<1>2. \A q \in Projects : e \notin Jobs(q)
  BY <1>1 DEF Jobs, InChain
<1>3. Jobs(p)' = Jobs(p) \cup {e}
  BY <1>1 DEF Jobs, InChain
<1>4. \A q \in Projects : q # p => Jobs(q)' = Jobs(q)
  BY <1>1 DEF Jobs
<1>5. QueueOf(p)' = Append(Q[p], e)
  <2>1. \A d \in Jobs(p) : ticket'[d] = ticket[d] /\ ticket[d] < ticket'[e]
    BY <1>0, <1>1, <1>2 DEF Jobs
  <2>2. ticket'[e] \in Nat
    BY <1>0, <1>1
  <2>3. JoinsLast(InOrder(Jobs(p), ticket), e, InOrder(Jobs(p) \cup {e}, ticket'))
    <3>1. Numbered(Jobs(p), ticket) /\ ComesLast(Jobs(p), ticket, e, ticket')
      BY <1>0, <1>2, <2>1, <2>2, JobsAreNumbered DEF ComesLast
    <3> QED BY <3>1, LastIsAppended
  <2> QED BY <1>0, <1>3, <2>3 DEF QueueOf, JoinsLast
<1>6. \A q \in Projects : q # p => QueueOf(q)' = Q[q]
  <2> SUFFICES ASSUME NEW q \in Projects, q # p PROVE InOrder(Jobs(q), ticket') = InOrder(Jobs(q), ticket)
    BY <1>4 DEF QueueOf
  <2>1. \A d \in Jobs(q) : ticket'[d] = ticket[d]
    BY <1>1, <1>2 DEF Jobs
  <2>2. \A d \in Jobs(q) : Place(Jobs(q), ticket', d) = Place(Jobs(q), ticket, d)
    <3> SUFFICES ASSUME NEW d \in Jobs(q)
                 PROVE  {f \in Jobs(q) : ticket'[f] <= ticket'[d]} = {f \in Jobs(q) : ticket[f] <= ticket[d]}
      BY DEF Place
    <3> QED BY <2>1
  <2>3. ASSUME NEW i
        PROVE  (CHOOSE d \in Jobs(q) : Place(Jobs(q), ticket', d) = i)
                  = (CHOOSE d \in Jobs(q) : Place(Jobs(q), ticket, d) = i)
    BY <2>2
  <2> QED BY <2>3 DEF InOrder
<1>7. Q' = [Q EXCEPT ![p] = Append(@, e)]
  BY <1>0, <1>5, <1>6
<1>8. {d \in Events : Settled(d)}' = {d \in Events : Settled(d)} /\ ~Settled(e)
  BY <1>1 DEF Settled, Over
<1>9. e \notin Fifo!Waiting(p)
  <2>1. Q[p] \in Seq(Jobs(p))
    BY <1>0, InOrderPlaces, JobsAreNumbered DEF QueueOf
  <2>2. \A i \in DOMAIN Q[p] : Q[p][i] \in Jobs(p)
    BY <2>1
  <2> QED BY <1>0, <1>2, <2>2 DEF Fifo!Waiting
<1> QED BY <1>0, <1>1, <1>7, <1>8, <1>9 DEF Fifo!Accept

\* A step that leaves every event in its chain, or out of it, leaves the
\* queues as they were.
LEMMA ChainsStay ==
    ASSUME ticket' = ticket,
           \A d \in Events : /\ status'[d] \in InChain <=> status[d] \in InChain
                             /\ status'[d] \in Over <=> status[d] \in Over
    PROVE  /\ [q \in Projects |-> QueueOf(q)]' = [q \in Projects |-> QueueOf(q)]
           /\ {d \in Events : Settled(d)}' = {d \in Events : Settled(d)}
<1>1. \A q \in Projects : Jobs(q)' = Jobs(q)
  BY DEF Jobs
<1> QED BY <1>1 DEF QueueOf, Settled

LEMMA MoveStays ==
    ASSUME IInv, NEW e \in Events, NEW how, status' = [status EXCEPT ![e] = how],
           how \in InChain <=> status[e] \in InChain, how \notin Over, status[e] \notin Over,
           ticket' = ticket
    PROVE  /\ [q \in Projects |-> QueueOf(q)]' = [q \in Projects |-> QueueOf(q)]
           /\ {d \in Events : Settled(d)}' = {d \in Events : Settled(d)}
<1>1. \A d \in Events : /\ status'[d] \in InChain <=> status[d] \in InChain
                        /\ status'[d] \in Over <=> status[d] \in Over
  BY DEF IInv, TypeOK
<1> QED BY <1>1, ChainsStay

LEMMA StepRefines == IInv /\ [Next]_vars => [Fifo!Next]_(Fifo!fifoVars)
<1> SUFFICES ASSUME IInv, [Next]_vars
             PROVE  Fifo!Next \/ UNCHANGED Fifo!fifoVars
  OBVIOUS
<1>p. \A e \in Events : ProjectOf[e] \in Projects
  BY OwnerOfEvent
<1>1. ASSUME NEW p \in Projects, Configure(p) PROVE UNCHANGED Fifo!fifoVars
  BY <1>1, ChainsStay DEF Configure, chainVars, Fifo!fifoVars
<1>2. ASSUME NEW e \in Events, Emit(e) \/ StaySilent(e) PROVE UNCHANGED Fifo!fifoVars
  BY <1>2, MoveStays DEF Emit, StaySilent, chainVars, InChain, Over, Fifo!fifoVars
<1>3. ASSUME NEW e \in Events, Enqueue(e) PROVE Fifo!Next
  BY <1>3, EnqueueAccepts DEF Fifo!Next
<1>4. ASSUME NEW e \in Events, StartAttempt(e) PROVE UNCHANGED Fifo!fifoVars
  BY <1>4, MoveStays DEF StartAttempt, MayAttempt, chainVars, InChain, Over, Fifo!fifoVars
<1>5. ASSUME NEW e \in Events, Abandon(e) \/ ReadFails(e) PROVE Fifo!Next
  <2>1. Fifo!Conclude(ProjectOf[e])
    BY <1>5, SettleConcludes DEF Abandon, ReadFails
  <2> QED BY <1>p, <2>1 DEF Fifo!Next
<1>6. ASSUME NEW e \in Events, PostAccepted(e) PROVE Fifo!Next
  <2>1. Fifo!Conclude(ProjectOf[e])
    BY <1>6, SettleConcludes DEF PostAccepted
  <2> QED BY <1>p, <2>1 DEF Fifo!Next
<1>7. ASSUME NEW e \in Events, NEW arrived \in BOOLEAN, PostFails(e, arrived)
      PROVE  Fifo!Next \/ UNCHANGED Fifo!fifoVars
  <2>0. status[e] = "posting" /\ reached' = IF arrived THEN reached \cup {e} ELSE reached
    BY <1>7 DEF PostFails
  <2>1. CASE Exhausted(e)
    <3>1. Fifo!Conclude(ProjectOf[e])
      BY <1>7, <2>0, <2>1, SettleConcludes DEF PostFails
    <3> QED BY <1>p, <3>1 DEF Fifo!Next
  <2>2. CASE ~Exhausted(e)
    <3>1. /\ [q \in Projects |-> QueueOf(q)]' = [q \in Projects |-> QueueOf(q)]
          /\ {d \in Events : Settled(d)}' = {d \in Events : Settled(d)}
      BY <1>7, <2>0, <2>2, MoveStays DEF PostFails, chainVars, InChain, Over
    <3>2. CASE arrived
      <4>1. Fifo!Arrive(ProjectOf[e])
        BY <1>p, <2>0, <3>1, <3>2, TurnMeansHead DEF Fifo!Arrive
      <4> QED BY <1>p, <4>1 DEF Fifo!Next
    <3>3. CASE ~arrived
      BY <2>0, <3>1, <3>3 DEF Fifo!fifoVars
    <3> QED BY <3>2, <3>3
  <2> QED BY <2>1, <2>2
<1>8. CASE UNCHANGED vars
  BY <1>8, ChainsStay DEF vars, Fifo!fifoVars
<1> QED BY <1>1, <1>2, <1>3, <1>4, <1>5, <1>6, <1>7, <1>8 DEF Next, Run

LEMMA InitRefines == Init => Fifo!Init
<1> SUFFICES ASSUME Init PROVE Fifo!Init
  OBVIOUS
<1>1. \A q \in Projects : Jobs(q) = {}
  BY DEF Init, Jobs, InChain
<1>2. InOrder({}, ticket) = <<>>
  BY FS_EmptySet DEF InOrder
<1>3. {d \in Events : Settled(d)} = {}
  BY DEF Init, Settled, Over
<1> QED BY <1>1, <1>2, <1>3 DEF Init, Fifo!Init, QueueOf

\* The promise chains, their retries and their failures implement the FIFO of
\* each project.
THEOREM ChainsImplementFifo == Spec => ImplementsFifo
<1> QED BY InitRefines, StepRefines, Invariance, PTL DEF Spec, ImplementsFifo, Fifo!Spec

-----------------------------------------------------------------------------
(***************************************************************************)
(* Proof, for any number of rooms and workers, joins under way and deaths, *)
(* that a room's router is an open one of a live worker which has the room *)
(* in its list, and that a list names no other rooms.                      *)
(***************************************************************************)

\* A list is of rooms with an open router there, whether or not the worker is
\* in the pool still: a replacement that comes up begins with an empty one.
ListsAreReal == \A w \in Workers : \A r \in roomIds[w] : hosted[r][w] > 0

Recoveries ==
    [phase : Phases, todo : SUBSET Rooms, making : Rooms \cup {NoRoom},
     entry : Workers \cup {NoWorker}, recovered : SUBSET Rooms]

\* A recovery that makes routers has a replacement to make them on.
RecoveriesHaveEntry == \A w \in Workers : recovery[w].phase = "recreating" => recovery[w].entry \in Workers

PoolIInv == PoolTypeOK /\ RoutersWork /\ ListsAreReal /\ RecoveriesHaveEntry

-----------------------------------------------------------------------------

LEMMA IdleIsRecovery ==
    ASSUME NEW phase \in Phases
    PROVE  /\ Idle(phase) \in Recoveries
           /\ Idle(phase).phase = phase
  BY DEF Idle, Recoveries

LEMMA PoolInitEstablishes == PoolInit => PoolIInv
<1> SUFFICES ASSUME PoolInit PROVE PoolIInv
  OBVIOUS
<1>1. \A w \in Workers : recovery[w] = Idle("none")
  BY DEF PoolInit
<1>2. PoolTypeOK
  <2>1. calls \in [Rooms -> [Workers -> 0..MaxRouters]]
    BY BoundsAreNat DEF PoolInit
  <2>2. "none" \in Phases
    BY DEF Phases
  <2>3. recovery \in [Workers -> Recoveries]
    BY <2>2, IdleIsRecovery DEF PoolInit
  <2> QED BY <2>1, <2>3, PoolStartsWithWorkers DEF PoolInit, PoolTypeOK, Recoveries
<1>3. RecoveriesHaveEntry
  <2>1. "none" \in Phases /\ "none" # "recreating"
    BY DEF Phases
  <2> QED BY <1>1, <2>1, IdleIsRecovery DEF RecoveriesHaveEntry
<1> QED BY <1>2, <1>3 DEF PoolInit, PoolIInv, RoutersWork, ListsAreReal

\* A recovery that goes on leaves the others as they are.
LEMMA RecoveryMoves ==
    ASSUME PoolIInv, NEW w \in Workers, NEW next \in Recoveries, recovery' = [recovery EXCEPT ![w] = next],
           next.phase = "recreating" => next.entry \in Workers
    PROVE  recovery' \in [Workers -> Recoveries] /\ RecoveriesHaveEntry'
  BY DEF PoolIInv, PoolTypeOK, RecoveriesHaveEntry, Recoveries

\* A router that comes back is registered on a worker that lives.
LEMMA RegisterKeeps ==
    ASSUME PoolIInv, NEW r \in Rooms, NEW w \in Workers, Live(w), Register(r, w), UNCHANGED process
    PROVE  /\ roomIds' \in [Workers -> SUBSET Rooms]
           /\ routers' \in [Rooms -> Workers \cup {NoWorker}]
           /\ hosted' \in [Rooms -> [Workers -> Nat]]
           /\ RoutersWork' /\ ListsAreReal'
<1> USE DEF PoolIInv
<1>1. /\ roomIds' \in [Workers -> SUBSET Rooms] /\ routers' \in [Rooms -> Workers \cup {NoWorker}]
      /\ hosted' \in [Rooms -> [Workers -> Nat]]
  BY DEF PoolTypeOK, Register
<1>2. ASSUME NEW s \in Rooms, NEW v \in Workers, hosted[s][v] > 0 \/ (s = r /\ v = w)
      PROVE  hosted'[s][v] > 0
  <2>1. hosted[s][v] \in Nat
    BY DEF PoolTypeOK
  <2>2. hosted'[s][v] = hosted[s][v] \/ hosted'[s][v] = hosted[s][v] + 1
    BY DEF PoolTypeOK, Register
  <2>3. s = r /\ v = w => hosted'[s][v] = hosted[s][v] + 1
    BY DEF PoolTypeOK, Register
  <2> QED BY <1>2, <2>1, <2>2, <2>3
<1>3. ASSUME NEW s \in Rooms, NEW v \in Workers
      PROVE  /\ s \in roomIds'[v] <=> s \in roomIds[v] \/ (s = r /\ v = w)
             /\ routers'[s] = IF s = r THEN w ELSE routers[s]
  BY DEF PoolTypeOK, Register
<1>4. RoutersWork'
  <2> SUFFICES ASSUME NEW s \in Rooms, routers'[s] # NoWorker
               PROVE  process'[routers'[s]] = "live" /\ hosted'[s][routers'[s]] > 0 /\ s \in roomIds'[routers'[s]]
    BY DEF RoutersWork, Live
  <2>1. PICK v \in Workers : v = routers'[s]
    BY <1>1
  <2>2. (s = r /\ v = w) \/ (v = routers[s] /\ v # NoWorker)
    BY <1>3, <2>1
  <2>3. (s = r /\ v = w) \/ (Live(v) /\ hosted[s][v] > 0 /\ s \in roomIds[v])
    BY <2>2 DEF RoutersWork
  <2>4. process'[v] = "live"
    BY <2>3 DEF Live
  <2> QED BY <1>2, <1>3, <2>1, <2>3, <2>4
<1>5. ListsAreReal'
  <2> SUFFICES ASSUME NEW v \in Workers, NEW s \in roomIds'[v] PROVE hosted'[s][v] > 0
    BY DEF ListsAreReal
  <2>1. s \in Rooms
    BY <1>1
  <2> QED BY <1>2, <1>3, <2>1 DEF ListsAreReal
<1> QED BY <1>1, <1>4, <1>5

\* Joins and closing rooms.
LEMMA RoomStepsPreserve ==
    ASSUME PoolIInv, NEW r \in Rooms,
           JoinRoom(r) \/ RoomCloses(r) \/ \E w \in Workers : RouterCreated(r, w)
    PROVE  PoolIInv'
<1> USE DEF PoolIInv
<1>1. CASE JoinRoom(r)
  <2>1. /\ UNCHANGED <<process, pool, roomIds, routers, hosted, recovery, unaware>> /\ open' = open \cup {r}
        /\ \/ calls' = calls
           \/ \E w \in pool : /\ calls[r][w] + hosted[r][w] < MaxRouters
                              /\ calls' = [calls EXCEPT ![r][w] = @ + 1]
    BY <1>1 DEF JoinRoom, poolVars
  <2>2. calls' \in [Rooms -> [Workers -> 0..MaxRouters]]
    <3>1. CASE calls' = calls
      BY <3>1 DEF PoolTypeOK
    <3>2. ASSUME NEW w \in pool, calls[r][w] + hosted[r][w] < MaxRouters,
                 calls' = [calls EXCEPT ![r][w] = @ + 1]
          PROVE  calls' \in [Rooms -> [Workers -> 0..MaxRouters]]
      <4>1. w \in Workers /\ calls[r][w] \in 0..MaxRouters /\ hosted[r][w] \in Nat
        BY DEF PoolTypeOK
      <4>2. calls[r][w] + 1 \in 0..MaxRouters
        BY <3>2, <4>1, BoundsAreNat
      <4> QED BY <3>2, <4>1, <4>2 DEF PoolTypeOK
    <3> QED BY <2>1, <3>1, <3>2
  <2> QED BY <2>1, <2>2 DEF PoolTypeOK, RoutersWork, ListsAreReal, RecoveriesHaveEntry, Live
<1>2. CASE RoomCloses(r)
  <2>1. /\ UNCHANGED <<process, pool, calls, recovery>> /\ open' = open \ {r} /\ unaware' = unaware \ {r}
        /\ routers' = [routers EXCEPT ![r] = NoWorker]
        /\ roomIds' = [w \in Workers |-> roomIds[w] \ {r}]
        /\ hosted' = IF routers[r] = NoWorker THEN hosted ELSE [hosted EXCEPT ![r][routers[r]] = @ - 1]
    BY <1>2 DEF RoomCloses, CloseRouter, poolVars
  <2>2. routers[r] # NoWorker => routers[r] \in Workers /\ hosted[r][routers[r]] > 0
    BY DEF RoutersWork, PoolTypeOK
  <2>3. hosted' \in [Rooms -> [Workers -> Nat]] /\ \A s \in Rooms \ {r} : hosted'[s] = hosted[s]
    BY <2>1, <2>2 DEF PoolTypeOK
  <2>4. PoolTypeOK'
    BY <2>1, <2>3 DEF PoolTypeOK
  <2>5. RoutersWork' /\ ListsAreReal' /\ RecoveriesHaveEntry'
    BY <2>1, <2>3 DEF PoolTypeOK, RoutersWork, ListsAreReal, RecoveriesHaveEntry, Live
  <2> QED BY <2>4, <2>5
<1>3. ASSUME NEW w \in Workers, RouterCreated(r, w) PROVE PoolIInv'
  <2>1. /\ UNCHANGED <<process, pool, open, recovery, unaware>> /\ Live(w) /\ Register(r, w)
        /\ calls[r][w] > 0 /\ calls' = [calls EXCEPT ![r][w] = @ - 1]
    BY <1>3 DEF RouterCreated, poolVars
  <2>2. calls' \in [Rooms -> [Workers -> 0..MaxRouters]]
    BY <2>1, BoundsAreNat DEF PoolTypeOK
  <2> QED BY <2>1, <2>2, RegisterKeeps DEF PoolTypeOK, RecoveriesHaveEntry
<1> QED BY <1>1, <1>2, <1>3

\* A worker dies: no room keeps a router of it, and its list is empty.
LEMMA DeathPreserves ==
    ASSUME PoolIInv, NEW w \in Workers, WorkerDies(w)
    PROVE  PoolIInv'
<1> USE DEF PoolIInv
<1>1. /\ process' = [process EXCEPT ![w] = "dead"] /\ pool' = pool \ {w} /\ open' = open
      /\ hosted' = [r \in Rooms |-> [hosted[r] EXCEPT ![w] = 0]]
      /\ routers' = [r \in Rooms |-> IF r \in roomIds[w] THEN NoWorker ELSE routers[r]]
      /\ recovery' = [recovery EXCEPT ![w].phase = "spawning", ![w].todo = roomIds[w]]
      /\ unaware' = unaware \cup {r \in open : routers[r] = w}
      /\ roomIds' = [roomIds EXCEPT ![w] = {}]
      /\ calls' = [r \in Rooms |-> [calls[r] EXCEPT ![w] = 0]]
  BY DEF WorkerDies, EntriesWithout
<1>2. recovery' \in [Workers -> Recoveries] /\ RecoveriesHaveEntry'
  <2> DEFINE next == [recovery[w] EXCEPT !.phase = "spawning", !.todo = roomIds[w]]
  <2>1. recovery[w] \in Recoveries /\ roomIds[w] \in SUBSET Rooms /\ "spawning" \in Phases
    BY DEF PoolTypeOK, Recoveries, Phases
  <2>2. next \in Recoveries /\ next.phase = "spawning"
    BY <2>1 DEF Recoveries
  <2>3. recovery' = [recovery EXCEPT ![w] = next]
    BY <1>1 DEF PoolTypeOK
  <2> HIDE DEF next
  <2> QED BY <2>2, <2>3, RecoveryMoves
<1>3. PoolTypeOK'
  <2>1. /\ process' \in [Workers -> {"unborn", "live", "dead"}] /\ pool' \subseteq Workers
        /\ roomIds' \in [Workers -> SUBSET Rooms] /\ routers' \in [Rooms -> Workers \cup {NoWorker}]
        /\ open' \subseteq Rooms /\ unaware' \subseteq open'
    BY <1>1 DEF PoolTypeOK
  <2>2. hosted' \in [Rooms -> [Workers -> Nat]] /\ calls' \in [Rooms -> [Workers -> 0..MaxRouters]]
    BY <1>1, BoundsAreNat DEF PoolTypeOK
  <2> QED BY <1>2, <2>1, <2>2 DEF PoolTypeOK, Recoveries
<1>4. RoutersWork'
  <2> SUFFICES ASSUME NEW r \in Rooms, routers'[r] # NoWorker
               PROVE  process'[routers'[r]] = "live" /\ hosted'[r][routers'[r]] > 0 /\ r \in roomIds'[routers'[r]]
    BY DEF RoutersWork, Live
  <2>1. /\ routers'[r] = routers[r] /\ r \notin roomIds[w] /\ routers[r] \in Workers
        /\ Live(routers[r]) /\ hosted[r][routers[r]] > 0 /\ r \in roomIds[routers[r]]
    BY <1>1 DEF RoutersWork, PoolTypeOK
  <2>2. routers[r] # w
    BY <2>1
  <2>3. hosted'[r][routers[r]] = hosted[r][routers[r]] /\ process'[routers[r]] = process[routers[r]]
        /\ roomIds'[routers[r]] = roomIds[routers[r]]
    BY <1>1, <2>1, <2>2 DEF PoolTypeOK
  <2> QED BY <2>1, <2>3 DEF Live
<1>5. ListsAreReal'
  BY <1>1 DEF ListsAreReal, PoolTypeOK
<1> QED BY <1>2, <1>3, <1>4, <1>5

\* The steps of a recovery.
LEMMA RecoverPreserves ==
    ASSUME PoolIInv, NEW w \in Workers, Recover(w)
    PROVE  PoolIInv'
<1> USE DEF PoolIInv
<1> DEFINE now == recovery[w]
<1>1. /\ now \in Recoveries /\ now.todo \subseteq Rooms /\ now.recovered \subseteq Rooms
      /\ now.making \in Rooms \cup {NoRoom} /\ now.entry \in Workers \cup {NoWorker}
      /\ now.phase = "recreating" => now.entry \in Workers
  BY DEF PoolTypeOK, Recoveries, RecoveriesHaveEntry
<1>2. ASSUME NEW new \in Workers, ReplacementUp(w, new) PROVE PoolIInv'
  <2> DEFINE next == [now EXCEPT !.phase = "recreating", !.entry = new]
  <2>1. /\ process' = [process EXCEPT ![new] = "live"] /\ pool' = pool \cup {new}
        /\ recovery' = [recovery EXCEPT ![w].phase = "recreating", ![w].entry = new]
        /\ UNCHANGED <<roomIds, routers, hosted, open, calls, unaware>>
    BY <1>2 DEF ReplacementUp
  <2>2. next \in Recoveries /\ next.entry = new
    BY <1>1 DEF Recoveries, Phases
  <2>3. recovery' = [recovery EXCEPT ![w] = next]
    BY <2>1 DEF PoolTypeOK
  <2> HIDE DEF next
  <2>4. recovery' \in [Workers -> Recoveries] /\ RecoveriesHaveEntry'
    BY <2>2, <2>3, RecoveryMoves
  <2>5. PoolTypeOK'
    BY <2>1, <2>4 DEF PoolTypeOK, Recoveries
  <2>6. RoutersWork' /\ ListsAreReal'
    BY <2>1 DEF RoutersWork, ListsAreReal, Live, PoolTypeOK
  <2> QED BY <2>4, <2>5, <2>6
<1>3. ASSUME NEW next \in Recoveries, next.entry = now.entry, next.phase = now.phase \/ next.phase = "done",
             recovery' = [recovery EXCEPT ![w] = next], unaware' \subseteq unaware,
             UNCHANGED <<process, pool, roomIds, routers, hosted, open, calls>>
      PROVE  PoolIInv'
  <2>1. recovery' \in [Workers -> Recoveries] /\ RecoveriesHaveEntry'
    BY <1>1, <1>3, RecoveryMoves
  <2>2. PoolTypeOK' /\ RoutersWork' /\ ListsAreReal'
    BY <1>3, <2>1 DEF PoolTypeOK, Recoveries, RoutersWork, ListsAreReal, Live
  <2> QED BY <2>1, <2>2
<1>4. ASSUME NEW r \in Rooms, NextLostRoom(w, r) PROVE PoolIInv'
  <2> DEFINE next == [now EXCEPT !.todo = @ \ {r}, !.making = IF routers[r] = NoWorker THEN r ELSE NoRoom]
  <2>1. next \in Recoveries /\ next.entry = now.entry /\ next.phase = now.phase
    BY <1>1 DEF Recoveries
  <2>2. /\ recovery' = [recovery EXCEPT ![w] = next]
        /\ UNCHANGED <<process, pool, roomIds, routers, hosted, open, calls, unaware>>
    BY <1>4 DEF NextLostRoom, poolVars, PoolTypeOK
  <2> HIDE DEF next
  <2> QED BY <1>3, <2>1, <2>2
<1>5. CASE RouterRecreated(w)
  <2> DEFINE r == now.making
             v == now.entry
             next == [now EXCEPT !.making = NoRoom, !.recovered = @ \cup {r}]
  <2>1. /\ UNCHANGED <<process, pool, open, calls, unaware>> /\ Live(v) /\ Register(r, v)
        /\ now.phase = "recreating" /\ AllAwaiting
        /\ recovery' = [recovery EXCEPT ![w].making = NoRoom, ![w].recovered = @ \cup {r}]
    BY <1>5 DEF RouterRecreated, poolVars
  <2>2. r \in Rooms /\ v \in Workers
    BY <1>1, <2>1 DEF AllAwaiting, MidTurn
  <2>3. next \in Recoveries /\ next.entry = v
    BY <1>1, <2>2 DEF Recoveries
  <2>4. recovery' = [recovery EXCEPT ![w] = next]
    BY <2>1 DEF PoolTypeOK
  <2>5. recovery' \in [Workers -> Recoveries] /\ RecoveriesHaveEntry'
    <3> HIDE DEF next
    <3> QED BY <2>2, <2>3, <2>4, RecoveryMoves
  <2>6. /\ roomIds' \in [Workers -> SUBSET Rooms] /\ routers' \in [Rooms -> Workers \cup {NoWorker}]
        /\ hosted' \in [Rooms -> [Workers -> Nat]] /\ RoutersWork' /\ ListsAreReal'
    BY <2>1, <2>2, RegisterKeeps
  <2> QED BY <2>1, <2>5, <2>6 DEF PoolTypeOK, Recoveries
<1>6. CASE RecreationFails(w)
  <2> DEFINE next == [now EXCEPT !.making = NoRoom]
  <2>1. next \in Recoveries /\ next.entry = now.entry /\ next.phase = now.phase
    BY <1>1 DEF Recoveries
  <2>2. /\ recovery' = [recovery EXCEPT ![w] = next]
        /\ UNCHANGED <<process, pool, roomIds, routers, hosted, open, calls, unaware>>
    BY <1>6 DEF RecreationFails, poolVars, PoolTypeOK
  <2> HIDE DEF next
  <2> QED BY <1>3, <2>1, <2>2
<1>7. CASE AnnounceReset(w)
  <2>1. /\ UNCHANGED <<process, pool, roomIds, routers, hosted, open, calls>> /\ unaware' \subseteq unaware
        /\ recovery' = [recovery EXCEPT ![w] = Idle("done")]
    BY <1>7 DEF AnnounceReset, poolVars
  <2>2. Idle("done") \in Recoveries /\ Idle("done").phase # "recreating"
    BY IdleIsRecovery DEF Phases
  <2>3. recovery' \in [Workers -> Recoveries] /\ RecoveriesHaveEntry'
    BY <2>1, <2>2, RecoveryMoves
  <2> QED BY <2>1, <2>3 DEF PoolTypeOK, Recoveries, RoutersWork, ListsAreReal, Live
<1> QED BY <1>2, <1>4, <1>5, <1>6, <1>7 DEF Recover

LEMMA PoolStepPreserves == PoolIInv /\ [PoolNext]_workerVars => PoolIInv'
<1> SUFFICES ASSUME PoolIInv, [PoolNext]_workerVars PROVE PoolIInv'
  OBVIOUS
<1>1. CASE PoolNext
  BY <1>1, RoomStepsPreserve, DeathPreserves, RecoverPreserves, Zenon DEF PoolNext
<1>2. CASE UNCHANGED workerVars
  BY <1>2 DEF workerVars, PoolIInv, PoolTypeOK, RoutersWork, ListsAreReal, RecoveriesHaveEntry, Live
<1> QED BY <1>1, <1>2

\* Whoever joins is given a router that works, and placement goes by a load
\* that is real, however joins, closings, deaths and recoveries overlap.
THEOREM PoolAlwaysWorks == PoolSpec => []PoolInv
<1>1. PoolIInv => PoolInv
  BY DEF PoolIInv, PoolInv, ListsAreReal, LoadIsReal, PoolTypeOK
<1> QED BY <1>1, PoolInitEstablishes, PoolStepPreserves, PTL DEF PoolSpec
=============================================================================
