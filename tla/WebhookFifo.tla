---------------------------- MODULE WebhookFifo ----------------------------
(***************************************************************************)
(* What the webhook queue promises its projects (webhooks/webhook-queue.ts,*)
(* class comment): a FIFO per project.  Only the event at the head may     *)
(* reach the endpoint, once or several times; it leaves the queue for good *)
(* when its delivery is over, however it went; queues are independent.     *)
(***************************************************************************)
EXTENDS Sequences

CONSTANTS Projects, Events, ProjectOf

VARIABLES
    queue,      \* events accepted and not over, by project, in order
    over,       \* events whose delivery is over
    reached     \* events an endpoint has received at least once

fifoVars == <<queue, over, reached>>

Init ==
    /\ queue = [p \in Projects |-> <<>>]
    /\ over = {}
    /\ reached = {}

Waiting(p) == {queue[p][i] : i \in DOMAIN queue[p]}

\* An event joins its project's queue at the tail.
Accept(e) ==
    LET p == ProjectOf[e] IN
    /\ p \in Projects
    /\ e \notin over \cup Waiting(p)
    /\ queue' = [queue EXCEPT ![p] = Append(@, e)]
    /\ UNCHANGED <<over, reached>>

\* The head reaches the endpoint.
Arrive(p) ==
    /\ queue[p] # <<>>
    /\ reached' = reached \cup {Head(queue[p])}
    /\ UNCHANGED <<queue, over>>

\* The delivery of the head is over; it may have arrived with this attempt.
Conclude(p) ==
    /\ queue[p] # <<>>
    /\ queue' = [queue EXCEPT ![p] = Tail(@)]
    /\ over' = over \cup {Head(queue[p])}
    /\ reached' \in {reached, reached \cup {Head(queue[p])}}

Next ==
    \/ \E e \in Events : Accept(e)
    \/ \E p \in Projects : Arrive(p) \/ Conclude(p)

Spec == Init /\ [][Next]_fifoVars

=============================================================================
