------------------------------ MODULE Webhooks ------------------------------
(***************************************************************************)
(* Webhook emission and delivery (apps/server/src/webhooks/): the          *)
(* dispatcher, which looks an event's room up before it enqueues it, and   *)
(* the queue, which chains the deliveries of a project on a promise.       *)
(*                                                                         *)
(* Events are numbered in the order in which the signalling code emits     *)
(* them.  A delivery is a job of its project's chain: it waits for the job *)
(* that was the chain's tail when it was enqueued, then alternates reads   *)
(* of the webhook configuration, POST attempts and backoff delays.  Body,  *)
(* signature and clock are left out: no property depends on them.          *)
(***************************************************************************)
EXTENDS Integers, FiniteSets

CONSTANTS
    Projects,       \* projects with rooms of their own
    NumEvents,      \* bound: events emitted in a behaviour
    ProjectOf,      \* the project that owns each event's room (an event of a
                    \* user-owned room behaves as one of a silent project)
    MaxAttempts,    \* 1 + Len(WEBHOOK_RETRY_DELAYS_MS)
    NoJob,          \* no entry in `tails', no predecessor
    Responsive      \* projects whose reads and endpoint answer in time

Events == 1..NumEvents

ASSUME EventsAreFinitelyMany == NumEvents \in Nat
ASSUME OwnerOfEvent == ProjectOf \in [Events -> Projects]
ASSUME SomeAttempt == MaxAttempts \in Nat \ {0}
ASSUME NoJobIsNone == NoJob \notin Events
ASSUME ResponsiveProjects == Responsive \subseteq Projects

VARIABLES
    configured,     \* projects with a webhook URL and secret in their row
    status,         \* where each event is
    ticket,         \* order of the calls of enqueueDelivery, 0 before it
    issued,         \* the last ticket
    after,          \* `previous' of each job: the tail it was chained to
    tail,           \* `tails': the last job of each project's chain
    tries,          \* attempts made for each job
    reached         \* events the endpoint has received at least once

vars == <<configured, status, ticket, issued, after, tail, tries, reached>>

chainVars == <<ticket, issued, after>>

Statuses == {"unborn", "looking", "silent",           \* before the queue
             "queued", "posting", "backoff",          \* in the chain
             "delivered", "discarded"}                  \* over

InChain == {"queued", "posting", "backoff"}

\* A discarded delivery was dropped, abandoned or lost to a failed read.
Over == {"delivered", "discarded"}

Enqueued(e) == ticket[e] > 0

Settled(e) == status[e] \in Over

\* Variant: a job runs as soon as its predecessor's POST is not in flight.
TurnBetweenAttempts(e) == after[e] # NoJob => status[after[e]] # "posting"

\* Variant: a delivery that was dropped keeps the next one waiting.
TurnAfterSuccess(e) == after[e] # NoJob => status[after[e]] = "delivered"

\* `previous.then': the job's predecessor has run to its end, retries included.
Turn(e) == after[e] # NoJob => Settled(after[e])

\* A job that ends removes its entry of `tails' unless a later one has
\* replaced it.
TailWithout(e) ==
    IF tail[ProjectOf[e]] = e THEN [tail EXCEPT ![ProjectOf[e]] = NoJob] ELSE tail

Init ==
    /\ configured \in SUBSET Projects
    /\ status = [e \in Events |-> "unborn"]
    /\ ticket = [e \in Events |-> 0]
    /\ issued = 0
    /\ after = [e \in Events |-> NoJob]
    /\ tail = [p \in Projects |-> NoJob]
    /\ tries = [e \in Events |-> 0]
    /\ reached = {}

-----------------------------------------------------------------------------
(* The dispatcher.                                                         *)

\* A developer sets or removes the webhook of a project.
Configure(p) ==
    /\ configured' \in {configured \cup {p}, configured \ {p}}
    /\ configured' # configured
    /\ UNCHANGED <<status, chainVars, tail, tries, reached>>

\* emit: fire and forget, the room lookup is under way.
Emit(e) ==
    /\ status[e] = "unborn"
    /\ \A d \in Events : d < e => status[d] # "unborn"
    /\ status' = [status EXCEPT ![e] = "looking"]
    /\ UNCHANGED <<configured, chainVars, tail, tries, reached>>

\* The room is user-owned, has no webhook, or could not be read.
StaySilent(e) ==
    /\ status[e] = "looking"
    /\ status' = [status EXCEPT ![e] = "silent"]
    /\ UNCHANGED <<configured, chainVars, tail, tries, reached>>

\* The room's project has a webhook: enqueueDelivery chains the job behind
\* the project's tail and becomes the tail.
Enqueue(e) ==
    LET p == ProjectOf[e] IN
    /\ status[e] = "looking"
    /\ p \in configured
    /\ status' = [status EXCEPT ![e] = "queued"]
    /\ issued' = issued + 1
    /\ ticket' = [ticket EXCEPT ![e] = issued + 1]
    /\ after' = [after EXCEPT ![e] = tail[p]]
    /\ tail' = [tail EXCEPT ![p] = e]
    /\ UNCHANGED <<configured, tries, reached>>

-----------------------------------------------------------------------------
(* The queue: runWithRetries of one job.                                   *)

\* The job is over: the chain moves on to the next one.
Settle(e, how) ==
    /\ status' = [status EXCEPT ![e] = how]
    /\ tail' = TailWithout(e)

\* An attempt begins once the job's turn has come or its backoff is over.
MayAttempt(e) == status[e] = "backoff" \/ (status[e] = "queued" /\ Turn(e))

\* The configuration is read again and is there: the POST goes out.
StartAttempt(e) ==
    /\ MayAttempt(e)
    /\ ProjectOf[e] \in configured
    /\ status' = [status EXCEPT ![e] = "posting"]
    /\ tries' = [tries EXCEPT ![e] = @ + 1]
    /\ UNCHANGED <<configured, chainVars, tail, reached>>

\* It has been removed: given up for good.
Abandon(e) ==
    /\ MayAttempt(e)
    /\ ProjectOf[e] \notin configured
    /\ Settle(e, "discarded")
    /\ UNCHANGED <<configured, chainVars, tries, reached>>

\* The read throws: the job is rejected and the chain's catch moves on.
ReadFails(e) ==
    /\ MayAttempt(e)
    /\ Settle(e, "discarded")
    /\ UNCHANGED <<configured, chainVars, tries, reached>>

\* A 2xx answer.
PostAccepted(e) ==
    /\ status[e] = "posting"
    /\ Settle(e, "delivered")
    /\ reached' = reached \cup {e}
    /\ UNCHANGED <<configured, chainVars, tries>>

\* Variant: one retry too many.
ExhaustedLate(e) == tries[e] > MaxAttempts

Exhausted(e) == tries[e] >= MaxAttempts

\* A network error, a timeout or another answer; the request may have arrived
\* all the same.  Back off, or drop the delivery when no retry is left.
PostFails(e, arrived) ==
    /\ status[e] = "posting"
    /\ reached' = IF arrived THEN reached \cup {e} ELSE reached
    /\ IF Exhausted(e)
       THEN Settle(e, "discarded")
       ELSE /\ status' = [status EXCEPT ![e] = "backoff"]
            /\ UNCHANGED tail
    /\ UNCHANGED <<configured, chainVars, tries>>

-----------------------------------------------------------------------------

\* The steps of a delivery that is in its project's chain.
Run(e) ==
    \/ StartAttempt(e)
    \/ Abandon(e)
    \/ ReadFails(e)
    \/ PostAccepted(e)
    \/ \E arrived \in BOOLEAN : PostFails(e, arrived)

Next ==
    \/ \E p \in Projects : Configure(p)
    \/ \E e \in Events :
          \/ Emit(e)
          \/ StaySilent(e)
          \/ Enqueue(e)
          \/ Run(e)

\* A read answers, a POST is aborted after attemptTimeoutMs and a backoff
\* delay elapses.  Assumed of Responsive projects only: an endpoint that is
\* slow for one project must not be needed by the others.
Fairness == \A e \in Events : ProjectOf[e] \in Responsive => WF_vars(Run(e))

Spec == Init /\ [][Next]_vars

FairSpec == Spec /\ Fairness

-----------------------------------------------------------------------------

\* Each variable keeps its type, and no job makes more attempts than the
\* retry table allows.
TypeOK ==
    /\ configured \subseteq Projects
    /\ status \in [Events -> Statuses]
    /\ ticket \in [Events -> Nat]
    /\ issued \in Nat
    /\ after \in [Events -> Events \cup {NoJob}]
    /\ tail \in [Projects -> Events \cup {NoJob}]
    /\ tries \in [Events -> 0..MaxAttempts]
    /\ reached \subseteq Events

Precedes(d, e) ==
    /\ ProjectOf[d] = ProjectOf[e]
    /\ Enqueued(d)
    /\ ticket[d] < ticket[e]

\* "Each project's deliveries run strictly in enqueue order (a delivery's
\* retries block the next one)" (webhook-queue.ts): no attempt is made for a
\* job while one enqueued before it is still being retried, however many
\* chains have been started and forgotten in between.
NothingOvertakes ==
    \A d, e \in Events : Precedes(d, e) /\ tries[e] > 0 => Settled(d)

\* `tails' has an entry for a project exactly while its chain has work: the
\* map neither keeps finished chains nor loses a running one.
TailTracksWork ==
    \A p \in Projects :
        tail[p] # NoJob <=> \E e \in Events : ProjectOf[e] = p /\ status[e] \in InChain

\* Every enqueued delivery of a responsive project comes to an end, whatever
\* the endpoint answers and however slow the endpoints of others are.
DeliveriesEnd ==
    \A e \in Events :
        ProjectOf[e] \in Responsive => (status[e] \in InChain ~> Settled(e))

\* The dispatcher's test (webhook-dispatcher.service.spec.ts:316: "keeps
\* per-project emission order across retries (FIFO)"): an event is attempted
\* only after those of its project emitted earlier.
EmissionOrderKept ==
    \A d, e \in Events :
        d < e /\ ProjectOf[d] = ProjectOf[e] /\ tries[e] > 0 => tries[d] > 0
                                                  \/ status[d] \in Over \cup {"silent"}

=============================================================================
