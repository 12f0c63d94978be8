------------------------------ MODULE GuestJoin ------------------------------
(***************************************************************************)
(* A guest asks to be let in: the requests the server keeps                *)
(* (guest.service.ts, room.controller.ts), the guest's page that asks and  *)
(* polls (use-guest-join-room.ts), and the queue and the dialog of each of *)
(* the owner's tabs (use-guest-join-requests.ts, guest-requests.context,   *)
(* guest-approval-dialog).                                                 *)
(*                                                                         *)
(* The read of the room and the answer to a click are steps of their own;  *)
(* the rest of a handler has no await.  A request may be five minutes old  *)
(* at any time.                                                            *)
(***************************************************************************)
EXTENDS Rooms

CONSTANTS
    MaxAsks, \* bound: requests the guest makes
    MaxPolls \* bound: answers under way to the guest

ASSUME AskBoundsAreNat == {MaxAsks, MaxPolls} \subseteq Nat

Requests == 1 .. MaxAsks

VARIABLES
    asks,       \* each POST: "unmade", "checked", "refused", "made", "over"
    requests,   \* what the server keeps: "none", "pending", "approved", "denied"
    askedOf,    \* ownerSocketId: the tab a request was sent to, 0 without that socket
    queue,      \* pendingRequests of each tab, which are shown side by side
    processing, \* the dialog's one request that is being decided, or 0
    deciding,   \* decisions under way
    guest,      \* "idle", "waiting", "denied" or "error"
    polling,    \* the request the timer polls for, or 0
    polls,      \* answers on their way to the guest
    hidden,     \* the guest's tab is hidden
    inside      \* the guest has the cookie and goes to the room

serverSide == <<requests, askedOf>>
ownerSide == <<queue, processing, deciding>>
guestSide == <<asks, guest, polling, polls, hidden, inside>>
guestVars == <<serverSide, ownerSide, guestSide>>

GuestInit ==
    /\ asks = [r \in Requests |-> "unmade"] /\ requests = [r \in Requests |-> "none"]
    /\ askedOf = [r \in Requests |-> 0]
    /\ queue = [t \in OwnerTabs |-> {}] /\ processing = [t \in OwnerTabs |-> 0] /\ deciding = {}
    /\ guest = "idle" /\ polling = 0 /\ polls = {} /\ hidden = FALSE /\ inside = FALSE

\* A tab has no session any more: its queue starts empty, its dialog is gone.
NoSession(tabs) ==
    /\ queue' = [t \in OwnerTabs |-> IF t \in tabs THEN {} ELSE queue[t]]
    /\ processing' = [t \in OwnerTabs |-> IF t \in tabs THEN 0 ELSE processing[t]]
    /\ askedOf' = [r \in Requests |-> IF askedOf[r] \in tabs THEN 0 ELSE askedOf[r]]
    /\ UNCHANGED deciding

\* The owner opens the room in a tab, or leaves it.
Enter(t) ==
    /\ Act /\ owned /\ room = "active" /\ t \notin seated /\ seated' = seated \cup {t}
    /\ UNCHANGED <<rows, ending, guestVars>>

LeaveRoom(t) ==
    /\ Act /\ t \in seated /\ seated' = seated \ {t}
    /\ NoSession({t})
    /\ UNCHANGED <<rows, ending, requests, guestSide>>

-----------------------------------------------------------------------------
(* The guest asks.                                                         *)

\* join, and guestRequest up to the read of the room.  The button is there
\* while the state is idle, which it is until the answer comes.
Ask(r) ==
    /\ Act /\ guest = "idle" /\ ~inside /\ asks[r] = "unmade"
    /\ \A q \in Requests : q < r => asks[q] # "unmade"
    /\ asks' = [asks EXCEPT ![r] = IF room = "active" THEN "checked" ELSE "refused"]
    /\ UNCHANGED <<rows, ending, seated, serverSide, ownerSide, guest, polling, polls, hidden, inside>>

\* createRequest, for one tab of the owner's.
CreateRequest(r, t) ==
    /\ asks[r] = "checked" /\ t \in seated
    /\ asks' = [asks EXCEPT ![r] = "made"]
    /\ requests' = [requests EXCEPT ![r] = "pending"] /\ askedOf' = [askedOf EXCEPT ![r] = t]
    /\ queue' = [queue EXCEPT ![t] = @ \cup {r}]
    /\ UNCHANGED <<roomVars, processing, deciding, guest, polling, polls, hidden, inside>>

\* The owner is not online.
RefuseRequest(r) ==
    /\ asks[r] = "checked" /\ seated = {}
    /\ asks' = [asks EXCEPT ![r] = "refused"]
    /\ UNCHANGED <<roomVars, serverSide, ownerSide, guest, polling, polls, hidden, inside>>

\* The answer to join: startPolling stops the timer of an earlier request.
AskAnswered(r) ==
    /\ asks[r] \in {"made", "refused"} /\ asks' = [asks EXCEPT ![r] = "over"]
    /\ IF asks[r] = "made" THEN guest' = "waiting" /\ polling' = r
                           ELSE guest' = "error" /\ UNCHANGED polling
    /\ UNCHANGED <<roomVars, serverSide, ownerSide, polls, hidden, inside>>

\* The timer, and guestStatus; a tab that is hidden skips its turn.
Poll ==
    /\ polling # 0 /\ ~hidden /\ Cardinality(polls) < MaxPolls
    /\ polls' = polls \cup {[of |-> polling, says |-> requests[polling]]}
    /\ UNCHANGED <<roomVars, serverSide, ownerSide, asks, guest, polling, hidden, inside>>

\* The request for the status fails.
PollFails ==
    /\ Act /\ polling # 0 /\ ~hidden /\ Cardinality(polls) < MaxPolls
    /\ polls' = polls \cup {[of |-> polling, says |-> "none"]}
    /\ UNCHANGED <<rows, ending, seated, serverSide, ownerSide, asks, guest, polling, hidden, inside>>

\* Variant: an answer for a request that is gone is taken for `not yet'.
KeepsPolling(p) == p.says \in {"pending", "none"}

GoesOn(p) == p.says = "pending"

\* The answer, whichever request it is for.
PollAnswered(p) ==
    /\ p \in polls /\ polls' = polls \ {p}
    /\ IF GoesOn(p) THEN UNCHANGED <<guest, polling, inside>>
       ELSE /\ polling' = 0
            /\ inside' = (inside \/ p.says = "approved")
            /\ guest' = CASE p.says = "approved" -> guest
                          [] p.says = "denied" -> "denied"
                          [] OTHER -> "error"
    /\ UNCHANGED <<roomVars, serverSide, ownerSide, asks, hidden>>

Retry ==
    /\ guest \in {"denied", "error"} /\ guest' = "idle" /\ polling' = 0
    /\ UNCHANGED <<roomVars, serverSide, ownerSide, asks, polls, hidden, inside>>

Hide ==
    /\ Act /\ ~hidden /\ hidden' = TRUE
    /\ UNCHANGED <<rows, ending, seated, serverSide, ownerSide, asks, guest, polling, polls, inside>>

Show ==
    /\ hidden /\ hidden' = FALSE
    /\ UNCHANGED <<roomVars, serverSide, ownerSide, asks, guest, polling, polls, inside>>

-----------------------------------------------------------------------------
(* The owner decides.                                                      *)

\* A click: the two buttons of the request that is being decided are disabled.
Decide(t, r, verdict) ==
    /\ r \in queue[t] /\ processing[t] # r
    /\ processing' = [processing EXCEPT ![t] = r]
    /\ deciding' = deciding \cup {[tab |-> t, of |-> r, verdict |-> verdict]}
    /\ UNCHANGED <<roomVars, serverSide, queue, guestSide>>

\* Variant: the queue is emptied when a request is decided.
RemoveAll(t, r) == {}

RemoveRequest(t, r) == queue[t] \ {r}

\* guestApprove and guestDeny, with approveRequest and denyRequest, and the
\* answer: errors are ignored, the request leaves the queue in any case.
Decided(d) ==
    /\ d \in deciding /\ deciding' = deciding \ {d}
    /\ requests' = IF room # "gone" /\ requests[d.of] # "none"
                   THEN [requests EXCEPT ![d.of] = d.verdict] ELSE requests
    /\ queue' = [queue EXCEPT ![d.tab] = RemoveRequest(d.tab, d.of)]
    /\ processing' = [processing EXCEPT ![d.tab] = 0]
    /\ UNCHANGED <<roomVars, askedOf, guestSide>>

\* cleanup
Expire(r) ==
    /\ requests[r] # "none"
    /\ requests' = [requests EXCEPT ![r] = "none"]
    /\ UNCHANGED <<roomVars, askedOf, ownerSide, guestSide>>

GuestSteps ==
    \/ \E t \in OwnerTabs : Enter(t) \/ LeaveRoom(t)
    \/ \E r \in Requests : Ask(r) \/ RefuseRequest(r) \/ AskAnswered(r) \/ Expire(r)
    \/ \E r \in Requests, t \in OwnerTabs : CreateRequest(r, t)
    \/ \E t \in OwnerTabs, r \in Requests, v \in {"approved", "denied"} : Decide(t, r, v)
    \/ \E d \in deciding : Decided(d)
    \/ \E p \in polls : PollAnswered(p)
    \/ Poll \/ PollFails \/ Retry \/ Hide \/ Show

\* Timers fire and requests are answered; people do as they like.
GuestFairness ==
    /\ WF_guestVars(Poll)
    /\ \A r \in Requests : WF_guestVars(AskAnswered(r)) /\ WF_guestVars(Expire(r))
    /\ \A r \in Requests, s \in {"none", "pending", "approved", "denied"} :
          WF_guestVars(PollAnswered([of |-> r, says |-> s]))

-----------------------------------------------------------------------------
(* Properties.                                                             *)

\* A request that is pending is in the queue of the tab it was sent to for as
\* long as that tab keeps its session, whatever becomes of the other requests
\* in the queue, until the room is gone.
\* (guest.service.ts:50-64, use-guest-join-requests.ts:36-50)
PendingIsAsked ==
    \A r \in Requests :
        requests[r] = "pending" /\ askedOf[r] # 0 /\ room # "gone" => r \in queue[askedOf[r]]

\* A guest who waits with the tab in sight is let in, denied or told of an
\* error: the request is decided or expires, and the timer finds out.
\* (use-guest-join-room.ts:24-50, guest.service.ts:138-146)
GuestIsAnswered == guest = "waiting" ~> (guest # "waiting" \/ inside \/ hidden)

\* Divergence: a decision is final.  The dialog keeps one request as being
\* decided: with a second one the buttons of the first are there again.
DecisionIsFinal ==
    [][\A r \in Requests : requests[r] \in {"approved", "denied"} => requests'[r] \in {requests[r], "none"}]_guestVars

\* Divergence: a guest is told `denied' when all that is asked is denied (a
\* late answer for an earlier request ends the wait for the next).
DenialIsMeant ==
    guest = "denied" => \A r \in Requests : asks[r] = "over" => requests[r] # "pending"

\* Divergence: as long as the owner has a seat, what is pending is in a queue
\* (the queue of a tab that is opened anew starts empty).
SomebodyIsAsked ==
    \A r \in Requests : requests[r] = "pending" /\ seated # {} /\ room # "gone" =>
        \E t \in seated : r \in queue[t]

\* Divergence: whoever waits has a request the server keeps, or is about to be
\* told (two clicks make two requests, and only the second is polled for).
ApprovalIsSeen ==
    \A r \in Requests : requests[r] = "approved" /\ asks[r] = "over" /\ polls = {} =>
        inside \/ polling = r
=============================================================================
