------------------------------ MODULE RoomLife ------------------------------
(***************************************************************************)
(* A room from its first visitor to the clean-up: its row and its records  *)
(* (Rooms), its chat (Chat) and the guest who asks to be let in (GuestJoin)*)
(* and chats with the cookie of an approval.                               *)
(***************************************************************************)
EXTENDS Chat, GuestJoin

CONSTANT TheGuest \* the one of the chatters who is not the owner

ASSUME GuestIsChatter == TheGuest \in Chatters

vars == <<roomVars, chatVars, guestVars>>

Init == RoomsInit /\ ChatInit /\ GuestInit

\* handleConnection: a socket is authenticated by the account or the cookie.
Connect(c) ==
    /\ c = TheGuest => inside
    /\ ConnectChat(c)
    /\ UNCHANGED guestVars

\* presence.endRoom ends the sessions of the owner's tabs.
Close(t) ==
    /\ CloseRoom(t)
    /\ NoSession(OwnerTabs)
    /\ UNCHANGED <<requests, guestSide, chatVars>>

Next ==
    \/ RoomsNext /\ UNCHANGED <<chatVars, guestVars>>
    \/ ChatSteps /\ UNCHANGED guestVars
    \/ GuestSteps /\ UNCHANGED chatVars
    \/ \E c \in Chatters : Connect(c)
    \/ \E t \in OwnerTabs : Close(t)

Spec == Init /\ [][Next]_vars
FairSpec == Spec /\ GuestFairness

-----------------------------------------------------------------------------

\* The state of the room, of its chat and of its requests is well formed, and
\* no handler of the chat waits to answer a socket that is gone.
TypeOK ==
    /\ room \in {"active", "ended", "gone"} /\ endedAt \in {"none", "fresh", "old"}
    /\ seated \subseteq OwnerTabs /\ (seated # {} => owned)
    /\ \A t \in OwnerTabs : ending[t].at \in {"idle", "read", "closing"}
    /\ \A o \in ops : o.alive \/ o.kind = "history" => o.by \in online
    /\ served \subseteq inChannel /\ inChannel \subseteq online
    /\ \A c \in Chatters : c \notin online => inbox[c] = <<>>
    /\ \A c \in Chatters : Len(fetch[c].got) < fetch[c].want \/ fetch[c] = NoFetch
    /\ \A r \in Requests : askedOf[r] \in seated \cup {0}
    /\ guest = "waiting" => inside \/ polling # 0
    /\ guest \in {"idle", "waiting", "denied", "error"} /\ polling \in Requests \cup {0}

\* And the chat shows what it owes, and the owner is asked.
RoomLifeInv == TypeOK /\ OwedIsShown /\ PendingIsAsked
=============================================================================
