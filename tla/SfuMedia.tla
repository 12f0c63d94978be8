------------------------------ MODULE SfuMedia ------------------------------
(***************************************************************************)
(* The media of one room (apps/server/src/sfu/sfu.service.ts): transports, *)
(* producers, consumers, the screen-share slot and the mute, over the      *)
(* membership of Room Presence and the router of the worker pool.          *)
(*                                                                         *)
(* Every operation looks at the maps, awaits the mediasoup worker and goes *)
(* on with what it had looked up.  So an operation is a begin action, a    *)
(* member of `calls', and an action for the worker's answer.  A MediaPeer  *)
(* is known by its socket and by the number of the join that made it: a    *)
(* call keeps its object, while the map may have another, or none.         *)
(***************************************************************************)
EXTENDS Integers, FiniteSets

CONSTANTS
    Sockets,
    Producers,   \* producer ids; each is used once
    None,
    MaxTurns,    \* bound: joins, and worker deaths that hit the room's router
    MaxCalls     \* bound: operations that await the worker at a time

ASSUME NoneIsNone == None \notin Sockets \cup Producers
ASSUME BoundsAreNat == MaxTurns \in Nat /\ MaxCalls \in Nat

VARIABLES
    joined,      \* sockets with a presence record
    router,      \* "none", "up", or "lost" with its worker
    joins,       \* joins so far: they number the MediaPeers
    deaths,      \* worker deaths so far (bound)
    media,       \* the `media' map: which MediaPeer each socket has, 0 for none
    send, recv,  \* its transports: "none", "open", "closed"
    prod,        \* producers: "listed" in the map of their socket, "stray" when
                 \* open and in nobody's map, "gone" when closed
    slot,        \* `roomScreenShare'
    calls,       \* operations awaiting the worker
    consumers,   \* <<socket, producer>>: the consumers map of each MediaPeer
    heard,       \* listed producers a client was told of since it joined
    paused,      \* producers that are paused
    view,        \* <<client, producer>>: believed paused
    blocked,     \* clients with isScreenShareBlocked
    stranded,    \* history: the slot is held through a MediaPeer that is not
                 \* in the map (any more)
    byHost       \* history: producers a host paused since their last resume

room == <<joined, router, joins, deaths>>
clients == <<heard, view, blocked>>
history == <<stranded, byHost>>
vars == <<room, media, send, recv, prod, slot, calls, consumers, paused,
          clients, history>>

Init ==
    /\ joined = {} /\ router = "none" /\ joins = 0 /\ deaths = 0
    /\ media = [s \in Sockets |-> 0]
    /\ send = [s \in Sockets |-> "none"]
    /\ recv = [s \in Sockets |-> "none"]
    /\ prod = [p \in Producers |-> [state |-> "free", s |-> None, screen |-> FALSE]]
    /\ slot = None
    /\ calls = {} /\ consumers = {} /\ paused = {}
    /\ heard = [s \in Sockets |-> {}]
    /\ view = {} /\ blocked = {} /\ stranded = FALSE /\ byHost = {}

\* The producers in the map of a socket's MediaPeer.
Listed(s) == {p \in Producers : prod[p].state = "listed" /\ prod[p].s = s}

Screens(s) == {p \in Listed(s) : prod[p].screen}

\* What closes with the router: the strays too.
Open == {p \in Producers : prod[p].state \in {"listed", "stray"}}

Others(s) == joined \ {s}

\* What a call keeps across its await.  It may fail once what it asked is
\* gone (`safe'); `todo' is what a mute has still to look at.
Call(op, s, p) ==
    [op |-> op, s |-> s, o |-> media[s], p |-> p, todo |-> {}, safe |-> router = "up"]

MayCall == Cardinality(calls) < MaxCalls

\* Variant: the answer is for whatever the map has now.
ForAnyPeer(c) == TRUE

\* The MediaPeer of a call is the one in the map.
IsCurrent(c) == c.o = media[c.s]

\* The requests to what this socket has, or to the router, may fail now.
UnsafeOf(s) ==
    {IF c.s = s /\ IsCurrent(c) /\ c.op \notin {"send", "recv"} THEN [c EXCEPT !.safe = FALSE] ELSE c : c \in calls}
Unsafe == {[c EXCEPT !.safe = FALSE] : c \in calls}

\* The MediaPeers of some sockets leave the map, and these producers close.
Drop(ss, ps) ==
    /\ media' = [s \in Sockets |-> IF s \in ss THEN 0 ELSE media[s]]
    /\ send' = [s \in Sockets |-> IF s \in ss THEN "none" ELSE send[s]]
    /\ recv' = [s \in Sockets |-> IF s \in ss THEN "none" ELSE recv[s]]
    /\ prod' = [p \in Producers |-> IF p \in ps THEN [prod[p] EXCEPT !.state = "gone"] ELSE prod[p]]

\* What clients know: those of some sockets close everything (closeAll), and
\* of producers that leave the maps nothing is kept, their pauses included:
\* no operation finds them any more.
Forget(ss, ps) ==
    /\ heard' = [s \in Sockets |-> IF s \in ss THEN {} ELSE heard[s] \ ps]
    /\ view' = {v \in view : v[1] \notin ss /\ v[2] \notin ps}
    /\ byHost' = byHost \ ps
    /\ paused' = paused \ ps

-----------------------------------------------------------------------------
(* Joining and leaving.                                                    *)

\* joinRoom after presence has admitted the socket.  A room without a router
\* gets one, also while a recovery is about to make it (then no reset
\* follows), unless no worker answers.  Nothing keeps a member from joining
\* again, as a client does whose ack came after its timeout: a new MediaPeer
\* takes the place of the old one, of which nothing is closed and the slot
\* is not given up.
Join(s) ==
    /\ joins + deaths < MaxTurns
    /\ joined' = joined \cup {s}
    /\ joins' = joins + 1
    /\ media' = [media EXCEPT ![s] = joins + 1]
    /\ send' = [send EXCEPT ![s] = "none"]
    /\ recv' = [recv EXCEPT ![s] = "none"]
    /\ prod' = [p \in Producers |-> IF p \in Listed(s) THEN [prod[p] EXCEPT !.state = "stray"] ELSE prod[p]]
    /\ consumers' = {c \in consumers : c[1] # s}
    /\ stranded' = (stranded \/ slot = s)
    /\ router' \in {router, "up"}
    /\ Forget({}, Listed(s))
    /\ UNCHANGED <<deaths, slot, calls, blocked>>

\* closeRoomMedia, on presence's room-closed notification.
CloseRoomMedia(members) ==
    /\ Drop(members, Open)
    /\ slot' = None /\ stranded' = FALSE
    /\ router' = "none"
    /\ calls' = Unsafe

\* Variant: a detach that only closes what the socket had.
SlotKept(s) == slot

\* A departing socket gives the slot up, with its screen producer or without.
SlotWithout(s) == IF slot = s THEN None ELSE slot

\* detachMedia, of the MediaPeer that is in the map.
DetachMedia(s) ==
    /\ slot' = IF media[s] = 0 THEN slot ELSE SlotWithout(s)
    /\ stranded' = (stranded /\ slot' # None)
    /\ Drop({s}, Listed(s))
    /\ calls' = UnsafeOf(s)
    /\ UNCHANGED router

\* Those who are told that the share of a socket is over: whoever has a
\* MediaPeer, or everybody when it ends without a screen of that socket.
ToldOfStop(s) == {t \in Others(s) : media[t] # 0 \/ Screens(s) = {}}

\* A leave, a kick or a drop: presence runs detachMedia and forgets the
\* socket.  Who holds the slot gives it up with the first of its screens,
\* of which the others lose their consumers.
Detach(s) ==
    /\ s \in joined
    /\ joined' = joined \ {s}
    /\ DetachMedia(s)
    /\ \/ /\ slot # s \/ media[s] = 0
          /\ blocked' = blocked \ {s}
          /\ consumers' = {c \in consumers : c[1] # s}
       \/ /\ slot = s /\ media[s] # 0
          /\ blocked' = blocked \ ({s} \cup ToldOfStop(s))
          /\ \E p \in Screens(s) \cup {None} :
                /\ p = None => Screens(s) = {}
                /\ consumers' = {c \in consumers : c[1] # s /\ c[2] # p}
    /\ Forget({s}, Listed(s))
    /\ UNCHANGED <<deaths, joins>>

\* endRoom, or the end of a room that has emptied: the room closes first,
\* then everybody departs, without media.
EndRoom ==
    /\ joined # {} \/ router # "none"
    /\ joined' = {}
    /\ CloseRoomMedia(joined)
    /\ consumers' = {} /\ blocked' = {}
    /\ Forget(Sockets, Open)
    /\ UNCHANGED <<deaths, joins>>

-----------------------------------------------------------------------------
(* Transports.                                                             *)

\* createSendTransport and createRecvTransport up to the await.
AskTransport(s, dir) ==
    /\ MayCall /\ media[s] # 0 /\ router = "up"
    /\ IF dir = "send" THEN send[s] = "none" ELSE recv[s] = "none"
    /\ ~\E c \in calls : c.op = dir /\ c.s = s /\ c.o = media[s]
    /\ calls' = calls \cup {Call(dir, s, None)}
    /\ UNCHANGED <<room, media, send, recv, prod, slot, consumers, paused, clients, history>>

\* A transport whose router is gone by now comes closed.
Transport(c) == IF c.safe THEN "open" ELSE "closed"

SendTransportCreated(c) ==
    /\ c.op = "send"
    /\ calls' = calls \ {c}
    /\ send' = IF IsCurrent(c) THEN [send EXCEPT ![c.s] = Transport(c)] ELSE send
    /\ UNCHANGED <<room, media, recv, prod, slot, consumers, paused, clients, history>>

\* Variant: nothing is announced on a new receiving transport.
AnnouncedToNobody(s) == {}

\* Everything the others have is announced on a new receiving transport.
AnnouncedTo(s) == UNION {Listed(t) : t \in Others(s)}

\* The client hears of each: with its pause state, and that it may not share
\* if one is a screen.
RecvTransportCreated(c) ==
    LET ps == AnnouncedTo(c.s) IN
    /\ c.op = "recv"
    /\ calls' = calls \ {c}
    /\ recv' = IF IsCurrent(c) THEN [recv EXCEPT ![c.s] = Transport(c)] ELSE recv
    /\ heard' = [heard EXCEPT ![c.s] = @ \cup ps]
    /\ view' = {v \in view : v[1] # c.s \/ v[2] \notin ps} \cup ({c.s} \X (ps \cap paused))
    /\ blocked' = IF \E p \in ps : prod[p].screen THEN blocked \cup {c.s} ELSE blocked
    /\ UNCHANGED <<room, media, send, prod, slot, consumers, paused, history>>

\* A call whose router, transport or producer is gone may be rejected: it is
\* logged, or the caller is told.
Rejected(c) ==
    /\ ~c.safe \/ (c.op \in {"consume", "pause", "resume"} /\ prod[c.p].state = "gone")
    /\ calls' = calls \ {c}
    /\ prod' = IF c.op = "produce" THEN [prod EXCEPT ![c.p].state = "gone"] ELSE prod
    /\ UNCHANGED <<room, media, send, recv, slot, consumers, paused, clients, history>>

-----------------------------------------------------------------------------
(* Producers and consumers.                                                *)

SlotFreeFor(s) == slot \in {None, s}

\* createProducer up to the await.
AskProduce(s, p, screen) ==
    /\ MayCall /\ send[s] # "none"
    /\ prod[p].state = "free"
    /\ screen => SlotFreeFor(s)
    /\ prod' = [prod EXCEPT ![p] = [state |-> "asked", s |-> s, screen |-> screen]]
    /\ calls' = calls \cup {[Call("produce", s, p) EXCEPT !.safe = (send[s] = "open")]}
    /\ UNCHANGED <<room, media, send, recv, slot, consumers, paused, clients, history>>

\* Those who can consume at once are told of a new producer.
Notified(s) == {t \in Others(s) : recv[t] # "none"}

ToldOfShare(s) == Others(s)

\* The rest of createProducer.  The MediaPeer may have left the map: its
\* producer is then in nobody's map, where no consume finds it, but the slot
\* is taken all the same.
Produced(c) ==
    LET current == IsCurrent(c)
        screen == prod[c.p].screen
        told == IF current THEN Notified(c.s) ELSE {} IN
    /\ c.op = "produce"
    /\ calls' = calls \ {c}
    /\ prod' = [prod EXCEPT ![c.p].state = IF current THEN "listed" ELSE IF c.safe THEN "stray" ELSE "gone"]
    /\ slot' = IF screen THEN c.s ELSE slot
    /\ stranded' = IF screen THEN ~current ELSE stranded
    /\ heard' = [t \in Sockets |-> IF t \in told THEN heard[t] \cup {c.p} ELSE heard[t]]
    /\ blocked' = IF screen THEN blocked \cup ToldOfShare(c.s) ELSE blocked
    /\ UNCHANGED <<room, media, send, recv, consumers, paused, view, byHost>>

\* closeProducer.  A screen frees the slot its socket holds, closes the
\* consumers of the others and lets them share again.
CloseProducer(s, p) ==
    /\ p \in Listed(s)
    /\ prod' = [prod EXCEPT ![p].state = "gone"]
    /\ IF prod[p].screen /\ slot = s
       THEN /\ slot' = SlotWithout(s) /\ stranded' = (stranded /\ slot' # None)
            /\ blocked' = blocked \ ToldOfStop(s)
            /\ consumers' = {c \in consumers : c[2] # p}
       ELSE UNCHANGED <<slot, stranded, blocked, consumers>>
    /\ Forget({}, {p})
    /\ UNCHANGED <<room, media, send, recv, calls>>

\* createConsumer up to the await: the producer is in somebody's map.
AskConsume(s, p) ==
    /\ MayCall /\ recv[s] # "none" /\ router = "up"
    /\ p \in heard[s] /\ prod[p].state = "listed"
    /\ <<s, p>> \notin consumers
    /\ ~\E c \in calls : c.op = "consume" /\ c.s = s /\ c.o = media[s] /\ c.p = p
    /\ calls' = calls \cup {[Call("consume", s, p) EXCEPT !.safe = (recv[s] = "open")]}
    /\ UNCHANGED <<room, media, send, recv, prod, slot, consumers, paused, clients, history>>

Consumed(c) ==
    /\ c.op = "consume"
    /\ calls' = calls \ {c}
    /\ consumers' = IF IsCurrent(c) THEN consumers \cup {<<c.s, c.p>>} ELSE consumers
    /\ UNCHANGED <<room, media, send, recv, prod, slot, paused, clients, history>>

-----------------------------------------------------------------------------
(* Pausing.                                                                *)

\* pauseProducer and resumeProducer up to the await; one request at a time
\* for a producer.
AskPause(s, p, op) ==
    /\ MayCall /\ p \in Listed(s)
    /\ ~\E c \in calls : c.op \in {"pause", "resume"} /\ c.p = p
    /\ calls' = calls \cup {Call(op, s, p)}
    /\ UNCHANGED <<room, media, send, recv, prod, slot, consumers, paused, clients, history>>

\* Everybody else in the room is told of a producer's state.
ToldOfState(s, p) == Others(s)

PauseSet(c) ==
    LET seen == ToldOfState(c.s, c.p) \X {c.p} IN
    /\ c.op \in {"pause", "resume"}
    /\ calls' = calls \ {c}
    /\ paused' = IF c.op = "pause" THEN paused \cup {c.p} ELSE paused \ {c.p}
    /\ byHost' = byHost \ {c.p}
    /\ view' = IF c.op = "pause" THEN view \cup seen ELSE view \ seen
    /\ UNCHANGED <<room, media, send, recv, prod, slot, consumers, heard, blocked, stranded>>

\* muteRoomPeer goes on to a producer that is not paused and asks the worker
\* to pause it, or is done and announces the mute.
MuteOn(c, todo, now) ==
    IF todo \subseteq now THEN {{}}
    ELSE {{[c EXCEPT !.p = p, !.todo = todo \ {p}]} : p \in todo \ now}

\* mutePeer, and muteAll for each of the others: another member asks.
AskMute(s) ==
    /\ MayCall /\ Others(s) # {} /\ ~(Listed(s) \subseteq paused)
    /\ ~\E c \in calls : c.op = "mute" /\ c.s = s
    /\ \E cs \in MuteOn(Call("mute", s, None), Listed(s), paused) : calls' = calls \cup cs
    /\ UNCHANGED <<room, media, send, recv, prod, slot, consumers, paused, clients, history>>

\* The producer is paused; the others are not told of that, only of the mute
\* as a whole.
Muted(c) ==
    /\ c.op = "mute" /\ prod[c.p].state # "gone"
    /\ paused' = paused \cup {c.p}
    /\ byHost' = byHost \cup {c.p}
    /\ \E cs \in MuteOn(c, c.todo, paused \cup {c.p}) : calls' = (calls \ {c}) \cup cs
    /\ UNCHANGED <<room, media, send, recv, prod, slot, consumers, clients, stranded>>

\* A producer that was closed meanwhile fails the whole request (or is passed
\* over, had it been paused): those left are not paused and the mute is not
\* announced.
MuteFailed(c) ==
    /\ c.op = "mute" /\ prod[c.p].state = "gone"
    /\ calls' = calls \ {c}
    /\ UNCHANGED <<room, media, send, recv, prod, slot, consumers, paused, clients, history>>

-----------------------------------------------------------------------------
(* The router is lost with its worker, and made again.                     *)

RouterDies ==
    /\ router = "up" /\ joins + deaths < MaxTurns
    /\ router' = "lost"
    /\ deaths' = deaths + 1
    /\ send' = [s \in Sockets |-> IF send[s] = "open" THEN "closed" ELSE send[s]]
    /\ recv' = [s \in Sockets |-> IF recv[s] = "open" THEN "closed" ELSE recv[s]]
    /\ calls' = Unsafe
    /\ UNCHANGED <<joined, joins, media, prod, slot, consumers, paused, clients, history>>

\* handleRoutersLost: the media of the members is dropped, and each is told
\* to rebuild: its client closes everything and asks for transports again,
\* in vain, since it has no MediaPeer any more.
MediaReset ==
    /\ router = "lost"
    /\ router' = "up"
    /\ Drop(joined, Open)
    /\ slot' = None /\ stranded' = FALSE
    /\ consumers' = {} /\ blocked' = {}
    /\ Forget(Sockets, Open)
    /\ UNCHANGED <<joined, deaths, joins, calls>>

-----------------------------------------------------------------------------

Operation(s) ==
    \/ Join(s) \/ Detach(s) \/ AskMute(s)
    \/ \E dir \in {"send", "recv"} : AskTransport(s, dir)
    \/ \E p \in Producers :
          \/ \E screen \in BOOLEAN : AskProduce(s, p, screen)
          \/ CloseProducer(s, p) \/ AskConsume(s, p)
          \/ \E op \in {"pause", "resume"} : AskPause(s, p, op)

Answer(c) ==
    \/ SendTransportCreated(c) \/ RecvTransportCreated(c) \/ Produced(c) \/ Consumed(c)
    \/ PauseSet(c) \/ Muted(c) \/ MuteFailed(c) \/ Rejected(c)

Next ==
    \/ \E s \in Sockets : Operation(s)
    \/ \E c \in calls : Answer(c)
    \/ EndRoom \/ RouterDies \/ MediaReset

Spec == Init /\ [][Next]_vars

-----------------------------------------------------------------------------
(* Properties.                                                             *)

CallType ==
    [op : {"send", "recv", "produce", "consume", "pause", "resume", "mute"},
     s : Sockets, o : 0 .. MaxTurns, p : Producers \cup {None},
     todo : SUBSET Producers, safe : BOOLEAN]

\* Every map keeps its type, and the media plane never outlives presence: a
\* MediaPeer belongs to a member and is the one its last join made, and only
\* a MediaPeer has transports, producers and consumers (detachMedia,
\* closeRoomMedia and handleRoutersLost each take all of it away).
TypeOK ==
    /\ joined \subseteq Sockets /\ router \in {"none", "up", "lost"}
    /\ joins \in Nat /\ deaths \in Nat /\ joins + deaths <= MaxTurns
    /\ media \in [Sockets -> 0 .. joins] /\ \A s \in Sockets : media[s] # 0 => s \in joined
    /\ \A s \in Sockets : media[s] = 0 =>
          send[s] = "none" /\ recv[s] = "none" /\ Listed(s) = {} /\ ~\E c \in consumers : c[1] = s
    /\ send \in [Sockets -> {"none", "open", "closed"}]
    /\ recv \in [Sockets -> {"none", "open", "closed"}]
    /\ prod \in [Producers -> [state : {"free", "asked", "listed", "stray", "gone"},
                               s : Sockets \cup {None}, screen : BOOLEAN]]
    /\ slot \in Sockets \cup {None} /\ calls \subseteq CallType
    /\ consumers \subseteq Sockets \X Producers /\ view \subseteq Sockets \X Producers
    /\ heard \in [Sockets -> SUBSET Producers]
    /\ paused \subseteq Producers /\ byHost \subseteq paused
    /\ blocked \subseteq Sockets /\ stranded \in BOOLEAN

\* A member with a receiving transport knows of every producer of every
\* other member, and knows whether it is paused (but for a host's pause,
\* which is told as a mute): createProducer passes over those who have no
\* receiving transport, createRecvTransport announces what there is, and
\* between the two nothing is lost whatever awaits.
EveryoneHears ==
    \A t \in joined : recv[t] # "none" =>
        \A s \in Others(t) : \A p \in Listed(s) :
            p \in heard[t] /\ (p \notin byHost => (<<t, p>> \in view) = (p \in paused))

\* The slot is never left behind: whoever holds it is in the room and shares
\* (closeProducerForPeer, detachMedia, closeRoomMedia and the reset all free
\* it); and everybody else who receives has been told.  Exempt is a slot that
\* is held through a MediaPeer which is not in the map: because a produce was
\* answered after its socket had left or joined again, or because the holder
\* joined again (see SharerShares).
SlotIsHonest ==
    slot # None /\ ~stranded =>
        /\ Screens(slot) # {}
        /\ \A t \in Others(slot) : recv[t] # "none" => t \in blocked

MediaInv == TypeOK /\ SlotIsHonest

-----------------------------------------------------------------------------
(* What documents and comments promise and the code does not do.           *)

\* createProducer looks at the slot before its await and takes it after.
OneSharer == \A s, t \in Sockets : Screens(s) # {} /\ Screens(t) # {} => s = t

\* A produce that is answered after its socket has left takes the slot for
\* nobody, and a holder that joins again has it without a screen: then nobody
\* else can share, until the holder leaves or the room ends.
SharerShares == slot # None => Screens(slot) # {}

\* detachMedia closes what the MediaPeer in the map has, not what the socket
\* produced before it joined again.
NoStrays == \A p \in Producers : prod[p].state = "stray" => prod[p].s \in joined

\* Who is told not to share can share again once nobody does.
BlockedWhileShared == (\A s \in Sockets : Screens(s) = {}) /\ calls = {} => blocked = {}

\* handleRoutersLost removes the MediaPeers that the rebuild of the clients
\* needs: createSendTransport and createRecvTransport find none.
MembersHaveMedia == \A s \in joined : media[s] # 0

\* A screen that has stopped is consumed by nobody: not so when a consume was
\* under way at the stop, or when its sharer left with a second screen.
NoFrozenScreen ==
    \A c \in consumers : prod[c[2]].screen /\ slot = None => prod[c[2]].state = "listed"

=============================================================================
