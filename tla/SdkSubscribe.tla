---------------------------- MODULE SdkSubscribe ----------------------------
(***************************************************************************)
(* What one participant sees and hears of the others:                      *)
(* packages/client/src/sfu/subscribe.ts, participant-registry.ts, the      *)
(* receiving side of manager.ts, and the tracker of the React hooks        *)
(* (room-tracker.ts).  The server is there as far as this viewer meets it  *)
(* (SfuMedia and RoomPresence have the whole of it).                       *)
(*                                                                         *)
(* Events reach the viewer in the order the server emitted them, requests  *)
(* are served in order, and a drop loses both; the consume() of mediasoup  *)
(* takes time.  The viewer has joined once and recovers from every drop.   *)
(***************************************************************************)
EXTENDS Naturals, Sequences, SequencesExt, FiniteSets

CONSTANTS
    Users,      \* the others
    Producers,  \* producers they may make, each once
    Owner,      \* Owner[p]: the user of p
    Screens,    \* the producers that share a screen
    Nobody,     \* the user of a track whose producer no participant announced
    MaxDrops,   \* bound: drops of the viewer
    MaxResets,  \* bound: media resets of the room
    MaxWire     \* bound: events the others cause while so many are under way

ASSUME OwnersAreUsers == Owner \in [Producers -> Users] /\ Screens \subseteq Producers /\ Nobody \notin Users
ASSUME BoundsAreNat == {MaxDrops, MaxResets, MaxWire} \subseteq Nat

VARIABLES
    seat,       \* server: seat[u] is "out", "in" or "held"
    peersWithMedia, \* server: the users with an entry in the `media' map
    prods,      \* server: the producers there are
    past,       \* server: producers made so far
    acked,      \* server: the viewer is in the room
    entry,      \* server: the viewer has an entry in the `media' map
    srecv,      \* server: the viewer has a receiving transport
    sconsumers, \* server: the viewer's consumers, [prod, n]
    made,       \* server: consumers made so far
    wire,       \* events on the way to the viewer
    reqs,       \* requests on the way to the server
    device,     \* "none", "loading", "loaded"
    loads,      \* loadDevice() calls under way
    recv,       \* the manager has a receiving transport
    blocked,    \* isScreenShareBlocked
    peers,      \* the registry: users with a record
    attached,   \* the registry: producers attached to a record
    detached,   \* the registry: users with mediaConnected false
    pending,    \* pendingNewProducers
    creating,   \* consumers whose consume() is awaited
    consumers,  \* the consumers of the unit
    shown,      \* the tracker: participants
    offline,    \* the tracker: participants with isConnected false
    drops, resets

room == <<seat, peersWithMedia, prods, past>>
ours == <<acked, entry, srecv, sconsumers, made>>
server == <<room, ours>>
net == <<wire, reqs>>
media == <<device, loads, recv, blocked>>
registry == <<peers, attached, detached>>
unit == <<pending, creating, consumers>>
tracker == <<shown, offline>>
bounds == <<drops, resets>>
client == <<media, registry, unit, tracker>>
vars == <<server, net, client, bounds>>

-----------------------------------------------------------------------------
(* What is said.                                                           *)

Signal(ev) == [ev |-> ev]
About(ev, u) == [ev |-> ev, user |-> u]
Announcement(p) == [ev |-> "new-producer", prod |-> p]
OfConsumer(ev, c) == [ev |-> ev, cons |-> c]

\* What the server tells of one participant.
Tidings == {"peer-joined", "peer-left", "peer-media-detached",
            "producer-state-changed", "screen-share-started", "screen-share-stopped"}

Events ==
    {Signal(ev) : ev \in {"joined-room", "transport-created", "room-media-reset"}}
    \cup {About(ev, u) : ev \in Tidings, u \in Users}
    \cup {[ev |-> "existing-peers", users |-> us] : us \in SUBSET Users}
    \cup {Announcement(p) : p \in Producers}
    \cup {OfConsumer(ev, [prod |-> p, n |-> n]) :
              ev \in {"consumer-created", "consumer-closed"}, p \in Producers, n \in 1 .. made}

Consumption(p) == [ev |-> "consume", prod |-> p]
Requests == {Signal("create-recv-transport")} \cup {Consumption(p) : p \in Producers}

-----------------------------------------------------------------------------
(* The parts of the viewer's manager and tracker at their beginnings.      *)

EmptyRegistry == peers = {} /\ attached = {} /\ detached = {}
EmptyUnit == pending = <<>> /\ creating = {} /\ consumers = {}
EmptyRoomState == shown = {} /\ offline = {}

\* The viewer has just been accepted.
Init ==
    /\ seat = [u \in Users |-> "out"] /\ peersWithMedia = {} /\ prods = {} /\ past = {}
    /\ acked = TRUE /\ entry = TRUE /\ srecv = FALSE /\ sconsumers = {} /\ made = 0
    /\ wire = <<Signal("joined-room")>> /\ reqs = <<>>
    /\ device = "none" /\ loads = 0 /\ recv = FALSE /\ blocked = FALSE
    /\ EmptyRegistry /\ EmptyUnit /\ EmptyRoomState
    /\ drops = 0 /\ resets = 0

-----------------------------------------------------------------------------
(* The others, on the server.                                              *)

\* Room for what the others cause, and whether the viewer hears of it.
Calm == Len(wire) < MaxWire
Tell(events) == wire' = IF acked THEN wire \o events ELSE wire

ClosedOf(ps) == {c \in sconsumers : c.prod \in ps}
ProducersOf(u) == {p \in prods : Owner[p] = u}

\* The viewer's consumer of a screen that ends, the first there is.
OldestOf(ps) == {c \in ClosedOf(ps) : \A d \in ClosedOf(ps) : c.n <= d.n}

\* What the viewer is told when the producers ps end: of a screen, and there
\* is one at most, that its consumer is closed and that the share has
\* stopped; of a camera or a microphone, nothing.
Ending(ps) ==
    LET screens == ps \cap Screens IN
    IF screens # {} /\ entry
    THEN SetToSeq({OfConsumer("consumer-closed", c) : c \in OldestOf(screens)})
            \o <<About("screen-share-stopped", Owner[CHOOSE p \in screens : TRUE])>>
    ELSE <<>>

\* The producers ps end, and the consumers of them.
EndProducers(ps) == prods' = prods \ ps /\ sconsumers' = sconsumers \ ClosedOf(ps)

\* Who has an entry is announced as detached before its producers end.
DetachMedia(u, then) ==
    /\ EndProducers(ProducersOf(u))
    /\ peersWithMedia' = peersWithMedia \ {u}
    /\ Tell((IF u \in peersWithMedia THEN <<About("peer-media-detached", u)>> ELSE <<>>)
                \o Ending(ProducersOf(u)) \o then)

PeerJoins(u) ==
    /\ Calm /\ seat[u] = "out"
    /\ seat' = [seat EXCEPT ![u] = "in"] /\ peersWithMedia' = peersWithMedia \cup {u}
    /\ Tell(<<About("peer-joined", u)>>)
    /\ UNCHANGED <<prods, past, ours, reqs, client, bounds>>

\* A rejoin in the grace window is silent.
PeerRestores(u) ==
    /\ Calm /\ seat[u] = "held"
    /\ seat' = [seat EXCEPT ![u] = "in"] /\ peersWithMedia' = peersWithMedia \cup {u}
    /\ UNCHANGED <<prods, past, ours, net, client, bounds>>

PeerDrops(u) ==
    /\ Calm /\ seat[u] = "in"
    /\ seat' = [seat EXCEPT ![u] = "held"]
    /\ DetachMedia(u, <<>>)
    /\ UNCHANGED <<past, acked, entry, srecv, made, reqs, client, bounds>>

\* A departure, of a held seat too, which has no media.
PeerLeaves(u) ==
    /\ Calm /\ seat[u] # "out"
    /\ seat' = [seat EXCEPT ![u] = "out"]
    /\ DetachMedia(u, <<About("peer-left", u)>>)
    /\ UNCHANGED <<past, acked, entry, srecv, made, reqs, client, bounds>>

\* A screen takes the slot and is told to everybody in the room, a producer
\* to those who can receive.
PeerProduces(p) ==
    /\ Calm /\ Owner[p] \in peersWithMedia /\ p \notin past
    /\ p \in Screens => prods \cap Screens = {}
    /\ prods' = prods \cup {p} /\ past' = past \cup {p}
    /\ Tell((IF p \in Screens THEN <<About("screen-share-started", Owner[p])>> ELSE <<>>)
                \o (IF srecv THEN <<Announcement(p)>> ELSE <<>>))
    /\ UNCHANGED <<seat, peersWithMedia, ours, reqs, client, bounds>>

PeerCloses(p) ==
    /\ Calm /\ p \in prods
    /\ EndProducers({p}) /\ Tell(Ending({p}))
    /\ UNCHANGED <<seat, peersWithMedia, past, acked, entry, srecv, made, reqs, client, bounds>>

\* Pausing and resuming tell the room of the state.
PeerPauses(p) ==
    /\ Calm /\ p \in prods /\ acked
    /\ Tell(<<About("producer-state-changed", Owner[p])>>)
    /\ UNCHANGED <<server, reqs, client, bounds>>

\* A worker dies: everybody's entry is removed, with all it holds.  What is
\* asked for on the old transports is answered by nothing.
RoomReset ==
    /\ resets < MaxResets /\ resets' = resets + 1
    /\ prods' = {} /\ peersWithMedia' = {}
    /\ sconsumers' = {} /\ srecv' = FALSE /\ entry' = FALSE /\ reqs' = <<>>
    /\ Tell(<<Signal("room-media-reset")>>)
    /\ UNCHANGED <<seat, past, acked, made, client, drops>>

-----------------------------------------------------------------------------
(* The server serves the viewer.                                           *)

Serve(what) == reqs # <<>> /\ Head(reqs).ev = what /\ reqs' = Tail(reqs)

\* Variant: nobody announces what is there when the transport is made.
AnnounceNothing == <<>>

AnnounceAll == SetToSeq({Announcement(p) : p \in prods})

\* emitTransportCreated, then the room's producers.
ServeTransport ==
    /\ Serve("create-recv-transport")
    /\ srecv' = entry
    /\ wire' = IF entry THEN Append(wire, Signal("transport-created")) \o AnnounceAll ELSE wire
    /\ UNCHANGED <<room, acked, entry, sconsumers, made, client, bounds>>

\* A producer that has gone meanwhile cannot be consumed.
ServeConsume ==
    LET p == Head(reqs).prod
        c == [prod |-> p, n |-> made + 1] IN
    /\ Serve("consume")
    /\ IF srecv /\ p \in prods
       THEN /\ sconsumers' = sconsumers \cup {c} /\ made' = made + 1
            /\ wire' = Append(wire, OfConsumer("consumer-created", c))
       ELSE UNCHANGED <<sconsumers, made, wire>>
    /\ UNCHANGED <<room, acked, entry, srecv, client, bounds>>

-----------------------------------------------------------------------------
(* The viewer's connection and device.                                     *)

ClearRegistry == peers' = {} /\ attached' = {} /\ detached' = {}

\* closeAll and clearPendingProducers of the subscribe unit: a consume()
\* under way fails with its transport.
ResetUnit == pending' = <<>> /\ creating' = {} /\ consumers' = {}

\* closeAll and resetMediaState of the manager, for the receiving side.
CloseAll == ClearRegistry /\ ResetUnit /\ recv' = FALSE /\ blocked' = FALSE

\* handleDisconnected.  The tracker is not told.
Drop ==
    /\ acked /\ drops < MaxDrops /\ drops' = drops + 1
    /\ acked' = FALSE /\ entry' = FALSE /\ srecv' = FALSE /\ sconsumers' = {}
    /\ wire' = <<>> /\ reqs' = <<>>
    /\ CloseAll /\ device' = "none"
    /\ UNCHANGED <<room, made, loads, tracker, resets>>

\* The rejoin: who is in the room by then, and the acceptance.
Rejoin ==
    LET others == {u \in Users : seat[u] = "in"} IN
    /\ ~acked /\ acked' = TRUE /\ entry' = TRUE
    /\ wire' = (IF others = {} THEN <<>> ELSE <<[ev |-> "existing-peers", users |-> others]>>)
                  \o <<Signal("joined-room")>>
    /\ UNCHANGED <<room, srecv, sconsumers, made, reqs, client, bounds>>

\* loadDevice up to its await.
LoadDevice == device' = "loading" /\ loads' = loads + 1

\* It goes on, with createTransports: of several the last loads the device
\* that counts.
DeviceLoaded ==
    /\ loads > 0 /\ loads' = loads - 1
    /\ device' = IF loads = 1 /\ device = "loading" THEN "loaded" ELSE device
    /\ reqs' = IF acked THEN Append(reqs, Signal("create-recv-transport")) ELSE reqs
    /\ UNCHANGED <<server, wire, recv, blocked, registry, unit, tracker, bounds>>

-----------------------------------------------------------------------------
(* The registry of the participants and the tracker.                       *)

\* Variant: only who has a record is touched.
UpdateOnly(users) == UNCHANGED peers /\ detached' = detached \ users

\* upsert: who is there is live again, who is not is created.
Upsert(users) == peers' = peers \cup users /\ detached' = detached \ users

\* attachProducer
Attach(ps) == attached' = attached \cup ps

\* markMediaDetached: of whom this was not known before.
NewlyDetached(u) == {u} \cap (peers \ detached)

\* remove, with the record's producers
RemovePeer(u) ==
    /\ peers' = peers \ {u} /\ detached' = detached \ {u}
    /\ attached' = {p \in attached : Owner[p] # u}

\* findProducer: the participant a track is for.
AnnouncerOf(p) == IF p \in attached THEN Owner[p] ELSE Nobody

\* closeConsumersForPeer
CloseConsumersOf(u) ==
    consumers' = {c \in consumers : ~(c.prod \in attached /\ Owner[c.prod] = u)}

\* RoomTracker.update of connected participants.
Show(users) == shown' = shown \cup users /\ offline' = offline \ users

\* It forgets a participant.
Unshow(u) == shown' = shown \ {u} /\ offline' = offline \ {u}

-----------------------------------------------------------------------------
(* The viewer's handlers: each takes one event off the wire.               *)

On(ev) == wire # <<>> /\ Head(wire).ev = ev /\ wire' = Tail(wire)

\* handlePeerJoined, handleExistingPeers
OnPeers ==
    LET users == IF Head(wire).ev = "existing-peers" THEN Head(wire).users ELSE {Head(wire).user} IN
    /\ On("peer-joined") \/ On("existing-peers")
    /\ Upsert(users) /\ Show(users)
    /\ UNCHANGED <<server, reqs, media, attached, unit, bounds>>

\* handlePeerLeft
OnPeerLeft ==
    LET u == Head(wire).user IN
    /\ On("peer-left")
    /\ RemovePeer(u) /\ CloseConsumersOf(u) /\ Unshow(u)
    /\ UNCHANGED <<server, reqs, media, pending, creating, bounds>>

\* handlePeerMediaDetached; the tracker flags whom it shows.
OnDetached ==
    LET fresh == NewlyDetached(Head(wire).user) IN
    /\ On("peer-media-detached")
    /\ detached' = detached \cup fresh
    /\ offline' = offline \cup (fresh \cap shown)
    /\ UNCHANGED <<server, reqs, media, peers, attached, unit, shown, bounds>>

\* A request is sent only while there is a device and a transport.
CanConsume == recv /\ device # "none"

\* consumeProducer for each of ps, which can be consumed: the participant
\* exists and is live, and the server is asked.
Consume(ps) ==
    LET users == {Owner[p] : p \in Range(ps)} IN
    /\ Upsert(users) /\ Attach(Range(ps))
    /\ reqs' = reqs \o [i \in DOMAIN ps |-> Consumption(ps[i])]
    /\ shown' = shown \cup (users \ peers) /\ offline' = offline \ (users \ peers)

\* flushPendingProducers
Flush == Consume(pending) /\ pending' = <<>>

\* handleNewProducer: another's screen keeps the viewer from sharing.
OnNewProducer ==
    LET p == Head(wire).prod IN
    /\ On("new-producer")
    /\ blocked' = (blocked \/ p \in Screens)
    /\ IF CanConsume
       THEN Consume(<<p>>) /\ UNCHANGED pending
       ELSE pending' = Append(pending, p) /\ UNCHANGED <<reqs, registry, tracker>>
    /\ UNCHANGED <<server, device, loads, recv, creating, consumers, bounds>>

\* handleTransportCreated for the receiving side, with the flush.  A device
\* that is still loading makes no transport.
OnTransport ==
    /\ On("transport-created")
    /\ IF device = "loaded"
       THEN recv' = TRUE /\ Flush
       ELSE UNCHANGED <<recv, reqs, registry, tracker, pending>>
    /\ UNCHANGED <<server, device, loads, blocked, creating, consumers, bounds>>

\* handleConsumerCreated up to its await.
OnConsumerCreated ==
    /\ On("consumer-created")
    /\ creating' = IF CanConsume THEN creating \cup {Head(wire).cons} ELSE creating
    /\ UNCHANGED <<server, reqs, media, registry, pending, consumers, tracker, bounds>>

\* Its rest: the track goes to the participant that announced the producer.
ConsumerReady(c) ==
    /\ c \in creating /\ creating' = creating \ {c}
    /\ consumers' = consumers \cup {c}
    /\ Show({AnnouncerOf(c.prod)})
    /\ UNCHANGED <<server, net, media, registry, pending, bounds>>

\* handleConsumerClosed: one that is not there yet is not closed.
OnConsumerClosed ==
    /\ On("consumer-closed")
    /\ consumers' = consumers \ {Head(wire).cons}
    /\ UNCHANGED <<server, reqs, media, registry, pending, creating, tracker, bounds>>

\* The tracker decorates the participant, and makes one if it has none.
Decorate(u) == shown' = shown \cup {u}

OnStateChanged ==
    /\ On("producer-state-changed") /\ Decorate(Head(wire).user)
    /\ UNCHANGED <<server, reqs, media, registry, unit, offline, bounds>>

\* handleScreenShareStarted
OnShareStarted ==
    /\ On("screen-share-started") /\ blocked' = TRUE
    /\ UNCHANGED <<server, reqs, device, loads, recv, registry, unit, tracker, bounds>>

\* Variant: who is told that a share stopped stays blocked.
StaysBlocked == UNCHANGED blocked

Unblock == blocked' = FALSE

\* handleScreenShareStopped
OnShareStopped ==
    /\ On("screen-share-stopped") /\ Unblock /\ Decorate(Head(wire).user)
    /\ UNCHANGED <<server, reqs, device, loads, recv, registry, unit, offline, bounds>>

\* handleJoined
OnJoined ==
    /\ On("joined-room") /\ LoadDevice
    /\ UNCHANGED <<server, reqs, recv, blocked, registry, unit, tracker, bounds>>

\* handleRoomMediaReset
OnReset ==
    /\ On("room-media-reset") /\ CloseAll /\ LoadDevice
    /\ UNCHANGED <<server, reqs, tracker, bounds>>

-----------------------------------------------------------------------------

Room ==
    \/ \E u \in Users : PeerJoins(u) \/ PeerRestores(u) \/ PeerDrops(u) \/ PeerLeaves(u)
    \/ \E p \in Producers : PeerProduces(p) \/ PeerCloses(p) \/ PeerPauses(p)
    \/ RoomReset

Handle ==
    \/ OnPeers \/ OnPeerLeft \/ OnDetached
    \/ OnNewProducer \/ OnTransport
    \/ OnConsumerCreated \/ OnConsumerClosed
    \/ OnStateChanged \/ OnShareStarted \/ OnShareStopped
    \/ OnJoined \/ OnReset

Next ==
    \/ Room \/ ServeTransport \/ ServeConsume
    \/ Drop \/ Rejoin \/ DeviceLoaded
    \/ Handle \/ \E c \in creating : ConsumerReady(c)

Spec == Init /\ [][Next]_vars

-----------------------------------------------------------------------------
(* Properties.                                                             *)

TypeOK ==
    /\ seat \in [Users -> {"out", "in", "held"}]
    /\ peersWithMedia \subseteq {u \in Users : seat[u] = "in"}
    /\ prods \subseteq past /\ past \subseteq Producers
    /\ {acked, entry, srecv, recv, blocked} \subseteq BOOLEAN /\ {made, loads} \subseteq Nat
    /\ Range(wire) \subseteq Events /\ Range(reqs) \subseteq Requests
    /\ device \in {"none", "loading", "loaded"}
    /\ peers \subseteq Users /\ attached \subseteq Producers /\ detached \subseteq peers
    /\ \A p \in attached : Owner[p] \in peers
    /\ Range(pending) \subseteq Producers
    /\ \A c \in sconsumers \cup creating \cup consumers : c.prod \in past /\ c.n \in 1 .. made
    /\ shown \subseteq Users \cup {Nobody} /\ offline \subseteq shown

\* Nothing is under way.
Quiet == acked /\ wire = <<>> /\ reqs = <<>> /\ loads = 0 /\ creating = {}

\* Every producer is consumed, by name and connected.
AllHeard ==
    /\ \A p \in prods : \E c \in consumers : c.prod = p
    /\ \A c \in consumers : c.prod \in prods => Owner[c.prod] \in shown \ offline

\* Whoever publishes is heard once things are quiet, however its producer,
\* the viewer's transport and drops fell: announcements that come
\* before the transport wait for it ("Replays producers that arrived before
\* the recv transport was ready"), and a new transport has all announced.
\* Whoever is heard is shown, and the viewer is kept from sharing exactly
\* while another shares.  Only a viewer whose media entry went with a dead
\* worker is left out.
EveryoneIsHeard ==
    /\ TypeOK
    /\ Quiet /\ entry => AllHeard /\ (blocked <=> prods \cap Screens # {})

-----------------------------------------------------------------------------
(* What documents and comments promise and the code does not do.           *)

\* "re-create both transports, re-publish the retained tracks, and re-consume
\* producers": not so after a media reset, for the server has removed the
\* entry that createRecvTransport and createSendTransport look for.
ResetRebuilds == Quiet => recv

\* The registry, "the single owner of remote participant state", knows
\* nobody who has left: not so after a reset or a drop
\* that falls into a load of the device, for then an announcement waits that a
\* departure does not take back, and the flush makes the participant anew.
KnowsNoGhost == Quiet => \A u \in peers : seat[u] # "out"

\* Who has left is not shown: not so after a drop of the viewer, which the
\* tracker is not told of, nor after a state that arrives late.
NoGhost == Quiet => \A u \in shown \cap Users : seat[u] # "out"

\* A track always goes to a participant: not so when its producer's user
\* left while the consumer was made.
TrackHasOwner == Nobody \notin shown

\* A consumer whose producer has ended is closed: not so when the closing
\* overtakes the await of consume(), and never for a camera or a microphone,
\* of whose end nobody is told.
NoFrozenTrack == Quiet => consumers \subseteq sconsumers

\* A participant that came back is shown connected: not so if it publishes
\* nothing, for its restore is silent.
RestoredIsConnected == Quiet => \A u \in shown \cap Users : seat[u] = "in" => u \notin offline

\* Who is in the room is known: not so of who held a seat when the viewer
\* came.
EveryoneIsKnown == Quiet => \A u \in Users : seat[u] = "in" => u \in peers

=============================================================================
