------------------------------- MODULE Roster -------------------------------
(***************************************************************************)
(* What the people panel of a host says of another participant: whether    *)
(* microphone and camera are on, whether a host muted them, and whether    *)
(* the room is locked (room-tracker.ts, participants-panel.ts,             *)
(* host-controls.ts), against what the server does with the producers      *)
(* (pause, resume and mute of sfu.service.ts).                             *)
(*                                                                         *)
(* The participant stays: who comes and goes is SdkSubscribe's.  The host  *)
(* may lose its connection and come back.  The worker answers requests in  *)
(* their order, events reach the host in theirs, and the consume() of      *)
(* mediasoup-client takes time.                                            *)
(***************************************************************************)
EXTENDS Naturals, Sequences, SequencesExt, FiniteSets

CONSTANTS
    Capabilities, \* state.capabilities of the host
    MaxMoves,     \* bound: things people do
    MaxBlips      \* bound: lost connections

ASSUME RosterBoundsAreNat == {MaxMoves, MaxBlips} \subseteq Nat

Kinds == {"audio", "video"}

VARIABLES
    producer,  \* server: the participant's producers, "none", "live", "paused"
    work,      \* requests to the worker: [by, kind, paused]
    muting,    \* server: what muteRoomPeer has still to do
    locked,    \* server: roomLocks
    attending, \* the host is in the room
    news,      \* events on the way to the host
    lockAsks,  \* lock requests on the way to the server
    announced, \* registry: what was announced of each producer
    asked,     \* consumers asked for
    readying,  \* consumers whose consume() is awaited
    tracks,    \* kinds with a track
    row,       \* tracker: the participant's record
    shownLock, \* tracker: locked
    slipped,   \* history: what of the row an event has passed by
    lockSlipped, \* history: a change of the lock was never told
    moves, blips

rosterServer == <<producer, work, muting, locked>>
rosterClient == <<announced, asked, readying, tracks, row, shownLock>>
rosterHistory == <<slipped, lockSlipped>>
rosterVars == <<rosterServer, attending, news, lockAsks, rosterClient, rosterHistory, moves, blips>>

Moves == moves < MaxMoves /\ moves' = moves + 1
Told(ev) == news' = IF attending THEN Append(news, ev) ELSE news
Published == {k \in Kinds : producer[k] # "none"}
NewProducer(k) == [ev |-> "new", kind |-> k, paused |-> producer[k] = "paused"]

\* upsertParticipant makes a record like this one.
NewRow == [audio |-> FALSE, video |-> FALSE, byHost |-> FALSE]

\* The host has just joined a room that the participant is in.
RosterInit ==
    /\ producer \in [Kinds -> {"none", "live", "paused"}]
    /\ work = <<>> /\ muting = <<>> /\ locked = FALSE
    /\ attending = TRUE
    /\ news = [i \in 1 .. Cardinality(Published) |-> NewProducer(SetToSeq(Published)[i])]
    /\ lockAsks = <<>> /\ announced = [k \in Kinds |-> "none"]
    /\ asked = {} /\ readying = {} /\ tracks = {} /\ row = NewRow /\ shownLock = FALSE
    /\ slipped = {} /\ lockSlipped = FALSE /\ moves = 0 /\ blips = 0

-----------------------------------------------------------------------------
(* The participant, and the server.                                        *)

\* createProducer, notifyPeersToConsume
Publish(k) ==
    /\ Moves /\ producer[k] = "none"
    /\ producer' = [producer EXCEPT ![k] = "live"]
    /\ Told([ev |-> "new", kind |-> k, paused |-> FALSE])
    /\ UNCHANGED <<work, muting, locked, attending, lockAsks, rosterClient, rosterHistory, blips>>

\* pauseProducer and resumeProducer up to their await.
SetPaused(k, paused) ==
    /\ Moves /\ producer[k] # "none"
    /\ work' = Append(work, [by |-> "owner", kind |-> k, paused |-> paused])
    /\ UNCHANGED <<producer, muting, locked, attending, news, lockAsks, rosterClient, rosterHistory, blips>>

\* Their rest: the room is told of the participant's own changes.
WorkerAnswers ==
    LET w == Head(work) IN
    /\ work # <<>> /\ work' = Tail(work)
    /\ producer' = [producer EXCEPT ![w.kind] = IF w.paused THEN "paused" ELSE "live"]
    /\ IF w.by = "owner"
       THEN Told([ev |-> "state", kind |-> w.kind, paused |-> w.paused])
       ELSE UNCHANGED news
    /\ UNCHANGED <<muting, locked, attending, lockAsks, rosterClient, rosterHistory, moves, blips>>

\* muteRoomPeer: each producer that is not paused, one after the other, and
\* then the room is told.  The event carries what is live all the same, for
\* the history.
MuteStep ==
    /\ muting # <<>> /\ ~\E i \in DOMAIN work : work[i].by = "host"
    /\ muting' = Tail(muting)
    /\ IF Head(muting) = "tell"
       THEN /\ Told([ev |-> "muted", live |-> {k \in Kinds : producer[k] = "live"}])
            /\ UNCHANGED work
       ELSE /\ work' = IF producer[Head(muting)] = "live"
                       THEN Append(work, [by |-> "host", kind |-> Head(muting), paused |-> TRUE])
                       ELSE work
            /\ UNCHANGED news
    /\ UNCHANGED <<producer, locked, attending, lockAsks, rosterClient, rosterHistory, moves, blips>>

\* lockRoom
SetLock(value) ==
    /\ locked' = value
    /\ IF value = locked THEN UNCHANGED <<news, lockSlipped>>
       ELSE Told([ev |-> "locked", locked |-> value]) /\ lockSlipped' = (lockSlipped \/ ~attending)

AnotherHostLocks(value) ==
    /\ Moves /\ SetLock(value)
    /\ UNCHANGED <<producer, work, muting, attending, lockAsks, rosterClient, slipped, blips>>

LockServed ==
    /\ lockAsks # <<>> /\ lockAsks' = Tail(lockAsks)
    /\ SetLock(Head(lockAsks))
    /\ UNCHANGED <<producer, work, muting, attending, rosterClient, slipped, moves, blips>>

-----------------------------------------------------------------------------
(* The panel.                                                              *)

HasCapabilities(required) == required \subseteq Capabilities

CanMuteParticipant == HasCapabilities({"mute-users"}) /\ ~row.byHost

BeginMute ==
    /\ Moves /\ attending /\ muting = <<>>
    /\ muting' = SetToSeq(Published) \o <<"tell">>
    /\ UNCHANGED <<producer, work, locked, attending, news, lockAsks, rosterClient, rosterHistory, blips>>

MuteParticipant == CanMuteParticipant /\ BeginMute
MuteAll == HasCapabilities({"mute-users"}) /\ Published # {} /\ BeginMute

ToggleLock ==
    /\ HasCapabilities({"lock-room"}) /\ attending /\ Moves
    /\ lockAsks' = Append(lockAsks, ~shownLock)
    /\ UNCHANGED <<rosterServer, attending, news, rosterClient, rosterHistory, blips>>

-----------------------------------------------------------------------------
(* The host's client.                                                      *)

OnEvent(ev) == news # <<>> /\ Head(news).ev = ev /\ news' = Tail(news)

\* Between the announcement of a producer and its track.
Pending ==
    asked \cup readying
       \cup {k \in Kinds : \E i \in DOMAIN news : news[i] = [ev |-> "created", kind |-> k]}

\* consumeProducer
OnProducerAnnounced ==
    LET k == Head(news).kind IN
    /\ OnEvent("new")
    /\ announced' = [announced EXCEPT ![k] = IF Head(news).paused THEN "paused" ELSE "live"]
    /\ asked' = asked \cup {k}
    /\ slipped' = (slipped \ {k}) \cup IF k = "audio" /\ ~Head(news).paused THEN {"byHost"} ELSE {}
    /\ UNCHANGED <<rosterServer, attending, lockAsks, readying, tracks, row, shownLock, lockSlipped, moves, blips>>

\* createConsumer: the consumer is on its way.
ConsumerGranted(k) ==
    /\ k \in asked /\ asked' = asked \ {k}
    /\ Told([ev |-> "created", kind |-> k])
    /\ UNCHANGED <<rosterServer, attending, lockAsks, announced, readying, tracks, row, shownLock,
                   rosterHistory, moves, blips>>

OnConsumer ==
    /\ OnEvent("created") /\ readying' = readying \cup {Head(news).kind}
    /\ UNCHANGED <<rosterServer, attending, lockAsks, announced, asked, tracks, row, shownLock,
                   rosterHistory, moves, blips>>

\* Variant: a track is shown as on, whatever was announced of its producer.
TrackUpdateAlone(k) == TRUE

\* trackUpdate, and the state that the announcement had.
TrackUpdate(k) == announced[k] # "paused"

\* handleConsumerCreated after its await.
TrackReady(k) ==
    /\ k \in readying /\ readying' = readying \ {k}
    /\ tracks' = tracks \cup {k}
    /\ row' = [row EXCEPT ![k] = TrackUpdate(k)]
    /\ UNCHANGED <<rosterServer, attending, news, lockAsks, announced, asked, shownLock,
                   rosterHistory, moves, blips>>

\* The browser's onmute and onunmute, as the media stops and flows.
TrackFlows(k) ==
    /\ k \in tracks
    /\ row' = [row EXCEPT ![k] = (producer[k] = "live")] /\ row' # row
    /\ UNCHANGED <<rosterServer, attending, news, lockAsks, announced, asked, readying, tracks,
                   shownLock, rosterHistory, moves, blips>>

\* onProducerStateChange: a resumed microphone is no longer muted by a host.
OnProducerState ==
    LET k == Head(news).kind
        on == ~Head(news).paused
        heals == {k} \cup IF k = "audio" /\ on THEN {"byHost"} ELSE {} IN
    /\ OnEvent("state")
    /\ row' = [row EXCEPT ![k] = on, !.byHost = @ /\ ~(k = "audio" /\ on)]
    /\ slipped' = (slipped \ heals) \cup ({k} \cap Pending)
    /\ UNCHANGED <<rosterServer, attending, lockAsks, announced, asked, readying, tracks,
                   shownLock, lockSlipped, moves, blips>>

\* onPeerMuted
OnPeerMuted ==
    /\ OnEvent("muted")
    /\ row' = [audio |-> FALSE, video |-> FALSE, byHost |-> TRUE]
    /\ slipped' = (slipped \ {"byHost"}) \cup Head(news).live \cup Pending
                     \cup IF "audio" \in Head(news).live THEN {"byHost"} ELSE {}
    /\ UNCHANGED <<rosterServer, attending, lockAsks, announced, asked, readying, tracks,
                   shownLock, lockSlipped, moves, blips>>

\* onRoomLocked
OnRoomLocked ==
    /\ OnEvent("locked")
    /\ shownLock' = Head(news).locked /\ lockSlipped' = FALSE
    /\ UNCHANGED <<rosterServer, attending, lockAsks, announced, asked, readying, tracks, row,
                   slipped, moves, blips>>

\* The connection is lost: the manager drops its media, the tracker is not told.
Blip ==
    /\ attending /\ attending' = FALSE
    /\ blips < MaxBlips /\ blips' = blips + 1
    /\ news' = <<>> /\ lockAsks' = <<>>
    /\ announced' = [k \in Kinds |-> "none"] /\ asked' = {} /\ readying' = {} /\ tracks' = {}
    /\ slipped' = slipped \cup Published \cup {"byHost"}
    /\ lockSlipped' = (lockSlipped \/ \E i \in DOMAIN news : news[i].ev = "locked")
    /\ UNCHANGED <<rosterServer, row, shownLock, moves>>

\* A locked room takes nobody back.  The others' producers are announced again.
ComeBack ==
    /\ ~attending /\ attending' = TRUE /\ ~locked
    /\ news' = [i \in 1 .. Cardinality(Published) |-> NewProducer(SetToSeq(Published)[i])]
    /\ UNCHANGED <<rosterServer, lockAsks, rosterClient, rosterHistory, moves, blips>>

RosterNext ==
    \/ \E k \in Kinds :
          \/ Publish(k) \/ \E paused \in BOOLEAN : SetPaused(k, paused)
          \/ ConsumerGranted(k) \/ TrackReady(k) \/ TrackFlows(k)
    \/ WorkerAnswers \/ MuteStep \/ LockServed
    \/ \E value \in BOOLEAN : AnotherHostLocks(value)
    \/ MuteParticipant \/ MuteAll \/ ToggleLock
    \/ OnProducerAnnounced \/ OnConsumer \/ OnProducerState \/ OnPeerMuted \/ OnRoomLocked
    \/ Blip \/ ComeBack

RosterSpec == RosterInit /\ [][RosterNext]_rosterVars

-----------------------------------------------------------------------------
(* Properties.                                                             *)

Settled == attending /\ news = <<>> /\ work = <<>> /\ muting = <<>> /\ Pending = {}

\* Once all is told, the panel shows of the participant what the server does
\* with its media, so that the host neither believes a live microphone off
\* nor is kept from muting it, and shows the lock there is.  Exempt is what
\* an event has passed by: see RowIsTrue and LockIsTrue.
RosterInv ==
    /\ row.byHost \in BOOLEAN /\ DOMAIN producer = Kinds
    /\ Settled =>
          /\ \A k \in Kinds \ slipped : row[k] = (producer[k] = "live")
          /\ "byHost" \notin slipped /\ row.byHost => producer["audio"] # "live"
    /\ attending /\ ~lockSlipped /\ (\A i \in DOMAIN news : news[i].ev # "locked") =>
          shownLock = locked

-----------------------------------------------------------------------------
(* What comments promise and the code does not do.                         *)

\* "listeners see the mute immediately" (room-tracker.ts:321-323): a state
\* that changes while the track is awaited is overwritten by the announced
\* one, and a mute that the participant undoes meanwhile is shown all the
\* same, with no button to mute again.
RowIsTrue == Settled => row["audio"] = (producer["audio"] = "live")

\* "Latest sfu:room-locked value" (room-tracker.ts:15): a change while the
\* host is away is never told, and toggling what is shown changes nothing.
LockIsTrue == Settled /\ lockAsks = <<>> => shownLock = locked

=============================================================================
