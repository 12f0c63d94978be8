----------------------------- MODULE SdkPublish -----------------------------
(***************************************************************************)
(* What one participant publishes, from the buttons to the server:         *)
(* packages/client/src/sfu/publish.ts with the send side of manager.ts,    *)
(* the captures (media/capture.ts behind capture-port.ts), the toggles     *)
(* (use-publish-controls.ts), the call (use-zvonok-call.ts), the track     *)
(* sync, and the screen-share service.                                     *)
(*                                                                         *)
(* The session has been joined once and recovers from every drop, until    *)
(* it is over.  Commands to the server arrive in order; a drop loses the   *)
(* answers that are under way.  A track is a number; the one a capture     *)
(* holds is live and every other has ended.                                *)
(***************************************************************************)
EXTENDS Naturals, Sequences, SequencesExt, FiniteSets

CONSTANTS
    Sources,     \* among "audio", "camera", "screen"
    QueueLimit,  \* produces that may wait for the transport (8)
    MaxStarts,   \* bound: starts of a capture
    MaxDrops,    \* bound: drops of the connection
    MaxResets    \* bound: media resets of the room

ASSUME SourcesAreKnown == Sources \subseteq {"audio", "camera", "screen"}
ASSUME BoundsAreNat == {QueueLimit, MaxDrops, MaxResets} \subseteq Nat /\ MaxStarts \in Nat \ {0}

Controls == Sources \ {"screen"}

VARIABLES
    link,       \* the signalling connection: "up", "down", "over" (the
                \* session has been left, or ended)
    acked,      \* the server has accepted the join on this connection
    mediaEntry, \* the server has an entry of this participant in `media'
    device,     \* "none", "loading", "loaded"
    loads,      \* loadDevice() calls under way: "join" or "reset", in order
    asked,      \* send transports the server has been asked for
    transport,  \* there is a send transport
    buffer,     \* pendingLocalProduces: [src, track, who]
    flight,     \* producingInProgress: set of [src, track, who], who being
                \* all the callers that share it
    producers,  \* set of [src, track, paused]
    retained,   \* retainedLocalProduces: [src, track]
    live,       \* live[s]: the track the capture of s holds, 0 if none
    used,       \* used[s]: starts of the capture so far; the track of a
                \* start has its number
    starting,   \* starting[s]: callers of the capture's current start: None,
                \* "toggle" or "switch"
    stale,      \* stale[s]: toggles whose start was superseded
    wanted,     \* history: wanted[s]: the user last turned s on
    swaps,      \* replaceTrack() under way: [src, track, resume]
    enabled,    \* what the button of a control shows; for the screen isSharing
    hidden,     \* the document is hidden
    autoDue,    \* the effect that publishes after a join is due
    muteTold,   \* announcedHostMuteRef (mutedByHost is never taken back)
    owed,       \* history: sources torn down while publishing, and not yet
                \* publishing again or given up
    drops, resets

pipeline == <<buffer, flight, producers, retained>>
media == <<mediaEntry, device, loads, asked, transport>>
capture == <<live, used, starting, stale, wanted>>
ui == <<enabled, hidden, autoDue, muteTold>>
bounds == <<drops, resets>>
publishVars == <<link, acked, media, pipeline, capture, swaps, ui, owed, bounds>>

Entry(s, t, who) == [src |-> s, track |-> t, who |-> who]
Live(lv, e) == lv[e.src] = e.track
IsLive(e) == Live(live, e)
Of(s, set) == {e \in set : e.src = s}
Paused(p, b) == [p EXCEPT !.paused = b]    \* pauseProducer, resumeProducer
None == "none"

\* The session has just been joined.
PublishInit ==
    /\ link = "up" /\ acked = TRUE /\ mediaEntry = TRUE
    /\ device = "loading" /\ loads = <<"join">> /\ asked = 0 /\ transport = FALSE
    /\ buffer = <<>> /\ flight = {} /\ producers = {} /\ retained = <<>>
    /\ live \in [Sources -> {0, 1}] /\ used = live
    /\ \A s \in Sources \cap {"screen"} : live[s] = 0
    /\ starting = [s \in Sources |-> None] /\ stale = [s \in Sources |-> 0]
    /\ wanted = [s \in Sources |-> live[s] # 0]
    /\ swaps = {}
    /\ enabled = [s \in Sources |-> live[s] # 0]
    /\ hidden = FALSE /\ autoDue = TRUE /\ muteTold = FALSE
    /\ owed = {} /\ drops = 0 /\ resets = 0

-----------------------------------------------------------------------------
(* What becomes of callers.  A step passes what the captures hold after it *)
(* (lv) and the buttons it has turned on (on).                             *)

\* Sources whose button goes off, and whose track stops, when the produces
\* of the entries come to nothing.
Off(entries) == {e.src : e \in {f \in entries : f.who \cap {"toggle", "screen"} # {}}}
Stopped(lv, entries) == {e.src : e \in {f \in entries : "screen" \in f.who /\ Live(lv, f)}}

Buttons(on, off) == enabled' = [s \in Sources |-> (enabled[s] \/ s \in on) /\ s \notin off]
Tracks(lv, stopped) == live' = [s \in Sources |-> IF s \in stopped THEN 0 ELSE lv[s]]

\* The callers get nothing.
GiveUpOn(entries, on, lv) == Buttons(on, Off(entries)) /\ Tracks(lv, Stopped(lv, entries))

-----------------------------------------------------------------------------
(* Producing (produceWithSource).                                          *)

\* createProduceRequest: the attempt that the server's answer settles.
Attempt(s, t, who) == Entry(s, t, who)

\* Variant: a produce does not look for a producer of its kind.
NeverExists(s) == {}

Existing(s) == Of(s, producers)

\* With a send transport: an entry whose kind is produced already gets that
\* producer, one whose kind is in flight shares the attempt, and the first
\* of the others starts one, which fails at once if its track has ended.
StartProduces(seq, on, lv) ==
    LET entries == Range(seq)
        first(s) == seq[CHOOSE i \in DOMAIN seq :
                          seq[i].src = s /\ \A j \in 1 .. i - 1 : seq[j].src # s]
        callers(s) == UNION {e.who : e \in Of(s, entries)}
        fresh == {s \in {e.src : e \in entries} : Existing(s) = {} /\ Of(s, flight) = {}}
        dead == {s \in fresh : ~Live(lv, first(s))}
        served == {e \in entries : Existing(e.src) # {}}
        lost == {e \in entries : e.src \in dead}
    IN
    /\ flight' = {[f EXCEPT !.who = @ \cup IF Existing(f.src) = {} THEN callers(f.src) ELSE {}] : f \in flight}
                    \cup {Attempt(s, first(s).track, callers(s)) : s \in fresh \ dead}
    /\ producers' = {IF \E e \in served : e.src = p.src /\ e.who \cap {"toggle", "auto"} # {}
                     THEN Paused(p, FALSE) ELSE p : p \in producers}
    /\ Buttons(on \cup {e.src : e \in {f \in served : "screen" \in f.who}}, Off(lost))
    /\ Tracks(lv, Stopped(lv, lost))
    /\ owed' = {s \in owed \ dead : lv[s] = live[s]}

\* Variant: the queue takes one more.
OneSlotMore == IF link = "up" THEN QueueLimit + 1 - Len(buffer) ELSE 0

FreeSlots == IF link = "up" THEN QueueLimit - Len(buffer) ELSE 0

\* Without one: entries wait while the connection is there, their tracks
\* live and the queue not full.
Admitted(seq, lv) ==
    LET able == {i \in DOMAIN seq : Live(lv, seq[i])}
        nth(n) == CHOOSE i \in able : Cardinality({j \in able : j <= i}) = n IN
    [n \in 1 .. (IF Cardinality(able) < FreeSlots THEN Cardinality(able) ELSE FreeSlots) |-> seq[nth(n)]]

BufferProduces(seq, on, lv) ==
    LET in == Range(Admitted(seq, lv)) IN
    /\ buffer' = buffer \o Admitted(seq, lv)
    /\ GiveUpOn(Range(seq) \ in, on, lv)
    /\ owed' = {s \in owed : lv[s] = live[s] /\ (Of(s, Range(seq)) = {} \/ Of(s, Range(buffer) \cup in) # {})}
    /\ UNCHANGED <<flight, producers>>

Produce(seq, on, lv) ==
    IF transport THEN StartProduces(seq, on, lv) /\ UNCHANGED buffer ELSE BufferProduces(seq, on, lv)

\* The server has made the producer (handleProducerCreated); those who asked
\* resume it.
Produced(f) ==
    /\ link = "up" /\ f \in flight
    /\ flight' = flight \ {f}
    /\ producers' = producers \cup {[src |-> f.src, track |-> f.track, paused |-> FALSE]}
    /\ enabled' = [enabled EXCEPT ![f.src] = @ \/ "screen" \in f.who]
    /\ owed' = owed \ {f.src}
    /\ UNCHANGED <<link, acked, media, buffer, retained, capture, swaps, hidden, autoDue, muteTold, bounds>>

\* The server refuses (handleProduceError): the error reaches the callers,
\* and only a screen share has something to undo.
Refused(f) ==
    /\ link = "up" /\ f \in flight
    /\ flight' = flight \ {f}
    /\ Tracks(live, Stopped(live, {f}))
    /\ owed' = owed \ {f.src}
    /\ UNCHANGED <<link, acked, media, buffer, producers, retained, used, starting, stale, wanted, swaps, ui, bounds>>

-----------------------------------------------------------------------------
(* Teardown and recovery.                                                  *)

\* Variant: only what is produced is retained.
ProducedOnly == <<>>

\* What retainLocalProduces takes of the buffer.
BufferedToo == [i \in DOMAIN buffer |-> [src |-> buffer[i].src, track |-> buffer[i].track]]

\* retainLocalProduces with closeAll and resetMediaState: the live tracks
\* and what is buffered are kept, what is in flight fails.
RetainAndClose ==
    LET kept == {[src |-> p.src, track |-> p.track] : p \in {q \in producers : IsLive(q)}}
        failed == Range(buffer) \cup flight IN
    /\ retained' = retained \o SetToSeq(kept) \o BufferedToo
    /\ buffer' = <<>> /\ flight' = {} /\ producers' = {}
    /\ GiveUpOn(failed, {}, live)
    /\ owed' = ((owed \ {f.src : f \in flight}) \cup {e.src : e \in kept}
                  \cup {e.src : e \in {b \in Range(buffer) : IsLive(b)}})
                 \ Stopped(live, failed)
    /\ transport' = FALSE

Drop ==
    /\ link = "up" /\ drops < MaxDrops
    /\ drops' = drops + 1
    /\ link' = "down" /\ acked' = FALSE /\ mediaEntry' = FALSE /\ asked' = 0 /\ device' = "none"
    /\ RetainAndClose
    /\ autoDue' = FALSE
    /\ UNCHANGED <<loads, used, starting, stale, wanted, swaps, hidden, muteTold, resets>>

Reconnect ==
    /\ link = "down" /\ link' = "up"
    /\ UNCHANGED <<acked, media, pipeline, capture, swaps, ui, owed, bounds>>

\* replayRetainedProduces
Replay ==
    /\ retained' = <<>>
    /\ Produce([i \in DOMAIN retained |-> Entry(retained[i].src, retained[i].track, {"replay"})], {}, live)

\* handleJoined of a rejoin: the status is joined again.
Rejoined ==
    /\ link = "up" /\ ~acked
    /\ acked' = TRUE /\ mediaEntry' = TRUE
    /\ Replay
    /\ device' = "loading" /\ loads' = Append(loads, "join")
    /\ autoDue' = TRUE
    /\ UNCHANGED <<link, asked, transport, used, starting, stale, wanted, swaps, hidden, muteTold, bounds>>

\* handleRoomMediaReset up to the await of loadDevice.  The server has
\* removed the entry with the media of the dead worker (handleRoutersLost).
MediaReset ==
    /\ link = "up" /\ acked /\ resets < MaxResets
    /\ resets' = resets + 1
    /\ RetainAndClose
    /\ mediaEntry' = FALSE /\ asked' = 0 /\ device' = "loading" /\ loads' = Append(loads, "reset")
    /\ UNCHANGED <<link, acked, used, starting, stale, wanted, swaps, hidden, autoDue, muteTold, drops>>

\* A device has loaded, the current one if it is the last: transports are
\* asked for, and a media reset replays.  The server makes none for a
\* socket without an entry.
DeviceLoaded ==
    /\ loads # <<>> /\ link # "over"
    /\ loads' = Tail(loads)
    /\ device' = IF Len(loads) = 1 /\ device = "loading" THEN "loaded" ELSE device
    /\ asked' = IF link = "up" /\ mediaEntry THEN asked + 1 ELSE asked
    /\ IF Head(loads) = "reset" THEN Replay ELSE UNCHANGED <<pipeline, live, enabled, owed>>
    /\ UNCHANGED <<link, acked, mediaEntry, transport, used, starting, stale, wanted, swaps, hidden, autoDue, muteTold, bounds>>

\* flushPendingProduces
Flush == StartProduces(buffer, {}, live) /\ buffer' = <<>>

\* handleTransportCreated for the send side.
TransportCreated ==
    /\ link = "up" /\ asked > 0
    /\ asked' = asked - 1
    /\ IF device = "loaded"
       THEN transport' = TRUE /\ Flush
       ELSE UNCHANGED <<transport, buffer, flight, producers, live, enabled, owed>>
    /\ UNCHANGED <<link, acked, mediaEntry, device, loads, retained, used, starting, stale, wanted, swaps,
                   hidden, autoDue, muteTold, bounds>>

\* The session is left, ended, or could not be recovered.
Over ==
    /\ link # "over"
    /\ link' = "over" /\ acked' = FALSE /\ mediaEntry' = FALSE
    /\ retained' = <<>> /\ buffer' = <<>> /\ flight' = {} /\ producers' = {}
    /\ asked' = 0 /\ transport' = FALSE /\ device' = "none" /\ loads' = <<>>
    /\ Buttons({}, Off(flight)) /\ Tracks(live, Stopped(live, flight \cup Range(buffer)))
    /\ autoDue' = FALSE /\ owed' = {}
    /\ UNCHANGED <<used, starting, stale, wanted, swaps, hidden, muteTold, bounds>>

-----------------------------------------------------------------------------
(* Captures and toggles.                                                   *)

InCall == link # "over"

\* A new start, or a stop, supersedes the start under way.
Supersede(s, by) ==
    /\ starting' = [starting EXCEPT ![s] = by]
    /\ stale' = [stale EXCEPT ![s] = IF starting[s] = "toggle" THEN @ + 1 ELSE @]

Start(s, by) ==
    /\ used[s] < MaxStarts
    /\ used' = [used EXCEPT ![s] = @ + 1]
    /\ Supersede(s, by)

\* The toggle of a superseded start gets no track and its button goes off.
StaleReturns(s) ==
    /\ InCall /\ stale[s] > 0
    /\ stale' = [stale EXCEPT ![s] = @ - 1]
    /\ Buttons({}, {s})
    /\ UNCHANGED <<link, acked, media, pipeline, live, used, starting, wanted, swaps, hidden, autoDue, muteTold, owed, bounds>>

\* It asked for a device that is gone, and tries the default one, superseded
\* or not.
StaleRestarts(s) ==
    /\ InCall /\ stale[s] > 0 /\ used[s] < MaxStarts
    /\ used' = [used EXCEPT ![s] = @ + 1]
    /\ starting' = [starting EXCEPT ![s] = "toggle"]
    /\ stale' = [stale EXCEPT ![s] = IF starting[s] = "toggle" THEN @ ELSE @ - 1]
    /\ enabled' = [enabled EXCEPT ![s] = FALSE]
    /\ UNCHANGED <<link, acked, media, pipeline, live, wanted, swaps, hidden, autoDue, muteTold, owed, bounds>>

\* The toggle on when the capture has a live track: it is produced, or
\* swapped into the producer first.
ToggleOn(s) ==
    /\ InCall /\ ~enabled[s] /\ live[s] # 0
    /\ wanted' = [wanted EXCEPT ![s] = TRUE]
    /\ IF Existing(s) = {}
       THEN Produce(<<Entry(s, live[s], {"toggle"})>>, {s}, live) /\ UNCHANGED swaps
       ELSE /\ swaps' = swaps \cup {[src |-> s, track |-> live[s], resume |-> TRUE]}
            /\ Buttons({s}, {})
            /\ UNCHANGED <<buffer, flight, producers, live, owed>>
    /\ UNCHANGED <<link, acked, media, retained, used, starting, stale, hidden, autoDue, muteTold, bounds>>

\* The toggle on without one: the capture starts, and shows the button off
\* until it is active.
ToggleStarts(s) ==
    /\ InCall /\ ~enabled[s] /\ live[s] = 0
    /\ wanted' = [wanted EXCEPT ![s] = TRUE]
    /\ Start(s, "toggle")
    /\ UNCHANGED <<link, acked, media, pipeline, live, swaps, ui, owed, bounds>>

\* The device controls stop a capture (stop, toggle): nothing pauses.
StopCapture(s) ==
    /\ InCall /\ (live[s] # 0 \/ starting[s] # None)
    /\ wanted' = [wanted EXCEPT ![s] = FALSE]
    /\ live' = [live EXCEPT ![s] = 0]
    /\ Supersede(s, None)
    /\ Buttons({}, {s})
    /\ owed' = owed \ {s}
    /\ UNCHANGED <<link, acked, media, pipeline, used, swaps, hidden, autoDue, muteTold, bounds>>

\* They switch its device when it is active (guardedSwitch): the track ends
\* before the new one is there.
SwitchDevice(s) ==
    /\ InCall /\ live[s] # 0
    /\ live' = [live EXCEPT ![s] = 0]
    /\ Start(s, "switch")
    /\ Buttons({}, {s})
    /\ owed' = owed \ {s}
    /\ UNCHANGED <<link, acked, media, pipeline, wanted, swaps, hidden, autoDue, muteTold, bounds>>

\* getUserMedia fails.
CaptureFails(s) ==
    /\ InCall /\ starting[s] # None
    /\ starting' = [starting EXCEPT ![s] = None]
    /\ Buttons({}, {s})
    /\ UNCHANGED <<link, acked, media, pipeline, live, used, stale, wanted, swaps, hidden, autoDue, muteTold, owed, bounds>>

\* The capture is active: the button shows it, the track sync swaps the new
\* track into a producer, and a toggle goes on with it.
CaptureActive(s) ==
    LET t == used[s]
        lv == [live EXCEPT ![s] = t] IN
    /\ InCall /\ starting[s] # None
    /\ starting' = [starting EXCEPT ![s] = None]
    /\ swaps' = IF Existing(s) = {} THEN swaps
                ELSE swaps \cup {[src |-> s, track |-> t, resume |-> starting[s] = "toggle"]}
    /\ Produce(IF starting[s] = "toggle" /\ Existing(s) = {} THEN <<Entry(s, t, {"toggle"})>> ELSE <<>>, {s}, lv)
    /\ UNCHANGED <<link, acked, media, retained, used, stale, wanted, hidden, autoDue, muteTold, bounds>>

\* The toggle off: the producer pauses and the hardware is released.
ToggleOff(s) ==
    /\ InCall /\ enabled[s]
    /\ wanted' = [wanted EXCEPT ![s] = FALSE]
    /\ producers' = {IF p.src = s THEN Paused(p, TRUE) ELSE p : p \in producers}
    /\ live' = [live EXCEPT ![s] = 0]
    /\ Supersede(s, None)
    /\ Buttons({}, {s})
    /\ owed' = owed \ {s}
    /\ UNCHANGED <<link, acked, media, buffer, flight, retained, used, swaps, hidden, autoDue, muteTold, bounds>>

\* A swap ends: it needs its track live and a producer to take it.  A
\* toggle then resumes the producer, or its button goes off.
Swapped(w) ==
    LET done == IsLive(w) /\ Existing(w.src) # {} IN
    /\ InCall /\ w \in swaps
    /\ swaps' = swaps \ {w}
    /\ producers' = IF ~done THEN producers
                    ELSE {IF p.src # w.src THEN p
                          ELSE [p EXCEPT !.track = w.track, !.paused = @ /\ ~w.resume] : p \in producers}
    /\ enabled' = [enabled EXCEPT ![w.src] = @ /\ (done \/ ~w.resume)]
    /\ UNCHANGED <<link, acked, media, buffer, flight, retained, capture, hidden, autoDue, muteTold, owed, bounds>>

-----------------------------------------------------------------------------
(* The call.                                                               *)

\* The effect after a join publishes every live capture that has no producer.
AutoPublish ==
    LET due == {s \in Controls : live[s] # 0 /\ Existing(s) = {}} IN
    /\ autoDue /\ autoDue' = FALSE
    /\ Produce(SetToSeq({Entry(s, live[s], {"auto"}) : s \in due}), {}, live)
    /\ UNCHANGED <<link, acked, media, retained, used, starting, stale, wanted, swaps, hidden, muteTold, bounds>>

\* The hidden tab pauses the camera; its return resumes it if the button is on.
Visibility ==
    /\ InCall /\ "camera" \in Sources
    /\ hidden' = ~hidden
    /\ producers' = {IF p.src = "camera" /\ (hidden' \/ enabled["camera"]) THEN Paused(p, hidden') ELSE p : p \in producers}
    /\ UNCHANGED <<link, acked, media, buffer, flight, retained, capture, swaps, enabled, autoDue, muteTold, owed, bounds>>

\* A host mutes the participant: the server pauses what it publishes, and
\* the call is told the first time.
HostMutes ==
    /\ link = "up" /\ acked
    /\ producers' = {Paused(p, TRUE) : p \in producers}
    /\ enabled' = IF muteTold \/ "audio" \notin Sources THEN enabled ELSE [enabled EXCEPT !["audio"] = FALSE]
    /\ muteTold' = TRUE
    /\ UNCHANGED <<link, acked, media, buffer, flight, retained, capture, swaps, hidden, autoDue, owed, bounds>>

\* ScreenShareService.start after the display was granted.
ShareScreen ==
    LET t == used["screen"] + 1 IN
    /\ InCall /\ "screen" \in Sources /\ ~enabled["screen"] /\ live["screen"] = 0
    /\ t <= MaxStarts
    /\ used' = [used EXCEPT !["screen"] = t]
    /\ Produce(<<Entry("screen", t, {"screen"})>>, {}, [live EXCEPT !["screen"] = t])
    /\ UNCHANGED <<link, acked, media, retained, starting, stale, wanted, swaps, hidden, autoDue, muteTold, bounds>>

\* closeScreenProducer
WithoutScreen == producers \ Of("screen", producers)

\* ScreenShareService.stop
StopSharing ==
    /\ InCall /\ "screen" \in Sources /\ enabled["screen"]
    /\ producers' = WithoutScreen
    /\ Tracks(live, {"screen"}) /\ Buttons({}, {"screen"})
    /\ owed' = owed \ {"screen"}
    /\ UNCHANGED <<link, acked, media, buffer, flight, retained, used, starting, stale, wanted, swaps, hidden, autoDue, muteTold, bounds>>

-----------------------------------------------------------------------------

Toggle(s) == ToggleOn(s) \/ ToggleStarts(s) \/ ToggleOff(s) \/ SwitchDevice(s) \/ StopCapture(s)

CaptureSettles(s) == CaptureFails(s) \/ CaptureActive(s) \/ StaleReturns(s) \/ StaleRestarts(s)

PublishNext ==
    \/ Drop \/ Reconnect \/ Rejoined \/ MediaReset \/ DeviceLoaded \/ TransportCreated \/ Over
    \/ \E f \in flight : Produced(f) \/ Refused(f)
    \/ \E w \in swaps : Swapped(w)
    \/ \E s \in Controls : Toggle(s) \/ CaptureSettles(s)
    \/ AutoPublish \/ Visibility \/ HostMutes \/ ShareScreen \/ StopSharing

PublishSpec == PublishInit /\ [][PublishNext]_publishVars

-----------------------------------------------------------------------------
(* Properties.                                                             *)

PublishTypeOK ==
    /\ link \in {"up", "down", "over"} /\ {acked, mediaEntry} \subseteq BOOLEAN
    /\ device \in {"none", "loading", "loaded"}
    /\ Range(loads) \subseteq {"join", "reset"} /\ asked \in Nat /\ transport \in BOOLEAN
    /\ Len(buffer) <= QueueLimit
    /\ \A e \in Range(buffer) \cup flight : e.src \in Sources /\ e.track \in 1 .. MaxStarts
    /\ \A e \in Range(retained) \cup producers : e.src \in Sources /\ e.track \in 1 .. MaxStarts
    /\ \A s \in Sources : live[s] \in 0 .. used[s] /\ used[s] <= MaxStarts
    /\ starting \in [Sources -> {None, "toggle", "switch"}] /\ stale \in [Sources -> Nat]
    /\ {enabled, wanted} \subseteq [Sources -> BOOLEAN] /\ {hidden, autoDue, muteTold} \subseteq BOOLEAN
    /\ owed \subseteq Sources

\* One producer per source and one attempt at a time, whatever toggles,
\* flushes, replays and the effect of the join ask for at once ("Producer
\* already exists for kind").
OnePerSource ==
    /\ PublishTypeOK
    /\ \A s \in Sources : Cardinality(Of(s, producers)) + Cardinality(Of(s, flight)) <= 1

\* What was published, or waited to be, when media was torn down is not
\* forgotten while its track lives: it is retained, buffered or being
\* produced through any number of drops and resets, until it is published
\* again, refused, caught in flight by the next teardown or replayed while
\* there is no connection ("Holds live local tracks and produce intents
\* across a blip").
NothingForgotten ==
    \A s \in owed : \E e \in Range(retained) \cup Range(buffer) \cup flight : e.src = s /\ IsLive(e)

\* Both: nothing is published twice, and nothing that was is forgotten.
PublishInv == OnePerSource /\ NothingForgotten

-----------------------------------------------------------------------------
(* What documents and comments promise and the code does not do.           *)

\* A button that is off publishes nothing: not so when two starts of a
\* capture answer in the other order, nor when a drop retains a produce that
\* waits, whose caller is told it failed, and the replay publishes it.
OffIsSilent ==
    \A s \in Controls : ~enabled[s] /\ starting[s] = None =>
        \A p \in Of(s, producers) : p.paused \/ ~IsLive(p)

\* A control that was turned off stays off: not so when a start that was
\* superseded finds its device gone and starts the default one.
OffStaysOff == [][\A s \in Controls : StaleRestarts(s) => wanted[s]]_publishVars

\* A camera paused by the hidden tab stays paused over a blip: not so, the
\* replay and the effect after the rejoin publish it unpaused.  The same
\* undoes a host's mute.
HiddenIsPaused ==
    hidden => \A p \in Of("camera", producers) : p.paused \/ ~enabled["camera"]

\* "tell the consumer once per occurrence": a second mute is not shown.
MuteIsShown ==
    [][HostMutes => ~enabled'["audio"]]_publishVars

\* A share that is shown is published: not so when the replay of a screen is
\* refused because another took the slot.
SharingIsPublished ==
    "screen" \in Sources /\ enabled["screen"] /\ transport /\ loads = <<>> =>
        \E e \in producers \cup flight \cup Range(buffer) : e.src = "screen"

\* A retained track is published again: not so when the connection drops
\* while a media reset loads its device, for the replay finds no connection.
ReplayedOnline == [][retained # <<>> /\ retained' = <<>> /\ link' # "over" => link = "up"]_publishVars

=============================================================================
