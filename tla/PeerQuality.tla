---------------------------- MODULE PeerQuality -----------------------------
(***************************************************************************)
(* Which simulcast layer a viewer asks of the server for each camera it    *)
(* watches: packages/react/src/core/peer-quality-engine.ts, bound by       *)
(* contexts/peer-quality-context.tsx, with the reports of the client's     *)
(* stats-collector.ts, the score of quality-score.ts, the tiles' observer  *)
(* (use-viewport-quality.ts) and the user's own choice                     *)
(* (use-quality-controls.ts).                                              *)
(*                                                                         *)
(* Time advances by seconds.  A timer that is due runs before the next     *)
(* one, and the browser answers a collection before the next is due.       *)
(***************************************************************************)
EXTENDS Integers, FiniteSets

CONSTANTS
    Watched,      \* the participants one watches
    Readings,   \* what a link may measure, see Reading
    Interval,   \* seconds between two collections (2 desktop, 5 mobile)
    Debounce,   \* LAYER_SWITCH_DEBOUNCE_MS in seconds (3)
    MaxMoves    \* bound: things that happen to the viewer

\* How far loss, round trip and jitter are beyond the thresholds of the
\* score; the class of the picture; whether it runs below 15 fps.
Reading == [loss : 0 .. 4, rtt : 0 .. 3, jitter : 0 .. 3,
            picture : {"unknown", "low", "mid", "hd"}, slow : BOOLEAN]

ASSUME ReadingsAreReadings == Readings \subseteq Reading /\ Readings # {}
ASSUME TimesArePositive == {Interval, Debounce} \subseteq Nat \ {0} /\ MaxMoves \in Nat

VARIABLES
    bound,      \* the engine is bound to the manager
    concealed,  \* the document is hidden
    suspended,  \* the engine's own flag
    pollIn,     \* seconds to the next collection, Unset when not polling
    collecting, \* a collection waits for the browser
    stats,      \* stats[u]: the level last reported
    known,      \* knownPeers: who was ever in a report
    offscreen,  \* whose tile is outside the viewport
    unseen,     \* hiddenUsers: whose tile the engine takes to be outside
    timer,      \* timer[u]: seconds to the switch, Unset when none is due
    emitted,    \* lastEmittedLayer
    here,       \* participants whose microphone is consumed
    camera,     \* those whose camera is consumed too
    layer,      \* layer[u]: the layer the server forwards of u's camera
    reading,    \* reading[u]: what the link measures
    moves

engine == <<bound, suspended, stats, known, unseen, timer, emitted>>
collector == <<pollIn, collecting>>
scene == <<offscreen, here, camera, layer, reading>>
qualityVars == <<engine, collector, scene, concealed, moves>>

NoLevel == "none"
Unset == -1

-----------------------------------------------------------------------------
(* The score of a reading and its layer (quality-score.ts).                *)

Penalty(r, video) ==
    <<0, 5, 10, 25, 40>>[r.loss + 1] + <<0, 5, 15, 25>>[r.rtt + 1] + <<0, 5, 10, 20>>[r.jitter + 1]
      + (IF video /\ r.picture = "hd" THEN -5 ELSE IF video /\ r.picture = "low" THEN 10 ELSE 0)
      + (IF video /\ r.slow THEN 10 ELSE 0)

Score(r, video) ==
    LET s == 100 - Penalty(r, video) IN IF s < 0 THEN 0 ELSE IF s > 100 THEN 100 ELSE s

QualityLevels == {"excellent", "good", "fair", "poor"}
SpatialLayers == 0 .. 2

LevelOf(score) ==
    IF score >= 80 THEN "excellent" ELSE IF score >= 60 THEN "good" ELSE IF score >= 40 THEN "fair" ELSE "poor"

LayerOf(level) == [excellent |-> 2, good |-> 2, fair |-> 1, poor |-> 0][level]

-----------------------------------------------------------------------------
(* scheduleLayerSwitch                                                     *)

\* The layer that u should have, given the engine's inputs.
Effective(u, st, out, susp) == IF u \notin out /\ ~susp THEN LayerOf(st[u]) ELSE 0

Wanted(u) == Effective(u, stats, unseen, suspended)

\* Variant: a layer that is asked for already is scheduled no more, and the
\* inputs do not matter.
OnceOnly(u, st, out, susp, em) == em[u] = Unset

\* What is asked for is not what is wanted.
Differs(u, st, out, susp, em) == em[u] # Effective(u, st, out, susp)

\* The timers after the users of S are scheduled: the switch waits anew.
Scheduled(S, st, out, susp, em, tm) ==
    [u \in Watched |-> IF bound /\ u \in S /\ st[u] # NoLevel /\ Differs(u, st, out, susp, em)
                     THEN Debounce ELSE tm[u]]

\* getVideoConsumerIdForUserId
HasCamera(u) == u \in camera

\* The server forwards the layer that is asked of the viewer's consumer.
Forwarded(u, l) == [layer EXCEPT ![u] = l]

\* The timer of u: the inputs are read again, and a peer without a camera
\* is forgotten.
Fire(u) ==
    /\ timer[u] = 0
    /\ timer' = [timer EXCEPT ![u] = Unset]
    /\ IF HasCamera(u)
       THEN /\ emitted' = [emitted EXCEPT ![u] = Wanted(u)]
            /\ layer' = IF emitted[u] = Wanted(u) THEN layer ELSE Forwarded(u, Wanted(u))
       ELSE emitted' = [emitted EXCEPT ![u] = Unset] /\ UNCHANGED layer
    /\ UNCHANGED <<bound, suspended, stats, known, unseen, collector, offscreen, here, camera, reading, concealed, moves>>

-----------------------------------------------------------------------------
(* Collections (stats-collector.ts).                                       *)

\* setInterval keeps its pace; whatever is due comes before the next second.
Tick ==
    /\ \A u \in Watched : timer[u] # 0
    /\ pollIn # 0
    /\ bound
    /\ pollIn' = IF pollIn = Unset THEN Unset ELSE pollIn - 1
    /\ timer' = [u \in Watched |-> IF timer[u] = Unset THEN Unset ELSE timer[u] - 1]
    /\ UNCHANGED <<bound, suspended, stats, known, unseen, emitted, collecting, scene, concealed, moves>>

Collect ==
    /\ pollIn = 0 /\ ~collecting
    /\ pollIn' = Interval
    /\ collecting' = TRUE
    /\ UNCHANGED <<engine, scene, concealed, moves>>

\* clearMissingUserState
ClearMissing(S, f, none) == [u \in Watched |-> IF u \in S THEN f[u] ELSE none]

\* setStats
SetStats(S) == [u \in Watched |-> IF u \in S THEN LevelOf(Score(reading[u], u \in camera)) ELSE NoLevel]

\* The report of a collection: whoever is consumed and whose statistics the
\* browser gave; an empty one is not delivered.
Report(S) ==
    LET st == SetStats(S)
        em == ClearMissing(S, emitted, Unset) IN
    /\ collecting' = FALSE
    /\ IF bound /\ S # {}
       THEN /\ stats' = st
            /\ emitted' = em
            /\ known' = known \cup S
            /\ timer' = Scheduled(S, st, unseen, suspended, em, ClearMissing(S, timer, Unset))
       ELSE UNCHANGED <<stats, emitted, known, timer>>
    /\ UNCHANGED <<bound, suspended, unseen, pollIn, scene, concealed>>

Deliver == collecting /\ Report(here) /\ UNCHANGED moves

Move == moves < MaxMoves /\ moves' = moves + 1

\* The browser has no statistics for some.
DeliverPartly == Move /\ collecting /\ \E S \in SUBSET here : S # here /\ Report(S)

-----------------------------------------------------------------------------
(* The engine's life and its inputs.                                       *)

\* reset()
Forgets == stats' = [u \in Watched |-> NoLevel] /\ known' = {} /\ unseen' = {} /\ suspended' = FALSE

\* unbind(), if it is bound: everything is forgotten.
Unbind ==
    /\ Move /\ bound
    /\ bound' = FALSE
    /\ pollIn' = Unset
    /\ timer' = [u \in Watched |-> Unset] /\ emitted' = [u \in Watched |-> Unset]
    /\ Forgets
    /\ UNCHANGED <<collecting, scene, concealed>>

\* startStatsCollection, unless it runs.
StartsPolling == IF pollIn = Unset THEN Interval ELSE pollIn

\* bind(): the session is connected, or the page became narrow.  Polling
\* starts even if the document is hidden.
Bind ==
    /\ ~bound
    /\ bound' = TRUE
    /\ pollIn' = StartsPolling
    /\ UNCHANGED <<suspended, stats, known, unseen, timer, emitted, collecting, scene, concealed, moves>>

\* handleVisibilityChange: everyone known is scheduled.
Conceal(b) ==
    /\ Move /\ concealed # b
    /\ concealed' = b
    /\ IF bound
       THEN /\ suspended' = b
            /\ timer' = IF suspended = b THEN timer ELSE Scheduled(known, stats, unseen, b, emitted, timer)
            /\ pollIn' = IF b THEN Unset ELSE StartsPolling
       ELSE UNCHANGED <<suspended, timer, pollIn>>
    /\ UNCHANGED <<bound, stats, known, unseen, emitted, collecting, scene>>

\* Variant: the flip is recorded and nothing is scheduled.
NoteOnly(u, out) == timer

\* setVisibility tells the scheduler of a flip.
Flipped(u, out) == Scheduled({u}, stats, out, suspended, emitted, timer)

\* The observer reports a tile, which may be off the screen already when the
\* engine was bound anew.
Scroll(u) ==
    /\ Move
    /\ offscreen' = IF u \in offscreen THEN offscreen \ {u} ELSE offscreen \cup {u}
    /\ LET out == IF u \in offscreen THEN unseen \ {u} ELSE unseen \cup {u} IN
       /\ unseen' = out
       /\ timer' = IF out = unseen THEN timer ELSE Flipped(u, out)
    /\ UNCHANGED <<bound, suspended, stats, known, emitted, collector, here, camera, layer, reading, concealed>>

\* onParticipantLeft: clearUserLayerState; the tile is unmounted.
Leave(u) ==
    /\ Move /\ u \in here
    /\ here' = here \ {u} /\ camera' = camera \ {u}
    /\ offscreen' = offscreen \ {u} /\ unseen' = unseen \ {u}
    /\ timer' = [timer EXCEPT ![u] =
         IF bound /\ u \in unseen /\ stats[u] # NoLevel /\ Differs(u, stats, unseen \ {u}, suspended, [emitted EXCEPT ![u] = Unset])
         THEN Debounce ELSE Unset]
    /\ emitted' = [emitted EXCEPT ![u] = Unset]
    /\ UNCHANGED <<bound, suspended, stats, known, collector, layer, reading, concealed>>

Enter(u) ==
    /\ Move /\ u \notin here
    /\ here' = here \cup {u}
    /\ UNCHANGED <<engine, collector, offscreen, camera, layer, reading, concealed>>

\* A consumer of a camera opens, on the highest layer, or closes.
Camera(u) ==
    /\ Move /\ u \in here
    /\ IF u \in camera
       THEN camera' = camera \ {u} /\ UNCHANGED layer
       ELSE camera' = camera \cup {u} /\ layer' = [layer EXCEPT ![u] = 2]
    /\ UNCHANGED <<engine, collector, offscreen, here, reading, concealed>>

\* setParticipantQuality: the user's choice goes past the engine.
Choose(u, l) ==
    /\ Move /\ HasCamera(u) /\ layer[u] # l
    /\ layer' = Forwarded(u, l)
    /\ UNCHANGED <<engine, collector, offscreen, here, camera, reading, concealed>>

Measure(u, r) ==
    /\ Move /\ u \in here /\ reading[u] # r
    /\ reading' = [reading EXCEPT ![u] = r]
    /\ UNCHANGED <<engine, collector, offscreen, here, camera, layer, concealed>>

QualityInit ==
    /\ bound = FALSE /\ concealed = FALSE /\ suspended = FALSE
    /\ pollIn = Unset /\ collecting = FALSE
    /\ stats = [u \in Watched |-> NoLevel] /\ known = {}
    /\ offscreen = {} /\ unseen = {}
    /\ timer = [u \in Watched |-> Unset] /\ emitted = [u \in Watched |-> Unset]
    /\ here = Watched /\ camera = Watched /\ layer = [u \in Watched |-> 2]
    /\ reading \in [Watched -> Readings]
    /\ moves = 0

QualityNext ==
    \/ Tick \/ Collect \/ Deliver \/ DeliverPartly \/ Bind \/ Unbind
    \/ \E b \in BOOLEAN : Conceal(b)
    \/ \E u \in Watched : Fire(u) \/ Scroll(u) \/ Leave(u) \/ Enter(u) \/ Camera(u)
    \/ \E u \in Watched, l \in SpatialLayers : Choose(u, l)
    \/ \E u \in Watched, r \in Readings : Measure(u, r)

QualitySpec == QualityInit /\ [][QualityNext]_qualityVars

-----------------------------------------------------------------------------
QualityTypeOK ==
    /\ {bound, concealed, suspended, collecting} \subseteq BOOLEAN
    /\ pollIn \in Unset .. Interval /\ timer \in [Watched -> Unset .. Debounce]
    /\ stats \in [Watched -> QualityLevels \cup {NoLevel}]
    /\ emitted \in [Watched -> SpatialLayers \cup {Unset}] /\ layer \in [Watched -> SpatialLayers]
    /\ known \cup offscreen \cup unseen \cup here \subseteq Watched /\ camera \subseteq here
    /\ reading \in [Watched -> Readings] /\ moves \in 0 .. MaxMoves

\* Whatever changes the inputs of a user's layer (a report, a tile that
\* scrolls, a document that hides, a participant that leaves), either a
\* switch is due or what was last asked for is what is wanted.
NoSwitchIsMissed ==
    /\ QualityTypeOK
    /\ \A u \in Watched : timer[u] = Unset /\ emitted[u] # Unset => stats[u] # NoLevel /\ emitted[u] = Wanted(u)

\* Once nothing changes, every camera of a visible page has been asked for,
\* while the engine is bound,
\* on the layer that its link and its tile call for ("drives each peer's
\* camera consumer to the preferred spatial layer", header of
\* peer-quality-engine.ts).
CamerasAreDriven == <>[](bound /\ ~concealed => \A u \in camera : stats[u] # NoLevel /\ emitted[u] = Wanted(u))

-----------------------------------------------------------------------------
(* What the code does not keep (README, Divergences).                      *)

\* While the document is hidden polling stops (openspec/specs/sdk/spec.md,
\* "Hidden tab suspends adaptation"); one that is bound then polls.
HiddenIsSuspended == bound /\ concealed => suspended /\ pollIn = Unset

\* The tiles the engine takes to be off the screen are those that are; one
\* that is bound anew is told of none.
TilesAreKnown == bound => unseen = offscreen

\* A camera that opens while the document is hidden is not asked for on the
\* lowest layer before it is visible again.
HiddenIsLow == <>[](concealed => \A u \in camera : emitted[u] = 0)

\* What was last asked for is what the server forwards; a consumer that is
\* replaced starts on the highest layer and nobody asks again.
AskedIsForwarded == \A u \in camera : emitted[u] # Unset => layer[u] = emitted[u]
=============================================================================
