------------------------------ MODULE Program ------------------------------
(***************************************************************************)
(* What an egress session shows of its room: the producers that can be     *)
(* tapped (sfu.service.ts, room-media-source.port.ts), the builds that tap *)
(* them (egress.service.ts), and the graph of inputs, mix, tiles and       *)
(* outputs that ffmpeg is started with (ffmpeg/args-composer.ts).          *)
(*                                                                         *)
(* Egress has the rows, the processes, the ports and the stop of a         *)
(* session; here a session runs until it fails.  A tap is opened and its   *)
(* file written in one step: a producer that closes meanwhile rejects it.  *)
(***************************************************************************)
EXTENDS Naturals, Sequences, SequencesExt, FiniteSets

CONSTANTS
    Sources,  \* producers of the room, each made once
    KindOf,   \* KindOf[p]: "audio", "screen" or "camera"
    Requested, \* session.outputs: some of "rtmp", "hls", "record"
    MaxTiles, \* XSTACK_LAYOUT_2X2.length (4)
    MaxExits  \* EGRESS_MAX_RESTARTS

ASSUME SourcesAreFinite == IsFiniteSet(Sources)
ASSUME KindsAreKnown == KindOf \in [Sources -> {"audio", "screen", "camera"}]
ASSUME TilesFitCanvas == MaxTiles \in 1 .. 4 /\ MaxExits \in Nat

OneBuild == 1 .. 2 \* bound: builds under way

VARIABLES
    onAir,    \* the room's producers in their order
    ever,     \* producers made so far
    running,  \* the session has not failed
    building, \* builds under way: what is still to be tapped, what is, and why
    tapped,   \* session.taps
    debounce, \* session.restartTimer
    graph,    \* what the session's process was started with
    alive,    \* ffmpeg processes, the session's and those replaced, not yet exited;
              \* bound: MaxExits + 1, for after so many exits the session has failed
    exits,    \* session.restartTimes
    muddled   \* history: two builds at once, or a rebuild that failed

programVars == <<onAir, ever, running, building, tapped, debounce, graph, alive, exits, muddled>>

NoBuild == [todo |-> <<>>, inputs |-> <<>>, why |-> "none"]
NoGraph == [inputs |-> <<>>, mix |-> {}, tiles |-> {}, tee |-> {}]

-----------------------------------------------------------------------------
(* args-composer.ts                                                        *)

\* Audio, then the screen that takes the primary tile, then the cameras.
RankOf == [audio |-> 0, screen |-> 1, camera |-> 2]

Rank(inputs, i) == RankOf[KindOf[inputs[i]]]

\* The positions not after i once inputs are sorted; each group keeps its order.
UpTo(inputs, i) ==
    {j \in DOMAIN inputs : Rank(inputs, j) < Rank(inputs, i) \/ (Rank(inputs, j) = Rank(inputs, i) /\ j <= i)}

\* sortedInputs
Sorted(inputs) ==
    [n \in DOMAIN inputs |-> inputs[CHOOSE i \in DOMAIN inputs : Cardinality(UpTo(inputs, i)) = n]]

Audios(inputs) == Cardinality({i \in DOMAIN inputs : KindOf[inputs[i]] = "audio"})
Videos(inputs) == Len(inputs) - Audios(inputs)

\* composeEgressArgs throws otherwise.
Composable(inputs) == Audios(inputs) > 0 /\ Videos(inputs) <= MaxTiles /\ Requested # {}

\* The canvas is two tiles wide and two high.
XstackLayout == <<<<0, 0>>, <<1, 0>>, <<0, 1>>, <<1, 1>>>>

\* Variant: the first video input is passed over.
NextInput(audioCount, tile) == audioCount + tile + 1

\* The input of a tile: those of the mix come first.
InputIndex(audioCount, tile) == audioCount + tile

\* A lone video fills the canvas; xstack places several.
Tiles(audioCount, videoCount) ==
    IF videoCount = 1 THEN {[input |-> audioCount, at |-> <<0, 0>>, size |-> 2]}
    ELSE {[input |-> InputIndex(audioCount, tile), at |-> XstackLayout[tile + 1], size |-> 1] :
             tile \in 0 .. videoCount - 1}

\* composeFilterComplex, and a slave of the tee for each output; inputs count
\* from 0.
Compose(inputs) ==
    [inputs |-> Sorted(inputs),
     mix |-> 0 .. Audios(inputs) - 1,
     tiles |-> Tiles(Audios(inputs), Videos(inputs)),
     tee |-> Requested]

-----------------------------------------------------------------------------
(* The room's producers.                                                   *)

IdleBuilds == {b \in OneBuild : building[b] = NoBuild}

\* scheduleMembershipRestart
Reschedule == debounce' = (debounce \/ running)

\* notifyTapHandlers: the session has subscribed before its first build.
ProducerAdded(p) ==
    /\ p \notin ever /\ ever' = ever \cup {p}
    /\ onAir' = Append(onAir, p)
    /\ Reschedule
    /\ UNCHANGED <<running, building, tapped, graph, alive, exits, muddled>>

\* Variant: nobody listens to the closing of a tap's producer.
Unwatched(p) == FALSE

\* A tap's onProducerClosed.
Watched(p) == p \in tapped

ProducerClosed(p) ==
    /\ p \in ToSet(onAir) /\ onAir' = RemoveFirst(onAir, p)
    /\ IF Watched(p) THEN Reschedule ELSE UNCHANGED debounce
    /\ UNCHANGED <<ever, running, building, tapped, graph, alive, exits, muddled>>

-----------------------------------------------------------------------------
(* The session's builds.                                                   *)

\* startPipeline: closeRuntime, and listTaps of the room as it is.
BeginBuild(b, why) ==
    /\ b \in IdleBuilds
    /\ building' = [building EXCEPT ![b] = [todo |-> onAir, inputs |-> <<>>, why |-> why]]
    /\ tapped' = {} /\ graph' = NoGraph
    /\ muddled' = (muddled \/ IdleBuilds # OneBuild)

\* failSession, for a first build or a retry; a rebuild is only logged.
FailBuild(b) ==
    /\ building' = [building EXCEPT ![b] = NoBuild]
    /\ IF building[b].why = "member"
       THEN /\ muddled' = TRUE
            /\ UNCHANGED <<running, tapped, graph, debounce>>
       ELSE /\ running' = FALSE /\ tapped' = {} /\ graph' = NoGraph /\ debounce' = FALSE
            /\ UNCHANGED muddled

\* openTap of the next producer: a closed one cannot be consumed.
OpenTap(b) ==
    LET p == Head(building[b].todo) IN
    /\ building[b].todo # <<>>
    /\ IF p \in ToSet(onAir)
       THEN /\ tapped' = tapped \cup {p}
            /\ building' = [building EXCEPT ![b].todo = Tail(@), ![b].inputs = Append(@, p)]
            /\ UNCHANGED <<running, graph, debounce, muddled>>
       ELSE FailBuild(b)
    /\ UNCHANGED <<onAir, ever, alive, exits>>

\* All are tapped: ffmpeg is started, unless the composer throws.
StartFfmpeg(b) ==
    /\ building[b] # NoBuild /\ building[b].todo = <<>>
    /\ IF Composable(building[b].inputs)
       THEN /\ graph' = Compose(building[b].inputs)
            /\ alive' = IF alive > MaxExits THEN alive ELSE alive + 1
            /\ building' = [building EXCEPT ![b] = NoBuild]
            /\ UNCHANGED <<running, tapped, debounce, muddled>>
       ELSE FailBuild(b) /\ UNCHANGED alive
    /\ UNCHANGED <<onAir, ever, exits>>

\* The debounce is over.
Rebuild(b) ==
    /\ debounce /\ debounce' = FALSE
    /\ BeginBuild(b, "member")
    /\ UNCHANGED <<onAir, ever, running, alive, exits>>

\* onPipelineFailure: another build while the budget lasts.
BuildAgain ==
    /\ running
    /\ exits' = exits + 1
    /\ IF exits < MaxExits
       THEN (\E b \in OneBuild : BeginBuild(b, "retry")) /\ UNCHANGED <<running, debounce>>
       ELSE /\ running' = FALSE /\ tapped' = {} /\ graph' = NoGraph /\ debounce' = FALSE
            /\ UNCHANGED <<building, muddled>>
    /\ UNCHANGED <<onAir, ever>>

\* onProcessExit does not ask which ffmpeg exits: one that was replaced may do
\* so while its successor is being built, or runs.
FfmpegExits == alive > 0 /\ alive' = alive - 1 /\ BuildAgain

\* session.startTimer fires. (Timers it has lost are in Egress.)
StartTimesOut == graph # NoGraph /\ BuildAgain /\ UNCHANGED alive

\* The session has just been created, in a room with some producers.
ProgramInit ==
    /\ \E ps \in SUBSET Sources : onAir \in {SetToSeq(ps)} /\ ever = ps
    /\ running = TRUE /\ tapped = {} /\ debounce = FALSE /\ graph = NoGraph /\ alive = 0
    /\ building = [b \in OneBuild |-> IF b = 1 THEN [todo |-> onAir, inputs |-> <<>>, why |-> "start"]
                                      ELSE NoBuild]
    /\ exits = 0 /\ muddled = FALSE

ProgramNext ==
    \/ \E p \in Sources : ProducerAdded(p) \/ ProducerClosed(p)
    \/ \E b \in OneBuild : OpenTap(b) \/ StartFfmpeg(b) \/ Rebuild(b)
    \/ FfmpegExits \/ StartTimesOut

ProgramSpec == ProgramInit /\ [][ProgramNext]_programVars

-----------------------------------------------------------------------------
(* Properties.                                                             *)

Input(g, i) == g.inputs[i + 1]

\* The graph is well made: each audio is mixed, each video has one tile and
\* no other tile lies on it, and a screen has the primary one.
GraphIsWhole(g) ==
    /\ {Input(g, i) : i \in g.mix} = {p \in ToSet(g.inputs) : KindOf[p] = "audio"}
    /\ \A i \in (0 .. Len(g.inputs) - 1) \ g.mix : Cardinality({t \in g.tiles : t.input = i}) = 1
    /\ \A t \in g.tiles : t.input \in (0 .. Len(g.inputs) - 1) \ g.mix
    /\ \A t, u \in g.tiles : t.at = u.at => t = u
    /\ \A t \in g.tiles : KindOf[Input(g, t.input)] = "camera" /\ t.at = <<0, 0>> =>
          ~\E p \in ToSet(g.inputs) : KindOf[p] = "screen"

Still == running /\ ~debounce /\ IdleBuilds = OneBuild

\* The program shows its room: once no build and no debounce is pending, its
\* inputs are the room's producers, however they came and went meanwhile;
\* and at any time its graph is well made.  Exempt is a session in which two
\* builds ran at once, or a rebuild failed, see ProgramIsCurrent.
ProgramInv ==
    /\ graph # NoGraph => GraphIsWhole(graph)
    /\ Still /\ ~muddled => ToSet(graph.inputs) = ToSet(onAir) /\ tapped = ToSet(onAir)

-----------------------------------------------------------------------------
(* What documents and comments promise and the code does not do.           *)

\* "membership changes and room teardown have to survive every rebuild"
\* (egress.service.ts:559-561): the older of two builds may end last, and a
\* rebuild that fails, for a producer that has closed or for want of audio,
\* leaves no program and nothing that would start one.
ProgramIsCurrent == Still => ToSet(graph.inputs) = ToSet(onAir)

\* Whatever the room's producers, a session that runs has a program: not so
\* once its last audio or a fifth video makes the composer throw.
RunningIsShown == Still => graph # NoGraph

=============================================================================
