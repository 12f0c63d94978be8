----------------------------- MODULE EgressProofs -----------------------------
(***************************************************************************)
(* Proofs, for any number of sessions, ports, processes, builds, taps and  *)
(* restarts, that no two taps share a port, that a session whose builds    *)
(* did not overlap has one program at most, and that its stop is clean;    *)
(* and, in the last section, that its program is the room's.               *)
(*                                                                         *)
(* Nothing keeps two builds of a session apart, so the argument goes by    *)
(* session: what a handler does to one leaves the others untouched, and    *)
(* the one is in order as long as the history knows of no overlap.         *)
(***************************************************************************)
EXTENDS Egress, Program, FiniteSetTheorems, SequenceTheorems, FunctionTheorems,
        WellFoundedInduction, TLAPS

ProcRows == [of : Sessions \cup {None}, told : BOOLEAN]
BuildRows ==
    [of : Sessions \cup {None}, kind : {"start", "retry", "member"},
     left : 0..MaxTaps, stage : Stages, port : Ports \cup {None}]

\* TypeOK by its parts: what is stored, what waits, and what runs.
RowsType ==
    /\ row \in [Sessions -> {"none"} \cup Active \cup Terminal]
    /\ writes \in [Sessions -> SUBSET {"live", "ended", "failed"}]
    /\ roomEnded \in BOOLEAN
    /\ checking \subseteq Sessions /\ stopReads \subseteq Sessions
LifeType ==
    /\ rt \in [Sessions -> {"none", "starting", "stopping"}]
    /\ sessions \subseteq Sessions /\ finalizing \subseteq Sessions
    /\ waits \in [Sessions -> Procs \cup {None}]
    /\ liveEmitted \subseteq Sessions
    /\ restarts \in [Sessions -> 0..BudgetSpent]
    /\ restartTimer \subseteq Sessions /\ startTimer \subseteq Sessions
    /\ strays \subseteq Sessions
    /\ troubled \subseteq Sessions /\ overlapped \subseteq Sessions
RunType ==
    /\ current \in [Sessions -> Procs \cup {None}]
    /\ procs \in [Procs -> ProcRows]
    /\ taps \in [Sessions -> SUBSET Ports]
    /\ portsInUse \subseteq Ports
BuildsType == builds \in [Builds -> BuildRows]

Typed == RowsType /\ LifeType /\ RunType /\ BuildsType

\* A build is free or at a stage, has a port exactly while it opens a tap, and
\* opens one only as long as some are left.
BuildsMeaningful ==
    \A b \in Builds :
        /\ builds[b].stage = "none" <=> builds[b].of = None
        /\ builds[b].stage = "opening" <=> builds[b].port # None
        /\ builds[b].stage \in {"opening", "writing"} => builds[b].left > 0

\* A port that a build opens a tap on is in use, and nobody else's.
PortsHeld ==
    /\ \A s \in Sessions : taps[s] \subseteq portsInUse
    /\ \A s, t \in Sessions : s # t => taps[s] \cap taps[t] = {}
    /\ \A b \in Builds : builds[b].port # None =>
          /\ builds[b].port \in portsInUse
          /\ \A s \in Sessions : builds[b].port \notin taps[s]
          /\ \A c \in Builds : b # c => builds[c].port # builds[b].port

-----------------------------------------------------------------------------
(* What the shared steps of the handlers do to the shapes.                 *)

LEMMA FreeProcTyped == FreeProc \in ProcRows /\ FreeProc.of = None /\ ~FreeProc.told
  BY DEF FreeProc, ProcRows

LEMMA FreeBuildTyped ==
    /\ FreeBuild \in BuildRows /\ FreeBuild.of = None /\ FreeBuild.stage = "none" /\ FreeBuild.port = None
  BY BoundsAreNat DEF FreeBuild, BuildRows, Stages

LEMMA CloseTyped ==
    ASSUME RunType, NEW S \in SUBSET Sessions, NEW ps \in [Procs -> ProcRows], CloseRuntime(S, ps)
    PROVE  RunType'
<1>1. procs' \in [Procs -> ProcRows]
  BY DEF CloseRuntime, ProcRows
<1>2. current' \in [Sessions -> Procs \cup {None}] /\ taps' \in [Sessions -> SUBSET Ports] /\ portsInUse' \subseteq Ports
  BY DEF CloseRuntime, RunType
<1> QED BY <1>1, <1>2 DEF RunType

LEMMA BeginTyped ==
    ASSUME Typed, NEW b \in Builds, NEW s \in Sessions, NEW kind \in {"start", "retry", "member"},
           NEW ps \in [Procs -> ProcRows], BeginPipeline(b, s, kind, ps)
    PROVE  RunType' /\ BuildsType' /\ startTimer' \subseteq Sessions
<1>1. RunType'
  BY CloseTyped DEF Typed, BeginPipeline
<1>2. BuildsType'
  <2>1. PICK n \in 0..MaxTaps :
          builds' = [builds EXCEPT ![b] = [of |-> s, kind |-> kind, left |-> n, stage |-> "turn", port |-> None]]
    BY DEF BeginPipeline
  <2>2. [of |-> s, kind |-> kind, left |-> n, stage |-> "turn", port |-> None] \in BuildRows
    BY DEF BuildRows, Stages
  <2> QED BY <2>1, <2>2 DEF Typed, BuildsType
<1> QED BY <1>1, <1>2 DEF BeginPipeline, Typed, LifeType

LEMMA FailTyped ==
    ASSUME Typed, NEW s \in Sessions, NEW ps \in [Procs -> ProcRows], NEW bs \in [Builds -> BuildRows],
           FailSession(s, ps, bs)
    PROVE  /\ RunType' /\ BuildsType'
           /\ rt' \in [Sessions -> {"none", "starting", "stopping"}] /\ sessions' \subseteq Sessions
           /\ restartTimer' \subseteq Sessions /\ startTimer' \subseteq Sessions
           /\ writes' \in [Sessions -> SUBSET {"live", "ended", "failed"}]
<1>1. RunType'
  BY CloseTyped DEF Typed, FailSession
<1> QED BY <1>1 DEF FailSession, ClearTimers, Typed, RowsType, LifeType, BuildsType

\* A pipeline that fails is begun again or fails the session.
LEMMA PipelineFailsCases ==
    ASSUME Typed, NEW s \in Sessions, NEW ps \in [Procs -> ProcRows], PipelineFails(s, ps)
    PROVE  /\ UNCHANGED liveEmitted
           /\ restarts' \in [Sessions -> 0..BudgetSpent]
           /\ \/ FailSession(s, ps, builds)
              \/ /\ \E b \in Builds : CanBuild(b, ps) /\ BeginPipeline(b, s, "retry", ps)
                 /\ UNCHANGED <<rt, sessions, writes, restartTimer>>
<1>1. PICK kept \in 0..restarts[s] :
        /\ restarts' = [restarts EXCEPT ![s] = IF kept < MaxRestarts THEN kept + 1 ELSE BudgetSpent]
        /\ IF kept + 1 > MaxRestarts
           THEN FailSession(s, ps, builds)
           ELSE /\ \E b \in Builds : CanBuild(b, ps) /\ BeginPipeline(b, s, "retry", ps)
                /\ UNCHANGED <<rt, sessions, writes, restartTimer>>
  BY Zenon DEF PipelineFails
<1>2. (IF kept < MaxRestarts THEN kept + 1 ELSE BudgetSpent) \in 0..BudgetSpent
  BY BoundsAreNat DEF BudgetSpent, Typed, LifeType
<1>3. restarts' \in [Sessions -> 0..BudgetSpent]
  BY <1>1, <1>2 DEF Typed, LifeType
<1> QED BY <1>1, <1>3, Zenon DEF PipelineFails

LEMMA PipelineFailsTyped ==
    ASSUME Typed, NEW s \in Sessions, NEW ps \in [Procs -> ProcRows], PipelineFails(s, ps)
    PROVE  /\ RunType' /\ BuildsType'
           /\ rt' \in [Sessions -> {"none", "starting", "stopping"}] /\ sessions' \subseteq Sessions
           /\ restartTimer' \subseteq Sessions /\ startTimer' \subseteq Sessions
           /\ writes' \in [Sessions -> SUBSET {"live", "ended", "failed"}]
           /\ liveEmitted' \subseteq Sessions /\ restarts' \in [Sessions -> 0..BudgetSpent]
<1>1. liveEmitted' \subseteq Sessions /\ restarts' \in [Sessions -> 0..BudgetSpent]
  BY PipelineFailsCases DEF Typed, LifeType
<1>2. CASE FailSession(s, ps, builds)
  BY <1>1, <1>2, FailTyped DEF Typed, BuildsType
<1>3. CASE /\ \E b \in Builds : BeginPipeline(b, s, "retry", ps)
           /\ UNCHANGED <<rt, sessions, writes, restartTimer>>
  BY <1>1, <1>3, BeginTyped DEF Typed, RowsType, LifeType
<1> QED BY <1>2, <1>3, PipelineFailsCases

LEMMA FinalizeTyped ==
    ASSUME Typed, NEW S \in SUBSET Sessions, Finalize(S)
    PROVE  /\ RunType' /\ rt' \in [Sessions -> {"none", "starting", "stopping"}]
           /\ restartTimer' \subseteq Sessions /\ startTimer' \subseteq Sessions
           /\ finalizing' \subseteq Sessions /\ waits' \in [Sessions -> Procs \cup {None}]
<1> DEFINE F == {s \in S : rt[s] = "starting"}
<1>1. /\ CloseRuntime(F, procs) /\ ClearTimers(F) /\ finalizing' = finalizing \cup F
      /\ rt' = [s \in Sessions |-> IF s \in F THEN "stopping" ELSE rt[s]]
      /\ waits' = [s \in Sessions |-> IF s \in F THEN current[s] ELSE waits[s]]
  BY Zenon DEF Finalize
<1>2. F \in SUBSET Sessions
  OBVIOUS
<1>3. RunType'
  BY <1>1, <1>2, CloseTyped DEF Typed, RunType
<1> HIDE DEF F
<1> QED BY <1>1, <1>2, <1>3 DEF ClearTimers, Typed, LifeType, RunType

LEMMA InitTyped == Init => Typed
<1> SUFFICES ASSUME Init PROVE Typed
  OBVIOUS
<1>1. RowsType
  BY DEF Init, RowsType
<1>2. LifeType
  BY BoundsAreNat DEF Init, LifeType, BudgetSpent
<1>3. RunType /\ BuildsType
  BY FreeProcTyped, FreeBuildTyped DEF Init, RunType, BuildsType
<1> QED BY <1>1, <1>2, <1>3 DEF Typed

\* Starting, and the builds.
LEMMA StartsTyped ==
    ASSUME Typed, NEW s \in Sessions, StartCheck(s) \/ RowCreated(s) \/ StartCreate(s)
    PROVE  Typed'
<1> USE DEF Typed
<1>1. CASE StartCheck(s)
  BY <1>1 DEF StartCheck, ending, timers, runtime, life, history, RowsType, LifeType, RunType, BuildsType
<1>2. CASE StartCreate(s)
  <2>1. /\ checking' = checking \ {s}
        /\ rt' = [rt EXCEPT ![s] = "starting"] /\ sessions' = sessions \cup {s}
        /\ UNCHANGED <<row, writes, roomEnded, stopReads, finalizing, waits, restartTimer, startTimer, strays,
                       current, procs, taps, portsInUse, liveEmitted, restarts, troubled, overlapped>>
    BY <1>2 DEF StartCreate, ending, timers, runtime, history
  <2>2. BuildsType'
    <3>1. PICK b \in Builds : builds' = [builds EXCEPT ![b] = [FreeBuild EXCEPT !.of = s, !.stage = "dirs"]]
      BY <1>2 DEF StartCreate
    <3>2. [FreeBuild EXCEPT !.of = s, !.stage = "dirs"] \in BuildRows
      BY FreeBuildTyped DEF BuildRows, Stages
    <3> QED BY <3>1, <3>2 DEF BuildsType
  <2>3. RowsType' /\ LifeType' /\ RunType'
    BY <2>1 DEF RowsType, Active, LifeType, RunType
  <2> QED BY <2>2, <2>3
<1>3. CASE RowCreated(s)
  BY <1>3 DEF RowCreated, requests, ending, timers, runtime, life, history, RowsType, Active, LifeType, RunType,
              BuildsType
<1> QED BY <1>1, <1>2, <1>3

LEMMA OverlapTyped == Typed /\ NoteOverlap => overlapped' \subseteq Sessions
  BY DEF NoteOverlap, Typed, LifeType

LEMMA BuildRowsTyped ==
    ASSUME Typed, NEW b \in Builds
    PROVE  /\ builds[b].of \in Sessions \cup {None} /\ builds[b].kind \in {"start", "retry", "member"}
           /\ builds[b].left \in 0..MaxTaps /\ builds[b].stage \in Stages /\ builds[b].port \in Ports \cup {None}
  BY DEF Typed, BuildsType, BuildRows

LEMMA BuildsTyped ==
    ASSUME Typed, BuildsMeaningful, NEW b \in Builds, BuildGoesOn(b)
    PROVE  Typed'
<1> USE DEF Typed
<1> DEFINE s == builds[b].of
<1>1. builds[b].stage # "none" /\ s \in Sessions
  <2>1. builds[b].stage # "none"
    BY FreeBuildTyped DEF BuildGoesOn, DirsReady, NextTap, TapOpened, SdpWritten, Spawn, BuildFails
  <2> QED BY <2>1, BuildRowsTyped DEF BuildsMeaningful
<1>2. CASE DirsReady(b)
  <2>1. BeginPipeline(b, s, "start", procs) /\ NoteOverlap
        /\ UNCHANGED <<row, writes, requests, ending, restartTimer, strays, life, troubled>>
    BY <1>2 DEF DirsReady
  <2>2. RunType' /\ BuildsType' /\ startTimer' \subseteq Sessions
    BY <1>1, <2>1, BeginTyped DEF RunType
  <2> QED BY <2>1, <2>2, OverlapTyped DEF requests, ending, life, RowsType, LifeType
<1>3. ASSUME NEW port \in Ports, NextTap(b, port) PROVE Typed'
  <2>1. [builds[b] EXCEPT !.stage = "opening", !.port = port] \in BuildRows
    BY DEF BuildsType, BuildRows, Stages
  <2> QED BY <1>3, <2>1 DEF NextTap, requests, ending, timers, life, history, RowsType, LifeType, RunType, BuildsType
<1>4. CASE TapOpened(b)
  <2>1. [builds[b] EXCEPT !.stage = "writing", !.port = None] \in BuildRows
    BY DEF BuildsType, BuildRows, Stages
  <2>2. builds[b].port \in Ports
    BY <1>4, BuildRowsTyped DEF TapOpened, BuildsMeaningful
  <2>3. BuildsType' /\ RunType'
    BY <1>1, <1>4, <2>1, <2>2 DEF TapOpened, BuildsType, RunType
  <2> QED BY <1>4, <2>3 DEF TapOpened, requests, ending, timers, life, history, RowsType, LifeType
<1>5. CASE SdpWritten(b)
  <2>1. builds[b].left > 0 /\ builds[b].left \in 0..MaxTaps
    BY <1>5, BuildRowsTyped DEF SdpWritten, BuildsMeaningful
  <2>2. [builds[b] EXCEPT !.stage = "turn", !.left = @ - 1] \in BuildRows
    <3>1. builds[b].left - 1 \in 0..MaxTaps
      BY <2>1, BoundsAreNat
    <3> QED BY <3>1 DEF BuildsType, BuildRows, Stages
  <2>3. BuildsType'
    <3> DEFINE next == [builds[b] EXCEPT !.stage = "turn", !.left = @ - 1]
    <3>1. builds' = [builds EXCEPT ![b] = next]
      BY <1>5 DEF SdpWritten, BuildsType
    <3>2. next \in BuildRows
      BY <2>2
    <3> HIDE DEF next
    <3> QED BY <3>1, <3>2 DEF BuildsType
  <2>4. RowsType' /\ LifeType' /\ RunType'
    BY <1>5 DEF SdpWritten, requests, ending, timers, runtime, life, history, RowsType, LifeType, RunType
  <2> QED BY <2>3, <2>4
<1>6. ASSUME NEW p \in Procs, Spawn(b, p) PROVE Typed'
  <2>1. procs' = [procs EXCEPT ![p].of = s] /\ current' = [current EXCEPT ![s] = p]
        /\ startTimer' = startTimer \cup {s} /\ strays' = strays \cup ({s} \cap startTimer)
        /\ builds' = [builds EXCEPT ![b] = FreeBuild]
        /\ UNCHANGED <<row, writes, roomEnded, checking, stopReads, finalizing, waits, restartTimer, taps, portsInUse,
                       rt, sessions, liveEmitted, restarts, troubled, overlapped>>
    BY <1>6 DEF Spawn, requests, ending, life, history
  <2>2. procs' \in [Procs -> ProcRows]
    BY <1>1, <2>1 DEF RunType, ProcRows
  <2>3. BuildsType' /\ RunType'
    BY <1>1, <2>1, <2>2, FreeBuildTyped DEF BuildsType, RunType
  <2> QED BY <1>1, <2>1, <2>3 DEF RowsType, LifeType
<1>7. CASE BuildFails(b)
  <2> DEFINE bs == [builds EXCEPT ![b] = FreeBuild]
  <2>1. bs \in [Builds -> BuildRows]
    BY FreeBuildTyped DEF BuildsType
  <2>2. /\ \/ builds' = bs /\ UNCHANGED <<writes, timers, runtime, rt, sessions>>
           \/ FailSession(s, procs, bs)
        /\ troubled' = troubled \cup {s} /\ NoteOverlap
        /\ UNCHANGED <<row, requests, ending, strays, liveEmitted, restarts>>
    BY <1>7, Zenon DEF BuildFails
  <2> HIDE DEF bs
  <2>3. /\ RunType' /\ BuildsType'
        /\ rt' \in [Sessions -> {"none", "starting", "stopping"}] /\ sessions' \subseteq Sessions
        /\ restartTimer' \subseteq Sessions /\ startTimer' \subseteq Sessions
        /\ writes' \in [Sessions -> SUBSET {"live", "ended", "failed"}]
    <3>1. CASE FailSession(s, procs, bs)
      BY <1>1, <2>1, <3>1, FailTyped DEF RunType
    <3>2. CASE builds' = bs /\ UNCHANGED <<writes, timers, runtime, rt, sessions>>
      BY <2>1, <3>2 DEF timers, runtime, RowsType, LifeType, RunType, BuildsType
    <3> QED BY <2>2, <3>1, <3>2
  <2> QED BY <1>1, <2>2, <2>3, OverlapTyped DEF requests, ending, RowsType, LifeType
<1> QED BY <1>2, <1>3, <1>4, <1>5, <1>6, <1>7 DEF BuildGoesOn

\* What processes and timers do.
LEMMA RunsTyped ==
    ASSUME Typed,
           \/ \E p \in Procs : Progress(p) \/ ProcExits(p)
           \/ \E s \in Sessions : StartTimeout(s) \/ MembershipChanges(s) \/ RestartFires(s)
    PROVE  Typed'
<1> USE DEF Typed
<1>1. ASSUME NEW p \in Procs, Progress(p) PROVE Typed'
  <2>1. PICK s \in Sessions :
          /\ liveEmitted' = liveEmitted \cup {s} /\ startTimer' = startTimer \ {s}
          /\ writes' = [writes EXCEPT ![s] = @ \cup {"live"}]
    BY <1>1 DEF Progress
  <2>2. /\ UNCHANGED <<row, roomEnded, checking, stopReads, finalizing, waits, restartTimer, strays, rt, sessions,
                      restarts, troubled, overlapped>>
        /\ UNCHANGED <<current, procs, taps, portsInUse, builds>>
    BY <1>1 DEF Progress, requests, ending, runtime, history
  <2>3. RowsType'
    BY <2>1, <2>2 DEF RowsType
  <2>4. LifeType' /\ RunType' /\ BuildsType'
    BY <2>1, <2>2 DEF LifeType, RunType, BuildsType
  <2> QED BY <2>3, <2>4
<1>2. ASSUME NEW p \in Procs, ProcExits(p) PROVE Typed'
  <2> DEFINE s == procs[p].of
             ps == [procs EXCEPT ![p] = FreeProc]
  <2>1. s \in Sessions /\ ps \in [Procs -> ProcRows]
    BY <1>2, FreeProcTyped DEF ProcExits, RunType, ProcRows
  <2>2. /\ waits' = [waits EXCEPT ![s] = IF @ = p THEN None ELSE @]
        /\ troubled' \in {troubled, troubled \cup {s}} /\ NoteOverlap
        /\ UNCHANGED <<row, requests, finalizing, strays>>
        /\ \/ /\ procs' = ps /\ current' = [current EXCEPT ![s] = IF @ = p THEN None ELSE @]
              /\ UNCHANGED <<writes, timers, taps, portsInUse, life, builds>>
           \/ PipelineFails(s, ps)
    BY <1>2 DEF ProcExits
  <2> HIDE DEF ps
  <2>3. /\ RunType' /\ BuildsType'
        /\ rt' \in [Sessions -> {"none", "starting", "stopping"}] /\ sessions' \subseteq Sessions
        /\ restartTimer' \subseteq Sessions /\ startTimer' \subseteq Sessions
        /\ writes' \in [Sessions -> SUBSET {"live", "ended", "failed"}]
        /\ liveEmitted' \subseteq Sessions /\ restarts' \in [Sessions -> 0..BudgetSpent]
    <3>1. CASE PipelineFails(s, ps)
      BY <2>1, <3>1, PipelineFailsTyped
    <3>2. CASE /\ procs' = ps /\ current' = [current EXCEPT ![s] = IF @ = p THEN None ELSE @]
               /\ UNCHANGED <<writes, timers, taps, portsInUse, life, builds>>
      BY <2>1, <3>2 DEF timers, life, RowsType, LifeType, RunType, BuildsType
    <3> QED BY <2>2, <3>1, <3>2
  <2>4. waits' \in [Sessions -> Procs \cup {None}]
    BY <2>1, <2>2 DEF LifeType
  <2> QED BY <2>1, <2>2, <2>3, <2>4, OverlapTyped DEF requests, RowsType, LifeType
<1>3. ASSUME NEW s \in Sessions, StartTimeout(s) PROVE Typed'
  <2>1. /\ strays' \subseteq strays \/ strays' = strays
        /\ PipelineFails(s, procs) /\ troubled' = troubled \cup {s} /\ NoteOverlap
        /\ UNCHANGED <<row, requests, ending>>
    BY <1>3 DEF StartTimeout
  <2> QED BY <2>1, PipelineFailsTyped, OverlapTyped DEF RunType, requests, ending, RowsType, LifeType
<1>4. ASSUME NEW s \in Sessions, MembershipChanges(s) PROVE Typed'
  BY <1>4 DEF MembershipChanges, requests, ending, runtime, life, history, RowsType, LifeType, RunType, BuildsType
<1>5. ASSUME NEW s \in Sessions, RestartFires(s) PROVE Typed'
  <2>1. /\ restartTimer' = restartTimer \ {s} /\ NoteOverlap
        /\ UNCHANGED <<row, writes, requests, ending, strays, life, troubled>>
        /\ \/ UNCHANGED <<startTimer, runtime, builds>>
           \/ \E b \in Builds : BeginPipeline(b, s, "member", procs)
    BY <1>5 DEF RestartFires
  <2>2. RunType' /\ BuildsType' /\ startTimer' \subseteq Sessions
    <3>1. CASE UNCHANGED <<startTimer, runtime, builds>>
      BY <3>1 DEF runtime, RunType, BuildsType, LifeType
    <3>2. CASE \E b \in Builds : BeginPipeline(b, s, "member", procs)
      BY <3>2, BeginTyped DEF RunType
    <3> QED BY <2>1, <3>1, <3>2
  <2> QED BY <2>1, <2>2, OverlapTyped DEF requests, ending, life, RowsType, LifeType
<1> QED BY <1>1, <1>2, <1>3, <1>4, <1>5

\* Ending a session.
LEMMA EndsTyped ==
    ASSUME Typed,
           \/ \E s \in Sessions : StopRead(s) \/ Stop(s) \/ Finalized(s)
           \/ \E s \in Sessions, status \in {"live", "ended", "failed"} : WriteLands(s, status)
           \/ \E ends \in BOOLEAN : RoomCloses(ends)
           \/ ServerRestart
    PROVE  Typed'
<1> USE DEF Typed
<1>1. ASSUME NEW s \in Sessions, StopRead(s) PROVE Typed'
  BY <1>1 DEF StopRead, ending, timers, runtime, life, history, RowsType, LifeType, RunType, BuildsType
<1>2. ASSUME NEW s \in Sessions, Stop(s) PROVE Typed'
  <2>1. /\ stopReads' = stopReads \ {s} /\ NoteOverlap
        /\ UNCHANGED <<row, roomEnded, checking, strays, sessions, liveEmitted, restarts, builds, troubled>>
        /\ \/ Finalize({s}) /\ UNCHANGED writes
           \/ /\ writes' = [writes EXCEPT ![s] = @ \cup {"ended"}]
              /\ UNCHANGED <<ending, timers, runtime, rt>>
    BY <1>2, Zenon DEF Stop
  <2>2. CASE Finalize({s}) /\ UNCHANGED writes
    BY <2>1, <2>2, FinalizeTyped, OverlapTyped DEF RowsType, LifeType, BuildsType
  <2>3. CASE /\ writes' = [writes EXCEPT ![s] = @ \cup {"ended"}]
             /\ UNCHANGED <<ending, timers, runtime, rt>>
    BY <2>1, <2>3, OverlapTyped DEF ending, timers, runtime, RowsType, LifeType, RunType, BuildsType
  <2> QED BY <2>1, <2>2, <2>3
<1>3. ASSUME NEW s \in Sessions, Finalized(s) PROVE Typed'
  BY <1>3 DEF Finalized, requests, timers, runtime, history, RowsType, LifeType, RunType, BuildsType
<1>4. ASSUME NEW s \in Sessions, NEW status \in {"live", "ended", "failed"}, WriteLands(s, status) PROVE Typed'
  BY <1>4 DEF WriteLands, requests, ending, timers, runtime, life, history, Active, Terminal, RowsType, LifeType, RunType, BuildsType
<1>5. ASSUME NEW ends \in BOOLEAN, RoomCloses(ends) PROVE Typed'
  <2>1. /\ roomEnded' = (roomEnded \/ ends) /\ Finalize(Sessions) /\ NoteOverlap
        /\ UNCHANGED <<row, writes, checking, stopReads, strays, sessions, liveEmitted, restarts, builds, troubled>>
    BY <1>5 DEF RoomCloses
  <2>2. roomEnded' \in BOOLEAN
    BY <2>1, Zenon
  <2> QED BY <2>1, <2>2, FinalizeTyped, OverlapTyped DEF RowsType, LifeType, BuildsType
<1>6. CASE ServerRestart
  <2>1. RowsType'
    BY <1>6 DEF ServerRestart, RowsType, Active, Terminal
  <2>2. LifeType'
    BY <1>6, BoundsAreNat DEF ServerRestart, history, LifeType, BudgetSpent
  <2>3. RunType' /\ BuildsType'
    BY <1>6, FreeProcTyped, FreeBuildTyped DEF ServerRestart, RunType, BuildsType
  <2> QED BY <2>1, <2>2, <2>3
<1> QED BY <1>1, <1>2, <1>3, <1>4, <1>5, <1>6

LEMMA StepTyped == Typed /\ BuildsMeaningful /\ [Next]_vars => Typed'
<1> SUFFICES ASSUME Typed, BuildsMeaningful, [Next]_vars PROVE Typed'
  OBVIOUS
<1>1. CASE Next
  BY <1>1, StartsTyped, BuildsTyped, RunsTyped, EndsTyped, Zenon DEF Next
<1>2. CASE UNCHANGED vars
  BY <1>2 DEF vars, requests, ending, timers, runtime, life, history, Typed, RowsType, LifeType, RunType, BuildsType
<1> QED BY <1>1, <1>2

-----------------------------------------------------------------------------
(* Ports.                                                                  *)

\* Closing taps gives back their ports and no other: those that builds open
\* taps on stay theirs.
LEMMA CloseHolds ==
    ASSUME Typed, PortsHeld, NEW S \in SUBSET Sessions, NEW ps, CloseRuntime(S, ps),
           \A b \in Builds : builds'[b].port \in {None, builds[b].port}
    PROVE  PortsHeld'
<1>1. \A s \in Sessions : /\ taps'[s] = IF s \in S THEN {} ELSE taps[s]
                          /\ taps'[s] \subseteq taps[s]
  BY DEF CloseRuntime
<1>2. \A port : port \in portsInUse' <=> port \in portsInUse /\ \A s \in S : port \notin taps[s]
  BY DEF CloseRuntime, Released
<1>3. \A s \in Sessions : taps'[s] \subseteq portsInUse'
  <2> SUFFICES ASSUME NEW s \in Sessions, NEW port \in taps'[s] PROVE port \in portsInUse'
    OBVIOUS
  <2>1. s \notin S /\ port \in taps[s] /\ port \in portsInUse
    BY <1>1 DEF PortsHeld
  <2>2. \A t \in S : port \notin taps[t]
    BY <2>1 DEF PortsHeld
  <2> QED BY <1>2, <2>1, <2>2
<1>4. \A s, t \in Sessions : s # t => taps'[s] \cap taps'[t] = {}
  BY <1>1 DEF PortsHeld
<1>5. ASSUME NEW b \in Builds, builds'[b].port # None
      PROVE  /\ builds'[b].port \in portsInUse'
             /\ \A s \in Sessions : builds'[b].port \notin taps'[s]
             /\ \A c \in Builds : b # c => builds'[c].port # builds'[b].port
  <2>1. builds'[b].port = builds[b].port /\ builds[b].port # None
    BY <1>5
  <2>2. /\ builds[b].port \in portsInUse /\ \A s \in Sessions : builds[b].port \notin taps[s]
        /\ \A c \in Builds : b # c => builds[c].port # builds[b].port
    BY <2>1 DEF PortsHeld
  <2>3. builds[b].port \in portsInUse'
    BY <1>2, <2>2
  <2>4. \A s \in Sessions : builds[b].port \notin taps'[s]
    BY <1>1, <2>2
  <2>5. \A c \in Builds : b # c => builds'[c].port # builds[b].port
    BY <2>1, <2>2
  <2> QED BY <2>1, <2>3, <2>4, <2>5
<1> QED BY <1>3, <1>4, <1>5 DEF PortsHeld

\* What a handler leaves alone stays as it is.
LEMMA PortsUntouched ==
    ASSUME PortsHeld, UNCHANGED <<taps, portsInUse>>,
           \A b \in Builds : builds'[b].port \in {None, builds[b].port}
    PROVE  PortsHeld'
  BY DEF PortsHeld

\* A build that begins takes a free place and holds nothing.
LEMMA BeginBuilds ==
    ASSUME Typed, BuildsMeaningful, NEW b \in Builds, NEW s \in Sessions, NEW kind, NEW ps,
           BeginPipeline(b, s, kind, ps)
    PROVE  /\ BuildsMeaningful'
           /\ \A c \in Builds : builds'[c].port \in {None, builds[c].port}
           /\ \A c \in Builds : builds'[c].of = IF c = b THEN s ELSE builds[c].of
<1>1. PICK n \in 0..MaxTaps :
        builds' = [builds EXCEPT ![b] = [of |-> s, kind |-> kind, left |-> n, stage |-> "turn", port |-> None]]
  BY DEF BeginPipeline
<1> DEFINE new == [of |-> s, kind |-> kind, left |-> n, stage |-> "turn", port |-> None]
<1>2. new.of = s /\ new.stage = "turn" /\ new.port = None /\ s # None
  BY NoneIsNoId
<1>3. \A c \in Builds : builds'[c] = IF c = b THEN new ELSE builds[c]
  BY <1>1 DEF Typed, BuildsType
<1> HIDE DEF new
<1> QED BY <1>2, <1>3 DEF BuildsMeaningful

LEMMA FreedBuilds ==
    ASSUME Typed, BuildsMeaningful, NEW b \in Builds, builds' = [builds EXCEPT ![b] = FreeBuild]
    PROVE  /\ BuildsMeaningful'
           /\ \A c \in Builds : builds'[c].port \in {None, builds[c].port}
           /\ \A c \in Builds : builds'[c].of = IF c = b THEN None ELSE builds[c].of
<1>1. \A c \in Builds : builds'[c] = IF c = b THEN FreeBuild ELSE builds[c]
  BY DEF Typed, BuildsType
<1> QED BY <1>1, FreeBuildTyped DEF BuildsMeaningful

Held == BuildsMeaningful /\ PortsHeld

LEMMA PipelineFailsHolds ==
    ASSUME Typed, Held, NEW s \in Sessions, NEW ps \in [Procs -> ProcRows], PipelineFails(s, ps)
    PROVE  Held'
<1>1. CASE FailSession(s, ps, builds)
  <2>1. CloseRuntime({s}, ps) /\ builds' = builds
    BY <1>1 DEF FailSession
  <2> QED BY <2>1, CloseHolds DEF Held, BuildsMeaningful
<1>2. ASSUME NEW b \in Builds, BeginPipeline(b, s, "retry", ps) PROVE Held'
  <2>1. CloseRuntime({s}, ps)
    BY <1>2 DEF BeginPipeline
  <2> QED BY <1>2, <2>1, BeginBuilds, CloseHolds DEF Held
<1> QED BY <1>1, <1>2, PipelineFailsCases

LEMMA BuildsHold ==
    ASSUME Typed, Held, NEW b \in Builds, BuildGoesOn(b)
    PROVE  Held'
<1> USE DEF Held
<1> DEFINE s == builds[b].of
<1>1. builds[b].stage # "none" /\ s \in Sessions
  <2>1. builds[b].stage # "none"
    BY DEF BuildGoesOn, DirsReady, NextTap, TapOpened, SdpWritten, Spawn, BuildFails
  <2> QED BY <2>1, BuildRowsTyped DEF BuildsMeaningful
<1>2. CASE DirsReady(b)
  <2>1. BeginPipeline(b, s, "start", procs)
    BY <1>2 DEF DirsReady
  <2>2. CloseRuntime({s}, procs)
    BY <2>1 DEF BeginPipeline
  <2> QED BY <1>1, <2>1, <2>2, BeginBuilds, CloseHolds
<1>3. ASSUME NEW port \in Ports, NextTap(b, port) PROVE Held'
  <2>1. /\ builds[b].stage = "turn" /\ builds[b].left > 0 /\ port \notin portsInUse /\ port # None
        /\ portsInUse' = portsInUse \cup {port} /\ taps' = taps
        /\ builds' = [builds EXCEPT ![b] = [builds[b] EXCEPT !.stage = "opening", !.port = port]]
    BY <1>3, NoneIsNoId DEF NextTap, MoreTaps, FreePort
  <2> DEFINE next == [builds[b] EXCEPT !.stage = "opening", !.port = port]
  <2>2. next.of = s /\ next.left = builds[b].left /\ next.stage = "opening" /\ next.port = port
    BY DEF Typed, BuildsType, BuildRows
  <2>3. \A c \in Builds : builds'[c] = IF c = b THEN next ELSE builds[c]
    BY <2>1 DEF Typed, BuildsType
  <2> HIDE DEF next
  <2>4. BuildsMeaningful'
    BY <1>1, <2>1, <2>2, <2>3, NoneIsNoId DEF BuildsMeaningful
  <2>5. \A c \in Builds : builds[c].port # port
    BY <2>1 DEF PortsHeld
  <2>6. \A t \in Sessions : port \notin taps[t] /\ taps'[t] \subseteq portsInUse'
    BY <2>1 DEF PortsHeld
  <2>7. PortsHeld'
    BY <2>1, <2>2, <2>3, <2>5, <2>6 DEF PortsHeld
  <2> QED BY <2>4, <2>7
<1>4. CASE TapOpened(b)
  <2>1. /\ builds[b].stage = "opening" /\ builds[b].port # None /\ builds[b].left > 0
        /\ taps' = [taps EXCEPT ![s] = @ \cup {builds[b].port}] /\ portsInUse' = portsInUse
        /\ builds' = [builds EXCEPT ![b] = [builds[b] EXCEPT !.stage = "writing", !.port = None]]
    BY <1>4 DEF TapOpened, BuildsMeaningful
  <2> DEFINE next == [builds[b] EXCEPT !.stage = "writing", !.port = None]
  <2>2. next.of = s /\ next.left = builds[b].left /\ next.stage = "writing" /\ next.port = None
    BY DEF Typed, BuildsType, BuildRows
  <2>3. \A c \in Builds : builds'[c] = IF c = b THEN next ELSE builds[c]
    BY <2>1 DEF Typed, BuildsType
  <2> HIDE DEF next
  <2>4. BuildsMeaningful'
    BY <1>1, <2>1, <2>2, <2>3, NoneIsNoId DEF BuildsMeaningful
  <2>5. \A t \in Sessions : taps'[t] = IF t = s THEN taps[t] \cup {builds[b].port} ELSE taps[t]
    BY <1>1, <2>1 DEF Typed, RunType
  <2>6. /\ builds[b].port \in portsInUse /\ \A t \in Sessions : builds[b].port \notin taps[t]
        /\ \A c \in Builds : c # b => builds[c].port # builds[b].port
    BY <2>1 DEF PortsHeld
  <2>7. \A t \in Sessions : taps'[t] \subseteq portsInUse'
    BY <2>1, <2>5, <2>6 DEF PortsHeld
  <2>8. \A t, u \in Sessions : t # u => taps'[t] \cap taps'[u] = {}
    <3> SUFFICES ASSUME NEW t \in Sessions, NEW u \in Sessions, t # u, NEW port \in taps'[t], port \in taps'[u]
                 PROVE  FALSE
      OBVIOUS
    <3>1. /\ port \in taps[t] \/ (t = s /\ port = builds[b].port)
          /\ port \in taps[u] \/ (u = s /\ port = builds[b].port)
      BY <2>5
    <3>2. port \in taps[t] /\ port \in taps[u]
      BY <2>6, <3>1
    <3> QED BY <3>2 DEF PortsHeld
  <2>9. ASSUME NEW c \in Builds, builds'[c].port # None
        PROVE  /\ builds'[c].port \in portsInUse' /\ \A t \in Sessions : builds'[c].port \notin taps'[t]
               /\ \A d \in Builds : c # d => builds'[d].port # builds'[c].port
    <3>1. c # b /\ builds'[c] = builds[c]
      BY <2>2, <2>3, <2>9
    <3>2. builds[c].port # builds[b].port /\ builds[c].port # None
      BY <2>6, <2>9, <3>1
    <3>3. \A d \in Builds : builds'[d].port \in {None, builds[d].port}
      BY <2>2, <2>3
    <3> QED BY <2>1, <2>5, <2>9, <3>1, <3>2, <3>3 DEF PortsHeld
  <2> QED BY <2>4, <2>7, <2>8, <2>9 DEF PortsHeld
<1>5. CASE SdpWritten(b)
  <2>1. /\ builds[b].stage = "writing" /\ UNCHANGED <<taps, portsInUse>>
        /\ builds' = [builds EXCEPT ![b].stage = "turn", ![b].left = @ - 1]
    BY <1>5 DEF SdpWritten, runtime
  <2>2. /\ builds'[b].of = s /\ builds'[b].stage = "turn" /\ builds'[b].port = builds[b].port
        /\ \A c \in Builds : c # b => builds'[c] = builds[c]
    BY <2>1 DEF Typed, BuildsType, BuildRows
  <2>3. builds[b].port = None
    BY <2>1 DEF BuildsMeaningful
  <2>4. BuildsMeaningful'
    BY <1>1, <2>2, <2>3, NoneIsNoId DEF BuildsMeaningful
  <2>5. PortsHeld'
    BY <2>1, <2>2, PortsUntouched
  <2> QED BY <2>4, <2>5
<1>6. ASSUME NEW p \in Procs, Spawn(b, p) PROVE Held'
  <2>1. builds' = [builds EXCEPT ![b] = FreeBuild] /\ UNCHANGED <<taps, portsInUse>>
    BY <1>6 DEF Spawn
  <2> QED BY <2>1, FreedBuilds, PortsUntouched
<1>7. CASE BuildFails(b)
  <2> DEFINE bs == [builds EXCEPT ![b] = FreeBuild]
  <2>1. \/ builds' = bs /\ UNCHANGED <<taps, portsInUse>>
        \/ builds' = bs /\ CloseRuntime({s}, procs)
    BY <1>7 DEF BuildFails, FailSession, runtime
  <2> QED BY <1>1, <2>1, FreedBuilds, PortsUntouched, CloseHolds
<1> QED BY <1>2, <1>3, <1>4, <1>5, <1>6, <1>7 DEF BuildGoesOn

\* The handlers that are no build's.
LEMMA OthersHold ==
    ASSUME Typed, Held,
           \/ \E s \in Sessions :
                 \/ StartCheck(s) \/ RowCreated(s) \/ StartCreate(s) \/ StartTimeout(s) \/ MembershipChanges(s) \/ RestartFires(s)
                 \/ StopRead(s) \/ Stop(s) \/ Finalized(s)
                 \/ \E status \in {"live", "ended", "failed"} : WriteLands(s, status)
           \/ \E p \in Procs : Progress(p) \/ ProcExits(p)
           \/ \E ends \in BOOLEAN : RoomCloses(ends)
           \/ ServerRestart
    PROVE  Held'
<1> USE DEF Held
<1>1. CASE UNCHANGED <<builds, taps, portsInUse>>
  BY <1>1 DEF BuildsMeaningful, PortsHeld
<1>2. ASSUME NEW s \in Sessions, StartCreate(s) PROVE Held'
  <2>1. PICK b \in Builds : builds' = [builds EXCEPT ![b] = [FreeBuild EXCEPT !.of = s, !.stage = "dirs"]]
    BY <1>2 DEF StartCreate
  <2> DEFINE new == [FreeBuild EXCEPT !.of = s, !.stage = "dirs"]
  <2>2. new.of = s /\ new.stage = "dirs" /\ new.port = None /\ s # None
    BY NoneIsNoId DEF FreeBuild
  <2>3. \A c \in Builds : builds'[c] = IF c = b THEN new ELSE builds[c]
    BY <2>1 DEF Typed, BuildsType
  <2>4. UNCHANGED <<taps, portsInUse>>
    BY <1>2 DEF StartCreate, runtime
  <2> HIDE DEF new
  <2>5. BuildsMeaningful'
    BY <2>2, <2>3 DEF BuildsMeaningful
  <2>6. \A c \in Builds : builds'[c].port \in {None, builds[c].port}
    BY <2>2, <2>3
  <2> QED BY <2>4, <2>5, <2>6, PortsUntouched
<1>3. ASSUME NEW s \in Sessions, StartTimeout(s) PROVE Held'
  BY <1>3, PipelineFailsHolds DEF StartTimeout, Typed, RunType
<1>4. ASSUME NEW s \in Sessions, RestartFires(s) PROVE Held'
  <2>1. CASE UNCHANGED <<startTimer, runtime, builds>>
    BY <1>1, <2>1 DEF runtime
  <2>2. ASSUME NEW b \in Builds, BeginPipeline(b, s, "member", procs) PROVE Held'
    <3>1. CloseRuntime({s}, procs)
      BY <2>2 DEF BeginPipeline
    <3> QED BY <2>2, <3>1, BeginBuilds, CloseHolds
  <2> QED BY <1>4, <2>1, <2>2 DEF RestartFires
<1>5. ASSUME NEW p \in Procs, ProcExits(p) PROVE Held'
  <2> DEFINE s == procs[p].of
             ps == [procs EXCEPT ![p] = FreeProc]
  <2>1. s \in Sessions /\ ps \in [Procs -> ProcRows]
    BY <1>5, FreeProcTyped DEF ProcExits, Typed, RunType, ProcRows
  <2>2. PipelineFails(s, ps) \/ UNCHANGED <<builds, taps, portsInUse>>
    BY <1>5 DEF ProcExits
  <2> HIDE DEF ps
  <2> QED BY <1>1, <2>1, <2>2, PipelineFailsHolds
<1>6. ASSUME NEW S \in SUBSET Sessions, Finalize(S), builds' = builds PROVE Held'
  <2>1. CloseRuntime({s \in S : rt[s] = "starting"}, procs)
    BY <1>6 DEF Finalize
  <2>2. {s \in S : rt[s] = "starting"} \in SUBSET Sessions
    OBVIOUS
  <2> QED BY <1>6, <2>1, <2>2, CloseHolds DEF BuildsMeaningful
<1>7. ASSUME NEW s \in Sessions, Stop(s) PROVE Held'
  <2>1. builds' = builds /\ (Finalize({s}) \/ UNCHANGED <<taps, portsInUse>>)
    BY <1>7 DEF Stop, runtime
  <2>2. {s} \in SUBSET Sessions
    OBVIOUS
  <2> QED BY <1>1, <1>6, <2>1, <2>2
<1>8. ASSUME NEW ends \in BOOLEAN, RoomCloses(ends) PROVE Held'
  BY <1>6, <1>8 DEF RoomCloses
<1>9. CASE ServerRestart
  <2>1. /\ \A b \in Builds : builds'[b] = FreeBuild
        /\ \A s \in Sessions : taps'[s] = {}
    BY <1>9 DEF ServerRestart
  <2> QED BY <2>1, FreeBuildTyped DEF BuildsMeaningful, PortsHeld
<1>10. ASSUME NEW s \in Sessions,
              \/ StartCheck(s) \/ RowCreated(s) \/ MembershipChanges(s) \/ StopRead(s) \/ Finalized(s)
              \/ \E status \in {"live", "ended", "failed"} : WriteLands(s, status)
       PROVE  Held'
  BY <1>1, <1>10 DEF StartCheck, RowCreated, MembershipChanges, StopRead, Finalized, WriteLands, runtime
<1>11. ASSUME NEW p \in Procs, Progress(p) PROVE Held'
  BY <1>1, <1>11 DEF Progress, runtime
<1> QED BY <1>2, <1>3, <1>4, <1>5, <1>7, <1>8, <1>9, <1>10, <1>11, Zenon

LEMMA StepHolds == Typed /\ Held /\ [Next]_vars => Held'
<1> SUFFICES ASSUME Typed, Held, [Next]_vars PROVE Held'
  OBVIOUS
<1>1. CASE Next
  BY <1>1, BuildsHold, OthersHold, Zenon DEF Next
<1>2. CASE UNCHANGED vars
  BY <1>2 DEF vars, runtime, Held, BuildsMeaningful, PortsHeld
<1> QED BY <1>1, <1>2

LEMMA InitHolds == Init => Held
<1> SUFFICES ASSUME Init PROVE Held
  OBVIOUS
<1>1. (\A b \in Builds : builds[b] = FreeBuild) /\ \A s \in Sessions : taps[s] = {}
  BY DEF Init
<1> QED BY <1>1, FreeBuildTyped DEF Held, BuildsMeaningful, PortsHeld

LEMMA PortsFollow == Typed /\ Held => PortsInv
<1> SUFFICES ASSUME Typed, Held PROVE PortsInv
  OBVIOUS
<1>1. TypeOK
  BY DEF Typed, RowsType, LifeType, RunType, BuildsType, ProcRows, BuildRows, TypeOK
<1>2. \A s, t \in Sessions : s # t => taps[s] \cap taps[t] = {}
  BY DEF Held, PortsHeld
<1>3. \A b, c \in Builds : b # c /\ builds[b].stage = "opening" => builds[c].port # builds[b].port
  BY DEF Held, BuildsMeaningful, PortsHeld
<1>4. \A b \in Builds, s \in Sessions : builds[b].port \notin taps[s]
  <2> SUFFICES ASSUME NEW b \in Builds, NEW s \in Sessions, builds[b].port \in taps[s] PROVE FALSE
    OBVIOUS
  <2>1. builds[b].port \in Ports
    BY DEF Typed, RunType
  <2> QED BY <2>1, NoneIsNoId DEF Held, PortsHeld
<1>5. UNION {taps[s] : s \in Sessions} \subseteq portsInUse
  BY DEF Held, PortsHeld
<1> QED BY <1>1, <1>2, <1>3, <1>4, <1>5 DEF PortsInv, PortsExclusive

\* No two taps share a port, and none that is in use is given away, however
\* builds, restarts, stops, failures and a restart of the server overlap.
THEOREM PortsAlwaysExclusive == Spec => []PortsInv
<1>1. Init => Typed /\ Held
  BY InitTyped, InitHolds
<1>2. Typed /\ Held /\ [Next]_vars => Typed' /\ Held'
  BY StepTyped, StepHolds DEF Held
<1> QED BY <1>1, <1>2, PortsFollow, PTL DEF Spec

-----------------------------------------------------------------------------
(* Programs.                                                               *)

\* A session whose builds did not overlap has one build at most, nothing
\* running beside it, no timer it has lost, one program, and none of these
\* once it is stopping.
Orderly(s) ==
    /\ \A b, c \in BuildsOf(s) : b = c
    /\ BuildsOf(s) # {} => Producing(s) = {} /\ s \notin startTimer
    /\ s \notin strays
    /\ Producing(s) \subseteq {current[s]}
    /\ rt[s] = "stopping" => /\ BuildsOf(s) = {} /\ Producing(s) = {}
                             /\ taps[s] = {} /\ s \notin startTimer

\* A session without a runtime has nothing of one.
Unborn(s) ==
    /\ BuildsOf(s) = {} /\ taps[s] = {}
    /\ \A p \in Procs : procs[p].of # s
    /\ s \notin startTimer \cup strays \cup restartTimer

InOrder(s) ==
    /\ s \notin overlapped => Orderly(s)
    /\ rt[s] = "stopping" => s \notin restartTimer
    /\ rt[s] = "none" => Unborn(s)

\* A row comes before all that is done in its name, and the start that awaits
\* it before the runtime.
RowFirst(s) ==
    /\ s \in checking => rt[s] = "none"
    /\ row[s] = "none" => /\ rt[s] = "none" /\ writes[s] = {}
                          /\ s \notin stopReads /\ s \notin finalizing

\* A handler of another session's leaves all that alone.
Untouched(t) ==
    /\ BuildsOf(t)' = BuildsOf(t)
    /\ \A p \in Procs : /\ procs'[p].of = t <=> procs[p].of = t
                        /\ procs[p].of = t => procs'[p] = procs[p]
    /\ current'[t] = current[t] /\ taps'[t] = taps[t] /\ rt'[t] = rt[t]
    /\ t \in startTimer' <=> t \in startTimer
    /\ t \in strays' <=> t \in strays
    /\ t \in restartTimer' <=> t \in restartTimer

LEMMA UntouchedKeeps ==
    ASSUME NEW t \in Sessions, InOrder(t), Untouched(t), overlapped \subseteq overlapped'
    PROVE  InOrder(t)'
<1>1. Producing(t)' = Producing(t)
  BY DEF Producing, Untouched
<1>2. Orderly(t) => Orderly(t)'
  BY <1>1 DEF Orderly, Untouched
<1>3. Unborn(t) => Unborn(t)'
  BY DEF Unborn, Untouched
<1> QED BY <1>2, <1>3 DEF InOrder, Untouched

\* What a closed runtime leaves of a session that was in order: nothing that
\* produces; and of the others, everything.
Quiets(S) ==
    /\ \A s \in S : /\ taps'[s] = {}
                    /\ Producing(s) \subseteq {current[s]} => \A p \in Procs : procs'[p].of = s => procs'[p].told
    /\ \A t \in Sessions \ S :
          /\ current'[t] = current[t] /\ taps'[t] = taps[t]
          /\ \A p \in Procs : /\ procs'[p].of = t <=> procs[p].of = t
                              /\ procs[p].of = t => procs'[p] = procs[p]

LEMMA CloseQuiets ==
    ASSUME Typed, NEW S \in SUBSET Sessions, NEW ps \in [Procs -> ProcRows], CloseRuntime(S, ps),
           \A p \in Procs : ps[p] = procs[p] \/ (procs[p].of \in S /\ ps[p] = FreeProc)
    PROVE  Quiets(S)
<1>1. \A p \in Procs : /\ procs[p] \in ProcRows /\ ps[p] \in ProcRows
                       /\ procs'[p] = IF ps[p].of \in S /\ current[ps[p].of] = p THEN [ps[p] EXCEPT !.told = TRUE] ELSE ps[p]
  BY DEF CloseRuntime, Typed, RunType
<1>2. ASSUME NEW p \in Procs
      PROVE  /\ procs'[p].of = ps[p].of
             /\ ps[p].of \in S /\ current[ps[p].of] = p => procs'[p].told
  <2> DEFINE r == ps[p]
  <2>1. r \in ProcRows /\ procs'[p] = IF r.of \in S /\ current[r.of] = p THEN [r EXCEPT !.told = TRUE] ELSE r
    BY <1>1
  <2> HIDE DEF r
  <2>2. [r EXCEPT !.told = TRUE].of = r.of /\ [r EXCEPT !.told = TRUE].told
    BY <2>1 DEF ProcRows
  <2>3. procs'[p].of = r.of /\ (r.of \in S /\ current[r.of] = p => procs'[p].told)
    BY <2>1, <2>2
  <2> QED BY <2>3 DEF r
<1>3. ASSUME NEW s \in S, Producing(s) \subseteq {current[s]}
      PROVE  \A p \in Procs : procs'[p].of = s => procs'[p].told
  <2> SUFFICES ASSUME NEW p \in Procs, procs'[p].of = s, ~procs'[p].told PROVE FALSE
    OBVIOUS
  <2>1. ps[p].of = s /\ s # None
    BY <1>2, NoneIsNoId
  <2>2. ps[p] = procs[p]
    BY <2>1, FreeProcTyped
  <2>3. current[s] # p
    BY <1>2, <2>1
  <2>4. ~procs[p].told
    BY <1>1, <2>1, <2>2, <2>3
  <2> QED BY <1>3, <2>1, <2>2, <2>3, <2>4 DEF Producing
<1>4. ASSUME NEW t \in Sessions \ S, NEW p \in Procs
      PROVE  /\ procs'[p].of = t <=> procs[p].of = t
             /\ procs[p].of = t => procs'[p] = procs[p]
  <2>1. CASE procs[p].of = t
    <3>1. ps[p] = procs[p]
      BY <2>1
    <3> QED BY <1>1, <2>1, <3>1
  <2>2. CASE procs[p].of # t
    <3>1. ps[p].of # t
      BY <2>2, FreeProcTyped, NoneIsNoId
    <3> QED BY <1>2, <2>2, <3>1
  <2> QED BY <2>1, <2>2
<1>5. \A s \in Sessions : taps'[s] = (IF s \in S THEN {} ELSE taps[s]) /\ (s \notin S => current'[s] = current[s])
  BY DEF CloseRuntime
<1> QED BY <1>3, <1>4, <1>5 DEF Quiets

LEMMA OverlapSeen ==
    ASSUME NoteOverlap, NEW s \in Sessions, s \notin overlapped'
    PROVE  /\ s \notin overlapped /\ \A b, c \in BuildsOf(s)' : b = c
           /\ rt'[s] = "stopping" => BuildsOf(s)' = {}
  BY DEF NoteOverlap

LEMMA OverlapGrows == NoteOverlap => overlapped \subseteq overlapped'
  BY DEF NoteOverlap

\* A session whose pipeline is begun, from a process of it that is gone or
\* without one.
LEMMA BeginInOrder ==
    ASSUME Typed, Held, \A t \in Sessions : InOrder(t), NEW b \in Builds, NEW s \in Sessions, NEW kind,
           NEW ps \in [Procs -> ProcRows],
           \A p \in Procs : ps[p] = procs[p] \/ (procs[p].of = s /\ ps[p] = FreeProc),
           builds[b].of \in {None, s}, rt[s] # "none", BeginPipeline(b, s, kind, ps), NoteOverlap, UNCHANGED rt,
           restartTimer' \in {restartTimer, restartTimer \ {s}}, strays' \in {strays, strays \ {s}}
    PROVE  \A t \in Sessions : InOrder(t)'
<1>1. /\ CloseRuntime({s}, ps) /\ startTimer' = startTimer \ {s} /\ {s} \in SUBSET Sessions
      /\ \A c \in Builds : builds'[c].of = IF c = b THEN s ELSE builds[c].of
  BY BeginBuilds DEF BeginPipeline, Held
<1>2. Quiets({s})
  <2>1. \A p \in Procs : ps[p] = procs[p] \/ (procs[p].of \in {s} /\ ps[p] = FreeProc)
    OBVIOUS
  <2> QED BY <1>1, <2>1, CloseQuiets
<1>3. \A t \in Sessions \ {s} : Untouched(t)
  <2> SUFFICES ASSUME NEW t \in Sessions \ {s} PROVE Untouched(t)
    OBVIOUS
  <2>1. BuildsOf(t)' = BuildsOf(t)
    BY <1>1, NoneIsNoId DEF BuildsOf
  <2>2. /\ current'[t] = current[t] /\ taps'[t] = taps[t]
        /\ \A p \in Procs : /\ procs'[p].of = t <=> procs[p].of = t
                            /\ procs[p].of = t => procs'[p] = procs[p]
    BY <1>2 DEF Quiets
  <2> QED BY <1>1, <2>1, <2>2 DEF Untouched
<1>4. InOrder(s)'
  <2>1. CASE s \in overlapped'
    BY <2>1 DEF InOrder
  <2>2. CASE s \notin overlapped'
    <3>1. Orderly(s) /\ \A c, d \in BuildsOf(s)' : c = d
      BY <2>2, OverlapSeen DEF InOrder
    <3>2. BuildsOf(s)' # {} /\ rt'[s] # "stopping"
      BY <1>1, <2>2, OverlapSeen DEF BuildsOf
    <3>3. Producing(s)' = {} /\ taps'[s] = {}
      BY <1>2, <3>1 DEF Orderly, Producing, Quiets
    <3> QED BY <1>1, <3>1, <3>2, <3>3 DEF InOrder, Orderly
  <2> QED BY <2>1, <2>2
<1> QED BY <1>3, <1>4, UntouchedKeeps, OverlapGrows

\* A session that is failed, or finalized: `bs' is what is left of its builds.
LEMMA StopInOrder ==
    ASSUME Typed, \A t \in Sessions : InOrder(t), NEW S \in SUBSET Sessions,
           NEW ps \in [Procs -> ProcRows],
           \A p \in Procs : ps[p] = procs[p] \/ (procs[p].of \in S /\ ps[p] = FreeProc),
           \A t \in Sessions \ S : BuildsOf(t)' = BuildsOf(t),
           CloseRuntime(S, ps), ClearTimers(S), NoteOverlap,
           rt' = [s \in Sessions |-> IF s \in S THEN "stopping" ELSE rt[s]],
           \A t \in Sessions \ S : t \in strays' <=> t \in strays, strays' \subseteq strays
    PROVE  \A t \in Sessions : InOrder(t)'
<1>1. Quiets(S)
  BY CloseQuiets
<1>2. \A t \in Sessions \ S : Untouched(t)
  BY <1>1 DEF ClearTimers, Untouched, Quiets
<1>3. ASSUME NEW s \in S PROVE InOrder(s)'
  <2>1. rt'[s] = "stopping" /\ s \notin restartTimer' /\ s \notin startTimer' /\ s \in Sessions
    BY DEF ClearTimers
  <2>2. CASE s \notin overlapped'
    <3>1. Orderly(s) /\ BuildsOf(s)' = {}
      BY <2>1, <2>2, OverlapSeen DEF InOrder
    <3>2. Producing(s) \subseteq {current[s]} /\ s \notin strays'
      BY <3>1 DEF Orderly
    <3>3. Producing(s)' = {} /\ taps'[s] = {}
      BY <1>1, <3>2 DEF Producing, Quiets
    <3> QED BY <2>1, <3>1, <3>2, <3>3 DEF InOrder, Orderly
  <2> QED BY <2>1, <2>2 DEF InOrder
<1> QED BY <1>2, <1>3, UntouchedKeeps, OverlapGrows

\* A handler that leaves every session's run alone.
LEMMA IdleInOrder ==
    ASSUME \A t \in Sessions : InOrder(t), \A t \in Sessions : BuildsOf(t)' = BuildsOf(t),
           UNCHANGED <<procs, current, taps, rt, startTimer, strays, restartTimer>>,
           overlapped \subseteq overlapped'
    PROVE  \A t \in Sessions : InOrder(t)'
<1>1. \A t \in Sessions : Untouched(t)
  BY DEF Untouched
<1> QED BY <1>1, UntouchedKeeps

\* Whatever something of a session's is left of has a runtime.
LEMMA Born ==
    ASSUME NEW s \in Sessions, InOrder(s),
           \/ BuildsOf(s) # {} \/ taps[s] # {} \/ \E p \in Procs : procs[p].of = s
           \/ s \in startTimer \cup strays \cup restartTimer
    PROVE  rt[s] # "none"
  BY DEF InOrder, Unborn

LEMMA PipelineFailsInOrder ==
    ASSUME Typed, Held, \A t \in Sessions : InOrder(t), NEW s \in Sessions, NEW ps \in [Procs -> ProcRows],
           \A p \in Procs : ps[p] = procs[p] \/ (procs[p].of = s /\ ps[p] = FreeProc),
           rt[s] # "none", PipelineFails(s, ps), NoteOverlap, strays' \in {strays, strays \ {s}}
    PROVE  \A t \in Sessions : InOrder(t)'
<1>1. CASE FailSession(s, ps, builds)
  <2>1. /\ ClearTimers({s}) /\ CloseRuntime({s}, ps) /\ builds' = builds
        /\ rt' = [t \in Sessions |-> IF t \in {s} THEN "stopping" ELSE rt[t]]
    BY <1>1 DEF FailSession, Typed, LifeType
  <2>2. \A t \in Sessions \ {s} : BuildsOf(t)' = BuildsOf(t)
    BY <2>1 DEF BuildsOf
  <2>3. \A p \in Procs : ps[p] = procs[p] \/ (procs[p].of \in {s} /\ ps[p] = FreeProc)
    OBVIOUS
  <2>4. {s} \in SUBSET Sessions /\ (\A t \in Sessions \ {s} : t \in strays' <=> t \in strays) /\ strays' \subseteq strays
    OBVIOUS
  <2> QED BY <2>1, <2>2, <2>3, <2>4, StopInOrder
<1>2. CASE /\ \E b \in Builds : CanBuild(b, ps) /\ BeginPipeline(b, s, "retry", ps)
           /\ UNCHANGED <<rt, sessions, writes, restartTimer>>
  <2>1. PICK b \in Builds : builds[b].of = None /\ BeginPipeline(b, s, "retry", ps)
    BY <1>2 DEF CanBuild
  <2>2. UNCHANGED rt /\ restartTimer' \in {restartTimer, restartTimer \ {s}}
    BY <1>2
  <2> QED BY <2>1, <2>2, BeginInOrder
<1> QED BY <1>1, <1>2, PipelineFailsCases

\* The sessions that are finalized.
LEMMA FinalizeInOrder ==
    ASSUME Typed, \A t \in Sessions : InOrder(t), NEW S \in SUBSET Sessions, Finalize(S), NoteOverlap,
           UNCHANGED <<builds, strays>>
    PROVE  \A t \in Sessions : InOrder(t)'
<1> DEFINE F == {s \in S : rt[s] = "starting"}
<1>1. /\ F \in SUBSET Sessions /\ CloseRuntime(F, procs) /\ ClearTimers(F)
      /\ rt' = [s \in Sessions |-> IF s \in F THEN "stopping" ELSE rt[s]]
  BY Zenon DEF Finalize
<1>2. (\A t \in Sessions : BuildsOf(t)' = BuildsOf(t)) /\ procs \in [Procs -> ProcRows]
  BY DEF BuildsOf, Typed, RunType
<1> HIDE DEF F
<1> QED BY <1>1, <1>2, StopInOrder

Ordered == (\A t \in Sessions : InOrder(t)) /\ (\A t \in Sessions : RowFirst(t))

LEMMA CreateInOrder ==
    ASSUME Typed, Held, Ordered, NEW s \in Sessions, StartCreate(s)
    PROVE  \A t \in Sessions : InOrder(t)'
<1>1. PICK b \in Builds : /\ builds[b].of = None
                          /\ builds' = [builds EXCEPT ![b] = [FreeBuild EXCEPT !.of = s, !.stage = "dirs"]]
  BY DEF StartCreate, CanBuild
<1>2. \A c \in Builds : builds'[c].of = IF c = b THEN s ELSE builds[c].of
  BY <1>1, FreeBuildTyped DEF Typed, BuildsType, BuildRows, FreeBuild
<1>3. /\ UNCHANGED <<procs, current, taps, startTimer, strays, restartTimer, overlapped>>
      /\ rt' = [rt EXCEPT ![s] = "starting"] /\ s \in checking
  BY Zenon DEF StartCreate, timers, runtime, history
<1>4. \A t \in Sessions \ {s} : Untouched(t)
  <2> SUFFICES ASSUME NEW t \in Sessions \ {s} PROVE Untouched(t)
    OBVIOUS
  <2>1. BuildsOf(t)' = BuildsOf(t)
    BY <1>1, <1>2, NoneIsNoId DEF BuildsOf
  <2>2. rt'[t] = rt[t]
    BY <1>3 DEF Typed, LifeType
  <2> QED BY <1>3, <2>1, <2>2 DEF Untouched
<1>5. InOrder(s)'
  <2>1. Unborn(s)
    BY <1>3 DEF Ordered, InOrder, RowFirst
  <2>2. rt'[s] = "starting"
    BY <1>3 DEF Typed, LifeType
  <2>3. \A c, d \in BuildsOf(s)' : c = d
    BY <1>2, <2>1 DEF BuildsOf, Unborn
  <2>4. Producing(s)' = {}
    BY <1>3, <2>1 DEF Producing, Unborn
  <2> QED BY <1>3, <2>1, <2>2, <2>3, <2>4 DEF InOrder, Orderly, Unborn
<1> QED BY <1>3, <1>4, <1>5, UntouchedKeeps DEF Ordered

LEMMA ProducingKept == ASSUME UNCHANGED procs, NEW s \in Sessions PROVE Producing(s)' = Producing(s)
  BY DEF Producing

\* The steps of a build: only its own session is touched, and that is not
\* stopping unless builds overlapped.
LEMMA BuildsInOrder ==
    ASSUME Typed, Held, \A t \in Sessions : InOrder(t), NEW b \in Builds, BuildGoesOn(b)
    PROVE  \A t \in Sessions : InOrder(t)'
<1>0. builds[b].stage # "none"
  <2>1. \A p \in Procs : Spawn(b, p) => builds[b].stage = "turn"
    BY DEF Spawn
  <2>5. \A port \in Ports : NextTap(b, port) => builds[b].stage = "turn"
    BY Zenon DEF NextTap
  <2>2. DirsReady(b) => builds[b].stage = "dirs"
    BY DEF DirsReady
  <2>3. TapOpened(b) \/ SdpWritten(b) => builds[b].stage \in {"opening", "writing"}
    BY DEF TapOpened, SdpWritten
  <2>4. BuildFails(b) => builds[b].stage # "none"
    BY DEF BuildFails
  <2> QED BY <2>1, <2>2, <2>3, <2>4, <2>5 DEF BuildGoesOn
<1>a. PICK s \in Sessions : s = builds[b].of
  BY <1>0, BuildRowsTyped DEF Held, BuildsMeaningful
<1>1. /\ b \in BuildsOf(s) /\ rt[s] # "none" /\ (s \notin overlapped => rt[s] # "stopping")
      /\ InOrder(s) /\ (s \notin overlapped => Orderly(s))
  <2>1. b \in BuildsOf(s)
    BY <1>a DEF BuildsOf
  <2> QED BY <2>1, Born DEF InOrder, Orderly
<1>2. procs \in [Procs -> ProcRows]
  BY DEF Typed, RunType
<1>3. ASSUME builds' = [builds EXCEPT ![b] = FreeBuild]
      PROVE  \A t \in Sessions : BuildsOf(t)' = BuildsOf(t) \ {b}
  <2>1. \A c \in Builds : builds'[c].of = IF c = b THEN None ELSE builds[c].of
    BY <1>3, FreeBuildTyped DEF Typed, BuildsType
  <2> QED BY <2>1, NoneIsNoId DEF BuildsOf
<1>4. CASE DirsReady(b)
  <2>1. BeginPipeline(b, s, "start", procs) /\ NoteOverlap /\ UNCHANGED <<rt, restartTimer, strays>>
    BY <1>a, <1>4 DEF DirsReady, life
  <2> QED BY <1>a, <1>1, <1>2, <2>1, BeginInOrder
<1>5. ASSUME NEW port \in Ports, NextTap(b, port) PROVE \A t \in Sessions : InOrder(t)'
  <2>1. \A c \in Builds : builds'[c].of = builds[c].of
    BY <1>5 DEF NextTap, Typed, BuildsType, BuildRows
  <2>2. \A t \in Sessions : BuildsOf(t)' = BuildsOf(t)
    BY <2>1 DEF BuildsOf
  <2> QED BY <1>5, <2>2, IdleInOrder DEF NextTap, timers, life, history
<1>6. CASE TapOpened(b)
  <2>1. /\ taps' = [taps EXCEPT ![s] = @ \cup {builds[b].port}]
        /\ UNCHANGED <<procs, current, rt, startTimer, strays, restartTimer, overlapped>>
    BY <1>a, <1>6 DEF TapOpened, timers, life, history
  <2>2. \A c \in Builds : builds'[c].of = builds[c].of
    BY <1>6 DEF TapOpened, Typed, BuildsType, BuildRows
  <2>3. \A t \in Sessions : BuildsOf(t)' = BuildsOf(t)
    BY <2>2 DEF BuildsOf
  <2>4. \A t \in Sessions \ {s} : taps'[t] = taps[t]
    BY <2>1 DEF Typed, RunType
  <2>5. \A t \in Sessions \ {s} : Untouched(t)
    BY <2>1, <2>3, <2>4 DEF Untouched
  <2>6. InOrder(s)'
    BY <1>1, <2>1, <2>3, ProducingKept DEF InOrder, Orderly
  <2> QED BY <2>1, <2>5, <2>6, UntouchedKeeps
<1>7. CASE SdpWritten(b)
  <2>1. \A c \in Builds : builds'[c].of = builds[c].of
    BY <1>7 DEF SdpWritten, Typed, BuildsType, BuildRows
  <2>2. \A t \in Sessions : BuildsOf(t)' = BuildsOf(t)
    BY <2>1 DEF BuildsOf
  <2> QED BY <1>7, <2>2, IdleInOrder DEF SdpWritten, timers, runtime, life, history
<1>8. ASSUME NEW p \in Procs, Spawn(b, p) PROVE \A t \in Sessions : InOrder(t)'
  <2>1. /\ procs[p] = FreeProc /\ procs' = [procs EXCEPT ![p].of = s] /\ current' = [current EXCEPT ![s] = p]
        /\ startTimer' = startTimer \cup {s} /\ strays' = strays \cup ({s} \cap startTimer)
        /\ builds' = [builds EXCEPT ![b] = FreeBuild] /\ UNCHANGED <<restartTimer, taps, rt, overlapped>>
    BY <1>a, <1>8 DEF Spawn, life, history
  <2>2. \A q \in Procs : IF q = p THEN procs'[q].of = s ELSE procs'[q] = procs[q]
    BY <1>2, <2>1 DEF ProcRows
  <2>3. \A t \in Sessions \ {s} : current'[t] = current[t]
    BY <2>1 DEF Typed, RunType
  <2>4. current'[s] = p
    BY <1>1, <2>1 DEF Typed, RunType
  <2>5. \A t \in Sessions \ {s} : Untouched(t)
    <3> SUFFICES ASSUME NEW t \in Sessions \ {s} PROVE Untouched(t)
      OBVIOUS
    <3>1. BuildsOf(t)' = BuildsOf(t)
      BY <1>a, <1>3, <2>1 DEF BuildsOf
    <3>2. procs[p].of # t
      BY <2>1, FreeProcTyped, NoneIsNoId
    <3> QED BY <2>1, <2>2, <2>3, <3>1, <3>2 DEF Untouched
  <2>6. InOrder(s)'
    <3>1. CASE s \notin overlapped
      <4>1. BuildsOf(s)' = {}
        BY <1>1, <1>3, <2>1, <3>1 DEF InOrder, Orderly
      <4>2. Producing(s) = {} /\ s \notin startTimer \cup strays /\ rt[s] # "stopping"
        BY <1>1, <3>1 DEF InOrder, Orderly
      <4>3. Producing(s)' \subseteq {current'[s]}
        BY <2>2, <2>4, <4>2 DEF Producing
      <4>4. s \notin strays' /\ UNCHANGED rt
        BY <2>1, <4>2
      <4> QED BY <1>1, <4>1, <4>2, <4>3, <4>4 DEF InOrder, Orderly
    <3>2. CASE s \in overlapped
      BY <1>1, <2>1, <3>2 DEF InOrder
    <3> QED BY <3>1, <3>2
  <2> QED BY <2>1, <2>5, <2>6, UntouchedKeeps
<1>9. CASE BuildFails(b)
  <2> DEFINE bs == [builds EXCEPT ![b] = FreeBuild]
  <2>1. /\ \/ builds' = bs /\ UNCHANGED <<timers, runtime, rt>>
           \/ FailSession(s, procs, bs)
        /\ NoteOverlap /\ UNCHANGED strays
    BY <1>a, <1>9, Zenon DEF BuildFails
  <2>2. builds' = bs
    BY <2>1 DEF FailSession
  <2>3. \A t \in Sessions \ {s} : BuildsOf(t)' = BuildsOf(t)
    BY <1>a, <1>3, <2>2 DEF BuildsOf
  <2>4. CASE UNCHANGED <<timers, runtime, rt>>
    <3>1. UNCHANGED <<procs, current, taps, rt, startTimer, restartTimer, strays>>
      BY <2>1, <2>4 DEF timers, runtime
    <3>2. \A t \in Sessions \ {s} : Untouched(t)
      BY <2>3, <3>1 DEF Untouched
    <3>3. BuildsOf(s)' \subseteq BuildsOf(s) /\ Producing(s)' = Producing(s)
      BY <1>3, <2>2, <3>1, ProducingKept
    <3>4. InOrder(s)'
      <4>1. CASE s \notin overlapped'
        <5>1. s \notin overlapped
          BY <2>1, <4>1, OverlapSeen, <1>1
        <5> QED BY <1>1, <3>1, <3>3, <5>1 DEF InOrder, Orderly
      <4>2. CASE s \in overlapped'
        BY <1>1, <3>1, <4>2 DEF InOrder
      <4> QED BY <4>1, <4>2
    <3> QED BY <2>1, <3>2, <3>4, UntouchedKeeps, OverlapGrows
  <2>5. CASE FailSession(s, procs, bs)
    <3>1. /\ ClearTimers({s}) /\ CloseRuntime({s}, procs)
          /\ rt' = [t \in Sessions |-> IF t \in {s} THEN "stopping" ELSE rt[t]]
      BY <2>5 DEF FailSession, Typed, LifeType
    <3>2. {s} \in SUBSET Sessions
      BY <1>1
    <3> QED BY <1>2, <2>1, <2>3, <3>1, <3>2, StopInOrder
  <2> QED BY <2>1, <2>4, <2>5
<1> QED BY <1>4, <1>5, <1>6, <1>7, <1>8, <1>9 DEF BuildGoesOn

\* What processes, timers and changes of the membership do.
LEMMA RunsInOrder ==
    ASSUME Typed, Held, \A t \in Sessions : InOrder(t),
           \/ \E p \in Procs : Progress(p) \/ ProcExits(p)
           \/ \E s \in Sessions : StartTimeout(s) \/ MembershipChanges(s) \/ RestartFires(s)
    PROVE  \A t \in Sessions : InOrder(t)'
<1>1. procs \in [Procs -> ProcRows]
  BY DEF Typed, RunType
<1>2. ASSUME NEW p \in Procs, Progress(p) PROVE \A t \in Sessions : InOrder(t)'
  <2>1. PICK s \in Sessions : startTimer' = startTimer \ {s} /\ rt[s] = "starting"
    BY <1>2 DEF Progress
  <2>2. UNCHANGED <<procs, current, taps, rt, strays, restartTimer, builds, overlapped>>
    BY <1>2 DEF Progress, runtime, history
  <2>3. \A t \in Sessions \ {s} : Untouched(t)
    BY <2>1, <2>2 DEF Untouched, BuildsOf
  <2>4. BuildsOf(s)' = BuildsOf(s)
    BY <2>2 DEF BuildsOf
  <2>5. InOrder(s)'
    BY <2>1, <2>2, <2>4, ProducingKept DEF InOrder, Orderly
  <2> QED BY <2>2, <2>3, <2>5, UntouchedKeeps
<1>3. ASSUME NEW p \in Procs, ProcExits(p) PROVE \A t \in Sessions : InOrder(t)'
  <2> DEFINE ps == [procs EXCEPT ![p] = FreeProc]
  <2>1. PICK s \in Sessions : s = procs[p].of
    BY <1>1, <1>3 DEF ProcExits, ProcRows
  <2>2. /\ ps \in [Procs -> ProcRows] /\ rt[s] # "none"
        /\ \A q \in Procs : ps[q] = procs[q] \/ (procs[q].of = s /\ ps[q] = FreeProc)
    BY <1>1, <2>1, FreeProcTyped, Born
  <2>3. /\ NoteOverlap /\ UNCHANGED strays
        /\ \/ /\ rt[s] = "stopping"
              /\ procs' = ps /\ current' = [current EXCEPT ![s] = IF @ = p THEN None ELSE @]
              /\ UNCHANGED <<timers, taps, rt, builds>>
           \/ PipelineFails(s, ps)
    BY <1>3, <2>1, Zenon DEF ProcExits, life
  <2>4. CASE PipelineFails(s, ps)
    <3> HIDE DEF ps
    <3> QED BY <2>2, <2>3, <2>4, PipelineFailsInOrder
  <2>5. CASE /\ rt[s] = "stopping"
             /\ procs' = ps /\ current' = [current EXCEPT ![s] = IF @ = p THEN None ELSE @]
             /\ UNCHANGED <<timers, taps, rt, builds>>
    <3>1. UNCHANGED <<taps, rt, builds, startTimer, restartTimer, strays>>
      BY <2>3, <2>5 DEF timers
    <3>2. /\ \A t \in Sessions \ {s} : current'[t] = current[t]
          /\ \A q \in Procs : procs'[q] = IF q = p THEN FreeProc ELSE procs[q]
      BY <1>1, <2>5 DEF Typed, RunType
    <3>3. \A t \in Sessions : BuildsOf(t)' = BuildsOf(t)
      BY <3>1 DEF BuildsOf
    <3>4. \A t \in Sessions \ {s} : Untouched(t)
      BY <2>1, <3>1, <3>2, <3>3, FreeProcTyped, NoneIsNoId DEF Untouched
    <3>5. Producing(s)' \subseteq Producing(s)
      BY <3>2, FreeProcTyped, NoneIsNoId DEF Producing
    <3>6. InOrder(s)'
      BY <2>3, <2>5, <3>1, <3>3, <3>5, OverlapGrows DEF InOrder, Orderly
    <3> QED BY <2>3, <3>4, <3>6, UntouchedKeeps, OverlapGrows
  <2> QED BY <2>3, <2>4, <2>5
<1>4. ASSUME NEW s \in Sessions, StartTimeout(s) PROVE \A t \in Sessions : InOrder(t)'
  <2>1. /\ PipelineFails(s, procs) /\ NoteOverlap /\ strays' \in {strays, strays \ {s}}
        /\ s \in startTimer \cup strays
    BY <1>4 DEF StartTimeout
  <2>2. rt[s] # "none"
    BY <2>1, Born
  <2> QED BY <1>1, <2>1, <2>2, PipelineFailsInOrder
<1>5. ASSUME NEW s \in Sessions, MembershipChanges(s) PROVE \A t \in Sessions : InOrder(t)'
  <2>1. /\ rt[s] = "starting" \/ taps[s] # {}
        /\ rt[s] # "stopping" /\ restartTimer' = restartTimer \cup {s}
        /\ UNCHANGED <<procs, current, taps, rt, startTimer, strays, builds, overlapped>>
    BY <1>5 DEF MembershipChanges, MayReschedule, runtime, life, history
  <2>2. rt[s] # "none"
    BY <2>1, Born
  <2>3. \A t \in Sessions : BuildsOf(t)' = BuildsOf(t)
    BY <2>1 DEF BuildsOf
  <2>4. \A t \in Sessions \ {s} : Untouched(t)
    BY <2>1, <2>3 DEF Untouched
  <2>5. InOrder(s)'
    BY <2>1, <2>2, <2>3, ProducingKept DEF InOrder, Orderly
  <2> QED BY <2>1, <2>4, <2>5, UntouchedKeeps
<1>6. ASSUME NEW s \in Sessions, RestartFires(s) PROVE \A t \in Sessions : InOrder(t)'
  <2>1. rt[s] # "stopping" /\ rt[s] # "none"
    BY <1>6, Born DEF RestartFires, InOrder
  <2>2. PICK b \in Builds : builds[b].of = None /\ BeginPipeline(b, s, "member", procs)
    BY <1>6, <2>1 DEF RestartFires, CanBuild
  <2>3. NoteOverlap /\ UNCHANGED <<rt, strays>> /\ restartTimer' = restartTimer \ {s}
    BY <1>6 DEF RestartFires, life
  <2> QED BY <1>1, <2>1, <2>2, <2>3, BeginInOrder
<1> QED BY <1>2, <1>3, <1>4, <1>5, <1>6

\* Ends, and what only concerns the rows.
LEMMA OthersInOrder ==
    ASSUME Typed, \A t \in Sessions : InOrder(t),
           \/ \E s \in Sessions :
                 \/ StartCheck(s) \/ RowCreated(s) \/ StopRead(s) \/ Stop(s) \/ Finalized(s)
                 \/ \E status \in {"live", "ended", "failed"} : WriteLands(s, status)
           \/ \E ends \in BOOLEAN : RoomCloses(ends)
           \/ ServerRestart
    PROVE  \A t \in Sessions : InOrder(t)'
<1>1. ASSUME UNCHANGED <<builds, procs, current, taps, rt, startTimer, strays, restartTimer>>,
             overlapped \subseteq overlapped'
      PROVE  \A t \in Sessions : InOrder(t)'
  <2>1. \A t \in Sessions : BuildsOf(t)' = BuildsOf(t)
    BY <1>1 DEF BuildsOf
  <2> QED BY <1>1, <2>1, IdleInOrder
<1>2. ASSUME NEW s \in Sessions,
             \/ StartCheck(s) \/ RowCreated(s) \/ StopRead(s) \/ Finalized(s)
             \/ \E status \in {"live", "ended", "failed"} : WriteLands(s, status)
      PROVE  \A t \in Sessions : InOrder(t)'
  BY <1>1, <1>2 DEF StartCheck, RowCreated, StopRead, Finalized, WriteLands, timers, runtime, life, history
<1>3. ASSUME NEW s \in Sessions, Stop(s) PROVE \A t \in Sessions : InOrder(t)'
  <2>1. /\ NoteOverlap /\ UNCHANGED <<builds, strays>>
        /\ Finalize({s}) \/ UNCHANGED <<timers, runtime, rt>>
    BY <1>3, Zenon DEF Stop
  <2>2. {s} \in SUBSET Sessions
    OBVIOUS
  <2> QED BY <1>1, <2>1, <2>2, FinalizeInOrder, OverlapGrows DEF timers, runtime
<1>4. ASSUME NEW ends \in BOOLEAN, RoomCloses(ends) PROVE \A t \in Sessions : InOrder(t)'
  <2>1. NoteOverlap /\ UNCHANGED <<builds, strays>> /\ Finalize(Sessions) /\ Sessions \in SUBSET Sessions
    BY <1>4 DEF RoomCloses
  <2> QED BY <2>1, FinalizeInOrder
<1>5. ASSUME ServerRestart, NEW t \in Sessions PROVE InOrder(t)'
  <2>1. /\ \A b \in Builds : builds'[b] = FreeBuild
        /\ \A p \in Procs : procs'[p] = FreeProc
        /\ rt'[t] = "none" /\ taps'[t] = {} /\ startTimer' = {} /\ strays' = {} /\ restartTimer' = {}
    BY <1>5 DEF ServerRestart
  <2>2. BuildsOf(t)' = {} /\ Producing(t)' = {} /\ \A p \in Procs : procs'[p].of # t
    BY <2>1, FreeBuildTyped, FreeProcTyped, NoneIsNoId DEF BuildsOf, Producing
  <2> QED BY <2>1, <2>2 DEF InOrder, Orderly, Unborn
<1> QED BY <1>2, <1>3, <1>4, <1>5

LEMMA ProgramsStep == Typed /\ Held /\ Ordered /\ [Next]_vars => \A t \in Sessions : InOrder(t)'
<1> SUFFICES ASSUME Typed, Held, Ordered, [Next]_vars PROVE \A t \in Sessions : InOrder(t)'
  OBVIOUS
<1>1. \A t \in Sessions : InOrder(t)
  BY DEF Ordered
<1>2. CASE Next
  BY <1>1, <1>2, CreateInOrder, BuildsInOrder, RunsInOrder, OthersInOrder, Zenon DEF Next
<1>3. CASE UNCHANGED vars
  <2>1. UNCHANGED <<builds, procs, current, taps, rt, startTimer, strays, restartTimer, overlapped>>
    BY <1>3 DEF vars, timers, runtime, history, life
  <2>2. \A t \in Sessions : BuildsOf(t)' = BuildsOf(t)
    BY <2>1 DEF BuildsOf
  <2> QED BY <1>1, <2>1, <2>2, IdleInOrder
<1> QED BY <1>2, <1>3

\* What the name of a session without a row is left out of, stays so.
LEMMA RowKept ==
    ASSUME NEW t \in Sessions, RowFirst(t), UNCHANGED row, checking' \subseteq checking,
           rt[t] = "none" => rt'[t] = "none",
           row[t] = "none" => /\ rt'[t] = rt[t] /\ writes'[t] = writes[t]
                              /\ t \in stopReads' => t \in stopReads
                              /\ t \in finalizing' => t \in finalizing
    PROVE  RowFirst(t)'
  BY DEF RowFirst

\* A pipeline that fails belongs to a session with a row.
LEMMA FailRowFirst ==
    ASSUME Typed, Ordered, NEW s \in Sessions, rt[s] # "none",
           UNCHANGED <<row, requests, finalizing>>, NEW ps \in [Procs -> ProcRows],
           \/ PipelineFails(s, ps)
           \/ \E bs \in [Builds -> BuildRows] : FailSession(s, ps, bs)
           \/ UNCHANGED <<writes, rt>>
    PROVE  \A t \in Sessions : RowFirst(t)'
<1>1. /\ rt' \in {rt, [rt EXCEPT ![s] = "stopping"]}
      /\ writes' \in {writes, [writes EXCEPT ![s] = @ \cup {"failed"}]}
  BY PipelineFailsCases DEF FailSession
<1>2. row[s] # "none"
  BY DEF Ordered, RowFirst
<1>3. \A t \in Sessions \ {s} : rt'[t] = rt[t] /\ writes'[t] = writes[t]
  BY <1>1 DEF Typed, RowsType, LifeType
<1>4. \A t \in Sessions : rt[t] = "none" => rt'[t] = "none"
  BY <1>3
<1> QED BY <1>2, <1>3, <1>4, RowKept DEF requests, Ordered

LEMMA FinalizeRowFirst ==
    ASSUME Typed, Ordered, NEW S \in SUBSET Sessions, Finalize(S), UNCHANGED <<row, checking, writes>>,
           stopReads' \subseteq stopReads
    PROVE  \A t \in Sessions : RowFirst(t)'
<1>1. \A t \in Sessions : rt[t] = "none" => rt'[t] = rt[t] /\ (t \in finalizing' => t \in finalizing)
  BY DEF Finalize
<1>2. \A t \in Sessions : row[t] = "none" => rt[t] = "none"
  BY DEF Ordered, RowFirst
<1> QED BY <1>1, <1>2, RowKept DEF Ordered

LEMMA RowsStep == Typed /\ Held /\ Ordered /\ [Next]_vars => \A t \in Sessions : RowFirst(t)'
<1> SUFFICES ASSUME Typed, Held, Ordered, [Next]_vars PROVE \A t \in Sessions : RowFirst(t)'
  OBVIOUS
<1> USE DEF Ordered
<1>1. procs \in [Procs -> ProcRows]
  BY DEF Typed, RunType
<1>2. ASSUME UNCHANGED <<row, checking, rt, writes, stopReads, finalizing>> PROVE \A t \in Sessions : RowFirst(t)'
  BY <1>2 DEF RowFirst
<1>3. ASSUME NEW s \in Sessions, StartCheck(s) PROVE \A t \in Sessions : RowFirst(t)'
  BY <1>3 DEF StartCheck, ending, life, RowFirst
<1>4. ASSUME NEW s \in Sessions, StartCreate(s) PROVE \A t \in Sessions : RowFirst(t)'
  <2>1. /\ checking' = checking \ {s} /\ row[s] # "none" /\ rt' = [rt EXCEPT ![s] = "starting"]
        /\ UNCHANGED <<row, writes, stopReads, finalizing>>
    BY <1>4 DEF StartCreate, ending
  <2>2. \A t \in Sessions \ {s} : rt'[t] = rt[t]
    BY <2>1 DEF Typed, LifeType
  <2> QED BY <2>1, <2>2 DEF RowFirst
<1>5. ASSUME NEW b \in Builds, BuildGoesOn(b) PROVE \A t \in Sessions : RowFirst(t)'
  <2>1. CASE BuildFails(b)
    <3>1. builds[b].of \in Sessions /\ b \in BuildsOf(builds[b].of)
      BY <2>1, BuildRowsTyped DEF BuildFails, Held, BuildsMeaningful, BuildsOf
    <3>2. rt[builds[b].of] # "none"
      BY <3>1, Born
    <3>3. [builds EXCEPT ![b] = FreeBuild] \in [Builds -> BuildRows]
      BY FreeBuildTyped DEF Typed, BuildsType
    <3>4. /\ UNCHANGED <<row, requests, finalizing>>
          /\ \/ FailSession(builds[b].of, procs, [builds EXCEPT ![b] = FreeBuild])
             \/ UNCHANGED <<writes, rt>>
      BY <2>1, Zenon DEF BuildFails, ending
    <3> QED BY <1>1, <3>1, <3>2, <3>3, <3>4, FailRowFirst
  <2>2. ASSUME UNCHANGED <<row, writes, requests, ending, life>> PROVE \A t \in Sessions : RowFirst(t)'
    BY <1>2, <2>2 DEF requests, ending, life
  <2>3. CASE DirsReady(b) \/ TapOpened(b) \/ SdpWritten(b)
    BY <2>2, <2>3, Zenon DEF DirsReady, TapOpened, SdpWritten
  <2>4. ASSUME NEW p \in Procs, Spawn(b, p) PROVE \A t \in Sessions : RowFirst(t)'
    BY <2>2, <2>4, Zenon DEF Spawn
  <2>5. ASSUME NEW port \in Ports, NextTap(b, port) PROVE \A t \in Sessions : RowFirst(t)'
    BY <2>2, <2>5, Zenon DEF NextTap
  <2> QED BY <1>5, <2>1, <2>3, <2>4, <2>5 DEF BuildGoesOn
<1>6. ASSUME NEW p \in Procs, Progress(p) PROVE \A t \in Sessions : RowFirst(t)'
  <2>1. PICK s \in Sessions : rt[s] = "starting" /\ writes' = [writes EXCEPT ![s] = @ \cup {"live"}]
    BY <1>6 DEF Progress
  <2>2. row[s] # "none" /\ \A t \in Sessions \ {s} : writes'[t] = writes[t]
    BY <2>1 DEF RowFirst, Typed, RowsType
  <2>3. UNCHANGED <<row, checking, rt, stopReads, finalizing>>
    BY <1>6 DEF Progress, requests, ending
  <2> QED BY <2>2, <2>3, RowKept
<1>7. ASSUME NEW p \in Procs, ProcExits(p) PROVE \A t \in Sessions : RowFirst(t)'
  <2> DEFINE ps == [procs EXCEPT ![p] = FreeProc]
  <2>1. procs[p].of \in Sessions /\ ps \in [Procs -> ProcRows]
    BY <1>1, <1>7, FreeProcTyped DEF ProcExits, ProcRows
  <2>2. rt[procs[p].of] # "none"
    BY <2>1, Born
  <2>3. UNCHANGED <<row, requests, finalizing>> /\ (PipelineFails(procs[p].of, ps) \/ UNCHANGED <<writes, rt>>)
    BY <1>7, Zenon DEF ProcExits, life
  <2> HIDE DEF ps
  <2> QED BY <2>1, <2>2, <2>3, FailRowFirst
<1>8. ASSUME NEW s \in Sessions, StartTimeout(s) PROVE \A t \in Sessions : RowFirst(t)'
  <2>1. PipelineFails(s, procs) /\ s \in startTimer \cup strays /\ UNCHANGED <<row, requests, finalizing>>
    BY <1>8 DEF StartTimeout, ending
  <2> QED BY <1>1, <2>1, Born, FailRowFirst
<1>9. ASSUME NEW s \in Sessions, MembershipChanges(s) \/ RestartFires(s) PROVE \A t \in Sessions : RowFirst(t)'
  BY <1>2, <1>9 DEF MembershipChanges, RestartFires, requests, ending, life
<1>10. ASSUME NEW s \in Sessions, StopRead(s) PROVE \A t \in Sessions : RowFirst(t)'
  BY <1>10 DEF StopRead, ending, life, RowFirst, Active
<1>11. ASSUME NEW s \in Sessions, Stop(s) PROVE \A t \in Sessions : RowFirst(t)'
  <2>1. s \in stopReads /\ stopReads' = stopReads \ {s} /\ UNCHANGED <<row, checking>>
    BY <1>11 DEF Stop
  <2>2. \/ Finalize({s}) /\ UNCHANGED writes
        \/ writes' = [writes EXCEPT ![s] = @ \cup {"ended"}] /\ UNCHANGED <<ending, rt>>
    BY <1>11, Zenon DEF Stop
  <2>3. CASE Finalize({s}) /\ UNCHANGED writes
    <3>1. {s} \in SUBSET Sessions /\ stopReads' \subseteq stopReads
      BY <2>1
    <3> QED BY <2>1, <2>3, <3>1, FinalizeRowFirst
  <2>4. CASE writes' = [writes EXCEPT ![s] = @ \cup {"ended"}] /\ UNCHANGED <<ending, rt>>
    <3>1. row[s] # "none" /\ \A t \in Sessions \ {s} : writes'[t] = writes[t]
      BY <2>1, <2>4 DEF RowFirst, Typed, RowsType
    <3> QED BY <2>1, <2>4, <3>1, RowKept DEF ending
  <2> QED BY <2>2, <2>3, <2>4
<1>12. ASSUME NEW ends \in BOOLEAN, RoomCloses(ends) PROVE \A t \in Sessions : RowFirst(t)'
  BY <1>12, FinalizeRowFirst DEF RoomCloses
<1>13. ASSUME NEW s \in Sessions, Finalized(s) PROVE \A t \in Sessions : RowFirst(t)'
  <2>1. /\ s \in finalizing /\ finalizing' = finalizing \ {s} /\ writes' = [writes EXCEPT ![s] = @ \cup {"ended"}]
        /\ UNCHANGED <<row, checking, stopReads, rt>>
    BY <1>13 DEF Finalized, requests
  <2>2. row[s] # "none" /\ \A t \in Sessions \ {s} : writes'[t] = writes[t]
    BY <2>1 DEF RowFirst, Typed, RowsType
  <2> QED BY <2>1, <2>2, RowKept
<1>14. ASSUME NEW s \in Sessions, NEW status \in {"live", "ended", "failed"}, WriteLands(s, status)
       PROVE  \A t \in Sessions : RowFirst(t)'
  <2>1. /\ status \in writes[s] /\ writes' = [writes EXCEPT ![s] = @ \ {status}] /\ row' = [row EXCEPT ![s] = status]
        /\ UNCHANGED <<checking, stopReads, rt, finalizing>>
    BY <1>14 DEF WriteLands, requests, ending, life
  <2>2. row[s] # "none"
    BY <2>1 DEF RowFirst
  <2>3. row'[s] # "none" /\ \A t \in Sessions \ {s} : row'[t] = row[t] /\ writes'[t] = writes[t]
    BY <2>1 DEF Typed, RowsType
  <2> QED BY <2>1, <2>2, <2>3 DEF RowFirst
<1>15. CASE ServerRestart
  <2>1. /\ \A t \in Sessions : rt'[t] = "none" /\ writes'[t] = {}
        /\ checking' = {} /\ stopReads' = {} /\ finalizing' = {}
    BY <1>15 DEF ServerRestart
  <2> QED BY <2>1 DEF RowFirst
<1>16. ASSUME NEW s \in Sessions, RowCreated(s) PROVE \A t \in Sessions : RowFirst(t)'
  <2>1. row' = [row EXCEPT ![s] = "starting"] /\ UNCHANGED <<writes, checking, stopReads, rt, finalizing>>
    BY <1>16 DEF RowCreated, requests, ending, life
  <2>2. row'[s] # "none" /\ \A t \in Sessions \ {s} : row'[t] = row[t]
    BY <2>1 DEF Typed, RowsType
  <2> QED BY <2>1, <2>2 DEF RowFirst
<1>17. CASE UNCHANGED vars
  BY <1>2, <1>17 DEF vars, requests, ending, life
<1> QED BY <1>3, <1>4, <1>5, <1>6, <1>7, <1>8, <1>9, <1>10, <1>11, <1>12, <1>13, <1>14, <1>15, <1>16, <1>17, Zenon
        DEF Next

LEMMA OrderedInit == Init => Ordered
<1> SUFFICES ASSUME Init, NEW t \in Sessions PROVE InOrder(t) /\ RowFirst(t)
  BY DEF Ordered
<1>1. /\ \A b \in Builds : builds[b] = FreeBuild
      /\ \A p \in Procs : procs[p] = FreeProc
      /\ rt[t] = "none" /\ taps[t] = {} /\ startTimer = {} /\ strays = {} /\ restartTimer = {}
      /\ checking = {} /\ stopReads = {} /\ finalizing = {} /\ writes[t] = {}
  BY DEF Init
<1>2. BuildsOf(t) = {} /\ Producing(t) = {} /\ \A p \in Procs : procs[p].of # t
  BY <1>1, FreeBuildTyped, FreeProcTyped, NoneIsNoId DEF BuildsOf, Producing
<1> QED BY <1>1, <1>2 DEF InOrder, Orderly, Unborn, RowFirst

LEMMA OrderAlwaysKept == Spec => [](Typed /\ Held /\ Ordered)
<1>1. Init => Typed /\ Held /\ Ordered
  BY InitTyped, InitHolds, OrderedInit
<1>2. Typed /\ Held /\ Ordered /\ [Next]_vars => Typed' /\ Held' /\ Ordered'
  BY StepTyped, StepHolds, ProgramsStep, RowsStep DEF Held, Ordered
<1> QED BY <1>1, <1>2, PTL DEF Spec

\* A session whose builds never overlapped has the one program it knows of, for
\* any number of restarts, retries and failures: nothing else of it produces.
THEOREM AlwaysOneProgram == Spec => []OneProgram
<1>1. Ordered => OneProgram
  BY DEF Ordered, InOrder, Orderly, OneProgram
<1> QED BY <1>1, OrderAlwaysKept, PTL

\* A session that stops with no build under way leaves nothing behind, and no
\* change of the room's membership starts another pipeline for it.
THEOREM OrderlyStopAlwaysClean == Spec => []OrderlyStopIsClean
<1>1. Ordered => OrderlyStopIsClean
  BY DEF Ordered, InOrder, Orderly, OrderlyStopIsClean
<1> QED BY <1>1, OrderAlwaysKept, PTL

-----------------------------------------------------------------------------
(***************************************************************************)
(* Proof, for any producers, tiles and restarts, of what ProgramInv says   *)
(* of the program: its graph is well made, whatever it was composed of,    *)
(* and shows the room.                                                     *)
(*                                                                         *)
(* First the sort: each position has one place, places are in order, and   *)
(* those of the audios come first.                                         *)
(***************************************************************************)

LEMMA RanksKnown ==
    ASSUME NEW s \in Seq(Sources), NEW i \in DOMAIN s
    PROVE  /\ s[i] \in Sources /\ KindOf[s[i]] \in {"audio", "screen", "camera"}
           /\ Rank(s, i) \in 0 .. 2
           /\ Rank(s, i) = 0 <=> KindOf[s[i]] = "audio"
           /\ Rank(s, i) = 1 <=> KindOf[s[i]] = "screen"
           /\ Rank(s, i) = 2 <=> KindOf[s[i]] = "camera"
BY KindsAreKnown DEF Rank, RankOf

\* The place of a position once sorted.
PlaceOf(s, i) == Cardinality(UpTo(s, i))

LEMMA PositionsCounted ==
    ASSUME NEW n \in Nat PROVE IsFiniteSet(1 .. n) /\ Cardinality(1 .. n) = n
BY FS_Interval

LEMMA UpToCounts ==
    ASSUME NEW s \in Seq(Sources), NEW i \in DOMAIN s
    PROVE  /\ IsFiniteSet(UpTo(s, i)) /\ i \in UpTo(s, i) /\ UpTo(s, i) \subseteq DOMAIN s
           /\ PlaceOf(s, i) \in 1 .. Len(s)
<1>0. Len(s) \in Nat /\ DOMAIN s = 1 .. Len(s)
  OBVIOUS
<1>1. UpTo(s, i) \subseteq DOMAIN s /\ i \in UpTo(s, i)
  BY <1>0 DEF UpTo
<1>2. IsFiniteSet(1 .. Len(s)) /\ Cardinality(1 .. Len(s)) = Len(s)
  BY <1>0, PositionsCounted
<1>3. IsFiniteSet(UpTo(s, i)) /\ Cardinality(UpTo(s, i)) <= Len(s)
  BY <1>0, <1>1, <1>2, FS_Subset
<1>4. Cardinality(UpTo(s, i)) \in Nat /\ Cardinality(UpTo(s, i)) # 0
  BY <1>1, <1>3, FS_CardinalityType, FS_EmptySet
<1> QED BY <1>0, <1>1, <1>3, <1>4 DEF PlaceOf

LEMMA PlacesInOrder ==
    ASSUME NEW s \in Seq(Sources), NEW i \in DOMAIN s, NEW j \in DOMAIN s,
           Rank(s, j) < Rank(s, i) \/ (Rank(s, j) = Rank(s, i) /\ j < i)
    PROVE  PlaceOf(s, j) < PlaceOf(s, i)
<1>0. DOMAIN s \subseteq Nat /\ \A k \in DOMAIN s : Rank(s, k) \in Nat
  <2>1. DOMAIN s \subseteq Nat
    OBVIOUS
  <2>2. \A k \in DOMAIN s : Rank(s, k) \in 0 .. 2
    BY RanksKnown
  <2> QED BY <2>1, <2>2
<1>1. i \in UpTo(s, i) /\ i \notin UpTo(s, j)
  BY <1>0 DEF UpTo
<1>2. UpTo(s, j) \subseteq UpTo(s, i)
  BY <1>0 DEF UpTo
<1>3. IsFiniteSet(UpTo(s, i)) /\ IsFiniteSet(UpTo(s, j))
  BY UpToCounts
<1>4. UpTo(s, j) # UpTo(s, i)
  BY <1>1
<1>5. Cardinality(UpTo(s, j)) <= Cardinality(UpTo(s, i)) /\ Cardinality(UpTo(s, j)) # Cardinality(UpTo(s, i))
  BY <1>2, <1>3, <1>4, FS_Subset
<1>6. Cardinality(UpTo(s, j)) \in Nat /\ Cardinality(UpTo(s, i)) \in Nat
  BY <1>3, FS_CardinalityType
<1> QED BY <1>5, <1>6 DEF PlaceOf

LEMMA PlacesOnce ==
    ASSUME NEW s \in Seq(Sources)
    PROVE  /\ \A i, j \in DOMAIN s : PlaceOf(s, i) = PlaceOf(s, j) => i = j
           /\ \A n \in DOMAIN s : \E i \in DOMAIN s : PlaceOf(s, i) = n
<1> DEFINE place == [i \in DOMAIN s |-> PlaceOf(s, i)]
<1>0. Len(s) \in Nat /\ DOMAIN s = 1 .. Len(s)
  OBVIOUS
<1>1. ASSUME NEW i \in DOMAIN s, NEW j \in DOMAIN s, i # j PROVE PlaceOf(s, i) # PlaceOf(s, j)
  <2>1. Rank(s, i) \in 0 .. 2 /\ Rank(s, j) \in 0 .. 2
    BY RanksKnown
  <2>2. PlaceOf(s, i) \in Nat /\ PlaceOf(s, j) \in Nat
    <3>1. PlaceOf(s, i) \in 1 .. Len(s) /\ PlaceOf(s, j) \in 1 .. Len(s)
      BY UpToCounts
    <3> QED BY <1>0, <3>1
  <2>3. \/ Rank(s, i) < Rank(s, j) \/ (Rank(s, i) = Rank(s, j) /\ i < j)
        \/ Rank(s, j) < Rank(s, i) \/ (Rank(s, j) = Rank(s, i) /\ j < i)
    BY <1>0, <1>1, <2>1
  <2>4. PlaceOf(s, i) < PlaceOf(s, j) \/ PlaceOf(s, j) < PlaceOf(s, i)
    BY <2>3, PlacesInOrder
  <2> QED BY <2>2, <2>4
<1>2. place \in Injection(1 .. Len(s), 1 .. Len(s))
  <2>1. \A i \in 1 .. Len(s) : PlaceOf(s, i) \in 1 .. Len(s)
    BY <1>0, UpToCounts
  <2>2. place \in [1 .. Len(s) -> 1 .. Len(s)]
    BY <1>0, <2>1
  <2>3. \A i, j \in 1 .. Len(s) : place[i] = place[j] => i = j
    BY <1>0, <1>1
  <2> HIDE DEF place
  <2> QED BY <2>2, <2>3 DEF Injection, IsInjective
<1>3. IsFiniteSet(1 .. Len(s)) /\ Cardinality(1 .. Len(s)) = Len(s)
  BY <1>0, PositionsCounted
<1>4. place \in Surjection(1 .. Len(s), 1 .. Len(s))
  BY <1>2, <1>3, FS_Injection
<1>5. \A n \in 1 .. Len(s) : \E i \in 1 .. Len(s) : place[i] = n
  BY <1>4 DEF Surjection
<1> QED BY <1>0, <1>1, <1>5

\* The sorted inputs have each input at its place.
LEMMA SortedPlaces ==
    ASSUME NEW s \in Seq(Sources)
    PROVE  /\ Sorted(s) \in Seq(Sources) /\ Len(Sorted(s)) = Len(s)
           /\ \A n \in 1 .. Len(s) : \E i \in DOMAIN s : PlaceOf(s, i) = n /\ Sorted(s)[n] = s[i]
           /\ \A i \in DOMAIN s : PlaceOf(s, i) \in 1 .. Len(s) /\ Sorted(s)[PlaceOf(s, i)] = s[i]
<1> DEFINE At(n) == CHOOSE i \in DOMAIN s : Cardinality(UpTo(s, i)) = n
<1>0. Len(s) \in Nat /\ DOMAIN s = 1 .. Len(s) /\ \A i \in DOMAIN s : s[i] \in Sources
  OBVIOUS
<1>1. \A n \in DOMAIN s : At(n) \in DOMAIN s /\ PlaceOf(s, At(n)) = n
  BY PlacesOnce DEF PlaceOf
<1>2. Sorted(s) = [n \in 1 .. Len(s) |-> s[At(n)]]
  BY <1>0 DEF Sorted
<1> HIDE DEF At
<1>3. \A n \in 1 .. Len(s) : s[At(n)] \in Sources
  BY <1>0, <1>1
<1>4. Sorted(s) \in Seq(Sources) /\ Len(Sorted(s)) = Len(s)
  BY <1>0, <1>2, <1>3
<1>5. \A i \in DOMAIN s : PlaceOf(s, i) \in 1 .. Len(s) /\ At(PlaceOf(s, i)) = i
  <2>1. \A i \in DOMAIN s : PlaceOf(s, i) \in 1 .. Len(s)
    BY UpToCounts
  <2> QED BY <1>0, <1>1, <2>1, PlacesOnce
<1>6. \A n \in 1 .. Len(s) : Sorted(s)[n] = s[At(n)]
  BY <1>2
<1> QED BY <1>0, <1>1, <1>4, <1>5, <1>6

\* Audios, and nothing else, have the first places.
LEMMA AudiosFirst ==
    ASSUME NEW s \in Seq(Sources)
    PROVE  /\ Audios(s) \in 0 .. Len(s)
           /\ \A i \in DOMAIN s : PlaceOf(s, i) <= Audios(s) <=> KindOf[s[i]] = "audio"
<1> DEFINE audio == {i \in DOMAIN s : KindOf[s[i]] = "audio"}
<1>0. Len(s) \in Nat /\ DOMAIN s = 1 .. Len(s) /\ Audios(s) = Cardinality(audio)
  BY DEF Audios
<1>1. IsFiniteSet(1 .. Len(s)) /\ Cardinality(1 .. Len(s)) = Len(s)
  BY <1>0, PositionsCounted
<1>2. IsFiniteSet(audio) /\ Cardinality(audio) <= Len(s)
  <2>1. audio \subseteq 1 .. Len(s)
    BY <1>0
  <2> QED BY <1>1, <2>1, FS_Subset
<1>3. Cardinality(audio) \in Nat
  BY <1>2, FS_CardinalityType
<1>4. ASSUME NEW i \in DOMAIN s, KindOf[s[i]] = "audio" PROVE PlaceOf(s, i) <= Audios(s)
  <2>1. Rank(s, i) = 0 /\ \A j \in DOMAIN s : Rank(s, j) \in 0 .. 2 /\ (Rank(s, j) = 0 => KindOf[s[j]] = "audio")
    BY <1>4, RanksKnown
  <2>2. UpTo(s, i) \subseteq audio
    BY <2>1 DEF UpTo
  <2>3. Cardinality(UpTo(s, i)) <= Cardinality(audio)
    BY <1>2, <2>2, FS_Subset
  <2> QED BY <1>0, <2>3 DEF PlaceOf
<1>5. ASSUME NEW i \in DOMAIN s, KindOf[s[i]] # "audio" PROVE ~(PlaceOf(s, i) <= Audios(s))
  <2>1. /\ Rank(s, i) \in 1 .. 2
        /\ \A j \in audio : Rank(s, j) = 0
    <3>1. Rank(s, i) \in 0 .. 2 /\ Rank(s, i) # 0
      BY <1>5, RanksKnown
    <3>2. \A j \in audio : Rank(s, j) = 0
      BY RanksKnown
    <3> QED BY <3>1, <3>2
  <2>2. audio \subseteq UpTo(s, i) /\ i \in UpTo(s, i) /\ i \notin audio
    BY <1>5, <2>1, UpToCounts DEF UpTo
  <2>3. IsFiniteSet(UpTo(s, i))
    BY UpToCounts
  <2>4. Cardinality(audio) <= Cardinality(UpTo(s, i)) /\ Cardinality(audio) # Cardinality(UpTo(s, i))
    BY <2>2, <2>3, FS_Subset
  <2>5. Cardinality(UpTo(s, i)) \in Nat
    BY <2>3, FS_CardinalityType
  <2> QED BY <1>0, <1>3, <2>4, <2>5 DEF PlaceOf
<1> QED BY <1>0, <1>2, <1>3, <1>4, <1>5

-----------------------------------------------------------------------------
(* The graph.                                                              *)

\* The inputs of a graph are those it was composed of.
LEMMA SortedMembers ==
    ASSUME NEW s \in Seq(Sources) PROVE ToSet(Sorted(s)) = ToSet(s)
<1>0. /\ Sorted(s) \in Seq(Sources) /\ Len(Sorted(s)) = Len(s)
      /\ DOMAIN Sorted(s) = 1 .. Len(s) /\ DOMAIN s = 1 .. Len(s)
  BY SortedPlaces
<1>1. \A n \in 1 .. Len(s) : \E i \in DOMAIN s : Sorted(s)[n] = s[i]
  BY SortedPlaces
<1>2. \A i \in DOMAIN s : \E n \in 1 .. Len(s) : Sorted(s)[n] = s[i]
  BY SortedPlaces
<1>3. ToSet(Sorted(s)) \subseteq ToSet(s)
  BY <1>0, <1>1 DEF ToSet
<1>4. ToSet(s) \subseteq ToSet(Sorted(s))
  BY <1>0, <1>2 DEF ToSet
<1> QED BY <1>3, <1>4

\* The first are audio and the rest are not.
LEMMA SortedKinds ==
    ASSUME NEW s \in Seq(Sources), NEW n \in 1 .. Len(s)
    PROVE  n <= Audios(s) <=> KindOf[Sorted(s)[n]] = "audio"
<1>1. PICK i \in DOMAIN s : PlaceOf(s, i) = n /\ Sorted(s)[n] = s[i]
  BY SortedPlaces
<1> QED BY <1>1, AudiosFirst

\* A camera is first among the videos only where there is no screen.
LEMMA ScreenIsPrimary ==
    ASSUME NEW s \in Seq(Sources), Audios(s) + 1 \in 1 .. Len(s),
           KindOf[Sorted(s)[Audios(s) + 1]] = "camera"
    PROVE  \A p \in ToSet(s) : KindOf[p] # "screen"
<1>0. Audios(s) \in Nat /\ Len(s) \in Nat
  <2>1. Audios(s) \in 0 .. Len(s) /\ Len(s) \in Nat
    BY AudiosFirst
  <2> QED BY <2>1
<1>1. PICK i \in DOMAIN s : PlaceOf(s, i) = Audios(s) + 1 /\ KindOf[s[i]] = "camera"
  BY SortedPlaces
<1>2. ASSUME NEW j \in DOMAIN s, KindOf[s[j]] = "screen" PROVE FALSE
  <2>1. Rank(s, i) = 2 /\ Rank(s, j) = 1
    BY <1>1, <1>2, RanksKnown
  <2>2. PlaceOf(s, j) < PlaceOf(s, i)
    BY <2>1, PlacesInOrder
  <2>3. PlaceOf(s, j) \in 1 .. Len(s)
    BY UpToCounts
  <2>4. PlaceOf(s, j) <= Audios(s)
    BY <1>0, <1>1, <2>2, <2>3
  <2>5. KindOf[s[j]] = "audio"
    BY <2>4, AudiosFirst
  <2> QED BY <1>2, <2>5
<1> QED BY <1>2 DEF ToSet

\* The tiles are apart, one for each video, and the first has the corner.
LEMMA TilesApart ==
    ASSUME NEW a \in Nat, NEW v \in 0 .. 4
    PROVE  /\ \A t \in Tiles(a, v) : t.input \in a .. a + v - 1
           /\ \A i \in a .. a + v - 1 : \E t \in Tiles(a, v) : t.input = i
           /\ \A t, u \in Tiles(a, v) : t.input = u.input => t = u
           /\ \A t, u \in Tiles(a, v) : t.at = u.at => t = u
           /\ \A t \in Tiles(a, v) : t.at = <<0, 0>> => t.input = a
<1>1. CASE v = 1
  <2> DEFINE one == [input |-> a, at |-> <<0, 0>>, size |-> 2]
  <2>1. Tiles(a, v) = {one} /\ one.input = a
    BY <1>1 DEF Tiles
  <2> HIDE DEF one
  <2> QED BY <1>1, <2>1
<1>2. CASE v # 1
  <2> DEFINE Tile(k) == [input |-> InputIndex(a, k), at |-> XstackLayout[k + 1], size |-> 1]
  <2>1. Tiles(a, v) = {Tile(k) : k \in 0 .. v - 1}
    BY <1>2 DEF Tiles
  <2>2. \A k \in 0 .. v - 1 : Tile(k).input = a + k /\ Tile(k).at = XstackLayout[k + 1]
    BY DEF InputIndex
  <2>3. \A k, m \in 0 .. 3 : XstackLayout[k + 1] = XstackLayout[m + 1] => k = m
    BY DEF XstackLayout
  <2>4. \A k \in 0 .. 3 : XstackLayout[k + 1] = <<0, 0>> => k = 0
    BY DEF XstackLayout
  <2>5. 0 .. v - 1 \subseteq 0 .. 3
    OBVIOUS
  <2> HIDE DEF Tile
  <2>6. ASSUME NEW i \in a .. a + v - 1 PROVE \E k \in 0 .. v - 1 : a + k = i
    <3>1. i - a \in 0 .. v - 1 /\ a + (i - a) = i
      OBVIOUS
    <3> QED BY <3>1
  <2>7. \A k, m \in 0 .. v - 1 : a + k = a + m => k = m
    OBVIOUS
  <2>8. \A t \in Tiles(a, v) : \E k \in 0 .. v - 1 : t = Tile(k) /\ t.input = a + k /\ t.at = XstackLayout[k + 1]
    BY <2>1, <2>2
  <2>9. \A t \in Tiles(a, v) : t.input \in a .. a + v - 1
    BY <2>8
  <2>10. \A i \in a .. a + v - 1 : \E t \in Tiles(a, v) : t.input = i
    BY <2>1, <2>2, <2>6
  <2>11. \A t, u \in Tiles(a, v) : t.input = u.input => t = u
    BY <2>7, <2>8
  <2>12. \A t, u \in Tiles(a, v) : t.at = u.at => t = u
    BY <2>3, <2>5, <2>8
  <2>13. \A t \in Tiles(a, v) : t.at = <<0, 0>> => t.input = a
    BY <2>4, <2>5, <2>8
  <2> QED BY <2>9, <2>10, <2>11, <2>12, <2>13
<1> QED BY <1>1, <1>2

LEMMA ComposedIsWhole ==
    ASSUME NEW s \in Seq(Sources), Composable(s) PROVE GraphIsWhole(Compose(s))
<1> DEFINE a == Audios(s)
           v == Videos(s)
           g == Compose(s)
           sorted == Sorted(s)
           tiles == Tiles(a, v)
<1>0. /\ a \in Nat /\ v \in 0 .. 4 /\ Len(s) \in Nat /\ a + v = Len(s)
      /\ a > 0
  <2>1. a \in 0 .. Len(s) /\ Len(s) \in Nat /\ v = Len(s) - a
    BY AudiosFirst DEF Videos
  <2>2. a > 0 /\ v <= MaxTiles
    BY DEF Composable
  <2> HIDE DEF a, v
  <2> QED BY <2>1, <2>2, TilesFitCanvas
<1>1. /\ g.inputs = sorted /\ g.mix = 0 .. a - 1 /\ g.tiles = tiles
  BY DEF Compose
<1>2. /\ sorted \in Seq(Sources) /\ Len(sorted) = Len(s) /\ DOMAIN sorted = 1 .. Len(s)
      /\ ToSet(sorted) = ToSet(s)
  BY SortedPlaces, SortedMembers
<1>3. \A n \in 1 .. Len(s) : n <= a <=> KindOf[sorted[n]] = "audio"
  BY SortedKinds
<1>4. a + 1 \in 1 .. Len(s) /\ KindOf[sorted[a + 1]] = "camera" => \A p \in ToSet(s) : KindOf[p] # "screen"
  BY ScreenIsPrimary
<1>5. /\ \A t \in tiles : t.input \in a .. a + v - 1
      /\ \A i \in a .. a + v - 1 : \E t \in tiles : t.input = i
      /\ \A t, u \in tiles : t.input = u.input => t = u
      /\ \A t, u \in tiles : t.at = u.at => t = u
      /\ \A t \in tiles : t.at = <<0, 0>> => t.input = a
  BY <1>0, TilesApart
<1> HIDE DEF a, v, g, sorted, tiles
<1>6. (0 .. Len(g.inputs) - 1) \ g.mix = a .. a + v - 1
  BY <1>0, <1>1, <1>2
<1>7. {Input(g, i) : i \in g.mix} = {p \in ToSet(g.inputs) : KindOf[p] = "audio"}
  <2>1. ASSUME NEW i \in g.mix
        PROVE  Input(g, i) \in {p \in ToSet(g.inputs) : KindOf[p] = "audio"}
    <3>1. i + 1 \in 1 .. Len(s) /\ i + 1 <= a
      BY <1>0, <1>1, <2>1
    <3> QED BY <1>1, <1>2, <1>3, <3>1 DEF Input, ToSet
  <2>2. ASSUME NEW p \in ToSet(g.inputs), KindOf[p] = "audio"
        PROVE  \E i \in g.mix : p = Input(g, i)
    <3>1. PICK n \in 1 .. Len(s) : p = sorted[n]
      BY <1>1, <1>2, <2>2 DEF ToSet
    <3>2. n - 1 \in g.mix /\ (n - 1) + 1 = n
      BY <1>0, <1>1, <1>3, <2>2, <3>1
    <3> QED BY <1>1, <3>1, <3>2 DEF Input
  <2> QED BY <2>1, <2>2
<1>8. \A i \in a .. a + v - 1 : Cardinality({t \in tiles : t.input = i}) = 1
  <2> SUFFICES ASSUME NEW i \in a .. a + v - 1 PROVE Cardinality({t \in tiles : t.input = i}) = 1
    OBVIOUS
  <2>1. PICK t \in tiles : t.input = i
    BY <1>5
  <2>2. {u \in tiles : u.input = i} = {t}
    BY <1>5, <2>1
  <2> QED BY <2>2, FS_Singleton
<1>9. ASSUME NEW t \in tiles, KindOf[Input(g, t.input)] = "camera", t.at = <<0, 0>>
      PROVE  ~\E p \in ToSet(g.inputs) : KindOf[p] = "screen"
  <2>1. t.input = a /\ a \in a .. a + v - 1
    BY <1>5, <1>9
  <2>2. a + 1 \in 1 .. Len(s)
    BY <1>0, <2>1
  <2>3. KindOf[sorted[a + 1]] = "camera"
    BY <1>1, <1>9, <2>1 DEF Input
  <2> QED BY <1>1, <1>2, <1>4, <2>2, <2>3
<1>10. g = Compose(s)
  BY DEF g
<1>11. \A i \in (0 .. Len(g.inputs) - 1) \ g.mix : Cardinality({t \in g.tiles : t.input = i}) = 1
  BY <1>1, <1>6, <1>8
<1>12. /\ \A t \in g.tiles : t.input \in (0 .. Len(g.inputs) - 1) \ g.mix
       /\ \A t, u \in g.tiles : t.at = u.at => t = u
  BY <1>1, <1>5, <1>6
<1>13. \A t \in g.tiles : KindOf[Input(g, t.input)] = "camera" /\ t.at = <<0, 0>> =>
          ~\E p \in ToSet(g.inputs) : KindOf[p] = "screen"
  BY <1>1, <1>9
<1>14. GraphIsWhole(g)
  BY <1>7, <1>11, <1>12, <1>13 DEF GraphIsWhole
<1> QED BY <1>10, <1>14

-----------------------------------------------------------------------------
(* The builds.                                                             *)

Reasons == {"none", "start", "retry", "member"}

ProgramTyped ==
    /\ onAir \in Seq(Sources) /\ IsInjective(onAir) /\ ToSet(onAir) \subseteq ever
    /\ ever \subseteq Sources /\ tapped \subseteq Sources
    /\ running \in BOOLEAN /\ debounce \in BOOLEAN /\ muddled \in BOOLEAN
    /\ building \in [OneBuild -> [todo : Seq(Sources), inputs : Seq(Sources), why : Reasons]]

\* A graph was composed of some inputs; nothing is due once the session failed.
GraphComposed == graph = NoGraph \/ \E s \in Seq(Sources) : Composable(s) /\ graph = Compose(s)
DueWhileRunning == debounce => running

Busy(b) == building[b] # NoBuild

\* Until a build ends, what it has tapped and is to tap is what there is; or
\* another one is due.
BuildIsCurrent(b) ==
    /\ graph = NoGraph /\ tapped = ToSet(building[b].inputs)
    /\ ~debounce => /\ ToSet(building[b].inputs) \subseteq ToSet(onAir)
                    /\ ToSet(onAir) \subseteq ToSet(building[b].inputs) \cup ToSet(building[b].todo)

ShownIsOnAir == ToSet(graph.inputs) = ToSet(onAir) /\ tapped = ToSet(onAir)

OneAtATime == \A b, c \in OneBuild : Busy(b) /\ Busy(c) => b = c

BuildsCurrent ==
    ~muddled =>
        /\ OneAtATime
        /\ running => \A b \in OneBuild : Busy(b) => BuildIsCurrent(b)
        /\ running /\ ~debounce /\ (\A b \in OneBuild : ~Busy(b)) => ShownIsOnAir

ProgramIInv == ProgramTyped /\ GraphComposed /\ DueWhileRunning /\ BuildsCurrent

LEMMA NoBuildTyped == NoBuild \in [todo : Seq(Sources), inputs : Seq(Sources), why : Reasons]
BY DEF NoBuild, Reasons

LEMMA ProgramInitially == ProgramInit => ProgramIInv
<1> SUFFICES ASSUME ProgramInit PROVE ProgramIInv
  OBVIOUS
<1>1. PICK ps \in SUBSET Sources : onAir = SetToSeq(ps) /\ ever = ps
  BY DEF ProgramInit
<1>2. /\ onAir \in [1 .. Cardinality(ps) -> ps] /\ IsInjective(onAir) /\ Cardinality(ps) \in Nat
  <2>1. IsFiniteSet(ps)
    BY SourcesAreFinite, FS_Subset
  <2>2. ExistsBijection(1 .. Cardinality(ps), ps) /\ Cardinality(ps) \in Nat
    BY <2>1, FS_CardinalityType
  <2>3. \E f \in [1 .. Cardinality(ps) -> ps] : IsInjective(f)
    BY <2>2 DEF ExistsBijection, Bijection, Injection
  <2> QED BY <1>1, <2>2, <2>3 DEF SetToSeq
<1>3. onAir \in Seq(Sources) /\ ToSet(onAir) \subseteq ps
  BY <1>2 DEF ToSet
<1> DEFINE first == [todo |-> onAir, inputs |-> <<>>, why |-> "start"]
<1>4. /\ building = [b \in OneBuild |-> IF b = 1 THEN first ELSE NoBuild]
      /\ first \in [todo : Seq(Sources), inputs : Seq(Sources), why : Reasons]
      /\ first.inputs = <<>> /\ first.todo = onAir
  BY <1>3 DEF ProgramInit, Reasons
<1> HIDE DEF first
<1>5. ProgramTyped
  BY <1>1, <1>2, <1>3, <1>4, NoBuildTyped DEF ProgramTyped, ProgramInit
<1>6. ASSUME NEW b \in OneBuild, Busy(b) PROVE b = 1 /\ BuildIsCurrent(b)
  <2>1. b = 1 /\ building[b] = first
    BY <1>4, <1>6 DEF Busy
  <2>2. ToSet(<<>>) = {}
    BY DEF ToSet
  <2> QED BY <1>4, <2>1, <2>2 DEF BuildIsCurrent, ProgramInit
<1>7. Busy(1)
  <2>1. building[1].why = "start"
    BY DEF ProgramInit, OneBuild
  <2> QED BY <2>1 DEF Busy, NoBuild
<1>8. BuildsCurrent
  BY <1>6, <1>7 DEF BuildsCurrent, OneAtATime, OneBuild
<1> QED BY <1>5, <1>8 DEF ProgramIInv, GraphComposed, DueWhileRunning, ProgramInit

-----------------------------------------------------------------------------
(* The steps.                                                              *)

LEMMA AddedPreserves ==
    ASSUME ProgramIInv, NEW p \in Sources, ProducerAdded(p) PROVE ProgramIInv'
<1>0. ProgramTyped /\ GraphComposed /\ DueWhileRunning /\ BuildsCurrent
  BY DEF ProgramIInv
<1>1. /\ p \notin ToSet(onAir) /\ onAir' = Append(onAir, p) /\ ever' = ever \cup {p}
      /\ debounce' = (debounce \/ running)
      /\ UNCHANGED <<running, building, tapped, graph, exits, muddled>>
  BY <1>0 DEF ProducerAdded, Reschedule, ProgramTyped
<1>2. /\ onAir' \in Seq(Sources) /\ IsInjective(onAir') /\ ToSet(onAir') \subseteq ToSet(onAir) \cup {p}
  <2> DEFINE t == Append(onAir, p)
  <2>1. /\ onAir \in Seq(Sources) /\ Len(onAir) \in Nat /\ DOMAIN onAir = 1 .. Len(onAir)
        /\ IsInjective(onAir)
    BY <1>0 DEF ProgramTyped
  <2>2. /\ t \in Seq(Sources) /\ DOMAIN t = 1 .. Len(onAir) + 1 /\ t[Len(onAir) + 1] = p
        /\ \A i \in 1 .. Len(onAir) : t[i] = onAir[i]
    BY <2>1
  <2> HIDE DEF t
  <2>3. \A i \in 1 .. Len(onAir) : t[i] # p
    BY <1>1, <2>1, <2>2 DEF ToSet
  <2>4. \A i \in DOMAIN t : i \in 1 .. Len(onAir) \/ i = Len(onAir) + 1
    BY <2>1, <2>2
  <2>5. IsInjective(t)
    BY <2>1, <2>2, <2>3, <2>4 DEF IsInjective
  <2>6. ToSet(t) \subseteq ToSet(onAir) \cup {p}
    BY <2>1, <2>2, <2>4 DEF ToSet
  <2> QED BY <1>1, <2>2, <2>5, <2>6 DEF t
<1>3. ProgramTyped'
  BY <1>0, <1>1, <1>2 DEF ProgramTyped
<1>4. GraphComposed'
  BY <1>0, <1>1 DEF GraphComposed
<1>5. DueWhileRunning'
  BY <1>0, <1>1 DEF DueWhileRunning
<1>6. BuildsCurrent'
  <2>1. running' => debounce'
    BY <1>1
  <2> QED BY <1>0, <1>1, <2>1 DEF BuildsCurrent, OneAtATime, Busy, BuildIsCurrent
<1> QED BY <1>3, <1>4, <1>5, <1>6 DEF ProgramIInv

LEMMA NaturalsHaveLeast ==
    ASSUME NEW S \in SUBSET Nat, S # {} PROVE \E x \in S : \A y \in S : x <= y
<1>1. PICK x \in S : \A y \in S : ~(<<y, x>> \in OpToRel(<, Nat))
  BY NatLessThanWellFounded, WFMin
<1>2. \A y \in S : ~(y < x)
  BY <1>1 DEF OpToRel
<1> QED BY <1>2

\* A member that is removed is there no more; the others are.
LEMMA MemberRemoved ==
    ASSUME NEW s \in Seq(Sources), IsInjective(s), NEW p \in ToSet(s)
    PROVE  /\ RemoveFirst(s, p) \in Seq(Sources) /\ IsInjective(RemoveFirst(s, p))
           /\ ToSet(RemoveFirst(s, p)) = ToSet(s) \ {p}
<1> DEFINE places == {i \in 1 .. Len(s) : s[i] = p}
           k == CHOOSE i \in places : \A j \in places : i <= j
           t == SubSeq(s, 1, k - 1) \o SubSeq(s, k + 1, Len(s))
<1>0. Len(s) \in Nat /\ DOMAIN s = 1 .. Len(s) /\ \A i \in 1 .. Len(s) : s[i] \in Sources
  OBVIOUS
<1>1. places # {} /\ places \in SUBSET Nat
  BY <1>0 DEF ToSet
<1>2. \E i \in places : \A j \in places : i <= j
  <2> HIDE DEF places
  <2> QED BY <1>1, NaturalsHaveLeast
<1>3. k \in 1 .. Len(s) /\ s[k] = p
  BY <1>2
<1>4. RemoveFirst(s, p) = t
  <2>1. SelectInSeq(s, LAMBDA v : v = p) = k
    BY <1>1 DEF SelectInSeq, Min
  <2> QED BY <1>1, <2>1 DEF RemoveFirst, RemoveAt
<1> HIDE DEF k, places
<1> DEFINE u == SubSeq(s, 1, k - 1)
           v == SubSeq(s, k + 1, Len(s))
<1>5. /\ u \in Seq(Sources) /\ Len(u) = k - 1 /\ \A i \in 1 .. k - 1 : u[i] = s[i]
  BY <1>0, <1>3, SubSeqProperties
<1>6. /\ v \in Seq(Sources) /\ Len(v) = Len(s) - k /\ \A i \in 1 .. Len(s) - k : v[i] = s[k + i]
  <2>1. k + 1 \in Int /\ Len(s) \in Int /\ \A i \in (k + 1) .. Len(s) : s[i] \in Sources
    BY <1>0, <1>3
  <2>2. /\ v \in Seq(Sources)
        /\ Len(v) = IF k + 1 <= Len(s) THEN Len(s) - (k + 1) + 1 ELSE 0
        /\ \A i \in 1 .. Len(s) - (k + 1) + 1 : v[i] = s[k + 1 + i - 1]
    BY <2>1, SubSeqProperties
  <2> HIDE DEF v
  <2>3. /\ Len(s) - (k + 1) + 1 = Len(s) - k /\ (~(k + 1 <= Len(s)) => Len(s) - k = 0)
        /\ \A i \in 1 .. Len(s) - k : k + 1 + i - 1 = k + i
    <3>1. k \in Nat /\ Len(s) \in Nat /\ k <= Len(s)
      BY <1>0, <1>3
    <3> QED BY <3>1
  <2> QED BY <2>2, <2>3
<1> HIDE DEF u, v
<1>7. /\ u \o v \in Seq(Sources) /\ Len(u \o v) = Len(u) + Len(v)
      /\ \A i \in 1 .. Len(u) + Len(v) : (u \o v)[i] = IF i <= Len(u) THEN u[i] ELSE v[i - Len(u)]
  BY <1>5, <1>6, ConcatProperties
<1>8. t = u \o v
  BY DEF u, v
<1> HIDE DEF t
<1>9. t \in Seq(Sources) /\ DOMAIN t = 1 .. Len(s) - 1
  <2>1. t \in Seq(Sources)
    BY <1>7, <1>8
  <2>2. Len(u) + Len(v) = Len(s) - 1
    BY <1>0, <1>3, <1>5, <1>6
  <2>3. Len(t) = Len(s) - 1
    BY <1>7, <1>8, <2>2
  <2> QED BY <2>1, <2>3
<1>10. ASSUME NEW i \in 1 .. Len(s) - 1
       PROVE  t[i] = s[IF i < k THEN i ELSE i + 1]
  <2>1. CASE i < k
    <3>1. i \in 1 .. Len(u) + Len(v) /\ i <= Len(u) /\ i \in 1 .. k - 1
      BY <1>0, <1>3, <1>5, <1>6, <1>10, <2>1
    <3> QED BY <1>5, <1>7, <1>8, <2>1, <3>1
  <2>2. CASE ~(i < k)
    <3>1. /\ i \in 1 .. Len(u) + Len(v) /\ ~(i <= Len(u))
          /\ i - Len(u) \in 1 .. Len(s) - k /\ k + (i - Len(u)) = i + 1
      BY <1>0, <1>3, <1>5, <1>6, <1>10, <2>2
    <3> QED BY <1>6, <1>7, <1>8, <2>2, <3>1
  <2> QED BY <2>1, <2>2
<1>11. IsInjective(t)
  <2> SUFFICES ASSUME NEW i \in 1 .. Len(s) - 1, NEW j \in 1 .. Len(s) - 1, t[i] = t[j] PROVE i = j
    BY <1>9 DEF IsInjective
  <2> DEFINE ii == IF i < k THEN i ELSE i + 1
             jj == IF j < k THEN j ELSE j + 1
  <2>1. ii \in 1 .. Len(s) /\ jj \in 1 .. Len(s) /\ (ii = jj => i = j)
    BY <1>0, <1>3
  <2>2. s[ii] = s[jj]
    BY <1>10
  <2> HIDE DEF ii, jj
  <2> QED BY <1>0, <2>1, <2>2 DEF IsInjective
<1>12. ToSet(t) \subseteq ToSet(s) \ {p}
  <2> SUFFICES ASSUME NEW i \in 1 .. Len(s) - 1 PROVE t[i] \in ToSet(s) \ {p}
    BY <1>9 DEF ToSet
  <2> DEFINE ii == IF i < k THEN i ELSE i + 1
  <2>1. ii \in 1 .. Len(s) /\ ii # k /\ t[i] = s[ii]
    BY <1>0, <1>3, <1>10
  <2> HIDE DEF ii
  <2> QED BY <1>0, <1>3, <2>1 DEF IsInjective, ToSet
<1>13. ToSet(s) \ {p} \subseteq ToSet(t)
  <2> SUFFICES ASSUME NEW i \in 1 .. Len(s), s[i] # p PROVE s[i] \in ToSet(t)
    BY <1>0 DEF ToSet
  <2> DEFINE n == IF i < k THEN i ELSE i - 1
  <2>1. n \in 1 .. Len(s) - 1 /\ (IF n < k THEN n ELSE n + 1) = i
    <3>1. i # k
      BY <1>3
    <3> QED BY <1>0, <1>3, <3>1
  <2>2. t[n] = s[i]
    BY <1>10, <2>1
  <2> HIDE DEF n
  <2> QED BY <1>9, <2>1, <2>2 DEF ToSet
<1> QED BY <1>4, <1>9, <1>11, <1>12, <1>13

LEMMA ClosedPreserves ==
    ASSUME ProgramIInv, NEW p \in Sources, ProducerClosed(p) PROVE ProgramIInv'
<1>0. ProgramTyped /\ GraphComposed /\ DueWhileRunning /\ BuildsCurrent
  BY DEF ProgramIInv
<1>1. /\ p \in ToSet(onAir) /\ onAir' = RemoveFirst(onAir, p)
      /\ debounce' = (debounce \/ (p \in tapped /\ running))
      /\ UNCHANGED <<ever, running, building, tapped, graph, exits, muddled>>
  BY <1>0 DEF ProducerClosed, Watched, Reschedule, ProgramTyped
<1>2. onAir' \in Seq(Sources) /\ IsInjective(onAir') /\ ToSet(onAir') = ToSet(onAir) \ {p}
  BY <1>0, <1>1, MemberRemoved DEF ProgramTyped
<1>3. ProgramTyped'
  BY <1>0, <1>1, <1>2 DEF ProgramTyped
<1>4. GraphComposed'
  BY <1>0, <1>1 DEF GraphComposed
<1>5. DueWhileRunning'
  BY <1>0, <1>1 DEF DueWhileRunning
<1>6. BuildsCurrent'
  <2> SUFFICES ASSUME ~muddled PROVE BuildsCurrent'
    BY <1>1 DEF BuildsCurrent
  <2>1. OneAtATime'
    BY <1>0, <1>1 DEF BuildsCurrent, OneAtATime, Busy
  <2>2. ASSUME running, NEW b \in OneBuild, Busy(b)' PROVE BuildIsCurrent(b)'
    <3>1. BuildIsCurrent(b)
      BY <1>0, <1>1, <2>2 DEF BuildsCurrent, Busy
    <3> QED BY <1>1, <1>2, <2>2, <3>1 DEF BuildIsCurrent
  <2>3. ASSUME running, ~debounce', \A b \in OneBuild : ~Busy(b)' PROVE ShownIsOnAir'
    <3>1. ShownIsOnAir
      BY <1>0, <1>1, <2>3 DEF BuildsCurrent, Busy
    <3>2. p \in tapped
      BY <1>1, <3>1 DEF ShownIsOnAir
    <3> QED BY <1>1, <2>3, <3>2
  <2> QED BY <1>1, <2>1, <2>2, <2>3 DEF BuildsCurrent
<1> QED BY <1>3, <1>4, <1>5, <1>6 DEF ProgramIInv

\* A build that begins beside another muddles; one that begins alone is current.
LEMMA BegunPreserves ==
    ASSUME ProgramIInv, NEW b \in OneBuild, NEW why \in Reasons \ {"none"}, BeginBuild(b, why),
           UNCHANGED <<onAir, ever, running>>, debounce' \in BOOLEAN, debounce' => debounce
    PROVE  ProgramIInv'
<1>0. ProgramTyped /\ GraphComposed /\ DueWhileRunning /\ BuildsCurrent
  BY DEF ProgramIInv
<1> DEFINE new == [todo |-> onAir, inputs |-> <<>>, why |-> why]
<1>1. /\ ~Busy(b) /\ building' = [building EXCEPT ![b] = new] /\ tapped' = {} /\ graph' = NoGraph
      /\ muddled' = (muddled \/ IdleBuilds # OneBuild)
  BY DEF BeginBuild, IdleBuilds, Busy
<1>2. /\ new \in [todo : Seq(Sources), inputs : Seq(Sources), why : Reasons] /\ new # NoBuild
      /\ new.todo = onAir /\ ToSet(new.inputs) = {}
  BY <1>0 DEF ProgramTyped, NoBuild, ToSet
<1> HIDE DEF new
<1>3. /\ building'[b] = new /\ \A c \in OneBuild \ {b} : building'[c] = building[c]
  BY <1>0, <1>1 DEF ProgramTyped
<1>4. ProgramTyped'
  BY <1>0, <1>1, <1>2 DEF ProgramTyped
<1>5. GraphComposed' /\ DueWhileRunning'
  BY <1>0, <1>1 DEF GraphComposed, DueWhileRunning
<1>6. BuildsCurrent'
  <2> SUFFICES ASSUME ~muddled' PROVE BuildsCurrent'
    BY DEF BuildsCurrent
  <2>1. \A c \in OneBuild : ~Busy(c)
    BY <1>1 DEF IdleBuilds, Busy
  <2>2. \A c \in OneBuild : Busy(c)' <=> c = b
    BY <1>2, <1>3, <2>1 DEF Busy
  <2>3. BuildIsCurrent(b)'
    BY <1>1, <1>2, <1>3 DEF BuildIsCurrent
  <2> QED BY <2>2, <2>3 DEF BuildsCurrent, OneAtATime
<1> QED BY <1>4, <1>5, <1>6 DEF ProgramIInv

LEMMA FailedPreserves ==
    ASSUME ProgramIInv, NEW b \in OneBuild, FailBuild(b), UNCHANGED <<onAir, ever, exits>>
    PROVE  ProgramIInv'
<1>0. ProgramTyped /\ GraphComposed /\ DueWhileRunning /\ BuildsCurrent
  BY DEF ProgramIInv
<1>1. building' = [building EXCEPT ![b] = NoBuild]
  BY DEF FailBuild
<1>2. \/ muddled' = TRUE /\ UNCHANGED <<running, tapped, graph, debounce>>
      \/ /\ running' = FALSE /\ tapped' = {} /\ graph' = NoGraph /\ debounce' = FALSE
         /\ UNCHANGED muddled
  BY DEF FailBuild
<1>3. ProgramTyped'
  BY <1>0, <1>1, <1>2, NoBuildTyped DEF ProgramTyped
<1>4. GraphComposed' /\ DueWhileRunning'
  BY <1>0, <1>2 DEF GraphComposed, DueWhileRunning
<1>5. BuildsCurrent'
  <2> SUFFICES ASSUME ~muddled' PROVE BuildsCurrent'
    BY DEF BuildsCurrent
  <2>1. running' = FALSE /\ ~muddled
    BY <1>2
  <2>2. \A c \in OneBuild : Busy(c)' => Busy(c)
    BY <1>0, <1>1 DEF Busy, ProgramTyped
  <2>3. OneAtATime'
    BY <1>0, <2>1, <2>2 DEF BuildsCurrent, OneAtATime
  <2> QED BY <2>1, <2>3 DEF BuildsCurrent
<1> QED BY <1>3, <1>4, <1>5 DEF ProgramIInv

\* What is tapped moves from what is to be tapped to the inputs.
LEMMA OpenedPreserves ==
    ASSUME ProgramIInv, NEW b \in OneBuild, OpenTap(b) PROVE ProgramIInv'
<1>0. ProgramTyped /\ GraphComposed /\ DueWhileRunning /\ BuildsCurrent
  BY DEF ProgramIInv
<1> DEFINE p == Head(building[b].todo)
           rest == Tail(building[b].todo)
           more == Append(building[b].inputs, p)
<1>1. CASE p \notin ToSet(onAir)
  BY <1>1, FailedPreserves DEF OpenTap
<1>2. CASE p \in ToSet(onAir)
  <2>0. building[b] \in [todo : Seq(Sources), inputs : Seq(Sources), why : Reasons] /\ building[b].todo # <<>>
    BY <1>0 DEF ProgramTyped, OpenTap
  <2>1. /\ tapped' = tapped \cup {p} /\ building' = [building EXCEPT ![b].todo = rest, ![b].inputs = more]
        /\ UNCHANGED <<onAir, ever, exits, running, graph, debounce, muddled>>
    BY <1>2 DEF OpenTap
  <2>2. /\ p \in Sources /\ rest \in Seq(Sources) /\ more \in Seq(Sources)
        /\ ToSet(building[b].todo) \subseteq {p} \cup ToSet(rest)
        /\ ToSet(more) = ToSet(building[b].inputs) \cup {p}
    <3> DEFINE s == building[b].todo
               i == building[b].inputs
    <3>1. s \in Seq(Sources) /\ i \in Seq(Sources) /\ s # <<>>
      BY <2>0
    <3> HIDE DEF s, i
    <3>2. /\ Head(s) \in Sources /\ Head(s) = s[1] /\ Tail(s) \in Seq(Sources) /\ Len(s) \in Nat \ {0}
          /\ DOMAIN s = 1 .. Len(s) /\ DOMAIN Tail(s) = 1 .. Len(s) - 1
          /\ \A n \in 1 .. Len(s) - 1 : Tail(s)[n] = s[n + 1]
      BY <3>1
    <3>3. ASSUME NEW n \in DOMAIN s PROVE s[n] \in {Head(s)} \cup ToSet(Tail(s))
      <4>1. CASE n = 1
        BY <3>2, <4>1
      <4>2. CASE n # 1
        <5>1. n - 1 \in DOMAIN Tail(s) /\ Tail(s)[n - 1] = s[n]
          BY <3>2, <3>3, <4>2
        <5> QED BY <5>1 DEF ToSet
      <4> QED BY <4>1, <4>2
    <3>4. ASSUME NEW q \in Sources PROVE Append(i, q) \in Seq(Sources) /\ ToSet(Append(i, q)) = ToSet(i) \cup {q}
      <4> DEFINE t == Append(i, q)
      <4>1. /\ t \in Seq(Sources) /\ Len(i) \in Nat /\ DOMAIN i = 1 .. Len(i) /\ DOMAIN t = 1 .. Len(i) + 1
            /\ t[Len(i) + 1] = q /\ \A n \in 1 .. Len(i) : t[n] = i[n]
        BY <3>1
      <4> HIDE DEF t
      <4>2. \A n \in DOMAIN t : n \in DOMAIN i \/ n = Len(i) + 1
        BY <4>1
      <4>3. Len(i) + 1 \in DOMAIN t /\ DOMAIN i \subseteq DOMAIN t
        BY <4>1
      <4>4. ToSet(t) \subseteq ToSet(i) \cup {q}
        BY <4>1, <4>2 DEF ToSet
      <4>5. ToSet(i) \cup {q} \subseteq ToSet(t)
        BY <4>1, <4>3 DEF ToSet
      <4> QED BY <4>1, <4>4, <4>5 DEF t
    <3>5. ToSet(s) \subseteq {Head(s)} \cup ToSet(Tail(s))
      BY <3>3 DEF ToSet
    <3> QED BY <3>2, <3>4, <3>5 DEF s, i
  <2> HIDE DEF p, rest, more
  <2>3. /\ building'[b] = [building[b] EXCEPT !.todo = rest, !.inputs = more]
        /\ \A c \in OneBuild \ {b} : building'[c] = building[c]
        /\ building' \in [OneBuild -> [todo : Seq(Sources), inputs : Seq(Sources), why : Reasons]]
    BY <1>0, <2>0, <2>1, <2>2 DEF ProgramTyped
  <2>4. building'[b].todo = rest /\ building'[b].inputs = more
    BY <2>0, <2>3
  <2>5. Busy(b)
    BY <2>0 DEF Busy, NoBuild
  <2>6. ProgramTyped'
    BY <1>0, <2>1, <2>2, <2>3 DEF ProgramTyped
  <2>7. GraphComposed' /\ DueWhileRunning'
    BY <1>0, <2>1 DEF GraphComposed, DueWhileRunning
  <2>8. BuildsCurrent'
    <3> SUFFICES ASSUME ~muddled PROVE BuildsCurrent'
      BY <2>1 DEF BuildsCurrent
    <3>1. \A c \in OneBuild : Busy(c) => c = b
      BY <1>0, <2>5 DEF BuildsCurrent, OneAtATime
    <3>2. \A c \in OneBuild : Busy(c)' => c = b
      BY <2>3, <3>1 DEF Busy
    <3>3. Busy(b)'
      <4>1. more # <<>>
        BY <2>2 DEF ToSet
      <4> QED BY <2>4, <4>1 DEF Busy, NoBuild
    <3>4. running => BuildIsCurrent(b)'
      <4>1. running => BuildIsCurrent(b)
        BY <1>0, <2>5 DEF BuildsCurrent
      <4> QED BY <1>2, <2>1, <2>2, <2>4, <4>1 DEF BuildIsCurrent
    <3> QED BY <2>1, <3>2, <3>3, <3>4 DEF BuildsCurrent, OneAtATime
  <2> QED BY <2>6, <2>7, <2>8 DEF ProgramIInv
<1> QED BY <1>1, <1>2

\* With nothing left to tap the inputs are what is on air.
LEMMA StartedPreserves ==
    ASSUME ProgramIInv, NEW b \in OneBuild, StartFfmpeg(b) PROVE ProgramIInv'
<1>0. ProgramTyped /\ GraphComposed /\ DueWhileRunning /\ BuildsCurrent
  BY DEF ProgramIInv
<1> DEFINE s == building[b].inputs
<1>1. CASE ~Composable(s)
  BY <1>1, FailedPreserves DEF StartFfmpeg
<1>2. CASE Composable(s)
  <2>1. /\ Busy(b) /\ building[b].todo = <<>> /\ graph' = Compose(s)
        /\ building' = [building EXCEPT ![b] = NoBuild]
        /\ UNCHANGED <<onAir, ever, exits, running, tapped, debounce, muddled>>
    BY <1>2 DEF StartFfmpeg, Busy
  <2>2. s \in Seq(Sources)
    BY <1>0 DEF ProgramTyped
  <2>3. ToSet(Compose(s).inputs) = ToSet(s)
    BY <2>2, SortedMembers DEF Compose
  <2>4. ToSet(building[b].todo) = {}
    BY <2>1 DEF ToSet
  <2> HIDE DEF s
  <2>5. ProgramTyped'
    BY <1>0, <2>1, NoBuildTyped DEF ProgramTyped
  <2>6. GraphComposed' /\ DueWhileRunning'
    BY <1>0, <1>2, <2>1, <2>2 DEF GraphComposed, DueWhileRunning
  <2>7. BuildsCurrent'
    <3> SUFFICES ASSUME ~muddled PROVE BuildsCurrent'
      BY <2>1 DEF BuildsCurrent
    <3>1. \A c \in OneBuild : Busy(c) => c = b
      BY <1>0, <2>1 DEF BuildsCurrent, OneAtATime
    <3>2. \A c \in OneBuild : ~Busy(c)'
      BY <1>0, <2>1, <3>1 DEF Busy, ProgramTyped
    <3>3. ASSUME running, ~debounce PROVE ShownIsOnAir'
      <4>1. BuildIsCurrent(b)
        BY <1>0, <2>1, <3>3 DEF BuildsCurrent
      <4>2. ToSet(s) = ToSet(onAir) /\ tapped = ToSet(s)
        BY <2>4, <3>3, <4>1 DEF BuildIsCurrent, s
      <4> QED BY <2>1, <2>3, <4>2 DEF ShownIsOnAir
    <3> QED BY <2>1, <3>2, <3>3 DEF BuildsCurrent, OneAtATime
  <2> QED BY <2>5, <2>6, <2>7 DEF ProgramIInv
<1> QED BY <1>1, <1>2

LEMMA AgainPreserves == ASSUME ProgramIInv, BuildAgain PROVE ProgramIInv'
<1>0. ProgramTyped /\ GraphComposed /\ DueWhileRunning /\ BuildsCurrent
  BY DEF ProgramIInv
<1>1. CASE exits < MaxExits
  <2>1. PICK b \in OneBuild : BeginBuild(b, "retry")
    BY <1>1 DEF BuildAgain
  <2>2. UNCHANGED <<onAir, ever, running, debounce>>
    BY <1>1 DEF BuildAgain
  <2> QED BY <1>0, <2>1, <2>2, BegunPreserves DEF ProgramTyped, Reasons
<1>2. CASE ~(exits < MaxExits)
  <2>1. /\ running' = FALSE /\ tapped' = {} /\ graph' = NoGraph /\ debounce' = FALSE
        /\ UNCHANGED <<building, muddled, onAir, ever>>
    BY <1>2 DEF BuildAgain
  <2>2. ProgramTyped' /\ GraphComposed' /\ DueWhileRunning'
    BY <1>0, <2>1 DEF ProgramTyped, GraphComposed, DueWhileRunning
  <2>3. BuildsCurrent'
    BY <1>0, <2>1 DEF BuildsCurrent, OneAtATime, Busy
  <2> QED BY <2>2, <2>3 DEF ProgramIInv
<1> QED BY <1>1, <1>2

LEMMA ProgramInductive == ProgramIInv /\ [ProgramNext]_programVars => ProgramIInv'
<1> SUFFICES ASSUME ProgramIInv, [ProgramNext]_programVars PROVE ProgramIInv'
  OBVIOUS
<1>1. ASSUME NEW p \in Sources, ProducerAdded(p) \/ ProducerClosed(p) PROVE ProgramIInv'
  BY <1>1, AddedPreserves, ClosedPreserves
<1>2. ASSUME NEW b \in OneBuild, OpenTap(b) \/ StartFfmpeg(b) PROVE ProgramIInv'
  BY <1>2, OpenedPreserves, StartedPreserves
<1>3. ASSUME NEW b \in OneBuild, Rebuild(b) PROVE ProgramIInv'
  <2>1. BeginBuild(b, "member") /\ debounce' = FALSE /\ UNCHANGED <<onAir, ever, running>>
    BY <1>3 DEF Rebuild
  <2> QED BY <2>1, BegunPreserves DEF Reasons
<1>4. CASE FfmpegExits \/ StartTimesOut
  BY <1>4, AgainPreserves DEF FfmpegExits, StartTimesOut
<1>5. CASE UNCHANGED programVars
  BY <1>5 DEF programVars, ProgramIInv, ProgramTyped, GraphComposed, DueWhileRunning, BuildsCurrent,
     OneAtATime, Busy, BuildIsCurrent, ShownIsOnAir
<1> QED BY <1>1, <1>2, <1>3, <1>4, <1>5 DEF ProgramNext

LEMMA ProgramImplied == ProgramIInv => ProgramInv
<1> SUFFICES ASSUME ProgramIInv PROVE ProgramInv
  OBVIOUS
<1>1. graph # NoGraph => GraphIsWhole(graph)
  BY ComposedIsWhole DEF ProgramIInv, GraphComposed
<1>2. Still /\ ~muddled => ShownIsOnAir
  BY DEF ProgramIInv, BuildsCurrent, Still, IdleBuilds, Busy
<1> QED BY <1>1, <1>2 DEF ProgramInv, ShownIsOnAir

\* However producers come and go while a build taps them, once none is under
\* way nor due the program shows what is on air, each producer in one place.
THEOREM ProgramAlwaysWhole == ProgramSpec => []ProgramInv
<1>1. ProgramSpec => []ProgramIInv
  BY ProgramInitially, ProgramInductive, PTL DEF ProgramSpec
<1> QED BY <1>1, ProgramImplied, PTL

=============================================================================
