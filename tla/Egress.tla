------------------------------- MODULE Egress -------------------------------
(***************************************************************************)
(* Egress sessions of one room (apps/server/src/egress/egress.service.ts   *)
(* and ffmpeg/ffmpeg-process.ts): the row of each session, its runtime in  *)
(* memory, the ffmpeg processes, their RTP taps and UDP ports, and the     *)
(* timers that restart or fail a pipeline.                                 *)
(*                                                                         *)
(* startPipeline awaits a tap and a file for every producer.  Nothing      *)
(* keeps two of them from running for one session, or one from running on  *)
(* after the session has been stopped, so each is a build of its own that  *)
(* goes from await to await.  Between two awaits a build is at stage       *)
(* "turn", and runs on before anything else happens.                       *)
(*                                                                         *)
(* Updates of a row are requests in flight: they land in any order.  The   *)
(* producers of a build are a number, as listTaps finds it.  Finalizing a  *)
(* recording, which follows the end of a session, is left out.             *)
(***************************************************************************)
EXTENDS Integers, FiniteSets

CONSTANTS
    Sessions,     \* egress ids: each is started at most once
    Ports,        \* UDP ports for RTP, EGRESS_MEDIA_PORT_MIN.._MAX
    Procs,        \* bound: ffmpeg processes alive or about to be spawned
    Builds,       \* bound: startPipeline calls under way
    MaxTaps,      \* bound: producers a build finds
    MaxRestarts,  \* EGRESS_MAX_RESTARTS
    None

ASSUME NoneIsNoId == None \notin Sessions \cup Ports \cup Procs
ASSUME ProcsAreFinite == IsFiniteSet(Procs)
ASSUME BoundsAreNat == MaxTaps \in Nat /\ MaxRestarts \in Nat

VARIABLES
    row,          \* status of the session's row; "none" before it is created
    writes,       \* row updates in flight: the statuses they set
    roomEnded,    \* the room row has status `ended'
    checking,     \* starts that found no active session and await their row
    stopReads,    \* stops that found their row active and act on it next
    rt,           \* session.status; "none" while there is no runtime
    sessions,     \* `sessions': the runtimes a stop can find
    finalizing,   \* finalizations awaiting the exit of their process
    waits,        \* the process a finalization awaits
    liveEmitted,  \* sessions that have gone live
    restarts,     \* session.restartTimes: failures in the retry window
    restartTimer, \* sessions with a membership restart scheduled
    startTimer,   \* sessions whose session.startTimer is pending
    strays,       \* sessions with start timers, one or more, that are pending
                  \* and no longer session.startTimer
    current,      \* session.process
    procs,        \* owner of each process, and whether it was told to stop
    taps,         \* session.taps: the ports its open taps send to
    portsInUse,   \* `portsInUse'
    builds,       \* startPipeline calls
    troubled,     \* history: sessions in which something went wrong
    overlapped    \* history: sessions with two builds at once, or one when stopped

requests == <<roomEnded, checking, stopReads>>
ending == <<finalizing, waits>>
timers == <<restartTimer, startTimer>>
runtime == <<current, procs, taps, portsInUse>>
history == <<troubled, overlapped>>
life == <<rt, sessions, liveEmitted, restarts>>

vars == <<row, writes, requests, ending, timers, strays, runtime, life, builds, history>>

BudgetSpent == MaxRestarts + 1

Active == {"starting", "live"}
Terminal == {"ended", "failed"}

FreeProc == [of |-> None, told |-> FALSE]
FreeBuild == [of |-> None, kind |-> "start", left |-> 0, stage |-> "none", port |-> None]

\* Processes of s that nobody has told to stop.
Producing(s) == {p \in Procs : procs[p].of = s /\ ~procs[p].told}

BuildsOf(s) == {b \in Builds : builds[b].of = s}

AllAwaiting == \A b \in Builds : builds[b].stage # "turn"

\* What is within the bounds: a process for every build that may yet spawn one.
CanBuild(b, ps) ==
    /\ builds[b].of = None
    /\ Cardinality({p \in Procs : ps[p].of # None})
         + Cardinality({c \in Builds : builds[c].of # None}) < Cardinality(Procs)

Init ==
    /\ row = [s \in Sessions |-> "none"]
    /\ writes = [s \in Sessions |-> {}]
    /\ roomEnded = FALSE
    /\ checking = {}
    /\ stopReads = {}
    /\ rt = [s \in Sessions |-> "none"]
    /\ sessions = {}
    /\ finalizing = {}
    /\ waits = [s \in Sessions |-> None]
    /\ liveEmitted = {}
    /\ restarts = [s \in Sessions |-> 0]
    /\ restartTimer = {}
    /\ startTimer = {}
    /\ strays = {}
    /\ current = [s \in Sessions |-> None]
    /\ procs = [p \in Procs |-> FreeProc]
    /\ taps = [s \in Sessions |-> {}]
    /\ portsInUse = {}
    /\ builds = [b \in Builds |-> FreeBuild]
    /\ troubled = {}
    /\ overlapped = {}

-----------------------------------------------------------------------------
(* The steps that handlers share.  `ps' and `bs' are the processes and the *)
(* builds as the handler has left them so far.                             *)

\* Variant: the ports of taps still being opened are released as well.
ReleasedEarly(S) ==
    (UNION {taps[s] : s \in S}) \cup {builds[b].port : b \in {c \in Builds : builds[c].of \in S}}

\* The ports closeRuntime gives back: those of the taps it closes.
Released(S) == UNION {taps[s] : s \in S}

\* Variant: closeRuntime closes the taps and lets the process be.
CloseTaps(S, ps) ==
    /\ procs' = ps
    /\ current' = [s \in Sessions |-> IF s \in S THEN None ELSE current[s]]
    /\ taps' = [s \in Sessions |-> IF s \in S THEN {} ELSE taps[s]]
    /\ portsInUse' = portsInUse \ Released(S)

\* closeRuntime of each session of S: its process is told to stop, its taps
\* are closed.
CloseRuntime(S, ps) ==
    /\ procs' = [p \in Procs |->
                    IF ps[p].of \in S /\ current[ps[p].of] = p
                    THEN [ps[p] EXCEPT !.told = TRUE]
                    ELSE ps[p]]
    /\ current' = [s \in Sessions |-> IF s \in S THEN None ELSE current[s]]
    /\ taps' = [s \in Sessions |-> IF s \in S THEN {} ELSE taps[s]]
    /\ portsInUse' = portsInUse \ Released(S)

\* Variant: the start timer is left pending.
RestartTimerCleared(S) ==
    /\ restartTimer' = restartTimer \ S
    /\ UNCHANGED startTimer

\* clearTimeout of both timers of the sessions of S.
ClearTimers(S) ==
    /\ restartTimer' = restartTimer \ S
    /\ startTimer' = startTimer \ S

\* startPipeline by build b, up to its first await or, if it needs none, to
\* the spawn: the current pipeline is torn down first.
BeginPipeline(b, s, kind, ps) ==
    /\ CloseRuntime({s}, ps)
    /\ startTimer' = startTimer \ {s}
    /\ \E n \in 0..MaxTaps :
          builds' = [builds EXCEPT ![b] = [of |-> s, kind |-> kind, left |-> n,
                                           stage |-> "turn", port |-> None]]

\* failSession: unlike finalize it runs whatever session.status is.
FailSession(s, ps, bs) ==
    /\ rt' = [rt EXCEPT ![s] = "stopping"]
    /\ ClearTimers({s})
    /\ CloseRuntime({s}, ps)
    /\ sessions' = sessions \ {s}
    /\ writes' = [writes EXCEPT ![s] = @ \cup {"failed"}]
    /\ builds' = bs

\* onPipelineFailure: another pipeline while the budget of the retry window
\* lasts.  Failures that have left the window are forgotten first.
PipelineFails(s, ps) ==
    /\ \E kept \in 0..restarts[s] :
          /\ restarts' = [restarts EXCEPT ![s] = IF kept < MaxRestarts THEN kept + 1
                                                 ELSE BudgetSpent]
          /\ IF kept + 1 > MaxRestarts
             THEN FailSession(s, ps, builds)
             ELSE /\ \E b \in Builds : CanBuild(b, ps) /\ BeginPipeline(b, s, "retry", ps)
                  /\ UNCHANGED <<rt, sessions, writes, restartTimer>>
    /\ UNCHANGED liveEmitted

\* finalize of those sessions of S that are not stopping yet, up to the await
\* of their processes.
Finalize(S) ==
    LET F == {s \in S : rt[s] = "starting"} IN
    /\ rt' = [s \in Sessions |-> IF s \in F THEN "stopping" ELSE rt[s]]
    /\ ClearTimers(F)
    /\ CloseRuntime(F, procs)
    /\ finalizing' = finalizing \cup F
    /\ waits' = [s \in Sessions |-> IF s \in F THEN current[s] ELSE waits[s]]

\* The history: s has two builds, or one although it is stopping.
NoteOverlap ==
    overlapped' = overlapped \cup
        {s \in Sessions : \/ \E b, c \in BuildsOf(s)' : b # c
                          \/ rt'[s] = "stopping" /\ BuildsOf(s)' # {}}

-----------------------------------------------------------------------------
(* Starting a session.                                                     *)

\* start, up to the check for an active session of the room.
StartCheck(s) ==
    /\ AllAwaiting
    /\ row[s] = "none" /\ s \notin checking
    /\ ~roomEnded
    /\ \A t \in Sessions : row[t] \notin Active
    /\ checking' = checking \cup {s}
    /\ UNCHANGED <<row, writes, roomEnded, stopReads, ending, timers, strays, runtime,
                   life, builds, history>>

\* The database has the row: who reads it finds a session without a runtime.
RowCreated(s) ==
    /\ AllAwaiting
    /\ s \in checking /\ row[s] = "none"
    /\ row' = [row EXCEPT ![s] = "starting"]
    /\ UNCHANGED <<writes, requests, ending, timers, strays, runtime, life, builds, history>>

\* And answers, whatever the row is by then: runtime and subscriptions are set
\* up, and the session's directories are being made.
StartCreate(s) ==
    /\ AllAwaiting
    /\ s \in checking /\ row[s] # "none"
    /\ checking' = checking \ {s}
    /\ rt' = [rt EXCEPT ![s] = "starting"]
    /\ sessions' = sessions \cup {s}
    /\ \E b \in Builds :
          /\ CanBuild(b, procs)
          /\ builds' = [builds EXCEPT ![b] = [FreeBuild EXCEPT !.of = s, !.stage = "dirs"]]
    /\ UNCHANGED <<row, writes, roomEnded, stopReads, ending, timers, strays, runtime,
                   liveEmitted, restarts, history>>

\* The directories are there, and the first pipeline is built, whatever has
\* become of the session.
DirsReady(b) ==
    /\ AllAwaiting
    /\ builds[b].stage = "dirs"
    /\ BeginPipeline(b, builds[b].of, "start", procs)
    /\ UNCHANGED <<row, writes, requests, ending, restartTimer, strays, life, troubled>>
    /\ NoteOverlap

-----------------------------------------------------------------------------
(* A build.                                                                *)

\* Variant: the loop goes once too often.
OneMoreTap(b) == builds[b].left >= 0

MoreTaps(b) == builds[b].left > 0

FreePort(port) == port \notin portsInUse

\* allocatePort, and openTap is awaited.
NextTap(b, port) ==
    /\ builds[b].stage = "turn" /\ MoreTaps(b)
    /\ FreePort(port)
    /\ portsInUse' = portsInUse \cup {port}
    /\ builds' = [builds EXCEPT ![b] = [@ EXCEPT !.stage = "opening", !.port = port]]
    /\ UNCHANGED <<row, writes, requests, ending, timers, strays, current, procs, taps,
                   life, history>>

\* The tap is open and joins the session's; its SDP file is being written.
TapOpened(b) ==
    /\ AllAwaiting
    /\ builds[b].stage = "opening"
    /\ taps' = [taps EXCEPT ![builds[b].of] = @ \cup {builds[b].port}]
    /\ builds' = [builds EXCEPT ![b] = [@ EXCEPT !.stage = "writing", !.port = None]]
    /\ UNCHANGED <<row, writes, requests, ending, timers, strays, current, procs,
                   portsInUse, life, history>>

SdpWritten(b) ==
    /\ AllAwaiting
    /\ builds[b].stage = "writing"
    /\ builds' = [builds EXCEPT ![b].stage = "turn", ![b].left = @ - 1]
    /\ UNCHANGED <<row, writes, requests, ending, timers, strays, runtime, life, history>>

\* All taps are open: the pipeline is spawned, whatever has become of the
\* session, and takes the place of the process the session may have.
Spawn(b, p) ==
    LET s == builds[b].of IN
    /\ builds[b].stage = "turn" /\ ~MoreTaps(b)
    /\ procs[p] = FreeProc
    /\ procs' = [procs EXCEPT ![p].of = s]
    /\ current' = [current EXCEPT ![s] = p]
    /\ startTimer' = startTimer \cup {s}
    /\ strays' = strays \cup ({s} \cap startTimer)
    /\ builds' = [builds EXCEPT ![b] = FreeBuild]
    /\ UNCHANGED <<row, writes, requests, ending, restartTimer, taps, portsInUse, life,
                   history>>

\* An await of the build is rejected, or no port is free: what it holds stays
\* as it is.  A first start or a retry fails the session, a membership restart
\* is only logged.
BuildFails(b) ==
    LET s == builds[b].of
        bs == [builds EXCEPT ![b] = FreeBuild]
    IN
    /\ IF builds[b].stage = "turn"
       THEN MoreTaps(b) /\ \A port \in Ports : ~FreePort(port)
       ELSE builds[b].stage # "none" /\ AllAwaiting
    /\ IF builds[b].kind = "member"
       THEN builds' = bs /\ UNCHANGED <<writes, timers, runtime, rt, sessions>>
       ELSE FailSession(s, procs, bs)
    /\ troubled' = troubled \cup {s}
    /\ UNCHANGED <<row, requests, ending, strays, liveEmitted, restarts>>
    /\ NoteOverlap

-----------------------------------------------------------------------------
(* Processes and timers.                                                   *)

\* markLive, on progress of any of the session's processes.
Progress(p) ==
    LET s == procs[p].of IN
    /\ AllAwaiting
    /\ s \in Sessions \ liveEmitted
    /\ rt[s] = "starting"
    /\ liveEmitted' = liveEmitted \cup {s}
    /\ startTimer' = startTimer \ {s}
    /\ writes' = [writes EXCEPT ![s] = @ \cup {"live"}]
    /\ UNCHANGED <<row, requests, ending, restartTimer, strays, runtime, rt, sessions,
                   restarts, builds, history>>

\* A process exits, of itself or because it was told to.  onProcessExit takes
\* either for a failure of the pipeline, unless the session is stopping.
ProcExits(p) ==
    LET s == procs[p].of
        ps == [procs EXCEPT ![p] = FreeProc]
    IN
    /\ AllAwaiting
    /\ s # None
    /\ waits' = [waits EXCEPT ![s] = IF @ = p THEN None ELSE @]
    /\ IF rt[s] = "stopping"
       THEN /\ procs' = ps
            /\ current' = [current EXCEPT ![s] = IF @ = p THEN None ELSE @]
            /\ UNCHANGED <<writes, timers, taps, portsInUse, life, builds>>
       ELSE PipelineFails(s, ps)
    /\ troubled' = IF procs[p].told THEN troubled ELSE troubled \cup {s}
    /\ UNCHANGED <<row, requests, finalizing, strays>>
    /\ NoteOverlap

\* A start timer fires: session.startTimer or one it has lost.  The pipeline
\* has failed, be the session stopping or not; once it has gone live, nothing
\* comes of it.
StartTimeout(s) ==
    /\ AllAwaiting
    /\ s \notin liveEmitted
    /\ \/ s \in startTimer /\ UNCHANGED strays
       \/ s \in strays /\ strays' \in {strays, strays \ {s}}
    /\ PipelineFails(s, procs)
    /\ troubled' = troubled \cup {s}
    /\ UNCHANGED <<row, requests, ending>>
    /\ NoteOverlap

\* The guard of scheduleMembershipRestart.
MayReschedule(s) == rt[s] # "stopping"

\* scheduleMembershipRestart, when a producer is added to the room or the
\* producer of a tap closes: a scheduled restart is put off.
MembershipChanges(s) ==
    /\ AllAwaiting
    /\ rt[s] = "starting" \/ taps[s] # {}
    /\ MayReschedule(s)
    /\ restartTimer' = restartTimer \cup {s}
    /\ UNCHANGED <<row, writes, requests, ending, startTimer, strays, runtime, life,
                   builds, history>>

\* The debounce is over: a new pipeline takes in the change.
RestartFires(s) ==
    /\ AllAwaiting
    /\ s \in restartTimer
    /\ restartTimer' = restartTimer \ {s}
    /\ IF rt[s] = "stopping"
       THEN UNCHANGED <<startTimer, runtime, builds>>
       ELSE \E b \in Builds : CanBuild(b, procs) /\ BeginPipeline(b, s, "member", procs)
    /\ UNCHANGED <<row, writes, requests, ending, strays, life, troubled>>
    /\ NoteOverlap

-----------------------------------------------------------------------------
(* Ending a session.                                                       *)

\* stop, up to the read of the row (the gateway's handleStop reads it too).
StopRead(s) ==
    /\ AllAwaiting
    /\ row[s] \in Active
    /\ stopReads' = stopReads \cup {s}
    /\ UNCHANGED <<row, writes, roomEnded, checking, ending, timers, strays, runtime, life,
                   builds, history>>

\* The rest of stop: a session without a runtime has its row closed.
Stop(s) ==
    /\ AllAwaiting
    /\ s \in stopReads
    /\ stopReads' = stopReads \ {s}
    /\ IF s \in sessions
       THEN Finalize({s}) /\ UNCHANGED writes
       ELSE /\ writes' = [writes EXCEPT ![s] = @ \cup {"ended"}]
            /\ UNCHANGED <<ending, timers, runtime, rt>>
    /\ UNCHANGED <<row, roomEnded, checking, strays, sessions, liveEmitted, restarts,
                   builds, troubled>>
    /\ NoteOverlap

\* The room is deserted, or ended for good: every session subscribed to it is
\* finalized.  The server's shutdown does the same.
RoomCloses(ends) ==
    /\ AllAwaiting
    /\ roomEnded' = (roomEnded \/ ends)
    /\ Finalize(Sessions)
    /\ UNCHANGED <<row, writes, checking, stopReads, strays, sessions, liveEmitted,
                   restarts, builds, troubled>>
    /\ NoteOverlap

\* Variant: a finalization awaits every process of its session.
AllExited(s) == \A p \in Procs : procs[p].of # s

\* The process the finalization told to stop has exited.
Exited(s) == waits[s] = None

\* finalize goes on once its process has exited.
Finalized(s) ==
    /\ AllAwaiting
    /\ s \in finalizing
    /\ Exited(s)
    /\ finalizing' = finalizing \ {s}
    /\ sessions' = sessions \ {s}
    /\ writes' = [writes EXCEPT ![s] = @ \cup {"ended"}]
    /\ UNCHANGED <<row, requests, waits, timers, strays, runtime, rt, liveEmitted,
                   restarts, builds, history>>

\* An update of the row lands: it sets the status whatever it is.
WriteLands(s, status) ==
    /\ AllAwaiting
    /\ status \in writes[s]
    /\ writes' = [writes EXCEPT ![s] = @ \ {status}]
    /\ row' = [row EXCEPT ![s] = status]
    /\ UNCHANGED <<requests, ending, timers, strays, runtime, life, builds, history>>

\* The server dies and comes up again: nothing of the runtimes is left, and
\* onModuleInit marks what was active as failed.
ServerRestart ==
    /\ AllAwaiting
    /\ row' = [s \in Sessions |-> IF row[s] \in Active THEN "failed" ELSE row[s]]
    /\ writes' = [s \in Sessions |-> {}]
    /\ checking' = {} /\ stopReads' = {}
    /\ rt' = [s \in Sessions |-> "none"]
    /\ sessions' = {} /\ finalizing' = {} /\ liveEmitted' = {}
    /\ waits' = [s \in Sessions |-> None]
    /\ restarts' = [s \in Sessions |-> 0]
    /\ restartTimer' = {} /\ startTimer' = {}
    /\ strays' = {}
    /\ current' = [s \in Sessions |-> None]
    /\ procs' = [p \in Procs |-> FreeProc]
    /\ taps' = [s \in Sessions |-> {}]
    /\ portsInUse' = {}
    /\ builds' = [b \in Builds |-> FreeBuild]
    /\ UNCHANGED <<roomEnded, history>>

-----------------------------------------------------------------------------

BuildGoesOn(b) ==
    \/ DirsReady(b)
    \/ \E port \in Ports : NextTap(b, port)
    \/ TapOpened(b)
    \/ SdpWritten(b)
    \/ \E p \in Procs : Spawn(b, p)
    \/ BuildFails(b)

Next ==
    \/ \E s \in Sessions :
          \/ StartCheck(s) \/ RowCreated(s) \/ StartCreate(s)
          \/ StartTimeout(s) \/ MembershipChanges(s) \/ RestartFires(s)
          \/ StopRead(s) \/ Stop(s) \/ Finalized(s)
          \/ \E status \in {"live", "ended", "failed"} : WriteLands(s, status)
    \/ \E b \in Builds : BuildGoesOn(b)
    \/ \E p \in Procs : Progress(p) \/ ProcExits(p)
    \/ \E ends \in BOOLEAN : RoomCloses(ends)
    \/ ServerRestart

\* The awaits of a build are answered or rejected; a process that is told to
\* stop exits (SIGKILL follows SIGINT after the grace); the database answers.
\* Fairness is strong where builds may come in between again and again: an
\* exit or an answer waits in the event queue meanwhile.
Fairness ==
    /\ \A b \in Builds : WF_vars(BuildGoesOn(b))
    /\ \A p \in Procs : SF_vars(procs[p].told /\ ProcExits(p))
    /\ \A s \in Sessions :
          /\ SF_vars(Finalized(s))
          /\ \A status \in Terminal : SF_vars(WriteLands(s, status))

Spec == Init /\ [][Next]_vars

FairSpec == Spec /\ Fairness

-----------------------------------------------------------------------------

Stages == {"none", "dirs", "turn", "opening", "writing"}

\* Each variable has the shape of what it stands for.
TypeOK ==
    /\ row \in [Sessions -> {"none"} \cup Active \cup Terminal]
    /\ writes \in [Sessions -> SUBSET {"live", "ended", "failed"}]
    /\ roomEnded \in BOOLEAN
    /\ checking \subseteq Sessions /\ stopReads \subseteq Sessions
    /\ rt \in [Sessions -> {"none", "starting", "stopping"}]
    /\ sessions \subseteq Sessions /\ finalizing \subseteq Sessions
    /\ waits \in [Sessions -> Procs \cup {None}]
    /\ liveEmitted \subseteq Sessions
    /\ restarts \in [Sessions -> 0..BudgetSpent]
    /\ restartTimer \subseteq Sessions /\ startTimer \subseteq Sessions
    /\ strays \subseteq Sessions
    /\ current \in [Sessions -> Procs \cup {None}]
    /\ procs \in [Procs -> [of : Sessions \cup {None}, told : BOOLEAN]]
    /\ taps \in [Sessions -> SUBSET Ports]
    /\ portsInUse \subseteq Ports
    /\ builds \in [Builds -> [of : Sessions \cup {None}, kind : {"start", "retry", "member"},
                              left : 0..MaxTaps, stage : Stages, port : Ports \cup {None}]]
    /\ troubled \subseteq Sessions /\ overlapped \subseteq Sessions

\* No two taps ever send to the same port: a port is neither given to two
\* builds nor given back, by a restart, a stop or a failure that overlaps a
\* build, while a tap still uses it or is being opened on it.
PortsExclusive ==
    /\ \A s, t \in Sessions : s # t => taps[s] \cap taps[t] = {}
    /\ \A b, c \in Builds : b # c /\ builds[b].stage = "opening" => builds[c].port # builds[b].port
    /\ \A b \in Builds, s \in Sessions : builds[b].port \notin taps[s]
    /\ UNION {taps[s] : s \in Sessions} \subseteq portsInUse

PortsInv == TypeOK /\ PortsExclusive

\* Unless builds overlapped, a session has at most the one process it knows:
\* no restart or retry leaves an earlier pipeline pushing as well.
OneProgram ==
    \A s \in Sessions \ overlapped : Producing(s) \subseteq {current[s]}

\* Unless a build was under way, nothing of a session that is stopping goes
\* on: no pipeline that was not told to stop, no tap, and no timer that would
\* start one.  Even with one, no change of membership brings the session back.
OrderlyStopIsClean ==
    \A s \in Sessions : rt[s] = "stopping" =>
        /\ s \notin restartTimer
        /\ s \notin overlapped =>
              Producing(s) = {} /\ taps[s] = {} /\ s \notin startTimer \cup strays

\* A stop that has begun ends: its process exits and the row becomes terminal,
\* whatever builds, exits and timers of the session go on beside it.
StopEnds == \A s \in Sessions : s \in finalizing ~> row[s] \in Terminal

-----------------------------------------------------------------------------
(* What the documents and comments say, and the code does not do.          *)

\* A session fails when its pipelines keep failing ("Process exit while not
\* stopping: bounded retry, then terminal failure", egress.service.ts:397):
\* not when its own restarts replace a healthy pipeline.
FailedOnlyAfterTrouble == \A s \in Sessions : "failed" \in writes[s] => s \in troubled

\* "a second concurrent active session for the same room SHALL respond 409"
\* (openspec/specs/egress/spec.md:19)
OneActivePerRoom == \A s, t \in Sessions : row[s] \in Active /\ row[t] \in Active => s = t

\* "a terminal `ended' (with reason `stopped' or `room-ended') or `failed'"
\* (openspec/specs/egress/spec.md:116)
TerminalIsFinal == [][\A s \in Sessions : row[s] \in Terminal => row'[s] = row[s]]_vars

\* "the session SHALL terminate its outputs and become `ended'"
\* (openspec/specs/egress/spec.md:144)
OutputsCease == \A s \in Sessions : row[s] = "ended" => Producing(s) = {}

\* A port is given back with its tap: one in use belongs to a tap or a build.
PortsReturned ==
    \A port \in portsInUse :
        \/ \E s \in Sessions : port \in taps[s]
        \/ \E b \in Builds : builds[b].port = port

\* "When a room ends [...] its active egress session SHALL stop"
\* (openspec/specs/egress/spec.md:152): none starts in an ended room.
RoomEndStopsEgress == [][roomEnded => \A s \in Sessions : row[s] = "none" => row'[s] = "none"]_vars

=============================================================================
