----------------------------- MODULE WorkerPool -----------------------------
(***************************************************************************)
(* The pool of mediasoup workers and the placement of one router per room  *)
(* (apps/server/src/sfu/worker-manager.ts), driven by joinRoom and by the  *)
(* room-closed notification of sfu.service.ts.                             *)
(*                                                                         *)
(* A router is created by a round trip to a worker process: createRouterOn *)
(* is the choice of a worker, an await, and the registration of what came  *)
(* back, and anything may happen in between.  A router is known by its     *)
(* room and its worker; `hosted' counts the open ones, so that two routers *)
(* of one room on one worker are told apart from one.                      *)
(***************************************************************************)
EXTENDS Integers, FiniteSets

CONSTANTS
    Rooms,
    Workers,      \* worker processes; each lives once
    FirstWorkers, \* those onModuleInit starts
    NoWorker,     \* no router in `routers'
    NoRoom,       \* no creation under way in a recovery
    MaxRouters,   \* bound: routers of one room that joins have made, or are
                  \* making, on one worker
    MaxDeaths     \* bound: workers that die

ASSUME PoolStartsWithWorkers == FirstWorkers \subseteq Workers
ASSUME WorkersAreFinite == IsFiniteSet(Workers)
ASSUME NoneIsNone == NoWorker \notin Workers /\ NoRoom \notin Rooms
ASSUME BoundsAreNat == MaxRouters \in Nat /\ MaxDeaths \in Nat

VARIABLES
    process,      \* state of each worker process: "unborn", "live", "dead"
    pool,         \* `entries'
    roomIds,      \* the rooms of each pool entry
    routers,      \* the worker of the router the map has for each room
    hosted,       \* open routers by room and worker, in the map or not
    open,         \* rooms that have participants
    calls,        \* createRouterOn calls of joins awaiting their worker
    recovery,     \* handleWorkerDeath, by dead worker
    unaware       \* rooms whose participants lost their media and were not told

workerVars == <<process, pool, roomIds, routers, hosted, open, calls, recovery, unaware>>

poolVars == <<process, pool>>

Phases == {"none", "spawning", "recreating", "done"}

\* A recovery that is not, or no longer, under way.
Idle(phase) == [phase |-> phase, todo |-> {}, making |-> NoRoom,
                entry |-> NoWorker, recovered |-> {}]

Live(w) == process[w] = "live"

\* A recovery between two awaits of its loop runs to the next one before
\* anything else does.
MidTurn(w) == recovery[w].phase = "recreating" /\ recovery[w].making = NoRoom

AllAwaiting == \A w \in Workers : ~MidTurn(w)

PoolInit ==
    /\ process = [w \in Workers |-> IF w \in FirstWorkers THEN "live" ELSE "unborn"]
    /\ pool = FirstWorkers
    /\ roomIds = [w \in Workers |-> {}]
    /\ routers = [r \in Rooms |-> NoWorker]
    /\ hosted = [r \in Rooms |-> [w \in Workers |-> 0]]
    /\ open = {}
    /\ calls = [r \in Rooms |-> [w \in Workers |-> 0]]
    /\ recovery = [w \in Workers |-> Idle("none")]
    /\ unaware = {}

-----------------------------------------------------------------------------
(* Placement.                                                              *)

LeastLoaded(w) ==
    /\ w \in pool
    /\ \A v \in pool : Cardinality(roomIds[w]) <= Cardinality(roomIds[v])

\* Variant: the router is registered without its entry's room list.
RegisterInMapOnly(r, w) ==
    /\ routers' = [routers EXCEPT ![r] = w]
    /\ hosted' = [hosted EXCEPT ![r][w] = @ + 1]
    /\ UNCHANGED roomIds

\* The end of createRouterOn: the router goes into the map over whatever is
\* there, and its room to the entry's list.
Register(r, w) ==
    /\ routers' = [routers EXCEPT ![r] = w]
    /\ hosted' = [hosted EXCEPT ![r][w] = @ + 1]
    /\ roomIds' = [roomIds EXCEPT ![w] = @ \cup {r}]

\* joinRoom, from the admission to the await of createRouter: an existing
\* router is returned, else a creation begins on the least-loaded worker (the
\* first such; any, here).  Without a worker the join is not acknowledged.
JoinRoom(r) ==
    /\ AllAwaiting
    /\ open' = open \cup {r}
    /\ IF routers[r] # NoWorker \/ pool = {}
       THEN UNCHANGED calls
       ELSE \E w \in pool :
                /\ LeastLoaded(w)
                /\ calls[r][w] + hosted[r][w] < MaxRouters
                /\ calls' = [calls EXCEPT ![r][w] = @ + 1]
    /\ UNCHANGED <<poolVars, roomIds, routers, hosted, recovery, unaware>>

\* The worker answers a join's creation.
RouterCreated(r, w) ==
    /\ AllAwaiting
    /\ calls[r][w] > 0
    /\ Live(w)
    /\ calls' = [calls EXCEPT ![r][w] = @ - 1]
    /\ Register(r, w)
    /\ UNCHANGED <<poolVars, open, recovery, unaware>>

\* Variant: closeRouter forgets to take the router out of the map.
CloseRouterInMap(r) ==
    /\ IF routers[r] = NoWorker
       THEN UNCHANGED hosted
       ELSE hosted' = [hosted EXCEPT ![r][routers[r]] = @ - 1]
    /\ roomIds' = [w \in Workers |-> roomIds[w] \ {r}]
    /\ UNCHANGED routers

\* Variant: closeRouter leaves the room in its entry's list.
CloseRouterInList(r) ==
    /\ IF routers[r] = NoWorker
       THEN UNCHANGED hosted
       ELSE hosted' = [hosted EXCEPT ![r][routers[r]] = @ - 1]
    /\ routers' = [routers EXCEPT ![r] = NoWorker]
    /\ UNCHANGED roomIds

\* closeRouter: close what the map has for the room, and forget the room.
CloseRouter(r) ==
    /\ IF routers[r] = NoWorker
       THEN UNCHANGED hosted
       ELSE hosted' = [hosted EXCEPT ![r][routers[r]] = @ - 1]
    /\ routers' = [routers EXCEPT ![r] = NoWorker]
    /\ roomIds' = [w \in Workers |-> roomIds[w] \ {r}]

\* The room is deserted or ended, which closes its router.
RoomCloses(r) ==
    /\ AllAwaiting
    /\ r \in open
    /\ open' = open \ {r}
    /\ unaware' = unaware \ {r}
    /\ CloseRouter(r)
    /\ UNCHANGED <<poolVars, calls, recovery>>

-----------------------------------------------------------------------------
(* handleWorkerDeath.                                                      *)

EntriesWithout(w) == pool \ {w}

\* A worker process dies, and all its routers with it.  Its entry goes, the
\* rooms of the entry lose their router in the map, and a replacement starts.
\* Creations the worker owed an answer are rejected: joins not acknowledged.
WorkerDies(w) ==
    /\ AllAwaiting
    /\ Live(w)
    /\ Cardinality({v \in Workers : process[v] = "dead"}) < MaxDeaths
    /\ process' = [process EXCEPT ![w] = "dead"]
    /\ pool' = EntriesWithout(w)
    /\ hosted' = [r \in Rooms |-> [hosted[r] EXCEPT ![w] = 0]]
    /\ routers' = [r \in Rooms |-> IF r \in roomIds[w] THEN NoWorker ELSE routers[r]]
    /\ recovery' = [recovery EXCEPT ![w].phase = "spawning", ![w].todo = roomIds[w]]
    /\ unaware' = unaware \cup {r \in open : routers[r] = w}
    /\ roomIds' = [roomIds EXCEPT ![w] = {}]
    /\ calls' = [r \in Rooms |-> [calls[r] EXCEPT ![w] = 0]]
    /\ UNCHANGED open

\* The replacement is up (a failed start is retried until it is).
ReplacementUp(w, new) ==
    /\ AllAwaiting
    /\ recovery[w].phase = "spawning"
    /\ process[new] = "unborn"
    /\ process' = [process EXCEPT ![new] = "live"]
    /\ pool' = pool \cup {new}
    /\ recovery' = [recovery EXCEPT ![w].phase = "recreating", ![w].entry = new]
    /\ UNCHANGED <<roomIds, routers, hosted, open, calls, unaware>>

\* A turn of the loop: a lost room somebody has made a router for is passed
\* over, for any other a creation begins on the replacement.
NextLostRoom(w, r) ==
    /\ MidTurn(w)
    /\ r \in recovery[w].todo
    /\ recovery' = [recovery EXCEPT
                       ![w].todo = @ \ {r},
                       ![w].making = IF routers[r] = NoWorker THEN r ELSE NoRoom]
    /\ UNCHANGED <<poolVars, roomIds, routers, hosted, open, calls, unaware>>

\* The replacement answers.
RouterRecreated(w) ==
    LET r == recovery[w].making IN
    /\ AllAwaiting
    /\ recovery[w].phase = "recreating"
    /\ Live(recovery[w].entry)
    /\ Register(r, recovery[w].entry)
    /\ recovery' = [recovery EXCEPT ![w].making = NoRoom, ![w].recovered = @ \cup {r}]
    /\ UNCHANGED <<poolVars, open, calls, unaware>>

\* Variant: a creation that fails begins anew, on the dead replacement.
RecreationRetried(w) ==
    /\ AllAwaiting
    /\ recovery[w].phase = "recreating"
    /\ ~Live(recovery[w].entry)
    /\ UNCHANGED workerVars

\* The replacement died in its turn: logged, and on to the next room.
RecreationFails(w) ==
    /\ AllAwaiting
    /\ recovery[w].phase = "recreating"
    /\ ~Live(recovery[w].entry)
    /\ recovery' = [recovery EXCEPT ![w].making = NoRoom]
    /\ UNCHANGED <<poolVars, roomIds, routers, hosted, open, calls, unaware>>

\* The loop is over: the rooms in which it made a router, and have one, are
\* reset.
AnnounceReset(w) ==
    /\ MidTurn(w)
    /\ recovery[w].todo = {}
    /\ unaware' = unaware \ {r \in recovery[w].recovered : routers[r] # NoWorker}
    /\ recovery' = [recovery EXCEPT ![w] = Idle("done")]
    /\ UNCHANGED <<poolVars, roomIds, routers, hosted, open, calls>>

-----------------------------------------------------------------------------

Recover(w) ==
    \/ \E new \in Workers : ReplacementUp(w, new)
    \/ \E r \in Rooms : NextLostRoom(w, r)
    \/ RouterRecreated(w)
    \/ RecreationFails(w)
    \/ AnnounceReset(w)

PoolNext ==
    \/ \E r \in Rooms : JoinRoom(r) \/ RoomCloses(r)
    \/ \E r \in Rooms, w \in Workers : RouterCreated(r, w)
    \/ \E w \in Workers : WorkerDies(w) \/ Recover(w)

PoolSpec == PoolInit /\ [][PoolNext]_workerVars

\* A replacement worker comes up in the end, and a live worker answers.
PoolFairness == \A w \in Workers : WF_workerVars(Recover(w))

-----------------------------------------------------------------------------

\* Each variable has the shape of what it stands for.
PoolTypeOK ==
    /\ process \in [Workers -> {"unborn", "live", "dead"}]
    /\ pool \subseteq Workers
    /\ roomIds \in [Workers -> SUBSET Rooms]
    /\ routers \in [Rooms -> Workers \cup {NoWorker}]
    /\ hosted \in [Rooms -> [Workers -> Nat]]
    /\ open \subseteq Rooms
    /\ calls \in [Rooms -> [Workers -> 0..MaxRouters]]
    /\ recovery \in [Workers -> [phase : Phases, todo : SUBSET Rooms,
                                 making : Rooms \cup {NoRoom},
                                 entry : Workers \cup {NoWorker},
                                 recovered : SUBSET Rooms]]
    /\ unaware \subseteq open

\* Whoever joins is given a router that works: what the map has for a room is
\* an open router of a live worker, and that worker's entry lists the room,
\* so that the worker's death will be noticed for it.
RoutersWork ==
    \A r \in Rooms : routers[r] # NoWorker =>
        /\ Live(routers[r])
        /\ hosted[r][routers[r]] > 0
        /\ r \in roomIds[routers[r]]

\* The load the placement goes by is real: a pool entry lists only rooms that
\* have an open router there.
LoadIsReal == \A w \in pool : \A r \in roomIds[w] : hosted[r][w] > 0

PoolInv == PoolTypeOK /\ RoutersWork /\ LoadIsReal

\* Every recovery ends, also when replacements die while they are filled.
RecoveryEnds ==
    \A w \in Workers : recovery[w].phase = "spawning" ~> recovery[w].phase = "done"

-----------------------------------------------------------------------------
(* What the documents and comments say, and the code does not do.          *)

\* "Pool of mediasoup workers with one router per room" (worker-manager.ts:40)
OneRouterPerRoom ==
    \A r \in Rooms : \A v, w \in Workers :
        hosted[r][v] > 0 /\ hosted[r][w] > 0 => v = w /\ hosted[r][w] = 1

\* "every room that Worker hosted receives a new Router, and each affected
\* participant is notified with `sfu:room-media-reset'"
\* (openspec/specs/sfu/spec.md:391)
AffectedAreTold == \A r \in Rooms : r \in unaware ~> r \notin unaware

\* "Routers SHALL be torn down when the room ends or empties"
\* (openspec/specs/sfu/spec.md:379): once nothing is under way for a closed
\* room, it has no router.
ClosedRoomsHaveNoRouter ==
    \A r \in Rooms \ open : routers[r] # NoWorker =>
        \/ \E w \in Workers : calls[r][w] > 0
        \/ \E w \in Workers : recovery[w].phase \in {"spawning", "recreating"}

\* "rooms whose Router lived on a different Worker keep their media"
\* (openspec/specs/sfu/spec.md:398)
RoomsElsewhereUnaffected ==
    [][\A w \in Workers : Live(w) /\ process'[w] = "dead" =>
          \A r \in Rooms : routers[r] # w => routers'[r] = routers[r]]_workerVars

=============================================================================
