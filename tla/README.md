# zvonok: a verification project

zvonok is a WebRTC conferencing platform: a NestJS server (`src/apps/server`) around a
mediasoup SFU, a React client (`src/apps/client`) and SDK packages (`src/packages`).
This directory holds TLA+ models of its core logic, TLC configurations that check them
on small instances, and theorems that TLAPS proves for every instance. The source is the
reference: each definition is translated from the lines `PROJECT.json` maps it to.

Contents: [Inventory](#inventory), [How the models are written](#how-the-models-are-written),
[Modules](#modules), [Runs](#runs), [Bounds](#bounds), [Fairness](#fairness),
[Proofs](#proofs), [Divergences](#divergences), [Hazards left out of the list](#hazards-left-out-of-the-list),
[Not modelled](#not-modelled), [Plan](#plan).

## Inventory

Server paths are below `src/apps/server/src`, client paths below `src/packages/client/src` (the
SDK), `src/packages/react/src` (the hooks) or `src/apps/client/src` (the application).

### Server

| Component | State it keeps | Operations | Hard behaviour | What makes it correct |
|---|---|---|---|---|
| Room Presence (`sfu/room-presence.service.ts`) | records, members, owner, lock, kicks, grace seats, handlers | join, leave, hold seat, expire, kick, lock, end | the await inside join; drops seen late; the grace timer against rejoin, kick and end | maps agree; nobody is readmitted after a kick; rosters tell the truth; joined and left pair up; a lifetime ends completely |
| SFU media (`sfu/sfu.service.ts`, `sfu.gateway.ts`) | media per socket, screen-share slot, routers of rooms | transports, produce, consume, pause, mute, reset | each operation awaits a mediasoup worker and resumes into a changed room | announcements are never lost; the slot is honest |
| Worker pool (`sfu/worker-manager.ts`) | pool entries, room to router | create and close router, death of a worker | check, await, act; a death during a creation | the map names working routers; the load is real; recoveries end |
| Egress sessions (`egress/egress.service.ts`, `ffmpeg/ffmpeg-process.ts`) | row, runtime, ports, timers, process | start, pipeline, failure, restart on a membership change, stop, room end, boot | overlapping asynchronous pipelines, exits, timers, a crash | ports are exclusive; one program; a stop leaves nothing behind and ends |
| Egress program (`ffmpeg/args-composer.ts`, `sfu/room-media-source.port.ts`) | taps and the graph of the running ffmpeg | list taps, build, compose | producers come and go during a build | the graph is whole; it shows what is on the air |
| Recordings (`egress/egress.service.ts`, `recordings.service.ts`, `recordings.controller.ts`) | part files, remuxed file, row | write, remux, download by range, remove, stop of the server | removal and download during the remux | nothing recorded is dropped; what is announced is served |
| Webhooks (`webhooks/`) | in-memory chain per project | emit, enqueue, deliver with retries | asynchronous lookup before the queue; retries | order per project; every delivery ends |
| Auth (`auth/`, `user/user.controller.ts`, `api-client.ts`) | hash of the refresh token, lockout counter, roles, cookies | login, refresh, logout, retry, demote | read-modify-write under concurrency; tabs that share cookies | a reuse has a cause; a lock needs failures |
| Room identity (`flexible-room-auth.guard.ts`, `room-socket-auth.helper.ts`, `guest-token.helper.ts`, `routes/room.tsx`) | cookies of a browser, identity per page and per socket | guest-check, handshake, join, sign in and out | the request and the socket read different cookies at different times | a guest sits by an approval of that room only |
| Guest join (`room/guest.service.ts`, `use-guest-join-room.ts`, `use-guest-join-requests.ts`) | requests, queues of the owner's tabs | ask, poll, decide, expire | several tabs, requests and polls at once | a pending request is asked about; a waiting guest is answered |
| Rooms and Chat (`room/`, `chat/`, `chat.context.tsx`) | room rows, call records, messages; history query of each page | end, update, clean up; send, list, page | read outside of the transaction; history against live messages | what is owed to a page reaches it |
| Whiteboard (`whiteboard/`, `use-whiteboard-panel.ts`, `transport.ts`) | Yjs document, mode, admissions; panel per user | join, update, set mode, drop | the engine loads while the state arrives; lost connections | who was given the board sees it whole; the mode is known |
| Platform and developers (`platform/`, `developer/`) | accounts, projects, keys, room tokens | register, sign in, keys, rooms, tokens, join | check and write across an await; revocation against use | tenants are apart; a revoked key admits nobody who comes later |
| Pages (`platform/pagination.helper.ts`) | cursor | page | rows change between two pages | no row twice, none skipped |

### SDK, hooks and application

| Component | State it keeps | Operations | Hard behaviour | What makes it correct |
|---|---|---|---|---|
| SDK session (`sfu/session.ts`, `manager.ts`, `use-zvonok-connection.ts`) | payload, rejoin budget, token refresh, status | join, leave, drop, rejoin, refresh, fail | disconnects, denials and refreshes interleave | over is over; recovery ends |
| SDK publish (`sfu/publish.ts`, `use-zvonok-call.ts`, `use-publish-controls.ts`) | producers, buffer, retained tracks | produce, pause, replace, replay | the transport comes after the track; drops in between | one producer per source; nothing published is forgotten |
| SDK subscribe (`sfu/subscribe.ts`, `participant-registry.ts`, `room-tracker.ts`) | consumers, waiting announcements, participants shown | consume, flush, depart, reset | announcements before the transport, drops, resets | whoever publishes is heard |
| Media capture (`media/capture.ts`, `capture-state.ts`, `use-device-controls.ts`) | stream, state, retry | start, switch, stop, retry | getUserMedia answers late and out of order | one live track, none after a stop |
| Devices (`use-device-permissions.ts`, `device-service.ts`) | permission, list, choice | query, change, enumerate, select | queries and change events out of order | the permission shown is the browser's |
| Actions (`sfu/actions.ts`, `sfu-broadcast.service.ts`, `egress-signal.gateway.ts`, `use-egress-controls.ts`) | requests with timers | emit with acknowledgement, answer, time out | drops, late answers | a resolved action was carried out once |
| Peer quality (`core/peer-quality-engine.ts`, `stats-collector.ts`) | timers, reports, layers asked for | poll, score, debounce, bind | timers against scrolls, hiding and leaving | the layer wanted is asked for |
| Speakers and playout (`audio/`, `use-audio-activity.ts`, `use-remote-audio.ts`) | entries, speaker, mixer | tick, add, swap, volume, sink | swapped tracks | playout is as chosen; silence is reported |
| Participants panel (`room-tracker.ts`, `participants-panel.ts`, `host-controls.ts`) | row of a participant, shown lock | events, mute, lock | events while a track is awaited or the host is away | the row follows what was told |
| Prejoin (`use-prejoin.ts`, `zvonok-embedded-room.tsx`, `room.tsx`) | stage of the way in | confirm, skip, fail, leave | effects on every render | a join is meant |
| Layout and stage (`grid-layout.ts`, `use-room-layout.ts`, `stage.tsx`) | - (a function of the room) | lay out | boundaries of sizes | everyone has a tile; tiles do not overlap |
| Whiteboard client (`excalidraw-yjs-binding.ts`) | snapshots, order, echoes | report, apply, undo | late and repeated reports of the engine | nothing of the others is deleted |
| Pages of the application and console, HLS playback, health, Prisma schema, docs, deployment | - | - | - | not modelled |

Components interact by direct calls (gateways and controllers call services), by callbacks
(`onPeerDetach` and `onRoomClosed` from presence to media, egress and whiteboard; tap handlers
from media to egress), by socket events to the clients, by HTTP with cookies, and by rows in
PostgreSQL.

## How the models are written

The server is one Node.js process, and so is a page. A handler runs without interruption up to
its first `await` on I/O; anything may run before it resumes. So an action of a model is a
handler, or the part of one between two such awaits, and it changes all that this part changes.
What two awaits leave in local variables is a member of a set (`calls`, `builds`, `ops`,
`handlers`, `asking`, ...). Sockets keep their order and lose what is under way when they drop;
separate database statements, `getUserMedia` and HTTP requests are answered in any order.

A definition whose comment starts with "Variant:" belongs to no specification: it is the form a
plausible bug would give its neighbour, kept to show that the property beside it notices.
Each checked property has one. Bounds on counters are constants named `Max...`; each guards
the action that counts.

Several modules share a run. They share no state in the code as far as they are modelled, so
their MC module (`MCSdkPublish`, `MCSdkSession`, `MCServerData`, `MCSfuMedia`, `MCEgress`,
`MCBackground`) starts each behaviour with a choice of the part that is `acting`; the others
rest where they began. That checks each module in all its behaviours and multiplies nothing.
Modules that do share state are composed for real: Chat and GuestJoin extend Rooms and meet in
RoomLife; Webhooks implements WebhookFifo through WebhooksRefinement. Where a module needs a
neighbour's behaviour it has it as environment, and the neighbour's module is named in its
header (SfuMedia has the membership of RoomPresence and the router of WorkerPool; SdkSubscribe
has the server as one viewer meets it).

## Modules

| Module | What it models; how state and actions correspond |
|---|---|
| `RoomPresence` | the service's maps for one room (`records`, `peers`, `ownerKnown`, `locked`, `kicked`, `heldSeats`), the joins that await their identity (`pending`), what each client was told (`roster`), two webhook counts. `join` is `BeginJoin`/`JoinRefusedByLock`, then `Admit`/`JoinRefused` |
| `Webhooks`, `WebhookFifo`, `WebhooksRefinement` | an event is a job; `Enqueue` follows its lookup, `after` is the promise it waits for, `tail` the map; attempts, backoff and abandonment. `WebhookFifo` is a queue per project; the refinement orders the unfinished jobs of a project by their places in its chain |
| `WorkerPool` | `calls` are creations under way, `recovery` the loop of each `handleWorkerDeath`, `hosted` the open routers, in the map or not |
| `SfuMedia` | an operation is a begin action, a member of `calls`, and an action for the worker's answer. A MediaPeer is a socket and the number of its join: a member may join again, and the new MediaPeer replaces the old one, whose transports and producers nobody closes (`stray`) |
| `Egress` | `row` is the database, `rt` the runtime's status; each `startPipeline` is a build that goes from await to await (`dirs`, `opening`, `writing`; `turn` between); row updates in flight are `writes`. `RowCreated` and `StartCreate` are on either side of the row's creation. `strays` are start timers that `session.startTimer` has lost |
| `Program` | producers on the air, builds that tap them one after the other, the graph ffmpeg is started with, and the processes that are alive: the exit of one that was replaced asks for a build too |
| `Recordings` | part files as pipelines write them, the remux, the row, downloads by range and removals |
| `Auth`, `Identity` | accounts with their tokens and locks, each read and write a step, and the API client of each tab; cookies of a browser over two rooms, read by requests and by sockets |
| `Rooms`, `Chat`, `GuestJoin`, `RoomLife` | the room's row, messages and call records; the gateway and each page's query; requests, polls, queues and dialogs; the three together |
| `Whiteboard`, `Binding` | board, mode, admissions, panels and transports; one user's drawing engine against the document |
| `Platform`, `Pages` | accounts, keys, rooms and room tokens of two developers; the keyset walk over a changing table |
| `SdkSession` | socket, session and status of the hook, and what the waiter of the `join()` under way has heard, whichever join was answered; the server and socket.io are the environment |
| `SdkPublish`, `Capture`, `Devices` | from the buttons to the producers over drops and resets; one capture alone with the browser; permission, list and choice |
| `SdkSubscribe`, `Roster` | one viewer and the others; a host's panel of one participant |
| `PeerQuality`, `Speakers` | the layer asked for of each camera, in seconds; levels, speaker and mixer |
| `Actions` | requests with acknowledgement, their server side, and the egress status shown |
| `Prejoin`, `Layout` | the machine of confirmations in its two hosts; geometry and contents of the stage, lengths as exact fractions |
| `*Proofs` | theorems, see Proofs; one module for each group of components that share a run |

`PROJECT.json` maps each definition to the lines it translates and gives each component the
note on what is abstracted.

## Runs

| Run | Instance | Shown to hold |
|---|---|---|
| `room_presence` | 3 users on 4 sockets, one on two; 1 pending join per socket; 2 unmatched joined | maps, rosters, lifetime and webhook counts agree; a kick is terminal |
| `background` | webhooks: 3 events, 2 projects, 3 attempts, one endpoint that never answers; pool: 2 rooms, 1 worker and 2 replacements, 2 deaths | a FIFO per project; one project's silence leaves the other's deliveries alone; the router map works, recoveries end |
| `sfu_media` | 2 members, 2 producers, 2 operations at once, 3 joins or deaths; panel: 3 moves, 1 blip | no announcement is lost between a transport and a producer, the share slot is not left behind; the panel follows what it was told |
| `egress` | 1 session, 1 port, 2 processes, 2 builds, 1 restart; program: microphone, camera and screen | ports exclusive, one program, a stop is clean and ends; the graph is whole |
| `sdk_session` | 4 drops, 2 rejoins a window; quality: 5 s interval, 3 s debounce, 4 moves; audio: 6 deeds | over is over, recovery ends; cameras are driven; playout is as chosen, silence is reported |
| `sdk_publish` | publish: 2 sources, 1 drop, 1 reset; capture; 3 requests in 4 mixes; 2 cameras; up to 17 tiles on 6 stages; 3 confirmations; a board of 2 elements and 3 strokes | one producer per source and none forgotten; one live track; answers are true; permission is current; tiles are apart, and up to fifteen are in the stage; joins are meant; the binding deletes nothing |
| `sdk_subscribe` | 2 others with a producer each, 1 drop, 1 reset | whoever publishes is heard and shown |
| `room_life` | owner and guest, 2 requests, 3 moves | what is owed to a page reaches it; pending requests are asked about; the guest is answered |
| `server_data` | auth: 3 tabs on 2 devices; platform: 2 developers, 2 keys; a recording of 2 parts; 4 rows by pages of 2; a board of 2 users; a browser over 2 rooms | reuse and locks have causes; tenants are apart; recordings are served as announced; pages neither skip nor repeat; the board is shown whole; guests sit by approval |
| `reset_recovery` | as `sdk_subscribe` | violation: the rebuild after a worker death never completes |
| `whiteboard_late_joiner` | as `server_data` | violation: a late joiner whose engine loads slowly sees an empty board |
| `quality_desktop` | as `sdk_session` with the desktop's 2 s interval | violation: the 3 s debounce never runs out, no layer is asked for |

## Bounds

The bounds suffice for the cases that matter. Presence: a second socket of one user next to a
host and a bystander is what every known interaction needs; no handler looks at more than two
users. Webhooks: the first project's chain starts, is forgotten, starts again, and a job queues
behind another. Pool: the second death may fall into the recovery of the first. Media: two
operations of two members, and the answers of both, fall on either side of a departure, a reset
and the end of the room; three turns are two joins and a death, or a sharer that joins again. Egress: two builds and the exit of a third pipeline; a third build would
repeat the overlap of two. SDK: a drop and a reset at every moment of a join, a produce or a
consume; two of either repeat it. Auth: two tabs that share cookies, and a third that does not.
Pages: rows that come, go and come with an equal time, over two page borders. Layout: up
to seventeen tiles, past the fifteen that fit; six stages on either side of every comparison.
Small bounds never hide an action: every disjunct of every next-state relation fires.

`Max...` constants bound the environment (drops, resets, moves, deaths, edits, falls) or local
counters; where the code has the constant the instance names it: the interval and debounce of
`PeerQuality` are the code's seconds, the retry table and the budgets are smaller.
`CHECK_DEADLOCK FALSE` is in every configuration: users may stop acting at any time and the
bounded environments run out of moves.

## Fairness

Timers fire and requests are answered; users, workers and networks are obliged to nothing.

- Webhooks: a lookup, a configuration read and a post end (fetch has a timeout), except that a
  project outside `Responsive` may never be attempted to the end.
- Worker pool: a replacement comes up in the end (`handleWorkerDeath` retries), a live worker
  answers, a dead one's calls are rejected.
- Egress: a build's await is answered or rejected, a process that was told to stop exits
  (SIGKILL follows SIGINT), the database answers. Strong fairness where the turns of builds may
  interrupt again and again: the answer is in the event queue meanwhile.
- SDK session: the join timer fires, socket.io connects or gives up, the server answers what
  reaches it (it may swallow a join, which `RecoveryEnds` excepts), the provider settles.
- Peer quality: time passes, due timers run before it, the browser answers a collection. Audio:
  the sampling interval keeps firing.
- Guest: the poll timer fires in a visible tab, a request that is pending expires at last.

In the composed modules the fairness of each part names the part that is acting; the parts that
rest are asked for nothing.

## Proofs

Checked by TLAPS for every value of the constants that meets the `ASSUME`s of the modules:
bounds are natural numbers, values that stand for "none" belong to no set, hosts are users,
`SlugsAreFinite`, `IdsAreFinite`, `RecordingBoundsAreNat`, `JoinIsNoRequest` and the like. TLC evaluates these
assumptions in the passing runs. Each proof is an inductive invariant, a lemma per action, and a
temporal step. Every inductive invariant was checked by TLC on the instance of its run before it
was proved.

| Module | Theorems | The argument |
|---|---|---|
| `RoomPresenceProofs` | `TypeCorrect`, `MembershipAlwaysAgrees`, `StateAlwaysEndsWithRoom`, `NeverPhantomPeer`, `OccupiedAlwaysStarted`, `NeverUnmatchedLeft`, `KickAlwaysTerminal` | Agreement of the maps alone is not kept by a leave: `IInv` adds `RosterOnlyInside`, that only sockets in the room have a roster. The two webhook counts are compared with the sizes of `peers` and `heldSeats`, which takes lemmas on cardinality. `KickIsTerminal` is an action property: of all actions only an admission adds a record, and it looks at `kicked` after the await |
| `BackgroundProofs` | webhooks: `TypeCorrect`, `NeverOvertaken`, `TailAlwaysTracksWork` | That nothing overtakes needs the chain: tickets are unique, the tail is the last unfinished job, each job waits for its predecessor in its project, jobs are begun in order (`TicketsUnique`, `TailIsLast`, `ChainLinked`, `BegunInOrder`) |
| | `ChainsImplementFifo` | Each step of Webhooks is a step of WebhookFifo or a stutter. The queue of a project is its unfinished jobs in the order of their tickets: that this is one list, that a new job goes to its end and that the one which ends was its head follows from the chain and from lemmas on places in a finite order (`PlacesAreTaken`, `InOrderPlaces`) |
| | `PoolAlwaysWorks` | The map names open routers of live workers, and the load is what they host. Workers that have left the pool still have creations under way, so `ListsAreReal` speaks of those too; `RecoveriesHaveEntry` keeps the pool's size |
| `EgressProofs` | `PortsAlwaysExclusive`, `AlwaysOneProgram`, `OrderlyStopAlwaysClean` | `Typed /\ Held /\ Ordered`. Held: each build of a session means something and no port is in two hands. Ordered goes session by session, for a handler leaves the others `Untouched`: unless builds have overlapped a session is orderly, one that stops has no restart timer, and one without a runtime has nothing of a pipeline |
| | `ProgramAlwaysWhole` | Once sorted each position has one place and the audios have the first ones (`PlacesOnce`, `AudiosFirst`), a screen comes before the cameras (`ScreenIsPrimary`) and no two tiles are in one place; so what is composed is whole, whatever it is composed of. Until a build ends, what it has tapped and what it is to tap is the room, or another build is due (`BuildIsCurrent`, `OneAtATime`) |
| `SfuMediaProofs` | `MediaAlwaysOfMembers`, `EveryoneAlwaysHears` | A call acts on what it looked up before its await: `CallsMeant` says of each what that was. Of a producer that nobody has been told of yet nobody knows anything (`NewIsUnknown`); the share slot is of a screen of somebody who is still there, or empty (`SlotIsHonest`, but for a slot that is held through a MediaPeer which is not in the map: `stranded`, see Divergences). With these no announcement is lost between a transport and a producer, on whichever side of a departure, a reset or the other the answers fall |
| | `PanelShowsWhatIs` | Of mute, publication and lock the last word on the wire is true, and what the panel shows is true where the wire is silent (`MutesAreTold`, `KindsAreTold`, `LocksAreTold`), apart from the words that overtake, which `RosterInv` names. A host that is away hears nothing, and of what is not published nothing is known (`AwayHearsNothing`, `UnpublishedUnknown`, `MutesAreKnown`) |
| `SdkSessionProofs` | `OverIsAlwaysOver` | After a kick or the end of the room nothing is left that could join again; also while a `join()` that the kick has overtaken still waits (`NothingLeft`, `EndedIsTerminal`) |
| | `SwitchesAreNeverMissed` | A layer that was chosen and not asked for has a debounce that is due, and an unbound engine asks for nothing (`SwitchesHaveLevels`, `UnboundAsksNothing`, `SwitchIsDue`) |
| | `PlayoutAlwaysAsChosen` | What is placed in the mixer or in an element plays at the volume and on the sink that were chosen, whatever was swapped since (`PlacedPlays`) |
| `SdkPublishProofs` | `JoinIsAlwaysMeant` | In the embedded room a confirmation that has not led to a join is one whose devices start, and until they have nothing else moves the connection, nor while the machine waits for a confirmation; skip is used up once it has confirmed (`WidgetInv`) |
| | `CaptureAlwaysInOrder` | Requests to the browser are apart from each other, an answer is for one of them, and the stream that is kept is that of the last (`RequestsApart`, `StreamAnswered`) |
| | `PermissionAlwaysCurrent` | A query is answered once, and of the answers and change events the one that is shown is the latest that counts (`AnsweredOnce`, `LatestCounts`) |
| | `AnswersAreTrue` | A request is in one place at a time: on its way there, in the server, on its way back, or decided (`PlacesApart`, `ListsApart`). It is handled once at most, what the acknowledgement carries is what the handler did, and an answer that comes after the timeout was of a request that was carried out (`MissedWereDone`) |
| | `StageAlwaysShowsAll` | The columns that are chosen are the first of the best (`BestExists`). On a stage of 400 px each way they leave fifteen tiles and fewer more than the least size (`ColumnsAreWide`): if the width left less a column less would cover more (`NarrowImproves`), if the height did a column more would (`ShortImproves`); so the grid takes one direction whole and is inside in both (`CellsInside`). However many there are, and also where the least size applies, the cells of a row are a gap apart and rows too (`CellsFollow`, `CellsApart`), and the tiles of a strip from each other and from the screen (`RightStripKnown`, `BottomStripKnown`) |
| | `PublishAlwaysInOrder` | The tracks of a capture are numbered by its starts, and none is newer than the one it holds (`TracksInTime`). What waits, waits for the transport (`OneStage`), and what was retained is older than what has been asked for since (`RetainedIsOlder`); so a source has one place among what is buffered, pending and produced (`OnceBySource`), and what is owed is in one of them (`OwedIsKept`) |
| | `BoardAlwaysBound` | An edit is a report that is neither the echo nor the scene before it. What was there before an edit and is missing in it was erased and has not come back (`MissingIsErased`), and that holds of every scene the binding may compare with, so it survives any echo and any stale scene. While no scene was applied over an edit, reports that are edits come after those that are not (`EditsAreLast`), versions only grow from what the binding knows to the scene (`VersionsGrow`), and what it knows is the document drawn (`LocalIsDrawn`). `reconcileOrder` is a recursive function: that it exists and ends at its target is shown by the least step at which it would not (`ReconcileIs`) |
| | `ClientAlwaysInOrder` | `MCSdkPublish.ClientInv` from the three, for each step of the client is one of one part |
| `SdkSubscribeProofs` | `EveryoneIsAlwaysHeard` | `ViewIInv`. A producer of the room is always in one of the places between its announcement and its consumer (`UnderWay`), and a viewer with an entry has a receiving transport or what leads to one (`TransportComes`). What is said of the departure of a participant comes before all that is said of a producer it has made since (`LeavesFirst`), so no departure takes down who is consumed. Of sharing the last word on the wire is true (`BlockedWhileShared`). The proof rests on lemmas on what comes before what in a list to which is added at the end and from which is taken at the front |
| `ServerDataProofs` | `AccessIsAlwaysOwn` | Whoever acts for a project owns it: what accounts and consoles hold (`AccountsOwned`, `ConsolesOwned`), what calls under way carry (`CallsKeyed`), and the token, the join and the seat each of the project of their room |
| | `RecordingsAreKept` | Pipelines write their parts one after the other and apart (`PartsApart`, `ChunksOnce`), the remux goes step by step, and a file and its row go together (`RemovedTogether`, `StepByStep`) |
| | `SessionsAlwaysInOrder` | One token at most is current, whoever holds it got it by the last rotation, and a rotation was asked for by a tab that awaits it (`OneRotation`, `OneHolder`, `TokenIsCurrent`, `RefreshAwaited`, `IssuedIsMinted`); so a reuse has a cause, and a lock was preceded by its failures |
| | `GuestsAreApproved` | A browser has one cookie for a room, and a cookie, a handshake and a seat each come from an approval of that room (`OneCookieEach`, `HandshakesByApproval`, `SeatsByHandshake`, `SameGuest`): the socket reads the first cookie of its handshake and the request any cookie of its moment, and they agree |
| | `BoardIsAlwaysShown` | What others have drawn and the board holds is in the user's document or on its way there: from a frame that brings the state on, each frame brings all of it (`StatesAreWhole`, `FedIsWhole`). As long as no board was dropped, what a user has of others is on the board already (`FromBoard`), and the first engine of a user keeps what it sends (`FirstKeeps`). Edits are of a mounted engine (`EditsCounted`); the last mode under way is the board's (`ModeComes`) |
| | `RoomAlwaysLives` | What a chatter is owed it has heard, or a frame or a handler brings it (`OwedIsHeard`): it never rests on the pages, which a refetch replaces. Who is offline has no handler that would answer, is not in the channel, and nothing is on the way to it (`ChatInOrder`); who is owed a message was in the channel before it was announced. A tab that ends takes its queue along and the requests it was asked (`SessionsEnd`), and one that is decided is no longer pending |
| | `WalkAlwaysWhole` | Each row has one place in the order (`RowPlacesOnce`), so a page is of rows behind the cursor and before all that it leaves (`FoundKnown`). The cursor is the last row walked (`WalkIsWhere`), and a row that was there throughout was given or is behind it (`SteadyIsAhead`) |

Only model-checked:

- the liveness properties (`StopEnds`, `DeliveriesEnd`, both `RecoveryEnds`, `CamerasAreDriven`,
  `SilenceIsReported`, `GuestIsAnswered`): they need fairness and ENABLED, which are beyond
  TLAPS's backends here.

Every safety property that a passing run checks is stated by a theorem.

## Divergences

What a comment, document or test says, or a reader would take for granted, and the code does not
do. Three are runs and findings in `PROJECT.json`: `ResetRebuilds`, `LateJoinersSee`,
and `CamerasAreDriven` at the desktop's interval. The others are stated at the end of their
module, with what they quote; putting one of them in a copy of the module's configuration as an
INVARIANT or PROPERTY shows its counterexample. (`ApprovalIsSeen` needs `MaxActs = 4`.)

Server:

| Module | Property | What happens |
|---|---|---|
| RoomPresence | `RoomStartedOnce` | the only participant blips and is restored: `room.started` fires again |
| RoomPresence | `LockedRoomRefusesJoins` | a join past the lock check when the lock is set is admitted |
| RoomPresence | `LockSparesHeldSeats` | a participant in the grace window is refused `ROOM_LOCKED` |
| RoomPresence | `RecordsAreConnected` | a socket that drops during its join's lookup becomes a member for ever |
| RoomPresence | `KickedIsOut` | kicking a user with two sockets removes one |
| RoomPresence | `ExpiredIsGone` | back on a new socket before the old one's drop is seen: announced as gone later |
| RoomPresence | `RestoredIsKnown` | whoever joined during a grace window is not told of the restored participant |
| RoomPresence | `LifetimeSettles`, `EndedLifetimeIsForgotten` | ending a room with grace seats only: no `participant.left`, entry kept |
| RoomPresence | `EndedRoomRefusesJoins` | neither identity path looks at the room's status |
| SfuMedia | `OneSharer`, `BlockedWhileShared` | the slot is checked before the worker is awaited and taken after: two share, and the one who stops first leaves the other barred |
| SfuMedia | `SharerShares` | a produce answered after its socket left takes the slot for nobody; a sharer that joins again keeps the slot without a screen, and nobody can share until it leaves |
| SfuMedia | `NoStrays` | what a socket produced before it joined again is not closed when it leaves |
| SfuMedia | `MembersHaveMedia` | the reset after a worker's death removes the entries the clients' rebuild needs |
| SfuMedia | `NoFrozenScreen` | a consume under way when the share stops is left with a screen that stands still |
| WorkerPool | `OneRouterPerRoom` | two first joins make two routers |
| WorkerPool | `AffectedAreTold` | a room whose router a joiner recreates during the recovery gets no reset |
| WorkerPool | `ClosedRoomsHaveNoRouter` | a router that arrives after its room closed stays |
| WorkerPool | `RoomsElsewhereUnaffected` | the death of the superseded router's worker takes the other out of the map |
| Egress | `FailedOnlyAfterTrouble` | the exit of a replaced process counts as a failure, until the budget is spent |
| Egress | `OneActivePerRoom` | two starts pass the check at the same time |
| Egress | `TerminalIsFinal` | the `live` update, not awaited, lands after the terminal one |
| Egress | `OutputsCease` | a build under way at the stop spawns its pipeline all the same; a stop that finds the row before its runtime ends the row alone |
| Egress | `PortsReturned` | a rejected `openTap` leaks its port |
| Egress | `RoomEndStopsEgress` | a start that passed its check creates its session after the room ended |
| Program | `ProgramIsCurrent`, `RunningIsShown` | the older of two builds ends last; a rebuild that throws leaves no program |
| Recordings | `RawPartsAreServed`, `FailedPartsAreServed` | not when the remux had created its file; not those after a part that was never opened |
| Recordings | `NoHalfFile`, `RemovedHasNoSize` | a file is served while it is written; a size is stored after the removal |
| Webhooks | `EmissionOrderKept` | two events are enqueued in the order their lookups answer |
| Auth | `FailuresLock`, `TypoCountsOnce` | overlapping logins read one count; a wrong password counts twice |
| Auth | `LogoutIsFinal`, `TabsShareSession`, `AdminRemains` | a refresh under way outlives the logout; two tabs' refreshes look like a theft; two demotions leave no admin |
| Identity | `CheckedMayEnter`, `ShownIsJoined`, `MeIsSeated` | guest-check and the socket read different cookies; a confirmation after a failure shows the room and joins nothing; the page's identity, which its cache may have kept over a navigation, is not the seat's |
| Rooms | `TranscriptIsFinal`, `OneRecord` | a message between the read and the transaction is in no transcript; two ends make two records |
| Rooms | `RecordMeansEnded`, `EndedIsDated` | an ended room is made active again; one ended by an update is never cleaned up |
| Chat | `NothingMissed`, `NoneTwice`, `HeardInOrder`, `HistoryComesBack` | history and live messages do not meet: one is missed, listed twice or out of order; a history request lost with its connection is never repeated |
| GuestJoin | `DecisionIsFinal`, `DenialIsMeant`, `SomebodyIsAsked`, `ApprovalIsSeen` | the dialog, the polls and the queues know one request each |
| Whiteboard | `LateJoinersSee` (run), `WorkArrives`, `WorkCounts` | a slow engine misses the state; refused updates count as sent |
| Whiteboard | `BoardEndsWithRoom`, `ClosingIsTold` | an open panel starts a board after the end |
| Platform | `RevokedKeyRests`, `EndedRoomRefuses` | a request past the guard goes on; a join never reads the room's state |

SDK and application:

| Module | Property | What happens |
|---|---|---|
| SdkSession | `RejoinIsTimed` | a rejoin the server leaves unanswered has no timer |
| SdkSession | `KickIsShown` | a kick that answers a rejoin leaves the status "reconnecting" |
| SdkSession | `JoinedIsMember`, `FailureIsShown` | a blip that ended in failure is remembered; a denied recovery is not shown |
| SdkSession | `EstablishedIsRecoverable`, `FailedMayJoin`, `LateProviderHarmless` | what arrives after a failed recovery is taken for the next one's |
| SdkPublish | `OffIsSilent`, `OffStaysOff`, `HiddenIsPaused` | a late start, a retained produce or a replay publishes what is off or paused |
| SdkPublish | `MuteIsShown`, `SharingIsPublished`, `ReplayedOnline` | a second mute is not shown; a refused replay is; a drop during the reset gives the tracks up |
| SdkSubscribe | `ResetRebuilds` (run) | the rebuild after a worker's death never completes |
| SdkSubscribe | `KnowsNoGhost`, `NoGhost`, `TrackHasOwner` | announcements outlive the departure of their participant |
| SdkSubscribe | `NoFrozenTrack`, `RestoredIsConnected`, `EveryoneIsKnown` | a closing overtakes a consume; a silent restore; held seats are not listed |
| PeerQuality | `CamerasAreDriven` (run, desktop) | the debounce is longer than the interval that cancels it |
| PeerQuality | `HiddenIsSuspended`, `TilesAreKnown`, `HiddenIsLow`, `AskedIsForwarded` | what is bound anew, opened while hidden or replaced starts without what was known |
| Speakers | `LouderIsNamed`, `EveryTrackIsSampled`, `OnlyPresentPlay` | the margin is over an old level; early tracks are not sampled; the mixer keeps who left |
| Capture | `OffIsOff`, `OnlyOnIsLive` | an overtaken start starts again after a stop; a failed one leaves the stream of the one before |
| Devices | `ListIsCurrent`, `LoadingIsShown`, `SwitchTakesEffect` | enumerations answer out of order; the prebuilt switcher only selects |
| Actions | `EgressIsShown` | the status shown follows updates that are answered out of order, or misses them |
| Roster | `RowIsTrue`, `LockIsTrue` | an announced state overwrites a later one; a lock changed meanwhile is never told |
| Prejoin | `SingleTrigger`, `CardWorks` | the effect runs on every render; the failure card's button is ignored |
| Layout | `NoTileExceeds` | on a small stage the least size pushes tiles out, and on a larger one a crowd: sixteen on 400 × 400 px take six rows of 445 px |
| Binding | `NothingWiped`, `EditsArrive` | a report older than two scenes deletes; an edit that restores the previous scene is lost |

Seen while modelling, and no property: the client's `CapabilityId`
(`packages/client/src/sfu/types.ts:15-23`) "Mirrors the server's fixed vocabulary" but lacks
`send-data-message`. socket.io 4 emits `reconnect_failed` on its Manager, not on the socket; the
model has it where the code listens. The server tells nobody when the producer of a camera or a
microphone closes. A viewer whose media entry went with a dead worker is not told that a share
stopped.

## Hazards left out of the list

`PROJECT.json` lists the forty hazards that weigh most. Neighbours of those, of the same kind a
few lines away, are in the divergence tables with the property that names them: in RoomPresence
the lock that is stale after the lookup and the silent restore; in Egress the leaked port, the
late `live` update, and a stop beside a failure; in Rooms, Chat, GuestJoin and Auth the reads
outside of the transaction that acts on them; in the SDK the announcements and tracks that
outlive a drop. These have no property:

- a socket that joins a second room without leaving the first
  (`room-presence.service.ts:139`): the model has one room;
- the webhook chains are in memory and a restart loses what is queued (`webhook-queue.ts:22`):
  nothing in the code promises otherwise;
- load is counted when a creation ends, so simultaneous first joins all pick the same worker
  (`worker-manager.ts:176`): a matter of balance, the router map stays right.

## Not modelled

- Presentation, wording, logging, metrics and the validation of requests; generated code. Their
  inputs reach the models as already valid members of small sets.
- The inside of mediasoup, Yjs, Prisma, socket.io, ffmpeg and the browser. They are the
  environment, as the code uses them, and such definitions are external in the map.
- HLS playback, health checks and users' profiles; the pages of the application and of the
  console: they read and show, and keep no state that others rely on.
- The data model, the documents, the deployment: no behaviour of their own.
- Rooms is partly modelled: creation, names and lists are plain rows. Actions is partly modelled:
  errors of the database and the requests that only read are left out; two egress starts at once are in
  Egress.
- RoomPresence and Egress have one room each. Times are events, except in PeerQuality and
  Speakers, where the order of the timers is the matter.

## Plan

1. Composition: SfuMedia with WorkerPool (the recovery that resets the media of the rooms it
   lost), SdkSubscribe with SfuMedia (the announcements as the server sends them).
2. A second room in RoomPresence, for the socket that moves; HLS playback.
