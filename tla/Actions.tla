------------------------------ MODULE Actions -------------------------------
(***************************************************************************)
(* What a participant asks of the server and waits for: host controls,     *)
(* egress control and data broadcasts (packages/client/src/sfu/actions.ts  *)
(* under use-broadcast.ts, host-controls.ts and use-egress-controls.ts;    *)
(* sfu-broadcast.service.ts and egress-signal.gateway.ts on the server),   *)
(* and what is shown of the room's egress session (use-egress-state.ts).   *)
(*                                                                         *)
(* A connection keeps its order.  When it drops, what is under way is lost; *)
(* what is sent meanwhile is sent first when it is there again, before the *)
(* session joins anew.                                                     *)
(***************************************************************************)
EXTENDS Naturals, Sequences, FiniteSets

CONSTANTS
    Requests,   \* bound: what is asked
    Wishes,     \* bound: what each of them may be, functions of Kinds
    MaxFalls    \* bound: connections that drop

HostKinds == {"mute", "lock", "kick"}
StartKinds == {"record", "hls", "nothing"}         \* the outputs that are asked for
EgressKinds == StartKinds \cup {"stop"}
BroadcastKinds == {"broadcast", "misnamed", "oversized"}
Kinds == HostKinds \cup EgressKinds \cup BroadcastKinds

ASSUME WishesAreKinds == Wishes \subseteq [Requests -> Kinds]

\* What a session sends on its connection before anything else.
Join == "join"
ASSUME JoinIsNoRequest == Join \notin Requests

VARIABLES
    kind,       \* what each request is
    wire,       \* "up", "down" or "left"
    seat,       \* the server has this connection in the room
    can,        \* the participant's capabilities
    owned,      \* the room belongs to a project
    toServer,   \* under way, or kept while the connection is down
    handlers,   \* egress requests under way: [req, stage, alive]
    toMe,       \* acknowledgements and egress statuses under way
    outcome,    \* what has become of each request: its state, or the error's code
    done,       \* history: the requests the server has carried out, in order
    listens,    \* the other participant is connected
    toOther,    \* broadcasts on the way to the other
    heard,      \* messages of the other's useBroadcasts
    missed,     \* history: broadcasts relayed while the other was away, or lost
    egress,     \* the room's session: "none", "starting", "live", "stopping", "over"
    due,        \* statuses that are to be told
    shown,      \* the egress state the participant is shown
    falls

asker == <<wire, toServer, outcome, shown>>
server == <<seat, handlers, done, egress, due>>
other == <<listens, toOther, heard, missed>>
given == <<kind, can, owned>>
actionVars == <<given, asker, server, toMe, other, falls>>

Ok == "ok"
Ack(r, code) == [type |-> "ack", req |-> r, code |-> code]
Status(s) == [type |-> "status", is |-> s]
Told(m) == IF wire = "up" /\ seat THEN Append(toMe, m) ELSE toMe

\* The codes of the errors: the server's, and the client's own.
HostCodes == {"NOT_IN_ROOM", "MISSING_CAPABILITY", "TARGET_NOT_FOUND"}
EgressCodes == {"NOT_IN_ROOM", "MISSING_CAPABILITY", "NOT_PROJECT_ROOM", "INVALID_OUTPUTS",
                "ALREADY_ACTIVE", "NOT_ACTIVE"}
BroadcastCodes == {"NOT_IN_ROOM", "MISSING_CAPABILITY", "PAYLOAD_TOO_LARGE", "INVALID_TOPIC"}
ServerCodes(k) == IF k \in HostKinds THEN HostCodes
                  ELSE IF k \in EgressKinds THEN EgressCodes ELSE BroadcastCodes

-----------------------------------------------------------------------------
(* The participant.                                                        *)

HostRequest == [timeoutCode |-> "HOST_ACTION_TIMEOUT"]
EgressRequest == [timeoutCode |-> "EGRESS_ACTION_TIMEOUT"]
BroadcastRequest == [timeoutCode |-> "BROADCAST_TIMEOUT"]

\* The manager's facade: one request primitive, three vocabularies.
RequestOf(k) == IF k \in HostKinds THEN HostRequest
                ELSE IF k \in EgressKinds THEN EgressRequest ELSE BroadcastRequest

\* requireManager, and emitAck without a socket.
NoSession == wire = "left"

\* emitAck
Ask(r) ==
    /\ outcome[r] = "unasked"
    /\ outcome' = [outcome EXCEPT ![r] = IF NoSession THEN "DISCONNECTED" ELSE "waiting"]
    /\ toServer' = IF NoSession THEN toServer ELSE Append(toServer, r)
    /\ UNCHANGED <<wire, shown, given, server, toMe, other, falls>>

\* The timer of a request runs whatever the connection does.
TimesOut(r) ==
    /\ outcome[r] = "waiting"
    /\ outcome' = [outcome EXCEPT ![r] = RequestOf(kind[r]).timeoutCode]
    /\ UNCHANGED <<wire, toServer, shown, given, server, toMe, other, falls>>

\* Variant: whatever the server answers resolves.
AnyAnswer(m) == Ok

\* The answer resolves the promise, or rejects it with the server's code.
Settled(m) == m.code

Arriving(type) == toMe # << >> /\ Head(toMe).type = type /\ toMe' = Tail(toMe)

\* An acknowledgement counts once, and in time.
AckArrives ==
    /\ Arriving("ack")
    /\ LET m == Head(toMe) IN
       outcome' = IF outcome[m.req] = "waiting" THEN [outcome EXCEPT ![m.req] = Settled(m)]
                  ELSE outcome
    /\ UNCHANGED <<wire, toServer, shown, given, server, other, falls>>

\* handleEgressStatus
StatusArrives ==
    /\ Arriving("status")
    /\ shown' = Head(toMe).is
    /\ UNCHANGED <<wire, toServer, outcome, given, server, other, falls>>

\* Whoever handles a request of a connection that is gone answers nobody.
Orphaned == {[h EXCEPT !.alive = FALSE] : h \in handlers}

Falls ==
    /\ falls < MaxFalls /\ falls' = falls + 1
    /\ wire = "up" /\ wire' = "down"
    /\ toServer' = << >> /\ toMe' = << >> /\ seat' = FALSE /\ handlers' = Orphaned
    /\ UNCHANGED <<outcome, shown, given, done, egress, due, other>>

\* The socket flushes its buffer, then the session joins.
Returns ==
    /\ wire = "down" /\ wire' = "up"
    /\ toServer' = Append(toServer, Join)
    /\ UNCHANGED <<outcome, shown, given, server, toMe, other, falls>>

\* leaveRoom: the state is reset.
LeaveSession ==
    /\ ~NoSession /\ wire' = "left"
    /\ toServer' = << >> /\ toMe' = << >> /\ seat' = FALSE /\ shown' = "none"
    /\ handlers' = Orphaned
    /\ UNCHANGED <<outcome, given, done, egress, due, other, falls>>

-----------------------------------------------------------------------------
(* The server: whether it refuses, and with which code.                    *)

Without(cap) == IF ~seat THEN {"NOT_IN_ROOM"} ELSE IF cap \notin can THEN {"MISSING_CAPABILITY"} ELSE {}

HostCapability == [mute |-> "mute-users", lock |-> "lock-room", kick |-> "remove-participants"]

\* denyHostAction; whoever is muted or kicked may not be there.
HostVerdicts(k) ==
    IF Without(HostCapability[k]) # {} THEN Without(HostCapability[k])
    ELSE IF k = "lock" THEN {Ok} ELSE {Ok, "TARGET_NOT_FOUND"}

BroadcastVerdicts(k) ==
    IF Without("send-data-message") # {} THEN Without("send-data-message")
    ELSE IF k = "misnamed" THEN {"INVALID_TOPIC"}
    ELSE IF k = "oversized" THEN {"PAYLOAD_TOO_LARGE"} ELSE {Ok}

\* handleStart
StartVerdicts(k) ==
    IF ~seat THEN {"NOT_IN_ROOM"}
    ELSE IF k = "nothing" THEN {"INVALID_OUTPUTS"}
    ELSE IF Without(IF k = "record" THEN "start-recording" ELSE "start-broadcast") # {}
    THEN {"MISSING_CAPABILITY"}
    ELSE IF ~owned THEN {"NOT_PROJECT_ROOM"} ELSE {Ok}

\* handleStop
StopVerdicts ==
    IF Without("start-recording") # {} /\ Without("start-broadcast") # {} THEN Without("start-recording")
    ELSE IF ~owned THEN {"NOT_PROJECT_ROOM"} ELSE {Ok}

Verdicts(k) == IF k \in HostKinds THEN HostVerdicts(k)
               ELSE IF k \in BroadcastKinds THEN BroadcastVerdicts(k)
               ELSE IF k = "stop" THEN StopVerdicts ELSE StartVerdicts(k)

\* broadcastToRoom: to whoever is connected but the sender.
Relay(r) ==
    /\ toOther' = IF listens THEN Append(toOther, r) ELSE toOther
    /\ missed' = IF listens THEN missed ELSE missed \cup {r}
    /\ UNCHANGED <<listens, heard>>

Reads == wire = "up" /\ toServer # << >> /\ toServer' = Tail(toServer)

Admits ==
    /\ Reads /\ Head(toServer) = Join /\ seat' = TRUE
    /\ UNCHANGED <<wire, outcome, shown, given, handlers, done, toMe, other, egress, due, falls>>

\* A request is refused; or it is carried out at once, and answered.
AnswersAtOnce ==
    /\ Reads /\ Head(toServer) # Join
    /\ LET r == Head(toServer) IN
       \E code \in Verdicts(kind[r]) :
         /\ code # Ok \/ kind[r] \notin EgressKinds
         /\ toMe' = Append(toMe, Ack(r, code))
         /\ done' = IF code = Ok THEN Append(done, r) ELSE done
         /\ IF code = Ok /\ kind[r] \in BroadcastKinds THEN Relay(r) ELSE UNCHANGED other
    /\ UNCHANGED <<wire, outcome, shown, given, seat, handlers, egress, due, falls>>

\* The room and its session are looked up first.
BeginsEgress ==
    /\ Reads /\ Head(toServer) # Join
    /\ LET r == Head(toServer) IN
         /\ kind[r] \in EgressKinds /\ Ok \in Verdicts(kind[r])
         /\ handlers' = handlers \cup {[req |-> r, stage |-> "checking", alive |-> TRUE]}
    /\ UNCHANGED <<wire, outcome, shown, given, seat, done, toMe, other, egress, due, falls>>

-----------------------------------------------------------------------------
(* The handlers of egress requests, and the session.                       *)

Answered(h, code) == IF h.alive THEN Append(toMe, Ack(h.req, code)) ELSE toMe

Active == egress \in {"starting", "live", "stopping"}
Moves(h, stage) == handlers' = (handlers \ {h}) \cup {[h EXCEPT !.stage = stage]}
Ends(h, code) == handlers' = handlers \ {h} /\ toMe' = Answered(h, code)
Checked(h, kinds) == h \in handlers /\ h.stage = "checking" /\ kind[h.req] \in kinds

\* 409 while there is an active session, 400 once the room is no longer active.
StartRefused(h) ==
    /\ Checked(h, StartKinds)
    /\ \E code \in {"INVALID_OUTPUTS"} \cup (IF Active THEN {"ALREADY_ACTIVE"} ELSE {}) : Ends(h, code)
    /\ UNCHANGED <<given, seat, done, egress, due, asker, other, falls>>

EgressStarts(h) ==
    /\ Checked(h, StartKinds) /\ ~Active
    /\ Moves(h, "building")
    /\ done' = Append(done, h.req)
    /\ egress' = "starting" /\ toMe' = Told(Status("starting"))
    /\ UNCHANGED <<given, seat, due, asker, other, falls>>

\* The pipeline is built, or has failed: either is a start.
EgressStarted(h) ==
    /\ h \in handlers /\ h.stage = "building"
    /\ Ends(h, Ok)
    /\ UNCHANGED <<given, seat, done, egress, due, asker, other, falls>>

StopRefused(h) ==
    /\ Checked(h, {"stop"}) /\ ~Active
    /\ Ends(h, "NOT_ACTIVE")
    /\ UNCHANGED <<given, seat, done, egress, due, asker, other, falls>>

\* finalize; one that stops already needs no more.
EgressStops(h) ==
    /\ Checked(h, {"stop"}) /\ Active
    /\ done' = Append(done, h.req)
    /\ egress' = "stopping"
    /\ IF egress = "stopping" THEN Ends(h, Ok) ELSE Moves(h, "stopping") /\ UNCHANGED toMe
    /\ UNCHANGED <<given, seat, due, asker, other, falls>>

\* The one that finalizes answers when all of it is done.
EgressStopped(h) ==
    /\ h \in handlers /\ h.stage = "stopping"
    /\ egress # "stopping" /\ "over" \notin due
    /\ Ends(h, Ok)
    /\ UNCHANGED <<given, seat, done, egress, due, asker, other, falls>>

\* markLive
EgressLive ==
    /\ egress = "starting" /\ egress' = "live" /\ due' = due \cup {"live"}
    /\ UNCHANGED <<given, seat, handlers, done, asker, toMe, other, falls>>

\* The session fails, or its room ends.
EgressFails ==
    /\ egress \in {"starting", "live"} /\ egress' = "stopping"
    /\ UNCHANGED <<given, seat, handlers, done, due, asker, toMe, other, falls>>

\* The row is terminal; the recording is still to be put together.
EgressOver ==
    /\ egress = "stopping" /\ egress' = "over" /\ due' = due \cup {"over"}
    /\ UNCHANGED <<given, seat, handlers, done, asker, toMe, other, falls>>

\* notifyStatus
StatusTold(s) ==
    /\ s \in due /\ due' = due \ {s}
    /\ toMe' = Told(Status(s))
    /\ UNCHANGED <<given, seat, handlers, done, egress, asker, other, falls>>

-----------------------------------------------------------------------------
(* The other participant.                                                  *)

Hears ==
    /\ toOther # << >> /\ toOther' = Tail(toOther)
    /\ heard' = Append(heard, Head(toOther))
    /\ UNCHANGED <<given, listens, missed, asker, server, toMe, falls>>

OtherFalls ==
    /\ listens /\ falls < MaxFalls /\ falls' = falls + 1
    /\ listens' = FALSE /\ toOther' = << >>
    /\ missed' = missed \cup {toOther[i] : i \in DOMAIN toOther}
    /\ UNCHANGED <<given, heard, asker, server, toMe>>

OtherReturns ==
    /\ ~listens /\ listens' = TRUE
    /\ UNCHANGED <<given, toOther, heard, missed, asker, server, toMe, falls>>

\* ROLE_CAPABILITIES: a viewer's, a participant's and a host's.
Viewer == {}
Participant == {"send-data-message"}
Host == Participant \cup {"mute-users", "remove-participants", "lock-room",
                          "start-recording", "start-broadcast"}

ActionsInit ==
    /\ kind \in Wishes /\ owned \in BOOLEAN
    /\ can \in {Viewer, Participant, Host}
    /\ wire = "up" /\ seat = TRUE
    /\ toServer = << >> /\ handlers = {} /\ toMe = << >>
    /\ outcome = [r \in Requests |-> "unasked"] /\ done = << >>
    /\ listens = TRUE /\ toOther = << >> /\ heard = << >> /\ missed = {}
    /\ egress = "none" /\ due = {} /\ shown = "none" /\ falls = 0

EgressNext ==
    \/ \E h \in handlers : StartRefused(h) \/ EgressStarts(h) \/ EgressStarted(h)
                           \/ StopRefused(h) \/ EgressStops(h) \/ EgressStopped(h)
    \/ EgressLive \/ EgressFails \/ EgressOver
    \/ \E s \in {"live", "over"} : StatusTold(s)

ActionsNext ==
    \/ \E r \in Requests : Ask(r) \/ TimesOut(r)
    \/ AckArrives \/ StatusArrives \/ Falls \/ Returns \/ LeaveSession
    \/ Admits \/ AnswersAtOnce \/ BeginsEgress \/ EgressNext
    \/ Hears \/ OtherFalls \/ OtherReturns

-----------------------------------------------------------------------------
\* What a promise settles with is of its own vocabulary.
Outcomes(k) == {"unasked", "waiting", Ok, "DISCONNECTED", RequestOf(k).timeoutCode} \cup ServerCodes(k)

ActionsTypeOK ==
    /\ wire \in {"up", "down", "left"} /\ {seat, listens, owned} \subseteq BOOLEAN
    /\ \A r \in Requests : outcome[r] \in Outcomes(kind[r])
    /\ \A i \in DOMAIN toServer : toServer[i] \in Requests \cup {Join}
    /\ egress \in {"none", "starting", "live", "stopping", "over"} /\ due \subseteq {"live", "over"}

ActionsSpec == ActionsInit /\ [][ActionsNext]_actionVars

In(s) == {s[i] : i \in DOMAIN s}
Broadcasts == {r \in In(done) : kind[r] \in BroadcastKinds}

DoneTimes(r) == Cardinality({i \in DOMAIN done : done[i] = r})

\* What the other participant has heard and will hear: every broadcast but
\* those it missed, in the order in which they were carried out.
Relayed == heard \o toOther
RelayedInOrder ==
    /\ In(Relayed) = Broadcasts \ missed
    /\ \A i, j \in DOMAIN Relayed : i < j =>
          \E k, l \in DOMAIN done : k < l /\ done[k] = Relayed[i] /\ done[l] = Relayed[j]

\* An action that resolved was carried out once, one the server denied was
\* not, and none is ever carried out twice, over drops, timeouts and late
\* answers; a broadcast that resolved is heard by everyone who stayed, once
\* and in the order it was sent.
AnswerIsTrue ==
    /\ ActionsTypeOK
    /\ \A r \in Requests :
         /\ DoneTimes(r) <= 1
         /\ outcome[r] = Ok => DoneTimes(r) = 1
         /\ outcome[r] \in ServerCodes(kind[r]) \cup {"DISCONNECTED"} => DoneTimes(r) = 0
         /\ outcome[r] = Ok /\ kind[r] \in BroadcastKinds => r \in In(Relayed) \cup missed
    /\ RelayedInOrder

-----------------------------------------------------------------------------
(* What the code does not keep (README, Divergences).                      *)

\* "the egress state hook reflects live-ness and then the stopped status"
\* (openspec/specs/sdk/spec.md:505): not when the rows' updates are answered
\* out of order, nor over a drop, nor when a session starts while the
\* recording of the one before is put together.
EgressIsShown == wire = "up" /\ seat /\ due = {} /\ toMe = << >> /\ egress # "stopping" => shown = egress
=============================================================================
