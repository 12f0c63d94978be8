----------------------------- MODULE SdkSession -----------------------------
(***************************************************************************)
(* One participant's session as the SDK and the connection hook keep it:   *)
(* packages/client/src/sfu/session.ts with the lifecycle of manager.ts,    *)
(* and packages/react/src/hooks/use-zvonok-connection.ts with its store.   *)
(*                                                                         *)
(* Socket and server are the environment: requests are answered in order,  *)
(* a drop loses those that are under way, socket.io reconnects by itself   *)
(* or gives up, and what is emitted on a socket that is down goes out when *)
(* it is up again.                                                         *)
(***************************************************************************)
EXTENDS Naturals

CONSTANTS
    MaxRejoins,   \* REJOIN_MAX_PER_WINDOW
    HasProvider,  \* the application gave a tokenProvider
    MaxAttempts,  \* bound: calls of join()
    MaxDrops      \* bound: drops of the signalling connection

ASSUME BoundsAreNat == MaxRejoins \in Nat /\ MaxAttempts \in Nat /\ MaxDrops \in Nat
ASSUME FlagIsBoolean == HasProvider \in BOOLEAN

VARIABLES
    status,      \* of the hook's store
    ended,       \* its roomEnded
    phase,       \* of the join() under way: "idle", "connection", "ack"
    heard,       \* the answer its waiter has taken meanwhile, or "none"
    blipped,     \* the hook's reconnectingRef
    state,       \* the manager's connectionState
    sock,        \* the manager's socket: "none", "down" (socket.io is
                 \* connecting), "up", "dead" (it has given up)
    established, \* sessionEstablished
    payload,     \* whether there is a lastJoinPayload
    attempted,   \* tokenRefreshAttempted
    rejoins,     \* rejoins in the current window
    providers,   \* calls of tokenProvider that have not settled
    wire,        \* joins sent and not answered, or waiting for the socket
    member,      \* the server has the socket in the room
    attempts, drops

hook == <<status, ended, phase, heard, blipped>>
session == <<established, payload, attempted, rejoins>>
server == <<wire, member>>
bounds == <<attempts, drops>>
sessionVars == <<hook, state, sock, session, providers, server, bounds>>

\* SfuConnectionState, and the classes of SfuJoinErrorCode that a client
\* tells apart.
ConnectionStates == {"disconnected", "connecting", "connected", "reconnecting", "failed"}
JoinErrors == {"KICKED_FROM_ROOM", "ROOM_TOKEN_EXPIRED", "ROOM_LOCKED"}

\* A new manager.
ManagerInit == state = "disconnected" /\ sock = "none"

SessionInit ==
    /\ status = "disconnected" /\ ended = FALSE /\ phase = "idle" /\ heard = "none" /\ blipped = FALSE
    /\ ManagerInit
    /\ established = FALSE /\ payload = FALSE /\ attempted = FALSE
    /\ rejoins = 0 /\ providers = 0
    /\ wire = 0 /\ member = FALSE /\ attempts = 0 /\ drops = 0

\* hasRecoverableSession
Recoverable == established /\ payload

\* clearSession
ClearSession ==
    established' = FALSE /\ payload' = FALSE /\ attempted' = FALSE /\ rejoins' = 0

\* The store's transitions joined, reconnecting, failed, kicked and
\* disconnected; connecting also forgets that a room ended.
Shows(s) == status' = s /\ UNCHANGED ended
Connecting(s) == status' = s /\ ended' = FALSE

\* joinRoom keeps the payload and emits the join.
JoinRoom(n) == payload' = TRUE /\ wire' = wire + n

-----------------------------------------------------------------------------
(* The hook.                                                               *)

\* A join() that waits for the connection sends its join on the first state
\* cs that is connected, and fails on one that is failed.  Its waiter listens
\* from the start and takes the first answer h, to whatever join.
Sends(cs) == phase = "connection" /\ cs = "connected"
Fails(cs) == phase = "connection" /\ cs = "failed"
Ends(cs, h) == Fails(cs) \/ ((phase = "ack" \/ Sends(cs)) /\ h # "none")
Hears(answer) == IF phase # "idle" /\ heard = "none" THEN answer ELSE heard

\* What the hook's subscriber shows of the manager's state cs.  What fails a
\* recovery closes the media first, which notifies of the state of before.
Seen(cs) ==
    CASE cs = "reconnecting" \/ (cs = "failed" /\ state = "reconnecting") -> "reconnecting"
      [] cs = "connected" /\ blipped -> "joined"
      [] OTHER -> status

\* And what it comes to once a join() under way has gone on.
Outcome(cs, h) ==
    CASE Fails(cs) \/ (Ends(cs, h) /\ h = "denied") -> "error"
      [] Ends(cs, h) /\ h = "joined" -> "joined"
      [] OTHER -> Seen(cs)

\* What the hook makes of a new connection state of the manager, but for the
\* status, with n joins on the wire besides the one it may send.
Mirror(cs, h, n) ==
    /\ state' = cs
    /\ blipped' = (cs = "reconnecting" \/ (blipped /\ cs # "connected"))
    /\ phase' = CASE Ends(cs, h) -> "idle" [] Sends(cs) -> "ack" [] OTHER -> phase
    /\ heard' = IF Ends(cs, h) THEN "none" ELSE h
    /\ wire' = IF Sends(cs) THEN n + 1 ELSE n

Notified(cs, h, n) == Mirror(cs, h, n) /\ Shows(Outcome(cs, h))

\* The manager's connect(): nothing while it is connected or connecting, and
\* a new socket otherwise.
Connects == sock # "up" /\ state # "connecting"
SocketOf == IF Connects THEN "down" ELSE sock
StateOf == IF Connects THEN "connecting" ELSE state

\* join(): connecting, and on with the join once connected.  A manager that is
\* up but "failed" stays so: the wait for its connection fails on its first
\* notification.
JoinCalled ==
    /\ phase = "idle" /\ attempts < MaxAttempts
    /\ attempts' = attempts + 1
    /\ sock' = SocketOf /\ state' = StateOf
    /\ CASE StateOf = "connected" -> Connecting("connecting") /\ phase' = "ack" /\ JoinRoom(1)
         [] StateOf = "failed" -> Connecting("error") /\ UNCHANGED <<phase, wire, payload>>
         [] OTHER -> Connecting("connecting") /\ phase' = "connection" /\ UNCHANGED <<wire, payload>>
    /\ UNCHANGED <<heard, blipped, established, attempted, rejoins, providers, member, drops>>

\* Either of the two timers of join() fires.
JoinTimesOut ==
    /\ phase # "idle"
    /\ phase' = "idle" /\ heard' = "none" /\ Shows("error")
    /\ UNCHANGED <<blipped, state, sock, session, providers, server, bounds>>

\* The manager's leaveRoom: the session is over, and what it waits for lost.
LeaveRoom == ClearSession /\ wire' = 0 /\ member' = FALSE

ResetState == state' = "disconnected"

\* Its disconnect().
Disconnect == sock' = "none" /\ ResetState

\* leave(): a join() under way is superseded, the manager leaves the room,
\* disconnects and is dropped, and with it whatever its provider answers.
LeaveSession ==
    /\ phase' = "idle" /\ heard' = "none" /\ status' = "disconnected"
    /\ LeaveRoom /\ Disconnect
    /\ providers' = 0
    /\ UNCHANGED <<blipped, bounds>>

LeaveCalled == status # "disconnected" /\ LeaveSession /\ UNCHANGED ended

-----------------------------------------------------------------------------
(* Failing and ending.                                                     *)

\* failRecovery.  Its two kinds of error have callbacks of their own, and
\* the hook listens to the one of exhausted reconnections only.
FailRecovery(exhausted, h, n) ==
    /\ ClearSession /\ Mirror("failed", h, n)
    /\ Shows(IF exhausted THEN "error" ELSE Outcome("failed", h))

\* Variant: the kick leaves the socket alone.
SocketKept == sock

SocketAfterKick == "none"

\* handleKicked: the manager stays, with its pending provider.
Kicked ==
    /\ state' = "disconnected" /\ sock' = SocketAfterKick
    /\ LeaveRoom
    /\ UNCHANGED <<blipped, providers, bounds>>

\* The hook shows the kick, and then the notification with which the media
\* close: that of a manager that was reconnecting.
KickShown == IF state = "reconnecting" THEN "reconnecting" ELSE "disconnected"

ServerKicks ==
    /\ member /\ sock = "up"
    /\ Kicked /\ Shows(KickShown) /\ UNCHANGED <<phase, heard>>

\* The hook notes that the room ended, and leaves.
EndSeen == ended' = TRUE /\ LeaveSession

\* handleRoomEnded: the manager tells the hook; what it does itself is part of
\* leaving.
RoomEnds == member /\ sock = "up" /\ EndSeen

-----------------------------------------------------------------------------
(* The signalling connection.                                              *)

\* The server detaches the socket; handleDisconnected.
Drop ==
    /\ sock = "up" /\ drops < MaxDrops
    /\ drops' = drops + 1
    /\ sock' = "down" /\ member' = FALSE
    /\ Notified(IF Recoverable THEN "reconnecting" ELSE "connecting", heard, 0)
    /\ UNCHANGED <<session, providers, attempts>>

\* Variant: one rejoin too many.
MayRejoinOnceMore == rejoins <= MaxRejoins

\* allowRejoin
MayRejoin == rejoins < MaxRejoins

\* handleConnected: a recoverable session replays its join, within the
\* budget; otherwise the connection is all there is.
Up ==
    /\ sock = "down"
    /\ sock' = "up"
    /\ IF ~Recoverable
       THEN /\ Notified("connected", heard, wire)
            /\ payload' = (payload \/ Sends("connected"))
            /\ UNCHANGED <<established, attempted, rejoins>>
       ELSE IF MayRejoin
       THEN /\ rejoins' = rejoins + 1 /\ attempted' = FALSE
            /\ wire' = wire + 1
            /\ UNCHANGED <<hook, state, established, payload>>
       ELSE FailRecovery(TRUE, heard, wire)
    /\ UNCHANGED <<providers, member, bounds>>

\* socket.io has used up its attempts; handleReconnectFailed.
GiveUp ==
    /\ sock = "down"
    /\ sock' = "dead"
    /\ IF Recoverable THEN FailRecovery(TRUE, heard, wire)
       ELSE Notified("failed", heard, wire) /\ UNCHANGED session
    /\ UNCHANGED <<providers, member, bounds>>

\* The rejoins of the window grow old.
WindowSlides ==
    /\ rejoins > 0 /\ rejoins' = rejoins - 1
    /\ UNCHANGED <<hook, state, sock, established, payload, attempted, providers, server, bounds>>

-----------------------------------------------------------------------------
(* The server answers a join.                                              *)

Answerable == sock = "up" /\ wire > 0

\* handleJoined, and the waiter of a join() under way: a recovery is complete,
\* and a join() that waited for the connection sends its own all the same.
Accepted ==
    /\ Answerable
    /\ member' = TRUE /\ established' = TRUE
    /\ LET cs == IF established THEN "connected" ELSE state
       IN Notified(cs, Hears("joined"), wire - 1) /\ payload' = (payload \/ Sends(cs))
    /\ UNCHANGED <<sock, attempted, rejoins, providers, bounds>>

\* The router could not be made: the socket is in the room and hears nothing.
Unanswered ==
    /\ Answerable
    /\ wire' = wire - 1 /\ member' = TRUE
    /\ UNCHANGED <<hook, state, sock, session, providers, bounds>>

\* The waiter of a join() under way hears of the denial, after the session;
\* without that, shown is the status.
Waiter(shown) ==
    /\ phase' = IF phase = "ack" THEN "idle" ELSE phase
    /\ heard' = IF phase = "connection" THEN Hears("denied") ELSE heard
    /\ Shows(IF phase = "ack" THEN "error" ELSE shown)

\* The denial changes no connection state.
Unnoticed == wire' = wire - 1 /\ Waiter(status) /\ UNCHANGED <<blipped, state>>

\* Variant: a second denial for expiry is let pass.
ExpiredAgainIgnored == Unnoticed /\ UNCHANGED <<session, providers>>

\* A denial that ends the recovery.
RecoveryDenied == FailRecovery(FALSE, Hears("denied"), wire - 1) /\ UNCHANGED providers

\* refreshTokenAndRejoin asks the provider once per rejoin.
MayRefresh == HasProvider /\ ~attempted

ExpiredAgain == RecoveryDenied

\* handleJoinError
Denied(code) ==
    /\ Answerable
    /\ IF ~Recoverable THEN Unnoticed /\ UNCHANGED <<sock, session, providers, member>>
       ELSE IF code = "KICKED_FROM_ROOM" THEN Kicked /\ Waiter(KickShown)
       ELSE /\ UNCHANGED <<sock, member>>
            /\ IF code # "ROOM_TOKEN_EXPIRED" THEN RecoveryDenied
               ELSE IF ~MayRefresh THEN ExpiredAgain
               ELSE /\ attempted' = TRUE /\ providers' = providers + 1
                    /\ Unnoticed /\ UNCHANGED <<established, payload, rejoins>>
    /\ UNCHANGED bounds

\* The provider has a token: it goes into the payload of the day, if any,
\* and the join is sent.
ProviderAnswers ==
    /\ providers > 0
    /\ providers' = providers - 1
    /\ wire' = IF payload THEN wire + 1 ELSE wire
    /\ UNCHANGED <<hook, state, sock, session, member, bounds>>

\* The provider fails, and so does whatever session there is by now.
ProviderFails ==
    /\ providers > 0
    /\ providers' = providers - 1
    /\ FailRecovery(FALSE, heard, wire)
    /\ UNCHANGED <<sock, member, bounds>>

-----------------------------------------------------------------------------

Answer ==
    \/ Accepted \/ Unanswered
    \/ \E code \in JoinErrors : Denied(code)

Settle == ProviderAnswers \/ ProviderFails

SessionNext ==
    \/ JoinCalled \/ JoinTimesOut \/ LeaveCalled
    \/ ServerKicks \/ RoomEnds
    \/ Drop \/ Up \/ GiveUp \/ WindowSlides
    \/ Answer \/ Settle

SessionSpec == SessionInit /\ [][SessionNext]_sessionVars

-----------------------------------------------------------------------------
(* Properties.                                                             *)

SessionTypeOK ==
    /\ status \in {"disconnected", "connecting", "joined", "reconnecting", "error"}
    /\ phase \in {"idle", "connection", "ack"} /\ heard \in {"none", "joined", "denied"}
    /\ state \in ConnectionStates
    /\ sock \in {"none", "down", "up", "dead"}
    /\ {ended, blipped, established, payload, attempted, member} \subseteq BOOLEAN
    /\ rejoins \in 0 .. MaxRejoins
    /\ {providers, wire} \subseteq Nat
    /\ attempts \in 0 .. MaxAttempts /\ drops \in 0 .. MaxDrops

\* When the session is over (left, kicked or ended by the server, and no
\* join() under way), nothing is left that could bring it back: no socket
\* that reconnects, no payload to replay, no membership (clearSession:
\* "Drops all recovery bookkeeping: the session is intentionally over."); and
\* a room that ended is "terminal until the next join".
OverIsOver ==
    /\ SessionTypeOK
    /\ status = "disconnected" /\ phase = "idle" =>
         sock = "none" /\ ~established /\ ~payload /\ ~member /\ wire = 0
    /\ ended => status = "disconnected" /\ phase = "idle" /\ providers = 0

\* The manager's recovery ends, however drops, denials and the provider
\* fall: connected, failed, kicked or left.  Only a join that the server
\* takes and leaves unanswered keeps it reconnecting.
RecoveryEnds == state = "reconnecting" ~> state # "reconnecting" \/ (member /\ wire = 0)

-----------------------------------------------------------------------------
(* What documents and comments promise and the code does not do.           *)

\* A join is retried or given up: not so when the server leaves it
\* unanswered, for a rejoin has no timer.
RejoinIsTimed == state = "reconnecting" ~> state # "reconnecting"

\* The status is joined only when the server has accepted the join: not so
\* after a recovery that failed, when the hook still remembers the blip and
\* takes the next connection for its end.
JoinedIsMember == status = "joined" /\ sock = "up" => member

\* The hook shows the end of a recovery: not so when a join is denied.
FailureIsShown == status = "reconnecting" ~> status # "reconnecting"

\* "A kicked peer loses its room membership; reflect it in the status": not
\* so when the kick answers a rejoin, for the media close after it and notify
\* of a manager that is reconnecting.
KickIsShown == sock = "none" => status # "reconnecting"

\* hasJoinedSession is true of sessions that were not terminated: not so
\* when an accepted join arrives after the recovery failed.
EstablishedIsRecoverable == established => payload

\* After a failed recovery join() works again: not so as long as the socket
\* is up and the manager "failed".
FailedMayJoin == ~(status = "error" /\ sock = "up" /\ state = "failed")

\* A session that has recovered is not failed by a provider asked earlier.
LateProviderHarmless == [][ProviderFails => ~member]_sessionVars

=============================================================================
