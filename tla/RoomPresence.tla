---------------------------- MODULE RoomPresence ----------------------------
(***************************************************************************)
(* Room Presence (apps/server/src/sfu/room-presence.service.ts, ADR-0004): *)
(* who is in a room.  Admission, membership, the room lock, kick           *)
(* terminality, the disconnect grace seat and the room's lifetime, as the  *)
(* /sfu gateway drives them.                                               *)
(*                                                                         *)
(* Every map of the service is keyed by room id and no operation touches   *)
(* two rooms, so the module describes ONE room.  The server is single      *)
(* threaded: a handler runs to its first await on I/O without              *)
(* interruption.  Only `join' has such an await (the token key or the user *)
(* row is looked up between the lock check and the rest), so join is two   *)
(* actions and everything else is one.                                     *)
(*                                                                         *)
(* A socket is one socket.io connection: it comes up once and goes down    *)
(* once.  A user may hold several: a second tab, or a reconnection whose   *)
(* predecessor the server has not yet timed out.                           *)
(***************************************************************************)
EXTENDS Integers, FiniteSets

CONSTANTS
    Sockets,      \* socket.io connections of the /sfu namespace
    Users,        \* participant ids (token `sub', user id or guest id)
    UserOf,       \* the participant id each socket's credential resolves to
    Hosts,        \* participants whose role carries the host capabilities
    Owner,        \* the participant the room row names as its owner
    MaxPending,   \* bound: joins of one socket awaiting their identity
    MaxArrivals   \* bound: participant.joined not yet matched by a left

ASSUME UserOfType == UserOf \in [Sockets -> Users]
ASSUME SocketsAreFinite == IsFiniteSet(Sockets)
ASSUME HostsAreUsers == Hosts \subseteq Users
ASSUME BoundsAreNat == MaxPending \in Nat /\ MaxArrivals \in Nat

VARIABLES
    conn,         \* state of each connection: "idle", "up" or "down"
    pending,      \* joins past the lock check, still awaiting the identity
    lockedOut,    \* sockets whose last join was answered ROOM_LOCKED
    records,      \* sockets with a PresenceRecord
    peers,        \* the room's entry of `rooms': its member sockets
    roomExists,   \* `rooms' has an entry for the room (and so has its slug)
    ownerKnown,   \* `roomOwners' names the owner
    locked,       \* `roomLocks'
    kicked,       \* `kickedUsers'
    heldSeats,    \* participants with a seat in `heldSeats'
    ended,        \* the room row has status `ended'
    roster,       \* what each client has been told: its ParticipantRegistry
    started,      \* room.started webhooks of this lifetime: 0, 1, 2 = many
    balance       \* participant.joined minus participant.left, by user

vars == <<conn, pending, lockedOut, records, peers, roomExists, ownerKnown,
          locked, kicked, heldSeats, ended, roster, started, balance>>

clientVars == <<conn, pending, lockedOut>>

-----------------------------------------------------------------------------

UsersOf(S) == {UserOf[s] : s \in S}

SocketsOf(u, S) == {s \in S : UserOf[s] = u}

MayModerate(s) == UserOf[s] \in Hosts

\* Variant: the snapshot lists sockets instead of participants.
ExistingPeersBySocket(s) == peers \ {s}

\* existing-peers, as sent to a socket that joins: the users of the members
\* other than itself.  Held seats are not in it.
ExistingPeers(s) == UsersOf(peers \ {s})

\* Variant: a seat held before the kick still lets its owner in.
MayEnterOnSeat(u) == u \notin kicked \/ u \in heldSeats

\* The kick check of join, after the identity lookup.
MayEnter(u) == u \notin kicked

\* broadcastToRoom of peer-joined: every member but the newcomer learns of u.
Announce(view, to, u) ==
    [t \in Sockets |-> IF t \in to THEN view[t] \cup {u} ELSE view[t]]

\* broadcastToRoom of peer-left: every member drops u.
Retract(view, to, u) ==
    [t \in Sockets |-> IF t \in to THEN view[t] \ {u} ELSE view[t]]

\* A client that is out of the room clears its registry (closeAll).
Forget(view, gone) ==
    [t \in Sockets |-> IF t \in gone THEN {} ELSE view[t]]

\* Only a live connection receives anything.
Live(S) == {s \in S : conn[s] = "up"}

-----------------------------------------------------------------------------

Init ==
    /\ conn = [s \in Sockets |-> "idle"]
    /\ pending = [s \in Sockets |-> 0]
    /\ lockedOut = {}
    /\ records = {}
    /\ peers = {}
    /\ roomExists = FALSE
    /\ ownerKnown = FALSE
    /\ locked = FALSE
    /\ kicked = {}
    /\ heldSeats = {}
    /\ ended = FALSE
    /\ roster = [s \in Sockets |-> {}]
    /\ started = 0
    /\ balance = [u \in Users |-> 0]

-----------------------------------------------------------------------------
(* cleanupRoomIfEmpty, as a function of the members and seats that remain. *)

IsDeserted(members, seats) == members = {} /\ seats = {}

\* firstPeer of join: no member and no seat but, `seats' being what is left
\* after the newcomer's own seat has been taken out, its own.
FirstPeer(s, seats) == IsDeserted(peers, seats)

\* Variant: the room's kicks and lock outlive it.
CleanupKeepsBars(members, seats, kickedNow) ==
    /\ kicked' = kickedNow
    /\ locked' = locked
    /\ IF IsDeserted(members, seats)
       THEN roomExists' = FALSE /\ ownerKnown' = FALSE /\ started' = 0
       ELSE UNCHANGED <<roomExists, ownerKnown, started>>

\* cleanupRoomIfEmpty forgets everything keyed by the room, and with it the
\* lifetime; otherwise the room is left as it is with `kickedNow' barred.
CleanupRoomIfEmpty(members, seats, kickedNow) ==
    IF IsDeserted(members, seats)
    THEN /\ roomExists' = FALSE
         /\ ownerKnown' = FALSE
         /\ locked' = FALSE
         /\ kicked' = {}
         /\ started' = 0
    ELSE /\ kicked' = kickedNow
         /\ UNCHANGED <<roomExists, ownerKnown, locked, started>>

\* Variant: the departing socket keeps its record.
DepartKeepsRecord(s, kickedNow) ==
    LET rest == peers \ {s} IN
    /\ records' = records
    /\ peers' = rest
    /\ roster' = Forget(Retract(roster, rest, UserOf[s]), {s})
    /\ balance' = [balance EXCEPT ![UserOf[s]] = @ - 1]
    /\ CleanupRoomIfEmpty(rest, heldSeats, kickedNow)

\* depart: detach the socket, tell the others, fire participant.left, and
\* clean the room up if nobody is left in it.
Depart(s, kickedNow) ==
    LET rest == peers \ {s} IN
    /\ records' = records \ {s}
    /\ peers' = rest
    /\ roster' = Forget(Retract(roster, rest, UserOf[s]), {s})
    /\ balance' = [balance EXCEPT ![UserOf[s]] = @ - 1]
    /\ CleanupRoomIfEmpty(rest, heldSeats, kickedNow)

-----------------------------------------------------------------------------

Connect(s) ==
    /\ conn[s] = "idle"
    /\ conn' = [conn EXCEPT ![s] = "up"]
    /\ UNCHANGED <<pending, lockedOut, records, peers, roomExists, ownerKnown,
                   locked, kicked, heldSeats, ended, roster, started, balance>>

\* sfu:join while the room is locked: refused before anything else happens.
JoinRefusedByLock(s) ==
    /\ conn[s] = "up"
    /\ locked
    /\ lockedOut' = lockedOut \cup {s}
    /\ UNCHANGED <<conn, pending, records, peers, roomExists, ownerKnown,
                   locked, kicked, heldSeats, ended, roster, started, balance>>

\* sfu:join past the lock check: the identity lookup is under way.
BeginJoin(s) ==
    /\ conn[s] = "up"
    /\ ~locked
    /\ pending[s] < MaxPending
    /\ pending' = [pending EXCEPT ![s] = @ + 1]
    /\ lockedOut' = lockedOut \ {s}
    /\ UNCHANGED <<conn, records, peers, roomExists, ownerKnown, locked,
                   kicked, heldSeats, ended, roster, started, balance>>

\* The identity does not verify, or the participant has been kicked.
JoinRefused(s) ==
    /\ pending[s] > 0
    /\ pending' = [pending EXCEPT ![s] = @ - 1]
    /\ UNCHANGED <<conn, lockedOut, records, peers, roomExists, ownerKnown,
                   locked, kicked, heldSeats, ended, roster, started, balance>>

\* Variant: of the held seats none is given up by the rejoin.
SeatsKept(u) == heldSeats

\* The held seats once u has rejoined: its own is restored, so given up.
SeatsAfterJoin(u) == heldSeats \ {u}

\* The rest of join once the identity has verified.  Nothing between the
\* lookup and here asks whether the socket is still connected, whether the
\* room is still unlocked, or whether this socket is a member already.
Admit(s) ==
    LET u == UserOf[s]
        restored == u \in heldSeats
        seats == SeatsAfterJoin(u)
        told == IF restored THEN roster
                            ELSE Announce(roster, Live(peers \ {s}), u)
    IN
    /\ pending[s] > 0
    /\ MayEnter(u)
    /\ balance[u] < MaxArrivals
    /\ pending' = [pending EXCEPT ![s] = @ - 1]
    /\ heldSeats' = seats
    /\ records' = records \cup {s}
    /\ peers' = peers \cup {s}
    /\ roomExists' = TRUE
    /\ ownerKnown' = (ownerKnown \/ u = Owner)
    /\ roster' = IF s \in Live({s})
                 THEN [told EXCEPT ![s] = @ \cup ExistingPeers(s)]
                 ELSE told
    /\ started' = IF FirstPeer(s, seats) /\ started < 2
                THEN started + 1
                ELSE started
    /\ balance' = IF restored THEN balance
                              ELSE [balance EXCEPT ![u] = @ + 1]
    /\ UNCHANGED <<conn, lockedOut, locked, kicked, ended>>

\* sfu:leave
Leave(s) ==
    /\ conn[s] = "up"
    /\ s \in records
    /\ Depart(s, kicked)
    /\ UNCHANGED <<clientVars, heldSeats, ended>>

\* The socket drops: holdSeat keeps the identity for the grace window (a seat
\* the user already holds has its timer replaced) and announces no departure.
\* A socket without a record has no seat to hold.
Disconnect(s) ==
    /\ conn[s] = "up"
    /\ conn' = [conn EXCEPT ![s] = "down"]
    /\ records' = records \ {s}
    /\ peers' = peers \ {s}
    /\ roster' = Forget(roster, {s})
    /\ heldSeats' = IF s \in records THEN heldSeats \cup {UserOf[s]}
                                     ELSE heldSeats
    /\ lockedOut' = lockedOut \ {s}
    /\ UNCHANGED <<pending, roomExists, ownerKnown, locked, kicked, ended,
                   started, balance>>

\* Variant: the expiry tells nobody.
ExpireSilently(u) ==
    /\ u \in heldSeats
    /\ heldSeats' = heldSeats \ {u}
    /\ roster' = roster
    /\ balance' = [balance EXCEPT ![u] = @ - 1]
    /\ CleanupRoomIfEmpty(peers, heldSeats', kicked)
    /\ UNCHANGED <<clientVars, records, peers, ended>>

\* The grace timer fires: the deferred leave flow, unless the room is gone.
ExpireHeldSeat(u) ==
    /\ u \in heldSeats
    /\ heldSeats' = heldSeats \ {u}
    /\ IF roomExists
       THEN /\ roster' = Retract(roster, peers, u)
            /\ balance' = [balance EXCEPT ![u] = @ - 1]
            /\ CleanupRoomIfEmpty(peers, heldSeats', kicked)
       ELSE UNCHANGED <<roster, balance, roomExists, ownerKnown, locked,
                        kicked, started>>
    /\ UNCHANGED <<clientVars, records, peers, ended>>

\* sfu:kick-peer by h.  The service takes the first of the target's sockets
\* in joining order; the model takes any.
Kick(h, t) ==
    /\ conn[h] = "up"
    /\ h \in records
    /\ MayModerate(h)
    /\ t \in records \cap peers
    /\ t # h
    /\ Depart(t, kicked \cup {UserOf[t]})
    /\ conn' = [conn EXCEPT ![t] = "down"]
    /\ lockedOut' = lockedOut \ {t}
    /\ UNCHANGED <<pending, heldSeats, ended>>

\* sfu:lock-room by h: idempotent, so only a change is a step.
LockRoom(h, lock) ==
    /\ conn[h] = "up"
    /\ h \in records
    /\ MayModerate(h)
    /\ locked # lock
    /\ locked' = lock
    /\ UNCHANGED <<clientVars, records, peers, roomExists, ownerKnown, kicked,
                   heldSeats, ended, roster, started, balance>>

\* DELETE of the room: the row becomes `ended', then endRoom.  The lock, the
\* seats and the kicks go first; a room without members stops there, with
\* its entry in `rooms' (and its owner and slug) still in place.
EndRoom ==
    /\ ended' = TRUE
    /\ locked' = FALSE
    /\ kicked' = {}
    /\ heldSeats' = {}
    /\ started' = 0
    /\ records' = records \ peers
    /\ peers' = {}
    /\ roster' = Forget(roster, peers)
    /\ balance' = [u \in Users |->
                      balance[u] - Cardinality(SocketsOf(u, peers))]
    /\ IF peers = {}
       THEN UNCHANGED <<roomExists, ownerKnown>>
       ELSE roomExists' = FALSE /\ ownerKnown' = FALSE
    /\ UNCHANGED clientVars

-----------------------------------------------------------------------------

Next ==
    \/ \E s \in Sockets :
          \/ Connect(s)
          \/ JoinRefusedByLock(s)
          \/ BeginJoin(s)
          \/ JoinRefused(s)
          \/ Admit(s)
          \/ Leave(s)
          \/ Disconnect(s)
    \/ \E u \in Users : ExpireHeldSeat(u)
    \/ \E h, t \in Sockets : Kick(h, t)
    \/ \E h \in Sockets, lock \in BOOLEAN : LockRoom(h, lock)
    \/ EndRoom

Spec == Init /\ [][Next]_vars

-----------------------------------------------------------------------------
(* What holds of every behaviour.                                          *)

\* Each variable keeps the shape of the service's map it stands for.
TypeOK ==
    /\ conn \in [Sockets -> {"idle", "up", "down"}]
    /\ pending \in [Sockets -> 0..MaxPending]
    /\ lockedOut \subseteq Sockets
    /\ records \subseteq Sockets
    /\ peers \subseteq Sockets
    /\ roomExists \in BOOLEAN
    /\ ownerKnown \in BOOLEAN
    /\ locked \in BOOLEAN
    /\ kicked \subseteq Users
    /\ heldSeats \subseteq Users
    /\ ended \in BOOLEAN
    /\ roster \in [Sockets -> SUBSET Users]
    /\ started \in 0..2
    /\ balance \in [Users -> Int]

\* The two maps of membership agree: a socket has a presence record exactly
\* while the room's set lists it.  Fan-out goes by the set, authorisation and
\* departure by the record; a socket in one only could not be removed.
MembershipAgrees ==
    /\ records = peers
    /\ peers # {} => roomExists

\* Lock, kicks, owner and seats live no longer than the room's entry: a room
\* that opens again is never locked and bars nobody from an earlier lifetime,
\* and a grace timer never fires into a forgotten room.
StateEndsWithRoom ==
    ~roomExists => /\ ~locked
                   /\ ~ownerKnown
                   /\ kicked = {}
                   /\ heldSeats = {}

\* Nobody is shown a participant who is gone: every user a member has been
\* told of is a member or holds a grace seat, however joins, blips, kicks,
\* expiries and room ends interleave.
NoPhantomPeer ==
    \A s \in records : roster[s] \subseteq UsersOf(records) \cup heldSeats

\* Behind each membership and each held seat there is a participant.joined
\* not yet matched by a participant.left, so a consumer that counts the two
\* webhooks never sees a departure without an arrival.
NoUnmatchedLeft ==
    \A u \in Users :
        Cardinality(SocketsOf(u, records))
            + (IF u \in heldSeats THEN 1 ELSE 0) <= balance[u]

\* While anyone is in the room or holds a seat, room.started has been fired
\* for the current lifetime.
OccupiedRoomStarted == records # {} \/ heldSeats # {} => started > 0

\* Kick is terminal for the lifetime of the room: no join whose identity
\* lookup straddles the kick gets a kicked participant back in, nor does any
\* grace seat.
KickIsTerminal ==
    [][\A s \in records' \ records : UserOf[s] \notin kicked]_vars

-----------------------------------------------------------------------------
(* What the documents, comments and tests say, and the code does not do.   *)

\* "A locked room refuses every new join before any peer state is created."
\* (room-presence.service.ts:105)
LockedRoomRefusesJoins == [][locked => records' \subseteq records]_vars

\* A participant in the grace window is not a new joiner: "A `sfu:join'
\* arriving within the window from the same participant id SHALL restore the
\* seat silently" (openspec/specs/sfu/spec.md:322).
LockSparesHeldSeats == \A s \in lockedOut : UserOf[s] \notin heldSeats

\* The port identifies "a connected participant" (room-presence.port.ts:12):
\* no record outlives its socket.
RecordsAreConnected == \A s \in records : conn[s] = "up"

\* "Host control: remove a participant; terminal for the room's lifetime."
\* (room-presence.port.ts:67): a kicked participant is no longer in the room.
KickedIsOut == \A s \in records : UserOf[s] \notin kicked

\* "When the window expires without a rejoin, the normal disconnect leave
\* flow runs" (sfu/spec.md:326): a participant who has come back meanwhile is
\* not announced as gone.
ExpiredIsGone ==
    [][\A u \in heldSeats \ heldSeats' :
          balance'[u] < balance[u] /\ records' = records
              => u \notin UsersOf(records)]_vars

\* "a peer held in the grace window remains a participant" (sfu/spec.md:354):
\* once restored it is known to every other member.
RestoredIsKnown ==
    [][\A s \in records' \ records :
          UserOf[s] \in heldSeats =>
              \A t \in Live(records) :
                  UserOf[t] = UserOf[s] \/ UserOf[s] \in roster'[t]]_vars

\* "A grace seat (the rejoiner's own or anyone else's) means the room never
\* emptied, so room.started must not fire again."
\* (room-presence.service.ts:149)
RoomStartedOnce == started <= 1

\* "its lifetime already ran the leave flow for everyone"
\* (room-presence.service.ts:551): when a lifetime ends, every
\* participant.joined has had its participant.left.
LifetimeSettles ==
    [][started > 0 /\ started' = 0 => \A u \in Users : balance'[u] = 0]_vars

\* "End the room: refuse seats, announce, webhooks, lifetime teardown."
\* (room-presence.port.ts:79): nothing of an ended lifetime remains.
EndedLifetimeIsForgotten ==
    [][started > 0 /\ started' = 0 => ~roomExists']_vars

\* "the room status becomes ended, and further joins are refused"
\* (openspec/specs/platform-api/spec.md:79)
EndedRoomRefusesJoins == [][ended => records' \subseteq records]_vars

=============================================================================
