------------------------- MODULE RoomPresenceProofs -------------------------
(***************************************************************************)
(* Proofs about RoomPresence, for any set of sockets and users: the        *)
(* inductive invariant behind its safety properties, and kick terminality. *)
(***************************************************************************)
EXTENDS RoomPresence, FiniteSetTheorems, TLAPS

\* A socket outside the room has been told nothing (it cleared its registry
\* when it left), so what it is told on joining is all it knows.
RosterOnlyInside == \A s \in Sockets : s \notin records => roster[s] = {}

\* The inductive invariant.  NoPhantomPeer needs RosterOnlyInside (a newcomer
\* brings no stale names) and MembershipAgrees (fan-out goes by `peers').
IInv ==
    /\ TypeOK
    /\ MembershipAgrees
    /\ StateEndsWithRoom
    /\ RosterOnlyInside
    /\ NoPhantomPeer
    /\ OccupiedRoomStarted

-----------------------------------------------------------------------------

\* The users of a set of sockets are participants.
LEMMA UsersOfType ==
    ASSUME NEW S \in SUBSET Sockets
    PROVE  UsersOf(S) \subseteq Users
  BY UserOfType DEF UsersOf

\* Adding or removing one socket changes the set of users by its user only.
LEMMA UsersOfStep ==
    ASSUME NEW S \in SUBSET Sockets, NEW s \in Sockets
    PROVE  /\ UsersOf(S \cup {s}) = UsersOf(S) \cup {UserOf[s]}
           /\ UsersOf(S) \subseteq UsersOf(S \ {s}) \cup {UserOf[s]}
           /\ UsersOf(S \ {s}) \subseteq UsersOf(S)
  BY DEF UsersOf

\* What clients are told stays a set of users, socket by socket.
LEMMA ViewType ==
    ASSUME NEW view \in [Sockets -> SUBSET Users], NEW S \in SUBSET Sockets,
           NEW u
    PROVE  /\ Retract(view, S, u) \in [Sockets -> SUBSET Users]
           /\ Forget(view, S) \in [Sockets -> SUBSET Users]
  BY DEF Retract, Forget

\* The count of open arrivals stays an integer when one is settled.
LEMMA SettleType ==
    ASSUME NEW b \in [Users -> Int], NEW u \in Users
    PROVE  [b EXCEPT ![u] = @ - 1] \in [Users -> Int]
  OBVIOUS

\* Whether or not a cleanup happens, the room's own state keeps its types.
LEMMA CleanupType ==
    ASSUME TypeOK, NEW m, NEW h, NEW k \in SUBSET Users,
           CleanupRoomIfEmpty(m, h, k)
    PROVE  /\ roomExists' \in BOOLEAN
           /\ ownerKnown' \in BOOLEAN
           /\ locked' \in BOOLEAN
           /\ kicked' \subseteq Users
           /\ started' \in 0..2
<1>1. CASE IsDeserted(m, h)
  <2>1. /\ roomExists' = FALSE /\ ownerKnown' = FALSE /\ locked' = FALSE
        /\ kicked' = {} /\ started' = 0
    BY <1>1 DEF CleanupRoomIfEmpty
  <2>2. roomExists' \in BOOLEAN /\ ownerKnown' \in BOOLEAN /\ locked' \in BOOLEAN
    BY <2>1, Zenon
  <2>3. kicked' \subseteq Users /\ started' \in 0..2
    BY <2>1
  <2> QED BY <2>2, <2>3
<1>2. CASE ~IsDeserted(m, h)
  <2>1. /\ kicked' = k
        /\ UNCHANGED <<roomExists, ownerKnown, locked, started>>
    BY <1>2 DEF CleanupRoomIfEmpty
  <2> QED BY <2>1 DEF TypeOK
<1> QED BY <1>1, <1>2

\* The initial state satisfies the invariant.
LEMMA InitEstablishes == Init => IInv
<1> SUFFICES ASSUME Init PROVE IInv
  OBVIOUS
<1>1. /\ conn \in [Sockets -> {"idle", "up", "down"}]
      /\ pending \in [Sockets -> 0..MaxPending]
      /\ roster \in [Sockets -> SUBSET Users]
      /\ balance \in [Users -> Int]
  BY BoundsAreNat DEF Init
<1>2. /\ lockedOut = {} /\ records = {} /\ peers = {} /\ kicked = {}
      /\ heldSeats = {} /\ started = 0 /\ roomExists = FALSE
      /\ ownerKnown = FALSE /\ locked = FALSE /\ ended = FALSE
  BY DEF Init
<1>3. /\ roomExists \in BOOLEAN /\ ownerKnown \in BOOLEAN
      /\ locked \in BOOLEAN /\ ended \in BOOLEAN
  BY <1>2, Zenon
<1>4. TypeOK
  BY <1>1, <1>2, <1>3 DEF TypeOK
<1> QED
  BY <1>4 DEF Init, IInv, MembershipAgrees, StateEndsWithRoom,
              RosterOnlyInside, NoPhantomPeer, OccupiedRoomStarted

\* Departing (sfu:leave, kick) keeps the invariant, whatever is barred with
\* it, provided a room that still bars somebody is still open.
LEMMA DepartPreserves ==
    ASSUME IInv, NEW s \in records, NEW k \in SUBSET Users,
           Depart(s, k), UNCHANGED <<pending, heldSeats, ended>>,
           conn' \in [Sockets -> {"idle", "up", "down"}],
           lockedOut' \subseteq Sockets
    PROVE  IInv'
<1> USE DEF IInv
<1>1. s \in Sockets /\ UserOf[s] \in Users /\ s \in peers /\ roomExists
  BY UserOfType DEF TypeOK, MembershipAgrees
<1>2. TypeOK'
  <2>1. roster' \in [Sockets -> SUBSET Users]
    BY <1>1, ViewType DEF Depart, TypeOK
  <2>2. balance' \in [Users -> Int]
    BY <1>1, SettleType DEF Depart, TypeOK
  <2>3. CleanupRoomIfEmpty(peers \ {s}, heldSeats, k)
    BY DEF Depart
  <2> QED BY <2>1, <2>2, <2>3, CleanupType DEF TypeOK, Depart
<1>3. MembershipAgrees'
  BY <1>1 DEF MembershipAgrees, Depart, CleanupRoomIfEmpty, IsDeserted
<1>4. StateEndsWithRoom'
  BY <1>1 DEF StateEndsWithRoom, Depart, CleanupRoomIfEmpty, IsDeserted
<1>5. RosterOnlyInside'
  BY <1>1 DEF RosterOnlyInside, TypeOK, MembershipAgrees, Depart, Forget, Retract
<1>6. NoPhantomPeer'
  <2> SUFFICES ASSUME NEW t \in records', NEW v \in roster'[t]
               PROVE  v \in UsersOf(records') \cup heldSeats'
    BY DEF NoPhantomPeer
  <2>1. t \in Sockets /\ t # s /\ t \in records /\ records' = records \ {s}
    BY DEF Depart, TypeOK
  <2>2. v \in roster[t] /\ v # UserOf[s]
    BY <2>1, <1>1 DEF Depart, Forget, Retract, MembershipAgrees
  <2>3. v \in UsersOf(records) \cup heldSeats
    BY <2>1, <2>2 DEF NoPhantomPeer
  <2> QED BY <2>1, <2>2, <2>3, <1>1, UsersOfStep DEF TypeOK
<1>7. OccupiedRoomStarted'
  BY <1>1 DEF OccupiedRoomStarted, MembershipAgrees, Depart,
              CleanupRoomIfEmpty, IsDeserted
<1> QED BY <1>2, <1>3, <1>4, <1>5, <1>6, <1>7

\* Admitting a socket keeps the invariant, restored seat or not, and even
\* when the socket is already a member or no longer connected.
LEMMA AdmitPreserves ==
    ASSUME IInv, NEW s \in Sockets, Admit(s)
    PROVE  IInv'
<1> USE DEF IInv
<1> DEFINE u == UserOf[s]
<1>1. u \in Users
  BY UserOfType
<1>2. /\ records' = records \cup {s}
      /\ peers' = peers \cup {s}
      /\ heldSeats' = heldSeats \ {u}
      /\ roomExists'
  BY DEF Admit, SeatsAfterJoin
<1>3. ExistingPeers(s) \subseteq UsersOf(records)
  BY UsersOfStep DEF ExistingPeers, TypeOK, MembershipAgrees
<1>4. \A t \in Sockets :
         /\ roster'[t] \subseteq Users
         /\ t # s /\ t \notin records => roster'[t] = roster[t]
         /\ roster'[t] \subseteq roster[t] \cup UsersOf(records) \cup {u}
  <2> DEFINE told == IF u \in heldSeats THEN roster
                     ELSE Announce(roster, Live(peers \ {s}), u)
  <2>1. told \in [Sockets -> SUBSET Users]
    BY <1>1 DEF TypeOK, Announce
  <2>2. \A t \in Sockets :
          /\ told[t] \subseteq roster[t] \cup {u}
          /\ t \notin records => told[t] = roster[t]
    BY DEF Announce, Live, MembershipAgrees, TypeOK
  <2>3. roster' = IF s \in Live({s})
                  THEN [told EXCEPT ![s] = @ \cup ExistingPeers(s)] ELSE told
    BY DEF Admit
  <2>4. ExistingPeers(s) \subseteq Users
    BY <1>3, UsersOfType DEF TypeOK
  <2> HIDE DEF told
  <2> QED BY <2>1, <2>2, <2>3, <2>4, <1>3
<1>5. roster' \in [Sockets -> SUBSET Users]
  <2>1. roster' = [t \in Sockets |-> roster'[t]]
    BY DEF Admit, TypeOK, Announce
  <2> QED BY <2>1, <1>4
<1>6. balance' \in [Users -> Int]
  BY <1>1 DEF Admit, TypeOK
<1>7. pending' \in [Sockets -> 0..MaxPending] /\ started' \in 0..2
  BY BoundsAreNat DEF Admit, TypeOK
<1>8. TypeOK'
  BY <1>1, <1>2, <1>5, <1>6, <1>7 DEF TypeOK, Admit
<1>9. MembershipAgrees' /\ StateEndsWithRoom'
  BY <1>2 DEF MembershipAgrees, StateEndsWithRoom
<1>10. RosterOnlyInside'
  BY <1>2, <1>4 DEF RosterOnlyInside
<1>11. NoPhantomPeer'
  <2> SUFFICES ASSUME NEW t \in records'
               PROVE  roster'[t] \subseteq UsersOf(records') \cup heldSeats'
    BY DEF NoPhantomPeer
  <2>1. UsersOf(records') = UsersOf(records) \cup {u}
    BY <1>2, UsersOfStep DEF TypeOK
  <2>2. roster[t] \subseteq UsersOf(records) \cup heldSeats
    BY <1>2 DEF NoPhantomPeer, RosterOnlyInside, TypeOK
  <2>3. t \in Sockets
    BY <1>2 DEF TypeOK
  <2> QED BY <2>1, <2>2, <2>3, <1>2, <1>4
<1>12. OccupiedRoomStarted'
  <2>1. CASE FirstPeer(s, SeatsAfterJoin(u))
    BY <2>1 DEF Admit, OccupiedRoomStarted, TypeOK
  <2>2. CASE ~FirstPeer(s, SeatsAfterJoin(u))
    BY <2>2 DEF Admit, OccupiedRoomStarted, TypeOK, MembershipAgrees,
                FirstPeer, IsDeserted, SeatsAfterJoin
  <2> QED BY <2>1, <2>2
<1> QED BY <1>8, <1>9, <1>10, <1>11, <1>12

\* A socket that drops keeps the invariant: its user stays, on a held seat.
LEMMA DisconnectPreserves ==
    ASSUME IInv, NEW s \in Sockets, Disconnect(s)
    PROVE  IInv'
<1> USE DEF IInv
<1>1. UserOf[s] \in Users
  BY UserOfType
<1>2. TypeOK'
  <2>1. roster' \in [Sockets -> SUBSET Users]
    BY ViewType DEF Disconnect, TypeOK
  <2> QED BY <2>1, <1>1 DEF TypeOK, Disconnect
<1>3. MembershipAgrees' /\ StateEndsWithRoom'
  BY DEF MembershipAgrees, StateEndsWithRoom, Disconnect
<1>4. RosterOnlyInside'
  BY DEF RosterOnlyInside, Disconnect, Forget, TypeOK
<1>5. NoPhantomPeer'
  <2> SUFFICES ASSUME NEW t \in records'
               PROVE  roster'[t] \subseteq UsersOf(records') \cup heldSeats'
    BY DEF NoPhantomPeer
  <2>1. t \in Sockets /\ t # s /\ t \in records /\ records' = records \ {s}
    BY DEF Disconnect, TypeOK
  <2>2. roster'[t] = roster[t]
    BY <2>1 DEF Disconnect, Forget
  <2>3. roster[t] \subseteq UsersOf(records) \cup heldSeats
    BY <2>1 DEF NoPhantomPeer
  <2>4. CASE s \in records
    BY <2>1, <2>2, <2>3, <2>4, UsersOfStep DEF Disconnect, TypeOK
  <2>5. CASE s \notin records
    <3>1. records' = records /\ heldSeats' = heldSeats
      BY <2>5 DEF Disconnect
    <3> QED BY <3>1, <2>2, <2>3
  <2> QED BY <2>4, <2>5
<1>6. OccupiedRoomStarted'
  BY DEF OccupiedRoomStarted, Disconnect
<1> QED BY <1>2, <1>3, <1>4, <1>5, <1>6

\* A grace seat that expires keeps the invariant: everybody is told.
LEMMA ExpirePreserves ==
    ASSUME IInv, NEW u \in Users, ExpireHeldSeat(u)
    PROVE  IInv'
<1> USE DEF IInv
<1>1. u \in heldSeats /\ roomExists
  BY DEF ExpireHeldSeat, StateEndsWithRoom
<1>2. /\ heldSeats' = heldSeats \ {u}
      /\ roster' = Retract(roster, peers, u)
      /\ balance' = [balance EXCEPT ![u] = @ - 1]
      /\ CleanupRoomIfEmpty(peers, heldSeats', kicked)
      /\ UNCHANGED <<conn, pending, lockedOut, records, peers, ended>>
  BY <1>1 DEF ExpireHeldSeat, clientVars
<1>3. TypeOK'
  <2>1. roster' \in [Sockets -> SUBSET Users]
    BY <1>2, ViewType DEF TypeOK
  <2>2. balance' \in [Users -> Int]
    BY <1>2, SettleType DEF TypeOK
  <2> QED BY <2>1, <2>2, <1>2, CleanupType DEF TypeOK
<1>4. MembershipAgrees' /\ StateEndsWithRoom'
  BY <1>1, <1>2 DEF MembershipAgrees, StateEndsWithRoom, CleanupRoomIfEmpty,
                    IsDeserted
<1>5. RosterOnlyInside'
  BY <1>2 DEF RosterOnlyInside, MembershipAgrees, Retract
<1>6. NoPhantomPeer'
  <2> SUFFICES ASSUME NEW t \in records
               PROVE  roster'[t] \subseteq UsersOf(records) \cup heldSeats'
    BY <1>2 DEF NoPhantomPeer, UsersOf
  <2>1. t \in Sockets /\ t \in peers
    BY DEF TypeOK, MembershipAgrees
  <2>2. roster'[t] = roster[t] \ {u}
    BY <1>2, <2>1 DEF Retract
  <2>3. roster[t] \subseteq UsersOf(records) \cup heldSeats
    BY DEF NoPhantomPeer
  <2> QED BY <1>2, <2>2, <2>3
<1>7. OccupiedRoomStarted'
  BY <1>1, <1>2 DEF OccupiedRoomStarted, MembershipAgrees,
                    CleanupRoomIfEmpty, IsDeserted
<1> QED BY <1>3, <1>4, <1>5, <1>6, <1>7

\* Ending the room keeps the invariant, with or without members.
LEMMA EndRoomPreserves ==
    ASSUME IInv, EndRoom
    PROVE  IInv'
<1> USE DEF IInv
<1>1. /\ records' = {} /\ peers' = {} /\ heldSeats' = {} /\ kicked' = {}
      /\ ~locked' /\ started' = 0 /\ ended'
      /\ roster' = Forget(roster, peers)
      /\ UNCHANGED <<conn, pending, lockedOut>>
  BY DEF EndRoom, MembershipAgrees, clientVars
<1>2. balance' \in [Users -> Int]
  <2>1. \A u \in Users : Cardinality(SocketsOf(u, peers)) \in Nat
    BY SocketsAreFinite, FS_Subset, FS_CardinalityType DEF SocketsOf, TypeOK
  <2> QED BY <2>1 DEF EndRoom, TypeOK
<1>3. TypeOK'
  <2>1. roster' \in [Sockets -> SUBSET Users]
    BY <1>1, ViewType DEF TypeOK
  <2>2. roomExists' \in BOOLEAN /\ ownerKnown' \in BOOLEAN
    <3>1. CASE peers = {}
      <4>1. UNCHANGED <<roomExists, ownerKnown>>
        BY <3>1 DEF EndRoom
      <4> QED BY <4>1 DEF TypeOK
    <3>2. CASE peers # {}
      <4>1. roomExists' = FALSE /\ ownerKnown' = FALSE
        BY <3>2 DEF EndRoom
      <4> QED BY <4>1
    <3> QED BY <3>1, <3>2
  <2>3. locked' \in BOOLEAN /\ ended' \in BOOLEAN
    BY Zenon DEF EndRoom
  <2> QED BY <2>1, <2>2, <2>3, <1>1, <1>2 DEF TypeOK
<1>4. MembershipAgrees' /\ StateEndsWithRoom'
  BY <1>1 DEF MembershipAgrees, StateEndsWithRoom, EndRoom
<1>5. RosterOnlyInside' /\ NoPhantomPeer' /\ OccupiedRoomStarted'
  BY <1>1 DEF RosterOnlyInside, NoPhantomPeer, OccupiedRoomStarted, Forget,
              MembershipAgrees, TypeOK
<1> QED BY <1>3, <1>4, <1>5

\* Every step of the room keeps the invariant.
LEMMA NextPreserves == IInv /\ [Next]_vars => IInv'
<1> SUFFICES ASSUME IInv, [Next]_vars PROVE IInv'
  OBVIOUS
<1> USE DEF IInv
<1>1. ASSUME NEW s \in Sockets, Connect(s) PROVE IInv'
  BY <1>1 DEF Connect, TypeOK, MembershipAgrees, StateEndsWithRoom,
              RosterOnlyInside, NoPhantomPeer, OccupiedRoomStarted
<1>2. ASSUME NEW s \in Sockets,
             JoinRefusedByLock(s) \/ BeginJoin(s) \/ JoinRefused(s)
      PROVE  IInv'
  <2>1. lockedOut' \subseteq Sockets /\ pending' \in [Sockets -> 0..MaxPending]
    BY <1>2, BoundsAreNat DEF JoinRefusedByLock, BeginJoin, JoinRefused, TypeOK
  <2>2. UNCHANGED <<conn, records, peers, roomExists, ownerKnown, locked,
                    kicked, heldSeats, ended, roster, started, balance>>
    BY <1>2 DEF JoinRefusedByLock, BeginJoin, JoinRefused
  <2> QED BY <2>1, <2>2 DEF TypeOK, MembershipAgrees, StateEndsWithRoom,
                            RosterOnlyInside, NoPhantomPeer, OccupiedRoomStarted
<1>3. ASSUME NEW s \in Sockets, Admit(s) PROVE IInv'
  BY <1>3, AdmitPreserves
<1>4. ASSUME NEW s \in Sockets, Leave(s) PROVE IInv'
  BY <1>4, DepartPreserves DEF Leave, clientVars, TypeOK
<1>5. ASSUME NEW s \in Sockets, Disconnect(s) PROVE IInv'
  BY <1>5, DisconnectPreserves
<1>6. ASSUME NEW u \in Users, ExpireHeldSeat(u) PROVE IInv'
  BY <1>6, ExpirePreserves
<1>7. ASSUME NEW h \in Sockets, NEW t \in Sockets, Kick(h, t) PROVE IInv'
  <2>1. /\ t \in records
        /\ kicked \cup {UserOf[t]} \in SUBSET Users
        /\ conn' \in [Sockets -> {"idle", "up", "down"}]
        /\ lockedOut' \subseteq Sockets
    BY <1>7, UserOfType DEF Kick, TypeOK
  <2> QED BY <1>7, <2>1, DepartPreserves DEF Kick
<1>8. ASSUME NEW h \in Sockets, NEW lock \in BOOLEAN, LockRoom(h, lock)
      PROVE  IInv'
  <2>1. peers # {}
    BY <1>8 DEF LockRoom, MembershipAgrees
  <2> QED BY <1>8, <2>1 DEF LockRoom, clientVars, TypeOK, MembershipAgrees,
             StateEndsWithRoom, RosterOnlyInside, NoPhantomPeer,
             OccupiedRoomStarted
<1>9. ASSUME EndRoom PROVE IInv'
  BY <1>9, EndRoomPreserves
<1>10. ASSUME UNCHANGED vars PROVE IInv'
  BY <1>10 DEF vars, TypeOK, MembershipAgrees, StateEndsWithRoom,
               RosterOnlyInside, NoPhantomPeer, OccupiedRoomStarted
<1> QED BY <1>1, <1>2, <1>3, <1>4, <1>5, <1>6, <1>7, <1>8, <1>9, <1>10 DEF Next

-----------------------------------------------------------------------------

\* The invariant holds in every reachable state.
THEOREM Invariance == Spec => []IInv
<1>1. Init => IInv
  BY InitEstablishes
<1>2. IInv /\ [Next]_vars => IInv'
  BY NextPreserves
<1> QED BY <1>1, <1>2, PTL DEF Spec

\* Every map of the service keeps its type.
THEOREM TypeCorrect == Spec => []TypeOK
<1>1. IInv => TypeOK
  BY DEF IInv
<1> QED BY <1>1, Invariance, PTL

\* The record map and the member set never disagree.
THEOREM MembershipAlwaysAgrees == Spec => []MembershipAgrees
<1>1. IInv => MembershipAgrees
  BY DEF IInv
<1> QED BY <1>1, Invariance, PTL

\* Lock, kicks, owner and grace seats never outlive the room's entry.
THEOREM StateAlwaysEndsWithRoom == Spec => []StateEndsWithRoom
<1>1. IInv => StateEndsWithRoom
  BY DEF IInv
<1> QED BY <1>1, Invariance, PTL

\* No client ever shows a participant who is neither a member nor in grace.
THEOREM NeverPhantomPeer == Spec => []NoPhantomPeer
<1>1. IInv => NoPhantomPeer
  BY DEF IInv
<1> QED BY <1>1, Invariance, PTL

\* room.started has always been fired for a room somebody is in.
THEOREM OccupiedAlwaysStarted == Spec => []OccupiedRoomStarted
<1>1. IInv => OccupiedRoomStarted
  BY DEF IInv
<1> QED BY <1>1, Invariance, PTL

\* A kicked participant never gets back in during the room's lifetime.
THEOREM KickAlwaysTerminal == Spec => KickIsTerminal
<1>1. TypeOK /\ [Next]_vars
        => [\A s \in records' \ records : UserOf[s] \notin kicked]_vars
  <2> SUFFICES ASSUME TypeOK, Next, NEW s \in records' \ records
               PROVE  UserOf[s] \notin kicked
    OBVIOUS
  <2>1. ASSUME NEW x \in Sockets, Admit(x) PROVE UserOf[s] \notin kicked
    BY <2>1 DEF Admit, MayEnter
  <2>2. ASSUME NEW x \in Sockets,
               Leave(x) \/ Disconnect(x) \/ \E h \in Sockets : Kick(h, x)
        PROVE  FALSE
    BY <2>2 DEF Leave, Disconnect, Kick, Depart
  <2>3. ASSUME \/ \E x \in Sockets : \/ Connect(x)
                                     \/ JoinRefusedByLock(x)
                                     \/ BeginJoin(x)
                                     \/ JoinRefused(x)
               \/ \E u \in Users : ExpireHeldSeat(u)
               \/ \E h \in Sockets, lock \in BOOLEAN : LockRoom(h, lock)
               \/ EndRoom
        PROVE  FALSE
    BY <2>3 DEF Connect, JoinRefusedByLock, BeginJoin, JoinRefused,
                ExpireHeldSeat, LockRoom, EndRoom
  <2> QED BY <2>1, <2>2, <2>3 DEF Next
<1> QED BY <1>1, TypeCorrect, PTL DEF Spec, KickIsTerminal

-----------------------------------------------------------------------------
(* Webhook accounting: NoUnmatchedLeft is inductive over IInv.             *)

\* Adding or removing a socket moves its user's count by at most one and
\* nobody else's.
LEMMA SocketsOfStep ==
    ASSUME NEW S \in SUBSET Sockets, NEW s \in Sockets, NEW u \in Users
    PROVE  /\ Cardinality(SocketsOf(u, S)) \in Nat
           /\ Cardinality(SocketsOf(u, S \cup {s}))
                <= Cardinality(SocketsOf(u, S)) + (IF UserOf[s] = u THEN 1 ELSE 0)
           /\ Cardinality(SocketsOf(u, S \cup {s})) \in Nat
           /\ Cardinality(SocketsOf(u, S \ {s}))
                = Cardinality(SocketsOf(u, S))
                    - (IF s \in S /\ UserOf[s] = u THEN 1 ELSE 0)
<1>1. IsFiniteSet(SocketsOf(u, S)) /\ Cardinality(SocketsOf(u, S)) \in Nat
  BY SocketsAreFinite, FS_Subset, FS_CardinalityType DEF SocketsOf
<1>2. CASE UserOf[s] = u
  <2>1. /\ SocketsOf(u, S \cup {s}) = SocketsOf(u, S) \cup {s}
        /\ SocketsOf(u, S \ {s}) = SocketsOf(u, S) \ {s}
    BY <1>2 DEF SocketsOf
  <2>2. CASE s \in S
    <3>1. s \in SocketsOf(u, S)
      BY <1>2, <2>2 DEF SocketsOf
    <3>2. S \cup {s} = S
      BY <2>2
    <3>3. Cardinality(SocketsOf(u, S) \ {s}) = Cardinality(SocketsOf(u, S)) - 1
      BY <1>1, <3>1, FS_RemoveElement
    <3>4. Cardinality(SocketsOf(u, S \cup {s})) = Cardinality(SocketsOf(u, S))
      BY <3>2, Zenon
    <3>5. Cardinality(SocketsOf(u, S \ {s})) = Cardinality(SocketsOf(u, S)) - 1
      BY <2>1, <3>3, Zenon
    <3> QED BY <1>1, <1>2, <2>2, <3>4, <3>5
  <2>3. CASE s \notin S
    <3>1. s \notin SocketsOf(u, S)
      BY <2>3 DEF SocketsOf
    <3>2. /\ Cardinality(SocketsOf(u, S \cup {s})) = Cardinality(SocketsOf(u, S)) + 1
          /\ Cardinality(SocketsOf(u, S \ {s})) = Cardinality(SocketsOf(u, S))
      BY <1>1, <2>1, <3>1, FS_AddElement, FS_RemoveElement
    <3> QED BY <1>1, <1>2, <2>3, <3>2
  <2> QED BY <2>2, <2>3
<1>3. CASE UserOf[s] # u
  <2>1. /\ SocketsOf(u, S \cup {s}) = SocketsOf(u, S)
        /\ SocketsOf(u, S \ {s}) = SocketsOf(u, S)
    BY <1>3 DEF SocketsOf
  <2> QED BY <1>1, <1>3, <2>1
<1> QED BY <1>2, <1>3

\* A departure takes one membership and one participant.left.
LEMMA DepartMatched ==
    ASSUME IInv, NoUnmatchedLeft, NEW s \in records, NEW k,
           Depart(s, k), UNCHANGED heldSeats
    PROVE  NoUnmatchedLeft'
<1>1. s \in Sockets /\ records \in SUBSET Sockets /\ balance \in [Users -> Int]
  BY DEF IInv, TypeOK
<1>2. SUFFICES ASSUME NEW u \in Users
               PROVE  Cardinality(SocketsOf(u, records'))
                        + (IF u \in heldSeats' THEN 1 ELSE 0) <= balance'[u]
  BY DEF NoUnmatchedLeft
<1>3. /\ records' = records \ {s} /\ heldSeats' = heldSeats
      /\ balance'[u] = balance[u] - (IF UserOf[s] = u THEN 1 ELSE 0)
  BY <1>1 DEF Depart
<1>4. Cardinality(SocketsOf(u, records))
        + (IF u \in heldSeats THEN 1 ELSE 0) <= balance[u]
  BY DEF NoUnmatchedLeft
<1>5. /\ Cardinality(SocketsOf(u, records)) \in Nat
      /\ Cardinality(SocketsOf(u, records \ {s}))
           = Cardinality(SocketsOf(u, records))
               - (IF s \in records /\ UserOf[s] = u THEN 1 ELSE 0)
  BY <1>1, SocketsOfStep
<1> QED BY <1>1, <1>3, <1>4, <1>5

\* An arrival is announced unless it takes the place of a held seat.
LEMMA AdmitMatched ==
    ASSUME IInv, NoUnmatchedLeft, NEW s \in Sockets, Admit(s)
    PROVE  NoUnmatchedLeft'
<1>1. records \in SUBSET Sockets /\ balance \in [Users -> Int]
  BY DEF IInv, TypeOK
<1>2. SUFFICES ASSUME NEW u \in Users
               PROVE  Cardinality(SocketsOf(u, records'))
                        + (IF u \in heldSeats' THEN 1 ELSE 0) <= balance'[u]
  BY DEF NoUnmatchedLeft
<1>3. /\ records' = records \cup {s}
      /\ heldSeats' = heldSeats \ {UserOf[s]}
      /\ balance'[u] = IF UserOf[s] = u /\ u \notin heldSeats
                       THEN balance[u] + 1 ELSE balance[u]
  BY <1>1 DEF Admit, SeatsAfterJoin
<1>4. Cardinality(SocketsOf(u, records))
        + (IF u \in heldSeats THEN 1 ELSE 0) <= balance[u]
  BY DEF NoUnmatchedLeft
<1>5. /\ Cardinality(SocketsOf(u, records)) \in Nat
      /\ Cardinality(SocketsOf(u, records \cup {s}))
           <= Cardinality(SocketsOf(u, records)) + (IF UserOf[s] = u THEN 1 ELSE 0)
      /\ Cardinality(SocketsOf(u, records \cup {s})) \in Nat
  BY <1>1, SocketsOfStep
<1> QED BY <1>1, <1>3, <1>4, <1>5

\* A drop turns a membership into a seat.
LEMMA DisconnectMatched ==
    ASSUME IInv, NoUnmatchedLeft, NEW s \in Sockets, Disconnect(s)
    PROVE  NoUnmatchedLeft'
<1>1. records \in SUBSET Sockets /\ balance \in [Users -> Int]
  BY DEF IInv, TypeOK
<1>2. SUFFICES ASSUME NEW u \in Users
               PROVE  Cardinality(SocketsOf(u, records'))
                        + (IF u \in heldSeats' THEN 1 ELSE 0) <= balance'[u]
  BY DEF NoUnmatchedLeft
<1>3. /\ records' = records \ {s}
      /\ heldSeats' = IF s \in records THEN heldSeats \cup {UserOf[s]}
                                       ELSE heldSeats
      /\ balance'[u] = balance[u]
  BY DEF Disconnect
<1>4. Cardinality(SocketsOf(u, records))
        + (IF u \in heldSeats THEN 1 ELSE 0) <= balance[u]
  BY DEF NoUnmatchedLeft
<1>5. /\ Cardinality(SocketsOf(u, records)) \in Nat
      /\ Cardinality(SocketsOf(u, records \ {s}))
           = Cardinality(SocketsOf(u, records))
               - (IF s \in records /\ UserOf[s] = u THEN 1 ELSE 0)
  BY <1>1, SocketsOfStep
<1> QED BY <1>1, <1>3, <1>4, <1>5

\* An expiry gives up a seat with its participant.left, the room's end all
\* memberships and all seats.
LEMMA ExpireAndEndMatched ==
    ASSUME IInv, NoUnmatchedLeft,
           EndRoom \/ \E w \in Users : ExpireHeldSeat(w)
    PROVE  NoUnmatchedLeft'
<1>1. records \in SUBSET Sockets /\ balance \in [Users -> Int] /\ records = peers
  BY DEF IInv, TypeOK, MembershipAgrees
<1>2. SUFFICES ASSUME NEW u \in Users
               PROVE  Cardinality(SocketsOf(u, records'))
                        + (IF u \in heldSeats' THEN 1 ELSE 0) <= balance'[u]
  BY DEF NoUnmatchedLeft
<1>3. Cardinality(SocketsOf(u, records))
        + (IF u \in heldSeats THEN 1 ELSE 0) <= balance[u]
  BY DEF NoUnmatchedLeft
<1>4. Cardinality(SocketsOf(u, records)) \in Nat
  BY <1>1, SocketsAreFinite, FS_Subset, FS_CardinalityType DEF SocketsOf
<1>5. CASE EndRoom
  <2>1. /\ records' = {} /\ heldSeats' = {}
        /\ balance'[u] = balance[u] - Cardinality(SocketsOf(u, records))
    BY <1>1, <1>5 DEF EndRoom
  <2>2. Cardinality(SocketsOf(u, records')) = 0
    BY <2>1, FS_EmptySet DEF SocketsOf
  <2> QED BY <1>1, <1>3, <1>4, <2>1, <2>2
<1>6. ASSUME NEW w \in Users, ExpireHeldSeat(w)
      PROVE  Cardinality(SocketsOf(u, records'))
               + (IF u \in heldSeats' THEN 1 ELSE 0) <= balance'[u]
  <2>1. w \in heldSeats /\ heldSeats' = heldSeats \ {w} /\ records' = records
    BY <1>6 DEF ExpireHeldSeat
  <2>2. balance' = [balance EXCEPT ![w] = @ - 1] \/ balance' = balance
    BY <1>6 DEF ExpireHeldSeat
  <2> QED BY <1>1, <1>3, <1>4, <2>1, <2>2
<1> QED BY <1>5, <1>6

\* A consumer that counts participant.joined and participant.left never sees
\* more departures than arrivals, and is always owed one participant.left
\* for every membership and every held seat.
THEOREM NeverUnmatchedLeft == Spec => []NoUnmatchedLeft
<1>1. Init => NoUnmatchedLeft
  <2> SUFFICES ASSUME Init, NEW u \in Users
               PROVE  Cardinality(SocketsOf(u, records))
                        + (IF u \in heldSeats THEN 1 ELSE 0) <= balance[u]
    BY DEF NoUnmatchedLeft
  <2>1. SocketsOf(u, records) = {} /\ heldSeats = {} /\ balance[u] = 0
    BY DEF Init, SocketsOf
  <2> QED BY <2>1, FS_EmptySet
<1>2. IInv /\ NoUnmatchedLeft /\ [Next]_vars => NoUnmatchedLeft'
  <2> SUFFICES ASSUME IInv, NoUnmatchedLeft, [Next]_vars
               PROVE  NoUnmatchedLeft'
    OBVIOUS
  <2>1. ASSUME UNCHANGED <<records, heldSeats, balance>>
        PROVE  NoUnmatchedLeft'
    BY <2>1 DEF NoUnmatchedLeft, SocketsOf
  <2>2. ASSUME NEW s \in Sockets,
               Connect(s) \/ JoinRefusedByLock(s) \/ BeginJoin(s) \/ JoinRefused(s)
        PROVE  NoUnmatchedLeft'
    BY <2>1, <2>2 DEF Connect, JoinRefusedByLock, BeginJoin, JoinRefused
  <2>3. ASSUME NEW s \in Sockets, Admit(s) PROVE NoUnmatchedLeft'
    BY <2>3, AdmitMatched
  <2>4. ASSUME NEW s \in Sockets, Leave(s) PROVE NoUnmatchedLeft'
    BY <2>4, DepartMatched DEF Leave
  <2>5. ASSUME NEW s \in Sockets, Disconnect(s) PROVE NoUnmatchedLeft'
    BY <2>5, DisconnectMatched
  <2>6. ASSUME NEW h \in Sockets, NEW t \in Sockets, Kick(h, t)
        PROVE  NoUnmatchedLeft'
    BY <2>6, DepartMatched DEF Kick
  <2>7. ASSUME NEW h \in Sockets, NEW lock \in BOOLEAN, LockRoom(h, lock)
        PROVE  NoUnmatchedLeft'
    BY <2>1, <2>7 DEF LockRoom
  <2>8. ASSUME EndRoom \/ \E u \in Users : ExpireHeldSeat(u)
        PROVE  NoUnmatchedLeft'
    BY <2>8, ExpireAndEndMatched
  <2>9. CASE UNCHANGED vars
    BY <2>1, <2>9 DEF vars
  <2> QED BY <2>2, <2>3, <2>4, <2>5, <2>6, <2>7, <2>8, <2>9 DEF Next
<1> QED BY <1>1, <1>2, Invariance, PTL DEF Spec

=============================================================================
