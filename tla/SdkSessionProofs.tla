-------------------------- MODULE SdkSessionProofs --------------------------
(***************************************************************************)
(* Proofs about a session of the SDK and what is watched while it lasts: the*)
(* quality of the peers, and what plays their sound.                       *)
(***************************************************************************)
EXTENDS SdkSession, PeerQuality, Speakers, TLAPS

-----------------------------------------------------------------------------
(***************************************************************************)
(* Proof, for any number of joins, drops and rejoins and for any provider, *)
(* that a session that is over leaves nothing behind to bring it back.     *)
(***************************************************************************)

Flags ==
    /\ ended \in BOOLEAN /\ blipped \in BOOLEAN /\ established \in BOOLEAN
    /\ payload \in BOOLEAN /\ attempted \in BOOLEAN /\ member \in BOOLEAN

Kinds ==
    /\ status \in {"disconnected", "connecting", "joined", "reconnecting", "error"}
    /\ phase \in {"idle", "connection", "ack"} /\ heard \in {"none", "joined", "denied"}
    /\ state \in ConnectionStates
    /\ sock \in {"none", "down", "up", "dead"}

Counts ==
    /\ rejoins \in 0 .. MaxRejoins /\ providers \in Nat /\ wire \in Nat
    /\ attempts \in 0 .. MaxAttempts /\ drops \in 0 .. MaxDrops

\* Over is over also while a join() that a kick overtook still waits: the
\* socket is gone, and only join() makes another.
NothingLeft ==
    status = "disconnected" => sock = "none" /\ ~established /\ ~payload /\ ~member /\ wire = 0

\* A room that ended left no provider to be waited for.
EndedIsTerminal == ended => status = "disconnected" /\ phase = "idle" /\ providers = 0

SessionIInv == Flags /\ Kinds /\ Counts /\ NothingLeft /\ EndedIsTerminal

-----------------------------------------------------------------------------

LEMMA SessionInitEstablishes == SessionInit => SessionIInv
<1> SUFFICES ASSUME SessionInit PROVE SessionIInv
  OBVIOUS
<1>1. Flags
  BY Zenon DEF SessionInit, Flags
<1>2. Kinds /\ Counts /\ NothingLeft /\ EndedIsTerminal
  BY BoundsAreNat DEF SessionInit, ManagerInit, Kinds, ConnectionStates, Counts, NothingLeft, EndedIsTerminal
<1> QED BY <1>1, <1>2 DEF SessionIInv

\* Whatever way a session ends, its end keeps the invariant: a kick comes over
\* a socket that is up, so it meets a session that is not over.
LEMMA EndsPreserve ==
    ASSUME SessionIInv,
           \/ LeaveCalled \/ RoomEnds
           \/ /\ Kicked /\ sock = "up" /\ ended' = ended
              /\ status' \in {"disconnected", "reconnecting", "error"}
              /\ phase' \in {phase, "idle"} /\ heard' \in {"none", "joined", "denied"}
    PROVE  SessionIInv'
<1> USE DEF SessionIInv
<1>1. CASE LeaveCalled
  <2>1. Flags' /\ EndedIsTerminal'
    BY <1>1 DEF LeaveCalled, LeaveSession, LeaveRoom, ClearSession, Flags, EndedIsTerminal
  <2>2. Kinds' /\ Counts' /\ NothingLeft'
    BY <1>1, BoundsAreNat DEF LeaveCalled, LeaveSession, LeaveRoom, ClearSession, Disconnect, ResetState, bounds,
       Kinds, ConnectionStates, Counts, NothingLeft
  <2> QED BY <2>1, <2>2
<1>2. CASE /\ Kicked /\ sock = "up" /\ ended' = ended
           /\ status' \in {"disconnected", "reconnecting", "error"}
           /\ phase' \in {phase, "idle"} /\ heard' \in {"none", "joined", "denied"}
  <2>1. ~ended
    BY <1>2 DEF NothingLeft, EndedIsTerminal, Flags
  <2>2. Flags' /\ EndedIsTerminal'
    BY <1>2, <2>1 DEF Kicked, LeaveRoom, ClearSession, Flags, EndedIsTerminal
  <2>3. Kinds' /\ Counts' /\ NothingLeft'
    BY <1>2, BoundsAreNat DEF Kicked, LeaveRoom, ClearSession, SocketAfterKick, bounds,
       Kinds, ConnectionStates, Counts, NothingLeft
  <2> QED BY <2>2, <2>3
<1>3. CASE RoomEnds
  <2>1. Flags' /\ EndedIsTerminal'
    BY <1>3 DEF RoomEnds, EndSeen, LeaveSession, LeaveRoom, ClearSession, Flags, EndedIsTerminal
  <2>2. Kinds' /\ Counts' /\ NothingLeft'
    BY <1>3, BoundsAreNat DEF RoomEnds, EndSeen, LeaveSession, LeaveRoom, ClearSession, Disconnect, ResetState,
       bounds, Kinds, ConnectionStates, Counts, NothingLeft
  <2> QED BY <2>1, <2>2
<1> QED BY <1>1, <1>2, <1>3

\* What the hook makes of a connection state and an answer.
LEMMA MirrorTyped ==
    ASSUME SessionIInv, NEW cs \in ConnectionStates, NEW h \in {"none", "joined", "denied"}, NEW n \in Nat,
           Mirror(cs, h, n)
    PROVE  /\ blipped' \in BOOLEAN /\ wire' \in Nat /\ state' = cs
           /\ phase' \in {"idle", "connection", "ack"} /\ heard' \in {"none", "joined", "denied"}
<1>1. blipped' \in BOOLEAN /\ state' = cs
  BY DEF Mirror
<1>2. wire' \in Nat
  BY DEF Mirror
<1>3. phase' \in {"idle", "connection", "ack"} /\ heard' \in {"none", "joined", "denied"}
  BY DEF Mirror, SessionIInv, Kinds
<1> QED BY <1>1, <1>2, <1>3

\* It ends no session.
LEMMA OutcomeKinds ==
    ASSUME NEW cs \in ConnectionStates, NEW h \in {"none", "joined", "denied"}
    PROVE  Outcome(cs, h) \in {status, "joined", "reconnecting", "error"}
BY DEF Outcome, Seen

\* An answer that is heard.
LEMMA HearsTyped ==
    ASSUME SessionIInv, NEW answer \in {"joined", "denied"}
    PROVE  Hears(answer) \in {"none", "joined", "denied"}
BY DEF Hears, SessionIInv, Kinds

\* A step of a session that is not over, and that does not end it.
LEMMA LiveKeeps ==
    ASSUME SessionIInv, NEW cs \in ConnectionStates, NEW h \in {"none", "joined", "denied"}, NEW n \in Nat,
           Mirror(cs, h, n), status # "disconnected", ended' = ended,
           status' \in {status, "joined", "reconnecting", "error"},
           sock' \in {"down", "up", "dead"}, member' \in BOOLEAN,
           established' \in BOOLEAN, payload' \in BOOLEAN, attempted' \in BOOLEAN,
           rejoins' \in {rejoins, 0}, providers' \in Nat,
           attempts' = attempts, drops' \in 0 .. MaxDrops
    PROVE  SessionIInv'
<1> USE DEF SessionIInv
<1>1. ~ended /\ status' # "disconnected"
  BY DEF EndedIsTerminal, Flags
<1>2. Flags' /\ Kinds'
  BY MirrorTyped DEF Flags, Kinds
<1>3. Counts'
  BY MirrorTyped, BoundsAreNat DEF Counts
<1> QED BY <1>1, <1>2, <1>3 DEF NothingLeft, EndedIsTerminal, Flags

\* A recovery that fails does not end the session for the hook, and a session
\* that is over it leaves so.
LEMMA FailKeeps ==
    ASSUME SessionIInv, NEW exhausted \in BOOLEAN, NEW h \in {"none", "joined", "denied"}, NEW n \in Nat,
           FailRecovery(exhausted, h, n), ~ended,
           status = "disconnected" => ~exhausted /\ h = heard /\ n = wire /\ sock' = sock,
           sock' \in {sock, "up", "dead"}, UNCHANGED <<member, bounds>>, providers' \in Nat
    PROVE  SessionIInv'
<1> USE DEF SessionIInv
<1>1. Mirror("failed", h, n) /\ "failed" \in ConnectionStates
  BY DEF FailRecovery, ConnectionStates
<1>2. /\ blipped' \in BOOLEAN /\ wire' \in Nat /\ state' = "failed"
      /\ phase' \in {"idle", "connection", "ack"} /\ heard' \in {"none", "joined", "denied"}
  BY <1>1, MirrorTyped
<1>3. wire' = n
  BY <1>1 DEF Mirror, Sends
<1>4. /\ ended' = ended /\ established' = FALSE /\ payload' = FALSE /\ attempted' = FALSE /\ rejoins' = 0
      /\ status' \in {status, "joined", "reconnecting", "error"}
  BY <1>1, OutcomeKinds DEF FailRecovery, ClearSession, Shows
<1>5. Flags' /\ Kinds'
  <2>1. Flags'
    BY <1>2, <1>4 DEF Flags
  <2> QED BY <1>1, <1>2, <1>4, <2>1 DEF Kinds
<1>6. Counts'
  BY <1>2, <1>4, BoundsAreNat DEF Counts, bounds
<1>7. NothingLeft' /\ EndedIsTerminal'
  BY <1>3, <1>4 DEF NothingLeft, EndedIsTerminal, bounds
<1> QED BY <1>5, <1>6, <1>7

\* join() and its timers.
LEMMA JoinsPreserve ==
    ASSUME SessionIInv, JoinCalled \/ JoinTimesOut
    PROVE  SessionIInv'
<1> USE DEF SessionIInv
<1>1. CASE JoinCalled
  <2>1. /\ ended' = FALSE /\ status' \in {"connecting", "error"} /\ payload' \in BOOLEAN
        /\ phase' \in {"idle", "connection", "ack"} /\ wire' \in Nat
    <3>1. \/ Connecting("connecting") /\ phase' = "ack" /\ JoinRoom(1)
          \/ Connecting("error") /\ UNCHANGED <<phase, wire, payload>>
          \/ Connecting("connecting") /\ phase' = "connection" /\ UNCHANGED <<wire, payload>>
      BY <1>1, Zenon DEF JoinCalled
    <3>2. ended' = FALSE /\ status' \in {"connecting", "error"}
      BY <3>1, Zenon DEF Connecting
    <3>3. payload' \in BOOLEAN
      BY <3>1, Zenon DEF JoinRoom, Flags
    <3>4. phase' \in {"idle", "connection", "ack"} /\ wire' \in Nat
      BY <3>1 DEF JoinRoom, Kinds, Counts
    <3> QED BY <3>2, <3>3, <3>4
  <2>2. /\ attempts' = attempts + 1 /\ attempts < MaxAttempts
        /\ sock' \in {sock, "down"} /\ state' \in {state, "connecting"}
        /\ UNCHANGED <<heard, blipped, established, attempted, rejoins, providers, member, drops>>
    BY <1>1 DEF JoinCalled, SocketOf, StateOf
  <2>3. Flags'
    BY <2>1, <2>2 DEF Flags
  <2>4. Kinds' /\ Counts'
    BY <2>1, <2>2, BoundsAreNat DEF Kinds, ConnectionStates, Counts
  <2> QED BY <2>1, <2>3, <2>4 DEF NothingLeft, EndedIsTerminal
<1>2. CASE JoinTimesOut
  <2>1. /\ phase # "idle" /\ phase' = "idle" /\ heard' = "none" /\ status' = "error" /\ ended' = ended
        /\ UNCHANGED <<blipped, state, sock, established, payload, attempted, rejoins, providers, wire, member,
                       attempts, drops>>
    BY <1>2 DEF JoinTimesOut, Shows, session, server, bounds
  <2>2. Flags'
    BY <2>1 DEF Flags
  <2> QED BY <2>1, <2>2 DEF Kinds, Counts, NothingLeft, EndedIsTerminal
<1> QED BY <1>1, <1>2

\* The signalling connection goes and comes.
LEMMA ConnectionPreserves ==
    ASSUME SessionIInv, Drop \/ Up \/ GiveUp \/ WindowSlides
    PROVE  SessionIInv'
<1> USE DEF SessionIInv
<1>1. CASE Drop
  <2> DEFINE cs == IF Recoverable THEN "reconnecting" ELSE "connecting"
  <2>1. cs \in ConnectionStates /\ heard \in {"none", "joined", "denied"} /\ 0 \in Nat
    BY DEF Kinds, ConnectionStates
  <2>2. /\ Mirror(cs, heard, 0) /\ ended' = ended /\ status' = Outcome(cs, heard)
        /\ sock = "up" /\ sock' = "down" /\ member' = FALSE /\ drops' = drops + 1 /\ drops < MaxDrops
        /\ UNCHANGED <<established, payload, attempted, rejoins, providers, attempts>>
    BY <1>1 DEF Drop, Notified, Shows, session
  <2> HIDE DEF cs
  <2>3. status' \in {status, "joined", "reconnecting", "error"}
    BY <2>1, <2>2, OutcomeKinds
  <2>4. status # "disconnected" /\ drops' \in 0 .. MaxDrops /\ providers' \in Nat
        /\ established' \in BOOLEAN /\ payload' \in BOOLEAN /\ attempted' \in BOOLEAN
    BY <2>2, BoundsAreNat DEF NothingLeft, Counts, Flags
  <2> QED BY <2>1, <2>2, <2>3, <2>4, LiveKeeps
<1>2. CASE Up
  <2>1. sock = "down" /\ sock' = "up" /\ status # "disconnected" /\ ~ended
        /\ UNCHANGED <<providers, member, bounds>>
    BY <1>2 DEF Up, NothingLeft, EndedIsTerminal, Flags
  <2>2. heard \in {"none", "joined", "denied"} /\ wire \in Nat /\ "connected" \in ConnectionStates
        /\ providers' \in Nat
    BY <2>1 DEF Kinds, Counts, ConnectionStates
  <2>3. CASE ~Recoverable
    <3>1. /\ Mirror("connected", heard, wire) /\ ended' = ended /\ status' = Outcome("connected", heard)
          /\ payload' = (payload \/ Sends("connected")) /\ UNCHANGED <<established, attempted, rejoins>>
      BY <1>2, <2>3, Zenon DEF Up, Notified, Shows
    <3>2. status' \in {status, "joined", "reconnecting", "error"}
      BY <2>2, <3>1, OutcomeKinds
    <3>3. established' \in BOOLEAN /\ payload' \in BOOLEAN /\ attempted' \in BOOLEAN
      BY <3>1, Zenon DEF Flags
    <3>4. member' \in BOOLEAN /\ attempts' = attempts /\ drops' \in 0 .. MaxDrops
      BY <2>1 DEF Flags, Counts, bounds
    <3> QED BY <2>1, <2>2, <3>1, <3>2, <3>3, <3>4, LiveKeeps
  <2>4. CASE Recoverable /\ MayRejoin
    <3>1. /\ rejoins' = rejoins + 1 /\ attempted' = FALSE /\ wire' = wire + 1 /\ rejoins < MaxRejoins
          /\ UNCHANGED <<status, ended, phase, heard, blipped, state, established, payload>>
      BY <1>2, <2>4 DEF Up, MayRejoin, hook
    <3>2. Flags'
      BY <2>1, <3>1 DEF Flags
    <3>3. Kinds' /\ Counts'
      BY <2>1, <3>1, BoundsAreNat DEF Kinds, Counts, bounds
    <3> QED BY <2>1, <3>1, <3>2, <3>3 DEF NothingLeft, EndedIsTerminal
  <2>5. CASE Recoverable /\ ~MayRejoin
    <3>1. FailRecovery(TRUE, heard, wire)
      BY <1>2, <2>5, Zenon DEF Up
    <3> QED BY <2>1, <2>2, <3>1, FailKeeps
  <2> QED BY <2>3, <2>4, <2>5
<1>3. CASE GiveUp
  <2>1. sock = "down" /\ sock' = "dead" /\ status # "disconnected" /\ ~ended
        /\ UNCHANGED <<providers, member, bounds>>
    BY <1>3 DEF GiveUp, NothingLeft, EndedIsTerminal, Flags
  <2>2. heard \in {"none", "joined", "denied"} /\ wire \in Nat /\ "failed" \in ConnectionStates
        /\ providers' \in Nat
    BY <2>1 DEF Kinds, Counts, ConnectionStates
  <2>3. CASE Recoverable
    <3>1. FailRecovery(TRUE, heard, wire)
      BY <1>3, <2>3, Zenon DEF GiveUp
    <3> QED BY <2>1, <2>2, <3>1, FailKeeps
  <2>4. CASE ~Recoverable
    <3>1. /\ Mirror("failed", heard, wire) /\ ended' = ended /\ status' = Outcome("failed", heard)
          /\ UNCHANGED <<established, payload, attempted, rejoins>>
      BY <1>3, <2>4, Zenon DEF GiveUp, Notified, Shows, session
    <3>2. status' \in {status, "joined", "reconnecting", "error"}
      BY <2>2, <3>1, OutcomeKinds
    <3>3. /\ established' \in BOOLEAN /\ payload' \in BOOLEAN /\ attempted' \in BOOLEAN
          /\ member' \in BOOLEAN /\ attempts' = attempts /\ drops' \in 0 .. MaxDrops
      BY <2>1, <3>1 DEF Flags, Counts, bounds
    <3> QED BY <2>1, <2>2, <3>1, <3>2, <3>3, LiveKeeps
  <2> QED BY <2>3, <2>4
<1>4. CASE WindowSlides
  <2>1. /\ rejoins > 0 /\ rejoins' = rejoins - 1
        /\ UNCHANGED <<status, ended, phase, heard, blipped, state, sock, established, payload, attempted, providers,
                       wire, member, attempts, drops>>
    BY <1>4 DEF WindowSlides, hook, server, bounds
  <2>2. Flags'
    BY <2>1 DEF Flags
  <2>3. Counts'
    BY <2>1, BoundsAreNat DEF Counts
  <2> QED BY <2>1, <2>2, <2>3 DEF Kinds, NothingLeft, EndedIsTerminal
<1> QED BY <1>1, <1>2, <1>3, <1>4

\* The answers of the server, which come over a socket that is up: the session
\* is not over.
LEMMA AnswersPreserve ==
    ASSUME SessionIInv, Answer
    PROVE  SessionIInv'
<1> USE DEF SessionIInv
<1>1. sock = "up" /\ wire > 0 /\ status # "disconnected" /\ ~ended /\ wire - 1 \in Nat
  <2>1. Answerable
    BY DEF Answer, Accepted, Unanswered, Denied
  <2> QED BY <2>1 DEF Answerable, NothingLeft, EndedIsTerminal, Flags, Counts
<1>2. CASE Accepted
  <2> DEFINE cs == IF established THEN "connected" ELSE state
             h == Hears("joined")
  <2>1. cs \in ConnectionStates /\ h \in {"none", "joined", "denied"}
    BY HearsTyped DEF Kinds, ConnectionStates
  <2>2. /\ Mirror(cs, h, wire - 1) /\ ended' = ended /\ status' = Outcome(cs, h)
        /\ member' = TRUE /\ established' = TRUE /\ payload' = (payload \/ Sends(cs))
        /\ UNCHANGED <<sock, attempted, rejoins, providers, bounds>>
    BY <1>2, Zenon DEF Accepted, Notified, Shows
  <2> HIDE DEF cs, h
  <2>3. status' \in {status, "joined", "reconnecting", "error"}
    BY <2>1, <2>2, OutcomeKinds
  <2>4. established' \in BOOLEAN /\ payload' \in BOOLEAN /\ attempted' \in BOOLEAN /\ member' \in BOOLEAN
    BY <2>2, Zenon DEF Flags
  <2>5. providers' \in Nat /\ attempts' = attempts /\ drops' \in 0 .. MaxDrops /\ sock' = "up"
        /\ rejoins' = rejoins
    BY <1>1, <2>2 DEF Counts, bounds
  <2> QED BY <1>1, <2>1, <2>2, <2>3, <2>4, <2>5, LiveKeeps
<1>3. CASE Unanswered
  <2>1. /\ wire' = wire - 1 /\ member' = TRUE
        /\ UNCHANGED <<status, ended, phase, heard, blipped, state, sock, established, payload, attempted,
                       rejoins, providers, attempts, drops>>
    BY <1>3 DEF Unanswered, hook, session, bounds
  <2>2. Flags'
    BY <2>1 DEF Flags
  <2>3. Counts'
    BY <1>1, <2>1 DEF Counts
  <2> QED BY <1>1, <2>1, <2>2, <2>3 DEF Kinds, NothingLeft, EndedIsTerminal
<1>4. \A told : Waiter(told) =>
          /\ status' \in {told, "error"} /\ ended' = ended
          /\ phase' \in {phase, "idle"} /\ heard' \in {"none", "joined", "denied"}
  <2>1. Hears("denied") \in {"none", "joined", "denied"} /\ heard \in {"none", "joined", "denied"}
    BY HearsTyped DEF Kinds
  <2> QED BY <2>1 DEF Waiter, Shows
<1>5. ASSUME Unnoticed, UNCHANGED <<sock, established, payload, rejoins, member, bounds>>,
             attempted' \in BOOLEAN, providers' \in Nat
      PROVE  SessionIInv'
  <2>1. /\ status' \in {status, "error"} /\ ended' = ended /\ wire' = wire - 1
        /\ phase' \in {phase, "idle"} /\ heard' \in {"none", "joined", "denied"} /\ UNCHANGED <<blipped, state>>
    BY <1>4, <1>5 DEF Unnoticed
  <2>2. Flags' /\ Kinds'
    BY <1>5, <2>1 DEF Flags, Kinds
  <2>3. Counts'
    BY <1>1, <1>5, <2>1 DEF Counts, bounds
  <2> QED BY <1>1, <2>1, <2>2, <2>3 DEF NothingLeft, EndedIsTerminal
<1>6. ASSUME RecoveryDenied, UNCHANGED <<sock, member, bounds>> PROVE SessionIInv'
  <2>1. FailRecovery(FALSE, Hears("denied"), wire - 1) /\ providers' \in Nat
    BY <1>6 DEF RecoveryDenied, Counts
  <2>2. Hears("denied") \in {"none", "joined", "denied"}
    BY HearsTyped
  <2> QED BY <1>1, <1>6, <2>1, <2>2, FailKeeps
<1>7. ASSUME NEW code \in JoinErrors, Denied(code) PROVE SessionIInv'
  <2>1. CASE ~Recoverable
    <3>1. Unnoticed /\ UNCHANGED <<sock, established, payload, attempted, rejoins, providers, member, bounds>>
      BY <1>7, <2>1 DEF Denied, session
    <3> QED BY <1>5, <3>1 DEF Flags, Counts
  <2>2. CASE Recoverable /\ code = "KICKED_FROM_ROOM"
    <3>1. Kicked /\ Waiter(KickShown)
      BY <1>7, <2>2, Zenon DEF Denied
    <3> QED BY <1>1, <1>4, <3>1, EndsPreserve DEF KickShown
  <2>3. CASE Recoverable /\ code # "KICKED_FROM_ROOM"
    <3>1. UNCHANGED <<sock, member, bounds>>
          /\ \/ RecoveryDenied
             \/ /\ attempted' = TRUE /\ providers' = providers + 1
                /\ Unnoticed /\ UNCHANGED <<established, payload, rejoins>>
      BY <1>7, <2>3, Zenon DEF Denied, ExpiredAgain
    <3>2. CASE RecoveryDenied
      BY <1>6, <3>1, <3>2
    <3>3. CASE /\ attempted' = TRUE /\ providers' = providers + 1
               /\ Unnoticed /\ UNCHANGED <<established, payload, rejoins>>
      <4>1. attempted' \in BOOLEAN /\ providers' \in Nat
        BY <3>3 DEF Counts
      <4> QED BY <1>5, <3>1, <3>3, <4>1
    <3> QED BY <3>1, <3>2, <3>3
  <2> QED BY <2>1, <2>2, <2>3
<1> QED BY <1>2, <1>3, <1>7 DEF Answer

\* A provider that answers, or fails, late.
LEMMA ProvidersPreserve ==
    ASSUME SessionIInv, Settle
    PROVE  SessionIInv'
<1> USE DEF SessionIInv
<1>1. CASE ProviderAnswers
  <2>1. /\ providers > 0 /\ providers' = providers - 1 /\ wire' = IF payload THEN wire + 1 ELSE wire
        /\ UNCHANGED <<status, ended, phase, heard, blipped, state, sock, established, payload, attempted, rejoins,
                       member, attempts, drops>>
    BY <1>1 DEF ProviderAnswers, hook, session, bounds
  <2>2. Flags'
    BY <2>1 DEF Flags
  <2>3. Counts'
    BY <2>1 DEF Counts
  <2> QED BY <2>1, <2>2, <2>3 DEF Kinds, NothingLeft, EndedIsTerminal
<1>2. CASE ProviderFails
  <2>1. /\ providers > 0 /\ providers' = providers - 1 /\ FailRecovery(FALSE, heard, wire)
        /\ UNCHANGED <<sock, member, bounds>>
    BY <1>2 DEF ProviderFails
  <2>2. providers' \in Nat /\ ~ended /\ heard \in {"none", "joined", "denied"} /\ wire \in Nat
    BY <2>1 DEF Counts, EndedIsTerminal, Kinds, Flags
  <2> QED BY <2>1, <2>2, FailKeeps
<1> QED BY <1>1, <1>2 DEF Settle

LEMMA SessionStepPreserves == SessionIInv /\ [SessionNext]_sessionVars => SessionIInv'
<1> SUFFICES ASSUME SessionIInv, [SessionNext]_sessionVars PROVE SessionIInv'
  OBVIOUS
<1>1. CASE SessionNext
  <2>1. CASE ServerKicks
    <3>1. /\ Kicked /\ sock = "up" /\ ended' = ended /\ status' \in {"disconnected", "reconnecting", "error"}
          /\ phase' \in {phase, "idle"} /\ heard' \in {"none", "joined", "denied"}
      BY <2>1 DEF ServerKicks, Shows, KickShown, SessionIInv, Kinds
    <3> QED BY <3>1, EndsPreserve
  <2> QED BY <1>1, <2>1, EndsPreserve, JoinsPreserve, ConnectionPreserves, AnswersPreserve, ProvidersPreserve,
             Zenon DEF SessionNext
<1>2. CASE UNCHANGED sessionVars
  BY <1>2 DEF sessionVars, hook, session, server, bounds, SessionIInv, Flags, Kinds, Counts, NothingLeft,
              EndedIsTerminal
<1> QED BY <1>1, <1>2

\* When a session is over nothing is left that could bring it back, whatever
\* drops, denials, kicks, providers and joins came before, in whatever order.
THEOREM OverIsAlwaysOver == SessionSpec => []OverIsOver
<1>1. SessionIInv => OverIsOver
  BY DEF SessionIInv, Flags, Kinds, Counts, NothingLeft, EndedIsTerminal, OverIsOver, SessionTypeOK
<1> QED BY <1>1, SessionInitEstablishes, SessionStepPreserves, PTL DEF SessionSpec

-----------------------------------------------------------------------------
(***************************************************************************)
(* No switch of a layer is missed: whatever changes what is wanted of a    *)
(* camera schedules it, for a camera that was asked for has a level, and   *)
(* who has a level is known; and an engine that is not bound has asked for *)
(* nothing.                                                                *)
(***************************************************************************)

\* Every variable has its type.
EngineTyped ==
    /\ bound \in BOOLEAN /\ suspended \in BOOLEAN
    /\ timer \in [Watched -> Unset .. Debounce]
    /\ stats \in [Watched -> QualityLevels \cup {NoLevel}]
    /\ emitted \in [Watched -> SpatialLayers \cup {Unset}]
    /\ known \subseteq Watched /\ unseen \subseteq Watched

SceneTyped ==
    /\ concealed \in BOOLEAN /\ collecting \in BOOLEAN
    /\ pollIn \in Unset .. Interval
    /\ layer \in [Watched -> SpatialLayers]
    /\ offscreen \subseteq Watched /\ here \subseteq Watched /\ camera \subseteq here
    /\ reading \in [Watched -> Readings] /\ moves \in 0 .. MaxMoves

\* A switch is due, or has been made, for those who have a level; they are
\* known.
SwitchesHaveLevels ==
    \A u \in Watched : /\ timer[u] # Unset \/ emitted[u] # Unset => stats[u] # NoLevel
                       /\ stats[u] # NoLevel => u \in known

UnboundAsksNothing == ~bound => \A u \in Watched : timer[u] = Unset /\ emitted[u] = Unset

SwitchIsDue == \A u \in Watched : timer[u] = Unset /\ emitted[u] # Unset => emitted[u] = Wanted(u)

QualityIInv == EngineTyped /\ SceneTyped /\ SwitchesHaveLevels /\ UnboundAsksNothing /\ SwitchIsDue

-----------------------------------------------------------------------------

LEMMA LayerOfLevel ==
    ASSUME NEW v \in QualityLevels
    PROVE  LayerOf(v) \in SpatialLayers
<1>1. LayerOf("excellent") = 2 /\ LayerOf("good") = 2 /\ LayerOf("fair") = 1 /\ LayerOf("poor") = 0
  BY DEF LayerOf
<1> QED BY <1>1 DEF QualityLevels, SpatialLayers

LEMMA EffectiveIsLayer ==
    ASSUME NEW u, NEW st, NEW out, NEW susp, st[u] \in QualityLevels
    PROVE  Effective(u, st, out, susp) \in SpatialLayers
<1>1. LayerOf(st[u]) \in SpatialLayers /\ 0 \in SpatialLayers
  BY LayerOfLevel DEF SpatialLayers
<1> QED BY <1>1 DEF Effective

\* NoLevel is no level, and Unset is no layer.
LEMMA NoneIsNone == NoLevel \notin QualityLevels /\ Unset \notin SpatialLayers /\ Debounce \in Nat /\ Debounce # 0
                    /\ Interval \in Nat /\ Interval # 0 /\ Unset = -1 /\ MaxMoves \in Nat
                    /\ Unset \in Unset .. Debounce /\ Unset \in Unset .. Interval /\ 2 \in SpatialLayers /\ 0 \in 0 .. MaxMoves
BY TimesArePositive DEF NoLevel, QualityLevels, Unset, SpatialLayers

\* The timers after some are scheduled.
LEMMA ScheduledTimers ==
    ASSUME NEW S, NEW st, NEW out, NEW susp, NEW em, NEW tm \in [Watched -> Unset .. Debounce]
    PROVE  /\ Scheduled(S, st, out, susp, em, tm) \in [Watched -> Unset .. Debounce]
           /\ \A u \in Watched :
                 \/ /\ Scheduled(S, st, out, susp, em, tm)[u] = Debounce
                    /\ st[u] # NoLevel
                 \/ /\ Scheduled(S, st, out, susp, em, tm)[u] = tm[u]
                    /\ bound /\ u \in S /\ st[u] # NoLevel => em[u] = Effective(u, st, out, susp)
           /\ ~bound => \A u \in Watched : Scheduled(S, st, out, susp, em, tm)[u] = tm[u]
<1>1. Debounce \in Unset .. Debounce
  BY NoneIsNone
<1> QED BY <1>1 DEF Scheduled, Differs

\* A report, by what it is about.
Reports(S) ==
    /\ UNCHANGED <<bound, suspended, unseen, pollIn, scene, concealed>> /\ collecting' = FALSE
    /\ \/ UNCHANGED <<stats, emitted, known, timer>>
       \/ /\ bound /\ S \subseteq Watched /\ EngineTyped' /\ known' = known \cup S
          /\ \A u \in Watched :
                /\ u \in S => /\ stats'[u] # NoLevel /\ emitted'[u] = emitted[u]
                              /\ \/ timer'[u] # Unset
                                 \/ emitted'[u] = Effective(u, stats', unseen, suspended)
                /\ u \notin S => stats'[u] = NoLevel /\ emitted'[u] = Unset /\ timer'[u] = Unset

LEMMA ReportEffect ==
    ASSUME EngineTyped, SceneTyped, NEW S \in SUBSET here, Report(S)
    PROVE  Reports(S)
<1>0. S \subseteq Watched /\ NoLevel \notin QualityLevels /\ Debounce # Unset
  BY NoneIsNone DEF SceneTyped
<1>1. CASE bound /\ S # {}
  <2> DEFINE st == SetStats(S)
             em == ClearMissing(S, emitted, Unset)
             tm == ClearMissing(S, timer, Unset)
  <2>1. /\ stats' = st /\ emitted' = em /\ known' = known \cup S
        /\ timer' = Scheduled(S, st, unseen, suspended, em, tm)
    BY <1>1 DEF Report
  <2>2. /\ st \in [Watched -> QualityLevels \cup {NoLevel}]
        /\ \A u \in Watched : IF u \in S THEN st[u] # NoLevel ELSE st[u] = NoLevel
    <3>1. \A k : LevelOf(k) \in QualityLevels
      BY DEF LevelOf, QualityLevels
    <3> QED BY <1>0, <3>1 DEF SetStats
  <2>3. /\ em \in [Watched -> SpatialLayers \cup {Unset}]
        /\ \A u \in Watched : em[u] = IF u \in S THEN emitted[u] ELSE Unset
    BY DEF ClearMissing, EngineTyped
  <2>4. /\ tm \in [Watched -> Unset .. Debounce]
        /\ \A u \in Watched : u \notin S => tm[u] = Unset
    <3>1. Unset \in Unset .. Debounce
      BY NoneIsNone
    <3> QED BY <3>1 DEF ClearMissing, EngineTyped
  <2> HIDE DEF st, em, tm
  <2>5. /\ timer' \in [Watched -> Unset .. Debounce]
        /\ \A u \in Watched :
              \/ timer'[u] = Debounce /\ st[u] # NoLevel
              \/ timer'[u] = tm[u] /\ (u \in S /\ st[u] # NoLevel => em[u] = Effective(u, st, unseen, suspended))
    BY <1>1, <2>1, <2>4, ScheduledTimers
  <2>6. EngineTyped'
    BY <1>0, <2>1, <2>2, <2>3, <2>5 DEF EngineTyped, Report
  <2> QED BY <1>0, <1>1, <2>1, <2>2, <2>3, <2>4, <2>5, <2>6 DEF Report, Reports
<1>2. CASE ~(bound /\ S # {})
  BY <1>2 DEF Report, Reports
<1> QED BY <1>1, <1>2

LEMMA DeliverEffect ==
    ASSUME EngineTyped, SceneTyped, Deliver \/ DeliverPartly
    PROVE  (\E S \in SUBSET here : Reports(S)) /\ (UNCHANGED moves \/ (moves < MaxMoves /\ moves' = moves + 1))
<1>1. CASE Deliver
  <2>1. here \in SUBSET here /\ Report(here)
    BY <1>1 DEF Deliver
  <2>2. Reports(here)
    BY <2>1, ReportEffect
  <2>3. UNCHANGED moves
    BY <1>1 DEF Deliver
  <2>4. \E S \in SUBSET here : Reports(S)
    BY <2>1, <2>2
  <2> QED BY <2>3, <2>4
<1>2. CASE DeliverPartly
  <2>1. PICK S \in SUBSET here : Report(S)
    BY <1>2 DEF DeliverPartly
  <2>2. Reports(S)
    BY <2>1, ReportEffect
  <2>3. moves < MaxMoves /\ moves' = moves + 1
    BY <1>2 DEF DeliverPartly, Move
  <2> QED BY <2>2, <2>3
<1> QED BY <1>1, <1>2

LEMMA EngineTypedStep ==
    ASSUME QualityIInv, QualityNext
    PROVE  EngineTyped'
<1> USE DEF QualityIInv, engine, collector, scene, EngineTyped
<1>a. /\ NoLevel \notin QualityLevels /\ Unset \notin SpatialLayers /\ Debounce \in Nat /\ Debounce # 0
      /\ Interval \in Nat /\ Interval # 0 /\ Unset = -1 /\ MaxMoves \in Nat
      /\ Unset \in Unset .. Debounce /\ Unset \in Unset .. Interval /\ 2 \in SpatialLayers
  BY NoneIsNone
<1>1. ASSUME Tick PROVE EngineTyped'
  BY <1>a, <1>1 DEF Tick
<1>2. ASSUME Collect PROVE EngineTyped'
  BY <1>a, <1>2 DEF Collect
<1>3. ASSUME Deliver PROVE EngineTyped'
  BY <1>a, <1>3, DeliverEffect DEF Reports, scene
<1>4. ASSUME DeliverPartly PROVE EngineTyped'
  BY <1>a, <1>4, DeliverEffect DEF Reports, scene
<1>5. ASSUME Bind PROVE EngineTyped'
  BY <1>a, <1>5 DEF Bind, StartsPolling
<1>6. ASSUME Unbind PROVE EngineTyped'
  BY <1>a, <1>6 DEF Unbind, Move, Forgets
<1>7. ASSUME NEW b \in BOOLEAN, Conceal(b) PROVE EngineTyped'
  BY <1>a, <1>7, ScheduledTimers DEF Conceal, Move, StartsPolling
<1>8. ASSUME NEW u \in Watched, Fire(u) PROVE EngineTyped'
  BY <1>a, <1>8, EffectiveIsLayer DEF Fire, Wanted, SwitchesHaveLevels, HasCamera, Forwarded
<1>9. ASSUME NEW u \in Watched, Scroll(u) PROVE EngineTyped'
  BY <1>a, <1>9, ScheduledTimers DEF Scroll, Move, Flipped
<1>10. ASSUME NEW u \in Watched, Leave(u) PROVE EngineTyped'
  BY <1>a, <1>10 DEF Leave, Move
<1>11. ASSUME NEW u \in Watched, Enter(u) PROVE EngineTyped'
  BY <1>a, <1>11 DEF Enter, Move
<1>12. ASSUME NEW u \in Watched, Camera(u) PROVE EngineTyped'
  BY <1>a, <1>12 DEF Camera, Move
<1>13. ASSUME NEW u \in Watched, NEW l \in SpatialLayers, Choose(u, l) PROVE EngineTyped'
  BY <1>a, <1>13 DEF Choose, Move, Forwarded
<1>14. ASSUME NEW u \in Watched, NEW r \in Readings, Measure(u, r) PROVE EngineTyped'
  BY <1>a, <1>14 DEF Measure, Move
<1> QED BY <1>a, <1>1, <1>2, <1>3, <1>4, <1>5, <1>6, <1>7, <1>8, <1>9, <1>10, <1>11, <1>12,
           <1>13, <1>14 DEF QualityNext

LEMMA SceneTypedStep ==
    ASSUME QualityIInv, QualityNext
    PROVE  SceneTyped'
<1> USE DEF QualityIInv, engine, collector, scene, SceneTyped
<1>a. /\ NoLevel \notin QualityLevels /\ Unset \notin SpatialLayers /\ Debounce \in Nat /\ Debounce # 0
      /\ Interval \in Nat /\ Interval # 0 /\ Unset = -1 /\ MaxMoves \in Nat
      /\ Unset \in Unset .. Debounce /\ Unset \in Unset .. Interval /\ 2 \in SpatialLayers
  BY NoneIsNone
<1>1. ASSUME Tick PROVE SceneTyped'
  BY <1>a, <1>1 DEF Tick
<1>2. ASSUME Collect PROVE SceneTyped'
  BY <1>a, <1>2 DEF Collect
<1>3. ASSUME Deliver PROVE SceneTyped'
  <2>1. /\ UNCHANGED <<scene, concealed, pollIn>> /\ collecting' = FALSE
        /\ UNCHANGED moves \/ (moves < MaxMoves /\ moves' = moves + 1)
    BY <1>3, DeliverEffect DEF Reports
  <2>2. moves' \in 0 .. MaxMoves
    BY <1>a, <2>1
  <2> QED BY <2>1, <2>2
<1>4. ASSUME DeliverPartly PROVE SceneTyped'
  <2>1. /\ UNCHANGED <<scene, concealed, pollIn>> /\ collecting' = FALSE
        /\ UNCHANGED moves \/ (moves < MaxMoves /\ moves' = moves + 1)
    BY <1>4, DeliverEffect DEF Reports
  <2>2. moves' \in 0 .. MaxMoves
    BY <1>a, <2>1
  <2> QED BY <2>1, <2>2
<1>5. ASSUME Bind PROVE SceneTyped'
  BY <1>a, <1>5 DEF Bind, StartsPolling
<1>6. ASSUME Unbind PROVE SceneTyped'
  BY <1>a, <1>6 DEF Unbind, Move, Forgets
<1>7. ASSUME NEW b \in BOOLEAN, Conceal(b) PROVE SceneTyped'
  BY <1>a, <1>7 DEF Conceal, Move, StartsPolling
<1>8. ASSUME NEW u \in Watched, Fire(u) PROVE SceneTyped'
  BY <1>a, <1>8, EffectiveIsLayer DEF Fire, Wanted, SwitchesHaveLevels, EngineTyped, HasCamera,
     Forwarded
<1>9. ASSUME NEW u \in Watched, Scroll(u) PROVE SceneTyped'
  BY <1>a, <1>9 DEF Scroll, Move, Flipped
<1>10. ASSUME NEW u \in Watched, Leave(u) PROVE SceneTyped'
  BY <1>a, <1>10 DEF Leave, Move
<1>11. ASSUME NEW u \in Watched, Enter(u) PROVE SceneTyped'
  BY <1>a, <1>11 DEF Enter, Move
<1>12. ASSUME NEW u \in Watched, Camera(u) PROVE SceneTyped'
  BY <1>a, <1>12 DEF Camera, Move
<1>13. ASSUME NEW u \in Watched, NEW l \in SpatialLayers, Choose(u, l) PROVE SceneTyped'
  BY <1>a, <1>13 DEF Choose, Move, Forwarded
<1>14. ASSUME NEW u \in Watched, NEW r \in Readings, Measure(u, r) PROVE SceneTyped'
  BY <1>a, <1>14 DEF Measure, Move
<1> QED BY <1>a, <1>1, <1>2, <1>3, <1>4, <1>5, <1>6, <1>7, <1>8, <1>9, <1>10, <1>11, <1>12,
           <1>13, <1>14 DEF QualityNext

LEMMA SwitchesHaveLevelsStep ==
    ASSUME QualityIInv, QualityNext
    PROVE  SwitchesHaveLevels'
<1> USE DEF QualityIInv, engine, collector, scene, EngineTyped, SwitchesHaveLevels,
       UnboundAsksNothing
<1>a. /\ NoLevel \notin QualityLevels /\ Unset \notin SpatialLayers /\ Debounce \in Nat /\ Debounce # 0
      /\ Interval \in Nat /\ Interval # 0 /\ Unset = -1 /\ MaxMoves \in Nat
      /\ Unset \in Unset .. Debounce /\ Unset \in Unset .. Interval /\ 2 \in SpatialLayers
  BY NoneIsNone
<1>1. ASSUME Tick PROVE SwitchesHaveLevels'
  BY <1>a, <1>1 DEF Tick
<1>2. ASSUME Collect PROVE SwitchesHaveLevels'
  BY <1>a, <1>2 DEF Collect
<1>3. ASSUME Deliver PROVE SwitchesHaveLevels'
  BY <1>a, <1>3, DeliverEffect DEF Reports, scene
<1>4. ASSUME DeliverPartly PROVE SwitchesHaveLevels'
  BY <1>a, <1>4, DeliverEffect DEF Reports, scene
<1>5. ASSUME Bind PROVE SwitchesHaveLevels'
  BY <1>a, <1>5 DEF Bind, StartsPolling
<1>6. ASSUME Unbind PROVE SwitchesHaveLevels'
  BY <1>a, <1>6 DEF Unbind, Move, Forgets
<1>7. ASSUME NEW b \in BOOLEAN, Conceal(b) PROVE SwitchesHaveLevels'
  BY <1>a, <1>7, ScheduledTimers DEF Conceal, Move, StartsPolling
<1>8. ASSUME NEW u \in Watched, Fire(u) PROVE SwitchesHaveLevels'
  BY <1>a, <1>8 DEF Fire, HasCamera, Forwarded
<1>9. ASSUME NEW u \in Watched, Scroll(u) PROVE SwitchesHaveLevels'
  BY <1>a, <1>9, ScheduledTimers DEF Scroll, Move, Flipped
<1>10. ASSUME NEW u \in Watched, Leave(u) PROVE SwitchesHaveLevels'
  BY <1>a, <1>10 DEF Leave, Move
<1>11. ASSUME NEW u \in Watched, Enter(u) PROVE SwitchesHaveLevels'
  BY <1>a, <1>11 DEF Enter, Move
<1>12. ASSUME NEW u \in Watched, Camera(u) PROVE SwitchesHaveLevels'
  BY <1>a, <1>12 DEF Camera, Move
<1>13. ASSUME NEW u \in Watched, NEW l \in SpatialLayers, Choose(u, l) PROVE SwitchesHaveLevels'
  BY <1>a, <1>13 DEF Choose, Move, Forwarded
<1>14. ASSUME NEW u \in Watched, NEW r \in Readings, Measure(u, r) PROVE SwitchesHaveLevels'
  BY <1>a, <1>14 DEF Measure, Move
<1> QED BY <1>a, <1>1, <1>2, <1>3, <1>4, <1>5, <1>6, <1>7, <1>8, <1>9, <1>10, <1>11, <1>12,
           <1>13, <1>14 DEF QualityNext

LEMMA UnboundAsksNothingStep ==
    ASSUME QualityIInv, QualityNext
    PROVE  UnboundAsksNothing'
<1> USE DEF QualityIInv, engine, collector, scene, EngineTyped, UnboundAsksNothing
<1>a. /\ NoLevel \notin QualityLevels /\ Unset \notin SpatialLayers /\ Debounce \in Nat /\ Debounce # 0
      /\ Interval \in Nat /\ Interval # 0 /\ Unset = -1 /\ MaxMoves \in Nat
      /\ Unset \in Unset .. Debounce /\ Unset \in Unset .. Interval /\ 2 \in SpatialLayers
  BY NoneIsNone
<1>1. ASSUME Tick PROVE UnboundAsksNothing'
  BY <1>a, <1>1 DEF Tick
<1>2. ASSUME Collect PROVE UnboundAsksNothing'
  BY <1>a, <1>2 DEF Collect
<1>3. ASSUME Deliver PROVE UnboundAsksNothing'
  BY <1>a, <1>3, DeliverEffect DEF Reports, scene
<1>4. ASSUME DeliverPartly PROVE UnboundAsksNothing'
  BY <1>a, <1>4, DeliverEffect DEF Reports, scene
<1>5. ASSUME Bind PROVE UnboundAsksNothing'
  BY <1>a, <1>5 DEF Bind, StartsPolling
<1>6. ASSUME Unbind PROVE UnboundAsksNothing'
  BY <1>a, <1>6 DEF Unbind, Move, Forgets
<1>7. ASSUME NEW b \in BOOLEAN, Conceal(b) PROVE UnboundAsksNothing'
  BY <1>a, <1>7, ScheduledTimers DEF Conceal, Move, StartsPolling
<1>8. ASSUME NEW u \in Watched, Fire(u) PROVE UnboundAsksNothing'
  BY <1>a, <1>8 DEF Fire, HasCamera, Forwarded
<1>9. ASSUME NEW u \in Watched, Scroll(u) PROVE UnboundAsksNothing'
  BY <1>a, <1>9, ScheduledTimers DEF Scroll, Move, Flipped
<1>10. ASSUME NEW u \in Watched, Leave(u) PROVE UnboundAsksNothing'
  BY <1>a, <1>10 DEF Leave, Move
<1>11. ASSUME NEW u \in Watched, Enter(u) PROVE UnboundAsksNothing'
  BY <1>a, <1>11 DEF Enter, Move
<1>12. ASSUME NEW u \in Watched, Camera(u) PROVE UnboundAsksNothing'
  BY <1>a, <1>12 DEF Camera, Move
<1>13. ASSUME NEW u \in Watched, NEW l \in SpatialLayers, Choose(u, l) PROVE UnboundAsksNothing'
  BY <1>a, <1>13 DEF Choose, Move, Forwarded
<1>14. ASSUME NEW u \in Watched, NEW r \in Readings, Measure(u, r) PROVE UnboundAsksNothing'
  BY <1>a, <1>14 DEF Measure, Move
<1> QED BY <1>a, <1>1, <1>2, <1>3, <1>4, <1>5, <1>6, <1>7, <1>8, <1>9, <1>10, <1>11, <1>12,
           <1>13, <1>14 DEF QualityNext

LEMMA SwitchIsDueStep ==
    ASSUME QualityIInv, QualityNext
    PROVE  SwitchIsDue'
<1> USE DEF QualityIInv, engine, collector, scene, EngineTyped, SwitchesHaveLevels,
       UnboundAsksNothing, SwitchIsDue, Wanted
<1>a. /\ NoLevel \notin QualityLevels /\ Unset \notin SpatialLayers /\ Debounce \in Nat /\ Debounce # 0
      /\ Interval \in Nat /\ Interval # 0 /\ Unset = -1 /\ MaxMoves \in Nat
      /\ Unset \in Unset .. Debounce /\ Unset \in Unset .. Interval /\ 2 \in SpatialLayers
  BY NoneIsNone
<1>1. ASSUME Tick PROVE SwitchIsDue'
  BY <1>a, <1>1 DEF Tick
<1>2. ASSUME Collect PROVE SwitchIsDue'
  BY <1>a, <1>2 DEF Collect
<1>3. ASSUME Deliver PROVE SwitchIsDue'
  BY <1>a, <1>3, DeliverEffect DEF Reports, scene
<1>4. ASSUME DeliverPartly PROVE SwitchIsDue'
  BY <1>a, <1>4, DeliverEffect DEF Reports, scene
<1>5. ASSUME Bind PROVE SwitchIsDue'
  BY <1>a, <1>5 DEF Bind, StartsPolling
<1>6. ASSUME Unbind PROVE SwitchIsDue'
  BY <1>a, <1>6 DEF Unbind, Move, Forgets
<1>7. ASSUME NEW b \in BOOLEAN, Conceal(b) PROVE SwitchIsDue'
  BY <1>a, <1>7, ScheduledTimers DEF Conceal, Move, StartsPolling
<1>8. ASSUME NEW u \in Watched, Fire(u) PROVE SwitchIsDue'
  BY <1>a, <1>8 DEF Fire, HasCamera, Forwarded
<1>9. ASSUME NEW u \in Watched, Scroll(u) PROVE SwitchIsDue'
  BY <1>a, <1>9, ScheduledTimers DEF Effective, Scroll, Move, Flipped
<1>10. ASSUME NEW u \in Watched, Leave(u) PROVE SwitchIsDue'
  BY <1>a, <1>10 DEF Effective, Leave, Move
<1>11. ASSUME NEW u \in Watched, Enter(u) PROVE SwitchIsDue'
  BY <1>a, <1>11 DEF Enter, Move
<1>12. ASSUME NEW u \in Watched, Camera(u) PROVE SwitchIsDue'
  BY <1>a, <1>12 DEF Camera, Move
<1>13. ASSUME NEW u \in Watched, NEW l \in SpatialLayers, Choose(u, l) PROVE SwitchIsDue'
  BY <1>a, <1>13 DEF Choose, Move, Forwarded
<1>14. ASSUME NEW u \in Watched, NEW r \in Readings, Measure(u, r) PROVE SwitchIsDue'
  BY <1>a, <1>14 DEF Measure, Move
<1> QED BY <1>a, <1>1, <1>2, <1>3, <1>4, <1>5, <1>6, <1>7, <1>8, <1>9, <1>10, <1>11, <1>12,
           <1>13, <1>14 DEF QualityNext

LEMMA QualityInitially == QualityInit => QualityIInv
<1> SUFFICES ASSUME QualityInit PROVE QualityIInv
  OBVIOUS
<1>1. EngineTyped
  BY NoneIsNone DEF QualityInit, EngineTyped
<1>2. SceneTyped
  BY NoneIsNone DEF QualityInit, SceneTyped, SpatialLayers
<1>3. SwitchesHaveLevels /\ UnboundAsksNothing /\ SwitchIsDue
  BY DEF QualityInit, SwitchesHaveLevels, UnboundAsksNothing, SwitchIsDue
<1> QED BY <1>1, <1>2, <1>3 DEF QualityIInv

LEMMA QualityInductive == QualityIInv /\ [QualityNext]_qualityVars => QualityIInv'
<1>1. ASSUME QualityIInv, QualityNext PROVE QualityIInv'
  BY <1>1, EngineTypedStep, SceneTypedStep, SwitchesHaveLevelsStep, UnboundAsksNothingStep,
     SwitchIsDueStep DEF QualityIInv
<1>2. ASSUME QualityIInv, UNCHANGED qualityVars PROVE QualityIInv'
  BY <1>2 DEF QualityIInv, EngineTyped, SceneTyped, SwitchesHaveLevels, UnboundAsksNothing,
     SwitchIsDue, Wanted, qualityVars, engine, collector, scene
<1> QED BY <1>1, <1>2

LEMMA QualityImplied == QualityIInv => NoSwitchIsMissed
BY DEF QualityIInv, EngineTyped, SceneTyped, SwitchesHaveLevels, SwitchIsDue, NoSwitchIsMissed,
   QualityTypeOK

\* Either a switch is due or what was last asked for is what is wanted.
THEOREM SwitchesAreNeverMissed == QualitySpec => []NoSwitchIsMissed
<1>1. QualitySpec => []QualityIInv
  BY QualityInitially, QualityInductive, PTL DEF QualitySpec
<1> QED BY <1>1, QualityImplied, PTL

-----------------------------------------------------------------------------
(***************************************************************************)
(* Whoever's track the effect has placed plays that track, at the volume   *)
(* and on the device that were chosen: a track is placed with what is      *)
(* chosen at that moment, and every later choice reaches who is placed.    *)
(***************************************************************************)

Tracks == 0 .. MaxTracks
Detectors == [who : People \cup {Absent}, since : 0 .. Hold + 1, level : Levels,
              silence : Absent .. Hold + 1]

\* Every variable has its type.
VoicesTyped ==
    /\ voice \in [People -> Levels] /\ last \in [People -> Tracks]
    /\ audio \in [Users -> Tracks] /\ mic \in Tracks /\ preview \in Tracks \cup {Absent}
    /\ deeds \in 0 .. MaxDeeds

ActivityTyped ==
    /\ readers \in 0 .. 2 /\ entries \in [People -> Tracks]
    /\ detector \in Detectors
    /\ speaking \in People \cup {Absent}

PlayoutTyped ==
    /\ shown \in [Users -> Tracks] /\ placed \in [Users -> Tracks]
    /\ peers \in [Users -> [track : Tracks, gain : {0, 1}, sink : {Absent, 1, 2}]]
    /\ volumes \in [Users -> {Absent, 0, 1}] /\ sink \in {Absent, 1, 2} /\ attached \in BOOLEAN

\* A track that is placed plays as chosen, whatever is shown meanwhile.
PlacedPlays ==
    \A u \in Users : placed[u] # 0 => peers[u] = [track |-> placed[u], gain |-> Chosen(u), sink |-> sink]

SpeakersIInv == VoicesTyped /\ ActivityTyped /\ PlayoutTyped /\ PlacedPlays

-----------------------------------------------------------------------------

\* Nobody, and nothing heard, are of their types.
LEMMA NobodyTyped ==
    Nobody \in Detectors /\ Silent \in [People -> Tracks] /\ Nobody.who = Absent
<1>1. 0 \in 0 .. Hold + 1 /\ Absent \in Absent .. Hold + 1 /\ 0 \in Levels /\ 0 \in Tracks
  BY HoldIsNat, LevelsAreNat DEF Absent, Tracks
<1> QED BY <1>1 DEF Nobody, Silent, Detectors

\* What is detected is of its type, whoever is heard.
LEMMA DetectorTyped ==
    ASSUME NEW d \in Detectors
    PROVE  /\ Aged(d) \in Detectors /\ Quiet(d) \in Detectors
           /\ \A p \in People, l \in Levels : Loudest(d, p, l) \in Detectors
<1>0. /\ d.who \in People \cup {Absent} /\ d.since \in 0 .. Hold + 1 /\ d.level \in Levels
      /\ d.silence \in Absent .. Hold + 1
  BY DEF Detectors
<1>1. 0 \in 0 .. Hold + 1 /\ Absent \in Absent .. Hold + 1 /\ 0 \in Absent .. Hold + 1 /\ Absent = -1
      /\ Hold \in Nat
  BY HoldIsNat DEF Absent
<1>2. Aged(d) \in Detectors
  <2>1. Older(d.since) \in 0 .. Hold + 1
    BY <1>0, <1>1 DEF Older
  <2>2. Older(d.silence) \in Absent .. Hold + 1
    BY <1>0, <1>1 DEF Older
  <2> QED BY <2>1, <2>2 DEF Aged, Detectors
<1>3. Quiet(d) \in Detectors
  BY <1>1, NobodyTyped DEF Quiet, Detectors
<1>4. ASSUME NEW p \in People, NEW l \in Levels PROVE Loudest(d, p, l) \in Detectors
  <2>1. Named(p, l) \in Detectors
    BY <1>1 DEF Named, Detectors
  <2>2. [d EXCEPT !.level = l, !.silence = Absent] \in Detectors
    BY <1>1 DEF Detectors
  <2> HIDE DEF Detectors
  <2> QED BY <2>1, <2>2 DEF Loudest
<1> QED BY <1>2, <1>3, <1>4

LEMMA VoicesTypedStep ==
    ASSUME SpeakersIInv, AudioNext
    PROVE  VoicesTyped'
<1> USE DEF SpeakersIInv, voices, activity, playout, VoicesTyped, Tracks
<1>a. MaxTracks \in Nat /\ Hold \in Nat /\ MaxDeeds \in Nat /\ Levels \subseteq Nat /\ 0 \in Levels /\ Users \subseteq People
      /\ Me \in People /\ Absent = -1 /\ Me \notin Users
  BY HoldIsNat, LevelsAreNat, MeIsNotAnother DEF People, Absent
<1>1. ASSUME Sample PROVE VoicesTyped'
  BY <1>a, <1>1 DEF Sample
<1>2. ASSUME Acquire PROVE VoicesTyped'
  BY <1>a, <1>2 DEF Acquire, Deed
<1>3. ASSUME Release PROVE VoicesTyped'
  BY <1>a, <1>3 DEF Release, Deed
<1>4. ASSUME Microphone PROVE VoicesTyped'
  BY <1>a, <1>4 DEF Microphone, Deed
<1>5. ASSUME Attach PROVE VoicesTyped'
  BY <1>a, <1>5 DEF Attach, Deed
<1>6. ASSUME Detach PROVE VoicesTyped'
  BY <1>a, <1>6 DEF Detach, Deed
<1>7. ASSUME Place PROVE VoicesTyped'
  BY <1>a, <1>7 DEF Place
<1>8. ASSUME NEW p \in People, NEW l \in Levels, Speak(p, l) PROVE VoicesTyped'
  BY <1>a, <1>8 DEF Speak, Deed
<1>9. ASSUME NEW u \in Users, Track(u) PROVE VoicesTyped'
  BY <1>a, <1>9 DEF Track, Deed
<1>10. ASSUME NEW u \in Users, Depart(u) PROVE VoicesTyped'
  BY <1>a, <1>10 DEF Depart, Deed
<1>11. ASSUME NEW u \in Users, NEW v \in {0, 1}, SetVolume(u, v) PROVE VoicesTyped'
  BY <1>a, <1>11 DEF SetVolume, Deed
<1>12. ASSUME NEW s \in {1, 2}, SetSink(s) PROVE VoicesTyped'
  BY <1>a, <1>12 DEF SetSink, Deed
<1> QED BY <1>1, <1>2, <1>3, <1>4, <1>5, <1>6, <1>7, <1>8, <1>9, <1>10, <1>11, <1>12
           DEF AudioNext

LEMMA ActivityTypedStep ==
    ASSUME SpeakersIInv, AudioNext
    PROVE  ActivityTyped'
<1> USE DEF SpeakersIInv, voices, activity, playout, VoicesTyped, ActivityTyped, Tracks
<1>a. MaxTracks \in Nat /\ Hold \in Nat /\ MaxDeeds \in Nat /\ Levels \subseteq Nat /\ 0 \in Levels /\ Users \subseteq People
      /\ Me \in People /\ Absent = -1 /\ Me \notin Users
  BY HoldIsNat, LevelsAreNat, MeIsNotAnother DEF People, Absent
<1>1. ASSUME Sample PROVE ActivityTyped'
  <2> DEFINE en == [entries EXCEPT ![Me] = LocalTrack]
             l == Heard(en)
  <2>1. en \in [People -> Tracks]
    BY <1>a DEF LocalTrack
  <2>2. \A p \in People : l[p] \in Levels
    BY <1>a DEF Heard
  <2>3. Aged(detector) \in Detectors
    BY DetectorTyped
  <2>4. detector' = Quiet(Aged(detector)) \/ \E p \in People : detector' = Loudest(Aged(detector), p, l[p])
    BY <1>1 DEF Sample
  <2> HIDE DEF l
  <2>5. detector' \in Detectors
    BY <2>2, <2>3, <2>4, DetectorTyped
  <2>6. speaking' = detector'.who /\ entries' = en /\ readers' = readers
    BY <1>1 DEF Sample
  <2> HIDE DEF en
  <2>7. speaking' \in People \cup {Absent}
    BY <2>5, <2>6 DEF Detectors
  <2> QED BY <2>1, <2>5, <2>6, <2>7
<1>2. ASSUME Acquire PROVE ActivityTyped'
  BY <1>a, <1>2 DEF Acquire, Deed
<1>3. ASSUME Release PROVE ActivityTyped'
  BY <1>a, <1>3, NobodyTyped DEF Release, Deed
<1>4. ASSUME Microphone PROVE ActivityTyped'
  BY <1>a, <1>4 DEF Microphone, Deed
<1>5. ASSUME Attach PROVE ActivityTyped'
  BY <1>a, <1>5 DEF Attach, Deed
<1>6. ASSUME Detach PROVE ActivityTyped'
  BY <1>a, <1>6, NobodyTyped DEF Detach, Deed
<1>7. ASSUME Place PROVE ActivityTyped'
  BY <1>a, <1>7 DEF Place
<1>8. ASSUME NEW p \in People, NEW l \in Levels, Speak(p, l) PROVE ActivityTyped'
  BY <1>a, <1>8 DEF Speak, Deed
<1>9. ASSUME NEW u \in Users, Track(u) PROVE ActivityTyped'
  BY <1>a, <1>9 DEF Track, Deed
<1>10. ASSUME NEW u \in Users, Depart(u) PROVE ActivityTyped'
  BY <1>a, <1>10 DEF Depart, Deed
<1>11. ASSUME NEW u \in Users, NEW v \in {0, 1}, SetVolume(u, v) PROVE ActivityTyped'
  BY <1>a, <1>11 DEF SetVolume, Deed
<1>12. ASSUME NEW s \in {1, 2}, SetSink(s) PROVE ActivityTyped'
  BY <1>a, <1>12 DEF SetSink, Deed
<1> QED BY <1>1, <1>2, <1>3, <1>4, <1>5, <1>6, <1>7, <1>8, <1>9, <1>10, <1>11, <1>12
           DEF AudioNext

LEMMA PlayoutTypedStep ==
    ASSUME SpeakersIInv, AudioNext
    PROVE  PlayoutTyped'
<1> USE DEF SpeakersIInv, voices, activity, playout, VoicesTyped, PlayoutTyped, Tracks, NoPeer,
       Chosen
<1>a. MaxTracks \in Nat /\ Hold \in Nat /\ MaxDeeds \in Nat /\ Levels \subseteq Nat /\ 0 \in Levels /\ Users \subseteq People
      /\ Me \in People /\ Absent = -1 /\ Me \notin Users
  BY HoldIsNat, LevelsAreNat, MeIsNotAnother DEF People, Absent
<1>1. ASSUME Sample PROVE PlayoutTyped'
  BY <1>a, <1>1 DEF Sample
<1>2. ASSUME Acquire PROVE PlayoutTyped'
  BY <1>a, <1>2 DEF Acquire, Deed
<1>3. ASSUME Release PROVE PlayoutTyped'
  BY <1>a, <1>3 DEF Release, Deed
<1>4. ASSUME Microphone PROVE PlayoutTyped'
  BY <1>a, <1>4 DEF Microphone, Deed
<1>5. ASSUME Attach PROVE PlayoutTyped'
  BY <1>a, <1>5 DEF Attach, Deed
<1>6. ASSUME Detach PROVE PlayoutTyped'
  <2>1. NoPeer \in [track : Tracks, gain : {0, 1}, sink : {Absent, 1, 2}] /\ 0 \in Tracks
    BY <1>a
  <2> QED BY <1>6, <2>1 DEF Detach
<1>7. ASSUME Place PROVE PlayoutTyped'
  <2>1. \A u \in Users : Placed(u) \in [track : Tracks, gain : {0, 1}, sink : {Absent, 1, 2}]
    BY DEF Placed
  <2> QED BY <1>7, <2>1 DEF Place
<1>8. ASSUME NEW p \in People, NEW l \in Levels, Speak(p, l) PROVE PlayoutTyped'
  BY <1>a, <1>8 DEF Speak, Deed
<1>9. ASSUME NEW u \in Users, Track(u) PROVE PlayoutTyped'
  BY <1>a, <1>9 DEF Track, Deed
<1>10. ASSUME NEW u \in Users, Depart(u) PROVE PlayoutTyped'
  BY <1>a, <1>10 DEF Depart, Deed
<1>11. ASSUME NEW u \in Users, NEW v \in {0, 1}, SetVolume(u, v) PROVE PlayoutTyped'
  BY <1>a, <1>11 DEF SetVolume, Deed
<1>12. ASSUME NEW s \in {1, 2}, SetSink(s) PROVE PlayoutTyped'
  BY <1>a, <1>12 DEF SetSink, Deed
<1> QED BY <1>1, <1>2, <1>3, <1>4, <1>5, <1>6, <1>7, <1>8, <1>9, <1>10, <1>11, <1>12
           DEF AudioNext

LEMMA PlacedPlaysStep ==
    ASSUME SpeakersIInv, AudioNext
    PROVE  PlacedPlays'
<1> USE DEF SpeakersIInv, voices, activity, playout, PlayoutTyped, Tracks, PlacedPlays, Chosen,
       Placed, NoPeer
<1>a. MaxTracks \in Nat /\ Hold \in Nat /\ MaxDeeds \in Nat /\ Levels \subseteq Nat /\ 0 \in Levels /\ Users \subseteq People
      /\ Me \in People /\ Absent = -1 /\ Me \notin Users
  BY HoldIsNat, LevelsAreNat, MeIsNotAnother DEF People, Absent
<1>1. ASSUME Sample PROVE PlacedPlays'
  BY <1>a, <1>1 DEF Sample
<1>2. ASSUME Acquire PROVE PlacedPlays'
  BY <1>a, <1>2 DEF Acquire, Deed
<1>3. ASSUME Release PROVE PlacedPlays'
  BY <1>a, <1>3 DEF Release, Deed
<1>4. ASSUME Microphone PROVE PlacedPlays'
  BY <1>a, <1>4 DEF Microphone, Deed
<1>5. ASSUME Attach PROVE PlacedPlays'
  BY <1>a, <1>5 DEF Attach, Deed
<1>6. ASSUME Detach PROVE PlacedPlays'
  BY <1>a, <1>6 DEF Detach, Deed
<1>7. ASSUME Place PROVE PlacedPlays'
  BY <1>a, <1>7 DEF Place
<1>8. ASSUME NEW p \in People, NEW l \in Levels, Speak(p, l) PROVE PlacedPlays'
  BY <1>a, <1>8 DEF Speak, Deed
<1>9. ASSUME NEW u \in Users, Track(u) PROVE PlacedPlays'
  BY <1>a, <1>9 DEF Track, Deed
<1>10. ASSUME NEW u \in Users, Depart(u) PROVE PlacedPlays'
  BY <1>a, <1>10 DEF Depart, Deed
<1>11. ASSUME NEW u \in Users, NEW v \in {0, 1}, SetVolume(u, v) PROVE PlacedPlays'
  BY <1>a, <1>11 DEF SetVolume, Deed
<1>12. ASSUME NEW s \in {1, 2}, SetSink(s) PROVE PlacedPlays'
  BY <1>a, <1>12 DEF SetSink, Deed
<1> QED BY <1>1, <1>2, <1>3, <1>4, <1>5, <1>6, <1>7, <1>8, <1>9, <1>10, <1>11, <1>12
           DEF AudioNext

LEMMA SpeakersInitially == AudioInit => SpeakersIInv
<1> SUFFICES ASSUME AudioInit PROVE SpeakersIInv
  OBVIOUS
<1>a. MaxTracks \in Nat /\ Hold \in Nat /\ MaxDeeds \in Nat /\ Levels \subseteq Nat /\ 0 \in Levels /\ Users \subseteq People
      /\ Me \in People /\ Absent = -1 /\ Me \notin Users
  BY HoldIsNat, LevelsAreNat, MeIsNotAnother DEF People, Absent
<1>1. VoicesTyped
  BY <1>a DEF AudioInit, VoicesTyped, Tracks, Silent
<1>2. ActivityTyped
  BY NobodyTyped DEF AudioInit, ActivityTyped
<1>3. PlayoutTyped /\ PlacedPlays
  BY <1>a DEF AudioInit, PlayoutTyped, PlacedPlays, Tracks, NoPeer
<1> QED BY <1>1, <1>2, <1>3 DEF SpeakersIInv

LEMMA SpeakersInductive == SpeakersIInv /\ [AudioNext]_audioVars => SpeakersIInv'
<1>1. ASSUME SpeakersIInv, AudioNext PROVE SpeakersIInv'
  BY <1>1, VoicesTypedStep, ActivityTypedStep, PlayoutTypedStep, PlacedPlaysStep
     DEF SpeakersIInv
<1>2. ASSUME SpeakersIInv, UNCHANGED audioVars PROVE SpeakersIInv'
  BY <1>2 DEF SpeakersIInv, VoicesTyped, ActivityTyped, PlayoutTyped, PlacedPlays, Chosen,
     audioVars, voices, activity, playout
<1> QED BY <1>1, <1>2

LEMMA SpeakersImplied == SpeakersIInv => PlayoutIsAsChosen
<1> SUFFICES ASSUME SpeakersIInv PROVE PlayoutIsAsChosen
  OBVIOUS
<1>1. AudioTypeOK
  BY HoldIsNat DEF SpeakersIInv, VoicesTyped, ActivityTyped, PlayoutTyped, AudioTypeOK, Tracks,
     Detectors, Absent
<1> QED BY <1>1 DEF SpeakersIInv, PlacedPlays, PlayoutIsAsChosen, Placed

\* Whoever's track is placed plays it at the volume and on the device that
\* were chosen.
THEOREM PlayoutAlwaysAsChosen == AudioSpec => []PlayoutIsAsChosen
<1>1. AudioSpec => []SpeakersIInv
  BY SpeakersInitially, SpeakersInductive, PTL DEF AudioSpec
<1> QED BY <1>1, SpeakersImplied, PTL
=============================================================================
