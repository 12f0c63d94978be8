-------------------------- MODULE ServerDataProofs --------------------------
(***************************************************************************)
(* Proofs about what the server keeps of people: accounts, guests, keys,   *)
(* recordings, boards and lists, and about a room's requests and chat.     *)
(***************************************************************************)
EXTENDS Platform, Recordings, Auth, Identity, Whiteboard, Pages, RoomLife, FiniteSetTheorems,
        SequenceTheorems, WellFoundedInduction, TLAPS

-----------------------------------------------------------------------------
(***************************************************************************)
(* Proof, for any number of people, keys, rooms and requests, that nobody  *)
(* is signed into another's account, that a token admits to a room of the  *)
(* project of its key only, and that a revoked key admits nobody.          *)
(***************************************************************************)

Acts == {"create", "end", "mint"}
KeyStates == {"none", "active", "revoked"}
RoomStates == {"none", "active", "ended"}

\* An account is linked, if at all, to the person with its password, and the
\* one that is asked for is the asking person's.
AccountsOwned ==
    /\ \A a \in accounts : a.user \in {Nobody, a.password}
    /\ \A q \in asking : q.account.password = q.who /\ q.account.user \in {Nobody, q.who}

\* Whoever is signed in has the password.
ConsolesOwned == \A c \in consoles : \E a \in accounts : a.name = c.account /\ a.password = c.holder

\* A key and a room belong together when both exist, in the same project.
Together(k, r) ==
    keys[k].state # "none" /\ rooms[r].state # "none" /\ rooms[r].of = keys[k].of

\* The key of a call, a token, a join and a seat exists, and so does the room
\* of all but the call; the guard's key is checked again when a seat is taken.
CallsKeyed == \A c \in calls : keys[c.key].state # "none"
TokensTogether == \A t \in roomTokens : Together(t.key, t.room)
JoinsTogether ==
    \A j \in joins : /\ j.room = j.token.room /\ Together(j.token.key, j.room)
                     /\ j.late => keys[j.token.key].state = "revoked"
SeatsTogether ==
    \A s \in joined : s.room = s.token.room /\ Together(s.token.key, s.room) /\ ~s.late

\* The two halves of the invariant: who is who, and what belongs to what.
AccountsType ==
    /\ accounts \subseteq [name : Names, password : People, user : People \cup {Nobody}]
    /\ \A q \in asking :
          q.who \in People /\ q.account \in [name : Names, password : People, user : People \cup {Nobody}]
    /\ consoles \subseteq [holder : People, account : Names] /\ projects \subseteq Names
AccountsInv == AccountsType /\ AccountsOwned /\ ConsolesOwned

RoomsType ==
    /\ keys \in [Keys -> [of : Names \cup {NoProject}, state : KeyStates]]
    /\ rooms \in [ProjectRooms -> [of : Names \cup {NoProject}, state : RoomStates]]
    /\ calls \subseteq [key : Keys, act : Acts, room : ProjectRooms]
    /\ roomTokens \subseteq [room : ProjectRooms, key : Keys]
    /\ joins \cup joined \subseteq
         [token : [room : ProjectRooms, key : Keys], room : ProjectRooms, late : BOOLEAN, over : BOOLEAN]
RoomsInv == RoomsType /\ CallsKeyed /\ TokensTogether /\ JoinsTogether /\ SeatsTogether

PlatformIInv == AccountsInv /\ RoomsInv

-----------------------------------------------------------------------------

LEMMA PlatformInitEstablishes == PlatformInit => PlatformIInv
<1> SUFFICES ASSUME PlatformInit PROVE PlatformIInv
  OBVIOUS
<1>1. AccountsInv
  BY DEF PlatformInit, AccountsInv, AccountsType, AccountsOwned, ConsolesOwned
<1>2. RoomsInv
  BY DEF PlatformInit, RoomsInv, RoomsType, KeyStates, RoomStates, CallsKeyed, TokensTogether,
         JoinsTogether, SeatsTogether
<1> QED BY <1>1, <1>2 DEF PlatformIInv

\* A row that is inserted belongs to the person who asked for it, and signs
\* them in.
LEMMA InsertPreserves ==
    ASSUME AccountsInv, NEW q \in asking, CreateAccount(q)
    PROVE  AccountsInv'
<1> USE DEF AccountsInv
<1>1. /\ asking' = asking \ {q} /\ projects' = projects /\ Insert(q.who, q.account)
  BY DEF CreateAccount
<1>2. CASE UNCHANGED <<accounts, consoles>>
  BY <1>1, <1>2 DEF AccountsType, AccountsOwned, ConsolesOwned
<1>3. CASE /\ accounts' = accounts \cup {q.account}
           /\ consoles' = consoles \cup {[holder |-> q.who, account |-> q.account.name]}
  <2> DEFINE token == [holder |-> q.who, account |-> q.account.name]
  <2>1. q.who \in People /\ q.account \in [name : Names, password : People, user : People \cup {Nobody}]
        /\ q.account.password = q.who /\ q.account.user \in {Nobody, q.who}
    BY DEF AccountsType, AccountsOwned
  <2>2. AccountsType' /\ AccountsOwned'
    BY <1>1, <1>3, <2>1 DEF AccountsType, AccountsOwned
  <2>3. token.holder = q.who /\ token.account = q.account.name
    OBVIOUS
  <2>4. ConsolesOwned'
    <3> HIDE DEF token
    <3> SUFFICES ASSUME NEW c \in consoles \cup {token}
                 PROVE  \E a \in accounts \cup {q.account} : a.name = c.account /\ a.password = c.holder
      BY <1>3 DEF ConsolesOwned, token
    <3>1. CASE c \in consoles
      BY <3>1 DEF ConsolesOwned
    <3>2. CASE c = token
      BY <2>1, <2>3, <3>2
    <3> QED BY <3>1, <3>2
  <2> QED BY <2>2, <2>4
<1> QED BY <1>1, <1>2, <1>3 DEF Insert

\* A name is looked up for a row that is to be the asking person's.
LEMMA AskedPreserves ==
    ASSUME AccountsInv, NEW p \in People, NEW name \in Names, NEW user \in {Nobody, p},
           asking' = asking \cup {[who |-> p, account |-> [name |-> name, password |-> p, user |-> user]]},
           UNCHANGED <<accounts, consoles, projects>>
    PROVE  AccountsInv'
<1> DEFINE row == [name |-> name, password |-> p, user |-> user]
           new == [who |-> p, account |-> row]
<1>1. new.who = p /\ new.account = row
  OBVIOUS
<1>2. row \in [name : Names, password : People, user : People \cup {Nobody}]
      /\ row.name = name /\ row.password = p /\ row.user = user
  OBVIOUS
<1>3. asking' = asking \cup {new}
  OBVIOUS
<1> HIDE DEF row, new
<1>4. AccountsType'
  BY <1>1, <1>2, <1>3 DEF AccountsInv, AccountsType
<1>5. AccountsOwned' /\ ConsolesOwned'
  BY <1>1, <1>2, <1>3 DEF AccountsInv, AccountsOwned, ConsolesOwned
<1> QED BY <1>4, <1>5 DEF AccountsInv

\* A token is handed to the holder of the password.
LEMMA SignedInPreserves ==
    ASSUME AccountsInv, NEW p \in People, NEW S \in SUBSET accounts,
           \A a \in S : a.password = p,
           consoles' = consoles \cup {[holder |-> p, account |-> a.name] : a \in S},
           UNCHANGED <<accounts, asking, projects>>
    PROVE  AccountsInv'
<1> USE DEF AccountsInv
<1>1. AccountsType' /\ AccountsOwned'
  BY DEF AccountsType, AccountsOwned
<1>2. ConsolesOwned'
  <2> SUFFICES ASSUME NEW c \in consoles'
               PROVE  \E a \in accounts : a.name = c.account /\ a.password = c.holder
    BY DEF ConsolesOwned
  <2>1. CASE c \in consoles
    BY <2>1 DEF ConsolesOwned
  <2>2. CASE c \in {[holder |-> p, account |-> a.name] : a \in S}
    <3>1. PICK a \in S : c = [holder |-> p, account |-> a.name]
      BY <2>2
    <3> QED BY <3>1
  <2> QED BY <2>1, <2>2
<1> QED BY <1>1, <1>2

\* Requests about accounts and projects.
LEMMA AccountStepsPreserve ==
    ASSUME AccountsInv,
           \/ \E p \in People : SsoRead(p)
           \/ \E p \in People, n \in Names : RegisterRead(p, n) \/ DevLogin(p, n)
           \/ \E q \in asking : CreateAccount(q)
           \/ \E c \in consoles : CreateProject(c)
    PROVE  AccountsInv'
<1>1. ASSUME NEW p \in People, SsoRead(p) PROVE AccountsInv'
  <2>1. CASE LinkedAccount(p) # {}
    <3>1. LinkedAccount(p) \in SUBSET accounts
      BY DEF LinkedAccount, LinkedTo
    <3>2. \A a \in LinkedAccount(p) : a.password = p
      BY NobodyIsNoOne DEF LinkedAccount, LinkedTo, AccountsInv, AccountsOwned
    <3>3. /\ consoles' = consoles \cup {[holder |-> p, account |-> a.name] : a \in LinkedAccount(p)}
          /\ UNCHANGED <<accounts, asking, projects>>
      BY <1>1, <2>1 DEF SsoRead
    <3> QED BY <3>1, <3>2, <3>3, SignedInPreserves
  <2>2. CASE LinkedAccount(p) = {}
    <3>1. /\ UNCHANGED <<accounts, consoles, projects>>
          /\ \E name \in FirstFree(p) :
               asking' = asking \cup {[who |-> p, account |-> [name |-> name, password |-> p, user |-> p]]}
      BY <1>1, <2>2 DEF SsoRead
    <3>2. FirstFree(p) \subseteq Names
      BY DEF FirstFree, Free, Names
    <3> QED BY <3>1, <3>2, AskedPreserves
  <2> QED BY <2>1, <2>2
<1>2. ASSUME NEW p \in People, NEW n \in Names, RegisterRead(p, n) PROVE AccountsInv'
  BY <1>2, AskedPreserves DEF RegisterRead
<1>3. ASSUME NEW p \in People, NEW n \in Names, DevLogin(p, n) PROVE AccountsInv'
  <2>1. PICK a \in accounts : a.name = n /\ a.password = p
    BY <1>3 DEF DevLogin, Called
  <2>2. /\ consoles' = consoles \cup {[holder |-> p, account |-> b.name] : b \in {a}}
        /\ UNCHANGED <<accounts, asking, projects>>
    BY <1>3, <2>1 DEF DevLogin
  <2>3. {a} \in SUBSET accounts /\ \A b \in {a} : b.password = p
    BY <2>1
  <2> QED BY <2>2, <2>3, SignedInPreserves
<1>4. ASSUME NEW c \in consoles, CreateProject(c) PROVE AccountsInv'
  BY <1>4 DEF CreateProject, AccountsInv, AccountsType, AccountsOwned, ConsolesOwned
<1> QED BY <1>1, <1>2, <1>3, <1>4, InsertPreserves

-----------------------------------------------------------------------------

\* A key keeps its project, and comes and goes in its order.
LEMMA KeysPreserve ==
    ASSUME RoomsInv, AccountsType, NEW c \in consoles, NEW k \in Keys,
           RevokeApiKey(c, k) \/ \E n \in projects : CreateApiKey(c, n, k)
    PROVE  RoomsInv'
<1> USE DEF RoomsInv
<1>1. UNCHANGED <<rooms, calls, roomTokens, joins, joined>>
  BY DEF RevokeApiKey, CreateApiKey
<1>2. PICK n \in Names \cup {NoProject}, s \in {"active", "revoked"} :
        /\ keys' = [keys EXCEPT ![k] = [of |-> n, state |-> s]]
        /\ \/ keys[k].state = "none"
           \/ keys[k].state = "active" /\ n = keys[k].of /\ s = "revoked"
  <2>1. CASE RevokeApiKey(c, k)
    <3>1. keys[k].state = "active" /\ keys' = [keys EXCEPT ![k].state = "revoked"]
      BY <2>1 DEF RevokeApiKey
    <3>2. keys[k] \in [of : Names \cup {NoProject}, state : KeyStates]
      BY DEF RoomsType
    <3>3. [keys[k] EXCEPT !.state = "revoked"] = [of |-> keys[k].of, state |-> "revoked"]
      BY <3>2
    <3>4. keys' = [keys EXCEPT ![k] = [of |-> keys[k].of, state |-> "revoked"]]
      BY <3>1, <3>3
    <3>5. keys[k].of \in Names \cup {NoProject}
      BY <3>2
    <3> QED BY <3>1, <3>4, <3>5
  <2>2. ASSUME NEW n \in projects, CreateApiKey(c, n, k)
        PROVE  /\ n \in Names /\ keys[k].state = "none"
               /\ keys' = [keys EXCEPT ![k] = [of |-> n, state |-> "active"]]
    BY <2>2 DEF CreateApiKey, AccountsType
  <2> QED BY <2>1, <2>2
<1>3. RoomsType'
  BY <1>1, <1>2 DEF RoomsType, KeyStates
<1>4. \A l \in Keys : keys[l].state # "none" =>
        /\ keys'[l].state # "none" /\ keys'[l].of = keys[l].of
        /\ keys[l].state = "revoked" => keys'[l].state = "revoked"
  BY <1>2 DEF RoomsType
<1>5. CallsKeyed'
  BY <1>1, <1>4 DEF CallsKeyed, RoomsType
<1>6. \A l \in Keys, r \in ProjectRooms : Together(l, r) => Together(l, r)'
  BY <1>1, <1>4 DEF Together
<1>7. TokensTogether'
  BY <1>1, <1>6 DEF TokensTogether, RoomsType
<1>8. JoinsTogether'
  BY <1>1, <1>4, <1>6 DEF JoinsTogether, RoomsType, Together
<1>9. SeatsTogether'
  BY <1>1, <1>6 DEF SeatsTogether, RoomsType
<1> QED BY <1>3, <1>5, <1>7, <1>8, <1>9

\* What a key is used for.
LEMMA CallsPreserve ==
    ASSUME RoomsInv,
           \/ \E k \in Keys, act \in Acts, r \in ProjectRooms : GuardPasses(k, act, r)
           \/ \E c \in calls : CreateRoom(c) \/ EndProjectRoom(c) \/ MintRoomToken(c)
    PROVE  RoomsInv'
<1> USE DEF RoomsInv
<1>1. ASSUME NEW k \in Keys, NEW act \in Acts, NEW r \in ProjectRooms, GuardPasses(k, act, r)
      PROVE  RoomsInv'
  BY <1>1 DEF GuardPasses, RoomsType, CallsKeyed, TokensTogether, JoinsTogether, SeatsTogether, Together
<1>2. ASSUME NEW c \in calls, CreateRoom(c) PROVE RoomsInv'
  <2>1. /\ UNCHANGED <<keys, roomTokens, joins, joined>> /\ calls' = calls \ {c}
        /\ rooms[c.room].state = "none" /\ c.key \in Keys /\ c.room \in ProjectRooms
        /\ rooms' = [rooms EXCEPT ![c.room] = [of |-> keys[c.key].of, state |-> "active"]]
    BY <1>2 DEF CreateRoom, RoomsType
  <2>2. RoomsType' /\ CallsKeyed'
    BY <2>1 DEF RoomsType, CallsKeyed, RoomStates
  <2>3. \A l \in Keys, r \in ProjectRooms : Together(l, r) => Together(l, r)'
    BY <2>1 DEF Together, RoomsType
  <2> QED BY <2>1, <2>2, <2>3 DEF TokensTogether, JoinsTogether, SeatsTogether, RoomsType
<1>3. ASSUME NEW c \in calls, EndProjectRoom(c) PROVE RoomsInv'
  <2>1. /\ UNCHANGED <<keys, roomTokens, joins>> /\ calls' = calls \ {c} /\ joined' \subseteq joined
        /\ rooms' = rooms \/ (rooms[c.room].state # "none" /\ rooms' = [rooms EXCEPT ![c.room].state = "ended"])
    BY <1>3 DEF EndProjectRoom, ProjectRoom
  <2>2. RoomsType' /\ CallsKeyed'
    BY SMTT(30), <2>1 DEF RoomsType, CallsKeyed, RoomStates
  <2>3. \A l \in Keys, r \in ProjectRooms : Together(l, r) => Together(l, r)'
    BY <2>1 DEF Together, RoomsType
  <2> QED BY <2>1, <2>2, <2>3 DEF TokensTogether, JoinsTogether, SeatsTogether, RoomsType
<1>4. ASSUME NEW c \in calls, MintRoomToken(c) PROVE RoomsInv'
  <2> DEFINE new == [room |-> c.room, key |-> c.key]
  <2>1. /\ UNCHANGED <<keys, rooms, joins, joined>> /\ calls' = calls \ {c}
        /\ roomTokens' = roomTokens \/ (ProjectRoom(c) /\ roomTokens' = roomTokens \cup {new})
    BY <1>4 DEF MintRoomToken
  <2>2. new \in [room : ProjectRooms, key : Keys] /\ new.room = c.room /\ new.key = c.key
    BY DEF RoomsType
  <2>3. ProjectRoom(c) => Together(c.key, c.room)
    BY DEF ProjectRoom, Together, CallsKeyed
  <2> HIDE DEF new
  <2>4. RoomsType' /\ CallsKeyed' /\ JoinsTogether' /\ SeatsTogether'
    BY <2>1, <2>2 DEF RoomsType, CallsKeyed, JoinsTogether, SeatsTogether, Together
  <2>5. TokensTogether'
    BY <2>1, <2>2, <2>3 DEF TokensTogether, Together
  <2> QED BY <2>4, <2>5
<1> QED BY <1>1, <1>2, <1>3, <1>4

\* What a token is used for.
LEMMA TokensPreserve ==
    ASSUME RoomsInv,
           \/ \E t \in roomTokens, r \in ProjectRooms : JoinWithToken(t, r)
           \/ \E j \in joins : KeyRead(j)
           \/ \E t \in roomTokens : TokenExpires(t)
    PROVE  RoomsInv'
<1> USE DEF RoomsInv
<1>1. ASSUME NEW t \in roomTokens, NEW r \in ProjectRooms, JoinWithToken(t, r) PROVE RoomsInv'
  <2> DEFINE new == [token |-> t, room |-> r, late |-> keys[t.key].state # "active",
                     over |-> rooms[r].state = "ended"]
  <2>1. UNCHANGED <<keys, rooms, calls, roomTokens, joined>> /\ joins' = joins \cup {new} /\ t.room = r
    BY <1>1 DEF JoinWithToken, platform
  <2>2. new.token = t /\ new.room = r /\ new.late = (keys[t.key].state # "active")
    OBVIOUS
  <2>3. new \in [token : [room : ProjectRooms, key : Keys], room : ProjectRooms,
                 late : BOOLEAN, over : BOOLEAN]
    BY DEF RoomsType
  <2>4. Together(t.key, r) /\ (new.late => keys[t.key].state = "revoked")
    BY <2>1, <2>2 DEF TokensTogether, Together, RoomsType, KeyStates
  <2> HIDE DEF new
  <2>5. RoomsType'
    BY <2>1, <2>3 DEF RoomsType
  <2>6. JoinsTogether'
    BY <2>1, <2>2, <2>4 DEF JoinsTogether, Together
  <2> QED BY <2>1, <2>5, <2>6 DEF CallsKeyed, TokensTogether, SeatsTogether, Together
<1>2. ASSUME NEW j \in joins, KeyRead(j) PROVE RoomsInv'
  <2>1. /\ UNCHANGED <<keys, rooms, calls, roomTokens>> /\ joins' = joins \ {j}
        /\ joined' = joined \/ (joined' = joined \cup {j} /\ keys[j.token.key].state = "active")
    BY <1>2 DEF KeyRead, KeyIsActive, platform
  <2>2. RoomsType'
    BY <2>1 DEF RoomsType
  <2>3. SeatsTogether'
    BY <2>1 DEF SeatsTogether, JoinsTogether, Together
  <2> QED BY <2>1, <2>2, <2>3 DEF CallsKeyed, TokensTogether, JoinsTogether, Together
<1>3. ASSUME NEW t \in roomTokens, TokenExpires(t) PROVE RoomsInv'
  BY <1>3 DEF TokenExpires, RoomsType, CallsKeyed, TokensTogether, JoinsTogether, SeatsTogether, Together
<1> QED BY <1>1, <1>2, <1>3

-----------------------------------------------------------------------------

LEMMA PlatformStepPreserves == PlatformIInv /\ [PlatformNext]_platformVars => PlatformIInv'
<1> SUFFICES ASSUME PlatformIInv, [PlatformNext]_platformVars PROVE PlatformIInv'
  OBVIOUS
<1>1. UNCHANGED console => AccountsInv'
  BY DEF PlatformIInv, console, AccountsInv, AccountsType, AccountsOwned, ConsolesOwned
<1>2. UNCHANGED <<platform, joins, joined>> => RoomsInv'
  BY DEF PlatformIInv, platform, RoomsInv, RoomsType, CallsKeyed, TokensTogether, JoinsTogether, SeatsTogether, Together
<1>3. CASE \/ \E p \in People : SsoRead(p)
           \/ \E p \in People, n \in Names : RegisterRead(p, n) \/ DevLogin(p, n)
           \/ \E q \in asking : CreateAccount(q)
           \/ \E c \in consoles : CreateProject(c)
  <2>1. UNCHANGED <<platform, joins, joined>>
    BY <1>3 DEF SsoRead, RegisterRead, DevLogin, CreateAccount, CreateProject
  <2> QED BY <1>2, <1>3, <2>1, AccountStepsPreserve DEF PlatformIInv
<1>4. CASE \E c \in consoles, k \in Keys : RevokeApiKey(c, k) \/ \E n \in projects : CreateApiKey(c, n, k)
  <2>1. UNCHANGED console
    BY <1>4 DEF RevokeApiKey, CreateApiKey
  <2> QED BY <1>1, <1>4, <2>1, KeysPreserve DEF PlatformIInv, AccountsInv
<1>5. CASE \/ \E k \in Keys, act \in Acts, r \in ProjectRooms : GuardPasses(k, act, r)
           \/ \E c \in calls : CreateRoom(c) \/ EndProjectRoom(c) \/ MintRoomToken(c)
  <2>1. UNCHANGED console
    BY <1>5 DEF GuardPasses, CreateRoom, EndProjectRoom, MintRoomToken
  <2> QED BY <1>1, <1>5, <2>1, CallsPreserve DEF PlatformIInv
<1>6. CASE \/ \E t \in roomTokens, r \in ProjectRooms : JoinWithToken(t, r)
           \/ \E j \in joins : KeyRead(j)
           \/ \E t \in roomTokens : TokenExpires(t)
  <2>1. UNCHANGED console
    BY <1>6 DEF JoinWithToken, KeyRead, TokenExpires
  <2> QED BY <1>1, <1>6, <2>1, TokensPreserve DEF PlatformIInv
<1>7. CASE UNCHANGED platformVars
  BY <1>1, <1>2, <1>7 DEF platformVars, PlatformIInv
<1> QED BY <1>3, <1>4, <1>5, <1>6, <1>7 DEF PlatformNext, Acts

\* Nobody is signed into another's account, a token admits to a room of its
\* key's project only, and a join after the revocation of its key gets no
\* seat: whoever registers, signs in, creates, revokes, mints and joins in
\* whatever order.
THEOREM AccessIsAlwaysOwn == PlatformSpec => []AccessInv
<1>1. PlatformIInv => AccessInv
  <2> SUFFICES ASSUME PlatformIInv PROVE AccessInv
    OBVIOUS
  <2>1. PlatformTypeOK
    BY DEF PlatformIInv, AccountsInv, AccountsType, RoomsInv, RoomsType, PlatformTypeOK,
           Acts, KeyStates, RoomStates
  <2>2. TenantsAreApart
    BY DEF PlatformIInv, AccountsInv, ConsolesOwned, RoomsInv, TokensTogether, SeatsTogether,
           Together, TenantsAreApart
  <2>3. RevocationHolds
    BY DEF PlatformIInv, RoomsInv, SeatsTogether, RevocationHolds
  <2> QED BY <2>1, <2>2, <2>3 DEF AccessInv
<1> QED BY <1>1, PlatformInitEstablishes, PlatformStepPreserves, PTL DEF PlatformSpec

-----------------------------------------------------------------------------
(***************************************************************************)
(* Proof, for any number of parts, recorders and chunks, that what was     *)
(* written of a recording is in the file that is kept of it, however the   *)
(* recorder, the assembly and the removal overlap.                         *)
(***************************************************************************)

\* What has been written, wherever it is.
Written == material \cup early \cup mp4.has

Busy(w) == writers[w].at # "free"

RecordingTyped ==
    /\ phase \in Phases /\ part \in Parts /\ pending \in 0 .. 2
    /\ writers \in [Writers -> [part : Parts, at : {"free", "spawned", "open", "unlinked"}]]
    /\ recorder \in Writers \cup {Nothing}
    /\ dir \in BOOLEAN /\ opened \subseteq Parts /\ listed \subseteq Parts
    /\ mp4 \in [is : {"absent", "partial", "whole"}, has : SUBSET (Parts \X (1 .. MaxChunks))]
    /\ material \subseteq opened \X (1 .. MaxChunks)
    /\ early \subseteq Parts \X (1 .. MaxChunks)
    /\ size \in Unknown .. MaxChunks /\ chunks \in 0 .. MaxChunks
    /\ removing \in BOOLEAN /\ ready \in BOOLEAN /\ deleted \in BOOLEAN /\ entangled \in BOOLEAN

\* Only a removal takes the directory, and all that is in it.
RemovedTogether ==
    /\ dir = ~deleted /\ (removing => deleted)
    /\ deleted => opened = {} /\ mp4 = NoFile

\* A chunk is written once.
ChunksOnce ==
    /\ \A c \in Written : c[2] \in 1 .. chunks
    /\ \A c, d \in Written : c[2] = d[2] => c = d

\* Who writes has a file, and nobody opens one that has been written to, as
\* long as pipelines are built one after the other.
PartsApart ==
    /\ opened \subseteq 0 .. part
    /\ \A w \in Writers :
          /\ writers[w].part <= part
          /\ writers[w].at = "free" => writers[w] = Idle
          /\ writers[w].at = "open" => writers[w].part \in opened
          /\ writers[w].at = "unlinked" /\ phase = "running" => deleted
    /\ ~entangled =>
          /\ pending <= 1
          /\ pending > 0 => part \notin opened /\ \A w \in Writers : Busy(w) => writers[w].part # part
          /\ \A w \in Writers : writers[w].at = "spawned" => writers[w].part \notin opened
          /\ \A w, v \in Writers : Busy(w) /\ Busy(v) /\ writers[w].part = writers[v].part => w = v

\* Where the material is at each step of the finalization.
StepByStep ==
    /\ ~deleted /\ ~entangled =>
          /\ phase \in {"running", "stopping", "listed", "remuxing"} => early \subseteq material
          /\ phase \in {"listed", "remuxing"} => \A c \in early : c[1] \in listed
    /\ ~deleted /\ (ready \/ phase \in {"remuxed", "sized", "stored"}) =>
          mp4.is = "whole" /\ (entangled \/ early \subseteq mp4.has)
    /\ ~deleted /\ (ready \/ phase = "stored") => size = Cardinality(mp4.has)
    /\ ready => phase = "over"

RecordingIInv ==
    /\ RecordingTyped /\ RemovedTogether /\ ChunksOnce /\ PartsApart /\ StepByStep
    /\ NothingDropped

-----------------------------------------------------------------------------

LEMMA AtMostOneSizeEach ==
    ASSUME RecordingTyped, ChunksOnce, NEW S \in SUBSET Written
    PROVE  IsFiniteSet(S) /\ Cardinality(S) \in 0 .. MaxChunks
<1> DEFINE number == [c \in S |-> c[2]]
<1>1. IsFiniteSet(1 .. MaxChunks) /\ Cardinality(1 .. MaxChunks) = MaxChunks
  BY FS_Interval, RecordingBoundsAreNat
<1>2. \A c \in Written : c[2] \in 1 .. MaxChunks
  BY RecordingBoundsAreNat DEF ChunksOnce, RecordingTyped
<1>3. number \in Injection(S, 1 .. MaxChunks)
  BY <1>2 DEF ChunksOnce, Injection, IsInjective
<1> HIDE DEF number
<1>4. IsFiniteSet(S) /\ Cardinality(S) <= MaxChunks
  BY <1>1, <1>3, FS_Injection
<1> QED BY <1>4, FS_CardinalityType, RecordingBoundsAreNat

LEMMA RecordingInitHolds == RecordingInit => RecordingIInv
<1> SUFFICES ASSUME RecordingInit PROVE RecordingIInv
  OBVIOUS
<1>1. RecordingTyped
  <2>1. phase \in Phases /\ part \in Parts /\ pending \in 0 .. 2
    BY RecordingBoundsAreNat DEF RecordingInit, Parts, Phases
  <2>5. recorder \in Writers \cup {Nothing} /\ opened \subseteq Parts /\ listed \subseteq Parts
    BY DEF RecordingInit
  <2>6. /\ dir \in BOOLEAN /\ removing \in BOOLEAN /\ ready \in BOOLEAN
        /\ deleted \in BOOLEAN /\ entangled \in BOOLEAN
    BY DEF RecordingInit
  <2>2. writers \in [Writers -> [part : Parts, at : {"free", "spawned", "open", "unlinked"}]]
    BY RecordingBoundsAreNat DEF RecordingInit, Parts, Idle
  <2>3. /\ mp4 \in [is : {"absent", "partial", "whole"}, has : SUBSET (Parts \X (1 .. MaxChunks))]
        /\ material \subseteq opened \X (1 .. MaxChunks)
        /\ early \subseteq Parts \X (1 .. MaxChunks)
    BY DEF RecordingInit, NoFile
  <2>4. size \in Unknown .. MaxChunks /\ chunks \in 0 .. MaxChunks
    BY RecordingBoundsAreNat DEF RecordingInit, Unknown
  <2> QED BY <2>1, <2>2, <2>3, <2>4, <2>5, <2>6 DEF RecordingTyped
<1>2. RemovedTogether /\ ChunksOnce
  BY DEF RecordingInit, RemovedTogether, ChunksOnce, Written, NoFile
<1>3. PartsApart
  BY DEF RecordingInit, PartsApart, Busy, Idle
<1>4. StepByStep /\ NothingDropped
  BY DEF RecordingInit, StepByStep, NothingDropped
<1> QED BY <1>1, <1>2, <1>3, <1>4 DEF RecordingIInv

LEMMA RecordingTypedStep ==
    ASSUME RecordingIInv, RecordingNext
    PROVE  RecordingTyped'
<1> USE DEF RecordingIInv, RecordingTyped, pipelines, files, recordingPast, Parts, Phases, Idle, NoFile, OfPart, Nothing, Unknown
<1>1. ASSUME MembershipRestart PROVE RecordingTyped'
  BY <1>1, RecordingBoundsAreNat DEF MembershipRestart, Again, NextPart
<1>2. ASSUME BuildRejected PROVE RecordingTyped'
  BY <1>2, RecordingBoundsAreNat DEF BuildRejected, Fail
<1>3. ASSUME NEW w \in Writers, SpawnWriter(w) PROVE RecordingTyped'
  BY <1>3, RecordingBoundsAreNat DEF SpawnWriter
<1>4. ASSUME NEW w \in Writers, OpenPart(w) PROVE RecordingTyped'
  BY <1>4, RecordingBoundsAreNat DEF OpenPart
<1>5. ASSUME NEW w \in Writers, WriteChunk(w) PROVE RecordingTyped'
  <2>1. <<writers[w].part, chunks + 1>> \in Parts \X (1 .. MaxChunks) /\ chunks' \in 0 .. MaxChunks
    BY <1>5, RecordingBoundsAreNat DEF WriteChunk
  <2>2. writers[w].at = "open" => writers[w].part \in opened
    BY DEF PartsApart
  <2> QED BY <1>5, <2>1, <2>2 DEF WriteChunk
<1>6. ASSUME NEW w \in Writers, WriterExits(w) PROVE RecordingTyped'
  <2>1. writers' \in [Writers -> [part : Parts, at : {"free", "spawned", "open", "unlinked"}]]
    BY <1>6, RecordingBoundsAreNat DEF WriterExits
  <2>2. phase' \in Phases
    BY <1>6 DEF WriterExits, Again, Fail
  <2>3. part' \in Parts
    BY <1>6, RecordingBoundsAreNat DEF WriterExits, Again, Fail, NextPart
  <2>4. pending' \in 0 .. 2
    BY <1>6 DEF WriterExits, Again, Fail
  <2>5. recorder' \in Writers \cup {Nothing}
    BY <1>6 DEF WriterExits, Again, Fail
  <2>6. entangled' \in BOOLEAN
    BY <1>6 DEF WriterExits, Again, Fail
  <2> QED BY <1>6, <2>1, <2>2, <2>3, <2>4, <2>5, <2>6 DEF WriterExits
<1>7. ASSUME StopRecording PROVE RecordingTyped'
  BY <1>7, RecordingBoundsAreNat DEF StopRecording
<1>8. ASSUME ListParts PROVE RecordingTyped'
  BY <1>8, RecordingBoundsAreNat DEF ListParts
<1>9. ASSUME BeginRemux PROVE RecordingTyped'
  BY <1>9, RecordingBoundsAreNat DEF BeginRemux
<1>10. ASSUME RemuxOpens PROVE RecordingTyped'
  BY <1>10, RecordingBoundsAreNat DEF RemuxOpens
<1>11. ASSUME NEW ok \in BOOLEAN, RemuxExits(ok) PROVE RecordingTyped'
  <2>1. mp4' \in [is : {"absent", "partial", "whole"}, has : SUBSET (Parts \X (1 .. MaxChunks))]
    <3>1. CASE ok /\ dir
      <4>1. PICK S \in SUBSET material : mp4' = [is |-> "whole", has |-> S]
        BY <1>11, <3>1 DEF RemuxExits
      <4>2. S \subseteq Parts \X (1 .. MaxChunks)
        BY ZenonT(60)
      <4> QED BY <4>1, <4>2
    <3> QED BY <1>11, <3>1 DEF RemuxExits
  <2> QED BY <1>11, <2>1 DEF RemuxExits, Finished
<1>12. ASSUME StatMp4 PROVE RecordingTyped'
  BY <1>12, RecordingBoundsAreNat DEF StatMp4
<1>13. ASSUME StoreSize PROVE RecordingTyped'
  <2>1. Cardinality(mp4.has) \in 0 .. MaxChunks
    BY AtMostOneSizeEach DEF Written
  <2> QED BY <1>13, <2>1, RecordingBoundsAreNat DEF StoreSize
<1>14. ASSUME RecordingReady PROVE RecordingTyped'
  BY <1>14, RecordingBoundsAreNat DEF RecordingReady
<1>15. ASSUME NEW k \in Parts, RemovePart(k) PROVE RecordingTyped'
  BY <1>15, RecordingBoundsAreNat DEF RemovePart
<1>16. ASSUME RemoveFiles PROVE RecordingTyped'
  BY <1>16, RecordingBoundsAreNat DEF RemoveFiles
<1>17. ASSUME RemoveMetadata PROVE RecordingTyped'
  <2>1. size' \in Unknown .. MaxChunks
    BY <1>17, RecordingBoundsAreNat DEF RemoveMetadata
  <2>2. removing' \in BOOLEAN
    BY <1>17 DEF RemoveMetadata
  <2>3. UNCHANGED <<phase, part, pending, writers, recorder, dir, opened, material, mp4, listed,
                    ready, chunks, early, deleted, entangled>>
    BY <1>17 DEF RemoveMetadata
  <2> QED BY <2>1, <2>2, <2>3
<1>18. ASSUME ServerStops PROVE RecordingTyped'
  <2>1. writers' \in [Writers -> [part : Parts, at : {"free", "spawned", "open", "unlinked"}]]
    BY <1>18, RecordingBoundsAreNat DEF ServerStops
  <2>2. phase' \in Phases /\ pending' \in 0 .. 2 /\ recorder' \in Writers \cup {Nothing}
    BY <1>18 DEF ServerStops
  <2>4. removing' \in BOOLEAN
    BY <1>18 DEF ServerStops
  <2>3. UNCHANGED <<part, dir, opened, material, mp4, listed, size, ready, chunks, early,
                    deleted, entangled>>
    BY <1>18 DEF ServerStops
  <2> QED BY <2>1, <2>2, <2>3, <2>4
<1> QED BY <1>1, <1>2, <1>3, <1>4, <1>5, <1>6, <1>7, <1>8, <1>9, <1>10, <1>11, <1>12, <1>13, <1>14, <1>15, <1>16, <1>17, <1>18 DEF RecordingNext

LEMMA RemovedTogetherStep ==
    ASSUME RecordingIInv, RecordingNext
    PROVE  RemovedTogether'
<1> USE DEF RecordingIInv, RecordingTyped, RemovedTogether, pipelines, files, recordingPast
<1>1. ASSUME MembershipRestart PROVE RemovedTogether'
  BY <1>1 DEF MembershipRestart, Again, NextPart
<1>2. ASSUME BuildRejected PROVE RemovedTogether'
  BY <1>2 DEF BuildRejected, Fail
<1>3. ASSUME NEW w \in Writers, SpawnWriter(w) PROVE RemovedTogether'
  BY <1>3 DEF SpawnWriter
<1>4. ASSUME NEW w \in Writers, OpenPart(w) PROVE RemovedTogether'
  BY <1>4 DEF OpenPart
<1>5. ASSUME NEW w \in Writers, WriteChunk(w) PROVE RemovedTogether'
  BY <1>5 DEF WriteChunk
<1>6. ASSUME NEW w \in Writers, WriterExits(w) PROVE RemovedTogether'
  BY <1>6 DEF WriterExits, Again, Fail, NextPart
<1>7. ASSUME StopRecording PROVE RemovedTogether'
  BY <1>7 DEF StopRecording
<1>8. ASSUME ListParts PROVE RemovedTogether'
  BY <1>8 DEF ListParts
<1>9. ASSUME BeginRemux PROVE RemovedTogether'
  BY <1>9 DEF BeginRemux
<1>10. ASSUME RemuxOpens PROVE RemovedTogether'
  BY <1>10 DEF RemuxOpens
<1>11. ASSUME NEW ok \in BOOLEAN, RemuxExits(ok) PROVE RemovedTogether'
  BY <1>11 DEF RemuxExits, Finished
<1>12. ASSUME StatMp4 PROVE RemovedTogether'
  BY <1>12 DEF StatMp4
<1>13. ASSUME StoreSize PROVE RemovedTogether'
  BY <1>13 DEF StoreSize
<1>14. ASSUME RecordingReady PROVE RemovedTogether'
  BY <1>14 DEF RecordingReady
<1>15. ASSUME NEW k \in Parts, RemovePart(k) PROVE RemovedTogether'
  BY <1>15 DEF RemovePart
<1>16. ASSUME RemoveFiles PROVE RemovedTogether'
  BY <1>16 DEF RemoveFiles
<1>17. ASSUME RemoveMetadata PROVE RemovedTogether'
  BY <1>17 DEF RemoveMetadata
<1>18. ASSUME ServerStops PROVE RemovedTogether'
  BY <1>18 DEF ServerStops
<1> QED BY <1>1, <1>2, <1>3, <1>4, <1>5, <1>6, <1>7, <1>8, <1>9, <1>10, <1>11, <1>12, <1>13, <1>14, <1>15, <1>16, <1>17, <1>18 DEF RecordingNext

LEMMA ChunksOnceStep ==
    ASSUME RecordingIInv, RecordingNext
    PROVE  ChunksOnce'
<1> USE DEF RecordingIInv, RecordingTyped, ChunksOnce, Written, OfPart, NoFile, pipelines, files, recordingPast
<1>1. ASSUME MembershipRestart PROVE ChunksOnce'
  BY <1>1, RecordingBoundsAreNat DEF MembershipRestart, Again, NextPart
<1>2. ASSUME BuildRejected PROVE ChunksOnce'
  BY <1>2, RecordingBoundsAreNat DEF BuildRejected, Fail
<1>3. ASSUME NEW w \in Writers, SpawnWriter(w) PROVE ChunksOnce'
  BY <1>3, RecordingBoundsAreNat DEF SpawnWriter
<1>4. ASSUME NEW w \in Writers, OpenPart(w) PROVE ChunksOnce'
  BY <1>4, RecordingBoundsAreNat DEF OpenPart
<1>5. ASSUME NEW w \in Writers, WriteChunk(w) PROVE ChunksOnce'
  BY <1>5, RecordingBoundsAreNat DEF WriteChunk
<1>6. ASSUME NEW w \in Writers, WriterExits(w) PROVE ChunksOnce'
  BY <1>6, RecordingBoundsAreNat DEF WriterExits, Again, Fail, NextPart
<1>7. ASSUME StopRecording PROVE ChunksOnce'
  BY <1>7, RecordingBoundsAreNat DEF StopRecording
<1>8. ASSUME ListParts PROVE ChunksOnce'
  BY <1>8, RecordingBoundsAreNat DEF ListParts
<1>9. ASSUME BeginRemux PROVE ChunksOnce'
  BY <1>9, RecordingBoundsAreNat DEF BeginRemux
<1>10. ASSUME RemuxOpens PROVE ChunksOnce'
  BY <1>10, RecordingBoundsAreNat DEF RemuxOpens
<1>11. ASSUME NEW ok \in BOOLEAN, RemuxExits(ok) PROVE ChunksOnce'
  BY <1>11, RecordingBoundsAreNat DEF RemuxExits, Finished
<1>12. ASSUME StatMp4 PROVE ChunksOnce'
  BY <1>12, RecordingBoundsAreNat DEF StatMp4
<1>13. ASSUME StoreSize PROVE ChunksOnce'
  BY <1>13, RecordingBoundsAreNat DEF StoreSize
<1>14. ASSUME RecordingReady PROVE ChunksOnce'
  BY <1>14, RecordingBoundsAreNat DEF RecordingReady
<1>15. ASSUME NEW k \in Parts, RemovePart(k) PROVE ChunksOnce'
  BY <1>15, RecordingBoundsAreNat DEF RemovePart
<1>16. ASSUME RemoveFiles PROVE ChunksOnce'
  BY <1>16, RecordingBoundsAreNat DEF RemoveFiles
<1>17. ASSUME RemoveMetadata PROVE ChunksOnce'
  BY <1>17, RecordingBoundsAreNat DEF RemoveMetadata
<1>18. ASSUME ServerStops PROVE ChunksOnce'
  BY <1>18, RecordingBoundsAreNat DEF ServerStops
<1> QED BY <1>1, <1>2, <1>3, <1>4, <1>5, <1>6, <1>7, <1>8, <1>9, <1>10, <1>11, <1>12, <1>13, <1>14, <1>15, <1>16, <1>17, <1>18 DEF RecordingNext

LEMMA PartsApartStep ==
    ASSUME RecordingIInv, RecordingNext
    PROVE  PartsApart'
<1> USE DEF RecordingIInv, RecordingTyped, PartsApart, Busy, Idle, Parts, OfPart, pipelines, files, recordingPast
<1>1. ASSUME MembershipRestart PROVE PartsApart'
  <2>1. part' = part + 1 /\ UNCHANGED <<phase, writers, opened, deleted>>
    BY <1>1 DEF MembershipRestart, Again, NextPart
  <2>2. ~entangled' => ~entangled /\ pending = 0 /\ pending' = 1
    <3>1. entangled' = (entangled \/ pending > 0) /\ pending' = pending + 1
      BY <1>1 DEF MembershipRestart, Again
    <3>2. ~entangled' => ~entangled /\ ~(pending > 0)
      BY ONLY <3>1
    <3> QED BY <3>1, <3>2
  <2>3. part' \notin opened /\ \A w \in Writers : writers[w].part < part'
    BY <2>1
  <2> QED BY <2>1, <2>2, <2>3
<1>2. ASSUME BuildRejected PROVE PartsApart'
  BY <1>2, RecordingBoundsAreNat DEF BuildRejected, Fail
<1>3. ASSUME NEW w \in Writers, SpawnWriter(w) PROVE PartsApart'
  BY <1>3, RecordingBoundsAreNat DEF SpawnWriter
<1>4. ASSUME NEW w \in Writers, OpenPart(w) PROVE PartsApart'
  BY <1>4, RecordingBoundsAreNat DEF OpenPart
<1>5. ASSUME NEW w \in Writers, WriteChunk(w) PROVE PartsApart'
  BY <1>5, RecordingBoundsAreNat DEF WriteChunk
<1>6. ASSUME NEW w \in Writers, WriterExits(w) PROVE PartsApart'
  <2>1. /\ writers' = [writers EXCEPT ![w] = Idle] /\ UNCHANGED <<opened, deleted>>
        /\ phase' = "running" => phase = "running"
    BY <1>6 DEF WriterExits, Again, Fail
  <2>2. CASE part' = part + 1
    <3>1. ~entangled' => ~entangled /\ pending = 0 /\ pending' = 1
      <4>1. entangled' = (entangled \/ pending > 0) /\ pending' = pending + 1
        BY <1>6, <2>2 DEF WriterExits, Again, Fail
      <4>2. ~entangled' => ~entangled /\ ~(pending > 0)
        BY ONLY <4>1
      <4> QED BY <4>1, <4>2
    <3>2. part' \notin opened /\ \A v \in Writers : writers[v].part < part'
      BY <2>2
    <3> QED BY <2>1, <2>2, <3>1, <3>2
  <2>3. CASE UNCHANGED <<part, pending, entangled>>
    BY <2>1, <2>3
  <2> QED BY <1>6, <2>2, <2>3 DEF WriterExits, Again, Fail, NextPart
<1>7. ASSUME StopRecording PROVE PartsApart'
  BY <1>7, RecordingBoundsAreNat DEF StopRecording
<1>8. ASSUME ListParts PROVE PartsApart'
  BY <1>8, RecordingBoundsAreNat DEF ListParts
<1>9. ASSUME BeginRemux PROVE PartsApart'
  BY <1>9, RecordingBoundsAreNat DEF BeginRemux
<1>10. ASSUME RemuxOpens PROVE PartsApart'
  BY <1>10, RecordingBoundsAreNat DEF RemuxOpens
<1>11. ASSUME NEW ok \in BOOLEAN, RemuxExits(ok) PROVE PartsApart'
  BY <1>11, RecordingBoundsAreNat DEF RemuxExits, Finished
<1>12. ASSUME StatMp4 PROVE PartsApart'
  BY <1>12, RecordingBoundsAreNat DEF StatMp4
<1>13. ASSUME StoreSize PROVE PartsApart'
  BY <1>13, RecordingBoundsAreNat DEF StoreSize
<1>14. ASSUME RecordingReady PROVE PartsApart'
  BY <1>14, RecordingBoundsAreNat DEF RecordingReady
<1>15. ASSUME NEW k \in Parts, RemovePart(k) PROVE PartsApart'
  BY <1>15, RecordingBoundsAreNat DEF RemovePart
<1>16. ASSUME RemoveFiles PROVE PartsApart'
  BY <1>16, RecordingBoundsAreNat DEF RemoveFiles
<1>17. ASSUME RemoveMetadata PROVE PartsApart'
  BY <1>17, RecordingBoundsAreNat DEF RemoveMetadata
<1>18. ASSUME ServerStops PROVE PartsApart'
  BY <1>18, RecordingBoundsAreNat DEF ServerStops
<1> QED BY <1>1, <1>2, <1>3, <1>4, <1>5, <1>6, <1>7, <1>8, <1>9, <1>10, <1>11, <1>12, <1>13, <1>14, <1>15, <1>16, <1>17, <1>18 DEF RecordingNext

LEMMA StepByStepStep ==
    ASSUME RecordingIInv, RecordingNext
    PROVE  StepByStep'
<1> USE DEF RecordingIInv, RecordingTyped, RemovedTogether, PartsApart, StepByStep, OfPart, pipelines, files, recordingPast
<1>1. ASSUME MembershipRestart PROVE StepByStep'
  BY <1>1, RecordingBoundsAreNat DEF MembershipRestart, Again, NextPart
<1>2. ASSUME BuildRejected PROVE StepByStep'
  BY <1>2, RecordingBoundsAreNat DEF BuildRejected, Fail
<1>3. ASSUME NEW w \in Writers, SpawnWriter(w) PROVE StepByStep'
  BY <1>3, RecordingBoundsAreNat DEF SpawnWriter
<1>4. ASSUME NEW w \in Writers, OpenPart(w) PROVE StepByStep'
  BY <1>4, RecordingBoundsAreNat DEF OpenPart
<1>5. ASSUME NEW w \in Writers, WriteChunk(w) PROVE StepByStep'
  BY <1>5, RecordingBoundsAreNat DEF WriteChunk
<1>6. ASSUME NEW w \in Writers, WriterExits(w) PROVE StepByStep'
  BY <1>6, RecordingBoundsAreNat DEF WriterExits, Again, Fail, NextPart
<1>7. ASSUME StopRecording PROVE StepByStep'
  BY <1>7, RecordingBoundsAreNat DEF StopRecording
<1>8. ASSUME ListParts PROVE StepByStep'
  BY ZenonT(60), <1>8, RecordingBoundsAreNat DEF ListParts
<1>9. ASSUME BeginRemux PROVE StepByStep'
  BY <1>9, RecordingBoundsAreNat DEF BeginRemux
<1>10. ASSUME RemuxOpens PROVE StepByStep'
  BY <1>10, RecordingBoundsAreNat DEF RemuxOpens
<1>11. ASSUME NEW ok \in BOOLEAN, RemuxExits(ok) PROVE StepByStep'
  BY <1>11, RecordingBoundsAreNat DEF RemuxExits, Finished
<1>12. ASSUME StatMp4 PROVE StepByStep'
  BY <1>12, RecordingBoundsAreNat DEF StatMp4
<1>13. ASSUME StoreSize PROVE StepByStep'
  BY <1>13, RecordingBoundsAreNat DEF StoreSize
<1>14. ASSUME RecordingReady PROVE StepByStep'
  BY <1>14, RecordingBoundsAreNat DEF RecordingReady
<1>15. ASSUME NEW k \in Parts, RemovePart(k) PROVE StepByStep'
  BY <1>15, RecordingBoundsAreNat DEF RemovePart
<1>16. ASSUME RemoveFiles PROVE StepByStep'
  BY <1>16, RecordingBoundsAreNat DEF RemoveFiles
<1>17. ASSUME RemoveMetadata PROVE StepByStep'
  BY <1>17, RecordingBoundsAreNat DEF RemoveMetadata
<1>18. ASSUME ServerStops PROVE StepByStep'
  BY <1>18, RecordingBoundsAreNat DEF ServerStops
<1> QED BY <1>1, <1>2, <1>3, <1>4, <1>5, <1>6, <1>7, <1>8, <1>9, <1>10, <1>11, <1>12, <1>13, <1>14, <1>15, <1>16, <1>17, <1>18 DEF RecordingNext

LEMMA NothingDroppedStep ==
    ASSUME RecordingIInv, RecordingNext
    PROVE  NothingDropped'
<1> USE DEF RecordingIInv, RecordingTyped, RemovedTogether, PartsApart, StepByStep, NothingDropped, OfPart, pipelines, files, recordingPast
<1>1. ASSUME MembershipRestart PROVE NothingDropped'
  BY <1>1, RecordingBoundsAreNat DEF MembershipRestart, Again, NextPart
<1>2. ASSUME BuildRejected PROVE NothingDropped'
  BY <1>2, RecordingBoundsAreNat DEF BuildRejected, Fail
<1>3. ASSUME NEW w \in Writers, SpawnWriter(w) PROVE NothingDropped'
  BY <1>3, RecordingBoundsAreNat DEF SpawnWriter
<1>4. ASSUME NEW w \in Writers, OpenPart(w) PROVE NothingDropped'
  BY <1>4, RecordingBoundsAreNat DEF OpenPart
<1>5. ASSUME NEW w \in Writers, WriteChunk(w) PROVE NothingDropped'
  BY <1>5, RecordingBoundsAreNat DEF WriteChunk
<1>6. ASSUME NEW w \in Writers, WriterExits(w) PROVE NothingDropped'
  BY <1>6, RecordingBoundsAreNat DEF WriterExits, Again, Fail, NextPart
<1>7. ASSUME StopRecording PROVE NothingDropped'
  BY <1>7, RecordingBoundsAreNat DEF StopRecording
<1>8. ASSUME ListParts PROVE NothingDropped'
  BY <1>8, RecordingBoundsAreNat DEF ListParts
<1>9. ASSUME BeginRemux PROVE NothingDropped'
  BY <1>9, RecordingBoundsAreNat DEF BeginRemux
<1>10. ASSUME RemuxOpens PROVE NothingDropped'
  BY <1>10, RecordingBoundsAreNat DEF RemuxOpens
<1>11. ASSUME NEW ok \in BOOLEAN, RemuxExits(ok) PROVE NothingDropped'
  BY <1>11, RecordingBoundsAreNat DEF RemuxExits, Finished
<1>12. ASSUME StatMp4 PROVE NothingDropped'
  BY <1>12, RecordingBoundsAreNat DEF StatMp4
<1>13. ASSUME StoreSize PROVE NothingDropped'
  BY <1>13, RecordingBoundsAreNat DEF StoreSize
<1>14. ASSUME RecordingReady PROVE NothingDropped'
  BY <1>14, RecordingBoundsAreNat DEF RecordingReady
<1>15. ASSUME NEW k \in Parts, RemovePart(k) PROVE NothingDropped'
  BY <1>15, RecordingBoundsAreNat DEF RemovePart
<1>16. ASSUME RemoveFiles PROVE NothingDropped'
  BY <1>16, RecordingBoundsAreNat DEF RemoveFiles
<1>17. ASSUME RemoveMetadata PROVE NothingDropped'
  BY <1>17, RecordingBoundsAreNat DEF RemoveMetadata
<1>18. ASSUME ServerStops PROVE NothingDropped'
  BY <1>18, RecordingBoundsAreNat DEF ServerStops
<1> QED BY <1>1, <1>2, <1>3, <1>4, <1>5, <1>6, <1>7, <1>8, <1>9, <1>10, <1>11, <1>12, <1>13, <1>14, <1>15, <1>16, <1>17, <1>18 DEF RecordingNext

LEMMA RecordingStepPreserves == RecordingIInv /\ [RecordingNext]_recordingVars => RecordingIInv'
<1> SUFFICES ASSUME RecordingIInv, [RecordingNext]_recordingVars PROVE RecordingIInv'
  OBVIOUS
<1>1. CASE RecordingNext
  BY <1>1, RecordingTypedStep, RemovedTogetherStep, ChunksOnceStep, PartsApartStep,
     StepByStepStep, NothingDroppedStep DEF RecordingIInv
<1>2. CASE UNCHANGED recordingVars
  <2> USE <1>2 DEF recordingVars, pipelines, files, recordingPast
  <2>1. RecordingTyped'
    BY DEF RecordingIInv, RecordingTyped
  <2>2. RemovedTogether' /\ ChunksOnce'
    BY DEF RecordingIInv, RemovedTogether, ChunksOnce, Written
  <2>3. PartsApart'
    BY DEF RecordingIInv, PartsApart, Busy
  <2>4. StepByStep' /\ NothingDropped'
    BY DEF RecordingIInv, StepByStep, NothingDropped
  <2> QED BY <2>1, <2>2, <2>3, <2>4 DEF RecordingIInv
<1> QED BY <1>1, <1>2

-----------------------------------------------------------------------------
(* What is served.                                                         *)

\* The bytes of a file of n bytes that a header names.
Asked(h, n) ==
    {b \in 0 .. n - 1 :
        IF h.first = Absent THEN h.last # Absent /\ b >= n - h.last
        ELSE b >= h.first /\ (h.last = Absent \/ b <= h.last)}

\* parseRange takes of every file the bytes that are named, and refuses when
\* there are none.
LEMMA RangeIsExact ==
    ASSUME NEW n \in Nat, NEW h \in Headers
    PROVE  IF Asked(h, n) = {} THEN ParseRange(h, n) = "unsatisfiable"
           ELSE ParseRange(h, n).start .. ParseRange(h, n).end = Asked(h, n)
<1> DEFINE start == IF h.first = Absent THEN IF h.last > n THEN 0 ELSE n - h.last ELSE h.first
           end == IF h.first = Absent \/ h.last = Absent \/ h.last >= n THEN n - 1 ELSE h.last
           refused == \/ h.first = Absent /\ h.last \in {Absent, 0}
                      \/ n = 0 \/ start >= n \/ end < start
<1>1. /\ h.first \in Int /\ h.first >= -1 /\ h.last \in Int /\ h.last >= -1
      /\ start \in Int /\ end \in Int
  BY RecordingBoundsAreNat DEF Headers, Absent
<1>2. ParseRange(h, n) = IF refused THEN "unsatisfiable" ELSE [start |-> start, end |-> end]
  BY DEF ParseRange
<1>3. ASSUME refused PROVE Asked(h, n) = {}
  BY <1>1, <1>3 DEF Asked, Absent
<1>4. ASSUME ~refused PROVE start .. end = Asked(h, n) /\ start \in Asked(h, n)
  <2>1. start \in 0 .. n - 1 /\ end \in 0 .. n - 1 /\ start <= end
    BY <1>1, <1>4 DEF Absent
  <2>2. \A b \in 0 .. n - 1 :
           b \in start .. end <=> IF h.first = Absent THEN h.last # Absent /\ b >= n - h.last
                                 ELSE b >= h.first /\ (h.last = Absent \/ b <= h.last)
    BY <1>1, <1>4, <2>1 DEF Absent
  <2> QED BY <2>1, <2>2 DEF Asked
<1> HIDE DEF start, end, refused
<1> QED BY <1>2, <1>3, <1>4

-----------------------------------------------------------------------------

\* Wherever pipelines fail and restart, however the remux ends, wherever the
\* server stops and whenever somebody downloads or removes the recording:
\* what was recorded before the end is kept, and what was announced is served
\* whole, with its size, and of each range the bytes it names.
THEOREM RecordingsAreKept == RecordingSpec => []RecordingInv
<1>1. RecordingIInv => RecordingInv
  <2> SUFFICES ASSUME RecordingIInv PROVE RecordingInv
    OBVIOUS
  <2>1. RecordingTypeOK
    <3>1. ~dir => opened = {} /\ mp4 = NoFile
      BY DEF RecordingIInv, RemovedTogether
    <3> QED BY <3>1 DEF RecordingIInv, RecordingTyped, RecordingTypeOK
  <2>2. ReadyIsServed
    <3> SUFFICES ASSUME ready, ~deleted PROVE ReadyIsServed
      BY DEF ReadyIsServed
    <3>1. /\ mp4.is = "whole" /\ size = Cardinality(mp4.has)
          /\ entangled \/ early \subseteq mp4.has
      BY DEF RecordingIInv, StepByStep
    <3>2. size \in Nat
      BY <3>1, AtMostOneSizeEach, RecordingBoundsAreNat DEF RecordingIInv, RecordingTyped, Written
    <3> QED BY <3>1, <3>2, RangeIsExact DEF ReadyIsServed, Asked
  <2> QED BY <2>1, <2>2 DEF RecordingIInv, RecordingInv
<1> QED BY <1>1, RecordingInitHolds, RecordingStepPreserves, PTL DEF RecordingSpec

-----------------------------------------------------------------------------
(***************************************************************************)
(* Proof, for any number of browsers, tabs, requests and administrators,   *)
(* that a refresh token is taken for a stolen one only when something      *)
(* overtook its refresh, and that a lock has as many wrong passwords behind*)
(* it as it takes.  The tokens carry the first: whoever holds the newest one*)
(* is the browser or a single refresh, unless two overlapped.              *)
(***************************************************************************)

Tokens == [n : 0 .. minted, v : Nat]
Kinds == {"none", "call", "right", "wrong", "logout"}
AuthRequests == [kind : Kinds, at : Stages, again : BOOLEAN,
             waits : Nat, attempts : Nat, v : Nat]
RefreshStages == {"none", "asked", "valid", "reuse", "minted", "stored", "refused"}

JarTyped == jar \in [Devices -> [access : BOOLEAN, v : Nat, refresh : Tokens]]
ReqsTyped == req \in [Tabs -> [Slots -> AuthRequests]]
RefreshesTyped == refresh \in [Tabs -> [Slots -> [at : RefreshStages, token : Tokens]]]
AuthTyped ==
    /\ minted \in Nat /\ hash \in 0 .. minted /\ version \in Nat
    /\ attempts \in Nat /\ tried \in Nat /\ lock \in {"none", "ahead", "past"}
    /\ JarTyped /\ ReqsTyped /\ RefreshesTyped
    /\ admins \subseteq Admins /\ demoting \subseteq Admins

\* The request that started a refresh waits for it, and so does whoever waits;
\* a tab refreshes once at a time.
RefreshAwaited ==
    \A t \in Tabs, s \in Slots :
       /\ refresh[t][s].at # "none" =>
             /\ req[t][s].at = "waiting" /\ req[t][s].waits = s
             /\ \A r \in Slots : refresh[t][r].at # "none" => r = s
       /\ req[t][s].at = "waiting" =>
             req[t][s].waits \in Slots /\ refresh[t][req[t][s].waits].at # "none"

\* Without a cause, one rotation at a time
OneRotation ==
    causes = {} => \A t, u \in Tabs, s, r \in Slots : Rotates(t, s) /\ Rotates(u, r) => t = u /\ s = r

\* and one device with a token,
OneHolder ==
    causes = {} => \A d, e \in Devices : jar[d].refresh.n # 0 /\ jar[e].refresh.n # 0 => d = e

\* The account has moved on, and the device does not know yet.
HashAhead ==
    \E t \in Tabs, s \in Slots : refresh[t][s].at = "stored" \/ req[t][s].at = "issued"

\* which is the token of the account, unless an answer with the new one is on
\* its way.
TokenIsCurrent ==
    causes = {} =>
      /\ ~HashAhead => \A d \in Devices : hash = 0 \/ jar[d].refresh.n \in {0, hash}
      /\ \A t \in Tabs, s \in Slots :
            /\ refresh[t][s].at \in {"asked", "valid"} =>
                  refresh[t][s].token = jar[DeviceOf[t]].refresh
            /\ refresh[t][s].at \in {"valid", "minted", "stored"} \/ req[t][s].at = "issued" =>
                  \A d \in Devices : jar[d].refresh.n # 0 => d = DeviceOf[t]
            /\ refresh[t][s].at = "stored" => hash = refresh[t][s].token.n
            /\ req[t][s].at = "issued" => hash = req[t][s].attempts

IssuedIsMinted ==
    \A t \in Tabs, s \in Slots : req[t][s].at = "issued" => req[t][s].attempts \in 1 .. minted

\* Who is compared has read a count, and who is issued tokens or logs out is.
StagesOfKinds ==
    /\ \A d \in Devices : jar[d].refresh.n = 0 => jar[d].refresh = NoToken
    /\ \A t \in Tabs, s \in Slots :
          /\ req[t][s].at \in {"reset", "compare"} => req[t][s].attempts <= tried
          /\ req[t][s].at \in {"issue", "issued", "right"} => req[t][s].kind = "right"
          /\ req[t][s].at \in {"logout", "cleared"} => req[t][s].kind = "logout"
          /\ refresh[t][s].token.n = 0 => refresh[t][s].token = NoToken
          /\ refresh[t][s].at = "valid" => refresh[t][s].token.n # 0

AuthIInv ==
    /\ AuthTyped /\ RefreshAwaited /\ OneRotation /\ OneHolder /\ TokenIsCurrent /\ StagesOfKinds
    /\ IssuedIsMinted
    /\ ReuseHasCause /\ LockNeedsFailures

-----------------------------------------------------------------------------
LEMMA SlotsAreNat == Slots \subseteq Nat /\ 0 \notin Slots
BY BoundsArePositive DEF Slots

(* What the steps change, cell by cell.                                    *)

SameElsewhere(f, g, t, s) == \A u \in Tabs, r \in Slots : u # t \/ r # s => g[u][r] = f[u][r]

\* A request is sent: it begins on the server, or is denied, or is over.
Sent(t, s, k) ==
    /\ ReqsTyped' /\ SameElsewhere(req, req', t, s)
    /\ req'[t][s].kind = k
    /\ req'[t][s].at \in {"idle", "denied"} \/ (req'[t][s].at = k /\ k \in {"right", "wrong", "logout"})
    /\ causes' = causes \cup (IF req'[t][s].at \in {"right", "logout"} THEN Overlap(t, k) ELSE {})

\* A request is at the stage at, and otherwise as it was.
Staged(t, s, at) ==
    /\ ReqsTyped' /\ SameElsewhere(req, req', t, s)
    /\ req'[t][s].at = at
    /\ req'[t][s].kind = req[t][s].kind /\ req'[t][s].attempts = req[t][s].attempts

\* So is a refresh.
RefreshStaged(t, s, at) ==
    /\ RefreshesTyped' /\ SameElsewhere(refresh, refresh', t, s)
    /\ refresh'[t][s].at = at /\ refresh'[t][s].token = refresh[t][s].token

\* The refresh of a tab is over, and nobody in the tab waits any more.
IsOver(t, s) ==
    /\ ReqsTyped' /\ RefreshesTyped'
    /\ SameElsewhere(refresh, refresh', t, s) /\ refresh'[t][s] = NoRefresh
    /\ \A u \in Tabs, r \in Slots :
          \/ req'[u][r] = req[u][r] /\ (u = t => req[u][r].at # "waiting")
          \/ u = t /\ req'[u][r].at \in {"again", "idle"}

LEMMA ReqReplaced ==
    ASSUME AuthTyped, NEW t \in Tabs, NEW s \in Slots, NEW x \in AuthRequests,
           req' = [req EXCEPT ![t][s] = x]
    PROVE  ReqsTyped' /\ SameElsewhere(req, req', t, s) /\ req'[t][s] = x
<1>1. AuthRequests' = AuthRequests
  BY DEF AuthRequests
<1> HIDE DEF AuthRequests
<1>2. req' \in [Tabs -> [Slots -> AuthRequests]]
  BY DEF AuthTyped, JarTyped, ReqsTyped, RefreshesTyped
<1>3. SameElsewhere(req, req', t, s) /\ req'[t][s] = x
  BY DEF AuthTyped, JarTyped, ReqsTyped, RefreshesTyped, SameElsewhere
<1> QED BY <1>1, <1>2, <1>3 DEF ReqsTyped

LEMMA RefreshReplaced ==
    ASSUME AuthTyped, UNCHANGED minted, NEW t \in Tabs, NEW s \in Slots,
           NEW x \in [at : RefreshStages, token : Tokens],
           refresh' = [refresh EXCEPT ![t][s] = x]
    PROVE  RefreshesTyped' /\ SameElsewhere(refresh, refresh', t, s) /\ refresh'[t][s] = x
<1> DEFINE C == [at : RefreshStages, token : Tokens]
<1>1. C' = C
  BY DEF Tokens
<1>2. x \in C /\ refresh \in [Tabs -> [Slots -> C]]
  BY DEF AuthTyped, JarTyped, ReqsTyped, RefreshesTyped
<1> HIDE DEF C
<1>3. refresh' \in [Tabs -> [Slots -> C]]
  BY <1>2
<1>4. SameElsewhere(refresh, refresh', t, s) /\ refresh'[t][s] = x
  BY <1>2 DEF SameElsewhere
<1> QED BY <1>1, <1>3, <1>4 DEF RefreshesTyped, C

LEMMA CellsTyped ==
    ASSUME AuthTyped, NEW t \in Tabs, NEW s \in Slots
    PROVE  /\ req[t][s] \in AuthRequests
           /\ refresh[t][s].at \in RefreshStages /\ refresh[t][s].token \in Tokens
           /\ refresh[t][s] = [at |-> refresh[t][s].at, token |-> refresh[t][s].token]
           /\ DeviceOf[t] \in Devices /\ jar[DeviceOf[t]].refresh \in Tokens
<1>1. req[t][s] \in AuthRequests /\ DeviceOf[t] \in Devices
  BY TabsHaveDevices DEF AuthTyped, JarTyped, ReqsTyped, RefreshesTyped
<1>2. refresh[t][s] \in [at : RefreshStages, token : Tokens]
  BY DEF AuthTyped, JarTyped, ReqsTyped, RefreshesTyped
<1>3. jar[DeviceOf[t]].refresh \in Tokens
  BY <1>1 DEF AuthTyped, JarTyped, ReqsTyped, RefreshesTyped
<1> QED BY <1>1, <1>2, <1>3

LEMMA NoTokenIsOne == AuthTyped => NoToken \in Tokens /\ NoRefresh = [at |-> "none", token |-> NoToken]
BY DEF AuthTyped, JarTyped, ReqsTyped, RefreshesTyped, NoToken, NoRefresh, Tokens

LEMMA IdleIsRequest == IdleReq \in AuthRequests /\ IdleReq.at = "idle"
BY DEF IdleReq, AuthRequests, Stages, Kinds

LEMMA SendReqEffect ==
    ASSUME AuthTyped, NEW t \in Tabs, NEW s \in Slots, NEW k \in Kinds,
           NEW again \in BOOLEAN, SendReq(t, s, k, again)
    PROVE  Sent(t, s, k)
<1> DEFINE starts == k \in {"right", "wrong"} \/ (k = "logout" /\ Authentic(t))
           at == IF starts THEN k
                 ELSE IF k = "call" /\ Authentic(t) THEN "idle"
                 ELSE IF again THEN "idle" ELSE "denied"
           x == [IdleReq EXCEPT !.kind = k, !.again = again, !.at = at]
<1>1. /\ req' = [req EXCEPT ![t][s] = x]
      /\ causes' = causes \cup (IF starts /\ k # "wrong" THEN Overlap(t, k) ELSE {})
  BY DEF SendReq
<1>2. /\ at \in {"idle", "denied"} \/ (at = k /\ k \in {"right", "wrong", "logout"})
      /\ starts /\ k # "wrong" <=> at \in {"right", "logout"}
  BY DEF Kinds
<1>3. x \in AuthRequests /\ x.kind = k /\ x.at = at
  BY <1>2 DEF IdleReq, AuthRequests, Stages, Kinds
<1> HIDE DEF starts, at, x
<1>4. ReqsTyped' /\ SameElsewhere(req, req', t, s) /\ req'[t][s] = x
  BY <1>1, <1>3, ReqReplaced
<1> QED BY <1>1, <1>2, <1>3, <1>4 DEF Sent

LEMMA StageEffect ==
    ASSUME AuthTyped, NEW t \in Tabs, NEW s \in Slots, NEW at \in Stages,
           req' = [req EXCEPT ![t][s].at = at]
    PROVE  Staged(t, s, at)
<1> DEFINE q == req[t][s]
           x == [q EXCEPT !.at = at]
<1>1. req' = [req EXCEPT ![t][s] = x]
  OBVIOUS
<1>2. x \in AuthRequests
  <2>1. q \in AuthRequests
    BY CellsTyped
  <2> HIDE DEF q
  <2> QED BY <2>1 DEF AuthRequests
<1> HIDE DEF x
<1>3. ReqsTyped' /\ SameElsewhere(req, req', t, s) /\ req'[t][s] = x
  BY <1>1, <1>2, ReqReplaced
<1>4. x.at = at /\ x.kind = q.kind /\ x.attempts = q.attempts
  <2>1. q \in AuthRequests
    BY CellsTyped
  <2> HIDE DEF q
  <2> QED BY <2>1 DEF x, AuthRequests
<1> QED BY <1>3, <1>4 DEF Staged

LEMMA RefreshStageEffect ==
    ASSUME AuthTyped, NEW t \in Tabs, NEW s \in Slots, NEW at \in RefreshStages,
           RefreshAt(t, s, at),
           UNCHANGED minted
    PROVE  RefreshStaged(t, s, at)
<1> DEFINE q == refresh[t][s]
           x == [q EXCEPT !.at = at]
<1>1. refresh' = [refresh EXCEPT ![t][s] = x]
  BY DEF RefreshAt
<1>2. x \in [at : RefreshStages, token : Tokens]
  <2>1. q \in [at : RefreshStages, token : Tokens]
    BY DEF AuthTyped, JarTyped, ReqsTyped, RefreshesTyped
  <2> HIDE DEF q
  <2> QED BY <2>1
<1> HIDE DEF x
<1>3. RefreshesTyped' /\ SameElsewhere(refresh, refresh', t, s) /\ refresh'[t][s] = x
  BY <1>1, <1>2, RefreshReplaced
<1>4. x.at = at /\ x.token = q.token
  <2>1. q \in [at : RefreshStages, token : Tokens]
    BY DEF AuthTyped, RefreshesTyped
  <2> HIDE DEF q
  <2> QED BY <2>1 DEF x
<1> QED BY <1>3, <1>4 DEF RefreshStaged

LEMMA LoginDeniedEffect ==
    ASSUME AuthTyped, NEW t \in Tabs, NEW s \in Slots, LoginDenied(t, s)
    PROVE  /\ ReqsTyped' /\ SameElsewhere(req, req', t, s)
           /\ req'[t][s].at \in {"idle", "denied"}
<1> DEFINE q == req[t][s]
           x == IF q.again THEN IdleReq ELSE [q EXCEPT !.at = "denied"]
<1>1. req' = [req EXCEPT ![t][s] = x]
  BY DEF LoginDenied
<1>2. x \in AuthRequests /\ x.at \in {"idle", "denied"}
  <2>1. q \in AuthRequests
    BY CellsTyped
  <2> HIDE DEF q
  <2> QED BY <2>1, IdleIsRequest DEF AuthRequests, Stages
<1> HIDE DEF x
<1> QED BY <1>1, <1>2, ReqReplaced

LEMMA ReadAccountEffect ==
    ASSUME AuthTyped, NEW t \in Tabs, NEW s \in Slots, ReadAccount(t, s)
    PROVE  /\ ReqsTyped' /\ SameElsewhere(req, req', t, s)
           /\ \/ req'[t][s].at \in {"idle", "denied"}
              \/ /\ req'[t][s].at \in {"reset", "compare"} /\ req'[t][s].kind = req[t][s].kind
                 /\ req'[t][s].attempts \in {0, attempts}
<1>1. CASE lock = "ahead"
  BY <1>1, LoginDeniedEffect DEF ReadAccount
<1>2. CASE lock # "ahead"
  <2> DEFINE at == IF lock = "past" THEN "reset" ELSE "compare"
             n == IF lock = "past" THEN 0 ELSE attempts
             q == req[t][s]
             x == [q EXCEPT !.at = at, !.attempts = n, !.v = version]
  <2>1. req' = [req EXCEPT ![t][s] = x]
    BY <1>2 DEF ReadAccount
  <2>2. x \in AuthRequests /\ x.at \in {"reset", "compare"} /\ x.kind = req[t][s].kind /\ x.attempts \in {0, attempts}
    <3>1. q \in AuthRequests /\ version \in Nat /\ n \in Nat /\ at \in {"reset", "compare"} /\ n \in {0, attempts}
      BY CellsTyped DEF AuthTyped, JarTyped, ReqsTyped, RefreshesTyped
    <3> HIDE DEF q, n, at
    <3>2. x \in AuthRequests
      BY <3>1 DEF AuthRequests, Stages
    <3>3. x.at = at /\ x.attempts = n /\ x.kind = q.kind
      BY <3>1 DEF AuthRequests
    <3> HIDE DEF x
    <3> QED BY <3>1, <3>2, <3>3 DEF q
  <2> HIDE DEF x
  <2> QED BY ZenonT(60), <2>1, <2>2, ReqReplaced
<1> QED BY <1>1, <1>2

LEMMA IssueTokensEffect ==
    ASSUME AuthTyped, NEW t \in Tabs, NEW s \in Slots, IssueTokens(t, s)
    PROVE  /\ ReqsTyped' /\ SameElsewhere(req, req', t, s)
           /\ req'[t][s].at = "issued" /\ req'[t][s].attempts = minted + 1
           /\ req'[t][s].kind = req[t][s].kind
<1> DEFINE q == req[t][s]
           x == [q EXCEPT !.at = "issued", !.attempts = minted + 1]
<1>1. req' = [req EXCEPT ![t][s] = x]
  BY DEF IssueTokens
<1>2. x \in AuthRequests /\ x.at = "issued" /\ x.attempts = minted + 1 /\ x.kind = req[t][s].kind
  <2>1. q \in AuthRequests /\ minted + 1 \in Nat
    BY CellsTyped DEF AuthTyped, JarTyped, ReqsTyped, RefreshesTyped
  <2> HIDE DEF q
  <2>2. x \in AuthRequests
    BY <2>1 DEF AuthRequests, Stages
  <2>3. x.at = "issued" /\ x.attempts = minted + 1 /\ x.kind = q.kind
    BY <2>1 DEF AuthRequests
  <2> HIDE DEF x
  <2> QED BY <2>2, <2>3 DEF q
<1> HIDE DEF x
<1> QED BY ZenonT(60), <1>1, <1>2, ReqReplaced

CookiesArriveDoes(t, s) ==
    /\ ReqsTyped' /\ SameElsewhere(req, req', t, s) /\ req'[t][s] = IdleReq
    /\ JarTyped'
    /\ \A d \in Devices : d # DeviceOf[t] => jar'[d] = jar[d]
    /\ req[t][s].at = "cleared" => jar'[DeviceOf[t]] = NoCookies
    /\ req[t][s].at = "issued" =>
          jar'[DeviceOf[t]].refresh = [n |-> req[t][s].attempts, v |-> req[t][s].v]
    /\ req[t][s].at \in {"issued", "cleared"}
    /\ UNCHANGED <<hash, version, attempts, lock, minted, refresh, admins, demoting, tried, causes>>

LEMMA CookiesArriveChanges ==
    ASSUME AuthTyped, RefreshAwaited, IssuedIsMinted, NEW t \in Tabs, NEW s \in Slots,
           CookiesArrive(t, s)
    PROVE  CookiesArriveDoes(t, s)
<1> DEFINE x == IF req[t][s].at = "cleared" THEN NoCookies
                ELSE [access |-> TRUE, v |-> req[t][s].v, refresh |-> [n |-> req[t][s].attempts, v |-> req[t][s].v]]
<1>1. jar' = [jar EXCEPT ![DeviceOf[t]] = x] /\ req' = [req EXCEPT ![t][s] = IdleReq]
  BY DEF CookiesArrive
<1>2. IdleReq \in AuthRequests
  BY IdleIsRequest
<1>3. x \in [access : BOOLEAN, v : Nat, refresh : Tokens]
  BY DEF CookiesArrive, AuthTyped, JarTyped, ReqsTyped, RefreshesTyped, AuthRequests, Tokens,
     NoCookies, NoToken, IssuedIsMinted
<1>4. DeviceOf[t] \in Devices
  BY TabsHaveDevices
<1>5. ReqsTyped' /\ SameElsewhere(req, req', t, s) /\ req'[t][s] = IdleReq
  BY <1>1, <1>2, ReqReplaced
<1>6. jar'[DeviceOf[t]] = x
  BY <1>1, <1>4 DEF AuthTyped, JarTyped, ReqsTyped, RefreshesTyped
<1>7. /\ req[t][s].at \in {"issued", "cleared"}
      /\ UNCHANGED <<hash, version, attempts, lock, minted, refresh, admins, demoting, tried, causes>>
  BY DEF CookiesArrive, account, roles
<1>8. JarTyped'
  BY <1>1, <1>3, <1>7 DEF AuthTyped, JarTyped, Tokens
<1>9. \A d \in Devices : d # DeviceOf[t] => jar'[d] = jar[d]
  BY <1>1 DEF AuthTyped, JarTyped
<1> QED BY <1>5, <1>6, <1>7, <1>8, <1>9 DEF CookiesArriveDoes

DeniedDoes(t, s) ==
    /\ ReqsTyped' /\ SameElsewhere(req, req', t, s)
    /\ req'[t][s].at = "waiting" /\ req'[t][s].waits \in Slots
    /\ RefreshesTyped' /\ SameElsewhere(refresh, refresh', t, s)
    /\ \/ /\ \A r \in Slots : refresh[t][r].at = "none"
          /\ req'[t][s].waits = s
          /\ refresh'[t][s] = [at |-> "asked", token |-> jar[DeviceOf[t]].refresh]
          /\ causes' = causes \cup Overlap(t, "refresh")
       \/ /\ refresh' = refresh /\ causes' = causes
          /\ refresh[t][req'[t][s].waits].at # "none"
    /\ req[t][s].at = "denied" /\ refresh[t][s].at = "none"
    /\ UNCHANGED <<hash, version, attempts, lock, minted, jar, admins, demoting, tried>>

LEMMA DeniedChanges ==
    ASSUME AuthTyped, RefreshAwaited, NEW t \in Tabs, NEW s \in Slots, Denied(t, s)
    PROVE  DeniedDoes(t, s)
<1>1. /\ req[t][s].at = "denied" /\ refresh[t][s].at = "none"
      /\ UNCHANGED <<hash, version, attempts, lock, minted, jar, admins, demoting, tried>>
  BY DEF Denied, RefreshAwaited, account, roles
<1>2. CASE StartsRefresh(t)
  <2> DEFINE q == req[t][s]
             x == [q EXCEPT !.at = "waiting", !.waits = s]
             y == [at |-> "asked", token |-> jar[DeviceOf[t]].refresh]
  <2>1. req' = [req EXCEPT ![t][s] = x]
    BY <1>2 DEF Denied
  <2>6. refresh' = [refresh EXCEPT ![t][s] = y] /\ causes' = causes \cup Overlap(t, "refresh")
    BY <1>2 DEF Denied
  <2>2. x \in AuthRequests /\ x.at = "waiting" /\ x.waits = s
    <3>1. q \in AuthRequests /\ s \in Nat
      BY SlotsAreNat, CellsTyped
    <3> HIDE DEF q
    <3> QED BY <3>1 DEF AuthRequests, Stages
  <2> HIDE DEF x, y
  <2>4. ReqsTyped' /\ SameElsewhere(req, req', t, s) /\ req'[t][s] = x
    <3>1. x \in AuthRequests
      BY <2>2
    <3> QED BY <2>1, <3>1, ReqReplaced
  <2>5. RefreshesTyped' /\ SameElsewhere(refresh, refresh', t, s) /\ refresh'[t][s] = y
    <3>1. y \in [at : RefreshStages, token : Tokens]
      BY CellsTyped DEF y, RefreshStages
    <3> QED BY <1>1, <2>6, <3>1, RefreshReplaced
  <2> QED BY <1>1, <1>2, <2>6, <2>2, <2>4, <2>5 DEF StartsRefresh, y, DeniedDoes
<1>3. CASE ~StartsRefresh(t)
  <2> DEFINE w == CHOOSE r \in Slots : refresh[t][r].at # "none"
             q == req[t][s]
             x == [q EXCEPT !.at = "waiting", !.waits = w]
  <2>1. w \in Slots /\ refresh[t][w].at # "none"
    BY <1>3 DEF StartsRefresh
  <2>2. req' = [req EXCEPT ![t][s] = x] /\ refresh' = refresh /\ causes' = causes
    BY <1>3 DEF Denied
  <2> HIDE DEF w
  <2>3. x \in AuthRequests /\ x.at = "waiting" /\ x.waits = w
    <3>1. q \in AuthRequests /\ w \in Nat
      BY <2>1, SlotsAreNat, CellsTyped
    <3> HIDE DEF q
    <3> QED BY <3>1 DEF AuthRequests, Stages
  <2> HIDE DEF x
  <2>4. ReqsTyped' /\ SameElsewhere(req, req', t, s) /\ req'[t][s] = x
    BY <2>2, <2>3, ReqReplaced
  <2>5. RefreshesTyped' /\ SameElsewhere(refresh, refresh', t, s)
    BY <1>1, <2>2 DEF AuthTyped, JarTyped, ReqsTyped, RefreshesTyped, SameElsewhere, Tokens
  <2> QED BY <1>1, <2>1, <2>2, <2>3, <2>4, <2>5 DEF DeniedDoes
<1> QED BY <1>2, <1>3

\* Whoever waits in the tab waits for this refresh.
LEMMA OverEffect ==
    ASSUME AuthTyped, RefreshAwaited, NEW t \in Tabs, NEW s \in Slots,
           refresh[t][s].at # "none",
           NEW at \in {"again", "failed"}, Over(t, s, at), UNCHANGED minted
    PROVE  IsOver(t, s)
<1> DEFINE new(r) == IF req[t][r].at = "waiting" /\ req[t][r].waits = s
                     THEN IF at = "again" THEN [req[t][r] EXCEPT !.at = "again"] ELSE IdleReq
                     ELSE req[t][r]
<1>1. /\ refresh' = [refresh EXCEPT ![t][s] = NoRefresh]
      /\ req' = [req EXCEPT ![t] = [r \in Slots |-> new(r)]]
  BY DEF Over
<1>2. \A r \in Slots : new(r) \in AuthRequests
  <2> SUFFICES ASSUME NEW r \in Slots PROVE new(r) \in AuthRequests
    OBVIOUS
  <2> DEFINE q == req[t][r]
  <2>1. q \in AuthRequests
    BY CellsTyped
  <2> HIDE DEF q
  <2>2. [q EXCEPT !.at = "again"] \in AuthRequests
    BY <2>1 DEF AuthRequests, Stages
  <2> QED BY <2>1, <2>2, IdleIsRequest DEF q
<1>3. \A r \in Slots : req[t][r].at = "waiting" => new(r).at \in {"again", "idle"}
  <2> SUFFICES ASSUME NEW r \in Slots, req[t][r].at = "waiting"
                      PROVE new(r).at \in {"again", "idle"}
    OBVIOUS
  <2> DEFINE q == req[t][r]
  <2>1. q.waits = s
    BY DEF RefreshAwaited
  <2>3. q \in AuthRequests
    BY CellsTyped
  <2> HIDE DEF q
  <2>2. (IF at = "again" THEN [q EXCEPT !.at = "again"] ELSE IdleReq).at \in {"again", "idle"}
    BY <2>3, IdleIsRequest DEF AuthRequests
  <2> QED BY <2>1, <2>2 DEF q
<1>4. \A r \in Slots : req[t][r].at # "waiting" => new(r) = req[t][r]
  OBVIOUS
<1>6. RefreshesTyped' /\ SameElsewhere(refresh, refresh', t, s) /\ refresh'[t][s] = NoRefresh
  <2>1. NoRefresh \in [at : RefreshStages, token : Tokens]
    BY NoTokenIsOne DEF RefreshStages
  <2> QED BY <1>1, <2>1, RefreshReplaced
<1> HIDE DEF new
<1>7. \A u \in Tabs, r \in Slots : req'[u][r] = IF u = t THEN new(r) ELSE req[u][r]
  BY <1>1 DEF AuthTyped, JarTyped, ReqsTyped, RefreshesTyped
<1>8. ReqsTyped'
  <2>1. AuthRequests' = AuthRequests
    BY DEF AuthRequests
  <2>2. req' \in [Tabs -> [Slots -> AuthRequests]]
    BY <1>1, <1>2 DEF AuthTyped, JarTyped, ReqsTyped, RefreshesTyped
  <2> QED BY <2>1, <2>2 DEF ReqsTyped
<1> QED BY <1>3, <1>4, <1>6, <1>7, <1>8 DEF IsOver
RequestDoes(t, s, k) ==
    /\ req[t][s].at = "idle"
    /\ Sent(t, s, k)
    /\ UNCHANGED <<hash, version, attempts, lock, minted, jar, refresh, admins, demoting, tried>>

LEMMA RequestChanges ==
    ASSUME AuthTyped, RefreshAwaited, IssuedIsMinted, NEW t \in Tabs, NEW s \in Slots,
           NEW k \in {"call", "right", "wrong", "logout"}, Request(t, s, k)
    PROVE  RequestDoes(t, s, k)
<1>1. req[t][s].at = "idle"
  BY DEF Request, account, client, roles, history
<1>2. Sent(t, s, k)
  BY SendReqEffect DEF Request, account, client, roles, history, Kinds
<1>3. UNCHANGED <<hash, version, attempts, lock, minted, jar, refresh, admins, demoting, tried>>
  BY DEF Request, account, client, roles, history
<1> QED BY <1>1, <1>2, <1>3 DEF RequestDoes

ResendDoes(t, s) ==
    /\ req[t][s].at = "again"
    /\ req[t][s].kind \in Kinds
    /\ Sent(t, s, req[t][s].kind)
    /\ UNCHANGED <<hash, version, attempts, lock, minted, jar, refresh, admins, demoting, tried>>

LEMMA ResendChanges ==
    ASSUME AuthTyped, RefreshAwaited, IssuedIsMinted, NEW t \in Tabs, NEW s \in Slots,
           Resend(t, s)
    PROVE  ResendDoes(t, s)
<1>1. req[t][s].at = "again"
  BY DEF Resend, account, client, roles, history
<1>2. req[t][s].kind \in Kinds
  BY CellsTyped DEF AuthRequests
<1>3. Sent(t, s, req[t][s].kind)
  BY <1>2, SendReqEffect DEF Resend, account, client, roles, history
<1>4. UNCHANGED <<hash, version, attempts, lock, minted, jar, refresh, admins, demoting, tried>>
  BY DEF Resend, account, client, roles, history
<1> QED BY <1>1, <1>2, <1>3, <1>4 DEF ResendDoes

RefreshAnsweredDoes(t, s) ==
    /\ refresh[t][s].at \in {"stored", "refused"}
    /\ IsOver(t, s)
    /\ JarTyped'
    /\ \A d \in Devices : d # DeviceOf[t] => jar'[d] = jar[d]
    /\ IF refresh[t][s].at = "stored" THEN jar'[DeviceOf[t]].refresh = refresh[t][s].token ELSE jar' = jar
    /\ UNCHANGED <<hash, version, attempts, lock, minted, admins, demoting, tried, causes>>

LEMMA RefreshAnsweredChanges ==
    ASSUME AuthTyped, RefreshAwaited, IssuedIsMinted, NEW t \in Tabs, NEW s \in Slots,
           RefreshAnswered(t, s)
    PROVE  RefreshAnsweredDoes(t, s)
<1>1. refresh[t][s].at \in {"stored", "refused"}
  BY DEF RefreshAnswered, account, client, roles, history
<1>2. IsOver(t, s)
  BY <1>1, OverEffect DEF RefreshAnswered, account, client, roles, history
<1>3. JarTyped'
  <2>1. CASE refresh[t][s].at = "stored"
    <3> DEFINE k == refresh[t][s].token
               x == [access |-> TRUE, v |-> k.v, refresh |-> k]
               C == [access : BOOLEAN, v : Nat, refresh : Tokens]
    <3>1. jar' = [jar EXCEPT ![DeviceOf[t]] = x] /\ UNCHANGED minted
      BY <2>1 DEF RefreshAnswered, account, client, roles, history
    <3>2. k \in Tokens
      BY CellsTyped
    <3> HIDE DEF k
    <3>3. x \in C /\ C' = C
      BY <3>1, <3>2 DEF Tokens
    <3> HIDE DEF x
    <3> QED BY <3>1, <3>3 DEF AuthTyped, JarTyped
  <2>2. CASE refresh[t][s].at # "stored"
    BY <2>2 DEF RefreshAnswered, account, client, roles, history, AuthTyped, JarTyped, Tokens
  <2> QED BY <2>1, <2>2
<1>4. \A d \in Devices : d # DeviceOf[t] => jar'[d] = jar[d]
  BY TabsHaveDevices DEF RefreshAnswered, account, client, roles, history, AuthTyped, JarTyped
<1>5. IF refresh[t][s].at = "stored" THEN jar'[DeviceOf[t]].refresh = refresh[t][s].token ELSE jar' = jar
  BY TabsHaveDevices DEF RefreshAnswered, account, client, roles, history, AuthTyped, JarTyped
<1>6. UNCHANGED <<hash, version, attempts, lock, minted, admins, demoting, tried, causes>>
  BY DEF RefreshAnswered, account, client, roles, history
<1> QED BY <1>1, <1>2, <1>3, <1>4, <1>5, <1>6 DEF RefreshAnsweredDoes

RefreshLostDoes(t, s) ==
    /\ refresh[t][s].at \in {"stored", "refused"}
    /\ IsOver(t, s)
    /\ causes' # {}
    /\ UNCHANGED <<hash, version, attempts, lock, minted, jar, admins, demoting, tried>>

LEMMA RefreshLostChanges ==
    ASSUME AuthTyped, RefreshAwaited, IssuedIsMinted, NEW t \in Tabs, NEW s \in Slots,
           RefreshLost(t, s)
    PROVE  RefreshLostDoes(t, s)
<1>1. refresh[t][s].at \in {"stored", "refused"}
  BY DEF RefreshLost, account, client, roles, history
<1>2. IsOver(t, s)
  BY <1>1, OverEffect DEF RefreshLost, account, client, roles, history
<1>3. causes' # {}
  BY DEF RefreshLost, account, client, roles, history
<1>4. UNCHANGED <<hash, version, attempts, lock, minted, jar, admins, demoting, tried>>
  BY DEF RefreshLost, account, client, roles, history
<1> QED BY <1>1, <1>2, <1>3, <1>4 DEF RefreshLostDoes

ValidateDoes(t, s) ==
    /\ refresh[t][s].at = "asked"
    /\ \/ RefreshStaged(t, s, "refused")
       \/ /\ RefreshStaged(t, s, "valid")
          /\ refresh[t][s].token.n = hash /\ hash # 0
       \/ /\ RefreshStaged(t, s, "reuse")
          /\ refresh[t][s].token.n # hash /\ hash # 0 /\ refresh[t][s].token # NoToken
    /\ UNCHANGED <<hash, version, attempts, lock, minted, jar, req, admins, demoting, tried, causes>>

LEMMA ValidateChanges ==
    ASSUME AuthTyped, RefreshAwaited, IssuedIsMinted, NEW t \in Tabs, NEW s \in Slots,
           Validate(t, s)
    PROVE  ValidateDoes(t, s)
<1>1. refresh[t][s].at = "asked"
  BY DEF Validate, account, client, roles, history
<1>2. \/ RefreshStaged(t, s, "refused")
              \/ /\ RefreshStaged(t, s, "valid")
                 /\ refresh[t][s].token.n = hash /\ hash # 0
              \/ /\ RefreshStaged(t, s, "reuse")
                 /\ refresh[t][s].token.n # hash /\ hash # 0 /\ refresh[t][s].token # NoToken
  BY RefreshStageEffect DEF Validate, account, client, roles, history, RefreshStages
<1>3. UNCHANGED <<hash, version, attempts, lock, minted, jar, req, admins, demoting, tried, causes>>
  BY DEF Validate, account, client, roles, history
<1> QED BY <1>1, <1>2, <1>3 DEF ValidateDoes

RevokeDoes(t, s) ==
    /\ refresh[t][s].at = "reuse" /\ hash' = 0
    /\ RefreshStaged(t, s, "refused")
    /\ UNCHANGED <<version, attempts, lock, minted, jar, req, admins, demoting, tried, causes>>

LEMMA RevokeChanges ==
    ASSUME AuthTyped, RefreshAwaited, IssuedIsMinted, NEW t \in Tabs, NEW s \in Slots,
           Revoke(t, s)
    PROVE  RevokeDoes(t, s)
<1>1. refresh[t][s].at = "reuse" /\ hash' = 0
  BY DEF Revoke, account, client, roles, history
<1>2. RefreshStaged(t, s, "refused")
  BY RefreshStageEffect DEF Revoke, account, client, roles, history, RefreshStages
<1>3. UNCHANGED <<version, attempts, lock, minted, jar, req, admins, demoting, tried, causes>>
  BY DEF Revoke, account, client, roles, history
<1> QED BY <1>1, <1>2, <1>3 DEF RevokeDoes

MintDoes(t, s) ==
    /\ refresh[t][s].at = "valid" /\ minted' = minted + 1
    /\ RefreshesTyped'
    /\ SameElsewhere(refresh, refresh', t, s)
    /\ refresh'[t][s] = [at |-> "minted", token |-> [n |-> minted + 1, v |-> version]]
    /\ UNCHANGED <<hash, version, attempts, lock, jar, req, admins, demoting, tried, causes>>

LEMMA MintChanges ==
    ASSUME AuthTyped, RefreshAwaited, IssuedIsMinted, NEW t \in Tabs, NEW s \in Slots,
           Mint(t, s)
    PROVE  MintDoes(t, s)
<1>1. refresh[t][s].at = "valid" /\ minted' = minted + 1
  BY DEF Mint, account, client, roles, history
<1>2. RefreshesTyped'
  BY DEF Mint, account, client, roles, history, AuthTyped, RefreshesTyped, RefreshStages, Tokens
<1>3. SameElsewhere(refresh, refresh', t, s)
  BY DEF Mint, account, client, roles, history, AuthTyped, RefreshesTyped, SameElsewhere
<1>4. refresh'[t][s] = [at |-> "minted", token |-> [n |-> minted + 1, v |-> version]]
  BY DEF Mint, account, client, roles, history, AuthTyped, RefreshesTyped
<1>5. UNCHANGED <<hash, version, attempts, lock, jar, req, admins, demoting, tried, causes>>
  BY DEF Mint, account, client, roles, history
<1> QED BY <1>1, <1>2, <1>3, <1>4, <1>5 DEF MintDoes

StoreHashDoes(t, s) ==
    /\ refresh[t][s].at = "minted" /\ hash' = refresh[t][s].token.n
    /\ RefreshStaged(t, s, "stored")
    /\ UNCHANGED <<version, attempts, lock, minted, jar, req, admins, demoting, tried, causes>>

LEMMA StoreHashChanges ==
    ASSUME AuthTyped, RefreshAwaited, IssuedIsMinted, NEW t \in Tabs, NEW s \in Slots,
           StoreHash(t, s)
    PROVE  StoreHashDoes(t, s)
<1>1. refresh[t][s].at = "minted" /\ hash' = refresh[t][s].token.n
  BY DEF StoreHash, account, client, roles, history
<1>2. RefreshStaged(t, s, "stored")
  BY RefreshStageEffect DEF StoreHash, account, client, roles, history, RefreshStages
<1>3. UNCHANGED <<version, attempts, lock, minted, jar, req, admins, demoting, tried, causes>>
  BY DEF StoreHash, account, client, roles, history
<1> QED BY <1>1, <1>2, <1>3 DEF StoreHashDoes

ReadAccountDoes(t, s) ==
    /\ req[t][s].at \in {"right", "wrong"}
    /\ ReqsTyped' /\ SameElsewhere(req, req', t, s)
    /\ \/ req'[t][s].at \in {"idle", "denied"}
       \/ /\ req'[t][s].at \in {"reset", "compare"}
          /\ req'[t][s].kind = req[t][s].kind /\ req'[t][s].attempts \in {0, attempts}
    /\ UNCHANGED <<hash, version, attempts, lock, minted, jar, refresh, admins, demoting, tried, causes>>

LEMMA ReadAccountChanges ==
    ASSUME AuthTyped, RefreshAwaited, IssuedIsMinted, NEW t \in Tabs, NEW s \in Slots,
           ReadAccount(t, s)
    PROVE  ReadAccountDoes(t, s)
<1>1. req[t][s].at \in {"right", "wrong"}
  BY DEF ReadAccount, account, client, roles, history
<1>2. ReqsTyped' /\ SameElsewhere(req, req', t, s)
  BY ReadAccountEffect
<1>3. \/ req'[t][s].at \in {"idle", "denied"}
              \/ /\ req'[t][s].at \in {"reset", "compare"}
                 /\ req'[t][s].kind = req[t][s].kind /\ req'[t][s].attempts \in {0, attempts}
  BY ReadAccountEffect
<1>4. UNCHANGED <<hash, version, attempts, lock, minted, jar, refresh, admins, demoting, tried, causes>>
  BY DEF ReadAccount, account, client, roles, history
<1> QED BY <1>1, <1>2, <1>3, <1>4 DEF ReadAccountDoes

ResetLockDoes(t, s) ==
    /\ req[t][s].at = "reset" /\ attempts' = 0 /\ lock' = "none"
    /\ Staged(t, s, "compare")
    /\ UNCHANGED <<hash, version, minted, jar, refresh, admins, demoting, tried, causes>>

LEMMA ResetLockChanges ==
    ASSUME AuthTyped, RefreshAwaited, IssuedIsMinted, NEW t \in Tabs, NEW s \in Slots,
           ResetLock(t, s)
    PROVE  ResetLockDoes(t, s)
<1>1. req[t][s].at = "reset" /\ attempts' = 0 /\ lock' = "none"
  BY DEF ResetLock, account, client, roles, history
<1>2. Staged(t, s, "compare")
  BY StageEffect DEF ResetLock, account, client, roles, history, ReqAt, Stages
<1>3. UNCHANGED <<hash, version, minted, jar, refresh, admins, demoting, tried, causes>>
  BY DEF ResetLock, account, client, roles, history
<1> QED BY <1>1, <1>2, <1>3 DEF ResetLockDoes

CountFailureDoes(t, s) ==
    /\ req[t][s].at = "compare" /\ req[t][s].kind = "wrong"
    /\ attempts' = req[t][s].attempts + 1 /\ tried' = tried + 1
    /\ lock' = IF req[t][s].attempts + 1 >= MaxAttempts THEN "ahead" ELSE lock
    /\ ReqsTyped' /\ SameElsewhere(req, req', t, s)
    /\ req'[t][s].at \in {"idle", "denied"}
    /\ UNCHANGED <<hash, version, minted, jar, refresh, admins, demoting, causes>>

LEMMA CountFailureChanges ==
    ASSUME AuthTyped, RefreshAwaited, IssuedIsMinted, NEW t \in Tabs, NEW s \in Slots,
           CountFailure(t, s)
    PROVE  CountFailureDoes(t, s)
<1>1. req[t][s].at = "compare" /\ req[t][s].kind = "wrong"
  BY DEF CountFailure, account, client, roles, history
<1>2. attempts' = req[t][s].attempts + 1 /\ tried' = tried + 1
  BY DEF CountFailure, account, client, roles, history
<1>3. lock' = IF req[t][s].attempts + 1 >= MaxAttempts THEN "ahead" ELSE lock
  BY DEF CountFailure, account, client, roles, history, Locks
<1>4. ReqsTyped' /\ SameElsewhere(req, req', t, s)
  BY LoginDeniedEffect DEF CountFailure, account, client, roles, history
<1>5. req'[t][s].at \in {"idle", "denied"}
  BY LoginDeniedEffect DEF CountFailure, account, client, roles, history
<1>6. UNCHANGED <<hash, version, minted, jar, refresh, admins, demoting, causes>>
  BY DEF CountFailure, account, client, roles, history
<1> QED BY <1>1, <1>2, <1>3, <1>4, <1>5, <1>6 DEF CountFailureDoes

ResetAttemptsDoes(t, s) ==
    /\ req[t][s].at = "compare" /\ req[t][s].kind = "right"
    /\ (attempts' = 0 /\ lock' = "none") \/ UNCHANGED <<attempts, lock>>
    /\ Staged(t, s, "issue")
    /\ UNCHANGED <<hash, version, minted, jar, refresh, admins, demoting, tried, causes>>

LEMMA ResetAttemptsChanges ==
    ASSUME AuthTyped, RefreshAwaited, IssuedIsMinted, NEW t \in Tabs, NEW s \in Slots,
           ResetAttempts(t, s)
    PROVE  ResetAttemptsDoes(t, s)
<1>1. req[t][s].at = "compare" /\ req[t][s].kind = "right"
  BY DEF ResetAttempts, account, client, roles, history
<1>2. (attempts' = 0 /\ lock' = "none") \/ UNCHANGED <<attempts, lock>>
  BY DEF ResetAttempts, account, client, roles, history
<1>3. Staged(t, s, "issue")
  BY StageEffect DEF ResetAttempts, account, client, roles, history, ReqAt, Stages
<1>4. UNCHANGED <<hash, version, minted, jar, refresh, admins, demoting, tried, causes>>
  BY DEF ResetAttempts, account, client, roles, history
<1> QED BY <1>1, <1>2, <1>3, <1>4 DEF ResetAttemptsDoes

IssueTokensDoes(t, s) ==
    /\ req[t][s].at = "issue" /\ minted' = minted + 1 /\ hash' = minted + 1
    /\ causes' = {} => causes = {} /\ \A d \in Devices : d # DeviceOf[t] => jar[d].refresh = NoToken
    /\ ReqsTyped' /\ SameElsewhere(req, req', t, s)
    /\ req'[t][s].at = "issued" /\ req'[t][s].attempts = minted + 1 /\ req'[t][s].kind = req[t][s].kind
    /\ UNCHANGED <<version, attempts, lock, jar, refresh, admins, demoting, tried>>

LEMMA IssueTokensChanges ==
    ASSUME AuthTyped, RefreshAwaited, IssuedIsMinted, NEW t \in Tabs, NEW s \in Slots,
           IssueTokens(t, s)
    PROVE  IssueTokensDoes(t, s)
<1>1. req[t][s].at = "issue" /\ minted' = minted + 1 /\ hash' = minted + 1
  BY DEF IssueTokens, account, client, roles, history
<1>2. causes' = {} => causes = {} /\ \A d \in Devices : d # DeviceOf[t] => jar[d].refresh = NoToken
  BY DEF IssueTokens, account, client, roles, history
<1>3. ReqsTyped' /\ SameElsewhere(req, req', t, s)
  BY IssueTokensEffect
<1>4. req'[t][s].at = "issued" /\ req'[t][s].attempts = minted + 1 /\ req'[t][s].kind = req[t][s].kind
  BY IssueTokensEffect
<1>5. UNCHANGED <<version, attempts, lock, jar, refresh, admins, demoting, tried>>
  BY DEF IssueTokens, account, client, roles, history
<1> QED BY <1>1, <1>2, <1>3, <1>4, <1>5 DEF IssueTokensDoes

ClearHashDoes(t, s) ==
    /\ req[t][s].at = "logout" /\ hash' = 0
    /\ Staged(t, s, "cleared")
    /\ UNCHANGED <<version, attempts, lock, minted, jar, refresh, admins, demoting, tried, causes>>

LEMMA ClearHashChanges ==
    ASSUME AuthTyped, RefreshAwaited, IssuedIsMinted, NEW t \in Tabs, NEW s \in Slots,
           ClearHash(t, s)
    PROVE  ClearHashDoes(t, s)
<1>1. req[t][s].at = "logout" /\ hash' = 0
  BY DEF ClearHash, account, client, roles, history
<1>2. Staged(t, s, "cleared")
  BY StageEffect DEF ClearHash, account, client, roles, history, ReqAt, Stages
<1>3. UNCHANGED <<version, attempts, lock, minted, jar, refresh, admins, demoting, tried, causes>>
  BY DEF ClearHash, account, client, roles, history
<1> QED BY <1>1, <1>2, <1>3 DEF ClearHashDoes

LEMMA AuthTypedStep ==
    ASSUME AuthIInv, AuthNext
    PROVE  AuthTyped'
<1> USE DEF AuthIInv
<1>1. ASSUME NEW t \in Tabs, NEW s \in Slots, NEW k \in {"call", "right", "wrong", "logout"},
             Request(t, s, k) PROVE AuthTyped'
  <2>1. RequestDoes(t, s, k)
    BY <1>1, RequestChanges
  <2> QED BY <2>1 DEF RequestDoes, AuthTyped, JarTyped, ReqsTyped, RefreshesTyped, Tokens,
             AuthRequests, SameElsewhere, Sent
<1>2. ASSUME NEW t \in Tabs, NEW s \in Slots, Denied(t, s) PROVE AuthTyped'
  <2>1. DeniedDoes(t, s)
    BY <1>2, DeniedChanges
  <2> QED BY <2>1 DEF DeniedDoes, AuthTyped, JarTyped, ReqsTyped, RefreshesTyped, Tokens,
             AuthRequests, SameElsewhere
<1>3. ASSUME NEW t \in Tabs, NEW s \in Slots, RefreshAnswered(t, s) PROVE AuthTyped'
  <2>1. RefreshAnsweredDoes(t, s)
    BY <1>3, RefreshAnsweredChanges
  <2> QED BY <2>1 DEF RefreshAnsweredDoes, AuthTyped, JarTyped, ReqsTyped, RefreshesTyped,
             Tokens, AuthRequests, SameElsewhere, IsOver
<1>4. ASSUME NEW t \in Tabs, NEW s \in Slots, RefreshLost(t, s) PROVE AuthTyped'
  <2>1. RefreshLostDoes(t, s)
    BY <1>4, RefreshLostChanges
  <2> QED BY <2>1 DEF RefreshLostDoes, AuthTyped, JarTyped, ReqsTyped, RefreshesTyped, Tokens,
             AuthRequests, SameElsewhere, IsOver
<1>5. ASSUME NEW t \in Tabs, NEW s \in Slots, Resend(t, s) PROVE AuthTyped'
  <2>1. ResendDoes(t, s)
    BY <1>5, ResendChanges
  <2> QED BY <2>1 DEF ResendDoes, AuthTyped, JarTyped, ReqsTyped, RefreshesTyped, Tokens,
             AuthRequests, SameElsewhere, Sent
<1>6. ASSUME NEW t \in Tabs, NEW s \in Slots, Validate(t, s) PROVE AuthTyped'
  <2>1. ValidateDoes(t, s)
    BY <1>6, ValidateChanges
  <2> QED BY <2>1 DEF ValidateDoes, AuthTyped, JarTyped, ReqsTyped, RefreshesTyped, Tokens,
             AuthRequests, SameElsewhere, RefreshStaged
<1>7. ASSUME NEW t \in Tabs, NEW s \in Slots, Revoke(t, s) PROVE AuthTyped'
  <2>1. RevokeDoes(t, s)
    BY <1>7, RevokeChanges
  <2> QED BY <2>1 DEF RevokeDoes, AuthTyped, JarTyped, ReqsTyped, RefreshesTyped, Tokens,
             AuthRequests, SameElsewhere, RefreshStaged
<1>8. ASSUME NEW t \in Tabs, NEW s \in Slots, Mint(t, s) PROVE AuthTyped'
  <2>1. MintDoes(t, s)
    BY <1>8, MintChanges
  <2> QED BY <2>1 DEF MintDoes, AuthTyped, JarTyped, ReqsTyped, RefreshesTyped, Tokens,
             AuthRequests, SameElsewhere
<1>9. ASSUME NEW t \in Tabs, NEW s \in Slots, StoreHash(t, s) PROVE AuthTyped'
  <2>1. StoreHashDoes(t, s)
    BY <1>9, StoreHashChanges
  <2> QED BY <2>1 DEF StoreHashDoes, AuthTyped, JarTyped, ReqsTyped, RefreshesTyped, Tokens,
             AuthRequests, SameElsewhere, RefreshStaged
<1>10. ASSUME NEW t \in Tabs, NEW s \in Slots, ReadAccount(t, s) PROVE AuthTyped'
  <2>1. ReadAccountDoes(t, s)
    BY <1>10, ReadAccountChanges
  <2> QED BY <2>1 DEF ReadAccountDoes, AuthTyped, JarTyped, ReqsTyped, RefreshesTyped, Tokens,
             AuthRequests, SameElsewhere
<1>11. ASSUME NEW t \in Tabs, NEW s \in Slots, ResetLock(t, s) PROVE AuthTyped'
  <2>1. ResetLockDoes(t, s)
    BY <1>11, ResetLockChanges
  <2> QED BY <2>1 DEF ResetLockDoes, AuthTyped, JarTyped, ReqsTyped, RefreshesTyped, Tokens,
             AuthRequests, SameElsewhere, Staged
<1>12. ASSUME NEW t \in Tabs, NEW s \in Slots, CountFailure(t, s) PROVE AuthTyped'
  <2>1. CountFailureDoes(t, s)
    BY <1>12, CountFailureChanges
  <2> QED BY <2>1 DEF CountFailureDoes, AuthTyped, JarTyped, ReqsTyped, RefreshesTyped, Tokens,
             AuthRequests, SameElsewhere
<1>13. ASSUME NEW t \in Tabs, NEW s \in Slots, ResetAttempts(t, s) PROVE AuthTyped'
  <2>1. ResetAttemptsDoes(t, s)
    BY <1>13, ResetAttemptsChanges
  <2> QED BY <2>1 DEF ResetAttemptsDoes, AuthTyped, JarTyped, ReqsTyped, RefreshesTyped, Tokens,
             AuthRequests, SameElsewhere, Staged
<1>14. ASSUME NEW t \in Tabs, NEW s \in Slots, IssueTokens(t, s) PROVE AuthTyped'
  <2>1. IssueTokensDoes(t, s)
    BY <1>14, IssueTokensChanges
  <2> QED BY <2>1 DEF IssueTokensDoes, AuthTyped, JarTyped, ReqsTyped, RefreshesTyped, Tokens,
             AuthRequests, SameElsewhere
<1>15. ASSUME NEW t \in Tabs, NEW s \in Slots, ClearHash(t, s) PROVE AuthTyped'
  <2>1. ClearHashDoes(t, s)
    BY <1>15, ClearHashChanges
  <2> QED BY <2>1 DEF ClearHashDoes, AuthTyped, JarTyped, ReqsTyped, RefreshesTyped, Tokens,
             AuthRequests, SameElsewhere, Staged
<1>16. ASSUME NEW t \in Tabs, NEW s \in Slots, CookiesArrive(t, s) PROVE AuthTyped'
  <2>1. CookiesArriveDoes(t, s)
    BY <1>16, CookiesArriveChanges
  <2> QED BY <2>1 DEF CookiesArriveDoes, AuthTyped, JarTyped, ReqsTyped, RefreshesTyped, Tokens,
             AuthRequests, SameElsewhere
<1>17. ASSUME NEW d \in Devices, AccessExpires(d) PROVE AuthTyped'
  BY <1>17 DEF AuthTyped, JarTyped, ReqsTyped, RefreshesTyped, Tokens, AuthRequests, AccessExpires,
     account, client, roles, history
<1>18. ASSUME NEW a \in Admins, CountAdmins(a) PROVE AuthTyped'
  BY <1>18 DEF AuthTyped, JarTyped, ReqsTyped, RefreshesTyped, Tokens, AuthRequests, CountAdmins,
     account, client, roles, history
<1>19. ASSUME NEW a \in Admins, Demote(a) PROVE AuthTyped'
  BY <1>19 DEF AuthTyped, JarTyped, ReqsTyped, RefreshesTyped, Tokens, AuthRequests, Demote, Bumped,
     account, client, roles, history
<1>20. ASSUME NEW a \in Admins, Promote(a) PROVE AuthTyped'
  BY <1>20 DEF AuthTyped, JarTyped, ReqsTyped, RefreshesTyped, Tokens, AuthRequests, Promote,
     Bumped, account, client, roles, history
<1>21. ASSUME LockPasses PROVE AuthTyped'
  BY <1>21 DEF AuthTyped, JarTyped, ReqsTyped, RefreshesTyped, Tokens, AuthRequests, LockPasses,
     account, client, roles, history
<1> QED BY <1>1, <1>2, <1>3, <1>4, <1>5, <1>6, <1>7, <1>8, <1>9, <1>10, <1>11, <1>12, <1>13,
           <1>14, <1>15, <1>16, <1>17, <1>18, <1>19, <1>20, <1>21 DEF AuthNext

LEMMA RefreshAwaitedStep ==
    ASSUME AuthIInv, AuthNext
    PROVE  RefreshAwaited'
<1> USE DEF AuthIInv
<1>1. ASSUME NEW t \in Tabs, NEW s \in Slots, NEW k \in {"call", "right", "wrong", "logout"},
             Request(t, s, k) PROVE RefreshAwaited'
  <2>1. RequestDoes(t, s, k)
    BY <1>1, RequestChanges
  <2> QED BY <2>1 DEF RequestDoes, RefreshAwaited, NoRefresh, NoToken, IdleReq, SameElsewhere,
             Sent
<1>2. ASSUME NEW t \in Tabs, NEW s \in Slots, Denied(t, s) PROVE RefreshAwaited'
  <2>1. DeniedDoes(t, s)
    BY <1>2, DeniedChanges
  <2> QED BY <2>1 DEF DeniedDoes, RefreshAwaited, NoRefresh, NoToken, IdleReq, SameElsewhere
<1>3. ASSUME NEW t \in Tabs, NEW s \in Slots, RefreshAnswered(t, s) PROVE RefreshAwaited'
  <2>1. RefreshAnsweredDoes(t, s)
    BY <1>3, RefreshAnsweredChanges
  <2> QED BY <2>1 DEF RefreshAnsweredDoes, RefreshAwaited, NoRefresh, NoToken, IdleReq,
             SameElsewhere, IsOver
<1>4. ASSUME NEW t \in Tabs, NEW s \in Slots, RefreshLost(t, s) PROVE RefreshAwaited'
  <2>1. RefreshLostDoes(t, s)
    BY <1>4, RefreshLostChanges
  <2> QED BY <2>1 DEF RefreshLostDoes, RefreshAwaited, NoRefresh, NoToken, IdleReq,
             SameElsewhere, IsOver
<1>5. ASSUME NEW t \in Tabs, NEW s \in Slots, Resend(t, s) PROVE RefreshAwaited'
  <2>1. ResendDoes(t, s)
    BY <1>5, ResendChanges
  <2> QED BY <2>1 DEF ResendDoes, RefreshAwaited, NoRefresh, NoToken, IdleReq, SameElsewhere,
             Sent
<1>6. ASSUME NEW t \in Tabs, NEW s \in Slots, Validate(t, s) PROVE RefreshAwaited'
  <2>1. ValidateDoes(t, s)
    BY <1>6, ValidateChanges
  <2> QED BY <2>1 DEF ValidateDoes, RefreshAwaited, NoRefresh, NoToken, IdleReq, SameElsewhere,
             RefreshStaged
<1>7. ASSUME NEW t \in Tabs, NEW s \in Slots, Revoke(t, s) PROVE RefreshAwaited'
  <2>1. RevokeDoes(t, s)
    BY <1>7, RevokeChanges
  <2> QED BY <2>1 DEF RevokeDoes, RefreshAwaited, NoRefresh, NoToken, IdleReq, SameElsewhere,
             RefreshStaged
<1>8. ASSUME NEW t \in Tabs, NEW s \in Slots, Mint(t, s) PROVE RefreshAwaited'
  <2>1. MintDoes(t, s)
    BY <1>8, MintChanges
  <2> QED BY <2>1 DEF MintDoes, RefreshAwaited, NoRefresh, NoToken, IdleReq, SameElsewhere
<1>9. ASSUME NEW t \in Tabs, NEW s \in Slots, StoreHash(t, s) PROVE RefreshAwaited'
  <2>1. StoreHashDoes(t, s)
    BY <1>9, StoreHashChanges
  <2> QED BY <2>1 DEF StoreHashDoes, RefreshAwaited, NoRefresh, NoToken, IdleReq, SameElsewhere,
             RefreshStaged
<1>10. ASSUME NEW t \in Tabs, NEW s \in Slots, ReadAccount(t, s) PROVE RefreshAwaited'
  <2>1. ReadAccountDoes(t, s)
    BY <1>10, ReadAccountChanges
  <2> QED BY <2>1 DEF ReadAccountDoes, RefreshAwaited, NoRefresh, NoToken, IdleReq,
             SameElsewhere
<1>11. ASSUME NEW t \in Tabs, NEW s \in Slots, ResetLock(t, s) PROVE RefreshAwaited'
  <2>1. ResetLockDoes(t, s)
    BY <1>11, ResetLockChanges
  <2> QED BY <2>1 DEF ResetLockDoes, RefreshAwaited, NoRefresh, NoToken, IdleReq, SameElsewhere,
             Staged
<1>12. ASSUME NEW t \in Tabs, NEW s \in Slots, CountFailure(t, s) PROVE RefreshAwaited'
  <2>1. CountFailureDoes(t, s)
    BY <1>12, CountFailureChanges
  <2> QED BY <2>1 DEF CountFailureDoes, RefreshAwaited, NoRefresh, NoToken, IdleReq,
             SameElsewhere
<1>13. ASSUME NEW t \in Tabs, NEW s \in Slots, ResetAttempts(t, s) PROVE RefreshAwaited'
  <2>1. ResetAttemptsDoes(t, s)
    BY <1>13, ResetAttemptsChanges
  <2> QED BY <2>1 DEF ResetAttemptsDoes, RefreshAwaited, NoRefresh, NoToken, IdleReq,
             SameElsewhere, Staged
<1>14. ASSUME NEW t \in Tabs, NEW s \in Slots, IssueTokens(t, s) PROVE RefreshAwaited'
  <2>1. IssueTokensDoes(t, s)
    BY <1>14, IssueTokensChanges
  <2> QED BY <2>1 DEF IssueTokensDoes, RefreshAwaited, NoRefresh, NoToken, IdleReq,
             SameElsewhere
<1>15. ASSUME NEW t \in Tabs, NEW s \in Slots, ClearHash(t, s) PROVE RefreshAwaited'
  <2>1. ClearHashDoes(t, s)
    BY <1>15, ClearHashChanges
  <2> QED BY <2>1 DEF ClearHashDoes, RefreshAwaited, NoRefresh, NoToken, IdleReq, SameElsewhere,
             Staged
<1>16. ASSUME NEW t \in Tabs, NEW s \in Slots, CookiesArrive(t, s) PROVE RefreshAwaited'
  <2>1. CookiesArriveDoes(t, s)
    BY <1>16, CookiesArriveChanges
  <2> QED BY <2>1 DEF CookiesArriveDoes, RefreshAwaited, NoRefresh, NoToken, IdleReq,
             SameElsewhere
<1>17. ASSUME NEW d \in Devices, AccessExpires(d) PROVE RefreshAwaited'
  BY <1>17 DEF RefreshAwaited, NoRefresh, NoToken, IdleReq, AuthTyped, JarTyped, AccessExpires,
     account, client, roles, history
<1>18. ASSUME NEW a \in Admins, CountAdmins(a) PROVE RefreshAwaited'
  BY <1>18 DEF RefreshAwaited, NoRefresh, NoToken, IdleReq, AuthTyped, JarTyped, CountAdmins,
     account, client, roles, history
<1>19. ASSUME NEW a \in Admins, Demote(a) PROVE RefreshAwaited'
  BY <1>19 DEF RefreshAwaited, NoRefresh, NoToken, IdleReq, AuthTyped, JarTyped, Demote, Bumped,
     account, client, roles, history
<1>20. ASSUME NEW a \in Admins, Promote(a) PROVE RefreshAwaited'
  BY <1>20 DEF RefreshAwaited, NoRefresh, NoToken, IdleReq, AuthTyped, JarTyped, Promote,
     Bumped, account, client, roles, history
<1>21. ASSUME LockPasses PROVE RefreshAwaited'
  BY <1>21 DEF RefreshAwaited, NoRefresh, NoToken, IdleReq, AuthTyped, JarTyped, LockPasses,
     account, client, roles, history
<1> QED BY <1>1, <1>2, <1>3, <1>4, <1>5, <1>6, <1>7, <1>8, <1>9, <1>10, <1>11, <1>12, <1>13,
           <1>14, <1>15, <1>16, <1>17, <1>18, <1>19, <1>20, <1>21 DEF AuthNext

LEMMA IssuedIsMintedStep ==
    ASSUME AuthIInv, AuthNext
    PROVE  IssuedIsMinted'
<1> USE DEF AuthIInv
<1>1. ASSUME NEW t \in Tabs, NEW s \in Slots, NEW k \in {"call", "right", "wrong", "logout"},
             Request(t, s, k) PROVE IssuedIsMinted'
  <2>1. RequestDoes(t, s, k)
    BY <1>1, RequestChanges
  <2> QED BY <2>1 DEF RequestDoes, IssuedIsMinted, AuthTyped, IdleReq, SameElsewhere, Sent
<1>2. ASSUME NEW t \in Tabs, NEW s \in Slots, Denied(t, s) PROVE IssuedIsMinted'
  <2>1. DeniedDoes(t, s)
    BY <1>2, DeniedChanges
  <2> QED BY <2>1 DEF DeniedDoes, IssuedIsMinted, AuthTyped, IdleReq, SameElsewhere
<1>3. ASSUME NEW t \in Tabs, NEW s \in Slots, RefreshAnswered(t, s) PROVE IssuedIsMinted'
  <2>1. RefreshAnsweredDoes(t, s)
    BY <1>3, RefreshAnsweredChanges
  <2> QED BY <2>1 DEF RefreshAnsweredDoes, IssuedIsMinted, AuthTyped, IdleReq, SameElsewhere,
             IsOver
<1>4. ASSUME NEW t \in Tabs, NEW s \in Slots, RefreshLost(t, s) PROVE IssuedIsMinted'
  <2>1. RefreshLostDoes(t, s)
    BY <1>4, RefreshLostChanges
  <2> QED BY <2>1 DEF RefreshLostDoes, IssuedIsMinted, AuthTyped, IdleReq, SameElsewhere, IsOver
<1>5. ASSUME NEW t \in Tabs, NEW s \in Slots, Resend(t, s) PROVE IssuedIsMinted'
  <2>1. ResendDoes(t, s)
    BY <1>5, ResendChanges
  <2> QED BY <2>1 DEF ResendDoes, IssuedIsMinted, AuthTyped, IdleReq, SameElsewhere, Sent
<1>6. ASSUME NEW t \in Tabs, NEW s \in Slots, Validate(t, s) PROVE IssuedIsMinted'
  <2>1. ValidateDoes(t, s)
    BY <1>6, ValidateChanges
  <2> QED BY <2>1 DEF ValidateDoes, IssuedIsMinted, AuthTyped, IdleReq, SameElsewhere,
             RefreshStaged
<1>7. ASSUME NEW t \in Tabs, NEW s \in Slots, Revoke(t, s) PROVE IssuedIsMinted'
  <2>1. RevokeDoes(t, s)
    BY <1>7, RevokeChanges
  <2> QED BY <2>1 DEF RevokeDoes, IssuedIsMinted, AuthTyped, IdleReq, SameElsewhere,
             RefreshStaged
<1>8. ASSUME NEW t \in Tabs, NEW s \in Slots, Mint(t, s) PROVE IssuedIsMinted'
  <2>1. MintDoes(t, s)
    BY <1>8, MintChanges
  <2> QED BY <2>1 DEF MintDoes, IssuedIsMinted, AuthTyped, IdleReq, SameElsewhere
<1>9. ASSUME NEW t \in Tabs, NEW s \in Slots, StoreHash(t, s) PROVE IssuedIsMinted'
  <2>1. StoreHashDoes(t, s)
    BY <1>9, StoreHashChanges
  <2> QED BY <2>1 DEF StoreHashDoes, IssuedIsMinted, AuthTyped, IdleReq, SameElsewhere,
             RefreshStaged
<1>10. ASSUME NEW t \in Tabs, NEW s \in Slots, ReadAccount(t, s) PROVE IssuedIsMinted'
  <2>1. ReadAccountDoes(t, s)
    BY <1>10, ReadAccountChanges
  <2> QED BY <2>1 DEF ReadAccountDoes, IssuedIsMinted, AuthTyped, IdleReq, SameElsewhere
<1>11. ASSUME NEW t \in Tabs, NEW s \in Slots, ResetLock(t, s) PROVE IssuedIsMinted'
  <2>1. ResetLockDoes(t, s)
    BY <1>11, ResetLockChanges
  <2> QED BY <2>1 DEF ResetLockDoes, IssuedIsMinted, AuthTyped, IdleReq, SameElsewhere, Staged
<1>12. ASSUME NEW t \in Tabs, NEW s \in Slots, CountFailure(t, s) PROVE IssuedIsMinted'
  <2>1. CountFailureDoes(t, s)
    BY <1>12, CountFailureChanges
  <2> QED BY <2>1 DEF CountFailureDoes, IssuedIsMinted, AuthTyped, IdleReq, SameElsewhere
<1>13. ASSUME NEW t \in Tabs, NEW s \in Slots, ResetAttempts(t, s) PROVE IssuedIsMinted'
  <2>1. ResetAttemptsDoes(t, s)
    BY <1>13, ResetAttemptsChanges
  <2> QED BY <2>1 DEF ResetAttemptsDoes, IssuedIsMinted, AuthTyped, IdleReq, SameElsewhere,
             Staged
<1>14. ASSUME NEW t \in Tabs, NEW s \in Slots, IssueTokens(t, s) PROVE IssuedIsMinted'
  <2>1. IssueTokensDoes(t, s)
    BY <1>14, IssueTokensChanges
  <2> QED BY <2>1 DEF IssueTokensDoes, IssuedIsMinted, AuthTyped, IdleReq, SameElsewhere
<1>15. ASSUME NEW t \in Tabs, NEW s \in Slots, ClearHash(t, s) PROVE IssuedIsMinted'
  <2>1. ClearHashDoes(t, s)
    BY <1>15, ClearHashChanges
  <2> QED BY <2>1 DEF ClearHashDoes, IssuedIsMinted, AuthTyped, IdleReq, SameElsewhere, Staged
<1>16. ASSUME NEW t \in Tabs, NEW s \in Slots, CookiesArrive(t, s) PROVE IssuedIsMinted'
  <2>1. CookiesArriveDoes(t, s)
    BY <1>16, CookiesArriveChanges
  <2> QED BY <2>1 DEF CookiesArriveDoes, IssuedIsMinted, AuthTyped, IdleReq, SameElsewhere
<1>17. ASSUME NEW d \in Devices, AccessExpires(d) PROVE IssuedIsMinted'
  BY <1>17 DEF IssuedIsMinted, AuthTyped, IdleReq, JarTyped, AccessExpires, account, client,
     roles, history
<1>18. ASSUME NEW a \in Admins, CountAdmins(a) PROVE IssuedIsMinted'
  BY <1>18 DEF IssuedIsMinted, AuthTyped, IdleReq, JarTyped, CountAdmins, account, client,
     roles, history
<1>19. ASSUME NEW a \in Admins, Demote(a) PROVE IssuedIsMinted'
  BY <1>19 DEF IssuedIsMinted, AuthTyped, IdleReq, JarTyped, Demote, Bumped, account, client,
     roles, history
<1>20. ASSUME NEW a \in Admins, Promote(a) PROVE IssuedIsMinted'
  BY <1>20 DEF IssuedIsMinted, AuthTyped, IdleReq, JarTyped, Promote, Bumped, account, client,
     roles, history
<1>21. ASSUME LockPasses PROVE IssuedIsMinted'
  BY <1>21 DEF IssuedIsMinted, AuthTyped, IdleReq, JarTyped, LockPasses, account, client, roles,
     history
<1> QED BY <1>1, <1>2, <1>3, <1>4, <1>5, <1>6, <1>7, <1>8, <1>9, <1>10, <1>11, <1>12, <1>13,
           <1>14, <1>15, <1>16, <1>17, <1>18, <1>19, <1>20, <1>21 DEF AuthNext

LEMMA StagesOfKindsStep ==
    ASSUME AuthIInv, AuthNext
    PROVE  StagesOfKinds'
<1> USE DEF AuthIInv
<1>1. ASSUME NEW t \in Tabs, NEW s \in Slots, NEW k \in {"call", "right", "wrong", "logout"},
             Request(t, s, k) PROVE StagesOfKinds'
  <2>1. RequestDoes(t, s, k)
    BY <1>1, RequestChanges
  <2> QED BY <2>1 DEF RequestDoes, StagesOfKinds, AuthTyped, NoRefresh, NoToken, NoCookies,
             IdleReq, RefreshAwaited, IssuedIsMinted, Tokens, SameElsewhere, Sent
<1>2. ASSUME NEW t \in Tabs, NEW s \in Slots, Denied(t, s) PROVE StagesOfKinds'
  <2>1. DeniedDoes(t, s)
    BY <1>2, DeniedChanges
  <2> QED BY <2>1, TabsHaveDevices DEF DeniedDoes, StagesOfKinds, SameElsewhere
<1>3. ASSUME NEW t \in Tabs, NEW s \in Slots, RefreshAnswered(t, s) PROVE StagesOfKinds'
  <2>1. RefreshAnsweredDoes(t, s)
    BY <1>3, RefreshAnsweredChanges
  <2> QED BY <2>1 DEF RefreshAnsweredDoes, StagesOfKinds, AuthTyped, NoRefresh, NoToken,
             NoCookies, IdleReq, RefreshAwaited, IssuedIsMinted, Tokens, SameElsewhere, IsOver
<1>4. ASSUME NEW t \in Tabs, NEW s \in Slots, RefreshLost(t, s) PROVE StagesOfKinds'
  <2>1. RefreshLostDoes(t, s)
    BY <1>4, RefreshLostChanges
  <2> QED BY <2>1 DEF RefreshLostDoes, StagesOfKinds, AuthTyped, NoRefresh, NoToken, NoCookies,
             IdleReq, RefreshAwaited, IssuedIsMinted, Tokens, SameElsewhere, IsOver
<1>5. ASSUME NEW t \in Tabs, NEW s \in Slots, Resend(t, s) PROVE StagesOfKinds'
  <2>1. ResendDoes(t, s)
    BY <1>5, ResendChanges
  <2> QED BY <2>1 DEF ResendDoes, StagesOfKinds, AuthTyped, NoRefresh, NoToken, NoCookies,
             IdleReq, RefreshAwaited, IssuedIsMinted, Tokens, SameElsewhere, Sent
<1>6. ASSUME NEW t \in Tabs, NEW s \in Slots, Validate(t, s) PROVE StagesOfKinds'
  <2>1. ValidateDoes(t, s)
    BY <1>6, ValidateChanges
  <2> QED BY <2>1 DEF ValidateDoes, StagesOfKinds, AuthTyped, NoRefresh, NoToken, NoCookies,
             IdleReq, RefreshAwaited, IssuedIsMinted, Tokens, SameElsewhere, RefreshStaged
<1>7. ASSUME NEW t \in Tabs, NEW s \in Slots, Revoke(t, s) PROVE StagesOfKinds'
  <2>1. RevokeDoes(t, s)
    BY <1>7, RevokeChanges
  <2> QED BY <2>1 DEF RevokeDoes, StagesOfKinds, AuthTyped, NoRefresh, NoToken, NoCookies,
             IdleReq, RefreshAwaited, IssuedIsMinted, Tokens, SameElsewhere, RefreshStaged
<1>8. ASSUME NEW t \in Tabs, NEW s \in Slots, Mint(t, s) PROVE StagesOfKinds'
  <2>1. MintDoes(t, s)
    BY <1>8, MintChanges
  <2> QED BY <2>1 DEF MintDoes, StagesOfKinds, AuthTyped, NoRefresh, NoToken, NoCookies,
             IdleReq, RefreshAwaited, IssuedIsMinted, Tokens, SameElsewhere
<1>9. ASSUME NEW t \in Tabs, NEW s \in Slots, StoreHash(t, s) PROVE StagesOfKinds'
  <2>1. StoreHashDoes(t, s)
    BY <1>9, StoreHashChanges
  <2> QED BY <2>1 DEF StoreHashDoes, StagesOfKinds, AuthTyped, NoRefresh, NoToken, NoCookies,
             IdleReq, RefreshAwaited, IssuedIsMinted, Tokens, SameElsewhere, RefreshStaged
<1>10. ASSUME NEW t \in Tabs, NEW s \in Slots, ReadAccount(t, s) PROVE StagesOfKinds'
  <2>1. ReadAccountDoes(t, s)
    BY <1>10, ReadAccountChanges
  <2>2. {0, attempts} \subseteq 0 .. tried
    BY DEF LockNeedsFailures, AuthTyped
  <2> QED BY <2>1, <2>2 DEF ReadAccountDoes, StagesOfKinds, SameElsewhere
<1>11. ASSUME NEW t \in Tabs, NEW s \in Slots, ResetLock(t, s) PROVE StagesOfKinds'
  <2>1. ResetLockDoes(t, s)
    BY <1>11, ResetLockChanges
  <2> QED BY <2>1 DEF ResetLockDoes, StagesOfKinds, AuthTyped, NoRefresh, NoToken, NoCookies,
             IdleReq, RefreshAwaited, IssuedIsMinted, Tokens, SameElsewhere, Staged
<1>12. ASSUME NEW t \in Tabs, NEW s \in Slots, CountFailure(t, s) PROVE StagesOfKinds'
  <2>1. CountFailureDoes(t, s)
    BY <1>12, CountFailureChanges
  <2>2. \A u \in Tabs, r \in Slots : req[u][r].attempts <= tried => req[u][r].attempts <= tried + 1
    <3>1. \A u \in Tabs, r \in Slots : req[u][r].attempts \in Nat
      BY CellsTyped DEF AuthRequests
    <3> QED BY <3>1 DEF AuthTyped
  <2> QED BY <2>1, <2>2 DEF CountFailureDoes, StagesOfKinds, SameElsewhere
<1>13. ASSUME NEW t \in Tabs, NEW s \in Slots, ResetAttempts(t, s) PROVE StagesOfKinds'
  <2>1. ResetAttemptsDoes(t, s)
    BY <1>13, ResetAttemptsChanges
  <2> QED BY <2>1 DEF ResetAttemptsDoes, StagesOfKinds, AuthTyped, NoRefresh, NoToken,
             NoCookies, IdleReq, RefreshAwaited, IssuedIsMinted, Tokens, SameElsewhere, Staged
<1>14. ASSUME NEW t \in Tabs, NEW s \in Slots, IssueTokens(t, s) PROVE StagesOfKinds'
  <2>1. IssueTokensDoes(t, s)
    BY <1>14, IssueTokensChanges
  <2> QED BY <2>1 DEF IssueTokensDoes, StagesOfKinds, AuthTyped, NoRefresh, NoToken, NoCookies,
             IdleReq, RefreshAwaited, IssuedIsMinted, Tokens, SameElsewhere
<1>15. ASSUME NEW t \in Tabs, NEW s \in Slots, ClearHash(t, s) PROVE StagesOfKinds'
  <2>1. ClearHashDoes(t, s)
    BY <1>15, ClearHashChanges
  <2> QED BY <2>1 DEF ClearHashDoes, StagesOfKinds, AuthTyped, NoRefresh, NoToken, NoCookies,
             IdleReq, RefreshAwaited, IssuedIsMinted, Tokens, SameElsewhere, Staged
<1>16. ASSUME NEW t \in Tabs, NEW s \in Slots, CookiesArrive(t, s) PROVE StagesOfKinds'
  <2>1. CookiesArriveDoes(t, s)
    BY <1>16, CookiesArriveChanges
  <2> QED BY <2>1 DEF CookiesArriveDoes, StagesOfKinds, AuthTyped, NoRefresh, NoToken,
             NoCookies, IdleReq, RefreshAwaited, IssuedIsMinted, Tokens, SameElsewhere
<1>17. ASSUME NEW d \in Devices, AccessExpires(d) PROVE StagesOfKinds'
  BY <1>17 DEF StagesOfKinds, AuthTyped, NoRefresh, NoToken, NoCookies, IdleReq, RefreshAwaited,
     IssuedIsMinted, Tokens, JarTyped, AccessExpires, account, client, roles, history
<1>18. ASSUME NEW a \in Admins, CountAdmins(a) PROVE StagesOfKinds'
  BY <1>18 DEF StagesOfKinds, AuthTyped, NoRefresh, NoToken, NoCookies, IdleReq, RefreshAwaited,
     IssuedIsMinted, Tokens, JarTyped, CountAdmins, account, client, roles, history
<1>19. ASSUME NEW a \in Admins, Demote(a) PROVE StagesOfKinds'
  BY <1>19 DEF StagesOfKinds, AuthTyped, NoRefresh, NoToken, NoCookies, IdleReq, RefreshAwaited,
     IssuedIsMinted, Tokens, JarTyped, Demote, Bumped, account, client, roles, history
<1>20. ASSUME NEW a \in Admins, Promote(a) PROVE StagesOfKinds'
  BY <1>20 DEF StagesOfKinds, AuthTyped, NoRefresh, NoToken, NoCookies, IdleReq, RefreshAwaited,
     IssuedIsMinted, Tokens, JarTyped, Promote, Bumped, account, client, roles, history
<1>21. ASSUME LockPasses PROVE StagesOfKinds'
  BY <1>21 DEF StagesOfKinds, AuthTyped, NoRefresh, NoToken, NoCookies, IdleReq, RefreshAwaited,
     IssuedIsMinted, Tokens, JarTyped, LockPasses, account, client, roles, history
<1> QED BY <1>1, <1>2, <1>3, <1>4, <1>5, <1>6, <1>7, <1>8, <1>9, <1>10, <1>11, <1>12, <1>13,
           <1>14, <1>15, <1>16, <1>17, <1>18, <1>19, <1>20, <1>21 DEF AuthNext

LEMMA LockNeedsFailuresStep ==
    ASSUME AuthIInv, AuthNext
    PROVE  LockNeedsFailures'
<1> USE DEF AuthIInv
<1>1. ASSUME NEW t \in Tabs, NEW s \in Slots, NEW k \in {"call", "right", "wrong", "logout"},
             Request(t, s, k) PROVE LockNeedsFailures'
  <2>1. RequestDoes(t, s, k)
    BY <1>1, RequestChanges
  <2> QED BY <2>1 DEF RequestDoes, LockNeedsFailures, StagesOfKinds, AuthTyped, SameElsewhere,
             Sent
<1>2. ASSUME NEW t \in Tabs, NEW s \in Slots, Denied(t, s) PROVE LockNeedsFailures'
  <2>1. DeniedDoes(t, s)
    BY <1>2, DeniedChanges
  <2> QED BY <2>1 DEF DeniedDoes, LockNeedsFailures, StagesOfKinds, AuthTyped, SameElsewhere
<1>3. ASSUME NEW t \in Tabs, NEW s \in Slots, RefreshAnswered(t, s) PROVE LockNeedsFailures'
  <2>1. RefreshAnsweredDoes(t, s)
    BY <1>3, RefreshAnsweredChanges
  <2> QED BY <2>1 DEF RefreshAnsweredDoes, LockNeedsFailures, StagesOfKinds, AuthTyped,
             SameElsewhere, IsOver
<1>4. ASSUME NEW t \in Tabs, NEW s \in Slots, RefreshLost(t, s) PROVE LockNeedsFailures'
  <2>1. RefreshLostDoes(t, s)
    BY <1>4, RefreshLostChanges
  <2> QED BY <2>1 DEF RefreshLostDoes, LockNeedsFailures, StagesOfKinds, AuthTyped,
             SameElsewhere, IsOver
<1>5. ASSUME NEW t \in Tabs, NEW s \in Slots, Resend(t, s) PROVE LockNeedsFailures'
  <2>1. ResendDoes(t, s)
    BY <1>5, ResendChanges
  <2> QED BY <2>1 DEF ResendDoes, LockNeedsFailures, StagesOfKinds, AuthTyped, SameElsewhere,
             Sent
<1>6. ASSUME NEW t \in Tabs, NEW s \in Slots, Validate(t, s) PROVE LockNeedsFailures'
  <2>1. ValidateDoes(t, s)
    BY <1>6, ValidateChanges
  <2> QED BY <2>1 DEF ValidateDoes, LockNeedsFailures, StagesOfKinds, AuthTyped, SameElsewhere,
             RefreshStaged
<1>7. ASSUME NEW t \in Tabs, NEW s \in Slots, Revoke(t, s) PROVE LockNeedsFailures'
  <2>1. RevokeDoes(t, s)
    BY <1>7, RevokeChanges
  <2> QED BY <2>1 DEF RevokeDoes, LockNeedsFailures, StagesOfKinds, AuthTyped, SameElsewhere,
             RefreshStaged
<1>8. ASSUME NEW t \in Tabs, NEW s \in Slots, Mint(t, s) PROVE LockNeedsFailures'
  <2>1. MintDoes(t, s)
    BY <1>8, MintChanges
  <2> QED BY <2>1 DEF MintDoes, LockNeedsFailures, StagesOfKinds, AuthTyped, SameElsewhere
<1>9. ASSUME NEW t \in Tabs, NEW s \in Slots, StoreHash(t, s) PROVE LockNeedsFailures'
  <2>1. StoreHashDoes(t, s)
    BY <1>9, StoreHashChanges
  <2> QED BY <2>1 DEF StoreHashDoes, LockNeedsFailures, StagesOfKinds, AuthTyped, SameElsewhere,
             RefreshStaged
<1>10. ASSUME NEW t \in Tabs, NEW s \in Slots, ReadAccount(t, s) PROVE LockNeedsFailures'
  <2>1. ReadAccountDoes(t, s)
    BY <1>10, ReadAccountChanges
  <2> QED BY <2>1 DEF ReadAccountDoes, LockNeedsFailures, StagesOfKinds, AuthTyped,
             SameElsewhere
<1>11. ASSUME NEW t \in Tabs, NEW s \in Slots, ResetLock(t, s) PROVE LockNeedsFailures'
  <2>1. ResetLockDoes(t, s)
    BY <1>11, ResetLockChanges
  <2> QED BY <2>1 DEF ResetLockDoes, LockNeedsFailures, StagesOfKinds, AuthTyped, SameElsewhere,
             Staged
<1>12. ASSUME NEW t \in Tabs, NEW s \in Slots, CountFailure(t, s) PROVE LockNeedsFailures'
  <2>1. CountFailureDoes(t, s)
    BY <1>12, CountFailureChanges
  <2>2. req[t][s].attempts \in Nat /\ req[t][s].attempts <= tried /\ MaxAttempts \in Nat
    BY <2>1, CellsTyped, BoundsArePositive DEF CountFailureDoes, StagesOfKinds, AuthRequests
  <2> QED BY <2>1, <2>2 DEF CountFailureDoes, LockNeedsFailures, AuthTyped
<1>13. ASSUME NEW t \in Tabs, NEW s \in Slots, ResetAttempts(t, s) PROVE LockNeedsFailures'
  <2>1. ResetAttemptsDoes(t, s)
    BY <1>13, ResetAttemptsChanges
  <2> QED BY <2>1 DEF ResetAttemptsDoes, LockNeedsFailures, StagesOfKinds, AuthTyped,
             SameElsewhere, Staged
<1>14. ASSUME NEW t \in Tabs, NEW s \in Slots, IssueTokens(t, s) PROVE LockNeedsFailures'
  <2>1. IssueTokensDoes(t, s)
    BY <1>14, IssueTokensChanges
  <2> QED BY <2>1 DEF IssueTokensDoes, LockNeedsFailures, StagesOfKinds, AuthTyped,
             SameElsewhere
<1>15. ASSUME NEW t \in Tabs, NEW s \in Slots, ClearHash(t, s) PROVE LockNeedsFailures'
  <2>1. ClearHashDoes(t, s)
    BY <1>15, ClearHashChanges
  <2> QED BY <2>1 DEF ClearHashDoes, LockNeedsFailures, StagesOfKinds, AuthTyped, SameElsewhere,
             Staged
<1>16. ASSUME NEW t \in Tabs, NEW s \in Slots, CookiesArrive(t, s) PROVE LockNeedsFailures'
  <2>1. CookiesArriveDoes(t, s)
    BY <1>16, CookiesArriveChanges
  <2> QED BY <2>1 DEF CookiesArriveDoes, LockNeedsFailures, StagesOfKinds, AuthTyped,
             SameElsewhere
<1>17. ASSUME NEW d \in Devices, AccessExpires(d) PROVE LockNeedsFailures'
  BY <1>17 DEF LockNeedsFailures, StagesOfKinds, AuthTyped, JarTyped, AccessExpires, account,
     client, roles, history
<1>18. ASSUME NEW a \in Admins, CountAdmins(a) PROVE LockNeedsFailures'
  BY <1>18 DEF LockNeedsFailures, StagesOfKinds, AuthTyped, JarTyped, CountAdmins, account,
     client, roles, history
<1>19. ASSUME NEW a \in Admins, Demote(a) PROVE LockNeedsFailures'
  BY <1>19 DEF LockNeedsFailures, StagesOfKinds, AuthTyped, JarTyped, Demote, Bumped, account,
     client, roles, history
<1>20. ASSUME NEW a \in Admins, Promote(a) PROVE LockNeedsFailures'
  BY <1>20 DEF LockNeedsFailures, StagesOfKinds, AuthTyped, JarTyped, Promote, Bumped, account,
     client, roles, history
<1>21. ASSUME LockPasses PROVE LockNeedsFailures'
  BY <1>21 DEF LockNeedsFailures, StagesOfKinds, AuthTyped, JarTyped, LockPasses, account,
     client, roles, history
<1> QED BY <1>1, <1>2, <1>3, <1>4, <1>5, <1>6, <1>7, <1>8, <1>9, <1>10, <1>11, <1>12, <1>13,
           <1>14, <1>15, <1>16, <1>17, <1>18, <1>19, <1>20, <1>21 DEF AuthNext

LEMMA OneRotationStep ==
    ASSUME AuthIInv, AuthNext
    PROVE  OneRotation'
<1> USE DEF AuthIInv
<1>1. ASSUME NEW t \in Tabs, NEW s \in Slots, NEW k \in {"call", "right", "wrong", "logout"},
             Request(t, s, k) PROVE OneRotation'
  <2>1. RequestDoes(t, s, k)
    BY <1>1, RequestChanges
  <2>2. refresh[t][s].at = "none" /\ UNCHANGED refresh
    BY <2>1 DEF RequestDoes, RefreshAwaited
  <2>3. k # "refresh" /\ Sent(t, s, k)
    BY <2>1, CellsTyped DEF RequestDoes, AuthRequests, Kinds
  <2>4. CASE req'[t][s].at \in {"right", "logout"}
    <3>1. causes' = {} => causes = {} /\ \A u \in Tabs, r \in Slots : ~Rotates(u, r)
      BY <2>3, <2>4 DEF Sent, Overlap
    <3>2. \A u \in Tabs, r \in Slots : u # t \/ r # s => Rotates(u, r)' = Rotates(u, r)
      BY <2>2, <2>3 DEF Sent, SameElsewhere, Rotates
    <3> QED BY <3>1, <3>2 DEF OneRotation
  <2>5. CASE req'[t][s].at \notin {"right", "logout"}
    <3>1. causes' = causes /\ ~Rotates(t, s)'
      BY <2>2, <2>3, <2>5 DEF Sent, Rotates
    <3>2. \A u \in Tabs, r \in Slots : u # t \/ r # s => Rotates(u, r)' = Rotates(u, r)
      BY <2>2, <2>3 DEF Sent, SameElsewhere, Rotates
    <3> QED BY <3>1, <3>2 DEF OneRotation
  <2> QED BY <2>4, <2>5
<1>2. ASSUME NEW t \in Tabs, NEW s \in Slots, Denied(t, s) PROVE OneRotation'
  <2>1. DeniedDoes(t, s)
    BY <1>2, DeniedChanges
  <2> QED BY SMTT(30), <2>1 DEF DeniedDoes, OneRotation, RefreshAwaited, StagesOfKinds, Rotates, Overlap,
             NoRefresh, IdleReq, SameElsewhere
<1>3. ASSUME NEW t \in Tabs, NEW s \in Slots, RefreshAnswered(t, s) PROVE OneRotation'
  <2>1. RefreshAnsweredDoes(t, s)
    BY <1>3, RefreshAnsweredChanges
  <2> QED BY <2>1 DEF RefreshAnsweredDoes, OneRotation, RefreshAwaited, StagesOfKinds, Rotates,
             Overlap, NoRefresh, IdleReq, SameElsewhere, IsOver
<1>4. ASSUME NEW t \in Tabs, NEW s \in Slots, RefreshLost(t, s) PROVE OneRotation'
  <2>1. RefreshLostDoes(t, s)
    BY <1>4, RefreshLostChanges
  <2> QED BY <2>1 DEF RefreshLostDoes, OneRotation, RefreshAwaited, StagesOfKinds, Rotates,
             Overlap, NoRefresh, IdleReq, SameElsewhere, IsOver
<1>5. ASSUME NEW t \in Tabs, NEW s \in Slots, Resend(t, s) PROVE OneRotation'
  <2>1. ResendDoes(t, s)
    BY <1>5, ResendChanges
  <2>2. refresh[t][s].at = "none" /\ UNCHANGED refresh
    BY <2>1 DEF ResendDoes, RefreshAwaited
  <2>3. req[t][s].kind # "refresh" /\ Sent(t, s, req[t][s].kind)
    BY <2>1, CellsTyped DEF ResendDoes, AuthRequests, Kinds
  <2>4. CASE req'[t][s].at \in {"right", "logout"}
    <3>1. causes' = {} => causes = {} /\ \A u \in Tabs, r \in Slots : ~Rotates(u, r)
      BY <2>3, <2>4 DEF Sent, Overlap
    <3>2. \A u \in Tabs, r \in Slots : u # t \/ r # s => Rotates(u, r)' = Rotates(u, r)
      BY <2>2, <2>3 DEF Sent, SameElsewhere, Rotates
    <3> QED BY <3>1, <3>2 DEF OneRotation
  <2>5. CASE req'[t][s].at \notin {"right", "logout"}
    <3>1. causes' = causes /\ ~Rotates(t, s)'
      BY <2>2, <2>3, <2>5 DEF Sent, Rotates
    <3>2. \A u \in Tabs, r \in Slots : u # t \/ r # s => Rotates(u, r)' = Rotates(u, r)
      BY <2>2, <2>3 DEF Sent, SameElsewhere, Rotates
    <3> QED BY <3>1, <3>2 DEF OneRotation
  <2> QED BY <2>4, <2>5
<1>6. ASSUME NEW t \in Tabs, NEW s \in Slots, Validate(t, s) PROVE OneRotation'
  <2>1. ValidateDoes(t, s)
    BY <1>6, ValidateChanges
  <2> QED BY <2>1 DEF ValidateDoes, OneRotation, RefreshAwaited, StagesOfKinds, Rotates,
             Overlap, NoRefresh, IdleReq, SameElsewhere, RefreshStaged
<1>7. ASSUME NEW t \in Tabs, NEW s \in Slots, Revoke(t, s) PROVE OneRotation'
  <2>1. RevokeDoes(t, s)
    BY <1>7, RevokeChanges
  <2> QED BY <2>1 DEF RevokeDoes, OneRotation, RefreshAwaited, StagesOfKinds, Rotates, Overlap,
             NoRefresh, IdleReq, SameElsewhere, RefreshStaged
<1>8. ASSUME NEW t \in Tabs, NEW s \in Slots, Mint(t, s) PROVE OneRotation'
  <2>1. MintDoes(t, s)
    BY <1>8, MintChanges
  <2> QED BY <2>1 DEF MintDoes, OneRotation, RefreshAwaited, StagesOfKinds, Rotates, Overlap,
             NoRefresh, IdleReq, SameElsewhere
<1>9. ASSUME NEW t \in Tabs, NEW s \in Slots, StoreHash(t, s) PROVE OneRotation'
  <2>1. StoreHashDoes(t, s)
    BY <1>9, StoreHashChanges
  <2> QED BY <2>1 DEF StoreHashDoes, OneRotation, RefreshAwaited, StagesOfKinds, Rotates,
             Overlap, NoRefresh, IdleReq, SameElsewhere, RefreshStaged
<1>10. ASSUME NEW t \in Tabs, NEW s \in Slots, ReadAccount(t, s) PROVE OneRotation'
  <2>1. ReadAccountDoes(t, s)
    BY <1>10, ReadAccountChanges
  <2> QED BY <2>1 DEF ReadAccountDoes, OneRotation, RefreshAwaited, StagesOfKinds, Rotates,
             Overlap, NoRefresh, IdleReq, SameElsewhere
<1>11. ASSUME NEW t \in Tabs, NEW s \in Slots, ResetLock(t, s) PROVE OneRotation'
  <2>1. ResetLockDoes(t, s)
    BY <1>11, ResetLockChanges
  <2> QED BY <2>1 DEF ResetLockDoes, OneRotation, RefreshAwaited, StagesOfKinds, Rotates,
             Overlap, NoRefresh, IdleReq, SameElsewhere, Staged
<1>12. ASSUME NEW t \in Tabs, NEW s \in Slots, CountFailure(t, s) PROVE OneRotation'
  <2>1. CountFailureDoes(t, s)
    BY <1>12, CountFailureChanges
  <2> QED BY <2>1 DEF CountFailureDoes, OneRotation, RefreshAwaited, StagesOfKinds, Rotates,
             Overlap, NoRefresh, IdleReq, SameElsewhere
<1>13. ASSUME NEW t \in Tabs, NEW s \in Slots, ResetAttempts(t, s) PROVE OneRotation'
  <2>1. ResetAttemptsDoes(t, s)
    BY <1>13, ResetAttemptsChanges
  <2> QED BY <2>1 DEF ResetAttemptsDoes, OneRotation, RefreshAwaited, StagesOfKinds, Rotates,
             Overlap, NoRefresh, IdleReq, SameElsewhere, Staged
<1>14. ASSUME NEW t \in Tabs, NEW s \in Slots, IssueTokens(t, s) PROVE OneRotation'
  <2>1. IssueTokensDoes(t, s)
    BY <1>14, IssueTokensChanges
  <2> QED BY <2>1 DEF IssueTokensDoes, OneRotation, RefreshAwaited, StagesOfKinds, Rotates,
             Overlap, NoRefresh, IdleReq, SameElsewhere
<1>15. ASSUME NEW t \in Tabs, NEW s \in Slots, ClearHash(t, s) PROVE OneRotation'
  <2>1. ClearHashDoes(t, s)
    BY <1>15, ClearHashChanges
  <2> QED BY <2>1 DEF ClearHashDoes, OneRotation, RefreshAwaited, StagesOfKinds, Rotates,
             Overlap, NoRefresh, IdleReq, SameElsewhere, Staged
<1>16. ASSUME NEW t \in Tabs, NEW s \in Slots, CookiesArrive(t, s) PROVE OneRotation'
  <2>1. CookiesArriveDoes(t, s)
    BY <1>16, CookiesArriveChanges
  <2> QED BY <2>1 DEF CookiesArriveDoes, OneRotation, RefreshAwaited, StagesOfKinds, Rotates,
             Overlap, NoRefresh, IdleReq, SameElsewhere
<1>17. ASSUME NEW d \in Devices, AccessExpires(d) PROVE OneRotation'
  BY <1>17 DEF OneRotation, RefreshAwaited, StagesOfKinds, Rotates, Overlap, NoRefresh, IdleReq,
     AuthTyped, JarTyped, AccessExpires, account, client, roles, history
<1>18. ASSUME NEW a \in Admins, CountAdmins(a) PROVE OneRotation'
  BY <1>18 DEF OneRotation, RefreshAwaited, StagesOfKinds, Rotates, Overlap, NoRefresh, IdleReq,
     AuthTyped, JarTyped, CountAdmins, account, client, roles, history
<1>19. ASSUME NEW a \in Admins, Demote(a) PROVE OneRotation'
  BY <1>19 DEF OneRotation, RefreshAwaited, StagesOfKinds, Rotates, Overlap, NoRefresh, IdleReq,
     AuthTyped, JarTyped, Demote, Bumped, account, client, roles, history
<1>20. ASSUME NEW a \in Admins, Promote(a) PROVE OneRotation'
  BY <1>20 DEF OneRotation, RefreshAwaited, StagesOfKinds, Rotates, Overlap, NoRefresh, IdleReq,
     AuthTyped, JarTyped, Promote, Bumped, account, client, roles, history
<1>21. ASSUME LockPasses PROVE OneRotation'
  BY <1>21 DEF OneRotation, RefreshAwaited, StagesOfKinds, Rotates, Overlap, NoRefresh, IdleReq,
     AuthTyped, JarTyped, LockPasses, account, client, roles, history
<1> QED BY <1>1, <1>2, <1>3, <1>4, <1>5, <1>6, <1>7, <1>8, <1>9, <1>10, <1>11, <1>12, <1>13,
           <1>14, <1>15, <1>16, <1>17, <1>18, <1>19, <1>20, <1>21 DEF AuthNext

LEMMA OneHolderStep ==
    ASSUME AuthIInv, AuthNext
    PROVE  OneHolder'
<1> USE DEF AuthIInv
<1>1. ASSUME NEW t \in Tabs, NEW s \in Slots, NEW k \in {"call", "right", "wrong", "logout"},
             Request(t, s, k) PROVE OneHolder'
  <2>1. RequestDoes(t, s, k)
    BY <1>1, RequestChanges
  <2> QED BY <2>1, TabsHaveDevices DEF RequestDoes, OneHolder, TokenIsCurrent, NoRefresh,
             NoToken, NoCookies, SameElsewhere, Sent
<1>2. ASSUME NEW t \in Tabs, NEW s \in Slots, Denied(t, s) PROVE OneHolder'
  <2>1. DeniedDoes(t, s)
    BY <1>2, DeniedChanges
  <2> QED BY <2>1, TabsHaveDevices DEF DeniedDoes, OneHolder, TokenIsCurrent, NoRefresh,
             NoToken, NoCookies, SameElsewhere
<1>3. ASSUME NEW t \in Tabs, NEW s \in Slots, RefreshAnswered(t, s) PROVE OneHolder'
  <2>1. RefreshAnsweredDoes(t, s)
    BY <1>3, RefreshAnsweredChanges
  <2> QED BY <2>1, TabsHaveDevices DEF RefreshAnsweredDoes, OneHolder, TokenIsCurrent,
             NoRefresh, NoToken, NoCookies, SameElsewhere, IsOver
<1>4. ASSUME NEW t \in Tabs, NEW s \in Slots, RefreshLost(t, s) PROVE OneHolder'
  <2>1. RefreshLostDoes(t, s)
    BY <1>4, RefreshLostChanges
  <2> QED BY <2>1, TabsHaveDevices DEF RefreshLostDoes, OneHolder, TokenIsCurrent, NoRefresh,
             NoToken, NoCookies, SameElsewhere, IsOver
<1>5. ASSUME NEW t \in Tabs, NEW s \in Slots, Resend(t, s) PROVE OneHolder'
  <2>1. ResendDoes(t, s)
    BY <1>5, ResendChanges
  <2> QED BY <2>1, TabsHaveDevices DEF ResendDoes, OneHolder, TokenIsCurrent, NoRefresh,
             NoToken, NoCookies, SameElsewhere, Sent
<1>6. ASSUME NEW t \in Tabs, NEW s \in Slots, Validate(t, s) PROVE OneHolder'
  <2>1. ValidateDoes(t, s)
    BY <1>6, ValidateChanges
  <2> QED BY <2>1, TabsHaveDevices DEF ValidateDoes, OneHolder, TokenIsCurrent, NoRefresh,
             NoToken, NoCookies, SameElsewhere, RefreshStaged
<1>7. ASSUME NEW t \in Tabs, NEW s \in Slots, Revoke(t, s) PROVE OneHolder'
  <2>1. RevokeDoes(t, s)
    BY <1>7, RevokeChanges
  <2> QED BY <2>1, TabsHaveDevices DEF RevokeDoes, OneHolder, TokenIsCurrent, NoRefresh,
             NoToken, NoCookies, SameElsewhere, RefreshStaged
<1>8. ASSUME NEW t \in Tabs, NEW s \in Slots, Mint(t, s) PROVE OneHolder'
  <2>1. MintDoes(t, s)
    BY <1>8, MintChanges
  <2> QED BY <2>1, TabsHaveDevices DEF MintDoes, OneHolder, TokenIsCurrent, NoRefresh, NoToken,
             NoCookies, SameElsewhere
<1>9. ASSUME NEW t \in Tabs, NEW s \in Slots, StoreHash(t, s) PROVE OneHolder'
  <2>1. StoreHashDoes(t, s)
    BY <1>9, StoreHashChanges
  <2> QED BY <2>1, TabsHaveDevices DEF StoreHashDoes, OneHolder, TokenIsCurrent, NoRefresh,
             NoToken, NoCookies, SameElsewhere, RefreshStaged
<1>10. ASSUME NEW t \in Tabs, NEW s \in Slots, ReadAccount(t, s) PROVE OneHolder'
  <2>1. ReadAccountDoes(t, s)
    BY <1>10, ReadAccountChanges
  <2> QED BY <2>1, TabsHaveDevices DEF ReadAccountDoes, OneHolder, TokenIsCurrent, NoRefresh,
             NoToken, NoCookies, SameElsewhere
<1>11. ASSUME NEW t \in Tabs, NEW s \in Slots, ResetLock(t, s) PROVE OneHolder'
  <2>1. ResetLockDoes(t, s)
    BY <1>11, ResetLockChanges
  <2> QED BY <2>1, TabsHaveDevices DEF ResetLockDoes, OneHolder, TokenIsCurrent, NoRefresh,
             NoToken, NoCookies, SameElsewhere, Staged
<1>12. ASSUME NEW t \in Tabs, NEW s \in Slots, CountFailure(t, s) PROVE OneHolder'
  <2>1. CountFailureDoes(t, s)
    BY <1>12, CountFailureChanges
  <2> QED BY <2>1, TabsHaveDevices DEF CountFailureDoes, OneHolder, TokenIsCurrent, NoRefresh,
             NoToken, NoCookies, SameElsewhere
<1>13. ASSUME NEW t \in Tabs, NEW s \in Slots, ResetAttempts(t, s) PROVE OneHolder'
  <2>1. ResetAttemptsDoes(t, s)
    BY <1>13, ResetAttemptsChanges
  <2> QED BY <2>1, TabsHaveDevices DEF ResetAttemptsDoes, OneHolder, TokenIsCurrent, NoRefresh,
             NoToken, NoCookies, SameElsewhere, Staged
<1>14. ASSUME NEW t \in Tabs, NEW s \in Slots, IssueTokens(t, s) PROVE OneHolder'
  <2>1. IssueTokensDoes(t, s)
    BY <1>14, IssueTokensChanges
  <2> QED BY <2>1, TabsHaveDevices DEF IssueTokensDoes, OneHolder, TokenIsCurrent, NoRefresh,
             NoToken, NoCookies, SameElsewhere
<1>15. ASSUME NEW t \in Tabs, NEW s \in Slots, ClearHash(t, s) PROVE OneHolder'
  <2>1. ClearHashDoes(t, s)
    BY <1>15, ClearHashChanges
  <2> QED BY <2>1, TabsHaveDevices DEF ClearHashDoes, OneHolder, TokenIsCurrent, NoRefresh,
             NoToken, NoCookies, SameElsewhere, Staged
<1>16. ASSUME NEW t \in Tabs, NEW s \in Slots, CookiesArrive(t, s) PROVE OneHolder'
  <2>1. CookiesArriveDoes(t, s)
    BY <1>16, CookiesArriveChanges
  <2> QED BY <2>1, TabsHaveDevices DEF CookiesArriveDoes, OneHolder, TokenIsCurrent, NoRefresh,
             NoToken, NoCookies, SameElsewhere
<1>17. ASSUME NEW d \in Devices, AccessExpires(d) PROVE OneHolder'
  BY <1>17, TabsHaveDevices DEF OneHolder, TokenIsCurrent, NoRefresh, NoToken, NoCookies,
     AuthTyped, JarTyped, AccessExpires, account, client, roles, history
<1>18. ASSUME NEW a \in Admins, CountAdmins(a) PROVE OneHolder'
  BY <1>18, TabsHaveDevices DEF OneHolder, TokenIsCurrent, NoRefresh, NoToken, NoCookies,
     AuthTyped, JarTyped, CountAdmins, account, client, roles, history
<1>19. ASSUME NEW a \in Admins, Demote(a) PROVE OneHolder'
  BY <1>19, TabsHaveDevices DEF OneHolder, TokenIsCurrent, NoRefresh, NoToken, NoCookies,
     AuthTyped, JarTyped, Demote, Bumped, account, client, roles, history
<1>20. ASSUME NEW a \in Admins, Promote(a) PROVE OneHolder'
  BY <1>20, TabsHaveDevices DEF OneHolder, TokenIsCurrent, NoRefresh, NoToken, NoCookies,
     AuthTyped, JarTyped, Promote, Bumped, account, client, roles, history
<1>21. ASSUME LockPasses PROVE OneHolder'
  BY <1>21, TabsHaveDevices DEF OneHolder, TokenIsCurrent, NoRefresh, NoToken, NoCookies,
     AuthTyped, JarTyped, LockPasses, account, client, roles, history
<1> QED BY <1>1, <1>2, <1>3, <1>4, <1>5, <1>6, <1>7, <1>8, <1>9, <1>10, <1>11, <1>12, <1>13,
           <1>14, <1>15, <1>16, <1>17, <1>18, <1>19, <1>20, <1>21 DEF AuthNext

LEMMA TokenIsCurrentStep ==
    ASSUME AuthIInv, AuthNext
    PROVE  TokenIsCurrent'
<1> USE DEF AuthIInv
<1>1. ASSUME NEW t \in Tabs, NEW s \in Slots, NEW k \in {"call", "right", "wrong", "logout"},
             Request(t, s, k) PROVE TokenIsCurrent'
  <2>1. RequestDoes(t, s, k)
    BY <1>1, RequestChanges
  <2> QED BY SMTT(30), <2>1, TabsHaveDevices DEF RequestDoes, TokenIsCurrent, OneHolder, OneRotation,
             Rotates, HashAhead, RefreshAwaited, StagesOfKinds, NoRefresh, NoToken, NoCookies,
             IdleReq, Overlap, SameElsewhere, Sent
<1>2. ASSUME NEW t \in Tabs, NEW s \in Slots, Denied(t, s) PROVE TokenIsCurrent'
  <2>1. DeniedDoes(t, s)
    BY <1>2, DeniedChanges
  <2>2. causes \subseteq causes' /\ UNCHANGED <<hash, jar>>
    BY <2>1 DEF DeniedDoes
  <2>3. ASSUME NEW b \in Tabs, NEW r \in Slots
        PROVE  /\ req[b][r].at = "issued" <=> req'[b][r].at = "issued"
               /\ req'[b][r].at = "issued" => req'[b][r] = req[b][r]
               /\ \/ refresh'[b][r] = refresh[b][r]
                  \/ /\ refresh[b][r].at = "none" /\ refresh'[b][r].at = "asked"
                     /\ refresh'[b][r].token = jar[DeviceOf[b]].refresh
    <3>1. CASE b = t /\ r = s
      BY <2>1, <3>1 DEF DeniedDoes
    <3>2. CASE ~(b = t /\ r = s)
      BY <2>1, <3>2 DEF DeniedDoes, SameElsewhere
    <3> QED BY <3>1, <3>2
  <2>4. HashAhead => HashAhead'
    <3> SUFFICES ASSUME NEW b \in Tabs, NEW r \in Slots,
                        refresh[b][r].at = "stored" \/ req[b][r].at = "issued"
                 PROVE  HashAhead'
      BY DEF HashAhead
    <3>1. refresh'[b][r].at = "stored" \/ req'[b][r].at = "issued"
      BY <2>3
    <3> QED BY <3>1 DEF HashAhead
  <2>5. SUFFICES ASSUME causes' = {}, causes = {} PROVE TokenIsCurrent'
    BY <2>2 DEF TokenIsCurrent
  <2>6. ~HashAhead' => \A d \in Devices : hash' = 0 \/ jar'[d].refresh.n \in {0, hash'}
    BY <2>2, <2>4, <2>5 DEF TokenIsCurrent
  <2>7. ASSUME NEW b \in Tabs, NEW r \in Slots
        PROVE  /\ refresh'[b][r].at \in {"asked", "valid"} =>
                     refresh'[b][r].token = jar'[DeviceOf[b]].refresh
               /\ refresh'[b][r].at \in {"valid", "minted", "stored"} \/ req'[b][r].at = "issued" =>
                     \A d \in Devices : jar'[d].refresh.n # 0 => d = DeviceOf[b]
               /\ refresh'[b][r].at = "stored" => hash' = refresh'[b][r].token.n
               /\ req'[b][r].at = "issued" => hash' = req'[b][r].attempts
    <3>1. CASE refresh'[b][r] = refresh[b][r]
      BY <2>2, <2>3, <2>5, <3>1 DEF TokenIsCurrent
    <3>2. CASE refresh'[b][r] # refresh[b][r]
      BY <2>2, <2>3, <2>5, <3>2 DEF TokenIsCurrent
    <3> QED BY <3>1, <3>2
  <2> QED BY <2>6, <2>7 DEF TokenIsCurrent
<1>3. ASSUME NEW t \in Tabs, NEW s \in Slots, RefreshAnswered(t, s) PROVE TokenIsCurrent'
  <2>1. RefreshAnsweredDoes(t, s)
    BY <1>3, RefreshAnsweredChanges
  <2> QED BY SMTT(30), <2>1, TabsHaveDevices DEF RefreshAnsweredDoes, TokenIsCurrent, OneHolder,
             OneRotation, Rotates, HashAhead, RefreshAwaited, StagesOfKinds, NoRefresh, NoToken,
             NoCookies, IdleReq, Overlap, SameElsewhere, IsOver
<1>4. ASSUME NEW t \in Tabs, NEW s \in Slots, RefreshLost(t, s) PROVE TokenIsCurrent'
  <2>1. RefreshLostDoes(t, s)
    BY <1>4, RefreshLostChanges
  <2> QED BY <2>1, TabsHaveDevices DEF RefreshLostDoes, TokenIsCurrent, OneHolder, OneRotation,
             Rotates, HashAhead, RefreshAwaited, StagesOfKinds, NoRefresh, NoToken, NoCookies,
             IdleReq, Overlap, SameElsewhere, IsOver
<1>5. ASSUME NEW t \in Tabs, NEW s \in Slots, Resend(t, s) PROVE TokenIsCurrent'
  <2>1. ResendDoes(t, s)
    BY <1>5, ResendChanges
  <2> QED BY <2>1, TabsHaveDevices DEF ResendDoes, TokenIsCurrent, OneHolder, OneRotation,
             Rotates, HashAhead, RefreshAwaited, StagesOfKinds, NoRefresh, NoToken, NoCookies,
             IdleReq, Overlap, SameElsewhere, Sent
<1>6. ASSUME NEW t \in Tabs, NEW s \in Slots, Validate(t, s) PROVE TokenIsCurrent'
  <2>1. ValidateDoes(t, s)
    BY <1>6, ValidateChanges
  <2> QED BY SMTT(90), <2>1, TabsHaveDevices DEF ValidateDoes, TokenIsCurrent, OneHolder, OneRotation,
             Rotates, HashAhead, RefreshAwaited, StagesOfKinds, NoRefresh, NoToken, NoCookies,
             IdleReq, Overlap, SameElsewhere, RefreshStaged
<1>7. ASSUME NEW t \in Tabs, NEW s \in Slots, Revoke(t, s) PROVE TokenIsCurrent'
  <2>1. RevokeDoes(t, s)
    BY <1>7, RevokeChanges
  <2> QED BY <2>1, TabsHaveDevices DEF RevokeDoes, TokenIsCurrent, OneHolder, OneRotation,
             Rotates, HashAhead, RefreshAwaited, StagesOfKinds, NoRefresh, NoToken, NoCookies,
             IdleReq, Overlap, SameElsewhere, RefreshStaged
<1>8. ASSUME NEW t \in Tabs, NEW s \in Slots, Mint(t, s) PROVE TokenIsCurrent'
  <2>1. MintDoes(t, s)
    BY <1>8, MintChanges
  <2> QED BY <2>1, TabsHaveDevices DEF MintDoes, TokenIsCurrent, OneHolder, OneRotation,
             Rotates, HashAhead, RefreshAwaited, StagesOfKinds, NoRefresh, NoToken, NoCookies,
             IdleReq, Overlap, SameElsewhere
<1>9. ASSUME NEW t \in Tabs, NEW s \in Slots, StoreHash(t, s) PROVE TokenIsCurrent'
  <2>1. StoreHashDoes(t, s)
    BY <1>9, StoreHashChanges
  <2> QED BY SMTT(30), <2>1, TabsHaveDevices DEF StoreHashDoes, TokenIsCurrent, OneHolder, OneRotation,
             Rotates, HashAhead, RefreshAwaited, StagesOfKinds, NoRefresh, NoToken, NoCookies,
             IdleReq, Overlap, SameElsewhere, RefreshStaged
<1>10. ASSUME NEW t \in Tabs, NEW s \in Slots, ReadAccount(t, s) PROVE TokenIsCurrent'
  <2>1. ReadAccountDoes(t, s)
    BY <1>10, ReadAccountChanges
  <2> QED BY SMTT(30), <2>1, TabsHaveDevices DEF ReadAccountDoes, TokenIsCurrent, OneHolder, OneRotation,
             Rotates, HashAhead, RefreshAwaited, StagesOfKinds, NoRefresh, NoToken, NoCookies,
             IdleReq, Overlap, SameElsewhere
<1>11. ASSUME NEW t \in Tabs, NEW s \in Slots, ResetLock(t, s) PROVE TokenIsCurrent'
  <2>1. ResetLockDoes(t, s)
    BY <1>11, ResetLockChanges
  <2> QED BY SMTT(30), <2>1, TabsHaveDevices DEF ResetLockDoes, TokenIsCurrent, OneHolder, OneRotation,
             Rotates, HashAhead, RefreshAwaited, StagesOfKinds, NoRefresh, NoToken, NoCookies,
             IdleReq, Overlap, SameElsewhere, Staged
<1>12. ASSUME NEW t \in Tabs, NEW s \in Slots, CountFailure(t, s) PROVE TokenIsCurrent'
  <2>1. CountFailureDoes(t, s)
    BY <1>12, CountFailureChanges
  <2> QED BY SMTT(30), <2>1, TabsHaveDevices DEF CountFailureDoes, TokenIsCurrent, OneHolder, OneRotation,
             Rotates, HashAhead, RefreshAwaited, StagesOfKinds, NoRefresh, NoToken, NoCookies,
             IdleReq, Overlap, SameElsewhere
<1>13. ASSUME NEW t \in Tabs, NEW s \in Slots, ResetAttempts(t, s) PROVE TokenIsCurrent'
  <2>1. ResetAttemptsDoes(t, s)
    BY <1>13, ResetAttemptsChanges
  <2> QED BY <2>1, TabsHaveDevices DEF ResetAttemptsDoes, TokenIsCurrent, OneHolder,
             OneRotation, Rotates, HashAhead, RefreshAwaited, StagesOfKinds, NoRefresh, NoToken,
             NoCookies, IdleReq, Overlap, SameElsewhere, Staged
<1>14. ASSUME NEW t \in Tabs, NEW s \in Slots, IssueTokens(t, s) PROVE TokenIsCurrent'
  <2>1. IssueTokensDoes(t, s)
    BY <1>14, IssueTokensChanges
  <2> QED BY SMTT(30), <2>1, TabsHaveDevices DEF IssueTokensDoes, TokenIsCurrent, OneHolder, OneRotation,
             Rotates, HashAhead, RefreshAwaited, StagesOfKinds, NoRefresh, NoToken, NoCookies,
             IdleReq, Overlap, SameElsewhere
<1>15. ASSUME NEW t \in Tabs, NEW s \in Slots, ClearHash(t, s) PROVE TokenIsCurrent'
  <2>1. ClearHashDoes(t, s)
    BY <1>15, ClearHashChanges
  <2> QED BY <2>1, TabsHaveDevices DEF ClearHashDoes, TokenIsCurrent, OneHolder, OneRotation,
             Rotates, HashAhead, RefreshAwaited, StagesOfKinds, NoRefresh, NoToken, NoCookies,
             IdleReq, Overlap, SameElsewhere, Staged
<1>16. ASSUME NEW t \in Tabs, NEW s \in Slots, CookiesArrive(t, s) PROVE TokenIsCurrent'
  <2>1. CookiesArriveDoes(t, s)
    BY <1>16, CookiesArriveChanges
  <2> QED BY SMTT(30), <2>1, TabsHaveDevices DEF CookiesArriveDoes, TokenIsCurrent, OneHolder,
             OneRotation, Rotates, HashAhead, RefreshAwaited, StagesOfKinds, NoRefresh, NoToken,
             NoCookies, IdleReq, Overlap, SameElsewhere
<1>17. ASSUME NEW d \in Devices, AccessExpires(d) PROVE TokenIsCurrent'
  BY <1>17, TabsHaveDevices DEF TokenIsCurrent, OneHolder, OneRotation, Rotates, HashAhead,
     RefreshAwaited, StagesOfKinds, NoRefresh, NoToken, NoCookies, IdleReq, Overlap, AuthTyped,
     JarTyped, AccessExpires, account, client, roles, history
<1>18. ASSUME NEW a \in Admins, CountAdmins(a) PROVE TokenIsCurrent'
  BY <1>18, TabsHaveDevices DEF TokenIsCurrent, OneHolder, OneRotation, Rotates, HashAhead,
     RefreshAwaited, StagesOfKinds, NoRefresh, NoToken, NoCookies, IdleReq, Overlap, AuthTyped,
     JarTyped, CountAdmins, account, client, roles, history
<1>19. ASSUME NEW a \in Admins, Demote(a) PROVE TokenIsCurrent'
  BY <1>19, TabsHaveDevices DEF TokenIsCurrent, OneHolder, OneRotation, Rotates, HashAhead,
     RefreshAwaited, StagesOfKinds, NoRefresh, NoToken, NoCookies, IdleReq, Overlap, AuthTyped,
     JarTyped, Demote, Bumped, account, client, roles, history
<1>20. ASSUME NEW a \in Admins, Promote(a) PROVE TokenIsCurrent'
  BY <1>20, TabsHaveDevices DEF TokenIsCurrent, OneHolder, OneRotation, Rotates, HashAhead,
     RefreshAwaited, StagesOfKinds, NoRefresh, NoToken, NoCookies, IdleReq, Overlap, AuthTyped,
     JarTyped, Promote, Bumped, account, client, roles, history
<1>21. ASSUME LockPasses PROVE TokenIsCurrent'
  BY <1>21, TabsHaveDevices DEF TokenIsCurrent, OneHolder, OneRotation, Rotates, HashAhead,
     RefreshAwaited, StagesOfKinds, NoRefresh, NoToken, NoCookies, IdleReq, Overlap, AuthTyped,
     JarTyped, LockPasses, account, client, roles, history
<1> QED BY <1>1, <1>2, <1>3, <1>4, <1>5, <1>6, <1>7, <1>8, <1>9, <1>10, <1>11, <1>12, <1>13,
           <1>14, <1>15, <1>16, <1>17, <1>18, <1>19, <1>20, <1>21 DEF AuthNext

LEMMA ReuseHasCauseStep ==
    ASSUME AuthIInv, AuthNext
    PROVE  ReuseHasCause'
<1> USE DEF AuthIInv
<1>1. ASSUME NEW t \in Tabs, NEW s \in Slots, NEW k \in {"call", "right", "wrong", "logout"},
             Request(t, s, k) PROVE ReuseHasCause'
  <2>1. RequestDoes(t, s, k)
    BY <1>1, RequestChanges
  <2> QED BY <2>1, TabsHaveDevices DEF RequestDoes, ReuseHasCause, Reuse, TokenIsCurrent,
             OneRotation, Rotates, HashAhead, RefreshAwaited, NoRefresh, NoToken, SameElsewhere,
             Sent
<1>2. ASSUME NEW t \in Tabs, NEW s \in Slots, Denied(t, s) PROVE ReuseHasCause'
  <2>1. DeniedDoes(t, s)
    BY <1>2, DeniedChanges
  <2> QED BY <2>1, TabsHaveDevices DEF DeniedDoes, ReuseHasCause, Reuse, TokenIsCurrent,
             OneRotation, Rotates, HashAhead, RefreshAwaited, NoRefresh, NoToken, SameElsewhere
<1>3. ASSUME NEW t \in Tabs, NEW s \in Slots, RefreshAnswered(t, s) PROVE ReuseHasCause'
  <2>1. RefreshAnsweredDoes(t, s)
    BY <1>3, RefreshAnsweredChanges
  <2> QED BY <2>1, TabsHaveDevices DEF RefreshAnsweredDoes, ReuseHasCause, Reuse,
             TokenIsCurrent, OneRotation, Rotates, HashAhead, RefreshAwaited, NoRefresh,
             NoToken, SameElsewhere, IsOver
<1>4. ASSUME NEW t \in Tabs, NEW s \in Slots, RefreshLost(t, s) PROVE ReuseHasCause'
  <2>1. RefreshLostDoes(t, s)
    BY <1>4, RefreshLostChanges
  <2> QED BY <2>1, TabsHaveDevices DEF RefreshLostDoes, ReuseHasCause, Reuse, TokenIsCurrent,
             OneRotation, Rotates, HashAhead, RefreshAwaited, NoRefresh, NoToken, SameElsewhere,
             IsOver
<1>5. ASSUME NEW t \in Tabs, NEW s \in Slots, Resend(t, s) PROVE ReuseHasCause'
  <2>1. ResendDoes(t, s)
    BY <1>5, ResendChanges
  <2> QED BY <2>1, TabsHaveDevices DEF ResendDoes, ReuseHasCause, Reuse, TokenIsCurrent,
             OneRotation, Rotates, HashAhead, RefreshAwaited, NoRefresh, NoToken, SameElsewhere,
             Sent
<1>6. ASSUME NEW t \in Tabs, NEW s \in Slots, Validate(t, s) PROVE ReuseHasCause'
  <2>1. ValidateDoes(t, s)
    BY <1>6, ValidateChanges
  <2>2. refresh[t][s].at = "asked"
    BY <2>1 DEF ValidateDoes
  <2>3. causes = {} => ~HashAhead
    BY <2>2 DEF HashAhead, OneRotation, Rotates, StagesOfKinds, RefreshAwaited
  <2>4. causes = {} => hash = 0 \/ refresh[t][s].token = NoToken \/ refresh[t][s].token.n = hash
    BY <2>2, <2>3, TabsHaveDevices DEF TokenIsCurrent, StagesOfKinds
  <2> QED BY <2>1, <2>4 DEF ValidateDoes, RefreshStaged, SameElsewhere, ReuseHasCause, Reuse
<1>7. ASSUME NEW t \in Tabs, NEW s \in Slots, Revoke(t, s) PROVE ReuseHasCause'
  <2>1. RevokeDoes(t, s)
    BY <1>7, RevokeChanges
  <2> QED BY <2>1, TabsHaveDevices DEF RevokeDoes, ReuseHasCause, Reuse, TokenIsCurrent,
             OneRotation, Rotates, HashAhead, RefreshAwaited, NoRefresh, NoToken, SameElsewhere,
             RefreshStaged
<1>8. ASSUME NEW t \in Tabs, NEW s \in Slots, Mint(t, s) PROVE ReuseHasCause'
  <2>1. MintDoes(t, s)
    BY <1>8, MintChanges
  <2> QED BY <2>1, TabsHaveDevices DEF MintDoes, ReuseHasCause, Reuse, TokenIsCurrent,
             OneRotation, Rotates, HashAhead, RefreshAwaited, NoRefresh, NoToken, SameElsewhere
<1>9. ASSUME NEW t \in Tabs, NEW s \in Slots, StoreHash(t, s) PROVE ReuseHasCause'
  <2>1. StoreHashDoes(t, s)
    BY <1>9, StoreHashChanges
  <2> QED BY <2>1, TabsHaveDevices DEF StoreHashDoes, ReuseHasCause, Reuse, TokenIsCurrent,
             OneRotation, Rotates, HashAhead, RefreshAwaited, NoRefresh, NoToken, SameElsewhere,
             RefreshStaged
<1>10. ASSUME NEW t \in Tabs, NEW s \in Slots, ReadAccount(t, s) PROVE ReuseHasCause'
  <2>1. ReadAccountDoes(t, s)
    BY <1>10, ReadAccountChanges
  <2> QED BY <2>1, TabsHaveDevices DEF ReadAccountDoes, ReuseHasCause, Reuse, TokenIsCurrent,
             OneRotation, Rotates, HashAhead, RefreshAwaited, NoRefresh, NoToken, SameElsewhere
<1>11. ASSUME NEW t \in Tabs, NEW s \in Slots, ResetLock(t, s) PROVE ReuseHasCause'
  <2>1. ResetLockDoes(t, s)
    BY <1>11, ResetLockChanges
  <2> QED BY <2>1, TabsHaveDevices DEF ResetLockDoes, ReuseHasCause, Reuse, TokenIsCurrent,
             OneRotation, Rotates, HashAhead, RefreshAwaited, NoRefresh, NoToken, SameElsewhere,
             Staged
<1>12. ASSUME NEW t \in Tabs, NEW s \in Slots, CountFailure(t, s) PROVE ReuseHasCause'
  <2>1. CountFailureDoes(t, s)
    BY <1>12, CountFailureChanges
  <2> QED BY <2>1, TabsHaveDevices DEF CountFailureDoes, ReuseHasCause, Reuse, TokenIsCurrent,
             OneRotation, Rotates, HashAhead, RefreshAwaited, NoRefresh, NoToken, SameElsewhere
<1>13. ASSUME NEW t \in Tabs, NEW s \in Slots, ResetAttempts(t, s) PROVE ReuseHasCause'
  <2>1. ResetAttemptsDoes(t, s)
    BY <1>13, ResetAttemptsChanges
  <2> QED BY <2>1, TabsHaveDevices DEF ResetAttemptsDoes, ReuseHasCause, Reuse, TokenIsCurrent,
             OneRotation, Rotates, HashAhead, RefreshAwaited, NoRefresh, NoToken, SameElsewhere,
             Staged
<1>14. ASSUME NEW t \in Tabs, NEW s \in Slots, IssueTokens(t, s) PROVE ReuseHasCause'
  <2>1. IssueTokensDoes(t, s)
    BY <1>14, IssueTokensChanges
  <2> QED BY <2>1, TabsHaveDevices DEF IssueTokensDoes, ReuseHasCause, Reuse, TokenIsCurrent,
             OneRotation, Rotates, HashAhead, RefreshAwaited, NoRefresh, NoToken, SameElsewhere
<1>15. ASSUME NEW t \in Tabs, NEW s \in Slots, ClearHash(t, s) PROVE ReuseHasCause'
  <2>1. ClearHashDoes(t, s)
    BY <1>15, ClearHashChanges
  <2> QED BY <2>1, TabsHaveDevices DEF ClearHashDoes, ReuseHasCause, Reuse, TokenIsCurrent,
             OneRotation, Rotates, HashAhead, RefreshAwaited, NoRefresh, NoToken, SameElsewhere,
             Staged
<1>16. ASSUME NEW t \in Tabs, NEW s \in Slots, CookiesArrive(t, s) PROVE ReuseHasCause'
  <2>1. CookiesArriveDoes(t, s)
    BY <1>16, CookiesArriveChanges
  <2> QED BY <2>1, TabsHaveDevices DEF CookiesArriveDoes, ReuseHasCause, Reuse, TokenIsCurrent,
             OneRotation, Rotates, HashAhead, RefreshAwaited, NoRefresh, NoToken, SameElsewhere
<1>17. ASSUME NEW d \in Devices, AccessExpires(d) PROVE ReuseHasCause'
  BY <1>17, TabsHaveDevices DEF ReuseHasCause, Reuse, TokenIsCurrent, OneRotation, Rotates,
     HashAhead, RefreshAwaited, NoRefresh, NoToken, AuthTyped, JarTyped, AccessExpires, account,
     client, roles, history
<1>18. ASSUME NEW a \in Admins, CountAdmins(a) PROVE ReuseHasCause'
  BY <1>18, TabsHaveDevices DEF ReuseHasCause, Reuse, TokenIsCurrent, OneRotation, Rotates,
     HashAhead, RefreshAwaited, NoRefresh, NoToken, AuthTyped, JarTyped, CountAdmins, account,
     client, roles, history
<1>19. ASSUME NEW a \in Admins, Demote(a) PROVE ReuseHasCause'
  BY <1>19, TabsHaveDevices DEF ReuseHasCause, Reuse, TokenIsCurrent, OneRotation, Rotates,
     HashAhead, RefreshAwaited, NoRefresh, NoToken, AuthTyped, JarTyped, Demote, Bumped,
     account, client, roles, history
<1>20. ASSUME NEW a \in Admins, Promote(a) PROVE ReuseHasCause'
  BY <1>20, TabsHaveDevices DEF ReuseHasCause, Reuse, TokenIsCurrent, OneRotation, Rotates,
     HashAhead, RefreshAwaited, NoRefresh, NoToken, AuthTyped, JarTyped, Promote, Bumped,
     account, client, roles, history
<1>21. ASSUME LockPasses PROVE ReuseHasCause'
  BY <1>21, TabsHaveDevices DEF ReuseHasCause, Reuse, TokenIsCurrent, OneRotation, Rotates,
     HashAhead, RefreshAwaited, NoRefresh, NoToken, AuthTyped, JarTyped, LockPasses, account,
     client, roles, history
<1> QED BY <1>1, <1>2, <1>3, <1>4, <1>5, <1>6, <1>7, <1>8, <1>9, <1>10, <1>11, <1>12, <1>13,
           <1>14, <1>15, <1>16, <1>17, <1>18, <1>19, <1>20, <1>21 DEF AuthNext

LEMMA AuthInitEstablishes == AuthInit => AuthIInv
<1> SUFFICES ASSUME AuthInit PROVE AuthIInv
  OBVIOUS
<1> USE DEF AuthInit
<1>1. /\ JarTyped /\ \A d \in Devices : jar[d].refresh.n \in {0, 1} /\ (jar[d].refresh.n # 0 => d = Home)
      /\ \A d \in Devices : jar[d].refresh.n = 0 => jar[d].refresh = NoToken
  BY DEF JarTyped, Tokens, NoCookies, NoToken
<1>2. ReqsTyped /\ \A t \in Tabs, s \in Slots : req[t][s] = IdleReq /\ req[t][s].at = "idle"
  BY IdleIsRequest DEF ReqsTyped
<1>3. RefreshesTyped
  BY DEF RefreshesTyped, NoRefresh, NoToken, Tokens, RefreshStages
<1>4. \A t \in Tabs, s \in Slots : refresh[t][s] = NoRefresh /\ refresh[t][s].at = "none" /\ refresh[t][s].token = NoToken
  BY DEF NoRefresh
<1>5. AuthTyped
  BY <1>1, <1>2, <1>3 DEF AuthTyped
<1>6. RefreshAwaited /\ IssuedIsMinted /\ StagesOfKinds
  BY <1>1, <1>2, <1>4 DEF RefreshAwaited, IssuedIsMinted, StagesOfKinds
<1>7. \A t \in Tabs, s \in Slots : ~Rotates(t, s)
  BY <1>2, <1>4 DEF Rotates
<1>8. OneRotation /\ OneHolder
  BY <1>1, <1>7 DEF OneRotation, OneHolder
<1>9. TokenIsCurrent /\ ReuseHasCause
  BY <1>1, <1>2, <1>4 DEF TokenIsCurrent, ReuseHasCause, Reuse
<1>10. LockNeedsFailures
  BY DEF LockNeedsFailures
<1> QED BY <1>5, <1>6, <1>8, <1>9, <1>10 DEF AuthIInv

LEMMA AuthStepPreserves == AuthIInv /\ [AuthNext]_authVars => AuthIInv'
<1> SUFFICES ASSUME AuthIInv, [AuthNext]_authVars PROVE AuthIInv'
  OBVIOUS
<1>1. CASE AuthNext
  BY <1>1, AuthTypedStep, RefreshAwaitedStep, IssuedIsMintedStep, StagesOfKindsStep,
     LockNeedsFailuresStep, OneRotationStep, OneHolderStep, TokenIsCurrentStep, ReuseHasCauseStep
     DEF AuthIInv
<1>2. CASE UNCHANGED authVars
  <2> USE <1>2 DEF AuthIInv, authVars, account, client, roles, history
  <2>1. AuthTyped'
    BY DEF AuthTyped, JarTyped, ReqsTyped, RefreshesTyped, AuthRequests, Tokens
  <2>2. RefreshAwaited' /\ IssuedIsMinted' /\ StagesOfKinds'
    BY DEF RefreshAwaited, IssuedIsMinted, StagesOfKinds
  <2>3. OneRotation' /\ OneHolder'
    BY DEF OneRotation, OneHolder, Rotates
  <2>4. TokenIsCurrent' /\ ReuseHasCause' /\ LockNeedsFailures'
    BY DEF TokenIsCurrent, HashAhead, ReuseHasCause, Reuse, LockNeedsFailures
  <2> QED BY <2>1, <2>2, <2>3, <2>4
<1> QED BY <1>1, <1>2

\* A session is closed for reuse only when rotations of two tabs overlapped,
\* an answer was lost or another device logged in, and an account is locked
\* only after enough wrong passwords: for any tabs, devices and requests.
THEOREM SessionsAlwaysInOrder == AuthSpec => []AuthInv
<1>1. AuthIInv => AuthInv
  <2> SUFFICES ASSUME AuthIInv PROVE AuthInv
    OBVIOUS
  <2> USE DEF AuthIInv
  <2>1. \A d \in Devices : jar[d].refresh.n \in 0 .. minted /\ jar[d].access \in BOOLEAN
    BY DEF AuthTyped, JarTyped, Tokens
  <2>2. ASSUME NEW t \in Tabs, NEW s \in Slots
        PROVE  /\ req[t][s].at \in Stages
               /\ req[t][s].at = "waiting" => refresh[t][req[t][s].waits].at # "none"
               /\ refresh[t][s].at \in {"none", "asked", "valid", "reuse", "minted", "stored", "refused"}
               /\ refresh[t][s].token.n \in 0 .. minted
    <3>1. req[t][s].at \in Stages
      BY CellsTyped DEF AuthRequests
    <3>2. req[t][s].at = "waiting" => refresh[t][req[t][s].waits].at # "none"
      BY DEF RefreshAwaited
    <3>3. refresh[t][s].at \in RefreshStages /\ refresh[t][s].token.n \in 0 .. minted
      BY CellsTyped DEF Tokens
    <3> QED BY <3>1, <3>2, <3>3 DEF RefreshStages
  <2>3. ASSUME NEW t \in Tabs PROVE Cardinality({s \in Slots : refresh[t][s].at # "none"}) <= 1
    <3> DEFINE S == {s \in Slots : refresh[t][s].at # "none"}
    <3>1. \A s, r \in S : s = r
      BY DEF RefreshAwaited
    <3>2. Cardinality({}) = 0 /\ \A s : Cardinality({s}) = 1
      BY FS_EmptySet, FS_Singleton
    <3> HIDE DEF S
    <3>3. S = {} \/ \E s : S = {s}
      BY <3>1
    <3>4. Cardinality(S) = 0 \/ Cardinality(S) = 1
      <4>1. CASE S = {}
        BY <3>2, <4>1
      <4>2. CASE S # {}
        <5>1. PICK s : S = {s}
          BY <3>3, <4>2
        <5>2. Cardinality({s}) = 1
          BY <3>2
        <5> QED BY <5>1, <5>2
      <4> QED BY <4>1, <4>2
    <3>5. Cardinality(S) <= 1
      BY <3>4
    <3> QED BY <3>5 DEF S
  <2>4. AuthTypeOK
    BY <2>1, <2>2, <2>3 DEF AuthTyped, AuthTypeOK
  <2> QED BY <2>4 DEF AuthInv
<1> QED BY <1>1, AuthInitEstablishes, AuthStepPreserves, PTL DEF AuthSpec

-----------------------------------------------------------------------------
(***************************************************************************)
(* A guest sits in a room only by an approval of that room, and is the     *)
(* guest the page takes itself for.  The socket reads the first cookie of  *)
(* its handshake, the request any cookie of its moment: they agree since a *)
(* browser has one cookie for a room, and since that cookie, while the     *)
(* page has a session, is only ever taken away.                            *)
(***************************************************************************)

(***************************************************************************)
(* A guest sits in a room only by an approval of that room, and is the     *)
(* guest the page takes itself for.  The socket reads the first cookie of  *)
(* its handshake, the request any cookie of its moment: they agree since a *)
(* browser has one cookie for a room, and since that cookie, while the     *)
(* page has a session, is only ever taken away.                            *)
(***************************************************************************)

GuestCookie == [slug : Slugs, n : Nat]
Who == {Account, Stranger} \cup [type : {"guest"}, slug : Slugs, n : Nat]
Views == {"prejoin", "active", "ended"}
SessionStates == {"disconnected", "connecting", "joined", "error"}
PageOfRoom == [view : Views, status : SessionStates, user : BOOLEAN, checked : BOOLEAN, me : Who]
Handshakes == [access : {"none", "live", "dead"}, jar : Seq(GuestCookie)]

\* Every variable has its type.
IdentityTyped ==
    /\ access \in {"none", "live", "dead"}
    /\ guestJar \in Seq(GuestCookie)
    /\ page \in [Slugs -> PageOfRoom]
    /\ shakes \in [Slugs -> Handshakes]
    /\ seats \in [Slugs -> Who]
    /\ IsFiniteSet(granted)

\* A browser has one cookie for a room, and had it by an approval.
OneCookieEach ==
    /\ \A i, j \in DOMAIN guestJar : guestJar[i].slug = guestJar[j].slug => i = j
    /\ \A i \in DOMAIN guestJar : <<guestJar[i].slug, guestJar[i].n>> \in granted

\* So had the browser at a handshake.
HandshakesByApproval ==
    \A s \in Slugs : \A i \in DOMAIN shakes[s].jar :
       <<shakes[s].jar[i].slug, shakes[s].jar[i].n>> \in granted

\* Who is seated is in the room, and a guest has the seat by the cookie of
\* the room that was there at the handshake.
SeatByHandshake(p, held, seat, s) ==
    /\ p.status = "joined" <=> seat # Stranger
    /\ p.status \in {"connecting", "joined"} => p.view = "active"
    /\ seat.type = "guest" => seat.slug = s /\ \E i \in DOMAIN held : seat = Guest(held[i])

SeatsByHandshake == \A s \in Slugs : SeatByHandshake(page[s], shakes[s].jar, seats[s], s)

\* While the page of a room has a session, the cookie of the room stays as it
\* was at the handshake, if it stays; and it is the guest the page takes itself
\* for.
SameGuestAt(p, held, cookie, s) ==
    /\ p.view = "prejoin" /\ p.status = "disconnected" => p.me = Stranger
    /\ p.view = "active" /\ p.status # "error" /\ p.me.type = "guest" =>
          \A i \in DOMAIN cookie : cookie[i].slug = s => p.me = Guest(cookie[i])
    /\ p.status \in {"connecting", "joined"} =>
          \A h \in DOMAIN held : held[h].slug = s =>
             /\ \A i \in DOMAIN cookie : cookie[i].slug = s => cookie[i] = held[h]
             /\ p.me.type = "guest" => p.me = Guest(held[h])

SameGuest == \A s \in Slugs : SameGuestAt(page[s], shakes[s].jar, guestJar, s)

IdentityIInv ==
    IdentityTyped /\ OneCookieEach /\ HandshakesByApproval /\ SeatsByHandshake /\ SameGuest

-----------------------------------------------------------------------------
(* Cookies.                                                                *)

\* A guest is one of those a page or a seat may be.
LEMMA GuestsAreWho ==
    ASSUME NEW g \in GuestCookie
    PROVE  /\ Guest(g) \in Who /\ Guest(g).type = "guest" /\ Guest(g).slug = g.slug
           /\ Guest(g).n = g.n /\ Guest(g) # Stranger /\ g.slug \in Slugs
BY DEF GuestCookie, Who, Guest, Stranger

\* Nobody else is a guest.
LEMMA OthersAreNoGuests == Account.type # "guest" /\ Stranger.type # "guest" /\ Account # Stranger
<1>1. Account.type = "user"
  BY DEF Account
<1>2. Stranger.type = "none"
  BY DEF Stranger
<1> QED BY <1>1, <1>2

\* What is in a jar is a cookie.
LEMMA JarHolds ==
    ASSUME NEW held \in Seq(GuestCookie)
    PROVE  /\ DOMAIN held = 1 .. Len(held) /\ Len(held) \in Nat
           /\ \A i \in DOMAIN held : held[i] \in GuestCookie
OBVIOUS

\* Setting a cookie leaves one cookie for the room, and those of other rooms.
LEMMA CookieSet ==
    ASSUME guestJar \in Seq(GuestCookie), OneCookieEach, NEW g \in GuestCookie
    PROVE  /\ WithCookie(g) \in Seq(GuestCookie)
           /\ \A i, j \in DOMAIN WithCookie(g) : WithCookie(g)[i].slug = WithCookie(g)[j].slug => i = j
           /\ \A i \in DOMAIN WithCookie(g) :
                 \/ WithCookie(g)[i] = g
                 \/ /\ i \in DOMAIN guestJar /\ WithCookie(g)[i] = guestJar[i]
                    /\ WithCookie(g)[i].slug # g.slug
<1>0. /\ DOMAIN guestJar = 1 .. Len(guestJar) /\ Len(guestJar) \in Nat
      /\ \A i \in DOMAIN guestJar : guestJar[i] \in GuestCookie
  BY JarHolds
<1>a. \A i, j \in DOMAIN guestJar : guestJar[i].slug = guestJar[j].slug => i = j
  BY DEF OneCookieEach
<1>1. CASE GuestCookies(g.slug) = {}
  <2>1. \A i \in DOMAIN guestJar : guestJar[i].slug # g.slug
    BY <1>1 DEF GuestCookies, ToSet
  <2> DEFINE W == Append(guestJar, g)
  <2>2. WithCookie(g) = W
    BY <1>1 DEF WithCookie
  <2>3. /\ W \in Seq(GuestCookie) /\ DOMAIN W = 1 .. Len(guestJar) + 1 /\ W[Len(guestJar) + 1] = g
        /\ \A i \in DOMAIN guestJar : W[i] = guestJar[i]
    BY <1>0, AppendProperties
  <2>4. \A i \in DOMAIN W : i \in DOMAIN guestJar \/ i = Len(guestJar) + 1
    BY <1>0, <2>3
  <2> HIDE DEF W
  <2>5. \A i, j \in DOMAIN W : W[i].slug = W[j].slug => i = j
    BY <1>a, <2>1, <2>3, <2>4
  <2> QED BY <2>1, <2>2, <2>3, <2>4, <2>5
<1>2. CASE GuestCookies(g.slug) # {}
  <2> DEFINE W == [i \in DOMAIN guestJar |-> IF guestJar[i].slug = g.slug THEN g ELSE guestJar[i]]
  <2>1. WithCookie(g) = W
    BY <1>2 DEF WithCookie
  <2>2. W \in Seq(GuestCookie) /\ DOMAIN W = DOMAIN guestJar
    BY <1>0
  <2>3. \A i \in DOMAIN guestJar : /\ W[i] = g \/ (W[i] = guestJar[i] /\ W[i].slug # g.slug)
                                   /\ W[i].slug = guestJar[i].slug
    <3> TAKE i \in DOMAIN guestJar
    <3>1. CASE guestJar[i].slug = g.slug
      <4>1. W[i] = g
        BY <3>1
      <4> HIDE DEF W
      <4> QED BY <3>1, <4>1
    <3>2. CASE guestJar[i].slug # g.slug
      BY <3>2
    <3> QED BY <3>1, <3>2
  <2> HIDE DEF W
  <2> QED BY <1>a, <2>1, <2>2, <2>3
<1> QED BY <1>1, <1>2

\* A cookie that has gone leaves the others.
LEMMA CookieRemoved ==
    ASSUME guestJar \in Seq(GuestCookie), OneCookieEach, NEW k \in DOMAIN guestJar,
           NEW R, R = RemoveAt(guestJar, k)
    PROVE  /\ R \in Seq(GuestCookie)
           /\ \A i, j \in DOMAIN R : R[i].slug = R[j].slug => i = j
           /\ \A i \in DOMAIN R : \E j \in DOMAIN guestJar : R[i] = guestJar[j]
<1>0. /\ DOMAIN guestJar = 1 .. Len(guestJar) /\ Len(guestJar) \in Nat
      /\ \A i \in DOMAIN guestJar : guestJar[i] \in GuestCookie
  BY JarHolds
<1> DEFINE n == Len(guestJar)
           A == SubSeq(guestJar, 1, k - 1)
           B == SubSeq(guestJar, k + 1, n)
           from == [i \in 1 .. n - 1 |-> IF i < k THEN i ELSE i + 1]
<1>1. R = A \o B
  BY DEF RemoveAt
<1>2. /\ A \in Seq(GuestCookie) /\ Len(A) = k - 1 /\ \A i \in 1 .. k - 1 : A[i] = guestJar[i]
  BY <1>0, SubSeqProperties
<1>3. /\ B \in Seq(GuestCookie) /\ Len(B) = n - k /\ \A i \in 1 .. n - k : B[i] = guestJar[k + i]
  <2>1. k \in 1 .. n
    BY <1>0
  <2>2. k + 1 \in 1 .. n + 1 /\ n \in (k + 1) - 1 .. n
    BY <1>0, <2>1
  <2>3. B \in Seq(GuestCookie) /\ Len(B) = n - (k + 1) + 1
    BY <1>0, <2>2, SubSeqProperties
  <2>4. \A i \in 1 .. n - k : B[i] = guestJar[(k + 1) + i - 1]
    BY <1>0, <2>1, <2>2, <2>3, SubSeqProperties
  <2> QED BY <1>0, <2>1, <2>3, <2>4
<1> HIDE DEF A, B
<1>a. /\ R \in Seq(GuestCookie) /\ Len(R) = Len(A) + Len(B)
      /\ \A i \in 1 .. Len(A) + Len(B) : R[i] = IF i <= Len(A) THEN A[i] ELSE B[i - Len(A)]
  BY <1>1, <1>2, <1>3, ConcatProperties
<1>b. k \in 1 .. n /\ n \in Nat
  BY <1>0
<1>4. R \in Seq(GuestCookie) /\ DOMAIN R = 1 .. n - 1
  BY <1>b, <1>a, <1>2, <1>3, LenProperties
<1>5. \A i \in 1 .. n - 1 : R[i] = guestJar[from[i]] /\ from[i] \in DOMAIN guestJar
  <2> SUFFICES ASSUME NEW i \in 1 .. n - 1
                      PROVE R[i] = guestJar[from[i]] /\ from[i] \in DOMAIN guestJar
    OBVIOUS
  <2>1. R[i] = IF i <= k - 1 THEN A[i] ELSE B[i - (k - 1)]
    BY SMTT(30), <1>b, <1>a, <1>2, <1>3
  <2>2. CASE i < k
    BY <1>0, <1>b, <1>2, <2>1, <2>2
  <2>3. CASE i >= k
    BY <1>0, <1>b, <1>3, <2>1, <2>3
  <2> QED BY <1>b, <2>2, <2>3
<1>6. \A i, j \in 1 .. n - 1 : from[i] = from[j] => i = j
  BY <1>0
<1>c. \A i, j \in DOMAIN guestJar : guestJar[i].slug = guestJar[j].slug => i = j
  BY DEF OneCookieEach
<1> HIDE DEF from, n
<1>7. \A i, j \in DOMAIN R : R[i].slug = R[j].slug => i = j
  BY <1>4, <1>5, <1>6, <1>c
<1> QED BY <1>4, <1>5, <1>7

-----------------------------------------------------------------------------
(* What the actions do, cell by cell.                                      *)

Elsewhere(s) ==
    /\ \A t \in Slugs : t # s => page'[t] = page[t] /\ shakes'[t] = shakes[t] /\ seats'[t] = seats[t]
    /\ IdentityTyped'

\* The page, its handshake and its seat.
Becomes(s, view, status, me, held, seat) ==
    /\ page'[s].view = view /\ page'[s].status = status /\ page'[s].me = me
    /\ shakes'[s].jar = held /\ seats'[s] = seat
    /\ Elsewhere(s)

CookiesKept == guestJar' = guestJar /\ granted' = granted

PageDoes(s) ==
    /\ CookiesKept
    /\ \/ Becomes(s, "prejoin", "disconnected", Stranger, shakes[s].jar, Stranger)
       \/ Becomes(s, page[s].view, page[s].status, page[s].me, shakes[s].jar, seats[s])
       \/ /\ page[s].view = "prejoin"
          /\ Becomes(s, "active", page[s].status, page[s].me, shakes[s].jar, seats[s])
       \/ /\ page[s].view = "active" /\ page[s].status = "disconnected"
          /\ Becomes(s, "active", "connecting", page[s].me, guestJar, seats[s])
       \/ /\ page[s].status = "connecting"
          /\ Becomes(s, "prejoin", "error", page[s].me, shakes[s].jar, seats[s])
       \/ /\ page[s].status = "connecting"
          /\ \E id \in Who :
                /\ Becomes(s, page[s].view, "joined", page[s].me, shakes[s].jar, id)
                /\ id # Stranger
                /\ id.type = "guest" =>
                      id.slug = s /\ \E i \in DOMAIN shakes[s].jar : id = Guest(shakes[s].jar[i])
       \/ /\ page[s].view = "active"
          /\ \E id \in Who :
                /\ Becomes(s, "active", page[s].status, id, shakes[s].jar, seats[s])
                /\ id.type = "guest" =>
                      \E i \in DOMAIN guestJar : id = Guest(guestJar[i]) /\ guestJar[i].slug = s
       \/ /\ page[s].status = "joined"
          /\ Becomes(s, "ended", "disconnected", page[s].me, shakes[s].jar, Stranger)

ApproveDoes(s) ==
    /\ \E g \in GuestCookie :
          /\ g.slug = s /\ guestJar' = WithCookie(g) /\ granted' = granted \cup {<<s, g.n>>}
    /\ page[s].view = "prejoin"
    /\ Becomes(s, "active", page[s].status, page[s].me, shakes[s].jar, seats[s])

BrowserDoes ==
    /\ \A t \in Slugs : page'[t] = page[t] /\ shakes'[t].jar = shakes[t].jar /\ seats'[t] = seats[t]
    /\ granted' = granted /\ IdentityTyped'
    /\ guestJar' = guestJar \/ \E k \in DOMAIN guestJar : guestJar' = RemoveAt(guestJar, k)

\* A page that is replaced by another.
LEMMA PageBecomes ==
    ASSUME page \in [Slugs -> PageOfRoom], NEW s \in Slugs, NEW p \in PageOfRoom,
           page' = [page EXCEPT ![s] = p]
    PROVE  /\ page' \in [Slugs -> PageOfRoom] /\ page'[s] = p
           /\ \A t \in Slugs : t # s => page'[t] = page[t]
OBVIOUS

\* A seat that is taken or left.
LEMMA SeatBecomes ==
    ASSUME seats \in [Slugs -> Who], NEW s \in Slugs, NEW w \in Who,
           seats' = [seats EXCEPT ![s] = w]
    PROVE  /\ seats' \in [Slugs -> Who] /\ seats'[s] = w
           /\ \A t \in Slugs : t # s => seats'[t] = seats[t]
OBVIOUS

LEMMA LoadDoes ==
    ASSUME IdentityTyped, NEW s \in Slugs, Load(s)
    PROVE  PageDoes(s)
<1>s. Stranger \in Who /\ Account \in Who
  BY DEF Who
<1>a. PICK user \in {access = "live", page[s].user}, checked \in {FALSE, page[s].checked} :
         page' = [page EXCEPT ![s] = [Loaded EXCEPT !.user = user, !.checked = checked]]
  BY DEF Load
<1> DEFINE p == [Loaded EXCEPT !.user = user, !.checked = checked]
<1>0. page[s] \in PageOfRoom /\ seats[s] \in Who
  BY DEF IdentityTyped
<1>1. p \in PageOfRoom
  BY <1>s, <1>0 DEF PageOfRoom, Views, SessionStates, Loaded
<1>2. p.view = "prejoin" /\ p.status = "disconnected" /\ p.me = Stranger
  BY <1>0 DEF PageOfRoom, Loaded
<1>3. page' = [page EXCEPT ![s] = p]
  BY <1>a
<1> HIDE DEF p
<1>4. /\ page' \in [Slugs -> PageOfRoom] /\ page'[s] = p
      /\ \A t \in Slugs : t # s => page'[t] = page[t]
  BY <1>1, <1>3, PageBecomes DEF IdentityTyped
<1>5. /\ seats' \in [Slugs -> Who] /\ seats'[s] = Stranger
      /\ \A t \in Slugs : t # s => seats'[t] = seats[t]
  BY <1>s, SeatBecomes DEF Load, IdentityTyped
<1> QED BY <1>0, <1>2, <1>4, <1>5 DEF PageDoes, Load, Turn, CookiesKept, Becomes, Elsewhere,
           IdentityTyped, cookies

LEMMA GuestCheckDoes ==
    ASSUME IdentityTyped, NEW s \in Slugs, GuestCheck(s)
    PROVE  PageDoes(s)
<1>s. Stranger \in Who /\ Account \in Who
  BY DEF Who
<1> DEFINE p == [page[s] EXCEPT !.checked = (ValidGuest(s) # {})]
<1>0. page[s] \in PageOfRoom /\ seats[s] \in Who
  BY DEF IdentityTyped
<1>1. p \in PageOfRoom
  BY <1>s, <1>0 DEF PageOfRoom, Views, SessionStates, Loaded
<1>2. p.view = page[s].view /\ p.status = page[s].status /\ p.me = page[s].me
  BY <1>0 DEF PageOfRoom, Loaded
<1>3. page' = [page EXCEPT ![s] = p]
  BY DEF GuestCheck, IdentityTyped
<1> HIDE DEF p
<1>4. /\ page' \in [Slugs -> PageOfRoom] /\ page'[s] = p
      /\ \A t \in Slugs : t # s => page'[t] = page[t]
  BY <1>1, <1>3, PageBecomes DEF IdentityTyped
<1> QED BY <1>0, <1>2, <1>4 DEF PageDoes, GuestCheck, Turn, CookiesKept, Becomes, Elsewhere,
           IdentityTyped, cookies

LEMMA ConfirmDoes ==
    ASSUME IdentityTyped, NEW s \in Slugs, Confirm(s)
    PROVE  PageDoes(s)
<1>s. Stranger \in Who /\ Account \in Who
  BY DEF Who
<1> DEFINE p == [page[s] EXCEPT !.view = "active"]
<1>0. page[s] \in PageOfRoom /\ seats[s] \in Who
  BY DEF IdentityTyped
<1>1. p \in PageOfRoom
  BY <1>s, <1>0 DEF PageOfRoom, Views, SessionStates, Loaded
<1>2. p.view = "active" /\ p.status = page[s].status /\ p.me = page[s].me
  BY <1>0 DEF PageOfRoom, Loaded
<1>3. page' = [page EXCEPT ![s] = p]
  BY DEF Confirm, IdentityTyped
<1> HIDE DEF p
<1>4. /\ page' \in [Slugs -> PageOfRoom] /\ page'[s] = p
      /\ \A t \in Slugs : t # s => page'[t] = page[t]
  BY <1>1, <1>3, PageBecomes DEF IdentityTyped
<1> QED BY <1>0, <1>2, <1>4 DEF PageDoes, Confirm, Turn, CookiesKept, Becomes, Elsewhere,
           IdentityTyped, cookies

LEMMA HandshakeDoes ==
    ASSUME IdentityTyped, NEW s \in Slugs, Handshake(s)
    PROVE  PageDoes(s)
<1>s. Stranger \in Who /\ Account \in Who
  BY DEF Who
<1> DEFINE p == [page[s] EXCEPT !.status = "connecting"]
<1>0. page[s] \in PageOfRoom /\ seats[s] \in Who
  BY DEF IdentityTyped
<1>1. p \in PageOfRoom
  BY <1>s, <1>0 DEF PageOfRoom, Views, SessionStates, Loaded
<1>2. p.view = page[s].view /\ p.status = "connecting" /\ p.me = page[s].me
  BY <1>0 DEF PageOfRoom, Loaded
<1>3. page' = [page EXCEPT ![s] = p]
  BY DEF Handshake, IdentityTyped
<1> HIDE DEF p
<1>4. /\ page' \in [Slugs -> PageOfRoom] /\ page'[s] = p
      /\ \A t \in Slugs : t # s => page'[t] = page[t]
  BY <1>1, <1>3, PageBecomes DEF IdentityTyped
<1>5. /\ shakes' \in [Slugs -> Handshakes] /\ shakes'[s].jar = guestJar
      /\ \A t \in Slugs : t # s => shakes'[t] = shakes[t]
  BY DEF Handshake, IdentityTyped, Handshakes
<1> QED BY <1>0, <1>2, <1>4, <1>5 DEF PageDoes, Handshake, Turn, CookiesKept, Becomes,
           Elsewhere, IdentityTyped, cookies

LEMMA RoomEndedDoes ==
    ASSUME IdentityTyped, NEW s \in Slugs, RoomEnded(s)
    PROVE  PageDoes(s)
<1>s. Stranger \in Who /\ Account \in Who
  BY DEF Who
<1> DEFINE p == [page[s] EXCEPT !.view = "ended", !.status = "disconnected"]
<1>0. page[s] \in PageOfRoom /\ seats[s] \in Who
  BY DEF IdentityTyped
<1>1. p \in PageOfRoom
  BY <1>s, <1>0 DEF PageOfRoom, Views, SessionStates, Loaded
<1>2. p.view = "ended" /\ p.status = "disconnected" /\ p.me = page[s].me
  BY <1>0 DEF PageOfRoom, Loaded
<1>3. page' = [page EXCEPT ![s] = p]
  BY DEF RoomEnded, IdentityTyped
<1> HIDE DEF p
<1>4. /\ page' \in [Slugs -> PageOfRoom] /\ page'[s] = p
      /\ \A t \in Slugs : t # s => page'[t] = page[t]
  BY <1>1, <1>3, PageBecomes DEF IdentityTyped
<1>5. /\ seats' \in [Slugs -> Who] /\ seats'[s] = Stranger
      /\ \A t \in Slugs : t # s => seats'[t] = seats[t]
  BY <1>s, SeatBecomes DEF RoomEnded, IdentityTyped
<1> QED BY <1>0, <1>2, <1>4, <1>5 DEF PageDoes, RoomEnded, Turn, CookiesKept, Becomes,
           Elsewhere, IdentityTyped, cookies

LEMMA JoinAnsweredDoes ==
    ASSUME IdentityTyped, NEW s \in Slugs, JoinAnswered(s)
    PROVE  PageDoes(s)
<1>s. Stranger \in Who /\ Account \in Who
  BY DEF Who
<1>0. /\ page[s] \in PageOfRoom /\ seats[s] \in Who /\ shakes[s].jar \in Seq(GuestCookie)
      /\ page[s].status = "connecting"
  BY DEF IdentityTyped, Handshakes, JoinAnswered
<1>1. CASE \E id \in SocketIdentity(shakes[s]) :
              /\ RightRoom(id, s)
              /\ seats' = [seats EXCEPT ![s] = id]
              /\ page' = [page EXCEPT ![s].status = "joined"]
  <2> DEFINE p == [page[s] EXCEPT !.status = "joined"]
  <2>1. PICK id \in SocketIdentity(shakes[s]) :
              /\ RightRoom(id, s)
              /\ seats' = [seats EXCEPT ![s] = id]
              /\ page' = [page EXCEPT ![s].status = "joined"]
    BY <1>1
  <2>2. id = Account \/ \E i \in DOMAIN shakes[s].jar : id = Guest(shakes[s].jar[i])
    BY DEF SocketIdentity, ResolveToken, CookieTokens
  <2>3. id \in Who /\ id # Stranger
    BY <1>s, <1>0, <2>2, JarHolds, GuestsAreWho, OthersAreNoGuests
  <2>4. /\ id.type = "guest" =>
              id.slug = s /\ \E i \in DOMAIN shakes[s].jar : id = Guest(shakes[s].jar[i])
    BY <2>1, <2>2, OthersAreNoGuests DEF RightRoom
  <2>5. /\ p \in PageOfRoom /\ page' = [page EXCEPT ![s] = p]
        /\ p.view = page[s].view /\ p.status = "joined" /\ p.me = page[s].me
    BY <1>0, <2>1 DEF PageOfRoom, SessionStates, IdentityTyped
  <2> HIDE DEF p
  <2>6. /\ page' \in [Slugs -> PageOfRoom] /\ page'[s] = p
        /\ \A t \in Slugs : t # s => page'[t] = page[t]
    BY <2>5, PageBecomes DEF IdentityTyped
  <2>7. /\ seats' \in [Slugs -> Who] /\ seats'[s] = id
        /\ \A t \in Slugs : t # s => seats'[t] = seats[t]
    BY <2>1, <2>3, SeatBecomes DEF IdentityTyped
  <2> QED BY <1>0, <2>3, <2>4, <2>5, <2>6, <2>7 DEF PageDoes, JoinAnswered, CookiesKept,
             Becomes, Elsewhere, IdentityTyped, cookies
<1>2. CASE /\ page' = [page EXCEPT ![s] = [@ EXCEPT !.status = "error", !.view = "prejoin"]]
           /\ UNCHANGED seats
  <2> DEFINE p == [page[s] EXCEPT !.status = "error", !.view = "prejoin"]
  <2>5. /\ p \in PageOfRoom /\ page' = [page EXCEPT ![s] = p]
        /\ p.view = "prejoin" /\ p.status = "error" /\ p.me = page[s].me
    BY <1>0, <1>2 DEF PageOfRoom, SessionStates, Views, IdentityTyped
  <2> HIDE DEF p
  <2>6. /\ page' \in [Slugs -> PageOfRoom] /\ page'[s] = p
        /\ \A t \in Slugs : t # s => page'[t] = page[t]
    BY <2>5, PageBecomes DEF IdentityTyped
  <2> QED BY <1>0, <1>2, <2>5, <2>6 DEF PageDoes, JoinAnswered, CookiesKept, Becomes, Elsewhere,
             IdentityTyped, cookies
<1> QED BY <1>1, <1>2 DEF JoinAnswered

LEMMA GetRoomMeDoes ==
    ASSUME IdentityTyped, NEW s \in Slugs, GetRoomMe(s)
    PROVE  PageDoes(s)
<1>s. Stranger \in Who /\ Account \in Who
  BY DEF Who
<1>0. /\ page[s] \in PageOfRoom /\ seats[s] \in Who /\ guestJar \in Seq(GuestCookie)
      /\ page[s].view = "active"
  BY DEF IdentityTyped, GetRoomMe
<1>1. PICK id \in HttpIdentity(s) : page' = [page EXCEPT ![s].me = id]
  BY DEF GetRoomMe
<1>2. id = Account \/ \E g \in ValidGuest(s) : id = Guest(g)
  BY DEF HttpIdentity
<1>3. \A g \in ValidGuest(s) : \E i \in DOMAIN guestJar : g = guestJar[i] /\ guestJar[i].slug = s
  BY DEF ValidGuest, GuestCookies, ToSet
<1>4. id = Account \/ \E i \in DOMAIN guestJar : id = Guest(guestJar[i]) /\ guestJar[i].slug = s
  BY <1>2, <1>3
<1>5. id \in Who
  BY <1>s, <1>0, <1>4, JarHolds, GuestsAreWho
<1>6. id.type = "guest" => \E i \in DOMAIN guestJar : id = Guest(guestJar[i]) /\ guestJar[i].slug = s
  BY <1>4, OthersAreNoGuests
<1> DEFINE p == [page[s] EXCEPT !.me = id]
<1>7. /\ p \in PageOfRoom /\ page' = [page EXCEPT ![s] = p]
      /\ p.view = "active" /\ p.status = page[s].status /\ p.me = id
  BY <1>0, <1>1, <1>5 DEF PageOfRoom, IdentityTyped
<1> HIDE DEF p
<1>8. /\ page' \in [Slugs -> PageOfRoom] /\ page'[s] = p
      /\ \A t \in Slugs : t # s => page'[t] = page[t]
  BY <1>7, PageBecomes DEF IdentityTyped
<1> QED BY <1>0, <1>5, <1>6, <1>7, <1>8 DEF PageDoes, GetRoomMe, CookiesKept, Becomes,
           Elsewhere, IdentityTyped, cookies

LEMMA ApproveSets ==
    ASSUME IdentityTyped, NEW s \in Slugs, OneCookieEach, Approve(s)
    PROVE  ApproveDoes(s)
<1> DEFINE g == [slug |-> s, n |-> Cardinality(granted) + 1]
           p == [page[s] EXCEPT !.view = "active"]
<1>0. page[s] \in PageOfRoom /\ guestJar \in Seq(GuestCookie) /\ seats[s] \in Who
  BY DEF IdentityTyped
<1>1. g \in GuestCookie /\ g.slug = s
  BY FS_CardinalityType DEF GuestCookie, IdentityTyped
<1>2. guestJar' = WithCookie(g) /\ granted' = granted \cup {<<s, g.n>>} /\ page[s].view = "prejoin"
  BY DEF Approve
<1>3. /\ p \in PageOfRoom /\ page' = [page EXCEPT ![s] = p]
      /\ p.view = "active" /\ p.status = page[s].status /\ p.me = page[s].me
  BY <1>0 DEF Approve, PageOfRoom, Views, IdentityTyped
<1> HIDE DEF p, g
<1>4. /\ page' \in [Slugs -> PageOfRoom] /\ page'[s] = p
      /\ \A t \in Slugs : t # s => page'[t] = page[t]
  BY <1>3, PageBecomes DEF IdentityTyped
<1>5. guestJar' \in Seq(GuestCookie)
  BY <1>0, <1>1, <1>2, CookieSet
<1>6. IsFiniteSet(granted')
  BY <1>2, FS_AddElement DEF IdentityTyped
<1> QED BY <1>1, <1>2, <1>3, <1>4, <1>5, <1>6 DEF ApproveDoes, Approve, Becomes, Elsewhere,
           IdentityTyped

LEMMA CookiesFade ==
    ASSUME IdentityTyped, OneCookieEach,
           SignIn \/ SignOut \/ AccessFades \/ \E i \in DOMAIN guestJar : GuestFades(i)
    PROVE  BrowserDoes
<1>1. CASE SignIn
  BY <1>1 DEF SignIn, BrowserDoes, IdentityTyped
<1>2. CASE SignOut
  BY <1>2 DEF SignOut, BrowserDoes, IdentityTyped
<1>3. CASE AccessFades
  <2>1. /\ shakes' \in [Slugs -> Handshakes]
        /\ \A t \in Slugs : shakes'[t].jar = shakes[t].jar
    BY <1>3 DEF AccessFades, IdentityTyped, Handshakes
  <2> QED BY <1>3, <2>1 DEF AccessFades, BrowserDoes, IdentityTyped
<1>4. ASSUME NEW i \in DOMAIN guestJar, GuestFades(i) PROVE BrowserDoes
  <2>1. guestJar' = guestJar \/ guestJar' = RemoveAt(guestJar, i)
    BY <1>4 DEF GuestFades
  <2>2. guestJar' \in Seq(GuestCookie)
    BY <2>1, CookieRemoved DEF IdentityTyped
  <2> QED BY <1>4, <2>1, <2>2 DEF GuestFades, BrowserDoes, IdentityTyped
<1> QED BY <1>1, <1>2, <1>3, <1>4

\* Every step does one of the three.
LEMMA IdentitySteps ==
    ASSUME IdentityTyped, OneCookieEach, IdentityNext
    PROVE  (\E s \in Slugs : PageDoes(s) \/ ApproveDoes(s)) \/ BrowserDoes
BY LoadDoes, GuestCheckDoes, ConfirmDoes, HandshakeDoes, RoomEndedDoes, JoinAnsweredDoes,
   GetRoomMeDoes, ApproveSets, CookiesFade DEF IdentityNext

-----------------------------------------------------------------------------
(* The invariant.                                                          *)

LEMMA IdentityTypedStep ==
    ASSUME IdentityIInv, IdentityNext
    PROVE  IdentityTyped'
BY IdentitySteps DEF IdentityIInv, PageDoes, ApproveDoes, BrowserDoes, Becomes, Elsewhere

LEMMA OneCookieEachStep ==
    ASSUME IdentityIInv, IdentityNext
    PROVE  OneCookieEach'
<1>0. IdentityTyped /\ OneCookieEach /\ guestJar \in Seq(GuestCookie)
  BY DEF IdentityIInv, IdentityTyped
<1>1. ASSUME NEW s \in Slugs, PageDoes(s) PROVE OneCookieEach'
  BY <1>0, <1>1 DEF PageDoes, CookiesKept, OneCookieEach
<1>2. ASSUME NEW s \in Slugs, ApproveDoes(s) PROVE OneCookieEach'
  <2>1. PICK g \in GuestCookie : /\ g.slug = s /\ guestJar' = WithCookie(g)
                                 /\ granted' = granted \cup {<<s, g.n>>}
    BY <1>2 DEF ApproveDoes
  <2>2. \A i, j \in DOMAIN guestJar' : guestJar'[i].slug = guestJar'[j].slug => i = j
    BY <1>0, <2>1, CookieSet
  <2>3. \A i \in DOMAIN guestJar' : \/ guestJar'[i] = g
                                    \/ i \in DOMAIN guestJar /\ guestJar'[i] = guestJar[i]
    BY <1>0, <2>1, CookieSet
  <2>4. \A i \in DOMAIN guestJar' : <<guestJar'[i].slug, guestJar'[i].n>> \in granted'
    BY <1>0, <2>1, <2>3 DEF OneCookieEach
  <2> QED BY <2>2, <2>4 DEF OneCookieEach
<1>3. ASSUME BrowserDoes PROVE OneCookieEach'
  <2>1. CASE guestJar' = guestJar
    BY <1>0, <1>3, <2>1 DEF BrowserDoes, OneCookieEach
  <2>2. ASSUME NEW k \in DOMAIN guestJar, guestJar' = RemoveAt(guestJar, k) PROVE OneCookieEach'
    <3>1. \A i, j \in DOMAIN guestJar' : guestJar'[i].slug = guestJar'[j].slug => i = j
      BY <1>0, <2>2, CookieRemoved
    <3>2. \A i \in DOMAIN guestJar' : \E j \in DOMAIN guestJar : guestJar'[i] = guestJar[j]
      BY <1>0, <2>2, CookieRemoved
    <3>3. \A i \in DOMAIN guestJar' : <<guestJar'[i].slug, guestJar'[i].n>> \in granted'
      BY <1>0, <1>3, <3>2 DEF OneCookieEach, BrowserDoes
    <3> QED BY <3>1, <3>3 DEF OneCookieEach
  <2> QED BY <1>3, <2>1, <2>2 DEF BrowserDoes
<1> QED BY <1>0, <1>1, <1>2, <1>3, IdentitySteps

LEMMA HandshakesByApprovalStep ==
    ASSUME IdentityIInv, IdentityNext
    PROVE  HandshakesByApproval'
<1>0. IdentityTyped /\ OneCookieEach /\ HandshakesByApproval
  BY DEF IdentityIInv
<1> SUFFICES ASSUME NEW t \in Slugs, NEW i \in DOMAIN shakes'[t].jar
             PROVE  <<shakes'[t].jar[i].slug, shakes'[t].jar[i].n>> \in granted'
  BY DEF HandshakesByApproval
<1>1. granted \subseteq granted'
  BY <1>0, IdentitySteps DEF PageDoes, ApproveDoes, BrowserDoes, CookiesKept
<1>2. shakes'[t].jar = shakes[t].jar \/ shakes'[t].jar = guestJar
  BY <1>0, IdentitySteps DEF PageDoes, ApproveDoes, BrowserDoes, Becomes, Elsewhere
<1> QED BY <1>0, <1>1, <1>2 DEF HandshakesByApproval, OneCookieEach

LEMMA SeatsByHandshakeStep ==
    ASSUME IdentityIInv, IdentityNext
    PROVE  SeatsByHandshake'
<1>0. IdentityTyped /\ OneCookieEach /\ SeatsByHandshake
  BY DEF IdentityIInv
<1>t. Stranger.type # "guest"
  BY OthersAreNoGuests
<1> SUFFICES ASSUME NEW t \in Slugs
                    PROVE SeatByHandshake(page'[t], shakes'[t].jar, seats'[t], t)
  BY DEF SeatsByHandshake
<1>a. SeatByHandshake(page[t], shakes[t].jar, seats[t], t)
  BY <1>0 DEF SeatsByHandshake
<1>1. ASSUME NEW s \in Slugs, PageDoes(s)
      PROVE  SeatByHandshake(page'[t], shakes'[t].jar, seats'[t], t)
  <2>1. CASE t # s
    BY <1>a, <1>1, <2>1 DEF PageDoes, Becomes, Elsewhere
  <2>2. CASE t = s
    BY <1>a, <1>t, <1>1, <2>2 DEF PageDoes, Becomes, SeatByHandshake
  <2> QED BY <2>1, <2>2
<1>2. ASSUME NEW s \in Slugs, ApproveDoes(s)
      PROVE  SeatByHandshake(page'[t], shakes'[t].jar, seats'[t], t)
  BY <1>a, <1>2 DEF ApproveDoes, Becomes, Elsewhere, SeatByHandshake
<1>3. ASSUME BrowserDoes PROVE SeatByHandshake(page'[t], shakes'[t].jar, seats'[t], t)
  BY <1>a, <1>3 DEF BrowserDoes
<1> QED BY <1>0, <1>1, <1>2, <1>3, IdentitySteps

\* Of the room, the jar has then no cookie it did not have.
NothingNew(t) ==
    \A i \in DOMAIN guestJar' : guestJar'[i].slug = t =>
       \E j \in DOMAIN guestJar : guestJar'[i] = guestJar[j]

LEMMA FewerCookies ==
    ASSUME NEW p, NEW held, NEW t, SameGuestAt(p, held, guestJar, t), NothingNew(t)
    PROVE  SameGuestAt(p, held, guestJar', t)
BY DEF SameGuestAt, NothingNew

LEMMA SameGuestStep ==
    ASSUME IdentityIInv, IdentityNext
    PROVE  SameGuest'
<1>0. /\ IdentityTyped /\ OneCookieEach /\ SameGuest /\ SeatsByHandshake
      /\ guestJar \in Seq(GuestCookie)
  BY DEF IdentityIInv, IdentityTyped
<1>t. Stranger.type # "guest"
  BY OthersAreNoGuests
<1> SUFFICES ASSUME NEW t \in Slugs PROVE SameGuestAt(page'[t], shakes'[t].jar, guestJar', t)
  BY DEF SameGuest
<1>a. /\ SameGuestAt(page[t], shakes[t].jar, guestJar, t)
      /\ page[t].status \in {"connecting", "joined"} => page[t].view = "active"
      /\ page[t].status \in SessionStates
  BY <1>0 DEF SameGuest, SeatsByHandshake, SeatByHandshake, IdentityTyped, PageOfRoom
<1>b. \A i, j \in DOMAIN guestJar : guestJar[i].slug = guestJar[j].slug => i = j
  BY <1>0 DEF OneCookieEach
<1>1. ASSUME NEW s \in Slugs, PageDoes(s)
      PROVE  SameGuestAt(page'[t], shakes'[t].jar, guestJar', t)
  <2>0. guestJar' = guestJar
    BY <1>1 DEF PageDoes, CookiesKept
  <2>1. CASE t # s
    BY <1>a, <1>1, <2>0, <2>1 DEF PageDoes, Becomes, Elsewhere
  <2>2. CASE t = s
    <3> SUFFICES SameGuestAt(page'[t], shakes'[t].jar, guestJar, t)
      BY <2>0
    <3> QED BY <1>a, <1>b, <1>t, <1>1, <2>2 DEF PageDoes, Becomes, SameGuestAt, SessionStates
  <2> QED BY <2>1, <2>2
<1>2. ASSUME NEW s \in Slugs, ApproveDoes(s)
      PROVE  SameGuestAt(page'[t], shakes'[t].jar, guestJar', t)
  <2>1. CASE t # s
    <3>1. PICK g \in GuestCookie : g.slug = s /\ guestJar' = WithCookie(g)
      BY <1>2 DEF ApproveDoes
    <3>2. NothingNew(t)
      BY <1>0, <2>1, <3>1, CookieSet DEF NothingNew
    <3> QED BY <1>a, <1>2, <2>1, <3>2, FewerCookies DEF ApproveDoes, Becomes, Elsewhere
  <2>2. CASE t = s
    BY <1>a, <1>t, <1>2, <2>2 DEF ApproveDoes, Becomes, SameGuestAt, SessionStates
  <2> QED BY <2>1, <2>2
<1>3. ASSUME BrowserDoes PROVE SameGuestAt(page'[t], shakes'[t].jar, guestJar', t)
  <2>1. NothingNew(t)
    BY <1>0, <1>3, CookieRemoved DEF BrowserDoes, NothingNew
  <2> QED BY <1>a, <1>3, <2>1, FewerCookies DEF BrowserDoes
<1> QED BY <1>0, <1>1, <1>2, <1>3, IdentitySteps

LEMMA IdentityInitially == IdentityInit => IdentityIInv
<1> SUFFICES ASSUME IdentityInit PROVE IdentityIInv
  OBVIOUS
<1>1. Stranger \in Who /\ Loaded \in PageOfRoom /\ Stranger.type # "guest"
  BY OthersAreNoGuests DEF Who, Loaded, PageOfRoom, Views, SessionStates
<1>2. IdentityTyped
  BY <1>1, FS_EmptySet DEF IdentityInit, IdentityTyped, Handshakes
<1>3. OneCookieEach /\ HandshakesByApproval
  BY DEF IdentityInit, OneCookieEach, HandshakesByApproval
<1>4. SeatsByHandshake
  BY <1>1 DEF IdentityInit, SeatsByHandshake, SeatByHandshake, Loaded
<1>5. SameGuest
  BY <1>1 DEF IdentityInit, SameGuest, SameGuestAt, Loaded
<1> QED BY <1>2, <1>3, <1>4, <1>5 DEF IdentityIInv

LEMMA IdentityInductive == IdentityIInv /\ [IdentityNext]_identityVars => IdentityIInv'
<1>1. ASSUME IdentityIInv, IdentityNext PROVE IdentityIInv'
  BY <1>1, IdentityTypedStep, OneCookieEachStep, HandshakesByApprovalStep, SeatsByHandshakeStep,
     SameGuestStep DEF IdentityIInv
<1>2. ASSUME IdentityIInv, UNCHANGED identityVars PROVE IdentityIInv'
  BY <1>2 DEF IdentityIInv, identityVars, cookies, IdentityTyped, OneCookieEach,
     HandshakesByApproval, SeatsByHandshake, SameGuest
<1> QED BY <1>1, <1>2

LEMMA IdentityImplied == IdentityIInv => IdentityInv
<1> SUFFICES ASSUME IdentityIInv PROVE IdentityInv
  OBVIOUS
<1>0. IdentityTyped /\ OneCookieEach /\ HandshakesByApproval /\ SeatsByHandshake /\ SameGuest
  BY DEF IdentityIInv
<1>1. Len(guestJar) <= Cardinality(Slugs)
  <2>0. guestJar \in Seq(GuestCookie)
    BY <1>0 DEF IdentityTyped
  <2>1. /\ DOMAIN guestJar = 1 .. Len(guestJar) /\ Len(guestJar) \in Nat
        /\ \A i \in DOMAIN guestJar : guestJar[i] \in GuestCookie
    BY <2>0, JarHolds
  <2> DEFINE f == [i \in 1 .. Len(guestJar) |-> guestJar[i].slug]
  <2>a. f \in [1 .. Len(guestJar) -> Slugs]
    BY <2>1, GuestsAreWho
  <2>b. \A i, j \in 1 .. Len(guestJar) : f[i] = f[j] => i = j
    BY <1>0, <2>1 DEF OneCookieEach
  <2> HIDE DEF f
  <2>2. f \in Injection(1 .. Len(guestJar), Slugs)
    BY <2>a, <2>b DEF Injection, IsInjective
  <2>3. IsFiniteSet(1 .. Len(guestJar)) /\ Cardinality(1 .. Len(guestJar)) = Len(guestJar)
    BY <2>1, FS_Interval
  <2>4. Cardinality(1 .. Len(guestJar)) <= Cardinality(Slugs)
    BY <2>2, <2>3, SlugsAreFinite, FS_Injection
  <2> QED BY <2>3, <2>4
<1>2. ASSUME NEW s \in Slugs
      PROVE  /\ page[s].view \in {"prejoin", "active", "ended"}
             /\ (page[s].status = "joined") = (seats[s] # Stranger)
             /\ seats[s].type = "guest" => <<s, seats[s].n>> \in granted /\ seats[s].slug = s
             /\ seats[s].type = "guest" /\ page[s].me.type = "guest" => page[s].me = seats[s]
  <2>0. page[s] \in PageOfRoom /\ shakes[s].jar \in Seq(GuestCookie)
    BY <1>0 DEF IdentityTyped, Handshakes
  <2>1. SeatByHandshake(page[s], shakes[s].jar, seats[s], s)
    BY <1>0 DEF SeatsByHandshake
  <2>2. SameGuestAt(page[s], shakes[s].jar, guestJar, s)
    BY <1>0 DEF SameGuest
  <2>3. ASSUME seats[s].type = "guest"
        PROVE  /\ <<s, seats[s].n>> \in granted /\ seats[s].slug = s
               /\ page[s].me.type = "guest" => page[s].me = seats[s]
    <3>1. PICK i \in DOMAIN shakes[s].jar : seats[s] = Guest(shakes[s].jar[i]) /\ seats[s].slug = s
      BY <2>1, <2>3 DEF SeatByHandshake
    <3>2. shakes[s].jar[i].slug = s /\ seats[s].n = shakes[s].jar[i].n
      BY <2>0, <3>1, JarHolds, GuestsAreWho
    <3>3. page[s].status = "joined"
      BY <2>1, <2>3, OthersAreNoGuests DEF SeatByHandshake
    <3> QED BY <1>0, <2>2, <3>1, <3>2, <3>3 DEF HandshakesByApproval, SameGuestAt
  <2> QED BY <2>0, <2>1, <2>3 DEF PageOfRoom, Views, SeatByHandshake
<1> QED BY <1>0, <1>1, <1>2 DEF IdentityInv, IdentityTyped

\* A guest sits in a room only by an approval of that room, and where the
\* socket and the request both find a guest they find the same one.
THEOREM GuestsAreApproved == IdentitySpec => []IdentityInv
<1>1. IdentitySpec => []IdentityIInv
  BY IdentityInitially, IdentityInductive, PTL DEF IdentitySpec
<1> QED BY <1>1, IdentityImplied, PTL

-----------------------------------------------------------------------------
(***************************************************************************)
(* The board: for any number of users, edits, engines, changes of mode,    *)
(* lost connections and restarts, who has had the state sees the whole of  *)
(* the others' picture once things are quiet, and everyone knows the mode. *)
(*                                                                         *)
(* What others have drawn and the board holds is in the user's document or *)
(* on the way to it.  What a user sends back of the others' edits is, as   *)
(* long as no board was dropped, on the board already; and the first       *)
(* engine of a user keeps in its document whatever it sends.               *)
(***************************************************************************)

Modes == {"owner", "open"}
ToServer == [ev : {"join"}] \cup [ev : {"update"}, edits : SUBSET Edit] \cup [ev : {"mode"}, mode : Modes]
ToPanel == [ev : {"state", "update"}, edits : SUBSET Edit] \cup [ev : {"mode"}, mode : Modes]

\* The edits that the frames of a list bring, from the i-th on and in all.
Carries(f) == f.ev \in {"state", "update"}
BroughtFrom(s, i) == {e \in Edit : \E j \in DOMAIN s : j >= i /\ Carries(s[j]) /\ e \in s[j].edits}
Brought(s) == {e \in Edit : \E j \in DOMAIN s : Carries(s[j]) /\ e \in s[j].edits}
Content(f) == IF Carries(f) THEN f.edits ELSE {}
OthersOf(edits, u) == {e \in edits : e.by # u}

BoardTyped ==
    /\ board \subseteq Edit /\ mode \in Modes /\ active \in BOOLEAN /\ setting \in Seq(Modes)
    /\ present \subseteq Users /\ admitted \subseteq connected /\ joining \subseteq connected
    /\ connected \subseteq Users /\ fed \subseteq Users
    /\ up \in [Users -> Seq(ToServer)] /\ down \in [Users -> Seq(ToPanel)]
    /\ known \in [Users -> Modes]
    /\ strokes \in 0 .. MaxEdits /\ drops \in Nat /\ blanks \in Nat

EnginesTyped ==
    /\ engine \in [Users -> {"loading", "mounted"}] /\ mounts \in [Users -> 0 .. MaxMounts]
    /\ doc \in [Users -> SUBSET Edit] /\ sent \in [Users -> SUBSET Edit]
    /\ \A u \in Users : /\ sent[u] = Whole(sent[u]) /\ sent[u] \subseteq doc[u]
                        /\ engine[u] = "mounted" => mounts[u] > 0

\* An edit is of an engine that was mounted, and of one of the strokes.
Counted(e) == e.mount \in 1 .. mounts[e.by] /\ e.n \in 1 .. strokes
EditsCounted ==
    /\ \A e \in board : Counted(e)
    /\ \A u \in Users : \A e \in doc[u] \cup Brought(up[u]) \cup Brought(down[u]) : Counted(e)

\* As long as no board was dropped, what a user has of others is on it.
FromBoard ==
    blanks = 0 => \A u \in Users :
        /\ Brought(down[u]) \subseteq board
        /\ OthersOf(doc[u], u) \subseteq board /\ OthersOf(Brought(up[u]), u) \subseteq board

\* The first engine of a user keeps what it sends.
FirstKeeps ==
    \A u \in Users : /\ mounts[u] = 0 => doc[u] = {}
                     /\ mounts[u] <= 1 => Brought(up[u]) \subseteq doc[u]

\* From a state on the frames bring all that the others have drawn.
StatesAreWhole ==
    \A u \in admitted : \A i \in DOMAIN down[u] :
        down[u][i].ev = "state" =>
            /\ blanks = 0 => OthersOf(board, u) \subseteq BroughtFrom(down[u], i)
            /\ mounts[u] <= 1 => OthersOf(board, u) \subseteq doc[u] \cup BroughtFrom(down[u], i)

FedIsWhole ==
    /\ \A u \in fed : engine[u] = "mounted"
    /\ \A u \in fed \cap admitted :
          blanks = 0 \/ mounts[u] <= 1 => OthersOf(board, u) \subseteq doc[u] \cup Brought(down[u])

\* The last mode that is under way is the board's, and without any the one
\* the user knows is.
LastMode(s, i) ==
    i \in DOMAIN s /\ s[i].ev = "mode" /\ \A j \in DOMAIN s : s[j].ev = "mode" => j <= i
NoMode(s) == \A i \in DOMAIN s : s[i].ev # "mode"
ModeComes ==
    blanks = 0 => \A u \in admitted :
        /\ NoMode(down[u]) => known[u] = mode
        /\ \A i : LastMode(down[u], i) => down[u][i].mode = mode

BoardIInv ==
    /\ BoardTyped /\ EnginesTyped /\ EditsCounted /\ FromBoard /\ FirstKeeps
    /\ StatesAreWhole /\ FedIsWhole /\ ModeComes

-----------------------------------------------------------------------------
(* Lists of frames.                                                        *)

Continues(w, s, t) == w = s \o t
Takes(s, h, w) == s # <<>> /\ h = Head(s) /\ w = Tail(s)

LEMMA WhatContinues ==
    ASSUME NEW S, NEW s \in Seq(S), NEW t \in Seq(S), NEW w, Continues(w, s, t)
    PROVE  /\ w \in Seq(S) /\ Brought(w) = Brought(s) \cup Brought(t)
           /\ \A i \in DOMAIN s : /\ i \in DOMAIN w /\ w[i] = s[i]
                                  /\ BroughtFrom(w, i) = BroughtFrom(s, i) \cup Brought(t)
           /\ \A i \in DOMAIN w : i \notin DOMAIN s =>
                 \E j \in DOMAIN t : w[i] = t[j] /\ BroughtFrom(w, i) = BroughtFrom(t, j)
           /\ NoMode(w) <=> NoMode(s) /\ NoMode(t)
           /\ \A i : LastMode(w, i) =>
                 \/ NoMode(t) /\ LastMode(s, i)
                 \/ \E j : LastMode(t, j) /\ w[i] = t[j]
<1> DEFINE m == Len(s)
           n == Len(t)
<1>1. /\ w \in Seq(S) /\ m \in Nat /\ n \in Nat /\ DOMAIN s = 1 .. m /\ DOMAIN t = 1 .. n
      /\ DOMAIN w = 1 .. m + n
  BY DEF Continues
<1>2. /\ \A i \in 1 .. m : w[i] = s[i]
      /\ \A i \in 1 .. n : w[m + i] = t[i]
  BY <1>1 DEF Continues
<1> HIDE DEF m, n
<1>3. \A i \in DOMAIN s : i \in DOMAIN w /\ w[i] = s[i]
  BY <1>1, <1>2
<1>4. \A j \in DOMAIN t : m + j \in DOMAIN w /\ w[m + j] = t[j] /\ \A i \in DOMAIN s : m + j >= i
  BY <1>1, <1>2
<1>5. \A i \in DOMAIN w : i \notin DOMAIN s => i - m \in DOMAIN t /\ w[i] = t[i - m] /\ m + (i - m) = i
  <2> SUFFICES ASSUME NEW i \in DOMAIN w, i \notin DOMAIN s
               PROVE  i - m \in DOMAIN t /\ w[i] = t[i - m] /\ m + (i - m) = i
    OBVIOUS
  <2>1. i - m \in DOMAIN t /\ m + (i - m) = i
    BY <1>1
  <2> QED BY <2>1, <1>4
<1>6. Brought(w) = Brought(s) \cup Brought(t)
  <2>1. Brought(w) \subseteq Brought(s) \cup Brought(t)
    BY <1>3, <1>5 DEF Brought
  <2>2. Brought(s) \subseteq Brought(w)
    BY <1>3 DEF Brought
  <2>3. Brought(t) \subseteq Brought(w)
    BY <1>4 DEF Brought
  <2> QED BY <2>1, <2>2, <2>3
<1>7. ASSUME NEW i \in DOMAIN s
      PROVE  BroughtFrom(w, i) = BroughtFrom(s, i) \cup Brought(t)
  <2>1. BroughtFrom(w, i) \subseteq BroughtFrom(s, i) \cup Brought(t)
    BY <1>3, <1>5 DEF Brought, BroughtFrom
  <2>2. BroughtFrom(s, i) \subseteq BroughtFrom(w, i)
    BY <1>3 DEF BroughtFrom
  <2>3. Brought(t) \subseteq BroughtFrom(w, i)
    BY <1>4 DEF Brought, BroughtFrom
  <2> QED BY <2>1, <2>2, <2>3
<1>8. ASSUME NEW i \in DOMAIN w, i \notin DOMAIN s
      PROVE  w[i] = t[i - m] /\ i - m \in DOMAIN t /\ BroughtFrom(w, i) = BroughtFrom(t, i - m)
  <2>1. i - m \in DOMAIN t /\ w[i] = t[i - m] /\ i \in Nat /\ i > m
    BY <1>1, <1>5, <1>8
  <2>2. \A j \in DOMAIN w : j >= i => j \notin DOMAIN s /\ j - m >= i - m
    BY <1>1, <2>1
  <2>3. \A j \in DOMAIN t : j >= i - m => m + j >= i
    BY <1>1, <2>1
  <2>4. BroughtFrom(w, i) \subseteq BroughtFrom(t, i - m)
    BY <1>5, <2>2 DEF BroughtFrom
  <2>5. BroughtFrom(t, i - m) \subseteq BroughtFrom(w, i)
    BY <1>4, <2>3 DEF BroughtFrom
  <2> QED BY <2>1, <2>4, <2>5
<1>9. NoMode(w) <=> NoMode(s) /\ NoMode(t)
  BY <1>3, <1>4, <1>5 DEF NoMode
<1>10. ASSUME NEW i, LastMode(w, i)
       PROVE  \/ NoMode(t) /\ LastMode(s, i)
              \/ \E j : LastMode(t, j) /\ w[i] = t[j]
  <2>1. CASE i \in DOMAIN s
    <3>1. \A j \in DOMAIN t : m + j > i
      BY <1>1, <2>1
    <3>2. NoMode(t)
      BY <1>1, <1>4, <1>10, <2>1, <3>1 DEF LastMode, NoMode
    <3>3. LastMode(s, i)
      BY <1>3, <1>10, <2>1 DEF LastMode
    <3> QED BY <3>2, <3>3
  <2>2. CASE i \notin DOMAIN s
    <3>1. i \in DOMAIN w /\ i - m \in DOMAIN t /\ w[i] = t[i - m]
      BY <1>5, <1>10, <2>2 DEF LastMode
    <3>2. \A j \in DOMAIN t : m + j <= i => j <= i - m
      BY <1>1, <3>1
    <3>3. LastMode(t, i - m)
      BY <1>4, <1>10, <3>1, <3>2 DEF LastMode
    <3> QED BY <3>1, <3>3
  <2> QED BY <2>1, <2>2
<1> QED BY <1>1, <1>3, <1>6, <1>7, <1>8, <1>9, <1>10

LEMMA WhatTakes ==
    ASSUME NEW S, NEW s \in Seq(S), NEW h, NEW w, Takes(s, h, w)
    PROVE  /\ w \in Seq(S) /\ h \in S /\ 1 \in DOMAIN s /\ s[1] = h
           /\ Brought(s) = (Content(h) \cap Edit) \cup Brought(w) /\ Brought(s) = BroughtFrom(s, 1)
           /\ \A i \in DOMAIN w : /\ i + 1 \in DOMAIN s /\ w[i] = s[i + 1]
                                  /\ BroughtFrom(w, i) = BroughtFrom(s, i + 1)
           /\ h.ev # "mode" => (NoMode(w) <=> NoMode(s))
           /\ h.ev = "mode" /\ NoMode(w) => LastMode(s, 1)
           /\ \A i : LastMode(w, i) => LastMode(s, i + 1) /\ w[i] = s[i + 1]
<1> DEFINE m == Len(w)
<1>1. /\ w \in Seq(S) /\ h \in S /\ m \in Nat /\ DOMAIN w = 1 .. m /\ DOMAIN s = 1 .. m + 1
      /\ s[1] = h
  BY DEF Takes
<1>2. \A i \in 1 .. m : w[i] = s[i + 1]
  BY <1>1 DEF Takes
<1> HIDE DEF m
<1>3. \A i \in DOMAIN w : i + 1 \in DOMAIN s /\ w[i] = s[i + 1]
  BY <1>1, <1>2
<1>4. \A i \in DOMAIN s : i # 1 => i - 1 \in DOMAIN w /\ s[i] = w[i - 1]
  <2> SUFFICES ASSUME NEW i \in DOMAIN s, i # 1 PROVE i - 1 \in DOMAIN w /\ s[i] = w[i - 1]
    OBVIOUS
  <2>1. i - 1 \in DOMAIN w /\ (i - 1) + 1 = i
    BY <1>1
  <2> QED BY <2>1, <1>3
<1>5. 1 \in DOMAIN s
  BY <1>1
<1>6. Brought(s) = (Content(h) \cap Edit) \cup Brought(w)
  <2>1. Brought(s) \subseteq (Content(h) \cap Edit) \cup Brought(w)
    BY <1>1, <1>4 DEF Brought, Content
  <2>2. Content(h) \cap Edit \subseteq Brought(s)
    BY <1>1, <1>5 DEF Brought, Content
  <2>3. Brought(w) \subseteq Brought(s)
    BY <1>3 DEF Brought
  <2> QED BY <2>1, <2>2, <2>3
<1>7. Brought(s) = BroughtFrom(s, 1)
  <2>1. \A j \in DOMAIN s : j >= 1
    BY <1>1
  <2> QED BY <2>1 DEF Brought, BroughtFrom
<1>8. ASSUME NEW i \in DOMAIN w PROVE BroughtFrom(w, i) = BroughtFrom(s, i + 1)
  <2>1. \A j \in DOMAIN w : j >= i => j + 1 >= i + 1
    BY <1>1
  <2>2. \A j \in DOMAIN s : j >= i + 1 => j # 1 /\ j - 1 >= i
    BY <1>1
  <2>3. BroughtFrom(w, i) \subseteq BroughtFrom(s, i + 1)
    BY <1>3, <2>1 DEF BroughtFrom
  <2>4. BroughtFrom(s, i + 1) \subseteq BroughtFrom(w, i)
    BY <1>4, <2>2 DEF BroughtFrom
  <2> QED BY <2>3, <2>4
<1>9. h.ev # "mode" => (NoMode(w) <=> NoMode(s))
  BY <1>1, <1>3, <1>4 DEF NoMode
<1>10. h.ev = "mode" /\ NoMode(w) => LastMode(s, 1)
  BY <1>1, <1>4, <1>5 DEF NoMode, LastMode
<1>11. ASSUME NEW i, LastMode(w, i) PROVE LastMode(s, i + 1) /\ w[i] = s[i + 1]
  <2>1. i \in DOMAIN w /\ i + 1 \in DOMAIN s /\ w[i] = s[i + 1]
    BY <1>3, <1>11 DEF LastMode
  <2>2. \A j \in DOMAIN s : j # 1 /\ j - 1 <= i => j <= i + 1
    BY <1>1, <2>1
  <2>3. 1 <= i + 1
    BY <1>1, <2>1
  <2> QED BY <1>4, <1>11, <2>1, <2>2, <2>3 DEF LastMode
<1> QED BY <1>1, <1>3, <1>5, <1>6, <1>7, <1>8, <1>9, <1>10, <1>11

LEMMA OneFrame ==
    ASSUME NEW f
    PROVE  /\ Brought(<<f>>) = Content(f) \cap Edit
           /\ \A S : f \in S => <<f>> \in Seq(S)
           /\ \A i \in DOMAIN <<f>> : <<f>>[i] = f
           /\ NoMode(<<f>>) <=> f.ev # "mode"
           /\ \A i : LastMode(<<f>>, i) => <<f>>[i] = f
<1>1. DOMAIN <<f>> = {1} /\ <<f>>[1] = f
  OBVIOUS
<1>2. \A S : f \in S => <<f>> \in Seq(S)
  OBVIOUS
<1> DEFINE s == <<f>>
<1> HIDE DEF s
<1>3. /\ Brought(s) = Content(f) \cap Edit /\ \A i \in DOMAIN s : s[i] = f
      /\ NoMode(s) <=> f.ev # "mode"
      /\ \A i : LastMode(s, i) => s[i] = f
  <2>1. DOMAIN s = {1} /\ s[1] = f
    BY <1>1 DEF s
  <2> QED BY <2>1 DEF Brought, Content, NoMode, LastMode
<1> QED BY <1>2, <1>3 DEF s

LEMMA NoFrames ==
    /\ Brought(<<>>) = {} /\ (\A S : <<>> \in Seq(S)) /\ NoMode(<<>>) /\ DOMAIN <<>> = {}
<1>1. DOMAIN <<>> = {}
  OBVIOUS
<1> QED BY <1>1 DEF Brought, NoMode

-----------------------------------------------------------------------------
(* What the handlers have in common.                                       *)

LEMMA WholeIsWhole ==
    ASSUME NEW S \in SUBSET Edit
    PROVE  Whole(S) \subseteq S /\ Whole(Whole(S)) = Whole(S)
<1>1. Whole(S) \subseteq S
  BY DEF Whole
<1>2. ASSUME NEW e \in Whole(S), NEW m \in 1 .. e.n
      PROVE  [e EXCEPT !.n = m] \in Whole(S)
  <2> DEFINE d == [e EXCEPT !.n = m]
  <2>1. e \in Edit /\ d.n = m /\ d \in S
    BY <1>2 DEF Whole, Edit
  <2>2. ASSUME NEW k \in 1 .. m PROVE [d EXCEPT !.n = k] \in S
    <3>1. k \in 1 .. e.n
      BY <2>1, <2>2, BoundsAreNat DEF Edit
    <3>2. [d EXCEPT !.n = k] = [e EXCEPT !.n = k]
      BY <2>1 DEF Edit
    <3> QED BY <3>1, <3>2 DEF Whole
  <2> QED BY <2>1, <2>2 DEF Whole
<1> QED BY <1>1, <1>2 DEF Whole

\* A panel numbers the edits of its engine one after the other.
LEMMA OwnAreFew ==
    ASSUME BoardIInv, NEW u \in Users, NEW own,
           own = {e \in doc[u] : e.by = u /\ e.mount = mounts[u]}
    PROVE  Cardinality(own) \in 0 .. strokes
<1>1. doc[u] \subseteq Edit /\ strokes \in Nat /\ \A e \in doc[u] : e.n \in 1 .. strokes
  BY BoundsAreNat DEF BoardIInv, BoardTyped, EnginesTyped, EditsCounted, Counted
<1> DEFINE number == [e \in own |-> e.n]
<1>2. \A d, e \in own : d.n = e.n => d = e
  BY <1>1 DEF Edit
<1>3. number \in Injection(own, 1 .. strokes)
  BY <1>1, <1>2 DEF Injection, IsInjective
<1>4. IsFiniteSet(1 .. strokes) /\ Cardinality(1 .. strokes) = strokes
  BY <1>1, FS_Interval
<1> HIDE DEF number
<1>5. IsFiniteSet(own) /\ Cardinality(own) <= Cardinality(1 .. strokes)
  BY <1>3, <1>4, FS_Injection
<1>6. Cardinality(own) \in Nat
  BY <1>5, FS_CardinalityType
<1> QED BY <1>1, <1>4, <1>5, <1>6

\* What remains when nothing is drawn, said or heard: frames may be lost,
\* panels may be cut off, and the board may be dropped.
Claims ==
    /\ EditsCounted /\ FromBoard /\ FirstKeeps /\ StatesAreWhole /\ FedIsWhole /\ ModeComes

LEMMA NothingIsNew ==
    ASSUME BoardIInv, doc' = doc, known' = known, mounts' = mounts, strokes' = strokes,
           \/ board' = board /\ mode' = mode /\ blanks' = blanks
           \/ board' = {} /\ blanks' = blanks + 1,
           \A u \in Users : /\ Brought(up'[u]) \subseteq Brought(up[u])
                            /\ Brought(down'[u]) \subseteq Brought(down[u]),
           admitted' \subseteq admitted, \A u \in admitted' : down'[u] = down[u],
           fed' \subseteq fed, \A u \in fed' : engine'[u] = engine[u]
    PROVE  Claims'
<1>1. /\ EditsCounted /\ FromBoard /\ FirstKeeps /\ StatesAreWhole /\ FedIsWhole /\ ModeComes
      /\ blanks \in Nat
  BY DEF BoardIInv, BoardTyped
<1>2. \A u \in Users, e \in Edit : /\ e \in Brought(up'[u]) => e \in Brought(up[u])
                                   /\ e \in Brought(down'[u]) => e \in Brought(down[u])
  OBVIOUS
<1>3. board' = board \/ board' = {}
  OBVIOUS
<1>4. \A e : Counted(e)' <=> Counted(e)
  BY DEF Counted
<1>5. EditsCounted'
  BY <1>1, <1>3, <1>4 DEF EditsCounted
<1>6. blanks' # 0 \/ (board' = board /\ mode' = mode /\ blanks' = blanks)
  BY <1>1
<1>7. FromBoard'
  BY <1>1, <1>6 DEF FromBoard, OthersOf
<1>8. FirstKeeps'
  BY <1>1 DEF FirstKeeps
<1>9. StatesAreWhole'
  <2> SUFFICES ASSUME NEW u \in admitted', NEW i \in DOMAIN down'[u], down'[u][i].ev = "state"
               PROVE  /\ blanks' = 0 => OthersOf(board', u) \subseteq BroughtFrom(down'[u], i)
                      /\ mounts'[u] <= 1 =>
                            OthersOf(board', u) \subseteq doc'[u] \cup BroughtFrom(down'[u], i)
    BY DEF StatesAreWhole
  <2>1. /\ u \in admitted /\ down'[u] = down[u] /\ mounts'[u] = mounts[u] /\ doc'[u] = doc[u]
    OBVIOUS
  <2>2. /\ blanks = 0 => OthersOf(board, u) \subseteq BroughtFrom(down[u], i)
        /\ mounts[u] <= 1 => OthersOf(board, u) \subseteq doc[u] \cup BroughtFrom(down[u], i)
    BY <1>1, <2>1 DEF StatesAreWhole
  <2>3. OthersOf(board', u) \subseteq OthersOf(board, u)
    BY <1>3 DEF OthersOf
  <2> QED BY <1>6, <2>1, <2>2, <2>3
<1>10. FedIsWhole'
  <2>1. \A u \in fed' : engine'[u] = "mounted"
    BY <1>1 DEF FedIsWhole
  <2> SUFFICES ASSUME NEW u \in fed' \cap admitted', blanks' = 0 \/ mounts'[u] <= 1
               PROVE  OthersOf(board', u) \subseteq doc'[u] \cup Brought(down'[u])
    BY <2>1 DEF FedIsWhole
  <2>2. u \in fed \cap admitted /\ (blanks = 0 \/ mounts[u] <= 1) /\ down'[u] = down[u]
    BY <1>6
  <2>3. OthersOf(board', u) \subseteq OthersOf(board, u)
    BY <1>3 DEF OthersOf
  <2> QED BY <1>1, <2>2, <2>3 DEF FedIsWhole
<1>11. ModeComes'
  BY <1>1, <1>6 DEF ModeComes
<1> QED BY <1>5, <1>7, <1>8, <1>9, <1>10, <1>11 DEF Claims

LEMMA BoardInitially == BoardInit => BoardIInv
<1> SUFFICES ASSUME BoardInit PROVE BoardIInv
  OBVIOUS
<1> USE DEF BoardInit
<1>1. /\ BoardTyped
  BY BoundsAreNat, NoFrames DEF BoardTyped, Modes
<1>2. EnginesTyped
  <2>1. Whole({}) = {}
    BY DEF Whole
  <2> QED BY <2>1, BoundsAreNat DEF EnginesTyped
<1>3. EditsCounted /\ FromBoard /\ FirstKeeps
  BY NoFrames DEF EditsCounted, FromBoard, FirstKeeps, OthersOf
<1>4. StatesAreWhole /\ FedIsWhole /\ ModeComes
  BY DEF StatesAreWhole, FedIsWhole, ModeComes
<1> QED BY <1>1, <1>2, <1>3, <1>4 DEF BoardIInv

-----------------------------------------------------------------------------
(* Panels that connect, engines that come and go, requests that are sent.  *)

\* A panel sends one frame more.
LEMMA PanelSends ==
    ASSUME BoardIInv, NEW u \in Users, NEW f \in ToServer, up' = [up EXCEPT ![u] = Append(@, f)]
    PROVE  /\ up' \in [Users -> Seq(ToServer)]
           /\ Brought(up'[u]) = Brought(up[u]) \cup (Content(f) \cap Edit)
           /\ \A v \in Users : v # u => up'[v] = up[v]
<1>1. up \in [Users -> Seq(ToServer)] /\ up[u] \in Seq(ToServer)
  BY DEF BoardIInv, BoardTyped
<1> DEFINE one == <<f>>
           old == up[u]
<1>2. one \in Seq(ToServer) /\ Brought(one) = Content(f) \cap Edit
  BY OneFrame
<1>3. up'[u] = Append(old, f)
  BY <1>1
<1>4. Append(old, f) = old \o one
  BY <1>1
<1>5. Continues(up'[u], old, one)
  BY <1>3, <1>4 DEF Continues
<1>6. \A v \in Users : v # u => up'[v] = up[v]
  BY <1>1
<1> HIDE DEF one, old
<1>7. up'[u] \in Seq(ToServer) /\ Brought(up'[u]) = Brought(old) \cup Brought(one)
  BY <1>1, <1>2, <1>5, WhatContinues DEF old
<1>8. up' \in [Users -> Seq(ToServer)]
  BY <1>1, <1>6, <1>7
<1> QED BY <1>2, <1>6, <1>7, <1>8 DEF old

LEMMA PanelConnects ==
    ASSUME BoardIInv, NEW u \in Users, ConnectPanel(u) PROVE BoardIInv'
<1> DEFINE f == [ev |-> "join"]
<1>1. f \in ToServer /\ Content(f) = {}
  BY DEF ToServer, Content, Carries
<1>2. /\ connected' = connected \cup {u} /\ up' = [up EXCEPT ![u] = Append(@, f)]
      /\ UNCHANGED <<server, down, picture, known, bounds>>
  BY DEF ConnectPanel
<1>3. /\ board' = board /\ mode' = mode /\ active' = active /\ present' = present
      /\ admitted' = admitted /\ joining' = joining /\ setting' = setting /\ down' = down
      /\ engine' = engine /\ mounts' = mounts /\ doc' = doc /\ sent' = sent /\ fed' = fed
      /\ known' = known /\ strokes' = strokes /\ drops' = drops /\ blanks' = blanks
  BY <1>2 DEF server, picture, bounds
<1>4. /\ up' \in [Users -> Seq(ToServer)] /\ Brought(up'[u]) = Brought(up[u])
      /\ \A v \in Users : v # u => up'[v] = up[v]
  <2> HIDE DEF f
  <2> QED BY <1>1, <1>2, PanelSends
<1>5. Claims'
  BY <1>3, <1>4, NothingIsNew
<1>6. BoardTyped' /\ EnginesTyped'
  BY <1>2, <1>3, <1>4 DEF BoardIInv, BoardTyped, EnginesTyped, Whole
<1> QED BY <1>5, <1>6 DEF BoardIInv, Claims

LEMMA ModeIsToggled ==
    ASSUME BoardIInv, NEW m \in Modes, Toggle(m) PROVE BoardIInv'
<1> DEFINE f == [ev |-> "mode", mode |-> m]
<1>1. f \in ToServer /\ Content(f) = {} /\ Owner \in Users
  BY OwnerIsUser DEF ToServer, Content, Carries
<1>2. /\ up' = [up EXCEPT ![Owner] = Append(@, f)]
      /\ UNCHANGED <<server, down, connected, picture, known, strokes, drops, blanks>>
  BY DEF Toggle
<1>3. /\ board' = board /\ mode' = mode /\ active' = active /\ present' = present
      /\ admitted' = admitted /\ joining' = joining /\ setting' = setting /\ down' = down
      /\ connected' = connected
      /\ engine' = engine /\ mounts' = mounts /\ doc' = doc /\ sent' = sent /\ fed' = fed
      /\ known' = known /\ strokes' = strokes /\ drops' = drops /\ blanks' = blanks
  BY <1>2 DEF server, picture
<1>4. /\ up' \in [Users -> Seq(ToServer)] /\ Brought(up'[Owner]) = Brought(up[Owner])
      /\ \A v \in Users : v # Owner => up'[v] = up[v]
  <2> HIDE DEF f
  <2> QED BY <1>1, <1>2, PanelSends
<1>5. Claims'
  BY <1>3, <1>4, NothingIsNew
<1>6. BoardTyped' /\ EnginesTyped'
  BY <1>3, <1>4 DEF BoardIInv, BoardTyped, EnginesTyped, Whole
<1> QED BY <1>5, <1>6 DEF BoardIInv, Claims

\* The sockets of some users are gone.
LEMMA WhatIsCut ==
    ASSUME BoardIInv, NEW users \in SUBSET Users, Cut(users)
    PROVE  /\ up' \in [Users -> Seq(ToServer)] /\ down' \in [Users -> Seq(ToPanel)]
           /\ connected' \subseteq Users /\ admitted' \subseteq connected' /\ joining' \subseteq connected'
           /\ admitted' \subseteq admitted
           /\ \A u \in Users : /\ Brought(up'[u]) \subseteq Brought(up[u])
                               /\ Brought(down'[u]) \subseteq Brought(down[u])
           /\ \A u \in admitted' : down'[u] = down[u]
<1>1. /\ up \in [Users -> Seq(ToServer)] /\ down \in [Users -> Seq(ToPanel)]
      /\ connected \subseteq Users /\ admitted \subseteq connected /\ joining \subseteq connected
  BY DEF BoardIInv, BoardTyped
<1>2. /\ \A u \in Users : up'[u] = <<>> \/ up'[u] = up[u]
      /\ \A u \in Users : down'[u] = <<>> \/ down'[u] = down[u]
      /\ \A u \in Users \ users : down'[u] = down[u]
      /\ connected' = connected \ users /\ admitted' = admitted \ users /\ joining' = joining \ users
      /\ DOMAIN up' = Users /\ DOMAIN down' = Users
      /\ up' = [u \in Users |-> up'[u]] /\ down' = [u \in Users |-> down'[u]]
  BY DEF Cut, StaysAdmitted
<1>3. \A u \in Users : up'[u] \in Seq(ToServer) /\ down'[u] \in Seq(ToPanel)
  BY <1>1, <1>2, NoFrames
<1>4. up' \in [Users -> Seq(ToServer)] /\ down' \in [Users -> Seq(ToPanel)]
  BY <1>2, <1>3
<1>5. \A u \in Users : /\ Brought(up'[u]) \subseteq Brought(up[u])
                       /\ Brought(down'[u]) \subseteq Brought(down[u])
  BY <1>2, NoFrames
<1> QED BY <1>1, <1>2, <1>4, <1>5

LEMMA PanelDrops ==
    ASSUME BoardIInv, NEW u \in Users, Drop(u) PROVE BoardIInv'
<1>1. /\ Cut({u}) /\ {u} \in SUBSET Users /\ drops' = drops + 1
      /\ board' = board /\ mode' = mode /\ active' = active /\ present' = present /\ setting' = setting
      /\ engine' = engine /\ mounts' = mounts /\ doc' = doc /\ sent' = sent /\ fed' = fed
      /\ known' = known /\ strokes' = strokes /\ blanks' = blanks
  BY DEF Drop, picture
<1>2. /\ up' \in [Users -> Seq(ToServer)] /\ down' \in [Users -> Seq(ToPanel)]
      /\ connected' \subseteq Users /\ admitted' \subseteq connected' /\ joining' \subseteq connected'
      /\ admitted' \subseteq admitted
      /\ \A v \in Users : /\ Brought(up'[v]) \subseteq Brought(up[v])
                          /\ Brought(down'[v]) \subseteq Brought(down[v])
      /\ \A v \in admitted' : down'[v] = down[v]
  BY <1>1, WhatIsCut
<1>3. Claims'
  BY <1>1, <1>2, NothingIsNew
<1>4. drops' \in Nat
  BY <1>1 DEF BoardIInv, BoardTyped
<1>5. BoardTyped'
  BY <1>1, <1>2, <1>4 DEF BoardIInv, BoardTyped
<1>6. EnginesTyped'
  BY <1>1 DEF BoardIInv, EnginesTyped, Whole
<1> QED BY <1>3, <1>5, <1>6 DEF BoardIInv, Claims

LEMMA ServerRestarts ==
    ASSUME BoardIInv, Restart PROVE BoardIInv'
<1>1. /\ Cut(Users) /\ blanks' = blanks + 1 /\ drops' = drops
      /\ board' = {} /\ mode' = "owner" /\ active' = active /\ present' = present /\ setting' = <<>>
      /\ engine' = engine /\ mounts' = mounts /\ doc' = doc /\ sent' = sent /\ fed' = fed
      /\ known' = known /\ strokes' = strokes
  BY DEF Restart, picture
<1>2. /\ up' \in [Users -> Seq(ToServer)] /\ down' \in [Users -> Seq(ToPanel)]
      /\ connected' \subseteq Users /\ admitted' \subseteq connected' /\ joining' \subseteq connected'
      /\ admitted' \subseteq admitted
      /\ \A v \in Users : /\ Brought(up'[v]) \subseteq Brought(up[v])
                          /\ Brought(down'[v]) \subseteq Brought(down[v])
      /\ \A v \in admitted' : down'[v] = down[v]
  BY <1>1, WhatIsCut
<1>3. Claims'
  BY <1>1, <1>2, NothingIsNew
<1>4. blanks' \in Nat /\ setting' \in Seq(Modes) /\ mode' \in Modes
  BY <1>1, NoFrames DEF BoardIInv, BoardTyped, Modes
<1>5. BoardTyped'
  BY <1>1, <1>2, <1>4 DEF BoardIInv, BoardTyped
<1>6. EnginesTyped'
  BY <1>1 DEF BoardIInv, EnginesTyped, Whole
<1> QED BY <1>3, <1>5, <1>6 DEF BoardIInv, Claims

LEMMA EngineIsReplaced ==
    ASSUME BoardIInv, NEW u \in Users, Remount(u) PROVE BoardIInv'
<1>1. /\ engine[u] = "mounted" /\ engine' = [engine EXCEPT ![u] = "loading"] /\ fed' = fed \ {u}
      /\ board' = board /\ mode' = mode /\ active' = active /\ present' = present
      /\ admitted' = admitted /\ joining' = joining /\ setting' = setting /\ down' = down
      /\ up' = up /\ connected' = connected
      /\ mounts' = mounts /\ doc' = doc /\ sent' = sent
      /\ known' = known /\ strokes' = strokes /\ drops' = drops /\ blanks' = blanks
  BY DEF Remount, server, net, bounds
<1>2. \A v \in fed' : engine'[v] = engine[v]
  BY <1>1 DEF BoardIInv, BoardTyped, EnginesTyped
<1>3. Claims'
  BY <1>1, <1>2, NothingIsNew
<1>4. BoardTyped' /\ EnginesTyped'
  BY <1>1 DEF BoardIInv, BoardTyped, EnginesTyped, Whole
<1> QED BY <1>3, <1>4 DEF BoardIInv, Claims

LEMMA BoardIsDropped ==
    ASSUME BoardIInv, NEW ends \in BOOLEAN, RoomCloses(ends) PROVE BoardIInv'
<1>1. /\ board' = {} /\ mode' = "owner" /\ active' = ~ends /\ present' = {}
      /\ admitted' = admitted /\ joining' = joining /\ setting' = setting /\ down' = down
      /\ up' = up /\ connected' = connected /\ engine' = engine /\ fed' = fed
      /\ mounts' = mounts /\ doc' = doc /\ sent' = sent
      /\ known' = known /\ strokes' = strokes /\ drops' = drops /\ blanks' = blanks + 1
  BY DEF RoomCloses, net, picture
<1>2. Claims'
  BY <1>1, NothingIsNew
<1>3. blanks' \in Nat /\ mode' \in Modes /\ active' \in BOOLEAN
  BY <1>1 DEF BoardIInv, BoardTyped, Modes
<1>4. BoardTyped' /\ EnginesTyped'
  BY <1>1, <1>3 DEF BoardIInv, BoardTyped, EnginesTyped, Whole
<1> QED BY <1>2, <1>4 DEF BoardIInv, Claims

LEMMA SeatIsTaken ==
    ASSUME BoardIInv, NEW u \in Users, Return(u) PROVE BoardIInv'
<1>1. /\ board' = board /\ mode' = mode /\ active' = active /\ present' = present \cup {u}
      /\ admitted' = admitted /\ joining' = joining /\ setting' = setting /\ down' = down
      /\ up' = up /\ connected' = connected /\ engine' = engine /\ fed' = fed
      /\ mounts' = mounts /\ doc' = doc /\ sent' = sent
      /\ known' = known /\ strokes' = strokes /\ drops' = drops /\ blanks' = blanks
  BY DEF Return, net, picture, bounds
<1>2. Claims'
  BY <1>1, NothingIsNew
<1>3. BoardTyped' /\ EnginesTyped'
  BY <1>1 DEF BoardIInv, BoardTyped, EnginesTyped, Whole
<1> QED BY <1>2, <1>3 DEF BoardIInv, Claims

\* The server takes a user's first request.
LEMMA WhatIsAsked ==
    ASSUME BoardIInv, NEW u \in Users, NEW ev, Asks(u, ev)
    PROVE  /\ u \in connected /\ Head(up[u]) \in ToServer /\ Head(up[u]).ev = ev
           /\ up' \in [Users -> Seq(ToServer)] /\ \A v \in Users : v # u => up'[v] = up[v]
           /\ \A v \in Users : Brought(up'[v]) \subseteq Brought(up[v])
           /\ Brought(up[u]) = (Content(Head(up[u])) \cap Edit) \cup Brought(up'[u])
<1>1. /\ up \in [Users -> Seq(ToServer)] /\ up[u] \in Seq(ToServer) /\ up[u] # <<>>
      /\ up' = [up EXCEPT ![u] = Tail(@)] /\ u \in connected /\ Head(up[u]).ev = ev
  BY DEF Asks, BoardIInv, BoardTyped
<1>2. Takes(up[u], Head(up[u]), up'[u])
  BY <1>1 DEF Takes
<1>3. /\ up'[u] \in Seq(ToServer) /\ Head(up[u]) \in ToServer
      /\ Brought(up[u]) = (Content(Head(up[u])) \cap Edit) \cup Brought(up'[u])
  BY <1>1, <1>2, WhatTakes
<1>4. \A v \in Users : v # u => up'[v] = up[v]
  BY <1>1
<1>5. up' \in [Users -> Seq(ToServer)]
  BY <1>1, <1>3, <1>4
<1> QED BY <1>1, <1>3, <1>4, <1>5

LEMMA JoinIsAsked ==
    ASSUME BoardIInv, NEW u \in Users, AskJoin(u) PROVE BoardIInv'
<1>1. /\ board' = board /\ mode' = mode /\ active' = active /\ present' = present
      /\ admitted' = admitted /\ joining' = joining \cup {u} /\ setting' = setting /\ down' = down
      /\ connected' = connected /\ engine' = engine /\ fed' = fed
      /\ mounts' = mounts /\ doc' = doc /\ sent' = sent
      /\ known' = known /\ strokes' = strokes /\ drops' = drops /\ blanks' = blanks
  BY DEF AskJoin, picture, bounds
<1>2. /\ u \in connected /\ up' \in [Users -> Seq(ToServer)]
      /\ \A v \in Users : Brought(up'[v]) \subseteq Brought(up[v])
  BY WhatIsAsked DEF AskJoin
<1>3. Claims'
  BY <1>1, <1>2, NothingIsNew
<1>4. BoardTyped' /\ EnginesTyped'
  BY <1>1, <1>2 DEF BoardIInv, BoardTyped, EnginesTyped, Whole
<1> QED BY <1>3, <1>4 DEF BoardIInv, Claims

LEMMA ModeIsAsked ==
    ASSUME BoardIInv, AskMode PROVE BoardIInv'
<1>1. /\ board' = board /\ mode' = mode /\ active' = active /\ present' = present
      /\ admitted' = admitted /\ joining' = joining /\ down' = down
      /\ setting' = IF Owner \in admitted THEN Append(setting, Head(up[Owner]).mode) ELSE setting
      /\ connected' = connected /\ engine' = engine /\ fed' = fed
      /\ mounts' = mounts /\ doc' = doc /\ sent' = sent
      /\ known' = known /\ strokes' = strokes /\ drops' = drops /\ blanks' = blanks
  BY DEF AskMode, picture, bounds
<1>2. /\ up' \in [Users -> Seq(ToServer)] /\ Head(up[Owner]) \in ToServer /\ Head(up[Owner]).ev = "mode"
      /\ \A v \in Users : Brought(up'[v]) \subseteq Brought(up[v])
  BY WhatIsAsked, OwnerIsUser DEF AskMode
<1>3. Claims'
  BY <1>1, <1>2, NothingIsNew
<1>4. Head(up[Owner]).mode \in Modes
  BY <1>2 DEF ToServer
<1>5. setting' \in Seq(Modes)
  BY <1>1, <1>4 DEF BoardIInv, BoardTyped
<1>6. /\ board' = board /\ mode' = mode /\ active' = active /\ present' = present
      /\ admitted' = admitted /\ joining' = joining /\ down' = down
      /\ connected' = connected /\ engine' = engine /\ fed' = fed
      /\ mounts' = mounts /\ doc' = doc /\ sent' = sent
      /\ known' = known /\ strokes' = strokes /\ drops' = drops /\ blanks' = blanks
      /\ up' \in [Users -> Seq(ToServer)]
  BY <1>1, <1>2
<1>7. BoardTyped' /\ EnginesTyped'
  BY <1>5, <1>6 DEF BoardIInv, BoardTyped, EnginesTyped, Whole
<1> QED BY <1>3, <1>7 DEF BoardIInv, Claims

-----------------------------------------------------------------------------
(* Engines that are mounted, and what they draw.                           *)

LEMMA EngineIsMounted ==
    ASSUME BoardIInv, NEW u \in Users, Mount(u) PROVE BoardIInv'
<1>1. /\ engine[u] = "loading" /\ mounts[u] < MaxMounts
      /\ engine' = [engine EXCEPT ![u] = "mounted"] /\ mounts' = [mounts EXCEPT ![u] = @ + 1]
      /\ doc' = [doc EXCEPT ![u] = {}] /\ sent' = [sent EXCEPT ![u] = {}]
      /\ board' = board /\ mode' = mode /\ active' = active /\ present' = present
      /\ admitted' = admitted /\ joining' = joining /\ setting' = setting /\ down' = down
      /\ up' = up /\ connected' = connected /\ fed' = fed
      /\ known' = known /\ strokes' = strokes /\ drops' = drops /\ blanks' = blanks
  BY DEF Mount, server, net, bounds
<1>2. BoardTyped /\ EnginesTyped /\ EditsCounted /\ FromBoard /\ FirstKeeps /\ StatesAreWhole
      /\ FedIsWhole /\ ModeComes
  BY DEF BoardIInv
<1>3. /\ doc'[u] = {} /\ sent'[u] = {} /\ engine'[u] = "mounted" /\ mounts'[u] = mounts[u] + 1
      /\ mounts[u] \in Nat
      /\ \A v \in Users : v # u => /\ doc'[v] = doc[v] /\ sent'[v] = sent[v]
                                   /\ engine'[v] = engine[v] /\ mounts'[v] = mounts[v]
      /\ u \notin fed
  BY <1>1, <1>2, BoundsAreNat DEF EnginesTyped, FedIsWhole
<1>4. BoardTyped'
  BY <1>1, <1>2 DEF BoardTyped
<1>5. EnginesTyped'
  <2>1. Whole({}) = {}
    BY DEF Whole
  <2>2. mounts' \in [Users -> 0 .. MaxMounts]
    BY <1>1, <1>2, BoundsAreNat DEF EnginesTyped
  <2>3. /\ engine' \in [Users -> {"loading", "mounted"}]
        /\ doc' \in [Users -> SUBSET Edit] /\ sent' \in [Users -> SUBSET Edit]
    BY <1>1, <1>2 DEF EnginesTyped
  <2>4. ASSUME NEW v \in Users
        PROVE  /\ sent'[v] = Whole(sent'[v]) /\ sent'[v] \subseteq doc'[v]
               /\ engine'[v] = "mounted" => mounts'[v] > 0
    <3>1. CASE v = u
      BY <1>3, <2>1, <3>1
    <3>2. CASE v # u
      BY <1>2, <1>3, <3>2 DEF EnginesTyped
    <3> QED BY <3>1, <3>2
  <2> QED BY <2>2, <2>3, <2>4 DEF EnginesTyped, Whole
<1>6. EditsCounted'
  <2>1. ASSUME NEW e \in Edit, Counted(e) PROVE Counted(e)'
    <3>1. e.by \in Users /\ mounts'[e.by] >= mounts[e.by] /\ mounts[e.by] \in Nat /\ mounts'[e.by] \in Nat
      BY <1>1, <1>2, BoundsAreNat DEF EnginesTyped, Edit
    <3> QED BY <1>1, <2>1, <3>1 DEF Counted
  <2>2. \A v \in Users : doc'[v] \subseteq doc[v] /\ doc[v] \subseteq Edit
    BY <1>2, <1>3 DEF EnginesTyped
  <2> QED BY <1>1, <1>2, <2>1, <2>2 DEF EditsCounted, BoardTyped, Brought
<1>7. FromBoard'
  BY <1>1, <1>2, <1>3 DEF FromBoard, OthersOf
<1>8. FirstKeeps'
  BY <1>1, <1>2, <1>3 DEF FirstKeeps
<1>9. StatesAreWhole'
  <2> SUFFICES ASSUME NEW v \in admitted, NEW i \in DOMAIN down[v], down[v][i].ev = "state"
               PROVE  /\ blanks = 0 => OthersOf(board, v) \subseteq BroughtFrom(down[v], i)
                      /\ mounts'[v] <= 1 =>
                            OthersOf(board, v) \subseteq doc'[v] \cup BroughtFrom(down[v], i)
    BY <1>1 DEF StatesAreWhole
  <2>1. v \in Users
    BY <1>2 DEF BoardTyped
  <2>2. /\ blanks = 0 => OthersOf(board, v) \subseteq BroughtFrom(down[v], i)
        /\ mounts[v] <= 1 => OthersOf(board, v) \subseteq doc[v] \cup BroughtFrom(down[v], i)
    BY <1>2 DEF StatesAreWhole
  <2>3. mounts'[v] <= 1 => mounts[v] <= 1 /\ doc'[v] = doc[v]
    <3>1. CASE v = u
      <4>1. mounts'[u] <= 1 => mounts[u] = 0 /\ mounts[u] <= 1
        BY <1>3
      <4>2. mounts[u] = 0 => doc[u] = {}
        BY <1>2 DEF FirstKeeps
      <4>3. doc'[u] = {}
        BY <1>3
      <4> QED BY <3>1, <4>1, <4>2, <4>3
    <3>2. CASE v # u
      BY <1>3, <2>1, <3>2
    <3> QED BY <3>1, <3>2
  <2> QED BY <2>2, <2>3
<1>10. FedIsWhole'
  <2>1. \A v \in fed : v \in Users /\ v # u
    BY <1>2, <1>3 DEF BoardTyped
  <2> QED BY <1>1, <1>2, <1>3, <2>1 DEF FedIsWhole
<1>11. ModeComes'
  BY <1>1, <1>2 DEF ModeComes
<1> QED BY <1>4, <1>5, <1>6, <1>7, <1>8, <1>9, <1>10, <1>11 DEF BoardIInv

LEMMA StrokeIsDrawn ==
    ASSUME BoardIInv, NEW u \in Users, Draw(u) PROVE BoardIInv'
<1> DEFINE own == {d \in doc[u] : d.by = u /\ d.mount = mounts[u]}
           e == [by |-> u, mount |-> mounts[u], n |-> Cardinality(own) + 1]
           diff == LocalDiff(u, e)
           f == [ev |-> "update", edits |-> diff]
<1>1. /\ engine[u] = "mounted" /\ strokes < MaxEdits /\ strokes' = strokes + 1
      /\ doc' = [doc EXCEPT ![u] = @ \cup {e}] /\ up' = [up EXCEPT ![u] = Append(@, f)]
      /\ sent' = [sent EXCEPT ![u] = Whole(doc[u] \cup {e})]
      /\ board' = board /\ mode' = mode /\ active' = active /\ present' = present
      /\ admitted' = admitted /\ joining' = joining /\ setting' = setting /\ down' = down
      /\ connected' = connected /\ engine' = engine /\ mounts' = mounts /\ fed' = fed
      /\ known' = known /\ drops' = drops /\ blanks' = blanks
  BY DEF Draw, server
<1>2. BoardTyped /\ EnginesTyped /\ EditsCounted /\ FromBoard /\ FirstKeeps /\ StatesAreWhole
      /\ FedIsWhole /\ ModeComes
  BY DEF BoardIInv
<1>3. Cardinality(own) \in 0 .. strokes
  BY OwnAreFew
<1>4. /\ doc[u] \subseteq Edit /\ mounts[u] \in 1 .. MaxMounts /\ strokes \in Nat /\ MaxEdits \in Nat
      /\ e.by = u /\ e.mount = mounts[u] /\ e.n = Cardinality(own) + 1
  BY <1>1, <1>2, BoundsAreNat DEF EnginesTyped, BoardTyped
<1>5. e \in Edit /\ e.mount \in 1 .. mounts'[e.by] /\ e.n \in 1 .. strokes'
  <2>1. e.n \in 1 .. strokes + 1 /\ e.n \in 1 .. MaxEdits
    BY <1>1, <1>3, <1>4
  <2> HIDE DEF own
  <2>2. e \in Edit
    BY <1>4, <2>1 DEF Edit
  <2>3. e.mount \in 1 .. mounts[e.by] /\ e.n \in 1 .. strokes + 1
    BY <1>4, <2>1
  <2> HIDE DEF e
  <2> QED BY <1>1, <2>2, <2>3
<1>6. diff \subseteq doc[u] \cup {e}
  BY DEF LocalDiff
<1> HIDE DEF own, e, diff
<1>7. f \in ToServer /\ Content(f) \cap Edit = diff
  BY <1>4, <1>5, <1>6 DEF ToServer, Content, Carries
<1>8. /\ up' \in [Users -> Seq(ToServer)] /\ Brought(up'[u]) = Brought(up[u]) \cup diff
      /\ \A v \in Users : v # u => up'[v] = up[v]
  <2> HIDE DEF f
  <2> QED BY <1>1, <1>7, PanelSends
<1>9. /\ doc'[u] = doc[u] \cup {e} /\ sent'[u] = Whole(doc[u] \cup {e})
      /\ \A v \in Users : v # u => doc'[v] = doc[v] /\ sent'[v] = sent[v]
      /\ \A v \in Users : doc[v] \subseteq doc'[v]
  BY <1>1, <1>2 DEF EnginesTyped
<1>10. BoardTyped'
  <2>1. strokes' \in 0 .. MaxEdits
    BY <1>1, <1>4
  <2> QED BY <1>1, <1>2, <1>8, <2>1 DEF BoardTyped
<1>11. EnginesTyped'
  <2>1. Whole(doc[u] \cup {e}) \subseteq doc[u] \cup {e}
        /\ Whole(Whole(doc[u] \cup {e})) = Whole(doc[u] \cup {e})
    BY <1>4, <1>5, WholeIsWhole
  <2>2. doc' \in [Users -> SUBSET Edit] /\ sent' \in [Users -> SUBSET Edit]
    <3>1. doc[u] \cup {e} \in SUBSET Edit /\ Whole(doc[u] \cup {e}) \in SUBSET Edit
      BY <1>4, <1>5, <2>1
    <3>2. doc \in [Users -> SUBSET Edit] /\ sent \in [Users -> SUBSET Edit]
      BY <1>2 DEF EnginesTyped
    <3> QED BY <1>1, <3>1, <3>2
  <2>3. ASSUME NEW v \in Users PROVE sent'[v] = Whole(sent'[v]) /\ sent'[v] \subseteq doc'[v]
    <3>1. CASE v = u
      BY <1>9, <2>1, <3>1
    <3>2. CASE v # u
      BY <1>2, <1>9, <3>2 DEF EnginesTyped
    <3> QED BY <3>1, <3>2
  <2> QED BY <1>1, <1>2, <2>2, <2>3 DEF EnginesTyped, Whole
<1>12. EditsCounted'
  <2>1. ASSUME NEW d, Counted(d) PROVE Counted(d)'
    BY <1>1, <1>4, <2>1 DEF Counted
  <2>2. \A v \in Users : \A d \in doc'[v] : d \in doc[v] \/ d = e
    BY <1>9
  <2>3. \A v \in Users : \A d \in Brought(up'[v]) : d \in Brought(up[v]) \/ d \in doc[v] \/ d = e
    BY <1>6, <1>8
  <2>4. \A d : d = e => Counted(d)'
    BY <1>5 DEF Counted
  <2> QED BY <1>1, <1>2, <2>1, <2>2, <2>3, <2>4 DEF EditsCounted
<1>13. FromBoard'
  <2> SUFFICES ASSUME blanks = 0, NEW v \in Users
               PROVE  /\ Brought(down[v]) \subseteq board
                      /\ OthersOf(doc'[v], v) \subseteq board /\ OthersOf(Brought(up'[v]), v) \subseteq board
    BY <1>1 DEF FromBoard
  <2>1. /\ Brought(down[v]) \subseteq board
        /\ OthersOf(doc[v], v) \subseteq board /\ OthersOf(Brought(up[v]), v) \subseteq board
    BY <1>2 DEF FromBoard
  <2>2. CASE v = u
    <3>1. OthersOf(doc'[u], u) \subseteq OthersOf(doc[u], u)
      BY <1>4, <1>9 DEF OthersOf
    <3>2. OthersOf(Brought(up'[u]), u) \subseteq OthersOf(Brought(up[u]), u) \cup OthersOf(doc[u], u)
      BY <1>4, <1>6, <1>8 DEF OthersOf
    <3> QED BY <2>1, <2>2, <3>1, <3>2
  <2>3. CASE v # u
    BY <1>8, <1>9, <2>1, <2>3
  <2> QED BY <2>2, <2>3
<1>14. FirstKeeps'
  <2>1. mounts[u] # 0
    BY <1>4
  <2>2. mounts[u] <= 1 => Brought(up'[u]) \subseteq doc'[u]
    BY <1>2, <1>6, <1>8, <1>9 DEF FirstKeeps
  <2> QED BY <1>1, <1>2, <1>8, <1>9, <2>1, <2>2 DEF FirstKeeps
<1>15. StatesAreWhole'
  <2>1. \A v \in admitted : v \in Users /\ doc[v] \subseteq doc'[v]
    BY <1>2, <1>9 DEF BoardTyped
  <2> QED BY <1>1, <1>2, <2>1 DEF StatesAreWhole
<1>16. FedIsWhole'
  <2>1. \A v \in fed : v \in Users /\ doc[v] \subseteq doc'[v]
    BY <1>2, <1>9 DEF BoardTyped
  <2> QED BY <1>1, <1>2, <2>1 DEF FedIsWhole
<1>17. ModeComes'
  BY <1>1, <1>2 DEF ModeComes
<1> QED BY <1>10, <1>11, <1>12, <1>13, <1>14, <1>15, <1>16, <1>17 DEF BoardIInv

-----------------------------------------------------------------------------
(* What the server says, and what is heard of it.                          *)

\* Some users are told something more.
LEMMA UsersAreTold ==
    ASSUME BoardIInv, NEW users, NEW more \in Seq(ToPanel), Say(users, more)
    PROVE  /\ down' \in [Users -> Seq(ToPanel)]
           /\ \A v \in Users \ users : down'[v] = down[v]
           /\ \A v \in Users \cap users :
                 /\ Brought(down'[v]) = Brought(down[v]) \cup Brought(more)
                 /\ \A i \in DOMAIN down[v] :
                       /\ i \in DOMAIN down'[v] /\ down'[v][i] = down[v][i]
                       /\ BroughtFrom(down'[v], i) = BroughtFrom(down[v], i) \cup Brought(more)
                 /\ \A i \in DOMAIN down'[v] : i \notin DOMAIN down[v] =>
                       \E j \in DOMAIN more : /\ down'[v][i] = more[j]
                                              /\ BroughtFrom(down'[v], i) = BroughtFrom(more, j)
                 /\ NoMode(down'[v]) <=> NoMode(down[v]) /\ NoMode(more)
                 /\ \A i : LastMode(down'[v], i) =>
                       \/ NoMode(more) /\ LastMode(down[v], i) /\ down'[v][i] = down[v][i]
                       \/ \E j : LastMode(more, j) /\ down'[v][i] = more[j]
<1>1. down \in [Users -> Seq(ToPanel)]
  BY DEF BoardIInv, BoardTyped
<1>2. \A v \in Users \ users : down'[v] = down[v]
  BY DEF Say
<1>3. \A v \in Users \cap users : Continues(down'[v], down[v], more)
  BY DEF Say, Continues
<1>4. \A v \in Users : down[v] \in Seq(ToPanel)
  BY <1>1
<1>5. ASSUME NEW v \in Users \cap users
      PROVE  /\ down'[v] \in Seq(ToPanel)
             /\ Brought(down'[v]) = Brought(down[v]) \cup Brought(more)
             /\ \A i \in DOMAIN down[v] :
                   /\ i \in DOMAIN down'[v] /\ down'[v][i] = down[v][i]
                   /\ BroughtFrom(down'[v], i) = BroughtFrom(down[v], i) \cup Brought(more)
             /\ \A i \in DOMAIN down'[v] : i \notin DOMAIN down[v] =>
                   \E j \in DOMAIN more : /\ down'[v][i] = more[j]
                                          /\ BroughtFrom(down'[v], i) = BroughtFrom(more, j)
             /\ NoMode(down'[v]) <=> NoMode(down[v]) /\ NoMode(more)
             /\ \A i : LastMode(down'[v], i) =>
                   \/ NoMode(more) /\ LastMode(down[v], i)
                   \/ \E j : LastMode(more, j) /\ down'[v][i] = more[j]
  <2>1. down[v] \in Seq(ToPanel) /\ Continues(down'[v], down[v], more)
    BY <1>3, <1>4
  <2> QED BY <2>1, WhatContinues
<1>6. \A v \in Users : down'[v] \in Seq(ToPanel)
  BY <1>2, <1>4, <1>5
<1>7. DOMAIN down' = Users /\ down' = [v \in Users |-> down'[v]]
  BY DEF Say
<1>8. \A v \in Users \cap users : \A i : LastMode(down[v], i) => down'[v][i] = down[v][i]
  BY <1>5 DEF LastMode
<1> QED BY <1>2, <1>5, <1>6, <1>7, <1>8

LEMMA UserIsAdmitted ==
    ASSUME BoardIInv, NEW u \in Users, Admit(u) PROVE BoardIInv'
<1>1. /\ u \in joining /\ joining' = joining \ {u}
      /\ board' = board /\ mode' = mode /\ active' = active /\ present' = present /\ setting' = setting
      /\ up' = up /\ connected' = connected /\ engine' = engine /\ fed' = fed
      /\ mounts' = mounts /\ doc' = doc /\ sent' = sent
      /\ known' = known /\ strokes' = strokes /\ drops' = drops /\ blanks' = blanks
  BY DEF Admit, picture, bounds
<1>2. BoardTyped /\ EnginesTyped /\ EditsCounted /\ FromBoard /\ FirstKeeps /\ StatesAreWhole
      /\ FedIsWhole /\ ModeComes
  BY DEF BoardIInv
<1>3. EnginesTyped'
  BY <1>1, <1>2 DEF EnginesTyped, Whole
<1>4. CASE active /\ MayJoin(u)
  <2> DEFINE state == [ev |-> "state", edits |-> board]
             told == [ev |-> "mode", mode |-> mode]
             more == <<state, told>>
  <2>1. admitted' = admitted \cup {u} /\ Say({u}, more)
    BY <1>4 DEF Admit
  <2>2. board \subseteq Edit /\ mode \in Modes
    BY <1>2 DEF BoardTyped
  <2>3. /\ more \in Seq(ToPanel) /\ Brought(more) = board
        /\ \A j \in DOMAIN more : more[j].ev = "state" => BroughtFrom(more, j) = board
        /\ ~NoMode(more) /\ \A j : LastMode(more, j) => more[j].mode = mode
    <3>1. state \in ToPanel /\ told \in ToPanel
      BY <2>2 DEF ToPanel
    <3>2. more \in Seq(ToPanel) /\ DOMAIN more = {1, 2} /\ more[1] = state /\ more[2] = told
      BY <3>1
    <3>3. /\ state.ev = "state" /\ state.edits = board /\ Carries(state)
          /\ told.ev = "mode" /\ told.mode = mode /\ ~Carries(told)
      BY DEF Carries
    <3> HIDE DEF more, state, told
    <3>4. Brought(more) = board
      BY <2>2, <3>2, <3>3 DEF Brought
    <3>5. BroughtFrom(more, 1) = board
      BY <2>2, <3>2, <3>3 DEF BroughtFrom
    <3>6. ~NoMode(more) /\ \A j : LastMode(more, j) => more[j].mode = mode
      BY <3>2, <3>3 DEF NoMode, LastMode
    <3> QED BY <3>2, <3>3, <3>4, <3>5, <3>6
  <2> HIDE DEF more
  <2>4. /\ down' \in [Users -> Seq(ToPanel)]
        /\ \A v \in Users : v # u => down'[v] = down[v]
        /\ Brought(down'[u]) = Brought(down[u]) \cup board
        /\ \A i \in DOMAIN down'[u] : down'[u][i].ev = "state" => board \subseteq BroughtFrom(down'[u], i)
        /\ ~NoMode(down'[u]) /\ \A i : LastMode(down'[u], i) => down'[u][i].mode = mode
    <3>1. /\ down' \in [Users -> Seq(ToPanel)]
          /\ \A v \in Users \ {u} : down'[v] = down[v]
          /\ \A v \in Users \cap {u} :
                /\ Brought(down'[v]) = Brought(down[v]) \cup Brought(more)
                /\ \A j \in DOMAIN down[v] :
                      /\ j \in DOMAIN down'[v] /\ down'[v][j] = down[v][j]
                      /\ BroughtFrom(down'[v], j) = BroughtFrom(down[v], j) \cup Brought(more)
                /\ \A j \in DOMAIN down'[v] : j \notin DOMAIN down[v] =>
                      \E k \in DOMAIN more : /\ down'[v][j] = more[k]
                                             /\ BroughtFrom(down'[v], j) = BroughtFrom(more, k)
                /\ NoMode(down'[v]) <=> NoMode(down[v]) /\ NoMode(more)
                /\ \A j : LastMode(down'[v], j) =>
                      \/ NoMode(more) /\ LastMode(down[v], j) /\ down'[v][j] = down[v][j]
                      \/ \E k : LastMode(more, k) /\ down'[v][j] = more[k]
      BY <2>1, <2>3, UsersAreTold
    <3>2. u \in Users \cap {u} /\ \A v \in Users : v # u => v \in Users \ {u}
      OBVIOUS
    <3>3. Brought(down'[u]) = Brought(down[u]) \cup board
      BY <2>3, <3>1, <3>2
    <3>4. ASSUME NEW i \in DOMAIN down'[u], down'[u][i].ev = "state"
          PROVE  board \subseteq BroughtFrom(down'[u], i)
      BY <2>3, <3>1, <3>2, <3>4
    <3>5. ~NoMode(down'[u]) /\ \A i : LastMode(down'[u], i) => down'[u][i].mode = mode
      BY <2>3, <3>1, <3>2
    <3> QED BY <3>1, <3>2, <3>3, <3>4, <3>5
  <2>5. BoardTyped'
    BY <1>1, <1>2, <2>1, <2>4 DEF BoardTyped
  <2>6. EditsCounted' /\ FromBoard'
    <3>1. \A v \in Users : \A e \in Brought(down'[v]) : e \in Brought(down[v]) \/ e \in board
      BY <2>4
    <3>2. \A e : Counted(e) => Counted(e)'
      BY <1>1 DEF Counted
    <3> QED BY <1>1, <1>2, <3>1, <3>2 DEF EditsCounted, FromBoard
  <2>7. FirstKeeps'
    BY <1>1, <1>2 DEF FirstKeeps
  <2>8. \A v \in admitted' : v = u \/ (v \in admitted /\ v \in Users /\ v # u /\ down'[v] = down[v])
    BY <1>2, <2>1, <2>4 DEF BoardTyped
  <2>9. OthersOf(board, u) \subseteq board
    BY DEF OthersOf
  <2>10. StatesAreWhole'
    <3> SUFFICES ASSUME NEW v \in admitted', NEW i \in DOMAIN down'[v], down'[v][i].ev = "state"
                 PROVE  /\ blanks = 0 => OthersOf(board, v) \subseteq BroughtFrom(down'[v], i)
                        /\ mounts[v] <= 1 =>
                              OthersOf(board, v) \subseteq doc[v] \cup BroughtFrom(down'[v], i)
      BY <1>1 DEF StatesAreWhole
    <3>1. CASE v = u
      BY <2>4, <2>9, <3>1
    <3>2. CASE v # u
      BY <1>2, <2>8, <3>2 DEF StatesAreWhole
    <3> QED BY <3>1, <3>2
  <2>11. FedIsWhole'
    <3> SUFFICES ASSUME NEW v \in fed \cap admitted', blanks = 0 \/ mounts[v] <= 1
                 PROVE  OthersOf(board, v) \subseteq doc[v] \cup Brought(down'[v])
      BY <1>1, <1>2 DEF FedIsWhole
    <3>1. CASE v = u
      BY <2>4, <2>9, <3>1
    <3>2. CASE v # u
      BY <1>2, <2>8, <3>2 DEF FedIsWhole
    <3> QED BY <3>1, <3>2
  <2>12. ModeComes'
    BY <1>1, <1>2, <2>4, <2>8 DEF ModeComes
  <2> QED BY <1>3, <2>5, <2>6, <2>7, <2>10, <2>11, <2>12 DEF BoardIInv
<1>5. CASE ~(active /\ MayJoin(u))
  <2>1. admitted' = admitted /\ down' = down
    BY <1>5 DEF Admit
  <2>2. Claims'
    BY <1>1, <2>1, NothingIsNew
  <2>3. BoardTyped'
    BY <1>1, <1>2, <2>1 DEF BoardTyped
  <2> QED BY <1>3, <2>2, <2>3 DEF BoardIInv, Claims
<1> QED BY <1>4, <1>5

LEMMA ModeIsSet ==
    ASSUME BoardIInv, NEW i \in DOMAIN setting, SetMode(i) PROVE BoardIInv'
<1>1. /\ setting' = RemoveAt(setting, i)
      /\ board' = board /\ active' = active /\ present' = present
      /\ admitted' = admitted /\ joining' = joining
      /\ up' = up /\ connected' = connected /\ engine' = engine /\ fed' = fed
      /\ mounts' = mounts /\ doc' = doc /\ sent' = sent
      /\ known' = known /\ strokes' = strokes /\ drops' = drops /\ blanks' = blanks
  BY DEF SetMode, picture, bounds
<1>2. BoardTyped /\ EnginesTyped /\ EditsCounted /\ FromBoard /\ FirstKeeps /\ StatesAreWhole
      /\ FedIsWhole /\ ModeComes
  BY DEF BoardIInv
<1>3. setting[i] \in Modes /\ setting' \in Seq(Modes)
  <2>1. setting \in Seq(Modes) /\ i \in 1 .. Len(setting)
    BY <1>2 DEF BoardTyped
  <2>2. /\ SubSeq(setting, 1, i - 1) \in Seq(Modes)
        /\ SubSeq(setting, i + 1, Len(setting)) \in Seq(Modes)
    BY <2>1
  <2> QED BY <1>1, <2>1, <2>2 DEF RemoveAt
<1>4. EnginesTyped'
  BY <1>1, <1>2 DEF EnginesTyped, Whole
<1>5. CASE active
  <2> DEFINE told == [ev |-> "mode", mode |-> setting[i]]
             more == <<told>>
  <2>1. mode' = setting[i] /\ Say(admitted, more)
    BY <1>5 DEF SetMode, ToldOfMode
  <2>2. /\ more \in Seq(ToPanel) /\ Brought(more) = {} /\ \A j \in DOMAIN more : more[j].ev # "state"
        /\ ~NoMode(more) /\ \A j : LastMode(more, j) => more[j].mode = setting[i]
    <3>1. told \in ToPanel /\ told.ev = "mode" /\ told.mode = setting[i] /\ Content(told) = {}
      BY <1>3 DEF ToPanel, Content, Carries
    <3> HIDE DEF told
    <3> QED BY <3>1, OneFrame
  <2> HIDE DEF more
  <2>3. /\ down' \in [Users -> Seq(ToPanel)]
        /\ \A v \in Users : Brought(down'[v]) = Brought(down[v])
        /\ \A v \in admitted :
              /\ \A j \in DOMAIN down'[v] : down'[v][j].ev = "state" =>
                    /\ j \in DOMAIN down[v] /\ down[v][j].ev = "state"
                    /\ BroughtFrom(down'[v], j) = BroughtFrom(down[v], j)
              /\ ~NoMode(down'[v]) /\ \A j : LastMode(down'[v], j) => down'[v][j].mode = setting[i]
    <3>1. admitted \subseteq Users
      BY <1>2 DEF BoardTyped
    <3>2. /\ down' \in [Users -> Seq(ToPanel)]
          /\ \A v \in Users \ admitted : down'[v] = down[v]
          /\ \A v \in Users \cap admitted :
                /\ Brought(down'[v]) = Brought(down[v]) \cup Brought(more)
                /\ \A j \in DOMAIN down[v] :
                      /\ j \in DOMAIN down'[v] /\ down'[v][j] = down[v][j]
                      /\ BroughtFrom(down'[v], j) = BroughtFrom(down[v], j) \cup Brought(more)
                /\ \A j \in DOMAIN down'[v] : j \notin DOMAIN down[v] =>
                      \E k \in DOMAIN more : /\ down'[v][j] = more[k]
                                             /\ BroughtFrom(down'[v], j) = BroughtFrom(more, k)
                /\ NoMode(down'[v]) <=> NoMode(down[v]) /\ NoMode(more)
                /\ \A j : LastMode(down'[v], j) =>
                      \/ NoMode(more) /\ LastMode(down[v], j) /\ down'[v][j] = down[v][j]
                      \/ \E k : LastMode(more, k) /\ down'[v][j] = more[k]
      BY <2>1, <2>2, UsersAreTold
    <3>3. \A v \in Users : Brought(down'[v]) = Brought(down[v])
      BY <2>2, <3>2
    <3>4. ASSUME NEW v \in admitted
          PROVE  /\ \A j \in DOMAIN down'[v] : down'[v][j].ev = "state" =>
                       /\ j \in DOMAIN down[v] /\ down[v][j].ev = "state"
                       /\ BroughtFrom(down'[v], j) = BroughtFrom(down[v], j)
                 /\ ~NoMode(down'[v]) /\ \A j : LastMode(down'[v], j) => down'[v][j].mode = setting[i]
      <4>1. v \in Users \cap admitted
        BY <3>1, <3>4
      <4>2. ASSUME NEW j \in DOMAIN down'[v], down'[v][j].ev = "state"
            PROVE  /\ j \in DOMAIN down[v] /\ down[v][j].ev = "state"
                   /\ BroughtFrom(down'[v], j) = BroughtFrom(down[v], j)
        BY <2>2, <3>2, <4>1, <4>2
      <4>3. ~NoMode(down'[v]) /\ \A j : LastMode(down'[v], j) => down'[v][j].mode = setting[i]
        BY <2>2, <3>2, <4>1
      <4> QED BY <4>2, <4>3
    <3> QED BY <3>2, <3>3, <3>4
  <2>4. BoardTyped'
    BY <1>1, <1>2, <1>3, <2>1, <2>3 DEF BoardTyped
  <2>5. EditsCounted' /\ FromBoard' /\ FirstKeeps'
    BY <1>1, <1>2, <2>3 DEF EditsCounted, Counted, FromBoard, FirstKeeps
  <2>6. StatesAreWhole'
    BY <1>1, <1>2, <2>3 DEF StatesAreWhole
  <2>7. FedIsWhole'
    BY <1>1, <1>2, <2>3 DEF FedIsWhole, BoardTyped
  <2>8. ModeComes'
    BY <1>1, <2>1, <2>3 DEF ModeComes
  <2> QED BY <1>4, <2>4, <2>5, <2>6, <2>7, <2>8 DEF BoardIInv
<1>6. CASE ~active
  <2>1. mode' = mode /\ down' = down
    BY <1>6 DEF SetMode
  <2>2. Claims'
    BY <1>1, <2>1, NothingIsNew
  <2>3. BoardTyped'
    BY <1>1, <1>2, <1>3, <2>1 DEF BoardTyped
  <2> QED BY <1>4, <2>2, <2>3 DEF BoardIInv, Claims
<1> QED BY <1>5, <1>6

LEMMA EditsAreTaken ==
    ASSUME BoardIInv, NEW u \in Users, Update(u) PROVE BoardIInv'
<1> DEFINE new == Head(up[u]).edits
           f == [ev |-> "update", edits |-> new]
           more == <<f>>
<1>1. /\ mode' = mode /\ active' = active /\ present' = present
      /\ admitted' = admitted /\ joining' = joining /\ setting' = setting
      /\ connected' = connected /\ engine' = engine /\ fed' = fed
      /\ mounts' = mounts /\ doc' = doc /\ sent' = sent
      /\ known' = known /\ strokes' = strokes /\ drops' = drops /\ blanks' = blanks
      /\ \/ /\ u \in admitted /\ board' = board \cup new /\ Say(Peers(u), more)
         \/ board' = board /\ down' = down
  BY DEF Update, picture, bounds
<1>2. BoardTyped /\ EnginesTyped /\ EditsCounted /\ FromBoard /\ FirstKeeps /\ StatesAreWhole
      /\ FedIsWhole /\ ModeComes
  BY DEF BoardIInv
<1>3. /\ Head(up[u]) \in ToServer /\ Head(up[u]).ev = "update"
      /\ up' \in [Users -> Seq(ToServer)]
      /\ \A v \in Users : Brought(up'[v]) \subseteq Brought(up[v])
      /\ Brought(up[u]) = (Content(Head(up[u])) \cap Edit) \cup Brought(up'[u])
  BY WhatIsAsked DEF Update
<1>4. new \subseteq Edit /\ new \subseteq Brought(up[u])
  BY <1>3 DEF ToServer, Content, Carries
<1>5. /\ more \in Seq(ToPanel) /\ Brought(more) = new /\ NoMode(more)
      /\ \A j \in DOMAIN more : more[j].ev # "state"
      /\ \A j : ~LastMode(more, j)
  <2>1. f \in ToPanel /\ f.ev = "update" /\ Content(f) \cap Edit = new
    BY <1>4 DEF ToPanel, Content, Carries
  <2> HIDE DEF f
  <2>2. /\ more \in Seq(ToPanel) /\ Brought(more) = new /\ NoMode(more)
        /\ \A j \in DOMAIN more : more[j] = f
    BY <2>1, OneFrame
  <2> HIDE DEF more
  <2> QED BY <2>1, <2>2 DEF NoMode, LastMode
<1> HIDE DEF new, f, more
<1>6. EnginesTyped'
  BY <1>1, <1>2 DEF EnginesTyped, Whole
<1>7. CASE board' = board /\ down' = down
  <2>1. Claims'
    BY <1>1, <1>3, <1>7, NothingIsNew
  <2>2. BoardTyped'
    BY <1>1, <1>2, <1>3, <1>7 DEF BoardTyped
  <2> QED BY <1>6, <2>1, <2>2 DEF BoardIInv, Claims
<1>8. CASE u \in admitted /\ board' = board \cup new /\ Say(Peers(u), more)
  <2>1. /\ down' \in [Users -> Seq(ToPanel)]
        /\ \A v \in Users \ Peers(u) : down'[v] = down[v]
        /\ \A v \in Users \cap Peers(u) :
              /\ Brought(down'[v]) = Brought(down[v]) \cup Brought(more)
              /\ \A j \in DOMAIN down[v] :
                    /\ j \in DOMAIN down'[v] /\ down'[v][j] = down[v][j]
                    /\ BroughtFrom(down'[v], j) = BroughtFrom(down[v], j) \cup Brought(more)
              /\ \A j \in DOMAIN down'[v] : j \notin DOMAIN down[v] =>
                    \E k \in DOMAIN more : /\ down'[v][j] = more[k]
                                           /\ BroughtFrom(down'[v], j) = BroughtFrom(more, k)
              /\ NoMode(down'[v]) <=> NoMode(down[v]) /\ NoMode(more)
              /\ \A j : LastMode(down'[v], j) =>
                    \/ NoMode(more) /\ LastMode(down[v], j) /\ down'[v][j] = down[v][j]
                    \/ \E k : LastMode(more, k) /\ down'[v][j] = more[k]
    BY <1>5, <1>8, UsersAreTold
  <2>2. \A v \in admitted : v \in Users /\ (v = u \/ v \in Users \cap Peers(u))
    BY <1>2 DEF Peers, BoardTyped
  <2>3. down'[u] = down[u]
    BY <2>1 DEF Peers
  <2>4. \A v \in Users : Brought(down'[v]) \subseteq Brought(down[v]) \cup new
    BY <1>5, <2>1
  <2>5. BoardTyped'
    BY <1>1, <1>2, <1>3, <1>4, <1>8, <2>1 DEF BoardTyped
  <2>6. EditsCounted'
    <3>1. \A e : Counted(e) => Counted(e)'
      BY <1>1 DEF Counted
    <3>2. \A e \in new : Counted(e)
      BY <1>2, <1>4 DEF EditsCounted
    <3>3. \A v \in Users : \A e \in doc'[v] \cup Brought(up'[v]) \cup Brought(down'[v]) : Counted(e)
      BY <1>1, <1>2, <1>3, <2>4, <3>2 DEF EditsCounted
    <3> QED BY <1>2, <1>8, <3>1, <3>2, <3>3 DEF EditsCounted
  <2>7. FromBoard'
    <3> SUFFICES ASSUME blanks = 0, NEW v \in Users
                 PROVE  /\ Brought(down'[v]) \subseteq board'
                        /\ OthersOf(doc[v], v) \subseteq board' /\ OthersOf(Brought(up'[v]), v) \subseteq board'
      BY <1>1 DEF FromBoard
    <3>1. /\ Brought(down[v]) \subseteq board
          /\ OthersOf(doc[v], v) \subseteq board /\ OthersOf(Brought(up[v]), v) \subseteq board
      BY <1>2 DEF FromBoard
    <3>2. OthersOf(Brought(up'[v]), v) \subseteq OthersOf(Brought(up[v]), v)
      BY <1>3 DEF OthersOf
    <3>3. board \subseteq board' /\ new \subseteq board'
      BY <1>8
    <3> QED BY <2>4, <3>1, <3>2, <3>3
  <2>8. FirstKeeps'
    BY <1>1, <1>2, <1>3 DEF FirstKeeps
  <2>9. /\ blanks = 0 => OthersOf(board', u) \subseteq OthersOf(board, u)
        /\ mounts[u] <= 1 => OthersOf(board', u) \subseteq OthersOf(board, u) \cup doc[u]
    <3>1. blanks = 0 => \A e \in new : e.by # u => e \in board
      BY <1>2, <1>4 DEF FromBoard, OthersOf
    <3>2. mounts[u] <= 1 => new \subseteq doc[u]
      BY <1>2, <1>4 DEF FirstKeeps
    <3> QED BY <1>8, <3>1, <3>2 DEF OthersOf
  <2>10. \A v : OthersOf(board', v) \subseteq OthersOf(board, v) \cup new
    BY <1>8 DEF OthersOf
  <2>11. StatesAreWhole'
    <3> SUFFICES ASSUME NEW v \in admitted, NEW i \in DOMAIN down'[v], down'[v][i].ev = "state"
                 PROVE  /\ blanks = 0 => OthersOf(board', v) \subseteq BroughtFrom(down'[v], i)
                        /\ mounts[v] <= 1 =>
                              OthersOf(board', v) \subseteq doc[v] \cup BroughtFrom(down'[v], i)
      BY <1>1 DEF StatesAreWhole
    <3>1. CASE v = u
      <4>1. i \in DOMAIN down[u] /\ down[u][i].ev = "state" /\ u \in admitted
        BY <1>8, <2>3, <3>1
      <4>2. /\ blanks = 0 => OthersOf(board, u) \subseteq BroughtFrom(down[u], i)
            /\ mounts[u] <= 1 => OthersOf(board, u) \subseteq doc[u] \cup BroughtFrom(down[u], i)
        BY <1>2, <4>1 DEF StatesAreWhole
      <4> QED BY <2>3, <2>9, <3>1, <4>2
    <3>2. CASE v # u
      <4>1. v \in Users \cap Peers(u)
        BY <2>2, <3>2
      <4>2. /\ i \in DOMAIN down[v] /\ down[v][i].ev = "state"
            /\ BroughtFrom(down'[v], i) = BroughtFrom(down[v], i) \cup new
        BY <1>5, <2>1, <4>1
      <4>3. /\ blanks = 0 => OthersOf(board, v) \subseteq BroughtFrom(down[v], i)
            /\ mounts[v] <= 1 => OthersOf(board, v) \subseteq doc[v] \cup BroughtFrom(down[v], i)
        BY <1>2, <4>2 DEF StatesAreWhole
      <4> QED BY <2>10, <4>2, <4>3
    <3> QED BY <3>1, <3>2
  <2>12. FedIsWhole'
    <3> SUFFICES ASSUME NEW v \in fed \cap admitted, blanks = 0 \/ mounts[v] <= 1
                 PROVE  OthersOf(board', v) \subseteq doc[v] \cup Brought(down'[v])
      BY <1>1, <1>2 DEF FedIsWhole
    <3>1. OthersOf(board, v) \subseteq doc[v] \cup Brought(down[v])
      BY <1>2 DEF FedIsWhole
    <3>2. CASE v = u
      BY <2>3, <2>9, <3>1, <3>2
    <3>3. CASE v # u
      <4>1. Brought(down'[v]) = Brought(down[v]) \cup new
        BY <1>5, <2>1, <2>2, <3>3
      <4> QED BY <2>10, <3>1, <4>1
    <3> QED BY <3>2, <3>3
  <2>13. ModeComes'
    <3> SUFFICES ASSUME blanks = 0, NEW v \in admitted
                 PROVE  /\ NoMode(down'[v]) => known[v] = mode
                        /\ \A i : LastMode(down'[v], i) => down'[v][i].mode = mode
      BY <1>1 DEF ModeComes
    <3>1. /\ NoMode(down[v]) => known[v] = mode
          /\ \A i : LastMode(down[v], i) => down[v][i].mode = mode
      BY <1>2 DEF ModeComes
    <3>2. CASE v = u
      BY <2>3, <3>1, <3>2
    <3>3. CASE v # u
      BY <1>5, <2>1, <2>2, <3>1, <3>3
    <3> QED BY <3>2, <3>3
  <2> QED BY <1>6, <2>5, <2>6, <2>7, <2>8, <2>11, <2>12, <2>13 DEF BoardIInv
<1> QED BY <1>1, <1>7, <1>8

LEMMA FrameIsHeard ==
    ASSUME BoardIInv, NEW u \in Users, Receive(u) PROVE BoardIInv'
<1> DEFINE h == Head(down[u])
<1>1. /\ down[u] # <<>> /\ down' = [down EXCEPT ![u] = Tail(@)]
      /\ IF h.ev = "mode"
         THEN known' = [known EXCEPT ![u] = h.mode] /\ doc' = doc /\ fed' = fed
         ELSE /\ doc' = IF engine[u] = "mounted" THEN [doc EXCEPT ![u] = @ \cup h.edits] ELSE doc
              /\ fed' = IF engine[u] = "mounted" /\ h.ev = "state" THEN fed \cup {u} ELSE fed
              /\ known' = known
      /\ UNCHANGED <<server, up, connected, engine, mounts, sent, bounds>>
  BY DEF Receive
<1>2. /\ board' = board /\ mode' = mode /\ active' = active /\ present' = present
      /\ admitted' = admitted /\ joining' = joining /\ setting' = setting
      /\ up' = up /\ connected' = connected /\ engine' = engine
      /\ mounts' = mounts /\ sent' = sent
      /\ strokes' = strokes /\ drops' = drops /\ blanks' = blanks
  BY <1>1 DEF server, bounds
<1>3. BoardTyped /\ EnginesTyped /\ EditsCounted /\ FromBoard /\ FirstKeeps /\ StatesAreWhole
      /\ FedIsWhole /\ ModeComes
  BY DEF BoardIInv
<1>4. /\ down \in [Users -> Seq(ToPanel)] /\ down[u] \in Seq(ToPanel) /\ Takes(down[u], h, down'[u])
      /\ \A v \in Users : v # u => down'[v] = down[v]
  BY <1>1, <1>3 DEF BoardTyped, Takes
<1> HIDE DEF h
<1>5. /\ down'[u] \in Seq(ToPanel) /\ h \in ToPanel /\ 1 \in DOMAIN down[u] /\ down[u][1] = h
      /\ Brought(down[u]) = (Content(h) \cap Edit) \cup Brought(down'[u])
      /\ Brought(down[u]) = BroughtFrom(down[u], 1)
      /\ \A i \in DOMAIN down'[u] : /\ i + 1 \in DOMAIN down[u] /\ down'[u][i] = down[u][i + 1]
                                    /\ BroughtFrom(down'[u], i) = BroughtFrom(down[u], i + 1)
      /\ h.ev # "mode" => (NoMode(down'[u]) <=> NoMode(down[u]))
      /\ h.ev = "mode" /\ NoMode(down'[u]) => LastMode(down[u], 1)
      /\ \A i : LastMode(down'[u], i) => LastMode(down[u], i + 1) /\ down'[u][i] = down[u][i + 1]
  BY <1>4, WhatTakes
<1>6. /\ down' \in [Users -> Seq(ToPanel)]
      /\ Content(h) \subseteq Edit
      /\ \A v \in Users : Brought(down'[v]) \subseteq Brought(down[v])
      /\ h.ev = "mode" => Content(h) = {} /\ h.mode \in Modes
      /\ h.ev # "mode" => Content(h) = h.edits
  <2>1. down' = [down EXCEPT ![u] = down'[u]]
    BY <1>1, <1>4
  <2>2. down' \in [Users -> Seq(ToPanel)]
    BY <1>4, <1>5, <2>1
  <2>3. /\ Content(h) \subseteq Edit
        /\ h.ev = "mode" => Content(h) = {} /\ h.mode \in Modes
        /\ h.ev # "mode" => Content(h) = h.edits
    BY <1>5 DEF ToPanel, Content, Carries
  <2> QED BY <1>4, <1>5, <2>2, <2>3
<1>7. /\ engine[u] = "mounted" => doc'[u] = doc[u] \cup Content(h)
      /\ engine[u] # "mounted" => doc'[u] = doc[u]
      /\ \A v \in Users : v # u => doc'[v] = doc[v]
      /\ doc' \in [Users -> SUBSET Edit] /\ \A v \in Users : doc[v] \subseteq doc'[v]
  <2>1. doc \in [Users -> SUBSET Edit]
    BY <1>3 DEF EnginesTyped
  <2>2. CASE h.ev # "mode" /\ engine[u] = "mounted"
    <3>1. doc' = [doc EXCEPT ![u] = @ \cup Content(h)]
      BY <1>1, <1>6, <2>2
    <3> QED BY <1>6, <2>1, <2>2, <3>1
  <2>3. CASE h.ev = "mode" \/ engine[u] # "mounted"
    <3>1. doc' = doc
      BY <1>1, <2>3
    <3> QED BY <1>6, <2>1, <2>3, <3>1
  <2> QED BY <2>2, <2>3
<1>8. /\ fed \subseteq fed' /\ fed' \subseteq fed \cup {u}
      /\ u \in fed' => u \in fed \/ (engine[u] = "mounted" /\ h.ev = "state")
  BY <1>1
<1>9. BoardTyped'
  <2>1. known' \in [Users -> Modes]
    BY <1>1, <1>3, <1>6 DEF BoardTyped
  <2> QED BY <1>2, <1>3, <1>6, <1>8, <2>1 DEF BoardTyped
<1>10. EnginesTyped'
  BY <1>2, <1>3, <1>7 DEF EnginesTyped, Whole
<1>11. Content(h) \subseteq Brought(down[u])
  BY <1>5, <1>6
<1>12. EditsCounted'
  <2>1. \A v \in Users : \A e \in doc'[v] : e \in doc[v] \/ e \in Brought(down[v])
    BY <1>7, <1>11
  <2> QED BY <1>2, <1>3, <1>6, <2>1 DEF EditsCounted, Counted
<1>13. FromBoard'
  <2> SUFFICES ASSUME blanks = 0, NEW v \in Users
               PROVE  /\ Brought(down'[v]) \subseteq board
                      /\ OthersOf(doc'[v], v) \subseteq board /\ OthersOf(Brought(up[v]), v) \subseteq board
    BY <1>2 DEF FromBoard
  <2>1. /\ Brought(down[v]) \subseteq board
        /\ OthersOf(doc[v], v) \subseteq board /\ OthersOf(Brought(up[v]), v) \subseteq board
    BY <1>3 DEF FromBoard
  <2>2. \A e \in doc'[v] : e \in doc[v] \/ e \in Brought(down[v])
    BY <1>7, <1>11
  <2>3. OthersOf(doc'[v], v) \subseteq board
    BY <2>1, <2>2 DEF OthersOf
  <2> QED BY <1>6, <2>1, <2>3
<1>14. FirstKeeps'
  <2>1. \A v \in Users : mounts[v] = 0 => doc'[v] = doc[v]
    BY <1>3, <1>7 DEF EnginesTyped
  <2> QED BY <1>2, <1>3, <1>7, <2>1 DEF FirstKeeps
<1>15. StatesAreWhole'
  <2> SUFFICES ASSUME NEW v \in admitted, NEW i \in DOMAIN down'[v], down'[v][i].ev = "state"
               PROVE  /\ blanks = 0 => OthersOf(board, v) \subseteq BroughtFrom(down'[v], i)
                      /\ mounts[v] <= 1 =>
                            OthersOf(board, v) \subseteq doc'[v] \cup BroughtFrom(down'[v], i)
    BY <1>2 DEF StatesAreWhole
  <2>1. v \in Users
    BY <1>3 DEF BoardTyped
  <2>2. PICK k \in DOMAIN down[v] : /\ down[v][k] = down'[v][i]
                                    /\ BroughtFrom(down'[v], i) = BroughtFrom(down[v], k)
    <3>1. CASE v = u
      BY <1>5, <3>1
    <3>2. CASE v # u
      BY <1>4, <2>1, <3>2
    <3> QED BY <3>1, <3>2
  <2>3. /\ blanks = 0 => OthersOf(board, v) \subseteq BroughtFrom(down[v], k)
        /\ mounts[v] <= 1 => OthersOf(board, v) \subseteq doc[v] \cup BroughtFrom(down[v], k)
    BY <1>3, <2>2 DEF StatesAreWhole
  <2> QED BY <1>7, <2>1, <2>2, <2>3
<1>16. FedIsWhole'
  <2>1. \A v \in fed' : engine[v] = "mounted"
    BY <1>3, <1>8 DEF FedIsWhole
  <2> SUFFICES ASSUME NEW v \in fed', v \in admitted, blanks = 0 \/ mounts[v] <= 1
               PROVE  OthersOf(board, v) \subseteq doc'[v] \cup Brought(down'[v])
    BY <1>2, <2>1 DEF FedIsWhole
  <2>2. v \in Users
    BY <1>3 DEF BoardTyped
  <2>3. OthersOf(board, v) \subseteq doc[v] \cup Brought(down[v])
    <3>1. CASE v \in fed
      BY <1>3, <3>1 DEF FedIsWhole
    <3>2. CASE v \notin fed
      <4>1. v = u /\ h.ev = "state"
        BY <1>8, <3>2
      <4>2. /\ blanks = 0 => OthersOf(board, v) \subseteq BroughtFrom(down[v], 1)
            /\ mounts[v] <= 1 => OthersOf(board, v) \subseteq doc[v] \cup BroughtFrom(down[v], 1)
        BY <1>3, <1>5, <4>1 DEF StatesAreWhole
      <4> QED BY <1>5, <4>1, <4>2
    <3> QED BY <3>1, <3>2
  <2>4. doc[v] \cup Brought(down[v]) \subseteq doc'[v] \cup Brought(down'[v])
    <3>1. CASE v = u
      BY <1>5, <1>7, <2>1, <3>1
    <3>2. CASE v # u
      BY <1>4, <1>7, <2>2, <3>2
    <3> QED BY <3>1, <3>2
  <2> QED BY <2>3, <2>4
<1>17. ModeComes'
  <2> SUFFICES ASSUME blanks = 0, NEW v \in admitted
               PROVE  /\ NoMode(down'[v]) => known'[v] = mode
                      /\ \A i : LastMode(down'[v], i) => down'[v][i].mode = mode
    BY <1>2 DEF ModeComes
  <2>1. /\ NoMode(down[v]) => known[v] = mode
        /\ \A i : LastMode(down[v], i) => down[v][i].mode = mode
        /\ v \in Users
    BY <1>3 DEF ModeComes, BoardTyped
  <2>2. CASE v # u
    <3>1. known'[v] = known[v]
      BY <1>1, <1>3, <2>1, <2>2 DEF BoardTyped
    <3> QED BY <1>4, <2>1, <2>2, <3>1
  <2>3. CASE v = u /\ h.ev # "mode"
    <3>1. known'[v] = known[v]
      BY <1>1, <2>3
    <3> QED BY <1>5, <2>1, <2>3, <3>1
  <2>4. CASE v = u /\ h.ev = "mode"
    <3>1. known'[u] = h.mode
      BY <1>1, <1>3, <2>4 DEF BoardTyped
    <3>2. NoMode(down'[u]) => h.mode = mode
      BY <1>5, <2>1, <2>4
    <3>3. \A i : LastMode(down'[u], i) => down'[u][i].mode = mode
      BY <1>5, <2>1, <2>4
    <3> QED BY <2>4, <3>1, <3>2, <3>3
  <2> QED BY <2>2, <2>3, <2>4
<1> QED BY <1>9, <1>10, <1>12, <1>13, <1>14, <1>15, <1>16, <1>17 DEF BoardIInv

-----------------------------------------------------------------------------

LEMMA BoardInductive == BoardIInv /\ [BoardNext]_boardVars => BoardIInv'
<1> SUFFICES ASSUME BoardIInv, [BoardNext]_boardVars PROVE BoardIInv'
  OBVIOUS
<1>1. ASSUME NEW u \in Users,
             ConnectPanel(u) \/ Drop(u) \/ Mount(u) \/ Remount(u) \/ Draw(u) \/ Receive(u)
      PROVE  BoardIInv'
  BY <1>1, PanelConnects, PanelDrops, EngineIsMounted, EngineIsReplaced, StrokeIsDrawn, FrameIsHeard
<1>2. ASSUME NEW m \in {"owner", "open"}, Toggle(m) PROVE BoardIInv'
  BY <1>2, ModeIsToggled DEF Modes
<1>3. ASSUME NEW u \in Users, AskJoin(u) \/ Admit(u) \/ Update(u) \/ Return(u) PROVE BoardIInv'
  BY <1>3, JoinIsAsked, UserIsAdmitted, EditsAreTaken, SeatIsTaken
<1>4. CASE AskMode
  BY <1>4, ModeIsAsked
<1>5. ASSUME NEW i \in DOMAIN setting, SetMode(i) PROVE BoardIInv'
  BY <1>5, ModeIsSet
<1>6. ASSUME NEW ends \in BOOLEAN, RoomCloses(ends) PROVE BoardIInv'
  BY <1>6, BoardIsDropped
<1>7. CASE Restart
  BY <1>7, ServerRestarts
<1>8. CASE UNCHANGED boardVars
  <2>1. /\ UNCHANGED <<board, mode, active, present, admitted, joining, setting>>
        /\ UNCHANGED <<up, down, connected>> /\ UNCHANGED <<engine, mounts, doc, sent, fed>>
        /\ UNCHANGED known /\ UNCHANGED <<strokes, drops, blanks, toggles>>
    BY <1>8 DEF boardVars, server, net, picture, bounds
  <2>2. Claims'
    BY <2>1, NothingIsNew
  <2>3. BoardTyped' /\ EnginesTyped'
    BY <2>1 DEF BoardIInv, BoardTyped, EnginesTyped, Whole
  <2> QED BY <2>2, <2>3 DEF BoardIInv, Claims
<1> QED BY <1>1, <1>2, <1>3, <1>4, <1>5, <1>6, <1>7, <1>8 DEF BoardNext

LEMMA BoardImplied == BoardIInv => BoardInv
<1> SUFFICES ASSUME BoardIInv PROVE BoardInv
  OBVIOUS
<1>1. BoardTyped /\ EnginesTyped /\ FedIsWhole /\ ModeComes
  BY DEF BoardIInv
<1>2. BoardOK
  BY <1>1 DEF BoardTyped, EnginesTyped, BoardOK, Modes
<1>3. ASSUME NEW u \in fed, Quiet(u), blanks = 0 \/ mounts[u] = 1 PROVE Complete(u)
  <2>1. mounts[u] \in Nat /\ u \in admitted /\ down[u] = <<>> /\ u \in Users
    BY <1>1, <1>3, BoundsAreNat DEF Quiet, BoardTyped, EnginesTyped
  <2>2. OthersOf(board, u) \subseteq doc[u] \cup Brought(down[u])
    BY <1>1, <1>3, <2>1 DEF FedIsWhole
  <2> QED BY <2>1, <2>2, NoFrames DEF Complete, OthersOf
<1>4. ASSUME NEW u \in Users, Quiet(u), blanks = 0 PROVE known[u] = mode
  BY <1>1, <1>4, NoFrames DEF Quiet, ModeComes
<1> QED BY <1>2, <1>3, <1>4 DEF BoardInv, RoomIsShown, ModeIsKnown

\* Whoever has had the state of the board sees all that the others have drawn
\* once things are quiet, whatever was drawn while it joined or was away, and
\* everyone knows whether the board may be drawn on (handleJoin and
\* handleUpdate of whiteboard.gateway.ts, the transport and the binding).
THEOREM BoardIsAlwaysShown == BoardSpec => []BoardInv
<1>1. BoardSpec => []BoardIInv
  BY BoardInitially, BoardInductive, PTL DEF BoardSpec
<1> QED BY <1>1, BoardImplied, PTL

-----------------------------------------------------------------------------
(***************************************************************************)
(* Proof, for any number of chatters, tabs, requests and messages, of what *)
(* RoomLifeInv says: what a chatter is owed is listed or on the way, and a *)
(* pending request is before the tab it was sent to.  What is owed was     *)
(* announced, so it never depends on the pages, which a refetch replaces.  *)
(***************************************************************************)

Sends ==
    [kind : {"send"}, by : Chatters, at : {"asked", "checked", "saved"}, alive : BOOLEAN, msg : Nat]
Readings == [kind : {"history"}, by : Chatters, at : {"asked"}, alive : BOOLEAN]
Answers ==
    [kind : {"history"}, by : Chatters, at : {"read"}, alive : BOOLEAN, page : Seq(Nat), more : BOOLEAN]
Frames == [ev : {"message"}, msg : Nat] \cup [ev : {"page"}, page : Seq(Nat), more : BOOLEAN]
Verdicts == {"approved", "denied"}

RoomTyped ==
    /\ owned \in BOOLEAN /\ room \in {"active", "ended", "gone"}
    /\ endedAt \in {"none", "fresh", "old"}
    /\ messages \in Seq(Nat) /\ acts \in Nat
    /\ ending \in [OwnerTabs -> [at : {"idle", "read", "closing"}, seen : Seq(Nat)]]
    /\ seated \subseteq OwnerTabs /\ (seated # {} => owned)

ChatTyped ==
    /\ online \subseteq Chatters /\ ops \subseteq Sends \cup Readings \cup Answers
    /\ inbox \in [Chatters -> Seq(Frames)] /\ heard \in [Chatters -> Seq(Nat)]
    /\ pages \in [Chatters -> Seq(Seq(Nat))] /\ hasMore \in [Chatters -> BOOLEAN]
    /\ fetch \in [Chatters -> [got : Seq(Seq(Nat)), want : Nat]]
    /\ owed \in [Chatters -> SUBSET Nat]

\* Who is gone has no handler that would answer, no seat in the channel and
\* nothing on the way; a fetch wants more than it has.
ChatInOrder ==
    /\ \A o \in ops : o.alive \/ o.kind = "history" => o.by \in online
    /\ served \subseteq inChannel /\ inChannel \subseteq online
    /\ \A c \in Chatters : c \notin online => inbox[c] = <<>>
    /\ \A c \in Chatters : Len(fetch[c].got) < fetch[c].want \/ fetch[c] = NoFetch

\* What is owed was heard or is on the way: it does not take the pages.
OwedIsHeard == \A c \in Chatters : owed[c] \subseteq ToSet(heard[c]) \cup OnTheWay(c)

GuestTyped ==
    /\ requests \in [Requests -> {"none", "pending"} \cup Verdicts]
    /\ askedOf \in [Requests -> seated \cup {0}]
    /\ queue \in [OwnerTabs -> SUBSET Requests]
    /\ deciding \subseteq [tab : OwnerTabs, of : Requests, verdict : Verdicts]
    /\ asks \in [Requests -> {"unmade", "checked", "refused", "made", "over"}]
    /\ guest \in {"idle", "waiting", "denied", "error"} /\ polling \in Requests \cup {0}
    /\ inside \in BOOLEAN
    /\ guest = "waiting" => inside \/ polling # 0

LifeIInv == RoomTyped /\ ChatTyped /\ ChatInOrder /\ OwedIsHeard /\ GuestTyped /\ PendingIsAsked

-----------------------------------------------------------------------------
(* Frames on the way.                                                      *)

\* The messages among the frames of a sequence.
MessagesOf(s) == {f.msg : f \in {g \in ToSet(s) : g.ev = "message"}}

LEMMA OnTheWayIsMessages == \A c : OnTheWay(c) = MessagesOf(inbox[c])
BY DEF OnTheWay, MessagesOf

LEMMA AppendedFrame ==
    ASSUME NEW s \in Seq(Frames), NEW f \in Frames
    PROVE  /\ Append(s, f) \in Seq(Frames)
           /\ MessagesOf(s) \subseteq MessagesOf(Append(s, f))
           /\ f.ev = "message" => f.msg \in MessagesOf(Append(s, f))
<1> DEFINE t == Append(s, f)
<1>1. /\ t \in Seq(Frames) /\ Len(t) = Len(s) + 1 /\ t[Len(s) + 1] = f
      /\ \A i \in 1 .. Len(s) : t[i] = s[i]
  OBVIOUS
<1>2. ToSet(s) \subseteq ToSet(t) /\ f \in ToSet(t)
  BY <1>1 DEF ToSet
<1> HIDE DEF t
<1> QED BY <1>1, <1>2 DEF MessagesOf, t

\* A frame is taken from the front.
LEMMA TakenFrame ==
    ASSUME NEW s \in Seq(Frames), s # <<>>
    PROVE  /\ Tail(s) \in Seq(Frames) /\ Head(s) \in Frames
           /\ ToSet(s) \subseteq {Head(s)} \cup ToSet(Tail(s))
<1>1. Tail(s) \in Seq(Frames) /\ Head(s) \in Frames /\ Head(s) = s[1] /\ Len(s) \in Nat /\ Len(s) > 0
      /\ Len(Tail(s)) = Len(s) - 1 /\ \A i \in 1 .. Len(s) - 1 : Tail(s)[i] = s[i + 1]
  OBVIOUS
<1>2. ASSUME NEW i \in DOMAIN s PROVE s[i] \in {Head(s)} \cup ToSet(Tail(s))
  <2>1. i \in 1 .. Len(s)
    OBVIOUS
  <2>2. CASE i = 1
    BY <2>2, <1>1
  <2>3. CASE i # 1
    <3>1. i - 1 \in DOMAIN Tail(s) /\ Tail(s)[i - 1] = s[i]
      BY <1>1, <2>1, <2>3
    <3> QED BY <3>1 DEF ToSet
  <2> QED BY <2>2, <2>3
<1> QED BY <1>1, <1>2 DEF ToSet

LEMMA NaturalsHaveLeast ==
    ASSUME NEW S \in SUBSET Nat, S # {} PROVE \E x \in S : \A y \in S : x <= y
<1>1. PICK x \in S : \A y \in S : ~(<<y, x>> \in OpToRel(<, Nat))
  BY NatLessThanWellFounded, WFMin
<1>2. \A y \in S : ~(y < x)
  BY <1>1 DEF OpToRel
<1> QED BY <1>2

\* An answer that is taken out leaves the messages.
LEMMA AnswerRemoved ==
    ASSUME NEW s \in Seq(Frames)
    PROVE  /\ RemoveFirstMatch(s, IsAnswer) \in Seq(Frames)
           /\ MessagesOf(s) \subseteq MessagesOf(RemoveFirstMatch(s, IsAnswer))
<1> DEFINE answers == {i \in 1 .. Len(s) : IsAnswer(s[i])}
<1>0. Len(s) \in Nat /\ \A i \in 1 .. Len(s) : s[i] \in Frames
  OBVIOUS
<1>1. CASE answers = {}
  <2>1. RemoveFirstMatch(s, IsAnswer) = s
    BY <1>1 DEF RemoveFirstMatch
  <2> QED BY <2>1
<1>2. CASE answers # {}
  <2> DEFINE k == CHOOSE i \in answers : \A j \in answers : i <= j
             t == SubSeq(s, 1, k - 1) \o SubSeq(s, k + 1, Len(s))
  <2>1. \E i \in answers : \A j \in answers : i <= j
    <3>1. answers \in SUBSET Nat
      OBVIOUS
    <3> HIDE DEF answers
    <3> QED BY <1>2, <3>1, NaturalsHaveLeast
  <2>2. k \in 1 .. Len(s) /\ IsAnswer(s[k])
    BY <2>1
  <2>3. RemoveFirstMatch(s, IsAnswer) = t
    <3>1. SelectInSeq(s, IsAnswer) = k
      BY <1>2 DEF SelectInSeq, Min
    <3> QED BY <1>2, <3>1 DEF RemoveFirstMatch, RemoveAt
  <2> HIDE DEF k, answers
  <2>4. /\ t \in Seq(Frames) /\ Len(t) = Len(s) - 1
        /\ \A i \in 1 .. k - 1 : t[i] = s[i]
        /\ \A i \in k .. Len(s) - 1 : t[i] = s[i + 1]
    <3> DEFINE u == SubSeq(s, 1, k - 1)
               v == SubSeq(s, k + 1, Len(s))
    <3>1. /\ u \in Seq(Frames) /\ Len(u) = k - 1
          /\ \A i \in 1 .. k - 1 : u[i] = s[i]
      BY <1>0, <2>2, SubSeqProperties
    <3>2. /\ v \in Seq(Frames) /\ Len(v) = Len(s) - k
          /\ \A i \in 1 .. Len(s) - k : v[i] = s[k + i]
      BY <1>0, <2>2
    <3> HIDE DEF u, v
    <3>3. /\ u \o v \in Seq(Frames) /\ Len(u \o v) = Len(u) + Len(v)
          /\ \A i \in 1 .. Len(u) + Len(v) :
                (u \o v)[i] = IF i <= Len(u) THEN u[i] ELSE v[i - Len(u)]
      BY <3>1, <3>2, ConcatProperties
    <3>4. ASSUME NEW i \in k .. Len(s) - 1 PROVE (u \o v)[i] = s[i + 1]
      <4>1. /\ i \in 1 .. Len(u) + Len(v) /\ ~(i <= Len(u))
            /\ i - Len(u) \in 1 .. Len(s) - k /\ k + (i - Len(u)) = i + 1
        BY <1>0, <2>2, <3>1, <3>2, <3>4
      <4> QED BY <3>2, <3>3, <4>1
    <3>5. t = u \o v
      BY DEF u, v
    <3> HIDE DEF t
    <3> QED BY <1>0, <2>2, <3>1, <3>2, <3>3, <3>4, <3>5
  <2> HIDE DEF t
  <2>5. ASSUME NEW g \in ToSet(s), g.ev = "message" PROVE g \in ToSet(t)
    <3>1. PICK i \in 1 .. Len(s) : g = s[i]
      BY <1>0, <2>5 DEF ToSet
    <3>2. i # k
      BY <2>2, <2>5, <3>1 DEF IsAnswer
    <3>3. CASE i < k
      <4>1. i \in DOMAIN t /\ t[i] = g
        BY <1>0, <2>2, <2>4, <3>1, <3>3
      <4> QED BY <4>1 DEF ToSet
    <3>4. CASE i > k
      <4>1. i - 1 \in DOMAIN t /\ t[i - 1] = g
        <5>1. i - 1 \in k .. Len(s) - 1 /\ (i - 1) + 1 = i /\ i - 1 \in 1 .. Len(t)
          BY <1>0, <2>2, <2>4, <3>1, <3>4
        <5> QED BY <2>4, <3>1, <5>1
      <4> QED BY <4>1 DEF ToSet
    <3> QED BY <1>0, <2>2, <3>1, <3>2, <3>3, <3>4
  <2> QED BY <2>3, <2>4, <2>5 DEF MessagesOf
<1> QED BY <1>1, <1>2

-----------------------------------------------------------------------------
(* What each part does to the others.                                      *)

LEMMA LifeInitially == Init => LifeIInv
<1> SUFFICES ASSUME Init PROVE LifeIInv
  OBVIOUS
<1> USE DEF Init, RoomsInit, ChatInit, GuestInit
<1>1. RoomTyped
  BY DEF RoomTyped, NoEnd
<1>2. ChatTyped
  BY DEF ChatTyped, NoFetch
<1>3. ChatInOrder /\ OwedIsHeard
  BY DEF ChatInOrder, OwedIsHeard
<1>4. GuestTyped
  BY AskBoundsAreNat DEF GuestTyped, Requests
<1>5. PendingIsAsked
  BY DEF PendingIsAsked
<1> QED BY <1>1, <1>2, <1>3, <1>4, <1>5 DEF LifeIInv

LEMMA ChatRests ==
    ASSUME ChatTyped, ChatInOrder, OwedIsHeard, UNCHANGED chatVars
    PROVE  ChatTyped' /\ ChatInOrder' /\ OwedIsHeard'
<1>1. ChatTyped'
  BY DEF ChatTyped, chatVars, Sends, Readings, Answers, Frames
<1>2. ChatInOrder'
  BY DEF ChatInOrder, chatVars
<1>3. OwedIsHeard'
  BY DEF OwedIsHeard, OnTheWay, chatVars, ToSet
<1> QED BY <1>1, <1>2, <1>3

\* The requests stay asked as long as a room that is gone stays gone.
LEMMA GuestRests ==
    ASSUME GuestTyped, PendingIsAsked, UNCHANGED <<guestVars, seated>>, room' # "gone" => room # "gone"
    PROVE  GuestTyped' /\ PendingIsAsked'
<1>1. GuestTyped'
  BY DEF GuestTyped, guestVars, serverSide, ownerSide, guestSide, Requests
<1>2. PendingIsAsked'
  BY DEF PendingIsAsked, guestVars, serverSide, ownerSide, guestSide, Requests
<1> QED BY <1>1, <1>2

LEMMA RoomStepPreserves ==
    ASSUME LifeIInv, RoomsNext, UNCHANGED <<chatVars, guestVars>> PROVE LifeIInv'
<1>0. RoomTyped /\ ChatTyped /\ ChatInOrder /\ OwedIsHeard /\ GuestTyped /\ PendingIsAsked
  BY DEF LifeIInv
<1>1. RoomTyped' /\ UNCHANGED seated /\ (room' # "gone" => room # "gone")
  <2> USE DEF RoomTyped, rows
  <2>1. ASSUME NEW t \in OwnerTabs, ReadRoom(t)
        PROVE  RoomTyped' /\ UNCHANGED seated /\ (room' # "gone" => room # "gone")
    BY <1>0, <2>1, MaxActsIsNat DEF ReadRoom, Act, NoEnd
  <2>2. ASSUME NEW t \in OwnerTabs, EndRoom(t)
        PROVE  RoomTyped' /\ UNCHANGED seated /\ (room' # "gone" => room # "gone")
    BY <1>0, <2>2 DEF EndRoom
  <2>3. ASSUME NEW t \in OwnerTabs, EndFails(t)
        PROVE  RoomTyped' /\ UNCHANGED seated /\ (room' # "gone" => room # "gone")
    BY <1>0, <2>3 DEF EndFails, NoEnd
  <2>4. ASSUME NEW s \in {"active", "ended"}, Patch(s)
        PROVE  RoomTyped' /\ UNCHANGED seated /\ (room' # "gone" => room # "gone")
    BY <1>0, <2>4, MaxActsIsNat DEF Patch, Act
  <2>5. CASE DeleteRecord
    BY <1>0, <2>5, MaxActsIsNat DEF DeleteRecord, Act
  <2>6. CASE Hour
    BY <1>0, <2>6 DEF Hour
  <2>7. CASE CleanUp
    BY <1>0, <2>7 DEF CleanUp
  <2> QED BY <2>1, <2>2, <2>3, <2>4, <2>5, <2>6, <2>7 DEF RoomsNext
<1>2. ChatTyped' /\ ChatInOrder' /\ OwedIsHeard'
  BY <1>0, ChatRests
<1>3. GuestTyped' /\ PendingIsAsked'
  BY <1>0, <1>1, GuestRests
<1> QED BY <1>1, <1>2, <1>3 DEF LifeIInv

-----------------------------------------------------------------------------
(* The chat.                                                               *)

ChatIInv == ChatTyped /\ ChatInOrder /\ OwedIsHeard

\* The chat's steps leave the room as it is, apart from a message created.
RoomKept ==
    /\ UNCHANGED <<owned, room, endedAt, ending, seated>>
    /\ messages' \in Seq(Nat) /\ acts' \in Nat

\* What was owed stays heard or on the way where nothing is heard or owed anew.
LEMMA StillHeard ==
    ASSUME OwedIsHeard, UNCHANGED <<heard, owed>>,
           \A c \in Chatters : MessagesOf(inbox[c]) \subseteq MessagesOf(inbox'[c])
    PROVE  OwedIsHeard'
<1>1. ASSUME NEW c \in Chatters
      PROVE  owed'[c] \subseteq ToSet(heard'[c]) \cup MessagesOf(inbox'[c])
  BY OnTheWayIsMessages DEF OwedIsHeard
<1>2. \A c : OnTheWay(c)' = MessagesOf(inbox'[c])
  BY DEF OnTheWay, MessagesOf
<1> HIDE DEF OwedIsHeard
<1> QED BY <1>1, <1>2 DEF OwedIsHeard

LEMMA ConnectPreserves ==
    ASSUME RoomTyped, ChatIInv, NEW c \in Chatters, ConnectChat(c)
    PROVE  RoomKept /\ ChatIInv'
<1>0. ChatTyped /\ ChatInOrder /\ OwedIsHeard
  BY DEF ChatIInv
<1>1. RoomKept
  BY DEF RoomTyped, RoomKept, ConnectChat, roomVars, rows
<1> DEFINE wanted == Larger(1, Len(pages[c]))
           asked == [got |-> <<>>, want |-> wanted]
<1>2. wanted \in Nat /\ wanted > 0 /\ asked \in [got : Seq(Seq(Nat)), want : Nat]
      /\ Len(asked.got) < asked.want
  BY <1>0 DEF ChatTyped, Larger
<1>3. AskHistory(c) \in Readings /\ AskHistory(c).by = c
  BY DEF AskHistory, Readings
<1>4. \/ fetch' = fetch /\ ops' = ops
      \/ fetch' = [fetch EXCEPT ![c] = asked] /\ ops' = ops \cup {AskHistory(c)}
  BY DEF ConnectChat
<1> HIDE DEF asked
<1>5. ChatTyped'
  <2>1. ops' \subseteq Sends \cup Readings \cup Answers
    BY <1>0, <1>3, <1>4 DEF ChatTyped
  <2>2. fetch' \in [Chatters -> [got : Seq(Seq(Nat)), want : Nat]]
    BY <1>0, <1>2, <1>4 DEF ChatTyped
  <2> QED BY <1>0, <2>1, <2>2 DEF ChatTyped, ConnectChat
<1>6. ChatInOrder'
  <2>1. \A o \in ops' : o.alive \/ o.kind = "history" => o.by \in online'
    BY <1>0, <1>3, <1>4 DEF ChatInOrder, ConnectChat
  <2>2. \A d \in Chatters : Len(fetch'[d].got) < fetch'[d].want \/ fetch'[d] = NoFetch
    BY <1>0, <1>2, <1>4 DEF ChatInOrder, ChatTyped
  <2> QED BY <1>0, <2>1, <2>2 DEF ChatInOrder, ConnectChat
<1>7. OwedIsHeard'
  BY <1>0, StillHeard DEF ConnectChat
<1> QED BY <1>1, <1>5, <1>6, <1>7 DEF ChatIInv

LEMMA DropPreserves ==
    ASSUME RoomTyped, ChatIInv, NEW c \in Chatters, DropChat(c)
    PROVE  RoomKept /\ ChatIInv'
<1>0. ChatTyped /\ ChatInOrder /\ OwedIsHeard
  BY DEF ChatIInv
<1>1. RoomKept
  BY MaxActsIsNat DEF RoomTyped, RoomKept, DropChat, rows, Act
<1>2. \A o \in ops' : \/ o \in ops /\ o.by # c
                      \/ \E p \in ops : p.by = c /\ p.kind = "send" /\ o = [p EXCEPT !.alive = FALSE]
  BY DEF DropChat
<1>3. ChatTyped'
  <2>1. \A p \in ops : p.kind = "send" => [p EXCEPT !.alive = FALSE] \in Sends
    BY <1>0 DEF ChatTyped, Sends, Readings, Answers
  <2>2. ops' \subseteq Sends \cup Readings \cup Answers
    BY <1>0, <1>2, <2>1 DEF ChatTyped
  <2>3. inbox' \in [Chatters -> Seq(Frames)]
    BY <1>0 DEF ChatTyped, DropChat
  <2> QED BY <1>0, <2>2, <2>3 DEF ChatTyped, DropChat
<1>4. ChatInOrder'
  <2>1. ASSUME NEW o \in ops', o.alive \/ o.kind = "history" PROVE o.by \in online'
    <3>1. CASE o \in ops /\ o.by # c
      BY <1>0, <2>1, <3>1 DEF ChatInOrder, DropChat
    <3>2. ASSUME NEW p \in ops, p.by = c, p.kind = "send", o = [p EXCEPT !.alive = FALSE]
          PROVE  FALSE
      <4>1. p \in Sends
        BY <1>0, <3>2 DEF ChatTyped, Sends, Readings, Answers
      <4>2. o.alive = FALSE /\ o.kind = "send"
        BY <3>2, <4>1 DEF Sends
      <4> QED BY <2>1, <4>2
    <3> QED BY <1>2, <3>1, <3>2
  <2>2. served' \subseteq inChannel' /\ inChannel' \subseteq online'
    BY <1>0 DEF ChatInOrder, DropChat
  <2>3. \A d \in Chatters : d \notin online' => inbox'[d] = <<>>
    BY <1>0 DEF ChatInOrder, ChatTyped, DropChat
  <2>4. \A d \in Chatters : Len(fetch'[d].got) < fetch'[d].want \/ fetch'[d] = NoFetch
    BY <1>0 DEF ChatInOrder, DropChat
  <2> QED BY <2>1, <2>2, <2>3, <2>4 DEF ChatInOrder
<1>5. OwedIsHeard'
  BY <1>0 DEF OwedIsHeard, DropChat, ChatTyped, OnTheWay
<1> QED BY <1>1, <1>3, <1>4, <1>5 DEF ChatIInv

LEMMA SendPreserves ==
    ASSUME RoomTyped, ChatIInv, NEW c \in Chatters, SendMessage(c)
    PROVE  RoomKept /\ ChatIInv'
<1>0. ChatTyped /\ ChatInOrder /\ OwedIsHeard
  BY DEF ChatIInv
<1> DEFINE o == [kind |-> "send", by |-> c, at |-> "asked", alive |-> TRUE, msg |-> acts]
<1>1. RoomKept
  BY MaxActsIsNat DEF RoomTyped, RoomKept, SendMessage, rows, Act
<1>2. o \in Sends /\ o.by = c /\ ops' = ops \cup {o}
  BY DEF RoomTyped, Sends, SendMessage
<1> HIDE DEF o
<1>3. ChatTyped'
  BY <1>0, <1>2 DEF ChatTyped, SendMessage
<1>4. ChatInOrder'
  BY <1>0, <1>2 DEF ChatInOrder, SendMessage
<1>5. OwedIsHeard'
  BY <1>0, StillHeard DEF SendMessage
<1> QED BY <1>1, <1>3, <1>4, <1>5 DEF ChatIInv

LEMMA LoadPreserves ==
    ASSUME RoomTyped, ChatIInv, NEW c \in Chatters, LoadMore(c)
    PROVE  RoomKept /\ ChatIInv'
<1>0. ChatTyped /\ ChatInOrder /\ OwedIsHeard
  BY DEF ChatIInv
<1>1. RoomKept
  BY MaxActsIsNat DEF RoomTyped, RoomKept, LoadMore, rows, Act
<1>2. ASSUME NEW o \in ops'
      PROVE  \/ o \in ops
             \/ o = AskHistory(c)
             \/ \E p \in ops : p.by = c /\ p.kind = "history" /\ o = [p EXCEPT !.alive = FALSE]
  BY <1>2 DEF LoadMore
<1>3. \A p \in ops : p.kind = "history" => /\ [p EXCEPT !.alive = FALSE] \in Readings \cup Answers
                                           /\ [p EXCEPT !.alive = FALSE].by = p.by
  BY <1>0 DEF ChatTyped, Sends, Readings, Answers
<1>4. AskHistory(c) \in Readings /\ AskHistory(c).by = c /\ c \in online
  BY DEF AskHistory, Readings, LoadMore
<1>5. RemoveFirstMatch(inbox[c], IsAnswer) \in Seq(Frames)
      /\ MessagesOf(inbox[c]) \subseteq MessagesOf(RemoveFirstMatch(inbox[c], IsAnswer))
  BY <1>0, AnswerRemoved DEF ChatTyped
<1>6. inbox' = [inbox EXCEPT ![c] = RemoveFirstMatch(inbox[c], IsAnswer)]
  BY DEF LoadMore
<1>7. ChatTyped'
  <2>1. ASSUME NEW o \in ops' PROVE o \in Sends \cup Readings \cup Answers
    <3>1. CASE o \in ops
      BY <1>0, <3>1 DEF ChatTyped
    <3>2. CASE o \notin ops
      BY <1>2, <1>3, <1>4, <3>2
    <3> QED BY <3>1, <3>2
  <2>2. inbox' \in [Chatters -> Seq(Frames)]
    BY <1>0, <1>5, <1>6 DEF ChatTyped
  <2>3. fetch' \in [Chatters -> [got : Seq(Seq(Nat)), want : Nat]]
    <3>1. pages[c] \in Seq(Seq(Nat)) /\ Len(pages[c]) + 1 \in Nat
      BY <1>0 DEF ChatTyped
    <3> QED BY <1>0, <3>1 DEF ChatTyped, LoadMore
  <2> QED BY <1>0, <2>1, <2>2, <2>3 DEF ChatTyped, LoadMore
<1>8. ChatInOrder'
  <2>1. ASSUME NEW o \in ops', o.alive \/ o.kind = "history" PROVE o.by \in online'
    <3>1. UNCHANGED online
      BY DEF LoadMore
    <3>2. CASE o \in ops
      BY <1>0, <2>1, <3>1, <3>2 DEF ChatInOrder
    <3>3. CASE o \notin ops
      BY <1>2, <1>3, <1>4, <3>1, <3>3
    <3> QED BY <3>2, <3>3
  <2>2. served' \subseteq inChannel' /\ inChannel' \subseteq online'
    BY <1>0 DEF ChatInOrder, LoadMore
  <2>3. \A d \in Chatters : d \notin online' => inbox'[d] = <<>>
    BY <1>0, <1>4, <1>6 DEF ChatInOrder, ChatTyped, LoadMore
  <2>4. \A d \in Chatters : Len(fetch'[d].got) < fetch'[d].want \/ fetch'[d] = NoFetch
    BY <1>0 DEF ChatInOrder, ChatTyped, LoadMore
  <2> QED BY <2>1, <2>2, <2>3, <2>4 DEF ChatInOrder
<1>9. OwedIsHeard'
  <2>1. \A d \in Chatters : MessagesOf(inbox[d]) \subseteq MessagesOf(inbox'[d])
    BY <1>0, <1>5, <1>6 DEF ChatTyped
  <2> QED BY <1>0, <2>1, StillHeard DEF LoadMore
<1> QED BY <1>1, <1>7, <1>8, <1>9 DEF ChatIInv

\* Of the server's handlers: only what is announced is owed.
LEMMA CheckPreserves ==
    ASSUME RoomTyped, ChatIInv, NEW o \in ops,
           CheckRoom(o) \/ CreateMessage(o) \/ ReadHistory(o)
    PROVE  RoomKept /\ ChatIInv'
<1>0. ChatTyped /\ ChatInOrder /\ OwedIsHeard
  BY DEF ChatIInv
<1>1. UNCHANGED <<online, inChannel, inbox, heard, pages, hasMore, fetch, served, owed>>
  BY DEF CheckRoom, CreateMessage, ReadHistory
<1>2. RoomKept
  <2>1. CASE CheckRoom(o)
    BY <2>1 DEF RoomTyped, RoomKept, CheckRoom, roomVars, rows
  <2>2. CASE CreateMessage(o)
    <3>1. o \in Sends
      BY <1>0, <2>2 DEF ChatTyped, Sends, Readings, Answers, CreateMessage
    <3>2. messages' = messages \/ messages' = Append(messages, o.msg)
      BY <2>2 DEF CreateMessage
    <3>3. messages \in Seq(Nat) /\ o.msg \in Nat
      BY <3>1 DEF RoomTyped, Sends
    <3>4. messages' \in Seq(Nat)
      BY <3>2, <3>3
    <3> QED BY <2>2, <3>4 DEF RoomTyped, RoomKept, CreateMessage
  <2>3. CASE ReadHistory(o)
    BY <2>3 DEF RoomTyped, RoomKept, ReadHistory, roomVars, rows
  <2> QED BY <2>1, <2>2, <2>3
<1>3. \E p \in Sends \cup Answers :
         /\ p.by = o.by /\ p.alive = o.alive /\ p.kind = o.kind
         /\ ops' \subseteq (ops \ {o}) \cup {p}
  <2>1. CASE CheckRoom(o) \/ CreateMessage(o)
    <3>1. o \in Sends
      BY <1>0, <2>1 DEF ChatTyped, Sends, Readings, Answers, CheckRoom, CreateMessage
    <3>2. [o EXCEPT !.at = "checked"] \in Sends /\ [o EXCEPT !.at = "saved"] \in Sends
      BY <3>1 DEF Sends
    <3>3. \/ ops' \subseteq (ops \ {o}) \cup {[o EXCEPT !.at = "checked"]}
          \/ ops' \subseteq (ops \ {o}) \cup {[o EXCEPT !.at = "saved"]}
      BY <2>1 DEF CheckRoom, CreateMessage, Proceeds
    <3>4. \A p \in {[o EXCEPT !.at = "checked"], [o EXCEPT !.at = "saved"]} :
             p.by = o.by /\ p.alive = o.alive /\ p.kind = o.kind
      BY <3>1 DEF Sends
    <3> QED BY <3>2, <3>3, <3>4
  <2>2. CASE ReadHistory(o)
    <3> DEFINE p == [kind |-> "history", by |-> o.by, at |-> "read", alive |-> o.alive,
                     page |-> FirstPage, more |-> Len(messages) > PageSize]
    <3>1. o \in Readings
      BY <1>0, <2>2 DEF ChatTyped, Sends, Readings, Answers, ReadHistory
    <3>2. FirstPage \in Seq(Nat)
      BY PageSizeIsPositive DEF RoomTyped, FirstPage
    <3>3. p \in Answers
      BY <3>1, <3>2 DEF Readings, Answers
    <3>4. ops' \subseteq (ops \ {o}) \cup {p}
      BY <2>2 DEF ReadHistory, Proceeds
    <3>5. p.by = o.by /\ p.alive = o.alive /\ p.kind = o.kind
      BY <3>1 DEF Readings
    <3> HIDE DEF p
    <3> QED BY <3>3, <3>4, <3>5
  <2> QED BY <2>1, <2>2
<1>4. PICK p \in Sends \cup Answers : /\ p.by = o.by /\ p.alive = o.alive /\ p.kind = o.kind
                                      /\ ops' \subseteq (ops \ {o}) \cup {p}
  BY <1>3
<1>5. ChatTyped'
  BY <1>0, <1>1, <1>4 DEF ChatTyped
<1>6. ChatInOrder'
  BY <1>0, <1>1, <1>4 DEF ChatInOrder
<1>7. OwedIsHeard'
  BY <1>0, <1>1, StillHeard
<1> QED BY <1>2, <1>5, <1>6, <1>7 DEF ChatIInv

\* Whoever will be owed the message hears it: the handler joins its own
\* socket before it announces, and who was answered is in the channel.
LEMMA AnnouncePreserves ==
    ASSUME RoomTyped, ChatIInv, NEW o \in ops, Announce(o)
    PROVE  RoomKept /\ ChatIInv'
<1>0. ChatTyped /\ ChatInOrder /\ OwedIsHeard
  BY DEF ChatIInv
<1> DEFINE f == [ev |-> "message", msg |-> o.msg]
           owes == served \cup (IF o.alive THEN {o.by} ELSE {})
<1>1. RoomKept
  BY DEF RoomTyped, RoomKept, Announce, roomVars, rows
<1>2. o \in Sends /\ f \in Frames /\ f.ev = "message" /\ f.msg = o.msg /\ o.msg \in Nat
  BY <1>0 DEF ChatTyped, Sends, Readings, Answers, Announce, Frames
<1>3. inChannel \subseteq inChannel' /\ inChannel' \subseteq online /\ owes \subseteq inChannel'
  BY <1>0, <1>2 DEF ChatInOrder, Announce, JoinedBy
<1>4. \A c \in Chatters :
         /\ c \in inChannel' => inbox'[c] = Append(inbox[c], f)
         /\ c \notin inChannel' => inbox'[c] = inbox[c]
         /\ owed'[c] \subseteq (IF c \in owes THEN owed[c] \cup {o.msg} ELSE owed[c])
  BY DEF Announce
<1>5. \A c \in Chatters :
         /\ inbox'[c] \in Seq(Frames)
         /\ MessagesOf(inbox[c]) \subseteq MessagesOf(inbox'[c])
         /\ c \in inChannel' => o.msg \in MessagesOf(inbox'[c])
  <2> HIDE DEF f
  <2> SUFFICES ASSUME NEW c \in Chatters
               PROVE  /\ inbox'[c] \in Seq(Frames)
                      /\ MessagesOf(inbox[c]) \subseteq MessagesOf(inbox'[c])
                      /\ c \in inChannel' => o.msg \in MessagesOf(inbox'[c])
    OBVIOUS
  <2>1. inbox[c] \in Seq(Frames)
    BY <1>0 DEF ChatTyped
  <2> QED BY <1>2, <1>4, <2>1, AppendedFrame
<1>6. ChatTyped'
  <2>1. inbox' \in [Chatters -> Seq(Frames)]
    BY <1>5 DEF Announce
  <2>2. owed' \in [Chatters -> SUBSET Nat]
    <3>1. \A c \in Chatters : owed'[c] \subseteq Nat
      BY <1>0, <1>2, <1>4 DEF ChatTyped
    <3> QED BY <3>1 DEF Announce
  <2> QED BY <1>0, <2>1, <2>2 DEF ChatTyped, Announce
<1>7. ChatInOrder'
  <2>1. \A c \in Chatters : c \notin online' => inbox'[c] = <<>>
    BY <1>0, <1>3, <1>4 DEF ChatInOrder, Announce
  <2>2. served' \subseteq inChannel' /\ inChannel' \subseteq online'
    BY <1>0, <1>3 DEF ChatInOrder, Announce
  <2> QED BY <1>0, <2>1, <2>2 DEF ChatInOrder, Announce
<1>8. OwedIsHeard'
  <2>1. \A c \in Chatters : owed'[c] \subseteq ToSet(heard'[c]) \cup MessagesOf(inbox'[c])
    <3> SUFFICES ASSUME NEW c \in Chatters
                 PROVE  owed'[c] \subseteq ToSet(heard'[c]) \cup MessagesOf(inbox'[c])
      OBVIOUS
    <3>1. owed[c] \subseteq ToSet(heard[c]) \cup MessagesOf(inbox[c])
      BY <1>0, OnTheWayIsMessages DEF OwedIsHeard
    <3>2. heard' = heard
      BY DEF Announce
    <3> HIDE DEF f, owes
    <3> QED BY <1>3, <1>4, <1>5, <3>1, <3>2
  <2>2. \A c : OnTheWay(c)' = MessagesOf(inbox'[c])
    BY DEF OnTheWay, MessagesOf
  <2> QED BY <2>1, <2>2 DEF OwedIsHeard
<1> QED BY <1>1, <1>6, <1>7, <1>8 DEF ChatIInv

LEMMA AnswerPreserves ==
    ASSUME RoomTyped, ChatIInv, NEW o \in ops, AnswerHistory(o)
    PROVE  RoomKept /\ ChatIInv'
<1>0. ChatTyped /\ ChatInOrder /\ OwedIsHeard
  BY DEF ChatIInv
<1> DEFINE f == [ev |-> "page", page |-> o.page, more |-> o.more]
<1>1. RoomKept
  BY DEF RoomTyped, RoomKept, AnswerHistory, roomVars, rows
<1>2. o \in Answers /\ f \in Frames /\ o.by \in Chatters /\ o.by \in online
  BY <1>0 DEF ChatTyped, ChatInOrder, Sends, Readings, Answers, AnswerHistory, Frames
<1>3. inbox' \in {inbox, [inbox EXCEPT ![o.by] = Append(inbox[o.by], f)]}
  BY DEF AnswerHistory
<1> HIDE DEF f
<1>4. \A c \in Chatters : inbox[c] \in Seq(Frames)
  BY <1>0 DEF ChatTyped
<1>5. /\ Append(inbox[o.by], f) \in Seq(Frames)
      /\ MessagesOf(inbox[o.by]) \subseteq MessagesOf(Append(inbox[o.by], f))
  BY <1>2, <1>4, AppendedFrame
<1>6. inChannel' = inChannel \cup {o.by} /\ served' = served \cup {o.by}
  BY <1>2 DEF AnswerHistory, JoinedBy
<1>7. ChatTyped'
  <2>1. inbox' \in [Chatters -> Seq(Frames)]
    BY <1>0, <1>3, <1>5 DEF ChatTyped
  <2> QED BY <1>0, <2>1 DEF ChatTyped, AnswerHistory
<1>8. ChatInOrder'
  <2>1. \A c \in Chatters : c \notin online' => inbox'[c] = <<>>
    BY <1>0, <1>2, <1>3 DEF ChatInOrder, ChatTyped, AnswerHistory
  <2> QED BY <1>0, <1>2, <1>6, <2>1 DEF ChatInOrder, AnswerHistory
<1>9. OwedIsHeard'
  <2>1. \A c \in Chatters : MessagesOf(inbox[c]) \subseteq MessagesOf(inbox'[c])
    BY <1>0, <1>3, <1>5 DEF ChatTyped
  <2> QED BY <1>0, <2>1, StillHeard DEF AnswerHistory
<1> QED BY <1>1, <1>7, <1>8, <1>9 DEF ChatIInv

LEMMA HearPreserves ==
    ASSUME RoomTyped, ChatIInv, NEW c \in Chatters, HearMessage(c)
    PROVE  RoomKept /\ ChatIInv'
<1>0. ChatTyped /\ ChatInOrder /\ OwedIsHeard
  BY DEF ChatIInv
<1> DEFINE f == Head(inbox[c])
<1>1. RoomKept
  BY DEF RoomTyped, RoomKept, HearMessage, roomVars, rows
<1>2. /\ inbox[c] \in Seq(Frames) /\ inbox[c] # <<>> /\ f.ev = "message"
      /\ inbox' = [inbox EXCEPT ![c] = Tail(inbox[c])]
  BY <1>0 DEF ChatTyped, HearMessage
<1>3. /\ Tail(inbox[c]) \in Seq(Frames) /\ f \in Frames
      /\ ToSet(inbox[c]) \subseteq {f} \cup ToSet(Tail(inbox[c]))
  BY <1>2, TakenFrame
<1>4. f.msg \in Nat
  BY <1>2, <1>3 DEF Frames
<1>5. MessagesOf(inbox[c]) \subseteq {f.msg} \cup MessagesOf(Tail(inbox[c]))
  <2> HIDE DEF f
  <2> QED BY <1>3 DEF MessagesOf
<1>6. /\ heard' \in [Chatters -> Seq(Nat)]
      /\ \A d \in Chatters : ToSet(heard[d]) \subseteq ToSet(heard'[d])
      /\ f.msg \in ToSet(heard'[c])
  <2>1. heard \in [Chatters -> Seq(Nat)] /\ heard[c] \in Seq(Nat)
    BY <1>0 DEF ChatTyped
  <2>2. CASE Contains(heard[c], f.msg)
    <3>1. heard' = heard
      BY <2>2 DEF HearMessage
    <3>2. f.msg \in ToSet(heard[c])
      BY <2>1, <2>2 DEF Contains, ToSet
    <3> QED BY <2>1, <3>1, <3>2
  <2>3. CASE ~Contains(heard[c], f.msg)
    <3> DEFINE s == heard[c]
               t == Append(s, f.msg)
    <3>1. heard' = [heard EXCEPT ![c] = t]
      BY <2>3 DEF HearMessage
    <3> HIDE DEF f
    <3>2. /\ t \in Seq(Nat) /\ Len(t) = Len(s) + 1 /\ t[Len(s) + 1] = f.msg
          /\ \A i \in 1 .. Len(s) : t[i] = s[i]
      BY <1>4, <2>1
    <3>3. ToSet(s) \subseteq ToSet(t) /\ f.msg \in ToSet(t)
      <4>1. Len(s) \in Nat /\ DOMAIN s = 1 .. Len(s) /\ DOMAIN t = 1 .. Len(s) + 1
        BY <2>1, <3>2
      <4>2. DOMAIN s \subseteq DOMAIN t /\ Len(s) + 1 \in DOMAIN t
        BY <4>1
      <4> HIDE DEF t
      <4> QED BY <3>2, <4>1, <4>2 DEF ToSet
    <3> HIDE DEF t
    <3> QED BY <2>1, <3>1, <3>2, <3>3
  <2> QED BY <2>2, <2>3
<1> HIDE DEF f
<1>7. ChatTyped'
  <2>1. inbox' \in [Chatters -> Seq(Frames)]
    BY <1>0, <1>2, <1>3 DEF ChatTyped
  <2> QED BY <1>0, <1>6, <2>1 DEF ChatTyped, HearMessage
<1>8. ChatInOrder'
  <2>1. \A d \in Chatters : d \notin online' => inbox'[d] = <<>>
    BY <1>0, <1>2 DEF ChatInOrder, ChatTyped, HearMessage
  <2> QED BY <1>0, <2>1 DEF ChatInOrder, HearMessage
<1>9. OwedIsHeard'
  <2>1. \A d \in Chatters : owed'[d] \subseteq ToSet(heard'[d]) \cup MessagesOf(inbox'[d])
    <3> SUFFICES ASSUME NEW d \in Chatters
                 PROVE  owed'[d] \subseteq ToSet(heard'[d]) \cup MessagesOf(inbox'[d])
      OBVIOUS
    <3>1. owed[d] \subseteq ToSet(heard[d]) \cup MessagesOf(inbox[d])
      BY <1>0, OnTheWayIsMessages DEF OwedIsHeard
    <3>2. owed' = owed
      BY DEF HearMessage
    <3>3. MessagesOf(inbox[d]) \subseteq (IF d = c THEN {f.msg} ELSE {}) \cup MessagesOf(inbox'[d])
      BY <1>0, <1>2, <1>5 DEF ChatTyped
    <3> QED BY <1>6, <3>1, <3>2, <3>3
  <2>2. \A d : OnTheWay(d)' = MessagesOf(inbox'[d])
    BY DEF OnTheWay, MessagesOf
  <2> QED BY <2>1, <2>2 DEF OwedIsHeard
<1> QED BY <1>1, <1>7, <1>8, <1>9 DEF ChatIInv

LEMMA TakePreserves ==
    ASSUME RoomTyped, ChatIInv, NEW c \in Chatters, TakePage(c)
    PROVE  RoomKept /\ ChatIInv'
<1>0. ChatTyped /\ ChatInOrder /\ OwedIsHeard
  BY DEF ChatIInv
<1> DEFINE f == Head(inbox[c])
           got == Append(fetch[c].got, f.page)
<1>1. RoomKept
  BY DEF RoomTyped, RoomKept, TakePage, roomVars, rows
<1>2. /\ inbox[c] \in Seq(Frames) /\ inbox[c] # <<>> /\ f.ev = "page"
      /\ inbox' = [inbox EXCEPT ![c] = Tail(inbox[c])]
  BY <1>0 DEF ChatTyped, TakePage
<1>3. /\ Tail(inbox[c]) \in Seq(Frames) /\ f \in Frames
      /\ ToSet(inbox[c]) \subseteq {f} \cup ToSet(Tail(inbox[c]))
  BY <1>2, TakenFrame
<1>4. f.page \in Seq(Nat) /\ f.more \in BOOLEAN /\ f.ev # "message"
  BY <1>2, <1>3 DEF Frames
<1>5. MessagesOf(inbox[c]) \subseteq MessagesOf(Tail(inbox[c]))
  <2> HIDE DEF f
  <2> QED BY <1>3, <1>4 DEF MessagesOf
<1>6. got \in Seq(Seq(Nat)) /\ fetch[c] \in [got : Seq(Seq(Nat)), want : Nat]
  <2> HIDE DEF f
  <2> QED BY <1>0, <1>4 DEF ChatTyped
<1>7. \/ /\ Len(got) < fetch[c].want
         /\ fetch' = [fetch EXCEPT ![c].got = got]
         /\ ops' = ops \cup {AskHistory(c)} /\ UNCHANGED <<pages, hasMore>>
      \/ /\ pages' = [pages EXCEPT ![c] = got] /\ hasMore' = [hasMore EXCEPT ![c] = f.more]
         /\ fetch' = [fetch EXCEPT ![c] = NoFetch] /\ UNCHANGED ops
  BY DEF TakePage
<1>8. c \in online /\ AskHistory(c) \in Readings /\ AskHistory(c).by = c
      /\ NoFetch \in [got : Seq(Seq(Nat)), want : Nat]
  BY <1>0, <1>2 DEF ChatInOrder, AskHistory, Readings, NoFetch
<1> HIDE DEF f, got
<1>9. ChatTyped'
  <2>1. inbox' \in [Chatters -> Seq(Frames)]
    BY <1>0, <1>2, <1>3 DEF ChatTyped
  <2>2. ops' \subseteq Sends \cup Readings \cup Answers
    BY <1>0, <1>7, <1>8 DEF ChatTyped
  <2>3. fetch' \in [Chatters -> [got : Seq(Seq(Nat)), want : Nat]]
    BY <1>0, <1>6, <1>7, <1>8 DEF ChatTyped
  <2>4. pages' \in [Chatters -> Seq(Seq(Nat))] /\ hasMore' \in [Chatters -> BOOLEAN]
    BY <1>0, <1>4, <1>6, <1>7 DEF ChatTyped
  <2> QED BY <1>0, <2>1, <2>2, <2>3, <2>4 DEF ChatTyped, TakePage
<1>10. ChatInOrder'
  <2>1. \A d \in Chatters : d \notin online' => inbox'[d] = <<>>
    BY <1>0, <1>2 DEF ChatInOrder, ChatTyped, TakePage
  <2>2. \A o \in ops' : o.alive \/ o.kind = "history" => o.by \in online
    BY <1>0, <1>7, <1>8 DEF ChatInOrder
  <2>3. \A d \in Chatters : Len(fetch'[d].got) < fetch'[d].want \/ fetch'[d] = NoFetch
    <3>1. \/ fetch'[c] = NoFetch
          \/ Len(got) < fetch[c].want /\ fetch'[c] = [fetch[c] EXCEPT !.got = got]
      BY <1>0, <1>7 DEF ChatTyped
    <3>2. Len(fetch'[c].got) < fetch'[c].want \/ fetch'[c] = NoFetch
      BY <1>6, <3>1
    <3>3. \A d \in Chatters \ {c} : fetch'[d] = fetch[d]
      BY <1>0, <1>7 DEF ChatTyped
    <3> QED BY <1>0, <3>2, <3>3 DEF ChatInOrder
  <2> QED BY <1>0, <2>1, <2>2, <2>3 DEF ChatInOrder, TakePage
<1>11. OwedIsHeard'
  <2>1. \A d \in Chatters : MessagesOf(inbox[d]) \subseteq MessagesOf(inbox'[d])
    BY <1>0, <1>2, <1>5 DEF ChatTyped
  <2> QED BY <1>0, <2>1, StillHeard DEF TakePage
<1> QED BY <1>1, <1>9, <1>10, <1>11 DEF ChatIInv

LEMMA ChatStepPreserves ==
    ASSUME LifeIInv, UNCHANGED guestVars, ChatSteps \/ \E c \in Chatters : ConnectChat(c)
    PROVE  LifeIInv'
<1>0. RoomTyped /\ ChatIInv /\ GuestTyped /\ PendingIsAsked
  BY DEF LifeIInv, ChatIInv
<1>1. RoomKept /\ ChatIInv'
  <2>1. CASE \E c \in Chatters : ConnectChat(c)
    BY <1>0, <2>1, ConnectPreserves
  <2>2. CASE \E o \in ops : CheckRoom(o) \/ CreateMessage(o) \/ ReadHistory(o)
    BY <1>0, <2>2, CheckPreserves
  <2>3. CASE \E o \in ops : Announce(o)
    BY <1>0, <2>3, AnnouncePreserves
  <2>4. CASE \E o \in ops : AnswerHistory(o)
    BY <1>0, <2>4, AnswerPreserves
  <2>5. CASE \E c \in Chatters : DropChat(c)
    BY <1>0, <2>5, DropPreserves
  <2>6. CASE \E c \in Chatters : SendMessage(c)
    BY <1>0, <2>6, SendPreserves
  <2>7. CASE \E c \in Chatters : LoadMore(c)
    BY <1>0, <2>7, LoadPreserves
  <2>8. CASE \E c \in Chatters : HearMessage(c)
    BY <1>0, <2>8, HearPreserves
  <2>9. CASE \E c \in Chatters : TakePage(c)
    BY <1>0, <2>9, TakePreserves
  <2> QED BY <2>1, <2>2, <2>3, <2>4, <2>5, <2>6, <2>7, <2>8, <2>9 DEF ChatSteps
<1>2. RoomTyped'
  BY <1>0, <1>1 DEF RoomTyped, RoomKept
<1>3. GuestTyped' /\ PendingIsAsked'
  BY <1>0, <1>1, GuestRests DEF RoomKept
<1> QED BY <1>1, <1>2, <1>3 DEF LifeIInv, ChatIInv

-----------------------------------------------------------------------------
(* The guest and the owner.                                                *)

GuestIInv == GuestTyped /\ PendingIsAsked

\* The guest's and the owner's steps leave the room's row and its chat alone;
\* only the owner's tabs come and go.
SeatsTyped ==
    /\ UNCHANGED <<rows, ending>> /\ acts' \in Nat
    /\ seated' \subseteq OwnerTabs /\ (seated' # {} => owned)

LEMMA ZeroIsNoRequest == Requests \subseteq Nat /\ 0 \notin Requests
BY AskBoundsAreNat DEF Requests

\* Tabs without a session take their queues and what they were asked along.
LEMMA SessionsEnd ==
    ASSUME RoomTyped, GuestIInv, NEW tabs, NoSession(tabs), seated' \subseteq OwnerTabs,
           seated \ tabs \subseteq seated', room' # "gone" => room # "gone",
           UNCHANGED <<requests, guestSide>>
    PROVE  GuestIInv'
<1>0. GuestTyped /\ PendingIsAsked
  BY DEF GuestIInv
<1>1. \A r \in Requests :
         \/ askedOf'[r] = 0
         \/ askedOf[r] \notin tabs /\ askedOf[r] \in seated /\ askedOf'[r] = askedOf[r]
  BY <1>0 DEF NoSession, GuestTyped
<1>2. \A t \in OwnerTabs : t \notin tabs => queue'[t] = queue[t]
  BY DEF NoSession
<1>3. GuestTyped'
  <2>1. askedOf' \in [Requests -> seated' \cup {0}]
    BY <1>1 DEF NoSession
  <2>2. queue' \in [OwnerTabs -> SUBSET Requests]
    BY <1>0 DEF NoSession, GuestTyped
  <2> QED BY <1>0, <2>1, <2>2 DEF GuestTyped, NoSession, guestSide
<1>4. PendingIsAsked'
  <2> SUFFICES ASSUME NEW r \in Requests, requests'[r] = "pending", askedOf'[r] # 0, room' # "gone"
               PROVE  r \in queue'[askedOf'[r]]
    BY DEF PendingIsAsked
  <2>1. askedOf[r] # 0 \/ askedOf'[r] = askedOf[r]
    BY <1>1
  <2>2. askedOf[r] \notin tabs /\ askedOf'[r] = askedOf[r] /\ askedOf[r] # 0
    BY <1>1
  <2>3. r \in queue[askedOf[r]]
    BY <1>0, <2>2 DEF PendingIsAsked
  <2>4. askedOf[r] \in OwnerTabs
    BY <1>1, <2>2 DEF RoomTyped
  <2> QED BY <1>2, <2>2, <2>3, <2>4
<1> QED BY <1>3, <1>4 DEF GuestIInv

\* What the guest's page does leaves the requests and the queues alone.
LEMMA PageStepPreserves ==
    ASSUME RoomTyped, GuestIInv,
           \/ \E r \in Requests : Ask(r) \/ RefuseRequest(r) \/ AskAnswered(r)
           \/ \E p \in polls : PollAnswered(p)
           \/ Poll \/ PollFails \/ Retry \/ Hide \/ Show
    PROVE  SeatsTyped /\ GuestIInv'
<1>0. GuestTyped /\ PendingIsAsked
  BY DEF GuestIInv
<1>1. /\ UNCHANGED <<rows, ending, seated>> /\ acts' \in Nat
      /\ UNCHANGED <<requests, askedOf, queue, deciding>>
  BY DEF Ask, RefuseRequest, AskAnswered, PollAnswered, Poll, PollFails, Retry, Hide, Show,
         roomVars, serverSide, ownerSide, Act, RoomTyped
<1>2. PendingIsAsked'
  BY <1>0, <1>1 DEF PendingIsAsked, rows
<1>3. GuestTyped'
  <2>1. ASSUME NEW r \in Requests, Ask(r) \/ RefuseRequest(r)
        PROVE  GuestTyped'
    BY <1>0, <1>1, <2>1 DEF GuestTyped, Ask, RefuseRequest
  <2>2. ASSUME NEW r \in Requests, AskAnswered(r)
        PROVE  GuestTyped'
    BY <1>0, <1>1, <2>2, ZeroIsNoRequest DEF GuestTyped, AskAnswered
  <2>3. ASSUME NEW p \in polls, PollAnswered(p)
        PROVE  GuestTyped'
    BY <1>0, <1>1, <2>3 DEF GuestTyped, PollAnswered, GoesOn
  <2>4. CASE Poll \/ PollFails \/ Retry \/ Hide \/ Show
    BY <1>0, <1>1, <2>4 DEF GuestTyped, Poll, PollFails, Retry, Hide, Show
  <2> QED BY <2>1, <2>2, <2>3, <2>4
<1>4. SeatsTyped
  BY <1>1 DEF SeatsTyped, RoomTyped
<1> QED BY <1>2, <1>3, <1>4 DEF GuestIInv

LEMMA OwnerStepPreserves ==
    ASSUME RoomTyped, GuestIInv, NEW t \in OwnerTabs, NEW r \in Requests,
           CreateRequest(r, t) \/ \E v \in Verdicts : Decide(t, r, v)
    PROVE  SeatsTyped /\ GuestIInv'
<1>0. GuestTyped /\ PendingIsAsked
  BY DEF GuestIInv
<1>1. UNCHANGED roomVars
  BY DEF CreateRequest, Decide
<1>2. SeatsTyped
  BY <1>1 DEF SeatsTyped, roomVars, rows, RoomTyped
<1>3. CASE CreateRequest(r, t)
  <2>1. /\ t \in seated /\ requests' = [requests EXCEPT ![r] = "pending"]
        /\ askedOf' = [askedOf EXCEPT ![r] = t] /\ queue' = [queue EXCEPT ![t] = queue[t] \cup {r}]
        /\ asks' = [asks EXCEPT ![r] = "made"]
    BY <1>3 DEF CreateRequest
  <2>2. GuestTyped'
    <3>1. UNCHANGED <<deciding, guest, polling, inside, seated>>
      BY <1>3 DEF CreateRequest, roomVars
    <3> QED BY <1>0, <2>1, <3>1 DEF GuestTyped
  <2>3. PendingIsAsked'
    <3> SUFFICES ASSUME NEW q \in Requests, requests'[q] = "pending", askedOf'[q] # 0, room' # "gone"
                 PROVE  q \in queue'[askedOf'[q]]
      BY DEF PendingIsAsked
    <3>1. CASE q = r
      BY <1>0, <2>1, <3>1 DEF GuestTyped
    <3>2. CASE q # r
      <4>1. requests[q] = "pending" /\ askedOf'[q] = askedOf[q] /\ askedOf[q] # 0 /\ room # "gone"
        BY <1>0, <1>1, <2>1, <3>2 DEF GuestTyped, roomVars, rows
      <4>2. q \in queue[askedOf[q]] /\ askedOf[q] \in OwnerTabs
        BY <1>0, <4>1 DEF PendingIsAsked, GuestTyped, RoomTyped
      <4> QED BY <1>0, <2>1, <4>1, <4>2 DEF GuestTyped
    <3> QED BY <3>1, <3>2
  <2> QED BY <1>2, <2>2, <2>3 DEF GuestIInv
<1>4. ASSUME NEW v \in Verdicts, Decide(t, r, v)
      PROVE  GuestIInv'
  <2>1. UNCHANGED <<serverSide, queue, guestSide, seated, room>>
    BY <1>1, <1>4 DEF Decide, roomVars, rows
  <2>2. deciding' \subseteq [tab : OwnerTabs, of : Requests, verdict : Verdicts]
    <3>1. [tab |-> t, of |-> r, verdict |-> v] \in [tab : OwnerTabs, of : Requests, verdict : Verdicts]
      OBVIOUS
    <3> QED BY <1>0, <1>4, <3>1 DEF Decide, GuestTyped
  <2> QED BY <1>0, <2>1, <2>2 DEF GuestIInv, GuestTyped, PendingIsAsked, serverSide, guestSide
<1> QED BY <1>2, <1>3, <1>4

\* What is decided is pending no more when it leaves the queue.
LEMMA DecidedPreserves ==
    ASSUME RoomTyped, GuestIInv, NEW d \in deciding, Decided(d)
    PROVE  SeatsTyped /\ GuestIInv'
<1>0. GuestTyped /\ PendingIsAsked
  BY DEF GuestIInv
<1>1. /\ UNCHANGED <<roomVars, askedOf, guestSide>> /\ deciding' = deciding \ {d}
      /\ queue' = [queue EXCEPT ![d.tab] = queue[d.tab] \ {d.of}]
      /\ requests' = IF room # "gone" /\ requests[d.of] # "none"
                     THEN [requests EXCEPT ![d.of] = d.verdict] ELSE requests
  BY DEF Decided, RemoveRequest
<1>2. d.tab \in OwnerTabs /\ d.of \in Requests /\ d.verdict \in Verdicts /\ "pending" \notin Verdicts
  BY <1>0 DEF GuestTyped, Verdicts
<1>3. SeatsTyped
  BY <1>1 DEF SeatsTyped, roomVars, rows, RoomTyped
<1>4. GuestTyped'
  BY <1>0, <1>1, <1>2 DEF GuestTyped, guestSide, roomVars
<1>5. PendingIsAsked'
  <2> SUFFICES ASSUME NEW q \in Requests, requests'[q] = "pending", askedOf'[q] # 0, room' # "gone"
               PROVE  q \in queue'[askedOf'[q]]
    BY DEF PendingIsAsked
  <2>1. room # "gone" /\ askedOf' = askedOf
    BY <1>1 DEF roomVars, rows
  <2>2. q # d.of /\ requests[q] = "pending"
    BY <1>0, <1>1, <1>2, <2>1 DEF GuestTyped
  <2>3. q \in queue[askedOf[q]] /\ askedOf[q] \in OwnerTabs
    BY <1>0, <2>1, <2>2 DEF PendingIsAsked, GuestTyped, RoomTyped
  <2> QED BY <1>0, <1>1, <1>2, <2>1, <2>2, <2>3 DEF GuestTyped
<1> QED BY <1>3, <1>4, <1>5 DEF GuestIInv

LEMMA GuestStepPreserves ==
    ASSUME RoomTyped, GuestIInv, GuestSteps PROVE SeatsTyped /\ GuestIInv'
<1>0. GuestTyped /\ PendingIsAsked
  BY DEF GuestIInv
<1>1. ASSUME NEW t \in OwnerTabs, Enter(t) PROVE SeatsTyped /\ GuestIInv'
  <2>1. SeatsTyped /\ seated \subseteq seated' /\ UNCHANGED <<rows, guestVars>>
    BY <1>1 DEF Enter, SeatsTyped, Act, RoomTyped
  <2>2. GuestTyped'
    BY <1>0, <2>1 DEF GuestTyped, guestVars, serverSide, ownerSide, guestSide
  <2>3. PendingIsAsked'
    BY <1>0, <2>1 DEF PendingIsAsked, guestVars, serverSide, ownerSide, rows
  <2> QED BY <2>1, <2>2, <2>3 DEF GuestIInv
<1>2. ASSUME NEW t \in OwnerTabs, LeaveRoom(t) PROVE SeatsTyped /\ GuestIInv'
  <2>1. SeatsTyped /\ seated' = seated \ {t} /\ UNCHANGED <<rows, requests, guestSide>> /\ NoSession({t})
    BY <1>2 DEF LeaveRoom, SeatsTyped, Act, RoomTyped
  <2>2. seated' \subseteq OwnerTabs /\ seated \ {t} \subseteq seated' /\ room' = room
    BY <2>1 DEF RoomTyped, rows
  <2> QED BY <2>1, <2>2, SessionsEnd
<1>3. ASSUME NEW r \in Requests, Expire(r) PROVE SeatsTyped /\ GuestIInv'
  <2>1. SeatsTyped /\ UNCHANGED <<roomVars, askedOf, ownerSide, guestSide>>
        /\ requests' = [requests EXCEPT ![r] = "none"]
    BY <1>3 DEF Expire, SeatsTyped, roomVars, rows, RoomTyped
  <2> QED BY <1>0, <2>1 DEF GuestIInv, GuestTyped, PendingIsAsked, roomVars, rows, ownerSide, guestSide
<1>4. ASSUME NEW d \in deciding, Decided(d) PROVE SeatsTyped /\ GuestIInv'
  BY <1>4, DecidedPreserves
<1>5. ASSUME NEW t \in OwnerTabs, NEW r \in Requests,
             CreateRequest(r, t) \/ \E v \in Verdicts : Decide(t, r, v)
      PROVE  SeatsTyped /\ GuestIInv'
  BY <1>5, OwnerStepPreserves
<1>6. CASE \/ \E r \in Requests : Ask(r) \/ RefuseRequest(r) \/ AskAnswered(r)
           \/ \E p \in polls : PollAnswered(p)
           \/ Poll \/ PollFails \/ Retry \/ Hide \/ Show
  BY <1>6, PageStepPreserves
<1> QED BY <1>1, <1>2, <1>3, <1>4, <1>5, <1>6 DEF GuestSteps, Verdicts

-----------------------------------------------------------------------------

LEMMA ClosePreserves ==
    ASSUME LifeIInv, NEW t \in OwnerTabs, Close(t) PROVE LifeIInv'
<1>0. RoomTyped /\ ChatTyped /\ ChatInOrder /\ OwedIsHeard /\ GuestIInv
  BY DEF LifeIInv, GuestIInv
<1>1. RoomTyped'
  BY <1>0 DEF RoomTyped, Close, CloseRoom, rows, NoEnd
<1>2. ChatTyped' /\ ChatInOrder' /\ OwedIsHeard'
  BY <1>0, ChatRests DEF Close
<1>3. GuestIInv'
  <2>1. NoSession(OwnerTabs) /\ UNCHANGED <<requests, guestSide, room>>
    BY DEF Close, CloseRoom, rows
  <2>2. seated' \subseteq OwnerTabs /\ seated \ OwnerTabs \subseteq seated'
    BY <1>0 DEF RoomTyped, Close, CloseRoom
  <2> QED BY <1>0, <2>1, <2>2, SessionsEnd
<1> QED BY <1>1, <1>2, <1>3 DEF LifeIInv, GuestIInv

LEMMA LifeInductive == LifeIInv /\ [Next]_vars => LifeIInv'
<1> SUFFICES ASSUME LifeIInv, [Next]_vars PROVE LifeIInv'
  OBVIOUS
<1>1. CASE RoomsNext /\ UNCHANGED <<chatVars, guestVars>>
  BY <1>1, RoomStepPreserves
<1>2. CASE ChatSteps /\ UNCHANGED guestVars
  BY <1>2, ChatStepPreserves
<1>3. CASE GuestSteps /\ UNCHANGED chatVars
  <2>0. RoomTyped /\ ChatTyped /\ ChatInOrder /\ OwedIsHeard /\ GuestIInv
    BY DEF LifeIInv, GuestIInv
  <2>1. SeatsTyped /\ GuestIInv'
    BY <1>3, <2>0, GuestStepPreserves
  <2>2. RoomTyped'
    BY <2>0, <2>1 DEF RoomTyped, SeatsTyped, rows
  <2>3. ChatTyped' /\ ChatInOrder' /\ OwedIsHeard'
    BY <1>3, <2>0, ChatRests
  <2> QED BY <2>1, <2>2, <2>3 DEF LifeIInv, GuestIInv
<1>4. CASE \E c \in Chatters : Connect(c)
  BY <1>4, ChatStepPreserves DEF Connect
<1>5. CASE \E t \in OwnerTabs : Close(t)
  BY <1>5, ClosePreserves
<1>6. CASE UNCHANGED vars
  <2>0. RoomTyped /\ ChatTyped /\ ChatInOrder /\ OwedIsHeard /\ GuestTyped /\ PendingIsAsked
    BY DEF LifeIInv
  <2>1. UNCHANGED <<roomVars, chatVars, guestVars>>
    BY <1>6 DEF vars
  <2>2. RoomTyped' /\ UNCHANGED seated /\ room' = room
    BY <2>0, <2>1 DEF RoomTyped, roomVars, rows
  <2>3. ChatTyped' /\ ChatInOrder' /\ OwedIsHeard'
    BY <2>0, <2>1, ChatRests
  <2>4. GuestTyped' /\ PendingIsAsked'
    BY <2>0, <2>1, <2>2, GuestRests
  <2> QED BY <2>2, <2>3, <2>4 DEF LifeIInv
<1> QED BY <1>1, <1>2, <1>3, <1>4, <1>5, <1>6 DEF Next

LEMMA LifeImplied == LifeIInv => RoomLifeInv
<1> SUFFICES ASSUME LifeIInv PROVE TypeOK /\ OwedIsShown /\ PendingIsAsked
  BY DEF RoomLifeInv
<1>0. RoomTyped /\ ChatTyped /\ ChatInOrder /\ OwedIsHeard /\ GuestTyped /\ PendingIsAsked
  BY DEF LifeIInv
<1>1. TypeOK
  BY <1>0 DEF RoomTyped, ChatTyped, ChatInOrder, GuestTyped, TypeOK
<1>2. OwedIsShown
  <2>1. \A c \in Chatters : ToSet(heard[c]) \subseteq Shown(c)
    BY DEF Shown
  <2>2. \A c \in Chatters : owed[c] \subseteq ToSet(heard[c]) \cup OnTheWay(c)
    BY <1>0 DEF OwedIsHeard
  <2> QED BY <2>1, <2>2 DEF OwedIsShown
<1> QED BY <1>0, <1>1, <1>2

\* Whatever drops, refetches and decisions come between, what a chatter is
\* owed is in its list or on the way to it, and a pending request is before
\* the tab it was sent to.
THEOREM RoomAlwaysLives == Spec => []RoomLifeInv
<1>1. Spec => []LifeIInv
  BY LifeInitially, LifeInductive, PTL DEF Spec
<1> QED BY <1>1, LifeImplied, PTL

-----------------------------------------------------------------------------
(***************************************************************************)
(* Proof, for any rows, times and pages, that a walk over a table gives no *)
(* row twice, the newest first, and every row that was there all the time. *)
(*                                                                         *)
(* First the order: of finitely many rows each has one place, and the n-th *)
(* is the row whose place that is.                                         *)
(***************************************************************************)

LEMMA RowIsPair ==
    ASSUME NEW row \in Row
    PROVE  /\ row.order \in Int /\ row.id \in Int
           /\ \A other \in Row : row.order = other.order /\ row.id = other.id => row = other
<1>1. row.order \in 1 .. Times /\ row.id \in RowIds
  BY DEF Row
<1>2. \A other \in Row : row.order = other.order /\ row.id = other.id => row = other
  BY DEF Row
<1>3. row.id \in Int
  BY <1>1, IdsAreOrdered
<1>4. row.order \in Int
  <2>1. Times \in Int
    BY PageBoundsAreNat
  <2> QED BY <1>1, <2>1
<1> QED BY <1>2, <1>3, <1>4

LEMMA NewerIsTotal ==
    ASSUME NEW a \in Row, NEW b \in Row
    PROVE  /\ a # b => Newer(a, b) \/ Newer(b, a)
           /\ Newer(a, b) => a # b /\ ~Newer(b, a)
           /\ \A c \in Row : Newer(a, b) /\ Newer(b, c) => Newer(a, c)
<1>0. \A r \in Row : r.order \in Int /\ r.id \in Int
  BY RowIsPair
<1>1. a # b => a.order # b.order \/ a.id # b.id
  BY RowIsPair
<1> QED BY <1>0, <1>1 DEF Newer

RowPlace(list, row) == Cardinality(NewerThan(list, row)) + 1

LEMMA RowPlaceKnown ==
    ASSUME NEW list \in SUBSET Row, IsFiniteSet(list), NEW row \in list
    PROVE  /\ IsFiniteSet(NewerThan(list, row)) /\ Cardinality(NewerThan(list, row)) \in Nat
           /\ Cardinality(list) \in Nat /\ RowPlace(list, row) \in 1 .. Cardinality(list)
<1>1. NewerThan(list, row) \in SUBSET list /\ row \notin NewerThan(list, row)
  BY NewerIsTotal DEF NewerThan
<1>2. /\ IsFiniteSet(NewerThan(list, row))
      /\ Cardinality(NewerThan(list, row)) <= Cardinality(list)
      /\ Cardinality(list) = Cardinality(NewerThan(list, row)) => list = NewerThan(list, row)
  BY <1>1, FS_Subset
<1>3. Cardinality(NewerThan(list, row)) # Cardinality(list)
  BY <1>1, <1>2
<1>4. Cardinality(NewerThan(list, row)) \in Nat /\ Cardinality(list) \in Nat
  BY <1>2, FS_CardinalityType
<1> QED BY <1>2, <1>3, <1>4 DEF RowPlace

LEMMA RowPlacesInOrder ==
    ASSUME NEW list \in SUBSET Row, IsFiniteSet(list), NEW a \in list, NEW b \in list, Newer(a, b)
    PROVE  RowPlace(list, a) < RowPlace(list, b)
<1> DEFINE A == NewerThan(list, a)
           B == NewerThan(list, b)
<1>1. A \in SUBSET B
  <2> SUFFICES ASSUME NEW r \in list, Newer(r, a) PROVE Newer(r, b)
    BY DEF NewerThan
  <2> QED BY NewerIsTotal
<1>2. a \in B /\ a \notin A
  BY NewerIsTotal DEF NewerThan
<1>3. /\ IsFiniteSet(A) /\ IsFiniteSet(B) /\ Cardinality(A) \in Nat /\ Cardinality(B) \in Nat
  BY RowPlaceKnown
<1> HIDE DEF A, B
<1>4. Cardinality(A) <= Cardinality(B) /\ (Cardinality(B) = Cardinality(A) => B = A)
  BY <1>1, <1>3, FS_Subset
<1>5. Cardinality(A) < Cardinality(B)
  BY <1>2, <1>3, <1>4
<1> QED BY <1>3, <1>5 DEF RowPlace, A, B

LEMMA RowPlacesOnce ==
    ASSUME NEW list \in SUBSET Row, IsFiniteSet(list)
    PROVE  /\ \A a, b \in list : RowPlace(list, a) = RowPlace(list, b) => a = b
           /\ \A n \in 1 .. Cardinality(list) : \E row \in list : RowPlace(list, row) = n
<1> DEFINE N == Cardinality(list)
           place == [row \in list |-> RowPlace(list, row)]
<1>0. N \in Nat /\ IsFiniteSet(1 .. N) /\ Cardinality(1 .. N) = N
  BY FS_CardinalityType, FS_Interval
<1>1. \A row \in list : RowPlace(list, row) \in 1 .. N
  BY RowPlaceKnown
<1>2. ASSUME NEW a \in list, NEW b \in list, a # b PROVE RowPlace(list, a) # RowPlace(list, b)
  <2>1. Newer(a, b) \/ Newer(b, a)
    BY <1>2, NewerIsTotal
  <2>2. RowPlace(list, a) < RowPlace(list, b) \/ RowPlace(list, b) < RowPlace(list, a)
    BY <2>1, RowPlacesInOrder
  <2>3. RowPlace(list, a) \in Nat /\ RowPlace(list, b) \in Nat
    BY <1>0, <1>1
  <2> QED BY <2>2, <2>3
<1>3. place \in Injection(list, 1 .. N)
  <2>1. place \in [list -> 1 .. N]
    BY <1>1
  <2>2. \A a, b \in list : place[a] = place[b] => a = b
    BY <1>2
  <2> HIDE DEF place
  <2> QED BY <2>1, <2>2 DEF Injection, IsInjective
<1>4. place \in Surjection(list, 1 .. N)
  BY <1>0, <1>3, FS_Injection
<1>5. \A n \in 1 .. N : \E row \in list : place[row] = n
  BY <1>4 DEF Surjection
<1> QED BY <1>2, <1>5

LEMMA NthKnown ==
    ASSUME NEW list \in SUBSET Row, IsFiniteSet(list)
    PROVE  /\ \A n \in 1 .. Cardinality(list) : Nth(list, n) \in list /\ RowPlace(list, Nth(list, n)) = n
           /\ \A row \in list : /\ RowPlace(list, row) \in 1 .. Cardinality(list)
                                /\ Nth(list, RowPlace(list, row)) = row
<1>0. Cardinality(list) \in Nat
  BY FS_CardinalityType
<1>1. ASSUME NEW n \in 1 .. Cardinality(list)
      PROVE  Nth(list, n) \in list /\ RowPlace(list, Nth(list, n)) = n
  <2>1. PICK row \in list : RowPlace(list, row) = n
    BY RowPlacesOnce
  <2>2. Cardinality(NewerThan(list, row)) = n - 1
    BY <1>0, <2>1, RowPlaceKnown DEF RowPlace
  <2>3. Nth(list, n) \in list /\ Cardinality(NewerThan(list, Nth(list, n))) = n - 1
    BY <2>2 DEF Nth
  <2> QED BY <1>0, <2>3 DEF RowPlace
<1>2. ASSUME NEW row \in list
      PROVE  RowPlace(list, row) \in 1 .. Cardinality(list) /\ Nth(list, RowPlace(list, row)) = row
  <2>1. RowPlace(list, row) \in 1 .. Cardinality(list)
    BY RowPlaceKnown
  <2> QED BY <1>1, <2>1, RowPlacesOnce
<1> QED BY <1>1, <1>2

\* A page is of rows behind the cursor, newest first, and before all that it
\* leaves; a page that is not full leaves none.
LEMMA FoundKnown ==
    ASSUME Behind \in SUBSET Row, IsFiniteSet(Behind), NEW take \in Nat
    PROVE  /\ Found(take) \in Seq(Row) /\ Len(Found(take)) \in 0 .. take
           /\ \A i \in 1 .. Len(Found(take)) : Found(take)[i] \in Behind
           /\ \A i, j \in 1 .. Len(Found(take)) : i < j => Newer(Found(take)[i], Found(take)[j])
           /\ \A row \in Behind :
                 \/ \E i \in 1 .. Len(Found(take)) : Found(take)[i] = row
                 \/ /\ Len(Found(take)) = take
                    /\ \A i \in 1 .. Len(Found(take)) : Newer(Found(take)[i], row)
<1> DEFINE N == Cardinality(Behind)
           L == IF N < take THEN N ELSE take
           s == [n \in 1 .. L |-> Nth(Behind, n)]
<1>0. N \in Nat /\ L \in Nat /\ L <= N /\ L <= take /\ (L # take => L = N)
  BY FS_CardinalityType
<1>1. Found(take) = s
  BY DEF Found
<1>2. \A n \in 1 .. N : Nth(Behind, n) \in Behind /\ RowPlace(Behind, Nth(Behind, n)) = n
  BY NthKnown
<1>3. \A row \in Behind : RowPlace(Behind, row) \in 1 .. N /\ Nth(Behind, RowPlace(Behind, row)) = row
  BY NthKnown
<1> HIDE DEF N, L
<1>4. ASSUME NEW a \in Behind, NEW b \in Behind, RowPlace(Behind, a) < RowPlace(Behind, b)
      PROVE  Newer(a, b)
  <2>1. RowPlace(Behind, a) \in Nat /\ RowPlace(Behind, b) \in Nat
    BY <1>0, <1>3
  <2>2. ~Newer(b, a)
    <3> SUFFICES ASSUME Newer(b, a) PROVE FALSE
      OBVIOUS
    <3>1. RowPlace(Behind, b) < RowPlace(Behind, a)
      BY RowPlacesInOrder
    <3> QED BY <1>4, <2>1, <3>1
  <2>3. a # b
    BY <1>4, <2>1
  <2> QED BY <2>2, <2>3, NewerIsTotal
<1>5. \A n \in 1 .. L : s[n] = Nth(Behind, n) /\ n \in 1 .. N
  BY <1>0
<1>6. s \in Seq(Row) /\ Len(s) = L
  <2>1. \A n \in 1 .. L : Nth(Behind, n) \in Row
    BY <1>2, <1>5
  <2> QED BY <1>0, <2>1
<1> HIDE DEF s
<1>7. \A i, j \in 1 .. L : i < j => Newer(s[i], s[j])
  BY <1>2, <1>4, <1>5
<1>8. ASSUME NEW row \in Behind
      PROVE  \/ \E i \in 1 .. L : s[i] = row
             \/ L = take /\ \A i \in 1 .. L : Newer(s[i], row)
  <2> DEFINE n == RowPlace(Behind, row)
  <2>1. n \in 1 .. N /\ Nth(Behind, n) = row
    BY <1>3
  <2>2. CASE n <= L
    BY <1>0, <1>5, <2>1, <2>2
  <2>3. CASE ~(n <= L)
    <3>1. L = take
      BY <1>0, <2>1, <2>3
    <3>2. ASSUME NEW i \in 1 .. L PROVE Newer(s[i], row)
      <4>1. s[i] \in Behind /\ RowPlace(Behind, s[i]) = i
        BY <1>2, <1>5
      <4>2. i < n
        BY <1>0, <2>1, <2>3
      <4> QED BY <1>4, <4>1, <4>2
    <3> QED BY <3>1, <3>2
  <2> QED BY <2>2, <2>3
<1>9. \A i \in 1 .. L : s[i] \in Behind
  BY <1>2, <1>5
<1>10. L \in 0 .. take
  BY <1>0
<1> QED BY <1>1, <1>6, <1>7, <1>8, <1>9, <1>10

-----------------------------------------------------------------------------
(* The walk.                                                               *)

TableKnown ==
    /\ now \in 1 .. Times /\ table \in SUBSET Row /\ IsFiniteSet(table)
    /\ used \subseteq RowIds /\ \A row \in table : row.id \in used

\* The walk is where its last row is, and what it has passed over of the rows
\* that were there all the time it has given.
WalkIsWhere ==
    /\ cursor \in Row \cup {Start, AtEnd} /\ walked \in Seq(Row)
    /\ \A i, j \in 1 .. Len(walked) : i < j => Newer(walked[i], walked[j])
    /\ cursor = Start => walked = <<>> /\ steady = {}
    /\ cursor \in Row => Len(walked) # 0 /\ walked[Len(walked)] = cursor

SteadyIsAhead ==
    /\ steady \subseteq table
    /\ \A row \in steady : (\E i \in 1 .. Len(walked) : walked[i] = row) \/ (cursor \in Row /\ After(row))

PageIInv == TableKnown /\ WalkIsWhere /\ SteadyIsAhead

LEMMA CursorsApart == Start \notin Row /\ AtEnd \notin Row /\ Start # AtEnd
<1>1. \A row \in Row : row.order \in 1 .. Times
  BY DEF Row
<1>2. Start.order = 0 /\ AtEnd.order = -1
  BY DEF Start, AtEnd
<1> QED BY <1>1, <1>2, PageBoundsAreNat

LEMMA AfterIsOlder ==
    ASSUME cursor \in Row, NEW row \in Row PROVE After(row) <=> Newer(cursor, row)
<1>1. /\ cursor.order \in Int /\ row.order \in Int /\ cursor.id \in Int /\ row.id \in Int
  BY RowIsPair
<1>2. cursor # Start
  BY CursorsApart
<1> QED BY <1>1, <1>2 DEF After, Newer

LEMMA PageInitially == PageInit => PageIInv
<1> SUFFICES ASSUME PageInit PROVE PageIInv
  OBVIOUS
<1>1. TableKnown
  BY PageBoundsAreNat, FS_EmptySet DEF PageInit, TableKnown
<1>2. WalkIsWhere
  <2>1. walked = <<>> /\ cursor = Start /\ steady = {}
    BY DEF PageInit
  <2> QED BY <2>1, CursorsApart DEF WalkIsWhere
<1>3. SteadyIsAhead
  BY DEF PageInit, SteadyIsAhead
<1> QED BY <1>1, <1>2, <1>3 DEF PageIInv

LEMMA CreatePreserves ==
    ASSUME PageIInv, NEW id \in RowIds, CreateRow(id) PROVE PageIInv'
<1>0. TableKnown /\ WalkIsWhere /\ SteadyIsAhead
  BY DEF PageIInv
<1> DEFINE row == [order |-> now, id |-> id]
<1>1. /\ used' = used \cup {id} /\ table' = table \cup {row}
      /\ UNCHANGED <<now, cursor, walked, steady>>
  BY DEF CreateRow
<1>2. row \in Row
  BY <1>0 DEF TableKnown, Row
<1>3. row.id = id
  OBVIOUS
<1> HIDE DEF row
<1>4. IsFiniteSet(table \cup {row})
  BY <1>0, FS_AddElement DEF TableKnown
<1>5. TableKnown'
  BY <1>0, <1>1, <1>2, <1>3, <1>4 DEF TableKnown
<1>6. WalkIsWhere'
  BY <1>0, <1>1 DEF WalkIsWhere
<1>7. SteadyIsAhead'
  BY <1>0, <1>1 DEF SteadyIsAhead, After
<1> QED BY <1>5, <1>6, <1>7 DEF PageIInv

LEMMA DeletePreserves ==
    ASSUME PageIInv, NEW row \in table, DeleteRow(row) PROVE PageIInv'
<1>0. TableKnown /\ WalkIsWhere /\ SteadyIsAhead
  BY DEF PageIInv
<1>1. /\ table' = table \ {row} /\ steady' = steady \ {row}
      /\ UNCHANGED <<now, used, cursor, walked>>
  BY DEF DeleteRow
<1>2. IsFiniteSet(table \ {row})
  BY <1>0, FS_RemoveElement DEF TableKnown
<1>3. TableKnown'
  BY <1>0, <1>1, <1>2 DEF TableKnown
<1>4. WalkIsWhere'
  BY <1>0, <1>1 DEF WalkIsWhere
<1>5. SteadyIsAhead'
  BY <1>0, <1>1 DEF SteadyIsAhead, After
<1> QED BY <1>3, <1>4, <1>5 DEF PageIInv

\* A page follows what was walked, and the walk goes on from its last row.
LEMMA NextPagePreserves ==
    ASSUME PageIInv, NEW limit \in 1 .. PageLimit, NextPage(limit) PROVE PageIInv'
<1>0. TableKnown /\ WalkIsWhere /\ SteadyIsAhead
  BY DEF PageIInv
<1> DEFINE found == Found(limit + 1)
           m == IF Len(found) > limit THEN limit ELSE Len(found)
           items == SubSeq(found, 1, m)
<1>1. /\ cursor # AtEnd
      /\ cursor' = IF Len(found) > limit THEN items[Len(items)] ELSE AtEnd
      /\ walked' = walked \o items
      /\ steady' = IF cursor = Start THEN table ELSE steady
      /\ UNCHANGED <<now, table, used>>
  BY DEF NextPage, Take
<1>2. limit \in Nat /\ limit >= 1 /\ limit + 1 \in Nat
  BY PageBoundsAreNat
<1>3. Behind \in SUBSET Row /\ IsFiniteSet(Behind)
  <2>1. Behind \in SUBSET table
    BY DEF Behind
  <2> QED BY <1>0, <2>1, FS_Subset DEF TableKnown
<1>4. /\ found \in Seq(Row) /\ Len(found) \in 0 .. limit + 1
      /\ \A i \in 1 .. Len(found) : found[i] \in Behind
      /\ \A i, j \in 1 .. Len(found) : i < j => Newer(found[i], found[j])
      /\ \A row \in Behind :
            \/ \E i \in 1 .. Len(found) : found[i] = row
            \/ Len(found) = limit + 1 /\ \A i \in 1 .. Len(found) : Newer(found[i], row)
  BY <1>2, <1>3, FoundKnown
<1> HIDE DEF found
<1>5. /\ m \in Nat /\ m <= Len(found) /\ Len(found) \in Nat
      /\ (Len(found) > limit => m = limit) /\ (~(Len(found) > limit) => m = Len(found))
  BY <1>2, <1>4
<1> HIDE DEF m
<1>6. /\ items \in Seq(Row) /\ Len(items) = m /\ \A i \in 1 .. m : items[i] = found[i]
  <2>1. \A i \in 1 .. m : found[i] \in Row
    BY <1>4, <1>5
  <2>2. /\ SubSeq(found, 1, m) \in Seq(Row)
        /\ Len(SubSeq(found, 1, m)) = IF 1 <= m THEN m - 1 + 1 ELSE 0
        /\ \A i \in 1 .. m - 1 + 1 : SubSeq(found, 1, m)[i] = found[1 + i - 1]
    BY <1>5, <2>1, SubSeqProperties
  <2> HIDE DEF items
  <2>3. m - 1 + 1 = m /\ \A i \in 1 .. m : 1 + i - 1 = i
    BY <1>5
  <2> QED BY <1>5, <2>2, <2>3 DEF items
<1> HIDE DEF items
<1>7. walked \in Seq(Row) /\ Len(walked) \in Nat
  BY <1>0 DEF WalkIsWhere
<1> DEFINE k == Len(walked)
           t == walked \o items
<1>8. /\ t \in Seq(Row) /\ Len(t) = k + m
      /\ \A i \in 1 .. k : t[i] = walked[i]
      /\ \A i \in 1 .. m : t[k + i] = found[i]
  <2>1. /\ t \in Seq(Row) /\ Len(t) = k + Len(items)
        /\ \A i \in 1 .. k + Len(items) : t[i] = IF i <= k THEN walked[i] ELSE items[i - k]
    BY <1>6, <1>7, ConcatProperties
  <2> HIDE DEF t
  <2>2. \A i \in 1 .. k : i \in 1 .. k + m /\ i <= k
    BY <1>5, <1>7
  <2>3. \A i \in 1 .. m : k + i \in 1 .. k + m /\ ~(k + i <= k) /\ (k + i) - k = i
    BY <1>5, <1>7
  <2> QED BY <1>6, <2>1, <2>2, <2>3
<1> HIDE DEF t
<1>9. \A i \in 1 .. k + m : i \in 1 .. k \/ \E j \in 1 .. m : i = k + j
  <2> SUFFICES ASSUME NEW i \in 1 .. k + m, i \notin 1 .. k PROVE i - k \in 1 .. m /\ i = k + (i - k)
    OBVIOUS
  <2> QED BY <1>5, <1>7
<1>10. \A i \in 1 .. k, j \in 1 .. m : Newer(walked[i], found[j])
  <2> SUFFICES ASSUME NEW i \in 1 .. k, NEW j \in 1 .. m PROVE Newer(walked[i], found[j])
    OBVIOUS
  <2>1. cursor \in Row /\ walked[k] = cursor /\ k \in 1 .. k
    <3>1. k # 0
      BY <1>7
    <3>2. cursor # Start
      BY <1>0, <3>1 DEF WalkIsWhere
    <3> QED BY <1>0, <1>1, <1>7, <3>1, <3>2 DEF WalkIsWhere
  <2>2. found[j] \in Row /\ After(found[j])
    <3>1. found[j] \in Behind
      BY <1>4, <1>5
    <3> QED BY <1>3, <3>1 DEF Behind
  <2>3. Newer(cursor, found[j])
    BY <2>1, <2>2, AfterIsOlder
  <2>4. i = k \/ Newer(walked[i], cursor)
    BY <1>0, <1>7, <2>1 DEF WalkIsWhere
  <2>5. walked[i] \in Row
    BY <1>7
  <2> QED BY <2>1, <2>2, <2>3, <2>4, <2>5, NewerIsTotal
<1>11. \A i, j \in 1 .. k + m : i < j => Newer(t[i], t[j])
  <2> SUFFICES ASSUME NEW i \in 1 .. k + m, NEW j \in 1 .. k + m, i < j PROVE Newer(t[i], t[j])
    OBVIOUS
  <2>1. CASE j \in 1 .. k
    <3>1. i \in 1 .. k
      BY <1>7, <2>1
    <3> QED BY <1>0, <1>8, <2>1, <3>1 DEF WalkIsWhere
  <2>2. CASE j \notin 1 .. k
    <3>1. PICK q \in 1 .. m : j = k + q
      BY <1>9, <2>2
    <3>2. CASE i \in 1 .. k
      BY <1>8, <1>10, <3>1, <3>2
    <3>3. CASE i \notin 1 .. k
      <4>1. PICK p \in 1 .. m : i = k + p
        BY <1>9, <3>3
      <4>2. p < q /\ p \in 1 .. Len(found) /\ q \in 1 .. Len(found)
        BY <1>5, <1>7, <3>1, <4>1
      <4> QED BY <1>4, <1>8, <3>1, <4>1, <4>2
    <3> QED BY <3>2, <3>3
  <2> QED BY <2>1, <2>2
<1>12. CASE Len(found) > limit
  <2>1. m = limit /\ m \in 1 .. m /\ cursor' = found[m] /\ found[m] \in Row /\ Len(found) = limit + 1
    <3>1. m = limit /\ m \in 1 .. m /\ m \in 1 .. Len(found)
      BY <1>2, <1>5, <1>12
    <3> QED BY <1>1, <1>2, <1>3, <1>4, <1>6, <1>12, <3>1
  <2>2. t[k + m] = cursor' /\ k + m # 0
    BY <1>7, <1>8, <2>1
  <2>3. WalkIsWhere'
    <3>1. cursor' # Start
      BY <2>1, CursorsApart
    <3> HIDE DEF k
    <3>2. walked' = t /\ cursor' \in Row
      BY <1>1, <2>1 DEF t
    <3>3. Len(t) = k + m /\ t \in Seq(Row)
      BY <1>8
    <3> QED BY <1>11, <2>2, <3>1, <3>2, <3>3 DEF WalkIsWhere
  <2>4. SteadyIsAhead'
    <3>1. steady' \subseteq table'
      BY <1>0, <1>1 DEF SteadyIsAhead
    <3>2. ASSUME NEW row \in steady'
          PROVE  (\E i \in 1 .. Len(t) : t[i] = row) \/ Newer(found[m], row)
      <4>1. row \in table /\ row \in Row
        BY <1>0, <1>1, <3>1 DEF TableKnown
      <4>2. CASE \E i \in 1 .. k : walked[i] = row
        <5>1. PICK i \in 1 .. k : walked[i] = row
          BY <4>2
        <5>2. i \in 1 .. Len(t)
          BY <1>5, <1>7, <1>8
        <5> QED BY <1>8, <5>1, <5>2
      <4>3. CASE row \in Behind
        <5>1. CASE \E i \in 1 .. Len(found) : found[i] = row
          <6>1. PICK i \in 1 .. Len(found) : found[i] = row
            BY <5>1
          <6>2. CASE i \in 1 .. m
            <7>1. k + i \in 1 .. Len(t) /\ t[k + i] = row
              BY <1>5, <1>7, <1>8, <6>1, <6>2
            <7> QED BY <7>1
          <6>3. CASE i \notin 1 .. m
            <7>1. m < i /\ m \in 1 .. Len(found)
              BY <1>2, <1>5, <2>1, <6>3
            <7> QED BY <1>4, <6>1, <7>1
          <6> QED BY <6>2, <6>3
        <5>2. CASE ~\E i \in 1 .. Len(found) : found[i] = row
          <6>1. m \in 1 .. Len(found)
            BY <1>5, <2>1
          <6> QED BY <1>4, <4>3, <5>2, <6>1
        <5> QED BY <5>1, <5>2
      <4>4. (\E i \in 1 .. k : walked[i] = row) \/ row \in Behind
        <5>1. CASE cursor = Start
          BY <4>1, <5>1 DEF Behind, After
        <5>2. CASE cursor # Start
          <6>1. row \in steady
            BY <1>1, <5>2
          <6> QED BY <1>0, <4>1, <6>1 DEF SteadyIsAhead, Behind
        <5> QED BY <5>1, <5>2
      <4> QED BY <4>2, <4>3, <4>4
    <3>3. ASSUME NEW row \in steady'
          PROVE  (\E i \in 1 .. Len(walked') : walked'[i] = row) \/ (cursor' \in Row /\ After(row)')
      <4>1. walked' = t
        BY <1>1 DEF t
      <4>2. CASE \E i \in 1 .. Len(t) : t[i] = row
        BY <4>1, <4>2
      <4>3. CASE Newer(found[m], row)
        <5>1. cursor'.order = found[m].order /\ cursor'.id = found[m].id /\ cursor' \in Row
          BY <2>1
        <5>2. /\ found[m].order \in Int /\ row.order \in Int /\ found[m].id \in Int /\ row.id \in Int
          <6>1. row \in Row
            BY <1>0, <1>1, <3>1 DEF TableKnown
          <6> QED BY <2>1, <6>1, RowIsPair
        <5> QED BY <4>3, <5>1, <5>2 DEF After, Newer
      <4> QED BY <3>2, <4>2, <4>3
    <3> QED BY <3>1, <3>3 DEF SteadyIsAhead
  <2> QED BY <1>0, <1>1, <2>3, <2>4 DEF PageIInv, TableKnown
<1>13. CASE ~(Len(found) > limit)
  <2>1. m = Len(found) /\ cursor' = AtEnd /\ Len(found) # limit + 1
    BY <1>1, <1>2, <1>5, <1>13
  <2>2. WalkIsWhere'
    <3> HIDE DEF k
    <3>1. walked' = t /\ cursor' \notin Row /\ cursor' # Start
      BY <1>1, <2>1, CursorsApart DEF t
    <3>2. Len(t) = k + m /\ t \in Seq(Row)
      BY <1>8
    <3> QED BY <1>11, <2>1, <3>1, <3>2 DEF WalkIsWhere
  <2>3. SteadyIsAhead'
    <3>1. steady' \subseteq table'
      BY <1>0, <1>1 DEF SteadyIsAhead
    <3>2. ASSUME NEW row \in steady' PROVE \E i \in 1 .. Len(t) : t[i] = row
      <4>1. row \in table
        BY <1>1, <3>1
      <4>2. CASE \E i \in 1 .. k : walked[i] = row
        <5>1. PICK i \in 1 .. k : walked[i] = row
          BY <4>2
        <5>2. i \in 1 .. Len(t)
          BY <1>5, <1>7, <1>8
        <5> QED BY <1>8, <5>1, <5>2
      <4>3. CASE row \in Behind
        <5>1. PICK i \in 1 .. Len(found) : found[i] = row
          BY <1>4, <2>1, <4>3
        <5>2. k + i \in 1 .. Len(t) /\ t[k + i] = row
          BY <1>5, <1>7, <1>8, <2>1, <5>1
        <5> QED BY <5>2
      <4>4. (\E i \in 1 .. k : walked[i] = row) \/ row \in Behind
        <5>1. CASE cursor = Start
          BY <4>1, <5>1 DEF Behind, After
        <5>2. CASE cursor # Start
          <6>1. row \in steady
            BY <1>1, <5>2
          <6> QED BY <1>0, <4>1, <6>1 DEF SteadyIsAhead, Behind
        <5> QED BY <5>1, <5>2
      <4> QED BY <4>2, <4>3, <4>4
    <3>3. walked' = t
      BY <1>1 DEF t
    <3> QED BY <3>1, <3>2, <3>3 DEF SteadyIsAhead
  <2> QED BY <1>0, <1>1, <2>2, <2>3 DEF PageIInv, TableKnown
<1> QED BY <1>12, <1>13

LEMMA PageInductive == PageIInv /\ [PageNext]_pageVars => PageIInv'
<1> SUFFICES ASSUME PageIInv, [PageNext]_pageVars PROVE PageIInv'
  OBVIOUS
<1>1. ASSUME NEW limit \in 1 .. PageLimit, NextPage(limit) PROVE PageIInv'
  BY <1>1, NextPagePreserves
<1>2. ASSUME NEW id \in RowIds, CreateRow(id) PROVE PageIInv'
  BY <1>2, CreatePreserves
<1>3. ASSUME NEW row \in table, DeleteRow(row) PROVE PageIInv'
  BY <1>3, DeletePreserves
<1>4. CASE TimePasses
  <2>1. /\ now < Times /\ now' = now + 1
        /\ UNCHANGED <<table, used, cursor, walked, steady>>
    BY <1>4 DEF TimePasses
  <2>2. TableKnown'
    BY <2>1, PageBoundsAreNat DEF PageIInv, TableKnown
  <2> QED BY <2>1, <2>2 DEF PageIInv, WalkIsWhere, SteadyIsAhead, After
<1>5. CASE UNCHANGED pageVars
  BY <1>5 DEF pageVars, PageIInv, TableKnown, WalkIsWhere, SteadyIsAhead, After
<1> QED BY <1>1, <1>2, <1>3, <1>4, <1>5 DEF PageNext

LEMMA PageImplied == PageIInv => PageInv
<1> SUFFICES ASSUME PageIInv PROVE PageTypeOK /\ WalkIsWhole
  BY DEF PageInv
<1>0. TableKnown /\ WalkIsWhere /\ SteadyIsAhead
  BY DEF PageIInv
<1>1. PageTypeOK
  BY <1>0 DEF PageTypeOK, TableKnown, WalkIsWhere, SteadyIsAhead
<1>2. walked \in Seq(Row) /\ DOMAIN walked = 1 .. Len(walked)
  BY <1>0 DEF WalkIsWhere
<1>3. ASSUME cursor = AtEnd, NEW row \in steady PROVE Contains(walked, row)
  <2>1. cursor \notin Row
    BY <1>3, CursorsApart
  <2>2. \E i \in 1 .. Len(walked) : walked[i] = row
    BY <1>0, <2>1 DEF SteadyIsAhead
  <2> QED BY <2>2 DEF Contains
<1> QED BY <1>0, <1>1, <1>2, <1>3 DEF WalkIsWhole, WalkIsWhere

\* Whatever is created and deleted between the pages, a walk gives no row
\* twice, the newest first, and in the end all that was there throughout.
THEOREM WalkAlwaysWhole == PageSpec => []PageInv
<1>1. PageSpec => []PageIInv
  BY PageInitially, PageInductive, PTL DEF PageSpec
<1> QED BY <1>1, PageImplied, PTL

=============================================================================
