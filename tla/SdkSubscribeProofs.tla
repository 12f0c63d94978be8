------------------------- MODULE SdkSubscribeProofs -------------------------
(***************************************************************************)
(* Proof, for any number of participants, producers, drops and media       *)
(* resets, that once nothing is under way the viewer consumes every        *)
(* producer of the room, shows whoever it consumes, and is kept from       *)
(* sharing exactly while another shares.                                   *)
(*                                                                         *)
(* A producer is always somewhere between its announcement and its         *)
(* consumer; and what is said of a participant who left comes before       *)
(* whatever is said of a producer that it has made since.                  *)
(***************************************************************************)
EXTENDS SdkSubscribe, FiniteSetTheorems, TLAPS

AnyConsumer == [prod : Producers, n : Nat]
Signals == {"joined-room", "transport-created", "room-media-reset"}
Plain == [ev : Signals]
Told == [ev : Tidings, user : Users]
Existing == [ev : {"existing-peers"}, users : SUBSET Users]
OfProducers == [ev : {"new-producer"}, prod : Producers]
OfConsumers == [ev : {"consumer-created", "consumer-closed"}, cons : AnyConsumer]
AnyEvent == Plain \cup Told \cup Existing \cup OfProducers \cup OfConsumers

Typed ==
    /\ seat \in [Users -> {"out", "in", "held"}]
    /\ peersWithMedia \subseteq {u \in Users : seat[u] = "in"}
    /\ prods \subseteq past /\ past \subseteq Producers
    /\ acked \in BOOLEAN /\ entry \in BOOLEAN /\ srecv \in BOOLEAN /\ recv \in BOOLEAN
    /\ blocked \in BOOLEAN /\ made \in Nat /\ loads \in Nat
    /\ wire \in Seq(AnyEvent) /\ reqs \in Seq(Requests) /\ pending \in Seq(Producers)
    /\ device \in {"none", "loading", "loaded"}
    /\ peers \subseteq Users /\ attached \subseteq Producers /\ detached \subseteq peers
    /\ \A p \in attached : Owner[p] \in peers
    /\ sconsumers \subseteq AnyConsumer /\ creating \subseteq AnyConsumer /\ consumers \subseteq AnyConsumer
    /\ shown \subseteq Users \cup {Nobody} /\ offline \subseteq shown
    /\ IsFiniteSet(prods) /\ IsFiniteSet(sconsumers)

\* Lists: what comes before what, and the last word of one on a matter.
Before(s, a, b) == \E i, j \in DOMAIN s : i < j /\ s[i] = a /\ s[j] = b
Silent(s, S) == \A i \in DOMAIN s : s[i] \notin S
Word(s, e, S) ==
    \E i \in DOMAIN s : s[i] = e /\ s[i] \in S /\ \A j \in DOMAIN s : j > i => s[j] \notin S

\* The events under way, and the producers the viewer or the server knows
\* something of: where each is between its announcement and its consumer.
Coming == Range(wire)
Announced == {p \in Producers : Announcement(p) \in Coming}
Asked == {p \in Producers : Consumption(p) \in Range(reqs)}
Created == {p \in Producers : \E e \in Coming : e.ev = "consumer-created" /\ e.cons.prod = p}
Consumed == {c.prod : c \in creating \cup consumers}
Known == attached \cup Range(pending) \cup Asked \cup Created \cup Consumed
             \cup {c.prod : c \in sconsumers}

\* A consumer is one that was made.
ConsumersWereMade ==
    /\ \A c \in sconsumers \cup creating \cup consumers : c.n \in 1 .. made
    /\ \A e \in Coming : e \in OfConsumers => e.cons.n \in 1 .. made

\* Nothing is under way to or from a viewer that is away.
AwayIsEmpty ==
    /\ ~acked => /\ wire = <<>> /\ reqs = <<>> /\ pending = <<>> /\ ~entry /\ ~recv /\ ~blocked
                 /\ device = "none" /\ attached = {} /\ creating = {} /\ consumers = {}
    /\ ~entry => ~srecv

PastIsKnown == Known \cup Announced \subseteq past

DeviceLoads ==
    /\ device = "loading" => loads > 0
    /\ device = "loaded" => loads = 0
    /\ recv => device = "loaded" /\ pending = <<>>

\* Nothing but the list of the others comes before the acceptance.
Joined == Signal("joined-room")
JoinedIsFirst ==
    Joined \in Coming =>
        /\ device = "none"
        /\ \A e \in AnyEvent : Before(wire, e, Joined) => e.ev = "existing-peers"

\* A viewer with an entry has a receiving transport, or what leads to one is
\* under way.
Transport == Signal("transport-created")
Reset == Signal("room-media-reset")
Wanted == Signal("create-recv-transport")
TransportComes ==
    entry =>
        /\ Reset \notin Coming
        /\ device = "none" => Joined \in Coming
        /\ device = "loaded" /\ ~recv => Wanted \in Range(reqs) \/ Transport \in Coming
        /\ recv \/ Transport \in Coming => srecv
        /\ Asked \cup Created # {} => recv

UnderWay == srecv => prods \subseteq Announced \cup Range(pending) \cup Asked \cup Created \cup Consumed

ClosedIsOver == \A e \in Coming : e.ev = "consumer-closed" => e.cons.prod \in past \ prods

\* Word of a departure comes before any of a producer that there is.
Leaving(u) == {About("peer-left", u), About("peer-media-detached", u)}
LeavesFirst ==
    entry => \A p \in prods : \A e \in Leaving(Owner[p]) :
        e \in Coming => p \notin Known /\ ~Before(wire, Announcement(p), e)

ShownAsConsumed ==
    entry =>
        /\ prods \cap (Asked \cup Created \cup Consumed) \subseteq attached
        /\ \A c \in consumers : c.prod \in prods => Owner[c.prod] \in shown \ offline

\* The last word on sharing that is under way is true, and so is what the
\* viewer believes if there is none.
Starts == {About("screen-share-started", u) : u \in Users} \cup {Announcement(p) : p \in Screens}
Stops == {About("screen-share-stopped", u) : u \in Users}
Sharing == Starts \cup Stops
Shared == prods \cap Screens # {}

OneScreen == \A p, q \in prods \cap Screens : p = q
BlockedWhileShared ==
    /\ OneScreen
    /\ entry =>
          /\ \A e : Word(wire, e, Sharing) => (e \in Starts <=> Shared)
          /\ Silent(wire, Sharing) => (blocked => Shared) /\ (Shared /\ srecv => blocked)

ViewIInv ==
    /\ Typed /\ ConsumersWereMade /\ AwayIsEmpty /\ PastIsKnown /\ DeviceLoads /\ JoinedIsFirst
    /\ TransportComes /\ UnderWay /\ ClosedIsOver /\ LeavesFirst /\ ShownAsConsumed
    /\ BlockedWhileShared

-----------------------------------------------------------------------------
(* Lists.                                                                  *)

Joins(w, s, t) == w = s \o t

LEMMA WhatJoins ==
    ASSUME NEW S, NEW s \in Seq(S), NEW t \in Seq(S), NEW w, Joins(w, s, t)
    PROVE  /\ w \in Seq(S) /\ Range(w) = Range(s) \cup Range(t)
           /\ \A a, b : Before(w, a, b) =>
                 Before(s, a, b) \/ Before(t, a, b) \/ (a \in Range(s) /\ b \in Range(t))
           /\ \A x, T : Word(w, x, T) => Word(t, x, T) \/ (Silent(t, T) /\ Word(s, x, T))
           /\ \A T : Silent(w, T) => Silent(s, T) /\ Silent(t, T)
<1> DEFINE m == Len(s)
           n == Len(t)
<1>1. /\ w \in Seq(S) /\ m \in Nat /\ n \in Nat /\ DOMAIN s = 1 .. m /\ DOMAIN t = 1 .. n
      /\ DOMAIN w = 1 .. m + n
  BY DEF Joins
<1>2. /\ \A i \in 1 .. m : w[i] = s[i]
      /\ \A i \in 1 .. n : w[m + i] = t[i]
  BY <1>1 DEF Joins
<1> HIDE DEF m, n
<1>3. \A i \in DOMAIN s : i \in DOMAIN w /\ w[i] = s[i]
  BY <1>1, <1>2
<1>4. \A i \in DOMAIN t : m + i \in DOMAIN w /\ w[m + i] = t[i]
  BY <1>1, <1>2
<1>5. \A i \in DOMAIN w : i \notin DOMAIN s => i > m /\ i - m \in DOMAIN t /\ w[i] = t[i - m]
  <2> SUFFICES ASSUME NEW i \in DOMAIN w, i \notin DOMAIN s
               PROVE  i > m /\ i - m \in DOMAIN t /\ w[i] = t[i - m]
    OBVIOUS
  <2>1. i > m /\ i - m \in DOMAIN t /\ m + (i - m) = i
    BY <1>1
  <2> QED BY <2>1, <1>4
<1>6. \A i \in DOMAIN s, j \in DOMAIN w : j \notin DOMAIN s => i < j
  BY <1>1
<1>7. Range(w) = Range(s) \cup Range(t)
  <2>1. \A i \in DOMAIN w : w[i] \in Range(s) \cup Range(t)
    BY <1>3, <1>5 DEF Range
  <2>2. \A i \in DOMAIN s : s[i] \in Range(w)
    BY <1>3 DEF Range
  <2>3. \A i \in DOMAIN t : t[i] \in Range(w)
    BY <1>4 DEF Range
  <2> QED BY <2>1, <2>2, <2>3 DEF Range
<1>8. ASSUME NEW a, NEW b, Before(w, a, b)
      PROVE  Before(s, a, b) \/ Before(t, a, b) \/ (a \in Range(s) /\ b \in Range(t))
  <2>1. PICK i \in DOMAIN w, j \in DOMAIN w : i < j /\ w[i] = a /\ w[j] = b
    BY <1>8 DEF Before
  <2>2. CASE j \in DOMAIN s
    <3>1. i \in DOMAIN s
      BY <2>1, <2>2, <1>1
    <3> QED BY <2>1, <2>2, <3>1, <1>3 DEF Before
  <2>3. CASE j \notin DOMAIN s /\ i \in DOMAIN s
    BY <2>1, <2>3, <1>3, <1>5 DEF Range
  <2>4. CASE j \notin DOMAIN s /\ i \notin DOMAIN s
    <3>1. /\ i - m \in DOMAIN t /\ j - m \in DOMAIN t /\ t[i - m] = a /\ t[j - m] = b
      BY <2>1, <2>4, <1>5
    <3>2. i - m < j - m
      BY <2>1, <1>1
    <3> QED BY <3>1, <3>2 DEF Before
  <2> QED BY <2>2, <2>3, <2>4
<1>9. ASSUME NEW T, Silent(w, T) PROVE Silent(s, T) /\ Silent(t, T)
  BY <1>9, <1>3, <1>4 DEF Silent
<1>10. ASSUME NEW x, NEW T, Word(w, x, T)
       PROVE  Word(t, x, T) \/ (Silent(t, T) /\ Word(s, x, T))
  <2>1. PICK i \in DOMAIN w : w[i] = x /\ w[i] \in T /\ \A j \in DOMAIN w : j > i => w[j] \notin T
    BY <1>10 DEF Word
  <2>2. CASE i \in DOMAIN s
    <3>1. \A j \in DOMAIN t : t[j] \notin T
      <4> SUFFICES ASSUME NEW j \in DOMAIN t PROVE t[j] \notin T
        OBVIOUS
      <4>1. m + j \in DOMAIN w /\ m + j > i
        BY <2>2, <1>1
      <4> QED BY <4>1, <2>1, <1>4
    <3>2. \A j \in DOMAIN s : j > i => s[j] \notin T
      BY <2>1, <1>3
    <3> QED BY <2>1, <2>2, <3>1, <3>2, <1>3 DEF Word, Silent
  <2>3. CASE i \notin DOMAIN s
    <3>1. i - m \in DOMAIN t /\ t[i - m] = x /\ t[i - m] \in T
      BY <2>1, <2>3, <1>5
    <3>2. \A j \in DOMAIN t : j > i - m => t[j] \notin T
      <4> SUFFICES ASSUME NEW j \in DOMAIN t, j > i - m PROVE t[j] \notin T
        OBVIOUS
      <4>1. m + j \in DOMAIN w /\ m + j > i
        BY <1>1
      <4> QED BY <4>1, <2>1, <1>4
    <3> QED BY <3>1, <3>2 DEF Word
  <2> QED BY <2>2, <2>3
<1> QED BY <1>1, <1>7, <1>8, <1>9, <1>10

Reads(s, h, t) == s # <<>> /\ h = Head(s) /\ t = Tail(s)

LEMMA WhatShrinks ==
    ASSUME NEW S, NEW s \in Seq(S), NEW h, NEW t, Reads(s, h, t)
    PROVE  /\ t \in Seq(S) /\ h \in S /\ Range(s) = Range(t) \cup {h}
           /\ \A a, b : Before(t, a, b) => Before(s, a, b)
           /\ \A b \in Range(t) : Before(s, h, b)
           /\ \A x, T : Word(t, x, T) => Word(s, x, T)
           /\ \A T : Silent(t, T) => IF h \in T THEN Word(s, h, T) ELSE Silent(s, T)
<1> DEFINE n == Len(s)
<1>1. /\ t \in Seq(S) /\ n \in Nat \ {0} /\ DOMAIN s = 1 .. n /\ DOMAIN t = 1 .. n - 1
      /\ h = s[1] /\ h \in S
  BY DEF Reads
<1>2. \A i \in DOMAIN t : t[i] = s[i + 1]
  BY DEF Reads
<1> HIDE DEF n
<1>3. \A i \in DOMAIN t : i + 1 \in DOMAIN s /\ s[i + 1] = t[i]
  BY <1>1, <1>2
<1>4. \A i \in DOMAIN s : i # 1 => i - 1 \in DOMAIN t /\ t[i - 1] = s[i]
  <2> SUFFICES ASSUME NEW i \in DOMAIN s, i # 1 PROVE i - 1 \in DOMAIN t /\ t[i - 1] = s[i]
    OBVIOUS
  <2>1. i - 1 \in DOMAIN t /\ (i - 1) + 1 = i
    BY <1>1
  <2> QED BY <2>1, <1>2
<1>5. 1 \in DOMAIN s
  BY <1>1
<1>6. Range(s) = Range(t) \cup {h}
  <2>1. \A i \in DOMAIN s : s[i] \in Range(t) \cup {h}
    <3> SUFFICES ASSUME NEW i \in DOMAIN s PROVE s[i] \in Range(t) \cup {h}
      OBVIOUS
    <3>1. CASE i = 1
      BY <1>1, <3>1
    <3>2. CASE i # 1
      BY <1>4, <3>2 DEF Range
    <3> QED BY <3>1, <3>2
  <2>2. \A i \in DOMAIN t : t[i] \in Range(s)
    BY <1>3 DEF Range
  <2>3. h \in Range(s)
    BY <1>1, <1>5 DEF Range
  <2> QED BY <2>1, <2>2, <2>3 DEF Range
<1>7. ASSUME NEW a, NEW b, Before(t, a, b) PROVE Before(s, a, b)
  <2>1. PICK i \in DOMAIN t, j \in DOMAIN t : i < j /\ t[i] = a /\ t[j] = b
    BY <1>7 DEF Before
  <2>2. i + 1 < j + 1
    BY <2>1, <1>1
  <2> QED BY <2>1, <2>2, <1>3 DEF Before
<1>8. ASSUME NEW b \in Range(t) PROVE Before(s, h, b)
  <2>1. PICK i \in DOMAIN t : t[i] = b
    BY DEF Range
  <2>2. 1 < i + 1
    BY <1>1
  <2> QED BY <2>1, <2>2, <1>1, <1>3, <1>5 DEF Before
<1>9. ASSUME NEW x, NEW T, Word(t, x, T) PROVE Word(s, x, T)
  <2>1. PICK i \in DOMAIN t : t[i] = x /\ t[i] \in T /\ \A j \in DOMAIN t : j > i => t[j] \notin T
    BY <1>9 DEF Word
  <2>2. \A j \in DOMAIN s : j > i + 1 => s[j] \notin T
    <3> SUFFICES ASSUME NEW j \in DOMAIN s, j > i + 1 PROVE s[j] \notin T
      OBVIOUS
    <3>1. j # 1 /\ j - 1 > i
      BY <1>1
    <3> QED BY <3>1, <2>1, <1>4
  <2> QED BY <2>1, <2>2, <1>3 DEF Word
<1>10. ASSUME NEW T, Silent(t, T) PROVE IF h \in T THEN Word(s, h, T) ELSE Silent(s, T)
  <2>1. \A i \in DOMAIN s : i # 1 => s[i] \notin T
    BY <1>10, <1>4 DEF Silent
  <2>2. \A i \in DOMAIN s : i > 1 => i # 1
    BY <1>1
  <2> QED BY <2>1, <2>2, <1>1, <1>5 DEF Silent, Word
<1> QED BY <1>1, <1>6, <1>7, <1>8, <1>9, <1>10

LEMMA NothingIn ==
    /\ Range(<<>>) = {} /\ (\A S : <<>> \in Seq(S)) /\ (\A T : Silent(<<>>, T))
    /\ \A x, T : ~Word(<<>>, x, T)
    /\ \A a, b : ~Before(<<>>, a, b)
<1>1. DOMAIN <<>> = {}
  OBVIOUS
<1> QED BY <1>1 DEF Range, Silent, Word, Before

LEMMA OneIn ==
    ASSUME NEW e
    PROVE  /\ Range(<<e>>) = {e} /\ \A S : e \in S => <<e>> \in Seq(S)
           /\ \A a, b : ~Before(<<e>>, a, b)
<1>1. DOMAIN <<e>> = {1} /\ <<e>>[1] = e
  OBVIOUS
<1> QED BY <1>1 DEF Range, Before

LEMMA WordsAreIn ==
    ASSUME NEW s
    PROVE  /\ \A x, T : Word(s, x, T) => x \in Range(s) /\ x \in T
           /\ \A T : Silent(s, T) <=> \A x \in Range(s) : x \notin T
           /\ \A a, b : Before(s, a, b) => a \in Range(s) /\ b \in Range(s)
BY DEF Word, Silent, Range, Before

\* A finite set, listed.
LEMMA ListsAll ==
    ASSUME NEW S, IsFiniteSet(S)
    PROVE  SetToSeq(S) \in Seq(S) /\ Range(SetToSeq(S)) = S
<1> DEFINE n == Cardinality(S)
<1>1. n \in Nat /\ Cardinality(1 .. n) = n /\ IsFiniteSet(1 .. n)
  BY FS_CardinalityType, FS_Interval
<1>2. ExistsBijection(1 .. n, S)
  BY <1>1, FS_SameCardinalityBij
<1>3. PICK f : f \in Bijection(1 .. n, S)
  BY <1>2 DEF ExistsBijection
<1>4. f \in [1 .. n -> S] /\ IsInjective(f)
  BY <1>3 DEF Bijection, Injection, IsInjective
<1> DEFINE g == SetToSeq(S)
<1>5. g \in [1 .. n -> S] /\ IsInjective(g)
  BY <1>4 DEF SetToSeq
<1> HIDE DEF g, n
<1>6. g \in Injection(1 .. n, S)
  BY <1>5 DEF Injection, IsInjective
<1>7. g \in Surjection(1 .. n, S)
  BY <1>1, <1>6, FS_Injection DEF n
<1>8. Range(g) = S /\ g \in Seq(S)
  BY <1>1, <1>5, <1>7 DEF Surjection, Range
<1> QED BY <1>8 DEF g

LEMMA FiniteImage ==
    ASSUME NEW S, IsFiniteSet(S), NEW T, NEW f \in [S -> T], \A y \in T : \E x \in S : f[x] = y
    PROVE  IsFiniteSet(T)
<1>1. f \in Surjection(S, T)
  BY DEF Surjection
<1> QED BY <1>1, FS_Surjection

-----------------------------------------------------------------------------
(* What is said: each event is of one kind.                                *)

LEMMA SignalsAre ==
    /\ Joined \in AnyEvent /\ Joined.ev = "joined-room"
    /\ Transport \in AnyEvent /\ Transport.ev = "transport-created"
    /\ Reset \in AnyEvent /\ Reset.ev = "room-media-reset"
BY DEF Joined, Transport, Reset, Signal, AnyEvent, Plain, Signals

LEMMA TidingsAre ==
    ASSUME NEW ev \in Tidings, NEW u \in Users
    PROVE  /\ About(ev, u) \in AnyEvent /\ About(ev, u) \notin OfConsumers
           /\ About(ev, u).ev = ev /\ About(ev, u).user = u
<1>1. About(ev, u) \in Told
  BY DEF About, Told
<1>2. ev \notin {"consumer-created", "consumer-closed"}
  BY DEF Tidings
<1> QED BY <1>1, <1>2 DEF About, AnyEvent, OfConsumers

LEMMA AnnouncementsAre ==
    ASSUME NEW p \in Producers
    PROVE  /\ Announcement(p) \in AnyEvent /\ Announcement(p) \notin OfConsumers
           /\ Announcement(p).ev = "new-producer" /\ Announcement(p).prod = p
<1>1. Announcement(p) \in OfProducers
  BY DEF Announcement, OfProducers
<1> QED BY <1>1 DEF Announcement, AnyEvent, OfConsumers

LEMMA ConsumersAre ==
    ASSUME NEW ev \in {"consumer-created", "consumer-closed"}, NEW c \in AnyConsumer
    PROVE  /\ OfConsumer(ev, c) \in AnyEvent /\ OfConsumer(ev, c).ev = ev /\ OfConsumer(ev, c).cons = c
<1>1. OfConsumer(ev, c) \in OfConsumers
  BY DEF OfConsumer, OfConsumers
<1> QED BY <1>1 DEF OfConsumer, AnyEvent

LEMMA ExistingAre ==
    ASSUME NEW us \in SUBSET Users, NEW e, e = [ev |-> "existing-peers", users |-> us]
    PROVE  e \in AnyEvent /\ e \notin OfConsumers /\ e.ev = "existing-peers"
<1>1. e \in Existing
  BY DEF Existing
<1> QED BY <1>1 DEF AnyEvent, OfConsumers

\* What an event of a kind is about.
LEMMA ToldIs ==
    ASSUME NEW e \in AnyEvent, e.ev \in Tidings
    PROVE  e.user \in Users /\ e = About(e.ev, e.user)
<1>1. e \in Told
  BY DEF AnyEvent, Plain, Signals, Existing, OfProducers, OfConsumers, Tidings
<1> QED BY <1>1 DEF Told, About

LEMMA NewProducerIs ==
    ASSUME NEW e \in AnyEvent, e.ev = "new-producer"
    PROVE  e.prod \in Producers /\ e = Announcement(e.prod)
<1>1. e \in OfProducers
  BY DEF AnyEvent, Plain, Signals, Existing, Told, OfConsumers, Tidings
<1> QED BY <1>1 DEF OfProducers, Announcement

LEMMA OfConsumerIs ==
    ASSUME NEW e \in AnyEvent, e.ev \in {"consumer-created", "consumer-closed"}
    PROVE  e \in OfConsumers /\ e.cons \in AnyConsumer /\ e.cons.prod \in Producers
<1>1. e \in OfConsumers
  BY DEF AnyEvent, Plain, Signals, Existing, Told, OfProducers, Tidings
<1> QED BY <1>1 DEF OfConsumers, AnyConsumer

LEMMA ExistingIs ==
    ASSUME NEW e \in AnyEvent, e.ev = "existing-peers"
    PROVE  e.users \in SUBSET Users
<1>1. e \in Existing
  BY DEF AnyEvent, Plain, Signals, OfProducers, Told, OfConsumers, Tidings
<1> QED BY <1>1 DEF Existing

LEMMA SignalIs ==
    ASSUME NEW e \in AnyEvent, e.ev \in Signals
    PROVE  e = Signal(e.ev)
<1>1. e \in Plain
  BY DEF AnyEvent, Existing, OfProducers, Told, OfConsumers, Tidings, Signals
<1> QED BY <1>1 DEF Plain, Signal

\* The words on sharing, and those of a departure.
LEMMA SharingIs ==
    /\ \A e \in Starts : e.ev \in {"screen-share-started", "new-producer"}
    /\ \A e \in Stops : e.ev = "screen-share-stopped"
    /\ \A u \in Users : About("screen-share-started", u) \in Starts
    /\ \A u \in Users : About("screen-share-stopped", u) \in Stops
    /\ \A p \in Producers : Announcement(p) \in Starts <=> p \in Screens
    /\ Sharing = Starts \cup Stops
<1>1. Screens \subseteq Producers
  BY OwnersAreUsers
<1>2. \A u \in Users : /\ About("screen-share-started", u).ev = "screen-share-started"
                       /\ About("screen-share-stopped", u).ev = "screen-share-stopped"
  BY TidingsAre DEF Tidings
<1>3. \A p \in Producers : Announcement(p).ev = "new-producer" /\ Announcement(p).prod = p
  BY AnnouncementsAre
<1>4. \A e \in Starts : e.ev \in {"screen-share-started", "new-producer"}
  BY <1>1, <1>2, <1>3 DEF Starts
<1>5. ASSUME NEW p \in Producers PROVE Announcement(p) \in Starts <=> p \in Screens
  <2>1. ASSUME NEW u \in Users PROVE Announcement(p) # About("screen-share-started", u)
    <3>1. Announcement(p).ev = "new-producer" /\ About("screen-share-started", u).ev = "screen-share-started"
      BY <1>2, <1>3
    <3> QED BY <3>1
  <2>2. \A q \in Screens : Announcement(p) = Announcement(q) => p = q
    BY <1>1, <1>3
  <2> QED BY <2>1, <2>2 DEF Starts
<1> QED BY <1>2, <1>4, <1>5 DEF Starts, Stops, Sharing

LEMMA LeavingIs ==
    ASSUME NEW u \in Users
    PROVE  \A e \in Leaving(u) : e \in AnyEvent /\ e.ev \in {"peer-left", "peer-media-detached"} /\ e.user = u
BY TidingsAre DEF Leaving, Tidings

LEMMA RequestsAre ==
    /\ Wanted \in Requests /\ Wanted.ev = "create-recv-transport"
    /\ \A p \in Producers : /\ Consumption(p) \in Requests
                            /\ Consumption(p).ev = "consume" /\ Consumption(p).prod = p
    /\ \A r \in Requests : r.ev = "consume" => r.prod \in Producers /\ r = Consumption(r.prod)
    /\ \A r \in Requests : r.ev = "create-recv-transport" => r = Wanted
<1>1. \A p \in Producers : Consumption(p) = [ev |-> "consume", prod |-> p]
  BY DEF Consumption
<1>2. Wanted = [ev |-> "create-recv-transport"]
  BY DEF Wanted, Signal
<1>3. Requests = {Wanted} \cup {Consumption(p) : p \in Producers}
  BY DEF Requests, Wanted
<1> QED BY <1>1, <1>2, <1>3

-----------------------------------------------------------------------------
(* What the viewer hears of and what it takes.                             *)

LEMMA WireGrows ==
    ASSUME Typed, NEW more \in Seq(AnyEvent), wire' = wire \o more
    PROVE  /\ wire' \in Seq(AnyEvent) /\ Coming' = Coming \cup Range(more)
           /\ Announced' = Announced \cup {p \in Producers : Announcement(p) \in Range(more)}
           /\ Created' = Created \cup {p \in Producers :
                             \E e \in Range(more) : e.ev = "consumer-created" /\ e.cons.prod = p}
           /\ \A a, b : Before(wire', a, b) =>
                 Before(wire, a, b) \/ Before(more, a, b) \/ (a \in Coming /\ b \in Range(more))
           /\ \A x, T : Word(wire', x, T) => Word(more, x, T) \/ (Silent(more, T) /\ Word(wire, x, T))
           /\ \A T : Silent(wire', T) => Silent(wire, T) /\ Silent(more, T)
<1>1. wire \in Seq(AnyEvent) /\ Joins(wire', wire, more)
  BY DEF Typed, Joins
<1>2. /\ wire' \in Seq(AnyEvent) /\ Range(wire') = Range(wire) \cup Range(more)
      /\ \A a, b : Before(wire', a, b) =>
            Before(wire, a, b) \/ Before(more, a, b) \/ (a \in Range(wire) /\ b \in Range(more))
      /\ \A x, T : Word(wire', x, T) => Word(more, x, T) \/ (Silent(more, T) /\ Word(wire, x, T))
      /\ \A T : Silent(wire', T) => Silent(wire, T) /\ Silent(more, T)
  BY <1>1, WhatJoins
<1>3. Coming' = Coming \cup Range(more)
  BY <1>2 DEF Coming
<1> QED BY <1>2, <1>3 DEF Coming, Announced, Created

LEMMA WireIsRead ==
    ASSUME Typed, wire # <<>>, wire' = Tail(wire), NEW h, h = Head(wire)
    PROVE  /\ wire' \in Seq(AnyEvent) /\ h \in AnyEvent /\ Coming = Coming' \cup {h}
           /\ Announced = Announced' \cup {p \in Producers : h = Announcement(p)}
           /\ Created = Created' \cup {p \in Producers : h.ev = "consumer-created" /\ h.cons.prod = p}
           /\ \A a, b : Before(wire', a, b) => Before(wire, a, b)
           /\ \A b \in Coming' : Before(wire, h, b)
           /\ \A x, T : Word(wire', x, T) => Word(wire, x, T)
           /\ \A T : Silent(wire', T) => IF h \in T THEN Word(wire, h, T) ELSE Silent(wire, T)
<1>1. wire \in Seq(AnyEvent) /\ Reads(wire, h, wire')
  BY DEF Typed, Reads
<1>2. /\ wire' \in Seq(AnyEvent) /\ h \in AnyEvent /\ Range(wire) = Range(wire') \cup {h}
      /\ \A a, b : Before(wire', a, b) => Before(wire, a, b)
      /\ \A b \in Range(wire') : Before(wire, h, b)
      /\ \A x, T : Word(wire', x, T) => Word(wire, x, T)
      /\ \A T : Silent(wire', T) => IF h \in T THEN Word(wire, h, T) ELSE Silent(wire, T)
  BY <1>1, WhatShrinks
<1>3. Coming = Coming' \cup {h}
  BY <1>2 DEF Coming
<1> QED BY <1>2, <1>3 DEF Coming, Announced, Created

LEMMA RequestsGrow ==
    ASSUME Typed, NEW more \in Seq(Requests), reqs' = reqs \o more
    PROVE  /\ reqs' \in Seq(Requests) /\ Range(reqs') = Range(reqs) \cup Range(more)
           /\ Asked' = Asked \cup {p \in Producers : Consumption(p) \in Range(more)}
<1>1. reqs \in Seq(Requests) /\ Joins(reqs', reqs, more)
  BY DEF Typed, Joins
<1>2. reqs' \in Seq(Requests) /\ Range(reqs') = Range(reqs) \cup Range(more)
  BY <1>1, WhatJoins
<1> QED BY <1>2 DEF Asked

LEMMA RequestIsServed ==
    ASSUME Typed, NEW what, Serve(what), NEW r, r = Head(reqs)
    PROVE  /\ reqs' \in Seq(Requests) /\ r \in Requests /\ r.ev = what
           /\ Range(reqs) = Range(reqs') \cup {r} /\ acked \in BOOLEAN
           /\ Asked = Asked' \cup {p \in Producers : r = Consumption(p)}
<1>1. reqs \in Seq(Requests) /\ Reads(reqs, r, reqs') /\ r.ev = what
  BY DEF Typed, Serve, Reads
<1>2. reqs' \in Seq(Requests) /\ r \in Requests /\ Range(reqs) = Range(reqs') \cup {r}
  BY <1>1, WhatShrinks
<1> QED BY <1>1, <1>2 DEF Asked, Typed

-----------------------------------------------------------------------------
(* The beginning.                                                          *)

LEMMA ViewInit == Init => ViewIInv
<1> SUFFICES ASSUME Init PROVE ViewIInv
  OBVIOUS
<1>1. /\ wire = <<Joined>> /\ reqs = <<>> /\ pending = <<>> /\ creating = {} /\ consumers = {}
      /\ sconsumers = {} /\ attached = {} /\ prods = {} /\ past = {} /\ made = 0 /\ loads = 0
      /\ acked = TRUE /\ entry = TRUE /\ srecv = FALSE /\ recv = FALSE /\ blocked = FALSE
      /\ device = "none" /\ peers = {} /\ detached = {} /\ shown = {} /\ offline = {}
      /\ seat = [u \in Users |-> "out"] /\ peersWithMedia = {}
  BY DEF Init, EmptyRegistry, EmptyUnit, EmptyRoomState, Joined
<1>2. Coming = {Joined} /\ wire \in Seq(AnyEvent)
  BY <1>1, OneIn, SignalsAre DEF Coming
<1>3. \A a, b : ~Before(wire, a, b)
  BY <1>1, OneIn
<1>4. Range(reqs) = {} /\ Range(pending) = {}
  BY <1>1, NothingIn
<1>5. Asked = {} /\ Created = {} /\ Announced = {} /\ Consumed = {}
  <2>1. Created = {}
    BY <1>2, SignalsAre DEF Created
  <2>2. Announced = {}
    BY <1>2, SignalsAre, AnnouncementsAre DEF Announced
  <2> QED BY <1>1, <1>4, <2>1, <2>2 DEF Asked, Consumed
<1>6. Known = {}
  BY <1>1, <1>4, <1>5 DEF Known
<1>7. Typed
  <2>1. reqs \in Seq(Requests) /\ pending \in Seq(Producers)
    BY <1>1, NothingIn
  <2>2. IsFiniteSet(prods) /\ IsFiniteSet(sconsumers)
    BY <1>1, FS_EmptySet
  <2> QED BY <1>1, <1>2, <2>1, <2>2 DEF Typed
<1>8. ConsumersWereMade
  <2>1. Joined \notin OfConsumers
    BY SignalsAre DEF OfConsumers
  <2> QED BY <1>1, <1>2, <2>1 DEF ConsumersWereMade
<1>9. AwayIsEmpty /\ DeviceLoads /\ UnderWay
  BY <1>1 DEF AwayIsEmpty, DeviceLoads, UnderWay
<1>10. PastIsKnown /\ JoinedIsFirst
  BY <1>1, <1>3, <1>5, <1>6 DEF PastIsKnown, JoinedIsFirst
<1>11. TransportComes
  BY <1>1, <1>2, <1>5, SignalsAre DEF TransportComes
<1>12. ClosedIsOver /\ LeavesFirst /\ ShownAsConsumed
  BY <1>1, <1>2, SignalsAre DEF ClosedIsOver, LeavesFirst, ShownAsConsumed
<1>13. BlockedWhileShared
  <2>1. Joined \notin Sharing
    BY SignalsAre, SharingIs
  <2>2. \A e : ~Word(wire, e, Sharing)
    BY <1>2, <2>1, WordsAreIn DEF Coming
  <2> QED BY <1>1, <2>2 DEF BlockedWhileShared, OneScreen, Shared
<1> QED BY <1>7, <1>8, <1>9, <1>10, <1>11, <1>12, <1>13 DEF ViewIInv

-----------------------------------------------------------------------------
(* The others on the server.  All they do but to produce ends producers,   *)
(* maybe none, and tells of it.                                            *)

\* What may be told when the producers `ended' are gone.
MayTell(e, ended) ==
    /\ e \in AnyEvent
    /\ \/ e.ev \in {"peer-joined", "producer-state-changed", "screen-share-stopped"}
       \/ e.ev \in {"peer-left", "peer-media-detached"} /\ \A p \in prods \ ended : Owner[p] # e.user
       \/ e.ev = "consumer-closed" /\ e.cons \in sconsumers /\ e.cons.prod \in ended

Ends(ended, more) ==
    /\ more \in Seq(AnyEvent) /\ \A e \in Range(more) : MayTell(e, ended)
    /\ ended \subseteq prods
    /\ entry /\ ended \cap Screens # {} => Range(more) \cap Stops # {}
    /\ ended \cap Screens = {} => Range(more) \cap Stops = {}

LEMMA RoomChanges ==
    ASSUME ViewIInv, NEW ended, NEW more, Ends(ended, more), EndProducers(ended), Tell(more),
           seat' \in [Users -> {"out", "in", "held"}],
           peersWithMedia' \subseteq {u \in Users : seat'[u] = "in"},
           UNCHANGED <<past, acked, entry, srecv, made, reqs, client>>
    PROVE  ViewIInv'
<1>1. /\ Typed /\ ConsumersWereMade /\ AwayIsEmpty /\ PastIsKnown /\ DeviceLoads /\ JoinedIsFirst
      /\ TransportComes /\ UnderWay /\ ClosedIsOver /\ LeavesFirst /\ ShownAsConsumed
      /\ BlockedWhileShared
  BY DEF ViewIInv
<1>2. /\ past' = past /\ acked' = acked /\ entry' = entry /\ srecv' = srecv /\ made' = made
      /\ reqs' = reqs /\ device' = device /\ loads' = loads /\ recv' = recv /\ blocked' = blocked
      /\ peers' = peers /\ attached' = attached /\ detached' = detached /\ pending' = pending
      /\ creating' = creating /\ consumers' = consumers /\ shown' = shown /\ offline' = offline
  BY DEF client, media, registry, unit, tracker
<1>3. /\ prods' = prods \ ended /\ sconsumers' \subseteq sconsumers /\ ended \subseteq prods
      /\ prods \subseteq past
  BY <1>1 DEF EndProducers, Ends, Typed
<1>4. PICK said \in Seq(AnyEvent) :
         /\ wire' = wire \o said /\ \A e \in Range(said) : MayTell(e, ended)
         /\ said = more \/ ~acked
  <2>1. CASE acked
    BY <2>1 DEF Tell, Ends
  <2>2. CASE ~acked
    <3>1. wire' = wire \o <<>> /\ <<>> \in Seq(AnyEvent)
      BY <1>1, <2>2, NothingIn DEF Tell, Typed
    <3> QED BY <3>1, <2>2, NothingIn
  <2> QED BY <2>1, <2>2
<1>5. \A e \in Range(said) :
         /\ e.ev \in {"peer-joined", "producer-state-changed", "screen-share-stopped",
                      "peer-left", "peer-media-detached", "consumer-closed"}
         /\ e \in AnyEvent
  BY <1>4 DEF MayTell
<1>6. /\ wire' \in Seq(AnyEvent) /\ Coming' = Coming \cup Range(said)
      /\ Announced' = Announced /\ Created' = Created
  <2>1. {p \in Producers : Announcement(p) \in Range(said)} = {}
    BY <1>5, AnnouncementsAre
  <2>2. {p \in Producers : \E e \in Range(said) : e.ev = "consumer-created" /\ e.cons.prod = p} = {}
    BY <1>5
  <2>3. wire' = wire \o said
    BY <1>4
  <2>4. /\ wire' \in Seq(AnyEvent) /\ Coming' = Coming \cup Range(said)
        /\ Announced' = Announced \cup {p \in Producers : Announcement(p) \in Range(said)}
        /\ Created' = Created \cup {p \in Producers :
                          \E e \in Range(said) : e.ev = "consumer-created" /\ e.cons.prod = p}
    BY <1>1, <2>3, WireGrows
  <2> QED BY <2>1, <2>2, <2>4
<1>7. /\ \A a, b : Before(wire', a, b) =>
            Before(wire, a, b) \/ Before(said, a, b) \/ (a \in Coming /\ b \in Range(said))
      /\ \A x, T : Word(wire', x, T) => Word(said, x, T) \/ (Silent(said, T) /\ Word(wire, x, T))
      /\ \A T : Silent(wire', T) => Silent(wire, T) /\ Silent(said, T)
  BY <1>1, <1>4, WireGrows
<1>8. \A a, b : b \notin Range(said) => (Before(wire', a, b) => Before(wire, a, b))
  BY <1>7, WordsAreIn
<1>9. Asked' = Asked /\ Consumed' = Consumed /\ Known' \subseteq Known
  <2>1. Asked' = Asked /\ Consumed' = Consumed
    BY <1>2 DEF Asked, Consumed
  <2> QED BY <1>2, <1>3, <1>6, <2>1 DEF Known
<1>10. Typed'
  <2>1. IsFiniteSet(prods') /\ IsFiniteSet(sconsumers')
    BY <1>1, <1>3, FS_Subset DEF Typed
  <2> QED BY <1>1, <1>2, <1>3, <1>6, <2>1 DEF Typed
<1>11. ConsumersWereMade'
  <2>1. \A e \in Range(said) : e \in OfConsumers => e.cons \in sconsumers
    BY <1>4 DEF MayTell, OfConsumers
  <2> QED BY <1>1, <1>2, <1>3, <1>6, <2>1 DEF ConsumersWereMade
<1>12. AwayIsEmpty'
  <2>1. ~acked => wire' = wire
    BY DEF Tell
  <2> QED BY <1>1, <1>2, <2>1 DEF AwayIsEmpty
<1>13. PastIsKnown' /\ DeviceLoads'
  BY <1>1, <1>2, <1>6, <1>9 DEF PastIsKnown, DeviceLoads
<1>14. Joined \notin Range(said) /\ Reset \notin Range(said) /\ Transport \notin Range(said)
  BY <1>5, SignalsAre
<1>15. JoinedIsFirst'
  BY <1>1, <1>2, <1>6, <1>8, <1>14 DEF JoinedIsFirst
<1>16. TransportComes'
  BY <1>1, <1>2, <1>6, <1>9, <1>14 DEF TransportComes
<1>17. UnderWay'
  BY <1>1, <1>2, <1>3, <1>6, <1>9 DEF UnderWay
<1>18. ClosedIsOver'
  <2> SUFFICES ASSUME NEW e \in Coming', e.ev = "consumer-closed" PROVE e.cons.prod \in past \ prods'
    BY <1>2 DEF ClosedIsOver
  <2>1. CASE e \in Coming
    BY <1>1, <1>3, <2>1 DEF ClosedIsOver
  <2>2. CASE e \in Range(said)
    BY <1>3, <1>4, <2>2 DEF MayTell
  <2> QED BY <1>6, <2>1, <2>2
<1>19. LeavesFirst'
  <2> SUFFICES ASSUME entry, NEW p \in prods', NEW e \in Leaving(Owner[p]), e \in Coming'
               PROVE  p \notin Known' /\ ~Before(wire', Announcement(p), e)
    BY <1>2 DEF LeavesFirst
  <2>1. p \in prods /\ p \notin ended /\ Owner[p] \in Users
    BY <1>1, <1>3, OwnersAreUsers DEF Typed
  <2>2. e.ev \in {"peer-left", "peer-media-detached"} /\ e.user = Owner[p]
    BY <2>1, LeavingIs
  <2>3. e \notin Range(said)
    BY <1>4, <2>1, <2>2 DEF MayTell
  <2> QED BY <1>1, <1>6, <1>8, <1>9, <2>1, <2>3 DEF LeavesFirst
<1>20. ShownAsConsumed'
  BY <1>1, <1>2, <1>3, <1>6, <1>9 DEF ShownAsConsumed
<1>21. BlockedWhileShared'
  <2>1. OneScreen /\ OneScreen'
    BY <1>1, <1>3 DEF BlockedWhileShared, OneScreen
  <2>2. entry => said = more
    BY <1>1, <1>4 DEF AwayIsEmpty
  <2>3. Range(said) \cap Starts = {}
    BY <1>5, SharingIs
  <2>4. \A x : Word(said, x, Sharing) => x \in Stops /\ x \notin Starts
    BY <2>3, WordsAreIn, SharingIs
  <2>5. CASE ended \cap Screens = {}
    <3>1. Shared' <=> Shared
      BY <1>3, <2>5 DEF Shared
    <3>2. entry => Silent(said, Sharing) /\ \A x : ~Word(said, x, Sharing)
      <4>1. entry => Range(said) \cap Sharing = {}
        BY <2>2, <2>3, <2>5, SharingIs DEF Ends
      <4> QED BY <4>1, WordsAreIn
    <3> QED BY <1>1, <1>2, <1>7, <2>1, <3>1, <3>2 DEF BlockedWhileShared
  <2>6. CASE ended \cap Screens # {}
    <3>1. ~Shared'
      BY <1>3, <2>1, <2>6 DEF Shared, OneScreen
    <3>2. entry => ~Silent(said, Sharing)
      BY <2>2, <2>6, WordsAreIn, SharingIs DEF Ends
    <3> QED BY <1>1, <1>2, <1>7, <2>1, <2>4, <3>1, <3>2 DEF BlockedWhileShared
  <2> QED BY <2>5, <2>6
<1> QED BY <1>10, <1>11, <1>12, <1>13, <1>15, <1>16, <1>17, <1>18, <1>19, <1>20, <1>21 DEF ViewIInv

LEMMA EndingIs ==
    ASSUME ViewIInv, NEW ps \in SUBSET prods
    PROVE  Ends(ps, Ending(ps))
<1> DEFINE screens == ps \cap Screens
           closing == {OfConsumer("consumer-closed", c) : c \in OldestOf(screens)}
           stop == About("screen-share-stopped", Owner[CHOOSE p \in screens : TRUE])
<1>1. Typed
  BY DEF ViewIInv
<1>2. CASE screens = {} \/ ~entry
  <2>1. Ending(ps) = <<>>
    BY <1>2 DEF Ending
  <2> QED BY <1>2, <2>1, NothingIn DEF Ends
<1>3. CASE screens # {} /\ entry
  <2>1. Ending(ps) = SetToSeq(closing) \o <<stop>>
    BY <1>3 DEF Ending
  <2>2. OldestOf(screens) \subseteq sconsumers /\ sconsumers \subseteq AnyConsumer
    BY <1>1 DEF OldestOf, ClosedOf, Typed
  <2>3. \A e \in closing : MayTell(e, ps)
    <3> SUFFICES ASSUME NEW c \in OldestOf(screens)
                 PROVE  MayTell(OfConsumer("consumer-closed", c), ps)
      OBVIOUS
    <3>1. c \in AnyConsumer /\ c \in sconsumers /\ c.prod \in ps
      BY <2>2 DEF OldestOf, ClosedOf
    <3> QED BY <3>1, ConsumersAre DEF MayTell
  <2>4. MayTell(stop, ps) /\ stop \in Stops /\ stop \in AnyEvent
    <3>1. Owner[CHOOSE p \in screens : TRUE] \in Users
      <4>1. (CHOOSE p \in screens : TRUE) \in screens
        BY <1>3
      <4>2. screens \subseteq Producers
        BY <1>1 DEF Typed
      <4> QED BY <4>1, <4>2, OwnersAreUsers
    <3>2. "screen-share-stopped" \in Tidings
      BY DEF Tidings
    <3> QED BY <3>1, <3>2, TidingsAre, SharingIs DEF MayTell
  <2>5. IsFiniteSet(closing)
    <3>1. IsFiniteSet(OldestOf(screens))
      BY <1>1, <2>2, FS_Subset DEF Typed
    <3> DEFINE f == [c \in OldestOf(screens) |-> OfConsumer("consumer-closed", c)]
    <3>2. f \in [OldestOf(screens) -> closing] /\ \A y \in closing : \E x \in OldestOf(screens) : f[x] = y
      OBVIOUS
    <3> HIDE DEF f, closing
    <3> QED BY <3>1, <3>2, FiniteImage
  <2> HIDE DEF closing, stop, screens
  <2>6. SetToSeq(closing) \in Seq(closing) /\ Range(SetToSeq(closing)) = closing
    BY <2>5, ListsAll
  <2>7. closing \subseteq AnyEvent
    BY <2>3 DEF MayTell
  <2>8. SetToSeq(closing) \in Seq(AnyEvent)
    BY <2>6, <2>7
  <2>9. <<stop>> \in Seq(AnyEvent) /\ Range(<<stop>>) = {stop}
    BY <2>4, OneIn
  <2> DEFINE first == SetToSeq(closing)
             last == <<stop>>
             w == Ending(ps)
  <2>a. Joins(w, first, last) /\ first \in Seq(AnyEvent) /\ last \in Seq(AnyEvent)
    BY <2>1, <2>8, <2>9 DEF Joins
  <2>b. Range(first) = closing /\ Range(last) = {stop}
    BY <2>6, <2>9
  <2> HIDE DEF first, last, w
  <2>c. w \in Seq(AnyEvent) /\ Range(w) = closing \cup {stop}
    BY <2>a, <2>b, WhatJoins
  <2>10. Ending(ps) \in Seq(AnyEvent) /\ Range(Ending(ps)) = closing \cup {stop}
    BY <2>c DEF w
  <2> QED BY <1>3, <2>3, <2>4, <2>10 DEF Ends, screens
<1> QED BY <1>2, <1>3

\* Words that are none of a share, before and after.
LEMMA EndsAround ==
    ASSUME NEW ended, NEW more, Ends(ended, more), NEW a \in Seq(AnyEvent), NEW b \in Seq(AnyEvent),
           \A e \in Range(a) \cup Range(b) : MayTell(e, ended) /\ e.ev # "screen-share-stopped"
    PROVE  Ends(ended, a \o more \o b)
<1>1. more \in Seq(AnyEvent)
  BY DEF Ends
<1> DEFINE v == a \o more
           w == v \o b
<1> HIDE DEF v, w
<1>a. Joins(v, a, more)
  BY DEF v, Joins
<1>b. Joins(w, v, b)
  BY DEF w, Joins
<1>2. v \in Seq(AnyEvent) /\ Range(v) = Range(a) \cup Range(more)
  BY <1>1, <1>a, WhatJoins
<1>3. w \in Seq(AnyEvent) /\ Range(w) = Range(a) \cup Range(more) \cup Range(b)
  <2>1. w \in Seq(AnyEvent) /\ Range(w) = Range(v) \cup Range(b)
    BY <1>2, <1>b, WhatJoins
  <2> QED BY <1>2, <2>1
<1>4. (Range(a) \cup Range(b)) \cap Stops = {}
  BY SharingIs
<1>5. Ends(ended, w)
  BY <1>3, <1>4 DEF Ends
<1> QED BY <1>5 DEF v, w

\* Some producers of one user end, and it is told of.
LEMMA OneIsTold ==
    ASSUME NEW e, NEW ended, MayTell(e, ended), e.ev # "screen-share-stopped"
    PROVE  /\ <<e>> \in Seq(AnyEvent)
           /\ \A x \in Range(<<e>>) : MayTell(x, ended) /\ x.ev # "screen-share-stopped"
BY OneIn DEF MayTell

LEMMA NoneIsTold ==
    ASSUME NEW ended
    PROVE  /\ <<>> \in Seq(AnyEvent)
           /\ \A x \in Range(<<>>) : MayTell(x, ended) /\ x.ev # "screen-share-stopped"
BY NothingIn

LEMMA DepartureIsTold ==
    ASSUME NEW u \in Users, NEW ev \in {"peer-left", "peer-media-detached"}
    PROVE  MayTell(About(ev, u), ProducersOf(u)) /\ About(ev, u).ev # "screen-share-stopped"
<1>1. About(ev, u) \in AnyEvent /\ About(ev, u).ev = ev /\ About(ev, u).user = u
  BY TidingsAre DEF Tidings
<1>2. \A p \in prods \ ProducersOf(u) : Owner[p] # u
  BY DEF ProducersOf
<1> QED BY <1>1, <1>2 DEF MayTell

LEMMA MediaDetaches ==
    ASSUME ViewIInv, NEW u \in Users, NEW then, DetachMedia(u, then), then \in Seq(AnyEvent),
           \A x \in Range(then) : MayTell(x, ProducersOf(u)) /\ x.ev # "screen-share-stopped",
           NEW s \in {"held", "out"}, seat' = [seat EXCEPT ![u] = s],
           UNCHANGED <<past, acked, entry, srecv, made, reqs, client>>
    PROVE  ViewIInv'
<1> DEFINE first == IF u \in peersWithMedia THEN <<About("peer-media-detached", u)>> ELSE <<>>
           more == first \o Ending(ProducersOf(u)) \o then
<1>1. Typed
  BY DEF ViewIInv
<1>2. /\ first \in Seq(AnyEvent)
      /\ \A x \in Range(first) : MayTell(x, ProducersOf(u)) /\ x.ev # "screen-share-stopped"
  BY DepartureIsTold, OneIsTold, NoneIsTold
<1>3. Ends(ProducersOf(u), Ending(ProducersOf(u)))
  BY EndingIs DEF ProducersOf
<1>4. EndProducers(ProducersOf(u)) /\ Tell(more) /\ peersWithMedia' = peersWithMedia \ {u}
  BY DEF DetachMedia
<1> HIDE DEF first
<1>5. Ends(ProducersOf(u), more)
  BY <1>2, <1>3, EndsAround
<1> HIDE DEF more
<1>6. seat' \in [Users -> {"out", "in", "held"}]
  BY <1>1 DEF Typed
<1>7. \A v \in Users : v # u => seat'[v] = seat[v]
  BY <1>1 DEF Typed
<1>8. peersWithMedia' \subseteq {v \in Users : seat'[v] = "in"}
  BY <1>1, <1>4, <1>7 DEF Typed
<1> QED BY <1>4, <1>5, <1>6, <1>8, RoomChanges

\* The others come and go, and change what they publish.
LEMMA PeersChange ==
    ASSUME ViewIInv, NEW u \in Users,
           PeerJoins(u) \/ PeerRestores(u) \/ PeerDrops(u) \/ PeerLeaves(u)
    PROVE  ViewIInv'
<1>1. Typed
  BY DEF ViewIInv
<1>2. EndProducers({}) <=> UNCHANGED <<prods, sconsumers>>
  BY DEF EndProducers, ClosedOf
<1>3. Ends({}, <<>>)
  BY NothingIn DEF Ends
<1>4. CASE PeerJoins(u)
  <2>1. seat' = [seat EXCEPT ![u] = "in"] /\ peersWithMedia' = peersWithMedia \cup {u}
    BY <1>4 DEF PeerJoins
  <2>2. /\ seat' \in [Users -> {"out", "in", "held"}]
        /\ peersWithMedia' \subseteq {v \in Users : seat'[v] = "in"}
    BY <1>1, <2>1 DEF Typed
  <2>3. Ends({}, <<About("peer-joined", u)>>)
    <3>1. About("peer-joined", u) \in AnyEvent /\ About("peer-joined", u).ev = "peer-joined"
      BY TidingsAre DEF Tidings
    <3>2. MayTell(About("peer-joined", u), {})
      BY <3>1 DEF MayTell
    <3> QED BY <3>1, <3>2, OneIn, SharingIs DEF Ends
  <2> QED BY <1>2, <1>4, <2>2, <2>3, RoomChanges DEF PeerJoins, ours
<1>5. CASE PeerRestores(u)
  <2>1. seat' = [seat EXCEPT ![u] = "in"] /\ peersWithMedia' = peersWithMedia \cup {u}
    BY <1>5 DEF PeerRestores
  <2>2. /\ seat' \in [Users -> {"out", "in", "held"}]
        /\ peersWithMedia' \subseteq {v \in Users : seat'[v] = "in"}
    BY <1>1, <2>1 DEF Typed
  <2>3. Tell(<<>>)
    BY <1>1, <1>5 DEF PeerRestores, net, Tell, Typed
  <2> QED BY <1>2, <1>3, <1>5, <2>2, <2>3, RoomChanges DEF PeerRestores, ours, net
<1>6. CASE PeerDrops(u)
  BY <1>6, NoneIsTold, MediaDetaches DEF PeerDrops
<1>7. CASE PeerLeaves(u)
  <2>1. /\ <<About("peer-left", u)>> \in Seq(AnyEvent)
        /\ \A x \in Range(<<About("peer-left", u)>>) :
              MayTell(x, ProducersOf(u)) /\ x.ev # "screen-share-stopped"
    BY DepartureIsTold, OneIsTold
  <2> QED BY <1>7, <2>1, MediaDetaches DEF PeerLeaves
<1> QED BY <1>4, <1>5, <1>6, <1>7

LEMMA SharesChange ==
    ASSUME ViewIInv, NEW p \in Producers, PeerCloses(p) \/ PeerPauses(p)
    PROVE  ViewIInv'
<1>1. Typed /\ p \in prods
  BY DEF ViewIInv, PeerCloses, PeerPauses
<1>2. /\ seat \in [Users -> {"out", "in", "held"}]
      /\ peersWithMedia \subseteq {v \in Users : seat[v] = "in"}
  BY <1>1 DEF Typed
<1>3. CASE PeerCloses(p)
  <2>1. Ends({p}, Ending({p}))
    BY <1>1, EndingIs
  <2>2. seat' = seat /\ peersWithMedia' = peersWithMedia
    BY <1>3 DEF PeerCloses
  <2> QED BY <1>2, <1>3, <2>1, <2>2, RoomChanges DEF PeerCloses
<1>4. CASE PeerPauses(p)
  <2> DEFINE e == About("producer-state-changed", Owner[p])
  <2>1. e \in AnyEvent /\ e.ev = "producer-state-changed"
    BY OwnersAreUsers, TidingsAre DEF Tidings
  <2> HIDE DEF e
  <2>2. MayTell(e, {})
    BY <2>1 DEF MayTell
  <2>3. Ends({}, <<e>>)
    BY <2>1, <2>2, OneIn, SharingIs DEF Ends
  <2>4. EndProducers({}) /\ seat' = seat /\ peersWithMedia' = peersWithMedia
    BY <1>4 DEF PeerPauses, EndProducers, ClosedOf, server, room, ours
  <2>5. Tell(<<e>>)
    BY <1>4 DEF PeerPauses, e
  <2> QED BY <1>2, <1>4, <2>3, <2>4, <2>5, RoomChanges DEF PeerPauses, server, room, ours
<1> QED BY <1>3, <1>4

\* A producer is new, and so is the word of it.
LEMMA ProducerIsNew ==
    ASSUME ViewIInv, NEW p \in Producers, PeerProduces(p)
    PROVE  ViewIInv'
<1>1. /\ Typed /\ ConsumersWereMade /\ AwayIsEmpty /\ PastIsKnown /\ DeviceLoads /\ JoinedIsFirst
      /\ TransportComes /\ UnderWay /\ ClosedIsOver /\ LeavesFirst /\ ShownAsConsumed
      /\ BlockedWhileShared
  BY DEF ViewIInv
<1>2. /\ acked' = acked /\ entry' = entry /\ srecv' = srecv /\ made' = made /\ sconsumers' = sconsumers
      /\ seat' = seat /\ peersWithMedia' = peersWithMedia
      /\ reqs' = reqs /\ device' = device /\ loads' = loads /\ recv' = recv /\ blocked' = blocked
      /\ peers' = peers /\ attached' = attached /\ detached' = detached /\ pending' = pending
      /\ creating' = creating /\ consumers' = consumers /\ shown' = shown /\ offline' = offline
  BY DEF PeerProduces, ours, client, media, registry, unit, tracker
<1>3. /\ prods' = prods \cup {p} /\ past' = past \cup {p} /\ p \notin past
      /\ p \in Screens => prods \cap Screens = {}
  BY DEF PeerProduces
<1>4. p \notin prods /\ p \notin Known /\ p \notin Announced /\ prods \subseteq past
  BY <1>1, <1>3 DEF Typed, PastIsKnown
<1> DEFINE start == About("screen-share-started", Owner[p])
           words == IF p \in Screens THEN <<start>> ELSE <<>>
           news == IF srecv THEN <<Announcement(p)>> ELSE <<>>
<1>5. start \in AnyEvent /\ start.ev = "screen-share-started" /\ start \in Starts
  BY OwnersAreUsers, TidingsAre, SharingIs DEF Tidings
<1>6. words \in Seq(AnyEvent) /\ Range(words) = IF p \in Screens THEN {start} ELSE {}
  BY <1>5, OneIn, NothingIn
<1>7. news \in Seq(AnyEvent) /\ Range(news) = IF srecv THEN {Announcement(p)} ELSE {}
  BY AnnouncementsAre, OneIn, NothingIn
<1> DEFINE both == words \o news
<1>8. Tell(both)
  BY DEF PeerProduces
<1> HIDE DEF start, words, news
<1>a. Joins(both, words, news)
  BY DEF Joins
<1> HIDE DEF both
<1>9. /\ both \in Seq(AnyEvent)
      /\ Range(both) = (IF p \in Screens THEN {start} ELSE {})
                                  \cup (IF srecv THEN {Announcement(p)} ELSE {})
  <2>1. both \in Seq(AnyEvent) /\ Range(both) = Range(words) \cup Range(news)
    BY <1>6, <1>7, <1>a, WhatJoins
  <2> QED BY <1>6, <1>7, <2>1
<1>10. PICK said \in Seq(AnyEvent) :
         /\ wire' = wire \o said
         /\ Range(said) \subseteq {start, Announcement(p)}
         /\ start \in Range(said) => p \in Screens
         /\ acked /\ p \in Screens => start \in Range(said)
         /\ Announcement(p) \in Range(said) <=> acked /\ srecv
  <2>0. start # Announcement(p)
    BY <1>5, AnnouncementsAre
  <2>1. CASE acked
    BY <1>8, <1>9, <2>0, <2>1 DEF Tell
  <2>2. CASE ~acked
    <3>1. wire' = wire \o <<>> /\ <<>> \in Seq(AnyEvent)
      BY <1>1, <1>8, <2>2, NothingIn DEF Tell, Typed
    <3> QED BY <3>1, <2>2, NothingIn
  <2> QED BY <1>1, <2>1, <2>2 DEF Typed
<1>11. entry => acked
  BY <1>1 DEF AwayIsEmpty
<1>12. srecv => entry
  BY <1>1 DEF AwayIsEmpty
<1>13. \A e \in Range(said) : e \in AnyEvent /\ e \in Starts \cup {Announcement(p)}
                              /\ e.ev \in {"screen-share-started", "new-producer"}
  BY <1>5, <1>10, AnnouncementsAre
<1>14. /\ wire' \in Seq(AnyEvent) /\ Coming' = Coming \cup Range(said)
       /\ Created' = Created
       /\ Announced' = Announced \cup (IF srecv THEN {p} ELSE {})
  <2>1. {q \in Producers : \E e \in Range(said) : e.ev = "consumer-created" /\ e.cons.prod = q} = {}
    BY <1>13
  <2>2. {q \in Producers : Announcement(q) \in Range(said)} = IF srecv THEN {p} ELSE {}
    <3>1. \A q \in Producers : Announcement(q) \in Range(said) => q = p
      BY <1>5, <1>10, AnnouncementsAre
    <3> QED BY <1>10, <1>11, <1>12, <3>1
  <2>3. /\ wire' \in Seq(AnyEvent) /\ Coming' = Coming \cup Range(said)
        /\ Announced' = Announced \cup {q \in Producers : Announcement(q) \in Range(said)}
        /\ Created' = Created \cup {q \in Producers :
                          \E e \in Range(said) : e.ev = "consumer-created" /\ e.cons.prod = q}
    BY <1>1, <1>10, WireGrows
  <2> QED BY <2>1, <2>2, <2>3
<1>15. /\ \A a, b : Before(wire', a, b) =>
             Before(wire, a, b) \/ Before(said, a, b) \/ (a \in Coming /\ b \in Range(said))
       /\ \A x, T : Word(wire', x, T) => Word(said, x, T) \/ (Silent(said, T) /\ Word(wire, x, T))
       /\ \A T : Silent(wire', T) => Silent(wire, T) /\ Silent(said, T)
  BY <1>1, <1>10, WireGrows
<1>16. \A a, b : b \notin Range(said) => (Before(wire', a, b) => Before(wire, a, b))
  BY <1>15, WordsAreIn
<1>17. Asked' = Asked /\ Consumed' = Consumed /\ Known' = Known
  <2>1. Asked' = Asked /\ Consumed' = Consumed
    BY <1>2 DEF Asked, Consumed
  <2> QED BY <1>2, <1>14, <2>1 DEF Known
<1>18. Typed'
  <2>1. IsFiniteSet(prods')
    BY <1>1, <1>3, FS_AddElement DEF Typed
  <2> QED BY <1>1, <1>2, <1>3, <1>14, <2>1 DEF Typed
<1>19. ConsumersWereMade'
  <2>1. \A e \in Range(said) : e \notin OfConsumers
    BY <1>13 DEF OfConsumers
  <2> QED BY <1>1, <1>2, <1>14, <2>1 DEF ConsumersWereMade
<1>20. AwayIsEmpty'
  <2>1. ~acked => wire' = wire
    BY <1>8 DEF Tell
  <2> QED BY <1>1, <1>2, <2>1 DEF AwayIsEmpty
<1>21. PastIsKnown' /\ DeviceLoads'
  BY <1>1, <1>2, <1>3, <1>14, <1>17 DEF PastIsKnown, DeviceLoads
<1>22. Joined \notin Range(said) /\ Reset \notin Range(said) /\ Transport \notin Range(said)
  BY <1>13, SignalsAre
<1>23. JoinedIsFirst'
  BY <1>1, <1>2, <1>14, <1>16, <1>22 DEF JoinedIsFirst
<1>24. TransportComes'
  BY <1>1, <1>2, <1>14, <1>17, <1>22 DEF TransportComes
<1>25. UnderWay'
  BY <1>1, <1>2, <1>3, <1>14, <1>17 DEF UnderWay
<1>26. ClosedIsOver'
  <2> SUFFICES ASSUME NEW e \in Coming', e.ev = "consumer-closed" PROVE e.cons.prod \in past' \ prods'
    BY DEF ClosedIsOver
  <2>1. e \in Coming
    BY <1>13, <1>14
  <2> QED BY <1>1, <1>3, <2>1 DEF ClosedIsOver
<1>27. LeavesFirst'
  <2> SUFFICES ASSUME entry, NEW q \in prods', NEW e \in Leaving(Owner[q]), e \in Coming'
               PROVE  q \notin Known' /\ ~Before(wire', Announcement(q), e)
    BY <1>2 DEF LeavesFirst
  <2>1. q \in Producers /\ Owner[q] \in Users
    BY <1>1, <1>3, OwnersAreUsers DEF Typed
  <2>2. e \in AnyEvent /\ e.ev \in {"peer-left", "peer-media-detached"}
    BY <2>1, LeavingIs
  <2>3. e \notin Range(said) /\ e \in Coming
    BY <1>13, <1>14, <2>2
  <2>4. Before(wire', Announcement(q), e) => Before(wire, Announcement(q), e)
    BY <1>16, <2>3
  <2>5. CASE q = p
    <3>1. ~Before(wire, Announcement(q), e)
      BY <1>4, <2>5, WordsAreIn DEF Announced, Coming
    <3> QED BY <1>4, <1>17, <2>4, <2>5, <3>1
  <2>6. CASE q # p
    <3>1. q \in prods
      BY <1>3, <2>6
    <3> QED BY <1>1, <1>17, <2>3, <2>4, <3>1 DEF LeavesFirst
  <2> QED BY <2>5, <2>6
<1>28. ShownAsConsumed'
  <2>1. Asked \cup Created \cup Consumed \subseteq Known
    BY DEF Known
  <2>2. \A c \in consumers : c.prod # p
    BY <1>4 DEF Known, Consumed
  <2> QED BY <1>1, <1>2, <1>3, <1>4, <1>14, <1>17, <2>1, <2>2 DEF ShownAsConsumed
<1>29. BlockedWhileShared'
  <2>1. OneScreen'
    BY <1>1, <1>3 DEF BlockedWhileShared, OneScreen
  <2>2. CASE p \in Screens
    <3>1. Shared'
      BY <1>3, <2>2 DEF Shared
    <3>2. Range(said) \subseteq Starts
      BY <1>13, <2>2, SharingIs
    <3>3. \A x : Word(said, x, Sharing) => x \in Starts
      BY <3>2, WordsAreIn
    <3>4. entry => ~Silent(said, Sharing)
      BY <1>5, <1>10, <1>11, <2>2, WordsAreIn, SharingIs
    <3> QED BY <1>2, <1>15, <2>1, <3>1, <3>3, <3>4 DEF BlockedWhileShared
  <2>3. CASE p \notin Screens
    <3>1. Shared' <=> Shared
      BY <1>3, <2>3 DEF Shared
    <3>2. Range(said) \cap Sharing = {}
      <4>1. Range(said) \subseteq {Announcement(p)}
        BY <1>10, <2>3
      <4>2. Announcement(p) \notin Starts /\ Announcement(p).ev = "new-producer"
        BY <2>3, SharingIs, AnnouncementsAre
      <4>3. Announcement(p) \notin Stops
        BY <4>2, SharingIs
      <4> QED BY <4>1, <4>2, <4>3, SharingIs
    <3>3. Silent(said, Sharing) /\ \A x : ~Word(said, x, Sharing)
      BY <3>2, WordsAreIn
    <3> QED BY <1>1, <1>2, <1>15, <2>1, <3>1, <3>3 DEF BlockedWhileShared
  <2> QED BY <2>2, <2>3
<1> QED BY <1>18, <1>19, <1>20, <1>21, <1>23, <1>24, <1>25, <1>26, <1>27, <1>28, <1>29 DEF ViewIInv

\* A worker dies: the viewer has no entry any more, and of what it has there
\* is nothing left on the server.
LEMMA RoomResets ==
    ASSUME ViewIInv, RoomReset PROVE ViewIInv'
<1>1. /\ Typed /\ ConsumersWereMade /\ AwayIsEmpty /\ PastIsKnown /\ DeviceLoads /\ JoinedIsFirst
      /\ ClosedIsOver
  BY DEF ViewIInv
<1>2. /\ seat' = seat /\ past' = past /\ acked' = acked /\ made' = made
      /\ device' = device /\ loads' = loads /\ recv' = recv /\ blocked' = blocked
      /\ peers' = peers /\ attached' = attached /\ detached' = detached /\ pending' = pending
      /\ creating' = creating /\ consumers' = consumers /\ shown' = shown /\ offline' = offline
      /\ prods' = {} /\ peersWithMedia' = {} /\ sconsumers' = {} /\ srecv' = FALSE /\ entry' = FALSE
      /\ reqs' = <<>> /\ Tell(<<Reset>>)
  BY DEF RoomReset, client, media, registry, unit, tracker, Reset
<1>3. PICK said \in Seq(AnyEvent) :
         wire' = wire \o said /\ Range(said) \subseteq {Reset} /\ \A a, b : ~Before(said, a, b)
  <2>1. CASE acked
    <3>1. <<Reset>> \in Seq(AnyEvent) /\ Range(<<Reset>>) = {Reset} /\ \A a, b : ~Before(<<Reset>>, a, b)
      BY OneIn, SignalsAre
    <3> QED BY <1>2, <2>1, <3>1 DEF Tell
  <2>2. CASE ~acked
    <3>1. wire' = wire \o <<>> /\ <<>> \in Seq(AnyEvent)
      BY <1>1, <1>2, <2>2, NothingIn DEF Tell, Typed
    <3> QED BY <3>1, NothingIn
  <2> QED BY <1>1, <2>1, <2>2 DEF Typed
<1>4. Reset \notin OfConsumers /\ Reset # Joined /\ \A p \in Producers : Reset # Announcement(p)
  BY SignalsAre, AnnouncementsAre DEF OfConsumers
<1>5. /\ wire' \in Seq(AnyEvent) /\ Coming' = Coming \cup Range(said)
      /\ Announced' = Announced /\ Created' = Created
  <2>1. {p \in Producers : Announcement(p) \in Range(said)} = {}
    BY <1>3, <1>4
  <2>2. {p \in Producers : \E e \in Range(said) : e.ev = "consumer-created" /\ e.cons.prod = p} = {}
    BY <1>3, SignalsAre
  <2> QED BY <1>1, <1>3, <2>1, <2>2, WireGrows
<1>6. \A a, b : Before(wire', a, b) => Before(wire, a, b) \/ b = Reset
  BY <1>1, <1>3, WireGrows
<1>7. Range(reqs') = {} /\ Asked' = {} /\ Consumed' = Consumed /\ Known' \subseteq Known
  <2>1. Range(reqs') = {} /\ Consumed' = Consumed
    BY <1>2, NothingIn DEF Consumed
  <2>2. Asked' = {}
    BY <2>1 DEF Asked
  <2> QED BY <1>2, <1>5, <2>1, <2>2 DEF Known
<1>8. Typed'
  BY <1>1, <1>2, <1>5, FS_EmptySet, NothingIn DEF Typed
<1>9. ConsumersWereMade'
  BY <1>1, <1>2, <1>3, <1>4, <1>5 DEF ConsumersWereMade
<1>10. AwayIsEmpty'
  <2>1. ~acked => wire' = wire
    BY <1>2 DEF Tell
  <2> QED BY <1>1, <1>2, <2>1 DEF AwayIsEmpty
<1>11. PastIsKnown' /\ DeviceLoads'
  BY <1>1, <1>2, <1>5, <1>7 DEF PastIsKnown, DeviceLoads
<1>12. JoinedIsFirst'
  BY <1>1, <1>2, <1>3, <1>4, <1>5, <1>6 DEF JoinedIsFirst
<1>13. ClosedIsOver'
  <2>1. \A e \in Coming' : e.ev = "consumer-closed" => e \in Coming
    BY <1>3, <1>5, SignalsAre
  <2> QED BY <1>1, <1>2, <2>1 DEF ClosedIsOver
<1>14. TransportComes' /\ UnderWay' /\ LeavesFirst' /\ ShownAsConsumed'
  BY <1>2 DEF TransportComes, UnderWay, LeavesFirst, ShownAsConsumed
<1>15. BlockedWhileShared'
  BY <1>2 DEF BlockedWhileShared, OneScreen
<1> QED BY <1>8, <1>9, <1>10, <1>11, <1>12, <1>13, <1>14, <1>15 DEF ViewIInv

-----------------------------------------------------------------------------
(* The server serves the viewer.                                           *)

LEMMA AnnouncesAll ==
    ASSUME Typed
    PROVE  /\ AnnounceAll \in Seq(AnyEvent)
           /\ Range(AnnounceAll) = {Announcement(p) : p \in prods}
<1> DEFINE all == {Announcement(p) : p \in prods}
           f == [p \in prods |-> Announcement(p)]
<1>1. prods \subseteq Producers /\ IsFiniteSet(prods)
  BY DEF Typed
<1>2. f \in [prods -> all] /\ \A y \in all : \E x \in prods : f[x] = y
  OBVIOUS
<1>3. all \subseteq AnyEvent
  BY <1>1, AnnouncementsAre
<1>4. AnnounceAll = SetToSeq(all)
  BY DEF AnnounceAll
<1> HIDE DEF all, f
<1>5. IsFiniteSet(all)
  BY <1>1, <1>2, FiniteImage
<1>6. SetToSeq(all) \in Seq(all) /\ Range(SetToSeq(all)) = all
  BY <1>5, ListsAll
<1>7. AnnounceAll \in Seq(AnyEvent)
  BY <1>3, <1>4, <1>6
<1> QED BY <1>4, <1>6, <1>7 DEF all

LEMMA TransportIsServed ==
    ASSUME ViewIInv, ServeTransport PROVE ViewIInv'
<1>1. /\ Typed /\ ConsumersWereMade /\ AwayIsEmpty /\ PastIsKnown /\ DeviceLoads /\ JoinedIsFirst
      /\ TransportComes /\ UnderWay /\ ClosedIsOver /\ LeavesFirst /\ ShownAsConsumed
      /\ BlockedWhileShared
  BY DEF ViewIInv
<1>2. /\ seat' = seat /\ peersWithMedia' = peersWithMedia /\ prods' = prods /\ past' = past
      /\ acked' = acked /\ entry' = entry /\ srecv' = entry /\ made' = made /\ sconsumers' = sconsumers
      /\ device' = device /\ loads' = loads /\ recv' = recv /\ blocked' = blocked
      /\ peers' = peers /\ attached' = attached /\ detached' = detached /\ pending' = pending
      /\ creating' = creating /\ consumers' = consumers /\ shown' = shown /\ offline' = offline
      /\ reqs # <<>> /\ Serve("create-recv-transport")
      /\ wire' = IF entry THEN Append(wire, Transport) \o AnnounceAll ELSE wire
  BY DEF ServeTransport, Serve, room, client, media, registry, unit, tracker, Transport
<1>3. acked /\ entry \in BOOLEAN
  BY <1>1, <1>2 DEF AwayIsEmpty, Typed
<1>4. /\ reqs' \in Seq(Requests) /\ Range(reqs) = Range(reqs') \cup {Head(reqs)}
      /\ Asked' = Asked
  <2>1. /\ reqs' \in Seq(Requests) /\ Head(reqs).ev = "create-recv-transport"
        /\ Range(reqs) = Range(reqs') \cup {Head(reqs)}
        /\ Asked = Asked' \cup {p \in Producers : Head(reqs) = Consumption(p)}
    BY <1>1, <1>2, RequestIsServed
  <2>2. {p \in Producers : Head(reqs) = Consumption(p)} = {}
    BY <2>1, RequestsAre
  <2> QED BY <2>1, <2>2
<1>5. PICK said \in Seq(AnyEvent) :
         /\ wire' = wire \o said
         /\ entry => Range(said) = {Transport} \cup {Announcement(p) : p \in prods}
         /\ ~entry => said = <<>>
  <2>1. CASE entry
    <3>1. wire \in Seq(AnyEvent) /\ Transport \in AnyEvent
      BY <1>1, SignalsAre DEF Typed
    <3>2. <<Transport>> \in Seq(AnyEvent) /\ Range(<<Transport>>) = {Transport}
      BY <3>1, OneIn
    <3>3. AnnounceAll \in Seq(AnyEvent) /\ Range(AnnounceAll) = {Announcement(p) : p \in prods}
      BY <1>1, AnnouncesAll
    <3> DEFINE told == <<Transport>> \o AnnounceAll
    <3>4. /\ told \in Seq(AnyEvent)
          /\ Range(told) = {Transport} \cup {Announcement(p) : p \in prods}
      <4>1. Joins(told, <<Transport>>, AnnounceAll)
        BY DEF Joins
      <4> HIDE DEF told
      <4> QED BY <3>2, <3>3, <4>1, WhatJoins
    <3>5. wire' = wire \o told
      <4> DEFINE all == AnnounceAll
                 e == Transport
      <4>1. wire' = Append(wire, e) \o all
        BY <1>2, <2>1
      <4>2. all \in Seq(AnyEvent) /\ e \in AnyEvent
        BY <3>1, <3>3
      <4> HIDE DEF all, e
      <4>3. Append(wire, e) \o all = wire \o (<<e>> \o all)
        BY <3>1, <4>2
      <4> QED BY <4>1, <4>3 DEF all, e
    <3> HIDE DEF told
    <3> QED BY <2>1, <3>4, <3>5
  <2>2. CASE ~entry
    <3>1. wire' = wire \o <<>>
      BY <1>1, <1>2, <2>2 DEF Typed
    <3> QED BY <2>2, <3>1, NothingIn
  <2> QED BY <2>1, <2>2
<1>6. Range(said) \subseteq {Transport} \cup {Announcement(p) : p \in prods}
  BY <1>5, NothingIn
<1>7. prods \subseteq Producers /\ prods \subseteq past
  BY <1>1 DEF Typed
<1>8. \A e \in Range(said) : e \in AnyEvent /\ e.ev \in {"transport-created", "new-producer"}
  BY <1>6, <1>7, SignalsAre, AnnouncementsAre
<1>9. \A p \in Producers : Announcement(p) \in Range(said) => p \in prods
  BY <1>6, <1>7, SignalsAre, AnnouncementsAre
<1>10. /\ wire' \in Seq(AnyEvent) /\ Coming' = Coming \cup Range(said)
       /\ Created' = Created /\ Announced \subseteq Announced' /\ Announced' \subseteq Announced \cup prods
       /\ entry => prods \subseteq Announced'
  <2>1. {p \in Producers : \E e \in Range(said) : e.ev = "consumer-created" /\ e.cons.prod = p} = {}
    BY <1>8
  <2>2. {p \in Producers : Announcement(p) \in Range(said)} \subseteq prods
    BY <1>9
  <2>3. entry => prods \subseteq {p \in Producers : Announcement(p) \in Range(said)}
    BY <1>5, <1>7
  <2>4. /\ wire' \in Seq(AnyEvent) /\ Coming' = Coming \cup Range(said)
        /\ Announced' = Announced \cup {p \in Producers : Announcement(p) \in Range(said)}
        /\ Created' = Created \cup {p \in Producers :
                          \E e \in Range(said) : e.ev = "consumer-created" /\ e.cons.prod = p}
    BY <1>1, <1>5, WireGrows
  <2> QED BY <2>1, <2>2, <2>3, <2>4
<1>11. /\ \A a, b : Before(wire', a, b) =>
             Before(wire, a, b) \/ Before(said, a, b) \/ (a \in Coming /\ b \in Range(said))
       /\ \A x, T : Word(wire', x, T) => Word(said, x, T) \/ (Silent(said, T) /\ Word(wire, x, T))
       /\ \A T : Silent(wire', T) => Silent(wire, T) /\ Silent(said, T)
  BY <1>1, <1>5, WireGrows
<1>12. \A a, b : b \notin Range(said) => (Before(wire', a, b) => Before(wire, a, b))
  BY <1>11, WordsAreIn
<1>13. Consumed' = Consumed /\ Known' = Known
  <2>1. Consumed' = Consumed
    BY <1>2 DEF Consumed
  <2> QED BY <1>2, <1>4, <1>10, <2>1 DEF Known
<1>14. Typed'
  BY <1>1, <1>2, <1>3, <1>4, <1>10 DEF Typed
<1>15. ConsumersWereMade'
  <2>1. \A e \in Range(said) : e \notin OfConsumers
    BY <1>8 DEF OfConsumers
  <2> QED BY <1>1, <1>2, <1>10, <2>1 DEF ConsumersWereMade
<1>16. AwayIsEmpty'
  BY <1>2, <1>3 DEF AwayIsEmpty
<1>17. PastIsKnown' /\ DeviceLoads'
  BY <1>1, <1>2, <1>7, <1>10, <1>13 DEF PastIsKnown, DeviceLoads
<1>18. Joined \notin Range(said) /\ Reset \notin Range(said)
  BY <1>8, SignalsAre
<1>19. JoinedIsFirst'
  BY <1>1, <1>2, <1>10, <1>12, <1>18 DEF JoinedIsFirst
<1>20. TransportComes'
  <2>1. entry => Transport \in Coming'
    BY <1>5, <1>10
  <2> QED BY <1>1, <1>2, <1>4, <1>10, <1>18, <2>1 DEF TransportComes
<1>21. UnderWay'
  BY <1>2, <1>10 DEF UnderWay
<1>22. ClosedIsOver'
  <2>1. \A e \in Coming' : e.ev = "consumer-closed" => e \in Coming
    BY <1>8, <1>10
  <2> QED BY <1>1, <1>2, <2>1 DEF ClosedIsOver
<1>23. LeavesFirst'
  <2> SUFFICES ASSUME entry, NEW p \in prods, NEW e \in Leaving(Owner[p]), e \in Coming'
               PROVE  p \notin Known' /\ ~Before(wire', Announcement(p), e)
    BY <1>2 DEF LeavesFirst
  <2>1. Owner[p] \in Users
    BY <1>7, OwnersAreUsers
  <2>2. e \notin Range(said)
    BY <1>8, <2>1, LeavingIs
  <2> QED BY <1>1, <1>10, <1>12, <1>13, <2>2 DEF LeavesFirst
<1>24. ShownAsConsumed'
  BY <1>1, <1>2, <1>4, <1>10, <1>13 DEF ShownAsConsumed
<1>25. BlockedWhileShared'
  <2>1. OneScreen' /\ (Shared' <=> Shared)
    BY <1>1, <1>2 DEF BlockedWhileShared, OneScreen, Shared
  <2>2. \A x : Word(said, x, Sharing) => x \in Starts /\ Shared
    <3> SUFFICES ASSUME NEW x, x \in Range(said), x \in Sharing PROVE x \in Starts /\ Shared
      BY WordsAreIn
    <3>1. x.ev # "screen-share-stopped" /\ x.ev \in {"transport-created", "new-producer"}
      BY <1>8
    <3>2. x \in Starts
      BY <3>1, SharingIs
    <3>3. PICK p \in prods : x = Announcement(p)
      BY <1>6, <3>2, SharingIs, SignalsAre
    <3>4. p \in Screens
      BY <1>7, <3>2, <3>3, SharingIs
    <3> QED BY <3>2, <3>4 DEF Shared
  <2>3. entry /\ Shared => ~Silent(said, Sharing)
    <3> SUFFICES ASSUME entry, Shared PROVE ~Silent(said, Sharing)
      OBVIOUS
    <3>1. PICK p \in prods : p \in Screens
      BY DEF Shared
    <3>2. Announcement(p) \in Sharing /\ Announcement(p) \in Range(said)
      BY <1>5, <1>7, <3>1, SharingIs
    <3> QED BY <3>2, WordsAreIn
  <2> QED BY <1>1, <1>2, <1>11, <2>1, <2>2, <2>3 DEF BlockedWhileShared
<1> QED BY <1>14, <1>15, <1>16, <1>17, <1>19, <1>20, <1>21, <1>22, <1>23, <1>24, <1>25 DEF ViewIInv

LEMMA ConsumeIsServed ==
    ASSUME ViewIInv, ServeConsume PROVE ViewIInv'
<1>1. /\ Typed /\ ConsumersWereMade /\ AwayIsEmpty /\ PastIsKnown /\ DeviceLoads /\ JoinedIsFirst
      /\ TransportComes /\ UnderWay /\ ClosedIsOver /\ LeavesFirst /\ ShownAsConsumed
      /\ BlockedWhileShared
  BY DEF ViewIInv
<1> DEFINE p == Head(reqs).prod
           c == [prod |-> p, n |-> made + 1]
           e == OfConsumer("consumer-created", c)
<1>2. /\ seat' = seat /\ peersWithMedia' = peersWithMedia /\ prods' = prods /\ past' = past
      /\ acked' = acked /\ entry' = entry /\ srecv' = srecv
      /\ device' = device /\ loads' = loads /\ recv' = recv /\ blocked' = blocked
      /\ peers' = peers /\ attached' = attached /\ detached' = detached /\ pending' = pending
      /\ creating' = creating /\ consumers' = consumers /\ shown' = shown /\ offline' = offline
      /\ reqs # <<>> /\ Serve("consume")
      /\ IF srecv /\ p \in prods
         THEN sconsumers' = sconsumers \cup {c} /\ made' = made + 1 /\ wire' = Append(wire, e)
         ELSE UNCHANGED <<sconsumers, made, wire>>
  BY DEF ServeConsume, Serve, room, client, media, registry, unit, tracker
<1>3. acked
  BY <1>1, <1>2 DEF AwayIsEmpty
<1>4. /\ reqs' \in Seq(Requests) /\ p \in Producers /\ p \in Asked /\ Asked = Asked' \cup {p}
      /\ Wanted \in Range(reqs) => Wanted \in Range(reqs')
  <2>1. /\ reqs' \in Seq(Requests) /\ Head(reqs) \in Requests /\ Head(reqs).ev = "consume"
        /\ Range(reqs) = Range(reqs') \cup {Head(reqs)}
        /\ Asked = Asked' \cup {q \in Producers : Head(reqs) = Consumption(q)}
    BY <1>1, <1>2, RequestIsServed
  <2>2. p \in Producers /\ Head(reqs) = Consumption(p) /\ Head(reqs) # Wanted
    BY <2>1, RequestsAre
  <2>3. {q \in Producers : Head(reqs) = Consumption(q)} = {p}
    BY <2>2, RequestsAre
  <2> QED BY <2>1, <2>2, <2>3
<1>5. made \in Nat /\ made + 1 \in Nat /\ c \in AnyConsumer /\ c.prod = p /\ c.n = made + 1
  BY <1>1, <1>4 DEF Typed, AnyConsumer
<1>6. e \in AnyEvent /\ e.ev = "consumer-created" /\ e.cons = c
  BY <1>5, ConsumersAre
<1> HIDE DEF p, c, e
<1>7. PICK said \in Seq(AnyEvent) :
         /\ wire' = wire \o said
         /\ srecv /\ p \in prods => Range(said) = {e}
         /\ ~(srecv /\ p \in prods) => Range(said) = {}
         /\ \A a, b : ~Before(said, a, b)
  <2>1. CASE srecv /\ p \in prods
    <3>1. wire' = wire \o <<e>>
      <4>1. wire \in Seq(AnyEvent)
        BY <1>1 DEF Typed
      <4> QED BY <1>2, <1>6, <2>1, <4>1
    <3> QED BY <1>6, <2>1, <3>1, OneIn
  <2>2. CASE ~(srecv /\ p \in prods)
    <3>1. wire' = wire \o <<>>
      BY <1>1, <1>2, <2>2 DEF Typed
    <3> QED BY <2>2, <3>1, NothingIn
  <2> QED BY <2>1, <2>2
<1>8. Range(said) \subseteq {e}
  BY <1>7
<1>9. Joined \notin Range(said) /\ Reset \notin Range(said) /\ Transport \notin Range(said)
  BY <1>6, <1>8, SignalsAre
<1>10. /\ wire' \in Seq(AnyEvent) /\ Coming' = Coming \cup Range(said) /\ Announced' = Announced
       /\ Created \subseteq Created' /\ Created' \subseteq Created \cup {p}
       /\ srecv /\ p \in prods => p \in Created'
  <2>1. {q \in Producers : Announcement(q) \in Range(said)} = {}
    BY <1>6, <1>8, AnnouncementsAre
  <2>2. {q \in Producers : \E x \in Range(said) : x.ev = "consumer-created" /\ x.cons.prod = q} \subseteq {p}
    BY <1>5, <1>6, <1>8
  <2>3. srecv /\ p \in prods =>
          p \in {q \in Producers : \E x \in Range(said) : x.ev = "consumer-created" /\ x.cons.prod = q}
    BY <1>4, <1>5, <1>6, <1>7
  <2>4. /\ wire' \in Seq(AnyEvent) /\ Coming' = Coming \cup Range(said)
        /\ Announced' = Announced \cup {q \in Producers : Announcement(q) \in Range(said)}
        /\ Created' = Created \cup {q \in Producers :
                          \E x \in Range(said) : x.ev = "consumer-created" /\ x.cons.prod = q}
    BY <1>1, <1>7, WireGrows
  <2> QED BY <2>1, <2>2, <2>3, <2>4
<1>11. /\ \A a, b : Before(wire', a, b) => Before(wire, a, b) \/ b = e
       /\ \A x, T : Word(wire', x, T) => Word(said, x, T) \/ (Silent(said, T) /\ Word(wire, x, T))
       /\ \A T : Silent(wire', T) => Silent(wire, T) /\ Silent(said, T)
  BY <1>1, <1>7, <1>8, WireGrows
<1>12. sconsumers' \subseteq sconsumers \cup {c} /\ made' \in {made, made + 1}
  BY <1>2
<1>13. Consumed' = Consumed /\ Known' \subseteq Known /\ p \in Known
  <2>1. Consumed' = Consumed
    BY <1>2 DEF Consumed
  <2>2. \A d \in sconsumers' : d.prod = p \/ d.prod \in {x.prod : x \in sconsumers}
    BY <1>5, <1>12
  <2>3. p \in Known
    BY <1>4 DEF Known
  <2> QED BY <1>2, <1>4, <1>10, <2>1, <2>2, <2>3 DEF Known
<1>14. Typed'
  <2>1. IsFiniteSet(sconsumers')
    <3>1. IsFiniteSet(sconsumers) /\ IsFiniteSet(sconsumers \cup {c})
      BY <1>1, FS_AddElement DEF Typed
    <3>2. sconsumers' = sconsumers \/ sconsumers' = sconsumers \cup {c}
      BY <1>2
    <3> QED BY <3>1, <3>2
  <2>2. sconsumers' \subseteq AnyConsumer /\ made' \in Nat
    BY <1>1, <1>5, <1>12 DEF Typed
  <2> QED BY <1>1, <1>2, <1>4, <1>10, <2>1, <2>2 DEF Typed
<1>15. ConsumersWereMade'
  <2>1. \A i \in 1 .. made : i \in 1 .. made'
    BY <1>5, <1>12
  <2>2. \A d \in sconsumers' : d.n \in 1 .. made'
    <3>1. c \in sconsumers' => c \in sconsumers \/ c.n \in 1 .. made'
      BY <1>2, <1>5
    <3> QED BY <1>1, <1>12, <2>1, <3>1 DEF ConsumersWereMade
  <2>3. \A d \in creating' \cup consumers' : d.n \in 1 .. made'
    BY <1>1, <1>2, <2>1 DEF ConsumersWereMade
  <2>4. \A x \in Coming' : x \in OfConsumers => x.cons.n \in 1 .. made'
    <3>1. \A x \in Range(said) : x.cons.n \in 1 .. made'
      BY <1>2, <1>5, <1>6, <1>7
    <3> QED BY <1>1, <1>10, <2>1, <3>1 DEF ConsumersWereMade
  <2> QED BY <2>2, <2>3, <2>4 DEF ConsumersWereMade
<1>16. AwayIsEmpty'
  BY <1>1, <1>2, <1>3 DEF AwayIsEmpty
<1>17. PastIsKnown' /\ DeviceLoads'
  BY <1>1, <1>2, <1>10, <1>13 DEF PastIsKnown, DeviceLoads
<1>18. JoinedIsFirst'
  <2>1. e # Joined
    BY <1>6, SignalsAre
  <2> QED BY <1>1, <1>2, <1>9, <1>10, <1>11, <2>1 DEF JoinedIsFirst
<1>19. TransportComes'
  BY <1>1, <1>2, <1>4, <1>9, <1>10 DEF TransportComes
<1>20. UnderWay'
  BY <1>1, <1>2, <1>4, <1>10, <1>13 DEF UnderWay
<1>21. ClosedIsOver'
  <2>1. \A x \in Coming' : x.ev = "consumer-closed" => x \in Coming
    BY <1>6, <1>8, <1>10
  <2> QED BY <1>1, <1>2, <2>1 DEF ClosedIsOver
<1>22. LeavesFirst'
  <2> SUFFICES ASSUME entry, NEW q \in prods, NEW x \in Leaving(Owner[q]), x \in Coming'
               PROVE  q \notin Known' /\ ~Before(wire', Announcement(q), x)
    BY <1>2 DEF LeavesFirst
  <2>1. Owner[q] \in Users
    BY <1>1, OwnersAreUsers DEF Typed
  <2>2. x # e
    BY <1>6, <2>1, LeavingIs
  <2> QED BY <1>1, <1>8, <1>10, <1>11, <1>13, <2>2 DEF LeavesFirst
<1>23. ShownAsConsumed'
  BY <1>1, <1>2, <1>4, <1>10, <1>13 DEF ShownAsConsumed
<1>24. BlockedWhileShared'
  <2>1. OneScreen' /\ (Shared' <=> Shared)
    BY <1>1, <1>2 DEF BlockedWhileShared, OneScreen, Shared
  <2>2. Range(said) \cap Sharing = {}
    BY <1>6, <1>8, SharingIs
  <2>3. Silent(said, Sharing) /\ \A x : ~Word(said, x, Sharing)
    BY <2>2, WordsAreIn
  <2> QED BY <1>1, <1>2, <1>11, <2>1, <2>3 DEF BlockedWhileShared
<1> QED BY <1>14, <1>15, <1>16, <1>17, <1>18, <1>19, <1>20, <1>21, <1>22, <1>23, <1>24 DEF ViewIInv

-----------------------------------------------------------------------------
(* The viewer's connection and device.                                     *)

LEMMA ViewerDrops ==
    ASSUME ViewIInv, Drop PROVE ViewIInv'
<1>1. Typed /\ BlockedWhileShared
  BY DEF ViewIInv
<1>2. /\ seat' = seat /\ peersWithMedia' = peersWithMedia /\ prods' = prods /\ past' = past
      /\ acked' = FALSE /\ entry' = FALSE /\ srecv' = FALSE /\ made' = made /\ sconsumers' = {}
      /\ device' = "none" /\ loads' = loads /\ recv' = FALSE /\ blocked' = FALSE
      /\ peers' = {} /\ attached' = {} /\ detached' = {} /\ pending' = <<>>
      /\ creating' = {} /\ consumers' = {} /\ shown' = shown /\ offline' = offline
      /\ wire' = <<>> /\ reqs' = <<>>
  BY DEF Drop, CloseAll, ClearRegistry, ResetUnit, room, tracker
<1>3. Coming' = {} /\ Range(reqs') = {} /\ Range(pending') = {}
  BY <1>2, NothingIn DEF Coming
<1>4. Asked' = {} /\ Created' = {} /\ Announced' = {} /\ Consumed' = {}
  BY <1>2, <1>3 DEF Asked, Created, Announced, Consumed
<1>5. Known' = {}
  BY <1>2, <1>3, <1>4 DEF Known
<1>6. Typed'
  BY <1>1, <1>2, NothingIn, FS_EmptySet DEF Typed
<1>7. ConsumersWereMade' /\ AwayIsEmpty' /\ PastIsKnown' /\ DeviceLoads'
  BY <1>2, <1>3, <1>4, <1>5 DEF ConsumersWereMade, AwayIsEmpty, PastIsKnown, DeviceLoads
<1>8. JoinedIsFirst' /\ TransportComes' /\ UnderWay' /\ ClosedIsOver'
  BY <1>2, <1>3 DEF JoinedIsFirst, TransportComes, UnderWay, ClosedIsOver
<1>9. LeavesFirst' /\ ShownAsConsumed'
  BY <1>2 DEF LeavesFirst, ShownAsConsumed
<1>10. BlockedWhileShared'
  BY <1>1, <1>2 DEF BlockedWhileShared, OneScreen
<1> QED BY <1>6, <1>7, <1>8, <1>9, <1>10 DEF ViewIInv

LEMMA ViewerRejoins ==
    ASSUME ViewIInv, Rejoin PROVE ViewIInv'
<1>1. /\ Typed /\ ConsumersWereMade /\ AwayIsEmpty /\ PastIsKnown /\ DeviceLoads /\ JoinedIsFirst
      /\ ClosedIsOver /\ BlockedWhileShared
  BY DEF ViewIInv
<1> DEFINE others == {u \in Users : seat[u] = "in"}
           e == [ev |-> "existing-peers", users |-> others]
           list == IF others = {} THEN <<>> ELSE <<e>>
<1>2. /\ seat' = seat /\ peersWithMedia' = peersWithMedia /\ prods' = prods /\ past' = past
      /\ acked' = TRUE /\ entry' = TRUE /\ srecv' = srecv /\ made' = made /\ sconsumers' = sconsumers
      /\ device' = device /\ loads' = loads /\ recv' = recv /\ blocked' = blocked
      /\ peers' = peers /\ attached' = attached /\ detached' = detached /\ pending' = pending
      /\ creating' = creating /\ consumers' = consumers /\ shown' = shown /\ offline' = offline
      /\ reqs' = reqs /\ ~acked /\ wire' = list \o <<Joined>>
  BY DEF Rejoin, room, client, media, registry, unit, tracker, Joined
<1>3. /\ wire = <<>> /\ reqs = <<>> /\ pending = <<>> /\ ~srecv /\ ~recv /\ ~blocked
      /\ device = "none" /\ attached = {} /\ creating = {} /\ consumers = {}
  BY <1>1, <1>2 DEF AwayIsEmpty
<1>4. e \in AnyEvent /\ e \notin OfConsumers /\ e.ev = "existing-peers"
  BY ExistingAre
<1> HIDE DEF e
<1>5. list \in Seq(AnyEvent) /\ Range(list) \subseteq {e} /\ \A a, b : ~Before(list, a, b)
  BY <1>4, OneIn, NothingIn
<1> HIDE DEF list
<1>6. /\ <<Joined>> \in Seq(AnyEvent) /\ Range(<<Joined>>) = {Joined}
      /\ \A a, b : ~Before(<<Joined>>, a, b)
  BY OneIn, SignalsAre
<1>7. /\ wire' \in Seq(AnyEvent) /\ Range(wire') = Range(list) \cup {Joined}
      /\ \A a, b : Before(wire', a, b) => a \in Range(list)
  <2> DEFINE last == <<Joined>>
  <2>1. Joins(wire', list, last)
    BY <1>2 DEF Joins
  <2>2. last \in Seq(AnyEvent) /\ Range(last) = {Joined} /\ \A a, b : ~Before(last, a, b)
    BY <1>6
  <2> HIDE DEF last
  <2> QED BY <1>5, <2>1, <2>2, WhatJoins
<1>8. Coming' \subseteq {e, Joined} /\ Joined \in Coming'
  BY <1>5, <1>7 DEF Coming
<1>9. \A x \in Coming' : x.ev \in {"existing-peers", "joined-room"} /\ x \notin OfConsumers
  BY <1>4, <1>8, SignalsAre DEF OfConsumers
<1>10. Coming = {} /\ Range(reqs) = {} /\ Range(pending) = {}
  BY <1>3, NothingIn DEF Coming
<1>11. Asked' = {} /\ Created' = {} /\ Announced' = {} /\ Consumed' = {}
  <2>1. Asked' = {} /\ Consumed' = {}
    BY <1>2, <1>3, <1>10 DEF Asked, Consumed
  <2>2. Created' = {}
    BY <1>9 DEF Created
  <2>3. Announced' = {}
    BY <1>9, AnnouncementsAre DEF Announced
  <2> QED BY <2>1, <2>2, <2>3
<1>12. Known' \subseteq Known
  BY <1>2, <1>11 DEF Known
<1>13. Typed'
  BY <1>1, <1>2, <1>7 DEF Typed
<1>14. ConsumersWereMade' /\ AwayIsEmpty' /\ PastIsKnown' /\ DeviceLoads'
  BY <1>1, <1>2, <1>9, <1>11, <1>12 DEF ConsumersWereMade, AwayIsEmpty, PastIsKnown, DeviceLoads
<1>15. JoinedIsFirst'
  BY <1>2, <1>3, <1>4, <1>5, <1>7 DEF JoinedIsFirst
<1>16. TransportComes'
  <2>1. Reset \notin Coming' /\ Transport \notin Coming'
    BY <1>9, SignalsAre
  <2> QED BY <1>2, <1>3, <1>8, <1>11, <2>1 DEF TransportComes
<1>17. UnderWay' /\ ClosedIsOver'
  BY <1>2, <1>3, <1>9 DEF UnderWay, ClosedIsOver
<1>18. LeavesFirst'
  <2> SUFFICES ASSUME NEW p \in prods, NEW x \in Leaving(Owner[p]) PROVE x \notin Coming'
    BY <1>2 DEF LeavesFirst
  <2>1. Owner[p] \in Users
    BY <1>1, OwnersAreUsers DEF Typed
  <2> QED BY <1>9, <2>1, LeavingIs
<1>19. ShownAsConsumed'
  BY <1>2, <1>3, <1>11 DEF ShownAsConsumed
<1>20. BlockedWhileShared'
  <2>1. OneScreen'
    BY <1>1, <1>2 DEF BlockedWhileShared, OneScreen
  <2>2. Coming' \cap Sharing = {}
    BY <1>9, SharingIs
  <2>3. \A x : ~Word(wire', x, Sharing)
    BY <2>2, WordsAreIn DEF Coming
  <2> QED BY <1>2, <1>3, <2>1, <2>3 DEF BlockedWhileShared
<1> QED BY <1>13, <1>14, <1>15, <1>16, <1>17, <1>18, <1>19, <1>20 DEF ViewIInv

LEMMA DeviceComes ==
    ASSUME ViewIInv, DeviceLoaded PROVE ViewIInv'
<1>1. /\ Typed /\ ConsumersWereMade /\ AwayIsEmpty /\ PastIsKnown /\ DeviceLoads /\ JoinedIsFirst
      /\ TransportComes /\ UnderWay /\ ClosedIsOver /\ LeavesFirst /\ ShownAsConsumed
      /\ BlockedWhileShared
  BY DEF ViewIInv
<1>2. /\ seat' = seat /\ peersWithMedia' = peersWithMedia /\ prods' = prods /\ past' = past
      /\ acked' = acked /\ entry' = entry /\ srecv' = srecv /\ made' = made /\ sconsumers' = sconsumers
      /\ recv' = recv /\ blocked' = blocked
      /\ peers' = peers /\ attached' = attached /\ detached' = detached /\ pending' = pending
      /\ creating' = creating /\ consumers' = consumers /\ shown' = shown /\ offline' = offline
      /\ wire' = wire /\ loads > 0 /\ loads' = loads - 1
      /\ device' = IF loads = 1 /\ device = "loading" THEN "loaded" ELSE device
      /\ reqs' = IF acked THEN Append(reqs, Wanted) ELSE reqs
  BY DEF DeviceLoaded, server, room, ours, registry, unit, tracker, Wanted
<1>3. loads \in Nat /\ loads' \in Nat /\ device # "loaded" /\ ~recv
  BY <1>1, <1>2 DEF DeviceLoads, Typed
<1>4. /\ reqs' \in Seq(Requests) /\ Asked' = Asked /\ Range(reqs) \subseteq Range(reqs')
      /\ acked => Wanted \in Range(reqs')
  <2>1. reqs \in Seq(Requests)
    BY <1>1 DEF Typed
  <2>2. CASE acked
    <3>1. <<Wanted>> \in Seq(Requests) /\ Range(<<Wanted>>) = {Wanted}
      BY OneIn, RequestsAre
    <3>2. reqs' = reqs \o <<Wanted>>
      BY <1>2, <2>1, <2>2, RequestsAre
    <3>3. {p \in Producers : Consumption(p) \in Range(<<Wanted>>)} = {}
      BY <3>1, RequestsAre
    <3>4. /\ reqs' \in Seq(Requests) /\ Range(reqs') = Range(reqs) \cup {Wanted}
          /\ Asked' = Asked \cup {p \in Producers : Consumption(p) \in Range(<<Wanted>>)}
      BY <1>1, <3>1, <3>2, RequestsGrow
    <3> QED BY <3>3, <3>4
  <2>3. CASE ~acked
    BY <1>2, <2>1, <2>3 DEF Asked
  <2> QED BY <1>1, <2>2, <2>3 DEF Typed
<1>5. Coming' = Coming /\ Created' = Created /\ Announced' = Announced /\ Consumed' = Consumed
  BY <1>2 DEF Coming, Created, Announced, Consumed
<1>6. Known' = Known
  BY <1>2, <1>4, <1>5 DEF Known
<1>7. Typed'
  BY <1>1, <1>2, <1>3, <1>4 DEF Typed
<1>8. ConsumersWereMade' /\ PastIsKnown' /\ ClosedIsOver'
  BY <1>1, <1>2, <1>5, <1>6 DEF ConsumersWereMade, PastIsKnown, ClosedIsOver
<1>9. AwayIsEmpty'
  BY <1>1, <1>2 DEF AwayIsEmpty
<1>10. DeviceLoads'
  BY <1>1, <1>2, <1>3 DEF DeviceLoads
<1>11. JoinedIsFirst'
  BY <1>1, <1>2, <1>5 DEF JoinedIsFirst
<1>12. TransportComes'
  BY <1>1, <1>2, <1>4, <1>5 DEF TransportComes, AwayIsEmpty
<1>13. UnderWay' /\ LeavesFirst' /\ ShownAsConsumed'
  BY <1>1, <1>2, <1>4, <1>5, <1>6 DEF UnderWay, LeavesFirst, ShownAsConsumed
<1>14. BlockedWhileShared'
  BY <1>1, <1>2 DEF BlockedWhileShared, OneScreen, Shared
<1> QED BY <1>7, <1>8, <1>9, <1>10, <1>11, <1>12, <1>13, <1>14 DEF ViewIInv

-----------------------------------------------------------------------------
(* The viewer's handlers.  What each leaves true whatever it does.         *)

LEMMA ServerRests ==
    ASSUME UNCHANGED server
    PROVE  /\ seat' = seat /\ peersWithMedia' = peersWithMedia /\ prods' = prods /\ past' = past
           /\ acked' = acked /\ entry' = entry /\ srecv' = srecv /\ made' = made
           /\ sconsumers' = sconsumers
BY DEF server, room, ours

\* What the viewer believes of the sharing once it has read h.
Believes(h) ==
    blocked' = IF h \in Starts THEN TRUE ELSE IF h \in Stops THEN FALSE ELSE blocked

LEMMA HandlerKeeps ==
    ASSUME ViewIInv, wire # <<>>, wire' = Tail(wire), UNCHANGED server,
           device' = device \/ Joined \notin Coming', entry => Believes(Head(wire))
    PROVE  /\ acked /\ AwayIsEmpty' /\ JoinedIsFirst' /\ ClosedIsOver' /\ BlockedWhileShared'
<1> DEFINE h == Head(wire)
<1>1. /\ Typed /\ AwayIsEmpty /\ JoinedIsFirst /\ ClosedIsOver /\ BlockedWhileShared
  BY DEF ViewIInv
<1>2. /\ prods' = prods /\ past' = past /\ acked' = acked /\ entry' = entry /\ srecv' = srecv
  BY ServerRests
<1>3. /\ Coming = Coming' \cup {h}
      /\ \A a, b : Before(wire', a, b) => Before(wire, a, b)
      /\ \A x, T : Word(wire', x, T) => Word(wire, x, T)
      /\ \A T : Silent(wire', T) => IF h \in T THEN Word(wire, h, T) ELSE Silent(wire, T)
  BY <1>1, WireIsRead
<1>4. acked
  BY <1>1 DEF AwayIsEmpty
<1>5. AwayIsEmpty'
  BY <1>1, <1>2, <1>4 DEF AwayIsEmpty
<1>6. JoinedIsFirst'
  BY <1>1, <1>3 DEF JoinedIsFirst
<1>7. ClosedIsOver'
  BY <1>1, <1>2, <1>3 DEF ClosedIsOver
<1>8. BlockedWhileShared'
  <2>1. OneScreen' /\ (Shared' <=> Shared)
    BY <1>1, <1>2 DEF BlockedWhileShared, OneScreen, Shared
  <2>2. entry => \A x : Word(wire', x, Sharing) => (x \in Starts <=> Shared)
    BY <1>1, <1>3 DEF BlockedWhileShared
  <2>3. ASSUME entry, Silent(wire', Sharing)
        PROVE  (blocked' => Shared) /\ (Shared /\ srecv => blocked')
    <3>1. CASE h \in Starts
      <4>1. Word(wire, h, Sharing)
        BY <1>3, <2>3, <3>1, SharingIs
      <4>2. Shared
        BY <1>1, <2>3, <3>1, <4>1 DEF BlockedWhileShared
      <4>3. blocked'
        BY <2>3, <3>1 DEF Believes
      <4> QED BY <4>2, <4>3
    <3>2. CASE h \in Stops
      <4>1. Word(wire, h, Sharing) /\ h \notin Starts
        BY <1>3, <2>3, <3>2, SharingIs
      <4>2. ~Shared
        BY <1>1, <2>3, <4>1 DEF BlockedWhileShared
      <4>3. ~blocked'
        BY <2>3, <3>2, <4>1 DEF Believes
      <4> QED BY <4>2, <4>3
    <3>3. CASE h \notin Starts /\ h \notin Stops
      <4>1. Silent(wire, Sharing)
        BY <1>3, <2>3, <3>3, SharingIs
      <4>2. blocked' = blocked
        BY <2>3, <3>3 DEF Believes
      <4> QED BY <1>1, <2>3, <4>1, <4>2 DEF BlockedWhileShared
    <3> QED BY <3>1, <3>2, <3>3
  <2> QED BY <1>2, <2>1, <2>2, <2>3 DEF BlockedWhileShared
<1> QED BY <1>4, <1>5, <1>6, <1>7, <1>8

\* Events that tell of neither a producer, a consumer nor a transport.
LEMMA PlainlyRead ==
    ASSUME Typed, wire # <<>>, wire' = Tail(wire), NEW h, h = Head(wire),
           h.ev \notin {"new-producer", "consumer-created"}
    PROVE  Announced' = Announced /\ Created' = Created
<1>1. /\ Announced = Announced' \cup {p \in Producers : h = Announcement(p)}
      /\ Created = Created' \cup {p \in Producers : h.ev = "consumer-created" /\ h.cons.prod = p}
  BY WireIsRead
<1>2. {p \in Producers : h = Announcement(p)} = {}
  BY AnnouncementsAre
<1>3. {p \in Producers : h.ev = "consumer-created" /\ h.cons.prod = p} = {}
  OBVIOUS
<1> QED BY <1>1, <1>2, <1>3

\* The handlers that touch the registry's people and the tracker alone.
LEMMA PeopleChange ==
    ASSUME ViewIInv, wire # <<>>, wire' = Tail(wire), UNCHANGED server, NEW h, h = Head(wire),
           h.ev \notin {"new-producer", "consumer-created", "joined-room", "transport-created"},
           Believes(h), blocked' \in BOOLEAN,
           UNCHANGED <<reqs, device, loads, recv, attached, unit>>,
           peers' \subseteq Users, detached' \subseteq peers', peers \subseteq peers',
           shown' \subseteq Users \cup {Nobody}, offline' \subseteq shown',
           \A u \in shown \ offline : u \in shown' \ offline' \/ h = About("peer-media-detached", u)
    PROVE  ViewIInv'
<1>1. /\ Typed /\ ConsumersWereMade /\ AwayIsEmpty /\ PastIsKnown /\ DeviceLoads /\ JoinedIsFirst
      /\ TransportComes /\ UnderWay /\ ClosedIsOver /\ LeavesFirst /\ ShownAsConsumed
      /\ BlockedWhileShared
  BY DEF ViewIInv
<1>2. /\ seat' = seat /\ peersWithMedia' = peersWithMedia /\ prods' = prods /\ past' = past
      /\ acked' = acked /\ entry' = entry /\ srecv' = srecv /\ made' = made /\ sconsumers' = sconsumers
  BY ServerRests
<1>3. /\ reqs' = reqs /\ device' = device /\ loads' = loads /\ recv' = recv /\ attached' = attached
      /\ pending' = pending /\ creating' = creating /\ consumers' = consumers
  BY DEF unit
<1>4. /\ wire' \in Seq(AnyEvent) /\ Coming = Coming' \cup {h}
      /\ \A a, b : Before(wire', a, b) => Before(wire, a, b)
  BY <1>1, WireIsRead
<1>5. Announced' = Announced /\ Created' = Created /\ Asked' = Asked /\ Consumed' = Consumed
  BY <1>1, <1>3, PlainlyRead DEF Asked, Consumed
<1>6. Known' = Known
  BY <1>2, <1>3, <1>5 DEF Known
<1>7. Joined # h /\ Transport # h
  BY SignalsAre
<1>8. /\ AwayIsEmpty' /\ JoinedIsFirst' /\ ClosedIsOver' /\ BlockedWhileShared'
  BY <1>3, HandlerKeeps
<1>9. Typed'
  BY <1>1, <1>2, <1>3, <1>4 DEF Typed
<1>10. ConsumersWereMade' /\ PastIsKnown' /\ DeviceLoads'
  BY <1>1, <1>2, <1>3, <1>4, <1>5, <1>6 DEF ConsumersWereMade, PastIsKnown, DeviceLoads
<1>11. TransportComes' /\ UnderWay'
  BY <1>1, <1>2, <1>3, <1>4, <1>5, <1>7 DEF TransportComes, UnderWay
<1>12. LeavesFirst'
  BY <1>1, <1>2, <1>4, <1>6 DEF LeavesFirst
<1>13. ShownAsConsumed'
  <2> SUFFICES ASSUME entry, NEW c \in consumers, c.prod \in prods
               PROVE  Owner[c.prod] \in shown' \ offline'
    BY <1>1, <1>2, <1>3, <1>5 DEF ShownAsConsumed
  <2>1. Owner[c.prod] \in shown \ offline /\ c.prod \in Known
    BY <1>1 DEF ShownAsConsumed, Known, Consumed
  <2>2. h # About("peer-media-detached", Owner[c.prod])
    <3>1. h \in Coming
      BY <1>4
    <3> QED BY <1>1, <2>1, <3>1 DEF LeavesFirst, Leaving
  <2> QED BY <2>1, <2>2
<1> QED BY <1>8, <1>9, <1>10, <1>11, <1>12, <1>13 DEF ViewIInv

LEMMA TrackerHears ==
    ASSUME ViewIInv, OnPeers \/ OnDetached \/ OnStateChanged \/ OnShareStarted \/ OnShareStopped
    PROVE  ViewIInv'
<1> DEFINE h == Head(wire)
<1>1. Typed
  BY DEF ViewIInv
<1>2. /\ peers \subseteq Users /\ detached \subseteq peers /\ blocked \in BOOLEAN
      /\ shown \subseteq Users \cup {Nobody} /\ offline \subseteq shown /\ wire \in Seq(AnyEvent)
  BY <1>1 DEF Typed
<1>3. wire # <<>> /\ wire' = Tail(wire) /\ h \in AnyEvent
  <2>1. wire # <<>> /\ wire' = Tail(wire)
    BY DEF OnPeers, OnDetached, OnStateChanged, OnShareStarted, OnShareStopped, On
  <2> QED BY <1>1, <2>1, WireIsRead
<1>4. CASE OnPeers
  <2> DEFINE users == IF h.ev = "existing-peers" THEN h.users ELSE {h.user}
  <2>1. h.ev \in {"peer-joined", "existing-peers"}
    BY <1>4 DEF OnPeers, On
  <2>2. users \subseteq Users
    BY <1>3, <2>1, ToldIs, ExistingIs DEF Tidings
  <2>3. /\ peers' = peers \cup users /\ detached' = detached \ users
        /\ shown' = shown \cup users /\ offline' = offline \ users
        /\ UNCHANGED <<server, reqs, device, loads, recv, blocked, attached, unit>>
    BY <1>4 DEF OnPeers, Upsert, Show, media
  <2> HIDE DEF users
  <2>4. h \notin Starts /\ h \notin Stops
    BY <2>1, SharingIs
  <2>5. Believes(h)
    BY <2>3, <2>4 DEF Believes
  <2>6. /\ peers' \subseteq Users /\ detached' \subseteq peers' /\ peers \subseteq peers'
        /\ shown' \subseteq Users \cup {Nobody} /\ offline' \subseteq shown'
        /\ \A u \in shown \ offline : u \in shown' \ offline'
    BY <1>2, <2>2, <2>3
  <2>7. blocked' \in BOOLEAN /\ UNCHANGED <<reqs, device, loads, recv, attached, unit>> /\ UNCHANGED server
    BY <1>2, <2>3
  <2> QED BY <1>3, <2>1, <2>5, <2>6, <2>7, PeopleChange
<1>5. CASE OnDetached
  <2> DEFINE u == h.user
             fresh == NewlyDetached(u)
  <2>1. h.ev = "peer-media-detached"
    BY <1>5 DEF OnDetached, On
  <2>2. u \in Users /\ h = About("peer-media-detached", u)
    BY <1>3, <2>1, ToldIs DEF Tidings
  <2>3. /\ peers' = peers /\ detached' = detached \cup fresh
        /\ shown' = shown /\ offline' = offline \cup (fresh \cap shown)
        /\ UNCHANGED <<server, reqs, device, loads, recv, blocked, attached, unit>>
    BY <1>5 DEF OnDetached, media
  <2>4. fresh \subseteq {u} /\ fresh \subseteq peers
    BY DEF NewlyDetached
  <2> HIDE DEF u, fresh
  <2>5. h \notin Starts /\ h \notin Stops
    BY <2>1, SharingIs
  <2>6. Believes(h)
    BY <2>3, <2>5 DEF Believes
  <2>7. /\ peers' \subseteq Users /\ detached' \subseteq peers' /\ peers \subseteq peers'
        /\ shown' \subseteq Users \cup {Nobody} /\ offline' \subseteq shown'
        /\ \A v \in shown \ offline : v \in shown' \ offline' \/ h = About("peer-media-detached", v)
    BY <1>2, <2>2, <2>3, <2>4
  <2>8. blocked' \in BOOLEAN /\ UNCHANGED <<reqs, device, loads, recv, attached, unit>> /\ UNCHANGED server
    BY <1>2, <2>3
  <2> QED BY <1>3, <2>1, <2>6, <2>7, <2>8, PeopleChange
<1>6. CASE OnStateChanged \/ OnShareStopped
  <2>1. h.ev \in {"producer-state-changed", "screen-share-stopped"}
    BY <1>6 DEF OnStateChanged, OnShareStopped, On
  <2>2. h.user \in Users /\ h = About(h.ev, h.user)
    BY <1>3, <2>1, ToldIs DEF Tidings
  <2>3. /\ peers' = peers /\ detached' = detached
        /\ shown' = shown \cup {h.user} /\ offline' = offline
        /\ UNCHANGED <<server, reqs, device, loads, recv, attached, unit>>
    BY <1>6 DEF OnStateChanged, OnShareStopped, Decorate, media, registry
  <2>4. /\ h.ev = "screen-share-stopped" => blocked' = FALSE
        /\ h.ev = "producer-state-changed" => blocked' = blocked
    BY <1>6 DEF OnStateChanged, OnShareStopped, On, Unblock, media
  <2>5. h \notin Starts /\ (h \in Stops <=> h.ev = "screen-share-stopped")
    BY <2>1, <2>2, SharingIs
  <2>6. Believes(h)
    BY <2>1, <2>4, <2>5 DEF Believes
  <2>7. /\ peers' \subseteq Users /\ detached' \subseteq peers' /\ peers \subseteq peers'
        /\ shown' \subseteq Users \cup {Nobody} /\ offline' \subseteq shown'
        /\ \A v \in shown \ offline : v \in shown' \ offline'
    BY <1>2, <2>2, <2>3
  <2>8. blocked' \in BOOLEAN /\ UNCHANGED <<reqs, device, loads, recv, attached, unit>> /\ UNCHANGED server
    BY <1>2, <2>1, <2>3, <2>4
  <2> QED BY <1>3, <2>1, <2>6, <2>7, <2>8, PeopleChange
<1>7. CASE OnShareStarted
  <2>1. h.ev = "screen-share-started"
    BY <1>7 DEF OnShareStarted, On
  <2>2. h.user \in Users /\ h = About(h.ev, h.user)
    BY <1>3, <2>1, ToldIs DEF Tidings
  <2>3. /\ peers' = peers /\ detached' = detached /\ shown' = shown /\ offline' = offline
        /\ blocked' = TRUE /\ UNCHANGED <<server, reqs, device, loads, recv, attached, unit>>
    BY <1>7 DEF OnShareStarted, registry, tracker
  <2>4. h \in Starts
    BY <2>1, <2>2, SharingIs
  <2>5. Believes(h)
    BY <2>3, <2>4 DEF Believes
  <2>6. blocked' \in BOOLEAN /\ UNCHANGED <<reqs, device, loads, recv, attached, unit>> /\ UNCHANGED server
    BY <2>3
  <2> QED BY <1>2, <1>3, <2>1, <2>3, <2>5, <2>6, PeopleChange
<1> QED BY <1>4, <1>5, <1>6, <1>7

\* Who leaves has no producer any more that there is.
LEMMA PeerGoes ==
    ASSUME ViewIInv, OnPeerLeft PROVE ViewIInv'
<1> DEFINE h == Head(wire)
           u == h.user
<1>1. /\ Typed /\ ConsumersWereMade /\ AwayIsEmpty /\ PastIsKnown /\ DeviceLoads /\ JoinedIsFirst
      /\ TransportComes /\ UnderWay /\ ClosedIsOver /\ LeavesFirst /\ ShownAsConsumed
      /\ BlockedWhileShared
  BY DEF ViewIInv
<1>2. /\ wire # <<>> /\ wire' = Tail(wire) /\ h.ev = "peer-left"
      /\ peers' = peers \ {u} /\ detached' = detached \ {u}
      /\ attached' = {p \in attached : Owner[p] # u}
      /\ consumers' = {c \in consumers : ~(c.prod \in attached /\ Owner[c.prod] = u)}
      /\ shown' = shown \ {u} /\ offline' = offline \ {u}
      /\ reqs' = reqs /\ device' = device /\ loads' = loads /\ recv' = recv /\ blocked' = blocked
      /\ pending' = pending /\ creating' = creating /\ UNCHANGED server
  BY DEF OnPeerLeft, On, RemovePeer, CloseConsumersOf, Unshow, media
<1>3. /\ seat' = seat /\ peersWithMedia' = peersWithMedia /\ prods' = prods /\ past' = past
      /\ acked' = acked /\ entry' = entry /\ srecv' = srecv /\ made' = made /\ sconsumers' = sconsumers
  BY <1>2, ServerRests
<1>4. /\ wire' \in Seq(AnyEvent) /\ h \in AnyEvent /\ Coming = Coming' \cup {h}
      /\ \A a, b : Before(wire', a, b) => Before(wire, a, b)
  BY <1>1, <1>2, WireIsRead
<1>5. u \in Users /\ h = About("peer-left", u)
  BY <1>2, <1>4, ToldIs DEF Tidings
<1> HIDE DEF h, u
<1>6. Announced' = Announced /\ Created' = Created /\ Asked' = Asked
  <2>1. Announced' = Announced /\ Created' = Created
    BY <1>1, <1>2, PlainlyRead DEF h
  <2> QED BY <1>2, <2>1 DEF Asked
<1>7. attached' \subseteq attached /\ consumers' \subseteq consumers
  BY <1>2
<1>8. Consumed' \subseteq Consumed
  BY <1>2, <1>7 DEF Consumed
<1>9. Known' \subseteq Known
  BY <1>2, <1>3, <1>6, <1>7, <1>8 DEF Known
<1>10. \A p \in prods : entry /\ p \in Known => Owner[p] # u
  <2>1. h \in Coming
    BY <1>4
  <2> QED BY <1>1, <1>5, <2>1 DEF LeavesFirst, Leaving
<1>11. Joined # h /\ Transport # h
  BY <1>2, SignalsAre
<1>12. AwayIsEmpty' /\ JoinedIsFirst' /\ ClosedIsOver' /\ BlockedWhileShared'
  <2>1. Believes(h)
    BY <1>2, SharingIs DEF Believes
  <2> QED BY <1>2, <2>1, HandlerKeeps DEF h
<1>13. Typed'
  BY <1>1, <1>2, <1>3, <1>4 DEF Typed
<1>14. ConsumersWereMade' /\ PastIsKnown' /\ DeviceLoads'
  BY <1>1, <1>2, <1>3, <1>4, <1>6, <1>7, <1>9 DEF ConsumersWereMade, PastIsKnown, DeviceLoads
<1>15. TransportComes'
  BY <1>1, <1>2, <1>3, <1>4, <1>6, <1>11 DEF TransportComes
<1>16. UnderWay'
  <2>1. ASSUME entry, NEW p \in prods, p \in Consumed PROVE p \in Consumed'
    <3>1. Owner[p] # u
      BY <1>10, <2>1 DEF Known
    <3> QED BY <1>2, <2>1, <3>1 DEF Consumed
  <2>2. srecv => entry
    BY <1>1 DEF AwayIsEmpty
  <2> QED BY <1>1, <1>2, <1>3, <1>6, <2>1, <2>2 DEF UnderWay
<1>17. LeavesFirst'
  BY <1>1, <1>3, <1>4, <1>9 DEF LeavesFirst
<1>18. ShownAsConsumed'
  <2>1. \A p \in prods : entry /\ p \in attached => p \in attached'
    BY <1>2, <1>10 DEF Known
  <2>2. \A c \in consumers' : entry /\ c.prod \in prods => Owner[c.prod] # u
    BY <1>7, <1>10 DEF Known, Consumed
  <2> QED BY <1>1, <1>2, <1>3, <1>6, <1>7, <1>8, <2>1, <2>2 DEF ShownAsConsumed
<1> QED BY <1>12, <1>13, <1>14, <1>15, <1>16, <1>17, <1>18 DEF ViewIInv

\* Whoever is asked for is attached to a participant, and is shown if that
\* is new.
LEMMA Consuming ==
    ASSUME Typed, NEW ps \in Seq(Producers), Consume(ps)
    PROVE  /\ reqs' \in Seq(Requests) /\ Range(reqs) \subseteq Range(reqs')
           /\ Asked' = Asked \cup Range(ps) /\ attached' = attached \cup Range(ps)
           /\ peers' \subseteq Users /\ peers \subseteq peers' /\ detached' \subseteq peers'
           /\ \A p \in attached' : Owner[p] \in peers'
           /\ attached' \subseteq Producers
           /\ shown' \subseteq Users \cup {Nobody} /\ offline' \subseteq shown'
           /\ shown \ offline \subseteq shown' \ offline'
<1> DEFINE users == {Owner[p] : p \in Range(ps)}
           more == [i \in DOMAIN ps |-> Consumption(ps[i])]
<1>1. Range(ps) \subseteq Producers
  BY DEF Range
<1>2. users \subseteq Users
  BY <1>1, OwnersAreUsers
<1>3. /\ peers' = peers \cup users /\ detached' = detached \ users /\ attached' = attached \cup Range(ps)
      /\ reqs' = reqs \o more
      /\ shown' = shown \cup (users \ peers) /\ offline' = offline \ (users \ peers)
  BY DEF Consume, Upsert, Attach
<1>4. more \in Seq(Requests) /\ Range(more) = {Consumption(p) : p \in Range(ps)}
  <2>1. Len(ps) \in Nat /\ DOMAIN ps = 1 .. Len(ps) /\ \A i \in DOMAIN ps : ps[i] \in Producers
    OBVIOUS
  <2>2. \A i \in DOMAIN ps : Consumption(ps[i]) \in Requests
    BY <2>1, RequestsAre
  <2>3. more \in Seq(Requests)
    BY <2>1, <2>2
  <2>4. DOMAIN more = DOMAIN ps /\ \A i \in DOMAIN ps : more[i] = Consumption(ps[i])
    OBVIOUS
  <2> HIDE DEF more
  <2>5. Range(more) = {Consumption(p) : p \in Range(ps)}
    BY <2>4 DEF Range
  <2> QED BY <2>3, <2>5
<1>5. {p \in Producers : Consumption(p) \in Range(more)} = Range(ps)
  <2>1. \A p, q \in Producers : Consumption(p) = Consumption(q) => p = q
    BY RequestsAre
  <2> HIDE DEF more
  <2> QED BY <1>1, <1>4, <2>1
<1> HIDE DEF more
<1>6. /\ reqs' \in Seq(Requests) /\ Range(reqs') = Range(reqs) \cup Range(more)
      /\ Asked' = Asked \cup {p \in Producers : Consumption(p) \in Range(more)}
  BY <1>3, <1>4, RequestsGrow
<1>7. /\ peers \subseteq Users /\ attached \subseteq Producers /\ detached \subseteq peers
      /\ \A p \in attached : Owner[p] \in peers
      /\ shown \subseteq Users \cup {Nobody} /\ offline \subseteq shown
  BY DEF Typed
<1>8. \A p \in Range(ps) : Owner[p] \in users
  OBVIOUS
<1> HIDE DEF users
<1> QED BY <1>1, <1>2, <1>3, <1>5, <1>6, <1>7, <1>8

LEMMA ProducerIsHeardOf ==
    ASSUME ViewIInv, OnNewProducer PROVE ViewIInv'
<1> DEFINE h == Head(wire)
           p == h.prod
<1>1. /\ Typed /\ ConsumersWereMade /\ AwayIsEmpty /\ PastIsKnown /\ DeviceLoads /\ JoinedIsFirst
      /\ TransportComes /\ UnderWay /\ ClosedIsOver /\ LeavesFirst /\ ShownAsConsumed
      /\ BlockedWhileShared
  BY DEF ViewIInv
<1>2. /\ wire # <<>> /\ wire' = Tail(wire) /\ h.ev = "new-producer"
      /\ blocked' = (blocked \/ p \in Screens)
      /\ IF CanConsume THEN Consume(<<p>>) /\ pending' = pending
         ELSE /\ pending' = Append(pending, p) /\ reqs' = reqs /\ peers' = peers
              /\ attached' = attached /\ detached' = detached /\ shown' = shown /\ offline' = offline
      /\ device' = device /\ loads' = loads /\ recv' = recv
      /\ creating' = creating /\ consumers' = consumers /\ UNCHANGED server
  BY DEF OnNewProducer, On, registry, tracker
<1>3. /\ seat' = seat /\ peersWithMedia' = peersWithMedia /\ prods' = prods /\ past' = past
      /\ acked' = acked /\ entry' = entry /\ srecv' = srecv /\ made' = made /\ sconsumers' = sconsumers
  BY <1>2, ServerRests
<1>4. /\ wire' \in Seq(AnyEvent) /\ h \in AnyEvent /\ Coming = Coming' \cup {h}
      /\ Announced = Announced' \cup {q \in Producers : h = Announcement(q)}
      /\ Created = Created' \cup {q \in Producers : h.ev = "consumer-created" /\ h.cons.prod = q}
      /\ \A a, b : Before(wire', a, b) => Before(wire, a, b)
      /\ \A b \in Coming' : Before(wire, h, b)
  BY <1>1, <1>2, WireIsRead
<1>5. p \in Producers /\ h = Announcement(p)
  BY <1>2, <1>4, NewProducerIs
<1> HIDE DEF h, p
<1>6. Announced = Announced' \cup {p} /\ Created' = Created /\ Consumed' = Consumed
  <2>1. {q \in Producers : h = Announcement(q)} = {p}
    BY <1>5, AnnouncementsAre
  <2>2. {q \in Producers : h.ev = "consumer-created" /\ h.cons.prod = q} = {}
    BY <1>2
  <2> QED BY <1>2, <1>4, <2>1, <2>2 DEF Consumed
<1>7. CanConsume <=> recv
  BY <1>1 DEF CanConsume, DeviceLoads
<1>8. /\ reqs' \in Seq(Requests) /\ Range(reqs) \subseteq Range(reqs')
      /\ peers' \subseteq Users /\ detached' \subseteq peers' /\ attached' \subseteq Producers
      /\ \A q \in attached' : Owner[q] \in peers'
      /\ shown' \subseteq Users \cup {Nobody} /\ offline' \subseteq shown'
      /\ shown \ offline \subseteq shown' \ offline'
      /\ pending' \in Seq(Producers) /\ Range(pending) \subseteq Range(pending')
      /\ Asked \subseteq Asked' /\ Asked' \subseteq Asked \cup {p} /\ attached \subseteq attached'
      /\ attached' \subseteq attached \cup {p} /\ Range(pending') \subseteq Range(pending) \cup {p}
      /\ IF recv THEN p \in Asked' /\ p \in attached' /\ pending' = pending
         ELSE p \in Range(pending') /\ Asked' = Asked
  <2>1. CASE recv
    <3>1. <<p>> \in Seq(Producers) /\ Range(<<p>>) = {p}
      BY <1>5, OneIn
    <3>2. Consume(<<p>>) /\ pending' = pending /\ pending \in Seq(Producers)
      BY <1>1, <1>2, <1>7, <2>1 DEF Typed
    <3> QED BY <1>1, <2>1, <3>1, <3>2, Consuming
  <2>2. CASE ~recv
    <3>1. pending \in Seq(Producers)
      BY <1>1 DEF Typed
    <3>2. pending' = pending \o <<p>>
      <4>1. pending' = Append(pending, p)
        BY <1>2, <1>7, <2>2
      <4> QED BY <1>5, <3>1, <4>1
    <3>3. <<p>> \in Seq(Producers) /\ Range(<<p>>) = {p}
      BY <1>5, OneIn
    <3>4. pending' \in Seq(Producers) /\ Range(pending') = Range(pending) \cup {p}
      <4> DEFINE one == <<p>>
      <4>1. Joins(pending', pending, one) /\ one \in Seq(Producers) /\ Range(one) = {p}
        BY <3>2, <3>3 DEF Joins
      <4> HIDE DEF one
      <4> QED BY <3>1, <4>1, WhatJoins
    <3>5. Asked' = Asked
      BY <1>2, <1>7, <2>2 DEF Asked
    <3> QED BY <1>1, <1>2, <1>7, <2>2, <3>4, <3>5 DEF Typed
  <2> QED BY <2>1, <2>2
<1>9. Known' \subseteq Known \cup {p}
  BY <1>2, <1>3, <1>6, <1>8 DEF Known
<1>10. Joined # h /\ Transport # h
  BY <1>2, SignalsAre
<1>11. AwayIsEmpty' /\ JoinedIsFirst' /\ ClosedIsOver' /\ BlockedWhileShared'
  <2>1. h \notin Stops /\ (h \in Starts <=> p \in Screens)
    BY <1>2, <1>5, SharingIs
  <2>2. Believes(h)
    BY <1>1, <1>2, <2>1 DEF Believes, Typed
  <2> QED BY <1>2, <2>2, HandlerKeeps DEF h
<1>12. Typed'
  BY <1>1, <1>2, <1>3, <1>4, <1>8 DEF Typed
<1>13. ConsumersWereMade'
  BY <1>1, <1>2, <1>3, <1>4 DEF ConsumersWereMade
<1>14. PastIsKnown'
  BY <1>1, <1>3, <1>6, <1>9 DEF PastIsKnown
<1>15. DeviceLoads'
  BY <1>1, <1>2, <1>8 DEF DeviceLoads
<1>16. TransportComes'
  BY <1>1, <1>2, <1>3, <1>4, <1>6, <1>8, <1>10 DEF TransportComes
<1>17. UnderWay'
  BY <1>1, <1>3, <1>6, <1>8 DEF UnderWay
<1>18. LeavesFirst'
  <2> SUFFICES ASSUME entry, NEW q \in prods, NEW e \in Leaving(Owner[q]), e \in Coming'
               PROVE  q \notin Known' /\ ~Before(wire', Announcement(q), e)
    BY <1>3 DEF LeavesFirst
  <2>1. e \in Coming /\ Before(wire, h, e)
    BY <1>4
  <2>2. q \notin Known /\ ~Before(wire, Announcement(q), e)
    BY <1>1, <2>1 DEF LeavesFirst
  <2>3. q # p
    BY <1>5, <2>1, <2>2
  <2> QED BY <1>4, <1>9, <2>2, <2>3
<1>19. ShownAsConsumed'
  <2>1. \A q \in Asked' : q \in Asked \/ q \in attached'
    BY <1>8
  <2> QED BY <1>1, <1>2, <1>3, <1>6, <1>8, <2>1 DEF ShownAsConsumed
<1> QED BY <1>11, <1>12, <1>13, <1>14, <1>15, <1>16, <1>17, <1>18, <1>19 DEF ViewIInv

LEMMA TransportIsMade ==
    ASSUME ViewIInv, OnTransport PROVE ViewIInv'
<1> DEFINE h == Head(wire)
<1>1. /\ Typed /\ ConsumersWereMade /\ AwayIsEmpty /\ PastIsKnown /\ DeviceLoads /\ JoinedIsFirst
      /\ TransportComes /\ UnderWay /\ ClosedIsOver /\ LeavesFirst /\ ShownAsConsumed
      /\ BlockedWhileShared
  BY DEF ViewIInv
<1>2. /\ wire # <<>> /\ wire' = Tail(wire) /\ h.ev = "transport-created"
      /\ IF device = "loaded" THEN recv' = TRUE /\ Consume(pending) /\ pending' = <<>>
         ELSE /\ recv' = recv /\ pending' = pending /\ reqs' = reqs /\ peers' = peers
              /\ attached' = attached /\ detached' = detached /\ shown' = shown /\ offline' = offline
      /\ device' = device /\ loads' = loads /\ blocked' = blocked
      /\ creating' = creating /\ consumers' = consumers /\ UNCHANGED server
  BY DEF OnTransport, Flush, On, registry, tracker
<1>3. /\ seat' = seat /\ peersWithMedia' = peersWithMedia /\ prods' = prods /\ past' = past
      /\ acked' = acked /\ entry' = entry /\ srecv' = srecv /\ made' = made /\ sconsumers' = sconsumers
  BY <1>2, ServerRests
<1>4. /\ wire' \in Seq(AnyEvent) /\ h \in AnyEvent /\ Coming = Coming' \cup {h}
      /\ \A a, b : Before(wire', a, b) => Before(wire, a, b)
  BY <1>1, <1>2, WireIsRead
<1> HIDE DEF h
<1>5. Announced' = Announced /\ Created' = Created /\ Consumed' = Consumed
  BY <1>1, <1>2, PlainlyRead DEF h, Consumed
<1>6. /\ reqs' \in Seq(Requests) /\ Range(reqs) \subseteq Range(reqs')
      /\ peers' \subseteq Users /\ detached' \subseteq peers' /\ attached' \subseteq Producers
      /\ \A q \in attached' : Owner[q] \in peers'
      /\ shown' \subseteq Users \cup {Nobody} /\ offline' \subseteq shown'
      /\ shown \ offline \subseteq shown' \ offline'
      /\ pending' \in Seq(Producers) /\ Range(pending') \subseteq Range(pending)
      /\ Asked \subseteq Asked' /\ attached \subseteq attached'
      /\ Asked' \cup Range(pending') = Asked \cup Range(pending)
      /\ attached' \subseteq attached \cup Range(pending) /\ Asked' \subseteq Asked \cup attached'
      /\ IF device = "loaded" THEN recv' = TRUE /\ pending' = <<>>
         ELSE recv' = recv /\ pending' = pending /\ Asked' = Asked
  <2>0. pending \in Seq(Producers)
    BY <1>1 DEF Typed
  <2>1. CASE device = "loaded"
    <3>1. Consume(pending) /\ recv' = TRUE /\ pending' = <<>>
      BY <1>2, <2>1
    <3>2. Range(pending') = {} /\ pending' \in Seq(Producers)
      BY <3>1, NothingIn
    <3> QED BY <1>1, <2>0, <2>1, <3>1, <3>2, Consuming
  <2>2. CASE device # "loaded"
    <3>1. Asked' = Asked
      BY <1>2, <2>2 DEF Asked
    <3> QED BY <1>1, <1>2, <2>0, <2>2, <3>1 DEF Typed
  <2> QED BY <2>1, <2>2
<1>7. Known' \subseteq Known
  BY <1>2, <1>3, <1>5, <1>6 DEF Known
<1>8. h = Transport
  BY <1>2, <1>4, SignalIs DEF Signals, Transport
<1>9. Joined # h
  BY <1>2, SignalsAre
<1>10. AwayIsEmpty' /\ JoinedIsFirst' /\ ClosedIsOver' /\ BlockedWhileShared'
  <2>1. Believes(h)
    BY <1>2, SharingIs DEF Believes
  <2> QED BY <1>2, <2>1, HandlerKeeps DEF h
<1>11. Typed'
  BY <1>1, <1>2, <1>3, <1>4, <1>6 DEF Typed
<1>12. ConsumersWereMade' /\ PastIsKnown'
  BY <1>1, <1>2, <1>3, <1>4, <1>5, <1>7 DEF ConsumersWereMade, PastIsKnown
<1>13. DeviceLoads'
  BY <1>1, <1>2, <1>6 DEF DeviceLoads
<1>14. TransportComes'
  <2>1. entry => srecv
    BY <1>1, <1>4, <1>8 DEF TransportComes
  <2> QED BY <1>1, <1>2, <1>3, <1>4, <1>5, <1>6, <1>9, <2>1 DEF TransportComes
<1>15. UnderWay'
  BY <1>1, <1>3, <1>5, <1>6 DEF UnderWay
<1>16. LeavesFirst'
  BY <1>1, <1>3, <1>4, <1>7 DEF LeavesFirst
<1>17. ShownAsConsumed'
  BY <1>1, <1>2, <1>3, <1>5, <1>6 DEF ShownAsConsumed
<1> QED BY <1>10, <1>11, <1>12, <1>13, <1>14, <1>15, <1>16, <1>17 DEF ViewIInv

LEMMA ConsumerIsCreated ==
    ASSUME ViewIInv, OnConsumerCreated PROVE ViewIInv'
<1> DEFINE h == Head(wire)
           c == h.cons
<1>1. /\ Typed /\ ConsumersWereMade /\ AwayIsEmpty /\ PastIsKnown /\ DeviceLoads /\ JoinedIsFirst
      /\ TransportComes /\ UnderWay /\ ClosedIsOver /\ LeavesFirst /\ ShownAsConsumed
      /\ BlockedWhileShared
  BY DEF ViewIInv
<1>2. /\ wire # <<>> /\ wire' = Tail(wire) /\ h.ev = "consumer-created"
      /\ creating' = IF CanConsume THEN creating \cup {c} ELSE creating
      /\ reqs' = reqs /\ device' = device /\ loads' = loads /\ recv' = recv /\ blocked' = blocked
      /\ peers' = peers /\ attached' = attached /\ detached' = detached /\ pending' = pending
      /\ consumers' = consumers /\ shown' = shown /\ offline' = offline /\ UNCHANGED server
  BY DEF OnConsumerCreated, On, media, registry, tracker
<1>3. /\ seat' = seat /\ peersWithMedia' = peersWithMedia /\ prods' = prods /\ past' = past
      /\ acked' = acked /\ entry' = entry /\ srecv' = srecv /\ made' = made /\ sconsumers' = sconsumers
  BY <1>2, ServerRests
<1>4. /\ wire' \in Seq(AnyEvent) /\ h \in AnyEvent /\ Coming = Coming' \cup {h}
      /\ Announced = Announced' \cup {q \in Producers : h = Announcement(q)}
      /\ Created = Created' \cup {q \in Producers : h.ev = "consumer-created" /\ h.cons.prod = q}
      /\ \A a, b : Before(wire', a, b) => Before(wire, a, b)
  BY <1>1, <1>2, WireIsRead
<1>5. h \in OfConsumers /\ c \in AnyConsumer /\ c.prod \in Producers
  BY <1>2, <1>4, OfConsumerIs
<1>6. Announced' = Announced /\ Created = Created' \cup {c.prod} /\ Asked' = Asked
  <2>1. {q \in Producers : h = Announcement(q)} = {}
    BY <1>2, AnnouncementsAre
  <2>2. {q \in Producers : h.ev = "consumer-created" /\ h.cons.prod = q} = {c.prod}
    BY <1>2, <1>5
  <2> QED BY <1>2, <1>4, <2>1, <2>2 DEF Asked
<1>7. c.n \in 1 .. made
  BY <1>1, <1>4, <1>5 DEF ConsumersWereMade
<1> HIDE DEF h, c
<1>8. entry => CanConsume
  <2>1. c.prod \in Created
    BY <1>6
  <2> QED BY <1>1, <2>1 DEF TransportComes, DeviceLoads, CanConsume
<1>9. /\ creating \subseteq creating' /\ creating' \subseteq creating \cup {c}
      /\ entry => c \in creating'
  BY <1>2, <1>8
<1>10. /\ Consumed \subseteq Consumed' /\ Consumed' \subseteq Consumed \cup {c.prod}
       /\ entry => c.prod \in Consumed'
  BY <1>2, <1>9 DEF Consumed
<1>11. Known' \subseteq Known
  BY <1>2, <1>3, <1>6, <1>10 DEF Known
<1>12. Joined # h /\ Transport # h
  BY <1>2, SignalsAre
<1>13. AwayIsEmpty' /\ JoinedIsFirst' /\ ClosedIsOver' /\ BlockedWhileShared'
  <2>1. Believes(h)
    BY <1>2, SharingIs DEF Believes
  <2> QED BY <1>2, <2>1, HandlerKeeps DEF h
<1>14. Typed'
  BY <1>1, <1>2, <1>3, <1>4, <1>5, <1>9 DEF Typed
<1>15. ConsumersWereMade'
  BY <1>1, <1>2, <1>3, <1>4, <1>7, <1>9 DEF ConsumersWereMade
<1>16. PastIsKnown' /\ DeviceLoads'
  BY <1>1, <1>2, <1>3, <1>6, <1>11 DEF PastIsKnown, DeviceLoads
<1>17. TransportComes'
  BY <1>1, <1>2, <1>3, <1>4, <1>6, <1>12 DEF TransportComes
<1>18. UnderWay'
  <2>1. srecv => entry
    BY <1>1 DEF AwayIsEmpty
  <2> QED BY <1>1, <1>2, <1>3, <1>6, <1>10, <2>1 DEF UnderWay
<1>19. LeavesFirst'
  BY <1>1, <1>3, <1>4, <1>11 DEF LeavesFirst
<1>20. ShownAsConsumed'
  BY <1>1, <1>2, <1>3, <1>6, <1>10 DEF ShownAsConsumed
<1> QED BY <1>13, <1>14, <1>15, <1>16, <1>17, <1>18, <1>19, <1>20 DEF ViewIInv

LEMMA ConsumerIsReady ==
    ASSUME ViewIInv, NEW c \in creating, ConsumerReady(c) PROVE ViewIInv'
<1>1. /\ Typed /\ ConsumersWereMade /\ AwayIsEmpty /\ PastIsKnown /\ DeviceLoads /\ JoinedIsFirst
      /\ TransportComes /\ UnderWay /\ ClosedIsOver /\ LeavesFirst /\ ShownAsConsumed
      /\ BlockedWhileShared
  BY DEF ViewIInv
<1>2. /\ creating' = creating \ {c} /\ consumers' = consumers \cup {c}
      /\ shown' = shown \cup {AnnouncerOf(c.prod)} /\ offline' = offline \ {AnnouncerOf(c.prod)}
      /\ wire' = wire /\ reqs' = reqs /\ device' = device /\ loads' = loads /\ recv' = recv
      /\ blocked' = blocked /\ peers' = peers /\ attached' = attached /\ detached' = detached
      /\ pending' = pending /\ UNCHANGED server
  BY DEF ConsumerReady, Show, net, media, registry
<1>3. /\ seat' = seat /\ peersWithMedia' = peersWithMedia /\ prods' = prods /\ past' = past
      /\ acked' = acked /\ entry' = entry /\ srecv' = srecv /\ made' = made /\ sconsumers' = sconsumers
  BY <1>2, ServerRests
<1>4. c \in AnyConsumer /\ c.prod \in Producers
  BY <1>1 DEF Typed, AnyConsumer
<1>5. AnnouncerOf(c.prod) \in Users \cup {Nobody}
  BY <1>4, OwnersAreUsers DEF AnnouncerOf
<1>6. /\ Coming' = Coming /\ Announced' = Announced /\ Created' = Created /\ Asked' = Asked
  BY <1>2 DEF Coming, Announced, Created, Asked
<1>7. creating' \cup consumers' = creating \cup consumers
  BY <1>2
<1>8. Consumed' = Consumed
  BY <1>7 DEF Consumed
<1>9. Known' = Known
  BY <1>2, <1>3, <1>6, <1>8 DEF Known
<1>10. Typed'
  BY <1>1, <1>2, <1>3, <1>5 DEF Typed
<1>11. ConsumersWereMade'
  BY <1>1, <1>2, <1>3, <1>6 DEF ConsumersWereMade
<1>12. AwayIsEmpty'
  <2>1. acked
    BY <1>1 DEF AwayIsEmpty
  <2> QED BY <1>1, <1>3, <2>1 DEF AwayIsEmpty
<1>13. PastIsKnown' /\ DeviceLoads' /\ JoinedIsFirst'
  BY <1>1, <1>2, <1>3, <1>6, <1>9 DEF PastIsKnown, DeviceLoads, JoinedIsFirst
<1>14. TransportComes' /\ UnderWay'
  BY <1>1, <1>2, <1>3, <1>6, <1>8 DEF TransportComes, UnderWay
<1>15. ClosedIsOver' /\ LeavesFirst'
  BY <1>1, <1>2, <1>3, <1>6, <1>9 DEF ClosedIsOver, LeavesFirst
<1>16. ShownAsConsumed'
  <2>1. entry /\ c.prod \in prods => AnnouncerOf(c.prod) = Owner[c.prod]
    BY <1>1 DEF ShownAsConsumed, Consumed, AnnouncerOf
  <2> QED BY <1>1, <1>2, <1>3, <1>6, <1>8, <2>1 DEF ShownAsConsumed
<1>17. BlockedWhileShared'
  BY <1>1, <1>2, <1>3 DEF BlockedWhileShared, OneScreen, Shared
<1> QED BY <1>10, <1>11, <1>12, <1>13, <1>14, <1>15, <1>16, <1>17 DEF ViewIInv

LEMMA ConsumerIsClosed ==
    ASSUME ViewIInv, OnConsumerClosed PROVE ViewIInv'
<1> DEFINE h == Head(wire)
           c == h.cons
<1>1. /\ Typed /\ ConsumersWereMade /\ AwayIsEmpty /\ PastIsKnown /\ DeviceLoads /\ JoinedIsFirst
      /\ TransportComes /\ UnderWay /\ ClosedIsOver /\ LeavesFirst /\ ShownAsConsumed
      /\ BlockedWhileShared
  BY DEF ViewIInv
<1>2. /\ wire # <<>> /\ wire' = Tail(wire) /\ h.ev = "consumer-closed"
      /\ consumers' = consumers \ {c} /\ creating' = creating
      /\ reqs' = reqs /\ device' = device /\ loads' = loads /\ recv' = recv /\ blocked' = blocked
      /\ peers' = peers /\ attached' = attached /\ detached' = detached /\ pending' = pending
      /\ shown' = shown /\ offline' = offline /\ UNCHANGED server
  BY DEF OnConsumerClosed, On, media, registry, tracker
<1>3. /\ seat' = seat /\ peersWithMedia' = peersWithMedia /\ prods' = prods /\ past' = past
      /\ acked' = acked /\ entry' = entry /\ srecv' = srecv /\ made' = made /\ sconsumers' = sconsumers
  BY <1>2, ServerRests
<1>4. /\ wire' \in Seq(AnyEvent) /\ h \in AnyEvent /\ Coming = Coming' \cup {h}
      /\ \A a, b : Before(wire', a, b) => Before(wire, a, b)
  BY <1>1, <1>2, WireIsRead
<1>5. c.prod \notin prods
  BY <1>1, <1>2, <1>4 DEF ClosedIsOver
<1> HIDE DEF h, c
<1>6. Announced' = Announced /\ Created' = Created /\ Asked' = Asked
  <2>1. Announced' = Announced /\ Created' = Created
    BY <1>1, <1>2, PlainlyRead DEF h
  <2> QED BY <1>2, <2>1 DEF Asked
<1>7. Consumed' \subseteq Consumed /\ Consumed \cap prods \subseteq Consumed'
  BY <1>2, <1>5 DEF Consumed
<1>8. Known' \subseteq Known
  BY <1>2, <1>3, <1>6, <1>7 DEF Known
<1>9. Joined # h /\ Transport # h
  BY <1>2, SignalsAre
<1>10. AwayIsEmpty' /\ JoinedIsFirst' /\ ClosedIsOver' /\ BlockedWhileShared'
  <2>1. Believes(h)
    BY <1>2, SharingIs DEF Believes
  <2> QED BY <1>2, <2>1, HandlerKeeps DEF h
<1>11. Typed'
  BY <1>1, <1>2, <1>3, <1>4 DEF Typed
<1>12. ConsumersWereMade' /\ PastIsKnown' /\ DeviceLoads'
  BY <1>1, <1>2, <1>3, <1>4, <1>6, <1>8 DEF ConsumersWereMade, PastIsKnown, DeviceLoads
<1>13. TransportComes'
  BY <1>1, <1>2, <1>3, <1>4, <1>6, <1>9 DEF TransportComes
<1>14. UnderWay'
  BY <1>1, <1>2, <1>3, <1>6, <1>7 DEF UnderWay
<1>15. LeavesFirst'
  BY <1>1, <1>3, <1>4, <1>8 DEF LeavesFirst
<1>16. ShownAsConsumed'
  BY <1>1, <1>2, <1>3, <1>6, <1>7 DEF ShownAsConsumed
<1> QED BY <1>10, <1>11, <1>12, <1>13, <1>14, <1>15, <1>16 DEF ViewIInv

\* It is accepted once in a connection, and knows nothing before.
LEMMA ViewerIsJoined ==
    ASSUME ViewIInv, OnJoined PROVE ViewIInv'
<1> DEFINE h == Head(wire)
<1>1. /\ Typed /\ ConsumersWereMade /\ AwayIsEmpty /\ PastIsKnown /\ DeviceLoads /\ JoinedIsFirst
      /\ TransportComes /\ UnderWay /\ ClosedIsOver /\ LeavesFirst /\ ShownAsConsumed
      /\ BlockedWhileShared
  BY DEF ViewIInv
<1>2. /\ wire # <<>> /\ wire' = Tail(wire) /\ h.ev = "joined-room"
      /\ device' = "loading" /\ loads' = loads + 1
      /\ reqs' = reqs /\ recv' = recv /\ blocked' = blocked
      /\ peers' = peers /\ attached' = attached /\ detached' = detached /\ pending' = pending
      /\ creating' = creating /\ consumers' = consumers /\ shown' = shown /\ offline' = offline
      /\ UNCHANGED server
  BY DEF OnJoined, LoadDevice, On, registry, unit, tracker
<1>3. /\ seat' = seat /\ peersWithMedia' = peersWithMedia /\ prods' = prods /\ past' = past
      /\ acked' = acked /\ entry' = entry /\ srecv' = srecv /\ made' = made /\ sconsumers' = sconsumers
  BY <1>2, ServerRests
<1>4. /\ wire' \in Seq(AnyEvent) /\ h \in AnyEvent /\ Coming = Coming' \cup {h}
      /\ \A a, b : Before(wire', a, b) => Before(wire, a, b)
      /\ \A b \in Coming' : Before(wire, h, b)
  BY <1>1, <1>2, WireIsRead
<1>5. h = Joined
  BY <1>2, <1>4, SignalIs DEF Signals, Joined
<1> HIDE DEF h
<1>6. device = "none" /\ ~recv /\ Joined \notin Coming'
  <2>1. Joined \in Coming
    BY <1>4, <1>5
  <2>2. Joined \notin Coming'
    BY <1>1, <1>2, <1>4, <1>5, <2>1 DEF JoinedIsFirst
  <2> QED BY <1>1, <2>1, <2>2 DEF JoinedIsFirst, DeviceLoads
<1>7. Announced' = Announced /\ Created' = Created /\ Asked' = Asked /\ Consumed' = Consumed
  <2>1. Announced' = Announced /\ Created' = Created
    BY <1>1, <1>2, PlainlyRead DEF h
  <2> QED BY <1>2, <2>1 DEF Asked, Consumed
<1>8. Known' = Known
  BY <1>2, <1>3, <1>7 DEF Known
<1>9. AwayIsEmpty' /\ JoinedIsFirst' /\ ClosedIsOver' /\ BlockedWhileShared'
  <2>1. Believes(h)
    BY <1>2, SharingIs DEF Believes
  <2> QED BY <1>2, <1>6, <2>1, HandlerKeeps DEF h
<1>10. Typed'
  BY <1>1, <1>2, <1>3, <1>4 DEF Typed
<1>11. ConsumersWereMade' /\ PastIsKnown'
  BY <1>1, <1>2, <1>3, <1>4, <1>7, <1>8 DEF ConsumersWereMade, PastIsKnown
<1>12. DeviceLoads'
  BY <1>1, <1>2, <1>6 DEF DeviceLoads, Typed
<1>13. TransportComes'
  BY <1>1, <1>2, <1>3, <1>4, <1>6, <1>7 DEF TransportComes
<1>14. UnderWay'
  BY <1>1, <1>2, <1>3, <1>7 DEF UnderWay
<1>15. LeavesFirst' /\ ShownAsConsumed'
  BY <1>1, <1>2, <1>3, <1>4, <1>7, <1>8 DEF LeavesFirst, ShownAsConsumed
<1> QED BY <1>9, <1>10, <1>11, <1>12, <1>13, <1>14, <1>15 DEF ViewIInv

\* A reset is heard of by viewers that have no entry any more.
LEMMA ViewerIsReset ==
    ASSUME ViewIInv, OnReset PROVE ViewIInv'
<1> DEFINE h == Head(wire)
<1>1. /\ Typed /\ ConsumersWereMade /\ AwayIsEmpty /\ PastIsKnown /\ JoinedIsFirst /\ TransportComes
  BY DEF ViewIInv
<1>2. /\ wire # <<>> /\ wire' = Tail(wire) /\ h.ev = "room-media-reset"
      /\ device' = "loading" /\ loads' = loads + 1 /\ reqs' = reqs /\ recv' = FALSE /\ blocked' = FALSE
      /\ peers' = {} /\ attached' = {} /\ detached' = {} /\ pending' = <<>>
      /\ creating' = {} /\ consumers' = {} /\ shown' = shown /\ offline' = offline
      /\ UNCHANGED server
  BY DEF OnReset, CloseAll, ClearRegistry, ResetUnit, LoadDevice, On, tracker
<1>3. /\ seat' = seat /\ peersWithMedia' = peersWithMedia /\ prods' = prods /\ past' = past
      /\ acked' = acked /\ entry' = entry /\ srecv' = srecv /\ made' = made /\ sconsumers' = sconsumers
  BY <1>2, ServerRests
<1>4. /\ wire' \in Seq(AnyEvent) /\ h \in AnyEvent /\ Coming = Coming' \cup {h}
      /\ \A b \in Coming' : Before(wire, h, b)
  BY <1>1, <1>2, WireIsRead
<1>5. h = Reset
  BY <1>2, <1>4, SignalIs DEF Signals, Reset
<1> HIDE DEF h
<1>6. ~entry /\ ~srecv
  BY <1>1, <1>4, <1>5 DEF TransportComes, AwayIsEmpty
<1>7. Joined \notin Coming'
  <2>1. Joined \in Coming' => Joined \in Coming /\ Before(wire, h, Joined)
    BY <1>4
  <2>2. h.ev # "existing-peers"
    BY <1>2
  <2> QED BY <1>1, <1>4, <2>1, <2>2 DEF JoinedIsFirst
<1>8. Announced' = Announced /\ Created' = Created /\ Asked' = Asked /\ Consumed' = {}
  <2>1. Announced' = Announced /\ Created' = Created
    BY <1>1, <1>2, PlainlyRead DEF h
  <2> QED BY <1>2, <2>1 DEF Asked, Consumed
<1>9. Known' \subseteq Known
  BY <1>2, <1>3, <1>8, NothingIn DEF Known
<1>10. AwayIsEmpty' /\ JoinedIsFirst' /\ ClosedIsOver' /\ BlockedWhileShared'
  BY <1>2, <1>6, <1>7, HandlerKeeps
<1>11. Typed'
  <2>1. loads' \in Nat /\ pending' \in Seq(Producers)
    BY <1>1, <1>2, NothingIn DEF Typed
  <2>2. /\ seat' \in [Users -> {"out", "in", "held"}]
        /\ peersWithMedia' \subseteq {u \in Users : seat'[u] = "in"}
        /\ prods' \subseteq past' /\ past' \subseteq Producers
        /\ acked' \in BOOLEAN /\ entry' \in BOOLEAN /\ srecv' \in BOOLEAN /\ made' \in Nat
        /\ sconsumers' \subseteq AnyConsumer /\ IsFiniteSet(prods') /\ IsFiniteSet(sconsumers')
    BY <1>1, <1>3 DEF Typed
  <2>3. /\ shown' \subseteq Users \cup {Nobody} /\ offline' \subseteq shown'
        /\ reqs' \in Seq(Requests)
    BY <1>1, <1>2 DEF Typed
  <2>4. /\ recv' \in BOOLEAN /\ blocked' \in BOOLEAN /\ device' \in {"none", "loading", "loaded"}
        /\ peers' \subseteq Users /\ attached' \subseteq Producers /\ detached' \subseteq peers'
        /\ creating' \subseteq AnyConsumer /\ consumers' \subseteq AnyConsumer
        /\ \A p \in attached' : Owner[p] \in peers'
    BY <1>2
  <2> QED BY <1>4, <2>1, <2>2, <2>3, <2>4 DEF Typed
<1>12. ConsumersWereMade' /\ PastIsKnown'
  BY <1>1, <1>2, <1>3, <1>4, <1>8, <1>9 DEF ConsumersWereMade, PastIsKnown
<1>13. DeviceLoads'
  BY <1>1, <1>2 DEF DeviceLoads, Typed
<1>14. TransportComes' /\ UnderWay' /\ LeavesFirst' /\ ShownAsConsumed'
  BY <1>3, <1>6 DEF TransportComes, UnderWay, LeavesFirst, ShownAsConsumed
<1> QED BY <1>10, <1>11, <1>12, <1>13, <1>14 DEF ViewIInv

-----------------------------------------------------------------------------

LEMMA ViewStep == ViewIInv /\ [Next]_vars => ViewIInv'
<1> SUFFICES ASSUME ViewIInv, [Next]_vars PROVE ViewIInv'
  OBVIOUS
<1>1. CASE Room
  BY <1>1, PeersChange, SharesChange, ProducerIsNew, RoomResets DEF Room
<1>2. CASE ServeTransport \/ ServeConsume
  BY <1>2, TransportIsServed, ConsumeIsServed
<1>3. CASE Drop \/ Rejoin \/ DeviceLoaded
  BY <1>3, ViewerDrops, ViewerRejoins, DeviceComes
<1>4. CASE Handle
  BY <1>4, TrackerHears, PeerGoes, ProducerIsHeardOf, TransportIsMade, ConsumerIsCreated,
     ConsumerIsClosed, ViewerIsJoined, ViewerIsReset DEF Handle
<1>5. CASE \E c \in creating : ConsumerReady(c)
  BY <1>5, ConsumerIsReady
<1>6. CASE UNCHANGED vars
  <2>1. /\ seat' = seat /\ peersWithMedia' = peersWithMedia /\ prods' = prods /\ past' = past
        /\ acked' = acked /\ entry' = entry /\ srecv' = srecv /\ made' = made /\ sconsumers' = sconsumers
        /\ wire' = wire /\ reqs' = reqs /\ device' = device /\ loads' = loads /\ recv' = recv
        /\ blocked' = blocked /\ peers' = peers /\ attached' = attached /\ detached' = detached
        /\ pending' = pending /\ creating' = creating /\ consumers' = consumers
        /\ shown' = shown /\ offline' = offline
    BY <1>6 DEF vars, server, room, ours, net, client, media, registry, unit, tracker
  <2>2. /\ Coming' = Coming /\ Announced' = Announced /\ Created' = Created /\ Asked' = Asked
        /\ Consumed' = Consumed
    BY <2>1 DEF Coming, Announced, Created, Asked, Consumed
  <2>3. Known' = Known
    BY <2>1, <2>2 DEF Known
  <2>4. Typed' /\ ConsumersWereMade' /\ AwayIsEmpty' /\ PastIsKnown' /\ DeviceLoads' /\ JoinedIsFirst'
    BY <2>1, <2>2, <2>3 DEF ViewIInv, Typed, ConsumersWereMade, AwayIsEmpty, PastIsKnown, DeviceLoads,
       JoinedIsFirst
  <2>5. TransportComes' /\ UnderWay' /\ ClosedIsOver' /\ LeavesFirst' /\ ShownAsConsumed'
    BY <2>1, <2>2, <2>3 DEF ViewIInv, TransportComes, UnderWay, ClosedIsOver, LeavesFirst,
       ShownAsConsumed
  <2>6. BlockedWhileShared'
    BY <2>1 DEF ViewIInv, BlockedWhileShared, OneScreen, Shared
  <2> QED BY <2>4, <2>5, <2>6 DEF ViewIInv
<1> QED BY <1>1, <1>2, <1>3, <1>4, <1>5, <1>6 DEF Next

\* Each event and each consumer has its type.
LEMMA ViewTypes == ViewIInv => TypeOK
<1> SUFFICES ASSUME ViewIInv PROVE TypeOK
  OBVIOUS
<1>1. Typed /\ ConsumersWereMade /\ PastIsKnown
  BY DEF ViewIInv
<1>2. \A e \in Coming : e \in Events
  <2> SUFFICES ASSUME NEW e \in Coming PROVE e \in Events
    OBVIOUS
  <2>1. e \in AnyEvent
    <3>1. wire \in Seq(AnyEvent)
      BY <1>1 DEF Typed
    <3> QED BY <3>1 DEF Coming, Range
  <2>2. CASE e \in Plain
    BY <2>2 DEF Plain, Signals, Events, Signal
  <2>3. CASE e \in Told
    BY <2>3 DEF Told, Events, About
  <2>4. CASE e \in Existing
    BY <2>4 DEF Existing, Events
  <2>5. CASE e \in OfProducers
    BY <2>5 DEF OfProducers, Events, Announcement
  <2>6. CASE e \in OfConsumers
    <3>1. e.cons \in AnyConsumer /\ e.cons.n \in 1 .. made
      BY <1>1, <2>6 DEF OfConsumers, ConsumersWereMade
    <3>2. e.cons = [prod |-> e.cons.prod, n |-> e.cons.n] /\ e.cons.prod \in Producers
      BY <3>1 DEF AnyConsumer
    <3>3. e = OfConsumer(e.ev, [prod |-> e.cons.prod, n |-> e.cons.n])
          /\ e.ev \in {"consumer-created", "consumer-closed"}
      BY <2>6, <3>2 DEF OfConsumers, OfConsumer
    <3> QED BY <3>1, <3>2, <3>3 DEF Events
  <2> QED BY <2>1, <2>2, <2>3, <2>4, <2>5, <2>6 DEF AnyEvent
<1>3. Range(wire) \subseteq Events
  BY <1>2 DEF Coming
<1>4. Range(reqs) \subseteq Requests /\ Range(pending) \subseteq Producers
  BY <1>1 DEF Typed, Range
<1>5. \A c \in sconsumers \cup creating \cup consumers : c.prod \in past /\ c.n \in 1 .. made
  BY <1>1 DEF PastIsKnown, Known, Consumed, ConsumersWereMade
<1> QED BY <1>1, <1>3, <1>4, <1>5 DEF TypeOK, Typed

\* With nothing under way there is a transport, and a consumer of everything.
LEMMA ViewIsWhole == ViewIInv => EveryoneIsHeard
<1> SUFFICES ASSUME ViewIInv PROVE EveryoneIsHeard
  OBVIOUS
<1>1. TypeOK
  BY ViewTypes
<1>2. ASSUME Quiet, entry PROVE AllHeard /\ (blocked <=> prods \cap Screens # {})
  <2>1. /\ Typed /\ DeviceLoads /\ TransportComes /\ UnderWay /\ ShownAsConsumed /\ BlockedWhileShared
    BY DEF ViewIInv
  <2>2. wire = <<>> /\ reqs = <<>> /\ loads = 0 /\ creating = {}
    BY <1>2 DEF Quiet
  <2>3. Coming = {} /\ Range(reqs) = {} /\ Silent(wire, Sharing)
    BY <2>2, NothingIn DEF Coming
  <2>4. recv /\ srecv /\ pending = <<>>
    BY <1>2, <2>1, <2>2, <2>3 DEF TransportComes, DeviceLoads, Typed
  <2>5. Range(pending) = {} /\ Announced = {} /\ Asked = {} /\ Created = {}
    BY <2>3, <2>4, NothingIn DEF Announced, Asked, Created
  <2>6. prods \subseteq Consumed
    BY <2>1, <2>4, <2>5 DEF UnderWay
  <2>7. AllHeard
    BY <1>2, <2>1, <2>2, <2>6 DEF AllHeard, Consumed, ShownAsConsumed
  <2>8. blocked <=> Shared
    BY <1>2, <2>1, <2>3, <2>4 DEF BlockedWhileShared
  <2> QED BY <2>7, <2>8 DEF Shared
<1> QED BY <1>1, <1>2 DEF EveryoneIsHeard

\* Whoever publishes is consumed and shown once nothing is under way, and the
\* viewer is kept from sharing exactly while another shares
\* (handleNewProducer, flushPendingProducers and handleConsumerCreated of
\* subscribe.ts, emitTransportCreated of sfu.service.ts).
THEOREM EveryoneIsAlwaysHeard == Spec => []EveryoneIsHeard
<1>1. Spec => []ViewIInv
  BY ViewInit, ViewStep, PTL DEF Spec
<1> QED BY <1>1, ViewIsWhole, PTL

=============================================================================
