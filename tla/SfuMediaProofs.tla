--------------------------- MODULE SfuMediaProofs ---------------------------
(***************************************************************************)
(* Proofs about the media of a room: what the server keeps of it for each  *)
(* socket, and what the panel of a host says of it.                        *)
(***************************************************************************)
EXTENDS SfuMedia, Roster, FiniteSetTheorems, TLAPS

-----------------------------------------------------------------------------
(***************************************************************************)
(* Proofs, for any number of sockets, producers, joins, deaths and calls   *)
(* under way, that the media plane never outlives presence, that the       *)
(* screen-share slot is never left behind, and that no announcement is     *)
(* lost between a transport and a producer.                                *)
(*                                                                         *)
(* A call acts on what it looked up before its await.  So the invariant    *)
(* says of each call what that was, and of a producer that nobody has been *)
(* told of yet that nobody knows anything of it.                           *)
(***************************************************************************)

\* A call was made by a MediaPeer; a produce is for a producer that waits for
\* it alone, and whoever pauses or mutes has had the producer in its map.
HadListed(s, p) ==
    p \in Producers /\ prod[p].s = s /\ prod[p].state \in {"listed", "stray", "gone"}

CallsMeant ==
    \A c \in calls :
        /\ c.o # 0
        /\ c.op = "produce" =>
              /\ c.p \in Producers /\ prod[c.p].s = c.s /\ prod[c.p].state = "asked"
              /\ \A d \in calls : d.op = "produce" /\ d.p = c.p => d = c
        /\ c.op = "consume" => c.p \in Producers
        /\ c.op \in {"pause", "resume", "mute"} => HadListed(c.s, c.p)
        /\ \A p \in c.todo : HadListed(c.s, p)

\* What is not announced is not paused, and believed so by nobody.
NewIsUnknown ==
    \A p \in Producers : prod[p].state \in {"free", "asked"} =>
        p \notin paused /\ \A t \in Sockets : <<t, p>> \notin view

MediaIInv == TypeOK /\ CallsMeant /\ NewIsUnknown /\ SlotIsHonest /\ EveryoneHears

-----------------------------------------------------------------------------
(* What the shared steps do.                                               *)

\* Dropping the MediaPeers of some sockets, with the producers they list and
\* maybe strays, leaves those without producers and the others as they were.
LEMMA DropEmpties ==
    ASSUME TypeOK, NEW ss \in SUBSET Sockets, NEW ps \in SUBSET Open, Drop(ss, ps),
           \A s \in Sockets : IF s \in ss THEN Listed(s) \subseteq ps ELSE Listed(s) \cap ps = {}
    PROVE  /\ media' = [s \in Sockets |-> IF s \in ss THEN 0 ELSE media[s]]
           /\ send' \in [Sockets -> {"none", "open", "closed"}]
           /\ recv' \in [Sockets -> {"none", "open", "closed"}]
           /\ \A s \in Sockets : s \in ss => send'[s] = "none" /\ recv'[s] = "none"
           /\ \A s \in Sockets : s \notin ss => send'[s] = send[s] /\ recv'[s] = recv[s]
           /\ prod' \in [Producers -> [state : {"free", "asked", "listed", "stray", "gone"},
                                       s : Sockets \cup {None}, screen : BOOLEAN]]
           /\ \A p \in Producers : prod'[p].s = prod[p].s /\ prod'[p].screen = prod[p].screen
           /\ \A p \in Producers : prod'[p].state = prod[p].state
                                   \/ (prod[p].state \in {"listed", "stray"} /\ prod'[p].state = "gone")
           /\ \A s \in Sockets : Listed(s)' = IF s \in ss THEN {} ELSE Listed(s)
<1>1. ps \subseteq Producers /\ \A p \in ps : prod[p].state \in {"listed", "stray"}
  BY DEF Open
<1>2. /\ media' = [s \in Sockets |-> IF s \in ss THEN 0 ELSE media[s]]
      /\ send' = [s \in Sockets |-> IF s \in ss THEN "none" ELSE send[s]]
      /\ recv' = [s \in Sockets |-> IF s \in ss THEN "none" ELSE recv[s]]
      /\ prod' = [p \in Producers |-> IF p \in ps THEN [prod[p] EXCEPT !.state = "gone"] ELSE prod[p]]
  BY DEF Drop
<1>3. prod \in [Producers -> [state : {"free", "asked", "listed", "stray", "gone"},
                             s : Sockets \cup {None}, screen : BOOLEAN]]
  BY DEF TypeOK
<1>4. \A p \in Producers :
          /\ prod'[p] \in [state : {"free", "asked", "listed", "stray", "gone"},
                           s : Sockets \cup {None}, screen : BOOLEAN]
          /\ prod'[p].s = prod[p].s /\ prod'[p].screen = prod[p].screen
          /\ prod'[p].state = IF p \in ps THEN "gone" ELSE prod[p].state
  BY <1>2, <1>3
<1>5. prod' \in [Producers -> [state : {"free", "asked", "listed", "stray", "gone"},
                              s : Sockets \cup {None}, screen : BOOLEAN]]
  BY <1>2, <1>4
<1>6. \A s \in Sockets : Listed(s)' = Listed(s) \ ps
  BY <1>4 DEF Listed
<1>7. \A s \in Sockets : Listed(s)' = IF s \in ss THEN {} ELSE Listed(s)
  BY <1>6
<1> QED BY <1>1, <1>2, <1>4, <1>5, <1>7 DEF TypeOK

\* The two sets of producers that are dropped are as they have to be.
LEMMA OwnDropped ==
    ASSUME TypeOK, NEW s \in Sockets
    PROVE  /\ Listed(s) \in SUBSET Open
           /\ \A t \in Sockets : IF t \in {s} THEN Listed(t) \subseteq Listed(s) ELSE Listed(t) \cap Listed(s) = {}
BY DEF Listed, Open

LEMMA AllDropped ==
    ASSUME TypeOK
    PROVE  \A t \in Sockets : IF t \in joined THEN Listed(t) \subseteq Open ELSE Listed(t) \cap Open = {}
BY DEF Listed, Open, TypeOK

\* What clients forget, they forget of the producers and sockets named.
LEMMA ForgetKeeps ==
    ASSUME TypeOK, NEW ss \in SUBSET Sockets, NEW ps \in SUBSET Producers, Forget(ss, ps)
    PROVE  /\ heard' \in [Sockets -> SUBSET Producers]
           /\ view' \subseteq view /\ paused' \subseteq paused /\ byHost' \subseteq byHost
           /\ view' \subseteq Sockets \X Producers /\ paused' \subseteq Producers /\ byHost' \subseteq paused'
           /\ \A p \in Producers : p \notin ps =>
                 /\ (p \in paused' <=> p \in paused) /\ (p \in byHost' <=> p \in byHost)
                 /\ \A t \in Sockets : t \notin ss =>
                       /\ p \in heard'[t] <=> p \in heard[t]
                       /\ <<t, p>> \in view' <=> <<t, p>> \in view
<1>1. /\ heard' = [s \in Sockets |-> IF s \in ss THEN {} ELSE heard[s] \ ps]
      /\ view' = {v \in view : v[1] \notin ss /\ v[2] \notin ps}
      /\ byHost' = byHost \ ps /\ paused' = paused \ ps
  BY DEF Forget
<1> QED BY <1>1 DEF TypeOK

\* What may fail keeps all else that a call remembers.
LEMMA UnsafeKeeps ==
    ASSUME calls \subseteq CallType, NEW s0,
           calls' = Unsafe \/ calls' = UnsafeOf(s0)
    PROVE  /\ calls' \subseteq CallType
           /\ \A d \in calls' : \E c \in calls : d = c \/ d = [c EXCEPT !.safe = FALSE]
<1>1. \A c \in CallType : [c EXCEPT !.safe = FALSE] \in CallType
  BY DEF CallType
<1>2. \A d \in calls' : \E c \in calls : d = c \/ d = [c EXCEPT !.safe = FALSE]
  BY DEF Unsafe, UnsafeOf
<1> QED BY <1>1, <1>2

LEMMA UnsafeMeant ==
    ASSUME calls \subseteq CallType, CallsMeant, NEW s0,
           calls' = Unsafe \/ calls' = UnsafeOf(s0),
           \A p \in Producers :
               /\ prod'[p].s = prod[p].s
               /\ prod[p].state = "asked" => prod'[p].state = "asked"
               /\ prod[p].state \in {"listed", "stray", "gone"} => prod'[p].state \in {"listed", "stray", "gone"}
    PROVE  CallsMeant'
<1>1. SUFFICES ASSUME NEW c \in calls'
               PROVE  /\ c.o # 0
                      /\ c.op = "produce" =>
                            /\ c.p \in Producers /\ prod'[c.p].s = c.s /\ prod'[c.p].state = "asked"
                            /\ \A d \in calls' : d.op = "produce" /\ d.p = c.p => d = c
                      /\ c.op = "consume" => c.p \in Producers
                      /\ c.op \in {"pause", "resume", "mute"} => HadListed(c.s, c.p)'
                      /\ \A p \in c.todo : HadListed(c.s, p)'
  BY DEF CallsMeant
<1>2. PICK b \in calls : c = b \/ c = [b EXCEPT !.safe = FALSE]
  BY UnsafeKeeps
<1>3. b \in CallType /\ c.o = b.o /\ c.op = b.op /\ c.p = b.p /\ c.s = b.s /\ c.todo = b.todo
  BY <1>2 DEF CallType
<1>4. \A s, p : HadListed(s, p) => HadListed(s, p)'
  BY DEF HadListed
<1>5. ASSUME c.op = "produce", NEW d \in calls', d.op = "produce", d.p = c.p
      PROVE  d = c
  <2>1. CASE calls' = Unsafe
    <3>1. PICK c0 \in calls : c = [c0 EXCEPT !.safe = FALSE]
      BY <2>1 DEF Unsafe
    <3>2. PICK d0 \in calls : d = [d0 EXCEPT !.safe = FALSE]
      BY <2>1 DEF Unsafe
    <3>3. c0.op = "produce" /\ d0.op = "produce" /\ d0.p = c0.p
      BY <1>5, <3>1, <3>2 DEF CallType
    <3> QED BY <3>1, <3>2, <3>3 DEF CallsMeant
  <2>2. CASE calls' = UnsafeOf(s0)
    <3> DEFINE Fail(x) == IF x.s = s0 /\ IsCurrent(x) /\ x.op \notin {"send", "recv"}
                          THEN [x EXCEPT !.safe = FALSE] ELSE x
    <3>1. PICK c0 \in calls : c = Fail(c0)
      BY <2>2 DEF UnsafeOf
    <3>2. PICK d0 \in calls : d = Fail(d0)
      BY <2>2 DEF UnsafeOf
    <3>3. c0.op = "produce" /\ d0.op = "produce" /\ d0.p = c0.p
      BY <1>5, <3>1, <3>2 DEF CallType
    <3> QED BY <3>1, <3>2, <3>3 DEF CallsMeant
  <2> QED BY <2>1, <2>2
<1> QED BY <1>2, <1>3, <1>4, <1>5 DEF CallsMeant

-----------------------------------------------------------------------------
(* Joining and leaving.                                                    *)

LEMMA InitHolds == Init => MediaIInv
<1> SUFFICES ASSUME Init PROVE MediaIInv
  OBVIOUS
<1>1. \A s \in Sockets : Listed(s) = {}
  BY DEF Init, Listed
<1>2. TypeOK
  <2>1. joins \in Nat /\ deaths \in Nat /\ joins + deaths <= MaxTurns /\ media \in [Sockets -> 0 .. joins]
    BY BoundsAreNat DEF Init
  <2> QED BY <1>1, <2>1 DEF Init, TypeOK
<1> QED BY <1>2 DEF Init, MediaIInv, CallsMeant, NewIsUnknown, SlotIsHonest, EveryoneHears

LEMMA JoinKeeps ==
    ASSUME MediaIInv, NEW s \in Sockets, Join(s)
    PROVE  MediaIInv'
<1> USE DEF MediaIInv
<1>1. /\ prod' = [p \in Producers |-> IF p \in Listed(s) THEN [prod[p] EXCEPT !.state = "stray"] ELSE prod[p]]
      /\ Forget({}, Listed(s)) /\ Listed(s) \in SUBSET Producers /\ {} \in SUBSET Sockets
      /\ joined' = joined \cup {s} /\ joins' = joins + 1 /\ deaths' = deaths /\ joins + deaths < MaxTurns
      /\ media' = [media EXCEPT ![s] = joins + 1]
      /\ send' = [send EXCEPT ![s] = "none"] /\ recv' = [recv EXCEPT ![s] = "none"]
      /\ consumers' = {c \in consumers : c[1] # s}
      /\ stranded' = (stranded \/ slot = s) /\ router' \in {router, "up"}
      /\ slot' = slot /\ calls' = calls /\ blocked' = blocked
  BY DEF Join, Listed
<1>2. /\ prod' \in [Producers -> [state : {"free", "asked", "listed", "stray", "gone"},
                                 s : Sockets \cup {None}, screen : BOOLEAN]]
      /\ \A p \in Producers : p \notin Listed(s) => prod'[p] = prod[p]
      /\ \A p \in Listed(s) : prod'[p].s = prod[p].s /\ prod'[p].state = "stray" /\ prod[p].state = "listed"
  BY <1>1 DEF TypeOK, Listed
<1>3. \A t \in Sockets : Listed(t)' = IF t = s THEN {} ELSE Listed(t)
  BY <1>2 DEF Listed
<1>4. \A t \in Sockets : t # s => Screens(t)' = Screens(t)
  BY <1>2, <1>3 DEF Screens, Listed
<1>5. /\ heard' \in [Sockets -> SUBSET Producers]
      /\ view' \subseteq view /\ paused' \subseteq paused /\ byHost' \subseteq byHost
      /\ view' \subseteq Sockets \X Producers /\ paused' \subseteq Producers /\ byHost' \subseteq paused'
      /\ \A p \in Producers : p \notin Listed(s) =>
            /\ (p \in paused' <=> p \in paused) /\ (p \in byHost' <=> p \in byHost)
            /\ \A t \in Sockets : /\ p \in heard'[t] <=> p \in heard[t]
                                  /\ <<t, p>> \in view' <=> <<t, p>> \in view
  BY <1>1, ForgetKeeps
<1>6. TypeOK'
  <2>1. /\ joined' \subseteq Sockets /\ router' \in {"none", "up", "lost"}
        /\ joins' \in Nat /\ deaths' \in Nat /\ joins' + deaths' <= MaxTurns
        /\ media' \in [Sockets -> 0 .. joins'] /\ \A t \in Sockets : media'[t] # 0 => t \in joined'
    BY <1>1, BoundsAreNat DEF TypeOK
  <2>2. media'[s] # 0
    BY <1>1, BoundsAreNat DEF TypeOK
  <2>3. \A t \in Sockets : media'[t] = 0 =>
            send'[t] = "none" /\ recv'[t] = "none" /\ Listed(t)' = {} /\ ~\E c \in consumers' : c[1] = t
    BY <1>1, <1>3, <2>2 DEF TypeOK
  <2>4. /\ send' \in [Sockets -> {"none", "open", "closed"}]
        /\ recv' \in [Sockets -> {"none", "open", "closed"}]
        /\ consumers' \subseteq Sockets \X Producers /\ stranded' \in BOOLEAN
    BY <1>1 DEF TypeOK
  <2> QED BY <1>1, <1>2, <1>5, <2>1, <2>3, <2>4 DEF TypeOK
<1>7. CallsMeant'
  <2>1. \A r, p : HadListed(r, p) => HadListed(r, p)'
    BY <1>2 DEF HadListed
  <2>2. \A p \in Producers : prod[p].state = "asked" => prod'[p] = prod[p]
    BY <1>2
  <2> QED BY <1>1, <2>1, <2>2 DEF CallsMeant
<1>8. NewIsUnknown'
  BY <1>2, <1>5 DEF NewIsUnknown
<1>9. SlotIsHonest'
  <2> SUFFICES ASSUME slot # None, ~stranded, slot # s
               PROVE  Screens(slot)' # {} /\ \A t \in Others(slot)' : recv'[t] # "none" => t \in blocked
    BY <1>1 DEF SlotIsHonest, Others
  <2>1. slot \in Sockets /\ slot' = slot /\ Screens(slot)' = Screens(slot)
    BY <1>1, <1>4 DEF TypeOK
  <2>2. ASSUME NEW t \in Others(slot)', recv'[t] # "none" PROVE t \in blocked
    <3>1. t # s /\ t \in Others(slot) /\ recv[t] # "none"
      BY <1>1, <2>2 DEF Others, TypeOK
    <3> QED BY <3>1 DEF SlotIsHonest
  <2> QED BY <2>1, <2>2 DEF SlotIsHonest
<1>10. EveryoneHears'
  <2> SUFFICES ASSUME NEW t \in joined', recv'[t] # "none",
                      NEW r \in Others(t)', NEW p \in Listed(r)'
               PROVE  p \in heard'[t] /\ (p \notin byHost' => (<<t, p>> \in view') = (p \in paused'))
    BY DEF EveryoneHears
  <2>1. t # s /\ t \in joined /\ t \in Sockets /\ recv[t] # "none"
    BY <1>1 DEF TypeOK
  <2>2. r \in Sockets /\ r # t /\ r \in joined'
    BY <1>6 DEF Others, TypeOK
  <2>3. r # s /\ p \in Listed(r) /\ p \in Producers /\ p \notin Listed(s)
    BY <1>3, <2>2 DEF Listed
  <2>4. r \in Others(t)
    BY <1>1, <2>2, <2>3 DEF Others
  <2> QED BY <1>5, <2>1, <2>3, <2>4 DEF EveryoneHears
<1> QED BY <1>6, <1>7, <1>8, <1>9, <1>10

LEMMA DetachKeeps ==
    ASSUME MediaIInv, NEW s \in Sockets, Detach(s)
    PROVE  MediaIInv'
<1> USE DEF MediaIInv
<1>1. /\ s \in joined /\ joined' = joined \ {s} /\ deaths' = deaths /\ joins' = joins /\ router' = router
      /\ slot' = (IF media[s] = 0 THEN slot ELSE SlotWithout(s))
      /\ stranded' = (stranded /\ slot' # None)
      /\ Drop({s}, Listed(s)) /\ calls' = UnsafeOf(s) /\ Forget({s}, Listed(s))
      /\ {s} \in SUBSET Sockets /\ Listed(s) \in SUBSET Producers
  BY DEF Detach, DetachMedia, Listed
<1>2. /\ consumers' \subseteq consumers /\ \A c \in consumers' : c[1] # s
      /\ blocked' \subseteq blocked
      /\ slot # s \/ media[s] = 0 => blocked' = blocked \ {s}
  BY DEF Detach
<1>3. /\ media' = [t \in Sockets |-> IF t \in {s} THEN 0 ELSE media[t]]
      /\ send' \in [Sockets -> {"none", "open", "closed"}]
      /\ recv' \in [Sockets -> {"none", "open", "closed"}]
      /\ \A t \in Sockets : t \in {s} => send'[t] = "none" /\ recv'[t] = "none"
      /\ \A t \in Sockets : t \notin {s} => send'[t] = send[t] /\ recv'[t] = recv[t]
      /\ prod' \in [Producers -> [state : {"free", "asked", "listed", "stray", "gone"},
                                  s : Sockets \cup {None}, screen : BOOLEAN]]
      /\ \A p \in Producers : prod'[p].s = prod[p].s /\ prod'[p].screen = prod[p].screen
      /\ \A p \in Producers : prod'[p].state = prod[p].state
                              \/ (prod[p].state \in {"listed", "stray"} /\ prod'[p].state = "gone")
      /\ \A t \in Sockets : Listed(t)' = IF t \in {s} THEN {} ELSE Listed(t)
  <2>1. Listed(s) \in SUBSET Open
    BY OwnDropped
  <2>2. \A t \in Sockets : IF t \in {s} THEN Listed(t) \subseteq Listed(s) ELSE Listed(t) \cap Listed(s) = {}
    BY OwnDropped
  <2>3. {s} \in SUBSET Sockets /\ Drop({s}, Listed(s))
    BY <1>1
  <2>4. TypeOK
    BY DEF MediaIInv
  <2> HIDE DEF MediaIInv
  <2> DEFINE ss == {s}
             ps == Listed(s)
  <2>5. /\ ss \in SUBSET Sockets /\ ps \in SUBSET Open /\ Drop(ss, ps)
        /\ \A t \in Sockets : IF t \in ss THEN Listed(t) \subseteq ps ELSE Listed(t) \cap ps = {}
    BY <2>1, <2>2, <2>3
  <2> HIDE DEF ss, ps
  <2>6. /\ media' = [t \in Sockets |-> IF t \in ss THEN 0 ELSE media[t]]
        /\ send' \in [Sockets -> {"none", "open", "closed"}]
        /\ recv' \in [Sockets -> {"none", "open", "closed"}]
        /\ \A t \in Sockets : t \in ss => send'[t] = "none" /\ recv'[t] = "none"
        /\ \A t \in Sockets : t \notin ss => send'[t] = send[t] /\ recv'[t] = recv[t]
        /\ prod' \in [Producers -> [state : {"free", "asked", "listed", "stray", "gone"},
                                    s : Sockets \cup {None}, screen : BOOLEAN]]
        /\ \A p \in Producers : prod'[p].s = prod[p].s /\ prod'[p].screen = prod[p].screen
        /\ \A p \in Producers : prod'[p].state = prod[p].state
                                \/ (prod[p].state \in {"listed", "stray"} /\ prod'[p].state = "gone")
        /\ \A t \in Sockets : Listed(t)' = IF t \in ss THEN {} ELSE Listed(t)
    BY <2>4, <2>5, DropEmpties
  <2> QED BY <2>6 DEF ss
<1>4. \A t \in Sockets : t # s => Screens(t)' = Screens(t)
  BY <1>3 DEF Screens, Listed
<1>5. /\ heard' \in [Sockets -> SUBSET Producers]
      /\ view' \subseteq view /\ paused' \subseteq paused /\ byHost' \subseteq byHost
      /\ view' \subseteq Sockets \X Producers /\ paused' \subseteq Producers /\ byHost' \subseteq paused'
      /\ \A p \in Producers : p \notin Listed(s) =>
            /\ (p \in paused' <=> p \in paused) /\ (p \in byHost' <=> p \in byHost)
            /\ \A t \in Sockets : t \notin {s} =>
                  /\ p \in heard'[t] <=> p \in heard[t]
                  /\ <<t, p>> \in view' <=> <<t, p>> \in view
  BY <1>1, ForgetKeeps
<1>6. calls' \subseteq CallType
  BY <1>1, UnsafeKeeps DEF TypeOK
<1>7. TypeOK'
  <2>1. /\ media' \in [Sockets -> 0 .. joins'] /\ \A t \in Sockets : media'[t] # 0 => t \in joined'
    BY <1>1, <1>3, BoundsAreNat DEF TypeOK
  <2>2. \A t \in Sockets : media'[t] = 0 =>
            send'[t] = "none" /\ recv'[t] = "none" /\ Listed(t)' = {}
            /\ ~\E c \in consumers' : c[1] = t
    BY <1>2, <1>3 DEF TypeOK
  <2>3. slot' \in Sockets \cup {None} /\ stranded' \in BOOLEAN
    BY <1>1 DEF SlotWithout, TypeOK
  <2> QED BY <1>1, <1>2, <1>3, <1>5, <1>6, <2>1, <2>2, <2>3 DEF TypeOK
<1>8. CallsMeant'
  BY <1>1, <1>3, UnsafeMeant DEF TypeOK
<1>9. NewIsUnknown'
  BY <1>3, <1>5 DEF NewIsUnknown
<1>10. SlotIsHonest'
  <2>1. ASSUME slot' # None, ~stranded'
        PROVE  slot' = slot /\ slot \in Sockets /\ slot # s /\ ~stranded
    <3>1. slot \in Sockets /\ slot' = slot /\ ~stranded
      BY <1>1, <2>1 DEF SlotWithout, TypeOK
    <3>2. slot = s => media[s] = 0
      BY <1>1, <2>1, NoneIsNone DEF SlotWithout
    <3>3. slot = s => Screens(s) = {}
      BY <3>2 DEF TypeOK, Screens
    <3> QED BY <2>1, <3>1, <3>3 DEF SlotIsHonest
  <2>2. ASSUME slot' # None, ~stranded', NEW t \in Others(slot)', recv'[t] # "none"
        PROVE  t \in blocked'
    <3>1. t # s /\ t \in Others(slot) /\ recv[t] # "none"
      BY <1>1, <1>3, <2>1, <2>2 DEF Others, TypeOK
    <3> QED BY <1>2, <2>1, <2>2, <3>1 DEF SlotIsHonest
  <2> QED BY <1>4, <2>1, <2>2 DEF SlotIsHonest
<1>11. EveryoneHears'
  <2> SUFFICES ASSUME NEW t \in joined', recv'[t] # "none",
                      NEW r \in Others(t)', NEW p \in Listed(r)'
               PROVE  p \in heard'[t] /\ (p \notin byHost' => (<<t, p>> \in view') = (p \in paused'))
    BY DEF EveryoneHears
  <2>1. /\ t \in joined /\ t \in Sockets /\ t # s /\ recv[t] # "none"
        /\ r \in Others(t) /\ r \in Sockets /\ r # s
    BY <1>1, <1>3 DEF Others, TypeOK
  <2>2. p \in Listed(r) /\ p \in Producers /\ p \notin Listed(s)
    BY <1>3, <2>1 DEF Listed
  <2> QED BY <1>5, <2>1, <2>2 DEF EveryoneHears
<1> QED BY <1>7, <1>8, <1>9, <1>10, <1>11

\* Once the media of the members is dropped nobody has any.
LEMMA DropMembers ==
    ASSUME TypeOK, Drop(joined, Open)
    PROVE  \A s \in Sockets : /\ media'[s] = 0 /\ Listed(s)' = {}
                              /\ send'[s] = "none" /\ recv'[s] = "none"
<1> joined \in SUBSET Sockets
  BY DEF TypeOK
<1>1. \A s \in Sockets : s \notin joined =>
          media[s] = 0 /\ Listed(s) = {} /\ send[s] = "none" /\ recv[s] = "none"
  BY DEF TypeOK
<1>2. Open \in SUBSET Open
  OBVIOUS
<1>3. \A t \in Sockets : IF t \in joined THEN Listed(t) \subseteq Open ELSE Listed(t) \cap Open = {}
  BY AllDropped
<1>4. /\ media' = [s \in Sockets |-> IF s \in joined THEN 0 ELSE media[s]]
      /\ \A s \in Sockets : s \in joined => send'[s] = "none" /\ recv'[s] = "none"
      /\ \A s \in Sockets : s \notin joined => send'[s] = send[s] /\ recv'[s] = recv[s]
      /\ \A s \in Sockets : Listed(s)' = IF s \in joined THEN {} ELSE Listed(s)
  BY <1>2, <1>3, DropEmpties
<1> QED BY <1>1, <1>4

LEMMA EndRoomKeeps ==
    ASSUME MediaIInv, EndRoom
    PROVE  MediaIInv'
<1> USE DEF MediaIInv
<1>1. /\ Drop(joined, Open) /\ Forget(Sockets, Open) /\ joined \in SUBSET Sockets
      /\ Open \in SUBSET Open /\ Open \in SUBSET Producers /\ Sockets \in SUBSET Sockets
      /\ slot' = None /\ stranded' = FALSE /\ consumers' = {} /\ blocked' = {}
      /\ joins' = joins /\ deaths' = deaths /\ joined' \subseteq joined
      /\ router' \in {"none", "up"}
  BY DEF EndRoom, CloseRoomMedia, TypeOK, Open
<1>2. calls' = Unsafe /\ calls' \subseteq CallType
  BY UnsafeKeeps DEF EndRoom, CloseRoomMedia, TypeOK
<1>3. /\ \A s \in Sockets : /\ media'[s] = 0 /\ Listed(s)' = {}
                            /\ send'[s] = "none" /\ recv'[s] = "none"
      /\ media' \in [Sockets -> 0 .. joins]
  <2>1. media' = [s \in Sockets |-> IF s \in joined THEN 0 ELSE media[s]]
    BY <1>1 DEF Drop
  <2>2. media' \in [Sockets -> 0 .. joins]
    BY <2>1, BoundsAreNat DEF TypeOK
  <2> QED BY <1>1, <2>2, DropMembers
<1>4. /\ send' \in [Sockets -> {"none", "open", "closed"}]
      /\ recv' \in [Sockets -> {"none", "open", "closed"}]
      /\ prod' \in [Producers -> [state : {"free", "asked", "listed", "stray", "gone"},
                                  s : Sockets \cup {None}, screen : BOOLEAN]]
      /\ \A p \in Producers : prod'[p].s = prod[p].s
      /\ \A p \in Producers : prod'[p].state = prod[p].state
                              \/ (prod[p].state \in {"listed", "stray"} /\ prod'[p].state = "gone")
  BY <1>1, AllDropped, DropEmpties
<1>5. /\ heard' \in [Sockets -> SUBSET Producers]
      /\ view' \subseteq view /\ paused' \subseteq paused
      /\ view' \subseteq Sockets \X Producers /\ paused' \subseteq Producers /\ byHost' \subseteq paused'
  BY <1>1, ForgetKeeps
<1>6. CallsMeant'
  BY <1>2, <1>4, UnsafeMeant DEF TypeOK
<1>7. TypeOK'
  BY <1>1, <1>2, <1>3, <1>4, <1>5 DEF TypeOK
<1>8. NewIsUnknown'
  BY <1>4, <1>5 DEF NewIsUnknown
<1>9. SlotIsHonest'
  BY <1>1 DEF SlotIsHonest
<1>10. EveryoneHears'
  BY <1>1, <1>3 DEF EveryoneHears
<1> QED BY <1>6, <1>7, <1>8, <1>9, <1>10

LEMMA MediaResetKeeps ==
    ASSUME MediaIInv, MediaReset
    PROVE  MediaIInv'
<1> USE DEF MediaIInv
<1>1. /\ Drop(joined, Open) /\ Forget(Sockets, Open) /\ joined \in SUBSET Sockets
      /\ Open \in SUBSET Open /\ Open \in SUBSET Producers /\ Sockets \in SUBSET Sockets
      /\ slot' = None /\ stranded' = FALSE /\ consumers' = {} /\ blocked' = {}
      /\ joins' = joins /\ deaths' = deaths /\ joined' \subseteq joined
      /\ router' \in {"none", "up"}
  BY DEF MediaReset, TypeOK, Open
<1>2. calls' = calls /\ calls' \subseteq CallType
  BY DEF MediaReset, TypeOK
<1>3. /\ \A s \in Sockets : /\ media'[s] = 0 /\ Listed(s)' = {}
                            /\ send'[s] = "none" /\ recv'[s] = "none"
      /\ media' \in [Sockets -> 0 .. joins]
  <2>1. media' = [s \in Sockets |-> IF s \in joined THEN 0 ELSE media[s]]
    BY <1>1 DEF Drop
  <2>2. media' \in [Sockets -> 0 .. joins]
    BY <2>1, BoundsAreNat DEF TypeOK
  <2> QED BY <1>1, <2>2, DropMembers
<1>4. /\ send' \in [Sockets -> {"none", "open", "closed"}]
      /\ recv' \in [Sockets -> {"none", "open", "closed"}]
      /\ prod' \in [Producers -> [state : {"free", "asked", "listed", "stray", "gone"},
                                  s : Sockets \cup {None}, screen : BOOLEAN]]
      /\ \A p \in Producers : prod'[p].s = prod[p].s
      /\ \A p \in Producers : prod'[p].state = prod[p].state
                              \/ (prod[p].state \in {"listed", "stray"} /\ prod'[p].state = "gone")
  BY <1>1, AllDropped, DropEmpties
<1>5. /\ heard' \in [Sockets -> SUBSET Producers]
      /\ view' \subseteq view /\ paused' \subseteq paused
      /\ view' \subseteq Sockets \X Producers /\ paused' \subseteq Producers /\ byHost' \subseteq paused'
  BY <1>1, ForgetKeeps
<1>6. CallsMeant'
  BY <1>2, <1>4 DEF CallsMeant, HadListed
<1>7. TypeOK'
  BY <1>1, <1>2, <1>3, <1>4, <1>5 DEF TypeOK
<1>8. NewIsUnknown'
  BY <1>4, <1>5 DEF NewIsUnknown
<1>9. SlotIsHonest'
  BY <1>1 DEF SlotIsHonest
<1>10. EveryoneHears'
  BY <1>1, <1>3 DEF EveryoneHears
<1> QED BY <1>6, <1>7, <1>8, <1>9, <1>10

LEMMA RouterDiesKeeps ==
    ASSUME MediaIInv, RouterDies
    PROVE  MediaIInv'
<1> USE DEF MediaIInv
<1> calls' = Unsafe
  BY DEF RouterDies
<1>1. \A s \in Sockets : Listed(s)' = Listed(s) /\ Screens(s)' = Screens(s)
  BY DEF RouterDies, Listed, Screens
<1>2. /\ send' \in [Sockets -> {"none", "open", "closed"}]
      /\ recv' \in [Sockets -> {"none", "open", "closed"}]
      /\ \A s \in Sockets : (send'[s] = "none") = (send[s] = "none")
      /\ \A s \in Sockets : (recv'[s] = "none") = (recv[s] = "none")
  BY DEF RouterDies, TypeOK
<1>3. calls' \subseteq CallType
  BY UnsafeKeeps DEF TypeOK
<1>4. TypeOK'
  BY <1>1, <1>2, <1>3, BoundsAreNat DEF RouterDies, TypeOK, clients, history
<1>5. CallsMeant'
  BY UnsafeMeant DEF TypeOK, RouterDies
<1>6. NewIsUnknown'
  BY DEF NewIsUnknown, RouterDies, clients
<1>7. SlotIsHonest'
  BY <1>1, <1>2 DEF SlotIsHonest, Others, RouterDies, clients, history, TypeOK
<1>8. EveryoneHears'
  BY <1>1, <1>2 DEF EveryoneHears, Others, RouterDies, clients, history, TypeOK
<1> QED BY <1>4, <1>5, <1>6, <1>7, <1>8

-----------------------------------------------------------------------------
(* Operations that only ask, and answers.                                  *)

\* A call that is asked leaves the maps alone.
LEMMA AskKeeps ==
    ASSUME MediaIInv, UNCHANGED <<room, media, send, recv, slot, consumers, paused, clients, history>>,
           UNCHANGED prod, calls' \subseteq CallType, CallsMeant'
    PROVE  MediaIInv'
<1> USE DEF MediaIInv, room, clients, history
<1>1. TypeOK'
  BY DEF TypeOK, Listed
<1>2. NewIsUnknown' /\ SlotIsHonest' /\ EveryoneHears'
  BY DEF NewIsUnknown, SlotIsHonest, EveryoneHears, Others, Screens, Listed
<1> QED BY <1>1, <1>2

LEMMA MediaNumbered == ASSUME TypeOK, NEW s \in Sockets PROVE media[s] \in 0 .. MaxTurns
BY BoundsAreNat DEF TypeOK

\* A call beside the others that is not a produce.
LEMMA CallAdded ==
    ASSUME MediaIInv, NEW c \in CallType, calls' = calls \cup {c}, UNCHANGED prod,
           c.o # 0, c.op # "produce", c.op = "consume" => c.p \in Producers,
           c.op \in {"pause", "resume", "mute"} => HadListed(c.s, c.p),
           \A p \in c.todo : HadListed(c.s, p)
    PROVE  calls' \subseteq CallType /\ CallsMeant'
BY DEF MediaIInv, CallsMeant, HadListed, TypeOK

\* A call that has been answered or rejected.
LEMMA CallRemoved ==
    ASSUME MediaIInv, NEW c \in calls, calls' = calls \ {c},
           \A p \in Producers :
               \/ prod'[p] = prod[p]
               \/ /\ c.op = "produce" /\ p = c.p /\ prod'[p].s = prod[p].s
                  /\ prod'[p].state \in {"listed", "stray", "gone"}
    PROVE  calls' \subseteq CallType /\ CallsMeant'
<1>1. calls' \subseteq CallType
  BY DEF MediaIInv, TypeOK
<1>2. \A s, p : HadListed(s, p) => HadListed(s, p)'
  BY DEF HadListed
<1>3. ASSUME NEW d \in calls', d.op = "produce"
      PROVE  prod'[d.p] = prod[d.p]
  BY <1>3 DEF MediaIInv, CallsMeant
<1> QED BY <1>1, <1>2, <1>3 DEF MediaIInv, CallsMeant

LEMMA AskTransportKeeps ==
    ASSUME MediaIInv, NEW s \in Sockets, NEW dir \in {"send", "recv"}, AskTransport(s, dir)
    PROVE  MediaIInv'
<1> TypeOK
  BY DEF MediaIInv
<1> DEFINE c == Call(dir, s, None)
<1>a. c \in CallType /\ c.op = dir /\ c.o = media[s] /\ c.todo = {}
  BY MediaNumbered DEF Call, CallType
<1>b. calls' = calls \cup {c} /\ UNCHANGED prod /\ media[s] # 0
  BY DEF AskTransport
<1> HIDE DEF c
<1>1. calls' \subseteq CallType /\ CallsMeant'
  BY <1>a, <1>b, CallAdded
<1> QED BY <1>1, AskKeeps DEF AskTransport

LEMMA AskProduceKeeps ==
    ASSUME MediaIInv, NEW s \in Sockets, NEW p \in Producers, NEW screen \in BOOLEAN,
           AskProduce(s, p, screen)
    PROVE  MediaIInv'
<1> USE DEF MediaIInv, room, clients, history
<1> DEFINE c == [Call("produce", s, p) EXCEPT !.safe = (send[s] = "open")]
<1>1. c \in CallType /\ c.op = "produce" /\ c.s = s /\ c.o = media[s] /\ c.p = p /\ c.todo = {}
  BY MediaNumbered DEF Call, CallType
<1>2. media[s] # 0 /\ prod[p].state = "free" /\ calls' = calls \cup {c}
  BY DEF AskProduce, TypeOK
<1> HIDE DEF c
<1>3. /\ prod' \in [Producers -> [state : {"free", "asked", "listed", "stray", "gone"},
                                 s : Sockets \cup {None}, screen : BOOLEAN]]
      /\ \A q \in Producers : q # p => prod'[q] = prod[q]
      /\ prod'[p].state = "asked" /\ prod'[p].s = s
  BY DEF AskProduce, TypeOK
<1>4. \A t \in Sockets : Listed(t)' = Listed(t) /\ Screens(t)' = Screens(t)
  BY <1>2, <1>3 DEF Listed, Screens
<1>5. TypeOK'
  BY <1>1, <1>2, <1>3, <1>4 DEF TypeOK, AskProduce
<1>6. \A d \in calls : d.op = "produce" => d.p # p
  BY <1>2 DEF CallsMeant
<1>7. \A r, q : HadListed(r, q) => HadListed(r, q)'
  BY <1>2, <1>3 DEF HadListed
<1>8. CallsMeant'
  BY <1>1, <1>2, <1>3, <1>6, <1>7 DEF CallsMeant
<1>9. NewIsUnknown'
  BY <1>2, <1>3 DEF NewIsUnknown, AskProduce
<1>10. SlotIsHonest'
  BY <1>4 DEF SlotIsHonest, AskProduce, Others, TypeOK
<1>11. EveryoneHears'
  BY <1>4 DEF EveryoneHears, AskProduce, Others, TypeOK
<1> QED BY <1>5, <1>8, <1>9, <1>10, <1>11

LEMMA AskConsumeKeeps ==
    ASSUME MediaIInv, NEW s \in Sockets, NEW p \in Producers, AskConsume(s, p)
    PROVE  MediaIInv'
<1> TypeOK
  BY DEF MediaIInv
<1> DEFINE c == [Call("consume", s, p) EXCEPT !.safe = (recv[s] = "open")]
<1>1. c \in CallType /\ c.op = "consume" /\ c.s = s /\ c.o = media[s] /\ c.p = p /\ c.todo = {}
  BY MediaNumbered DEF Call, CallType
<1>2. media[s] # 0 /\ calls' = calls \cup {c} /\ UNCHANGED prod
  BY DEF AskConsume, TypeOK
<1> HIDE DEF c
<1>3. calls' \subseteq CallType /\ CallsMeant'
  BY <1>1, <1>2, CallAdded
<1> QED BY <1>3, AskKeeps DEF AskConsume

\* Only a MediaPeer in the map has producers in it.
LEMMA ListedMeansMedia ==
    ASSUME TypeOK, NEW s \in Sockets, NEW p \in Listed(s)
    PROVE  media[s] # 0 /\ HadListed(s, p)
BY DEF TypeOK, Listed, HadListed

LEMMA AskPauseKeeps ==
    ASSUME MediaIInv, NEW s \in Sockets, NEW p \in Producers, NEW op \in {"pause", "resume"},
           AskPause(s, p, op)
    PROVE  MediaIInv'
<1> TypeOK
  BY DEF MediaIInv
<1> DEFINE c == Call(op, s, p)
<1>1. c \in CallType /\ c.op = op /\ c.s = s /\ c.o = media[s] /\ c.p = p /\ c.todo = {}
  BY MediaNumbered DEF Call, CallType
<1>2. media[s] # 0 /\ HadListed(s, p)
  BY ListedMeansMedia DEF AskPause
<1>3. calls' = calls \cup {c} /\ UNCHANGED prod
  BY DEF AskPause
<1> HIDE DEF c
<1>4. calls' \subseteq CallType /\ CallsMeant'
  BY <1>1, <1>2, <1>3, CallAdded
<1> QED BY <1>4, AskKeeps DEF AskPause

LEMMA AskMuteKeeps ==
    ASSUME MediaIInv, NEW s \in Sockets, AskMute(s)
    PROVE  MediaIInv'
<1> TypeOK
  BY DEF MediaIInv
<1> DEFINE m == Call("mute", s, None)
<1>1. m \in CallType /\ m.op = "mute" /\ m.s = s /\ m.o = media[s] /\ m.p = None
  BY MediaNumbered DEF Call, CallType
<1>2. PICK cs \in MuteOn(m, Listed(s), paused) : calls' = calls \cup cs
  BY DEF AskMute
<1>3. PICK p \in Listed(s) : cs = {[m EXCEPT !.p = p, !.todo = Listed(s) \ {p}]}
  BY <1>2 DEF MuteOn, AskMute
<1> HIDE DEF m
<1> DEFINE c == [m EXCEPT !.p = p, !.todo = Listed(s) \ {p}]
<1>4. p \in Producers /\ Listed(s) \subseteq Producers
  BY DEF Listed
<1>5. c \in CallType /\ c.op = "mute" /\ c.s = s /\ c.o = media[s] /\ c.p = p
      /\ c.todo = Listed(s) \ {p}
  BY <1>1, <1>4 DEF CallType
<1>6. media[s] # 0 /\ HadListed(s, p) /\ \A q \in Listed(s) : HadListed(s, q)
  BY ListedMeansMedia
<1>7. calls' = calls \cup {c} /\ UNCHANGED prod
  BY <1>2, <1>3 DEF AskMute
<1> HIDE DEF c
<1>8. calls' \subseteq CallType /\ CallsMeant'
  BY <1>5, <1>6, <1>7, CallAdded
<1> QED BY <1>8, AskKeeps DEF AskMute

LEMMA SendTransportCreatedKeeps ==
    ASSUME MediaIInv, NEW c \in calls, SendTransportCreated(c)
    PROVE  MediaIInv'
<1> USE DEF MediaIInv, room, clients, history
<1>1. calls' \subseteq CallType /\ CallsMeant'
  BY CallRemoved DEF SendTransportCreated
<1>2. \A s \in Sockets : Listed(s)' = Listed(s)
  BY DEF Listed, SendTransportCreated
<1>3. c.o # 0 /\ c \in CallType
  BY DEF CallsMeant, TypeOK
<1>4. TypeOK'
  <2>1. /\ send' \in [Sockets -> {"none", "open", "closed"}]
        /\ \A s \in Sockets : media[s] = 0 => send'[s] = "none"
    BY <1>3 DEF SendTransportCreated, TypeOK, Transport, IsCurrent, CallType
  <2> QED BY <1>1, <1>2, <2>1 DEF TypeOK, SendTransportCreated
<1>5. NewIsUnknown'
  BY DEF NewIsUnknown, SendTransportCreated
<1>6. SlotIsHonest' /\ EveryoneHears'
  BY DEF SlotIsHonest, EveryoneHears, Others, Screens, Listed, SendTransportCreated
<1> QED BY <1>1, <1>4, <1>5, <1>6

LEMMA RecvTransportCreatedKeeps ==
    ASSUME MediaIInv, NEW c \in calls, RecvTransportCreated(c)
    PROVE  MediaIInv'
<1> USE DEF MediaIInv, room, history
<1> DEFINE ps == AnnouncedTo(c.s)
<1>1. calls' \subseteq CallType /\ CallsMeant'
  BY CallRemoved DEF RecvTransportCreated
<1>2. \A s \in Sockets : Listed(s)' = Listed(s) /\ Screens(s)' = Screens(s)
  BY DEF Listed, Screens, RecvTransportCreated
<1>3. c.o # 0 /\ c \in CallType /\ c.s \in Sockets
  BY DEF CallsMeant, TypeOK, CallType
<1>4. /\ ps \subseteq Producers
      /\ \A p \in ps : prod[p].state = "listed"
      /\ \A s \in Others(c.s) : Listed(s) \subseteq ps
  BY DEF AnnouncedTo, Listed
<1>5. /\ heard' = [heard EXCEPT ![c.s] = @ \cup ps]
      /\ view' = {v \in view : v[1] # c.s \/ v[2] \notin ps} \cup ({c.s} \X (ps \cap paused))
      /\ blocked' = IF \E p \in ps : prod[p].screen THEN blocked \cup {c.s} ELSE blocked
      /\ recv' = IF IsCurrent(c) THEN [recv EXCEPT ![c.s] = Transport(c)] ELSE recv
  BY DEF RecvTransportCreated
<1>6. UNCHANGED <<joined, router, deaths, joins, media, send, prod, slot, consumers, paused, stranded, byHost>>
  BY DEF RecvTransportCreated
<1> HIDE DEF ps
<1>7. /\ recv' \in [Sockets -> {"none", "open", "closed"}]
      /\ \A s \in Sockets : media[s] = 0 => recv'[s] = "none"
      /\ \A s \in Sockets : s # c.s => recv'[s] = recv[s]
  BY <1>3, <1>5 DEF TypeOK, Transport, IsCurrent, CallType
<1>8. /\ view' \subseteq Sockets \X Producers
      /\ \A t \in Sockets, p \in Producers :
            (<<t, p>> \in view') = IF t = c.s /\ p \in ps THEN p \in paused ELSE <<t, p>> \in view
  BY <1>3, <1>4, <1>5 DEF TypeOK
<1>9. heard' \in [Sockets -> SUBSET Producers] /\ blocked' \subseteq Sockets
  BY <1>3, <1>4, <1>5 DEF TypeOK
<1>10. TypeOK'
  BY <1>1, <1>2, <1>6, <1>7, <1>8, <1>9 DEF TypeOK
<1>11. NewIsUnknown'
  BY <1>4, <1>6, <1>8 DEF NewIsUnknown
<1>12. SlotIsHonest'
  <2> SUFFICES ASSUME slot # None, ~stranded
               PROVE  /\ Screens(slot) # {}
                      /\ \A t \in Others(slot) : recv'[t] # "none" => t \in blocked'
    BY <1>2, <1>6 DEF SlotIsHonest, Others, TypeOK
  <2>1. slot \in Sockets /\ Screens(slot) # {}
    BY DEF SlotIsHonest, TypeOK
  <2>2. slot \in joined
    BY <2>1 DEF TypeOK, Screens, Listed
  <2>3. c.s \in Others(slot) => c.s \in blocked'
    BY <1>3, <1>4, <1>5, <2>1, <2>2 DEF Others, Screens
  <2>4. \A t \in Others(slot) : t # c.s /\ recv'[t] # "none" => t \in blocked'
    BY <1>5, <1>7 DEF SlotIsHonest, Others, TypeOK
  <2> QED BY <2>1, <2>3, <2>4
<1>13. EveryoneHears'
  <2> SUFFICES ASSUME NEW t \in joined, recv'[t] # "none",
                      NEW s \in Others(t), NEW p \in Listed(s)
               PROVE  p \in heard'[t] /\ (p \notin byHost => (<<t, p>> \in view') = (p \in paused))
    BY <1>2, <1>6 DEF EveryoneHears, Others, TypeOK
  <2>1. t \in Sockets /\ s \in Sockets /\ p \in Producers
    BY DEF TypeOK, Others, Listed
  <2>2. CASE t = c.s
    BY <1>4, <1>5, <1>8, <2>1, <2>2 DEF TypeOK
  <2>3. CASE t # c.s
    BY <1>5, <1>7, <1>8, <2>1, <2>3 DEF EveryoneHears, TypeOK
  <2> QED BY <2>2, <2>3
<1> QED BY <1>1, <1>10, <1>11, <1>12, <1>13

LEMMA ProducedKeeps ==
    ASSUME MediaIInv, NEW c \in calls, Produced(c)
    PROVE  MediaIInv'
<1> USE DEF MediaIInv
<1> DEFINE told == IF IsCurrent(c) THEN Notified(c.s) ELSE {}
<1>1. /\ c \in CallType /\ c.s \in Sockets /\ c.o # 0
      /\ c.p \in Producers /\ prod[c.p].s = c.s /\ prod[c.p].state = "asked"
  BY DEF CallsMeant, TypeOK, CallType, Produced
<1>2. /\ calls' = calls \ {c}
      /\ prod' = [prod EXCEPT ![c.p].state = IF IsCurrent(c) THEN "listed" ELSE IF c.safe THEN "stray" ELSE "gone"]
      /\ slot' = IF prod[c.p].screen THEN c.s ELSE slot
      /\ stranded' = IF prod[c.p].screen THEN ~IsCurrent(c) ELSE stranded
      /\ heard' = [t \in Sockets |-> IF t \in told THEN heard[t] \cup {c.p} ELSE heard[t]]
      /\ blocked' = IF prod[c.p].screen THEN blocked \cup Others(c.s) ELSE blocked
      /\ UNCHANGED <<joined, router, deaths, joins, media, send, recv, consumers, paused, view, byHost>>
  BY DEF Produced, ToldOfShare, room
<1>3. /\ prod' \in [Producers -> [state : {"free", "asked", "listed", "stray", "gone"},
                                 s : Sockets \cup {None}, screen : BOOLEAN]]
      /\ \A p \in Producers : p # c.p => prod'[p] = prod[p]
      /\ prod'[c.p].s = c.s /\ prod'[c.p].screen = prod[c.p].screen
      /\ prod'[c.p].state \in {"listed", "stray", "gone"} /\ (prod'[c.p].state = "listed" <=> IsCurrent(c))
  BY <1>1, <1>2 DEF TypeOK
<1>4. calls' \subseteq CallType /\ CallsMeant'
  BY <1>1, <1>2, <1>3, CallRemoved DEF Produced
<1>5. IsCurrent(c) => media[c.s] # 0 /\ c.s \in joined
  BY <1>1 DEF IsCurrent, TypeOK
<1>6. \A s \in Sockets :
          Listed(s)' = IF s = c.s /\ IsCurrent(c) THEN Listed(s) \cup {c.p} ELSE Listed(s)
  BY <1>1, <1>3 DEF Listed
<1>7. \A s \in Sockets : Screens(s) \subseteq Screens(s)'
  BY <1>1, <1>3, <1>6 DEF Screens, Listed
<1>8. /\ heard' \in [Sockets -> SUBSET Producers] /\ blocked' \subseteq Sockets
      /\ stranded' \in BOOLEAN /\ slot' \in Sockets \cup {None}
  BY <1>1, <1>2 DEF TypeOK, Others
<1>9. TypeOK'
  <2>1. \A s \in Sockets : media'[s] = 0 =>
            send'[s] = "none" /\ recv'[s] = "none" /\ Listed(s)' = {}
            /\ ~\E d \in consumers' : d[1] = s
    BY <1>2, <1>5, <1>6 DEF TypeOK
  <2> QED BY <1>2, <1>3, <1>4, <1>8, <2>1 DEF TypeOK
<1>10. NewIsUnknown'
  BY <1>2, <1>3 DEF NewIsUnknown
<1>11. SlotIsHonest'
  <2> SUFFICES ASSUME slot' # None, ~stranded'
               PROVE  /\ Screens(slot)' # {}
                      /\ \A t \in Others(slot') : recv[t] # "none" => t \in blocked'
    BY <1>2 DEF SlotIsHonest, Others
  <2>1. CASE prod[c.p].screen
    <3>1. slot' = c.s /\ IsCurrent(c)
      BY <1>1, <1>2, <2>1
    <3>2. c.p \in Screens(slot)'
      BY <1>1, <1>3, <1>6, <2>1, <3>1 DEF Screens
    <3> QED BY <1>2, <2>1, <3>1, <3>2
  <2>2. CASE ~prod[c.p].screen
    <3>1. slot' = slot /\ slot \in Sockets /\ stranded' = stranded /\ blocked' = blocked
      BY <1>2, <2>2 DEF TypeOK
    <3>2. Screens(slot)' # {}
      BY <1>7, <3>1 DEF SlotIsHonest
    <3> QED BY <3>1, <3>2 DEF SlotIsHonest
  <2> QED BY <2>1, <2>2
<1>12. EveryoneHears'
  <2> SUFFICES ASSUME NEW t \in joined, recv[t] # "none",
                      NEW s \in Others(t), NEW p \in Listed(s)'
               PROVE  p \in heard'[t] /\ (p \notin byHost => (<<t, p>> \in view) = (p \in paused))
    BY <1>2 DEF EveryoneHears, Others
  <2>1. t \in Sockets /\ s \in Sockets /\ heard[t] \subseteq heard'[t]
    BY <1>2 DEF TypeOK, Others
  <2>2. CASE p \in Listed(s)
    BY <2>1, <2>2 DEF EveryoneHears
  <2>3. CASE p \notin Listed(s)
    <3>1. p = c.p /\ s = c.s /\ IsCurrent(c)
      BY <1>6, <2>1, <2>3
    <3>2. t \in told
      BY <1>5, <3>1 DEF Notified, Others
    <3> QED BY <1>1, <1>2, <2>1, <3>1, <3>2 DEF NewIsUnknown
  <2> QED BY <2>2, <2>3
<1> QED BY <1>4, <1>9, <1>10, <1>11, <1>12

\* A producer that leaves the map, without the slot or with it.
LEMMA RejectedKeeps ==
    ASSUME MediaIInv, NEW c \in calls, Rejected(c)
    PROVE  MediaIInv'
<1> USE DEF MediaIInv, room, clients, history
<1>1. c.op = "produce" =>
          c.p \in Producers /\ prod[c.p].s = c.s /\ prod[c.p].state = "asked"
  BY DEF CallsMeant
<1>2. /\ prod' \in [Producers -> [state : {"free", "asked", "listed", "stray", "gone"},
                                 s : Sockets \cup {None}, screen : BOOLEAN]]
      /\ \A p \in Producers :
            \/ prod'[p] = prod[p]
            \/ /\ c.op = "produce" /\ p = c.p /\ prod'[p].s = prod[p].s
               /\ prod[p].state = "asked" /\ prod'[p].state = "gone"
  BY <1>1 DEF Rejected, TypeOK
<1>3. \A s \in Sockets : Listed(s)' = Listed(s) /\ Screens(s)' = Screens(s)
  BY <1>2 DEF Listed, Screens
<1>4. calls' \subseteq CallType /\ CallsMeant'
  BY <1>2, CallRemoved DEF Rejected
<1>5. TypeOK'
  BY <1>2, <1>3, <1>4 DEF TypeOK, Rejected
<1>6. NewIsUnknown'
  BY <1>2 DEF NewIsUnknown, Rejected
<1>7. SlotIsHonest'
  BY <1>3 DEF SlotIsHonest, Rejected, Others, TypeOK
<1>8. EveryoneHears'
  BY <1>3 DEF EveryoneHears, Rejected, Others, TypeOK
<1> QED BY <1>4, <1>5, <1>6, <1>7, <1>8

LEMMA CloseProducerKeeps ==
    ASSUME MediaIInv, NEW s \in Sockets, NEW p \in Producers, CloseProducer(s, p)
    PROVE  MediaIInv'
<1> USE DEF MediaIInv, room
<1>1. p \in Listed(s) /\ prod[p].state = "listed" /\ prod[p].s = s
  BY DEF CloseProducer, Listed
<1>2. /\ prod' \in [Producers -> [state : {"free", "asked", "listed", "stray", "gone"},
                                 s : Sockets \cup {None}, screen : BOOLEAN]]
      /\ \A q \in Producers : q # p => prod'[q] = prod[q]
      /\ prod'[p].s = s /\ prod'[p].screen = prod[p].screen /\ prod'[p].state = "gone"
  BY <1>1 DEF CloseProducer, TypeOK
<1>3. /\ UNCHANGED <<joined, router, deaths, joins, media, send, recv, calls>>
      /\ Forget({}, {p}) /\ {} \in SUBSET Sockets /\ {p} \in SUBSET Producers
  BY DEF CloseProducer
<1>4. /\ slot' \in Sockets \cup {None} /\ blocked' \subseteq blocked /\ consumers' \subseteq consumers
      /\ stranded' \in BOOLEAN
      /\ slot' # None => /\ slot' = slot /\ blocked' = blocked /\ (slot = s => ~prod[p].screen)
                         /\ stranded' = stranded
  BY DEF CloseProducer, SlotWithout, TypeOK
<1>5. \A t \in Sockets : Listed(t)' = Listed(t) \ {p} /\ (t # s => Listed(t)' = Listed(t))
  BY <1>1, <1>2 DEF Listed
<1>6. /\ heard' \in [Sockets -> SUBSET Producers]
      /\ view' \subseteq view /\ paused' \subseteq paused
      /\ view' \subseteq Sockets \X Producers /\ paused' \subseteq Producers /\ byHost' \subseteq paused'
      /\ \A q \in Producers : q \notin {p} =>
            /\ (q \in paused' <=> q \in paused) /\ (q \in byHost' <=> q \in byHost)
            /\ \A t \in Sockets : t \notin {} =>
                  /\ q \in heard'[t] <=> q \in heard[t]
                  /\ <<t, q>> \in view' <=> <<t, q>> \in view
  BY <1>3, ForgetKeeps
<1>7. TypeOK'
  BY <1>2, <1>3, <1>4, <1>5, <1>6 DEF TypeOK
<1>8. CallsMeant'
  BY <1>1, <1>2, <1>3 DEF CallsMeant, HadListed
<1>9. NewIsUnknown'
  BY <1>1, <1>2, <1>6 DEF NewIsUnknown
<1>10. SlotIsHonest'
  <2> SUFFICES ASSUME slot' # None, ~stranded'
               PROVE  Screens(slot)' # {} /\ \A t \in Others(slot) : recv[t] # "none" => t \in blocked
    BY <1>3, <1>4 DEF SlotIsHonest, Others
  <2>1. slot \in Sockets /\ ~stranded /\ (slot = s => ~prod[p].screen)
    BY <1>4
  <2>2. \A t \in Sockets : (t = s /\ ~prod[p].screen) \/ t # s => Screens(t)' = Screens(t)
    BY <1>1, <1>2, <1>5 DEF Screens, Listed
  <2>3. slot' = slot /\ Screens(slot)' = Screens(slot)
    BY <1>4, <2>1, <2>2
  <2> QED BY <1>4, <2>1, <2>3 DEF SlotIsHonest
<1>11. EveryoneHears'
  <2> SUFFICES ASSUME NEW t \in joined, recv[t] # "none",
                      NEW r \in Others(t), NEW q \in Listed(r)'
               PROVE  q \in heard'[t] /\ (q \notin byHost' => (<<t, q>> \in view') = (q \in paused'))
    BY <1>3 DEF EveryoneHears, Others
  <2>1. t \in Sockets /\ r \in Sockets
    BY DEF Others, TypeOK
  <2>2. q \in Listed(r) /\ q # p /\ q \in Producers
    BY <1>5, <2>1 DEF Listed
  <2> QED BY <1>6, <2>1, <2>2 DEF EveryoneHears
<1> QED BY <1>7, <1>8, <1>9, <1>10, <1>11

LEMMA ConsumedKeeps ==
    ASSUME MediaIInv, NEW c \in calls, Consumed(c)
    PROVE  MediaIInv'
<1> USE DEF MediaIInv, room, clients, history
<1>1. calls' \subseteq CallType /\ CallsMeant'
  BY CallRemoved DEF Consumed
<1>2. c.o # 0 /\ c.s \in Sockets /\ c.p \in Producers
  BY DEF CallsMeant, TypeOK, CallType, Consumed
<1>3. \A s \in Sockets : Listed(s)' = Listed(s)
  BY DEF Listed, Consumed
<1>4. TypeOK'
  <2>1. /\ consumers' \subseteq Sockets \X Producers
        /\ \A d \in consumers' : d \in consumers \/ (d[1] = c.s /\ media[c.s] # 0)
    BY <1>2 DEF Consumed, IsCurrent, TypeOK
  <2> QED BY <1>1, <1>3, <2>1 DEF TypeOK, Consumed
<1>5. NewIsUnknown' /\ SlotIsHonest' /\ EveryoneHears'
  BY DEF NewIsUnknown, SlotIsHonest, EveryoneHears, Others, Screens, Listed, Consumed
<1> QED BY <1>1, <1>4, <1>5

LEMMA PauseSetKeeps ==
    ASSUME MediaIInv, NEW c \in calls, PauseSet(c)
    PROVE  MediaIInv'
<1> USE DEF MediaIInv, room, history
<1>1. calls' \subseteq CallType /\ CallsMeant'
  BY CallRemoved DEF PauseSet
<1>2. HadListed(c.s, c.p) /\ c.p \in Producers /\ c.s \in Sockets
  BY DEF CallsMeant, HadListed, TypeOK, CallType, PauseSet
<1>3. UNCHANGED <<joined, router, deaths, joins, media, send, recv, prod, slot, consumers, heard, blocked, stranded>>
  BY DEF PauseSet
<1>4. \A s \in Sockets : Listed(s)' = Listed(s) /\ Screens(s)' = Screens(s) /\ Others(s)' = Others(s)
  BY <1>3 DEF Listed, Screens, Others
<1>5. /\ view' \subseteq Sockets \X Producers
      /\ paused' \subseteq Producers /\ byHost' \subseteq paused' /\ byHost' = byHost \ {c.p}
      /\ \A p \in Producers : p # c.p => (p \in paused' <=> p \in paused)
      /\ \A t \in Sockets, p \in Producers :
            (<<t, p>> \in view') <=> IF p = c.p /\ t \in Others(c.s) THEN p \in paused' ELSE <<t, p>> \in view
  BY <1>2 DEF PauseSet, ToldOfState, Others, TypeOK
<1>6. TypeOK'
  BY <1>1, <1>3, <1>4, <1>5 DEF TypeOK
<1>7. NewIsUnknown'
  BY <1>2, <1>3, <1>5 DEF NewIsUnknown, HadListed
<1>8. SlotIsHonest'
  BY <1>3, <1>4 DEF SlotIsHonest, TypeOK
<1>9. EveryoneHears'
  <2> SUFFICES ASSUME NEW t \in joined, recv[t] # "none",
                      NEW s \in Others(t), NEW p \in Listed(s)
               PROVE  p \in heard[t] /\ (p \notin byHost' => (<<t, p>> \in view') = (p \in paused'))
    BY <1>3, <1>4 DEF EveryoneHears, Others, TypeOK
  <2>1. t \in Sockets /\ p \in Producers /\ prod[p].s = s /\ p \in heard[t]
    BY DEF TypeOK, Listed, EveryoneHears
  <2>2. CASE p = c.p
    <3>1. t \in Others(c.s)
      BY <1>2, <2>1, <2>2 DEF HadListed, Others
    <3> QED BY <1>5, <2>1, <2>2, <3>1
  <2>3. CASE p # c.p
    BY <1>5, <2>1, <2>3 DEF EveryoneHears
  <2> QED BY <2>2, <2>3
<1> QED BY <1>1, <1>6, <1>7, <1>8, <1>9

\* The producers that a mute goes on to are among those it had before.
LEMMA MuteGoesOn ==
    ASSUME TypeOK, NEW c \in calls, c.op = "mute", NEW now,
           NEW cs \in MuteOn(c, c.todo, now)
    PROVE  \A d \in cs : /\ d \in CallType /\ d.op = "mute" /\ d.s = c.s /\ d.o = c.o
                         /\ d.p \in c.todo /\ d.todo \subseteq c.todo
<1> SUFFICES ASSUME NEW d \in cs
             PROVE  /\ d \in CallType /\ d.op = "mute" /\ d.s = c.s /\ d.o = c.o
                    /\ d.p \in c.todo /\ d.todo \subseteq c.todo
  OBVIOUS
<1>1. PICK p \in c.todo : d = [c EXCEPT !.p = p, !.todo = c.todo \ {p}]
  BY DEF MuteOn
<1>2. c \in CallType
  BY DEF TypeOK
<1> QED BY <1>1, <1>2 DEF CallType

LEMMA MutedKeeps ==
    ASSUME MediaIInv, NEW c \in calls, Muted(c)
    PROVE  MediaIInv'
<1> USE DEF MediaIInv
<1>1. PICK cs \in MuteOn(c, c.todo, paused \cup {c.p}) : calls' = (calls \ {c}) \cup cs
  BY DEF Muted
<1>2. c.op = "mute" /\ HadListed(c.s, c.p) /\ c.p \in Producers
  BY DEF Muted, CallsMeant, HadListed
<1>3. \A d \in cs : /\ d \in CallType /\ d.op = "mute" /\ d.s = c.s /\ d.o = c.o
                    /\ d.p \in c.todo /\ d.todo \subseteq c.todo
  BY <1>2, MuteGoesOn
<1>4. UNCHANGED <<joined, router, deaths, joins, media, send, recv, prod, slot, consumers, heard, view, blocked, stranded>>
  BY DEF Muted, room, clients
<1>5. paused' = paused \cup {c.p} /\ byHost' = byHost \cup {c.p}
  BY DEF Muted
<1>6. calls' \subseteq CallType
  BY <1>1, <1>3 DEF TypeOK
<1>7. CallsMeant'
  <2>1. \A s, p : HadListed(s, p)' <=> HadListed(s, p)
    BY <1>4 DEF HadListed
  <2>2. \A d \in cs : /\ d.o # 0 /\ d.op = "mute" /\ HadListed(d.s, d.p)
                      /\ \A p \in d.todo : HadListed(d.s, p)
    BY <1>3 DEF CallsMeant
  <2> QED BY <1>1, <1>4, <2>1, <2>2 DEF CallsMeant
<1>8. \A s \in Sockets : Listed(s)' = Listed(s) /\ Screens(s)' = Screens(s) /\ Others(s)' = Others(s)
  BY <1>4 DEF Listed, Screens, Others
<1>9. TypeOK'
  BY <1>2, <1>4, <1>5, <1>6, <1>8 DEF TypeOK
<1>10. NewIsUnknown'
  BY <1>2, <1>4, <1>5 DEF NewIsUnknown, HadListed
<1>11. SlotIsHonest'
  BY <1>4, <1>8 DEF SlotIsHonest, TypeOK
<1>12. EveryoneHears'
  BY <1>4, <1>5, <1>8 DEF EveryoneHears, TypeOK, Others
<1> QED BY <1>6, <1>7, <1>9, <1>10, <1>11, <1>12

LEMMA MuteFailedKeeps ==
    ASSUME MediaIInv, NEW c \in calls, MuteFailed(c)
    PROVE  MediaIInv'
<1>1. calls' \subseteq CallType /\ CallsMeant'
  BY CallRemoved DEF MuteFailed
<1> QED BY <1>1, AskKeeps DEF MuteFailed

-----------------------------------------------------------------------------

LEMMA MediaStep == MediaIInv /\ [Next]_vars => MediaIInv'
<1> SUFFICES ASSUME MediaIInv, [Next]_vars PROVE MediaIInv'
  OBVIOUS
<1>1. ASSUME NEW s \in Sockets, Operation(s) PROVE MediaIInv'
  BY <1>1, JoinKeeps, DetachKeeps, AskMuteKeeps, AskTransportKeeps, AskProduceKeeps,
     CloseProducerKeeps, AskConsumeKeeps, AskPauseKeeps DEF Operation
<1>2. ASSUME NEW c \in calls, Answer(c) PROVE MediaIInv'
  BY <1>2, SendTransportCreatedKeeps, RecvTransportCreatedKeeps, ProducedKeeps,
     ConsumedKeeps, PauseSetKeeps, MutedKeeps, MuteFailedKeeps, RejectedKeeps DEF Answer
<1>3. CASE EndRoom \/ RouterDies \/ MediaReset
  BY <1>3, EndRoomKeeps, RouterDiesKeeps, MediaResetKeeps
<1>4. CASE UNCHANGED vars
  <2>1. calls' \subseteq CallType /\ CallsMeant'
    BY <1>4 DEF vars, MediaIInv, TypeOK, CallsMeant, HadListed
  <2> QED BY <1>4, <2>1, AskKeeps DEF vars
<1> QED BY <1>1, <1>2, <1>3, <1>4 DEF Next

\* The media plane never outlives presence, and the screen-share slot never
\* outlives the share of whoever holds it: any number of operations may await
\* the worker while their sockets leave, the room ends or the router dies.
THEOREM MediaAlwaysOfMembers == Spec => []MediaInv
<1>1. MediaIInv => MediaInv
  BY DEF MediaIInv, MediaInv
<1> QED BY <1>1, InitHolds, MediaStep, PTL DEF Spec

\* No announcement is lost: a member who has a receiving transport knows of
\* every producer of the others, whichever of the two awaits ended first, and
\* takes it to be paused exactly when it is.
THEOREM EveryoneAlwaysHears == Spec => []EveryoneHears
<1>1. MediaIInv => EveryoneHears
  BY DEF MediaIInv
<1> QED BY <1>1, InitHolds, MediaStep, PTL DEF Spec

-----------------------------------------------------------------------------
(***************************************************************************)
(* Proof, for any number of moves and lost connections, that the panel     *)
(* ends up showing what the server does with the participant's media, and  *)
(* the lock there is.  The last word on a kind that is on its way to the   *)
(* host is true of it; and where none is on its way the panel is, or the   *)
(* track that is awaited will be, unless an event has passed it by, or a   *)
(* mute has still to be told.                                              *)
(***************************************************************************)

NewEvents == [ev : {"new"}, kind : Kinds, paused : BOOLEAN]
StateEvents == [ev : {"state"}, kind : Kinds, paused : BOOLEAN]
CreatedEvents == [ev : {"created"}, kind : Kinds]
MutedEvents == [ev : {"muted"}, live : SUBSET Kinds]
LockedEvents == [ev : {"locked"}, locked : BOOLEAN]
Events == NewEvents \cup StateEvents \cup CreatedEvents \cup MutedEvents \cup LockedEvents
Fields == Kinds \cup {"byHost"}
Rows == [audio : BOOLEAN, video : BOOLEAN, byHost : BOOLEAN]
Orders == [by : {"owner", "host"}, kind : Kinds, paused : BOOLEAN]

RosterTyped ==
    /\ producer \in [Kinds -> {"none", "live", "paused"}]
    /\ work \in Seq(Orders) /\ muting \in Seq(Kinds \cup {"tell"})
    /\ locked \in BOOLEAN /\ attending \in BOOLEAN
    /\ news \in Seq(Events) /\ lockAsks \in Seq(BOOLEAN)
    /\ announced \in [Kinds -> {"none", "live", "paused"}]
    /\ asked \subseteq Kinds /\ readying \subseteq Kinds /\ tracks \subseteq Kinds
    /\ row \in Rows /\ shownLock \in BOOLEAN
    /\ slipped \subseteq Fields /\ lockSlipped \in BOOLEAN

\* Lists: what is in one, and the last word of one on a matter.
Among(s) == {s[i] : i \in DOMAIN s}
Silent(s, S) == \A i \in DOMAIN s : s[i] \notin S
LastIn(s, i, S) == i \in DOMAIN s /\ s[i] \in S /\ \A j \in DOMAIN s : j > i => s[j] \notin S
Word(s, e, S) == \E i \in DOMAIN s : s[i] = e /\ LastIn(s, i, S)

Live(k) == producer[k] = "live"

\* A host's orders are part of a mute, and the last step of a mute is to tell.
MutesAreTold ==
    /\ \A w \in Among(work) : w.by = "host" => w.paused /\ muting # <<>>
    /\ \A i \in DOMAIN muting : muting[i] = "tell" <=> i = Len(muting)

\* What is not published is not spoken of.
UnpublishedUnknown ==
    \A k \in Kinds : producer[k] = "none" =>
       /\ ~row[k] /\ k \notin Pending \cup tracks
       /\ \A w \in Among(work) : w.kind # k
       /\ \A e \in Among(news) : e.ev \in {"new", "state"} => e.kind # k

AwayHearsNothing == ~attending => news = <<>> /\ Pending = {} /\ "byHost" \in slipped

KindEvents(k) == MutedEvents \cup {e \in NewEvents \cup StateEvents : e.kind = k}
HostEvents == MutedEvents \cup {e \in NewEvents \cup StateEvents : e.kind = "audio" /\ ~e.paused}

\* A mute has paused what the host has not been told of.
Owed(k) == muting # <<>> /\ ~Live(k)

Says(e, k) == IF e.ev = "muted" THEN k \in e.live \/ ~Live(k) ELSE (~e.paused <=> Live(k)) \/ Owed(k)
SaysMuted(e) == e.ev = "muted" /\ "audio" \notin e.live => ~Live("audio")

\* What the panel will show of a kind when no word on it is on its way.
Shows(k) == IF k \in Pending THEN announced[k] # "paused" ELSE row[k]

KindsAreTold ==
    attending => \A k \in Kinds :
       /\ \A e \in Events : Word(news, e, KindEvents(k)) => Says(e, k)
       /\ Silent(news, KindEvents(k)) => k \in slipped \/ Owed(k) \/ (Live(k) <=> Shows(k))

MutesAreKnown ==
    attending =>
       /\ \A e \in Events : Word(news, e, HostEvents) => SaysMuted(e)
       /\ Silent(news, HostEvents) => "byHost" \in slipped \/ ~row["byHost"] \/ ~Live("audio")

LocksAreTold ==
    /\ \A e \in Events : Word(news, e, LockedEvents) => e.locked = locked
    /\ Silent(news, LockedEvents) /\ ~lockSlipped => shownLock = locked

RosterIInv ==
    /\ RosterTyped /\ MutesAreTold /\ UnpublishedUnknown /\ AwayHearsNothing
    /\ KindsAreTold /\ MutesAreKnown /\ LocksAreTold

-----------------------------------------------------------------------------
(* Lists.                                                                  *)

Grows(t, s, e) == t = Append(s, e)
Shrinks(t, s) == s # <<>> /\ t = Tail(s)

LEMMA WhatGrows ==
    ASSUME NEW S, NEW s \in Seq(S), NEW e \in S, NEW t, Grows(t, s, e)
    PROVE  /\ t \in Seq(S) /\ Among(t) = Among(s) \cup {e} /\ t # <<>>
           /\ Len(s) \in Nat /\ DOMAIN s = 1 .. Len(s) /\ DOMAIN t = 1 .. Len(s) + 1
           /\ (\A i \in DOMAIN s : t[i] = s[i]) /\ t[Len(s) + 1] = e
           /\ \A x, T : Word(t, x, T) => IF e \in T THEN x = e ELSE Word(s, x, T)
           /\ \A T : Silent(t, T) => e \notin T /\ Silent(s, T)
<1>1. /\ t \in Seq(S) /\ Len(s) \in Nat /\ DOMAIN s = 1 .. Len(s) /\ DOMAIN t = 1 .. Len(s) + 1
      /\ t # <<>>
  BY DEF Grows
<1>2. (\A i \in DOMAIN s : t[i] = s[i]) /\ t[Len(s) + 1] = e
  BY DEF Grows
<1> DEFINE n == Len(s)
<1> HIDE DEF n
<1>a. DOMAIN s = 1 .. n /\ DOMAIN t = 1 .. n + 1 /\ n \in Nat /\ t[n + 1] = e
  BY <1>1, <1>2 DEF n
<1>3. Among(t) = Among(s) \cup {e}
  <2>1. \A x \in Among(t) : x \in Among(s) \cup {e}
    <3> SUFFICES ASSUME NEW i \in DOMAIN t PROVE t[i] \in Among(s) \cup {e}
      BY DEF Among
    <3>1. i \in DOMAIN s \/ i = n + 1
      BY <1>a
    <3> QED BY <3>1, <1>2, <1>a DEF Among
  <2>2. \A x \in Among(s) : x \in Among(t)
    <3> SUFFICES ASSUME NEW i \in DOMAIN s PROVE s[i] \in Among(t)
      BY DEF Among
    <3>1. i \in DOMAIN t
      BY <1>a
    <3> QED BY <3>1, <1>2 DEF Among
  <2>3. e \in Among(t)
    <3>1. n + 1 \in DOMAIN t
      BY <1>a
    <3> QED BY <3>1, <1>a DEF Among
  <2> QED BY <2>1, <2>2, <2>3
<1>4. ASSUME NEW x, NEW T, Word(t, x, T) PROVE IF e \in T THEN x = e ELSE Word(s, x, T)
  <2>1. PICK i \in DOMAIN t : t[i] = x /\ t[i] \in T /\ \A j \in DOMAIN t : j > i => t[j] \notin T
    BY <1>4 DEF Word, LastIn
  <2>2. CASE e \in T
    <3>1. n + 1 \in DOMAIN t /\ (n + 1 > i \/ n + 1 = i)
      BY <1>a
    <3> QED BY <3>1, <2>1, <2>2, <1>a
  <2>3. CASE e \notin T
    <3>1. i # n + 1
      BY <2>1, <2>3, <1>a
    <3>2. i \in DOMAIN s /\ s[i] = x /\ s[i] \in T
      BY <3>1, <2>1, <1>a, <1>2
    <3>3. \A j \in DOMAIN s : j > i => s[j] \notin T
      BY <2>1, <1>a, <1>2
    <3> QED BY <2>3, <3>2, <3>3 DEF Word, LastIn
  <2> QED BY <2>2, <2>3
<1>5. ASSUME NEW T, Silent(t, T) PROVE e \notin T /\ Silent(s, T)
  <2>1. n + 1 \in DOMAIN t
    BY <1>a
  <2>2. \A i \in DOMAIN s : i \in DOMAIN t
    BY <1>a
  <2> QED BY <2>1, <2>2, <1>5, <1>a, <1>2 DEF Silent
<1> QED BY <1>1, <1>2, <1>3, <1>4, <1>5

LEMMA WhatShrinks ==
    ASSUME NEW S, NEW s \in Seq(S), NEW t, Shrinks(t, s)
    PROVE  /\ t \in Seq(S) /\ Among(s) = Among(t) \cup {Head(s)}
           /\ Len(s) \in Nat \ {0} /\ DOMAIN s = 1 .. Len(s) /\ DOMAIN t = 1 .. Len(s) - 1
           /\ Len(t) = Len(s) - 1
           /\ (\A i \in DOMAIN t : t[i] = s[i + 1]) /\ Head(s) = s[1] /\ Head(s) \in S
           /\ \A x, T : Word(t, x, T) => Word(s, x, T)
           /\ \A T : Silent(t, T) => IF Head(s) \in T THEN Word(s, Head(s), T) ELSE Silent(s, T)
<1>1. /\ t \in Seq(S) /\ Len(s) \in Nat \ {0} /\ DOMAIN s = 1 .. Len(s) /\ DOMAIN t = 1 .. Len(s) - 1
      /\ Head(s) = s[1] /\ Head(s) \in S /\ Len(t) = Len(s) - 1
  BY DEF Shrinks
<1>2. \A i \in DOMAIN t : t[i] = s[i + 1]
  BY DEF Shrinks
<1> DEFINE n == Len(s)
           h == Head(s)
<1> HIDE DEF n, h
<1>a. n \in Nat \ {0} /\ DOMAIN s = 1 .. n /\ DOMAIN t = 1 .. n - 1 /\ h = s[1] /\ 1 \in DOMAIN s
  BY <1>1 DEF n, h
<1>b. \A i \in DOMAIN s : i # 1 => i - 1 \in DOMAIN t /\ t[i - 1] = s[i]
  <2> SUFFICES ASSUME NEW i \in DOMAIN s, i # 1 PROVE i - 1 \in DOMAIN t /\ t[i - 1] = s[i]
    OBVIOUS
  <2>1. i - 1 \in DOMAIN t /\ (i - 1) + 1 = i
    BY <1>a
  <2> QED BY <2>1, <1>2
<1>3. Among(s) = Among(t) \cup {h}
  <2>1. \A x \in Among(s) : x \in Among(t) \cup {h}
    BY <1>a, <1>b DEF Among
  <2>2. \A x \in Among(t) : x \in Among(s)
    <3> SUFFICES ASSUME NEW i \in DOMAIN t PROVE t[i] \in Among(s)
      BY DEF Among
    <3>1. i + 1 \in DOMAIN s
      BY <1>a
    <3> QED BY <3>1, <1>2 DEF Among
  <2>3. h \in Among(s)
    BY <1>a DEF Among
  <2> QED BY <2>1, <2>2, <2>3
<1>4. ASSUME NEW x, NEW T, Word(t, x, T) PROVE Word(s, x, T)
  <2>1. PICK i \in DOMAIN t : t[i] = x /\ t[i] \in T /\ \A j \in DOMAIN t : j > i => t[j] \notin T
    BY <1>4 DEF Word, LastIn
  <2>2. i + 1 \in DOMAIN s /\ s[i + 1] = x /\ s[i + 1] \in T
    BY <2>1, <1>a, <1>2
  <2>3. \A j \in DOMAIN s : j > i + 1 => s[j] \notin T
    <3> SUFFICES ASSUME NEW j \in DOMAIN s, j > i + 1 PROVE s[j] \notin T
      OBVIOUS
    <3>1. j # 1 /\ j - 1 > i
      BY <1>a
    <3> QED BY <3>1, <2>1, <1>b
  <2> QED BY <2>2, <2>3 DEF Word, LastIn
<1>5. ASSUME NEW T, Silent(t, T) PROVE IF h \in T THEN Word(s, h, T) ELSE Silent(s, T)
  <2>1. \A i \in DOMAIN s : i # 1 => s[i] \notin T
    BY <1>5, <1>b DEF Silent
  <2>2. \A i \in DOMAIN s : i > 1 => i # 1
    BY <1>a
  <2> QED BY <2>1, <2>2, <1>a DEF Silent, Word, LastIn
<1> QED BY <1>1, <1>2, <1>3, <1>4, <1>5 DEF h

LEMMA NothingAmong ==
    /\ Among(<<>>) = {} /\ (\A S : <<>> \in Seq(S)) /\ (\A T : Silent(<<>>, T))
    /\ \A x, T : ~Word(<<>>, x, T)
<1>1. DOMAIN <<>> = {}
  OBVIOUS
<1> QED BY <1>1 DEF Among, Silent, Word

LEMMA WordsAreAmong ==
    ASSUME NEW s, NEW e, NEW S, Word(s, e, S) PROVE e \in Among(s) /\ e \in S
BY DEF Word, LastIn, Among

\* The kinds in some order.
LEMMA SomeOrder ==
    ASSUME NEW S \in SUBSET Kinds
    PROVE  /\ SetToSeq(S) \in Seq(S) /\ Len(SetToSeq(S)) = Cardinality(S) /\ Cardinality(S) \in Nat
           /\ Among(SetToSeq(S)) = S
<1> DEFINE Listings == {f \in [1 .. Cardinality(S) -> S] : IsInjective(f)}
<1>1. S = {} \/ S = {"audio"} \/ S = {"video"} \/ S = {"audio", "video"}
  BY DEF Kinds
<1>2. Cardinality({}) = 0
  BY FS_EmptySet
<1>3. \A x : Cardinality({x}) = 1 /\ IsFiniteSet({x})
  BY FS_Singleton
<1>4. Cardinality({"audio", "video"}) = 2
  <2>1. Cardinality({"audio"} \cup {"video"}) = Cardinality({"audio"}) + 1
    BY <1>3, FS_AddElement
  <2>2. {"audio"} \cup {"video"} = {"audio", "video"}
    OBVIOUS
  <2> QED BY <2>1, <2>2, <1>3
<1>5. Cardinality(S) \in {0, 1, 2}
  BY <1>1, <1>2, <1>3, <1>4
<1>6. \E f \in [1 .. Cardinality(S) -> S] : IsInjective(f)
  <2>1. CASE S = {}
    <3>1. [i \in 1 .. 0 |-> i] \in [1 .. Cardinality(S) -> S]
      BY <2>1, <1>2
    <3> QED BY <3>1, <2>1, <1>2 DEF IsInjective
  <2>2. CASE S = {"audio"}
    <3> DEFINE f == [i \in 1 .. 1 |-> "audio"]
    <3>0. Cardinality(S) = 1 /\ S = {"audio"}
      BY <2>2, <1>3
    <3>1. f \in [1 .. Cardinality(S) -> S]
      BY <3>0
    <3>2. IsInjective(f)
      BY DEF IsInjective
    <3> QED BY <3>1, <3>2
  <2>3. CASE S = {"video"}
    <3> DEFINE f == [i \in 1 .. 1 |-> "video"]
    <3>0. Cardinality(S) = 1 /\ S = {"video"}
      BY <2>3, <1>3
    <3>1. f \in [1 .. Cardinality(S) -> S]
      BY <3>0
    <3>2. IsInjective(f)
      BY DEF IsInjective
    <3> QED BY <3>1, <3>2
  <2>4. CASE S = {"audio", "video"}
    <3> DEFINE f == [i \in 1 .. 2 |-> IF i = 1 THEN "audio" ELSE "video"]
    <3>1. f \in [1 .. Cardinality(S) -> S]
      BY <2>4, <1>4
    <3>2. IsInjective(f)
      BY DEF IsInjective
    <3> QED BY <3>1, <3>2
  <2> QED BY <1>1, <2>1, <2>2, <2>3, <2>4
<1> DEFINE g == SetToSeq(S)
<1>7. g \in [1 .. Cardinality(S) -> S] /\ IsInjective(g)
  BY <1>6 DEF SetToSeq
<1> HIDE DEF g
<1>8. g \in Seq(S) /\ Len(g) = Cardinality(S)
  BY <1>5, <1>7
<1>9. Among(g) = S
  <2>1. Among(g) \subseteq S
    BY <1>7 DEF Among
  <2>2. CASE S = {}
    BY <2>1, <2>2
  <2>3. CASE \E x : S = {x}
    <3>1. PICK x : S = {x}
      BY <2>3
    <3>2. Cardinality(S) = 1
      BY <3>1, <1>3
    <3>3. 1 \in DOMAIN g /\ g[1] = x
      BY <3>1, <3>2, <1>7
    <3> QED BY <3>1, <3>3, <2>1 DEF Among
  <2>4. CASE S = {"audio", "video"}
    <3>1. 1 \in DOMAIN g /\ 2 \in DOMAIN g /\ g[1] \in S /\ g[2] \in S
      BY <2>4, <1>4, <1>7
    <3>2. g[1] # g[2]
      BY <3>1, <1>7 DEF IsInjective
    <3> QED BY <3>1, <3>2, <2>4, <2>1 DEF Among
  <2> QED BY <1>1, <2>2, <2>3, <2>4
<1> QED BY <1>5, <1>8, <1>9 DEF g

-----------------------------------------------------------------------------
(* Events.                                                                 *)

NewEvent(k, p) == [ev |-> "new", kind |-> k, paused |-> p]
StateEvent(k, p) == [ev |-> "state", kind |-> k, paused |-> p]
CreatedEvent(k) == [ev |-> "created", kind |-> k]
MutedEvent(l) == [ev |-> "muted", live |-> l]
LockedEvent(l) == [ev |-> "locked", locked |-> l]

LEMMA EventsMade ==
    /\ \A k \in Kinds, p \in BOOLEAN :
          /\ NewEvent(k, p) \in Events /\ NewEvent(k, p).ev = "new"
          /\ NewEvent(k, p).kind = k /\ NewEvent(k, p).paused = p
          /\ StateEvent(k, p) \in Events /\ StateEvent(k, p).ev = "state"
          /\ StateEvent(k, p).kind = k /\ StateEvent(k, p).paused = p
    /\ \A k \in Kinds : CreatedEvent(k) \in Events /\ CreatedEvent(k).ev = "created" /\ CreatedEvent(k).kind = k
    /\ \A l \in SUBSET Kinds : MutedEvent(l) \in Events /\ MutedEvent(l).ev = "muted" /\ MutedEvent(l).live = l
    /\ \A l \in BOOLEAN : LockedEvent(l) \in Events /\ LockedEvent(l).ev = "locked" /\ LockedEvent(l).locked = l
<1>1. \A k \in Kinds, p \in BOOLEAN :
          /\ NewEvent(k, p) \in Events /\ NewEvent(k, p).ev = "new"
          /\ NewEvent(k, p).kind = k /\ NewEvent(k, p).paused = p
  BY DEF NewEvent, NewEvents, Events
<1>2. \A k \in Kinds, p \in BOOLEAN :
          /\ StateEvent(k, p) \in Events /\ StateEvent(k, p).ev = "state"
          /\ StateEvent(k, p).kind = k /\ StateEvent(k, p).paused = p
  BY DEF StateEvent, StateEvents, Events
<1>3. \A k \in Kinds : CreatedEvent(k) \in Events /\ CreatedEvent(k).ev = "created" /\ CreatedEvent(k).kind = k
  BY DEF CreatedEvent, CreatedEvents, Events
<1>4. \A l \in SUBSET Kinds : MutedEvent(l) \in Events /\ MutedEvent(l).ev = "muted" /\ MutedEvent(l).live = l
  BY DEF MutedEvent, MutedEvents, Events
<1>5. \A l \in BOOLEAN : LockedEvent(l) \in Events /\ LockedEvent(l).ev = "locked" /\ LockedEvent(l).locked = l
  BY DEF LockedEvent, LockedEvents, Events
<1> QED BY <1>1, <1>2, <1>3, <1>4, <1>5

LEMMA EventsKnown ==
    ASSUME NEW e \in Events
    PROVE  /\ e.ev \in {"new", "state", "created", "muted", "locked"}
           /\ e.ev \in {"new", "state"} => e.kind \in Kinds /\ e.paused \in BOOLEAN
           /\ e.ev = "created" => e.kind \in Kinds /\ e = CreatedEvent(e.kind)
           /\ e.ev = "muted" => e.live \in SUBSET Kinds
           /\ e.ev = "locked" => e.locked \in BOOLEAN
           /\ \A k : e \in KindEvents(k) <=> e.ev = "muted" \/ (e.ev \in {"new", "state"} /\ e.kind = k)
           /\ e \in HostEvents <=>
                 e.ev = "muted" \/ (e.ev \in {"new", "state"} /\ e.kind = "audio" /\ ~e.paused)
           /\ e \in LockedEvents <=> e.ev = "locked"
<1>1. CASE e \in NewEvents
  BY <1>1 DEF NewEvents, StateEvents, MutedEvents, LockedEvents, KindEvents, HostEvents
<1>2. CASE e \in StateEvents
  BY <1>2 DEF NewEvents, StateEvents, MutedEvents, LockedEvents, KindEvents, HostEvents
<1>3. CASE e \in CreatedEvents
  BY <1>3 DEF CreatedEvents, NewEvents, StateEvents, MutedEvents, LockedEvents, KindEvents,
     HostEvents, CreatedEvent
<1>4. CASE e \in MutedEvents
  BY <1>4 DEF NewEvents, StateEvents, MutedEvents, LockedEvents, KindEvents, HostEvents
<1>5. CASE e \in LockedEvents
  BY <1>5 DEF NewEvents, StateEvents, MutedEvents, LockedEvents, KindEvents, HostEvents
<1> QED BY <1>1, <1>2, <1>3, <1>4, <1>5 DEF Events

\* What is awaited of the consumers that were granted.
Granted == {k \in Kinds : CreatedEvent(k) \in Among(news)}

LEMMA PendingIs == ASSUME RosterTyped PROVE Pending = asked \cup readying \cup Granted
BY DEF Pending, Granted, Among, CreatedEvent

LEMMA PendingWillBe == ASSUME RosterTyped' PROVE Pending' = asked' \cup readying' \cup Granted'
BY DEF Pending, Granted, Among, CreatedEvent

LEMMA TellsNews ==
    ASSUME RosterTyped, NEW e \in Events, Told(e)
    PROVE  /\ news' \in Seq(Events)
           /\ attending =>
                 /\ Among(news') = Among(news) \cup {e}
                 /\ \A x, T : Word(news', x, T) => IF e \in T THEN x = e ELSE Word(news, x, T)
                 /\ \A T : Silent(news', T) => e \notin T /\ Silent(news, T)
           /\ ~attending => news' = news
<1>1. news \in Seq(Events)
  BY DEF RosterTyped
<1>2. CASE attending
  <2>1. Grows(news', news, e)
    BY <1>2 DEF Told, Grows
  <2> QED BY <2>1, <1>1, <1>2, WhatGrows
<1>3. CASE ~attending
  BY <1>1, <1>3 DEF Told
<1> QED BY <1>2, <1>3

LEMMA ReadsNews ==
    ASSUME RosterTyped, NEW ev, OnEvent(ev)
    PROVE  /\ Head(news) \in Events /\ Head(news).ev = ev /\ news # <<>>
           /\ news' \in Seq(Events) /\ Among(news) = Among(news') \cup {Head(news)}
           /\ \A x, T : Word(news', x, T) => Word(news, x, T)
           /\ \A T : Silent(news', T) =>
                 IF Head(news) \in T THEN Word(news, Head(news), T) ELSE Silent(news, T)
<1>1. news \in Seq(Events) /\ Shrinks(news', news) /\ Head(news).ev = ev /\ news # <<>>
  BY DEF RosterTyped, OnEvent, Shrinks
<1> QED BY <1>1, WhatShrinks

\* An event of another kind leaves what is awaited of consumers as it is.
LEMMA GrantedTold ==
    ASSUME RosterTyped, NEW e \in Events, Told(e), e.ev # "created"
    PROVE  Granted' = Granted
<1>1. \A k \in Kinds : CreatedEvent(k) # e
  BY EventsMade
<1> QED BY <1>1, TellsNews DEF Granted

LEMMA GrantedRead ==
    ASSUME RosterTyped, NEW ev, OnEvent(ev), ev # "created"
    PROVE  Granted' = Granted
<1>1. \A k \in Kinds : CreatedEvent(k) # Head(news)
  BY EventsMade, ReadsNews
<1> QED BY <1>1, ReadsNews DEF Granted

\* Where nothing is said and nothing changes, what was true is.
LEMMA NewsStand ==
    ASSUME RosterTyped, UNCHANGED news
    PROVE  news' \in Seq(Events) /\ Granted' = Granted
BY DEF RosterTyped, Granted
\* The record of a participant.
LEMMA RowChanges ==
    ASSUME RosterTyped, NEW k \in Kinds, NEW on \in BOOLEAN, row' = [row EXCEPT ![k] = on]
    PROVE  /\ row' \in Rows /\ row'["byHost"] = row["byHost"] /\ row'[k] = on
           /\ \A j \in Kinds : j # k => row'[j] = row[j]
BY DEF RosterTyped, Rows, Kinds

LEMMA RowHeals ==
    ASSUME RosterTyped, NEW k \in Kinds, NEW on \in BOOLEAN,
           row' = [row EXCEPT ![k] = on, !.byHost = @ /\ ~(k = "audio" /\ on)]
    PROVE  /\ row' \in Rows /\ row'[k] = on /\ row'["byHost"] = (row["byHost"] /\ ~(k = "audio" /\ on))
           /\ \A j \in Kinds : j # k => row'[j] = row[j]
<1>1. CASE k = "audio"
  BY <1>1 DEF RosterTyped, Rows, Kinds
<1>2. CASE k = "video"
  BY <1>2 DEF RosterTyped, Rows, Kinds
<1> QED BY <1>1, <1>2 DEF Kinds

-----------------------------------------------------------------------------
(* The steps.                                                              *)

LEMMA PublishStep == ASSUME RosterIInv, NEW k0 \in Kinds, Publish(k0) PROVE RosterIInv'
<1>0. /\ RosterTyped /\ MutesAreTold /\ UnpublishedUnknown /\ AwayHearsNothing
      /\ KindsAreTold /\ MutesAreKnown /\ LocksAreTold
  BY DEF RosterIInv
<1>1. /\ UNCHANGED <<work, muting, locked, attending, lockAsks, announced, asked, readying, tracks, row,
                      shownLock, slipped, lockSlipped>>
      /\ producer[k0] = "none" /\ producer' = [producer EXCEPT ![k0] = "live"]
      /\ Told(NewEvent(k0, FALSE))
  BY DEF Publish, Moves, NewEvent, rosterServer, rosterClient, rosterHistory
<1> DEFINE e == NewEvent(k0, FALSE)
<1>a. e \in Events /\ e.ev = "new" /\ e.kind = k0 /\ e.paused = FALSE
  BY <1>0, EventsMade DEF RosterTyped
<1>b. Told(e)
  BY <1>1 DEF NewEvent, StateEvent, CreatedEvent, MutedEvent, LockedEvent
<1> HIDE DEF e
<1>2. /\ news' \in Seq(Events) /\ Granted' = Granted
      /\ attending =>
            /\ Among(news') = Among(news) \cup {e}
            /\ \A x, T : Word(news', x, T) => IF e \in T THEN x = e ELSE Word(news, x, T)
            /\ \A T : Silent(news', T) => e \notin T /\ Silent(news, T)
      /\ ~attending => news' = news
  BY <1>0, <1>a, <1>b, TellsNews, GrantedTold
<1>3. RosterTyped'
  BY <1>0, <1>1, <1>2, <1>a DEF RosterTyped
<1>4. Pending' = asked' \cup readying' \cup Granted' /\ Pending = asked \cup readying \cup Granted
  BY <1>0, <1>3, PendingIs, PendingWillBe
<1>5. MutesAreTold'
  BY <1>0, <1>1, <1>2, <1>a, <1>4 DEF MutesAreTold
<1>6. UnpublishedUnknown'
  BY <1>0, <1>1, <1>2, <1>a, <1>4 DEF UnpublishedUnknown, RosterTyped
<1>7. AwayHearsNothing'
  BY <1>0, <1>1, <1>2, <1>a, <1>4 DEF AwayHearsNothing
<1>8. KindsAreTold'
  <2> SUFFICES ASSUME attending', NEW k \in Kinds
               PROVE  /\ \A x \in Events : Word(news', x, KindEvents(k)) => Says(x, k)'
                      /\ Silent(news', KindEvents(k)) => k \in slipped' \/ Owed(k)' \/ (Live(k)' <=> Shows(k)')
    BY DEF KindsAreTold
  <2>1. ASSUME NEW x \in Events, Word(news', x, KindEvents(k)) PROVE Says(x, k)'
    BY <2>1, <1>0, <1>1, <1>2, <1>a, <1>4, EventsKnown DEF KindsAreTold, Says, Owed, Live,
       RosterTyped, UnpublishedUnknown, MutesAreTold
  <2>2. ASSUME Silent(news', KindEvents(k))
               PROVE k \in slipped' \/ Owed(k)' \/ (Live(k)' <=> Shows(k)')
    BY <2>2, <1>0, <1>1, <1>2, <1>a, <1>4, EventsKnown DEF KindsAreTold, Says, Owed, Live,
       Shows, RosterTyped, UnpublishedUnknown, MutesAreTold
  <2> QED BY <2>1, <2>2
<1>9. MutesAreKnown'
  <2> SUFFICES ASSUME attending'
               PROVE  /\ \A x \in Events : Word(news', x, HostEvents) => SaysMuted(x)'
                      /\ Silent(news', HostEvents) => "byHost" \in slipped' \/ ~row'["byHost"] \/ ~Live("audio")'
    BY DEF MutesAreKnown
  <2>1. ASSUME NEW x \in Events, Word(news', x, HostEvents) PROVE SaysMuted(x)'
    BY <2>1, <1>0, <1>1, <1>2, <1>a, <1>4, EventsKnown DEF MutesAreKnown, SaysMuted, Live,
       RosterTyped, UnpublishedUnknown, MutesAreTold, Kinds
  <2>2. ASSUME Silent(news', HostEvents)
        PROVE  "byHost" \in slipped' \/ ~row'["byHost"] \/ ~Live("audio")'
    BY <2>2, <1>0, <1>1, <1>2, <1>a, <1>4, EventsKnown DEF MutesAreKnown, SaysMuted, Live,
       RosterTyped, UnpublishedUnknown, MutesAreTold, Kinds
  <2> QED BY <2>1, <2>2
<1>10. LocksAreTold'
  BY <1>0, <1>1, <1>2, <1>a, <1>4, EventsKnown DEF LocksAreTold, RosterTyped
<1> QED BY <1>3, <1>5, <1>6, <1>7, <1>8, <1>9, <1>10 DEF RosterIInv

LEMMA SetPausedStep == ASSUME RosterIInv, NEW k0 \in Kinds, NEW p \in BOOLEAN, SetPaused(k0, p)
                              PROVE RosterIInv'
<1>0. /\ RosterTyped /\ MutesAreTold /\ UnpublishedUnknown /\ AwayHearsNothing
      /\ KindsAreTold /\ MutesAreKnown /\ LocksAreTold
  BY DEF RosterIInv
<1>1. /\ UNCHANGED <<producer, muting, locked, attending, news, lockAsks, announced, asked, readying,
                      tracks, row, shownLock, slipped, lockSlipped>>
      /\ producer[k0] # "none" /\ work' = Append(work, [by |-> "owner", kind |-> k0, paused |-> p])
  BY DEF SetPaused, Moves, rosterServer, rosterClient, rosterHistory
<1> DEFINE w == [by |-> "owner", kind |-> k0, paused |-> p]
<1>2. news' \in Seq(Events) /\ Granted' = Granted
  BY <1>0, <1>1, NewsStand
<1>2a. work' \in Seq(Orders) /\ Among(work') = Among(work) \cup {w}
  <2>1. work \in Seq(Orders) /\ w \in Orders /\ Grows(work', work, w)
    BY <1>0, <1>1 DEF RosterTyped, Grows, Orders
  <2> QED BY <2>1, WhatGrows
<1>3. RosterTyped'
  BY <1>0, <1>1, <1>2, <1>2a DEF RosterTyped
<1>4. Pending' = asked' \cup readying' \cup Granted' /\ Pending = asked \cup readying \cup Granted
  BY <1>0, <1>3, PendingIs, PendingWillBe
<1>5. MutesAreTold'
  BY <1>0, <1>1, <1>2, <1>2a, <1>4 DEF MutesAreTold
<1>6. UnpublishedUnknown'
  BY <1>0, <1>1, <1>2, <1>2a, <1>4 DEF UnpublishedUnknown, RosterTyped
<1>7. AwayHearsNothing'
  BY <1>0, <1>1, <1>2, <1>2a, <1>4 DEF AwayHearsNothing
<1>8. KindsAreTold'
  <2> SUFFICES ASSUME attending', NEW k \in Kinds
               PROVE  /\ \A x \in Events : Word(news', x, KindEvents(k)) => Says(x, k)'
                      /\ Silent(news', KindEvents(k)) => k \in slipped' \/ Owed(k)' \/ (Live(k)' <=> Shows(k)')
    BY DEF KindsAreTold
  <2>1. ASSUME NEW x \in Events, Word(news', x, KindEvents(k)) PROVE Says(x, k)'
    BY <2>1, <1>0, <1>1, <1>2, <1>2a, <1>4, EventsKnown DEF KindsAreTold, Says, Owed, Live,
       RosterTyped, UnpublishedUnknown, MutesAreTold
  <2>2. ASSUME Silent(news', KindEvents(k))
               PROVE k \in slipped' \/ Owed(k)' \/ (Live(k)' <=> Shows(k)')
    BY <2>2, <1>0, <1>1, <1>2, <1>2a, <1>4, EventsKnown DEF KindsAreTold, Says, Owed, Live,
       Shows, RosterTyped, UnpublishedUnknown, MutesAreTold
  <2> QED BY <2>1, <2>2
<1>9. MutesAreKnown'
  <2> SUFFICES ASSUME attending'
               PROVE  /\ \A x \in Events : Word(news', x, HostEvents) => SaysMuted(x)'
                      /\ Silent(news', HostEvents) => "byHost" \in slipped' \/ ~row'["byHost"] \/ ~Live("audio")'
    BY DEF MutesAreKnown
  <2>1. ASSUME NEW x \in Events, Word(news', x, HostEvents) PROVE SaysMuted(x)'
    BY <2>1, <1>0, <1>1, <1>2, <1>2a, <1>4, EventsKnown DEF MutesAreKnown, SaysMuted, Live,
       RosterTyped, UnpublishedUnknown, MutesAreTold, Kinds
  <2>2. ASSUME Silent(news', HostEvents)
        PROVE  "byHost" \in slipped' \/ ~row'["byHost"] \/ ~Live("audio")'
    BY <2>2, <1>0, <1>1, <1>2, <1>2a, <1>4, EventsKnown DEF MutesAreKnown, SaysMuted, Live,
       RosterTyped, UnpublishedUnknown, MutesAreTold, Kinds
  <2> QED BY <2>1, <2>2
<1>10. LocksAreTold'
  BY <1>0, <1>1, <1>2, <1>2a, <1>4, EventsKnown DEF LocksAreTold, RosterTyped
<1> QED BY <1>3, <1>5, <1>6, <1>7, <1>8, <1>9, <1>10 DEF RosterIInv

LEMMA WorkerAnswersStep == ASSUME RosterIInv, WorkerAnswers PROVE RosterIInv'
<1>0. /\ RosterTyped /\ MutesAreTold /\ UnpublishedUnknown /\ AwayHearsNothing
      /\ KindsAreTold /\ MutesAreKnown /\ LocksAreTold
  BY DEF RosterIInv
<1>1. /\ UNCHANGED <<muting, locked, attending, lockAsks, announced, asked, readying, tracks, row,
                      shownLock, slipped, lockSlipped>>
      /\ producer' = [producer EXCEPT ![Head(work).kind] = IF Head(work).paused THEN "paused" ELSE "live"]
      /\ work # <<>> /\ work' = Tail(work)
      /\ IF Head(work).by = "owner" 
         THEN Told(StateEvent(Head(work).kind, Head(work).paused))
         ELSE UNCHANGED news
  BY DEF WorkerAnswers, StateEvent, rosterServer, rosterClient, rosterHistory
<1> DEFINE w == Head(work)
<1>a. /\ w \in Orders /\ w \in Among(work) /\ Among(work') \subseteq Among(work) /\ work' \in Seq(Orders)
  <2>1. work \in Seq(Orders) /\ Shrinks(work', work)
    BY <1>0, <1>1 DEF RosterTyped, Shrinks
  <2> QED BY <2>1, WhatShrinks
<1> HIDE DEF w
<1>b. /\ w.by \in {"owner", "host"} /\ w.kind \in Kinds /\ w.paused \in BOOLEAN
      /\ producer' = [producer EXCEPT ![w.kind] = IF w.paused THEN "paused" ELSE "live"]
      /\ producer[w.kind] # "none" /\ (w.by = "host" => w.paused /\ muting # <<>>)
  BY <1>0, <1>1, <1>a DEF w, Orders, MutesAreTold, UnpublishedUnknown
<1> DEFINE e == StateEvent(w.kind, w.paused)
<1>c. e \in Events /\ e.ev = "state" /\ e.kind = w.kind /\ e.paused = w.paused
  BY <1>b, EventsMade
<1> HIDE DEF e
<1>2. /\ news' \in Seq(Events) /\ Granted' = Granted
      /\ attending /\ w.by = "owner" =>
            /\ Among(news') = Among(news) \cup {e}
            /\ \A x, T : Word(news', x, T) => IF e \in T THEN x = e ELSE Word(news, x, T)
            /\ \A T : Silent(news', T) => e \notin T /\ Silent(news, T)
      /\ ~(attending /\ w.by = "owner") => news' = news
  <2>1. CASE w.by = "owner"
    <3>1. Told(e)
      BY <2>1, <1>1 DEF w, e
    <3> QED BY <3>1, <2>1, <1>0, <1>c, TellsNews, GrantedTold
  <2>2. CASE w.by # "owner"
    <3>1. UNCHANGED news
      BY <2>2, <1>1 DEF w
    <3> QED BY <3>1, <2>2, <1>0, NewsStand
  <2> QED BY <2>1, <2>2
<1>3. RosterTyped'
  BY <1>0, <1>1, <1>2, <1>a, <1>b, <1>c DEF RosterTyped
<1>4. Pending' = asked' \cup readying' \cup Granted' /\ Pending = asked \cup readying \cup Granted
  BY <1>0, <1>3, PendingIs, PendingWillBe
<1>5. MutesAreTold'
  BY <1>0, <1>1, <1>2, <1>a, <1>b, <1>c, <1>4 DEF MutesAreTold
<1>6. UnpublishedUnknown'
  BY <1>0, <1>1, <1>2, <1>a, <1>b, <1>c, <1>4 DEF UnpublishedUnknown, RosterTyped
<1>7. AwayHearsNothing'
  BY <1>0, <1>1, <1>2, <1>a, <1>b, <1>c, <1>4 DEF AwayHearsNothing
<1>8. KindsAreTold'
  <2> SUFFICES ASSUME attending', NEW k \in Kinds
               PROVE  /\ \A x \in Events : Word(news', x, KindEvents(k)) => Says(x, k)'
                      /\ Silent(news', KindEvents(k)) => k \in slipped' \/ Owed(k)' \/ (Live(k)' <=> Shows(k)')
    BY DEF KindsAreTold
  <2>1. ASSUME NEW x \in Events, Word(news', x, KindEvents(k)) PROVE Says(x, k)'
    BY <2>1, <1>0, <1>1, <1>2, <1>a, <1>b, <1>c, <1>4, EventsKnown DEF KindsAreTold, Says, Owed,
       Live, RosterTyped, UnpublishedUnknown, MutesAreTold
  <2>2. ASSUME Silent(news', KindEvents(k))
               PROVE k \in slipped' \/ Owed(k)' \/ (Live(k)' <=> Shows(k)')
    BY <2>2, <1>0, <1>1, <1>2, <1>a, <1>b, <1>c, <1>4, EventsKnown DEF KindsAreTold, Says, Owed,
       Live, Shows, RosterTyped, UnpublishedUnknown, MutesAreTold
  <2> QED BY <2>1, <2>2
<1>9. MutesAreKnown'
  <2> SUFFICES ASSUME attending'
               PROVE  /\ \A x \in Events : Word(news', x, HostEvents) => SaysMuted(x)'
                      /\ Silent(news', HostEvents) => "byHost" \in slipped' \/ ~row'["byHost"] \/ ~Live("audio")'
    BY DEF MutesAreKnown
  <2>1. ASSUME NEW x \in Events, Word(news', x, HostEvents) PROVE SaysMuted(x)'
    BY <2>1, <1>0, <1>1, <1>2, <1>a, <1>b, <1>c, <1>4, EventsKnown DEF MutesAreKnown, SaysMuted,
       Live, RosterTyped, UnpublishedUnknown, MutesAreTold, Kinds
  <2>2. ASSUME Silent(news', HostEvents)
        PROVE  "byHost" \in slipped' \/ ~row'["byHost"] \/ ~Live("audio")'
    BY <2>2, <1>0, <1>1, <1>2, <1>a, <1>b, <1>c, <1>4, EventsKnown DEF MutesAreKnown, SaysMuted,
       Live, RosterTyped, UnpublishedUnknown, MutesAreTold, Kinds
  <2> QED BY <2>1, <2>2
<1>10. LocksAreTold'
  BY <1>0, <1>1, <1>2, <1>a, <1>b, <1>c, <1>4, EventsKnown DEF LocksAreTold, RosterTyped
<1> QED BY <1>3, <1>5, <1>6, <1>7, <1>8, <1>9, <1>10 DEF RosterIInv

LEMMA TellStep == ASSUME RosterIInv, MuteStep, Head(muting) = "tell" PROVE RosterIInv'
<1>0. /\ RosterTyped /\ MutesAreTold /\ UnpublishedUnknown /\ AwayHearsNothing
      /\ KindsAreTold /\ MutesAreKnown /\ LocksAreTold
  BY DEF RosterIInv
<1>1. /\ UNCHANGED <<producer, work, locked, attending, lockAsks, announced, asked, readying, tracks, row,
                      shownLock, slipped, lockSlipped>>
      /\ muting # <<>> /\ muting' = Tail(muting) /\ ~\E i \in DOMAIN work : work[i].by = "host"
      /\ Told(MutedEvent({k \in Kinds : producer[k] = "live"}))
  BY DEF MuteStep, MutedEvent, rosterServer, rosterClient, rosterHistory
<1> DEFINE l == {k \in Kinds : producer[k] = "live"}
<1> DEFINE e == MutedEvent(l)
<1>a. e \in Events /\ e.ev = "muted" /\ e.live = l
  BY <1>0, EventsMade DEF RosterTyped
<1>b. Told(e)
  BY <1>1 DEF NewEvent, StateEvent, CreatedEvent, MutedEvent, LockedEvent
<1> HIDE DEF e
<1>2. /\ news' \in Seq(Events) /\ Granted' = Granted
      /\ attending =>
            /\ Among(news') = Among(news) \cup {e}
            /\ \A x, T : Word(news', x, T) => IF e \in T THEN x = e ELSE Word(news, x, T)
            /\ \A T : Silent(news', T) => e \notin T /\ Silent(news, T)
      /\ ~attending => news' = news
  BY <1>0, <1>a, <1>b, TellsNews, GrantedTold
<1>c. muting' = <<>>
  <2>1. muting \in Seq(Kinds \cup {"tell"}) /\ Shrinks(muting', muting)
    BY <1>0, <1>1 DEF RosterTyped, Shrinks
  <2>2. /\ Len(muting) \in Nat \ {0} /\ DOMAIN muting = 1 .. Len(muting) /\ Head(muting) = muting[1]
        /\ Len(muting') = Len(muting) - 1 /\ muting' \in Seq(Kinds \cup {"tell"})
    BY <2>1, WhatShrinks
  <2>3. Len(muting) = 1
    BY <2>2, <1>0 DEF MutesAreTold
  <2> QED BY <2>2, <2>3
<1>d. \A w \in Among(work) : w.by # "host"
  BY <1>1 DEF Among
<1>3. RosterTyped'
  BY <1>0, <1>1, <1>2, <1>a, <1>c, <1>d, NothingAmong DEF RosterTyped
<1>4. Pending' = asked' \cup readying' \cup Granted' /\ Pending = asked \cup readying \cup Granted
  BY <1>0, <1>3, PendingIs, PendingWillBe
<1>5. MutesAreTold'
  BY <1>0, <1>1, <1>2, <1>a, <1>c, <1>d, <1>4 DEF MutesAreTold
<1>6. UnpublishedUnknown'
  BY <1>0, <1>1, <1>2, <1>a, <1>c, <1>d, <1>4 DEF UnpublishedUnknown, RosterTyped
<1>7. AwayHearsNothing'
  BY <1>0, <1>1, <1>2, <1>a, <1>c, <1>d, <1>4 DEF AwayHearsNothing
<1>8. KindsAreTold'
  <2> SUFFICES ASSUME attending', NEW k \in Kinds
               PROVE  /\ \A x \in Events : Word(news', x, KindEvents(k)) => Says(x, k)'
                      /\ Silent(news', KindEvents(k)) => k \in slipped' \/ Owed(k)' \/ (Live(k)' <=> Shows(k)')
    BY DEF KindsAreTold
  <2>1. ASSUME NEW x \in Events, Word(news', x, KindEvents(k)) PROVE Says(x, k)'
    BY <2>1, <1>0, <1>1, <1>2, <1>a, <1>c, <1>d, <1>4, EventsKnown DEF KindsAreTold, Says, Owed,
       Live, RosterTyped, UnpublishedUnknown, MutesAreTold
  <2>2. ASSUME Silent(news', KindEvents(k))
               PROVE k \in slipped' \/ Owed(k)' \/ (Live(k)' <=> Shows(k)')
    BY <2>2, <1>0, <1>1, <1>2, <1>a, <1>c, <1>d, <1>4, EventsKnown DEF KindsAreTold, Says, Owed,
       Live, Shows, RosterTyped, UnpublishedUnknown, MutesAreTold
  <2> QED BY <2>1, <2>2
<1>9. MutesAreKnown'
  <2> SUFFICES ASSUME attending'
               PROVE  /\ \A x \in Events : Word(news', x, HostEvents) => SaysMuted(x)'
                      /\ Silent(news', HostEvents) => "byHost" \in slipped' \/ ~row'["byHost"] \/ ~Live("audio")'
    BY DEF MutesAreKnown
  <2>1. ASSUME NEW x \in Events, Word(news', x, HostEvents) PROVE SaysMuted(x)'
    BY <2>1, <1>0, <1>1, <1>2, <1>a, <1>c, <1>d, <1>4, EventsKnown DEF MutesAreKnown, SaysMuted,
       Live, RosterTyped, UnpublishedUnknown, MutesAreTold, Kinds
  <2>2. ASSUME Silent(news', HostEvents)
        PROVE  "byHost" \in slipped' \/ ~row'["byHost"] \/ ~Live("audio")'
    BY <2>2, <1>0, <1>1, <1>2, <1>a, <1>c, <1>d, <1>4, EventsKnown DEF MutesAreKnown, SaysMuted,
       Live, RosterTyped, UnpublishedUnknown, MutesAreTold, Kinds
  <2> QED BY <2>1, <2>2
<1>10. LocksAreTold'
  BY <1>0, <1>1, <1>2, <1>a, <1>c, <1>d, <1>4, EventsKnown DEF LocksAreTold, RosterTyped
<1> QED BY <1>3, <1>5, <1>6, <1>7, <1>8, <1>9, <1>10 DEF RosterIInv

LEMMA OrderStep == ASSUME RosterIInv, MuteStep, Head(muting) # "tell" PROVE RosterIInv'
<1>0. /\ RosterTyped /\ MutesAreTold /\ UnpublishedUnknown /\ AwayHearsNothing
      /\ KindsAreTold /\ MutesAreKnown /\ LocksAreTold
  BY DEF RosterIInv
<1>1. /\ UNCHANGED <<producer, locked, attending, news, lockAsks, announced, asked, readying, tracks, row,
                      shownLock, slipped, lockSlipped>>
      /\ muting # <<>> /\ muting' = Tail(muting)
      /\ work' = IF producer[Head(muting)] = "live" 
             THEN Append(work, [by |-> "host", kind |-> Head(muting), paused |-> TRUE])
             ELSE work
  BY DEF MuteStep, rosterServer, rosterClient, rosterHistory
<1>2. news' \in Seq(Events) /\ Granted' = Granted
  BY <1>0, <1>1, NewsStand
<1> DEFINE k0 == Head(muting)
           w == [by |-> "host", kind |-> k0, paused |-> TRUE]
<1>a. /\ k0 \in Kinds /\ muting' \in Seq(Kinds \cup {"tell"}) /\ muting' # <<>>
      /\ \A i \in DOMAIN muting' : muting'[i] = "tell" <=> i = Len(muting')
  <2>1. muting \in Seq(Kinds \cup {"tell"}) /\ Shrinks(muting', muting)
    BY <1>0, <1>1 DEF RosterTyped, Shrinks
  <2>2. /\ Len(muting) \in Nat \ {0} /\ DOMAIN muting = 1 .. Len(muting) /\ Head(muting) = muting[1]
        /\ Len(muting') = Len(muting) - 1 /\ muting' \in Seq(Kinds \cup {"tell"})
        /\ DOMAIN muting' = 1 .. Len(muting) - 1 /\ \A i \in DOMAIN muting' : muting'[i] = muting[i + 1]
        /\ Head(muting) \in Kinds \cup {"tell"}
    BY <2>1, WhatShrinks
  <2>3. \A i \in DOMAIN muting : muting[i] = "tell" <=> i = Len(muting)
    BY <1>0 DEF MutesAreTold
  <2>4. Len(muting) > 1
    BY <2>2, <2>3
  <2>5. \A i \in DOMAIN muting' : i + 1 \in DOMAIN muting /\ (i = Len(muting') <=> i + 1 = Len(muting))
    BY <2>2
  <2> QED BY <2>2, <2>3, <2>4, <2>5
<1> HIDE DEF k0
<1>b. w \in Orders /\ w.by = "host" /\ w.kind = k0 /\ w.paused = TRUE
  BY <1>a DEF Orders
<1> HIDE DEF w
<1>c. /\ work' \in Seq(Orders)
      /\ Among(work') = Among(work) \/ (Among(work') = Among(work) \cup {w} /\ producer[k0] = "live")
  <2>0. work \in Seq(Orders)
    BY <1>0 DEF RosterTyped
  <2>1. CASE producer[k0] = "live"
    <3>1. Grows(work', work, w)
      BY <2>1, <1>1 DEF Grows, w, k0
    <3> QED BY <3>1, <2>0, <2>1, <1>b, WhatGrows
  <2>2. CASE producer[k0] # "live"
    BY <2>0, <2>2, <1>1 DEF k0
  <2> QED BY <2>1, <2>2
<1>3. RosterTyped'
  BY <1>0, <1>1, <1>2, <1>a, <1>b, <1>c DEF RosterTyped
<1>4. Pending' = asked' \cup readying' \cup Granted' /\ Pending = asked \cup readying \cup Granted
  BY <1>0, <1>3, PendingIs, PendingWillBe
<1>5. MutesAreTold'
  BY <1>0, <1>1, <1>2, <1>a, <1>b, <1>c, <1>4 DEF MutesAreTold
<1>6. UnpublishedUnknown'
  BY <1>0, <1>1, <1>2, <1>a, <1>b, <1>c, <1>4 DEF UnpublishedUnknown, RosterTyped
<1>7. AwayHearsNothing'
  BY <1>0, <1>1, <1>2, <1>a, <1>b, <1>c, <1>4 DEF AwayHearsNothing
<1>8. KindsAreTold'
  <2> SUFFICES ASSUME attending', NEW k \in Kinds
               PROVE  /\ \A x \in Events : Word(news', x, KindEvents(k)) => Says(x, k)'
                      /\ Silent(news', KindEvents(k)) => k \in slipped' \/ Owed(k)' \/ (Live(k)' <=> Shows(k)')
    BY DEF KindsAreTold
  <2>1. ASSUME NEW x \in Events, Word(news', x, KindEvents(k)) PROVE Says(x, k)'
    BY <2>1, <1>0, <1>1, <1>2, <1>a, <1>b, <1>c, <1>4, EventsKnown DEF KindsAreTold, Says, Owed,
       Live, RosterTyped, UnpublishedUnknown, MutesAreTold
  <2>2. ASSUME Silent(news', KindEvents(k))
               PROVE k \in slipped' \/ Owed(k)' \/ (Live(k)' <=> Shows(k)')
    BY <2>2, <1>0, <1>1, <1>2, <1>a, <1>b, <1>c, <1>4, EventsKnown DEF KindsAreTold, Says, Owed,
       Live, Shows, RosterTyped, UnpublishedUnknown, MutesAreTold
  <2> QED BY <2>1, <2>2
<1>9. MutesAreKnown'
  <2> SUFFICES ASSUME attending'
               PROVE  /\ \A x \in Events : Word(news', x, HostEvents) => SaysMuted(x)'
                      /\ Silent(news', HostEvents) => "byHost" \in slipped' \/ ~row'["byHost"] \/ ~Live("audio")'
    BY DEF MutesAreKnown
  <2>1. ASSUME NEW x \in Events, Word(news', x, HostEvents) PROVE SaysMuted(x)'
    BY <2>1, <1>0, <1>1, <1>2, <1>a, <1>b, <1>c, <1>4, EventsKnown DEF MutesAreKnown, SaysMuted,
       Live, RosterTyped, UnpublishedUnknown, MutesAreTold, Kinds
  <2>2. ASSUME Silent(news', HostEvents)
        PROVE  "byHost" \in slipped' \/ ~row'["byHost"] \/ ~Live("audio")'
    BY <2>2, <1>0, <1>1, <1>2, <1>a, <1>b, <1>c, <1>4, EventsKnown DEF MutesAreKnown, SaysMuted,
       Live, RosterTyped, UnpublishedUnknown, MutesAreTold, Kinds
  <2> QED BY <2>1, <2>2
<1>10. LocksAreTold'
  BY <1>0, <1>1, <1>2, <1>a, <1>b, <1>c, <1>4, EventsKnown DEF LocksAreTold, RosterTyped
<1> QED BY <1>3, <1>5, <1>6, <1>7, <1>8, <1>9, <1>10 DEF RosterIInv

LEMMA SetLockTells ==
    ASSUME RosterTyped, NEW v \in BOOLEAN, SetLock(v)
    PROVE  /\ locked' = v /\ lockSlipped' \in BOOLEAN
           /\ v = locked => UNCHANGED <<news, lockSlipped>>
           /\ v # locked => Told(LockedEvent(v)) /\ lockSlipped' = (lockSlipped \/ ~attending)
BY DEF SetLock, RosterTyped, LockedEvent

LEMMA AnotherHostLocksStep == ASSUME RosterIInv, NEW v \in BOOLEAN, AnotherHostLocks(v)
                                     PROVE RosterIInv'
<1>0. /\ RosterTyped /\ MutesAreTold /\ UnpublishedUnknown /\ AwayHearsNothing
      /\ KindsAreTold /\ MutesAreKnown /\ LocksAreTold
  BY DEF RosterIInv
<1>1. /\ UNCHANGED <<producer, work, muting, attending, lockAsks, announced, asked, readying, tracks, row,
                      shownLock, slipped>>
      /\ SetLock(v)
  BY DEF AnotherHostLocks, Moves, rosterServer, rosterClient, rosterHistory
<1> DEFINE e == LockedEvent(v)
<1>a. e \in Events /\ e.ev = "locked" /\ e.locked = v /\ v \in BOOLEAN
  BY <1>0, EventsMade
<1> HIDE DEF e
<1>b. /\ locked' = v /\ lockSlipped' \in BOOLEAN
      /\ v = locked => UNCHANGED <<news, lockSlipped>>
      /\ v # locked => Told(e) /\ lockSlipped' = (lockSlipped \/ ~attending)
  BY <1>0, <1>1, <1>a, SetLockTells DEF e
<1>2. /\ news' \in Seq(Events) /\ Granted' = Granted
      /\ attending /\ v # locked =>
            /\ Among(news') = Among(news) \cup {e}
            /\ \A x, T : Word(news', x, T) => IF e \in T THEN x = e ELSE Word(news, x, T)
            /\ \A T : Silent(news', T) => e \notin T /\ Silent(news, T)
      /\ ~(attending /\ v # locked) => news' = news
  <2>1. CASE v # locked
    BY <2>1, <1>0, <1>a, <1>b, TellsNews, GrantedTold
  <2>2. CASE v = locked
    BY <2>2, <1>0, <1>b, NewsStand
  <2> QED BY <2>1, <2>2
<1>3. RosterTyped'
  BY <1>0, <1>1, <1>2, <1>a, <1>b DEF RosterTyped
<1>4. Pending' = asked' \cup readying' \cup Granted' /\ Pending = asked \cup readying \cup Granted
  BY <1>0, <1>3, PendingIs, PendingWillBe
<1>5. MutesAreTold'
  BY <1>0, <1>1, <1>2, <1>a, <1>b, <1>4 DEF MutesAreTold
<1>6. UnpublishedUnknown'
  BY <1>0, <1>1, <1>2, <1>a, <1>b, <1>4 DEF UnpublishedUnknown, RosterTyped
<1>7. AwayHearsNothing'
  BY <1>0, <1>1, <1>2, <1>a, <1>b, <1>4 DEF AwayHearsNothing
<1>8. KindsAreTold'
  <2> SUFFICES ASSUME attending', NEW k \in Kinds
               PROVE  /\ \A x \in Events : Word(news', x, KindEvents(k)) => Says(x, k)'
                      /\ Silent(news', KindEvents(k)) => k \in slipped' \/ Owed(k)' \/ (Live(k)' <=> Shows(k)')
    BY DEF KindsAreTold
  <2>1. ASSUME NEW x \in Events, Word(news', x, KindEvents(k)) PROVE Says(x, k)'
    <3>1. e \notin KindEvents(k)
      BY <1>a, EventsKnown
    <3>2. Word(news, x, KindEvents(k))
      BY <3>1, <2>1, <1>2
    <3>3. Says(x, k)
      BY <3>2, <1>0, <1>1 DEF KindsAreTold
    <3>4. Live(k)' = Live(k) /\ Owed(k)' = Owed(k)
      BY <1>1 DEF Live, Owed
    <3> QED BY <3>3, <3>4 DEF Says
  <2>2. ASSUME Silent(news', KindEvents(k))
               PROVE k \in slipped' \/ Owed(k)' \/ (Live(k)' <=> Shows(k)')
    BY <2>2, <1>0, <1>1, <1>2, <1>a, <1>b, <1>4, EventsKnown DEF KindsAreTold, Says, Owed, Live,
       Shows, RosterTyped, UnpublishedUnknown, MutesAreTold
  <2> QED BY <2>1, <2>2
<1>9. MutesAreKnown'
  <2> SUFFICES ASSUME attending'
               PROVE  /\ \A x \in Events : Word(news', x, HostEvents) => SaysMuted(x)'
                      /\ Silent(news', HostEvents) => "byHost" \in slipped' \/ ~row'["byHost"] \/ ~Live("audio")'
    BY DEF MutesAreKnown
  <2>1. ASSUME NEW x \in Events, Word(news', x, HostEvents) PROVE SaysMuted(x)'
    BY <2>1, <1>0, <1>1, <1>2, <1>a, <1>b, <1>4, EventsKnown DEF MutesAreKnown, SaysMuted, Live,
       RosterTyped, UnpublishedUnknown, MutesAreTold, Kinds
  <2>2. ASSUME Silent(news', HostEvents)
        PROVE  "byHost" \in slipped' \/ ~row'["byHost"] \/ ~Live("audio")'
    BY <2>2, <1>0, <1>1, <1>2, <1>a, <1>b, <1>4, EventsKnown DEF MutesAreKnown, SaysMuted, Live,
       RosterTyped, UnpublishedUnknown, MutesAreTold, Kinds
  <2> QED BY <2>1, <2>2
<1>10. LocksAreTold'
  <2>1. CASE v = locked
    BY <2>1, <1>0, <1>b, <1>1 DEF LocksAreTold
  <2>2. CASE v # locked /\ ~attending
    <3>1. news' = <<>>
      BY <2>2, <1>0, <1>2 DEF AwayHearsNothing
    <3> QED BY <3>1, <2>2, <1>b, NothingAmong DEF LocksAreTold
  <2>3. CASE v # locked /\ attending
    <3>1. e \in LockedEvents
      BY <1>a, EventsKnown
    <3>2. ~Silent(news', LockedEvents) /\ \A x : Word(news', x, LockedEvents) => x = e
      BY <3>1, <2>3, <1>2
    <3> QED BY <3>2, <1>a, <1>b DEF LocksAreTold
  <2> QED BY <2>1, <2>2, <2>3
<1> QED BY <1>3, <1>5, <1>6, <1>7, <1>8, <1>9, <1>10 DEF RosterIInv

LEMMA LockServedStep == ASSUME RosterIInv, LockServed PROVE RosterIInv'
<1>0. /\ RosterTyped /\ MutesAreTold /\ UnpublishedUnknown /\ AwayHearsNothing
      /\ KindsAreTold /\ MutesAreKnown /\ LocksAreTold
  BY DEF RosterIInv
<1>1. /\ UNCHANGED <<producer, work, muting, attending, announced, asked, readying, tracks, row,
                      shownLock, slipped>>
      /\ lockAsks # <<>> /\ lockAsks' = Tail(lockAsks)
      /\ SetLock(Head(lockAsks))
  BY DEF LockServed, rosterServer, rosterClient, rosterHistory
<1> DEFINE v == Head(lockAsks)
<1>c. lockAsks' \in Seq(BOOLEAN) /\ v \in BOOLEAN
  <2>1. lockAsks \in Seq(BOOLEAN) /\ Shrinks(lockAsks', lockAsks)
    BY <1>0, <1>1 DEF RosterTyped, Shrinks
  <2> QED BY <2>1, WhatShrinks
<1>d. SetLock(v)
  BY <1>1
<1> HIDE DEF v
<1> DEFINE e == LockedEvent(v)
<1>a. e \in Events /\ e.ev = "locked" /\ e.locked = v /\ v \in BOOLEAN
  BY <1>0, <1>c, <1>d, EventsMade
<1> HIDE DEF e
<1>b. /\ locked' = v /\ lockSlipped' \in BOOLEAN
      /\ v = locked => UNCHANGED <<news, lockSlipped>>
      /\ v # locked => Told(e) /\ lockSlipped' = (lockSlipped \/ ~attending)
  BY <1>0, <1>d, <1>a, SetLockTells DEF e
<1>2. /\ news' \in Seq(Events) /\ Granted' = Granted
      /\ attending /\ v # locked =>
            /\ Among(news') = Among(news) \cup {e}
            /\ \A x, T : Word(news', x, T) => IF e \in T THEN x = e ELSE Word(news, x, T)
            /\ \A T : Silent(news', T) => e \notin T /\ Silent(news, T)
      /\ ~(attending /\ v # locked) => news' = news
  <2>1. CASE v # locked
    BY <2>1, <1>0, <1>a, <1>b, TellsNews, GrantedTold
  <2>2. CASE v = locked
    BY <2>2, <1>0, <1>b, NewsStand
  <2> QED BY <2>1, <2>2
<1>3. RosterTyped'
  BY <1>0, <1>1, <1>c, <1>d, <1>2, <1>a, <1>b DEF RosterTyped
<1>4. Pending' = asked' \cup readying' \cup Granted' /\ Pending = asked \cup readying \cup Granted
  BY <1>0, <1>3, PendingIs, PendingWillBe
<1>5. MutesAreTold'
  BY <1>0, <1>1, <1>c, <1>d, <1>2, <1>a, <1>b, <1>4 DEF MutesAreTold
<1>6. UnpublishedUnknown'
  BY <1>0, <1>1, <1>c, <1>d, <1>2, <1>a, <1>b, <1>4 DEF UnpublishedUnknown, RosterTyped
<1>7. AwayHearsNothing'
  BY <1>0, <1>1, <1>c, <1>d, <1>2, <1>a, <1>b, <1>4 DEF AwayHearsNothing
<1>8. KindsAreTold'
  <2> SUFFICES ASSUME attending', NEW k \in Kinds
               PROVE  /\ \A x \in Events : Word(news', x, KindEvents(k)) => Says(x, k)'
                      /\ Silent(news', KindEvents(k)) => k \in slipped' \/ Owed(k)' \/ (Live(k)' <=> Shows(k)')
    BY DEF KindsAreTold
  <2>1. ASSUME NEW x \in Events, Word(news', x, KindEvents(k)) PROVE Says(x, k)'
    <3>1. e \notin KindEvents(k)
      BY <1>a, EventsKnown
    <3>2. Word(news, x, KindEvents(k))
      BY <3>1, <2>1, <1>2
    <3>3. Says(x, k)
      BY <3>2, <1>0, <1>1 DEF KindsAreTold
    <3>4. Live(k)' = Live(k) /\ Owed(k)' = Owed(k)
      BY <1>1 DEF Live, Owed
    <3> QED BY <3>3, <3>4 DEF Says
  <2>2. ASSUME Silent(news', KindEvents(k))
               PROVE k \in slipped' \/ Owed(k)' \/ (Live(k)' <=> Shows(k)')
    BY <2>2, <1>0, <1>1, <1>c, <1>d, <1>2, <1>a, <1>b, <1>4, EventsKnown DEF KindsAreTold, Says,
       Owed, Live, Shows, RosterTyped, UnpublishedUnknown, MutesAreTold
  <2> QED BY <2>1, <2>2
<1>9. MutesAreKnown'
  <2> SUFFICES ASSUME attending'
               PROVE  /\ \A x \in Events : Word(news', x, HostEvents) => SaysMuted(x)'
                      /\ Silent(news', HostEvents) => "byHost" \in slipped' \/ ~row'["byHost"] \/ ~Live("audio")'
    BY DEF MutesAreKnown
  <2>1. ASSUME NEW x \in Events, Word(news', x, HostEvents) PROVE SaysMuted(x)'
    BY <2>1, <1>0, <1>1, <1>c, <1>d, <1>2, <1>a, <1>b, <1>4, EventsKnown DEF MutesAreKnown,
       SaysMuted, Live, RosterTyped, UnpublishedUnknown, MutesAreTold, Kinds
  <2>2. ASSUME Silent(news', HostEvents)
        PROVE  "byHost" \in slipped' \/ ~row'["byHost"] \/ ~Live("audio")'
    BY <2>2, <1>0, <1>1, <1>c, <1>d, <1>2, <1>a, <1>b, <1>4, EventsKnown DEF MutesAreKnown,
       SaysMuted, Live, RosterTyped, UnpublishedUnknown, MutesAreTold, Kinds
  <2> QED BY <2>1, <2>2
<1>10. LocksAreTold'
  <2>1. CASE v = locked
    BY <2>1, <1>0, <1>b, <1>1 DEF LocksAreTold
  <2>2. CASE v # locked /\ ~attending
    <3>1. news' = <<>>
      BY <2>2, <1>0, <1>2 DEF AwayHearsNothing
    <3> QED BY <3>1, <2>2, <1>b, NothingAmong DEF LocksAreTold
  <2>3. CASE v # locked /\ attending
    <3>1. e \in LockedEvents
      BY <1>a, EventsKnown
    <3>2. ~Silent(news', LockedEvents) /\ \A x : Word(news', x, LockedEvents) => x = e
      BY <3>1, <2>3, <1>2
    <3> QED BY <3>2, <1>a, <1>b DEF LocksAreTold
  <2> QED BY <2>1, <2>2, <2>3
<1> QED BY <1>3, <1>5, <1>6, <1>7, <1>8, <1>9, <1>10 DEF RosterIInv

LEMMA BeginMuteStep == ASSUME RosterIInv, BeginMute PROVE RosterIInv'
<1>0. /\ RosterTyped /\ MutesAreTold /\ UnpublishedUnknown /\ AwayHearsNothing
      /\ KindsAreTold /\ MutesAreKnown /\ LocksAreTold
  BY DEF RosterIInv
<1>1. /\ UNCHANGED <<producer, work, locked, attending, news, lockAsks, announced, asked, readying,
                      tracks, row, shownLock, slipped, lockSlipped>>
      /\ muting = <<>> /\ muting' = SetToSeq(Published) \o <<"tell">>
  BY DEF BeginMute, Moves, rosterServer, rosterClient, rosterHistory
<1>2. news' \in Seq(Events) /\ Granted' = Granted
  BY <1>0, <1>1, NewsStand
<1>a. /\ muting' \in Seq(Kinds \cup {"tell"}) /\ muting' # <<>>
      /\ \A i \in DOMAIN muting' : muting'[i] = "tell" <=> i = Len(muting')
  <2> DEFINE s == SetToSeq(Published)
  <2>1. s \in Seq(Kinds)
    BY SomeOrder DEF Published
  <2> HIDE DEF s
  <2>2. Grows(muting', s, "tell") /\ s \in Seq(Kinds \cup {"tell"})
    BY <2>1, <1>1 DEF Grows, s
  <2>3. /\ Len(s) \in Nat /\ DOMAIN s = 1 .. Len(s) /\ DOMAIN muting' = 1 .. Len(s) + 1
        /\ (\A i \in DOMAIN s : muting'[i] = s[i]) /\ muting'[Len(s) + 1] = "tell"
        /\ muting' \in Seq(Kinds \cup {"tell"}) /\ muting' # <<>>
    BY <2>2, WhatGrows
  <2>4. Len(muting') = Len(s) + 1
    BY <2>3
  <2>5. \A i \in DOMAIN s : s[i] # "tell"
    BY <2>1 DEF Kinds
  <2> QED BY <2>3, <2>4, <2>5
<1>3. RosterTyped'
  BY <1>0, <1>1, <1>2, <1>a DEF RosterTyped
<1>4. Pending' = asked' \cup readying' \cup Granted' /\ Pending = asked \cup readying \cup Granted
  BY <1>0, <1>3, PendingIs, PendingWillBe
<1>5. MutesAreTold'
  BY <1>0, <1>1, <1>2, <1>a, <1>4 DEF MutesAreTold
<1>6. UnpublishedUnknown'
  BY <1>0, <1>1, <1>2, <1>a, <1>4 DEF UnpublishedUnknown, RosterTyped
<1>7. AwayHearsNothing'
  BY <1>0, <1>1, <1>2, <1>a, <1>4 DEF AwayHearsNothing
<1>8. KindsAreTold'
  <2> SUFFICES ASSUME attending', NEW k \in Kinds
               PROVE  /\ \A x \in Events : Word(news', x, KindEvents(k)) => Says(x, k)'
                      /\ Silent(news', KindEvents(k)) => k \in slipped' \/ Owed(k)' \/ (Live(k)' <=> Shows(k)')
    BY DEF KindsAreTold
  <2>1. ASSUME NEW x \in Events, Word(news', x, KindEvents(k)) PROVE Says(x, k)'
    BY <2>1, <1>0, <1>1, <1>2, <1>a, <1>4, EventsKnown DEF KindsAreTold, Says, Owed, Live,
       RosterTyped, UnpublishedUnknown, MutesAreTold
  <2>2. ASSUME Silent(news', KindEvents(k))
               PROVE k \in slipped' \/ Owed(k)' \/ (Live(k)' <=> Shows(k)')
    BY <2>2, <1>0, <1>1, <1>2, <1>a, <1>4, EventsKnown DEF KindsAreTold, Says, Owed, Live,
       Shows, RosterTyped, UnpublishedUnknown, MutesAreTold
  <2> QED BY <2>1, <2>2
<1>9. MutesAreKnown'
  <2> SUFFICES ASSUME attending'
               PROVE  /\ \A x \in Events : Word(news', x, HostEvents) => SaysMuted(x)'
                      /\ Silent(news', HostEvents) => "byHost" \in slipped' \/ ~row'["byHost"] \/ ~Live("audio")'
    BY DEF MutesAreKnown
  <2>1. ASSUME NEW x \in Events, Word(news', x, HostEvents) PROVE SaysMuted(x)'
    BY <2>1, <1>0, <1>1, <1>2, <1>a, <1>4, EventsKnown DEF MutesAreKnown, SaysMuted, Live,
       RosterTyped, UnpublishedUnknown, MutesAreTold, Kinds
  <2>2. ASSUME Silent(news', HostEvents)
        PROVE  "byHost" \in slipped' \/ ~row'["byHost"] \/ ~Live("audio")'
    BY <2>2, <1>0, <1>1, <1>2, <1>a, <1>4, EventsKnown DEF MutesAreKnown, SaysMuted, Live,
       RosterTyped, UnpublishedUnknown, MutesAreTold, Kinds
  <2> QED BY <2>1, <2>2
<1>10. LocksAreTold'
  BY <1>0, <1>1, <1>2, <1>a, <1>4, EventsKnown DEF LocksAreTold, RosterTyped
<1> QED BY <1>3, <1>5, <1>6, <1>7, <1>8, <1>9, <1>10 DEF RosterIInv

LEMMA ToggleLockStep == ASSUME RosterIInv, ToggleLock PROVE RosterIInv'
<1>0. /\ RosterTyped /\ MutesAreTold /\ UnpublishedUnknown /\ AwayHearsNothing
      /\ KindsAreTold /\ MutesAreKnown /\ LocksAreTold
  BY DEF RosterIInv
<1>1. /\ UNCHANGED <<producer, work, muting, locked, attending, news, announced, asked, readying, tracks,
                      row, shownLock, slipped, lockSlipped>>
      /\ lockAsks' = Append(lockAsks, ~shownLock)
  BY DEF ToggleLock, Moves, rosterServer, rosterClient, rosterHistory
<1>2. news' \in Seq(Events) /\ Granted' = Granted
  BY <1>0, <1>1, NewsStand
<1>a. lockAsks' \in Seq(BOOLEAN)
  BY <1>0, <1>1 DEF RosterTyped
<1>3. RosterTyped'
  BY <1>0, <1>1, <1>2, <1>a DEF RosterTyped
<1>4. Pending' = asked' \cup readying' \cup Granted' /\ Pending = asked \cup readying \cup Granted
  BY <1>0, <1>3, PendingIs, PendingWillBe
<1>5. MutesAreTold'
  BY <1>0, <1>1, <1>2, <1>a, <1>4 DEF MutesAreTold
<1>6. UnpublishedUnknown'
  BY <1>0, <1>1, <1>2, <1>a, <1>4 DEF UnpublishedUnknown, RosterTyped
<1>7. AwayHearsNothing'
  BY <1>0, <1>1, <1>2, <1>a, <1>4 DEF AwayHearsNothing
<1>8. KindsAreTold'
  <2> SUFFICES ASSUME attending', NEW k \in Kinds
               PROVE  /\ \A x \in Events : Word(news', x, KindEvents(k)) => Says(x, k)'
                      /\ Silent(news', KindEvents(k)) => k \in slipped' \/ Owed(k)' \/ (Live(k)' <=> Shows(k)')
    BY DEF KindsAreTold
  <2>1. ASSUME NEW x \in Events, Word(news', x, KindEvents(k)) PROVE Says(x, k)'
    BY <2>1, <1>0, <1>1, <1>2, <1>a, <1>4, EventsKnown DEF KindsAreTold, Says, Owed, Live,
       RosterTyped, UnpublishedUnknown, MutesAreTold
  <2>2. ASSUME Silent(news', KindEvents(k))
               PROVE k \in slipped' \/ Owed(k)' \/ (Live(k)' <=> Shows(k)')
    BY <2>2, <1>0, <1>1, <1>2, <1>a, <1>4, EventsKnown DEF KindsAreTold, Says, Owed, Live,
       Shows, RosterTyped, UnpublishedUnknown, MutesAreTold
  <2> QED BY <2>1, <2>2
<1>9. MutesAreKnown'
  <2> SUFFICES ASSUME attending'
               PROVE  /\ \A x \in Events : Word(news', x, HostEvents) => SaysMuted(x)'
                      /\ Silent(news', HostEvents) => "byHost" \in slipped' \/ ~row'["byHost"] \/ ~Live("audio")'
    BY DEF MutesAreKnown
  <2>1. ASSUME NEW x \in Events, Word(news', x, HostEvents) PROVE SaysMuted(x)'
    BY <2>1, <1>0, <1>1, <1>2, <1>a, <1>4, EventsKnown DEF MutesAreKnown, SaysMuted, Live,
       RosterTyped, UnpublishedUnknown, MutesAreTold, Kinds
  <2>2. ASSUME Silent(news', HostEvents)
        PROVE  "byHost" \in slipped' \/ ~row'["byHost"] \/ ~Live("audio")'
    BY <2>2, <1>0, <1>1, <1>2, <1>a, <1>4, EventsKnown DEF MutesAreKnown, SaysMuted, Live,
       RosterTyped, UnpublishedUnknown, MutesAreTold, Kinds
  <2> QED BY <2>1, <2>2
<1>10. LocksAreTold'
  BY <1>0, <1>1, <1>2, <1>a, <1>4, EventsKnown DEF LocksAreTold, RosterTyped
<1> QED BY <1>3, <1>5, <1>6, <1>7, <1>8, <1>9, <1>10 DEF RosterIInv

LEMMA AnnouncedStep == ASSUME RosterIInv, OnProducerAnnounced PROVE RosterIInv'
<1>0. /\ RosterTyped /\ MutesAreTold /\ UnpublishedUnknown /\ AwayHearsNothing
      /\ KindsAreTold /\ MutesAreKnown /\ LocksAreTold
  BY DEF RosterIInv
<1>1. /\ UNCHANGED <<producer, work, muting, locked, attending, lockAsks, readying, tracks, row,
                      shownLock, lockSlipped>>
      /\ OnEvent("new")
      /\ announced' = [announced EXCEPT ![Head(news).kind] = IF Head(news).paused THEN "paused" ELSE "live"]
      /\ asked' = asked \cup {Head(news).kind}
      /\ slipped' = (slipped \ {Head(news).kind}) \cup IF Head(news).kind = "audio" /\ ~Head(news).paused THEN {"byHost"} ELSE {}
  BY DEF OnProducerAnnounced, rosterServer, rosterClient, rosterHistory
<1> DEFINE e == Head(news)
<1>2. /\ e \in Events /\ e.ev = "new" /\ news # <<>>
      /\ news' \in Seq(Events) /\ Among(news) = Among(news') \cup {e} /\ Granted' = Granted
      /\ \A x, T : Word(news', x, T) => Word(news, x, T)
      /\ \A T : Silent(news', T) => IF e \in T THEN Word(news, e, T) ELSE Silent(news, T)
  BY <1>0, <1>1, ReadsNews, GrantedRead
<1> HIDE DEF e
<1> DEFINE k0 == e.kind
<1>a. /\ k0 \in Kinds /\ e.paused \in BOOLEAN
      /\ announced' = [announced EXCEPT ![k0] = IF e.paused THEN "paused" ELSE "live"]
      /\ asked' = asked \cup {k0}
      /\ slipped' = (slipped \ {k0}) \cup IF k0 = "audio" /\ ~e.paused THEN {"byHost"} ELSE {}
  BY <1>1, <1>2, EventsKnown DEF e
<1> HIDE DEF k0
<1>b. k0 = e.kind /\ e \in Among(news)
  BY <1>2 DEF k0
<1>c. attending
  BY <1>0, <1>2 DEF AwayHearsNothing
<1>3. RosterTyped'
  BY <1>0, <1>1, <1>2, <1>a, <1>b, <1>c DEF RosterTyped, Fields
<1>4. Pending' = asked' \cup readying' \cup Granted' /\ Pending = asked \cup readying \cup Granted
  BY <1>0, <1>3, PendingIs, PendingWillBe
<1>5. MutesAreTold'
  BY <1>0, <1>1, <1>2, <1>a, <1>b, <1>c, <1>4 DEF MutesAreTold
<1>6. UnpublishedUnknown'
  BY <1>0, <1>1, <1>2, <1>a, <1>b, <1>c, <1>4 DEF UnpublishedUnknown, RosterTyped
<1>7. AwayHearsNothing'
  BY <1>0, <1>1, <1>2, <1>a, <1>b, <1>c, <1>4 DEF AwayHearsNothing
<1>8. KindsAreTold'
  <2> SUFFICES ASSUME attending', NEW k \in Kinds
               PROVE  /\ \A x \in Events : Word(news', x, KindEvents(k)) => Says(x, k)'
                      /\ Silent(news', KindEvents(k)) => k \in slipped' \/ Owed(k)' \/ (Live(k)' <=> Shows(k)')
    BY DEF KindsAreTold
  <2>1. ASSUME NEW x \in Events, Word(news', x, KindEvents(k)) PROVE Says(x, k)'
    BY <2>1, <1>0, <1>1, <1>2, <1>a, <1>b, <1>c, <1>4, EventsKnown DEF KindsAreTold, Says, Owed,
       Live, RosterTyped, UnpublishedUnknown, MutesAreTold
  <2>2. ASSUME Silent(news', KindEvents(k))
               PROVE k \in slipped' \/ Owed(k)' \/ (Live(k)' <=> Shows(k)')
    BY <2>2, <1>0, <1>1, <1>2, <1>a, <1>b, <1>c, <1>4, EventsKnown DEF KindsAreTold, Says, Owed,
       Live, Shows, RosterTyped, UnpublishedUnknown, MutesAreTold
  <2> QED BY <2>1, <2>2
<1>9. MutesAreKnown'
  <2> SUFFICES ASSUME attending'
               PROVE  /\ \A x \in Events : Word(news', x, HostEvents) => SaysMuted(x)'
                      /\ Silent(news', HostEvents) => "byHost" \in slipped' \/ ~row'["byHost"] \/ ~Live("audio")'
    BY DEF MutesAreKnown
  <2>1. ASSUME NEW x \in Events, Word(news', x, HostEvents) PROVE SaysMuted(x)'
    BY <2>1, <1>0, <1>1, <1>2, <1>a, <1>b, <1>c, <1>4, EventsKnown DEF MutesAreKnown, SaysMuted,
       Live, RosterTyped, UnpublishedUnknown, MutesAreTold, Kinds
  <2>2. ASSUME Silent(news', HostEvents)
        PROVE  "byHost" \in slipped' \/ ~row'["byHost"] \/ ~Live("audio")'
    BY <2>2, <1>0, <1>1, <1>2, <1>a, <1>b, <1>c, <1>4, EventsKnown DEF MutesAreKnown, SaysMuted,
       Live, RosterTyped, UnpublishedUnknown, MutesAreTold, Kinds
  <2> QED BY <2>1, <2>2
<1>10. LocksAreTold'
  BY <1>0, <1>1, <1>2, <1>a, <1>b, <1>c, <1>4, EventsKnown DEF LocksAreTold, RosterTyped
<1> QED BY <1>3, <1>5, <1>6, <1>7, <1>8, <1>9, <1>10 DEF RosterIInv

LEMMA GrantedStep == ASSUME RosterIInv, NEW k0 \in Kinds, ConsumerGranted(k0) PROVE RosterIInv'
<1>0. /\ RosterTyped /\ MutesAreTold /\ UnpublishedUnknown /\ AwayHearsNothing
      /\ KindsAreTold /\ MutesAreKnown /\ LocksAreTold
  BY DEF RosterIInv
<1>1. /\ UNCHANGED <<producer, work, muting, locked, attending, lockAsks, announced, readying, tracks,
                      row, shownLock, slipped, lockSlipped>>
      /\ k0 \in asked /\ asked' = asked \ {k0}
      /\ Told(CreatedEvent(k0))
  BY DEF ConsumerGranted, CreatedEvent, rosterServer, rosterClient, rosterHistory
<1>c. attending
  BY <1>0, <1>1 DEF AwayHearsNothing, Pending
<1> DEFINE e == CreatedEvent(k0)
<1>a. e \in Events /\ e.ev = "created" /\ e.kind = k0
  BY EventsMade
<1>b. Told(e)
  BY <1>1
<1>d. \A k \in Kinds : CreatedEvent(k) = e <=> k = k0
  BY EventsMade DEF e
<1> HIDE DEF e
<1>2. /\ news' \in Seq(Events)
      /\ Among(news') = Among(news) \cup {e}
      /\ \A x, T : Word(news', x, T) => IF e \in T THEN x = e ELSE Word(news, x, T)
      /\ \A T : Silent(news', T) => e \notin T /\ Silent(news, T)
  BY <1>0, <1>a, <1>b, <1>c, TellsNews
<1>e. Granted' = Granted \cup {k0}
  BY <1>2, <1>d DEF Granted
<1>3. RosterTyped'
  BY <1>0, <1>1, <1>2, <1>a, <1>c, <1>e DEF RosterTyped
<1>4. Pending' = asked' \cup readying' \cup Granted' /\ Pending = asked \cup readying \cup Granted
  BY <1>0, <1>3, PendingIs, PendingWillBe
<1>5. MutesAreTold'
  BY <1>0, <1>1, <1>2, <1>a, <1>c, <1>e, <1>4 DEF MutesAreTold
<1>6. UnpublishedUnknown'
  BY <1>0, <1>1, <1>2, <1>a, <1>c, <1>e, <1>4 DEF UnpublishedUnknown, RosterTyped
<1>7. AwayHearsNothing'
  BY <1>0, <1>1, <1>2, <1>a, <1>c, <1>e, <1>4 DEF AwayHearsNothing
<1>8. KindsAreTold'
  <2> SUFFICES ASSUME attending', NEW k \in Kinds
               PROVE  /\ \A x \in Events : Word(news', x, KindEvents(k)) => Says(x, k)'
                      /\ Silent(news', KindEvents(k)) => k \in slipped' \/ Owed(k)' \/ (Live(k)' <=> Shows(k)')
    BY DEF KindsAreTold
  <2>1. ASSUME NEW x \in Events, Word(news', x, KindEvents(k)) PROVE Says(x, k)'
    BY <2>1, <1>0, <1>1, <1>2, <1>a, <1>c, <1>e, <1>4, EventsKnown DEF KindsAreTold, Says, Owed,
       Live, RosterTyped, UnpublishedUnknown, MutesAreTold
  <2>2. ASSUME Silent(news', KindEvents(k))
               PROVE k \in slipped' \/ Owed(k)' \/ (Live(k)' <=> Shows(k)')
    BY <2>2, <1>0, <1>1, <1>2, <1>a, <1>c, <1>e, <1>4, EventsKnown DEF KindsAreTold, Says, Owed,
       Live, Shows, RosterTyped, UnpublishedUnknown, MutesAreTold
  <2> QED BY <2>1, <2>2
<1>9. MutesAreKnown'
  <2> SUFFICES ASSUME attending'
               PROVE  /\ \A x \in Events : Word(news', x, HostEvents) => SaysMuted(x)'
                      /\ Silent(news', HostEvents) => "byHost" \in slipped' \/ ~row'["byHost"] \/ ~Live("audio")'
    BY DEF MutesAreKnown
  <2>1. ASSUME NEW x \in Events, Word(news', x, HostEvents) PROVE SaysMuted(x)'
    BY <2>1, <1>0, <1>1, <1>2, <1>a, <1>c, <1>e, <1>4, EventsKnown DEF MutesAreKnown, SaysMuted,
       Live, RosterTyped, UnpublishedUnknown, MutesAreTold, Kinds
  <2>2. ASSUME Silent(news', HostEvents)
        PROVE  "byHost" \in slipped' \/ ~row'["byHost"] \/ ~Live("audio")'
    BY <2>2, <1>0, <1>1, <1>2, <1>a, <1>c, <1>e, <1>4, EventsKnown DEF MutesAreKnown, SaysMuted,
       Live, RosterTyped, UnpublishedUnknown, MutesAreTold, Kinds
  <2> QED BY <2>1, <2>2
<1>10. LocksAreTold'
  BY <1>0, <1>1, <1>2, <1>a, <1>c, <1>e, <1>4, EventsKnown DEF LocksAreTold, RosterTyped
<1> QED BY <1>3, <1>5, <1>6, <1>7, <1>8, <1>9, <1>10 DEF RosterIInv

LEMMA ConsumerStep == ASSUME RosterIInv, OnConsumer PROVE RosterIInv'
<1>0. /\ RosterTyped /\ MutesAreTold /\ UnpublishedUnknown /\ AwayHearsNothing
      /\ KindsAreTold /\ MutesAreKnown /\ LocksAreTold
  BY DEF RosterIInv
<1>1. /\ UNCHANGED <<producer, work, muting, locked, attending, lockAsks, announced, asked, tracks, row,
                      shownLock, slipped, lockSlipped>>
      /\ OnEvent("created")
      /\ readying' = readying \cup {Head(news).kind}
  BY DEF OnConsumer, rosterServer, rosterClient, rosterHistory
<1> DEFINE e == Head(news)
           k0 == e.kind
<1>2. /\ e \in Events /\ e.ev = "created" /\ news # <<>>
      /\ news' \in Seq(Events) /\ Among(news) = Among(news') \cup {e}
      /\ \A x, T : Word(news', x, T) => Word(news, x, T)
      /\ \A T : Silent(news', T) => IF e \in T THEN Word(news, e, T) ELSE Silent(news, T)
  BY <1>0, <1>1, ReadsNews
<1>a. k0 \in Kinds /\ e = CreatedEvent(k0) /\ readying' = readying \cup {k0}
  BY <1>1, <1>2, EventsKnown
<1>b. \A k \in Kinds : CreatedEvent(k) = e => k = k0
  BY <1>a, EventsMade
<1>c. attending
  BY <1>0, <1>2 DEF AwayHearsNothing
<1> HIDE DEF k0, e
<1>d. Granted' \subseteq Granted /\ Granted \subseteq Granted' \cup {k0} /\ k0 \in Granted
  BY <1>2, <1>a, <1>b DEF Granted
<1>f. asked' \cup readying' \cup Granted' = asked \cup readying \cup Granted
  BY <1>1, <1>a, <1>d
<1>3. RosterTyped'
  BY <1>0, <1>1, <1>2, <1>a, <1>c, <1>f DEF RosterTyped
<1>4. Pending' = asked' \cup readying' \cup Granted' /\ Pending = asked \cup readying \cup Granted
  BY <1>0, <1>3, PendingIs, PendingWillBe
<1>5. MutesAreTold'
  BY <1>0, <1>1, <1>2, <1>a, <1>c, <1>f, <1>4 DEF MutesAreTold
<1>6. UnpublishedUnknown'
  BY <1>0, <1>1, <1>2, <1>a, <1>c, <1>f, <1>4 DEF UnpublishedUnknown, RosterTyped
<1>7. AwayHearsNothing'
  BY <1>0, <1>1, <1>2, <1>a, <1>c, <1>f, <1>4 DEF AwayHearsNothing
<1>8. KindsAreTold'
  <2> SUFFICES ASSUME attending', NEW k \in Kinds
               PROVE  /\ \A x \in Events : Word(news', x, KindEvents(k)) => Says(x, k)'
                      /\ Silent(news', KindEvents(k)) => k \in slipped' \/ Owed(k)' \/ (Live(k)' <=> Shows(k)')
    BY DEF KindsAreTold
  <2>1. ASSUME NEW x \in Events, Word(news', x, KindEvents(k)) PROVE Says(x, k)'
    BY <2>1, <1>0, <1>1, <1>2, <1>a, <1>c, <1>f, <1>4, EventsKnown DEF KindsAreTold, Says, Owed,
       Live, RosterTyped, UnpublishedUnknown, MutesAreTold
  <2>2. ASSUME Silent(news', KindEvents(k))
               PROVE k \in slipped' \/ Owed(k)' \/ (Live(k)' <=> Shows(k)')
    BY <2>2, <1>0, <1>1, <1>2, <1>a, <1>c, <1>f, <1>4, EventsKnown DEF KindsAreTold, Says, Owed,
       Live, Shows, RosterTyped, UnpublishedUnknown, MutesAreTold
  <2> QED BY <2>1, <2>2
<1>9. MutesAreKnown'
  <2> SUFFICES ASSUME attending'
               PROVE  /\ \A x \in Events : Word(news', x, HostEvents) => SaysMuted(x)'
                      /\ Silent(news', HostEvents) => "byHost" \in slipped' \/ ~row'["byHost"] \/ ~Live("audio")'
    BY DEF MutesAreKnown
  <2>1. ASSUME NEW x \in Events, Word(news', x, HostEvents) PROVE SaysMuted(x)'
    BY <2>1, <1>0, <1>1, <1>2, <1>a, <1>c, <1>f, <1>4, EventsKnown DEF MutesAreKnown, SaysMuted,
       Live, RosterTyped, UnpublishedUnknown, MutesAreTold, Kinds
  <2>2. ASSUME Silent(news', HostEvents)
        PROVE  "byHost" \in slipped' \/ ~row'["byHost"] \/ ~Live("audio")'
    BY <2>2, <1>0, <1>1, <1>2, <1>a, <1>c, <1>f, <1>4, EventsKnown DEF MutesAreKnown, SaysMuted,
       Live, RosterTyped, UnpublishedUnknown, MutesAreTold, Kinds
  <2> QED BY <2>1, <2>2
<1>10. LocksAreTold'
  BY <1>0, <1>1, <1>2, <1>a, <1>c, <1>f, <1>4, EventsKnown DEF LocksAreTold, RosterTyped
<1> QED BY <1>3, <1>5, <1>6, <1>7, <1>8, <1>9, <1>10 DEF RosterIInv

LEMMA TrackReadyStep == ASSUME RosterIInv, NEW k0 \in Kinds, TrackReady(k0) PROVE RosterIInv'
<1>0. /\ RosterTyped /\ MutesAreTold /\ UnpublishedUnknown /\ AwayHearsNothing
      /\ KindsAreTold /\ MutesAreKnown /\ LocksAreTold
  BY DEF RosterIInv
<1>1. /\ UNCHANGED <<producer, work, muting, locked, attending, news, lockAsks, announced, asked,
                      shownLock, slipped, lockSlipped>>
      /\ k0 \in readying /\ readying' = readying \ {k0}
      /\ tracks' = tracks \cup {k0}
      /\ row' = [row EXCEPT ![k0] = (announced[k0] # "paused")]
  BY DEF TrackReady, TrackUpdate, rosterServer, rosterClient, rosterHistory
<1>2. news' \in Seq(Events) /\ Granted' = Granted
  BY <1>0, <1>1, NewsStand
<1>a. /\ row' \in Rows /\ row'["byHost"] = row["byHost"]
      /\ row'[k0] = (announced[k0] # "paused") /\ \A k \in Kinds : k # k0 => row'[k] = row[k]
  <2> DEFINE on == (announced[k0] # "paused")
  <2>1. on \in BOOLEAN /\ row' = [row EXCEPT ![k0] = on]
    BY <1>1
  <2> HIDE DEF on
  <2>2. row' \in Rows /\ row'["byHost"] = row["byHost"] /\ row'[k0] = on /\ \A k \in Kinds : k # k0 => row'[k] = row[k]
    BY <2>1, <1>0, RowChanges
  <2> QED BY <2>2 DEF on
<1>3. RosterTyped'
  BY <1>0, <1>1, <1>2, <1>a DEF RosterTyped
<1>4. Pending' = asked' \cup readying' \cup Granted' /\ Pending = asked \cup readying \cup Granted
  BY <1>0, <1>3, PendingIs, PendingWillBe
<1>5. MutesAreTold'
  BY <1>0, <1>1, <1>2, <1>a, <1>4 DEF MutesAreTold
<1>6. UnpublishedUnknown'
  BY <1>0, <1>1, <1>2, <1>a, <1>4 DEF UnpublishedUnknown, RosterTyped
<1>7. AwayHearsNothing'
  BY <1>0, <1>1, <1>2, <1>a, <1>4 DEF AwayHearsNothing
<1>8. KindsAreTold'
  <2> SUFFICES ASSUME attending', NEW k \in Kinds
               PROVE  /\ \A x \in Events : Word(news', x, KindEvents(k)) => Says(x, k)'
                      /\ Silent(news', KindEvents(k)) => k \in slipped' \/ Owed(k)' \/ (Live(k)' <=> Shows(k)')
    BY DEF KindsAreTold
  <2>1. ASSUME NEW x \in Events, Word(news', x, KindEvents(k)) PROVE Says(x, k)'
    BY <2>1, <1>0, <1>1, <1>2, <1>a, <1>4, EventsKnown DEF KindsAreTold, Says, Owed, Live,
       RosterTyped, UnpublishedUnknown, MutesAreTold
  <2>2. ASSUME Silent(news', KindEvents(k))
               PROVE k \in slipped' \/ Owed(k)' \/ (Live(k)' <=> Shows(k)')
    <3>0. Silent(news, KindEvents(k))
      BY <2>2, <1>1
    <3>1. k \in slipped \/ Owed(k) \/ (Live(k) <=> Shows(k))
      BY <3>0, <1>0, <1>1 DEF KindsAreTold
    <3>2. Live(k)' = Live(k) /\ Owed(k)' = Owed(k) /\ slipped' = slipped
      BY <1>1 DEF Live, Owed
    <3>3. Shows(k)' = Shows(k)
      <4>1. CASE k = k0
        BY <4>1, <1>1, <1>a, <1>4 DEF Shows
      <4>2. CASE k # k0
        BY <4>2, <1>1, <1>2, <1>a, <1>4 DEF Shows
      <4> QED BY <4>1, <4>2
    <3> QED BY <3>1, <3>2, <3>3
  <2> QED BY <2>1, <2>2
<1>9. MutesAreKnown'
  <2> SUFFICES ASSUME attending'
               PROVE  /\ \A x \in Events : Word(news', x, HostEvents) => SaysMuted(x)'
                      /\ Silent(news', HostEvents) => "byHost" \in slipped' \/ ~row'["byHost"] \/ ~Live("audio")'
    BY DEF MutesAreKnown
  <2>1. ASSUME NEW x \in Events, Word(news', x, HostEvents) PROVE SaysMuted(x)'
    BY <2>1, <1>0, <1>1, <1>2, <1>a, <1>4, EventsKnown DEF MutesAreKnown, SaysMuted, Live,
       RosterTyped, UnpublishedUnknown, MutesAreTold, Kinds
  <2>2. ASSUME Silent(news', HostEvents)
        PROVE  "byHost" \in slipped' \/ ~row'["byHost"] \/ ~Live("audio")'
    BY <2>2, <1>0, <1>1, <1>2, <1>a, <1>4, EventsKnown DEF MutesAreKnown, SaysMuted, Live,
       RosterTyped, UnpublishedUnknown, MutesAreTold, Kinds
  <2> QED BY <2>1, <2>2
<1>10. LocksAreTold'
  BY <1>0, <1>1, <1>2, <1>a, <1>4, EventsKnown DEF LocksAreTold, RosterTyped
<1> QED BY <1>3, <1>5, <1>6, <1>7, <1>8, <1>9, <1>10 DEF RosterIInv

LEMMA TrackFlowsStep == ASSUME RosterIInv, NEW k0 \in Kinds, TrackFlows(k0) PROVE RosterIInv'
<1>0. /\ RosterTyped /\ MutesAreTold /\ UnpublishedUnknown /\ AwayHearsNothing
      /\ KindsAreTold /\ MutesAreKnown /\ LocksAreTold
  BY DEF RosterIInv
<1>1. /\ UNCHANGED <<producer, work, muting, locked, attending, news, lockAsks, announced, asked,
                      readying, tracks, shownLock, slipped, lockSlipped>>
      /\ k0 \in tracks /\ row' = [row EXCEPT ![k0] = (producer[k0] = "live")]
  BY DEF TrackFlows, rosterServer, rosterClient, rosterHistory
<1>2. news' \in Seq(Events) /\ Granted' = Granted
  BY <1>0, <1>1, NewsStand
<1>a. /\ row' \in Rows /\ row'["byHost"] = row["byHost"]
      /\ row'[k0] = (producer[k0] = "live") /\ \A k \in Kinds : k # k0 => row'[k] = row[k]
  <2> DEFINE on == (producer[k0] = "live")
  <2>1. on \in BOOLEAN /\ row' = [row EXCEPT ![k0] = on]
    BY <1>1
  <2> HIDE DEF on
  <2>2. row' \in Rows /\ row'["byHost"] = row["byHost"] /\ row'[k0] = on /\ \A k \in Kinds : k # k0 => row'[k] = row[k]
    BY <2>1, <1>0, RowChanges
  <2> QED BY <2>2 DEF on
<1>3. RosterTyped'
  BY <1>0, <1>1, <1>2, <1>a DEF RosterTyped
<1>4. Pending' = asked' \cup readying' \cup Granted' /\ Pending = asked \cup readying \cup Granted
  BY <1>0, <1>3, PendingIs, PendingWillBe
<1>5. MutesAreTold'
  BY <1>0, <1>1, <1>2, <1>a, <1>4 DEF MutesAreTold
<1>6. UnpublishedUnknown'
  BY <1>0, <1>1, <1>2, <1>a, <1>4 DEF UnpublishedUnknown, RosterTyped
<1>7. AwayHearsNothing'
  BY <1>0, <1>1, <1>2, <1>a, <1>4 DEF AwayHearsNothing
<1>8. KindsAreTold'
  <2> SUFFICES ASSUME attending', NEW k \in Kinds
               PROVE  /\ \A x \in Events : Word(news', x, KindEvents(k)) => Says(x, k)'
                      /\ Silent(news', KindEvents(k)) => k \in slipped' \/ Owed(k)' \/ (Live(k)' <=> Shows(k)')
    BY DEF KindsAreTold
  <2>1. ASSUME NEW x \in Events, Word(news', x, KindEvents(k)) PROVE Says(x, k)'
    BY <2>1, <1>0, <1>1, <1>2, <1>a, <1>4, EventsKnown DEF KindsAreTold, Says, Owed, Live,
       RosterTyped, UnpublishedUnknown, MutesAreTold
  <2>2. ASSUME Silent(news', KindEvents(k))
               PROVE k \in slipped' \/ Owed(k)' \/ (Live(k)' <=> Shows(k)')
    <3>1. k \in slipped \/ Owed(k) \/ (Live(k) <=> Shows(k))
      BY <2>2, <1>0, <1>1 DEF KindsAreTold
    <3>2. Live(k)' = Live(k) /\ Owed(k)' = Owed(k) /\ slipped' = slipped
      BY <1>1 DEF Live, Owed
    <3>3. CASE k = k0 /\ k \notin Pending
      <4>1. Shows(k)' <=> Live(k)
        BY <3>3, <1>1, <1>2, <1>a, <1>4 DEF Shows, Live
      <4> QED BY <4>1, <3>2
    <3>4. CASE k # k0 \/ k \in Pending
      <4>1. Shows(k)' = Shows(k)
        BY <3>4, <1>1, <1>2, <1>a, <1>4 DEF Shows
      <4> QED BY <4>1, <3>1, <3>2
    <3> QED BY <3>3, <3>4
  <2> QED BY <2>1, <2>2
<1>9. MutesAreKnown'
  <2> SUFFICES ASSUME attending'
               PROVE  /\ \A x \in Events : Word(news', x, HostEvents) => SaysMuted(x)'
                      /\ Silent(news', HostEvents) => "byHost" \in slipped' \/ ~row'["byHost"] \/ ~Live("audio")'
    BY DEF MutesAreKnown
  <2>1. ASSUME NEW x \in Events, Word(news', x, HostEvents) PROVE SaysMuted(x)'
    BY <2>1, <1>0, <1>1, <1>2, <1>a, <1>4, EventsKnown DEF MutesAreKnown, SaysMuted, Live,
       RosterTyped, UnpublishedUnknown, MutesAreTold, Kinds
  <2>2. ASSUME Silent(news', HostEvents)
        PROVE  "byHost" \in slipped' \/ ~row'["byHost"] \/ ~Live("audio")'
    BY <2>2, <1>0, <1>1, <1>2, <1>a, <1>4, EventsKnown DEF MutesAreKnown, SaysMuted, Live,
       RosterTyped, UnpublishedUnknown, MutesAreTold, Kinds
  <2> QED BY <2>1, <2>2
<1>10. LocksAreTold'
  BY <1>0, <1>1, <1>2, <1>a, <1>4, EventsKnown DEF LocksAreTold, RosterTyped
<1> QED BY <1>3, <1>5, <1>6, <1>7, <1>8, <1>9, <1>10 DEF RosterIInv

LEMMA ProducerStateStep == ASSUME RosterIInv, OnProducerState PROVE RosterIInv'
<1>0. /\ RosterTyped /\ MutesAreTold /\ UnpublishedUnknown /\ AwayHearsNothing
      /\ KindsAreTold /\ MutesAreKnown /\ LocksAreTold
  BY DEF RosterIInv
<1>1. /\ UNCHANGED <<producer, work, muting, locked, attending, lockAsks, announced, asked, readying,
                      tracks, shownLock, lockSlipped>>
      /\ OnEvent("state")
      /\ row' = [row EXCEPT ![Head(news).kind] = ~Head(news).paused, !.byHost = @ /\ ~(Head(news).kind = "audio" /\ ~Head(news).paused)]
      /\ slipped' = (slipped \ ({Head(news).kind} \cup IF Head(news).kind = "audio" /\ ~Head(news).paused THEN {"byHost"} ELSE {})) \cup ({Head(news).kind} \cap Pending)
  BY DEF OnProducerState, rosterServer, rosterClient, rosterHistory
<1> DEFINE e == Head(news)
<1>2. /\ e \in Events /\ e.ev = "state" /\ news # <<>>
      /\ news' \in Seq(Events) /\ Among(news) = Among(news') \cup {e} /\ Granted' = Granted
      /\ \A x, T : Word(news', x, T) => Word(news, x, T)
      /\ \A T : Silent(news', T) => IF e \in T THEN Word(news, e, T) ELSE Silent(news, T)
  BY <1>0, <1>1, ReadsNews, GrantedRead
<1> HIDE DEF e
<1> DEFINE k0 == e.kind
           on == ~e.paused
<1>a. /\ k0 \in Kinds /\ on \in BOOLEAN
      /\ row' = [row EXCEPT ![k0] = on, !.byHost = @ /\ ~(k0 = "audio" /\ on)]
      /\ slipped' = (slipped \ ({k0} \cup IF k0 = "audio" /\ on THEN {"byHost"} ELSE {})) \cup ({k0} \cap Pending)
  BY <1>1, <1>2, EventsKnown DEF e
<1>b. k0 = e.kind /\ e \in Among(news) /\ on = ~e.paused
  BY <1>2
<1> HIDE DEF k0, on
<1>c. attending
  BY <1>0, <1>2 DEF AwayHearsNothing
<1>d. /\ row' \in Rows /\ row'[k0] = on
      /\ \A k \in Kinds : k # k0 => row'[k] = row[k]
      /\ row'["byHost"] = (row["byHost"] /\ ~(k0 = "audio" /\ on))
  BY <1>0, <1>a, RowHeals
<1>3. RosterTyped'
  BY <1>0, <1>1, <1>2, <1>a, <1>b, <1>c, <1>d DEF RosterTyped, Fields, Kinds
<1>4. Pending' = asked' \cup readying' \cup Granted' /\ Pending = asked \cup readying \cup Granted
  BY <1>0, <1>3, PendingIs, PendingWillBe
<1>5. MutesAreTold'
  BY <1>0, <1>1, <1>2, <1>a, <1>b, <1>c, <1>d, <1>4 DEF MutesAreTold
<1>6. UnpublishedUnknown'
  <2>1. producer[k0] # "none"
    BY <1>0, <1>2, <1>a, <1>b DEF UnpublishedUnknown
  <2>2. \A k \in Kinds : producer[k] = "none" => row'[k] = row[k]
    BY <2>1, <1>d
  <2>3. Pending' = Pending /\ Among(news') \subseteq Among(news)
    BY <1>1, <1>2, <1>4
  <2> QED BY <2>2, <2>3, <1>0, <1>1 DEF UnpublishedUnknown
<1>7. AwayHearsNothing'
  BY <1>0, <1>1, <1>2, <1>a, <1>b, <1>c, <1>d, <1>4 DEF AwayHearsNothing
<1>8. KindsAreTold'
  <2> SUFFICES ASSUME attending', NEW k \in Kinds
               PROVE  /\ \A x \in Events : Word(news', x, KindEvents(k)) => Says(x, k)'
                      /\ Silent(news', KindEvents(k)) => k \in slipped' \/ Owed(k)' \/ (Live(k)' <=> Shows(k)')
    BY DEF KindsAreTold
  <2>1. ASSUME NEW x \in Events, Word(news', x, KindEvents(k)) PROVE Says(x, k)'
    <3>1. Says(x, k)
      BY <2>1, <1>0, <1>1, <1>2, <1>c DEF KindsAreTold
    <3>2. Live(k)' = Live(k) /\ Owed(k)' = Owed(k)
      BY <1>1 DEF Live, Owed
    <3> QED BY <3>1, <3>2 DEF Says
  <2>2. ASSUME Silent(news', KindEvents(k))
               PROVE k \in slipped' \/ Owed(k)' \/ (Live(k)' <=> Shows(k)')
    <3>0. CASE k = k0
      <4>1. e \in KindEvents(k)
        BY <3>0, <1>b, <1>2, EventsKnown
      <4>2. Word(news, e, KindEvents(k))
        BY <4>1, <2>2, <1>2
      <4>3. Says(e, k)
        BY <4>2, <1>0, <1>1, <1>2, <1>c DEF KindsAreTold
      <4>4. (on <=> Live(k)) \/ Owed(k)
        BY <4>3, <1>2, <1>b DEF Says
      <4>5. Live(k)' = Live(k) /\ Owed(k)' = Owed(k) /\ row'[k] = on
        BY <3>0, <1>1, <1>d DEF Live, Owed
      <4>6. k \in slipped' \/ Shows(k)' = on
        BY <3>0, <4>5, <1>1, <1>a, <1>2, <1>4 DEF Shows
      <4> QED BY <4>4, <4>5, <4>6
    <3>1. CASE k # k0
      <4>1. e \notin KindEvents(k)
        BY <3>1, <1>b, <1>2, EventsKnown
      <4>2. k \in slipped \/ Owed(k) \/ (Live(k) <=> Shows(k))
        BY <4>1, <2>2, <1>0, <1>2, <1>c DEF KindsAreTold
      <4>3. Live(k)' = Live(k) /\ Owed(k)' = Owed(k) /\ Shows(k)' = Shows(k)
        BY <3>1, <1>1, <1>2, <1>4, <1>d DEF Live, Owed, Shows
      <4>4. k \in slipped => k \in slipped'
        BY <3>1, <1>a DEF Kinds
      <4> QED BY <4>2, <4>3, <4>4
    <3> QED BY <3>0, <3>1
  <2> QED BY <2>1, <2>2
<1>9. MutesAreKnown'
  <2> SUFFICES ASSUME attending'
               PROVE  /\ \A x \in Events : Word(news', x, HostEvents) => SaysMuted(x)'
                      /\ Silent(news', HostEvents) => "byHost" \in slipped' \/ ~row'["byHost"] \/ ~Live("audio")'
    BY DEF MutesAreKnown
  <2>1. ASSUME NEW x \in Events, Word(news', x, HostEvents) PROVE SaysMuted(x)'
    BY <2>1, <1>0, <1>1, <1>2, <1>a, <1>b, <1>c, <1>d, <1>4, EventsKnown DEF MutesAreKnown,
       SaysMuted, Live, RosterTyped, UnpublishedUnknown, MutesAreTold, Kinds
  <2>2. ASSUME Silent(news', HostEvents)
        PROVE  "byHost" \in slipped' \/ ~row'["byHost"] \/ ~Live("audio")'
    BY <2>2, <1>0, <1>1, <1>2, <1>a, <1>b, <1>c, <1>d, <1>4, EventsKnown DEF MutesAreKnown,
       SaysMuted, Live, RosterTyped, UnpublishedUnknown, MutesAreTold, Kinds
  <2> QED BY <2>1, <2>2
<1>10. LocksAreTold'
  BY <1>0, <1>1, <1>2, <1>a, <1>b, <1>c, <1>d, <1>4, EventsKnown DEF LocksAreTold, RosterTyped
<1> QED BY <1>3, <1>5, <1>6, <1>7, <1>8, <1>9, <1>10 DEF RosterIInv

LEMMA PeerMutedStep == ASSUME RosterIInv, OnPeerMuted PROVE RosterIInv'
<1>0. /\ RosterTyped /\ MutesAreTold /\ UnpublishedUnknown /\ AwayHearsNothing
      /\ KindsAreTold /\ MutesAreKnown /\ LocksAreTold
  BY DEF RosterIInv
<1>1. /\ UNCHANGED <<producer, work, muting, locked, attending, lockAsks, announced, asked, readying,
                      tracks, shownLock, lockSlipped>>
      /\ OnEvent("muted")
      /\ row' = [audio |-> FALSE, video |-> FALSE, byHost |-> TRUE]
      /\ slipped' = (slipped \ {"byHost"}) \cup Head(news).live \cup Pending \cup IF "audio" \in Head(news).live THEN {"byHost"} ELSE {}
  BY DEF OnPeerMuted, rosterServer, rosterClient, rosterHistory
<1> DEFINE e == Head(news)
<1>2. /\ e \in Events /\ e.ev = "muted" /\ news # <<>>
      /\ news' \in Seq(Events) /\ Among(news) = Among(news') \cup {e} /\ Granted' = Granted
      /\ \A x, T : Word(news', x, T) => Word(news, x, T)
      /\ \A T : Silent(news', T) => IF e \in T THEN Word(news, e, T) ELSE Silent(news, T)
  BY <1>0, <1>1, ReadsNews, GrantedRead
<1> HIDE DEF e
<1>a. /\ e.live \in SUBSET Kinds
      /\ slipped' = (slipped \ {"byHost"}) \cup e.live \cup Pending \cup IF "audio" \in e.live THEN {"byHost"} ELSE {}
  BY <1>1, <1>2, EventsKnown DEF e
<1>c. attending
  BY <1>0, <1>2 DEF AwayHearsNothing
<1>d. /\ row' \in Rows /\ row'["byHost"] = TRUE /\ \A k \in Kinds : row'[k] = FALSE
  BY <1>1 DEF Rows, Kinds
<1>e. Pending \subseteq Kinds
  BY <1>0, PendingIs DEF RosterTyped, Granted
<1>3. RosterTyped'
  BY <1>0, <1>1, <1>2, <1>a, <1>c, <1>d, <1>e DEF RosterTyped, Fields, Kinds
<1>4. Pending' = asked' \cup readying' \cup Granted' /\ Pending = asked \cup readying \cup Granted
  BY <1>0, <1>3, PendingIs, PendingWillBe
<1>5. MutesAreTold'
  BY <1>0, <1>1, <1>2, <1>a, <1>c, <1>d, <1>e, <1>4 DEF MutesAreTold
<1>6. UnpublishedUnknown'
  BY <1>0, <1>1, <1>2, <1>a, <1>c, <1>d, <1>e, <1>4 DEF UnpublishedUnknown, RosterTyped
<1>7. AwayHearsNothing'
  BY <1>0, <1>1, <1>2, <1>a, <1>c, <1>d, <1>e, <1>4 DEF AwayHearsNothing
<1>8. KindsAreTold'
  <2> SUFFICES ASSUME attending', NEW k \in Kinds
               PROVE  /\ \A x \in Events : Word(news', x, KindEvents(k)) => Says(x, k)'
                      /\ Silent(news', KindEvents(k)) => k \in slipped' \/ Owed(k)' \/ (Live(k)' <=> Shows(k)')
    BY DEF KindsAreTold
  <2>1. ASSUME NEW x \in Events, Word(news', x, KindEvents(k)) PROVE Says(x, k)'
    BY <2>1, <1>0, <1>1, <1>2, <1>a, <1>c, <1>d, <1>e, <1>4, EventsKnown DEF KindsAreTold, Says,
       Owed, Live, RosterTyped, UnpublishedUnknown, MutesAreTold
  <2>2. ASSUME Silent(news', KindEvents(k))
               PROVE k \in slipped' \/ Owed(k)' \/ (Live(k)' <=> Shows(k)')
    BY <2>2, <1>0, <1>1, <1>2, <1>a, <1>c, <1>d, <1>e, <1>4, EventsKnown DEF KindsAreTold, Says,
       Owed, Live, Shows, RosterTyped, UnpublishedUnknown, MutesAreTold
  <2> QED BY <2>1, <2>2
<1>9. MutesAreKnown'
  <2> SUFFICES ASSUME attending'
               PROVE  /\ \A x \in Events : Word(news', x, HostEvents) => SaysMuted(x)'
                      /\ Silent(news', HostEvents) => "byHost" \in slipped' \/ ~row'["byHost"] \/ ~Live("audio")'
    BY DEF MutesAreKnown
  <2>1. ASSUME NEW x \in Events, Word(news', x, HostEvents) PROVE SaysMuted(x)'
    BY <2>1, <1>0, <1>1, <1>2, <1>a, <1>c, <1>d, <1>e, <1>4, EventsKnown DEF MutesAreKnown,
       SaysMuted, Live, RosterTyped, UnpublishedUnknown, MutesAreTold, Kinds
  <2>2. ASSUME Silent(news', HostEvents)
        PROVE  "byHost" \in slipped' \/ ~row'["byHost"] \/ ~Live("audio")'
    BY <2>2, <1>0, <1>1, <1>2, <1>a, <1>c, <1>d, <1>e, <1>4, EventsKnown DEF MutesAreKnown,
       SaysMuted, Live, RosterTyped, UnpublishedUnknown, MutesAreTold, Kinds
  <2> QED BY <2>1, <2>2
<1>10. LocksAreTold'
  BY <1>0, <1>1, <1>2, <1>a, <1>c, <1>d, <1>e, <1>4, EventsKnown DEF LocksAreTold, RosterTyped
<1> QED BY <1>3, <1>5, <1>6, <1>7, <1>8, <1>9, <1>10 DEF RosterIInv

LEMMA RoomLockedStep == ASSUME RosterIInv, OnRoomLocked PROVE RosterIInv'
<1>0. /\ RosterTyped /\ MutesAreTold /\ UnpublishedUnknown /\ AwayHearsNothing
      /\ KindsAreTold /\ MutesAreKnown /\ LocksAreTold
  BY DEF RosterIInv
<1>1. /\ UNCHANGED <<producer, work, muting, locked, attending, lockAsks, announced, asked, readying,
                      tracks, row, slipped>>
      /\ OnEvent("locked")
      /\ shownLock' = Head(news).locked
      /\ lockSlipped' = FALSE
  BY DEF OnRoomLocked, rosterServer, rosterClient, rosterHistory
<1> DEFINE e == Head(news)
<1>2. /\ e \in Events /\ e.ev = "locked" /\ news # <<>>
      /\ news' \in Seq(Events) /\ Among(news) = Among(news') \cup {e} /\ Granted' = Granted
      /\ \A x, T : Word(news', x, T) => Word(news, x, T)
      /\ \A T : Silent(news', T) => IF e \in T THEN Word(news, e, T) ELSE Silent(news, T)
  BY <1>0, <1>1, ReadsNews, GrantedRead
<1> HIDE DEF e
<1>a. e.locked \in BOOLEAN /\ shownLock' = e.locked /\ e \in LockedEvents
  BY <1>1, <1>2, EventsKnown DEF e
<1>3. RosterTyped'
  BY <1>0, <1>1, <1>2, <1>a DEF RosterTyped
<1>4. Pending' = asked' \cup readying' \cup Granted' /\ Pending = asked \cup readying \cup Granted
  BY <1>0, <1>3, PendingIs, PendingWillBe
<1>5. MutesAreTold'
  BY <1>0, <1>1, <1>2, <1>a, <1>4 DEF MutesAreTold
<1>6. UnpublishedUnknown'
  BY <1>0, <1>1, <1>2, <1>a, <1>4 DEF UnpublishedUnknown, RosterTyped
<1>7. AwayHearsNothing'
  BY <1>0, <1>1, <1>2, <1>a, <1>4 DEF AwayHearsNothing
<1>8. KindsAreTold'
  <2> SUFFICES ASSUME attending', NEW k \in Kinds
               PROVE  /\ \A x \in Events : Word(news', x, KindEvents(k)) => Says(x, k)'
                      /\ Silent(news', KindEvents(k)) => k \in slipped' \/ Owed(k)' \/ (Live(k)' <=> Shows(k)')
    BY DEF KindsAreTold
  <2>1. ASSUME NEW x \in Events, Word(news', x, KindEvents(k)) PROVE Says(x, k)'
    BY <2>1, <1>0, <1>1, <1>2, <1>a, <1>4, EventsKnown DEF KindsAreTold, Says, Owed, Live,
       RosterTyped, UnpublishedUnknown, MutesAreTold
  <2>2. ASSUME Silent(news', KindEvents(k))
               PROVE k \in slipped' \/ Owed(k)' \/ (Live(k)' <=> Shows(k)')
    BY <2>2, <1>0, <1>1, <1>2, <1>a, <1>4, EventsKnown DEF KindsAreTold, Says, Owed, Live,
       Shows, RosterTyped, UnpublishedUnknown, MutesAreTold
  <2> QED BY <2>1, <2>2
<1>9. MutesAreKnown'
  <2> SUFFICES ASSUME attending'
               PROVE  /\ \A x \in Events : Word(news', x, HostEvents) => SaysMuted(x)'
                      /\ Silent(news', HostEvents) => "byHost" \in slipped' \/ ~row'["byHost"] \/ ~Live("audio")'
    BY DEF MutesAreKnown
  <2>1. ASSUME NEW x \in Events, Word(news', x, HostEvents) PROVE SaysMuted(x)'
    BY <2>1, <1>0, <1>1, <1>2, <1>a, <1>4, EventsKnown DEF MutesAreKnown, SaysMuted, Live,
       RosterTyped, UnpublishedUnknown, MutesAreTold, Kinds
  <2>2. ASSUME Silent(news', HostEvents)
        PROVE  "byHost" \in slipped' \/ ~row'["byHost"] \/ ~Live("audio")'
    BY <2>2, <1>0, <1>1, <1>2, <1>a, <1>4, EventsKnown DEF MutesAreKnown, SaysMuted, Live,
       RosterTyped, UnpublishedUnknown, MutesAreTold, Kinds
  <2> QED BY <2>1, <2>2
<1>10. LocksAreTold'
  <2>1. \A x \in Events : Word(news', x, LockedEvents) => x.locked = locked'
    BY <1>0, <1>1, <1>2 DEF LocksAreTold
  <2>2. ASSUME Silent(news', LockedEvents) PROVE shownLock' = locked'
    <3>1. CASE Silent(news, LockedEvents)
      <4>1. Head(news) \notin LockedEvents
        <5>1. 1 \in DOMAIN news /\ news[1] = Head(news)
          BY <1>0, <1>2 DEF RosterTyped
        <5> QED BY <5>1, <3>1 DEF Silent
      <4> QED BY <4>1, <1>a DEF e
    <3>2. CASE Word(news, e, LockedEvents)
      BY <3>2, <1>0, <1>1, <1>2, <1>a DEF LocksAreTold
    <3> QED BY <2>2, <3>1, <3>2, <1>2
  <2> QED BY <2>1, <2>2 DEF LocksAreTold
<1> QED BY <1>3, <1>5, <1>6, <1>7, <1>8, <1>9, <1>10 DEF RosterIInv

LEMMA BlipStep == ASSUME RosterIInv, Blip PROVE RosterIInv'
<1>0. /\ RosterTyped /\ MutesAreTold /\ UnpublishedUnknown /\ AwayHearsNothing
      /\ KindsAreTold /\ MutesAreKnown /\ LocksAreTold
  BY DEF RosterIInv
<1>1. /\ UNCHANGED <<producer, work, muting, locked, row, shownLock>>
      /\ attending /\ attending' = FALSE
      /\ news' = <<>>
      /\ lockAsks' = <<>>
      /\ announced' = [k \in Kinds |-> "none"]
      /\ asked' = {}
      /\ readying' = {}
      /\ tracks' = {}
      /\ slipped' = slipped \cup Published \cup {"byHost"}
      /\ lockSlipped' = (lockSlipped \/ \E i \in DOMAIN news : news[i].ev = "locked")
  BY DEF Blip, rosterServer, rosterClient, rosterHistory
<1>2. news' \in Seq(Events) /\ lockAsks' \in Seq(BOOLEAN) /\ Among(news') = {} /\ Granted' = {}
  BY <1>1, NothingAmong DEF Granted
<1>a. Published \subseteq Fields /\ "byHost" \in Fields
  BY DEF Published, Fields
<1>3. RosterTyped'
  BY <1>0, <1>1, <1>2, <1>a DEF RosterTyped
<1>4. Pending' = asked' \cup readying' \cup Granted' /\ Pending = asked \cup readying \cup Granted
  BY <1>0, <1>3, PendingIs, PendingWillBe
<1>5. MutesAreTold'
  BY <1>0, <1>1, <1>2, <1>a, <1>4 DEF MutesAreTold
<1>6. UnpublishedUnknown'
  BY <1>0, <1>1, <1>2, <1>a, <1>4 DEF UnpublishedUnknown, RosterTyped
<1>7. AwayHearsNothing'
  BY <1>0, <1>1, <1>2, <1>a, <1>4 DEF AwayHearsNothing
<1>8. KindsAreTold'
  BY <1>1 DEF KindsAreTold
<1>9. MutesAreKnown'
  BY <1>1 DEF MutesAreKnown
<1>10. LocksAreTold'
  <2>1. \A x : ~Word(news', x, LockedEvents)
    BY <1>1, NothingAmong
  <2>2. ASSUME ~lockSlipped' PROVE shownLock' = locked'
    <3>1. ~lockSlipped /\ \A i \in DOMAIN news : news[i].ev # "locked"
      BY <2>2, <1>1, <1>0 DEF RosterTyped
    <3>2. Silent(news, LockedEvents)
      BY <3>1 DEF Silent, LockedEvents
    <3> QED BY <3>1, <3>2, <1>0, <1>1 DEF LocksAreTold
  <2> QED BY <2>1, <2>2 DEF LocksAreTold
<1> QED BY <1>3, <1>5, <1>6, <1>7, <1>8, <1>9, <1>10 DEF RosterIInv


\* Whoever joins is told of what there is, and of nothing else.
Greeting == [i \in 1 .. Cardinality(Published) |-> NewProducer(SetToSeq(Published)[i])]

LEMMA GreetingIs ==
    ASSUME producer \in [Kinds -> {"none", "live", "paused"}]
    PROVE  /\ Greeting \in Seq(Events)
           /\ \A e \in Among(Greeting) :
                 \E k \in Published : e = NewEvent(k, producer[k] = "paused")
           /\ \A k \in Published : NewEvent(k, producer[k] = "paused") \in Among(Greeting)
<1> DEFINE s == SetToSeq(Published)
           n == Cardinality(Published)
           E(k) == NewEvent(k, producer[k] = "paused")
<1>1. Published \in SUBSET Kinds
  BY DEF Published
<1>2. s \in Seq(Published) /\ Len(s) = n /\ n \in Nat /\ Among(s) = Published
  BY <1>1, SomeOrder
<1>3. \A k \in Kinds : NewProducer(k) = E(k) /\ E(k) \in Events
  BY EventsMade DEF NewProducer, NewEvent
<1>4. Greeting = [i \in 1 .. n |-> NewProducer(s[i])]
  BY DEF Greeting
<1> HIDE DEF s, n, E
<1>5. \A i \in 1 .. n : s[i] \in Published /\ s[i] \in Kinds /\ i \in DOMAIN s
  BY <1>1, <1>2
<1>6. \A i \in 1 .. n : Greeting[i] = E(s[i]) /\ Greeting[i] \in Events
  BY <1>3, <1>4, <1>5
<1>7. DOMAIN Greeting = 1 .. n /\ DOMAIN s = 1 .. n
  BY <1>4, <1>2
<1>8. Greeting \in Seq(Events)
  BY <1>2, <1>4, <1>3, <1>5
<1>9. \A k \in Published : E(k) \in Among(Greeting)
  <2> SUFFICES ASSUME NEW k \in Published PROVE E(k) \in Among(Greeting)
    OBVIOUS
  <2>1. PICK i \in DOMAIN s : s[i] = k
    BY <1>2 DEF Among
  <2> QED BY <2>1, <1>6, <1>7 DEF Among
<1>10. \A e \in Among(Greeting) : \E k \in Published : e = E(k)
  BY <1>5, <1>6, <1>7 DEF Among
<1> QED BY <1>8, <1>9, <1>10 DEF E

\* What a greeting says is true, and it is silent only on what there is not.
LEMMA GreetingIsTrue ==
    ASSUME producer \in [Kinds -> {"none", "live", "paused"}]
    PROVE  /\ \A k \in Kinds : CreatedEvent(k) \notin Among(Greeting)
           /\ \A k \in Kinds, e \in Events : Word(Greeting, e, KindEvents(k)) => Says(e, k)
           /\ \A k \in Kinds : Silent(Greeting, KindEvents(k)) => k \notin Published
           /\ \A e \in Events : Word(Greeting, e, HostEvents) => SaysMuted(e)
           /\ Silent(Greeting, HostEvents) => ~Live("audio")
           /\ Silent(Greeting, LockedEvents) /\ \A e : ~Word(Greeting, e, LockedEvents)
           /\ \A k \in Kinds : producer[k] = "none" =>
                 \A e \in Among(Greeting) : e.ev \in {"new", "state"} => e.kind # k
<1> DEFINE E(k) == NewEvent(k, producer[k] = "paused")
<1>1. \A k \in Kinds : /\ E(k) \in Events /\ E(k).ev = "new" /\ E(k).kind = k
                       /\ E(k).paused = (producer[k] = "paused")
  BY EventsMade
<1>2. /\ \A e \in Among(Greeting) : \E k \in Published : e = E(k)
      /\ \A k \in Published : E(k) \in Among(Greeting)
  BY GreetingIs
<1>3. Published = {k \in Kinds : producer[k] # "none"} /\ "audio" \in Kinds
  BY DEF Published, Kinds
<1> HIDE DEF E
<1>4. \A e \in Among(Greeting) : /\ e \in Events /\ e.ev = "new" /\ e.kind \in Published
                                 /\ e.paused = (producer[e.kind] = "paused")
  BY <1>1, <1>2, <1>3
<1>5. \A k \in Kinds : CreatedEvent(k) \notin Among(Greeting)
  BY <1>4, EventsMade
<1>6. \A T : Silent(Greeting, T) => \A e \in Among(Greeting) : e \notin T
  BY DEF Silent, Among
<1>7. ASSUME NEW k \in Kinds, NEW e \in Events, Word(Greeting, e, KindEvents(k))
             PROVE Says(e, k)
  <2>1. e \in Among(Greeting) /\ e \in KindEvents(k)
    BY <1>7, WordsAreAmong
  <2>2. e.ev = "new" /\ e.kind = k /\ e.paused = (producer[k] = "paused") /\ producer[k] # "none"
    BY <2>1, <1>3, <1>4, EventsKnown
  <2> QED BY <2>2 DEF Says, Live
<1>8. ASSUME NEW k \in Kinds, Silent(Greeting, KindEvents(k)) PROVE k \notin Published
  <2>1. E(k) \in KindEvents(k)
    BY <1>1, EventsKnown
  <2> QED BY <2>1, <1>2, <1>6, <1>8
<1>9. ASSUME NEW e \in Events, Word(Greeting, e, HostEvents) PROVE SaysMuted(e)
  <2>1. e \in Among(Greeting)
    BY <1>9, WordsAreAmong
  <2> QED BY <2>1, <1>4 DEF SaysMuted
<1>10. ASSUME Silent(Greeting, HostEvents) PROVE ~Live("audio")
  <2> SUFFICES ASSUME Live("audio") PROVE FALSE
    OBVIOUS
  <2>1. "audio" \in Published /\ ~E("audio").paused /\ E("audio").ev = "new" /\ E("audio").kind = "audio"
    BY <1>1, <1>3 DEF Live
  <2>2. E("audio") \in HostEvents
    BY <2>1, <1>1, <1>3, EventsKnown
  <2> QED BY <2>1, <2>2, <1>2, <1>6, <1>10
<1>11. \A e \in Among(Greeting) : e \notin LockedEvents
  BY <1>4, EventsKnown
<1>12. Silent(Greeting, LockedEvents)
  BY <1>11 DEF Silent, Among
<1>13. \A e : ~Word(Greeting, e, LockedEvents)
  BY <1>11, WordsAreAmong
<1>14. \A k \in Kinds : producer[k] = "none" => \A e \in Among(Greeting) : e.kind # k
  BY <1>3, <1>4
<1> QED BY <1>5, <1>7, <1>8, <1>9, <1>10, <1>12, <1>13, <1>14

LEMMA ComeBackStep == ASSUME RosterIInv, ComeBack PROVE RosterIInv'
<1>0. /\ RosterTyped /\ MutesAreTold /\ UnpublishedUnknown /\ AwayHearsNothing
      /\ KindsAreTold /\ MutesAreKnown /\ LocksAreTold
  BY DEF RosterIInv
<1>1. /\ UNCHANGED <<producer, work, muting, locked, lockAsks, announced, asked, readying, tracks, row,
                      shownLock, slipped, lockSlipped>>
      /\ ~attending /\ attending' = TRUE
      /\ news' = Greeting
  BY DEF ComeBack, Greeting, rosterServer, rosterClient, rosterHistory
<1>2. news' \in Seq(Events) /\ Granted' = {}
  BY <1>0, <1>1, GreetingIs, GreetingIsTrue DEF RosterTyped, Granted
<1>a. producer \in [Kinds -> {"none", "live", "paused"}] /\ Published = {k \in Kinds : producer[k] # "none"}
  BY <1>0 DEF RosterTyped, Published
<1>b. Pending = {} /\ news = <<>> /\ "byHost" \in slipped
  BY <1>0, <1>1 DEF AwayHearsNothing
<1>c. asked = {} /\ readying = {} /\ Granted = {}
  BY <1>b, <1>0, PendingIs
<1>3. RosterTyped'
  BY <1>0, <1>1, <1>2, <1>a, <1>b, <1>c DEF RosterTyped
<1>4. Pending' = asked' \cup readying' \cup Granted' /\ Pending = asked \cup readying \cup Granted
  BY <1>0, <1>3, PendingIs, PendingWillBe
<1>5. MutesAreTold'
  BY <1>0, <1>1, <1>2, <1>a, <1>b, <1>c, <1>4 DEF MutesAreTold
<1>6. UnpublishedUnknown'
  BY <1>0, <1>1, <1>2, <1>4, <1>a, <1>c, GreetingIsTrue DEF UnpublishedUnknown, RosterTyped
<1>7. AwayHearsNothing'
  BY <1>0, <1>1, <1>2, <1>a, <1>b, <1>c, <1>4 DEF AwayHearsNothing
<1>8. KindsAreTold'
  <2> SUFFICES ASSUME attending', NEW k \in Kinds
               PROVE  /\ \A x \in Events : Word(news', x, KindEvents(k)) => Says(x, k)'
                      /\ Silent(news', KindEvents(k)) => k \in slipped' \/ Owed(k)' \/ (Live(k)' <=> Shows(k)')
    BY DEF KindsAreTold
  <2>1. ASSUME NEW x \in Events, Word(news', x, KindEvents(k)) PROVE Says(x, k)'
    BY <2>1, <1>0, <1>1, <1>a, GreetingIsTrue DEF Says, Owed, Live
  <2>2. ASSUME Silent(news', KindEvents(k))
               PROVE k \in slipped' \/ Owed(k)' \/ (Live(k)' <=> Shows(k)')
    <3>1. producer[k] = "none"
      BY <2>2, <1>1, <1>a, GreetingIsTrue
    <3>2. ~row[k] /\ row' = row /\ producer' = producer /\ Pending' = {}
      BY <3>1, <1>0, <1>1, <1>2, <1>c, <1>4 DEF UnpublishedUnknown
    <3> QED BY <3>1, <3>2 DEF Live, Shows
  <2> QED BY <2>1, <2>2
<1>9. MutesAreKnown'
  <2> SUFFICES ASSUME attending'
               PROVE  /\ \A x \in Events : Word(news', x, HostEvents) => SaysMuted(x)'
                      /\ Silent(news', HostEvents) => "byHost" \in slipped' \/ ~row'["byHost"] \/ ~Live("audio")'
    BY DEF MutesAreKnown
  <2>1. ASSUME NEW x \in Events, Word(news', x, HostEvents) PROVE SaysMuted(x)'
    BY <2>1, <1>1, <1>a, GreetingIsTrue DEF SaysMuted, Live
  <2>2. ASSUME Silent(news', HostEvents)
        PROVE  "byHost" \in slipped' \/ ~row'["byHost"] \/ ~Live("audio")'
    BY <2>2, <1>1, <1>a, GreetingIsTrue DEF Live
  <2> QED BY <2>1, <2>2
<1>10. LocksAreTold'
  <2>1. Silent(news', LockedEvents) /\ \A x : ~Word(news', x, LockedEvents)
    BY <1>1, <1>a, GreetingIsTrue
  <2>2. ~lockSlipped => shownLock = locked
    BY <1>0, <1>b, NothingAmong DEF LocksAreTold
  <2> QED BY <2>1, <2>2, <1>1 DEF LocksAreTold
<1> QED BY <1>3, <1>5, <1>6, <1>7, <1>8, <1>9, <1>10 DEF RosterIInv


LEMMA RosterStarts == RosterInit => RosterIInv
<1> SUFFICES ASSUME RosterInit PROVE RosterIInv
  OBVIOUS
<1>1. /\ producer \in [Kinds -> {"none", "live", "paused"}] /\ work = <<>> /\ muting = <<>>
      /\ locked = FALSE /\ attending = TRUE /\ news = Greeting /\ lockAsks = <<>>
      /\ announced = [k \in Kinds |-> "none"] /\ asked = {} /\ readying = {} /\ tracks = {}
      /\ row = NewRow /\ shownLock = FALSE /\ slipped = {} /\ lockSlipped = FALSE
  BY DEF RosterInit, Greeting
<1>2. Published = {k \in Kinds : producer[k] # "none"}
  BY DEF Published
<1>3. row \in Rows /\ (\A k \in Kinds : row[k] = FALSE) /\ row["byHost"] = FALSE
  BY <1>1 DEF NewRow, Rows, Kinds
<1>4. RosterTyped
  BY <1>1, <1>3, GreetingIs, NothingAmong DEF RosterTyped
<1>5. Pending = {}
  BY <1>1, <1>4, PendingIs, GreetingIsTrue DEF Granted
<1>6. MutesAreTold
  BY <1>1, NothingAmong DEF MutesAreTold
<1>7. UnpublishedUnknown
  BY <1>1, <1>3, <1>5, NothingAmong, GreetingIsTrue DEF UnpublishedUnknown
<1>8. AwayHearsNothing
  BY <1>1 DEF AwayHearsNothing
<1>9. KindsAreTold
  <2> SUFFICES ASSUME NEW k \in Kinds, Silent(news, KindEvents(k)) PROVE Live(k) <=> Shows(k)
    BY <1>1, GreetingIsTrue DEF KindsAreTold
  <2>1. k \notin Published
    BY <1>1, GreetingIsTrue
  <2> QED BY <2>1, <1>2, <1>3, <1>5 DEF Live, Shows
<1>10. MutesAreKnown
  BY <1>1, <1>3, GreetingIsTrue DEF MutesAreKnown
<1>11. LocksAreTold
  BY <1>1, GreetingIsTrue DEF LocksAreTold
<1> QED BY <1>4, <1>6, <1>7, <1>8, <1>9, <1>10, <1>11 DEF RosterIInv

LEMMA RosterSteps == RosterIInv /\ [RosterNext]_rosterVars => RosterIInv'
<1> SUFFICES ASSUME RosterIInv, [RosterNext]_rosterVars PROVE RosterIInv'
  OBVIOUS
<1>1. ASSUME NEW k \in Kinds, Publish(k) PROVE RosterIInv'
  BY <1>1, PublishStep
<1>2. ASSUME NEW k \in Kinds, NEW p \in BOOLEAN, SetPaused(k, p) PROVE RosterIInv'
  BY <1>2, SetPausedStep
<1>3. ASSUME NEW k \in Kinds, ConsumerGranted(k) PROVE RosterIInv'
  BY <1>3, GrantedStep
<1>4. ASSUME NEW k \in Kinds, TrackReady(k) PROVE RosterIInv'
  BY <1>4, TrackReadyStep
<1>5. ASSUME NEW k \in Kinds, TrackFlows(k) PROVE RosterIInv'
  BY <1>5, TrackFlowsStep
<1>6. CASE WorkerAnswers
  BY <1>6, WorkerAnswersStep
<1>7. CASE MuteStep
  BY <1>7, TellStep, OrderStep
<1>8. CASE LockServed
  BY <1>8, LockServedStep
<1>9. ASSUME NEW v \in BOOLEAN, AnotherHostLocks(v) PROVE RosterIInv'
  BY <1>9, AnotherHostLocksStep
<1>10. CASE MuteParticipant \/ MuteAll
  BY <1>10, BeginMuteStep DEF MuteParticipant, MuteAll
<1>11. CASE ToggleLock
  BY <1>11, ToggleLockStep
<1>12. CASE OnProducerAnnounced
  BY <1>12, AnnouncedStep
<1>13. CASE OnConsumer
  BY <1>13, ConsumerStep
<1>14. CASE OnProducerState
  BY <1>14, ProducerStateStep
<1>15. CASE OnPeerMuted
  BY <1>15, PeerMutedStep
<1>16. CASE OnRoomLocked
  BY <1>16, RoomLockedStep
<1>17. CASE Blip
  BY <1>17, BlipStep
<1>18. CASE ComeBack
  BY <1>18, ComeBackStep
<1>19. CASE UNCHANGED rosterVars
  BY <1>19 DEF RosterIInv, RosterTyped, MutesAreTold, UnpublishedUnknown, AwayHearsNothing,
     KindsAreTold, MutesAreKnown, LocksAreTold, Pending, Says, SaysMuted, Shows, Owed, Live,
     rosterVars, rosterServer, rosterClient, rosterHistory
<1> QED BY <1>1, <1>2, <1>3, <1>4, <1>5, <1>6, <1>7, <1>8, <1>9, <1>10, <1>11, <1>12, <1>13,
           <1>14, <1>15, <1>16, <1>17, <1>18, <1>19 DEF RosterNext

LEMMA RosterImplied == RosterIInv => RosterInv
<1> SUFFICES ASSUME RosterIInv PROVE RosterInv
  OBVIOUS
<1>0. /\ RosterTyped /\ KindsAreTold /\ MutesAreKnown /\ LocksAreTold /\ AwayHearsNothing
  BY DEF RosterIInv
<1>1. row["byHost"] \in BOOLEAN /\ DOMAIN producer = Kinds
  BY <1>0 DEF RosterTyped, Rows
<1>2. ASSUME Settled
      PROVE  /\ \A k \in Kinds \ slipped : row[k] = (producer[k] = "live")
             /\ "byHost" \notin slipped /\ row["byHost"] => producer["audio"] # "live"
  <2>1. attending /\ news = <<>> /\ muting = <<>> /\ Pending = {}
    BY <1>2 DEF Settled
  <2>2. \A T : Silent(news, T)
    BY <2>1, NothingAmong
  <2>3. ASSUME NEW k \in Kinds \ slipped PROVE row[k] = (producer[k] = "live")
    <3>1. ~Owed(k)
      BY <2>1 DEF Owed
    <3>2. k \in slipped \/ Owed(k) \/ (Live(k) <=> Shows(k))
      BY <2>1, <2>2, <1>0 DEF KindsAreTold
    <3>3. Live(k) <=> Shows(k)
      BY <3>1, <3>2, <2>3
    <3>4. row[k] \in BOOLEAN
      BY <1>0, <2>3 DEF RosterTyped, Rows, Kinds
    <3> QED BY <3>3, <3>4, <2>1 DEF Shows, Live
  <2>4. "byHost" \in slipped \/ ~row["byHost"] \/ ~Live("audio")
    BY <2>1, <2>2, <1>0 DEF MutesAreKnown
  <2> QED BY <2>3, <2>4 DEF Live
<1>3. ASSUME attending, ~lockSlipped, \A i \in DOMAIN news : news[i].ev # "locked"
      PROVE  shownLock = locked
  <2>1. Silent(news, LockedEvents)
    BY <1>3 DEF Silent, LockedEvents
  <2> QED BY <2>1, <1>3, <1>0 DEF LocksAreTold
<1> QED BY <1>1, <1>2, <1>3 DEF RosterInv

\* Once all is told, the panel shows of the participant what the server does
\* with its media, and the lock there is, however the changes, the mutes, the
\* awaited tracks and the lost connections overlap; only what an event has
\* passed by is exempt (room-tracker.ts, participants-panel.ts).
THEOREM PanelShowsWhatIs == RosterSpec => []RosterInv
<1>1. RosterSpec => []RosterIInv
  BY RosterStarts, RosterSteps, PTL DEF RosterSpec
<1> QED BY <1>1, RosterImplied, PTL
=============================================================================
