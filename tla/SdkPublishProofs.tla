-------------------------- MODULE SdkPublishProofs --------------------------
(***************************************************************************)
(* Proofs about a participant's client: the card before the call, the      *)
(* capture of a device, the list of devices, requests that are answered,   *)
(* the stage, and what is published through drops and resets.              *)
(***************************************************************************)
EXTENDS MCSdkPublish, FiniteSetTheorems, SequenceTheorems, WellFoundedInduction, TLAPS

-----------------------------------------------------------------------------
(***************************************************************************)
(* Proof, for any bound on the confirmations, that in the widget every     *)
(* join is of one confirmation and that skip confirms once.                *)
(***************************************************************************)

\* A confirmation that has not led to a join yet is one whose devices start,
\* and until they have nothing else moves the connection, nor as long as the
\* machine waits for a confirmation; skip has been used up once it has confirmed.
WidgetInv ==
    /\ autos <= 1 /\ (~skipped => autos = 0)
    /\ confirms = begun + IF entry = "devices" THEN 1 ELSE 0
    /\ entry = "devices" => prejoin = "joining"
    /\ entry = "devices" \/ prejoin = "confirming" => conn = "disconnected" /\ ~kicked

PrejoinIInv == PrejoinTypeOK /\ (OnWidget => WidgetInv)

LEMMA PrejoinInitEstablishes == PrejoinInit => PrejoinIInv
<1> SUFFICES ASSUME PrejoinInit PROVE PrejoinIInv
  OBVIOUS
<1>1. {skip, skipped, kicked} \subseteq BOOLEAN
  <2>1. skip \in BOOLEAN /\ skipped \in BOOLEAN /\ kicked \in BOOLEAN
    BY Zenon DEF PrejoinInit
  <2> QED BY <2>1
<1>2. PrejoinTypeOK
  <2>1. autos \in 0 .. confirms /\ confirms \in 0 .. MaxConfirms /\ begun \in Nat
    BY ConfirmsAreNat DEF PrejoinInit
  <2>2. /\ host \in {"widget", "page"} /\ prejoin = "confirming" /\ entry = "none"
        /\ conn = "disconnected" /\ view = "prejoin"
    BY DEF PrejoinInit
  <2> QED BY <1>1, <2>1, <2>2 DEF PrejoinTypeOK
<1>3. WidgetInv
  BY DEF PrejoinInit, WidgetInv
<1> QED BY <1>2, <1>3 DEF PrejoinIInv

\* The machine and the page have their types, whatever is done.
LEMMA PrejoinTypePreserved ==
    ASSUME PrejoinIInv, PrejoinNext
    PROVE  PrejoinTypeOK'
<1> USE ConfirmsAreNat DEF PrejoinIInv, PrejoinTypeOK
<1>1. ASSUME Confirm PROVE PrejoinTypeOK'
  BY <1>1 DEF Confirm, BeginJoin
<1>2. ASSUME SkipGiven PROVE PrejoinTypeOK'
  BY <1>2 DEF SkipGiven
<1>3. ASSUME AutoConfirm PROVE PrejoinTypeOK'
  BY <1>3 DEF AutoConfirm, BeginJoin
<1>4. ASSUME DevicesStarted PROVE PrejoinTypeOK'
  BY <1>4 DEF DevicesStarted
<1>5. ASSUME NEW status \in {"joined", "error"}, JoinSettles(status) PROVE PrejoinTypeOK'
  BY <1>5 DEF JoinSettles
<1>6. ASSUME LeftSettles PROVE PrejoinTypeOK'
  BY <1>6 DEF LeftSettles
<1>7. ASSUME Leave PROVE PrejoinTypeOK'
  BY <1>7 DEF Leave, Released
<1>8. ASSUME Back PROVE PrejoinTypeOK'
  BY <1>8 DEF Back, Released
<1>9. ASSUME RoomIsEnded PROVE PrejoinTypeOK'
  <2>1. kicked' = FALSE /\ UNCHANGED <<host, skip, skipped, prejoin, confirms, autos>>
    BY <1>9 DEF RoomIsEnded, Released
  <2>2. conn' = "disconnected" /\ view' \in {"prejoin", "active", "ended"}
    BY <1>9 DEF RoomIsEnded, Released
  <2>3. entry' \in {"none", "devices", "joining", "left"}
    BY <1>9 DEF RoomIsEnded, Released
  <2>4. begun' \in Nat
    BY <1>9 DEF RoomIsEnded
  <2> QED BY <2>1, <2>2, <2>3, <2>4
<1>10. ASSUME IsKicked PROVE PrejoinTypeOK'
  BY <1>10 DEF IsKicked
<1>11. ASSUME ConnectionFails PROVE PrejoinTypeOK'
  BY <1>11 DEF ConnectionFails
<1> QED BY <1>1, <1>2, <1>3, <1>4, <1>5, <1>6, <1>7, <1>8, <1>9, <1>10, <1>11 DEF PrejoinNext

\* The widget keeps count.
LEMMA WidgetPreserved ==
    ASSUME PrejoinIInv, PrejoinNext, OnWidget'
    PROVE  WidgetInv'
<1> USE DEF PrejoinIInv, PrejoinTypeOK, WidgetInv, OnWidget
<1>1. ASSUME Confirm PROVE WidgetInv'
  BY <1>1 DEF Confirm, BeginJoin, CardShown, InRoom
<1>2. ASSUME SkipGiven PROVE WidgetInv'
  BY <1>2 DEF SkipGiven
<1>3. ASSUME AutoConfirm PROVE WidgetInv'
  BY <1>3 DEF AutoConfirm, BeginJoin, SkipIsDue
<1>4. ASSUME DevicesStarted PROVE WidgetInv'
  BY <1>4 DEF DevicesStarted
<1>5. ASSUME NEW status \in {"joined", "error"}, JoinSettles(status) PROVE WidgetInv'
  BY <1>5 DEF JoinSettles
<1>6. ASSUME LeftSettles PROVE WidgetInv'
  BY <1>6 DEF LeftSettles
<1>7. ASSUME Leave PROVE WidgetInv'
  BY <1>7 DEF Leave, Released, InRoom
<1>8. ASSUME Back PROVE WidgetInv'
  BY <1>8 DEF Back, Released
<1>9. ASSUME RoomIsEnded PROVE WidgetInv'
  BY <1>9 DEF RoomIsEnded, Released, OnPage
<1>10. ASSUME IsKicked PROVE WidgetInv'
  BY <1>10 DEF IsKicked, OnPage
<1>11. ASSUME ConnectionFails PROVE WidgetInv'
  BY <1>11 DEF ConnectionFails
<1> QED BY <1>1, <1>2, <1>3, <1>4, <1>5, <1>6, <1>7, <1>8, <1>9, <1>10, <1>11 DEF PrejoinNext

\* In the widget nobody enters the room unasked, and no confirmation is lost:
\* a join is of one confirmation, and skip confirms once only.
THEOREM JoinIsAlwaysMeant == PrejoinSpec => []JoinIsMeant
<1>1. PrejoinIInv /\ [PrejoinNext]_prejoinVars => PrejoinIInv'
  <2>1. ASSUME PrejoinIInv, PrejoinNext PROVE PrejoinIInv'
    BY <2>1, PrejoinTypePreserved, WidgetPreserved DEF PrejoinIInv
  <2>2. ASSUME PrejoinIInv, UNCHANGED prejoinVars PROVE PrejoinIInv'
    BY <2>2 DEF prejoinVars, PrejoinIInv, PrejoinTypeOK, WidgetInv, OnWidget
  <2> QED BY <2>1, <2>2
<1>2. PrejoinIInv => JoinIsMeant
  BY DEF PrejoinIInv, JoinIsMeant, WidgetInv
<1> QED BY PrejoinInitEstablishes, <1>1, <1>2, PTL DEF PrejoinSpec

-----------------------------------------------------------------------------
(***************************************************************************)
(* Proof, for any number of starts, stops, switches and retries, that a    *)
(* capture holds one live track at most and shows what it holds.           *)
(***************************************************************************)

CaptureTypes ==
    /\ request \in Nat /\ stream \in Nat
    /\ state \in CaptureStates
    /\ \A a \in asking : a.n \in Nat \ {0}
    /\ retryDue \in BOOLEAN /\ switching \in BOOLEAN
    /\ wishedOff \in BOOLEAN /\ restarted \in BOOLEAN

\* Requests have numbers of their own, none is newer than the current one,
\* and one of them at most is a switch.
RequestsApart ==
    /\ \A a \in asking : a.n <= request
    /\ \A a, b \in asking : a.n = b.n => a = b
    /\ \A a, b \in asking : a.by = "switch" /\ b.by = "switch" => a = b

\* The stream that is held is of an answered request; if that is the current
\* one the capture is active, or its track has ended.
StreamAnswered ==
    /\ stream <= request
    /\ stream = request /\ stream # 0 => state \in {"active", "not_found"}

\* CaptureInv by its parts.
OneLive == open \subseteq {stream} \ {0}
ActiveIsLive == state = "active" => stream = request /\ stream \in open
StoppedHoldsNone == state = "stopped" => stream = 0
LoadingWaits == state = "starting" <=> \E a \in asking : a.n = request
SwitchWaits == switching <=> \E a \in asking : a.by = "switch"
RetryInUse == retryDue <=> state = "in_use"
Mirrored == shownState = state /\ shownStream = stream
StopStays == wishedOff /\ ~restarted => state = "stopped"

CaptureIInv ==
    /\ CaptureTypes /\ RequestsApart /\ StreamAnswered
    /\ OneLive /\ ActiveIsLive /\ StoppedHoldsNone /\ LoadingWaits /\ SwitchWaits
    /\ RetryInUse /\ Mirrored /\ StopStays

-----------------------------------------------------------------------------

\* How a control renders each state.
LEMMA StatusMeaning ==
    ASSUME NEW s \in CaptureStates
    PROVE  /\ StatusOf(s) = "on" <=> s = "active"
           /\ StatusOf(s) = "loading" <=> s = "starting"
  BY DEF StatusOf, CaptureStates, Problems

\* A refusal is a problem or a cancellation, never a state of another kind.
LEMMA ErrorClass ==
    ASSUME NEW e \in CaptureErrors
    PROVE  e.class \in (Problems \ {"no_device"}) \cup {"canceled"}
  BY DEF CaptureErrors, Problems

LEMMA CaptureInitEstablishes == CaptureInit => CaptureIInv
<1> SUFFICES ASSUME CaptureInit PROVE CaptureIInv
  OBVIOUS
<1>1. retryDue \in BOOLEAN /\ switching \in BOOLEAN /\ wishedOff \in BOOLEAN /\ restarted \in BOOLEAN
  BY Zenon DEF CaptureInit
<1>2. CaptureTypes
  BY <1>1 DEF CaptureInit, CaptureTypes, CaptureStates
<1> QED BY <1>2 DEF CaptureInit, CaptureIInv, RequestsApart, StreamAnswered, OneLive, ActiveIsLive,
                    StoppedHoldsNone, LoadingWaits, SwitchWaits, RetryInUse, Mirrored, StopStays

\* A new request, beside what is under way, keeps the invariant.
LEMMA AskPreserves ==
    ASSUME CaptureIInv, NEW by, NEW at,
           NEW others \in SUBSET asking, NEW held \in {0, stream},
           AskBrowser(by, at, others, held),
           open' = IF held = 0 THEN open \ {stream} ELSE open,
           by = "switch" => \A a \in others : a.by # "switch",
           switching' = \E a \in asking' : a.by = "switch",
           wishedOff' \in BOOLEAN, restarted' \in BOOLEAN,
           ~wishedOff' \/ restarted'
    PROVE  CaptureIInv'
<1> DEFINE new == [n |-> request + 1, by |-> by, device |-> at]
<1> USE DEF CaptureIInv
<1>1. /\ request' = request + 1 /\ retryDue' = FALSE /\ asking' = others \cup {new}
      /\ state' = "starting" /\ stream' = held /\ Mirrored'
  BY DEF AskBrowser, SetState, Mirrored
<1>2. new.n = request + 1 /\ new.by = by /\ request + 1 \in Nat \ {0}
  BY DEF CaptureTypes
<1>3. switching' \in BOOLEAN /\ SwitchWaits'
  BY Zenon DEF SwitchWaits
<1>4. CaptureTypes'
  <2>1. retryDue' \in BOOLEAN /\ state' \in CaptureStates
    BY <1>1, Zenon DEF CaptureStates
  <2>2. request' \in Nat /\ stream' \in Nat /\ \A a \in asking' : a.n \in Nat \ {0}
    BY <1>1, <1>2 DEF CaptureTypes
  <2> QED BY <1>3, <2>1, <2>2 DEF CaptureTypes
<1>5. RequestsApart'
  BY <1>1, <1>2 DEF RequestsApart, CaptureTypes
<1>6. StreamAnswered' /\ OneLive'
  BY <1>1 DEF StreamAnswered, OneLive, CaptureTypes
<1>7. LoadingWaits'
  <2>1. new \in asking' /\ new.n = request'
    BY <1>1, <1>2
  <2> QED BY <1>1, <2>1 DEF LoadingWaits
<1>8. ActiveIsLive' /\ StoppedHoldsNone' /\ RetryInUse' /\ StopStays'
  BY <1>1 DEF ActiveIsLive, StoppedHoldsNone, RetryInUse, StopStays
<1> QED BY <1>1, <1>3, <1>4, <1>5, <1>6, <1>7, <1>8

\* A request that has returned is under way no more.
LEMMA ReturnedKeeps ==
    ASSUME CaptureIInv, NEW a \in asking, Returned(a), UNCHANGED request
    PROVE  /\ RequestsApart' /\ SwitchWaits' /\ switching' \in BOOLEAN
           /\ asking' \subseteq asking /\ a \notin asking'
           /\ ~Overtaken(a) => \A b \in asking' : b.n # request
           /\ Overtaken(a) => ((\E b \in asking' : b.n = request) <=> \E b \in asking : b.n = request)
<1> USE DEF CaptureIInv
<1>1. asking' = asking \ {a} /\ switching' = (switching /\ a.by # "switch")
  BY DEF Returned
<1>2. RequestsApart' /\ asking' \subseteq asking /\ a \notin asking'
  BY <1>1 DEF RequestsApart
<1>3. switching' \in BOOLEAN
  BY <1>1, Zenon
<1>4. SwitchWaits'
  <2>1. CASE a.by = "switch"
    <3>1. ~switching' /\ \A b \in asking' : b.by # "switch"
      BY <1>1, <2>1 DEF RequestsApart
    <3> QED BY <3>1 DEF SwitchWaits
  <2>2. CASE a.by # "switch"
    BY <1>1, <2>2 DEF SwitchWaits, CaptureTypes
  <2> QED BY <2>1, <2>2
<1>5. ~Overtaken(a) => \A b \in asking' : b.n # request
  BY <1>1 DEF Overtaken, RequestsApart
<1>6. Overtaken(a) => ((\E b \in asking' : b.n = request) <=> \E b \in asking : b.n = request)
  BY <1>1 DEF Overtaken
<1> QED BY <1>2, <1>3, <1>4, <1>5, <1>6

\* One that was overtaken changes nothing else.
LEMMA OvertakenKeeps ==
    ASSUME CaptureIInv, NEW a \in asking, Returned(a), Overtaken(a),
           UNCHANGED <<request, state, stream, shownState, shownStream, open, retryDue, wishedOff, restarted>>
    PROVE  CaptureIInv'
<1> USE DEF CaptureIInv
<1>1. /\ RequestsApart' /\ SwitchWaits' /\ switching' \in BOOLEAN
      /\ asking' \subseteq asking
      /\ (\E b \in asking' : b.n = request) <=> \E b \in asking : b.n = request
  BY ReturnedKeeps
<1>2. CaptureTypes'
  BY <1>1 DEF CaptureTypes
<1>3. LoadingWaits'
  BY <1>1 DEF LoadingWaits
<1> QED BY <1>1, <1>2, <1>3 DEF StreamAnswered, OneLive, ActiveIsLive, StoppedHoldsNone, RetryInUse,
                                Mirrored, StopStays

\* What the current request finds: the capture is starting, no retry is due,
\* and it has not been stopped.
LEMMA CurrentIsStarting ==
    ASSUME CaptureIInv, NEW a \in asking, ~Overtaken(a)
    PROVE  state = "starting" /\ ~retryDue /\ ~(wishedOff /\ ~restarted) /\ (stream = 0 \/ stream < request)
<1> USE DEF CaptureIInv
<1>1. state = "starting"
  BY DEF Overtaken, LoadingWaits
<1> QED BY <1>1 DEF RetryInUse, StopStays, StreamAnswered, CaptureTypes

\* The current request returns with a state in which nothing is awaited.
LEMMA SettlesPreserves ==
    ASSUME CaptureIInv, NEW a \in asking, Returned(a), ~Overtaken(a),
           NEW s \in CaptureStates \ {"starting", "stopped"}, NEW held,
           SetState(s, held),
           s = "active" => held = a.n /\ open' = (open \ {stream}) \cup {a.n},
           s # "active" => held = stream /\ open' = open,
           retryDue' = (s = "in_use"),
           UNCHANGED <<request, wishedOff, restarted>>
    PROVE  CaptureIInv'
<1> USE DEF CaptureIInv
<1>1. /\ RequestsApart' /\ SwitchWaits' /\ switching' \in BOOLEAN
      /\ asking' \subseteq asking /\ \A b \in asking' : b.n # request
  BY ReturnedKeeps
<1>2. state' = s /\ stream' = held /\ Mirrored' /\ a.n = request /\ a.n \in Nat \ {0}
  BY DEF SetState, Mirrored, Overtaken, CaptureTypes
<1>3. /\ ~(wishedOff /\ ~restarted) /\ (stream = 0 \/ stream < request)
  BY CurrentIsStarting
<1>4. held \in Nat /\ held <= request
  BY <1>2, <1>3 DEF CaptureTypes, StreamAnswered
<1>5. retryDue' \in BOOLEAN /\ RetryInUse'
  BY <1>2, Zenon DEF RetryInUse
<1>6. CaptureTypes'
  BY <1>1, <1>2, <1>4, <1>5 DEF CaptureTypes
<1>7. StreamAnswered'
  BY <1>2, <1>3, <1>4 DEF StreamAnswered, CaptureTypes
<1>8. OneLive' /\ ActiveIsLive'
  <2>1. CASE s = "active"
    BY <1>2, <2>1 DEF OneLive, ActiveIsLive
  <2>2. CASE s # "active"
    BY <1>2, <2>2 DEF OneLive, ActiveIsLive
  <2> QED BY <2>1, <2>2
<1>9. LoadingWaits' /\ StoppedHoldsNone' /\ StopStays'
  BY <1>1, <1>2, <1>3 DEF LoadingWaits, StoppedHoldsNone, StopStays
<1> QED BY <1>1, <1>2, <1>5, <1>6, <1>7, <1>8, <1>9

\* A request that takes the place of another of its kind, or none, leaves the
\* lock as it is.
LEMMA SwitchWaitsOn ==
    ASSUME CaptureIInv, UNCHANGED switching,
           NEW by, NEW at, NEW held,
           \/ by # "switch" /\ AskBrowser(by, at, asking, held)
           \/ \E a \in asking : a.by = by /\ AskBrowser(by, at, asking \ {a}, held)
    PROVE  switching' = \E b \in asking' : b.by = "switch"
<1>1. switching = \E b \in asking : b.by = "switch"
  BY Zenon DEF CaptureIInv, SwitchWaits, CaptureTypes
<1>2. (\E b \in asking' : b.by = "switch") <=> \E b \in asking : b.by = "switch"
  <2> DEFINE new == [n |-> request + 1, by |-> by, device |-> at]
  <2>1. new.by = by
    OBVIOUS
  <2>2. CASE by # "switch" /\ AskBrowser(by, at, asking, held)
    <3>1. asking' = asking \cup {new}
      BY <2>2 DEF AskBrowser
    <3> HIDE DEF new
    <3> QED BY <2>1, <2>2, <3>1
  <2>3. CASE \E a \in asking : a.by = by /\ AskBrowser(by, at, asking \ {a}, held)
    <3>1. PICK a \in asking : a.by = by /\ AskBrowser(by, at, asking \ {a}, held)
      BY <2>3
    <3>2. asking' = (asking \ {a}) \cup {new}
      BY <3>1 DEF AskBrowser
    <3> HIDE DEF new
    <3> QED BY <2>1, <3>1, <3>2
  <2> QED BY <2>2, <2>3
<1> QED BY <1>1, <1>2, Zenon

\* A start, a switch and a stop of the application's.
LEMMA WishesPreserve ==
    ASSUME CaptureIInv, NEW at \in BOOLEAN,
           AskForCapture(at) \/ SwitchCapture \/ EndCapture
    PROVE  CaptureIInv'
<1> USE DEF CaptureIInv
<1>1. CASE AskForCapture(at)
  <2>1. /\ AskBrowser("user", at, asking, stream) /\ open' = open
        /\ switching' = switching /\ wishedOff' = FALSE /\ restarted' = restarted
    BY <1>1, Zenon DEF AskForCapture
  <2>2. switching' = \E a \in asking' : a.by = "switch"
    BY <2>1, SwitchWaitsOn
  <2>3. open' = IF stream = 0 THEN open \ {stream} ELSE open
    BY <2>1 DEF OneLive
  <2>4. wishedOff' \in BOOLEAN /\ restarted' \in BOOLEAN /\ (~wishedOff' \/ restarted')
    BY <2>1, Zenon DEF CaptureTypes
  <2> QED BY <2>1, <2>2, <2>3, <2>4, AskPreserves
<1>2. CASE SwitchCapture
  <2>1. /\ AskBrowser("switch", TRUE, asking, 0) /\ open' = open \ {stream} /\ ~switching
        /\ switching' = TRUE /\ wishedOff' = FALSE /\ restarted' = restarted
    BY <1>2, Zenon DEF SwitchCapture
  <2>2. \A a \in asking : a.by # "switch"
    BY <2>1 DEF SwitchWaits
  <2> DEFINE new == [n |-> request + 1, by |-> "switch", device |-> TRUE]
  <2>3. switching' = \E a \in asking' : a.by = "switch"
    <3>1. new \in asking' /\ new.by = "switch"
      BY <2>1 DEF AskBrowser
    <3> QED BY <2>1, <3>1, Zenon
  <2>4. wishedOff' \in BOOLEAN /\ restarted' \in BOOLEAN /\ (~wishedOff' \/ restarted')
    BY <2>1, Zenon DEF CaptureTypes
  <2> QED BY <2>1, <2>2, <2>3, <2>4, AskPreserves
<1>3. CASE EndCapture
  <2>1. /\ request' = request + 1 /\ retryDue' = FALSE /\ open' = open \ {stream}
        /\ state' = "stopped" /\ stream' = 0 /\ Mirrored' /\ asking' = asking
        /\ switching' = switching /\ wishedOff' = TRUE /\ restarted' = restarted
    BY <1>3 DEF EndCapture, SetState, Mirrored
  <2>2. CaptureTypes'
    <3>1. retryDue' \in BOOLEAN /\ wishedOff' \in BOOLEAN /\ state' \in CaptureStates
      BY <2>1, Zenon DEF CaptureStates
    <3> QED BY <2>1, <3>1 DEF CaptureTypes
  <2>3. RequestsApart' /\ LoadingWaits'
    BY <2>1 DEF RequestsApart, LoadingWaits, CaptureTypes
  <2>4. StreamAnswered' /\ OneLive' /\ ActiveIsLive' /\ StoppedHoldsNone'
    BY <2>1, <2>2 DEF StreamAnswered, OneLive, ActiveIsLive, StoppedHoldsNone, CaptureTypes
  <2>5. SwitchWaits' /\ RetryInUse' /\ StopStays'
    BY <2>1 DEF SwitchWaits, RetryInUse, StopStays
  <2> QED BY <2>1, <2>2, <2>3, <2>4, <2>5
<1> QED BY <1>1, <1>2, <1>3

\* What becomes of a request: a stream, one without a track, a device that is
\* gone, a refusal.
LEMMA AnswersPreserve ==
    ASSUME CaptureIInv, NEW a \in asking, NEW e \in CaptureErrors,
           StreamComes(a) \/ NoTrackComes(a) \/ DeviceMissing(a) \/ CaptureRefused(a, e)
    PROVE  CaptureIInv'
<1> USE DEF CaptureIInv
<1>1. CASE StreamComes(a)
  <2>1. Returned(a) /\ UNCHANGED <<request, retryDue, wishedOff, restarted>>
    BY <1>1 DEF StreamComes
  <2>2. CASE Overtaken(a)
    BY <1>1, <2>1, <2>2, OvertakenKeeps DEF StreamComes
  <2>3. CASE ~Overtaken(a)
    <3>1. SetState("active", a.n) /\ open' = (open \ {stream}) \cup {a.n}
      BY <1>1, <2>3 DEF StreamComes
    <3>2. retryDue' = ("active" = "in_use")
      <4>1. retryDue' = FALSE
        BY <2>1, <2>3, CurrentIsStarting DEF CaptureTypes
      <4>2. "active" # "in_use"
        OBVIOUS
      <4> QED BY <4>1, <4>2, Zenon
    <3>3. "active" \in CaptureStates \ {"starting", "stopped"}
      BY DEF CaptureStates
    <3> QED BY <2>1, <2>3, <3>1, <3>2, <3>3, SettlesPreserves
  <2> QED BY <2>2, <2>3
<1>2. CASE NoTrackComes(a)
  <2>1. Returned(a) /\ UNCHANGED <<request, retryDue, open, wishedOff, restarted>>
    BY <1>2 DEF NoTrackComes
  <2>2. CASE Overtaken(a)
    BY <1>2, <2>1, <2>2, OvertakenKeeps DEF NoTrackComes
  <2>3. CASE ~Overtaken(a)
    <3>1. SetState("no_device", stream)
      BY <1>2, <2>3 DEF NoTrackComes
    <3>2. retryDue' = ("no_device" = "in_use")
      <4>1. retryDue' = FALSE
        BY <2>1, <2>3, CurrentIsStarting DEF CaptureTypes
      <4>2. "no_device" # "in_use"
        OBVIOUS
      <4> QED BY <4>1, <4>2, Zenon
    <3>3. "no_device" \in CaptureStates \ {"starting", "stopped", "active"}
      BY DEF CaptureStates, Problems
    <3> QED BY <2>1, <2>3, <3>1, <3>2, <3>3, SettlesPreserves
  <2> QED BY <2>2, <2>3
<1>3. CASE DeviceMissing(a)
  <2>1. /\ AskBrowser(a.by, FALSE, asking \ {a}, stream) /\ open' = open
        /\ switching' = switching /\ wishedOff' = wishedOff
        /\ restarted' = (restarted \/ Overtaken(a))
    BY <1>3, Zenon DEF DeviceMissing
  <2>3. a.by = "switch" => \A b \in asking \ {a} : b.by # "switch"
    BY DEF RequestsApart
  <2>4. switching' = \E b \in asking' : b.by = "switch"
    BY <2>1, SwitchWaitsOn
  <2>5. open' = IF stream = 0 THEN open \ {stream} ELSE open
    BY <2>1 DEF OneLive
  <2>6. wishedOff' \in BOOLEAN /\ restarted' \in BOOLEAN
    BY <2>1, Zenon DEF CaptureTypes
  <2>7. ~wishedOff' \/ restarted'
    BY <2>1, CurrentIsStarting, Zenon
  <2> QED BY <2>1, <2>3, <2>4, <2>5, <2>6, <2>7, AskPreserves
<1>4. CASE CaptureRefused(a, e)
  <2>1. Returned(a) /\ UNCHANGED <<request, open, wishedOff, restarted>>
    BY <1>4 DEF CaptureRefused
  <2>2. CASE Overtaken(a)
    BY <1>4, <2>1, <2>2, OvertakenKeeps DEF CaptureRefused
  <2>3. CASE ~Overtaken(a)
    <3>1. SetState(e.class, stream) /\ retryDue' = (retryDue \/ e.class = "in_use")
      BY <1>4, <2>3, Zenon DEF CaptureRefused
    <3>2. retryDue' = (e.class = "in_use")
      BY <3>1, <2>3, CurrentIsStarting, Zenon
    <3>3. e.class \in CaptureStates \ {"starting", "stopped", "active"}
      BY ErrorClass DEF CaptureStates, Problems
    <3> QED BY <2>1, <2>3, <3>1, <3>2, <3>3, SettlesPreserves
  <2> QED BY <2>2, <2>3
<1> QED BY <1>1, <1>2, <1>3, <1>4

\* The retry of a device in use.
LEMMA RetryPreserves == CaptureIInv /\ RetryIsDue => CaptureIInv'
<1> SUFFICES ASSUME CaptureIInv, RetryIsDue PROVE CaptureIInv'
  OBVIOUS
<1> USE DEF CaptureIInv
<1>1. /\ AskBrowser("timer", known, asking, stream) /\ open' = open /\ retryDue
      /\ switching' = switching /\ wishedOff' = wishedOff /\ restarted' = restarted
  BY Zenon DEF RetryIsDue
<1>2. wishedOff \in BOOLEAN /\ restarted \in BOOLEAN
  BY DEF CaptureTypes
<1>3. switching' = \E a \in asking' : a.by = "switch"
  BY <1>1, SwitchWaitsOn
<1>4. open' = IF stream = 0 THEN open \ {stream} ELSE open
  BY <1>1 DEF OneLive
<1>5. ~wishedOff' \/ restarted'
  BY <1>1, <1>2 DEF RetryInUse, StopStays
<1> QED BY <1>1, <1>2, <1>3, <1>4, <1>5, AskPreserves

\* A track that ends.
LEMMA TrackEndPreserves == ASSUME CaptureIInv, NEW n \in open, TrackEnds(n) PROVE CaptureIInv'
<1> USE DEF CaptureIInv
<1>1. /\ open' = open \ {n} /\ n = stream /\ n # 0
      /\ UNCHANGED <<request, retryDue, asking, switching, wishedOff, restarted>>
  BY DEF TrackEnds, OneLive
<1>2. CASE n = request
  <2>1. state' = "not_found" /\ stream' = stream /\ Mirrored' /\ known' = FALSE
    BY <1>2 DEF TrackEnds, SetState, Mirrored
  <2>2. state \in {"active", "not_found"}
    BY <1>1, <1>2 DEF StreamAnswered
  <2>3. CaptureTypes'
    BY <1>1, <2>1 DEF CaptureTypes, CaptureStates, Problems
  <2>4. StreamAnswered' /\ OneLive' /\ ActiveIsLive' /\ StoppedHoldsNone'
    BY <1>1, <2>1 DEF StreamAnswered, OneLive, ActiveIsLive, StoppedHoldsNone
  <2>5. RequestsApart' /\ LoadingWaits' /\ SwitchWaits' /\ RetryInUse' /\ StopStays'
    BY <1>1, <2>1, <2>2 DEF RequestsApart, LoadingWaits, SwitchWaits, RetryInUse, StopStays
  <2> QED BY <2>1, <2>3, <2>4, <2>5
<1>3. CASE n # request
  <2>1. UNCHANGED <<state, stream, shownState, shownStream, known>>
    BY <1>3 DEF TrackEnds
  <2>2. state # "active"
    BY <1>1, <1>3 DEF ActiveIsLive
  <2>3. CaptureTypes' /\ RequestsApart' /\ StreamAnswered'
    BY <1>1, <2>1 DEF CaptureTypes, RequestsApart, StreamAnswered
  <2>4. OneLive' /\ ActiveIsLive' /\ StoppedHoldsNone' /\ LoadingWaits' /\ SwitchWaits'
        /\ RetryInUse' /\ Mirrored' /\ StopStays'
    BY <1>1, <2>1, <2>2 DEF OneLive, ActiveIsLive, StoppedHoldsNone, LoadingWaits, SwitchWaits, RetryInUse,
                            Mirrored, StopStays
  <2> QED BY <2>3, <2>4
<1> QED BY <1>2, <1>3

LEMMA CaptureStepPreserves == CaptureIInv /\ [CaptureNext]_captureVars => CaptureIInv'
<1> SUFFICES ASSUME CaptureIInv, [CaptureNext]_captureVars PROVE CaptureIInv'
  OBVIOUS
<1>1. CASE SwitchCapture \/ EndCapture
  BY <1>1, WishesPreserve, Zenon
<1>2. CASE RetryIsDue
  BY <1>2, RetryPreserves
<1>3. CASE \E at \in BOOLEAN : AskForCapture(at)
  BY <1>3, WishesPreserve, Zenon
<1>4. CASE \E a \in asking : StreamComes(a) \/ NoTrackComes(a) \/ DeviceMissing(a)
  <2>1. [missing |-> TRUE, class |-> "not_found"] \in CaptureErrors
    BY DEF CaptureErrors
  <2> QED BY <1>4, <2>1, AnswersPreserve, Zenon
<1>5. CASE \E a \in asking : \E e \in CaptureErrors : CaptureRefused(a, e)
  BY <1>5, AnswersPreserve, Zenon
<1>6. CASE \E n \in open : TrackEnds(n)
  BY <1>6, TrackEndPreserves, Zenon
<1>7. CASE UNCHANGED captureVars
  BY <1>7 DEF captureVars, CaptureIInv, CaptureTypes, RequestsApart, StreamAnswered, OneLive, ActiveIsLive,
              StoppedHoldsNone, LoadingWaits, SwitchWaits, RetryInUse, Mirrored, StopStays
<1> QED BY <1>1, <1>2, <1>3, <1>4, <1>5, <1>6, <1>7, Zenon DEF CaptureNext

\* One live track at most, none after a stop, and none shown that is not the
\* one: for any number of starts, stops, switches, retries and answers.
THEOREM CaptureAlwaysInOrder == CaptureSpec => []CaptureInv
<1>1. CaptureIInv => CaptureInv
  <2> SUFFICES ASSUME CaptureIInv PROVE CaptureInv
    OBVIOUS
  <2>1. /\ StatusOf(state) = "on" <=> state = "active"
        /\ StatusOf(state) = "loading" <=> state = "starting"
    BY StatusMeaning DEF CaptureIInv, CaptureTypes
  <2> QED BY <2>1 DEF CaptureIInv, CaptureInv, OneLive, ActiveIsLive, StoppedHoldsNone, LoadingWaits,
                      SwitchWaits, RetryInUse, Mirrored, StopStays
<1> QED BY <1>1, CaptureInitEstablishes, CaptureStepPreserves, PTL DEF CaptureSpec

-----------------------------------------------------------------------------
(***************************************************************************)
(* The permission that is shown is the browser's once nothing is under     *)
(* way: the latest query alone counts, whatever the browser changed after  *)
(* it had read the status it will have a change for, and a query that was  *)
(* answered, or failed, is not answered again.                             *)
(***************************************************************************)

Permissions == {"prompting", "granted", "denied"}
Queries == [n : Nat, value : Permissions \cup {"unread"}]

Refreshes == [n : Nat, value : SUBSET Cameras, read : BOOLEAN]

\* Every variable has its type.
PermissionTyped ==
    /\ permission \in Permissions /\ shownAs \in Permissions \cup {"unknown"}
    /\ querySeq \in Nat /\ queries \subseteq Queries
    /\ \A q \in queries : q.n \in 1 .. querySeq
    /\ heeded \subseteq 1 .. querySeq /\ changes \subseteq 1 .. querySeq
    /\ untold \in BOOLEAN /\ refused \in BOOLEAN /\ events \in 0 .. MaxEvents

ListTyped ==
    /\ present \subseteq Cameras /\ listed \subseteq Cameras /\ loading \in BOOLEAN
    /\ enumerated.n \in Nat
    /\ refreshes \subseteq Refreshes

ChoiceTyped ==
    /\ picked \in Cameras \cup {NoCamera} /\ saved \in Cameras \cup {NoCamera}
    /\ remembered \in Cameras \cup {NoCamera} /\ using \in Cameras \cup {NoCamera}
    /\ opening \in [camera : Cameras \cup {NoCamera}, by : {"start", "panel", "nobody"}]

\* A query is under way once, and not when it has been answered.
AnsweredOnce ==
    /\ \A q, r \in queries : q.n = r.n => q = r
    /\ \A q \in queries : q.n \notin heeded

\* What the latest query has read, and what is shown once it was answered, is
\* the browser's permission unless a change is still to be told.
LatestCounts ==
    /\ \A q \in queries : q.n = querySeq /\ q.value # "unread" =>
          q.value = permission \/ querySeq \in changes
    /\ querySeq \in heeded => shownAs = permission \/ querySeq \in changes \/ untold
    /\ refused => shownAs = "unknown" /\ querySeq \notin heeded /\ \A q \in queries : q.n # querySeq
    /\ querySeq \in heeded \/ refused \/ \E q \in queries : q.n = querySeq

DevicesIInv == PermissionTyped /\ ListTyped /\ ChoiceTyped /\ AnsweredOnce /\ LatestCounts

-----------------------------------------------------------------------------

LEMMA DevicesInitially == DevicesInit => DevicesIInv
<1> SUFFICES ASSUME DevicesInit PROVE DevicesIInv
  OBVIOUS
<1>1. PermissionTyped
  <2>1. queries = {[n |-> 1, value |-> "unread"]} /\ querySeq = 1
    BY DEF DevicesInit
  <2>2. queries \subseteq Queries /\ \A q \in queries : q.n \in 1 .. querySeq
    BY <2>1 DEF Queries
  <2>3. events \in 0 .. MaxEvents
    BY EventsAreNat DEF DevicesInit
  <2>4. heeded \subseteq 1 .. querySeq /\ changes \subseteq 1 .. querySeq
    BY DEF DevicesInit
  <2>5. permission \in Permissions /\ shownAs = "unknown" /\ untold = FALSE /\ refused = FALSE
    BY DEF DevicesInit, Permissions
  <2> QED BY <2>1, <2>2, <2>3, <2>4, <2>5 DEF PermissionTyped
<1>2. ListTyped /\ ChoiceTyped
  BY DEF DevicesInit, ListTyped, Refreshes, ChoiceTyped, NoCamera, NotOpening
<1>3. AnsweredOnce /\ LatestCounts
  BY DEF DevicesInit, AnsweredOnce, LatestCounts
<1> QED BY <1>1, <1>2, <1>3 DEF DevicesIInv

LEMMA PermissionTypedStep ==
    ASSUME DevicesIInv, DevicesNext
    PROVE  PermissionTyped'
<1> USE DEF DevicesIInv, PermissionTyped, Permissions, Queries, permissionVars, listVars,
       choiceVars
<1>a. MaxEvents \in Nat
  BY EventsAreNat
<1>1. ASSUME QueryAsked PROVE PermissionTyped'
  <2>1. /\ querySeq' = querySeq + 1 /\ queries' = queries \cup {[n |-> querySeq + 1, value |-> "unread"]}
        /\ events' = events + 1 /\ events < MaxEvents
        /\ UNCHANGED <<permission, shownAs, heeded, changes>> /\ untold' = FALSE /\ refused' = FALSE
    BY <1>1 DEF QueryAsked, Happens
  <2>2. [n |-> querySeq + 1, value |-> "unread"] \in Queries
    OBVIOUS
  <2>3. \A q \in queries' : q.n \in 1 .. querySeq' /\ q \in Queries
    BY <2>1, <2>2
  <2>4. events' \in 0 .. MaxEvents
    BY <1>a, <2>1
  <2>5. heeded' \subseteq 1 .. querySeq' /\ changes' \subseteq 1 .. querySeq' /\ querySeq' \in Nat
    BY <2>1
  <2> QED BY <2>1, <2>3, <2>4, <2>5
<1>2. ASSUME NEW q \in queries, BrowserReads(q) PROVE PermissionTyped'
  BY <1>a, <1>2 DEF BrowserReads
<1>3. ASSUME NEW q \in queries, QueryAnswered(q) PROVE PermissionTyped'
  BY <1>a, <1>3 DEF QueryAnswered, LatestQuery
<1>4. ASSUME NEW q \in queries, QueryFails(q) PROVE PermissionTyped'
  BY <1>a, <1>4 DEF QueryFails, LatestQuery
<1>5. ASSUME NEW p \in Permissions, PermissionChanges(p) PROVE PermissionTyped'
  <2>1. changes' \subseteq 1 .. querySeq
    BY <1>5 DEF PermissionChanges
  <2>2. events' \in 0 .. MaxEvents
    BY <1>a, <1>5 DEF PermissionChanges, Happens
  <2> QED BY <1>5, <2>1, <2>2 DEF PermissionChanges
<1>6. ASSUME NEW n \in changes, ChangeTold(n) PROVE PermissionTyped'
  BY <1>a, <1>6 DEF ChangeTold, LatestQuery
<1>7. ASSUME NEW n \in changes, ChangeNotTold(n) PROVE PermissionTyped'
  BY <1>a, <1>7 DEF ChangeNotTold
<1>8. ASSUME NEW c \in Cameras, DeviceChanges(c) PROVE PermissionTyped'
  BY <1>a, <1>8 DEF DeviceChanges, Happens, Refresh
<1>9. ASSUME NEW c \in Cameras, Select(c) PROVE PermissionTyped'
  BY <1>a, <1>9 DEF Select, Happens
<1>10. ASSUME NEW c \in Cameras, PanelSwitch(c) PROVE PermissionTyped'
  BY <1>a, <1>10 DEF PanelSwitch, Happens
<1>11. ASSUME NEW c \in Cameras, Opened(c) PROVE PermissionTyped'
  BY <1>a, <1>11 DEF Opened
<1>12. ASSUME NEW r \in refreshes, BrowserLists(r) PROVE PermissionTyped'
  BY <1>a, <1>12 DEF BrowserLists
<1>13. ASSUME NEW r \in refreshes, ListArrives(r) PROVE PermissionTyped'
  BY <1>a, <1>13 DEF ListArrives
<1>14. ASSUME NEW r \in refreshes, ListFails(r) PROVE PermissionTyped'
  BY <1>a, <1>14 DEF ListFails
<1>15. ASSUME SelectionSaved PROVE PermissionTyped'
  BY <1>a, <1>15 DEF SelectionSaved
<1>16. ASSUME StartCapture PROVE PermissionTyped'
  BY <1>a, <1>16 DEF StartCapture, Happens
<1>17. ASSUME OpenFails PROVE PermissionTyped'
  BY <1>a, <1>17 DEF OpenFails
<1>18. ASSUME StopCamera PROVE PermissionTyped'
  BY <1>a, <1>18 DEF StopCamera, Happens
<1> QED BY <1>a, <1>1, <1>2, <1>3, <1>4, <1>5, <1>6, <1>7, <1>8, <1>9, <1>10, <1>11, <1>12,
           <1>13, <1>14, <1>15, <1>16, <1>17, <1>18 DEF DevicesNext, Permissions

LEMMA ListTypedStep ==
    ASSUME DevicesIInv, DevicesNext
    PROVE  ListTyped'
<1> USE DEF DevicesIInv, ListTyped, Refreshes, permissionVars, listVars, choiceVars
<1>1. ASSUME QueryAsked PROVE ListTyped'
  BY <1>1 DEF QueryAsked, Happens
<1>2. ASSUME NEW q \in queries, BrowserReads(q) PROVE ListTyped'
  BY <1>2 DEF BrowserReads
<1>3. ASSUME NEW q \in queries, QueryAnswered(q) PROVE ListTyped'
  BY <1>3 DEF QueryAnswered, LatestQuery
<1>4. ASSUME NEW q \in queries, QueryFails(q) PROVE ListTyped'
  BY <1>4 DEF QueryFails, LatestQuery
<1>5. ASSUME NEW p \in Permissions, PermissionChanges(p) PROVE ListTyped'
  BY <1>5 DEF PermissionChanges, Happens
<1>6. ASSUME NEW n \in changes, ChangeTold(n) PROVE ListTyped'
  BY <1>6 DEF ChangeTold, LatestQuery
<1>7. ASSUME NEW n \in changes, ChangeNotTold(n) PROVE ListTyped'
  BY <1>7 DEF ChangeNotTold
<1>8. ASSUME NEW c \in Cameras, DeviceChanges(c) PROVE ListTyped'
  <2>1. /\ refreshes' = refreshes \cup {[n |-> enumerated.n + 1, value |-> {}, read |-> FALSE]}
        /\ enumerated'.n = enumerated.n + 1 /\ loading' = TRUE /\ listed' = listed
        /\ present' = IF c \in present THEN present \ {c} ELSE present \cup {c}
    BY <1>8 DEF DeviceChanges, Refresh
  <2>2. [n |-> enumerated.n + 1, value |-> {}, read |-> FALSE] \in Refreshes
    OBVIOUS
  <2> HIDE DEF Refreshes
  <2>3. refreshes' \subseteq Refreshes
    BY <2>1, <2>2
  <2>4. present' \subseteq Cameras
    BY <2>1
  <2>5. enumerated'.n \in Nat
    BY <2>1
  <2> QED BY <2>1, <2>3, <2>4, <2>5
<1>9. ASSUME NEW c \in Cameras, Select(c) PROVE ListTyped'
  BY <1>9 DEF Select, Happens
<1>10. ASSUME NEW c \in Cameras, PanelSwitch(c) PROVE ListTyped'
  BY <1>10 DEF PanelSwitch, Happens
<1>11. ASSUME NEW c \in Cameras, Opened(c) PROVE ListTyped'
  BY <1>11 DEF Opened
<1>12. ASSUME NEW r \in refreshes, BrowserLists(r) PROVE ListTyped'
  BY <1>12 DEF BrowserLists
<1>13. ASSUME NEW r \in refreshes, ListArrives(r) PROVE ListTyped'
  BY <1>13 DEF ListArrives
<1>14. ASSUME NEW r \in refreshes, ListFails(r) PROVE ListTyped'
  <2>1. enumerated'.n = enumerated.n
    BY <1>14 DEF ListFails
  <2> QED BY <1>14, <2>1 DEF ListFails
<1>15. ASSUME SelectionSaved PROVE ListTyped'
  BY <1>15 DEF SelectionSaved
<1>16. ASSUME StartCapture PROVE ListTyped'
  BY <1>16 DEF StartCapture, Happens
<1>17. ASSUME OpenFails PROVE ListTyped'
  BY <1>17 DEF OpenFails
<1>18. ASSUME StopCamera PROVE ListTyped'
  BY <1>18 DEF StopCamera, Happens
<1> QED BY <1>1, <1>2, <1>3, <1>4, <1>5, <1>6, <1>7, <1>8, <1>9, <1>10, <1>11, <1>12, <1>13,
           <1>14, <1>15, <1>16, <1>17, <1>18 DEF DevicesNext, Permissions

LEMMA ChoiceTypedStep ==
    ASSUME DevicesIInv, DevicesNext
    PROVE  ChoiceTyped'
<1> USE DEF DevicesIInv, ChoiceTyped, ListTyped, NoCamera, NotOpening, permissionVars, listVars,
       choiceVars
<1>1. ASSUME QueryAsked PROVE ChoiceTyped'
  BY <1>1 DEF QueryAsked, Happens
<1>2. ASSUME NEW q \in queries, BrowserReads(q) PROVE ChoiceTyped'
  BY <1>2 DEF BrowserReads
<1>3. ASSUME NEW q \in queries, QueryAnswered(q) PROVE ChoiceTyped'
  BY <1>3 DEF QueryAnswered, LatestQuery
<1>4. ASSUME NEW q \in queries, QueryFails(q) PROVE ChoiceTyped'
  BY <1>4 DEF QueryFails, LatestQuery
<1>5. ASSUME NEW p \in Permissions, PermissionChanges(p) PROVE ChoiceTyped'
  BY <1>5 DEF PermissionChanges, Happens
<1>6. ASSUME NEW n \in changes, ChangeTold(n) PROVE ChoiceTyped'
  BY <1>6 DEF ChangeTold, LatestQuery
<1>7. ASSUME NEW n \in changes, ChangeNotTold(n) PROVE ChoiceTyped'
  BY <1>7 DEF ChangeNotTold
<1>8. ASSUME NEW c \in Cameras, DeviceChanges(c) PROVE ChoiceTyped'
  BY <1>8 DEF DeviceChanges, Happens, Refresh
<1>9. ASSUME NEW c \in Cameras, Select(c) PROVE ChoiceTyped'
  BY <1>9 DEF Select, Happens
<1>10. ASSUME NEW c \in Cameras, PanelSwitch(c) PROVE ChoiceTyped'
  BY <1>10 DEF PanelSwitch, Happens
<1>11. ASSUME NEW c \in Cameras, Opened(c) PROVE ChoiceTyped'
  BY <1>11 DEF Opened
<1>12. ASSUME NEW r \in refreshes, BrowserLists(r) PROVE ChoiceTyped'
  BY <1>12 DEF BrowserLists
<1>13. ASSUME NEW r \in refreshes, ListArrives(r) PROVE ChoiceTyped'
  BY <1>13 DEF ListArrives
<1>14. ASSUME NEW r \in refreshes, ListFails(r) PROVE ChoiceTyped'
  BY <1>14 DEF ListFails
<1>15. ASSUME SelectionSaved PROVE ChoiceTyped'
  BY <1>15 DEF SelectionSaved
<1>16. ASSUME StartCapture PROVE ChoiceTyped'
  BY <1>16 DEF StartCapture, Happens
<1>17. ASSUME OpenFails PROVE ChoiceTyped'
  BY <1>17 DEF OpenFails
<1>18. ASSUME StopCamera PROVE ChoiceTyped'
  BY <1>18 DEF StopCamera, Happens
<1> QED BY <1>1, <1>2, <1>3, <1>4, <1>5, <1>6, <1>7, <1>8, <1>9, <1>10, <1>11, <1>12, <1>13,
           <1>14, <1>15, <1>16, <1>17, <1>18 DEF DevicesNext, Permissions

LEMMA AnsweredOnceStep ==
    ASSUME DevicesIInv, DevicesNext
    PROVE  AnsweredOnce'
<1> USE DEF DevicesIInv, PermissionTyped, Permissions, Queries, AnsweredOnce, permissionVars,
       listVars, choiceVars
<1>1. ASSUME QueryAsked PROVE AnsweredOnce'
  BY <1>1 DEF QueryAsked, Happens
<1>2. ASSUME NEW q \in queries, BrowserReads(q) PROVE AnsweredOnce'
  BY <1>2 DEF BrowserReads
<1>3. ASSUME NEW q \in queries, QueryAnswered(q) PROVE AnsweredOnce'
  BY <1>3 DEF QueryAnswered, LatestQuery
<1>4. ASSUME NEW q \in queries, QueryFails(q) PROVE AnsweredOnce'
  BY <1>4 DEF QueryFails, LatestQuery
<1>5. ASSUME NEW p \in Permissions, PermissionChanges(p) PROVE AnsweredOnce'
  BY <1>5 DEF PermissionChanges, Happens
<1>6. ASSUME NEW n \in changes, ChangeTold(n) PROVE AnsweredOnce'
  BY <1>6 DEF ChangeTold, LatestQuery
<1>7. ASSUME NEW n \in changes, ChangeNotTold(n) PROVE AnsweredOnce'
  BY <1>7 DEF ChangeNotTold
<1>8. ASSUME NEW c \in Cameras, DeviceChanges(c) PROVE AnsweredOnce'
  BY <1>8 DEF DeviceChanges, Happens, Refresh
<1>9. ASSUME NEW c \in Cameras, Select(c) PROVE AnsweredOnce'
  BY <1>9 DEF Select, Happens
<1>10. ASSUME NEW c \in Cameras, PanelSwitch(c) PROVE AnsweredOnce'
  BY <1>10 DEF PanelSwitch, Happens
<1>11. ASSUME NEW c \in Cameras, Opened(c) PROVE AnsweredOnce'
  BY <1>11 DEF Opened
<1>12. ASSUME NEW r \in refreshes, BrowserLists(r) PROVE AnsweredOnce'
  BY <1>12 DEF BrowserLists
<1>13. ASSUME NEW r \in refreshes, ListArrives(r) PROVE AnsweredOnce'
  BY <1>13 DEF ListArrives
<1>14. ASSUME NEW r \in refreshes, ListFails(r) PROVE AnsweredOnce'
  BY <1>14 DEF ListFails
<1>15. ASSUME SelectionSaved PROVE AnsweredOnce'
  BY <1>15 DEF SelectionSaved
<1>16. ASSUME StartCapture PROVE AnsweredOnce'
  BY <1>16 DEF StartCapture, Happens
<1>17. ASSUME OpenFails PROVE AnsweredOnce'
  BY <1>17 DEF OpenFails
<1>18. ASSUME StopCamera PROVE AnsweredOnce'
  BY <1>18 DEF StopCamera, Happens
<1> QED BY <1>1, <1>2, <1>3, <1>4, <1>5, <1>6, <1>7, <1>8, <1>9, <1>10, <1>11, <1>12, <1>13,
           <1>14, <1>15, <1>16, <1>17, <1>18 DEF DevicesNext, Permissions

LEMMA LatestCountsStep ==
    ASSUME DevicesIInv, DevicesNext
    PROVE  LatestCounts'
<1> USE DEF DevicesIInv, PermissionTyped, Permissions, Queries, AnsweredOnce, LatestCounts,
       permissionVars, listVars, choiceVars
<1>1. ASSUME QueryAsked PROVE LatestCounts'
  <2>1. querySeq' \notin heeded' /\ querySeq' \notin changes' /\ \A q \in queries : q.n # querySeq'
    BY <1>1 DEF QueryAsked
  <2>2. [n |-> querySeq', value |-> "unread"] \in queries'
    BY <1>1 DEF QueryAsked
  <2>3. \A q \in queries' : q.n = querySeq' => q.value = "unread"
    BY <1>1, <2>1 DEF QueryAsked
  <2> QED BY <1>1, <2>1, <2>2, <2>3 DEF QueryAsked
<1>2. ASSUME NEW q \in queries, BrowserReads(q) PROVE LatestCounts'
  <2> DEFINE w == [q EXCEPT !.value = permission]
  <2>1. w.n = q.n /\ w.value = permission /\ queries' = (queries \ {q}) \cup {w}
    BY <1>2 DEF BrowserReads
  <2>2. UNCHANGED <<permission, shownAs, querySeq, heeded, changes, untold, refused>>
    BY <1>2 DEF BrowserReads
  <2> HIDE DEF w
  <2>3. \A r \in queries' : r.n = querySeq' /\ r.value # "unread" =>
           r.value = permission' \/ querySeq' \in changes'
    BY <2>1, <2>2
  <2>4. (\E r \in queries : r.n = querySeq) => \E r \in queries' : r.n = querySeq
    BY <2>1
  <2>5. refused => \A r \in queries' : r.n # querySeq
    BY <2>1, <1>2
  <2> QED BY <2>2, <2>3, <2>4, <2>5
<1>3. ASSUME NEW q \in queries, QueryAnswered(q) PROVE LatestCounts'
  BY <1>3 DEF QueryAnswered, LatestQuery
<1>4. ASSUME NEW q \in queries, QueryFails(q) PROVE LatestCounts'
  BY <1>4 DEF QueryFails, LatestQuery
<1>5. ASSUME NEW p \in Permissions, PermissionChanges(p) PROVE LatestCounts'
  BY <1>5 DEF PermissionChanges, Happens
<1>6. ASSUME NEW n \in changes, ChangeTold(n) PROVE LatestCounts'
  BY <1>6 DEF ChangeTold, LatestQuery
<1>7. ASSUME NEW n \in changes, ChangeNotTold(n) PROVE LatestCounts'
  BY <1>7 DEF ChangeNotTold
<1>8. ASSUME NEW c \in Cameras, DeviceChanges(c) PROVE LatestCounts'
  BY <1>8 DEF DeviceChanges, Happens, Refresh
<1>9. ASSUME NEW c \in Cameras, Select(c) PROVE LatestCounts'
  BY <1>9 DEF Select, Happens
<1>10. ASSUME NEW c \in Cameras, PanelSwitch(c) PROVE LatestCounts'
  BY <1>10 DEF PanelSwitch, Happens
<1>11. ASSUME NEW c \in Cameras, Opened(c) PROVE LatestCounts'
  BY <1>11 DEF Opened
<1>12. ASSUME NEW r \in refreshes, BrowserLists(r) PROVE LatestCounts'
  BY <1>12 DEF BrowserLists
<1>13. ASSUME NEW r \in refreshes, ListArrives(r) PROVE LatestCounts'
  BY <1>13 DEF ListArrives
<1>14. ASSUME NEW r \in refreshes, ListFails(r) PROVE LatestCounts'
  BY <1>14 DEF ListFails
<1>15. ASSUME SelectionSaved PROVE LatestCounts'
  BY <1>15 DEF SelectionSaved
<1>16. ASSUME StartCapture PROVE LatestCounts'
  BY <1>16 DEF StartCapture, Happens
<1>17. ASSUME OpenFails PROVE LatestCounts'
  BY <1>17 DEF OpenFails
<1>18. ASSUME StopCamera PROVE LatestCounts'
  BY <1>18 DEF StopCamera, Happens
<1> QED BY <1>1, <1>2, <1>3, <1>4, <1>5, <1>6, <1>7, <1>8, <1>9, <1>10, <1>11, <1>12, <1>13,
           <1>14, <1>15, <1>16, <1>17, <1>18 DEF DevicesNext, Permissions

LEMMA DevicesInductive == DevicesIInv /\ [DevicesNext]_deviceVars => DevicesIInv'
<1>1. ASSUME DevicesIInv, DevicesNext PROVE DevicesIInv'
  BY <1>1, PermissionTypedStep, ListTypedStep, ChoiceTypedStep, AnsweredOnceStep,
     LatestCountsStep
     DEF DevicesIInv
<1>2. ASSUME DevicesIInv, UNCHANGED deviceVars PROVE DevicesIInv'
  BY <1>2 DEF DevicesIInv, PermissionTyped, ListTyped, ChoiceTyped, AnsweredOnce, LatestCounts,
     Refreshes, deviceVars, permissionVars, listVars, choiceVars
<1> QED BY <1>1, <1>2

LEMMA DevicesImplied == DevicesIInv => PermissionIsCurrent
BY DEF DevicesIInv, PermissionTyped, ListTyped, ChoiceTyped, LatestCounts, PermissionIsCurrent,
   DevicesTypeOK, Permissions, Queries

\* Once nothing is under way, the permission that is shown is the browser's.
THEOREM PermissionAlwaysCurrent == DevicesSpec => []PermissionIsCurrent
<1>1. DevicesSpec => []DevicesIInv
  BY DevicesInitially, DevicesInductive, PTL DEF DevicesSpec
<1> QED BY <1>1, DevicesImplied, PTL

-----------------------------------------------------------------------------
(***************************************************************************)
(* Proof, for any number of requests and connections that drop, that an    *)
(* answer is true: what resolved was carried out, once, what was denied    *)
(* was not, and the other participant hears the broadcasts in their order. *)
(* A request is in one place at a time: on its way, with a handler, or     *)
(* answered; and a drop loses it for good.                                 *)
(***************************************************************************)

Words == {"unasked", "waiting", Ok, "DISCONNECTED", "HOST_ACTION_TIMEOUT", "EGRESS_ACTION_TIMEOUT",
          "BROADCAST_TIMEOUT"} \cup HostCodes \cup EgressCodes \cup BroadcastCodes
Sessions == {"none", "starting", "live", "stopping", "over"}
Answers == [type : {"ack"}, req : Requests, code : Words]
Statuses == [type : {"status"}, is : Sessions]
Messages == Answers \cup Statuses
Sendings == Requests \cup {Join}
Handlers == [req : Requests, stage : {"checking", "building", "stopping"}, alive : BOOLEAN]

ActionsTyped ==
    /\ kind \in [Requests -> Kinds] /\ owned \in BOOLEAN
    /\ wire \in {"up", "down", "left"} /\ seat \in BOOLEAN /\ listens \in BOOLEAN
    /\ outcome \in [Requests -> Words]
    /\ toServer \in Seq(Sendings) /\ toMe \in Seq(Messages)
    /\ handlers \subseteq Handlers
    /\ done \in Seq(Requests) /\ heard \in Seq(Requests) /\ toOther \in Seq(Requests)
    /\ egress \in Sessions /\ due \subseteq {"live", "over"}

\* Where a request may be.
Asks == In(toServer) \ {Join}
Acks == {m \in In(toMe) : m.type = "ack"}
Carried == In(done)

\* The promise of a request that is somewhere has not settled, but by its timer.
Open(r) == outcome[r] \in {"waiting", RequestOf(kind[r]).timeoutCode}

\* Nothing is there twice.
Once(s, e) == \A i, j \in DOMAIN s : s[i] = s[j] /\ s[i] # e => i = j
AsksOnce == Once(toServer, Join)
AcksOnce ==
    \A i, j \in DOMAIN toMe :
       toMe[i].type = "ack" /\ toMe[j].type = "ack" /\ toMe[i].req = toMe[j].req => i = j
DoneOnce == \A i, j \in DOMAIN done : done[i] = done[j] => i = j

AskedIsNew ==
    \A r \in Asks :
       /\ Open(r) /\ r \notin Carried
       /\ (\A h \in handlers : h.req # r) /\ (\A m \in Acks : m.req # r)

HandledOnce ==
    \A h \in handlers :
       /\ Open(h.req) /\ kind[h.req] \in EgressKinds
       /\ h.req \in Carried <=> h.stage # "checking"
       /\ \A m \in Acks : m.req # h.req
       /\ \A g \in handlers : g.req = h.req => g = h

AckIsTrue ==
    \A m \in Acks :
       /\ Open(m.req) /\ m.code \in {Ok} \cup ServerCodes(kind[m.req])
       /\ m.req \in Carried <=> m.code = Ok

OutcomeIsTrue ==
    \A r \in Requests :
       /\ outcome[r] \in Outcomes(kind[r])
       /\ outcome[r] = Ok => r \in Carried
       /\ outcome[r] \in {"unasked", "DISCONNECTED"} \cup ServerCodes(kind[r]) => r \notin Carried

PlacesApart == AskedIsNew /\ HandledOnce /\ AckIsTrue /\ OutcomeIsTrue
ListsApart == AsksOnce /\ AcksOnce /\ DoneOnce

MissedWereDone == missed \subseteq Broadcasts

ActionsIInv == ActionsTyped /\ ListsApart /\ PlacesApart /\ MissedWereDone /\ RelayedInOrder

-----------------------------------------------------------------------------
(* Lists that grow at one end and shrink at the other.                     *)

Grows(t, s, e) == t = Append(s, e)
Shrinks(t, s) == s # <<>> /\ t = Tail(s)

LEMMA WhatGrows ==
    ASSUME NEW S, NEW s \in Seq(S), NEW e \in S, NEW t, Grows(t, s, e)
    PROVE  /\ t \in Seq(S) /\ In(t) = In(s) \cup {e}
           /\ Len(s) \in Nat /\ DOMAIN s = 1 .. Len(s) /\ DOMAIN t = 1 .. Len(s) + 1
           /\ (\A i \in DOMAIN s : t[i] = s[i]) /\ t[Len(s) + 1] = e
<1>1. t \in Seq(S) /\ Len(s) \in Nat /\ DOMAIN s = 1 .. Len(s) /\ DOMAIN t = 1 .. Len(s) + 1
  BY DEF Grows
<1>2. (\A i \in DOMAIN s : t[i] = s[i]) /\ t[Len(s) + 1] = e
  BY DEF Grows
<1>3. In(t) = In(s) \cup {e}
  <2>1. \A x \in In(t) : x \in In(s) \cup {e}
    <3> SUFFICES ASSUME NEW i \in DOMAIN t PROVE t[i] \in In(s) \cup {e}
      BY DEF In
    <3>1. i \in DOMAIN s \/ i = Len(s) + 1
      BY <1>1
    <3> QED BY <3>1, <1>2 DEF In
  <2>2. \A x \in In(s) : x \in In(t)
    <3> SUFFICES ASSUME NEW i \in DOMAIN s PROVE s[i] \in In(t)
      BY DEF In
    <3>1. i \in DOMAIN t
      BY <1>1
    <3> QED BY <3>1, <1>2 DEF In
  <2>3. e \in In(t)
    <3>1. Len(s) + 1 \in DOMAIN t
      BY <1>1
    <3> QED BY <3>1, <1>2 DEF In
  <2> QED BY <2>1, <2>2, <2>3
<1> QED BY <1>1, <1>2, <1>3

LEMMA WhatShrinks ==
    ASSUME NEW S, NEW s \in Seq(S), NEW t, Shrinks(t, s)
    PROVE  /\ t \in Seq(S) /\ In(s) = In(t) \cup {Head(s)}
           /\ Len(s) \in Nat \ {0} /\ DOMAIN s = 1 .. Len(s) /\ DOMAIN t = 1 .. Len(s) - 1
           /\ (\A i \in DOMAIN t : t[i] = s[i + 1]) /\ Head(s) = s[1] /\ Head(s) \in S
<1>1. /\ t \in Seq(S) /\ Len(s) \in Nat \ {0} /\ DOMAIN s = 1 .. Len(s) /\ DOMAIN t = 1 .. Len(s) - 1
      /\ Head(s) = s[1] /\ Head(s) \in S
  BY DEF Shrinks
<1>2. \A i \in DOMAIN t : t[i] = s[i + 1]
  BY DEF Shrinks
<1>3. In(s) = In(t) \cup {Head(s)}
  <2>1. \A x \in In(s) : x \in In(t) \cup {Head(s)}
    <3> SUFFICES ASSUME NEW i \in DOMAIN s PROVE s[i] \in In(t) \cup {Head(s)}
      BY DEF In
    <3>1. CASE i = 1
      BY <3>1, <1>1
    <3>2. CASE i # 1
      <4>1. i - 1 \in DOMAIN t /\ (i - 1) + 1 = i
        BY <3>2, <1>1
      <4>2. t[i - 1] = s[i]
        BY <4>1, <1>2
      <4> QED BY <4>1, <4>2 DEF In
    <3> QED BY <3>1, <3>2
  <2>2. \A x \in In(t) : x \in In(s)
    <3> SUFFICES ASSUME NEW i \in DOMAIN t PROVE t[i] \in In(s)
      BY DEF In
    <3>1. i + 1 \in DOMAIN s
      BY <1>1
    <3> QED BY <3>1, <1>2 DEF In
  <2>3. Head(s) \in In(s)
    <3>1. 1 \in DOMAIN s
      BY <1>1
    <3> QED BY <3>1, <1>1 DEF In
  <2> QED BY <2>1, <2>2, <2>3
<1> QED BY <1>1, <1>2, <1>3

LEMMA NothingIn == In(<<>>) = {} /\ \A S : <<>> \in Seq(S)
<1>1. DOMAIN <<>> = {}
  OBVIOUS
<1> QED BY <1>1 DEF In

\* A request on the way to the server is there once.
LEMMA AsksGrow ==
    ASSUME ActionsTyped, AsksOnce, NEW e \in Sendings, e \notin Asks,
           Grows(toServer', toServer, e)
    PROVE  /\ toServer' \in Seq(Sendings) /\ AsksOnce'
           /\ Asks' = Asks \cup ({e} \ {Join})
<1>1. toServer \in Seq(Sendings)
  BY DEF ActionsTyped
<1>2. /\ toServer' \in Seq(Sendings) /\ In(toServer') = In(toServer) \cup {e}
      /\ Len(toServer) \in Nat /\ DOMAIN toServer = 1 .. Len(toServer)
      /\ DOMAIN toServer' = 1 .. Len(toServer) + 1
      /\ (\A i \in DOMAIN toServer : toServer'[i] = toServer[i]) /\ toServer'[Len(toServer) + 1] = e
  BY <1>1, WhatGrows
<1>3. \A i \in DOMAIN toServer : e # Join => toServer[i] # e
  BY DEF Asks, In
<1>4. AsksOnce'
  BY <1>2, <1>3 DEF AsksOnce, Once
<1> QED BY <1>2, <1>4 DEF Asks

LEMMA AsksShrink ==
    ASSUME ActionsTyped, AsksOnce, Shrinks(toServer', toServer)
    PROVE  /\ toServer' \in Seq(Sendings) /\ AsksOnce'
           /\ Head(toServer) \in Sendings
           /\ Head(toServer) # Join => Head(toServer) \in Asks
           /\ Asks' = Asks \ {Head(toServer)}
<1>1. toServer \in Seq(Sendings)
  BY DEF ActionsTyped
<1> DEFINE n == Len(toServer)
           e == Head(toServer)
<1>2. /\ toServer' \in Seq(Sendings) /\ In(toServer) = In(toServer') \cup {e}
      /\ n \in Nat \ {0} /\ DOMAIN toServer = 1 .. n /\ DOMAIN toServer' = 1 .. n - 1
      /\ (\A i \in DOMAIN toServer' : toServer'[i] = toServer[i + 1])
      /\ e = toServer[1] /\ e \in Sendings
  BY <1>1, WhatShrinks
<1> HIDE DEF n, e
<1>3. AsksOnce'
  BY <1>2 DEF AsksOnce, Once
<1>4. e # Join => \A i \in DOMAIN toServer' : toServer'[i] # e
  BY <1>2 DEF AsksOnce, Once
<1>5. e # Join => e \notin In(toServer')
  BY <1>4 DEF In
<1> QED BY <1>2, <1>3, <1>5 DEF Asks, e

\* So is an acknowledgement on its way back.
LEMMA AcksGrow ==
    ASSUME ActionsTyped, AcksOnce, NEW m \in Answers, \A a \in Acks : a.req # m.req,
           Grows(toMe', toMe, m)
    PROVE  toMe' \in Seq(Messages) /\ AcksOnce' /\ Acks' = Acks \cup {m}
<1>1. toMe \in Seq(Messages) /\ m \in Messages /\ m.type = "ack"
  BY DEF ActionsTyped, Answers, Messages
<1>2. /\ toMe' \in Seq(Messages) /\ In(toMe') = In(toMe) \cup {m}
      /\ Len(toMe) \in Nat /\ DOMAIN toMe = 1 .. Len(toMe) /\ DOMAIN toMe' = 1 .. Len(toMe) + 1
      /\ (\A i \in DOMAIN toMe : toMe'[i] = toMe[i]) /\ toMe'[Len(toMe) + 1] = m
  BY <1>1, WhatGrows
<1>3. \A i \in DOMAIN toMe : toMe[i].type = "ack" => toMe[i].req # m.req
  BY DEF Acks, In
<1>4. AcksOnce'
  BY <1>2, <1>3 DEF AcksOnce
<1> QED BY <1>1, <1>2, <1>4 DEF Acks

LEMMA StatusGrows ==
    ASSUME ActionsTyped, AcksOnce, NEW m \in Statuses, Grows(toMe', toMe, m)
    PROVE  toMe' \in Seq(Messages) /\ AcksOnce' /\ Acks' = Acks
<1>1. toMe \in Seq(Messages) /\ m \in Messages /\ m.type = "status"
  BY DEF ActionsTyped, Statuses, Messages
<1>2. /\ toMe' \in Seq(Messages) /\ In(toMe') = In(toMe) \cup {m}
      /\ Len(toMe) \in Nat /\ DOMAIN toMe = 1 .. Len(toMe) /\ DOMAIN toMe' = 1 .. Len(toMe) + 1
      /\ (\A i \in DOMAIN toMe : toMe'[i] = toMe[i]) /\ toMe'[Len(toMe) + 1] = m
  BY <1>1, WhatGrows
<1>4. AcksOnce'
  BY <1>1, <1>2 DEF AcksOnce
<1> QED BY <1>1, <1>2, <1>4 DEF Acks

LEMMA MessagesShrink ==
    ASSUME ActionsTyped, AcksOnce, Shrinks(toMe', toMe)
    PROVE  /\ toMe' \in Seq(Messages) /\ AcksOnce'
           /\ Head(toMe) \in Messages
           /\ Head(toMe).type = "status" => Acks' = Acks
           /\ Head(toMe).type = "ack" =>
                 /\ Head(toMe) \in Acks /\ Acks' = Acks \ {Head(toMe)}
                 /\ \A m \in Acks' : m.req # Head(toMe).req
<1>1. toMe \in Seq(Messages)
  BY DEF ActionsTyped
<1> DEFINE n == Len(toMe)
           e == Head(toMe)
<1>2. /\ toMe' \in Seq(Messages) /\ In(toMe) = In(toMe') \cup {e}
      /\ n \in Nat \ {0} /\ DOMAIN toMe = 1 .. n /\ DOMAIN toMe' = 1 .. n - 1
      /\ (\A i \in DOMAIN toMe' : toMe'[i] = toMe[i + 1])
      /\ e = toMe[1] /\ e \in Messages
  BY <1>1, WhatShrinks
<1> HIDE DEF n, e
<1>3. AcksOnce'
  BY <1>2 DEF AcksOnce
<1>4. e.type = "ack" => \A i \in DOMAIN toMe' : toMe'[i].type = "ack" => toMe'[i].req # e.req
  BY <1>2 DEF AcksOnce
<1>5. e.type = "ack" => \A m \in Acks' : m.req # e.req
  BY <1>4 DEF Acks, In
<1>6. e.type = "ack" => e \in Acks /\ Acks' = Acks \ {e}
  BY <1>2, <1>5 DEF Acks
<1>7. e.type = "status" => Acks' = Acks
  BY <1>2 DEF Acks
<1> QED BY <1>2, <1>3, <1>5, <1>6, <1>7 DEF e

LEMMA DoneGrows ==
    ASSUME ActionsTyped, DoneOnce, NEW r \in Requests, r \notin Carried, Grows(done', done, r)
    PROVE  done' \in Seq(Requests) /\ DoneOnce' /\ Carried' = Carried \cup {r}
<1>1. done \in Seq(Requests)
  BY DEF ActionsTyped
<1>2. /\ done' \in Seq(Requests) /\ In(done') = In(done) \cup {r}
      /\ Len(done) \in Nat /\ DOMAIN done = 1 .. Len(done) /\ DOMAIN done' = 1 .. Len(done) + 1
      /\ (\A i \in DOMAIN done : done'[i] = done[i]) /\ done'[Len(done) + 1] = r
  BY <1>1, WhatGrows
<1>3. \A i \in DOMAIN done : done[i] # r
  BY DEF Carried, In
<1>4. DoneOnce'
  BY <1>2, <1>3 DEF DoneOnce
<1> QED BY <1>2, <1>4 DEF Carried

-----------------------------------------------------------------------------
(* What the other participant hears.                                       *)

\* What was missed stays missed, and what was relayed is where it was.
LEMMA RelayStays ==
    ASSUME ActionsTyped, RelayedInOrder, MissedWereDone, UNCHANGED <<kind, done, other>>
    PROVE  RelayedInOrder' /\ MissedWereDone'
BY DEF RelayedInOrder, MissedWereDone, other, Relayed, Broadcasts

LEMMA OthersAreNotRelayed ==
    ASSUME ActionsTyped, RelayedInOrder, MissedWereDone, NEW r \in Requests,
           kind[r] \notin BroadcastKinds, r \notin Carried, DoneOnce, Grows(done', done, r),
           UNCHANGED <<kind, other>>
    PROVE  RelayedInOrder' /\ MissedWereDone'
<1>1. done \in Seq(Requests)
  BY DEF ActionsTyped
<1>2. /\ In(done') = In(done) \cup {r} /\ Len(done) \in Nat /\ DOMAIN done = 1 .. Len(done)
      /\ DOMAIN done' = 1 .. Len(done) + 1 /\ \A i \in DOMAIN done : done'[i] = done[i]
  BY <1>1, WhatGrows
<1>3. Broadcasts' = Broadcasts /\ missed' = missed /\ Relayed' = Relayed
  BY <1>2 DEF Broadcasts, other, Relayed
<1>4. \A i, j \in DOMAIN Relayed : i < j =>
         \E k, l \in DOMAIN done' : k < l /\ done'[k] = Relayed[i] /\ done'[l] = Relayed[j]
  <2> SUFFICES ASSUME NEW i \in DOMAIN Relayed, NEW j \in DOMAIN Relayed, i < j
               PROVE  \E k, l \in DOMAIN done' :
                         k < l /\ done'[k] = Relayed[i] /\ done'[l] = Relayed[j]
    OBVIOUS
  <2>1. PICK k \in DOMAIN done, l \in DOMAIN done :
           k < l /\ done[k] = Relayed[i] /\ done[l] = Relayed[j]
    BY DEF RelayedInOrder
  <2>2. k \in DOMAIN done' /\ l \in DOMAIN done' /\ done'[k] = done[k] /\ done'[l] = done[l]
    BY <1>2
  <2> QED BY <2>1, <2>2
<1> QED BY <1>3, <1>4 DEF RelayedInOrder, MissedWereDone

LEMMA RelayedTyped ==
    ASSUME ActionsTyped
    PROVE  /\ Relayed \in Seq(Requests) /\ Len(heard) \in Nat /\ Len(toOther) \in Nat
           /\ DOMAIN heard = 1 .. Len(heard) /\ DOMAIN toOther = 1 .. Len(toOther)
           /\ DOMAIN Relayed = 1 .. Len(heard) + Len(toOther)
           /\ Len(Relayed) = Len(heard) + Len(toOther)
           /\ \A i \in DOMAIN heard : Relayed[i] = heard[i]
           /\ \A i \in DOMAIN toOther : Relayed[Len(heard) + i] = toOther[i]
BY DEF ActionsTyped, Relayed

\* broadcastToRoom
LEMMA BroadcastsAreRelayed ==
    ASSUME ActionsTyped, RelayedInOrder, MissedWereDone, NEW r \in Requests,
           kind[r] \in BroadcastKinds, r \notin Carried, DoneOnce, Grows(done', done, r),
           UNCHANGED kind, Relay(r)
    PROVE  RelayedInOrder' /\ MissedWereDone' /\ toOther' \in Seq(Requests) /\ UNCHANGED <<listens, heard>>
<1>1. done \in Seq(Requests) /\ heard \in Seq(Requests) /\ toOther \in Seq(Requests) /\ listens \in BOOLEAN
  BY DEF ActionsTyped
<1>2. /\ In(done') = In(done) \cup {r} /\ Len(done) \in Nat /\ DOMAIN done = 1 .. Len(done)
      /\ DOMAIN done' = 1 .. Len(done) + 1 /\ \A i \in DOMAIN done : done'[i] = done[i]
      /\ done'[Len(done) + 1] = r
  BY <1>1, WhatGrows
<1>3. Broadcasts' = Broadcasts \cup {r} /\ r \notin Broadcasts /\ r \notin missed /\ heard' = heard
  BY <1>2 DEF Broadcasts, Carried, MissedWereDone, Relay
<1>4. \A i, j \in DOMAIN Relayed : i < j =>
         \E k, l \in DOMAIN done' : k < l /\ done'[k] = Relayed[i] /\ done'[l] = Relayed[j]
  <2> SUFFICES ASSUME NEW i \in DOMAIN Relayed, NEW j \in DOMAIN Relayed, i < j
               PROVE  \E k, l \in DOMAIN done' :
                         k < l /\ done'[k] = Relayed[i] /\ done'[l] = Relayed[j]
    OBVIOUS
  <2>1. PICK k \in DOMAIN done, l \in DOMAIN done :
           k < l /\ done[k] = Relayed[i] /\ done[l] = Relayed[j]
    BY DEF RelayedInOrder
  <2>2. k \in DOMAIN done' /\ l \in DOMAIN done' /\ done'[k] = done[k] /\ done'[l] = done[l]
    BY <1>2
  <2> QED BY <2>1, <2>2
<1>5. CASE ~listens
  <2>1. missed' = missed \cup {r} /\ toOther' = toOther /\ Relayed' = Relayed
    BY <1>5, <1>3 DEF Relay, Relayed
  <2> QED BY <2>1, <1>1, <1>3, <1>4 DEF RelayedInOrder, MissedWereDone, Relay
<1>6. CASE listens
  <2>1. missed' = missed /\ toOther' = Append(toOther, r)
    BY <1>6 DEF Relay
  <2>2. toOther' \in Seq(Requests) /\ Relayed' = Append(Relayed, r)
    BY <2>1, <1>1, <1>3 DEF Relayed
  <2>3. Grows(Relayed', Relayed, r) /\ Relayed \in Seq(Requests)
    BY <2>2, RelayedTyped DEF Grows
  <2> DEFINE n == Len(Relayed)
  <2>4. /\ In(Relayed') = In(Relayed) \cup {r} /\ n \in Nat /\ DOMAIN Relayed = 1 .. n
        /\ DOMAIN Relayed' = 1 .. n + 1 /\ \A i \in DOMAIN Relayed : Relayed'[i] = Relayed[i]
        /\ Relayed'[n + 1] = r
    BY <2>3, WhatGrows
  <2> HIDE DEF n
  <2>5. In(Relayed') = Broadcasts' \ missed'
    BY <2>1, <2>4, <1>3 DEF RelayedInOrder
  <2>6. \A i \in DOMAIN Relayed : \E k \in DOMAIN done : done[k] = Relayed[i]
    <3> SUFFICES ASSUME NEW i \in DOMAIN Relayed PROVE Relayed[i] \in In(done)
      BY DEF In
    <3>1. Relayed[i] \in In(Relayed)
      BY DEF In
    <3> QED BY <3>1 DEF RelayedInOrder, Broadcasts
  <2>7. \A i, j \in DOMAIN Relayed' : i < j =>
           \E k, l \in DOMAIN done' : k < l /\ done'[k] = Relayed'[i] /\ done'[l] = Relayed'[j]
    <3> SUFFICES ASSUME NEW i \in DOMAIN Relayed', NEW j \in DOMAIN Relayed', i < j
                 PROVE  \E k, l \in DOMAIN done' :
                           k < l /\ done'[k] = Relayed'[i] /\ done'[l] = Relayed'[j]
      OBVIOUS
    <3>0. i \in DOMAIN Relayed /\ Relayed'[i] = Relayed[i]
      BY <2>4
    <3>1. CASE j \in DOMAIN Relayed
      <4>1. Relayed'[j] = Relayed[j]
        BY <3>1, <2>4
      <4> QED BY <3>0, <3>1, <4>1, <1>4
    <3>2. CASE j = n + 1
      <4>1. PICK k \in DOMAIN done : done[k] = Relayed[i]
        BY <3>0, <2>6
      <4>2. /\ k \in DOMAIN done' /\ Len(done) + 1 \in DOMAIN done' /\ k < Len(done) + 1
            /\ done'[k] = Relayed'[i] /\ done'[Len(done) + 1] = Relayed'[j]
        BY <3>0, <3>2, <4>1, <1>2, <2>4
      <4> QED BY <4>2
    <3> QED BY <3>1, <3>2, <2>4
  <2>8. RelayedInOrder'
    BY <2>5, <2>7 DEF RelayedInOrder
  <2>9. MissedWereDone'
    BY <2>1, <1>3 DEF MissedWereDone
  <2> QED BY <2>1, <2>2, <2>8, <2>9, <1>3 DEF Relay
<1> QED BY <1>5, <1>6, <1>3 DEF Relay

\* A message that arrives is where it was in the order.
LEMMA HearsKeepsOrder ==
    ASSUME ActionsTyped, RelayedInOrder, MissedWereDone, Hears
    PROVE  RelayedInOrder' /\ MissedWereDone' /\ heard' \in Seq(Requests) /\ toOther' \in Seq(Requests)
<1>1. heard \in Seq(Requests) /\ toOther \in Seq(Requests) /\ toOther # <<>>
  BY DEF ActionsTyped, Hears
<1>2. toOther' = Tail(toOther) /\ heard' = Append(heard, Head(toOther))
  BY DEF Hears
<1>3. heard' \in Seq(Requests) /\ toOther' \in Seq(Requests)
  BY <1>1, <1>2
<1>4. Relayed' = Relayed
  <2>1. Append(heard, Head(toOther)) \o Tail(toOther) = heard \o toOther
    BY <1>1
  <2> QED BY <2>1, <1>2 DEF Relayed
<1>5. UNCHANGED <<kind, done, missed>>
  BY DEF Hears, given, server
<1>6. Broadcasts' = Broadcasts
  BY <1>5 DEF Broadcasts
<1> QED BY <1>3, <1>4, <1>5, <1>6 DEF RelayedInOrder, MissedWereDone

\* What was on its way is missed, and nothing of it had been heard.
LEMMA FallKeepsOrder ==
    ASSUME ActionsTyped, RelayedInOrder, MissedWereDone, DoneOnce, OtherFalls
    PROVE  RelayedInOrder' /\ MissedWereDone' /\ toOther' \in Seq(Requests)
<1>1. /\ heard \in Seq(Requests) /\ done \in Seq(Requests)
      /\ toOther' = <<>> /\ heard' = heard /\ missed' = missed \cup In(toOther)
      /\ UNCHANGED <<kind, done>>
  BY DEF ActionsTyped, OtherFalls, In, given, server
<1>2. Relayed' = heard
  BY <1>1 DEF Relayed
<1>3. In(Relayed) = In(heard) \cup In(toOther)
  <2>1. \A x \in In(Relayed) : x \in In(heard) \cup In(toOther)
    <3> SUFFICES ASSUME NEW i \in DOMAIN Relayed PROVE Relayed[i] \in In(heard) \cup In(toOther)
      BY DEF In
    <3>1. CASE i \in DOMAIN heard
      BY <3>1, RelayedTyped DEF In
    <3>2. CASE i \notin DOMAIN heard
      <4>1. i - Len(heard) \in DOMAIN toOther /\ Len(heard) + (i - Len(heard)) = i
        BY <3>2, RelayedTyped
      <4>2. Relayed[i] = toOther[i - Len(heard)]
        BY <4>1, RelayedTyped
      <4> QED BY <4>1, <4>2 DEF In
    <3> QED BY <3>1, <3>2
  <2>2. \A i \in DOMAIN heard : heard[i] \in In(Relayed)
    <3> SUFFICES ASSUME NEW i \in DOMAIN heard PROVE heard[i] \in In(Relayed)
      OBVIOUS
    <3>1. i \in DOMAIN Relayed /\ Relayed[i] = heard[i]
      BY RelayedTyped
    <3> QED BY <3>1 DEF In
  <2>3. \A i \in DOMAIN toOther : toOther[i] \in In(Relayed)
    <3> SUFFICES ASSUME NEW i \in DOMAIN toOther PROVE toOther[i] \in In(Relayed)
      OBVIOUS
    <3>1. Len(heard) + i \in DOMAIN Relayed /\ Relayed[Len(heard) + i] = toOther[i]
      BY RelayedTyped
    <3> QED BY <3>1 DEF In
  <2> QED BY <2>1, <2>2, <2>3 DEF In
<1>4. \A i \in DOMAIN heard, j \in DOMAIN toOther : heard[i] # toOther[j]
  <2> SUFFICES ASSUME NEW i \in DOMAIN heard, NEW j \in DOMAIN toOther, heard[i] = toOther[j]
               PROVE  FALSE
    OBVIOUS
  <2> DEFINE m == Len(heard) + j
  <2>1. /\ i \in DOMAIN Relayed /\ m \in DOMAIN Relayed /\ i < m
        /\ Relayed[i] = heard[i] /\ Relayed[m] = toOther[j]
    BY RelayedTyped
  <2> HIDE DEF m
  <2>2. PICK k \in DOMAIN done, l \in DOMAIN done :
           k < l /\ done[k] = Relayed[i] /\ done[l] = Relayed[m]
    BY <2>1 DEF RelayedInOrder
  <2>3. k = l
    BY <2>1, <2>2 DEF DoneOnce
  <2>4. k \in Nat
    BY <1>1
  <2> QED BY <2>2, <2>3, <2>4
<1>5. In(heard) \cap In(toOther) = {}
  BY <1>4 DEF In
<1>6. Broadcasts' = Broadcasts
  BY <1>1 DEF Broadcasts
<1>7. In(Relayed') = Broadcasts' \ missed'
  BY <1>1, <1>2, <1>3, <1>5, <1>6 DEF RelayedInOrder
<1>8. \A i, j \in DOMAIN heard : i < j =>
         \E k, l \in DOMAIN done : k < l /\ done[k] = heard[i] /\ done[l] = heard[j]
  <2> SUFFICES ASSUME NEW i \in DOMAIN heard, NEW j \in DOMAIN heard, i < j
               PROVE  \E k,
                  l \in DOMAIN done : k < l /\ done[k] = heard[i] /\ done[l] = heard[j]
    OBVIOUS
  <2>1. /\ i \in DOMAIN Relayed /\ j \in DOMAIN Relayed
        /\ Relayed[i] = heard[i] /\ Relayed[j] = heard[j]
    BY RelayedTyped
  <2> QED BY <2>1 DEF RelayedInOrder
<1>9. MissedWereDone'
  BY <1>1, <1>3, <1>6 DEF MissedWereDone, RelayedInOrder
<1> QED BY <1>1, <1>2, <1>7, <1>8, <1>9, NothingIn DEF RelayedInOrder

-----------------------------------------------------------------------------
(* A request is in one place.                                              *)

\* What is said of a request is said in the words of its kind.
LEMMA CodesApart ==
    ASSUME NEW k \in Kinds
    PROVE  /\ RequestOf(k).timeoutCode \in Words \ {Ok, "unasked", "waiting", "DISCONNECTED"}
           /\ ServerCodes(k) \subseteq Words /\ RequestOf(k).timeoutCode \notin ServerCodes(k)
           /\ ServerCodes(k) \cap {Ok, "unasked", "waiting", "DISCONNECTED"} = {}
BY DEF Kinds, HostKinds, EgressKinds, StartKinds, BroadcastKinds, RequestOf, HostRequest,
   EgressRequest,
       BroadcastRequest, ServerCodes, HostCodes, EgressCodes, BroadcastCodes, Words, Ok

LEMMA VerdictsAreCodes ==
    ASSUME NEW k \in Kinds PROVE Verdicts(k) \subseteq {Ok} \cup ServerCodes(k)
BY DEF Kinds, HostKinds, EgressKinds, StartKinds, BroadcastKinds, Verdicts, HostVerdicts,
       BroadcastVerdicts, StartVerdicts, StopVerdicts, Without, HostCapability,
       ServerCodes, HostCodes, EgressCodes, BroadcastCodes, Ok

LEMMA HandlersTyped ==
    ASSUME ActionsTyped
    PROVE  /\ \A h \in handlers : h \in Handlers /\ h.req \in Requests /\ kind[h.req] \in Kinds
           /\ Asks \subseteq Requests /\ Carried \subseteq Requests /\ Acks \subseteq Answers
           /\ \A r \in Requests : kind[r] \in Kinds /\ outcome[r] \in Words
<1>1. \A h \in handlers : h \in Handlers /\ h.req \in Requests /\ kind[h.req] \in Kinds
  BY DEF ActionsTyped, Handlers
<1>2. Asks \subseteq Requests /\ Carried \subseteq Requests
  BY DEF ActionsTyped, Asks, Carried, In, Sendings
<1>3. Acks \subseteq Answers
  <2> SUFFICES ASSUME NEW m \in Acks PROVE m \in Answers
    OBVIOUS
  <2>1. m \in Messages /\ m.type = "ack"
    BY DEF ActionsTyped, Acks, In
  <2> QED BY <2>1 DEF Messages, Statuses
<1> QED BY <1>1, <1>2, <1>3 DEF ActionsTyped

\* What a fall makes of the handlers.
LEMMA OrphansAre ==
    ASSUME ActionsTyped
    PROVE  /\ Orphaned \subseteq Handlers
           /\ \A o \in Orphaned : \E h \in handlers :
                 o.req = h.req /\ o.stage = h.stage /\ o.alive = FALSE
           /\ \A o, g \in Orphaned : o.req = g.req /\ o.stage = g.stage => o = g
<1>1. ASSUME NEW h \in Handlers
      PROVE  /\ [h EXCEPT !.alive = FALSE] \in Handlers
             /\ [h EXCEPT !.alive = FALSE].req = h.req
             /\ [h EXCEPT !.alive = FALSE].stage = h.stage
             /\ [h EXCEPT !.alive = FALSE].alive = FALSE
  BY DEF Handlers
<1>2. Orphaned \subseteq Handlers
  BY <1>1, HandlersTyped DEF Orphaned
<1>3. \A o \in Orphaned : \E h \in handlers :
         o.req = h.req /\ o.stage = h.stage /\ o.alive = FALSE
  <2> SUFFICES ASSUME NEW o \in Orphaned
               PROVE  \E h \in handlers : o.req = h.req /\ o.stage = h.stage /\ o.alive = FALSE
    OBVIOUS
  <2>1. PICK h \in handlers : o = [h EXCEPT !.alive = FALSE]
    BY DEF Orphaned
  <2> QED BY <2>1, <1>1, HandlersTyped
<1>4. \A o, g \in Handlers : o.req = g.req /\ o.stage = g.stage /\ o.alive = g.alive => o = g
  BY DEF Handlers
<1> QED BY <1>2, <1>3, <1>4

\* Requests are lost, and handlers, acknowledgements and promises stay.
LEMMA PlacesStay ==
    ASSUME ActionsTyped, PlacesApart, UNCHANGED <<kind, outcome, handlers>>, Carried' = Carried,
           Asks' \subseteq Asks, Acks' \subseteq Acks
    PROVE  PlacesApart'
<1>1. \A r : Open(r)' = Open(r)
  BY DEF Open
<1>2. AskedIsNew'
  BY <1>1 DEF PlacesApart, AskedIsNew
<1>3. HandledOnce'
  BY <1>1 DEF PlacesApart, HandledOnce
<1>4. AckIsTrue'
  BY <1>1 DEF PlacesApart, AckIsTrue
<1>5. OutcomeIsTrue'
  BY DEF PlacesApart, OutcomeIsTrue
<1> QED BY <1>2, <1>3, <1>4, <1>5 DEF PlacesApart

\* A connection drops with what is under way.
LEMMA PlacesFall ==
    ASSUME ActionsTyped, PlacesApart, UNCHANGED <<kind, outcome>>, Carried' = Carried,
           Asks' = {}, Acks' = {}, handlers' = Orphaned
    PROVE  PlacesApart'
<1>1. \A r : Open(r)' = Open(r)
  BY DEF Open
<1>3. HandledOnce'
  <2> SUFFICES ASSUME NEW o \in Orphaned
               PROVE  /\ Open(o.req) /\ kind[o.req] \in EgressKinds
                      /\ o.req \in Carried <=> o.stage # "checking"
                      /\ \A g \in Orphaned : g.req = o.req => g = o
    BY <1>1 DEF HandledOnce
  <2>1. PICK h \in handlers : o.req = h.req /\ o.stage = h.stage /\ o.alive = FALSE
    BY OrphansAre
  <2>2. /\ Open(o.req) /\ kind[o.req] \in EgressKinds
        /\ o.req \in Carried <=> o.stage # "checking"
    BY <2>1 DEF PlacesApart, HandledOnce
  <2>3. ASSUME NEW g \in Orphaned, g.req = o.req PROVE g = o
    <3>1. PICK i \in handlers : g.req = i.req /\ g.stage = i.stage /\ g.alive = FALSE
      BY OrphansAre
    <3>2. i = h
      BY <3>1, <2>1, <2>3 DEF PlacesApart, HandledOnce
    <3> QED BY <3>1, <3>2, <2>1, <2>3, OrphansAre
  <2> QED BY <2>2, <2>3
<1>5. OutcomeIsTrue'
  BY DEF PlacesApart, OutcomeIsTrue
<1> QED BY <1>3, <1>5 DEF PlacesApart, AskedIsNew, AckIsTrue

\* A promise is made, and its request sent.
LEMMA PlacesAsked ==
    ASSUME ActionsTyped, PlacesApart, UNCHANGED <<kind, handlers>>, Carried' = Carried,
           Acks' = Acks,
           NEW r \in Requests, outcome[r] = "unasked",
           \/ outcome' = [outcome EXCEPT ![r] = "waiting"] /\ Asks' = Asks \cup {r}
           \/ outcome' = [outcome EXCEPT ![r] = "DISCONNECTED"] /\ Asks' = Asks
    PROVE  PlacesApart' /\ outcome' \in [Requests -> Words]
<1>0. /\ \A q \in Requests : q # r => outcome'[q] = outcome[q]
      /\ outcome'[r] \in {"waiting", "DISCONNECTED"} /\ (outcome'[r] = "waiting" \/ Asks' = Asks)
      /\ outcome' \in [Requests -> Words]
  BY DEF ActionsTyped, Words
<1>1. ~Open(r)
  BY CodesApart, HandlersTyped DEF Open
<1>2. \A q \in Requests : q # r => Open(q)' = Open(q)
  BY <1>0 DEF Open
<1>3. /\ r \notin Asks /\ (\A h \in handlers : h.req # r) /\ (\A m \in Acks : m.req # r)
      /\ r \notin Carried
  BY <1>1 DEF PlacesApart, AskedIsNew, HandledOnce, AckIsTrue, OutcomeIsTrue
<1>4. outcome'[r] = "waiting" => Open(r)'
  BY DEF Open
<1>5. AskedIsNew'
  BY <1>0, <1>2, <1>3, <1>4, HandlersTyped DEF PlacesApart, AskedIsNew
<1>6. HandledOnce'
  BY <1>2, <1>3, HandlersTyped DEF PlacesApart, HandledOnce
<1>7. AckIsTrue'
  <2>1. \A m \in Acks : m.req \in Requests /\ m.req # r
    BY <1>3, HandlersTyped DEF Answers
  <2> QED BY <1>2, <2>1 DEF PlacesApart, AckIsTrue
<1>8. OutcomeIsTrue'
  <2> SUFFICES ASSUME NEW q \in Requests
               PROVE  /\ outcome'[q] \in Outcomes(kind[q])
                      /\ outcome'[q] = Ok => q \in Carried
                      /\ outcome'[q] \in {"unasked", "DISCONNECTED"} \cup ServerCodes(kind[q]) =>
                            q \notin Carried
    BY DEF OutcomeIsTrue
  <2>1. CASE q # r
    BY <2>1, <1>0 DEF PlacesApart, OutcomeIsTrue
  <2>2. CASE q = r
    BY <2>2, <1>0, <1>3 DEF Outcomes, Ok
  <2> QED BY <2>1, <2>2
<1> QED BY <1>0, <1>5, <1>6, <1>7, <1>8 DEF PlacesApart

\* A promise settles by its timer, or by an acknowledgement that arrives in time.
LEMMA PlacesSettled ==
    ASSUME ActionsTyped, PlacesApart, UNCHANGED <<kind, handlers>>, Carried' = Carried,
           Asks' = Asks, Acks' \subseteq Acks, NEW r \in Requests, NEW word,
           outcome' = [outcome EXCEPT ![r] = word],
           \/ word = RequestOf(kind[r]).timeoutCode
           \/ /\ word \in {Ok} \cup ServerCodes(kind[r]) /\ (r \in Carried <=> word = Ok)
              /\ r \notin Asks /\ (\A h \in handlers : h.req # r) /\ (\A m \in Acks' : m.req # r)
    PROVE  PlacesApart' /\ outcome' \in [Requests -> Words]
<1>0. /\ \A q \in Requests : q # r => outcome'[q] = outcome[q]
      /\ outcome'[r] = word
  BY DEF ActionsTyped
<1>1. /\ RequestOf(kind[r]).timeoutCode \in Words \ {Ok, "unasked", "waiting", "DISCONNECTED"}
      /\ ServerCodes(kind[r]) \subseteq Words
      /\ RequestOf(kind[r]).timeoutCode \notin ServerCodes(kind[r])
      /\ Ok \notin ServerCodes(kind[r])
  BY CodesApart, HandlersTyped
<1>2. word \in Words /\ outcome' \in [Requests -> Words]
  BY <1>1 DEF ActionsTyped, Words
<1>3. \A q \in Requests : q # r => Open(q)' = Open(q)
  BY <1>0 DEF Open
<1>4. word = RequestOf(kind[r]).timeoutCode => Open(r)'
  BY <1>0 DEF Open
<1>5. AskedIsNew'
  BY <1>3, <1>4, HandlersTyped DEF PlacesApart, AskedIsNew
<1>6. HandledOnce'
  BY <1>3, <1>4, HandlersTyped DEF PlacesApart, HandledOnce
<1>7. AckIsTrue'
  <2> SUFFICES ASSUME NEW m \in Acks'
               PROVE  Open(m.req)' /\ m.code \in {Ok} \cup ServerCodes(kind[m.req])
                      /\ (m.req \in Carried <=> m.code = Ok)
    BY DEF AckIsTrue
  <2>1. m \in Acks /\ m.req \in Requests
    BY HandlersTyped DEF Answers
  <2>2. Open(m.req)'
    BY <1>3, <1>4, <2>1 DEF PlacesApart, AckIsTrue
  <2> QED BY <2>1, <2>2 DEF PlacesApart, AckIsTrue
<1>8. OutcomeIsTrue'
  <2> SUFFICES ASSUME NEW q \in Requests
               PROVE  /\ outcome'[q] \in Outcomes(kind[q])
                      /\ outcome'[q] = Ok => q \in Carried
                      /\ outcome'[q] \in {"unasked", "DISCONNECTED"} \cup ServerCodes(kind[q]) =>
                            q \notin Carried
    BY DEF OutcomeIsTrue
  <2>1. CASE q # r
    BY <2>1, <1>0 DEF PlacesApart, OutcomeIsTrue
  <2>2. CASE q = r
    BY <2>2, <1>0, <1>1 DEF Outcomes, Ok
  <2> QED BY <2>1, <2>2
<1> QED BY <1>2, <1>5, <1>6, <1>7, <1>8 DEF PlacesApart

\* A request is answered at once.
LEMMA PlacesAnswered ==
    ASSUME ActionsTyped, PlacesApart, UNCHANGED <<kind, outcome, handlers>>,
           NEW r \in Asks, NEW code \in {Ok} \cup ServerCodes(kind[r]),
           Asks' = Asks \ {r}, Acks' = Acks \cup {Ack(r, code)},
           Carried' = IF code = Ok THEN Carried \cup {r} ELSE Carried
    PROVE  PlacesApart'
<1>0. r \in Requests /\ Open(r) /\ r \notin Carried /\ (\A h \in handlers : h.req # r)
      /\ (\A m \in Acks : m.req # r)
  BY HandlersTyped DEF PlacesApart, AskedIsNew
<1>1. \A q : Open(q)' = Open(q)
  BY DEF Open
<1>2. Ack(r, code).req = r /\ Ack(r, code).code = code
  BY DEF Ack
<1>3. \A q : q # r => (q \in Carried' <=> q \in Carried)
  OBVIOUS
<1>4. r \in Carried' <=> code = Ok
  BY <1>0
<1>5. AskedIsNew'
  BY <1>1, <1>2, <1>3 DEF PlacesApart, AskedIsNew
<1>6. HandledOnce'
  BY <1>0, <1>1, <1>2, <1>3 DEF PlacesApart, HandledOnce
<1>7. AckIsTrue'
  BY <1>0, <1>1, <1>2, <1>3, <1>4 DEF PlacesApart, AckIsTrue
<1>8. OutcomeIsTrue'
  <2>1. outcome[r] \notin {Ok, "unasked", "DISCONNECTED"} \cup ServerCodes(kind[r])
    BY <1>0, CodesApart, HandlersTyped DEF Open, Ok
  <2> QED BY <2>1, <1>3 DEF PlacesApart, OutcomeIsTrue
<1> QED BY <1>5, <1>6, <1>7, <1>8 DEF PlacesApart

\* Or a handler takes it.
LEMMA PlacesBegun ==
    ASSUME ActionsTyped, PlacesApart, UNCHANGED <<kind, outcome>>, Carried' = Carried,
           Acks' = Acks,
           NEW r \in Asks, kind[r] \in EgressKinds, Asks' = Asks \ {r},
           handlers' = handlers \cup {[req |-> r, stage |-> "checking", alive |-> TRUE]}
    PROVE  PlacesApart' /\ handlers' \subseteq Handlers
<1>0. r \in Requests /\ Open(r) /\ r \notin Carried /\ (\A h \in handlers : h.req # r)
      /\ (\A m \in Acks : m.req # r)
  BY HandlersTyped DEF PlacesApart, AskedIsNew
<1>1. \A q : Open(q)' = Open(q)
  BY DEF Open
<1> DEFINE g == [req |-> r, stage |-> "checking", alive |-> TRUE]
<1>a. g \in Handlers /\ g.req = r /\ g.stage = "checking" /\ handlers' = handlers \cup {g}
  BY <1>0 DEF Handlers
<1> HIDE DEF g
<1>2. handlers' \subseteq Handlers
  BY <1>a DEF ActionsTyped
<1>5. AskedIsNew'
  BY <1>0, <1>1, <1>a DEF PlacesApart, AskedIsNew
<1>6. HandledOnce'
  BY <1>0, <1>1, <1>a DEF PlacesApart, HandledOnce
<1>7. AckIsTrue'
  BY <1>1 DEF PlacesApart, AckIsTrue
<1>8. OutcomeIsTrue'
  BY DEF PlacesApart, OutcomeIsTrue
<1> QED BY <1>2, <1>5, <1>6, <1>7, <1>8 DEF PlacesApart

\* A handler carries its request out, and goes on.
LEMMA PlacesMoved ==
    ASSUME ActionsTyped, PlacesApart, UNCHANGED <<kind, outcome>>, Asks' = Asks, Acks' = Acks,
           NEW h \in handlers, h.stage = "checking", Carried' = Carried \cup {h.req},
           NEW stage \in {"building", "stopping"}, Moves(h, stage)
    PROVE  PlacesApart' /\ handlers' \subseteq Handlers
<1> DEFINE r == h.req
           g == [h EXCEPT !.stage = stage]
<1>0. r \in Requests /\ Open(r) /\ r \notin Carried /\ (\A m \in Acks : m.req # r) /\ h \in Handlers
      /\ r \notin Asks /\ kind[r] \in EgressKinds /\ \A i \in handlers : i.req = r => i = h
  BY HandlersTyped DEF PlacesApart, HandledOnce, AskedIsNew
<1>1. \A q : Open(q)' = Open(q)
  BY DEF Open
<1>2. g \in Handlers /\ g.req = r /\ g.stage # "checking"
  BY <1>0 DEF Handlers
<1>3. handlers' = (handlers \ {h}) \cup {g}
  BY DEF Moves
<1> HIDE DEF g
<1>4. handlers' \subseteq Handlers
  BY <1>2, <1>3 DEF ActionsTyped
<1>5. AskedIsNew'
  BY <1>0, <1>1, <1>2, <1>3 DEF PlacesApart, AskedIsNew
<1>6. HandledOnce'
  BY <1>0, <1>1, <1>2, <1>3 DEF PlacesApart, HandledOnce
<1>7. AckIsTrue'
  BY <1>0, <1>1 DEF PlacesApart, AckIsTrue
<1>8. OutcomeIsTrue'
  <2>1. outcome[r] \notin {Ok, "unasked", "DISCONNECTED"} \cup ServerCodes(kind[r])
    BY <1>0, CodesApart, HandlersTyped DEF Open, Ok
  <2> QED BY <2>1 DEF PlacesApart, OutcomeIsTrue
<1> QED BY <1>4, <1>5, <1>6, <1>7, <1>8 DEF PlacesApart

\* A handler ends, and answers if it still can.
LEMMA PlacesEnded ==
    ASSUME ActionsTyped, PlacesApart, UNCHANGED <<kind, outcome>>, Asks' = Asks,
           NEW h \in handlers, NEW code \in {Ok} \cup ServerCodes(kind[h.req]),
           handlers' = handlers \ {h},
           Acks' = Acks \/ Acks' = Acks \cup {Ack(h.req, code)},
           \/ Carried' = Carried /\ (h.stage # "checking" <=> code = Ok)
           \/ Carried' = Carried \cup {h.req} /\ code = Ok
    PROVE  PlacesApart' /\ handlers' \subseteq Handlers
<1> DEFINE r == h.req
<1>0. r \in Requests /\ Open(r) /\ (\A m \in Acks : m.req # r) /\ (r \in Carried <=> h.stage # "checking")
      /\ r \notin Asks /\ \A i \in handlers : i.req = r => i = h
  BY HandlersTyped DEF PlacesApart, HandledOnce, AskedIsNew
<1>1. \A q : Open(q)' = Open(q)
  BY DEF Open
<1>2. Ack(r, code).req = r /\ Ack(r, code).code = code
  BY DEF Ack
<1>3. \A q : q # r => (q \in Carried' <=> q \in Carried)
  OBVIOUS
<1>4. r \in Carried' <=> code = Ok
  BY <1>0
<1>5. AskedIsNew'
  BY <1>0, <1>1, <1>2, <1>3 DEF PlacesApart, AskedIsNew
<1>6. HandledOnce'
  BY <1>0, <1>1, <1>2, <1>3 DEF PlacesApart, HandledOnce
<1>7. AckIsTrue'
  BY <1>0, <1>1, <1>2, <1>3, <1>4 DEF PlacesApart, AckIsTrue
<1>8. OutcomeIsTrue'
  <2>1. outcome[r] \notin {Ok, "unasked", "DISCONNECTED"} \cup ServerCodes(kind[r])
    BY <1>0, CodesApart, HandlersTyped DEF Open, Ok
  <2> QED BY <2>1, <1>3 DEF PlacesApart, OutcomeIsTrue
<1>9. handlers' \subseteq Handlers
  BY DEF ActionsTyped
<1> QED BY <1>5, <1>6, <1>7, <1>8, <1>9 DEF PlacesApart

-----------------------------------------------------------------------------
(* The steps.                                                              *)

\* What a step leaves alone.
LEMMA AskerStands ==
    ASSUME ActionsTyped, AsksOnce, UNCHANGED toServer
    PROVE  toServer' \in Seq(Sendings) /\ AsksOnce' /\ Asks' = Asks
BY DEF ActionsTyped, AsksOnce, Asks

LEMMA MessagesStand ==
    ASSUME ActionsTyped, AcksOnce, UNCHANGED toMe
    PROVE  toMe' \in Seq(Messages) /\ AcksOnce' /\ Acks' = Acks
BY DEF ActionsTyped, AcksOnce, Acks

LEMMA DoneStands ==
    ASSUME ActionsTyped, DoneOnce, UNCHANGED done
    PROVE  done' \in Seq(Requests) /\ DoneOnce' /\ Carried' = Carried
BY DEF ActionsTyped, DoneOnce, Carried

LEMMA AllLost ==
    ASSUME ActionsTyped, toServer' = <<>>, toMe' = <<>>
    PROVE  /\ toServer' \in Seq(Sendings) /\ AsksOnce' /\ Asks' = {}
           /\ toMe' \in Seq(Messages) /\ AcksOnce' /\ Acks' = {}
<1>1. DOMAIN <<>> = {}
  OBVIOUS
<1> QED BY <1>1, NothingIn DEF AsksOnce, Once, AcksOnce, Asks, Acks

LEMMA AskStep ==
    ASSUME ActionsIInv, NEW r \in Requests, Ask(r) PROVE ActionsIInv'
<1>0. /\ ActionsTyped /\ AsksOnce /\ AcksOnce /\ DoneOnce /\ PlacesApart
      /\ RelayedInOrder /\ MissedWereDone
  BY DEF ActionsIInv, ListsApart
<1>1. /\ outcome[r] = "unasked"
      /\ UNCHANGED <<kind, can, owned, wire, shown, seat, handlers, done, egress, due, toMe, falls>>
      /\ UNCHANGED <<listens, heard, toOther, missed>>
  BY DEF Ask, given, server, other
<1>2. r \notin Asks /\ r # Join /\ r \in Sendings
  <2>1. ~Open(r)
    BY <1>0, <1>1, CodesApart, HandlersTyped DEF Open
  <2> QED BY <1>0, <2>1, JoinIsNoRequest DEF PlacesApart, AskedIsNew, Sendings
<1>3. /\ toServer' \in Seq(Sendings) /\ AsksOnce'
      /\ \/ outcome' = [outcome EXCEPT ![r] = "waiting"] /\ Asks' = Asks \cup {r}
         \/ outcome' = [outcome EXCEPT ![r] = "DISCONNECTED"] /\ Asks' = Asks
  <2>1. CASE NoSession
    BY <2>1, <1>0, AskerStands DEF Ask
  <2>2. CASE ~NoSession
    <3>1. outcome' = [outcome EXCEPT ![r] = "waiting"] /\ Grows(toServer', toServer, r)
      BY <2>2 DEF Ask, Grows
    <3> QED BY <3>1, <1>0, <1>2, AsksGrow
  <2> QED BY <2>1, <2>2
<1>4. /\ toMe' \in Seq(Messages) /\ AcksOnce' /\ Acks' = Acks
      /\ done' \in Seq(Requests) /\ DoneOnce' /\ Carried' = Carried
  BY <1>0, <1>1, MessagesStand, DoneStands
<1>5. PlacesApart' /\ outcome' \in [Requests -> Words]
  BY <1>0, <1>1, <1>3, <1>4, PlacesAsked
<1>6. RelayedInOrder' /\ MissedWereDone'
  BY <1>0, <1>1, RelayStays DEF other
<1>7. ActionsTyped'
  BY <1>0, <1>1, <1>3, <1>4, <1>5 DEF ActionsTyped
<1> QED BY <1>3, <1>4, <1>5, <1>6, <1>7 DEF ActionsIInv, ListsApart

LEMMA TimesOutStep ==
    ASSUME ActionsIInv, NEW r \in Requests, TimesOut(r) PROVE ActionsIInv'
<1>0. /\ ActionsTyped /\ AsksOnce /\ AcksOnce /\ DoneOnce /\ PlacesApart
      /\ RelayedInOrder /\ MissedWereDone
  BY DEF ActionsIInv, ListsApart
<1>1. /\ outcome' = [outcome EXCEPT ![r] = RequestOf(kind[r]).timeoutCode]
      /\ UNCHANGED <<kind, can, owned, wire, toServer, shown, seat, handlers, done, egress, due, toMe>>
      /\ UNCHANGED <<listens, heard, toOther, missed, falls>>
  BY DEF TimesOut, given, server, other
<1>3. /\ toServer' \in Seq(Sendings) /\ AsksOnce' /\ Asks' = Asks
      /\ toMe' \in Seq(Messages) /\ AcksOnce' /\ Acks' = Acks
      /\ done' \in Seq(Requests) /\ DoneOnce' /\ Carried' = Carried
  BY <1>0, <1>1, AskerStands, MessagesStand, DoneStands
<1>5. PlacesApart' /\ outcome' \in [Requests -> Words]
  BY <1>0, <1>1, <1>3, PlacesSettled
<1>6. RelayedInOrder' /\ MissedWereDone'
  BY <1>0, <1>1, RelayStays DEF other
<1>7. ActionsTyped'
  BY <1>0, <1>1, <1>3, <1>5 DEF ActionsTyped
<1> QED BY <1>3, <1>5, <1>6, <1>7 DEF ActionsIInv, ListsApart

LEMMA AckArrivesStep == ASSUME ActionsIInv, AckArrives PROVE ActionsIInv'
<1> DEFINE m == Head(toMe)
           r == m.req
<1>0. /\ ActionsTyped /\ AsksOnce /\ AcksOnce /\ DoneOnce /\ PlacesApart
      /\ RelayedInOrder /\ MissedWereDone
  BY DEF ActionsIInv, ListsApart
<1>1. /\ Shrinks(toMe', toMe) /\ m.type = "ack"
      /\ outcome' = IF outcome[r] = "waiting" THEN [outcome EXCEPT ![r] = m.code] ELSE outcome
      /\ UNCHANGED <<kind, can, owned, wire, toServer, shown, seat, handlers, done, egress, due>>
      /\ UNCHANGED <<listens, heard, toOther, missed, falls>>
  BY DEF AckArrives, Arriving, Settled, Shrinks, given, server, other
<1>2. /\ toMe' \in Seq(Messages) /\ AcksOnce'
      /\ m \in Acks /\ Acks' = Acks \ {m} /\ \A a \in Acks' : a.req # m.req
  BY <1>0, <1>1, MessagesShrink
<1>3. /\ toServer' \in Seq(Sendings) /\ AsksOnce' /\ Asks' = Asks
      /\ done' \in Seq(Requests) /\ DoneOnce' /\ Carried' = Carried
  BY <1>0, <1>1, AskerStands, DoneStands
<1> HIDE DEF m
<1>4. /\ r \in Requests /\ m.code \in {Ok} \cup ServerCodes(kind[r]) /\ (r \in Carried <=> m.code = Ok)
      /\ r \notin Asks /\ (\A h \in handlers : h.req # r)
  BY <1>0, <1>2, HandlersTyped DEF PlacesApart, AckIsTrue, AskedIsNew, HandledOnce, Answers
<1>5. PlacesApart' /\ outcome' \in [Requests -> Words]
  <2>1. CASE outcome[r] = "waiting"
    <3>1. outcome' = [outcome EXCEPT ![r] = m.code]
      BY <2>1, <1>1
    <3>2. UNCHANGED <<kind, handlers>> /\ Acks' \subseteq Acks
      BY <1>1, <1>2
    <3> QED BY <3>1, <3>2, <1>0, <1>2, <1>3, <1>4, PlacesSettled
  <2>2. CASE outcome[r] # "waiting"
    <3>1. UNCHANGED <<kind, outcome, handlers>> /\ Acks' \subseteq Acks /\ Asks' \subseteq Asks
      BY <2>2, <1>1, <1>2, <1>3
    <3> QED BY <3>1, <1>0, <1>3, PlacesStay DEF ActionsTyped
  <2> QED BY <2>1, <2>2
<1>6. RelayedInOrder' /\ MissedWereDone'
  BY <1>0, <1>1, RelayStays DEF other
<1>7. ActionsTyped'
  BY <1>0, <1>1, <1>2, <1>3, <1>5 DEF ActionsTyped
<1> QED BY <1>2, <1>3, <1>5, <1>6, <1>7 DEF ActionsIInv, ListsApart

LEMMA StatusArrivesStep == ASSUME ActionsIInv, StatusArrives PROVE ActionsIInv'
<1>0. /\ ActionsTyped /\ AsksOnce /\ AcksOnce /\ DoneOnce /\ PlacesApart
      /\ RelayedInOrder /\ MissedWereDone
  BY DEF ActionsIInv, ListsApart
<1>1. /\ Shrinks(toMe', toMe) /\ Head(toMe).type = "status"
      /\ UNCHANGED <<kind, can, owned, wire, toServer, outcome, seat, handlers, done, egress, due>>
      /\ UNCHANGED <<listens, heard, toOther, missed, falls>>
  BY DEF StatusArrives, Arriving, Shrinks, given, server, other
<1>2. toMe' \in Seq(Messages) /\ AcksOnce' /\ Acks' = Acks
  BY <1>0, <1>1, MessagesShrink
<1>3. /\ toServer' \in Seq(Sendings) /\ AsksOnce' /\ Asks' = Asks
      /\ done' \in Seq(Requests) /\ DoneOnce' /\ Carried' = Carried
  BY <1>0, <1>1, AskerStands, DoneStands
<1>5. PlacesApart'
  BY <1>0, <1>1, <1>2, <1>3, PlacesStay
<1>6. RelayedInOrder' /\ MissedWereDone'
  BY <1>0, <1>1, RelayStays DEF other
<1>7. ActionsTyped'
  BY <1>0, <1>1, <1>2, <1>3 DEF ActionsTyped
<1> QED BY <1>2, <1>3, <1>5, <1>6, <1>7 DEF ActionsIInv, ListsApart

LEMMA FallStep == ASSUME ActionsIInv, Falls \/ LeaveSession PROVE ActionsIInv'
<1>0. /\ ActionsTyped /\ AsksOnce /\ AcksOnce /\ DoneOnce /\ PlacesApart
      /\ RelayedInOrder /\ MissedWereDone
  BY DEF ActionsIInv, ListsApart
<1>1. /\ toServer' = <<>> /\ toMe' = <<>> /\ seat' = FALSE /\ handlers' = Orphaned
      /\ wire' \in {"up", "down", "left"}
      /\ UNCHANGED <<kind, can, owned, outcome, done, egress, due, listens, heard, toOther, missed>>
  BY DEF Falls, LeaveSession, given, other
<1>2. /\ toServer' \in Seq(Sendings) /\ AsksOnce' /\ Asks' = {}
      /\ toMe' \in Seq(Messages) /\ AcksOnce' /\ Acks' = {}
      /\ done' \in Seq(Requests) /\ DoneOnce' /\ Carried' = Carried
  BY <1>0, <1>1, AllLost, DoneStands
<1>5. PlacesApart' /\ handlers' \subseteq Handlers
  BY <1>0, <1>1, <1>2, PlacesFall, OrphansAre
<1>6. RelayedInOrder' /\ MissedWereDone'
  BY <1>0, <1>1, RelayStays DEF other
<1>7. ActionsTyped'
  BY <1>0, <1>1, <1>2, <1>5 DEF ActionsTyped
<1> QED BY <1>2, <1>5, <1>6, <1>7 DEF ActionsIInv, ListsApart

\* A join is sent, and read.
LEMMA JoinStep == ASSUME ActionsIInv, Returns \/ Admits PROVE ActionsIInv'
<1>0. /\ ActionsTyped /\ AsksOnce /\ AcksOnce /\ DoneOnce /\ PlacesApart
      /\ RelayedInOrder /\ MissedWereDone
  BY DEF ActionsIInv, ListsApart
<1>1. /\ \/ Grows(toServer', toServer, Join)
         \/ Shrinks(toServer', toServer) /\ Head(toServer) = Join
      /\ seat' \in BOOLEAN /\ wire' \in {"up", "down", "left"}
      /\ UNCHANGED <<kind, can, owned, outcome, handlers, done, toMe, egress, due>>
      /\ UNCHANGED <<listens, heard, toOther, missed>>
  BY <1>0 DEF Returns, Admits, Reads, Grows, Shrinks, given, server, other, ActionsTyped
<1>2. Join \in Sendings /\ Join \notin Asks
  BY DEF Sendings, Asks
<1>3. toServer' \in Seq(Sendings) /\ AsksOnce' /\ Asks' = Asks
  BY <1>0, <1>1, <1>2, AsksGrow, AsksShrink
<1>4. /\ toMe' \in Seq(Messages) /\ AcksOnce' /\ Acks' = Acks
      /\ done' \in Seq(Requests) /\ DoneOnce' /\ Carried' = Carried
  BY <1>0, <1>1, MessagesStand, DoneStands
<1>5. PlacesApart'
  BY <1>0, <1>1, <1>3, <1>4, PlacesStay
<1>6. RelayedInOrder' /\ MissedWereDone'
  BY <1>0, <1>1, RelayStays DEF other
<1>7. ActionsTyped'
  BY <1>0, <1>1, <1>3, <1>4 DEF ActionsTyped
<1> QED BY <1>3, <1>4, <1>5, <1>6, <1>7 DEF ActionsIInv, ListsApart

LEMMA AckTyped ==
    ASSUME NEW r \in Requests, NEW k \in Kinds, NEW code \in {Ok} \cup ServerCodes(k)
    PROVE  Ack(r, code) \in Answers /\ Ack(r, code).req = r /\ Ack(r, code).type = "ack"
BY CodesApart DEF Ack, Answers, Words

LEMMA AnswersAtOnceStep == ASSUME ActionsIInv, AnswersAtOnce PROVE ActionsIInv'
<1> DEFINE r == Head(toServer)
<1>0. /\ ActionsTyped /\ AsksOnce /\ AcksOnce /\ DoneOnce /\ PlacesApart
      /\ RelayedInOrder /\ MissedWereDone
  BY DEF ActionsIInv, ListsApart
<1>1. PICK code \in Verdicts(kind[r]) :
         /\ code # Ok \/ kind[r] \notin EgressKinds
         /\ Grows(toMe', toMe, Ack(r, code))
         /\ done' = IF code = Ok THEN Append(done, r) ELSE done
         /\ IF code = Ok /\ kind[r] \in BroadcastKinds THEN Relay(r) ELSE UNCHANGED other
  BY DEF AnswersAtOnce, Grows
<1>2. /\ Shrinks(toServer', toServer) /\ r # Join
      /\ UNCHANGED <<kind, can, owned, wire, outcome, shown, seat, handlers, egress, due, falls>>
  BY DEF AnswersAtOnce, Reads, Shrinks, given
<1>3. toServer' \in Seq(Sendings) /\ AsksOnce' /\ r \in Asks /\ Asks' = Asks \ {r}
  BY <1>0, <1>2, AsksShrink
<1> HIDE DEF r
<1>4. /\ r \in Requests /\ kind[r] \in Kinds /\ code \in {Ok} \cup ServerCodes(kind[r])
      /\ r \notin Carried /\ \A m \in Acks : m.req # r
  BY <1>0, <1>1, <1>3, HandlersTyped, VerdictsAreCodes DEF PlacesApart, AskedIsNew
<1>5. toMe' \in Seq(Messages) /\ AcksOnce' /\ Acks' = Acks \cup {Ack(r, code)}
  <2>1. Ack(r, code) \in Answers /\ Ack(r, code).req = r
    BY <1>4, AckTyped
  <2> DEFINE m == Ack(r, code)
  <2>2. m \in Answers /\ (\A a \in Acks : a.req # m.req) /\ Grows(toMe', toMe, m)
    BY <2>1, <1>1, <1>4
  <2> HIDE DEF m
  <2>3. toMe' \in Seq(Messages) /\ AcksOnce' /\ Acks' = Acks \cup {m}
    BY <2>2, <1>0, AcksGrow
  <2> QED BY <2>3 DEF m
<1>6. /\ done' \in Seq(Requests) /\ DoneOnce'
      /\ Carried' = IF code = Ok THEN Carried \cup {r} ELSE Carried
  <2>1. CASE code = Ok
    <3>1. Grows(done', done, r)
      BY <2>1, <1>1 DEF Grows
    <3> QED BY <3>1, <2>1, <1>0, <1>4, DoneGrows
  <2>2. CASE code # Ok
    BY <2>2, <1>0, <1>1, DoneStands
  <2> QED BY <2>1, <2>2
<1>7. PlacesApart'
  BY <1>0, <1>2, <1>3, <1>4, <1>5, <1>6, PlacesAnswered
<1>8. /\ RelayedInOrder' /\ MissedWereDone'
      /\ toOther' \in Seq(Requests) /\ heard' \in Seq(Requests) /\ listens' \in BOOLEAN
  <2>0. /\ UNCHANGED kind /\ heard \in Seq(Requests) /\ toOther \in Seq(Requests)
        /\ listens \in BOOLEAN
    BY <1>0, <1>2 DEF ActionsTyped
  <2>1. CASE code # Ok
    <3>1. UNCHANGED <<kind, done, other>>
      BY <2>1, <1>1, <1>2
    <3>2. RelayedInOrder' /\ MissedWereDone'
      BY <3>1, <1>0, RelayStays
    <3> QED BY <3>1, <3>2, <2>0 DEF other
  <2>2. CASE code = Ok /\ kind[r] \notin BroadcastKinds
    <3>1. UNCHANGED <<kind, other>> /\ Grows(done', done, r)
      BY <2>2, <1>1, <1>2 DEF Grows
    <3>2. RelayedInOrder' /\ MissedWereDone'
      BY <3>1, <2>2, <1>0, <1>4, OthersAreNotRelayed
    <3> QED BY <3>1, <3>2, <2>0 DEF other
  <2>3. CASE code = Ok /\ kind[r] \in BroadcastKinds
    <3>1. Relay(r) /\ Grows(done', done, r)
      BY <2>3, <1>1 DEF Grows
    <3> QED BY <3>1, <2>0, <2>3, <1>0, <1>4, BroadcastsAreRelayed
  <2> QED BY <2>1, <2>2, <2>3
<1>9. ActionsTyped'
  BY <1>0, <1>2, <1>3, <1>5, <1>6, <1>8 DEF ActionsTyped
<1> QED BY <1>3, <1>5, <1>6, <1>7, <1>8, <1>9 DEF ActionsIInv, ListsApart

LEMMA BeginsEgressStep == ASSUME ActionsIInv, BeginsEgress PROVE ActionsIInv'
<1> DEFINE r == Head(toServer)
<1>0. /\ ActionsTyped /\ AsksOnce /\ AcksOnce /\ DoneOnce /\ PlacesApart
      /\ RelayedInOrder /\ MissedWereDone
  BY DEF ActionsIInv, ListsApart
<1>2. /\ Shrinks(toServer', toServer) /\ r # Join /\ kind[r] \in EgressKinds
      /\ handlers' = handlers \cup {[req |-> r, stage |-> "checking", alive |-> TRUE]}
      /\ UNCHANGED <<kind, can, owned, wire, outcome, shown, seat, done, toMe, egress, due, falls>>
      /\ UNCHANGED <<listens, heard, toOther, missed>>
  BY DEF BeginsEgress, Reads, Shrinks, given, other
<1>3. toServer' \in Seq(Sendings) /\ AsksOnce' /\ r \in Asks /\ Asks' = Asks \ {r}
  BY <1>0, <1>2, AsksShrink
<1> HIDE DEF r
<1>4. /\ toMe' \in Seq(Messages) /\ AcksOnce' /\ Acks' = Acks
      /\ done' \in Seq(Requests) /\ DoneOnce' /\ Carried' = Carried
  BY <1>0, <1>2, MessagesStand, DoneStands
<1>5. PlacesApart' /\ handlers' \subseteq Handlers
  BY <1>0, <1>2, <1>3, <1>4, PlacesBegun
<1>6. RelayedInOrder' /\ MissedWereDone'
  BY <1>0, <1>2, RelayStays DEF other
<1>7. ActionsTyped'
  BY <1>0, <1>2, <1>3, <1>4, <1>5 DEF ActionsTyped
<1> QED BY <1>3, <1>4, <1>5, <1>6, <1>7 DEF ActionsIInv, ListsApart

\* Ends(h, code)
LEMMA WhatEnds ==
    ASSUME ActionsTyped, PlacesApart, AcksOnce, NEW h \in handlers,
           NEW code \in {Ok} \cup ServerCodes(kind[h.req]), Ends(h, code)
    PROVE  /\ toMe' \in Seq(Messages) /\ AcksOnce' /\ handlers' = handlers \ {h}
           /\ Acks' = Acks \/ Acks' = Acks \cup {Ack(h.req, code)}
<1> DEFINE m == Ack(h.req, code)
<1>0. h.req \in Requests /\ kind[h.req] \in Kinds /\ \A a \in Acks : a.req # h.req
  BY HandlersTyped DEF PlacesApart, HandledOnce
<1>1. m \in Answers /\ \A a \in Acks : a.req # m.req
  BY <1>0, AckTyped
<1>2. handlers' = handlers \ {h} /\ toMe' = IF h.alive THEN Append(toMe, m) ELSE toMe
  BY DEF Ends, Answered
<1> HIDE DEF m
<1>3. CASE h.alive
  <2>1. Grows(toMe', toMe, m)
    BY <1>3, <1>2 DEF Grows
  <2>2. toMe' \in Seq(Messages) /\ AcksOnce' /\ Acks' = Acks \cup {m}
    BY <2>1, <1>1, AcksGrow
  <2> QED BY <2>2, <1>2 DEF m
<1>4. CASE ~h.alive
  BY <1>4, <1>2, MessagesStand
<1> QED BY <1>3, <1>4

\* A handler that ends without carrying anything out, or after it has.
LEMMA EndsStep ==
    ASSUME ActionsIInv, NEW h \in handlers,
           StartRefused(h) \/ EgressStarted(h) \/ StopRefused(h) \/ EgressStopped(h)
    PROVE  ActionsIInv'
<1>0. /\ ActionsTyped /\ AsksOnce /\ AcksOnce /\ DoneOnce /\ PlacesApart
      /\ RelayedInOrder /\ MissedWereDone
  BY DEF ActionsIInv, ListsApart
<1>1. PICK code \in {Ok} \cup ServerCodes(kind[h.req]) :
         Ends(h, code) /\ (h.stage # "checking" <=> code = Ok)
  BY DEF StartRefused, EgressStarted, StopRefused, EgressStopped, Checked, ServerCodes,
     StartKinds,
         EgressKinds, HostKinds, EgressCodes, Ok
<1>2. /\ UNCHANGED <<kind, can, owned, seat, done, egress, due, wire, toServer, outcome, shown, falls>>
      /\ UNCHANGED <<listens, heard, toOther, missed>>
  BY DEF StartRefused, EgressStarted, StopRefused, EgressStopped, given, asker, other
<1>3. /\ toServer' \in Seq(Sendings) /\ AsksOnce' /\ Asks' = Asks
      /\ done' \in Seq(Requests) /\ DoneOnce' /\ Carried' = Carried
  BY <1>0, <1>2, AskerStands, DoneStands
<1>4. /\ toMe' \in Seq(Messages) /\ AcksOnce' /\ handlers' = handlers \ {h}
      /\ Acks' = Acks \/ Acks' = Acks \cup {Ack(h.req, code)}
  BY <1>0, <1>1, WhatEnds
<1>5. PlacesApart' /\ handlers' \subseteq Handlers
  BY <1>0, <1>1, <1>2, <1>3, <1>4, PlacesEnded
<1>6. RelayedInOrder' /\ MissedWereDone'
  BY <1>0, <1>2, RelayStays DEF other
<1>7. ActionsTyped'
  BY <1>0, <1>2, <1>3, <1>4, <1>5 DEF ActionsTyped
<1> QED BY <1>3, <1>4, <1>5, <1>6, <1>7 DEF ActionsIInv, ListsApart

LEMMA ToldStatus ==
    ASSUME ActionsTyped, AcksOnce, NEW s \in Sessions, toMe' = Told(Status(s))
    PROVE  toMe' \in Seq(Messages) /\ AcksOnce' /\ Acks' = Acks
<1> DEFINE m == Status(s)
<1>1. m \in Statuses
  BY DEF Status, Statuses
<1>2. toMe' = toMe \/ Grows(toMe', toMe, m)
  BY DEF Told, Grows
<1> HIDE DEF m
<1> QED BY <1>1, <1>2, MessagesStand, StatusGrows

LEMMA EgressStartsStep == ASSUME ActionsIInv, NEW h \in handlers, EgressStarts(h)
                                 PROVE ActionsIInv'
<1>0. /\ ActionsTyped /\ AsksOnce /\ AcksOnce /\ DoneOnce /\ PlacesApart
      /\ RelayedInOrder /\ MissedWereDone
  BY DEF ActionsIInv, ListsApart
<1>1. /\ h.stage = "checking" /\ kind[h.req] \in StartKinds /\ Moves(h, "building")
      /\ Grows(done', done, h.req) /\ egress' = "starting" /\ toMe' = Told(Status("starting"))
      /\ UNCHANGED <<kind, can, owned, seat, due, wire, toServer, outcome, shown, falls>>
      /\ UNCHANGED <<listens, heard, toOther, missed>>
  BY DEF EgressStarts, Checked, Grows, given, asker, other
<1>2. h.req \in Requests /\ h.req \notin Carried /\ kind[h.req] \notin BroadcastKinds
  BY <1>0, <1>1, HandlersTyped DEF PlacesApart, HandledOnce, StartKinds, BroadcastKinds
<1>3. /\ toServer' \in Seq(Sendings) /\ AsksOnce' /\ Asks' = Asks
      /\ done' \in Seq(Requests) /\ DoneOnce' /\ Carried' = Carried \cup {h.req}
  BY <1>0, <1>1, <1>2, AskerStands, DoneGrows
<1>4. toMe' \in Seq(Messages) /\ AcksOnce' /\ Acks' = Acks
  BY <1>0, <1>1, ToldStatus DEF Sessions
<1>5. PlacesApart' /\ handlers' \subseteq Handlers
  BY <1>0, <1>1, <1>3, <1>4, PlacesMoved
<1>6. RelayedInOrder' /\ MissedWereDone'
  BY <1>0, <1>1, <1>2, OthersAreNotRelayed DEF other
<1>7. ActionsTyped'
  BY <1>0, <1>1, <1>3, <1>4, <1>5 DEF ActionsTyped, Sessions
<1> QED BY <1>3, <1>4, <1>5, <1>6, <1>7 DEF ActionsIInv, ListsApart

LEMMA EgressStopsStep == ASSUME ActionsIInv, NEW h \in handlers, EgressStops(h)
                                PROVE ActionsIInv'
<1>0. /\ ActionsTyped /\ AsksOnce /\ AcksOnce /\ DoneOnce /\ PlacesApart
      /\ RelayedInOrder /\ MissedWereDone
  BY DEF ActionsIInv, ListsApart
<1>1. /\ h.stage = "checking" /\ kind[h.req] = "stop"
      /\ Grows(done', done, h.req) /\ egress' = "stopping"
      /\ IF egress = "stopping" THEN Ends(h, Ok) ELSE Moves(h, "stopping") /\ UNCHANGED toMe
      /\ UNCHANGED <<kind, can, owned, seat, due, wire, toServer, outcome, shown, falls>>
      /\ UNCHANGED <<listens, heard, toOther, missed>>
  BY DEF EgressStops, Checked, Grows, given, asker, other
<1>2. h.req \in Requests /\ h.req \notin Carried /\ kind[h.req] \notin BroadcastKinds
  BY <1>0, <1>1, HandlersTyped DEF PlacesApart, HandledOnce, BroadcastKinds
<1>3. /\ toServer' \in Seq(Sendings) /\ AsksOnce' /\ Asks' = Asks
      /\ done' \in Seq(Requests) /\ DoneOnce' /\ Carried' = Carried \cup {h.req}
  BY <1>0, <1>1, <1>2, AskerStands, DoneGrows
<1>4. toMe' \in Seq(Messages) /\ AcksOnce' /\ PlacesApart' /\ handlers' \subseteq Handlers
  <2>1. CASE egress = "stopping"
    <3>1. Ends(h, Ok) /\ Ok \in {Ok} \cup ServerCodes(kind[h.req])
      BY <2>1, <1>1
    <3>2. /\ toMe' \in Seq(Messages) /\ AcksOnce' /\ handlers' = handlers \ {h}
          /\ Acks' = Acks \/ Acks' = Acks \cup {Ack(h.req, Ok)}
      BY <3>1, <1>0, WhatEnds
    <3> QED BY <3>1, <3>2, <1>0, <1>1, <1>3, PlacesEnded
  <2>2. CASE egress # "stopping"
    <3>1. Moves(h, "stopping") /\ UNCHANGED toMe
      BY <2>2, <1>1
    <3>2. toMe' \in Seq(Messages) /\ AcksOnce' /\ Acks' = Acks
      BY <3>1, <1>0, MessagesStand
    <3> QED BY <3>1, <3>2, <1>0, <1>1, <1>3, PlacesMoved
  <2> QED BY <2>1, <2>2
<1>6. RelayedInOrder' /\ MissedWereDone'
  BY <1>0, <1>1, <1>2, OthersAreNotRelayed DEF other
<1>7. ActionsTyped'
  BY <1>0, <1>1, <1>3, <1>4 DEF ActionsTyped, Sessions
<1> QED BY <1>3, <1>4, <1>6, <1>7 DEF ActionsIInv, ListsApart

\* The session goes its way, and is told of.
LEMMA SessionStep ==
    ASSUME ActionsIInv,
           EgressLive \/ EgressFails \/ EgressOver \/ \E s \in {"live", "over"} : StatusTold(s)
    PROVE  ActionsIInv'
<1>0. /\ ActionsTyped /\ AsksOnce /\ AcksOnce /\ DoneOnce /\ PlacesApart
      /\ RelayedInOrder /\ MissedWereDone
  BY DEF ActionsIInv, ListsApart
<1>1. /\ egress' \in Sessions /\ due' \subseteq {"live", "over"}
      /\ toMe' = toMe \/ \E s \in {"live", "over"} : toMe' = Told(Status(s))
      /\ UNCHANGED <<kind, can, owned, seat, handlers, done, wire, toServer, outcome, shown, falls>>
      /\ UNCHANGED <<listens, heard, toOther, missed>>
  BY <1>0 DEF EgressLive, EgressFails, EgressOver, StatusTold, given, asker, other,
     ActionsTyped, Sessions
<1>3. /\ toServer' \in Seq(Sendings) /\ AsksOnce' /\ Asks' = Asks
      /\ done' \in Seq(Requests) /\ DoneOnce' /\ Carried' = Carried
  BY <1>0, <1>1, AskerStands, DoneStands
<1>4. toMe' \in Seq(Messages) /\ AcksOnce' /\ Acks' = Acks
  <2>1. {"live", "over"} \subseteq Sessions
    BY DEF Sessions
  <2> QED BY <2>1, <1>0, <1>1, ToldStatus, MessagesStand
<1>5. PlacesApart'
  BY <1>0, <1>1, <1>3, <1>4, PlacesStay
<1>6. RelayedInOrder' /\ MissedWereDone'
  BY <1>0, <1>1, RelayStays DEF other
<1>7. ActionsTyped'
  BY <1>0, <1>1, <1>3, <1>4 DEF ActionsTyped
<1> QED BY <1>3, <1>4, <1>5, <1>6, <1>7 DEF ActionsIInv, ListsApart

LEMMA OtherStep == ASSUME ActionsIInv, Hears \/ OtherFalls \/ OtherReturns PROVE ActionsIInv'
<1>0. /\ ActionsTyped /\ AsksOnce /\ AcksOnce /\ DoneOnce /\ PlacesApart
      /\ RelayedInOrder /\ MissedWereDone
  BY DEF ActionsIInv, ListsApart
<1>1. /\ listens' \in BOOLEAN
      /\ UNCHANGED <<kind, can, owned, seat, handlers, done, egress, due, wire, toServer, outcome>>
      /\ UNCHANGED <<shown, toMe>>
  BY <1>0 DEF Hears, OtherFalls, OtherReturns, given, asker, server, ActionsTyped
<1>3. /\ toServer' \in Seq(Sendings) /\ AsksOnce' /\ Asks' = Asks
      /\ toMe' \in Seq(Messages) /\ AcksOnce' /\ Acks' = Acks
      /\ done' \in Seq(Requests) /\ DoneOnce' /\ Carried' = Carried
  BY <1>0, <1>1, AskerStands, MessagesStand, DoneStands
<1>5. PlacesApart'
  BY <1>0, <1>1, <1>3, PlacesStay
<1>6. RelayedInOrder' /\ MissedWereDone' /\ heard' \in Seq(Requests) /\ toOther' \in Seq(Requests)
  <2>1. CASE Hears
    BY <2>1, <1>0, HearsKeepsOrder
  <2>2. CASE OtherFalls
    BY <2>2, <1>0, FallKeepsOrder DEF ActionsTyped, OtherFalls
  <2>3. CASE OtherReturns
    <3>1. UNCHANGED <<kind, done, toOther, heard, missed>>
      BY <2>3, <1>1 DEF OtherReturns
    <3>2. Broadcasts' = Broadcasts /\ Relayed' = Relayed
      BY <3>1 DEF Broadcasts, Relayed
    <3> QED BY <3>1, <3>2, <1>0 DEF RelayedInOrder, MissedWereDone, ActionsTyped
  <2> QED BY <2>1, <2>2, <2>3
<1>7. ActionsTyped'
  BY <1>0, <1>1, <1>3, <1>6 DEF ActionsTyped
<1> QED BY <1>3, <1>5, <1>6, <1>7 DEF ActionsIInv, ListsApart

LEMMA ActionsInitHolds == ActionsInit => ActionsIInv
<1> SUFFICES ASSUME ActionsInit PROVE ActionsIInv
  OBVIOUS
<1>1. /\ kind \in [Requests -> Kinds] /\ owned \in BOOLEAN
      /\ wire = "up" /\ seat = TRUE /\ listens = TRUE /\ outcome = [r \in Requests |-> "unasked"]
      /\ toServer = <<>> /\ handlers = {} /\ toMe = <<>> /\ done = <<>> /\ toOther = <<>>
      /\ heard = <<>> /\ missed = {} /\ egress = "none" /\ due = {}
  BY WishesAreKinds DEF ActionsInit
<1>2. DOMAIN <<>> = {} /\ <<>> \o <<>> = <<>>
  OBVIOUS
<1>3. ActionsTyped
  BY <1>1, NothingIn DEF ActionsTyped, Words, Sessions
<1>4. ListsApart
  BY <1>1, <1>2 DEF ListsApart, AsksOnce, Once, AcksOnce, DoneOnce
<1>5. Asks = {} /\ Acks = {} /\ Carried = {}
  BY <1>1, NothingIn DEF Asks, Acks, Carried
<1>6. PlacesApart
  BY <1>1, <1>5 DEF PlacesApart, AskedIsNew, HandledOnce, AckIsTrue, OutcomeIsTrue, Outcomes, Ok
<1>7. Relayed = <<>> /\ Broadcasts = {}
  BY <1>1, <1>2, NothingIn DEF Relayed, Broadcasts
<1>8. RelayedInOrder /\ MissedWereDone
  BY <1>1, <1>2, <1>7, NothingIn DEF RelayedInOrder, MissedWereDone
<1> QED BY <1>3, <1>4, <1>6, <1>8 DEF ActionsIInv

LEMMA ActionsStepHolds == ActionsIInv /\ [ActionsNext]_actionVars => ActionsIInv'
<1> SUFFICES ASSUME ActionsIInv, [ActionsNext]_actionVars PROVE ActionsIInv'
  OBVIOUS
<1>1. CASE UNCHANGED actionVars
  <2>0. /\ ActionsTyped /\ AsksOnce /\ AcksOnce /\ DoneOnce /\ PlacesApart
        /\ RelayedInOrder /\ MissedWereDone
    BY DEF ActionsIInv, ListsApart
  <2>1. /\ UNCHANGED <<kind, can, owned, seat, handlers, done, egress, due, wire, toServer, outcome>>
        /\ UNCHANGED <<shown, toMe, listens, heard, toOther, missed>>
    BY <1>1 DEF actionVars, asker, server, other, given
  <2>2. /\ toServer' \in Seq(Sendings) /\ AsksOnce' /\ Asks' = Asks
        /\ toMe' \in Seq(Messages) /\ AcksOnce' /\ Acks' = Acks
        /\ done' \in Seq(Requests) /\ DoneOnce' /\ Carried' = Carried
    BY <2>0, <2>1, AskerStands, MessagesStand, DoneStands
  <2>3. PlacesApart'
    BY <2>0, <2>1, <2>2, PlacesStay
  <2>4. RelayedInOrder' /\ MissedWereDone'
    BY <2>0, <2>1, RelayStays DEF other
  <2>5. ActionsTyped'
    BY <2>0, <2>1 DEF ActionsTyped
  <2> QED BY <2>2, <2>3, <2>4, <2>5 DEF ActionsIInv, ListsApart
<1>2. CASE \E r \in Requests : Ask(r) \/ TimesOut(r)
  BY <1>2, AskStep, TimesOutStep
<1>3. CASE AckArrives \/ StatusArrives \/ Falls \/ LeaveSession
  BY <1>3, AckArrivesStep, StatusArrivesStep, FallStep
<1>4. CASE Returns \/ Admits \/ AnswersAtOnce \/ BeginsEgress
  BY <1>4, JoinStep, AnswersAtOnceStep, BeginsEgressStep
<1>5. CASE EgressNext
  BY <1>5, EndsStep, EgressStartsStep, EgressStopsStep, SessionStep DEF EgressNext
<1>6. CASE Hears \/ OtherFalls \/ OtherReturns
  BY <1>6, OtherStep
<1> QED BY <1>1, <1>2, <1>3, <1>4, <1>5, <1>6 DEF ActionsNext

\* A request that was carried out was carried out once.
LEMMA HowOftenDone ==
    ASSUME ActionsTyped, DoneOnce, NEW r \in Requests
    PROVE  DoneTimes(r) = IF r \in Carried THEN 1 ELSE 0
<1> DEFINE D == {i \in DOMAIN done : done[i] = r}
<1>1. CASE r \in Carried
  <2>1. PICK i \in DOMAIN done : done[i] = r
    BY <1>1 DEF Carried, In
  <2>2. D = {i}
    BY <2>1 DEF DoneOnce
  <2>3. Cardinality({i}) = 1
    BY FS_Singleton
  <2> QED BY <2>2, <2>3, <1>1 DEF DoneTimes
<1>2. CASE r \notin Carried
  <2>1. D = {}
    BY <1>2 DEF Carried, In
  <2>2. Cardinality({}) = 0
    BY FS_EmptySet
  <2> QED BY <2>1, <2>2, <1>2 DEF DoneTimes
<1> QED BY <1>1, <1>2

LEMMA AnswerFollows == ActionsIInv => AnswerIsTrue
<1> SUFFICES ASSUME ActionsIInv PROVE AnswerIsTrue
  OBVIOUS
<1>1. ActionsTyped /\ DoneOnce /\ OutcomeIsTrue /\ RelayedInOrder /\ MissedWereDone
  BY DEF ActionsIInv, ListsApart, PlacesApart
<1>2. ActionsTypeOK
  <2>1. \A i \in DOMAIN toServer : toServer[i] \in Requests \cup {Join}
    BY <1>1 DEF ActionsTyped, Sendings
  <2> QED BY <1>1, <2>1 DEF ActionsTyped, ActionsTypeOK, OutcomeIsTrue, Sessions
<1>3. ASSUME NEW r \in Requests
      PROVE  /\ DoneTimes(r) <= 1
             /\ outcome[r] = Ok => DoneTimes(r) = 1
             /\ outcome[r] \in ServerCodes(kind[r]) \cup {"DISCONNECTED"} => DoneTimes(r) = 0
             /\ outcome[r] = Ok /\ kind[r] \in BroadcastKinds => r \in In(Relayed) \cup missed
  <2>1. DoneTimes(r) = IF r \in Carried THEN 1 ELSE 0
    BY <1>1, HowOftenDone
  <2>2. /\ outcome[r] = Ok => r \in Carried
        /\ outcome[r] \in {"unasked", "DISCONNECTED"} \cup ServerCodes(kind[r]) => r \notin Carried
    BY <1>1 DEF OutcomeIsTrue
  <2>3. r \in Carried /\ kind[r] \in BroadcastKinds => r \in In(Relayed) \cup missed
    BY <1>1 DEF RelayedInOrder, Broadcasts, Carried
  <2> QED BY <2>1, <2>2, <2>3
<1> QED BY <1>1, <1>2, <1>3 DEF AnswerIsTrue

\* What the promise of a host action, of an egress request or of a broadcast
\* settles with is what happened: carried out once, or not at all; and the
\* broadcasts are heard in their order.
THEOREM AnswersAreTrue == ActionsSpec => []AnswerIsTrue
<1>1. ActionsIInv => AnswerIsTrue
  BY AnswerFollows
<1> QED BY <1>1, ActionsInitHolds, ActionsStepHolds, PTL DEF ActionsSpec

-----------------------------------------------------------------------------
(***************************************************************************)
(* Proof, for any stage and any number of participants that come, go and   *)
(* share, that the stage shows them all, their tiles apart and, up to      *)
(* fifteen, in it.                                                         *)
(*                                                                         *)
(* First the numbers: of the columns there is a first best.  If it left    *)
(* the tiles less than their least size, a column less or more would take  *)
(* more of the stage: so it leaves them that size, and the grid fits.      *)
(***************************************************************************)

LEMMA LeastExists ==
    ASSUME NEW S \in SUBSET Nat, S # {} PROVE \E x \in S : \A y \in S : x <= y
<1>1. PICK x \in S : \A y \in S : ~(<<y, x>> \in OpToRel(<, Nat))
  BY NatLessThanWellFounded, WFMin
<1>2. \A y \in S : ~(y < x)
  BY <1>1 DEF OpToRel
<1> QED BY <1>2

LEMMA ProductGrows ==
    ASSUME NEW a \in Nat, NEW b \in Nat, NEW c \in Nat, NEW d \in Nat, a <= c, b <= d
    PROVE  a * b <= c * d
<1>1. PICK x \in Nat : c = a + x
  BY c - a \in Nat /\ c = a + (c - a)
<1>2. PICK y \in Nat : d = b + y
  BY d - b \in Nat /\ d = b + (d - b)
<1>3. c * d = a * b + a * y + x * b + x * y
  BY <1>1, <1>2
<1>4. a * y \in Nat /\ x * b \in Nat /\ x * y \in Nat /\ a * b \in Nat
  BY <1>1, <1>2
<1> QED BY <1>3, <1>4

\* Also of a negative number more times the same is more.
LEMMA MultipleGrows ==
    ASSUME NEW a \in Int, NEW c \in Int, a <= c, NEW m \in Nat
    PROVE  a * m <= c * m /\ (a < c /\ m > 0 => a * m < c * m)
<1>1. PICK x \in Nat : c = a + x
  BY c - a \in Nat /\ c = a + (c - a)
<1>2. c * m = a * m + x * m /\ a * m \in Int
  BY <1>1
<1>3. x * m \in Nat
  BY <1>1
<1>4. ASSUME x > 0, m > 0 PROVE x * m > 0
  <2>1. 1 * 1 <= x * m
    BY <1>1, <1>4, ProductGrows
  <2> QED BY <1>3, <2>1
<1> QED BY <1>1, <1>2, <1>3, <1>4

LEMMA FractionsFollow ==
    ASSUME NEW a \in Nat, NEW b \in Nat \ {0}, NEW c \in Nat, NEW d \in Nat \ {0},
           NEW e \in Nat, NEW f \in Nat \ {0}, a * d <= c * b, c * f < e * d
    PROVE  a * f < e * b
<1> DEFINE ad == a * d   cb == c * b   cf == c * f   ed == e * d   af == a * f   eb == e * b
<1>1. ad \in Nat /\ cb \in Nat /\ cf \in Nat /\ ed \in Nat /\ af \in Nat /\ eb \in Nat
  OBVIOUS
<1>2. ad * f <= cb * f
  BY <1>1, MultipleGrows
<1>3. cf * b < ed * b
  BY <1>1, MultipleGrows
<1>4. cb * f = cf * b /\ ad * f = af * d /\ ed * b = eb * d
  OBVIOUS
<1>5. ad * f \in Int /\ cb * f \in Int /\ cf * b \in Int /\ ed * b \in Int
  BY <1>1
<1>6. af * d < eb * d
  BY <1>2, <1>3, <1>4, <1>5
<1>7. ~(eb <= af)
  <2>1. ASSUME eb <= af PROVE eb * d <= af * d
    BY <1>1, <2>1, MultipleGrows
  <2>2. eb * d \in Int /\ af * d \in Int
    BY <1>1
  <2> QED BY <1>6, <2>1, <2>2
<1> HIDE DEF af, eb
<1>8. af < eb
  BY <1>1, <1>7
<1> QED BY <1>8 DEF af, eb

\* Of fractions g[c]/h[c] the first of the largest.
Beats(g, h, c, d) == g[c] * h[d] > g[d] * h[c]
FirstBest(g, h, n, c) ==
    /\ \A d \in 1 .. n : ~Beats(g, h, d, c)
    /\ \A d \in 1 .. c - 1 : Beats(g, h, c, d)

LEMMA BestExists ==
    ASSUME NEW n \in Nat \ {0}, NEW g \in [1 .. n -> Nat], NEW h \in [1 .. n -> Nat \ {0}]
    PROVE  \E c \in 1 .. n : FirstBest(g, h, n, c)
<1> DEFINE without == {m \in 1 .. n : \A c \in 1 .. m : ~FirstBest(g, h, m, c)}
<1> SUFFICES ASSUME without # {} PROVE FALSE
  <2>1. n \in 1 .. n
    OBVIOUS
  <2>2. ~(n \in without)
    OBVIOUS
  <2> QED BY <2>1, <2>2
<1>1. PICK x \in without : \A y \in without : x <= y
  <2>1. without \in SUBSET Nat
    OBVIOUS
  <2> HIDE DEF without
  <2> QED BY <2>1, LeastExists
<1>2. x \in 1 .. n /\ \A c \in 1 .. x : ~FirstBest(g, h, x, c)
  BY <1>1
<1>3. \A d \in 1 .. x : g[d] \in Nat /\ h[d] \in Nat \ {0}
  BY <1>2
<1>4. x # 1
  <2>1. g[1] * h[1] \in Int
    BY <1>2, <1>3
  <2> SUFFICES ASSUME x = 1 PROVE FALSE
    OBVIOUS
  <2>2. FirstBest(g, h, 1, 1)
    BY <2>1 DEF FirstBest, Beats
  <2> QED BY <1>2, <2>2
<1>5. x - 1 \in 1 .. n /\ ~(x - 1 \in without)
  <2>1. x - 1 \in 1 .. n /\ ~(x <= x - 1)
    BY <1>2, <1>4
  <2> QED BY <1>1, <2>1
<1>6. PICK c \in 1 .. x - 1 : FirstBest(g, h, x - 1, c)
  BY <1>5
<1>7. c \in 1 .. x /\ x \in 1 .. x /\ \A d \in 1 .. x : d \in 1 .. x - 1 \/ d = x
  BY <1>2, <1>6
<1> HIDE DEF without
<1>8. CASE Beats(g, h, x, c)
  <2>1. ASSUME NEW d \in 1 .. x - 1 PROVE Beats(g, h, x, d) /\ ~Beats(g, h, d, x)
    <3>1. d \in 1 .. x
      BY <1>2
    <3>2. g[d] \in Nat /\ h[d] \in Nat \ {0} /\ g[c] \in Nat /\ h[c] \in Nat \ {0} /\ g[x] \in Nat /\ h[x] \in Nat \ {0}
      BY <1>3, <1>7, <3>1
    <3>3. ~(g[d] * h[c] > g[c] * h[d]) /\ g[x] * h[c] > g[c] * h[x]
      BY <1>6, <1>8 DEF FirstBest, Beats
    <3> DEFINE gd == g[d]   gc == g[c]   gx == g[x]   hd == h[d]   hc == h[c]   hx == h[x]
    <3> HIDE DEF gd, gc, gx, hd, hc, hx
    <3>4. gd * hc <= gc * hd /\ gc * hx < gx * hc
      <4>1. /\ gd \in Nat /\ gc \in Nat /\ gx \in Nat /\ hd \in Nat /\ hc \in Nat /\ hx \in Nat
            /\ ~(gd * hc > gc * hd) /\ gx * hc > gc * hx
        BY <3>2, <3>3 DEF gd, gc, gx, hd, hc, hx
      <4> QED BY <4>1
    <3>5. /\ gd \in Nat /\ gc \in Nat /\ gx \in Nat
          /\ hd \in Nat \ {0} /\ hc \in Nat \ {0} /\ hx \in Nat \ {0}
      BY <3>2 DEF gd, gc, gx, hd, hc, hx
    <3>6. gd * hx < gx * hd
      BY <3>4, <3>5, FractionsFollow
    <3>7. gx * hd > gd * hx /\ ~(gd * hx > gx * hd)
      BY <3>5, <3>6
    <3> QED BY <3>7 DEF Beats, gd, gc, gx, hd, hc, hx
  <2>2. ~Beats(g, h, x, x)
    <3>1. g[x] * h[x] \in Int
      BY <1>3, <1>7
    <3> QED BY <3>1 DEF Beats
  <2>3. FirstBest(g, h, x, x)
    BY <1>7, <2>1, <2>2 DEF FirstBest
  <2> QED BY <1>2, <1>7, <2>3
<1>9. CASE ~Beats(g, h, x, c)
  <2>1. FirstBest(g, h, x, c)
    BY <1>6, <1>7, <1>9 DEF FirstBest
  <2> QED BY <1>2, <1>7, <2>1
<1> QED BY <1>8, <1>9

LEMMA CeilKnown ==
    ASSUME NEW n \in Nat \ {0}, NEW c \in 1 .. n
    PROVE  /\ Ceil(n, c) \in Nat \ {0}
           /\ c * (Ceil(n, c) - 1) < n /\ n <= c * Ceil(n, c)
<1> DEFINE r == Ceil(n, c)
           z == n + c - 1
<1>1. z \in Nat /\ c \in Nat /\ c > 0 /\ z >= c /\ r = z \div c
  BY DEF Ceil
<1> HIDE DEF r, z
<1>2. r \in Int /\ z = c * r + (z % c) /\ z % c \in 0 .. c - 1
  <2>1. z % c \in 0 .. c - 1
    BY <1>1
  <2>2. z \div c \in Int /\ z = c * (z \div c) + (z % c)
    BY <1>1
  <2> QED BY <1>1, <2>1, <2>2
<1>3. r > 0
  <2> SUFFICES ASSUME r <= 0 PROVE FALSE
    BY <1>2
  <2>1. r * c <= 0 * c
    BY <1>1, <1>2, MultipleGrows
  <2>2. r * c = c * r /\ c * r \in Int /\ 0 * c = 0
    BY <1>1, <1>2
  <2> HIDE DEF r
  <2> QED BY <1>1, <1>2, <2>1, <2>2
<1>4. c * (r - 1) = c * r - c /\ c * r \in Int
  BY <1>1, <1>2
<1> QED BY <1>1, <1>2, <1>3, <1>4 DEF r, z

LEMMA CeilFalls ==
    ASSUME NEW n \in Nat \ {0}, NEW c \in 1 .. n, NEW d \in 1 .. n, c <= d
    PROVE  Ceil(n, d) <= Ceil(n, c)
<1> DEFINE r == Ceil(n, c)
           s == Ceil(n, d)
<1>1. r \in Nat \ {0} /\ s \in Nat \ {0} /\ n <= c * r /\ d * (s - 1) < n
  BY CeilKnown
<1> HIDE DEF r, s
<1> SUFFICES ASSUME r <= s - 1 PROVE FALSE
  BY <1>1 DEF r, s
<1>2. c * r <= d * (s - 1)
  BY <1>1, ProductGrows
<1>3. c * r \in Int /\ d * (s - 1) \in Int
  BY <1>1
<1> QED BY <1>1, <1>2, <1>3

\* Tiles of a grid have different places in it.
LEMMA CellsApart ==
    ASSUME NEW n \in Nat \ {0}, NEW c \in 1 .. n
    PROVE  /\ \A i \in 1 .. n : (i - 1) % c \in 0 .. c - 1 /\ RowOf(i, c) \in 0 .. Ceil(n, c) - 1
           /\ \A i, j \in 1 .. n : i # j => (i - 1) % c # (j - 1) % c \/ RowOf(i, c) # RowOf(j, c)
<1>1. ASSUME NEW i \in 1 .. n
      PROVE  /\ (i - 1) % c \in 0 .. c - 1 /\ RowOf(i, c) \in Int
             /\ i - 1 = c * RowOf(i, c) + ((i - 1) % c)
  <2> DEFINE k == i - 1
  <2>1. k \in Nat /\ c \in Nat /\ c > 0 /\ RowOf(i, c) = k \div c
    BY DEF RowOf
  <2> HIDE DEF k
  <2>2. k % c \in 0 .. c - 1
    BY <2>1
  <2>3. k \div c \in Int /\ k = c * (k \div c) + (k % c)
    BY <2>1
  <2> QED BY <2>1, <2>2, <2>3 DEF k
<1>2. ASSUME NEW i \in 1 .. n PROVE RowOf(i, c) \in 0 .. Ceil(n, c) - 1
  <2> DEFINE row == RowOf(i, c)
             r == Ceil(n, c)
  <2>1. /\ row \in Int /\ c * row \in Int /\ c * row <= i - 1 /\ i - 1 < c * row + c
        /\ r \in Nat /\ n <= c * r /\ c * r \in Int
    BY <1>1, CeilKnown
  <2> HIDE DEF row, r
  <2>2. row >= 0
    <3> SUFFICES ASSUME row <= -1 PROVE FALSE
      BY <2>1
    <3>1. row * c <= (-1) * c
      BY <2>1, MultipleGrows
    <3>2. row * c = c * row /\ (-1) * c = -c
      BY <2>1
    <3> QED BY <2>1, <3>1, <3>2
  <2>3. row < r
    <3> SUFFICES ASSUME r <= row PROVE FALSE
      BY <2>1
    <3>1. r * c <= row * c
      BY <2>1, MultipleGrows
    <3>2. r * c = c * r /\ row * c = c * row
      BY <2>1
    <3> QED BY <2>1, <3>1, <3>2
  <2> QED BY <2>1, <2>2, <2>3 DEF row, r
<1>3. ASSUME NEW i \in 1 .. n, NEW j \in 1 .. n, (i - 1) % c = (j - 1) % c, RowOf(i, c) = RowOf(j, c)
      PROVE  i = j
  <2>1. i - 1 = j - 1
    BY <1>1, <1>3
  <2> QED BY <2>1
<1> QED BY <1>1, <1>2, <1>3

-----------------------------------------------------------------------------
(* A larger stage: what a column more or less would give.                  *)

\* A stage of 50 gaps each way.
Large(size) == size \in Nat \X Nat /\ size[1] >= 50 /\ size[2] >= 50

LEMMA CoverageKnown ==
    ASSUME NEW size \in Nat \X Nat, Measured(size), NEW n \in Nat \ {0}, NEW c \in 1 .. n
    PROVE  Coverage(size, n, c)[1] \in Int /\ Coverage(size, n, c)[2] \in Nat \ {0}
<1> DEFINE r == Ceil(n, c)
           w == size[1]
           h == size[2]
<1>1. r \in Nat \ {0} /\ w \in Nat \ {0} /\ h \in Nat \ {0} /\ c \in Nat \ {0}
  BY CeilKnown DEF Measured
<1>2. Coverage(size, n, c) =
        IF ByWidth(size, n, c)
        THEN <<9 * r * (w - (c - 1)) + 16 * c * (r - 1), 16 * c * h>>
        ELSE <<16 * c * (h - (r - 1)) + 9 * r * (c - 1), 9 * r * w>>
  BY DEF Coverage
<1> HIDE DEF r, w, h
<1>3. 1 * 1 <= c * h /\ 1 * 1 <= r * w
  BY <1>1, ProductGrows
<1>4. /\ 9 * r * (w - (c - 1)) + 16 * c * (r - 1) \in Int
      /\ 16 * c * (h - (r - 1)) + 9 * r * (c - 1) \in Int
      /\ 16 * c * h \in Nat \ {0} /\ 9 * r * w \in Nat \ {0}
  <2>1. c * h \in Nat /\ r * w \in Nat /\ 16 * c * h = 16 * (c * h) /\ 9 * r * w = 9 * (r * w)
    BY <1>1
  <2> DEFINE a == c * h
             b == r * w
  <2>2. a \in Nat /\ a >= 1 /\ b \in Nat /\ b >= 1
    BY <1>3, <2>1
  <2> HIDE DEF a, b
  <2>3. 16 * a \in Nat \ {0} /\ 9 * b \in Nat \ {0}
    BY <2>2
  <2>4. 16 * c * h \in Nat \ {0} /\ 9 * r * w \in Nat \ {0}
    BY <2>1, <2>3 DEF a, b
  <2>5. /\ 9 * r * (w - (c - 1)) + 16 * c * (r - 1) \in Int
        /\ 16 * c * (h - (r - 1)) + 9 * r * (c - 1) \in Int
    BY <1>1
  <2> QED BY <2>4, <2>5
<1> QED BY <1>2, <1>4

LEMMA ColumnsKnown ==
    ASSUME NEW size \in Nat \X Nat, Measured(size), NEW n \in Nat \ {0}
    PROVE  /\ Columns(size, n) \in 1 .. n
           /\ \A d \in 1 .. n : ~Better(size, n, d, Columns(size, n))
<1> DEFINE g == [c \in 1 .. n |-> Greater(0, Coverage(size, n, c)[1])]
           h == [c \in 1 .. n |-> Coverage(size, n, c)[2]]
           first(c) == /\ \A d \in 1 .. n : ~Better(size, n, d, c)
                       /\ \A d \in 1 .. c - 1 : Better(size, n, c, d)
<1>1. g \in [1 .. n -> Nat] /\ h \in [1 .. n -> Nat \ {0}]
  <2>1. ASSUME NEW c \in 1 .. n PROVE Greater(0, Coverage(size, n, c)[1]) \in Nat
    BY CoverageKnown DEF Greater
  <2> QED BY <2>1, CoverageKnown
<1>2. ASSUME NEW c \in 1 .. n, NEW d \in 1 .. n PROVE Better(size, n, c, d) <=> Beats(g, h, c, d)
  BY DEF Better, Beats
<1> HIDE DEF g, h
<1>3. PICK c \in 1 .. n : FirstBest(g, h, n, c)
  BY <1>1, BestExists
<1>4. \A d \in 1 .. c - 1 : d \in 1 .. n
  OBVIOUS
<1>5. first(c)
  BY <1>2, <1>3, <1>4 DEF FirstBest
<1>6. Columns(size, n) = CHOOSE e \in 1 .. n : first(e)
  BY DEF Columns
<1> HIDE DEF first
<1>7. Columns(size, n) \in 1 .. n /\ first(Columns(size, n))
  BY <1>5, <1>6
<1> QED BY <1>7 DEF first

\* With one column less, if its tiles fill the width too, the grid takes more.
LEMMA NarrowerTakesMore ==
    ASSUME NEW w \in Nat, NEW h \in Nat \ {0}, NEW c \in Nat, c >= 2, w >= c - 1,
           NEW r \in Nat \ {0}, NEW s \in Nat, r <= s
    PROVE  (9 * s * (w - (c - 2)) + 16 * (c - 1) * (s - 1)) * (16 * c * h)
             > (9 * r * (w - (c - 1)) + 16 * c * (r - 1)) * (16 * (c - 1) * h)
<1> DEFINE A == w - (c - 1)
           d == c - 1
           X == s * (A + 1)
           Y == r * A
           U == d * (s - 1)
           V == c * (r - 1)
<1>1. A \in Nat /\ d \in Nat /\ d >= 1 /\ s - 1 \in Nat /\ r - 1 \in Nat /\ w - (c - 2) = A + 1
  OBVIOUS
<1>2. X \in Nat /\ Y \in Nat /\ X > Y
  <2>1. r * (A + 1) <= s * (A + 1)
    BY <1>1, ProductGrows
  <2>2. r * (A + 1) = Y + r /\ Y \in Nat /\ X \in Nat
    BY <1>1
  <2> HIDE DEF X, Y
  <2> QED BY <2>1, <2>2 DEF X
<1>3. X * c > Y * d
  <2>1. Y * d <= Y * c
    BY <1>1, <1>2, ProductGrows
  <2>2. Y * c < X * c
    BY <1>2, MultipleGrows
  <2>3. Y * d \in Int /\ Y * c \in Int /\ X * c \in Int
    BY <1>1, <1>2
  <2> QED BY <2>1, <2>2, <2>3
<1>4. U * c >= V * d
  <2>1. (r - 1) * (c * d) <= (s - 1) * (c * d)
    BY <1>1, ProductGrows
  <2>2. (r - 1) * (c * d) = V * d /\ (s - 1) * (c * d) = U * c
    BY <1>1
  <2> QED BY <2>1, <2>2
<1>5. U \in Nat /\ V \in Nat
  BY <1>1
<1> DEFINE P == (9 * X + 16 * U) * c
           Q == (9 * Y + 16 * V) * d
<1>6. P > Q /\ P \in Nat /\ Q \in Nat
  <2>1. P = 9 * (X * c) + 16 * (U * c) /\ Q = 9 * (Y * d) + 16 * (V * d)
    BY <1>1, <1>2, <1>5
  <2>2. X * c \in Nat /\ Y * d \in Nat /\ U * c \in Nat /\ V * d \in Nat
    BY <1>1, <1>2, <1>5
  <2> DEFINE xc == X * c   yd == Y * d   uc == U * c   vd == V * d
  <2>3. P = 9 * xc + 16 * uc /\ Q = 9 * yd + 16 * vd
    BY <2>1
  <2>4. xc \in Nat /\ yd \in Nat /\ uc \in Nat /\ vd \in Nat /\ xc > yd /\ uc >= vd
    BY <1>3, <1>4, <2>2
  <2> HIDE DEF xc, yd, uc, vd, P, Q
  <2> QED BY <2>3, <2>4
<1>7. Q * (16 * h) < P * (16 * h)
  BY <1>6, MultipleGrows
<1>8. /\ (9 * s * (w - (c - 2)) + 16 * (c - 1) * (s - 1)) * (16 * c * h) = P * (16 * h)
      /\ (9 * r * (w - (c - 1)) + 16 * c * (r - 1)) * (16 * (c - 1) * h) = Q * (16 * h)
  <2>1. 9 * s * (w - (c - 2)) + 16 * (c - 1) * (s - 1) = 9 * X + 16 * U
    <3>1. 9 * s * (A + 1) = 9 * X /\ 16 * d * (s - 1) = 16 * U
      BY <1>1
    <3> QED BY <1>1, <3>1
  <2>2. 9 * r * (w - (c - 1)) + 16 * c * (r - 1) = 9 * Y + 16 * V
    <3>1. 9 * r * A = 9 * Y /\ 16 * c * (r - 1) = 16 * V
      BY <1>1
    <3> QED BY <3>1
  <2> DEFINE e == 9 * X + 16 * U
             f == 9 * Y + 16 * V
  <2>3. e \in Nat /\ f \in Nat
    BY <1>2, <1>5
  <2>4. e * (16 * c * h) = (e * c) * (16 * h) /\ f * (16 * d * h) = (f * d) * (16 * h)
    <3> HIDE DEF e, f, d
    <3> QED BY <1>1, <2>3
  <2> QED BY <2>1, <2>2, <2>4
<1> QED BY <1>7, <1>8

\* With one column more, if its tiles fill the height too, the grid takes more.
LEMMA WiderTakesMore ==
    ASSUME NEW w \in Nat \ {0}, NEW h \in Nat, NEW c \in Nat \ {0},
           NEW r \in Nat, NEW s \in Nat \ {0}, s <= r, h >= r
    PROVE  (16 * (c + 1) * (h - (s - 1)) + 9 * s * c) * (9 * r * w)
             > (16 * c * (h - (r - 1)) + 9 * r * (c - 1)) * (9 * s * w)
<1> DEFINE A == h - (r - 1)
           B == h - (s - 1)
           d == c + 1
           P == (16 * (d * B) + 9 * (s * c)) * r
           Q == (16 * (c * A) + 9 * (r * (c - 1))) * s
<1>1. A \in Nat /\ A >= 1 /\ B \in Nat /\ A <= B /\ d \in Nat /\ c - 1 \in Nat /\ r >= 1
  OBVIOUS
<1>2. d * B \in Nat /\ c * A \in Nat /\ d * B > c * A
  <2>1. c * A <= c * B
    BY <1>1, ProductGrows
  <2>2. d * B = c * B + B /\ c * B \in Nat /\ c * A \in Nat /\ B > 0
    BY <1>1
  <2> DEFINE ca == c * A   cb == c * B   db == d * B
  <2> HIDE DEF ca, cb, db
  <2>3. ca <= cb /\ db = cb + B /\ cb \in Nat /\ ca \in Nat
    BY <2>1, <2>2 DEF ca, cb, db
  <2>4. db > ca /\ db \in Nat
    BY <1>1, <2>2, <2>3
  <2> QED BY <2>3, <2>4 DEF ca, db
<1>3. (d * B) * r > (c * A) * s
  <2> DEFINE db == d * B
             ca == c * A
  <2>1. db \in Nat /\ ca \in Nat /\ ca < db
    BY <1>2
  <2> HIDE DEF db, ca
  <2>2. ca * s <= ca * r
    BY <2>1, ProductGrows
  <2>3. ca * r < db * r
    BY <1>1, <2>1, MultipleGrows
  <2>4. ca * s \in Int /\ ca * r \in Int /\ db * r \in Int
    BY <2>1
  <2>5. db * r > ca * s
    BY <2>2, <2>3, <2>4
  <2> QED BY <2>5 DEF db, ca
<1>4. (s * c) * r >= (r * (c - 1)) * s
  <2>1. (c - 1) * (r * s) <= c * (r * s)
    BY <1>1, ProductGrows
  <2>2. (c - 1) * (r * s) = (r * (c - 1)) * s /\ c * (r * s) = (s * c) * r
    BY <1>1
  <2> QED BY <2>1, <2>2
<1>5. P > Q /\ P \in Nat /\ Q \in Nat
  <2> DEFINE dbr == (d * B) * r   cas == (c * A) * s
             scr == (s * c) * r   rcs == (r * (c - 1)) * s
  <2>1. P = 16 * dbr + 9 * scr /\ Q = 16 * cas + 9 * rcs
    BY <1>1, <1>2
  <2>2. dbr \in Nat /\ cas \in Nat /\ scr \in Nat /\ rcs \in Nat
    BY <1>1, <1>2
  <2>3. dbr > cas /\ scr >= rcs
    BY <1>3, <1>4
  <2> HIDE DEF dbr, cas, scr, rcs, P, Q
  <2> QED BY <2>1, <2>2, <2>3
<1>6. Q * (9 * w) < P * (9 * w)
  BY <1>5, MultipleGrows
<1>7. /\ (16 * (c + 1) * (h - (s - 1)) + 9 * s * c) * (9 * r * w) = P * (9 * w)
      /\ (16 * c * (h - (r - 1)) + 9 * r * (c - 1)) * (9 * s * w) = Q * (9 * w)
  <2> DEFINE e == 16 * (d * B) + 9 * (s * c)
             f == 16 * (c * A) + 9 * (r * (c - 1))
  <2>1. 16 * (c + 1) * (h - (s - 1)) + 9 * s * c = e
    <3>1. 16 * d * B = 16 * (d * B) /\ 9 * s * c = 9 * (s * c)
      BY <1>1
    <3> QED BY <3>1
  <2>2. 16 * c * (h - (r - 1)) + 9 * r * (c - 1) = f
    <3>1. 16 * c * A = 16 * (c * A) /\ 9 * r * (c - 1) = 9 * (r * (c - 1))
      BY <1>1
    <3> QED BY <3>1
  <2>3. e \in Nat /\ f \in Nat
    BY <1>1, <1>2
  <2>4. e * (9 * r * w) = (e * r) * (9 * w) /\ f * (9 * s * w) = (f * s) * (9 * w)
    <3> HIDE DEF e, f
    <3> QED BY <2>3
  <2> QED BY <2>1, <2>2, <2>4
<1> QED BY <1>6, <1>7

\* Where one column less lets the height decide, there are four columns.
LEMMA FourColumns ==
    ASSUME NEW w \in Nat, NEW h \in Nat, h >= 50, NEW c \in 4 .. 15, w <= 16 * c - 2,
           NEW s \in Nat \ {0}, (c - 1) * (s - 1) <= 14,
           9 * s * (w - (c - 2)) > 16 * (c - 1) * (h - (s - 1))
    PROVE  c = 4 /\ s = 5
<1>1. s \in 1 .. 5
  <2> SUFFICES ASSUME s >= 6 PROVE FALSE
    OBVIOUS
  <2>1. 3 * 5 <= (c - 1) * (s - 1)
    BY ProductGrows
  <2> QED BY <2>1
<1>2. 9 * s * (15 * c) > 16 * (c - 1) * (51 - s)
  <2>1. (9 * s) * (w - (c - 2)) <= (9 * s) * (15 * c)
    <3>1. CASE w >= c - 2
      BY <3>1, ProductGrows
    <3>2. CASE w < c - 2
      <4>1. (w - (c - 2)) * (9 * s) <= (15 * c) * (9 * s)
        BY <1>1, <3>2, MultipleGrows
      <4> QED BY <4>1
    <3> QED BY <3>1, <3>2
  <2>2. (16 * (c - 1)) * (51 - s) <= (16 * (c - 1)) * (h - (s - 1))
    BY <1>1, ProductGrows
  <2>3. /\ (9 * s) * (w - (c - 2)) \in Int /\ (9 * s) * (15 * c) \in Int
        /\ (16 * (c - 1)) * (51 - s) \in Int /\ (16 * (c - 1)) * (h - (s - 1)) \in Int
    OBVIOUS
  <2> QED BY <2>1, <2>2, <2>3
<1>3. c = 4 \/ c = 5 \/ c = 6 \/ c = 7 \/ c = 8 \/ c \in 9 .. 15
  OBVIOUS
<1>4. s = 1 \/ s = 2 \/ s = 3 \/ s = 4 \/ s = 5
  BY <1>1
<1>5. CASE s = 1
  BY <1>2, <1>5
<1>6. CASE s = 2
  BY <1>2, <1>6
<1>7. CASE s = 3
  BY <1>2, <1>7
<1>8. CASE s = 4
  BY <1>2, <1>8
<1>9. CASE s = 5
  BY <1>2, <1>9
<1> QED BY <1>4, <1>5, <1>6, <1>7, <1>8, <1>9

LEMMA ThreeColumnsTakeMore ==
    ASSUME NEW w \in Nat, NEW h \in Nat, w >= 50, w <= 62, h >= 50
    PROVE  (48 * (h - 4) + 90) * (64 * h) > (36 * (w - 3) + 192) * (45 * w)
<1>1. 2298 * 3200 <= (48 * (h - 4) + 90) * (64 * h)
  BY ProductGrows
<1>2. (36 * (w - 3) + 192) * (45 * w) <= 2316 * 2790
  BY ProductGrows
<1>3. (48 * (h - 4) + 90) * (64 * h) \in Int /\ (36 * (w - 3) + 192) * (45 * w) \in Int
  OBVIOUS
<1> QED BY <1>1, <1>2, <1>3

\* Of one or two columns that the height limits to less than the least size,
\* one more takes more, also if the width decides then.
LEMMA OneMoreTakesMore ==
    ASSUME NEW w \in Nat, w >= 50, NEW h \in Nat, h >= 50,
           NEW n \in 1 .. 15, NEW c \in 1 .. 2, NEW r \in 6 .. 15, NEW s \in 1 .. r,
           n <= c * r, c * (r - 1) < n, n <= (c + 1) * s,
           16 * (h - (r - 1)) < 135 * r
    PROVE  (9 * s * (w - c) + 16 * (c + 1) * (s - 1)) * (9 * r * w)
             > (16 * c * (h - (r - 1)) + 9 * r * (c - 1)) * (16 * (c + 1) * h)
<1> DEFINE g == 9 * s * (w - c) + 16 * (c + 1) * (s - 1)
           f == 16 * c * (h - (r - 1)) + 9 * r * (c - 1)
           k == 9 * s * (50 - c) + 16 * (c + 1) * (s - 1)
<1>1. c = 1 \/ c = 2
  OBVIOUS
<1>2. k \in Nat /\ k <= g /\ g \in Nat
  <2>1. (9 * s) * (50 - c) <= (9 * s) * (w - c)
    BY <1>1, ProductGrows
  <2>2. (9 * s) * (50 - c) \in Nat /\ (9 * s) * (w - c) \in Nat /\ 16 * (c + 1) * (s - 1) \in Nat
    BY <1>1
  <2> QED BY <2>1, <2>2
<1>3. f \in Nat /\ f <= 9 * r * (16 * c - 1) - c
  BY <1>1
<1>4. 16 * (c + 1) * h <= (c + 1) * (151 * r - 17)
  BY <1>1
<1>5. (16 * c - 1) * (c + 1) * (151 * r - 17) <= k * 50
  BY <1>1
<1> HIDE DEF g, f, k
<1> DEFINE q == 16 * (c + 1) * h
           z == (c + 1) * (151 * r - 17)
           y == 16 * c - 1
           x == 9 * r
<1>6. q \in Nat /\ q > 0 /\ z \in Nat /\ y \in Nat /\ y > 0 /\ x \in Nat /\ x > 0 /\ q <= z /\ y * z <= k * 50 /\ f < x * y
  <2>1. y * z = (16 * c - 1) * (c + 1) * (151 * r - 17) /\ x * y = 9 * r * (16 * c - 1)
    BY <1>1
  <2>2. y * z <= k * 50
    BY <1>5, <2>1
  <2>3. f < x * y
    BY <1>1, <1>3, <2>1
  <2> QED BY <1>1, <1>4, <2>2, <2>3
<1> HIDE DEF q, z, y, x
<1>7. f * q < (x * y) * q
  BY <1>3, <1>6, MultipleGrows
<1>8. (x * y) * q <= (x * y) * z
  BY <1>6, ProductGrows
<1>9. (x * y) * z <= x * (k * 50)
  <2>1. x * (y * z) <= x * (k * 50)
    BY <1>2, <1>6, ProductGrows
  <2> QED BY <1>6, <2>1
<1>10. x * (k * 50) <= g * (x * w)
  <2>1. k * (x * 50) <= g * (x * w)
    <3>1. x * 50 <= x * w
      BY <1>6, ProductGrows
    <3>2. x * 50 \in Nat /\ x * w \in Nat
      BY <1>6
    <3> QED BY <1>2, <3>1, <3>2, ProductGrows
  <2>2. x * (k * 50) = k * (x * 50)
    BY <1>2, <1>6
  <2> QED BY <2>1, <2>2
<1>11. f * q < g * (x * w)
  <2>1. /\ f * q \in Int /\ (x * y) * q \in Int /\ (x * y) * z \in Int /\ x * (k * 50) \in Int
        /\ g * (x * w) \in Int
    BY <1>2, <1>3, <1>6
  <2> QED BY <1>7, <1>8, <1>9, <1>10, <2>1
<1> QED BY <1>11 DEF g, f, q, x

LEMMA ScoresCompare ==
    ASSUME NEW size, NEW n, NEW c, NEW d, NEW a \in Nat, NEW b \in Nat, NEW e \in Nat, NEW f \in Nat,
           Coverage(size, n, c) = <<a, b>>, Coverage(size, n, d) = <<e, f>>, a * f > e * b
    PROVE  Better(size, n, c, d)
<1>1. Greater(0, a) = a /\ Greater(0, e) = e
  BY DEF Greater
<1> QED BY <1>1 DEF Better

\* On a large stage fifteen tiles and fewer that the width limits to less than
\* the least size would take more of it with a column less,
LEMMA NarrowImproves ==
    ASSUME NEW size, Large(size), NEW n \in 1 .. 15, NEW c \in 1 .. n,
           ByWidth(size, n, c), size[1] - (c - 1) < MinTile * c
    PROVE  \E d \in 1 .. n : Better(size, n, d, c)
<1> DEFINE w == size[1]
           h == size[2]
           r == Ceil(n, c)
           s == Ceil(n, c - 1)
           a == 9 * r * (w - (c - 1)) + 16 * c * (r - 1)
           b == 16 * c * h
<1>1. w \in Nat /\ h \in Nat /\ w >= 50 /\ h >= 50 /\ w <= 16 * c - 2
  BY DEF Large, MinTile
<1>2. c \in 4 .. 15 /\ c - 1 \in 1 .. n /\ c - 1 <= c /\ n \in Nat \ {0}
  BY <1>1
<1>3. r \in Nat \ {0} /\ s \in Nat \ {0} /\ r <= s /\ (c - 1) * ((s - 1)) < n /\ c * (r - 1) < n /\ n <= (c - 1) * s /\ n <= c * r
  BY <1>2, CeilKnown, CeilFalls
<1>4. Coverage(size, n, c) = <<a, b>>
  BY DEF Coverage
<1>5. Coverage(size, n, c - 1) =
        IF ByWidth(size, n, c - 1)
        THEN <<9 * s * (w - (c - 1 - 1)) + 16 * (c - 1) * (s - 1), 16 * (c - 1) * h>>
        ELSE <<16 * (c - 1) * (h - (s - 1)) + 9 * s * (c - 1 - 1), 9 * s * w>>
  BY DEF Coverage
<1>6. ByWidth(size, n, c - 1) <=> (9 * s * (w - (c - 1 - 1)) <= 16 * (c - 1) * (h - (s - 1)))
  BY DEF ByWidth
<1>7. a \in Nat /\ b \in Nat /\ w - (c - 1) \in Nat /\ w - (c - 2) \in Nat /\ c - 1 - 1 = c - 2
  <2>1. w - (c - 1) \in Nat /\ r - 1 \in Nat
    BY <1>1, <1>2, <1>3
  <2> QED BY <1>1, <1>2, <1>3, <2>1
<1> HIDE DEF w, h, r, s
<1>8. CASE ByWidth(size, n, c - 1)
  <2> DEFINE e == 9 * s * (w - (c - 2)) + 16 * (c - 1) * (s - 1)
             f == 16 * (c - 1) * h
  <2>1. Coverage(size, n, c - 1) = <<e, f>>
    BY <1>5, <1>7, <1>8
  <2>2. e \in Nat /\ f \in Nat
    <3>1. s - 1 \in Nat /\ c - 1 \in Nat
      BY <1>2, <1>3
    <3> QED BY <1>1, <1>3, <1>7, <3>1
  <2>3. e * b > a * f
    <3>1. c \in Nat /\ c >= 2 /\ w >= c - 1 /\ s \in Nat /\ h \in Nat \ {0}
      BY <1>1, <1>2, <1>3
    <3> QED BY <1>1, <1>3, <3>1, NarrowerTakesMore
  <2> HIDE DEF a, b, e, f
  <2> QED BY <1>2, <1>4, <1>7, <2>1, <2>2, <2>3, ScoresCompare
<1>9. CASE ~ByWidth(size, n, c - 1)
  <2> DEFINE e == 16 * (c - 1) * (h - (s - 1)) + 9 * s * (c - 2)
             f == 9 * s * w
  <2>1. c = 4 /\ s = 5
    <3>1. (c - 1) * (s - 1) <= 14
      <4>1. (c - 1) * (s - 1) \in Int
        BY <1>2, <1>3
      <4> QED BY <1>3, <4>1
    <3>2. 9 * s * (w - (c - 2)) > 16 * (c - 1) * (h - (s - 1))
      <4>1. 9 * s * (w - (c - 2)) \in Int /\ 16 * (c - 1) * (h - (s - 1)) \in Int
        BY <1>1, <1>2, <1>3
      <4> QED BY <1>6, <1>7, <1>9, <4>1
    <3> QED BY <1>1, <1>2, <1>3, <3>1, <3>2, FourColumns
  <2>2. r = 4
    BY <1>3, <2>1
  <2>3. Coverage(size, n, c - 1) = <<e, f>>
    BY <1>5, <1>7, <1>9
  <2>4. e = 48 * (h - 4) + 90 /\ f = 45 * w /\ a = 36 * (w - 3) + 192 /\ b = 64 * h
    BY <1>1, <2>1, <2>2
  <2>5. e \in Nat /\ f \in Nat /\ e * b > a * f
    <3>1. e \in Nat /\ f \in Nat /\ w <= 62
      BY <1>1, <2>1, <2>4
    <3>2. (48 * (h - 4) + 90) * (64 * h) > (36 * (w - 3) + 192) * (45 * w)
      BY <1>1, <3>1, ThreeColumnsTakeMore
    <3> HIDE DEF a, b, e, f
    <3> QED BY <2>4, <3>1, <3>2
  <2> HIDE DEF a, b, e, f
  <2> QED BY <1>2, <1>4, <1>7, <2>3, <2>5, ScoresCompare
<1> QED BY <1>8, <1>9

\* and that the height limits, with one more.
LEMMA ShortImproves ==
    ASSUME NEW size, Large(size), NEW n \in 1 .. 15, NEW c \in 1 .. n,
           ~ByWidth(size, n, c), 16 * (size[2] - (Ceil(n, c) - 1)) < MinTile * (9 * Ceil(n, c))
    PROVE  \E d \in 1 .. n : Better(size, n, d, c)
<1> DEFINE w == size[1]
           h == size[2]
           r == Ceil(n, c)
           s == Ceil(n, c + 1)
           a == 16 * c * (h - (r - 1)) + 9 * r * (c - 1)
           b == 9 * r * w
<1>1. w \in Nat /\ h \in Nat /\ w >= 50 /\ h >= 50
  BY DEF Large
<1>2. r \in Nat \ {0} /\ c * (r - 1) < n /\ n <= c * r /\ 16 * (h - (r - 1)) < 135 * r
  <2>1. r \in Nat \ {0} /\ c * (r - 1) < n /\ n <= c * r
    <3>1. n \in Nat \ {0}
      OBVIOUS
    <3> QED BY <3>1, CeilKnown
  <2>2. 16 * (h - (r - 1)) < 15 * (9 * r)
    BY DEF MinTile
  <2> HIDE DEF r, h
  <2> QED BY <1>1, <2>1, <2>2
<1>3. r \in 6 .. 15 /\ c \in 1 .. 2
  <2> HIDE DEF r, h
  <2>1. r >= 6
    BY <1>1, <1>2
  <2>2. c <= 2
    <3> SUFFICES ASSUME c >= 3 PROVE FALSE
      OBVIOUS
    <3>1. 3 * 5 <= c * (r - 1)
      BY <1>2, <2>1, ProductGrows
    <3>2. c * (r - 1) \in Int
      BY <1>2
    <3> QED BY <1>2, <3>1, <3>2
  <2>3. r <= 15
    <3>1. c = 1 \/ c = 2
      BY <2>2
    <3> QED BY <1>2, <3>1
  <2> QED BY <1>2, <2>1, <2>2, <2>3
<1>4. c + 1 \in 1 .. n /\ c <= c + 1 /\ n \in Nat \ {0}
  <2> HIDE DEF r
  <2>1. c = 1 \/ c = 2
    BY <1>3
  <2> QED BY <1>2, <1>3, <2>1
<1>5. s \in Nat \ {0} /\ s <= r /\ n <= (c + 1) * s
  BY <1>4, CeilKnown, CeilFalls
<1>6. Coverage(size, n, c) = <<a, b>>
  BY DEF Coverage
<1>7. Coverage(size, n, c + 1) =
        IF ByWidth(size, n, c + 1)
        THEN <<9 * s * (w - (c + 1 - 1)) + 16 * (c + 1) * (s - 1), 16 * (c + 1) * h>>
        ELSE <<16 * (c + 1) * (h - (s - 1)) + 9 * s * (c + 1 - 1), 9 * s * w>>
  BY DEF Coverage
<1> HIDE DEF w, h, r, s
<1>8. a \in Nat /\ b \in Nat /\ c + 1 - 1 = c /\ w - c \in Nat /\ h - (s - 1) \in Nat
  <2>1. h - (r - 1) \in Nat /\ c - 1 \in Nat /\ w - c \in Nat /\ h - (s - 1) \in Nat
    BY <1>1, <1>3, <1>5
  <2> QED BY <1>1, <1>2, <1>3, <2>1
<1>9. CASE ByWidth(size, n, c + 1)
  <2> DEFINE e == 9 * s * (w - c) + 16 * (c + 1) * (s - 1)
             f == 16 * (c + 1) * h
  <2>1. Coverage(size, n, c + 1) = <<e, f>>
    BY <1>7, <1>8, <1>9
  <2>2. e \in Nat /\ f \in Nat
    <3>1. s - 1 \in Nat
      BY <1>5
    <3> QED BY <1>1, <1>3, <1>5, <1>8, <3>1
  <2>3. e * b > a * f
    <3>1. s \in 1 .. r
      BY <1>3, <1>5
    <3> QED BY <1>1, <1>2, <1>3, <1>5, <3>1, OneMoreTakesMore
  <2> HIDE DEF a, b, e, f
  <2> QED BY <1>4, <1>6, <1>8, <2>1, <2>2, <2>3, ScoresCompare
<1>10. CASE ~ByWidth(size, n, c + 1)
  <2> DEFINE e == 16 * (c + 1) * (h - (s - 1)) + 9 * s * c
             f == 9 * s * w
  <2>1. Coverage(size, n, c + 1) = <<e, f>>
    BY <1>7, <1>8, <1>10
  <2>2. e \in Nat /\ f \in Nat
    BY <1>1, <1>3, <1>5, <1>8
  <2>3. e * b > a * f
    <3>1. w \in Nat \ {0} /\ h \in Nat /\ c \in Nat \ {0} /\ r \in Nat /\ h >= r
      BY <1>1, <1>3
    <3> QED BY <1>5, <3>1, WiderTakesMore
  <2> HIDE DEF a, b, e, f
  <2> QED BY <1>4, <1>6, <1>8, <2>1, <2>2, <2>3, ScoresCompare
<1> QED BY <1>9, <1>10

\* So the columns that are chosen leave the tiles the least size and more.
LEMMA ColumnsAreWide ==
    ASSUME NEW size, Large(size), NEW n \in 1 .. 15
    PROVE  LET side == Side(size, n, Columns(size, n)) IN ~(side[1] < MinTile * side[2])
<1> DEFINE c == Columns(size, n)
           side == Side(size, n, c)
<1>1. c \in 1 .. n /\ \A d \in 1 .. n : ~Better(size, n, d, c)
  <2>1. size \in Nat \X Nat /\ Measured(size) /\ n \in Nat \ {0}
    BY DEF Large, Measured
  <2> QED BY <2>1, ColumnsKnown
<1> HIDE DEF c
<1> SUFFICES ASSUME side[1] < MinTile * side[2] PROVE FALSE
  BY DEF c
<1>2. CASE ByWidth(size, n, c)
  <2>1. side = <<size[1] - (c - 1), c>>
    BY <1>2 DEF Side
  <2>2. size[1] - (c - 1) < MinTile * c
    BY <2>1
  <2> QED BY <1>1, <1>2, <2>2, NarrowImproves
<1>3. CASE ~ByWidth(size, n, c)
  <2>1. side = <<16 * (size[2] - (Ceil(n, c) - 1)), 9 * Ceil(n, c)>>
    BY <1>3 DEF Side
  <2>2. 16 * (size[2] - (Ceil(n, c) - 1)) < MinTile * (9 * Ceil(n, c))
    BY <2>1
  <2> QED BY <1>1, <1>3, <2>2, ShortImproves
<1> QED BY <1>2, <1>3

-----------------------------------------------------------------------------
(* Where the tiles are.                                                    *)

\* Of cells in a row each ends before the next, and what leaves some length
\* free on both ends is inside of it.
LEMMA CellsFollow ==
    ASSUME NEW from \in Int, NEW p \in Int, NEW q \in Nat \ {0}, p + q >= 0,
           NEW m \in Nat, NEW j \in Nat, m < j
    PROVE  Before(Cell(from, p, q, m), Cell(from, p, q, j))
<1> DEFINE a == Cell(from, p, q, m).to
           b == Cell(from, p, q, j).from
<1>1. a = from + 2 * m * (p + q) + 2 * p /\ b = from + 2 * j * (p + q)
  BY DEF Cell
<1>2. a <= b
  <2>1. (m + 1) * (p + q) <= j * (p + q)
    BY ProductGrows
  <2>2. (m + 1) * (p + q) = m * (p + q) + (p + q) /\ 2 * m * (p + q) = 2 * (m * (p + q))
        /\ 2 * j * (p + q) = 2 * (j * (p + q)) /\ m * (p + q) \in Int /\ j * (p + q) \in Int
    OBVIOUS
  <2> DEFINE x == m * (p + q)
             y == j * (p + q)
  <2>3. x + p + q <= y /\ a = from + 2 * x + 2 * p /\ b = from + 2 * y /\ x \in Int /\ y \in Int
    BY <1>1, <2>1, <2>2
  <2> HIDE DEF x, y, a, b
  <2> QED BY <2>3
<1>3. a \in Int /\ b \in Int
  BY <1>1
<1> HIDE DEF a, b
<1>4. a * (2 * q) <= b * (2 * q)
  BY <1>2, <1>3, MultipleGrows
<1> QED BY <1>4 DEF Before, Cell, a, b

LEMMA CellsInside ==
    ASSUME NEW length \in Nat, NEW k \in Nat \ {0}, NEW p \in Nat, NEW q \in Nat \ {0},
           Slack(length, k, p, q) >= 0, NEW m \in 0 .. k - 1
    PROVE  Inside(Cell(Slack(length, k, p, q), p, q, m), length)
<1> DEFINE from == Slack(length, k, p, q)
           x == m * (p + q)
           y == (k - 1) * (p + q)
           z == length * q
<1>1. x \in Nat /\ y \in Nat /\ z \in Nat /\ x <= y
  BY ProductGrows
<1>2. from = z - (y + p)
  <2>1. k * p + (k - 1) * q = (k - 1) * (p + q) + p
    OBVIOUS
  <2> QED BY <2>1 DEF Slack
<1>3. 2 * m * (p + q) = 2 * x /\ length * (2 * q) = 2 * z
  OBVIOUS
<1>4. from \in Nat
  BY <1>1, <1>2
<1> HIDE DEF x, y, z, from
<1>5. 0 <= from + 2 * x /\ from + 2 * x + 2 * p <= 2 * z
  BY <1>1, <1>2, <1>4
<1> QED BY <1>3, <1>5 DEF Inside, Cell, from

LEMMA SideKnown ==
    ASSUME NEW size \in Nat \X Nat, NEW n \in Nat \ {0}, NEW c \in 1 .. n
    PROVE  LET side == Side(size, n, c) IN
           /\ side[1] \in Int /\ side[2] \in Nat \ {0}
           /\ Slack(size[1], c, side[1], side[2]) >= 0
           /\ Slack(size[2], Ceil(n, c), 9 * side[1], 16 * side[2]) >= 0
<1> DEFINE w == size[1]
           h == size[2]
           r == Ceil(n, c)
           side == Side(size, n, c)
           u == w - (c - 1)
           v == h - (r - 1)
<1>1. w \in Nat /\ h \in Nat /\ r \in Nat \ {0} /\ c \in Nat \ {0} /\ u \in Int /\ v \in Int
  BY CeilKnown
<1>2. ByWidth(size, n, c) <=> (9 * r * u <= 16 * c * v)
  BY DEF ByWidth
<1>3. side = IF ByWidth(size, n, c) THEN <<u, c>> ELSE <<16 * v, 9 * r>>
  BY DEF Side
<1>4. w * c - (c * u + (c - 1) * c) = 0 /\ h * (144 * r) - (r * (144 * v) + (r - 1) * (144 * r)) = 0
  BY <1>1
<1> HIDE DEF w, h, r, side
<1>5. /\ h * (16 * c) - (r * (9 * u) + (r - 1) * (16 * c)) = 16 * c * v - 9 * r * u
      /\ w * (9 * r) - (c * (16 * v) + (c - 1) * (9 * r)) = 9 * r * u - 16 * c * v
  <2>1. h * (16 * c) - (r * (9 * u) + (r - 1) * (16 * c)) = 16 * c * v - 9 * r * u
    <3>1. (h - (r - 1)) * (16 * c) = h * (16 * c) - (r - 1) * (16 * c) /\ r * (9 * u) = 9 * r * u
      BY <1>1
    <3>2. v * (16 * c) = 16 * c * v
      BY <1>1
    <3> QED BY <1>1, <3>1, <3>2
  <2>2. w * (9 * r) - (c * (16 * v) + (c - 1) * (9 * r)) = 9 * r * u - 16 * c * v
    <3>1. (w - (c - 1)) * (9 * r) = w * (9 * r) - (c - 1) * (9 * r) /\ c * (16 * v) = 16 * c * v
      BY <1>1
    <3>2. u * (9 * r) = 9 * r * u
      BY <1>1
    <3> QED BY <1>1, <3>1, <3>2
  <2> QED BY <2>1, <2>2
<1>6. 9 * r * u \in Int /\ 16 * c * v \in Int
  BY <1>1
<1>7. CASE ByWidth(size, n, c)
  <2>1. side[1] = u /\ side[2] = c
    BY <1>3, <1>7
  <2>2. Slack(w, c, u, c) = 0 /\ Slack(h, r, 9 * u, 16 * c) = 16 * c * v - 9 * r * u
    BY <1>4, <1>5 DEF Slack
  <2>3. 16 * c * v - 9 * r * u >= 0
    BY <1>2, <1>6, <1>7
  <2> HIDE DEF u, v
  <2> QED BY <1>1, <2>1, <2>2, <2>3 DEF w, h, r, side
<1>8. CASE ~ByWidth(size, n, c)
  <2>1. side[1] = 16 * v /\ side[2] = 9 * r
    BY <1>3, <1>8
  <2>2. Slack(w, c, 16 * v, 9 * r) = 9 * r * u - 16 * c * v /\ Slack(h, r, 144 * v, 144 * r) = 0
    BY <1>4, <1>5 DEF Slack
  <2>3. 9 * r * u - 16 * c * v >= 0
    BY <1>2, <1>6, <1>8
  <2> HIDE DEF u, v
  <2>4. 9 * (16 * v) = 144 * v /\ 16 * (9 * r) = 144 * r /\ 9 * r \in Nat \ {0} /\ 16 * v \in Int
    BY <1>1
  <2> QED BY <2>1, <2>2, <2>3, <2>4 DEF w, h, r, side
<1> QED BY <1>7, <1>8

\* Tiles apart from each other; and in the stage.
Parted(rects, n) == \A i, j \in 1 .. n : i # j => Apart(rects[i], rects[j])
Housed(rects, n, size) ==
    \A i \in 1 .. n : Inside(rects[i].x, size[1]) /\ Inside(rects[i].y, size[2])

LEMMA GridKnown ==
    ASSUME NEW size \in Nat \X Nat, Measured(size), NEW n \in Nat \ {0}
    PROVE  /\ DOMAIN Grid(size, n) = 1 .. n /\ Parted(Grid(size, n), n)
           /\ Large(size) /\ n <= 15 => Housed(Grid(size, n), n, size)
<1> DEFINE c == Columns(size, n)
           r == Ceil(n, c)
           side == Side(size, n, c)
           low == side[1] < MinTile * side[2]
           p == IF low THEN MinTile ELSE side[1]
           q == IF low THEN 1 ELSE side[2]
           P == 9 * p
           Q == 16 * q
           left == Slack(size[1], c, p, q)
           top == Slack(size[2], r, P, Q)
           col(i) == (i - 1) % c
           row(i) == RowOf(i, c)
           rect(i) == [x |-> Cell(left, p, q, col(i)), y |-> Cell(top, P, Q, row(i))]
<1>1. c \in 1 .. n /\ r \in Nat \ {0} /\ size[1] \in Nat /\ size[2] \in Nat
  BY ColumnsKnown, CeilKnown
<1>2. /\ side[1] \in Int /\ side[2] \in Nat \ {0}
      /\ Slack(size[1], c, side[1], side[2]) >= 0 /\ Slack(size[2], r, 9 * side[1], 16 * side[2]) >= 0
  BY <1>1, SideKnown
<1>3. Grid(size, n) = [i \in 1 .. n |-> rect(i)]
  BY DEF Grid
<1>4. /\ \A i \in 1 .. n : col(i) \in 0 .. c - 1 /\ row(i) \in 0 .. r - 1
      /\ \A i, j \in 1 .. n : i # j => col(i) # col(j) \/ row(i) # row(j)
  BY <1>1, CellsApart
<1>5. Large(size) /\ n <= 15 => ~low
  <2> SUFFICES ASSUME Large(size), n <= 15 PROVE ~low
    OBVIOUS
  <2>1. n \in 1 .. 15
    OBVIOUS
  <2> QED BY <2>1, ColumnsAreWide
<1> HIDE DEF c, r, side, col, row
<1>6. p \in Nat /\ p > 0 /\ q \in Nat \ {0} /\ P \in Nat /\ P > 0 /\ Q \in Nat \ {0}
  <2>1. CASE low
    BY <2>1 DEF MinTile
  <2>2. CASE ~low
    BY <1>2, <2>2 DEF MinTile
  <2> QED BY <2>1, <2>2
<1>7. ~low => left >= 0 /\ top >= 0
  BY <1>2
<1> HIDE DEF low, p, q, P, Q
<1>8. left \in Int /\ top \in Int
  BY <1>1, <1>6 DEF Slack
<1>9. ASSUME NEW i \in 1 .. n, NEW j \in 1 .. n, i # j PROVE Apart(rect(i), rect(j))
  <2>1. col(i) \in Nat /\ col(j) \in Nat /\ row(i) \in Nat /\ row(j) \in Nat
    BY <1>1, <1>4
  <2>2. p + q >= 0 /\ P + Q >= 0 /\ p \in Int /\ P \in Int
    BY <1>6
  <2> HIDE DEF left, top
  <2>3. CASE col(i) # col(j)
    <3>1. col(i) < col(j) \/ col(j) < col(i)
      BY <2>1, <2>3
    <3>2. \/ Before(Cell(left, p, q, col(i)), Cell(left, p, q, col(j)))
          \/ Before(Cell(left, p, q, col(j)), Cell(left, p, q, col(i)))
      BY <1>6, <1>8, <2>1, <2>2, <3>1, CellsFollow
    <3> QED BY <3>2 DEF Apart
  <2>4. CASE row(i) # row(j)
    <3>1. row(i) < row(j) \/ row(j) < row(i)
      BY <2>1, <2>4
    <3>2. \/ Before(Cell(top, P, Q, row(i)), Cell(top, P, Q, row(j)))
          \/ Before(Cell(top, P, Q, row(j)), Cell(top, P, Q, row(i)))
      BY <1>6, <1>8, <2>1, <2>2, <3>1, CellsFollow
    <3> QED BY <3>2 DEF Apart
  <2> QED BY <1>4, <1>9, <2>3, <2>4
<1>10. ASSUME ~low, NEW i \in 1 .. n
       PROVE  Inside(rect(i).x, size[1]) /\ Inside(rect(i).y, size[2])
  <2>1. left >= 0 /\ top >= 0 /\ col(i) \in 0 .. c - 1 /\ row(i) \in 0 .. r - 1 /\ c \in Nat \ {0}
    BY <1>1, <1>4, <1>7, <1>10
  <2> QED BY <1>1, <1>6, <2>1, CellsInside
<1> HIDE DEF left, top, rect
<1>11. DOMAIN Grid(size, n) = 1 .. n /\ \A i \in 1 .. n : Grid(size, n)[i] = rect(i)
  BY <1>3
<1>12. Parted(Grid(size, n), n)
  BY <1>9, <1>11 DEF Parted
<1>13. ~low => Housed(Grid(size, n), n, size)
  BY <1>10, <1>11 DEF Housed
<1> QED BY <1>5, <1>11, <1>12, <1>13

\* In the strips, too; and these are apart from the screen.
LEMMA RightStripKnown ==
    ASSUME NEW size \in Nat \X Nat, Measured(size), IsWide(size), NEW n \in Nat \ {0}
    PROVE  /\ DOMAIN RightStrip(size, n) = 1 .. n /\ Parted(RightStrip(size, n), n)
           /\ \A i \in 1 .. n : Apart(RightStrip(size, n)[i], SpotlightArea(size))
           /\ Large(size) /\ n <= 15 => Housed(RightStrip(size, n), n, size)
<1> DEFINE w == size[1]
           h == size[2]
           p == StackedHeight(size, n)[1]
           q == StackedHeight(size, n)[2]
           top == Greater(0, Slack(h, n, p, q))
           rect(i) == [x |-> Span(w - StripWidth, w), y |-> Cell(top, p, q, i - 1)]
           room == h - (n - 1)
<1>1. w \in Nat /\ h \in Nat /\ room \in Int
  OBVIOUS
<1>2. RightStrip(size, n) = [i \in 1 .. n |-> rect(i)]
  BY DEF RightStrip
<1>3. StackedHeight(size, n) = IF 8 * room < n THEN <<1, 8>>
                               ELSE IF 16 * room > 180 * n THEN <<180, 16>> ELSE <<room, n>>
  BY DEF StackedHeight, StripWidth
<1>4. SpotlightArea(size).x = Span(0, w - StripWidth - 1)
  BY DEF SpotlightArea
<1>5. p \in Nat /\ q \in Nat \ {0}
  <2>1. CASE 8 * room < n
    BY <1>3, <2>1
  <2>2. CASE ~(8 * room < n) /\ 16 * room > 180 * n
    BY <1>3, <2>2
  <2>3. CASE ~(8 * room < n) /\ ~(16 * room > 180 * n)
    BY <1>1, <1>3, <2>3
  <2> QED BY <2>1, <2>2, <2>3
<1>6. ASSUME Large(size), n <= 15 PROVE Slack(h, n, p, q) >= 0 /\ w >= 50
  <2>1. h >= 50 /\ w >= 50 /\ ~(8 * room < n)
    BY <1>6 DEF Large
  <2>2. CASE 16 * room > 180 * n
    <3>1. p = 180 /\ q = 16
      BY <1>3, <2>1, <2>2
    <3> HIDE DEF p, q
    <3> QED BY <1>1, <2>1, <2>2, <3>1 DEF Slack
  <2>3. CASE ~(16 * room > 180 * n)
    <3>1. p = room /\ q = n
      BY <1>3, <2>1, <2>3
    <3>2. h * n - (n * room + (n - 1) * n) = 0
      BY <1>1
    <3> HIDE DEF p, q
    <3> QED BY <2>1, <3>1, <3>2 DEF Slack
  <2> QED BY <2>2, <2>3
<1> HIDE DEF p, q, w, h, room
<1>7. top \in Nat
  BY <1>1, <1>5 DEF Slack, Greater
<1>8. ASSUME NEW i \in 1 .. n, NEW j \in 1 .. n, i # j PROVE Apart(rect(i), rect(j))
  <2>1. i - 1 \in Nat /\ j - 1 \in Nat /\ (i - 1 < j - 1 \/ j - 1 < i - 1)
    BY <1>8
  <2>2. p + q >= 0 /\ p \in Int /\ top \in Int
    BY <1>5, <1>7
  <2> HIDE DEF top
  <2>3. \/ Before(Cell(top, p, q, i - 1), Cell(top, p, q, j - 1))
        \/ Before(Cell(top, p, q, j - 1), Cell(top, p, q, i - 1))
    BY <1>5, <2>1, <2>2, CellsFollow
  <2> QED BY <2>3 DEF Apart
<1>9. ASSUME NEW i \in 1 .. n PROVE Apart(rect(i), SpotlightArea(size))
  <2>1. Before(SpotlightArea(size).x, rect(i).x)
    BY <1>1, <1>4 DEF Before, Span, StripWidth
  <2> QED BY <2>1 DEF Apart
<1>10. ASSUME Large(size), n <= 15, NEW i \in 1 .. n
       PROVE  Inside(rect(i).x, w) /\ Inside(rect(i).y, h)
  <2>1. top = Slack(h, n, p, q) /\ Slack(h, n, p, q) >= 0 /\ w >= 50
    BY <1>6, <1>10, <1>1, <1>5 DEF Greater, Slack
  <2>2. Inside(rect(i).x, w)
    BY <1>1, <2>1 DEF Inside, Span, StripWidth
  <2>3. i - 1 \in 0 .. n - 1
    OBVIOUS
  <2>4. Inside(Cell(Slack(h, n, p, q), p, q, i - 1), h)
    BY <1>1, <1>5, <2>1, <2>3, CellsInside
  <2> QED BY <2>1, <2>2, <2>4
<1> HIDE DEF rect
<1>11. DOMAIN RightStrip(size, n) = 1 .. n /\ \A i \in 1 .. n : RightStrip(size, n)[i] = rect(i)
  BY <1>2
<1> QED BY <1>8, <1>9, <1>10, <1>11 DEF Parted, Housed, w, h

LEMMA BottomStripKnown ==
    ASSUME NEW size \in Nat \X Nat, Measured(size), ~IsWide(size), NEW n \in Nat \ {0}
    PROVE  /\ DOMAIN BottomStrip(size, n) = 1 .. n /\ Parted(BottomStrip(size, n), n)
           /\ \A i \in 1 .. n : Apart(BottomStrip(size, n)[i], SpotlightArea(size))
           /\ Large(size) /\ n <= 15 => Housed(BottomStrip(size, n), n, size)
<1> DEFINE w == size[1]
           h == size[2]
           p == RowWidth(size, n)[1]
           q == RowWidth(size, n)[2]
           top == 16 * q * (h - StripHeight)
           left == Greater(0, Slack(w, n, p, q))
           rect(i) == [x |-> Cell(left, p, q, i - 1),
                       y |-> [from |-> top, to |-> top + 9 * p, parts |-> 16 * q]]
           crowded == 192 * n + 9 * (n - 1) > 9 * w
<1>1. w \in Nat /\ h \in Nat /\ w > 0
  BY DEF Measured
<1>2. BottomStrip(size, n) = [i \in 1 .. n |-> rect(i)]
  BY DEF BottomStrip
<1>3. RowWidth(size, n) = IF crowded THEN <<w - (n - 1), n>> ELSE <<192, 9>>
  BY DEF RowWidth, StripHeight
<1>4. SpotlightArea(size).y = Span(0, h - StripHeight - 1)
  BY DEF SpotlightArea
<1>5. p \in Int /\ q \in Nat \ {0} /\ p + q >= 0 /\ 9 * p <= 192 * q
  <2>1. CASE crowded
    BY <1>1, <1>3, <2>1
  <2>2. CASE ~crowded
    BY <1>3, <2>2
  <2> QED BY <2>1, <2>2
<1>6. ASSUME Large(size), n <= 15 PROVE Slack(w, n, p, q) >= 0 /\ h >= 50 /\ p \in Nat
  <2>1. h >= 50 /\ w >= 50
    BY <1>6 DEF Large
  <2>2. CASE crowded
    <3>1. p = w - (n - 1) /\ q = n
      BY <1>3, <2>2
    <3>2. w * n - (n * (w - (n - 1)) + (n - 1) * n) = 0
      BY <1>1
    <3> HIDE DEF p, q
    <3> QED BY <1>1, <1>6, <2>1, <3>1, <3>2 DEF Slack
  <2>3. CASE ~crowded
    <3>1. p = 192 /\ q = 9
      BY <1>3, <2>3
    <3> HIDE DEF p, q
    <3> QED BY <1>1, <2>1, <2>3, <3>1 DEF Slack
  <2> QED BY <2>2, <2>3
<1> HIDE DEF p, q, w, h, crowded
<1>7. left \in Nat
  BY <1>1, <1>5 DEF Slack, Greater
<1>8. ASSUME NEW i \in 1 .. n, NEW j \in 1 .. n, i # j PROVE Apart(rect(i), rect(j))
  <2>1. i - 1 \in Nat /\ j - 1 \in Nat /\ (i - 1 < j - 1 \/ j - 1 < i - 1)
    BY <1>8
  <2>2. left \in Int
    BY <1>7
  <2> HIDE DEF left
  <2>3. \/ Before(Cell(left, p, q, i - 1), Cell(left, p, q, j - 1))
        \/ Before(Cell(left, p, q, j - 1), Cell(left, p, q, i - 1))
    BY <1>5, <2>1, <2>2, CellsFollow
  <2> QED BY <2>3 DEF Apart
<1>9. ASSUME NEW i \in 1 .. n PROVE Apart(rect(i), SpotlightArea(size))
  <2>1. (h - 13) * (16 * q) <= top * 1
    <3>1. (h - 13) * (16 * q) <= (h - 12) * (16 * q)
      BY <1>1, <1>5, MultipleGrows
    <3>2. top * 1 = (h - 12) * (16 * q)
      BY <1>1, <1>5 DEF StripHeight
    <3> QED BY <3>1, <3>2
  <2>2. Before(SpotlightArea(size).y, rect(i).y)
    BY <1>1, <1>4, <2>1 DEF Before, Span, StripHeight
  <2> QED BY <2>2 DEF Apart
<1>10. ASSUME Large(size), n <= 15, NEW i \in 1 .. n
       PROVE  Inside(rect(i).x, w) /\ Inside(rect(i).y, h)
  <2>1. Slack(w, n, p, q) >= 0 /\ h >= 50 /\ p \in Nat
    BY <1>6, <1>10
  <2>2. left = Slack(w, n, p, q)
    BY <1>1, <1>5, <2>1 DEF Greater, Slack
  <2>3. Inside(rect(i).y, h)
    <3>1. top = 16 * (q * h) - 192 * q /\ h * (16 * q) = 16 * (q * h) /\ q * h \in Nat
      BY <1>1, <1>5 DEF StripHeight
    <3>2. 12 * q <= h * q
      BY <1>1, <1>5, <2>1, ProductGrows
    <3> DEFINE z == q * h
    <3>3. z \in Nat /\ 12 * q <= z /\ top = 16 * z - 192 * q /\ h * (16 * q) = 16 * z
      BY <1>1, <1>5, <3>1, <3>2
    <3> HIDE DEF z, top
    <3>4. 0 <= top /\ top + 9 * p <= h * (16 * q)
      BY <1>5, <3>3
    <3> QED BY <3>4 DEF Inside
  <2>4. i - 1 \in 0 .. n - 1
    OBVIOUS
  <2>5. Inside(Cell(Slack(w, n, p, q), p, q, i - 1), w)
    BY <1>1, <1>5, <2>1, <2>4, CellsInside
  <2> QED BY <2>2, <2>3, <2>5
<1> HIDE DEF rect
<1>11. DOMAIN BottomStrip(size, n) = 1 .. n /\ \A i \in 1 .. n : BottomStrip(size, n)[i] = rect(i)
  BY <1>2
<1> QED BY <1>8, <1>9, <1>10, <1>11 DEF Parted, Housed, w, h

-----------------------------------------------------------------------------
(* Who is there.                                                           *)

\* Only who is there shares.
LayoutIInv ==
    /\ roster \in Seq(Remotes) /\ audience \in 0 .. MaxAudience
    /\ sharing \subseteq ToSet(roster) \cup {Myself}
    /\ stageSize \in StageSizes \cup {<<0, 0>>}

LEMMA LayoutInitially == LayoutInit => LayoutIInv
BY AudienceIsNat DEF LayoutInit, LayoutIInv

LEMMA ComesPreserves ==
    ASSUME LayoutIInv, NEW p \in Remotes, PeerComes(p) PROVE LayoutIInv'
<1>1. roster \in Seq(Remotes) /\ Len(roster) \in Nat /\ DOMAIN roster = 1 .. Len(roster)
  BY DEF LayoutIInv
<1>2. roster' = Append(roster, p) /\ UNCHANGED <<audience, sharing, stageSize>>
  BY DEF PeerComes
<1> DEFINE t == Append(roster, p)
<1>3. /\ t \in Seq(Remotes) /\ DOMAIN t = 1 .. Len(roster) + 1
      /\ \A i \in 1 .. Len(roster) : t[i] = roster[i]
  BY <1>1
<1> HIDE DEF t
<1>4. ToSet(roster) \subseteq ToSet(t)
  BY <1>1, <1>3 DEF ToSet
<1>5. roster' = t
  BY <1>2 DEF t
<1> QED BY <1>2, <1>3, <1>4, <1>5 DEF LayoutIInv

LEMMA GoesPreserves ==
    ASSUME LayoutIInv, NEW p \in Remotes, PeerGoes(p) PROVE LayoutIInv'
<1>1. PICK k \in DOMAIN roster : roster[k] = p /\ roster' = RemoveAt(roster, k)
  BY DEF PeerGoes
<1>2. sharing' = sharing \ {p} /\ UNCHANGED <<audience, stageSize>>
  BY DEF PeerGoes
<1> DEFINE s == roster
           u == SubSeq(s, 1, k - 1)
           v == SubSeq(s, k + 1, Len(s))
           t == u \o v
<1>3. /\ s \in Seq(Remotes) /\ Len(s) \in Nat /\ DOMAIN s = 1 .. Len(s)
      /\ k \in 1 .. Len(s) /\ \A i \in 1 .. Len(s) : s[i] \in Remotes
  BY DEF LayoutIInv
<1>4. roster' = t
  BY <1>1 DEF RemoveAt
<1> HIDE DEF s
<1>5. /\ u \in Seq(Remotes) /\ Len(u) = k - 1 /\ \A i \in 1 .. k - 1 : u[i] = s[i]
  BY <1>3, SubSeqProperties
<1>6. /\ v \in Seq(Remotes) /\ Len(v) = Len(s) - k /\ \A i \in 1 .. Len(s) - k : v[i] = s[k + i]
  <2>1. k + 1 \in Int /\ Len(s) \in Int /\ \A i \in (k + 1) .. Len(s) : s[i] \in Remotes
    BY <1>3
  <2>2. /\ v \in Seq(Remotes)
        /\ Len(v) = IF k + 1 <= Len(s) THEN Len(s) - (k + 1) + 1 ELSE 0
        /\ \A i \in 1 .. Len(s) - (k + 1) + 1 : v[i] = s[k + 1 + i - 1]
    BY <2>1, SubSeqProperties
  <2> HIDE DEF v
  <2>3. k \in Nat /\ Len(s) \in Nat /\ k <= Len(s)
    BY <1>3
  <2>4. /\ Len(s) - (k + 1) + 1 = Len(s) - k /\ (~(k + 1 <= Len(s)) => Len(s) - k = 0)
        /\ \A i \in 1 .. Len(s) - k : k + 1 + i - 1 = k + i
    BY <2>3
  <2> QED BY <2>2, <2>4
<1> HIDE DEF u, v
<1>7. /\ t \in Seq(Remotes) /\ Len(t) = Len(u) + Len(v)
      /\ \A i \in 1 .. Len(u) + Len(v) : t[i] = IF i <= Len(u) THEN u[i] ELSE v[i - Len(u)]
  BY <1>5, <1>6, ConcatProperties
<1>8. Len(t) = Len(s) - 1 /\ DOMAIN t = 1 .. Len(s) - 1
  <2>1. Len(u) + Len(v) = Len(s) - 1
    BY <1>3, <1>5, <1>6
  <2>2. Len(t) = Len(s) - 1 /\ DOMAIN t = 1 .. Len(t)
    BY <1>7, <2>1
  <2> QED BY <2>2
<1> HIDE DEF t
<1>9. ASSUME NEW i \in 1 .. Len(s) - 1
      PROVE  t[i] = s[IF i < k THEN i ELSE i + 1]
  <2>1. CASE i < k
    <3>1. i \in 1 .. Len(u) + Len(v) /\ i <= Len(u) /\ i \in 1 .. k - 1
      BY <1>3, <1>5, <1>6, <1>9, <2>1
    <3> QED BY <1>5, <1>7, <2>1, <3>1
  <2>2. CASE ~(i < k)
    <3>1. /\ i \in 1 .. Len(u) + Len(v) /\ ~(i <= Len(u))
          /\ i - Len(u) \in 1 .. Len(s) - k /\ k + (i - Len(u)) = i + 1
      BY <1>3, <1>5, <1>6, <1>9, <2>2
    <3> QED BY <1>6, <1>7, <2>2, <3>1
  <2> QED BY <2>1, <2>2
<1>10. ToSet(s) \ {p} \subseteq ToSet(t)
  <2> SUFFICES ASSUME NEW i \in 1 .. Len(s), s[i] # p PROVE s[i] \in ToSet(t)
    BY <1>3 DEF ToSet
  <2> DEFINE m == IF i < k THEN i ELSE i - 1
  <2>1. m \in 1 .. Len(s) - 1 /\ (IF m < k THEN m ELSE m + 1) = i
    <3>1. i # k
      BY <1>1 DEF s
    <3> QED BY <1>3, <3>1
  <2>2. t[m] = s[i]
    BY <1>9, <2>1
  <2> HIDE DEF m
  <2> QED BY <1>8, <2>1, <2>2 DEF ToSet
<1>11. sharing' \subseteq ToSet(roster') \cup {Myself}
  <2>1. sharing \subseteq ToSet(s) \cup {Myself}
    BY DEF LayoutIInv, s
  <2> QED BY <1>2, <1>4, <1>10, <2>1
<1>12. roster' \in Seq(Remotes)
  BY <1>4, <1>7
<1>13. (audience \in 0 .. MaxAudience /\ stageSize \in StageSizes \cup {<<0, 0>>})'
  BY <1>2 DEF LayoutIInv
<1> QED BY <1>11, <1>12, <1>13 DEF LayoutIInv

LEMMA OrderedKnown ==
    ASSUME NEW s \in Seq(Remotes)
    PROVE  /\ Len(<<Myself>> \o s) = Len(s) + 1
           /\ DOMAIN (<<Myself>> \o s) = 1 .. Len(s) + 1
           /\ (<<Myself>> \o s)[1] = Myself
           /\ \A i \in 1 .. Len(s) : (<<Myself>> \o s)[i + 1] = s[i]
<1>1. <<Myself>> \in Seq(Remotes \cup {Myself}) /\ s \in Seq(Remotes \cup {Myself})
      /\ Len(<<Myself>>) = 1 /\ <<Myself>>[1] = Myself /\ Len(s) \in Nat
  OBVIOUS
<1> DEFINE t == <<Myself>> \o s
<1>2. /\ t \in Seq(Remotes \cup {Myself}) /\ Len(t) = Len(<<Myself>>) + Len(s)
      /\ \A i \in 1 .. Len(<<Myself>>) + Len(s) :
            t[i] = IF i <= Len(<<Myself>>) THEN <<Myself>>[i] ELSE s[i - Len(<<Myself>>)]
  BY <1>1, ConcatProperties
<1> HIDE DEF t
<1>3. Len(t) = Len(s) + 1 /\ DOMAIN t = 1 .. Len(s) + 1
  <2>1. Len(t) = Len(s) + 1 /\ DOMAIN t = 1 .. Len(t)
    BY <1>1, <1>2
  <2> QED BY <2>1
<1>4. t[1] = Myself
  BY <1>1, <1>2
<1>5. ASSUME NEW i \in 1 .. Len(s) PROVE t[i + 1] = s[i]
  <2>1. i + 1 \in 1 .. 1 + Len(s) /\ ~(i + 1 <= 1) /\ (i + 1) - 1 = i
    BY <1>1
  <2> QED BY <1>1, <1>2, <2>1
<1> QED BY <1>3, <1>4, <1>5 DEF t

LEMMA SharePreserves ==
    ASSUME LayoutIInv, NEW p \in Remotes \cup {Myself}, ShareChanges(p) PROVE LayoutIInv'
<1>1. /\ \E i \in DOMAIN Ordered : Ordered[i] = p
      /\ sharing' \subseteq sharing \cup {p} /\ UNCHANGED <<roster, audience, stageSize>>
  BY DEF ShareChanges
<1>2. /\ roster \in Seq(Remotes) /\ Len(roster) \in Nat /\ DOMAIN roster = 1 .. Len(roster)
  BY DEF LayoutIInv
<1>3. p \in ToSet(roster) \cup {Myself}
  <2>1. PICK i \in 1 .. Len(roster) + 1 : Ordered[i] = p
    BY <1>1, <1>2, OrderedKnown DEF Ordered
  <2>2. CASE i = 1
    BY <1>2, <2>1, <2>2, OrderedKnown DEF Ordered
  <2>3. CASE i # 1
    <3>1. i - 1 \in 1 .. Len(roster) /\ (i - 1) + 1 = i
      BY <1>2, <2>3
    <3>2. p = roster[i - 1]
      BY <1>2, <2>1, <3>1, OrderedKnown DEF Ordered
    <3> QED BY <1>2, <3>1, <3>2 DEF ToSet
  <2> QED BY <2>2, <2>3
<1> QED BY <1>1, <1>3 DEF LayoutIInv

LEMMA LayoutInductive == LayoutIInv /\ [LayoutNext]_layoutVars => LayoutIInv'
<1> SUFFICES ASSUME LayoutIInv, [LayoutNext]_layoutVars PROVE LayoutIInv'
  OBVIOUS
<1>1. ASSUME NEW p \in Remotes, PeerComes(p) \/ PeerGoes(p) PROVE LayoutIInv'
  BY <1>1, ComesPreserves, GoesPreserves
<1>2. CASE OnlookerComes \/ OnlookerGoes
  <2>1. (audience \in 0 .. MaxAudience)'
    BY <1>2, AudienceIsNat DEF OnlookerComes, OnlookerGoes, LayoutIInv
  <2> QED BY <1>2, <2>1 DEF OnlookerComes, OnlookerGoes, LayoutIInv
<1>3. ASSUME NEW p \in Remotes \cup {Myself}, ShareChanges(p) PROVE LayoutIInv'
  BY <1>3, SharePreserves
<1>4. ASSUME NEW size \in StageSizes, Resized(size) PROVE LayoutIInv'
  BY <1>4 DEF Resized, LayoutIInv
<1>5. CASE UNCHANGED layoutVars
  BY <1>5 DEF layoutVars, LayoutIInv
<1> QED BY <1>1, <1>2, <1>3, <1>4, <1>5 DEF LayoutNext

LEMMA LayoutImplied == LayoutIInv => StageShowsAll
<1> SUFFICES ASSUME LayoutIInv PROVE StageShowsAll
  OBVIOUS
<1>1. /\ roster \in Seq(Remotes) /\ audience \in 0 .. MaxAudience
      /\ sharing \subseteq ToSet(roster) \cup {Myself}
      /\ stageSize \in StageSizes \cup {<<0, 0>>}
  BY DEF LayoutIInv
<1>2. /\ Len(roster) \in Nat /\ DOMAIN roster = 1 .. Len(roster)
      /\ roster \in [1 .. Len(roster) -> Remotes]
  BY <1>1
<1>3. ToSet(roster) \subseteq Remotes
  BY <1>2 DEF ToSet
<1>4. LayoutTypeOK
  BY <1>1, <1>3 DEF LayoutTypeOK
<1> DEFINE n == Tiles
<1>5. n \in Nat \ {0}
  <2>1. Len(Ordered) = Len(roster) + 1 /\ audience \in Nat
    BY <1>1, OrderedKnown, AudienceIsNat DEF Ordered
  <2> QED BY <1>2, <2>1 DEF Tiles
<1>6. stageSize \in Nat \X Nat
  BY <1>1, SizesAreNat
<1>7. ASSUME Measured(stageSize)
      PROVE  /\ DOMAIN Rects = 1 .. n /\ Parted(Rects, n)
             /\ Spotlit => \A i \in 1 .. n : Apart(Rects[i], SpotlightArea(stageSize))
             /\ Large(stageSize) /\ n <= 15 => Housed(Rects, n, stageSize)
  BY <1>5, <1>6, <1>7, GridKnown, RightStripKnown, BottomStripKnown DEF Rects, Strip
<1>8. Measured(stageSize) => TilesApart
  BY <1>7 DEF TilesApart, Parted
<1>9. ASSUME stageSize[1] >= 50, stageSize[2] >= 50, Tiles <= 15 PROVE TilesInside
  <2>1. Measured(stageSize) /\ Large(stageSize)
    BY <1>6, <1>9 DEF Measured, Large
  <2> QED BY <1>7, <1>9, <2>1 DEF TilesInside, Housed
<1>10. ASSUME NEW p \in sharing, \A q \in sharing : q = p, p = Myself => Measured(stageSize)
       PROVE  p \in Screens
  <2>1. CASE Spotlit /\ Measured(stageSize)
    <3>1. \E i \in DOMAIN Ordered : Ordered[i] = p
      <4>1. CASE p = Myself
        <5>1. 1 \in DOMAIN Ordered /\ Ordered[1] = p
          BY <1>1, <1>2, <4>1, OrderedKnown DEF Ordered
        <5> QED BY <5>1
      <4>2. CASE p \in ToSet(roster)
        <5>1. PICK i \in 1 .. Len(roster) : roster[i] = p
          BY <1>2, <4>2 DEF ToSet
        <5>2. i + 1 \in DOMAIN Ordered /\ Ordered[i + 1] = p
          BY <1>1, <1>2, <5>1, OrderedKnown DEF Ordered
        <5> QED BY <5>2
      <4> QED BY <1>1, <4>1, <4>2
    <3>2. \A i \in Sharers : Ordered[i] = p
      BY <1>10 DEF Sharers
    <3>3. \E i \in Sharers : \A j \in Sharers : i <= j
      <4>1. Sharers \in SUBSET (1 .. Len(roster) + 1)
        BY <1>1, OrderedKnown DEF Sharers, Ordered
      <4>2. Sharers # {}
        BY <3>1 DEF Sharers
      <4>3. Sharers \in SUBSET Nat
        BY <1>2, <4>1
      <4> QED BY <4>2, <4>3, LeastExists
    <3>4. Sharer = p
      BY <3>2, <3>3 DEF Sharer
    <3> QED BY <2>1, <3>4 DEF Screens, SpotlightOf
  <2>2. CASE ~(Spotlit /\ Measured(stageSize))
    <3>1. Spotlit
      BY DEF Spotlit
    <3> QED BY <1>10, <2>2, <3>1 DEF Screens
  <2> QED BY <2>1, <2>2
<1> QED BY <1>4, <1>8, <1>9, <1>10 DEF StageShowsAll

\* Whoever comes, goes and shares, and whatever the size of the stage, the
\* tiles are apart, from 400 px each way on fifteen and fewer are in it, and
\* the screen is shown.
THEOREM StageAlwaysShowsAll == LayoutSpec => []StageShowsAll
<1>1. LayoutSpec => []LayoutIInv
  BY LayoutInitially, LayoutInductive, PTL DEF LayoutSpec
<1> QED BY <1>1, LayoutImplied, PTL

-----------------------------------------------------------------------------
(***************************************************************************)
(* Proof, for any queue and any number of captures, drops and resets, that *)
(* nothing is published twice and nothing that was is forgotten.           *)
(***************************************************************************)

Callers == {"toggle", "auto", "screen", "replay"}
EntryRows == [src : Sources, track : Nat, who : SUBSET Callers]
TrackRows == [src : Sources, track : Nat]
ProducerRows == [src : Sources, track : Nat, paused : BOOLEAN]
SwapRows == [src : Sources, track : Nat, resume : BOOLEAN]

ConnectionTyped ==
    /\ link \in {"up", "down", "over"} /\ acked \in BOOLEAN /\ mediaEntry \in BOOLEAN
    /\ device \in {"none", "loading", "loaded"}
    /\ loads \in Seq({"join", "reset"}) /\ asked \in Nat /\ transport \in BOOLEAN

PipelineTyped ==
    /\ buffer \in Seq(EntryRows) /\ Len(buffer) <= QueueLimit
    /\ flight \in SUBSET EntryRows /\ producers \in SUBSET ProducerRows
    /\ retained \in Seq(TrackRows) /\ swaps \in SUBSET SwapRows /\ owed \in SUBSET Sources

CapturesTyped ==
    /\ live \in [Sources -> Nat] /\ used \in [Sources -> Nat]
    /\ starting \in [Sources -> {None, "toggle", "switch"}] /\ stale \in [Sources -> Nat]
    /\ enabled \in [Sources -> BOOLEAN] /\ wanted \in [Sources -> BOOLEAN]
    /\ hidden \in BOOLEAN /\ autoDue \in BOOLEAN /\ muteTold \in BOOLEAN

\* What waits, waits for the transport; the rest needs one.
OneStage ==
    /\ transport => buffer = <<>>
    /\ ~transport => flight = {} /\ producers = {}

OnceBySource(fl, ps) ==
    /\ \A p, q \in ps : p.src = q.src => p = q
    /\ \A f, g \in fl : f.src = g.src => f = g
    /\ \A p \in ps, f \in fl : p.src # f.src

\* The tracks of a capture are numbered by its starts: none is newer than the
\* one it holds, and the one it will hold is newer than all.
InTime(e, lv, us, st) ==
    /\ e.track \in 1 .. us[e.src]
    /\ lv[e.src] # 0 => e.track <= lv[e.src]
    /\ st[e.src] # None => e.track < us[e.src]

Known == Range(buffer) \cup flight \cup Range(retained) \cup producers \cup swaps

CapturesInTime(lv, us, st) ==
    /\ \A s \in Sources : lv[s] <= us[s] /\ us[s] <= MaxStarts
    /\ \A s \in Sources : st[s] # None => lv[s] < us[s]
    /\ "screen" \in Sources => st["screen"] = None

TracksInTime ==
    /\ \A e \in Known : InTime(e, live, used, starting)
    /\ CapturesInTime(live, used, starting)

\* What was retained is older than what has been asked for since.
RetainedIsOlder ==
    \A r \in Range(retained), e \in Range(buffer) \cup flight : r.src = e.src => r.track <= e.track

\* What is owed is not published, and its track lives and is kept.
OwedIsKept ==
    \A s \in owed :
        /\ \A p \in producers : p.src # s
        /\ \E e \in Range(retained) \cup Range(buffer) \cup flight : e.src = s /\ live[s] = e.track

PublishIInv ==
    /\ ConnectionTyped /\ PipelineTyped /\ CapturesTyped /\ OneStage /\ OnceBySource(flight, producers)
    /\ TracksInTime /\ RetainedIsOlder /\ OwedIsKept

-----------------------------------------------------------------------------
(* Sets and lists of few rows.                                             *)

LEMMA LimitsAreNat == QueueLimit \in Nat /\ MaxStarts \in Nat /\ MaxStarts >= 1 /\ MaxDrops \in Nat /\ MaxResets \in Nat
BY BoundsAreNat

LEMMA SourcesAreFinite == IsFiniteSet(Sources)
<1>1. IsFiniteSet({"audio"})
  BY FS_Singleton
<1>2. IsFiniteSet({"audio"} \cup {"camera"})
  BY <1>1, FS_AddElement
<1>3. IsFiniteSet(({"audio"} \cup {"camera"}) \cup {"screen"})
  BY <1>2, FS_AddElement
<1>4. Sources \in SUBSET (({"audio"} \cup {"camera"}) \cup {"screen"})
  BY SourcesAreKnown
<1> QED BY <1>3, <1>4, FS_Subset

\* Rows of different sources are few, and can be listed.
LEMMA RowsListed ==
    ASSUME NEW R, \A r \in R : r.src \in Sources, \A r, q \in R : r.src = q.src => r = q
    PROVE  /\ SetToSeq(R) \in Seq(R) /\ Range(SetToSeq(R)) = R
           /\ DOMAIN SetToSeq(R) = 1 .. Len(SetToSeq(R))
<1> DEFINE source == [r \in R |-> r.src]
           s == SetToSeq(R)
           N == Cardinality(R)
<1>1. source \in Injection(R, Sources)
  <2>1. source \in [R -> Sources]
    OBVIOUS
  <2>2. \A r, q \in R : source[r] = source[q] => r = q
    OBVIOUS
  <2> HIDE DEF source
  <2> QED BY <2>1, <2>2 DEF Injection, IsInjective
<1>2. IsFiniteSet(R)
  BY <1>1, SourcesAreFinite, FS_Injection
<1>3. N \in Nat /\ ExistsBijection(1 .. N, R)
  BY <1>2, FS_CardinalityType
<1>4. \E f \in [1 .. N -> R] : IsInjective(f)
  BY <1>3 DEF ExistsBijection, Bijection, Injection, IsInjective
<1>5. s \in [1 .. N -> R] /\ IsInjective(s)
  BY <1>4 DEF SetToSeq
<1> HIDE DEF s
<1>6. s \in Injection(1 .. N, R)
  BY <1>5 DEF Injection, IsInjective
<1>7. IsFiniteSet(1 .. N) /\ Cardinality(1 .. N) = N
  BY <1>3, FS_Interval
<1>8. s \in Surjection(1 .. N, R)
  BY <1>2, <1>6, <1>7, FS_Injection
<1>9. \A r \in R : \E i \in 1 .. N : s[i] = r
  BY <1>8 DEF Surjection
<1>10. s \in Seq(R) /\ Len(s) = N /\ DOMAIN s = 1 .. N
  BY <1>3, <1>5
<1>11. Range(s) = R
  BY <1>5, <1>9, <1>10 DEF Range
<1> QED BY <1>10, <1>11 DEF s

LEMMA JoinedRange ==
    ASSUME NEW S, NEW s \in Seq(S), NEW t \in Seq(S)
    PROVE  s \o t \in Seq(S) /\ Range(s \o t) = Range(s) \cup Range(t) /\ Len(s \o t) = Len(s) + Len(t)
<1> DEFINE u == s \o t
<1>0. /\ Len(s) \in Nat /\ Len(t) \in Nat /\ DOMAIN s = 1 .. Len(s) /\ DOMAIN t = 1 .. Len(t)
  OBVIOUS
<1>1. /\ u \in Seq(S) /\ Len(u) = Len(s) + Len(t)
      /\ \A i \in 1 .. Len(s) + Len(t) : u[i] = IF i <= Len(s) THEN s[i] ELSE t[i - Len(s)]
  BY ConcatProperties
<1> HIDE DEF u
<1>2. DOMAIN u = 1 .. Len(s) + Len(t)
  <2>1. DOMAIN u = 1 .. Len(u)
    BY <1>1
  <2> QED BY <1>1, <2>1
<1>3. Range(u) \subseteq Range(s) \cup Range(t)
  <2> SUFFICES ASSUME NEW i \in 1 .. Len(s) + Len(t) PROVE u[i] \in Range(s) \cup Range(t)
    BY <1>2 DEF Range
  <2>1. CASE i <= Len(s)
    <3>1. i \in DOMAIN s /\ u[i] = s[i]
      BY <1>0, <1>1, <2>1
    <3> QED BY <3>1 DEF Range
  <2>2. CASE ~(i <= Len(s))
    <3>1. i - Len(s) \in DOMAIN t /\ u[i] = t[i - Len(s)]
      BY <1>0, <1>1, <2>2
    <3> QED BY <3>1 DEF Range
  <2> QED BY <2>1, <2>2
<1>4. Range(s) \subseteq Range(u)
  <2> SUFFICES ASSUME NEW i \in 1 .. Len(s) PROVE s[i] \in Range(u)
    BY <1>0 DEF Range
  <2>1. i \in DOMAIN u /\ u[i] = s[i]
    BY <1>0, <1>1, <1>2
  <2> QED BY <2>1 DEF Range
<1>5. Range(t) \subseteq Range(u)
  <2> SUFFICES ASSUME NEW i \in 1 .. Len(t) PROVE t[i] \in Range(u)
    BY <1>0 DEF Range
  <2>1. Len(s) + i \in DOMAIN u /\ ~(Len(s) + i <= Len(s)) /\ (Len(s) + i) - Len(s) = i
    BY <1>0, <1>2
  <2>2. u[Len(s) + i] = t[i]
    BY <1>1, <1>2, <2>1
  <2> QED BY <2>1, <2>2 DEF Range
<1> QED BY <1>1, <1>3, <1>4, <1>5 DEF u

\* Of finitely many places each count is that of one of them.
LEMMA CountsAreTaken ==
    ASSUME NEW n \in Nat, NEW P \in SUBSET (1 .. n)
    PROVE  /\ IsFiniteSet(P) /\ Cardinality(P) \in Nat
           /\ \A m \in 1 .. Cardinality(P) : \E i \in P : Cardinality({j \in P : j <= i}) = m
<1> DEFINE UpTo(i) == {j \in P : j <= i}
           N == Cardinality(P)
           count == [i \in P |-> Cardinality(UpTo(i))]
<1>0. P \in SUBSET Nat
  OBVIOUS
<1>1. IsFiniteSet(1 .. n)
  BY FS_Interval
<1>2. IsFiniteSet(P)
  BY <1>1, FS_Subset
<1>3. N \in Nat /\ IsFiniteSet(1 .. N) /\ Cardinality(1 .. N) = N
  BY <1>2, FS_CardinalityType, FS_Interval
<1>4. ASSUME NEW i \in P
      PROVE  IsFiniteSet(UpTo(i)) /\ Cardinality(UpTo(i)) \in 1 .. N
  <2>1. UpTo(i) \in SUBSET P /\ i \in UpTo(i)
    BY <1>0
  <2> HIDE DEF UpTo
  <2>2. IsFiniteSet(UpTo(i)) /\ Cardinality(UpTo(i)) <= N
    BY <1>2, <2>1, FS_Subset
  <2>3. Cardinality(UpTo(i)) \in Nat /\ Cardinality(UpTo(i)) # 0
    BY <2>1, <2>2, FS_CardinalityType, FS_EmptySet
  <2> QED BY <1>3, <2>2, <2>3
<1>5. ASSUME NEW i \in P, NEW j \in P, i < j PROVE Cardinality(UpTo(i)) # Cardinality(UpTo(j))
  <2>1. UpTo(i) \in SUBSET UpTo(j)
    <3> SUFFICES ASSUME NEW q \in P, q <= i PROVE q <= j
      OBVIOUS
    <3>1. q \in Nat /\ i \in Nat /\ j \in Nat
      BY <1>0
    <3> QED BY <1>5, <3>1
  <2>2. j \in UpTo(j) /\ j \notin UpTo(i)
    BY <1>0, <1>5
  <2> HIDE DEF UpTo
  <2> QED BY <1>4, <2>1, <2>2, FS_Subset
<1>6. count \in Injection(P, 1 .. N)
  <2>1. count \in [P -> 1 .. N]
    BY <1>4
  <2>2. \A i, j \in P : count[i] = count[j] => i = j
    <3> SUFFICES ASSUME NEW i \in P, NEW j \in P, i # j PROVE Cardinality(UpTo(i)) # Cardinality(UpTo(j))
      OBVIOUS
    <3>1. i < j \/ j < i
      BY <1>0
    <3> QED BY <1>5, <3>1
  <2> HIDE DEF count
  <2> QED BY <2>1, <2>2 DEF Injection, IsInjective
<1>7. count \in Surjection(P, 1 .. N)
  BY <1>3, <1>6, FS_Injection
<1>8. \A m \in 1 .. N : \E i \in P : count[i] = m
  BY <1>7 DEF Surjection
<1> QED BY <1>2, <1>3, <1>8

\* What is admitted to the queue is of the list, alive, and fits.
LEMMA AdmittedKnown ==
    ASSUME NEW seq \in Seq(EntryRows), NEW lv, Len(buffer) \in Nat, Len(buffer) <= QueueLimit
    PROVE  /\ Admitted(seq, lv) \in Seq(EntryRows)
           /\ Range(Admitted(seq, lv)) \subseteq Range(seq)
           /\ \A e \in Range(Admitted(seq, lv)) : lv[e.src] = e.track
           /\ Len(buffer) + Len(Admitted(seq, lv)) <= QueueLimit
<1> DEFINE able == {i \in DOMAIN seq : Live(lv, seq[i])}
           nth(n) == CHOOSE i \in able : Cardinality({j \in able : j <= i}) = n
           L == IF Cardinality(able) < FreeSlots THEN Cardinality(able) ELSE FreeSlots
           s == [n \in 1 .. L |-> seq[nth(n)]]
<1>0. Len(seq) \in Nat /\ DOMAIN seq = 1 .. Len(seq) /\ \A i \in DOMAIN seq : seq[i] \in EntryRows
  OBVIOUS
<1>1. /\ Cardinality(able) \in Nat
      /\ \A n \in 1 .. Cardinality(able) : \E i \in able : Cardinality({j \in able : j <= i}) = n
  <2>1. able \in SUBSET (1 .. Len(seq))
    BY <1>0
  <2> HIDE DEF able
  <2> QED BY <1>0, <2>1, CountsAreTaken
<1>2. \A n \in 1 .. Cardinality(able) : nth(n) \in able
  <2> HIDE DEF able
  <2> QED BY <1>1
<1>3. FreeSlots \in Nat /\ Len(buffer) + FreeSlots <= QueueLimit
  BY LimitsAreNat DEF FreeSlots
<1>4. L \in Nat /\ L <= Cardinality(able) /\ L <= FreeSlots
  BY <1>1, <1>3
<1>5. Admitted(seq, lv) = s
  BY DEF Admitted
<1> HIDE DEF nth, L
<1>6. \A n \in 1 .. L : nth(n) \in able
  BY <1>1, <1>2, <1>4
<1>7. \A n \in 1 .. L : seq[nth(n)] \in EntryRows /\ seq[nth(n)] \in Range(seq) /\ Live(lv, seq[nth(n)])
  BY <1>0, <1>6 DEF Range
<1>8. s \in Seq(EntryRows) /\ Len(s) = L /\ DOMAIN s = 1 .. L /\ \A n \in 1 .. L : s[n] = seq[nth(n)]
  BY <1>4, <1>7
<1> HIDE DEF s
<1>9. \A e \in Range(s) : e \in Range(seq) /\ lv[e.src] = e.track
  BY <1>7, <1>8 DEF Range, Live
<1>10. Len(buffer) + L <= QueueLimit
  BY <1>3, <1>4, LimitsAreNat
<1> QED BY <1>5, <1>8, <1>9, <1>10

-----------------------------------------------------------------------------
(* What is produced.                                                       *)

Same(e, g) == e.src = g.src /\ e.track = g.track

\* What a step that starts produces does to what is in flight, to the
\* producers, and to what is owed.
Starts(seq, lv) ==
    /\ flight' \in SUBSET EntryRows /\ producers' \in SUBSET ProducerRows
    /\ live' \in [Sources -> Nat] /\ enabled' \in [Sources -> BOOLEAN]
    /\ OnceBySource(flight', producers')
    /\ \A f \in flight' : \E g \in flight \cup Range(seq) : Same(f, g)
    /\ \A f \in flight : \E g \in flight' : Same(g, f)
    /\ \A p \in producers' : \E q \in producers : Same(p, q)
    /\ \A s \in Sources : live'[s] \in {0, lv[s]}
    /\ owed' \subseteq owed /\ \A s \in owed' : live'[s] = live[s]
    /\ \A s \in owed' : \A e \in Range(seq) : e.src = s =>
          \E g \in flight' : g.src = s /\ (g.track = live[s] \/ \E f \in flight : Same(g, f))

LEMMA StartKeeps ==
    ASSUME NEW seq \in Seq(EntryRows), NEW on, NEW lv \in [Sources -> Nat],
           flight \in SUBSET EntryRows, producers \in SUBSET ProducerRows, owed \in SUBSET Sources,
           enabled \in [Sources -> BOOLEAN], OnceBySource(flight, producers),
           \A s \in owed : \A p \in producers : p.src # s,
           StartProduces(seq, on, lv)
    PROVE  Starts(seq, lv)
<1> DEFINE entries == Range(seq)
           places(s) == {i \in DOMAIN seq : seq[i].src = s /\ \A j \in 1 .. i - 1 : seq[j].src # s}
           first(s) == seq[CHOOSE i \in DOMAIN seq :
                             seq[i].src = s /\ \A j \in 1 .. i - 1 : seq[j].src # s]
           callers(s) == UNION {e.who : e \in Of(s, entries)}
           fresh == {s \in {e.src : e \in entries} : Existing(s) = {} /\ Of(s, flight) = {}}
           dead == {s \in fresh : ~Live(lv, first(s))}
           served == {e \in entries : Existing(e.src) # {}}
           lapsed == {e \in entries : e.src \in dead}
           shared(f) == [f EXCEPT !.who = @ \cup IF Existing(f.src) = {} THEN callers(f.src) ELSE {}]
           attempt(s) == Attempt(s, first(s).track, callers(s))
           told(p) == IF \E e \in served : e.src = p.src /\ e.who \cap {"toggle", "auto"} # {}
                      THEN Paused(p, FALSE) ELSE p
<1>1. /\ flight' = {shared(f) : f \in flight} \cup {attempt(s) : s \in fresh \ dead}
      /\ producers' = {told(p) : p \in producers}
      /\ Buttons(on \cup {e.src : e \in {f \in served : "screen" \in f.who}}, Off(lapsed))
      /\ Tracks(lv, Stopped(lv, lapsed))
      /\ owed' = {s \in owed \ dead : lv[s] = live[s]}
  BY DEF StartProduces
<1>2. entries \in SUBSET EntryRows /\ \A i \in DOMAIN seq : seq[i] \in entries
  BY DEF Range
<1>3. ASSUME NEW e \in entries PROVE first(e.src) \in entries /\ first(e.src).src = e.src
  <2> DEFINE S == {i \in DOMAIN seq : seq[i].src = e.src}
  <2>1. S \in SUBSET Nat /\ S # {}
    BY DEF Range
  <2>2. PICK i \in S : \A j \in S : i <= j
    <3> HIDE DEF S
    <3> QED BY <2>1, LeastExists
  <2>3. \A j \in 1 .. i - 1 : j \in DOMAIN seq /\ ~(i <= j)
    <3>1. i \in Nat /\ Len(seq) \in Nat /\ i <= Len(seq) /\ DOMAIN seq = 1 .. Len(seq)
      BY <2>2
    <3> QED BY <3>1
  <2>4. i \in DOMAIN seq /\ seq[i].src = e.src /\ \A j \in 1 .. i - 1 : seq[j].src # e.src
    BY <2>2, <2>3
  <2> QED BY <1>2, <2>4
<1>4. \A s : callers(s) \in SUBSET Callers
  BY <1>2 DEF Of, EntryRows
<1> HIDE DEF first, callers
<1>5. \A s \in fresh : /\ s \in Sources /\ first(s) \in entries /\ first(s).src = s /\ first(s) \in EntryRows
                       /\ Existing(s) = {} /\ Of(s, flight) = {}
  BY <1>2, <1>3 DEF EntryRows
<1>6. \A s \in fresh : attempt(s) \in EntryRows /\ attempt(s).src = s /\ attempt(s).track = first(s).track
  BY <1>4, <1>5 DEF Attempt, Entry, EntryRows
<1>7. \A f \in flight : shared(f) \in EntryRows /\ Same(shared(f), f)
  BY <1>4 DEF EntryRows, Same
<1>8. \A p \in producers : told(p) \in ProducerRows /\ Same(told(p), p)
  BY DEF Paused, ProducerRows, Same
<1> DEFINE begins == fresh \ dead
<1>9. /\ begins \subseteq fresh /\ \A s \in begins : first(s).track = lv[s]
      /\ lapsed \in SUBSET EntryRows
  BY <1>2, <1>5 DEF Live
<1>10. \A e \in entries : Existing(e.src) = {} /\ Of(e.src, flight) = {} => e.src \in fresh
  OBVIOUS
<1> HIDE DEF shared, attempt, told, fresh, dead, lapsed, served, entries
<1>11. flight' \in SUBSET EntryRows /\ producers' \in SUBSET ProducerRows
  BY <1>1, <1>6, <1>7, <1>8, <1>9
<1>12. live' \in [Sources -> Nat] /\ enabled' \in [Sources -> BOOLEAN] /\ \A s \in Sources : live'[s] \in {0, lv[s]}
  BY <1>1 DEF Buttons, Tracks
<1>13. /\ \A f \in flight' : \E g \in flight \cup entries : Same(f, g)
       /\ \A f \in flight : \E g \in flight' : Same(g, f)
       /\ \A p \in producers' : \E q \in producers : Same(p, q)
  <2>1. ASSUME NEW f \in flight' PROVE \E g \in flight \cup entries : Same(f, g)
    <3>1. CASE \E g \in flight : f = shared(g)
      BY <1>7, <3>1
    <3>2. CASE \E s \in begins : f = attempt(s)
      BY <1>5, <1>6, <1>9, <3>2 DEF Same
    <3> QED BY <1>1, <3>1, <3>2
  <2> QED BY <1>1, <1>7, <1>8, <2>1
<1>14. OnceBySource(flight', producers')
  <2>1. \A p, q \in producers' : p.src = q.src => p = q
    BY <1>1, <1>8 DEF OnceBySource, Same
  <2>2. \A f \in flight' : (\E g \in flight : f = shared(g) /\ f.src = g.src)
                          \/ (\E s \in begins : f = attempt(s) /\ f.src = s /\ Existing(s) = {} /\ Of(s, flight) = {})
    BY <1>1, <1>5, <1>6, <1>7, <1>9 DEF Same
  <2>3. \A f, g \in flight' : f.src = g.src => f = g
    BY <2>2 DEF OnceBySource, Of
  <2>4. \A p \in producers' : \E q \in producers : p.src = q.src
    BY <1>1, <1>8 DEF Same
  <2>5. \A p \in producers', f \in flight' : p.src # f.src
    BY <2>2, <2>4 DEF OnceBySource, Of, Existing
  <2> QED BY <2>1, <2>3, <2>5 DEF OnceBySource
<1>15. owed' \subseteq owed /\ \A s \in owed' : s \in Sources /\ s \notin dead /\ lv[s] = live[s]
  BY <1>1
<1>16. \A s \in owed' : live'[s] = live[s]
  <2>1. \A s \in Stopped(lv, lapsed) : s \in dead
    BY DEF Stopped, lapsed
  <2> QED BY <1>1, <1>15, <2>1 DEF Tracks
<1>17. ASSUME NEW s \in owed', NEW e \in entries, e.src = s
       PROVE  \E g \in flight' : g.src = s /\ (g.track = live[s] \/ \E f \in flight : Same(g, f))
  <2>1. Existing(s) = {}
    BY <1>15 DEF Existing, Of
  <2>2. CASE Of(s, flight) = {}
    <3>1. s \in begins
      BY <1>10, <1>15, <1>17, <2>1, <2>2
    <3>2. attempt(s) \in flight' /\ attempt(s).src = s /\ attempt(s).track = live[s]
      BY <1>1, <1>6, <1>9, <1>15, <3>1
    <3> QED BY <3>2
  <2>3. CASE Of(s, flight) # {}
    <3>1. PICK f \in flight : f.src = s
      BY <2>3 DEF Of
    <3> QED BY <1>1, <1>7, <3>1 DEF Same
  <2> QED BY <2>2, <2>3
<1>18. entries = Range(seq)
  BY DEF entries
<1> QED BY <1>11, <1>12, <1>13, <1>14, <1>15, <1>16, <1>17, <1>18 DEF Starts

\* What a step that produces does, with a transport or without.
Takes(seq, lv) ==
    /\ buffer' \in Seq(EntryRows) /\ Len(buffer') <= QueueLimit
    /\ flight' \in SUBSET EntryRows /\ producers' \in SUBSET ProducerRows
    /\ live' \in [Sources -> Nat] /\ enabled' \in [Sources -> BOOLEAN]
    /\ OnceBySource(flight', producers')
    /\ \A e \in Range(buffer') \cup flight' : \E g \in Range(buffer) \cup flight \cup Range(seq) : Same(e, g)
    /\ \A p \in producers' : \E q \in producers : Same(p, q)
    /\ \A s \in Sources : live'[s] \in {0, lv[s]}
    /\ owed' \subseteq owed /\ \A s \in owed' : live'[s] = live[s]
    /\ \A s \in owed' : \A e \in Range(buffer) \cup flight : e.src = s /\ e.track = live[s] =>
          \E g \in Range(buffer') \cup flight' : g.src = s /\ g.track = live[s]
    /\ \A s \in owed' : \A e \in Range(seq) : e.src = s =>
          \E g \in Range(buffer') \cup flight' : g.src = s /\ (g.track = live[s] \/ \E b \in Range(buffer) \cup flight : Same(g, b))

LEMMA NoneInEmpty == Range(<<>>) = {} /\ Len(<<>>) = 0 /\ \A S : <<>> \in Seq(S)
BY DEF Range

LEMMA StartTakes ==
    ASSUME NEW seq \in Seq(EntryRows), NEW lv, Starts(seq, lv),
           buffer' = <<>>, buffer = <<>> \/ (flight = {} /\ seq = buffer)
    PROVE  Takes(seq, lv)
<1>1. buffer' \in Seq(EntryRows) /\ Len(buffer') <= QueueLimit /\ Range(buffer') = {}
  BY NoneInEmpty, LimitsAreNat
<1>2. \A s \in owed' : \A e \in Range(buffer) \cup flight : e.src = s /\ e.track = live[s] =>
          \E g \in flight' : g.src = s /\ g.track = live[s]
  <2>1. CASE buffer = <<>>
    BY <2>1, NoneInEmpty DEF Starts, Same
  <2>2. CASE flight = {} /\ seq = buffer
    BY <2>2 DEF Starts, Same
  <2> QED BY <2>1, <2>2
<1>3. \A e \in flight' : \E g \in Range(buffer) \cup flight \cup Range(seq) : Same(e, g)
  BY DEF Starts
<1>4. \A s \in owed' : \A e \in Range(seq) : e.src = s =>
          \E g \in flight' : g.src = s /\ (g.track = live[s] \/ \E b \in Range(buffer) \cup flight : Same(g, b))
  BY DEF Starts
<1> QED BY <1>1, <1>2, <1>3, <1>4 DEF Starts, Takes

LEMMA BufferTakes ==
    ASSUME NEW seq \in Seq(EntryRows), NEW on, NEW lv \in [Sources -> Nat],
           PipelineTyped, enabled \in [Sources -> BOOLEAN], OnceBySource(flight, producers), flight = {},
           \A e \in Range(seq) : "screen" \in e.who => lv[e.src] # live[e.src],
           BufferProduces(seq, on, lv)
    PROVE  Takes(seq, lv)
<1> DEFINE in == Range(Admitted(seq, lv))
           failed == Range(seq) \ in
<1>1. /\ buffer' = buffer \o Admitted(seq, lv)
      /\ GiveUpOn(failed, on, lv)
      /\ owed' = {s \in owed : lv[s] = live[s] /\ (Of(s, Range(seq)) = {} \/ Of(s, Range(buffer) \cup in) # {})}
      /\ flight' = flight /\ producers' = producers
  BY DEF BufferProduces
<1>2. buffer \in Seq(EntryRows) /\ Len(buffer) \in Nat /\ Len(buffer) <= QueueLimit
  BY DEF PipelineTyped
<1>3. /\ Admitted(seq, lv) \in Seq(EntryRows) /\ in \subseteq Range(seq)
      /\ \A e \in in : lv[e.src] = e.track
      /\ Len(buffer) + Len(Admitted(seq, lv)) <= QueueLimit
  BY <1>2, AdmittedKnown
<1>4. buffer' \in Seq(EntryRows) /\ Range(buffer') = Range(buffer) \cup in /\ Len(buffer') <= QueueLimit
  BY <1>1, <1>2, <1>3, JoinedRange
<1>5. \A e \in Range(seq) : e \in EntryRows
  BY DEF Range
<1> HIDE DEF in, failed
<1>6. live' \in [Sources -> Nat] /\ enabled' \in [Sources -> BOOLEAN] /\ \A s \in Sources : live'[s] \in {0, lv[s]}
  BY <1>1 DEF GiveUpOn, Buttons, Tracks
<1>7. \A s \in Stopped(lv, failed) : lv[s] # live[s]
  BY DEF Stopped, failed
<1>8. owed' \subseteq owed /\ \A s \in owed' : s \in Sources /\ lv[s] = live[s] /\ live'[s] = live[s]
  BY <1>1, <1>7 DEF GiveUpOn, Tracks, PipelineTyped
<1>9. ASSUME NEW s \in owed', NEW e \in Range(seq), e.src = s
      PROVE  \E g \in Range(buffer') \cup flight' : g.src = s /\ (g.track = live[s] \/ \E b \in Range(buffer) \cup flight : Same(g, b))
  <2>1. PICK g \in Range(buffer) \cup in : g.src = s
    BY <1>1, <1>9 DEF Of
  <2> QED BY <1>3, <1>4, <1>8, <2>1 DEF Same
<1> QED
  <2>1. flight' \in SUBSET EntryRows /\ producers' \in SUBSET ProducerRows /\ OnceBySource(flight', producers')
    BY <1>1 DEF PipelineTyped
  <2>2. \A e \in Range(buffer') \cup flight' : \E g \in Range(buffer) \cup flight \cup Range(seq) : Same(e, g)
    BY <1>1, <1>3, <1>4 DEF Same
  <2>3. \A p \in producers' : \E q \in producers : Same(p, q)
    BY <1>1 DEF Same
  <2>4. \A s \in owed' : \A e \in Range(buffer) \cup flight : e.src = s /\ e.track = live[s] =>
          \E g \in Range(buffer') \cup flight' : g.src = s /\ g.track = live[s]
    BY <1>1, <1>4
  <2> QED BY <1>4, <1>6, <1>8, <1>9, <2>1, <2>2, <2>3, <2>4 DEF Takes

-----------------------------------------------------------------------------
(* The parts of the invariant over a step.                                 *)

\* A row that is new is of its time, and so are those of the step before.
LEMMA TimesStand ==
    ASSUME NEW new, NEW lv \in [Sources -> Nat], CapturesInTime(lv, used', starting'),
           \A g \in Known \cup new : g.src \in Sources /\ InTime(g, lv, used', starting'),
           \A e \in Known' : \E g \in Known \cup new : Same(e, g),
           live' \in [Sources -> Nat], used' \in [Sources -> Nat], \A s \in Sources : live'[s] \in {0, lv[s]}
    PROVE  TracksInTime'
<1>1. CapturesInTime(live', used', starting')
  <2>1. ASSUME NEW s \in Sources PROVE live'[s] <= used'[s] /\ (starting'[s] # None => live'[s] < used'[s])
    <3>1. lv[s] \in Nat /\ live'[s] \in Nat /\ used'[s] \in Nat /\ live'[s] \in {0, lv[s]}
      OBVIOUS
    <3>2. lv[s] <= used'[s] /\ (starting'[s] # None => lv[s] < used'[s])
      BY DEF CapturesInTime
    <3> QED BY <3>1, <3>2
  <2> QED BY <2>1 DEF CapturesInTime
<1>2. ASSUME NEW e \in Known' PROVE InTime(e, live', used', starting')
  <2>1. PICK g \in Known \cup new : Same(e, g)
    OBVIOUS
  <2>2. g.src \in Sources /\ InTime(g, lv, used', starting') /\ live'[g.src] \in {0, lv[g.src]}
    OBVIOUS
  <2> HIDE DEF Known
  <2> QED BY <2>1, <2>2 DEF InTime, Same
<1> QED BY <1>1, <1>2 DEF TracksInTime

LEMMA KnownTyped ==
    ASSUME PipelineTyped
    PROVE  /\ \A e \in Known : e.src \in Sources /\ e.track \in Nat
           /\ \A e \in Range(buffer) \cup flight : e \in EntryRows
           /\ \A e \in Range(retained) : e \in TrackRows
<1>1. \A e \in Range(buffer) \cup flight : e \in EntryRows
  BY DEF PipelineTyped, Range
<1>2. \A e \in Range(retained) : e \in TrackRows
  BY DEF PipelineTyped, Range
<1> QED BY <1>1, <1>2 DEF Known, PipelineTyped, EntryRows, TrackRows, ProducerRows, SwapRows

\* A step that produces keeps order, whatever it produces.
LEMMA TakesKeeps ==
    ASSUME PublishIInv, NEW seq \in Seq(EntryRows), NEW lv \in [Sources -> Nat], Takes(seq, lv),
           used' \in [Sources -> Nat], starting' \in [Sources -> {None, "toggle", "switch"}],
           retained' \in Seq(TrackRows), swaps' \in SUBSET SwapRows,
           CapturesInTime(lv, used', starting'),
           \A g \in Known \cup Range(seq) \cup swaps' : InTime(g, lv, used', starting'),
           \/ retained' = retained
           \/ /\ retained' = <<>>
              /\ \A r \in Range(retained) : \E e \in Range(seq) : Same(e, r),
           \A e \in Range(seq), r \in Range(retained') : r.src = e.src => r.track <= e.track
    PROVE  /\ PipelineTyped' /\ OnceBySource(flight', producers') /\ TracksInTime' /\ RetainedIsOlder' /\ OwedIsKept'
<1>1. PipelineTyped'
  <2>1. owed' \in SUBSET Sources
    BY DEF Takes, PublishIInv, PipelineTyped
  <2> QED BY <2>1 DEF Takes, PipelineTyped
<1>2. OnceBySource(flight', producers')
  BY DEF Takes
<1>3. PipelineTyped /\ TracksInTime /\ RetainedIsOlder /\ OwedIsKept /\ live \in [Sources -> Nat]
  BY DEF PublishIInv, CapturesTyped
<1>4. \A e \in Range(seq) : e \in EntryRows
  BY DEF Range
<1>5. TracksInTime'
  <2> DEFINE new == Range(seq) \cup swaps'
  <2>1. \A g \in Known \cup new : g.src \in Sources /\ InTime(g, lv, used', starting')
    BY <1>3, <1>4, KnownTyped DEF EntryRows, SwapRows
  <2>2. \A e \in Known' : \E g \in Known \cup new : Same(e, g)
    <3>1. \A e \in Range(retained') : e \in Range(retained)
      BY NoneInEmpty
    <3> QED BY <3>1 DEF Known, Takes, Same
  <2>3. live' \in [Sources -> Nat] /\ \A s \in Sources : live'[s] \in {0, lv[s]}
    BY DEF Takes
  <2> HIDE DEF new, Known
  <2> QED BY <2>1, <2>2, <2>3, TimesStand
<1>6. RetainedIsOlder'
  <2> SUFFICES ASSUME NEW r \in Range(retained'), NEW e \in Range(buffer') \cup flight', r.src = e.src
               PROVE  r.track <= e.track
    BY DEF RetainedIsOlder
  <2>1. PICK g \in Range(buffer) \cup flight \cup Range(seq) : Same(e, g)
    BY DEF Takes
  <2>2. r \in Range(retained)
    BY NoneInEmpty
  <2> QED BY <1>3, <2>1, <2>2 DEF RetainedIsOlder, Same
<1>7. OwedIsKept'
  <2> SUFFICES ASSUME NEW s \in owed'
               PROVE  /\ \A p \in producers' : p.src # s
                      /\ \E e \in Range(retained') \cup Range(buffer') \cup flight' : e.src = s /\ live'[s] = e.track
    BY DEF OwedIsKept
  <2>1. s \in owed /\ s \in Sources /\ live'[s] = live[s]
    BY <1>3 DEF Takes, PipelineTyped
  <2>2. \A p \in producers' : p.src # s
    BY <1>3, <2>1 DEF OwedIsKept, Takes, Same
  <2>3. PICK e \in Range(retained) \cup Range(buffer) \cup flight : e.src = s /\ live[s] = e.track
    BY <1>3, <2>1 DEF OwedIsKept
  <2>4. CASE e \in Range(buffer) \cup flight
    BY <2>1, <2>2, <2>3, <2>4 DEF Takes
  <2>5. CASE e \in Range(retained) /\ retained' = retained
    BY <2>1, <2>2, <2>3, <2>5
  <2>6. CASE e \in Range(retained) /\ \E q \in Range(seq) : Same(q, e)
    <3>1. PICK q \in Range(seq) : Same(q, e)
      BY <2>6
    <3>2. PICK g \in Range(buffer') \cup flight' :
             g.src = s /\ (g.track = live[s] \/ \E b \in Range(buffer) \cup flight : Same(g, b))
      BY <2>3, <3>1 DEF Takes, Same
    <3>3. ASSUME NEW b \in Range(buffer) \cup flight, Same(g, b) PROVE g.track = live[s]
      <4>1. b \in Known /\ e \in Known /\ b.src = s
        BY <2>6, <3>2, <3>3 DEF Known, Same
      <4>2. live[s] \in Nat /\ e.track \in Nat /\ b.track \in Nat
        BY <1>3, <2>1, <4>1, KnownTyped
      <4>3. InTime(b, live, used, starting) /\ InTime(e, live, used, starting)
        BY <1>3, <4>1 DEF TracksInTime
      <4>4. e.track # 0 /\ (live[s] # 0 => b.track <= live[s])
        BY <2>3, <4>1, <4>3 DEF InTime
      <4>5. e.track <= b.track
        BY <1>3, <2>3, <2>6, <4>1 DEF RetainedIsOlder
      <4> QED BY <2>3, <3>3, <4>2, <4>4, <4>5 DEF Same
    <3> QED BY <2>1, <2>2, <3>2, <3>3
  <2> QED BY <2>2, <2>3, <2>4, <2>5, <2>6
<1> QED BY <1>1, <1>2, <1>5, <1>6, <1>7

LEMMA ProduceTakes ==
    ASSUME PublishIInv, NEW seq \in Seq(EntryRows), NEW on, NEW lv \in [Sources -> Nat],
           \A e \in Range(seq) : "screen" \in e.who => lv[e.src] # live[e.src],
           Produce(seq, on, lv), transport' = transport
    PROVE  Takes(seq, lv) /\ OneStage'
<1>1. /\ PipelineTyped /\ enabled \in [Sources -> BOOLEAN] /\ OnceBySource(flight, producers)
      /\ OneStage /\ OwedIsKept /\ transport \in BOOLEAN
  BY DEF PublishIInv, CapturesTyped, ConnectionTyped
<1>2. CASE transport
  <2>1. StartProduces(seq, on, lv) /\ buffer' = buffer /\ buffer = <<>>
    BY <1>1, <1>2 DEF Produce, OneStage
  <2>2. Starts(seq, lv)
    BY <1>1, <2>1, StartKeeps DEF PipelineTyped, OwedIsKept
  <2> QED BY <1>2, <2>1, <2>2, StartTakes DEF OneStage
<1>3. CASE ~transport
  <2>1. BufferProduces(seq, on, lv) /\ flight = {} /\ producers = {}
    BY <1>1, <1>3 DEF Produce, OneStage
  <2>2. flight' = {} /\ producers' = {}
    BY <2>1 DEF BufferProduces
  <2> QED BY <1>1, <1>3, <2>1, <2>2, BufferTakes DEF OneStage
<1> QED BY <1>1, <1>2, <1>3

\* A step that produces nothing keeps what waits, and settles at most what
\* is in flight.
LEMMA PlainKeeps ==
    ASSUME PublishIInv, transport' = transport, buffer' = buffer, retained' = retained,
           flight' \subseteq flight, owed' \subseteq owed,
           \A s \in owed' : live'[s] = live[s] /\ \A f \in flight \ flight' : f.src # s,
           producers' \in SUBSET ProducerRows, ~transport => producers' = {},
           \A p, q \in producers' : p.src = q.src => p = q,
           \A p \in producers' : \E q \in producers \cup flight : p.src = q.src,
           \A p \in producers', f \in flight' : p.src # f.src,
           \A p \in producers' : \E q \in producers \cup swaps \cup flight : Same(p, q),
           \A p \in producers', s \in owed' : p.src # s,
           swaps' \in SUBSET SwapRows, live' \in [Sources -> Nat], used' \in [Sources -> Nat],
           CapturesInTime(live', used', starting'),
           \A g \in Known \cup swaps' : InTime(g, live', used', starting')
    PROVE  /\ PipelineTyped' /\ OneStage' /\ OnceBySource(flight', producers')
           /\ TracksInTime' /\ RetainedIsOlder' /\ OwedIsKept'
<1>1. PipelineTyped /\ OneStage /\ OnceBySource(flight, producers) /\ RetainedIsOlder /\ OwedIsKept
  BY DEF PublishIInv
<1>2. PipelineTyped'
  BY <1>1 DEF PipelineTyped
<1>3. OneStage'
  BY <1>1 DEF OneStage
<1>4. OnceBySource(flight', producers')
  BY <1>1 DEF OnceBySource
<1>5. TracksInTime'
  <2>1. \A g \in Known \cup swaps' : g.src \in Sources
    BY <1>1, KnownTyped DEF SwapRows
  <2>2. \A e \in Known' : \E g \in Known \cup swaps' : Same(e, g)
    BY DEF Known, Same
  <2>3. \A s \in Sources : live'[s] \in {0, live'[s]}
    OBVIOUS
  <2> HIDE DEF Known
  <2> QED BY <2>1, <2>2, <2>3, TimesStand
<1>6. RetainedIsOlder'
  BY <1>1 DEF RetainedIsOlder
<1>7. OwedIsKept'
  <2> SUFFICES ASSUME NEW s \in owed'
               PROVE  \E e \in Range(retained) \cup Range(buffer) \cup flight' : e.src = s /\ live'[s] = e.track
    BY DEF OwedIsKept
  <2>1. PICK e \in Range(retained) \cup Range(buffer) \cup flight : e.src = s /\ live[s] = e.track
    BY <1>1 DEF OwedIsKept
  <2> QED BY <2>1
<1> QED BY <1>2, <1>3, <1>4, <1>5, <1>6, <1>7

-----------------------------------------------------------------------------
(* The steps.                                                              *)

\* The captures stand: nothing but what they hold may stop.
LEMMA TimesOfSame ==
    ASSUME PublishIInv, NEW lv \in [Sources -> Nat], \A s \in Sources : lv[s] \in {0, live[s]}
    PROVE  CapturesInTime(lv, used, starting) /\ \A g \in Known : InTime(g, lv, used, starting)
<1>1. /\ live \in [Sources -> Nat] /\ used \in [Sources -> Nat]
      /\ TracksInTime /\ PipelineTyped
  BY DEF PublishIInv, CapturesTyped
<1>2. CapturesInTime(lv, used, starting)
  <2>1. ASSUME NEW s \in Sources PROVE lv[s] <= used[s] /\ (starting[s] # None => lv[s] < used[s])
    <3>1. lv[s] \in Nat /\ live[s] \in Nat /\ used[s] \in Nat /\ lv[s] \in {0, live[s]}
      BY <1>1
    <3>2. live[s] <= used[s] /\ (starting[s] # None => live[s] < used[s])
      BY <1>1 DEF TracksInTime, CapturesInTime
    <3> QED BY <3>1, <3>2
  <2> QED BY <1>1, <2>1 DEF TracksInTime, CapturesInTime
<1>3. ASSUME NEW g \in Known PROVE InTime(g, lv, used, starting)
  <2>1. g.src \in Sources /\ InTime(g, live, used, starting)
    BY <1>1, KnownTyped DEF TracksInTime
  <2> HIDE DEF Known
  <2> QED BY <2>1 DEF InTime
<1> QED BY <1>2, <1>3

\* What leaves every queue and every producer alone.
LEMMA NothingMoves ==
    ASSUME PublishIInv, UNCHANGED <<transport, pipeline, swaps>>, owed' \subseteq owed,
           \A s \in owed' : live'[s] = live[s],
           live' \in [Sources -> Nat], used' \in [Sources -> Nat],
           CapturesInTime(live', used', starting'),
           \A g \in Known : InTime(g, live', used', starting')
    PROVE  /\ PipelineTyped' /\ OneStage' /\ OnceBySource(flight', producers')
           /\ TracksInTime' /\ RetainedIsOlder' /\ OwedIsKept'
<1>1. PipelineTyped /\ OneStage /\ OnceBySource(flight, producers) /\ OwedIsKept
  BY DEF PublishIInv
<1>2. UNCHANGED <<transport, buffer, flight, producers, retained, swaps>>
  BY DEF pipeline
<1>3. /\ \A p \in producers' : \E q \in producers \cup swaps \cup flight : Same(p, q)
      /\ \A p \in producers', s \in owed' : p.src # s
      /\ \A g \in Known \cup swaps' : InTime(g, live', used', starting')
      /\ swaps' \in SUBSET SwapRows /\ producers' \in SUBSET ProducerRows
      /\ ~transport => producers' = {}
      /\ \A p, q \in producers' : p.src = q.src => p = q
      /\ \A p \in producers' : \E q \in producers \cup flight : p.src = q.src
      /\ \A p \in producers', f \in flight' : p.src # f.src
      /\ flight' \subseteq flight /\ \A s \in owed' : \A f \in flight \ flight' : f.src # s
  BY <1>1, <1>2 DEF Known, Same, PipelineTyped, OneStage, OnceBySource, OwedIsKept
<1> HIDE DEF Known
<1> QED BY <1>2, <1>3, PlainKeeps

LEMMA InvariantOf ==
    ASSUME ConnectionTyped', CapturesTyped',
           /\ PipelineTyped' /\ OneStage' /\ OnceBySource(flight', producers')
           /\ TracksInTime' /\ RetainedIsOlder' /\ OwedIsKept'
    PROVE  PublishIInv'
BY DEF PublishIInv

\* Typing of the parts that no step below changes at once.
LEMMA WhatIsTyped ==
    ASSUME PublishIInv
    PROVE  /\ ConnectionTyped /\ PipelineTyped /\ CapturesTyped /\ OneStage /\ OnceBySource(flight, producers)
           /\ TracksInTime /\ RetainedIsOlder /\ OwedIsKept
BY DEF PublishIInv

LEMMA RetainKeeps ==
    ASSUME PublishIInv, RetainAndClose, UNCHANGED <<used, starting, swaps>>
    PROVE  /\ live' \in [Sources -> Nat] /\ enabled' \in [Sources -> BOOLEAN] /\ transport' = FALSE
           /\ PipelineTyped' /\ OneStage' /\ OnceBySource(flight', producers')
           /\ TracksInTime' /\ RetainedIsOlder' /\ OwedIsKept'
<1> DEFINE kept == {[src |-> p.src, track |-> p.track] : p \in {q \in producers : IsLive(q)}}
           failed == Range(buffer) \cup flight
<1>1. /\ retained' = retained \o SetToSeq(kept) \o BufferedToo
      /\ buffer' = <<>> /\ flight' = {} /\ producers' = {}
      /\ GiveUpOn(failed, {}, live)
      /\ owed' = ((owed \ {f.src : f \in flight}) \cup {e.src : e \in kept}
                    \cup {e.src : e \in {b \in Range(buffer) : IsLive(b)}})
                   \ Stopped(live, failed)
      /\ transport' = FALSE
  BY DEF RetainAndClose
<1>2. /\ PipelineTyped /\ OnceBySource(flight, producers) /\ OwedIsKept /\ live \in [Sources -> Nat]
      /\ used \in [Sources -> Nat] /\ enabled \in [Sources -> BOOLEAN]
  BY DEF PublishIInv, CapturesTyped
<1>3. kept \in SUBSET TrackRows /\ \A k \in kept : k.src \in Sources /\ \E p \in producers : Same(k, p)
  <2> SUFFICES ASSUME NEW p \in producers
               PROVE  LET k == [src |-> p.src, track |-> p.track] IN
                      k \in TrackRows /\ k.src \in Sources /\ Same(k, p)
    OBVIOUS
  <2>1. p \in ProducerRows
    BY <1>2 DEF PipelineTyped
  <2> QED BY <2>1 DEF ProducerRows, TrackRows, Same
<1>4. \A k, l \in kept : k.src = l.src => k = l
  <2> SUFFICES ASSUME NEW p \in producers, NEW q \in producers, p.src = q.src PROVE p = q
    OBVIOUS
  <2> QED BY <1>2 DEF OnceBySource
<1>5. \A k \in kept : live[k.src] = k.track
  BY DEF IsLive, Live
<1> HIDE DEF kept, failed
<1>6. SetToSeq(kept) \in Seq(TrackRows) /\ Range(SetToSeq(kept)) = kept
  BY <1>3, <1>4, RowsListed
<1>7. /\ BufferedToo \in Seq(TrackRows)
      /\ \A e \in Range(BufferedToo) : \E b \in Range(buffer) : Same(e, b)
      /\ \A b \in Range(buffer) : \E e \in Range(BufferedToo) : Same(e, b)
  <2>1. Len(buffer) \in Nat /\ DOMAIN buffer = 1 .. Len(buffer) /\ \A i \in DOMAIN buffer : buffer[i] \in EntryRows
    BY <1>2 DEF PipelineTyped
  <2>2. \A i \in DOMAIN buffer : BufferedToo[i] \in TrackRows /\ Same(BufferedToo[i], buffer[i])
    BY <2>1 DEF BufferedToo, EntryRows, TrackRows, Same
  <2>3. BufferedToo \in Seq(TrackRows) /\ DOMAIN BufferedToo = DOMAIN buffer
    BY <2>1, <2>2 DEF BufferedToo
  <2> QED BY <2>2, <2>3 DEF Range
<1>8. /\ retained' \in Seq(TrackRows)
      /\ Range(retained') = Range(retained) \cup kept \cup Range(BufferedToo)
  <2>1. retained \o SetToSeq(kept) \in Seq(TrackRows) /\ Range(retained \o SetToSeq(kept)) = Range(retained) \cup kept
    BY <1>2, <1>6, JoinedRange DEF PipelineTyped
  <2> DEFINE front == retained \o SetToSeq(kept)
  <2>2. front \in Seq(TrackRows) /\ Range(front) = Range(retained) \cup kept /\ retained' = front \o BufferedToo
    BY <1>1, <2>1
  <2> HIDE DEF front
  <2> QED BY <1>7, <2>2, JoinedRange
<1>9. /\ live' \in [Sources -> Nat] /\ enabled' \in [Sources -> BOOLEAN] /\ \A s \in Sources : live'[s] \in {0, live[s]}
      /\ \A s \in Sources : s \notin Stopped(live, failed) => live'[s] = live[s]
  BY <1>1, <1>2 DEF GiveUpOn, Buttons, Tracks
<1>10. \A s \in owed' : s \in Sources /\ s \notin Stopped(live, failed)
  <2>1. \A e \in Range(buffer) : e.src \in Sources
    BY <1>2, KnownTyped DEF EntryRows
  <2>2. owed \in SUBSET Sources
    BY <1>2 DEF PipelineTyped
  <2> QED BY <1>1, <1>3, <2>1, <2>2
<1>11. PipelineTyped'
  <2>1. buffer' \in Seq(EntryRows) /\ Len(buffer') <= QueueLimit
    BY <1>1, NoneInEmpty, LimitsAreNat
  <2>2. swaps' \in SUBSET SwapRows /\ owed' \in SUBSET Sources
    BY <1>2, <1>10 DEF PipelineTyped
  <2> QED BY <1>1, <1>8, <2>1, <2>2 DEF PipelineTyped
<1>12. OneStage' /\ OnceBySource(flight', producers') /\ RetainedIsOlder'
  BY <1>1, NoneInEmpty DEF OneStage, OnceBySource, RetainedIsOlder
<1>13. TracksInTime'
  <2>1. CapturesInTime(live, used', starting') /\ \A g \in Known : g.src \in Sources /\ InTime(g, live, used', starting')
    BY <1>2, KnownTyped DEF PublishIInv, TracksInTime
  <2>2. \A e \in Known' : \E g \in Known \cup {} : Same(e, g)
    <3>1. \A e \in Known' : e \in Range(retained) \cup kept \cup Range(BufferedToo) \cup swaps
      BY <1>1, <1>8, NoneInEmpty DEF Known
    <3> QED BY <1>3, <1>7, <3>1 DEF Known, Same
  <2> HIDE DEF Known
  <2> QED BY <1>2, <1>9, <2>1, <2>2, TimesStand
<1>14. OwedIsKept'
  <2> SUFFICES ASSUME NEW s \in owed' PROVE \E e \in Range(retained') : e.src = s /\ live'[s] = e.track
    BY <1>1 DEF OwedIsKept
  <2>1. live'[s] = live[s]
    BY <1>9, <1>10
  <2>2. CASE s \in owed /\ \A f \in flight : f.src # s
    <3>1. PICK e \in Range(retained) \cup Range(buffer) : e.src = s /\ live[s] = e.track
      BY <1>2, <2>2 DEF OwedIsKept
    <3> QED BY <1>7, <1>8, <2>1, <3>1 DEF Same
  <2>3. CASE \E k \in kept : k.src = s
    BY <1>5, <1>8, <2>1, <2>3
  <2>4. CASE \E b \in Range(buffer) : IsLive(b) /\ b.src = s
    BY <1>7, <1>8, <2>1, <2>4 DEF Same, IsLive, Live
  <2> QED BY <1>1, <2>2, <2>3, <2>4
<1> QED BY <1>1, <1>9, <1>11, <1>12, <1>13, <1>14

LEMMA DropStep == ASSUME PublishIInv, Drop PROVE PublishIInv'
<1>1. RetainAndClose /\ UNCHANGED <<used, starting, swaps>>
  BY DEF Drop
<1>2. ConnectionTyped'
  BY <1>1, WhatIsTyped, RetainKeeps DEF ConnectionTyped, Drop
<1>3. CapturesTyped'
  BY <1>1, WhatIsTyped, RetainKeeps DEF CapturesTyped, Drop
<1> QED BY <1>1, <1>2, <1>3, RetainKeeps, InvariantOf

LEMMA AppendedLoad ==
    ASSUME ConnectionTyped, NEW w \in {"join", "reset"} PROVE Append(loads, w) \in Seq({"join", "reset"})
BY DEF ConnectionTyped

LEMMA MediaResetStep == ASSUME PublishIInv, MediaReset PROVE PublishIInv'
<1>1. RetainAndClose /\ UNCHANGED <<used, starting, swaps>>
  BY DEF MediaReset
<1>2. ConnectionTyped'
  BY <1>1, WhatIsTyped, RetainKeeps, AppendedLoad DEF ConnectionTyped, MediaReset
<1>3. CapturesTyped'
  BY <1>1, WhatIsTyped, RetainKeeps DEF CapturesTyped, MediaReset
<1> QED BY <1>1, <1>2, <1>3, RetainKeeps, InvariantOf

LEMMA ReconnectStep == ASSUME PublishIInv, Reconnect PROVE PublishIInv'
<1>1. UNCHANGED <<transport, pipeline, swaps, owed, live, used, starting>>
  BY DEF Reconnect, media, pipeline, capture
<1>2. ConnectionTyped' /\ CapturesTyped'
  BY <1>1, WhatIsTyped DEF ConnectionTyped, CapturesTyped, Reconnect, media, capture, ui
<1>3. /\ live' \in [Sources -> Nat] /\ used' \in [Sources -> Nat] /\ CapturesInTime(live', used', starting')
      /\ \A g \in Known : InTime(g, live', used', starting')
  BY <1>1, WhatIsTyped DEF CapturesTyped, TracksInTime
<1> QED BY <1>1, <1>2, <1>3, NothingMoves, InvariantOf

\* What is replayed are the rows that were retained.
LEMMA ReplayedRows ==
    ASSUME PublishIInv
    PROVE  LET seq == [i \in DOMAIN retained |-> Entry(retained[i].src, retained[i].track, {"replay"})] IN
           /\ seq \in Seq(EntryRows)
           /\ \A e \in Range(seq) : "screen" \notin e.who /\ \E r \in Range(retained) : Same(e, r)
           /\ \A r \in Range(retained) : \E e \in Range(seq) : Same(e, r)
<1> DEFINE seq == [i \in DOMAIN retained |-> Entry(retained[i].src, retained[i].track, {"replay"})]
<1>1. Len(retained) \in Nat /\ DOMAIN retained = 1 .. Len(retained) /\ \A i \in DOMAIN retained : retained[i] \in TrackRows
  BY WhatIsTyped DEF PipelineTyped
<1>2. \A i \in DOMAIN retained : seq[i] \in EntryRows /\ Same(seq[i], retained[i]) /\ "screen" \notin seq[i].who
  BY <1>1 DEF Entry, EntryRows, TrackRows, Same, Callers
<1>3. seq \in Seq(EntryRows) /\ DOMAIN seq = DOMAIN retained
  BY <1>1, <1>2
<1> HIDE DEF seq
<1>4. /\ \A e \in Range(seq) : "screen" \notin e.who /\ \E r \in Range(retained) : Same(e, r)
      /\ \A r \in Range(retained) : \E e \in Range(seq) : Same(e, r)
  BY <1>2, <1>3 DEF Range
<1> QED BY <1>3, <1>4 DEF seq

LEMMA ReplayKeeps ==
    ASSUME PublishIInv, Replay, UNCHANGED <<transport, used, starting, swaps>>
    PROVE  /\ live' \in [Sources -> Nat] /\ enabled' \in [Sources -> BOOLEAN]
           /\ PipelineTyped' /\ OneStage' /\ OnceBySource(flight', producers')
           /\ TracksInTime' /\ RetainedIsOlder' /\ OwedIsKept'
<1> DEFINE seq == [i \in DOMAIN retained |-> Entry(retained[i].src, retained[i].track, {"replay"})]
<1>1. retained' = <<>> /\ Produce(seq, {}, live)
  BY DEF Replay
<1>2. /\ seq \in Seq(EntryRows)
      /\ \A e \in Range(seq) : "screen" \notin e.who /\ \E r \in Range(retained) : Same(e, r)
      /\ \A r \in Range(retained) : \E e \in Range(seq) : Same(e, r)
  BY ReplayedRows
<1> HIDE DEF seq
<1>3. live \in [Sources -> Nat] /\ used \in [Sources -> Nat] /\ starting \in [Sources -> {None, "toggle", "switch"}]
  BY WhatIsTyped DEF CapturesTyped
<1>4. Takes(seq, live) /\ OneStage'
  BY <1>1, <1>2, <1>3, ProduceTakes
<1>5. live' \in [Sources -> Nat] /\ enabled' \in [Sources -> BOOLEAN]
  BY <1>4 DEF Takes
<1>6. retained' \in Seq(TrackRows) /\ swaps' \in SUBSET SwapRows /\ Range(retained') = {}
  BY <1>1, NoneInEmpty, WhatIsTyped DEF PipelineTyped
<1>7. CapturesInTime(live, used', starting') /\ \A g \in Known \cup Range(seq) \cup swaps' : InTime(g, live, used', starting')
  <2>1. \A r \in Known : InTime(r, live, used, starting)
    BY WhatIsTyped DEF TracksInTime
  <2>2. \A r \in Range(retained) \cup swaps : r \in Known
    BY DEF Known
  <2> HIDE DEF Known
  <2>3. \A e \in Range(seq) : InTime(e, live, used, starting)
    BY <1>2, <2>1, <2>2 DEF InTime, Same
  <2> QED BY <2>1, <2>2, <2>3, WhatIsTyped DEF TracksInTime
<1>8. /\ PipelineTyped' /\ OnceBySource(flight', producers') /\ TracksInTime' /\ RetainedIsOlder' /\ OwedIsKept'
  BY <1>1, <1>2, <1>3, <1>4, <1>6, <1>7, TakesKeeps
<1> QED BY <1>4, <1>5, <1>8

LEMMA RejoinedStep == ASSUME PublishIInv, Rejoined PROVE PublishIInv'
<1>1. Replay /\ UNCHANGED <<transport, used, starting, swaps>>
  BY DEF Rejoined
<1>2. ConnectionTyped'
  BY <1>1, WhatIsTyped, AppendedLoad DEF ConnectionTyped, Rejoined
<1>3. CapturesTyped'
  BY <1>1, WhatIsTyped, ReplayKeeps DEF CapturesTyped, Rejoined
<1> QED BY <1>1, <1>2, <1>3, ReplayKeeps, InvariantOf

LEMMA TailOfLoads ==
    ASSUME ConnectionTyped, loads # <<>> PROVE Tail(loads) \in Seq({"join", "reset"})
BY DEF ConnectionTyped

LEMMA DeviceLoadedStep == ASSUME PublishIInv, DeviceLoaded PROVE PublishIInv'
<1>1. UNCHANGED <<transport, used, starting, swaps>>
  BY DEF DeviceLoaded
<1>2. ConnectionTyped'
  <2>1. asked' \in Nat /\ device' \in {"none", "loading", "loaded"}
    BY WhatIsTyped DEF ConnectionTyped, DeviceLoaded
  <2>2. loads' \in Seq({"join", "reset"})
    BY WhatIsTyped, TailOfLoads DEF DeviceLoaded
  <2> QED BY <1>1, <2>1, <2>2, WhatIsTyped DEF ConnectionTyped, DeviceLoaded
<1>3. CASE Replay
  <2>1. CapturesTyped'
    BY <1>1, <1>3, WhatIsTyped, ReplayKeeps DEF CapturesTyped, DeviceLoaded
  <2> QED BY <1>1, <1>2, <1>3, <2>1, ReplayKeeps, InvariantOf
<1>4. CASE UNCHANGED <<pipeline, live, enabled, owed>>
  <2>1. CapturesTyped'
    BY <1>1, <1>4, WhatIsTyped DEF CapturesTyped, DeviceLoaded
  <2>2. /\ live' \in [Sources -> Nat] /\ used' \in [Sources -> Nat] /\ CapturesInTime(live', used', starting')
        /\ \A g \in Known : InTime(g, live', used', starting')
    BY <1>1, <1>4, WhatIsTyped DEF CapturesTyped, TracksInTime
  <2>3. UNCHANGED <<transport, pipeline, swaps, owed, live>>
    BY <1>1, <1>4
  <2> QED BY <1>2, <2>1, <2>2, <2>3, NothingMoves, InvariantOf
<1> QED BY <1>3, <1>4 DEF DeviceLoaded

LEMMA TransportCreatedStep == ASSUME PublishIInv, TransportCreated PROVE PublishIInv'
<1>1. UNCHANGED <<retained, used, starting, swaps>>
  BY DEF TransportCreated
<1>2. /\ PipelineTyped /\ CapturesTyped /\ ConnectionTyped /\ OneStage /\ OwedIsKept
      /\ OnceBySource(flight, producers) /\ TracksInTime /\ RetainedIsOlder
  BY WhatIsTyped
<1>3. ConnectionTyped'
  <2>1. asked' \in Nat /\ transport' \in BOOLEAN
    <3>1. asked \in Nat /\ asked > 0 /\ asked' = asked - 1
      BY <1>2 DEF ConnectionTyped, TransportCreated
    <3>2. transport' = TRUE \/ transport' = transport
      BY DEF TransportCreated
    <3>3. asked' \in Nat
      BY <3>1
    <3>4. transport' \in BOOLEAN
      BY <1>2, <3>2, Zenon DEF ConnectionTyped
    <3> QED BY <3>3, <3>4
  <2> QED BY <1>2, <2>1 DEF ConnectionTyped, TransportCreated
<1>4. CASE transport' = TRUE /\ Flush
  <2>1. StartProduces(buffer, {}, live) /\ buffer' = <<>>
    BY <1>4 DEF Flush
  <2>2. buffer \in Seq(EntryRows) /\ live \in [Sources -> Nat]
    BY <1>2 DEF PipelineTyped, CapturesTyped
  <2>3. Starts(buffer, live)
    BY <1>2, <2>1, <2>2, StartKeeps DEF PipelineTyped, CapturesTyped, OwedIsKept
  <2>4. buffer = <<>> \/ flight = {}
    BY <1>2 DEF OneStage, ConnectionTyped
  <2>5. Takes(buffer, live)
    BY <2>1, <2>2, <2>3, <2>4, StartTakes
  <2>6. OneStage'
    BY <1>4, <2>1 DEF OneStage
  <2>7. CapturesTyped'
    BY <1>1, <1>2, <2>5 DEF CapturesTyped, TransportCreated, Takes
  <2>8. CapturesInTime(live, used', starting') /\ \A g \in Known \cup Range(buffer) \cup swaps' : InTime(g, live, used', starting')
    BY <1>1, <1>2 DEF TracksInTime, Known
  <2>9. \A e \in Range(buffer), r \in Range(retained') : r.src = e.src => r.track <= e.track
    BY <1>1, <1>2 DEF RetainedIsOlder
  <2>10. /\ retained' \in Seq(TrackRows) /\ swaps' \in SUBSET SwapRows
         /\ used' \in [Sources -> Nat] /\ starting' \in [Sources -> {None, "toggle", "switch"}]
    BY <1>1, <1>2 DEF PipelineTyped, CapturesTyped
  <2>11. /\ PipelineTyped' /\ OnceBySource(flight', producers') /\ TracksInTime' /\ RetainedIsOlder' /\ OwedIsKept'
    BY <1>1, <2>2, <2>5, <2>8, <2>9, <2>10, TakesKeeps
  <2> QED BY <1>3, <2>6, <2>7, <2>11, InvariantOf
<1>5. CASE UNCHANGED <<transport, buffer, flight, producers, live, enabled, owed>>
  <2>1. CapturesTyped'
    BY <1>1, <1>2, <1>5 DEF CapturesTyped, TransportCreated
  <2>2. /\ live' \in [Sources -> Nat] /\ used' \in [Sources -> Nat] /\ CapturesInTime(live', used', starting')
        /\ \A g \in Known : InTime(g, live', used', starting')
    BY <1>1, <1>2, <1>5 DEF CapturesTyped, TracksInTime
  <2>3. UNCHANGED <<transport, pipeline, swaps, owed, live>>
    BY <1>1, <1>5 DEF pipeline
  <2> QED BY <1>3, <2>1, <2>2, <2>3, NothingMoves, InvariantOf
<1> QED BY <1>4, <1>5 DEF TransportCreated

LEMMA OverStep == ASSUME PublishIInv, Over PROVE PublishIInv'
<1>1. /\ PipelineTyped /\ CapturesTyped /\ ConnectionTyped /\ TracksInTime
  BY WhatIsTyped
<1>2. /\ live' \in [Sources -> Nat] /\ enabled' \in [Sources -> BOOLEAN] /\ \A s \in Sources : live'[s] \in {0, live[s]}
  BY <1>1 DEF Over, Buttons, Tracks, CapturesTyped
<1>3. ConnectionTyped'
  BY NoneInEmpty DEF ConnectionTyped, Over
<1>4. CapturesTyped'
  BY <1>1, <1>2 DEF CapturesTyped, Over
<1>5. PipelineTyped' /\ OneStage' /\ OnceBySource(flight', producers') /\ RetainedIsOlder' /\ OwedIsKept'
  BY <1>1, NoneInEmpty, LimitsAreNat DEF Over, PipelineTyped, OneStage, OnceBySource, RetainedIsOlder, OwedIsKept
<1>6. TracksInTime'
  <2>1. CapturesInTime(live, used', starting') /\ \A g \in Known : g.src \in Sources /\ InTime(g, live, used', starting')
    BY <1>1, KnownTyped DEF TracksInTime, Over
  <2>2. \A e \in Known' : \E g \in Known \cup {} : Same(e, g)
    BY NoneInEmpty DEF Known, Same, Over
  <2>3. used' \in [Sources -> Nat] /\ live \in [Sources -> Nat]
    BY <1>1 DEF CapturesTyped, Over
  <2> HIDE DEF Known
  <2> QED BY <1>2, <2>1, <2>2, <2>3, TimesStand
<1> QED BY <1>3, <1>4, <1>5, <1>6, InvariantOf

LEMMA ProducedStep == ASSUME PublishIInv, NEW f \in flight, Produced(f) PROVE PublishIInv'
<1>1. /\ PipelineTyped /\ CapturesTyped /\ ConnectionTyped /\ OneStage /\ TracksInTime
      /\ OnceBySource(flight, producers) /\ OwedIsKept
  BY WhatIsTyped
<1>2. /\ flight' = flight \ {f} /\ owed' = owed \ {f.src}
      /\ producers' = producers \cup {[src |-> f.src, track |-> f.track, paused |-> FALSE]}
      /\ enabled' = [enabled EXCEPT ![f.src] = @ \/ "screen" \in f.who]
      /\ UNCHANGED <<transport, buffer, retained, swaps, live, used, starting, stale, wanted>>
  BY DEF Produced, media, capture
<1>3. ConnectionTyped'
  BY <1>1, <1>2 DEF ConnectionTyped, Produced, media
<1>4. CapturesTyped'
  BY <1>1, <1>2 DEF CapturesTyped, Produced
<1>5. f \in EntryRows
  BY <1>1 DEF PipelineTyped
<1> DEFINE made == [src |-> f.src, track |-> f.track, paused |-> FALSE]
<1>6. made \in ProducerRows /\ Same(made, f) /\ made.src = f.src
  BY <1>5 DEF EntryRows, ProducerRows, Same
<1>7. producers' = producers \cup {made}
  BY <1>2
<1> HIDE DEF made
<1>8. /\ producers' \in SUBSET ProducerRows /\ (~transport => producers' = {})
      /\ \A p, q \in producers' : p.src = q.src => p = q
      /\ \A p \in producers' : \E q \in producers \cup flight : p.src = q.src
      /\ \A p \in producers', g \in flight' : p.src # g.src
      /\ \A p \in producers' : \E q \in producers \cup swaps \cup flight : Same(p, q)
      /\ \A p \in producers', s \in owed' : p.src # s
  <2>1. producers' \in SUBSET ProducerRows /\ (~transport => producers' = {})
    BY <1>1, <1>6, <1>7 DEF PipelineTyped, OneStage
  <2>2. \A p \in producers' : \E q \in producers \cup swaps \cup flight : Same(p, q)
    BY <1>6, <1>7 DEF Same
  <2>3. /\ \A p, q \in producers' : p.src = q.src => p = q
        /\ \A p \in producers', g \in flight' : p.src # g.src
        /\ \A p \in producers' : \E q \in producers \cup flight : p.src = q.src
    BY <1>1, <1>2, <1>6, <1>7 DEF OnceBySource
  <2>4. \A p \in producers', s \in owed' : p.src # s
    BY <1>1, <1>2, <1>6, <1>7 DEF OwedIsKept
  <2> QED BY <2>1, <2>2, <2>3, <2>4
<1>9. /\ flight' \subseteq flight /\ owed' \subseteq owed
      /\ \A s \in owed' : live'[s] = live[s] /\ \A g \in flight \ flight' : g.src # s
      /\ swaps' \in SUBSET SwapRows /\ live' \in [Sources -> Nat] /\ used' \in [Sources -> Nat]
      /\ CapturesInTime(live', used', starting')
      /\ \A g \in Known \cup swaps' : InTime(g, live', used', starting')
  BY <1>1, <1>2 DEF PipelineTyped, CapturesTyped, TracksInTime, Known
<1> QED BY <1>2, <1>3, <1>4, <1>8, <1>9, PlainKeeps, InvariantOf

LEMMA RefusedStep == ASSUME PublishIInv, NEW f \in flight, Refused(f) PROVE PublishIInv'
<1>1. /\ PipelineTyped /\ CapturesTyped /\ ConnectionTyped /\ OneStage /\ TracksInTime
      /\ OnceBySource(flight, producers) /\ OwedIsKept
  BY WhatIsTyped
<1>2. /\ flight' = flight \ {f} /\ owed' = owed \ {f.src} /\ Tracks(live, Stopped(live, {f}))
      /\ UNCHANGED <<transport, buffer, producers, retained, swaps, used, starting, stale, wanted, enabled, hidden, autoDue, muteTold>>
  BY DEF Refused, media, ui
<1>3. ConnectionTyped'
  BY <1>1, <1>2 DEF ConnectionTyped, Refused, media
<1>4. /\ live' \in [Sources -> Nat] /\ \A s \in Sources : live'[s] \in {0, live[s]}
      /\ \A s \in owed' : live'[s] = live[s]
  BY <1>1, <1>2 DEF Tracks, Stopped, CapturesTyped, PipelineTyped
<1>5. CapturesTyped'
  BY <1>1, <1>2, <1>4 DEF CapturesTyped
<1>6. CapturesInTime(live', used', starting') /\ \A g \in Known \cup swaps' : InTime(g, live', used', starting')
  <2>1. CapturesInTime(live', used, starting) /\ \A g \in Known : InTime(g, live', used, starting)
    BY <1>4, TimesOfSame
  <2>2. \A w \in swaps : w \in Known
    BY DEF Known
  <2> HIDE DEF Known
  <2> QED BY <1>2, <2>1, <2>2
<1>7. /\ producers' \in SUBSET ProducerRows /\ (~transport => producers' = {})
      /\ \A p, q \in producers' : p.src = q.src => p = q
      /\ \A p \in producers' : \E q \in producers \cup flight : p.src = q.src
      /\ \A p \in producers', g \in flight' : p.src # g.src
      /\ \A p \in producers' : \E q \in producers \cup swaps \cup flight : Same(p, q)
      /\ \A p \in producers', s \in owed' : p.src # s
  BY <1>1, <1>2 DEF PipelineTyped, OneStage, OnceBySource, OwedIsKept, Same
<1>8. /\ flight' \subseteq flight /\ owed' \subseteq owed /\ \A s \in owed' : \A g \in flight \ flight' : g.src # s
      /\ swaps' \in SUBSET SwapRows /\ used' \in [Sources -> Nat]
  BY <1>1, <1>2 DEF PipelineTyped, CapturesTyped
<1> QED BY <1>2, <1>3, <1>4, <1>5, <1>6, <1>7, <1>8, PlainKeeps, InvariantOf

\* A step that produces and leaves what is retained.
LEMMA ProduceKeeps ==
    ASSUME PublishIInv, NEW seq \in Seq(EntryRows), NEW on, NEW lv \in [Sources -> Nat],
           Produce(seq, on, lv), UNCHANGED <<transport, retained>>,
           \A e \in Range(seq) : "screen" \in e.who => lv[e.src] # live[e.src],
           used' \in [Sources -> Nat], starting' \in [Sources -> {None, "toggle", "switch"}], swaps' \in SUBSET SwapRows,
           CapturesInTime(lv, used', starting'),
           \A g \in Known \cup Range(seq) \cup swaps' : InTime(g, lv, used', starting'),
           \A e \in Range(seq), r \in Range(retained) : r.src = e.src => r.track <= e.track
    PROVE  /\ live' \in [Sources -> Nat] /\ enabled' \in [Sources -> BOOLEAN]
           /\ PipelineTyped' /\ OneStage' /\ OnceBySource(flight', producers')
           /\ TracksInTime' /\ RetainedIsOlder' /\ OwedIsKept'
<1>1. Takes(seq, lv) /\ OneStage'
  BY ProduceTakes
<1>2. live' \in [Sources -> Nat] /\ enabled' \in [Sources -> BOOLEAN]
  BY <1>1 DEF Takes
<1>3. retained' \in Seq(TrackRows) /\ retained' = retained
  BY WhatIsTyped DEF PipelineTyped
<1>4. \A e \in Range(seq), r \in Range(retained') : r.src = e.src => r.track <= e.track
  BY <1>3
<1> HIDE DEF Known
<1>5. /\ PipelineTyped' /\ OnceBySource(flight', producers') /\ TracksInTime' /\ RetainedIsOlder' /\ OwedIsKept'
  BY <1>1, <1>3, <1>4, TakesKeeps
<1> QED BY <1>1, <1>2, <1>5

\* The one entry of a toggle, of the effect or of a share.
LEMMA OneEntry ==
    ASSUME NEW s \in Sources, NEW t \in Nat, NEW who \in SUBSET Callers
    PROVE  /\ <<Entry(s, t, who)>> \in Seq(EntryRows)
           /\ Range(<<Entry(s, t, who)>>) = {Entry(s, t, who)}
           /\ Entry(s, t, who).src = s /\ Entry(s, t, who).track = t /\ Entry(s, t, who).who = who
<1>1. Entry(s, t, who) \in EntryRows
  BY DEF Entry, EntryRows
<1>2. Entry(s, t, who).src = s /\ Entry(s, t, who).track = t /\ Entry(s, t, who).who = who
  BY DEF Entry
<1>3. \A e : Range(<<e>>) = {e}
  BY DEF Range
<1>4. \A e \in EntryRows : <<e>> \in Seq(EntryRows)
  OBVIOUS
<1> QED BY <1>1, <1>2, <1>3, <1>4

\* A swap of the track that a capture holds, or is to hold, is in time.
LEMMA TrackOfNow ==
    ASSUME PublishIInv, NEW s \in Sources, NEW lv \in [Sources -> Nat], NEW us \in [Sources -> Nat],
           NEW e, e.src = s, e.track = lv[s], lv[s] # 0, CapturesInTime(lv, us, starting')
    PROVE  InTime(e, lv, us, starting')
<1>1. lv[s] \in Nat /\ us[s] \in Nat /\ lv[s] <= us[s] /\ (starting'[s] # None => lv[s] < us[s])
  BY DEF CapturesInTime
<1> QED BY <1>1 DEF InTime

LEMMA RetainedInTime ==
    ASSUME PublishIInv, NEW s \in Sources, live[s] # 0
    PROVE  \A r \in Range(retained) : r.src = s => r.track <= live[s]
<1>1. \A r \in Range(retained) : InTime(r, live, used, starting)
  BY WhatIsTyped DEF TracksInTime, Known
<1> QED BY <1>1 DEF InTime

LEMMA ToggleOnStep == ASSUME PublishIInv, NEW s \in Controls, ToggleOn(s) PROVE PublishIInv'
<1>1. /\ PipelineTyped /\ CapturesTyped /\ ConnectionTyped /\ OneStage /\ TracksInTime
      /\ OnceBySource(flight, producers) /\ OwedIsKept
  BY WhatIsTyped
<1>2. s \in Sources /\ live[s] # 0 /\ live[s] \in Nat
  BY <1>1 DEF Controls, ToggleOn, CapturesTyped
<1>3. UNCHANGED <<transport, retained, used, starting, stale, hidden, autoDue, muteTold>>
  BY DEF ToggleOn, media
<1>4. ConnectionTyped'
  BY <1>1 DEF ConnectionTyped, ToggleOn, media
<1>5. CapturesInTime(live, used', starting') /\ \A g \in Known : InTime(g, live, used', starting')
  BY <1>1, <1>3 DEF TracksInTime
<1>6. wanted' \in [Sources -> BOOLEAN]
  BY <1>1, <1>2 DEF CapturesTyped, ToggleOn
<1>7. CASE Produce(<<Entry(s, live[s], {"toggle"})>>, {s}, live) /\ UNCHANGED swaps
  <2> DEFINE e == Entry(s, live[s], {"toggle"})
             seq == <<e>>
  <2>1. seq \in Seq(EntryRows) /\ Range(seq) = {e} /\ e.src = s /\ e.track = live[s] /\ "screen" \notin e.who
    BY <1>2, OneEntry DEF Callers
  <2>2. Produce(seq, {s}, live)
    BY <1>7
  <2> HIDE DEF e, seq
  <2>3. InTime(e, live, used', starting')
    BY <1>1, <1>2, <1>3, <1>5, <2>1, TrackOfNow DEF CapturesTyped
  <2>4. \A g \in Known \cup Range(seq) \cup swaps' : InTime(g, live, used', starting')
    <3>1. \A w \in swaps' : w \in Known
      BY <1>7 DEF Known
    <3> HIDE DEF Known
    <3> QED BY <1>5, <2>1, <2>3, <3>1
  <2>5. \A f \in Range(seq), r \in Range(retained) : r.src = f.src => r.track <= f.track
    BY <1>2, <2>1, RetainedInTime
  <2>6. /\ live \in [Sources -> Nat] /\ used' \in [Sources -> Nat] /\ starting' \in [Sources -> {None, "toggle", "switch"}]
        /\ swaps' \in SUBSET SwapRows
    BY <1>1, <1>3, <1>7 DEF PipelineTyped, CapturesTyped
  <2>7. /\ live' \in [Sources -> Nat] /\ enabled' \in [Sources -> BOOLEAN]
        /\ PipelineTyped' /\ OneStage' /\ OnceBySource(flight', producers')
        /\ TracksInTime' /\ RetainedIsOlder' /\ OwedIsKept'
    BY <1>3, <1>5, <2>1, <2>2, <2>4, <2>5, <2>6, ProduceKeeps
  <2>8. CapturesTyped'
    BY <1>1, <1>3, <1>6, <2>7 DEF CapturesTyped
  <2> QED BY <1>4, <2>7, <2>8, InvariantOf
<1>8. CASE /\ swaps' = swaps \cup {[src |-> s, track |-> live[s], resume |-> TRUE]}
           /\ Buttons({s}, {})
           /\ UNCHANGED <<buffer, flight, producers, live, owed>>
  <2> DEFINE w == [src |-> s, track |-> live[s], resume |-> TRUE]
  <2>1. w \in SwapRows /\ w.src = s /\ w.track = live[s] /\ swaps' = swaps \cup {w}
    BY <1>2, <1>8 DEF SwapRows
  <2> HIDE DEF w
  <2>2. InTime(w, live, used', starting')
    BY <1>1, <1>2, <1>3, <1>5, <2>1, TrackOfNow DEF CapturesTyped
  <2>3. /\ CapturesInTime(live', used', starting')
        /\ \A g \in Known \cup swaps' : InTime(g, live', used', starting')
    <3>1. \A x \in swaps : x \in Known
      BY DEF Known
    <3> HIDE DEF Known
    <3> QED BY <1>5, <1>8, <2>1, <2>2, <3>1
  <2>4. CapturesTyped'
    BY <1>1, <1>3, <1>6, <1>8 DEF CapturesTyped, Buttons
  <2>5. /\ producers' \in SUBSET ProducerRows /\ (~transport => producers' = {})
        /\ \A p, q \in producers' : p.src = q.src => p = q
        /\ \A p \in producers' : \E q \in producers \cup flight : p.src = q.src
        /\ \A p \in producers', g \in flight' : p.src # g.src
        /\ \A p \in producers' : \E q \in producers \cup swaps \cup flight : Same(p, q)
        /\ \A p \in producers', x \in owed' : p.src # x
    BY <1>1, <1>8 DEF PipelineTyped, OneStage, OnceBySource, OwedIsKept, Same
  <2>6. /\ flight' \subseteq flight /\ owed' \subseteq owed
        /\ \A x \in owed' : live'[x] = live[x] /\ \A g \in flight \ flight' : g.src # x
        /\ swaps' \in SUBSET SwapRows /\ live' \in [Sources -> Nat] /\ used' \in [Sources -> Nat]
    BY <1>1, <1>3, <1>8, <2>1 DEF PipelineTyped, CapturesTyped
  <2> QED BY <1>3, <1>4, <1>8, <2>3, <2>4, <2>5, <2>6, PlainKeeps, InvariantOf
<1> QED BY <1>7, <1>8 DEF ToggleOn

\* A control whose capture changes: every track is in its time.
LEMMA CaptureTimes ==
    ASSUME PublishIInv, NEW s \in Controls,
           \A x \in Sources \ {s} : live'[x] = live[x] /\ used'[x] = used[x] /\ starting'[x] = starting[x],
           live' \in [Sources -> Nat], used' \in [Sources -> Nat],
           used[s] <= used'[s] /\ live'[s] \in {0, live[s]} /\ used'[s] <= MaxStarts,
           starting'[s] \in {None, starting[s]} \/ used[s] < used'[s]
    PROVE  CapturesInTime(live', used', starting') /\ \A g \in Known : InTime(g, live', used', starting')
<1>1. /\ PipelineTyped /\ live \in [Sources -> Nat] /\ used \in [Sources -> Nat] /\ TracksInTime
      /\ CapturesInTime(live, used, starting) /\ \A g \in Known : g.src \in Sources /\ g.track \in Nat /\ InTime(g, live, used, starting)
  BY WhatIsTyped, KnownTyped DEF CapturesTyped, TracksInTime
<1>2. s \in Sources /\ s # "screen" /\ MaxStarts \in Nat
  BY LimitsAreNat DEF Controls
<1>3. live[s] \in Nat /\ live'[s] \in Nat /\ used[s] \in Nat /\ used'[s] \in Nat
  BY <1>1, <1>2
<1>4. CapturesInTime(live', used', starting')
  <2>1. ASSUME NEW x \in Sources
        PROVE  live'[x] <= used'[x] /\ used'[x] <= MaxStarts /\ (starting'[x] # None => live'[x] < used'[x])
    <3>1. CASE x # s
      BY <1>1, <3>1 DEF CapturesInTime
    <3>2. CASE x = s
      <4>1. live[s] <= used[s] /\ (starting[s] # None => live[s] < used[s])
        BY <1>1, <1>2 DEF CapturesInTime
      <4>2. live'[s] <= used'[s]
        BY <1>3, <4>1
      <4>3. ASSUME starting'[s] # None PROVE live'[s] < used'[s]
        <5>1. live[s] < used'[s]
          BY <1>3, <4>1, <4>3
        <5> QED BY <1>3, <5>1
      <4> QED BY <3>2, <4>2, <4>3
    <3> QED BY <3>1, <3>2
  <2>2. "screen" \in Sources => starting'["screen"] = None
    BY <1>1, <1>2 DEF CapturesInTime
  <2> QED BY <2>1, <2>2 DEF CapturesInTime
<1>5. ASSUME NEW g \in Known PROVE InTime(g, live', used', starting')
  <2>1. g.src \in Sources /\ g.track \in Nat /\ InTime(g, live, used, starting)
    BY <1>1
  <2> HIDE DEF Known
  <2>2. CASE g.src # s
    BY <2>1, <2>2 DEF InTime
  <2>3. CASE g.src = s
    <3>1. /\ 1 <= g.track /\ g.track <= used[s] /\ (live[s] # 0 => g.track <= live[s])
          /\ (starting[s] # None => g.track < used[s])
      BY <1>3, <2>1, <2>3 DEF InTime
    <3>2. g.track \in 1 .. used'[s]
      BY <1>3, <2>1, <3>1
    <3>3. live'[s] # 0 => g.track <= live'[s]
      BY <3>1
    <3>4. starting'[s] # None => g.track < used'[s]
      BY <1>3, <2>1, <3>1
    <3> QED BY <2>3, <3>2, <3>3, <3>4 DEF InTime
  <2> QED BY <2>2, <2>3
<1> QED BY <1>4, <1>5

\* The queue, the producers and the swaps stand, and nothing of the capture's
\* is owed unless its track stands too.
LEMMA CaptureChanges ==
    ASSUME PublishIInv, NEW s \in Controls, UNCHANGED <<transport, pipeline, swaps>>,
           owed' \subseteq owed, live[s] = live'[s] \/ s \notin owed',
           \A x \in Sources \ {s} : live'[x] = live[x] /\ used'[x] = used[x] /\ starting'[x] = starting[x],
           live' \in [Sources -> Nat], used' \in [Sources -> Nat],
           used[s] <= used'[s] /\ live'[s] \in {0, live[s]} /\ used'[s] <= MaxStarts,
           starting'[s] \in {None, starting[s]} \/ used[s] < used'[s]
    PROVE  /\ PipelineTyped' /\ OneStage' /\ OnceBySource(flight', producers')
           /\ TracksInTime' /\ RetainedIsOlder' /\ OwedIsKept'
<1>1. CapturesInTime(live', used', starting') /\ \A g \in Known : InTime(g, live', used', starting')
  BY CaptureTimes
<1>2. \A x \in owed' : live'[x] = live[x]
  BY WhatIsTyped DEF PipelineTyped
<1> HIDE DEF Known
<1> QED BY <1>1, <1>2, NothingMoves

LEMMA StaleReturnsStep == ASSUME PublishIInv, NEW s \in Controls, StaleReturns(s) PROVE PublishIInv'
<1>1. ConnectionTyped /\ CapturesTyped /\ PipelineTyped /\ TracksInTime /\ s \in Sources
  BY WhatIsTyped DEF Controls
<1>2. UNCHANGED <<transport, pipeline, swaps, owed, live, used, starting, wanted, hidden, autoDue, muteTold>>
  BY DEF StaleReturns, media
<1>3. ConnectionTyped'
  BY <1>1, <1>2 DEF ConnectionTyped, StaleReturns, media
<1>4. stale' \in [Sources -> Nat]
  <2>1. stale[s] \in Nat /\ stale[s] > 0 /\ stale' = [stale EXCEPT ![s] = stale[s] - 1] /\ stale \in [Sources -> Nat]
    BY <1>1 DEF CapturesTyped, StaleReturns
  <2> QED BY <1>1, <2>1
<1>5. enabled' \in [Sources -> BOOLEAN]
  BY DEF StaleReturns, Buttons
<1>6. CapturesTyped'
  BY <1>1, <1>2, <1>4, <1>5 DEF CapturesTyped
<1>7. /\ live' \in [Sources -> Nat] /\ used' \in [Sources -> Nat] /\ CapturesInTime(live', used', starting')
      /\ \A g \in Known : InTime(g, live', used', starting')
  BY <1>1, <1>2 DEF CapturesTyped, TracksInTime
<1>8. UNCHANGED <<transport, pipeline, swaps>> /\ owed' \subseteq owed /\ \A x \in owed' : live'[x] = live[x]
  BY <1>2
<1> HIDE DEF Known
<1> QED BY <1>3, <1>6, <1>7, <1>8, NothingMoves, InvariantOf

LEMMA SupersedeTyped ==
    ASSUME CapturesTyped, NEW s \in Sources, NEW by \in {None, "toggle", "switch"}, Supersede(s, by)
    PROVE  /\ starting' \in [Sources -> {None, "toggle", "switch"}] /\ stale' \in [Sources -> Nat]
           /\ starting'[s] = by /\ \A x \in Sources \ {s} : starting'[x] = starting[x]
<1>1. /\ starting \in [Sources -> {None, "toggle", "switch"}] /\ stale \in [Sources -> Nat]
      /\ starting' = [starting EXCEPT ![s] = by] /\ stale[s] \in Nat /\ stale[s] + 1 \in Nat
      /\ stale' = [stale EXCEPT ![s] = IF starting[s] = "toggle" THEN stale[s] + 1 ELSE stale[s]]
  BY DEF CapturesTyped, Supersede
<1>2. stale' \in [Sources -> Nat]
  BY <1>1
<1> QED BY <1>1, <1>2

LEMMA UsedTyped ==
    ASSUME CapturesTyped, NEW s \in Sources, used[s] < MaxStarts, used' = [used EXCEPT ![s] = @ + 1]
    PROVE  /\ used' \in [Sources -> Nat] /\ used'[s] = used[s] + 1 /\ used[s] < used'[s] /\ used[s] <= used'[s]
           /\ used'[s] <= MaxStarts /\ \A x \in Sources \ {s} : used'[x] = used[x]
<1>1. used \in [Sources -> Nat] /\ used[s] \in Nat /\ used[s] + 1 \in Nat
  BY DEF CapturesTyped
<1> QED BY <1>1, LimitsAreNat

LEMMA UsedStands ==
    ASSUME PublishIInv, NEW s \in Sources, UNCHANGED used
    PROVE  used' \in [Sources -> Nat] /\ used[s] <= used'[s] /\ used'[s] <= MaxStarts /\ \A x \in Sources \ {s} : used'[x] = used[x]
<1>1. used \in [Sources -> Nat] /\ used[s] \in Nat /\ used[s] <= MaxStarts
  BY WhatIsTyped DEF CapturesTyped, TracksInTime, CapturesInTime
<1> QED BY <1>1

LEMMA StaleRestartsStep == ASSUME PublishIInv, NEW s \in Controls, StaleRestarts(s) PROVE PublishIInv'
<1>1. ConnectionTyped /\ CapturesTyped /\ s \in Sources
  BY WhatIsTyped DEF Controls
<1>2. UNCHANGED <<transport, pipeline, swaps, owed, live, wanted, hidden, autoDue, muteTold>>
  BY DEF StaleRestarts, media
<1>3. ConnectionTyped'
  BY <1>1, <1>2 DEF ConnectionTyped, StaleRestarts, media
<1>4. stale' \in [Sources -> Nat]
  <2>1. /\ stale[s] \in Nat /\ stale[s] > 0 /\ stale[s] - 1 \in Nat /\ stale \in [Sources -> Nat]
        /\ stale' = [stale EXCEPT ![s] = IF starting[s] = "toggle" THEN stale[s] ELSE stale[s] - 1]
    BY <1>1 DEF CapturesTyped, StaleRestarts
  <2> QED BY <2>1
<1>5. /\ enabled' \in [Sources -> BOOLEAN] /\ starting' \in [Sources -> {None, "toggle", "switch"}]
      /\ \A x \in Sources \ {s} : starting'[x] = starting[x]
  BY <1>1 DEF StaleRestarts, CapturesTyped
<1>6. /\ used' \in [Sources -> Nat] /\ used[s] < used'[s] /\ used[s] <= used'[s] /\ used'[s] <= MaxStarts
      /\ \A x \in Sources \ {s} : used'[x] = used[x]
  BY <1>1, UsedTyped DEF StaleRestarts
<1>7. CapturesTyped'
  BY <1>1, <1>2, <1>4, <1>5, <1>6 DEF CapturesTyped
<1>8. UNCHANGED <<transport, pipeline, swaps>> /\ owed' \subseteq owed /\ live' \in [Sources -> Nat] /\ live' = live
  BY <1>1, <1>2 DEF CapturesTyped
<1>9. /\ PipelineTyped' /\ OneStage' /\ OnceBySource(flight', producers')
      /\ TracksInTime' /\ RetainedIsOlder' /\ OwedIsKept'
  BY <1>5, <1>6, <1>8, CaptureChanges
<1> QED BY <1>3, <1>7, <1>9, InvariantOf

LEMMA ToggleStartsStep == ASSUME PublishIInv, NEW s \in Controls, ToggleStarts(s) PROVE PublishIInv'
<1>1. ConnectionTyped /\ CapturesTyped /\ s \in Sources
  BY WhatIsTyped DEF Controls
<1>2. UNCHANGED <<transport, pipeline, swaps, owed, live, enabled, hidden, autoDue, muteTold>>
  BY DEF ToggleStarts, media, ui
<1>3. ConnectionTyped'
  BY <1>1, <1>2 DEF ConnectionTyped, ToggleStarts, media
<1>4. /\ starting' \in [Sources -> {None, "toggle", "switch"}] /\ stale' \in [Sources -> Nat]
      /\ \A x \in Sources \ {s} : starting'[x] = starting[x]
  BY <1>1, SupersedeTyped DEF ToggleStarts, Start
<1>5. /\ used' \in [Sources -> Nat] /\ used[s] < used'[s] /\ used[s] <= used'[s] /\ used'[s] <= MaxStarts
      /\ \A x \in Sources \ {s} : used'[x] = used[x]
  BY <1>1, UsedTyped DEF ToggleStarts, Start
<1>6. wanted' \in [Sources -> BOOLEAN]
  BY <1>1 DEF CapturesTyped, ToggleStarts
<1>7. CapturesTyped'
  BY <1>1, <1>2, <1>4, <1>5, <1>6 DEF CapturesTyped
<1>8. UNCHANGED <<transport, pipeline, swaps>> /\ owed' \subseteq owed /\ live' \in [Sources -> Nat] /\ live' = live
  BY <1>1, <1>2 DEF CapturesTyped
<1>9. /\ PipelineTyped' /\ OneStage' /\ OnceBySource(flight', producers')
      /\ TracksInTime' /\ RetainedIsOlder' /\ OwedIsKept'
  BY <1>4, <1>5, <1>8, CaptureChanges
<1> QED BY <1>3, <1>7, <1>9, InvariantOf

LEMMA StopCaptureStep == ASSUME PublishIInv, NEW s \in Controls, StopCapture(s) PROVE PublishIInv'
<1>1. ConnectionTyped /\ CapturesTyped /\ s \in Sources
  BY WhatIsTyped DEF Controls
<1>2. UNCHANGED <<transport, pipeline, swaps, used, hidden, autoDue, muteTold>>
  BY DEF StopCapture, media
<1>3. ConnectionTyped'
  BY <1>1, <1>2 DEF ConnectionTyped, StopCapture, media
<1>4. /\ starting' \in [Sources -> {None, "toggle", "switch"}] /\ stale' \in [Sources -> Nat]
      /\ starting'[s] \in {None, starting[s]} /\ \A x \in Sources \ {s} : starting'[x] = starting[x]
  BY <1>1, SupersedeTyped DEF StopCapture
<1>5. /\ live' \in [Sources -> Nat] /\ wanted' \in [Sources -> BOOLEAN] /\ enabled' \in [Sources -> BOOLEAN]
      /\ live'[s] = 0 /\ \A x \in Sources \ {s} : live'[x] = live[x]
  BY <1>1 DEF CapturesTyped, StopCapture, Buttons
<1>6. CapturesTyped'
  BY <1>1, <1>2, <1>4, <1>5 DEF CapturesTyped
<1>7. owed' \subseteq owed /\ s \notin owed'
  BY DEF StopCapture
<1>8. UNCHANGED <<transport, pipeline, swaps>> /\ UNCHANGED used
  BY <1>2
<1>9. /\ used' \in [Sources -> Nat] /\ used[s] <= used'[s] /\ used'[s] <= MaxStarts /\ \A x \in Sources \ {s} : used'[x] = used[x]
  BY <1>1, <1>8, UsedStands
<1>10. /\ PipelineTyped' /\ OneStage' /\ OnceBySource(flight', producers')
       /\ TracksInTime' /\ RetainedIsOlder' /\ OwedIsKept'
  BY <1>4, <1>5, <1>7, <1>8, <1>9, CaptureChanges
<1> QED BY <1>3, <1>6, <1>10, InvariantOf

LEMMA SwitchDeviceStep == ASSUME PublishIInv, NEW s \in Controls, SwitchDevice(s) PROVE PublishIInv'
<1>1. ConnectionTyped /\ CapturesTyped /\ s \in Sources
  BY WhatIsTyped DEF Controls
<1>2. UNCHANGED <<transport, pipeline, swaps, wanted, hidden, autoDue, muteTold>>
  BY DEF SwitchDevice, media
<1>3. ConnectionTyped'
  BY <1>1, <1>2 DEF ConnectionTyped, SwitchDevice, media
<1>4. /\ starting' \in [Sources -> {None, "toggle", "switch"}] /\ stale' \in [Sources -> Nat]
      /\ \A x \in Sources \ {s} : starting'[x] = starting[x]
  BY <1>1, SupersedeTyped DEF SwitchDevice, Start
<1>5. /\ live' \in [Sources -> Nat] /\ enabled' \in [Sources -> BOOLEAN]
      /\ live'[s] = 0 /\ \A x \in Sources \ {s} : live'[x] = live[x]
  BY <1>1 DEF CapturesTyped, SwitchDevice, Buttons
<1>6. /\ used' \in [Sources -> Nat] /\ used[s] < used'[s] /\ used[s] <= used'[s] /\ used'[s] <= MaxStarts
      /\ \A x \in Sources \ {s} : used'[x] = used[x]
  BY <1>1, UsedTyped DEF SwitchDevice, Start
<1>7. CapturesTyped'
  BY <1>1, <1>2, <1>4, <1>5, <1>6 DEF CapturesTyped
<1>8. UNCHANGED <<transport, pipeline, swaps>> /\ owed' \subseteq owed /\ s \notin owed'
  BY <1>2 DEF SwitchDevice
<1>9. /\ PipelineTyped' /\ OneStage' /\ OnceBySource(flight', producers')
      /\ TracksInTime' /\ RetainedIsOlder' /\ OwedIsKept'
  BY <1>4, <1>5, <1>6, <1>8, CaptureChanges
<1> QED BY <1>3, <1>7, <1>9, InvariantOf

LEMMA CaptureFailsStep == ASSUME PublishIInv, NEW s \in Controls, CaptureFails(s) PROVE PublishIInv'
<1>1. ConnectionTyped /\ CapturesTyped /\ s \in Sources
  BY WhatIsTyped DEF Controls
<1>2. UNCHANGED <<transport, pipeline, swaps, owed, live, used, stale, wanted, hidden, autoDue, muteTold>>
  BY DEF CaptureFails, media
<1>3. ConnectionTyped'
  BY <1>1, <1>2 DEF ConnectionTyped, CaptureFails, media
<1>4. /\ starting' \in [Sources -> {None, "toggle", "switch"}] /\ enabled' \in [Sources -> BOOLEAN]
      /\ starting'[s] \in {None, starting[s]} /\ \A x \in Sources \ {s} : starting'[x] = starting[x]
  BY <1>1 DEF CaptureFails, Buttons, CapturesTyped
<1>5. CapturesTyped'
  BY <1>1, <1>2, <1>4 DEF CapturesTyped
<1>6. UNCHANGED <<transport, pipeline, swaps>> /\ owed' \subseteq owed /\ UNCHANGED used /\ live' \in [Sources -> Nat] /\ live' = live
  BY <1>1, <1>2 DEF CapturesTyped
<1>7. /\ used' \in [Sources -> Nat] /\ used[s] <= used'[s] /\ used'[s] <= MaxStarts /\ \A x \in Sources \ {s} : used'[x] = used[x]
  BY <1>1, <1>6, UsedStands
<1>8. /\ PipelineTyped' /\ OneStage' /\ OnceBySource(flight', producers')
      /\ TracksInTime' /\ RetainedIsOlder' /\ OwedIsKept'
  BY <1>4, <1>6, <1>7, CaptureChanges
<1> QED BY <1>3, <1>5, <1>8, InvariantOf

\* Producers that are paused, resumed, closed or given a track are no others.
LEMMA ProducersMapped ==
    ASSUME PublishIInv, NEW m \in [producers -> ProducerRows], producers' \subseteq {m[p] : p \in producers},
           \A p \in producers : m[p].src = p.src /\ \E q \in producers \cup swaps : Same(m[p], q),
           flight' = flight, owed' \subseteq owed
    PROVE  /\ producers' \in SUBSET ProducerRows /\ (~transport => producers' = {})
           /\ \A p, q \in producers' : p.src = q.src => p = q
           /\ \A p \in producers' : \E q \in producers \cup flight : p.src = q.src
           /\ \A p \in producers', g \in flight' : p.src # g.src
           /\ \A p \in producers' : \E q \in producers \cup swaps \cup flight : Same(p, q)
           /\ \A p \in producers', x \in owed' : p.src # x
           /\ flight' \subseteq flight /\ \A x \in owed' : \A g \in flight \ flight' : g.src # x
<1>1. OneStage /\ OnceBySource(flight, producers) /\ OwedIsKept
  BY WhatIsTyped
<1>2. \A p \in producers' : \E q \in producers : p = m[q] /\ p.src = q.src
  OBVIOUS
<1>3. producers' \in SUBSET ProducerRows /\ (~transport => producers' = {})
  BY <1>1 DEF OneStage
<1>4. \A p, q \in producers' : p.src = q.src => p = q
  BY <1>1, <1>2 DEF OnceBySource
<1>5. \A p \in producers', g \in flight' : p.src # g.src
  BY <1>1, <1>2 DEF OnceBySource
<1>6. \A p \in producers', x \in owed' : p.src # x
  BY <1>1, <1>2 DEF OwedIsKept
<1>7. \A p \in producers' : \E q \in producers \cup swaps \cup flight : Same(p, q)
  BY <1>2
<1> QED BY <1>2, <1>3, <1>4, <1>5, <1>6, <1>7

LEMMA PausedRow ==
    ASSUME NEW p \in ProducerRows, NEW b \in BOOLEAN
    PROVE  Paused(p, b) \in ProducerRows /\ Paused(p, b).src = p.src /\ Same(Paused(p, b), p)
BY DEF Paused, ProducerRows, Same

\* The steps that pause or resume producers and touch no capture.
LEMMA PausesKeep ==
    ASSUME PublishIInv, NEW m \in [producers -> ProducerRows], producers' \subseteq {m[p] : p \in producers},
           \A p \in producers : m[p].src = p.src /\ \E q \in producers \cup swaps : Same(m[p], q),
           UNCHANGED <<transport, buffer, retained, flight, owed, live, used, starting>>, swaps' \subseteq swaps
    PROVE  /\ PipelineTyped' /\ OneStage' /\ OnceBySource(flight', producers')
           /\ TracksInTime' /\ RetainedIsOlder' /\ OwedIsKept'
<1>1. /\ producers' \in SUBSET ProducerRows /\ (~transport => producers' = {})
      /\ \A p, q \in producers' : p.src = q.src => p = q
      /\ \A p \in producers' : \E q \in producers \cup flight : p.src = q.src
      /\ \A p \in producers', g \in flight' : p.src # g.src
      /\ \A p \in producers' : \E q \in producers \cup swaps \cup flight : Same(p, q)
      /\ \A p \in producers', x \in owed' : p.src # x
      /\ flight' \subseteq flight /\ \A x \in owed' : \A g \in flight \ flight' : g.src # x
  <2>1. flight' = flight /\ owed' \subseteq owed
    OBVIOUS
  <2> QED BY <2>1, ProducersMapped
<1>2. /\ live' \in [Sources -> Nat] /\ used' \in [Sources -> Nat] /\ swaps' \in SUBSET SwapRows
      /\ CapturesInTime(live', used', starting') /\ \A g \in Known : InTime(g, live', used', starting')
  BY WhatIsTyped DEF CapturesTyped, TracksInTime, PipelineTyped
<1>3. \A w \in swaps' : w \in Known
  BY DEF Known
<1> HIDE DEF Known
<1>4. \A g \in Known \cup swaps' : InTime(g, live', used', starting')
  BY <1>2, <1>3
<1>5. owed' \subseteq owed /\ \A x \in owed' : live'[x] = live[x] /\ \A g \in flight \ flight' : g.src # x
  BY <1>1
<1> QED BY <1>1, <1>2, <1>4, <1>5, PlainKeeps

LEMMA ToggleOffStep == ASSUME PublishIInv, NEW s \in Controls, ToggleOff(s) PROVE PublishIInv'
<1>1. ConnectionTyped /\ CapturesTyped /\ PipelineTyped /\ s \in Sources
  BY WhatIsTyped DEF Controls
<1>2. UNCHANGED <<transport, buffer, flight, retained, used, swaps, hidden, autoDue, muteTold>>
  BY DEF ToggleOff, media
<1>3. ConnectionTyped'
  BY <1>1, <1>2 DEF ConnectionTyped, ToggleOff, media
<1>4. /\ starting' \in [Sources -> {None, "toggle", "switch"}] /\ stale' \in [Sources -> Nat]
      /\ starting'[s] \in {None, starting[s]} /\ \A x \in Sources \ {s} : starting'[x] = starting[x]
  BY <1>1, SupersedeTyped DEF ToggleOff
<1>5. /\ live' \in [Sources -> Nat] /\ wanted' \in [Sources -> BOOLEAN] /\ enabled' \in [Sources -> BOOLEAN]
      /\ live'[s] = 0 /\ \A x \in Sources \ {s} : live'[x] = live[x]
  BY <1>1 DEF CapturesTyped, ToggleOff, Buttons
<1>6. CapturesTyped'
  BY <1>1, <1>2, <1>4, <1>5 DEF CapturesTyped
<1>7. owed' \subseteq owed /\ \A x \in owed' : live'[x] = live[x]
  <2>1. owed' = owed \ {s} /\ owed \subseteq Sources
    BY <1>1 DEF ToggleOff, PipelineTyped
  <2> QED BY <1>5, <2>1
<1>8. /\ used' \in [Sources -> Nat] /\ used[s] <= used'[s] /\ used'[s] <= MaxStarts /\ \A x \in Sources \ {s} : used'[x] = used[x]
  BY <1>1, <1>2, UsedStands
<1>9. CapturesInTime(live', used', starting') /\ \A g \in Known : InTime(g, live', used', starting')
  BY <1>4, <1>5, <1>8, CaptureTimes
<1> DEFINE m == [p \in producers |-> IF p.src = s THEN Paused(p, TRUE) ELSE p]
<1>10. /\ m \in [producers -> ProducerRows] /\ producers' = {m[p] : p \in producers}
       /\ \A p \in producers : m[p].src = p.src /\ Same(m[p], p)
  <2>1. producers \subseteq ProducerRows
    BY <1>1 DEF PipelineTyped
  <2>2. \A p \in producers : m[p] \in ProducerRows /\ m[p].src = p.src /\ Same(m[p], p)
    BY <2>1, PausedRow DEF Same
  <2>3. producers' = {m[p] : p \in producers}
    BY DEF ToggleOff
  <2> QED BY <2>2, <2>3
<1> HIDE DEF m
<1>11. /\ producers' \in SUBSET ProducerRows /\ (~transport => producers' = {})
       /\ \A p, q \in producers' : p.src = q.src => p = q
       /\ \A p \in producers' : \E q \in producers \cup flight : p.src = q.src
       /\ \A p \in producers', g \in flight' : p.src # g.src
       /\ \A p \in producers' : \E q \in producers \cup swaps \cup flight : Same(p, q)
       /\ \A p \in producers', x \in owed' : p.src # x
       /\ flight' \subseteq flight /\ \A x \in owed' : \A g \in flight \ flight' : g.src # x
  <2>1. producers' \subseteq {m[p] : p \in producers} /\ flight' = flight
    BY <1>2, <1>10
  <2>2. \A p \in producers : m[p].src = p.src /\ \E q \in producers \cup swaps : Same(m[p], q)
    BY <1>10
  <2> QED BY <1>7, <1>10, <2>1, <2>2, ProducersMapped
<1>12. /\ swaps' \in SUBSET SwapRows /\ \A w \in swaps' : w \in Known
       /\ UNCHANGED <<transport, buffer, retained>>
  BY <1>1, <1>2 DEF PipelineTyped, Known
<1> HIDE DEF Known
<1>13. \A g \in Known \cup swaps' : InTime(g, live', used', starting')
  BY <1>9, <1>12
<1>14. /\ PipelineTyped' /\ OneStage' /\ OnceBySource(flight', producers')
       /\ TracksInTime' /\ RetainedIsOlder' /\ OwedIsKept'
  BY <1>5, <1>7, <1>8, <1>9, <1>11, <1>12, <1>13, PlainKeeps
<1> QED BY <1>3, <1>6, <1>14, InvariantOf

LEMMA SwappedStep == ASSUME PublishIInv, NEW w \in swaps, Swapped(w) PROVE PublishIInv'
<1>1. ConnectionTyped /\ CapturesTyped /\ PipelineTyped
  BY WhatIsTyped
<1>2. UNCHANGED <<transport, buffer, flight, retained, owed, live, used, starting, stale, wanted, hidden, autoDue, muteTold>>
  BY DEF Swapped, media, capture
<1>3. ConnectionTyped'
  BY <1>1, <1>2 DEF ConnectionTyped, Swapped, media
<1>4. enabled' \in [Sources -> BOOLEAN]
  BY <1>1 DEF CapturesTyped, Swapped
<1>5. CapturesTyped'
  BY <1>1, <1>2, <1>4 DEF CapturesTyped
<1> DEFINE taken(p) == [p EXCEPT !.track = w.track, !.paused = @ /\ ~w.resume]
           swapped == IsLive(w) /\ Existing(w.src) # {}
           m == [p \in producers |-> IF ~swapped THEN p ELSE IF p.src # w.src THEN p ELSE taken(p)]
<1>6. w \in SwapRows
  BY <1>1 DEF PipelineTyped
<1>7. \A p \in producers : /\ p \in ProducerRows /\ taken(p) \in ProducerRows /\ taken(p).src = p.src
                          /\ taken(p).track = w.track
  BY <1>1, <1>6 DEF PipelineTyped, ProducerRows, SwapRows
<1>8. producers' = {m[p] : p \in producers}
  BY DEF Swapped
<1> HIDE DEF taken, swapped
<1>9. /\ m \in [producers -> ProducerRows]
      /\ \A p \in producers : m[p].src = p.src /\ \E q \in producers \cup swaps : Same(m[p], q)
  <2>1. ASSUME NEW p \in producers
        PROVE  m[p] \in ProducerRows /\ m[p].src = p.src /\ \E q \in producers \cup swaps : Same(m[p], q)
    BY <1>7 DEF Same
  <2> QED BY <2>1
<1>10. swaps' \subseteq swaps /\ producers' \subseteq {m[p] : p \in producers}
  BY <1>8 DEF Swapped
<1>11. UNCHANGED <<transport, buffer, retained, flight, owed, live, used, starting>>
  BY <1>2
<1> HIDE DEF m
<1>12. /\ PipelineTyped' /\ OneStage' /\ OnceBySource(flight', producers')
       /\ TracksInTime' /\ RetainedIsOlder' /\ OwedIsKept'
  BY <1>9, <1>10, <1>11, PausesKeep
<1> QED BY <1>3, <1>5, <1>12, InvariantOf

LEMMA VisibilityStep == ASSUME PublishIInv, Visibility PROVE PublishIInv'
<1>1. ConnectionTyped /\ CapturesTyped /\ PipelineTyped
  BY WhatIsTyped
<1>2. UNCHANGED <<transport, buffer, flight, retained, owed, live, used, starting, stale, wanted, swaps, enabled, autoDue, muteTold>>
  BY DEF Visibility, media, capture
<1>3. ConnectionTyped'
  BY <1>1, <1>2 DEF ConnectionTyped, Visibility, media
<1>4. hidden' \in BOOLEAN
  BY <1>1 DEF CapturesTyped, Visibility
<1>5. CapturesTyped'
  BY <1>1, <1>2, <1>4 DEF CapturesTyped
<1> DEFINE m == [p \in producers |-> IF p.src = "camera" /\ (hidden' \/ enabled["camera"]) THEN Paused(p, hidden') ELSE p]
<1>6. producers' = {m[p] : p \in producers}
  BY DEF Visibility
<1>7. /\ m \in [producers -> ProducerRows]
      /\ \A p \in producers : m[p].src = p.src /\ \E q \in producers \cup swaps : Same(m[p], q)
  <2>1. producers \subseteq ProducerRows
    BY <1>1 DEF PipelineTyped
  <2>2. \A p \in producers : m[p] \in ProducerRows /\ m[p].src = p.src /\ Same(m[p], p)
    BY <1>4, <2>1, PausedRow DEF Same
  <2> QED BY <2>2
<1>8. swaps' \subseteq swaps /\ producers' \subseteq {m[p] : p \in producers}
  BY <1>2, <1>6
<1>9. UNCHANGED <<transport, buffer, retained, flight, owed, live, used, starting>>
  BY <1>2
<1> HIDE DEF m
<1>10. /\ PipelineTyped' /\ OneStage' /\ OnceBySource(flight', producers')
       /\ TracksInTime' /\ RetainedIsOlder' /\ OwedIsKept'
  BY <1>7, <1>8, <1>9, PausesKeep
<1> QED BY <1>3, <1>5, <1>10, InvariantOf

LEMMA HostMutesStep == ASSUME PublishIInv, HostMutes PROVE PublishIInv'
<1>1. ConnectionTyped /\ CapturesTyped /\ PipelineTyped
  BY WhatIsTyped
<1>2. UNCHANGED <<transport, buffer, flight, retained, owed, live, used, starting, stale, wanted, swaps, hidden, autoDue>>
  BY DEF HostMutes, media, capture
<1>3. ConnectionTyped'
  BY <1>1, <1>2 DEF ConnectionTyped, HostMutes, media
<1>4. muteTold' \in BOOLEAN /\ enabled' \in [Sources -> BOOLEAN]
  BY <1>1 DEF CapturesTyped, HostMutes
<1>5. CapturesTyped'
  BY <1>1, <1>2, <1>4 DEF CapturesTyped
<1> DEFINE m == [p \in producers |-> Paused(p, TRUE)]
<1>6. producers' = {m[p] : p \in producers}
  BY DEF HostMutes
<1>7. /\ m \in [producers -> ProducerRows]
      /\ \A p \in producers : m[p].src = p.src /\ \E q \in producers \cup swaps : Same(m[p], q)
  <2>1. producers \subseteq ProducerRows
    BY <1>1 DEF PipelineTyped
  <2>2. \A p \in producers : m[p] \in ProducerRows /\ m[p].src = p.src /\ Same(m[p], p)
    BY <2>1, PausedRow
  <2> QED BY <2>2
<1>8. swaps' \subseteq swaps /\ producers' \subseteq {m[p] : p \in producers}
  BY <1>2, <1>6
<1>9. UNCHANGED <<transport, buffer, retained, flight, owed, live, used, starting>>
  BY <1>2
<1> HIDE DEF m
<1>10. /\ PipelineTyped' /\ OneStage' /\ OnceBySource(flight', producers')
       /\ TracksInTime' /\ RetainedIsOlder' /\ OwedIsKept'
  BY <1>7, <1>8, <1>9, PausesKeep
<1> QED BY <1>3, <1>5, <1>10, InvariantOf

LEMMA StopSharingStep == ASSUME PublishIInv, StopSharing PROVE PublishIInv'
<1>1. ConnectionTyped /\ CapturesTyped /\ PipelineTyped
  BY WhatIsTyped
<1>2. UNCHANGED <<transport, buffer, flight, retained, used, starting, stale, wanted, swaps, hidden, autoDue, muteTold>>
  BY DEF StopSharing, media
<1>3. ConnectionTyped'
  BY <1>1, <1>2 DEF ConnectionTyped, StopSharing, media
<1>4. /\ live' \in [Sources -> Nat] /\ enabled' \in [Sources -> BOOLEAN]
      /\ \A s \in Sources : live'[s] \in {0, live[s]} /\ (s # "screen" => live'[s] = live[s])
  BY <1>1 DEF CapturesTyped, StopSharing, Tracks, Buttons
<1>5. CapturesTyped'
  BY <1>1, <1>2, <1>4 DEF CapturesTyped
<1>6. owed' \subseteq owed /\ \A s \in owed' : live'[s] = live[s]
  <2>1. owed' = owed \ {"screen"} /\ owed \subseteq Sources
    BY <1>1 DEF StopSharing, PipelineTyped
  <2> QED BY <1>4, <2>1
<1> DEFINE m == [p \in producers |-> p]
<1>7. /\ m \in [producers -> ProducerRows] /\ producers' \subseteq {m[p] : p \in producers}
      /\ \A p \in producers : m[p].src = p.src /\ \E q \in producers \cup swaps : Same(m[p], q)
  BY <1>1 DEF PipelineTyped, Same, StopSharing, WithoutScreen
<1> HIDE DEF m
<1>8. /\ producers' \in SUBSET ProducerRows /\ (~transport => producers' = {})
      /\ \A p, q \in producers' : p.src = q.src => p = q
      /\ \A p \in producers' : \E q \in producers \cup flight : p.src = q.src
      /\ \A p \in producers', g \in flight' : p.src # g.src
      /\ \A p \in producers' : \E q \in producers \cup swaps \cup flight : Same(p, q)
      /\ \A p \in producers', x \in owed' : p.src # x
      /\ flight' \subseteq flight /\ \A x \in owed' : \A g \in flight \ flight' : g.src # x
  <2>1. flight' = flight
    BY <1>2
  <2> QED BY <1>6, <1>7, <2>1, ProducersMapped
<1>9. CapturesInTime(live', used, starting) /\ \A g \in Known : InTime(g, live', used, starting)
  BY <1>4, TimesOfSame
<1>10. /\ swaps' \in SUBSET SwapRows /\ \A w \in swaps' : w \in Known
       /\ used' \in [Sources -> Nat] /\ UNCHANGED <<transport, buffer, retained, used, starting>>
  BY <1>1, <1>2 DEF PipelineTyped, CapturesTyped, Known
<1> HIDE DEF Known
<1>11. CapturesInTime(live', used', starting') /\ \A g \in Known \cup swaps' : InTime(g, live', used', starting')
  BY <1>9, <1>10
<1>12. /\ PipelineTyped' /\ OneStage' /\ OnceBySource(flight', producers')
       /\ TracksInTime' /\ RetainedIsOlder' /\ OwedIsKept'
  BY <1>4, <1>6, <1>8, <1>10, <1>11, PlainKeeps
<1> QED BY <1>3, <1>5, <1>12, InvariantOf

\* A capture comes to hold the track of its last start.
LEMMA NewTrack ==
    ASSUME PublishIInv, NEW s \in Sources, NEW lv \in [Sources -> Nat], used' \in [Sources -> Nat],
           lv[s] = used'[s], used[s] <= used'[s], used'[s] <= MaxStarts, starting'[s] = None,
           \A x \in Sources \ {s} : lv[x] = live[x] /\ used'[x] = used[x] /\ starting'[x] = starting[x]
    PROVE  CapturesInTime(lv, used', starting') /\ \A g \in Known : InTime(g, lv, used', starting')
<1>1. /\ PipelineTyped /\ live \in [Sources -> Nat] /\ used \in [Sources -> Nat]
      /\ CapturesInTime(live, used, starting) /\ \A g \in Known : g.src \in Sources /\ g.track \in Nat /\ InTime(g, live, used, starting)
  BY WhatIsTyped, KnownTyped DEF CapturesTyped, TracksInTime
<1>2. lv[s] \in Nat /\ used[s] \in Nat /\ used'[s] \in Nat /\ MaxStarts \in Nat
  BY <1>1, LimitsAreNat
<1>3. CapturesInTime(lv, used', starting')
  <2>1. ASSUME NEW x \in Sources
        PROVE  lv[x] <= used'[x] /\ used'[x] <= MaxStarts /\ (starting'[x] # None => lv[x] < used'[x])
    <3>1. CASE x # s
      BY <1>1, <3>1 DEF CapturesInTime
    <3>2. CASE x = s
      BY <1>2, <3>2
    <3> QED BY <3>1, <3>2
  <2>2. "screen" \in Sources => starting'["screen"] = None
    BY <1>1 DEF CapturesInTime
  <2> QED BY <2>1, <2>2 DEF CapturesInTime
<1>4. ASSUME NEW g \in Known PROVE InTime(g, lv, used', starting')
  <2>1. g.src \in Sources /\ g.track \in Nat /\ InTime(g, live, used, starting)
    BY <1>1
  <2> HIDE DEF Known
  <2>2. CASE g.src # s
    BY <2>1, <2>2 DEF InTime
  <2>3. CASE g.src = s
    <3>1. 1 <= g.track /\ g.track <= used[s]
      BY <1>2, <2>1, <2>3 DEF InTime
    <3>2. g.track \in 1 .. used'[s] /\ g.track <= used'[s]
      BY <1>2, <2>1, <3>1
    <3> QED BY <2>3, <3>2 DEF InTime
  <2> QED BY <2>2, <2>3
<1> QED BY <1>3, <1>4

LEMMA CaptureActiveStep == ASSUME PublishIInv, NEW s \in Controls, CaptureActive(s) PROVE PublishIInv'
<1> DEFINE t == used[s]
           lv == [live EXCEPT ![s] = t]
           e == Entry(s, t, {"toggle"})
           unmade == starting[s] = "toggle" /\ Existing(s) = {}
           seq == IF unmade THEN <<e>> ELSE <<>>
           w == [src |-> s, track |-> t, resume |-> starting[s] = "toggle"]
<1>1. /\ ConnectionTyped /\ CapturesTyped /\ PipelineTyped /\ TracksInTime /\ s \in Sources
      /\ live \in [Sources -> Nat] /\ used \in [Sources -> Nat]
  BY WhatIsTyped DEF Controls, CapturesTyped
<1>2. /\ UNCHANGED <<transport, retained, used, stale, wanted, hidden, autoDue, muteTold>>
      /\ starting[s] # None /\ starting' = [starting EXCEPT ![s] = None]
      /\ swaps' \subseteq swaps \cup {w} /\ Produce(seq, {s}, lv)
  BY DEF CaptureActive, media
<1>3. ConnectionTyped'
  BY <1>1 DEF ConnectionTyped, CaptureActive, media
<1>4. /\ starting' \in [Sources -> {None, "toggle", "switch"}] /\ starting'[s] = None
      /\ \A x \in Sources \ {s} : starting'[x] = starting[x]
  BY <1>1, <1>2 DEF CapturesTyped
<1>5. t \in Nat /\ lv \in [Sources -> Nat] /\ lv[s] = t /\ t # 0 /\ t <= MaxStarts
  <2>1. t \in Nat /\ live[s] \in Nat /\ live[s] < t /\ t <= MaxStarts
    BY <1>1, <1>2 DEF TracksInTime, CapturesInTime
  <2> QED BY <1>1, <2>1
<1>6. \A x \in Sources \ {s} : lv[x] = live[x]
  BY <1>1
<1>7. /\ e.src = s /\ e.track = t /\ "screen" \notin e.who
      /\ seq \in Seq(EntryRows) /\ Range(seq) \subseteq {e}
  <2>1. /\ <<e>> \in Seq(EntryRows) /\ Range(<<e>>) = {e} /\ e.src = s /\ e.track = t /\ e.who = {"toggle"}
    BY <1>1, <1>5, OneEntry DEF Callers
  <2> HIDE DEF e, t
  <2> QED BY <2>1, NoneInEmpty
<1>8. w \in SwapRows /\ w.src = s /\ w.track = t
  BY <1>1, <1>5 DEF SwapRows
<1>9. used' = used /\ used'[s] = t /\ used[s] <= used'[s]
  BY <1>2, <1>5
<1> HIDE DEF t, e, seq, w, lv
<1>10. CapturesInTime(lv, used', starting') /\ \A g \in Known : InTime(g, lv, used', starting')
  <2>1. used' \in [Sources -> Nat] /\ lv[s] = used'[s] /\ used[s] <= used'[s] /\ used'[s] <= MaxStarts
    BY <1>1, <1>5, <1>9
  <2>2. \A x \in Sources \ {s} : lv[x] = live[x] /\ used'[x] = used[x] /\ starting'[x] = starting[x]
    BY <1>4, <1>6, <1>9
  <2> QED BY <1>1, <1>4, <1>5, <2>1, <2>2, NewTrack
<1>11. InTime(e, lv, used', starting') /\ InTime(w, lv, used', starting')
  <2>1. used' \in [Sources -> Nat] /\ lv[s] # 0 /\ e.track = lv[s] /\ w.track = lv[s]
    BY <1>1, <1>5, <1>7, <1>8, <1>9
  <2> QED BY <1>1, <1>5, <1>7, <1>8, <1>10, <2>1, TrackOfNow
<1>12. \A g \in Known \cup Range(seq) \cup swaps' : InTime(g, lv, used', starting')
  <2>1. \A x \in swaps : x \in Known
    BY DEF Known
  <2> HIDE DEF Known
  <2> QED BY <1>2, <1>7, <1>10, <1>11, <2>1
<1>13. \A f \in Range(seq), r \in Range(retained) : r.src = f.src => r.track <= f.track
  <2>1. \A r \in Range(retained) : InTime(r, lv, used', starting')
    BY <1>10 DEF Known
  <2> QED BY <1>5, <1>7, <2>1 DEF InTime
<1>14. /\ UNCHANGED <<transport, retained>> /\ Produce(seq, {s}, lv)
       /\ \A f \in Range(seq) : "screen" \in f.who => lv[f.src] # live[f.src]
       /\ used' \in [Sources -> Nat] /\ swaps' \in SUBSET SwapRows
  BY <1>1, <1>2, <1>7, <1>8 DEF PipelineTyped
<1> HIDE DEF Known
<1>15. /\ live' \in [Sources -> Nat] /\ enabled' \in [Sources -> BOOLEAN]
       /\ PipelineTyped' /\ OneStage' /\ OnceBySource(flight', producers')
       /\ TracksInTime' /\ RetainedIsOlder' /\ OwedIsKept'
  BY <1>4, <1>5, <1>7, <1>10, <1>12, <1>13, <1>14, ProduceKeeps
<1>16. CapturesTyped'
  BY <1>1, <1>2, <1>4, <1>15 DEF CapturesTyped
<1> QED BY <1>3, <1>15, <1>16, InvariantOf

LEMMA AutoPublishStep == ASSUME PublishIInv, AutoPublish PROVE PublishIInv'
<1> DEFINE unmade == {s \in Controls : live[s] # 0 /\ Existing(s) = {}}
           R == {Entry(s, live[s], {"auto"}) : s \in unmade}
           seq == SetToSeq(R)
<1>1. /\ ConnectionTyped /\ CapturesTyped /\ PipelineTyped /\ TracksInTime
      /\ live \in [Sources -> Nat] /\ used \in [Sources -> Nat]
  BY WhatIsTyped DEF CapturesTyped
<1>2. /\ UNCHANGED <<transport, retained, used, starting, stale, wanted, swaps, hidden, muteTold>>
      /\ autoDue' = FALSE /\ Produce(seq, {}, live)
  BY DEF AutoPublish, media
<1>3. ConnectionTyped'
  BY <1>1 DEF ConnectionTyped, AutoPublish, media
<1>4. ASSUME NEW e \in R
      PROVE  e \in EntryRows /\ e.src \in Sources /\ live[e.src] # 0 /\ e.track = live[e.src] /\ "screen" \notin e.who
  <2>1. PICK s \in unmade : e = Entry(s, live[s], {"auto"})
    OBVIOUS
  <2>2. s \in Sources /\ live[s] \in Nat /\ live[s] # 0
    BY <1>1 DEF Controls
  <2> QED BY <2>1, <2>2 DEF Entry, EntryRows, Callers
<1>5. \A e, f \in R : e.src = f.src => e = f
  BY DEF Entry
<1> HIDE DEF R
<1>6. /\ SetToSeq(R) \in Seq(R) /\ Range(SetToSeq(R)) = R
  BY <1>4, <1>5, RowsListed
<1>7. seq \in Seq(EntryRows) /\ Range(seq) = R
  <2>1. R \subseteq EntryRows
    BY <1>4
  <2> QED BY <1>6, <2>1
<1> HIDE DEF seq
<1>8. CapturesInTime(live, used', starting') /\ \A g \in Known : InTime(g, live, used', starting')
  BY <1>1, <1>2 DEF TracksInTime
<1>9. \A e \in R : InTime(e, live, used', starting')
  <2>1. used' \in [Sources -> Nat]
    BY <1>1, <1>2
  <2> QED BY <1>1, <1>4, <1>8, <2>1, TrackOfNow
<1>10. \A g \in Known \cup Range(seq) \cup swaps' : InTime(g, live, used', starting')
  <2>1. \A x \in swaps' : x \in Known
    BY <1>2 DEF Known
  <2> HIDE DEF Known
  <2> QED BY <1>7, <1>8, <1>9, <2>1
<1>11. \A f \in Range(seq), r \in Range(retained) : r.src = f.src => r.track <= f.track
  BY <1>4, <1>7, RetainedInTime
<1>12. /\ UNCHANGED <<transport, retained>> /\ Produce(seq, {}, live)
       /\ \A f \in Range(seq) : "screen" \in f.who => live[f.src] # live[f.src]
       /\ used' \in [Sources -> Nat] /\ swaps' \in SUBSET SwapRows
       /\ starting' \in [Sources -> {None, "toggle", "switch"}]
  BY <1>1, <1>2, <1>4, <1>7 DEF PipelineTyped, CapturesTyped
<1> HIDE DEF Known
<1>13. /\ live' \in [Sources -> Nat] /\ enabled' \in [Sources -> BOOLEAN]
       /\ PipelineTyped' /\ OneStage' /\ OnceBySource(flight', producers')
       /\ TracksInTime' /\ RetainedIsOlder' /\ OwedIsKept'
  BY <1>1, <1>7, <1>8, <1>10, <1>11, <1>12, ProduceKeeps
<1>14. CapturesTyped'
  BY <1>1, <1>2, <1>13 DEF CapturesTyped
<1> QED BY <1>3, <1>13, <1>14, InvariantOf

LEMMA ShareScreenStep == ASSUME PublishIInv, ShareScreen PROVE PublishIInv'
<1> DEFINE t == used["screen"] + 1
           lv == [live EXCEPT !["screen"] = t]
           e == Entry("screen", t, {"screen"})
           seq == <<e>>
<1>1. /\ ConnectionTyped /\ CapturesTyped /\ PipelineTyped /\ TracksInTime /\ "screen" \in Sources
      /\ live \in [Sources -> Nat] /\ used \in [Sources -> Nat]
  BY WhatIsTyped DEF CapturesTyped, ShareScreen
<1>2. /\ UNCHANGED <<transport, retained, starting, stale, wanted, swaps, hidden, autoDue, muteTold>>
      /\ live["screen"] = 0 /\ t <= MaxStarts /\ used' = [used EXCEPT !["screen"] = t]
      /\ Produce(seq, {}, lv)
  BY DEF ShareScreen, media
<1>3. ConnectionTyped'
  BY <1>1 DEF ConnectionTyped, ShareScreen, media
<1>4. t \in Nat /\ t # 0 /\ used["screen"] <= t /\ lv \in [Sources -> Nat] /\ lv["screen"] = t
  <2>1. used["screen"] \in Nat
    BY <1>1
  <2>2. t \in Nat /\ t # 0 /\ used["screen"] <= t
    BY <2>1
  <2> QED BY <1>1, <2>2
<1>5. \A x \in Sources \ {"screen"} : lv[x] = live[x]
  BY <1>1
<1>6. e.src = "screen" /\ e.track = t /\ seq \in Seq(EntryRows) /\ Range(seq) = {e}
  BY <1>1, <1>4, OneEntry DEF Callers
<1> HIDE DEF t, e, seq, lv
<1>7. used' \in [Sources -> Nat] /\ used'["screen"] = t /\ \A x \in Sources \ {"screen"} : used'[x] = used[x]
  BY <1>1, <1>2, <1>4
<1>8. starting'["screen"] = None /\ \A x \in Sources \ {"screen"} : starting'[x] = starting[x]
  BY <1>1, <1>2 DEF TracksInTime, CapturesInTime
<1>9. CapturesInTime(lv, used', starting') /\ \A g \in Known : InTime(g, lv, used', starting')
  <2>1. lv["screen"] = used'["screen"] /\ used["screen"] <= used'["screen"] /\ used'["screen"] <= MaxStarts
    BY <1>2, <1>4, <1>7
  <2>2. \A x \in Sources \ {"screen"} : lv[x] = live[x] /\ used'[x] = used[x] /\ starting'[x] = starting[x]
    BY <1>5, <1>7, <1>8
  <2> QED BY <1>1, <1>4, <1>7, <1>8, <2>1, <2>2, NewTrack
<1>10. InTime(e, lv, used', starting')
  BY <1>1, <1>4, <1>6, <1>7, <1>9, TrackOfNow
<1>11. \A g \in Known \cup Range(seq) \cup swaps' : InTime(g, lv, used', starting')
  <2>1. \A x \in swaps' : x \in Known
    BY <1>2 DEF Known
  <2> HIDE DEF Known
  <2> QED BY <1>6, <1>9, <1>10, <2>1
<1>12. \A f \in Range(seq), r \in Range(retained) : r.src = f.src => r.track <= f.track
  <2>1. \A r \in Range(retained) : InTime(r, lv, used', starting')
    BY <1>9 DEF Known
  <2> QED BY <1>4, <1>6, <2>1 DEF InTime
<1>13. \A f \in Range(seq) : "screen" \in f.who => lv[f.src] # live[f.src]
  BY <1>2, <1>4, <1>6
<1>14. /\ UNCHANGED <<transport, retained>> /\ Produce(seq, {}, lv) /\ swaps' \in SUBSET SwapRows
       /\ starting' \in [Sources -> {None, "toggle", "switch"}]
  BY <1>1, <1>2 DEF PipelineTyped, CapturesTyped
<1> HIDE DEF Known
<1>15. /\ live' \in [Sources -> Nat] /\ enabled' \in [Sources -> BOOLEAN]
       /\ PipelineTyped' /\ OneStage' /\ OnceBySource(flight', producers')
       /\ TracksInTime' /\ RetainedIsOlder' /\ OwedIsKept'
  BY <1>4, <1>6, <1>7, <1>9, <1>11, <1>12, <1>13, <1>14, ProduceKeeps
<1>16. CapturesTyped'
  BY <1>1, <1>2, <1>7, <1>15 DEF CapturesTyped
<1> QED BY <1>3, <1>15, <1>16, InvariantOf

LEMMA PublishInitially == PublishInit => PublishIInv
<1> SUFFICES ASSUME PublishInit PROVE PublishIInv
  OBVIOUS
<1>1. ConnectionTyped
  <2>1. <<"join">> \in Seq({"join", "reset"})
    OBVIOUS
  <2> QED BY <2>1 DEF PublishInit, ConnectionTyped
<1>2. PipelineTyped /\ OneStage /\ OnceBySource(flight, producers) /\ RetainedIsOlder /\ OwedIsKept
  BY NoneInEmpty, LimitsAreNat DEF PublishInit, PipelineTyped, OneStage, OnceBySource, RetainedIsOlder, OwedIsKept
<1>3. CapturesTyped
  <2>1. live \in [Sources -> Nat] /\ used \in [Sources -> Nat]
    BY DEF PublishInit
  <2>2. starting \in [Sources -> {None, "toggle", "switch"}] /\ stale \in [Sources -> Nat]
    BY DEF PublishInit
  <2>3. wanted \in [Sources -> BOOLEAN] /\ enabled \in [Sources -> BOOLEAN]
    BY DEF PublishInit
  <2> QED BY <2>1, <2>2, <2>3 DEF PublishInit, CapturesTyped
<1>4. TracksInTime
  <2>1. Known = {}
    BY NoneInEmpty DEF Known, PublishInit
  <2>2. \A s \in Sources : live[s] \in {0, 1} /\ used[s] = live[s] /\ starting[s] = None
    BY DEF PublishInit
  <2>3. \A s \in Sources : live[s] <= used[s] /\ used[s] <= MaxStarts
    BY <2>2, LimitsAreNat
  <2> QED BY <2>1, <2>2, <2>3 DEF TracksInTime, CapturesInTime
<1> QED BY <1>1, <1>2, <1>3, <1>4 DEF PublishIInv

LEMMA PublishInductive == PublishIInv /\ [PublishNext]_publishVars => PublishIInv'
<1> SUFFICES ASSUME PublishIInv, [PublishNext]_publishVars PROVE PublishIInv'
  OBVIOUS
<1>1. CASE Drop \/ Reconnect \/ Rejoined \/ MediaReset \/ DeviceLoaded \/ TransportCreated \/ Over
  BY <1>1, DropStep, ReconnectStep, RejoinedStep, MediaResetStep, DeviceLoadedStep, TransportCreatedStep, OverStep
<1>2. CASE \E f \in flight : Produced(f) \/ Refused(f)
  BY <1>2, ProducedStep, RefusedStep
<1>3. CASE \E w \in swaps : Swapped(w)
  BY <1>3, SwappedStep
<1>4. CASE \E s \in Controls : Toggle(s)
  BY <1>4, ToggleOnStep, ToggleStartsStep, ToggleOffStep, SwitchDeviceStep, StopCaptureStep DEF Toggle
<1>5. CASE \E s \in Controls : CaptureSettles(s)
  BY <1>5, CaptureFailsStep, CaptureActiveStep, StaleReturnsStep, StaleRestartsStep DEF CaptureSettles
<1>6. CASE AutoPublish \/ Visibility \/ HostMutes \/ ShareScreen \/ StopSharing
  BY <1>6, AutoPublishStep, VisibilityStep, HostMutesStep, ShareScreenStep, StopSharingStep
<1>7. CASE UNCHANGED publishVars
  <2>1. /\ UNCHANGED <<link, acked, mediaEntry, device, loads, asked, transport>>
        /\ UNCHANGED <<buffer, flight, producers, retained, swaps, owed>>
        /\ UNCHANGED <<live, used, starting, stale, wanted, enabled, hidden, autoDue, muteTold>>
    BY <1>7 DEF publishVars, media, pipeline, capture, ui
  <2>2. ConnectionTyped' /\ CapturesTyped'
    BY <2>1, WhatIsTyped DEF ConnectionTyped, CapturesTyped
  <2>3. /\ PipelineTyped' /\ OneStage' /\ OnceBySource(flight', producers')
        /\ TracksInTime' /\ RetainedIsOlder' /\ OwedIsKept'
    BY <2>1, WhatIsTyped DEF PipelineTyped, OneStage, OnceBySource, TracksInTime, Known, RetainedIsOlder, OwedIsKept
  <2> QED BY <2>2, <2>3, InvariantOf
<1> QED BY <1>1, <1>2, <1>3, <1>4, <1>5, <1>6, <1>7 DEF PublishNext

LEMMA PublishImplied == PublishIInv => PublishInv
<1> SUFFICES ASSUME PublishIInv PROVE PublishInv
  OBVIOUS
<1>1. /\ ConnectionTyped /\ PipelineTyped /\ CapturesTyped /\ OnceBySource(flight, producers)
      /\ TracksInTime /\ OwedIsKept
  BY WhatIsTyped
<1>2. ASSUME NEW e \in Known PROVE e.src \in Sources /\ e.track \in 1 .. MaxStarts
  <2>1. e.src \in Sources /\ e.track \in Nat /\ InTime(e, live, used, starting)
    BY <1>1, KnownTyped DEF TracksInTime
  <2>2. e.track \in 1 .. used[e.src] /\ used[e.src] <= MaxStarts /\ used[e.src] \in Nat
    BY <1>1, <2>1 DEF TracksInTime, CapturesInTime, CapturesTyped, InTime
  <2> QED BY <2>1, <2>2, LimitsAreNat
<1>3. ASSUME NEW s \in Sources PROVE live[s] \in 0 .. used[s] /\ used[s] <= MaxStarts
  <2>1. live[s] \in Nat /\ used[s] \in Nat /\ live[s] <= used[s] /\ used[s] <= MaxStarts
    BY <1>1 DEF TracksInTime, CapturesInTime, CapturesTyped
  <2> QED BY <2>1
<1>4. PublishTypeOK
  <2>1. \A e \in Range(buffer) \cup flight \cup Range(retained) \cup producers : e \in Known
    BY DEF Known
  <2>2. Range(loads) \subseteq {"join", "reset"}
    BY <1>1 DEF ConnectionTyped, Range
  <2> HIDE DEF Known
  <2>3. /\ \A e \in Range(buffer) \cup flight : e.src \in Sources /\ e.track \in 1 .. MaxStarts
        /\ \A e \in Range(retained) \cup producers : e.src \in Sources /\ e.track \in 1 .. MaxStarts
    BY <1>2, <2>1
  <2>4. /\ link \in {"up", "down", "over"} /\ {acked, mediaEntry} \subseteq BOOLEAN
        /\ device \in {"none", "loading", "loaded"} /\ asked \in Nat /\ transport \in BOOLEAN
    BY <1>1 DEF ConnectionTyped
  <2>5. /\ starting \in [Sources -> {None, "toggle", "switch"}] /\ stale \in [Sources -> Nat]
        /\ {enabled, wanted} \subseteq [Sources -> BOOLEAN] /\ {hidden, autoDue, muteTold} \subseteq BOOLEAN
    BY <1>1 DEF CapturesTyped
  <2> QED BY <1>1, <1>3, <2>2, <2>3, <2>4, <2>5 DEF PublishTypeOK, PipelineTyped
<1>5. ASSUME NEW s \in Sources PROVE Cardinality(Of(s, producers)) + Cardinality(Of(s, flight)) <= 1
  <2> DEFINE P == Of(s, producers)
             F == Of(s, flight)
  <2>1. /\ \A p, q \in P : p = q
        /\ \A f, g \in F : f = g
        /\ P = {} \/ F = {}
    BY <1>1 DEF OnceBySource, Of
  <2> HIDE DEF P, F
  <2>2. P = {} \/ \E p : P = {p}
    BY <2>1
  <2>3. F = {} \/ \E f : F = {f}
    BY <2>1
  <2>4. Cardinality(P) = 0 \/ Cardinality(P) = 1
    BY <2>2, FS_EmptySet, FS_Singleton
  <2>5. Cardinality(F) = 0 \/ Cardinality(F) = 1
    BY <2>3, FS_EmptySet, FS_Singleton
  <2>6. Cardinality(P) = 0 \/ Cardinality(F) = 0
    BY <2>1, FS_EmptySet
  <2> QED BY <2>4, <2>5, <2>6 DEF P, F
<1>6. NothingForgotten
  BY <1>1 DEF NothingForgotten, OwedIsKept, IsLive, Live
<1> QED BY <1>4, <1>5, <1>6 DEF PublishInv, OnePerSource

\* Through any number of drops, resets, toggles and switches no source is
\* published twice, and what was published when media was torn down is kept
\* while its track lives.
THEOREM PublishAlwaysInOrder == PublishSpec => []PublishInv
<1>1. PublishInit => PublishIInv
  BY PublishInitially
<1>2. PublishIInv /\ [PublishNext]_publishVars => PublishIInv'
  BY PublishInductive
<1>3. PublishIInv => PublishInv
  BY PublishImplied
<1> QED BY <1>1, <1>2, <1>3, PTL DEF PublishSpec

-----------------------------------------------------------------------------
(***************************************************************************)
(* Proof, for any board and any number of edits, reports and changes of    *)
(* the others, that the binding deletes nothing that its user has not      *)
(* erased, and that what the engine has reported is in the document.       *)
(***************************************************************************)

Shapes == [v : Nat \ {0}, n : Nat]
Documents == [Ids -> {Absent} \cup Shapes]
Elements == [id : Ids, v : Nat \ {0}, n : Nat]
Distinct(s) == \A i, j \in DOMAIN s : s[i] = s[j] => i = j
Scenes == {s \in Seq(Elements) : Distinct(IdsOf(s))}
Items == [old : Documents, new : Documents]

ThereIn(doc) == {id \in Ids : There(doc, id)}
Drawn(doc, ids) == [i \in DOMAIN ids |-> Element(ids[i], doc[ids[i]])]

BoardTyped ==
    /\ stored \in Documents /\ order \in Seq(Ids) /\ Distinct(order) /\ attached \in BOOLEAN
    /\ scene \in Scenes /\ reports \in Seq(Scenes)
    /\ local \in Scenes /\ previous \in Scenes /\ applied \in Scenes
    /\ undoable \in Seq(Items) /\ undone \in Seq(Items)
    /\ erased \in SUBSET Ids /\ lost \in SUBSET Ids /\ crossed \in BOOLEAN /\ repeated \in BOOLEAN
    /\ strokes \in Nat /\ merges \in Nat

\* Before the engine is there nothing is drawn.
NothingYet ==
    ~attached =>
        /\ scene = <<>> /\ local = <<>> /\ previous = <<>> /\ applied = <<>>
        /\ \A j \in DOMAIN reports : reports[j] = <<>>
        /\ undoable = <<>> /\ undone = <<>>

\* The reports that are neither an echo nor stale.
EditsOf(rs, pr, ap) == {j \in DOMAIN rs : rs[j] \notin {pr, ap}}
Edits == EditsOf(reports, previous, applied)

Pending == {reports[i] : i \in Edits}
Earlier(j) == {reports[i] : i \in {k \in Edits : k < j}}

\* What is missing in an edit that was there before was erased, and has not
\* come back.
MissingIsErased ==
    /\ \A j \in Edits : \A x \in {local, applied} \cup Earlier(j) :
          \A id \in Present(x) \ Present(reports[j]) : id \in erased /\ id \notin Present(scene)
    /\ \A x \in {local, applied} \cup Pending : \A id \in Present(x) \ Present(scene) : id \in erased
    /\ lost = {}

\* No element of the one has a lower version in the other.
NotNewer(x, y) == \A a \in DOMAIN x, b \in DOMAIN y : x[a].id = y[b].id => x[a].v <= y[b].v

OrderIsWhole == ThereIn(stored) = ToSet(order)

LocalIsDrawn == attached => local = Drawn(stored, order)

SceneIsLast == attached => IF Edits = {} THEN scene = local ELSE reports[Len(reports)] = scene

EchoIsLocal == \A j \in DOMAIN reports : reports[j] = applied => local = applied

EditsAreLast == \A i \in Edits, j \in DOMAIN reports : i < j => j \in Edits

VersionsGrow ==
    /\ \A x \in {local} \cup Pending : NotNewer(x, scene)
    /\ \A j \in Edits : \A x \in {local} \cup Earlier(j) : NotNewer(x, reports[j])

BindingIInv ==
    /\ BoardTyped /\ NothingYet
    /\ ~crossed => MissingIsErased
    /\ ~crossed /\ ~repeated =>
         OrderIsWhole /\ LocalIsDrawn /\ SceneIsLast /\ EchoIsLocal /\ EditsAreLast /\ VersionsGrow

-----------------------------------------------------------------------------
(* Lists of identities.                                                    *)

LEMMA OnlyIs ==
    ASSUME NEW X, NEW s \in Seq(X), NEW S
    PROVE  /\ Only(s, S) \in Seq(X) /\ ToSet(Only(s, S)) = ToSet(s) \cap S
           /\ Distinct(s) => Distinct(Only(s, S))
           /\ (\A i \in DOMAIN s : s[i] \in S) => Only(s, S) = s
<1> DEFINE places == {i \in DOMAIN s : s[i] \in S}
           upTo(i) == Cardinality({j \in places : j <= i})
           nth(n) == CHOOSE i \in places : upTo(i) = n
           N == Cardinality(places)
           place == [n \in 1 .. N |-> nth(n)]
           u == Only(s, S)
<1>0. DOMAIN s = 1 .. Len(s) /\ Len(s) \in Nat /\ \A i \in DOMAIN s : s[i] \in X
  OBVIOUS
<1>1. places \in SUBSET (1 .. Len(s))
  BY <1>0
<1>2. u = [n \in 1 .. N |-> s[nth(n)]]
  BY DEF Only
<1> HIDE DEF places, u
<1>3. IsFiniteSet(places) /\ N \in Nat /\ \A m \in 1 .. N : \E i \in places : upTo(i) = m
  BY <1>0, <1>1, CountsAreTaken
<1> HIDE DEF N, upTo
<1>4. \A m \in 1 .. N : nth(m) \in places /\ upTo(nth(m)) = m
  BY <1>3
<1> HIDE DEF nth
<1>5. place \in Injection(1 .. N, places)
  <2>1. place \in [1 .. N -> places]
    BY <1>4
  <2>2. \A m, n \in 1 .. N : place[m] = place[n] => m = n
    BY <1>4
  <2> HIDE DEF place
  <2> QED BY <2>1, <2>2 DEF Injection, IsInjective
<1>6. place \in Surjection(1 .. N, places)
  <2>1. IsFiniteSet(1 .. N) /\ Cardinality(1 .. N) = N
    BY <1>3, FS_Interval
  <2> HIDE DEF place
  <2>2. Cardinality(1 .. N) = Cardinality(places)
    BY <2>1 DEF N
  <2> QED BY <1>3, <1>5, <2>2, FS_Injection
<1>7. \A i \in places : \E n \in 1 .. N : nth(n) = i
  BY <1>6 DEF Surjection
<1>8. \A n \in 1 .. N : nth(n) \in DOMAIN s /\ s[nth(n)] \in S
  BY <1>4 DEF places
<1>9. u \in Seq(X) /\ DOMAIN u = 1 .. N /\ Len(u) = N /\ \A n \in 1 .. N : u[n] = s[nth(n)]
  BY <1>0, <1>2, <1>3, <1>8
<1>10. ToSet(u) = ToSet(s) \cap S
  <2>1. ASSUME NEW n \in 1 .. N PROVE u[n] \in ToSet(s) \cap S
    BY <1>8, <1>9 DEF ToSet
  <2>2. ASSUME NEW i \in DOMAIN s, s[i] \in S PROVE s[i] \in ToSet(u)
    <3>1. i \in places
      BY <2>2 DEF places
    <3>2. PICK n \in 1 .. N : nth(n) = i
      BY <3>1, <1>7
    <3> QED BY <3>2, <1>9 DEF ToSet
  <2> QED BY <2>1, <2>2, <1>9 DEF ToSet
<1>11. ASSUME Distinct(s) PROVE Distinct(u)
  <2> SUFFICES ASSUME NEW m \in 1 .. N, NEW n \in 1 .. N, u[m] = u[n] PROVE m = n
    BY <1>9 DEF Distinct
  <2>1. nth(m) = nth(n)
    BY <1>8, <1>9, <1>11 DEF Distinct
  <2> QED BY <2>1, <1>4
<1>12. ASSUME \A i \in DOMAIN s : s[i] \in S PROVE u = s
  <2>1. places = 1 .. Len(s)
    BY <1>0, <1>12 DEF places
  <2>2. N = Len(s)
    <3>1. Cardinality(1 .. Len(s)) = IF 1 > Len(s) THEN 0 ELSE Len(s) - 1 + 1
      BY <1>0, FS_Interval
    <3> QED BY <1>0, <2>1, <3>1 DEF N
  <2>3. ASSUME NEW i \in 1 .. Len(s) PROVE upTo(i) = i
    <3>1. {j \in places : j <= i} = 1 .. i
      BY <1>0, <2>1
    <3>2. Cardinality(1 .. i) = i
      BY FS_Interval
    <3> QED BY <3>1, <3>2 DEF upTo
  <2>4. \A n \in 1 .. N : nth(n) = n
    BY <1>4, <2>1, <2>3
  <2>5. \A n \in 1 .. Len(s) : u[n] = s[n]
    BY <1>9, <2>2, <2>4
  <2> QED BY <1>0, <1>9, <2>2, <2>5
<1> QED BY <1>9, <1>10, <1>11, <1>12 DEF u

\* A finite set can be listed.
LEMMA SetListed ==
    ASSUME NEW R, IsFiniteSet(R)
    PROVE  SetToSeq(R) \in Seq(R) /\ ToSet(SetToSeq(R)) = R /\ Distinct(SetToSeq(R))
<1> DEFINE s == SetToSeq(R)
           N == Cardinality(R)
<1>3. N \in Nat /\ ExistsBijection(1 .. N, R)
  BY FS_CardinalityType
<1>4. \E f \in [1 .. N -> R] : IsInjective(f)
  BY <1>3 DEF ExistsBijection, Bijection, Injection, IsInjective
<1>5. s \in [1 .. N -> R] /\ IsInjective(s)
  BY <1>4 DEF SetToSeq
<1> HIDE DEF s
<1>6. s \in Injection(1 .. N, R)
  BY <1>5 DEF Injection, IsInjective
<1>7. IsFiniteSet(1 .. N) /\ Cardinality(1 .. N) = N
  BY <1>3, FS_Interval
<1>8. s \in Surjection(1 .. N, R)
  BY <1>6, <1>7, FS_Injection
<1>9. \A r \in R : \E i \in 1 .. N : s[i] = r
  BY <1>8 DEF Surjection
<1>10. s \in Seq(R) /\ DOMAIN s = 1 .. N
  BY <1>3, <1>5
<1>11. ToSet(s) = R
  BY <1>5, <1>9, <1>10 DEF ToSet
<1>12. Distinct(s)
  BY <1>5, <1>10 DEF Distinct, IsInjective
<1> QED BY <1>10, <1>11, <1>12 DEF s

\* Lists of different things, one after the other.
LEMMA JoinedApart ==
    ASSUME NEW X, NEW s \in Seq(X), NEW t \in Seq(X), Distinct(s), Distinct(t), ToSet(s) \cap ToSet(t) = {}
    PROVE  s \o t \in Seq(X) /\ ToSet(s \o t) = ToSet(s) \cup ToSet(t) /\ Distinct(s \o t)
<1> DEFINE u == s \o t
<1>0. /\ Len(s) \in Nat /\ Len(t) \in Nat /\ DOMAIN s = 1 .. Len(s) /\ DOMAIN t = 1 .. Len(t)
  OBVIOUS
<1>1. /\ u \in Seq(X) /\ Len(u) = Len(s) + Len(t)
      /\ \A i \in 1 .. Len(s) + Len(t) : u[i] = IF i <= Len(s) THEN s[i] ELSE t[i - Len(s)]
  BY ConcatProperties
<1> HIDE DEF u
<1>2. DOMAIN u = 1 .. Len(s) + Len(t)
  <2>1. DOMAIN u = 1 .. Len(u)
    BY <1>1
  <2> QED BY <1>1, <2>1
<1>3. ASSUME NEW i \in DOMAIN u
      PROVE  \/ i \in DOMAIN s /\ u[i] = s[i] /\ u[i] \in ToSet(s)
             \/ i \notin DOMAIN s /\ i - Len(s) \in DOMAIN t /\ u[i] = t[i - Len(s)] /\ u[i] \in ToSet(t)
  <2>1. CASE i <= Len(s)
    <3>1. i \in DOMAIN s /\ u[i] = s[i]
      BY <1>0, <1>1, <1>2, <2>1
    <3> QED BY <3>1 DEF ToSet
  <2>2. CASE ~(i <= Len(s))
    <3>1. i \notin DOMAIN s /\ i - Len(s) \in DOMAIN t /\ u[i] = t[i - Len(s)]
      BY <1>0, <1>1, <1>2, <2>2
    <3> QED BY <3>1 DEF ToSet
  <2> QED BY <2>1, <2>2, <1>0, <1>2
<1>4. \A i \in DOMAIN s : i \in DOMAIN u /\ u[i] = s[i]
  BY <1>0, <1>1, <1>2
<1>5. ASSUME NEW i \in DOMAIN t PROVE \E j \in DOMAIN u : u[j] = t[i]
  <2>1. i + Len(s) \in DOMAIN u /\ u[i + Len(s)] = t[i]
    BY <1>0, <1>1, <1>2
  <2> QED BY <2>1
<1>6. ToSet(u) = ToSet(s) \cup ToSet(t)
  BY <1>3, <1>4, <1>5 DEF ToSet
<1>7. Distinct(u)
  <2> SUFFICES ASSUME NEW i \in DOMAIN u, NEW j \in DOMAIN u, u[i] = u[j] PROVE i = j
    BY DEF Distinct
  <2>1. CASE i \in DOMAIN s
    <3>1. j \in DOMAIN s /\ s[i] = s[j]
      BY <1>3, <2>1
    <3> QED BY <2>1, <3>1 DEF Distinct
  <2>2. CASE i \notin DOMAIN s
    <3>1. j \notin DOMAIN s /\ i - Len(s) = j - Len(s)
      BY <1>3, <2>2 DEF Distinct
    <3> QED BY <3>1, <1>0, <1>2
  <2> QED BY <2>1, <2>2
<1> QED BY <1>1, <1>6, <1>7 DEF u

-----------------------------------------------------------------------------
(* reconcileOrder leaves the target, whatever it finds.                    *)

LEMMA TakenOut ==
    ASSUME NEW ids \in Seq(Ids), NEW k \in Nat \ {0}, k <= Len(ids) + 1,
           NEW id \in Ids, \A i \in 1 .. k - 1 : ids[i] # id
    PROVE  LET s == TakeOut(ids, id) IN
           s \in Seq(Ids) /\ Len(s) >= k - 1 /\ \A i \in 1 .. k - 1 : s[i] = ids[i]
<1>0. /\ Len(ids) \in Nat /\ DOMAIN ids = 1 .. Len(ids) /\ \A i \in 1 .. Len(ids) : ids[i] \in Ids
  OBVIOUS
<1>1. CASE id \notin ToSet(ids)
  BY <1>0, <1>1 DEF TakeOut
<1>2. CASE id \in ToSet(ids)
  <2> DEFINE P(i) == ids[i] = id /\ \A j \in 1 .. i - 1 : ids[j] # id
             at == CHOOSE i \in DOMAIN ids : P(i)
             Found == {i \in DOMAIN ids : ids[i] = id}
  <2>1. Found \in SUBSET Nat /\ Found # {}
    BY <1>0, <1>2 DEF ToSet
  <2>2. PICK f \in Found : \A i \in Found : f <= i
    BY <2>1, LeastExists
  <2>3. f \in DOMAIN ids /\ P(f)
    <3>1. f \in DOMAIN ids /\ ids[f] = id
      BY <2>2
    <3>2. ASSUME NEW j \in 1 .. f - 1, ids[j] = id PROVE FALSE
      <4>1. j \in Found /\ ~(f <= j)
        BY <1>0, <3>1, <3>2
      <4> QED BY <4>1, <2>2
    <3> QED BY <3>1, <3>2
  <2>4. at \in DOMAIN ids /\ P(at)
    BY <2>3
  <2>5. TakeOut(ids, id) = RemoveAt(ids, at)
    BY <1>2 DEF TakeOut
  <2> HIDE DEF at
  <2>6. at \in 1 .. Len(ids) /\ at >= k
    BY <1>0, <2>4
  <2> DEFINE a == SubSeq(ids, 1, at - 1)
             b == SubSeq(ids, at + 1, Len(ids))
             s == a \o b
  <2>7. a \in Seq(Ids) /\ Len(a) = at - 1 /\ \A i \in 1 .. at - 1 : a[i] = ids[i]
    <3>1. /\ a \in Seq(Ids) /\ Len(a) = IF 1 <= at - 1 THEN at - 1 - 1 + 1 ELSE 0
          /\ \A i \in 1 .. at - 1 - 1 + 1 : a[i] = ids[1 + i - 1]
      BY <1>0, <2>6, SubSeqProperties
    <3> HIDE DEF a
    <3> QED BY <2>6, <3>1
  <2>8. b \in Seq(Ids) /\ Len(b) \in Nat
    BY <1>0, <2>6, SubSeqProperties
  <2> HIDE DEF a, b
  <2>9. s \in Seq(Ids) /\ Len(s) = Len(a) + Len(b) /\ \A i \in 1 .. Len(a) + Len(b) : s[i] = IF i <= Len(a) THEN a[i] ELSE b[i - Len(a)]
    BY <2>7, <2>8, ConcatProperties
  <2>10. TakeOut(ids, id) = s
    BY <2>5 DEF RemoveAt, a, b
  <2> HIDE DEF s
  <2>11. Len(s) >= k - 1
    BY <2>6, <2>7, <2>8, <2>9
  <2>12. ASSUME NEW i \in 1 .. k - 1 PROVE s[i] = ids[i]
    <3>1. i \in 1 .. at - 1 /\ i \in 1 .. Len(a) + Len(b) /\ i <= Len(a)
      BY <2>6, <2>7, <2>8
    <3> QED BY <3>1, <2>7, <2>9
  <2> QED BY <2>9, <2>10, <2>11, <2>12
<1> QED BY <1>1, <1>2

LEMMA PutInPlace ==
    ASSUME NEW ids \in Seq(Ids), NEW target \in Seq(Ids), Distinct(target),
           NEW k \in 1 .. Len(target), Len(ids) >= k - 1, \A i \in 1 .. k - 1 : ids[i] = target[i]
    PROVE  LET s == PutAt(ids, k, target[k]) IN
           s \in Seq(Ids) /\ Len(s) >= k /\ \A i \in 1 .. k : s[i] = target[i]
<1> DEFINE id == target[k]
           w == TakeOut(ids, id)
           s == PutAt(ids, k, id)
<1>0. /\ Len(ids) \in Nat /\ Len(target) \in Nat /\ k \in Nat \ {0} /\ id \in Ids
      /\ DOMAIN target = 1 .. Len(target)
  OBVIOUS
<1>1. CASE k <= Len(ids) /\ ids[k] = id
  <2>1. s = ids
    BY <1>1 DEF PutAt
  <2> HIDE DEF s
  <2>2. ASSUME NEW i \in 1 .. k PROVE s[i] = target[i]
    BY <1>0, <1>1, <2>1
  <2> QED BY <1>1, <2>1, <2>2 DEF s
<1>2. CASE ~(k <= Len(ids) /\ ids[k] = id)
  <2>1. \A i \in 1 .. k - 1 : ids[i] # id
    BY <1>0 DEF Distinct
  <2>2. w \in Seq(Ids) /\ Len(w) >= k - 1 /\ \A i \in 1 .. k - 1 : w[i] = ids[i]
    <3>1. k \in Nat \ {0} /\ k <= Len(ids) + 1 /\ id \in Ids
      BY <1>0
    <3> HIDE DEF id
    <3>2. LET t == TakeOut(ids, id) IN t \in Seq(Ids) /\ Len(t) >= k - 1 /\ \A i \in 1 .. k - 1 : t[i] = ids[i]
      BY <2>1, <3>1, TakenOut
    <3> QED BY <3>2 DEF w
  <2>3. s = InsertAt(w, k, id)
    BY <1>2 DEF PutAt
  <2> HIDE DEF w
  <2> DEFINE a == SubSeq(w, 1, k - 1)
             b == SubSeq(w, k, Len(w))
             u == a \o <<id>>
  <2>4. Len(w) \in Nat /\ \A i \in 1 .. Len(w) : w[i] \in Ids
    BY <2>2
  <2>5. a \in Seq(Ids) /\ Len(a) = k - 1 /\ \A i \in 1 .. k - 1 : a[i] = w[i]
    <3>1. /\ a \in Seq(Ids) /\ Len(a) = IF 1 <= k - 1 THEN k - 1 - 1 + 1 ELSE 0
          /\ \A i \in 1 .. k - 1 - 1 + 1 : a[i] = w[1 + i - 1]
      BY <1>0, <2>2, <2>4, SubSeqProperties
    <3> HIDE DEF a
    <3> QED BY <1>0, <3>1
  <2>6. b \in Seq(Ids) /\ Len(b) \in Nat
    BY <1>0, <2>4, SubSeqProperties
  <2>7. <<id>> \in Seq(Ids) /\ Len(<<id>>) = 1 /\ <<id>>[1] = id
    BY <1>0
  <2>8. s = u \o b
    BY <2>3 DEF InsertAt
  <2> HIDE DEF a, b, s, id
  <2>9. u \in Seq(Ids) /\ Len(u) = k /\ \A i \in 1 .. k : u[i] = IF i <= k - 1 THEN a[i] ELSE id
    <3>1. /\ u \in Seq(Ids) /\ Len(u) = Len(a) + Len(<<id>>)
          /\ \A i \in 1 .. Len(a) + Len(<<id>>) : u[i] = IF i <= Len(a) THEN a[i] ELSE <<id>>[i - Len(a)]
      BY <2>5, <2>7, ConcatProperties
    <3> HIDE DEF u
    <3>2. ASSUME NEW i \in 1 .. k PROVE u[i] = IF i <= k - 1 THEN a[i] ELSE id
      <4>1. CASE i <= k - 1
        BY <1>0, <2>5, <2>7, <3>1, <4>1
      <4>2. CASE ~(i <= k - 1)
        <5>1. i = k /\ i - Len(a) = 1 /\ i \in 1 .. Len(a) + Len(<<id>>) /\ ~(i <= Len(a))
          BY <1>0, <2>5, <2>7, <4>2
        <5> QED BY <2>7, <3>1, <4>2, <5>1
      <4> QED BY <4>1, <4>2
    <3> QED BY <1>0, <2>5, <2>7, <3>1, <3>2
  <2> HIDE DEF u
  <2>10. s \in Seq(Ids) /\ Len(s) = Len(u) + Len(b) /\ \A i \in 1 .. Len(u) + Len(b) : s[i] = IF i <= Len(u) THEN u[i] ELSE b[i - Len(u)]
    BY <2>6, <2>8, <2>9, ConcatProperties
  <2>11. Len(s) >= k
    BY <1>0, <2>6, <2>9, <2>10
  <2>12. ASSUME NEW i \in 1 .. k PROVE s[i] = target[i]
    <3>1. s[i] = u[i]
      BY <1>0, <2>6, <2>9, <2>10
    <3>2. CASE i <= k - 1
      <4>1. i \in 1 .. k - 1 /\ i \in 1 .. k
        BY <1>0, <3>2
      <4> QED BY <4>1, <2>2, <2>5, <2>9, <3>1, <3>2
    <3>3. CASE ~(i <= k - 1)
      <4>1. i = k
        BY <1>0, <3>3
      <4> QED BY <2>9, <3>1, <3>3, <4>1 DEF id
    <3> QED BY <3>2, <3>3
  <2> QED BY <2>10, <2>11, <2>12 DEF s, id
<1> QED BY <1>1, <1>2

LEMMA ReconcileIs ==
    ASSUME NEW ids \in Seq(Ids), NEW target \in Seq(Ids), Distinct(target)
    PROVE  ReconcileOrder(ids, target) = target
<1> DEFINE L == Len(target)
           Next1(f, k) == IF k = 0 THEN ids ELSE PutAt(f[k - 1], k, target[k])
           Steps(f, n) == f = [k \in 0 .. n |-> Next1(f, k)]
           walk == CHOOSE f : Steps(f, L)
<1>0. L \in Nat /\ DOMAIN target = 1 .. L
  OBVIOUS
<1>1. ReconcileOrder(ids, target) = SubSeq(walk[L], 1, L)
  BY DEF ReconcileOrder
<1>2. \A n \in Nat : \E f : Steps(f, n)
  <2> DEFINE Bad == {n \in Nat : ~\E f : Steps(f, n)}
  <2> SUFFICES ASSUME Bad # {} PROVE FALSE
    OBVIOUS
  <2>1. PICK b \in Bad : \A n \in Bad : b <= n
    BY LeastExists
  <2>2. CASE b = 0
    <3> DEFINE f == [k \in 0 .. 0 |-> ids]
    <3>1. f = [k \in 0 .. 0 |-> Next1(f, k)]
      OBVIOUS
    <3> QED BY <2>2, <3>1
  <2>3. CASE b # 0
    <3>1. b - 1 \in Nat /\ b - 1 \notin Bad
      <4>1. b \in Nat
        OBVIOUS
      <4> HIDE DEF Bad
      <4>2. b - 1 \in Nat /\ ~(b <= b - 1)
        BY <2>3, <4>1
      <4> QED BY <2>1, <4>2
    <3>2. PICK f : Steps(f, b - 1)
      BY <3>1
    <3> DEFINE g == [k \in 0 .. b |-> IF k < b THEN f[k] ELSE Next1(f, b)]
    <3>3. ASSUME NEW k \in 0 .. b PROVE g[k] = Next1(g, k)
      <4>1. CASE k = 0
        <5>1. g[k] = f[k] /\ k \in 0 .. b - 1
          BY <2>3, <4>1, <3>1
        <5>2. f[k] = Next1(f, k)
          BY <3>2, <5>1
        <5> QED BY <4>1, <5>1, <5>2
      <4>2. CASE k # 0
        <5>1. k - 1 \in 0 .. b /\ k - 1 < b
          BY <4>2, <2>1
        <5>2. g[k - 1] = f[k - 1]
          BY <5>1
        <5>3. CASE k < b
          <6>1. g[k] = f[k] /\ k \in 0 .. b - 1
            BY <5>3, <3>1
          <6>2. f[k] = Next1(f, k)
            BY <3>2, <6>1
          <6> QED BY <4>2, <5>2, <6>1, <6>2
        <5>4. CASE ~(k < b)
          <6>1. k = b
            BY <5>4, <2>1
          <6>2. g[k] = Next1(f, b)
            BY <5>4
          <6> HIDE DEF g
          <6> QED BY <4>2, <5>2, <6>1, <6>2
        <5> QED BY <5>3, <5>4
      <4> QED BY <4>1, <4>2
    <3>4. g = [k \in 0 .. b |-> g[k]]
      OBVIOUS
    <3>5. Steps(g, b)
      <4> HIDE DEF g
      <4> QED BY <3>3, <3>4
    <3> QED BY <3>5, <2>1
  <2> QED BY <2>2, <2>3
<1>3. Steps(walk, L)
  BY <1>0, <1>2
<1> HIDE DEF walk
<1>4. \A k \in 0 .. L : walk[k] = Next1(walk, k)
  BY <1>3
<1> DEFINE Good(k) == walk[k] \in Seq(Ids) /\ Len(walk[k]) >= k /\ \A i \in 1 .. k : walk[k][i] = target[i]
<1>5. \A k \in 0 .. L : Good(k)
  <2> DEFINE Bad == {k \in 0 .. L : ~Good(k)}
  <2> SUFFICES ASSUME Bad # {} PROVE FALSE
    OBVIOUS
  <2>0. Bad \in SUBSET Nat
    BY <1>0
  <2>1. PICK b \in Bad : \A k \in Bad : b <= k
    BY <2>0, LeastExists
  <2>2. CASE b = 0
    <3>1. walk[b] = ids
      BY <1>0, <1>4, <2>1, <2>2
    <3>2. Len(ids) >= 0
      OBVIOUS
    <3> QED BY <2>1, <2>2, <3>1, <3>2
  <2>3. CASE b # 0
    <3>1. b - 1 \in 0 .. L /\ b - 1 \notin Bad /\ b \in 1 .. L
      BY <1>0, <2>1, <2>3
    <3>2. Good(b - 1)
      BY <3>1
    <3>3. walk[b] = PutAt(walk[b - 1], b, target[b])
      BY <1>4, <2>1, <2>3
    <3>4. Good(b)
      <4> DEFINE w == walk[b - 1]
      <4>1. w \in Seq(Ids) /\ Len(w) >= b - 1 /\ \A i \in 1 .. b - 1 : w[i] = target[i]
        BY <3>2
      <4> HIDE DEF w
      <4>2. LET s == PutAt(w, b, target[b]) IN s \in Seq(Ids) /\ Len(s) >= b /\ \A i \in 1 .. b : s[i] = target[i]
        BY <3>1, <4>1, PutInPlace
      <4> QED BY <3>3, <4>2 DEF w
    <3> QED BY <2>1, <3>4
  <2> QED BY <2>2, <2>3
<1>6. Good(L)
  BY <1>0, <1>5
<1> DEFINE w == walk[L]
<1>7. w \in Seq(Ids) /\ Len(w) >= L /\ Len(w) \in Nat /\ \A i \in 1 .. L : w[i] = target[i]
  BY <1>6
<1> HIDE DEF w
<1>8. /\ SubSeq(w, 1, L) \in Seq(Ids) /\ Len(SubSeq(w, 1, L)) = IF 1 <= L THEN L - 1 + 1 ELSE 0
      /\ \A i \in 1 .. L - 1 + 1 : SubSeq(w, 1, L)[i] = w[1 + i - 1]
  <2>1. \A i \in 1 .. L : w[i] \in Ids
    BY <1>0, <1>7
  <2> QED BY <1>0, <2>1, SubSeqProperties
<1>9. SubSeq(w, 1, L) = target
  <2> DEFINE u == SubSeq(w, 1, L)
  <2>1. u \in Seq(Ids) /\ Len(u) = L /\ \A i \in 1 .. L : u[i] = w[i]
    <3> HIDE DEF u
    <3>1. /\ u \in Seq(Ids) /\ Len(u) = IF 1 <= L THEN L - 1 + 1 ELSE 0
          /\ \A i \in 1 .. L - 1 + 1 : u[i] = w[1 + i - 1]
      BY <1>8 DEF u
    <3> QED BY <1>0, <3>1
  <2> HIDE DEF u
  <2>2. \A i \in 1 .. L : u[i] = target[i]
    BY <1>7, <2>1
  <2> QED BY <2>1, <2>2 DEF u
<1> QED BY <1>1, <1>9 DEF w

-----------------------------------------------------------------------------
(* Scenes.                                                                 *)

LEMMA PresentIs ==
    ASSUME NEW s
    PROVE  /\ DOMAIN IdsOf(s) = DOMAIN s /\ \A i \in DOMAIN s : IdsOf(s)[i] = s[i].id
           /\ Present(s) = {s[i].id : i \in DOMAIN s}
<1>1. DOMAIN IdsOf(s) = DOMAIN s /\ \A i \in DOMAIN s : IdsOf(s)[i] = s[i].id
  BY DEF IdsOf
<1> QED BY <1>1 DEF Present, ToSet

LEMMA SceneIs ==
    ASSUME NEW s \in Scenes
    PROVE  /\ s \in Seq(Elements) /\ Len(s) \in Nat /\ DOMAIN s = 1 .. Len(s)
           /\ \A i \in DOMAIN s : s[i] \in Elements
           /\ \A i, j \in DOMAIN s : s[i].id = s[j].id => i = j
           /\ IdsOf(s) \in Seq(Ids) /\ Distinct(IdsOf(s)) /\ Present(s) \in SUBSET Ids
           /\ NotNewer(s, s)
<1>1. s \in Seq(Elements) /\ Distinct(IdsOf(s))
  BY DEF Scenes
<1>2. Len(s) \in Nat /\ DOMAIN s = 1 .. Len(s) /\ \A i \in DOMAIN s : s[i] \in Elements
  BY <1>1
<1>3. \A i, j \in DOMAIN s : s[i].id = s[j].id => i = j
  BY <1>1, PresentIs DEF Distinct
<1>4. \A i \in DOMAIN s : s[i].id \in Ids /\ s[i].v \in Nat
  BY <1>2 DEF Elements
<1>5. IdsOf(s) \in Seq(Ids)
  BY <1>2, <1>4 DEF IdsOf
<1>6. Present(s) \in SUBSET Ids
  BY <1>4, PresentIs
<1>7. NotNewer(s, s)
  BY <1>3, <1>4 DEF NotNewer
<1> QED BY <1>1, <1>2, <1>3, <1>5, <1>6, <1>7

\* What is a scene, position by position.
LEMMA IsScene ==
    ASSUME NEW s \in Seq(Elements), \A i, j \in DOMAIN s : s[i].id = s[j].id => i = j
    PROVE  s \in Scenes
BY PresentIs DEF Scenes, Distinct

LEMMA EmptyScene == <<>> \in Scenes /\ Present(<<>>) = {} /\ DOMAIN <<>> = {}
<1>1. <<>> \in Seq(Elements) /\ DOMAIN <<>> = {}
  OBVIOUS
<1>2. <<>> \in Scenes
  BY <1>1, IsScene
<1> QED BY <1>1, <1>2, PresentIs

LEMMA RenderedIs ==
    ASSUME NEW doc \in Documents, NEW ids \in Seq(Ids), Distinct(ids)
    PROVE  /\ Rendered(doc, ids) \in Scenes
           /\ ThereIn(doc) = ToSet(ids) => Rendered(doc, ids) = Drawn(doc, ids)
<1> DEFINE there == Only(ids, ThereIn(doc))
           r == Rendered(doc, ids)
<1>1. /\ there \in Seq(Ids) /\ ToSet(there) = ToSet(ids) \cap ThereIn(doc) /\ Distinct(there)
      /\ (\A i \in DOMAIN ids : ids[i] \in ThereIn(doc)) => there = ids
  BY OnlyIs
<1>2. r = [i \in DOMAIN there |-> Element(there[i], doc[there[i]])]
  BY DEF Rendered, ThereIn
<1> HIDE DEF there, r
<1>3. Len(there) \in Nat /\ DOMAIN there = 1 .. Len(there)
  BY <1>1
<1>4. ASSUME NEW i \in DOMAIN there
      PROVE  Element(there[i], doc[there[i]]) \in Elements /\ Element(there[i], doc[there[i]]).id = there[i]
  <2>1. there[i] \in ThereIn(doc)
    BY <1>1, <1>4 DEF ToSet
  <2>2. there[i] \in Ids /\ doc[there[i]] \in Shapes
    BY <2>1 DEF ThereIn, There, Documents
  <2> QED BY <2>2 DEF Element, Elements, Shapes
<1>5. r \in Seq(Elements) /\ DOMAIN r = DOMAIN there /\ \A i \in DOMAIN r : r[i].id = there[i]
  BY <1>2, <1>3, <1>4
<1>6. r \in Scenes
  BY <1>1, <1>5, IsScene DEF Distinct
<1>7. ASSUME ThereIn(doc) = ToSet(ids) PROVE r = Drawn(doc, ids)
  <2>1. there = ids
    BY <1>1, <1>7 DEF ToSet
  <2> QED BY <1>2, <2>1 DEF Drawn
<1> QED BY <1>6, <1>7 DEF r

LEMMA RemovedIs ==
    ASSUME NEW s \in Scenes, NEW i \in DOMAIN s
    PROVE  /\ RemoveAt(s, i) \in Scenes
           /\ \A b \in DOMAIN RemoveAt(s, i) : \E a \in DOMAIN s : a # i /\ RemoveAt(s, i)[b] = s[a]
           /\ Present(RemoveAt(s, i)) = Present(s) \ {s[i].id}
<1>0. /\ s \in Seq(Elements) /\ Len(s) \in Nat /\ DOMAIN s = 1 .. Len(s) /\ \A k \in 1 .. Len(s) : s[k] \in Elements
      /\ \A k, j \in DOMAIN s : s[k].id = s[j].id => k = j
  BY SceneIs
<1> DEFINE a == SubSeq(s, 1, i - 1)
           b == SubSeq(s, i + 1, Len(s))
           r == RemoveAt(s, i)
           At(k) == IF k < i THEN k ELSE k + 1
<1>1. a \in Seq(Elements) /\ Len(a) = i - 1 /\ \A k \in 1 .. i - 1 : a[k] = s[k]
  <2>1. /\ a \in Seq(Elements) /\ Len(a) = IF 1 <= i - 1 THEN i - 1 - 1 + 1 ELSE 0
        /\ \A k \in 1 .. i - 1 - 1 + 1 : a[k] = s[1 + k - 1]
    BY <1>0, SubSeqProperties
  <2> HIDE DEF a
  <2> QED BY <1>0, <2>1
<1>2. b \in Seq(Elements) /\ Len(b) = Len(s) - i /\ \A k \in 1 .. Len(s) - i : b[k] = s[i + k]
  <2>1. /\ b \in Seq(Elements) /\ Len(b) = IF i + 1 <= Len(s) THEN Len(s) - (i + 1) + 1 ELSE 0
        /\ \A k \in 1 .. Len(s) - (i + 1) + 1 : b[k] = s[(i + 1) + k - 1]
    BY <1>0, SubSeqProperties
  <2> HIDE DEF b
  <2>2. ASSUME NEW k \in 1 .. Len(s) - i PROVE b[k] = s[i + k]
    <3>1. k \in 1 .. Len(s) - (i + 1) + 1 /\ (i + 1) + k - 1 = i + k
      BY <1>0
    <3> QED BY <2>1, <3>1
  <2> QED BY <1>0, <2>1, <2>2
<1>3. r = a \o b
  BY DEF RemoveAt
<1> HIDE DEF a, b, r
<1>4. r \in Seq(Elements) /\ Len(r) = Len(a) + Len(b) /\ \A k \in 1 .. Len(a) + Len(b) : r[k] = IF k <= Len(a) THEN a[k] ELSE b[k - Len(a)]
  BY <1>1, <1>2, <1>3, ConcatProperties
<1>5. DOMAIN r = 1 .. Len(s) - 1
  BY <1>0, <1>1, <1>2, <1>4
<1>6. ASSUME NEW k \in 1 .. Len(s) - 1
      PROVE  At(k) \in DOMAIN s /\ At(k) # i /\ r[k] = s[At(k)]
  <2>1. CASE k < i
    BY <1>0, <1>1, <1>2, <1>4, <2>1
  <2>2. CASE ~(k < i)
    <3>1. k - Len(a) \in 1 .. Len(s) - i /\ ~(k <= Len(a)) /\ k \in 1 .. Len(a) + Len(b)
      BY <1>0, <1>1, <1>2, <2>2
    <3>2. r[k] = b[k - Len(a)] /\ b[k - Len(a)] = s[i + (k - Len(a))]
      BY <1>2, <1>4, <3>1
    <3>3. i + (k - Len(a)) = k + 1
      BY <1>0, <1>1
    <3> QED BY <1>0, <2>2, <3>2, <3>3
  <2> QED BY <2>1, <2>2
<1>7. r \in Scenes
  <2>1. ASSUME NEW k \in DOMAIN r, NEW j \in DOMAIN r, r[k].id = r[j].id PROVE k = j
    <3>1. At(k) = At(j)
      <4>1. At(k) \in DOMAIN s /\ r[k] = s[At(k)] /\ At(j) \in DOMAIN s /\ r[j] = s[At(j)]
        BY <1>5, <1>6
      <4> HIDE DEF At
      <4> QED BY <1>0, <2>1, <4>1
    <3> QED BY <1>0, <1>5, <3>1
  <2> QED BY <1>4, <2>1, IsScene
<1>8. \A k \in DOMAIN r : \E j \in DOMAIN s : j # i /\ r[k] = s[j]
  BY <1>5, <1>6
<1>9. ASSUME NEW j \in DOMAIN s, j # i PROVE \E k \in DOMAIN r : r[k] = s[j]
  <2> DEFINE k == IF j < i THEN j ELSE j - 1
  <2>1. k \in 1 .. Len(s) - 1 /\ At(k) = j
    BY <1>0, <1>9
  <2> QED BY <1>5, <1>6, <2>1
<1>10. Present(r) = Present(s) \ {s[i].id}
  <2>1. Present(r) = {r[k].id : k \in DOMAIN r} /\ Present(s) = {s[k].id : k \in DOMAIN s}
    BY PresentIs
  <2>2. ASSUME NEW k \in DOMAIN r PROVE r[k].id \in {s[j].id : j \in DOMAIN s} \ {s[i].id}
    BY <1>0, <1>8
  <2>3. ASSUME NEW j \in DOMAIN s, s[j].id # s[i].id PROVE s[j].id \in {r[k].id : k \in DOMAIN r}
    BY <1>9, <2>3
  <2> QED BY <2>1, <2>2, <2>3
<1> QED BY <1>7, <1>8, <1>10 DEF r

\* An element at the end.
LEMMA AppendedIs ==
    ASSUME NEW s \in Scenes, NEW e \in Elements, e.id \notin Present(s)
    PROVE  /\ Append(s, e) \in Scenes
           /\ \A b \in DOMAIN Append(s, e) : (\E a \in DOMAIN s : Append(s, e)[b] = s[a]) \/ Append(s, e)[b] = e
           /\ Present(Append(s, e)) = Present(s) \cup {e.id}
<1>0. /\ s \in Seq(Elements) /\ Len(s) \in Nat /\ DOMAIN s = 1 .. Len(s)
      /\ \A k, j \in DOMAIN s : s[k].id = s[j].id => k = j
  BY SceneIs
<1> DEFINE r == Append(s, e)
<1>1. /\ r \in Seq(Elements) /\ Len(r) = Len(s) + 1 /\ DOMAIN r = 1 .. Len(s) + 1
      /\ \A k \in 1 .. Len(s) : r[k] = s[k]
      /\ r[Len(s) + 1] = e
  BY <1>0, AppendProperties
<1>2. Present(s) = {s[k].id : k \in DOMAIN s} /\ Present(r) = {r[k].id : k \in DOMAIN r}
  BY PresentIs
<1> HIDE DEF r
<1>3. \A k \in DOMAIN r : (k \in DOMAIN s /\ r[k] = s[k]) \/ (k = Len(s) + 1 /\ r[k] = e)
  BY <1>0, <1>1
<1>4. \A k \in DOMAIN s : k \in DOMAIN r /\ r[k] = s[k]
  BY <1>0, <1>1
<1>5. Len(s) + 1 \in DOMAIN r
  BY <1>0, <1>1
<1>6. r \in Scenes
  <2>1. ASSUME NEW k \in DOMAIN r, NEW j \in DOMAIN r, r[k].id = r[j].id PROVE k = j
    BY <1>0, <1>2, <1>3, <2>1
  <2> QED BY <1>1, <2>1, IsScene
<1>7. Present(r) = Present(s) \cup {e.id}
  BY <1>1, <1>2, <1>3, <1>4, <1>5
<1> QED BY <1>3, <1>6, <1>7 DEF r

\* An element changed in its place.
LEMMA ReplacedIs ==
    ASSUME NEW s \in Scenes, NEW i \in DOMAIN s, NEW e \in Elements, e.id = s[i].id
    PROVE  /\ [s EXCEPT ![i] = e] \in Scenes /\ Present([s EXCEPT ![i] = e]) = Present(s)
           /\ DOMAIN [s EXCEPT ![i] = e] = DOMAIN s
           /\ \A b \in DOMAIN s : [s EXCEPT ![i] = e][b] = IF b = i THEN e ELSE s[b]
<1>0. /\ s \in Seq(Elements) /\ Len(s) \in Nat /\ DOMAIN s = 1 .. Len(s) /\ \A k \in DOMAIN s : s[k] \in Elements
      /\ \A k, j \in DOMAIN s : s[k].id = s[j].id => k = j
  BY SceneIs
<1> DEFINE r == [s EXCEPT ![i] = e]
<1>1. DOMAIN r = DOMAIN s /\ \A k \in DOMAIN s : r[k] = IF k = i THEN e ELSE s[k]
  BY <1>0
<1>2. r \in Seq(Elements)
  BY <1>0
<1>3. Present(s) = {s[k].id : k \in DOMAIN s} /\ Present(r) = {r[k].id : k \in DOMAIN r}
  BY PresentIs
<1> HIDE DEF r
<1>4. \A k \in DOMAIN s : r[k].id = s[k].id
  BY <1>1
<1>5. r \in Scenes
  <2>1. \A k, j \in DOMAIN r : r[k].id = r[j].id => k = j
    BY <1>0, <1>1, <1>4
  <2> QED BY <1>2, <2>1, IsScene
<1>6. Present(r) = Present(s)
  BY <1>1, <1>3, <1>4
<1> QED BY <1>1, <1>5, <1>6 DEF r

-----------------------------------------------------------------------------
(* The user's edits.                                                       *)

\* An element of the scene, or one of its later versions.
Kept(e) == \E a \in DOMAIN scene : scene[a].id = e.id /\ scene[a].v <= e.v

Unknown(id) ==
    \A s \in {scene, local, previous, applied} \cup ToSet(reports) : id \notin Present(s)

LEMMA PendingIs ==
    ASSUME BoardTyped
    PROVE  /\ Edits \in SUBSET (1 .. Len(reports)) /\ Len(reports) \in Nat /\ DOMAIN reports = 1 .. Len(reports)
           /\ Pending \in SUBSET Scenes /\ Pending \in SUBSET ToSet(reports)
           /\ \A j \in Edits : reports[j] \in Pending /\ Earlier(j) \in SUBSET Pending
<1>1. reports \in Seq(Scenes)
  BY DEF BoardTyped
<1>2. Len(reports) \in Nat /\ DOMAIN reports = 1 .. Len(reports) /\ \A j \in DOMAIN reports : reports[j] \in Scenes
  BY <1>1
<1>3. Edits \in SUBSET DOMAIN reports
  BY DEF Edits, EditsOf
<1> QED BY <1>2, <1>3 DEF Pending, Earlier, ToSet

LEMMA BecomesKeeps ==
    ASSUME BindingIInv, NEW elements \in Scenes, NEW gone \in SUBSET Ids,
           gone \cap Present(elements) = {}, Present(scene) \in SUBSET (Present(elements) \cup gone),
           \A b \in DOMAIN elements : Kept(elements[b]) \/ Unknown(elements[b].id),
           SceneBecomes(elements, gone)
    PROVE  BindingIInv'
<1> DEFINE NotKnown == elements \notin {previous, applied}
<1>0. /\ attached /\ strokes' = strokes + 1 /\ scene' = elements /\ reports' = Append(reports, elements)
      /\ erased' = (erased \ Present(elements)) \cup gone /\ repeated' = (repeated \/ ~NotKnown)
      /\ UNCHANGED <<stored, order, attached, local, previous, applied, undoable, undone, lost, crossed, merges>>
  BY DEF SceneBecomes, document, snapshots, stacks
<1>t. BoardTyped
  BY DEF BindingIInv
<1>n. PICK n \in Nat : n = Len(reports)
  BY <1>t, PendingIs
<1>1. /\ reports \in Seq(Scenes) /\ DOMAIN reports = 1 .. n
      /\ reports' \in Seq(Scenes) /\ Len(reports') = n + 1 /\ DOMAIN reports' = 1 .. n + 1
      /\ (\A i \in 1 .. n : reports'[i] = reports[i]) /\ reports'[n + 1] = elements
  <2>1. reports \in Seq(Scenes)
    BY <1>t DEF BoardTyped
  <2> QED BY <1>0, <1>n, <2>1, AppendProperties
<1>2. BoardTyped'
  <2>1. Present(elements) \in SUBSET Ids
    BY SceneIs
  <2>2. strokes' \in Nat /\ erased' \in SUBSET Ids /\ scene' \in Scenes /\ repeated' \in BOOLEAN
    BY <1>0, <1>t, <2>1 DEF BoardTyped
  <2> QED BY <1>0, <1>1, <1>t, <2>2 DEF BoardTyped
<1>3. NothingYet'
  BY <1>0 DEF NothingYet
<1>4. /\ Edits \in SUBSET (1 .. n) /\ Pending \in SUBSET Scenes /\ Pending \in SUBSET ToSet(reports)
      /\ \A j \in Edits : reports[j] \in Pending /\ Earlier(j) \in SUBSET Pending
  BY <1>t, <1>n, PendingIs
<1>5. /\ \A j \in Edits : j \in Edits' /\ reports'[j] = reports[j]
      /\ \A j \in Edits' : j \in Edits \/ (j = n + 1 /\ NotKnown)
      /\ NotKnown => n + 1 \in Edits'
  <2>1. ASSUME NEW j \in 1 .. n + 1 PROVE j \in Edits' <=> j \in Edits \/ (j = n + 1 /\ NotKnown)
    <3>1. CASE j = n + 1
      <4>1. j \notin Edits
        BY <1>1, <1>4, <3>1
      <4> QED BY <1>0, <1>1, <3>1, <4>1 DEF Edits, EditsOf
    <3>2. CASE j # n + 1
      <4>1. j \in 1 .. n
        BY <1>1, <3>2
      <4> QED BY <1>0, <1>1, <3>2, <4>1 DEF Edits, EditsOf
    <3> QED BY <3>1, <3>2
  <2>2. Edits' \in SUBSET (1 .. n + 1)
    BY <1>1 DEF Edits, EditsOf
  <2>3. Edits \in SUBSET (1 .. n + 1) /\ n + 1 \in 1 .. n + 1
    BY <1>1, <1>4
  <2> QED BY <1>1, <1>4, <2>1, <2>2, <2>3
<1>6. /\ Pending' \in SUBSET (Pending \cup {elements})
      /\ \A j \in Edits : Earlier(j)' \in SUBSET Earlier(j)
      /\ Earlier(n + 1)' \in SUBSET Pending
  <2>1. \A i \in Edits' : reports'[i] \in Pending \cup {elements}
    BY <1>1, <1>4, <1>5
  <2>2. ASSUME NEW j \in 1 .. n, NEW i \in Edits', i < j PROVE i \in Edits /\ reports'[i] = reports[i]
    <3>1. i # n + 1
      BY <1>1, <2>2
    <3> QED BY <1>5, <3>1
  <2>3. ASSUME NEW i \in Edits', i < n + 1 PROVE reports'[i] \in Pending
    <3>1. i \in Edits
      BY <1>1, <1>5, <2>3
    <3> QED BY <1>4, <1>5, <3>1
  <2>4. ASSUME NEW j \in Edits PROVE Earlier(j)' \in SUBSET Earlier(j)
    BY <1>4, <2>2, <2>4 DEF Earlier
  <2>5. Pending' \in SUBSET (Pending \cup {elements})
    BY <2>1 DEF Pending
  <2>6. Earlier(n + 1)' \in SUBSET Pending
    BY <2>3 DEF Earlier
  <2> QED BY <2>4, <2>5, <2>6
<1>7. ASSUME NEW x \in {local, applied} \cup Pending, NEW id \in Present(x), id \in Present(elements)
      PROVE  id \in Present(scene)
  <2>1. PICK b \in DOMAIN elements : elements[b].id = id
    BY <1>7, PresentIs
  <2>2. x \in {scene, local, previous, applied} \cup ToSet(reports)
    BY <1>4
  <2>3. ~Unknown(id)
    BY <2>2 DEF Unknown
  <2>4. Kept(elements[b])
    BY <2>1, <2>3
  <2> QED BY <2>1, <2>4, PresentIs DEF Kept
<1>8. ASSUME ~crossed PROVE MissingIsErased'
  <2>0. MissingIsErased
    BY <1>8 DEF BindingIInv
  <2>1. ASSUME NEW x \in {local, applied} \cup Pending, NEW id \in Present(x), id \notin Present(elements)
        PROVE  id \in erased'
    <3>1. CASE id \in Present(scene)
      BY <1>0, <2>1, <3>1
    <3>2. CASE id \notin Present(scene)
      <4>1. id \in erased
        BY <2>0, <3>2 DEF MissingIsErased
      <4> QED BY <1>0, <2>1, <4>1
    <3> QED BY <3>1, <3>2
  <2>2. ASSUME NEW j \in Edits', NEW x \in ({local, applied} \cup Earlier(j))',
               NEW id \in Present(x), id \notin Present(reports'[j])
        PROVE  id \in erased' /\ id \notin Present(elements)
    <3>1. CASE j \in Edits
      <4>1. x \in {local, applied} \cup Earlier(j) /\ id \notin Present(reports[j])
        BY <1>0, <1>5, <1>6, <2>2, <3>1
      <4>2. id \in erased /\ id \notin Present(scene)
        BY <2>0, <3>1, <4>1 DEF MissingIsErased
      <4>3. x \in {local, applied} \cup Pending
        BY <1>4, <3>1, <4>1
      <4> QED BY <1>0, <1>7, <4>2, <4>3
    <3>2. CASE j = n + 1 /\ NotKnown
      <4>1. x \in {local, applied} \cup Pending /\ id \notin Present(elements)
        BY <1>0, <1>1, <1>6, <2>2, <3>2
      <4> QED BY <2>1, <4>1
    <3> QED BY <1>5, <3>1, <3>2
  <2>3. ASSUME NEW x \in ({local, applied} \cup Pending)', NEW id \in Present(x), id \notin Present(elements)
        PROVE  id \in erased'
    <3>1. x \in {local, applied} \cup Pending
      BY <1>0, <1>6, <2>3
    <3> QED BY <2>1, <2>3, <3>1
  <2>4. lost' = {}
    BY <1>0, <2>0 DEF MissingIsErased
  <2> QED BY <1>0, <2>2, <2>3, <2>4 DEF MissingIsErased
<1>9. ASSUME ~crossed, ~repeated, NotKnown
      PROVE  (OrderIsWhole /\ LocalIsDrawn /\ SceneIsLast /\ EchoIsLocal /\ EditsAreLast /\ VersionsGrow)'
  <2>0. OrderIsWhole /\ LocalIsDrawn /\ SceneIsLast /\ EchoIsLocal /\ EditsAreLast /\ VersionsGrow
    BY <1>9 DEF BindingIInv
  <2>1. OrderIsWhole' /\ LocalIsDrawn'
    BY <1>0, <2>0 DEF OrderIsWhole, LocalIsDrawn
  <2>2. SceneIsLast'
    BY <1>0, <1>1, <1>5, <1>9 DEF SceneIsLast
  <2>3. EchoIsLocal'
    <3> SUFFICES ASSUME NEW j \in 1 .. n + 1, reports'[j] = applied PROVE local = applied
      BY <1>0, <1>1 DEF EchoIsLocal
    <3>1. j # n + 1
      BY <1>1, <1>9
    <3>2. j \in 1 .. n
      BY <1>1, <3>1
    <3> QED BY <1>1, <2>0, <3>2 DEF EchoIsLocal
  <2>4. EditsAreLast'
    <3> SUFFICES ASSUME NEW i \in Edits', NEW j \in 1 .. n + 1, i < j PROVE j \in Edits'
      BY <1>1 DEF EditsAreLast
    <3>1. CASE j = n + 1
      BY <1>5, <1>9, <3>1
    <3>2. CASE j # n + 1
      <4>1. j \in 1 .. n /\ i # n + 1
        BY <1>1, <3>2
      <4>2. i \in Edits
        BY <1>5, <4>1
      <4>3. j \in Edits
        BY <1>1, <2>0, <4>1, <4>2 DEF EditsAreLast
      <4> QED BY <1>5, <4>3
    <3> QED BY <3>1, <3>2
  <2>5. ASSUME NEW x \in {local} \cup Pending PROVE NotNewer(x, elements)
    <3> SUFFICES ASSUME NEW a \in DOMAIN x, NEW b \in DOMAIN elements, x[a].id = elements[b].id
                 PROVE  x[a].v <= elements[b].v
      BY DEF NotNewer
    <3>1. x \in {scene, local, previous, applied} \cup ToSet(reports)
      BY <1>4
    <3>2. elements[b].id \in Present(x)
      BY PresentIs
    <3>3. ~Unknown(elements[b].id)
      BY <3>1, <3>2 DEF Unknown
    <3>4. PICK c \in DOMAIN scene : scene[c].id = elements[b].id /\ scene[c].v <= elements[b].v
      BY <3>3 DEF Kept
    <3>5. x[a].v <= scene[c].v
      BY <2>0, <3>4 DEF VersionsGrow, NotNewer
    <3>6. x \in Scenes /\ scene \in Scenes
      BY <1>4, <1>t DEF BoardTyped
    <3>7. x[a] \in Elements /\ scene[c] \in Elements /\ elements[b] \in Elements
      BY <3>6, SceneIs
    <3> QED BY <3>4, <3>5, <3>7 DEF Elements
  <2>6. NotNewer(elements, elements)
    BY SceneIs
  <2>7. VersionsGrow'
    <3>1. ASSUME NEW x \in ({local} \cup Pending)' PROVE NotNewer(x, elements)
      BY <1>0, <1>6, <2>5, <2>6
    <3>2. ASSUME NEW j \in Edits', NEW x \in ({local} \cup Earlier(j))' PROVE NotNewer(x, reports'[j])
      <4>1. CASE j \in Edits
        <5>1. x \in {local} \cup Earlier(j)
          BY <1>0, <1>6, <4>1
        <5> QED BY <1>5, <2>0, <4>1, <5>1 DEF VersionsGrow
      <4>2. CASE j = n + 1 /\ NotKnown
        <5>1. x \in {local} \cup Pending
          BY <1>0, <1>6, <4>2
        <5> QED BY <1>1, <2>5, <4>2, <5>1
      <4> QED BY <1>5, <4>1, <4>2
    <3> QED BY <1>0, <3>1, <3>2 DEF VersionsGrow
  <2> QED BY <2>1, <2>2, <2>3, <2>4, <2>7
<1>10. crossed' = crossed /\ (~repeated' => ~repeated /\ NotKnown)
  BY <1>0
<1> QED BY <1>2, <1>3, <1>8, <1>9, <1>10 DEF BindingIInv

\* What is in the scene is a later version of itself.
LEMMA SceneKept ==
    ASSUME scene \in Scenes, NEW e \in Elements, NEW a \in DOMAIN scene, scene[a].id = e.id, scene[a].v <= e.v
    PROVE  Kept(e)
BY DEF Kept

LEMMA SelfKept ==
    ASSUME scene \in Scenes, NEW a \in DOMAIN scene PROVE Kept(scene[a])
<1>1. scene[a] \in Elements
  BY SceneIs
<1> QED BY <1>1, SceneKept DEF Elements

LEMMA AddStep == ASSUME BindingIInv, NEW id \in Ids, AddElement(id) PROVE BindingIInv'
<1> DEFINE e == Element(id, [v |-> 1, n |-> 1])
           elements == Append(scene, e)
<1>1. scene \in Scenes
  BY DEF BindingIInv, BoardTyped
<1>2. e \in Elements /\ e.id = id
  BY DEF Element, Elements
<1>3. SceneBecomes(elements, {}) /\ Unknown(id)
  BY DEF AddElement, Fresh, Unknown
<1> HIDE DEF e
<1>4. id \notin Present(scene)
  BY <1>3 DEF Unknown
<1>5. /\ elements \in Scenes /\ Present(elements) = Present(scene) \cup {id}
      /\ \A b \in DOMAIN elements : (\E a \in DOMAIN scene : elements[b] = scene[a]) \/ elements[b] = e
  BY <1>1, <1>2, <1>4, AppendedIs
<1> HIDE DEF elements
<1>6. \A b \in DOMAIN elements : Kept(elements[b]) \/ Unknown(elements[b].id)
  BY <1>1, <1>2, <1>3, <1>5, SelfKept
<1>7. /\ {} \in SUBSET Ids /\ {} \cap Present(elements) = {}
      /\ Present(scene) \in SUBSET (Present(elements) \cup {})
  BY <1>5
<1> QED BY <1>3, <1>5, <1>6, <1>7, BecomesKeeps

LEMMA ReplacedKeeps ==
    ASSUME BindingIInv, NEW i \in DOMAIN scene, NEW e \in Elements, e.id = scene[i].id, scene[i].v <= e.v,
           SceneBecomes([scene EXCEPT ![i] = e], {})
    PROVE  BindingIInv'
<1> DEFINE elements == [scene EXCEPT ![i] = e]
<1>1. scene \in Scenes
  BY DEF BindingIInv, BoardTyped
<1>2. /\ elements \in Scenes /\ Present(elements) = Present(scene) /\ DOMAIN elements = DOMAIN scene
      /\ \A b \in DOMAIN scene : elements[b] = IF b = i THEN e ELSE scene[b]
  BY <1>1, ReplacedIs
<1>3. SceneBecomes(elements, {})
  OBVIOUS
<1> HIDE DEF elements
<1>4. Kept(e)
  BY <1>1, SceneKept
<1>5. \A b \in DOMAIN elements : Kept(elements[b])
  BY <1>1, <1>2, <1>4, SelfKept
<1>6. /\ {} \in SUBSET Ids /\ {} \cap Present(elements) = {}
      /\ Present(scene) \in SUBSET (Present(elements) \cup {})
  BY <1>2
<1> QED BY <1>2, <1>3, <1>5, <1>6, BecomesKeeps

LEMMA GrowStep == ASSUME BindingIInv, NEW i \in DOMAIN scene, GrowStroke(i) PROVE BindingIInv'
<1> DEFINE e == [scene[i] EXCEPT !.n = @ + 1]
<1>1. scene \in Scenes
  BY DEF BindingIInv, BoardTyped
<1>2. scene[i] \in Elements
  BY <1>1, SceneIs
<1>3. e \in Elements /\ e.id = scene[i].id /\ scene[i].v <= e.v
  BY <1>2 DEF Elements
<1>4. [scene EXCEPT ![i].n = @ + 1] = [scene EXCEPT ![i] = e]
  OBVIOUS
<1>5. SceneBecomes([scene EXCEPT ![i] = e], {})
  BY <1>4 DEF GrowStroke
<1> HIDE DEF e
<1> QED BY <1>3, <1>5, ReplacedKeeps

LEMMA ChangeStep == ASSUME BindingIInv, NEW i \in DOMAIN scene, ChangeElement(i) PROVE BindingIInv'
<1> DEFINE e == [scene[i] EXCEPT !.v = @ + 1]
           rest == RemoveAt(scene, i)
           elements == Append(rest, e)
<1>1. scene \in Scenes
  BY DEF BindingIInv, BoardTyped
<1>2. scene[i] \in Elements
  BY <1>1, SceneIs
<1>3. e \in Elements /\ e.id = scene[i].id /\ scene[i].v <= e.v
  BY <1>2 DEF Elements
<1>4. SceneBecomes([scene EXCEPT ![i] = e], {}) \/ SceneBecomes(elements, {})
  BY DEF ChangeElement
<1> HIDE DEF e
<1>5. CASE SceneBecomes([scene EXCEPT ![i] = e], {})
  BY <1>3, <1>5, ReplacedKeeps
<1>6. CASE SceneBecomes(elements, {})
  <2>1. /\ rest \in Scenes /\ Present(rest) = Present(scene) \ {e.id}
        /\ \A b \in DOMAIN rest : \E a \in DOMAIN scene : rest[b] = scene[a]
    BY <1>1, <1>3, RemovedIs
  <2> HIDE DEF rest
  <2>2. e.id \in Present(scene) /\ e.id \notin Present(rest)
    BY <1>3, <2>1, PresentIs
  <2>3. /\ elements \in Scenes /\ Present(elements) = Present(rest) \cup {e.id}
        /\ \A b \in DOMAIN elements : (\E a \in DOMAIN rest : elements[b] = rest[a]) \/ elements[b] = e
    BY <1>3, <2>1, <2>2, AppendedIs
  <2> HIDE DEF elements
  <2>4. Kept(e)
    BY <1>1, <1>3, SceneKept
  <2>5. ASSUME NEW b \in DOMAIN elements PROVE Kept(elements[b])
    <3>1. CASE \E a \in DOMAIN rest : elements[b] = rest[a]
      <4>1. PICK a \in DOMAIN scene : elements[b] = scene[a]
        BY <2>1, <3>1
      <4> QED BY <1>1, <4>1, SelfKept
    <3>2. CASE elements[b] = e
      BY <2>4, <3>2
    <3> QED BY <2>3, <3>1, <3>2
  <2>6. /\ {} \in SUBSET Ids /\ {} \cap Present(elements) = {}
        /\ Present(scene) \in SUBSET (Present(elements) \cup {})
    BY <2>1, <2>3
  <2> QED BY <1>6, <2>3, <2>5, <2>6, BecomesKeeps
<1> QED BY <1>4, <1>5, <1>6

LEMMA EraseStep == ASSUME BindingIInv, NEW i \in DOMAIN scene, EraseElement(i) PROVE BindingIInv'
<1> DEFINE rest == RemoveAt(scene, i)
<1>1. scene \in Scenes
  BY DEF BindingIInv, BoardTyped
<1>2. scene[i] \in Elements /\ scene[i].id \in Ids
  BY <1>1, SceneIs DEF Elements
<1>3. SceneBecomes(rest, {scene[i].id})
  BY DEF EraseElement
<1>4. /\ rest \in Scenes /\ Present(rest) = Present(scene) \ {scene[i].id}
      /\ \A b \in DOMAIN rest : \E a \in DOMAIN scene : rest[b] = scene[a]
  BY <1>1, RemovedIs
<1> HIDE DEF rest
<1>5. ASSUME NEW b \in DOMAIN rest PROVE Kept(rest[b])
  <2>1. PICK a \in DOMAIN scene : rest[b] = scene[a]
    BY <1>4
  <2> QED BY <1>1, <2>1, SelfKept
<1>6. /\ {scene[i].id} \in SUBSET Ids /\ {scene[i].id} \cap Present(rest) = {}
      /\ Present(scene) \in SUBSET (Present(rest) \cup {scene[i].id})
  BY <1>2, <1>4
<1> QED BY <1>3, <1>4, <1>5, <1>6, BecomesKeeps

-----------------------------------------------------------------------------
(* The document is drawn.                                                  *)

DocumentIs(doc, ids) == doc \in Documents /\ ids \in Seq(Ids) /\ Distinct(ids)

\* A document that is whole stays so.
StaysWhole == ~crossed /\ ~repeated => OrderIsWhole

LEMMA ApplyKeeps ==
    ASSUME BindingIInv, DocumentIs(stored', order'), StaysWhole', ApplyScene(stored', order'), attached',
           undoable' \in Seq(Items), undone' \in Seq(Items), strokes' \in Nat, merges' \in Nat,
           UNCHANGED <<erased, lost, repeated>>
    PROVE  BindingIInv'
<1> DEFINE r == Rendered(stored', order')
<1>0. /\ previous' = local /\ applied' = r /\ local' = r /\ scene' = r
      /\ reports' \in {reports, Append(reports, r)}
      /\ crossed' = (crossed \/ \E s \in ToSet(reports) : s # local)
  BY DEF ApplyScene
<1>t. BoardTyped
  BY DEF BindingIInv
<1>1. /\ r \in Scenes
      /\ ThereIn(stored') = ToSet(order') => r = Drawn(stored', order')
  BY RenderedIs DEF DocumentIs
<1> HIDE DEF r
<1>2. /\ reports \in Seq(Scenes) /\ Len(reports) \in Nat /\ DOMAIN reports = 1 .. Len(reports)
  BY <1>t, PendingIs DEF BoardTyped
<1>3. /\ reports' \in Seq(Scenes)
      /\ \A j \in DOMAIN reports' : (j \in DOMAIN reports /\ reports'[j] = reports[j]) \/ reports'[j] = r
  <2>1. CASE reports' = reports
    BY <1>2, <2>1
  <2>2. CASE reports' = Append(reports, r)
    <3>1. /\ reports' \in Seq(Scenes) /\ Len(reports') = Len(reports) + 1 /\ DOMAIN reports' = 1 .. Len(reports) + 1
          /\ (\A i \in 1 .. Len(reports) : reports'[i] = reports[i]) /\ reports'[Len(reports) + 1] = r
      BY <1>1, <1>2, <2>2, AppendProperties
    <3>2. ASSUME NEW j \in 1 .. Len(reports) + 1 PROVE j \in 1 .. Len(reports) \/ j = Len(reports) + 1
      BY <1>2
    <3> QED BY <1>2, <3>1, <3>2
  <2> QED BY <1>0, <2>1, <2>2
<1>4. BoardTyped'
  BY <1>0, <1>1, <1>3, <1>t DEF BoardTyped, DocumentIs
<1>5. NothingYet'
  BY DEF NothingYet
<1>6. ASSUME ~crossed' PROVE Edits' = {}
  <2> SUFFICES ASSUME NEW j \in DOMAIN reports' PROVE reports'[j] \in {local, r}
    BY <1>0 DEF Edits, EditsOf
  <2>1. CASE j \in DOMAIN reports /\ reports'[j] = reports[j]
    BY <1>0, <1>6, <2>1 DEF ToSet
  <2> QED BY <1>3, <2>1
<1>7. ASSUME ~crossed' PROVE MissingIsErased'
  <2>1. Pending' = {} /\ Edits' = {}
    BY <1>6, <1>7 DEF Pending
  <2>2. lost' = {}
    BY <1>0, <1>7 DEF BindingIInv, MissingIsErased
  <2> QED BY <1>0, <2>1, <2>2 DEF MissingIsErased
<1>8. ASSUME ~crossed', ~repeated'
      PROVE  (OrderIsWhole /\ LocalIsDrawn /\ SceneIsLast /\ EchoIsLocal /\ EditsAreLast /\ VersionsGrow)'
  <2>1. OrderIsWhole'
    BY <1>8 DEF StaysWhole
  <2>2. LocalIsDrawn'
    BY <1>0, <1>1, <2>1 DEF LocalIsDrawn, OrderIsWhole
  <2>3. SceneIsLast'
    BY <1>0, <1>6, <1>8 DEF SceneIsLast
  <2>4. EchoIsLocal'
    BY <1>0 DEF EchoIsLocal
  <2>5. EditsAreLast'
    BY <1>6, <1>8 DEF EditsAreLast
  <2>6. VersionsGrow'
    <3>1. Pending' = {} /\ Edits' = {}
      BY <1>6, <1>8 DEF Pending
    <3>2. NotNewer(r, r)
      BY <1>1, SceneIs
    <3> QED BY <1>0, <3>1, <3>2 DEF VersionsGrow
  <2> QED BY <2>1, <2>2, <2>3, <2>4, <2>5, <2>6
<1> QED BY <1>4, <1>5, <1>7, <1>8 DEF BindingIInv

LEMMA AttachStep == ASSUME BindingIInv, Attach PROVE BindingIInv'
<1>1. /\ attached' /\ ApplyScene(stored, order)
      /\ UNCHANGED <<stored, order, undoable, undone, erased, lost, repeated, strokes, merges>>
  BY DEF Attach, document, stacks
<1>2. BoardTyped
  BY DEF BindingIInv
<1>3. DocumentIs(stored', order') /\ ApplyScene(stored', order')
  BY <1>1, <1>2 DEF DocumentIs, BoardTyped
<1>4. undoable' \in Seq(Items) /\ undone' \in Seq(Items) /\ strokes' \in Nat /\ merges' \in Nat
  BY <1>1, <1>2 DEF BoardTyped
<1>5. crossed' = (crossed \/ \E r \in ToSet(reports) : r # local)
  BY <1>1 DEF ApplyScene
<1>6. StaysWhole'
  BY <1>1, <1>5 DEF StaysWhole, OrderIsWhole, BindingIInv
<1> QED BY <1>1, <1>3, <1>4, <1>6, ApplyKeeps

\* A document that comes to a binding with or without its engine.
LEMMA RerenderKeeps ==
    ASSUME BindingIInv, DocumentIs(stored', order'), StaysWhole', Rerender(stored', order'), attached' = attached,
           undoable' \in Seq(Items), undone' \in Seq(Items), strokes' \in Nat, merges' \in Nat,
           attached \/ UNCHANGED <<undoable, undone>>, UNCHANGED <<erased, lost, repeated>>
    PROVE  BindingIInv'
<1>1. CASE attached
  BY <1>1, ApplyKeeps DEF Rerender
<1>2. CASE ~attached
  <2>0. UNCHANGED <<attached, scene, reports, local, previous, applied, undoable, undone, erased, lost, crossed, repeated>>
    BY <1>2 DEF Rerender, snapshots
  <2>1. BoardTyped'
    BY <2>0 DEF BindingIInv, BoardTyped, DocumentIs
  <2>2. NothingYet'
    BY <2>0 DEF BindingIInv, NothingYet
  <2>3. Edits' = Edits /\ Pending' = Pending /\ \A j : Earlier(j)' = Earlier(j)
    BY <2>0 DEF Edits, EditsOf, Pending, Earlier
  <2>4. MissingIsErased => MissingIsErased'
    BY <2>0, <2>3 DEF MissingIsErased
  <2>5. LocalIsDrawn' /\ SceneIsLast'
    BY <2>0, <1>2 DEF LocalIsDrawn, SceneIsLast
  <2>6. (EchoIsLocal => EchoIsLocal') /\ (EditsAreLast => EditsAreLast')
    BY <2>0, <2>3 DEF EchoIsLocal, EditsAreLast
  <2>7. VersionsGrow => VersionsGrow'
    BY <2>0, <2>3 DEF VersionsGrow
  <2>8. crossed' = crossed /\ repeated' = repeated
    BY <2>0
  <2> QED BY <2>1, <2>2, <2>4, <2>5, <2>6, <2>7, <2>8 DEF BindingIInv, StaysWhole
<1> QED BY <1>1, <1>2

LEMMA CrossedStays ==
    ASSUME NEW doc, NEW ids, Rerender(doc, ids), ~crossed' PROVE ~crossed
BY DEF Rerender, ApplyScene

LEMMA ReceiveStep ==
    ASSUME BindingIInv, NEW id \in Ids, NEW e \in {Absent} \cup Shapes, Receive(id, e)
    PROVE  BindingIInv'
<1>0. /\ stored' = [stored EXCEPT ![id] = e] /\ merges' = merges + 1 /\ Rerender(stored', order')
      /\ order' = IF e = Absent THEN Only(order, Ids \ {id})
                  ELSE IF id \in ToSet(order) THEN order ELSE Append(order, id)
      /\ UNCHANGED <<attached, undoable, undone, erased, lost, repeated, strokes>>
  BY DEF Receive, stacks
<1>t. BoardTyped
  BY DEF BindingIInv
<1>1. stored \in Documents /\ order \in Seq(Ids) /\ Distinct(order)
  BY <1>t DEF BoardTyped
<1>2. stored' \in Documents /\ stored'[id] = e /\ \A o \in Ids \ {id} : stored'[o] = stored[o]
  BY <1>0, <1>1 DEF Documents
<1>3. ThereIn(stored') = IF e = Absent THEN ThereIn(stored) \ {id} ELSE ThereIn(stored) \cup {id}
  <2>1. ASSUME NEW o \in Ids, o # id PROVE There(stored', o) <=> There(stored, o)
    BY <1>2, <2>1 DEF There
  <2>2. There(stored', id) <=> e # Absent
    BY <1>2 DEF There
  <2> QED BY <2>1, <2>2 DEF ThereIn
<1>4. /\ order' \in Seq(Ids) /\ Distinct(order')
      /\ ToSet(order') = IF e = Absent THEN ToSet(order) \ {id} ELSE ToSet(order) \cup {id}
  <2>0. ToSet(order) \in SUBSET Ids
    BY <1>1 DEF ToSet
  <2>1. CASE e = Absent
    <3>1. /\ Only(order, Ids \ {id}) \in Seq(Ids) /\ ToSet(Only(order, Ids \ {id})) = ToSet(order) \cap (Ids \ {id})
          /\ Distinct(Only(order, Ids \ {id}))
      BY <1>1, OnlyIs
    <3> QED BY <1>0, <2>0, <2>1, <3>1
  <2>2. CASE e # Absent /\ id \in ToSet(order)
    BY <1>0, <1>1, <2>2
  <2>3. CASE e # Absent /\ id \notin ToSet(order)
    <3> DEFINE one == <<id>>
    <3>1. one \in Seq(Ids) /\ ToSet(one) = {id} /\ Distinct(one)
      BY DEF ToSet, Distinct
    <3>2. order' = order \o one
      BY <1>0, <1>1, <2>3, AppendIsConcat
    <3> HIDE DEF one
    <3>3. order \o one \in Seq(Ids) /\ ToSet(order \o one) = ToSet(order) \cup ToSet(one) /\ Distinct(order \o one)
      BY <1>1, <2>3, <3>1, JoinedApart
    <3> QED BY <2>3, <3>1, <3>2, <3>3
  <2> QED BY <2>1, <2>2, <2>3
<1>5. OrderIsWhole => OrderIsWhole'
  BY <1>3, <1>4 DEF OrderIsWhole
<1>6. StaysWhole'
  <2> SUFFICES ASSUME ~crossed', ~repeated' PROVE OrderIsWhole'
    BY DEF StaysWhole
  <2>1. ~crossed /\ ~repeated
    BY <1>0, CrossedStays
  <2> QED BY <1>5, <2>1 DEF BindingIInv
<1>7. undoable' \in Seq(Items) /\ undone' \in Seq(Items) /\ strokes' \in Nat /\ merges' \in Nat
  BY <1>0, <1>t DEF BoardTyped
<1> QED BY <1>0, <1>2, <1>4, <1>6, <1>7, RerenderKeeps DEF DocumentIs

LEMMA PutBackIs ==
    ASSUME BindingIInv, NEW from \in Documents, NEW to \in Documents, PutBack(from, to)
    PROVE  DocumentIs(stored', order') /\ OrderIsWhole' /\ Rerender(stored', order')
<1> DEFINE doc == [id \in Ids |-> IF stored[id] = from[id] THEN to[id] ELSE stored[id]]
           there == ThereIn(doc)
           kept == Only(order, there)
           back == SetToSeq(there \ ToSet(order))
<1>0. stored' = doc /\ order' = kept \o back /\ Rerender(stored', order')
  BY DEF PutBack, ThereIn
<1>1. stored \in Documents /\ order \in Seq(Ids) /\ Distinct(order)
  BY DEF BindingIInv, BoardTyped
<1>2. doc \in Documents
  BY <1>1 DEF Documents
<1> HIDE DEF doc
<1>3. there \in SUBSET Ids
  BY DEF ThereIn
<1> HIDE DEF there
<1>4. kept \in Seq(Ids) /\ ToSet(kept) = ToSet(order) \cap there /\ Distinct(kept)
  BY <1>1, OnlyIs
<1>5. back \in Seq(Ids) /\ ToSet(back) = there \ ToSet(order) /\ Distinct(back)
  <2>1. IsFiniteSet(there \ ToSet(order))
    BY <1>3, IdsAreFinite, FS_Subset
  <2>2. back \in Seq(there \ ToSet(order)) /\ ToSet(back) = there \ ToSet(order) /\ Distinct(back)
    BY <2>1, SetListed
  <2> HIDE DEF back
  <2> QED BY <1>3, <2>2
<1> HIDE DEF kept, back
<1>6. ToSet(kept) \cap ToSet(back) = {}
  BY <1>4, <1>5
<1>7. order' \in Seq(Ids) /\ ToSet(order') = there /\ Distinct(order')
  <2>1. kept \o back \in Seq(Ids) /\ ToSet(kept \o back) = ToSet(kept) \cup ToSet(back) /\ Distinct(kept \o back)
    BY <1>4, <1>5, <1>6, JoinedApart
  <2> QED BY <1>0, <1>4, <1>5, <2>1
<1> QED BY <1>0, <1>2, <1>7 DEF DocumentIs, OrderIsWhole, there

LEMMA LastIs ==
    ASSUME NEW S, NEW s \in Seq(S), s # <<>>
    PROVE  Last(s) \in S /\ Front(s) \in Seq(S)
<1>1. Len(s) \in Nat /\ Len(s) >= 1 /\ \A i \in 1 .. Len(s) : s[i] \in S
  <2>1. Len(s) \in Nat /\ Len(s) # 0 /\ \A i \in 1 .. Len(s) : s[i] \in S
    BY EmptySeq
  <2> QED BY <2>1
<1>2. Last(s) \in S
  BY <1>1 DEF Last
<1>3. Front(s) \in Seq(S)
  <2>1. \A i \in 1 .. Len(s) - 1 : s[i] \in S
    BY <1>1
  <2>2. SubSeq(s, 1, Len(s) - 1) \in Seq(S)
    BY <1>1, <2>1, SubSeqProperties
  <2> QED BY <2>2 DEF Front
<1> QED BY <1>2, <1>3

LEMMA StacksAttached ==
    ASSUME BindingIInv, undoable # <<>> \/ undone # <<>> PROVE attached
BY DEF BindingIInv, NothingYet

LEMMA UndoStep == ASSUME BindingIInv, Undo PROVE BindingIInv'
<1> DEFINE item == Last(undoable)
<1>0. /\ undoable # <<>> /\ strokes' = strokes + 1 /\ PutBack(item.new, item.old)
      /\ undone' = Append(undone, item) /\ undoable' = Front(undoable)
      /\ UNCHANGED <<attached, erased, lost, repeated, merges>>
  BY DEF Undo
<1>t. undoable \in Seq(Items) /\ undone \in Seq(Items) /\ strokes \in Nat /\ merges \in Nat
  BY DEF BindingIInv, BoardTyped
<1>1. item \in Items /\ undoable' \in Seq(Items)
  BY <1>0, <1>t, LastIs
<1> HIDE DEF item
<1>2. item.new \in Documents /\ item.old \in Documents
  BY <1>1 DEF Items
<1>3. DocumentIs(stored', order') /\ OrderIsWhole' /\ Rerender(stored', order')
  BY <1>0, <1>2, PutBackIs
<1>4. undone' \in Seq(Items) /\ strokes' \in Nat /\ merges' \in Nat
  BY <1>0, <1>1, <1>t
<1>5. attached
  BY <1>0, StacksAttached
<1> QED BY <1>0, <1>1, <1>3, <1>4, <1>5, RerenderKeeps DEF StaysWhole

LEMMA RedoStep == ASSUME BindingIInv, Redo PROVE BindingIInv'
<1> DEFINE item == Last(undone)
<1>0. /\ undone # <<>> /\ strokes' = strokes + 1 /\ PutBack(item.old, item.new)
      /\ undoable' = Append(undoable, item) /\ undone' = Front(undone)
      /\ UNCHANGED <<attached, erased, lost, repeated, merges>>
  BY DEF Redo
<1>t. undoable \in Seq(Items) /\ undone \in Seq(Items) /\ strokes \in Nat /\ merges \in Nat
  BY DEF BindingIInv, BoardTyped
<1>1. item \in Items /\ undone' \in Seq(Items)
  BY <1>0, <1>t, LastIs
<1> HIDE DEF item
<1>2. item.new \in Documents /\ item.old \in Documents
  BY <1>1 DEF Items
<1>3. DocumentIs(stored', order') /\ OrderIsWhole' /\ Rerender(stored', order')
  BY <1>0, <1>2, PutBackIs
<1>4. undoable' \in Seq(Items) /\ strokes' \in Nat /\ merges' \in Nat
  BY <1>0, <1>1, <1>t
<1>5. attached
  BY <1>0, StacksAttached
<1> QED BY <1>0, <1>1, <1>3, <1>4, <1>5, RerenderKeeps DEF StaysWhole

-----------------------------------------------------------------------------
(* A report arrives.                                                       *)

LEMMA ReportTaken ==
    ASSUME BoardTyped, reports # <<>>, reports' = Tail(reports), previous' = previous, applied' = applied
    PROVE  \E n \in Nat :
              /\ Len(reports) = n + 1 /\ Len(reports') = n /\ DOMAIN reports = 1 .. n + 1 /\ DOMAIN reports' = 1 .. n
              /\ reports' \in Seq(Scenes) /\ Head(reports) = reports[1] /\ Head(reports) \in Scenes
              /\ \A j \in 1 .. n : reports'[j] = reports[j + 1] /\ (j \in Edits' <=> j + 1 \in Edits)
              /\ Edits' \in SUBSET (1 .. n) /\ Edits \in SUBSET (1 .. n + 1)
              /\ Pending' \in SUBSET Pending /\ \A j \in 1 .. n : Earlier(j)' \in SUBSET Earlier(j + 1)
              /\ 1 \in Edits <=> Head(reports) \notin {previous, applied}
              /\ 1 \in Edits => Head(reports) \in Pending /\ \A j \in 1 .. n : Head(reports) \in Earlier(j + 1)
<1>1. reports \in Seq(Scenes) /\ Len(reports) \in Nat /\ DOMAIN reports = 1 .. Len(reports) /\ Len(reports) # 0
  <2>1. reports \in Seq(Scenes)
    BY DEF BoardTyped
  <2> QED BY <2>1, EmptySeq
<1>2. PICK n \in Nat : n = Len(reports) - 1
  <2>1. Len(reports) - 1 \in Nat
    BY <1>1
  <2> QED BY <2>1
<1>3. /\ Head(reports) \in Scenes /\ Tail(reports) \in Seq(Scenes) /\ Len(Tail(reports)) = Len(reports) - 1
      /\ \A i \in 1 .. Len(Tail(reports)) : Tail(reports)[i] = reports[i + 1]
  BY <1>1, HeadTailProperties
<1>4. Head(reports) = reports[1]
  BY <1>1
<1>5. /\ Len(reports) = n + 1 /\ Len(reports') = n /\ DOMAIN reports = 1 .. n + 1 /\ DOMAIN reports' = 1 .. n
      /\ reports' \in Seq(Scenes) /\ \A j \in 1 .. n : reports'[j] = reports[j + 1]
  BY <1>1, <1>2, <1>3
<1>6. Edits' \in SUBSET (1 .. n) /\ Edits \in SUBSET (1 .. n + 1)
  BY <1>5 DEF Edits, EditsOf
<1>7. ASSUME NEW j \in 1 .. n PROVE j + 1 \in 1 .. n + 1 /\ (j \in Edits' <=> j + 1 \in Edits)
  <2>1. j + 1 \in 1 .. n + 1
    OBVIOUS
  <2> QED BY <1>5, <2>1 DEF Edits, EditsOf
<1>8. Pending' \in SUBSET Pending
  BY <1>5, <1>6, <1>7 DEF Pending
<1>9. ASSUME NEW j \in 1 .. n PROVE Earlier(j)' \in SUBSET Earlier(j + 1)
  <2> SUFFICES ASSUME NEW i \in Edits', i < j PROVE reports'[i] \in Earlier(j + 1)
    BY DEF Earlier
  <2>1. i \in 1 .. n /\ i + 1 \in Edits /\ i + 1 < j + 1
    BY <1>6, <1>7
  <2> QED BY <1>5, <2>1 DEF Earlier
<1>10. 1 \in Edits <=> Head(reports) \notin {previous, applied}
  <2>1. 1 \in DOMAIN reports
    BY <1>5
  <2> QED BY <1>4, <2>1 DEF Edits, EditsOf
<1>11. ASSUME 1 \in Edits PROVE Head(reports) \in Pending /\ \A j \in 1 .. n : Head(reports) \in Earlier(j + 1)
  <2>1. ASSUME NEW j \in 1 .. n PROVE 1 \in {k \in Edits : k < j + 1}
    BY <1>11
  <2> QED BY <1>4, <1>11, <2>1 DEF Pending, Earlier
<1> QED BY <1>3, <1>4, <1>5, <1>6, <1>7, <1>8, <1>9, <1>10, <1>11

LEMMA MergedIs ==
    ASSUME BoardTyped, NEW elements \in Scenes
    PROVE  /\ Merged(elements) \in Documents
           /\ \A i \in DOMAIN elements :
                 Merged(elements)[elements[i].id] =
                    IF stored[elements[i].id].v > elements[i].v THEN stored[elements[i].id]
                    ELSE [v |-> elements[i].v, n |-> elements[i].n]
           /\ \A id \in Ids \ Present(elements) :
                 Merged(elements)[id] = IF id \in Present(local) THEN Absent ELSE stored[id]
<1> DEFINE m == Merged(elements)
           The(id) == CHOOSE x \in ToSet(elements) : x.id = id
<1>0. /\ \A i \in DOMAIN elements : elements[i] \in Elements
      /\ \A i, j \in DOMAIN elements : elements[i].id = elements[j].id => i = j
  BY SceneIs
<1>1. stored \in Documents
  BY DEF BoardTyped
<1>2. ASSUME NEW i \in DOMAIN elements PROVE The(elements[i].id) = elements[i]
  <2>1. elements[i] \in ToSet(elements) /\ \A x \in ToSet(elements) : \E j \in DOMAIN elements : x = elements[j]
    BY DEF ToSet
  <2>2. \A x \in ToSet(elements) : x.id = elements[i].id => x = elements[i]
    BY <1>0, <2>1
  <2> QED BY <2>1, <2>2
<1>3. m = [id \in Ids |->
             IF id \in Present(elements)
             THEN IF stored[id].v > The(id).v THEN stored[id] ELSE [v |-> The(id).v, n |-> The(id).n]
             ELSE IF id \in Present(local) THEN Absent ELSE stored[id]]
  BY DEF Merged
<1> HIDE DEF m, The
<1>4. ASSUME NEW i \in DOMAIN elements
      PROVE  /\ elements[i].id \in Ids /\ elements[i].id \in Present(elements)
             /\ m[elements[i].id] = IF stored[elements[i].id].v > elements[i].v THEN stored[elements[i].id]
                                    ELSE [v |-> elements[i].v, n |-> elements[i].n]
             /\ [v |-> elements[i].v, n |-> elements[i].n] \in Shapes
  <2>1. elements[i].id \in Ids /\ elements[i].id \in Present(elements)
    BY <1>0, PresentIs DEF Elements
  <2>2. The(elements[i].id) = elements[i]
    BY <1>2
  <2>3. [v |-> elements[i].v, n |-> elements[i].n] \in Shapes
    BY <1>0 DEF Elements, Shapes
  <2> QED BY <1>3, <2>1, <2>2, <2>3
<1>5. \A id \in Ids \ Present(elements) : m[id] = IF id \in Present(local) THEN Absent ELSE stored[id]
  BY <1>3
<1>6. ASSUME NEW id \in Ids PROVE m[id] \in {Absent} \cup Shapes
  <2>0. stored[id] \in {Absent} \cup Shapes
    BY <1>1 DEF Documents
  <2>1. CASE id \in Present(elements)
    <3>1. PICK i \in DOMAIN elements : elements[i].id = id
      BY <2>1, PresentIs
    <3> QED BY <1>4, <2>0, <3>1
  <2>2. CASE id \notin Present(elements)
    BY <1>5, <2>0, <2>2
  <2> QED BY <2>1, <2>2
<1>7. m \in Documents
  BY <1>3, <1>6 DEF Documents
<1> QED BY <1>4, <1>5, <1>7 DEF m

LEMMA StackedIs ==
    ASSUME undoable \in Seq(Items), NEW old \in Documents, NEW new \in Documents, NEW u \in Stacked(old, new)
    PROVE  u \in Seq(Items)
<1>1. CASE u = Append(undoable, [old |-> old, new |-> new])
  <2>1. [old |-> old, new |-> new] \in Items
    BY DEF Items
  <2> QED BY <1>1, <2>1
<1>2. CASE undoable # <<>> /\ u = Append(Front(undoable), [Last(undoable) EXCEPT !.new = new])
  <2>1. Last(undoable) \in Items /\ Front(undoable) \in Seq(Items)
    BY <1>2, LastIs
  <2>2. [Last(undoable) EXCEPT !.new = new] \in Items
    BY <2>1 DEF Items
  <2> QED BY <1>2, <2>1, <2>2
<1> QED BY <1>1, <1>2 DEF Stacked

\* An echo and a stale scene change nothing but the reports.
LEMMA PassedOver ==
    ASSUME BindingIInv, reports # <<>>, reports' = Tail(reports), Head(reports) \in {previous, applied},
           local' \in {local, applied}, EchoIsLocal => local' = local,
           UNCHANGED <<stored, order, undoable, undone, lost>>,
           UNCHANGED <<attached, scene, previous, applied, erased, crossed, repeated, strokes, merges>>
    PROVE  BindingIInv'
<1>t. BoardTyped
  BY DEF BindingIInv
<1>1. PICK n \in Nat :
         /\ Len(reports) = n + 1 /\ Len(reports') = n /\ DOMAIN reports = 1 .. n + 1 /\ DOMAIN reports' = 1 .. n
         /\ reports' \in Seq(Scenes) /\ Head(reports) = reports[1] /\ Head(reports) \in Scenes
         /\ \A j \in 1 .. n : reports'[j] = reports[j + 1] /\ (j \in Edits' <=> j + 1 \in Edits)
         /\ Edits' \in SUBSET (1 .. n) /\ Edits \in SUBSET (1 .. n + 1)
         /\ Pending' \in SUBSET Pending /\ \A j \in 1 .. n : Earlier(j)' \in SUBSET Earlier(j + 1)
         /\ 1 \in Edits <=> Head(reports) \notin {previous, applied}
         /\ 1 \in Edits => Head(reports) \in Pending /\ \A j \in 1 .. n : Head(reports) \in Earlier(j + 1)
  BY <1>t, ReportTaken
<1>2. BoardTyped'
  <2>1. local' \in Scenes
    BY <1>t DEF BoardTyped
  <2> QED BY <1>1, <1>t, <2>1 DEF BoardTyped
<1>3. NothingYet'
  <2> SUFFICES ASSUME ~attached PROVE NothingYet'
    BY DEF NothingYet
  <2>0. /\ scene = <<>> /\ local = <<>> /\ previous = <<>> /\ applied = <<>>
        /\ \A j \in DOMAIN reports : reports[j] = <<>>
        /\ undoable = <<>> /\ undone = <<>>
    BY DEF BindingIInv, NothingYet
  <2>1. \A j \in 1 .. n : j + 1 \in DOMAIN reports
    BY <1>1
  <2>2. \A j \in DOMAIN reports' : reports'[j] = <<>>
    BY <1>1, <2>0, <2>1
  <2> QED BY <2>0, <2>2 DEF NothingYet
<1>4. ASSUME NEW j \in Edits' PROVE j \in 1 .. n /\ j + 1 \in Edits /\ reports'[j] = reports[j + 1]
  BY <1>1
<1>5. ASSUME ~crossed PROVE MissingIsErased'
  <2>0. MissingIsErased
    BY <1>5 DEF BindingIInv
  <2>1. ASSUME NEW j \in Edits', NEW x \in ({local, applied} \cup Earlier(j))',
               NEW id \in Present(x), id \notin Present(reports'[j])
        PROVE  id \in erased /\ id \notin Present(scene)
    <3>1. j + 1 \in Edits /\ x \in {local, applied} \cup Earlier(j + 1) /\ id \notin Present(reports[j + 1])
      BY <1>1, <1>4, <2>1
    <3> QED BY <2>0, <3>1 DEF MissingIsErased
  <2>2. ASSUME NEW x \in ({local, applied} \cup Pending)', NEW id \in Present(x), id \notin Present(scene)
        PROVE  id \in erased
    <3>1. x \in {local, applied} \cup Pending
      BY <1>1
    <3> QED BY <2>0, <2>2, <3>1 DEF MissingIsErased
  <2>3. lost' = {}
    BY <2>0 DEF MissingIsErased
  <2> QED BY <2>1, <2>2, <2>3 DEF MissingIsErased
<1>6. ASSUME ~crossed, ~repeated
      PROVE  (OrderIsWhole /\ LocalIsDrawn /\ SceneIsLast /\ EchoIsLocal /\ EditsAreLast /\ VersionsGrow)'
  <2>0. OrderIsWhole /\ LocalIsDrawn /\ SceneIsLast /\ EchoIsLocal /\ EditsAreLast /\ VersionsGrow
    BY <1>6 DEF BindingIInv
  <2>1. local' = local
    BY <2>0
  <2>2. OrderIsWhole' /\ LocalIsDrawn'
    BY <2>0, <2>1 DEF OrderIsWhole, LocalIsDrawn
  <2>3. SceneIsLast'
    <3>1. CASE Edits' = {}
      <4>1. ASSUME NEW k \in Edits PROVE FALSE
        <5>1. k # 1 /\ k \in 1 .. n + 1
          BY <1>1
        <5>2. k - 1 \in 1 .. n /\ (k - 1) + 1 = k
          BY <5>1
        <5>3. k - 1 \in Edits'
          BY <1>1, <5>2
        <5> QED BY <3>1, <5>3
      <4> QED BY <2>0, <2>1, <3>1, <4>1 DEF SceneIsLast
    <3>2. CASE Edits' # {}
      <4>1. PICK j \in Edits' : TRUE
        BY <3>2
      <4>2. n \in 1 .. n /\ Edits # {}
        BY <1>4, <4>1
      <4>3. reports'[n] = reports[n + 1]
        BY <1>1, <4>2
      <4> QED BY <1>1, <2>0, <3>2, <4>2, <4>3 DEF SceneIsLast
    <3> QED BY <3>1, <3>2
  <2>4. EchoIsLocal'
    <3>1. \A j \in 1 .. n : j + 1 \in DOMAIN reports
      BY <1>1
    <3> QED BY <1>1, <2>0, <2>1, <3>1 DEF EchoIsLocal
  <2>5. EditsAreLast'
    <3> SUFFICES ASSUME NEW i \in Edits', NEW j \in 1 .. n, i < j PROVE j \in Edits'
      BY <1>1 DEF EditsAreLast
    <3>1. i + 1 \in Edits /\ j + 1 \in DOMAIN reports /\ i + 1 < j + 1
      BY <1>1, <1>4
    <3>2. j + 1 \in Edits
      BY <2>0, <3>1 DEF EditsAreLast
    <3> QED BY <1>1, <3>2
  <2>6. VersionsGrow'
    <3>1. ASSUME NEW x \in ({local} \cup Pending)' PROVE NotNewer(x, scene)
      <4>1. x \in {local} \cup Pending
        BY <1>1, <2>1
      <4> QED BY <2>0, <4>1 DEF VersionsGrow
    <3>2. ASSUME NEW j \in Edits', NEW x \in ({local} \cup Earlier(j))' PROVE NotNewer(x, reports'[j])
      <4>1. j + 1 \in Edits /\ x \in {local} \cup Earlier(j + 1) /\ reports'[j] = reports[j + 1]
        BY <1>1, <1>4, <2>1
      <4> QED BY <2>0, <4>1 DEF VersionsGrow
    <3> QED BY <3>1, <3>2 DEF VersionsGrow
  <2> QED BY <2>2, <2>3, <2>4, <2>5, <2>6
<1> QED BY <1>2, <1>3, <1>5, <1>6 DEF BindingIInv

\* An edit goes into the document.
LEMMA EditTaken ==
    ASSUME BindingIInv, reports # <<>>, reports' = Tail(reports), Head(reports) \notin {previous, applied},
           local' = Head(reports), stored' = Merged(Head(reports)),
           order' = ReconcileOrder(order, IdsOf(Head(reports))),
           undoable' \in Stacked(stored, stored'), undone' = <<>>,
           lost' = lost \cup {id \in Ids \ erased : There(stored, id) /\ ~There(stored', id)},
           UNCHANGED <<attached, scene, previous, applied, erased, crossed, repeated, strokes, merges>>
    PROVE  BindingIInv'
<1>t. BoardTyped
  BY DEF BindingIInv
<1>1. PICK n \in Nat :
         /\ Len(reports) = n + 1 /\ Len(reports') = n /\ DOMAIN reports = 1 .. n + 1 /\ DOMAIN reports' = 1 .. n
         /\ reports' \in Seq(Scenes) /\ Head(reports) = reports[1] /\ Head(reports) \in Scenes
         /\ \A j \in 1 .. n : reports'[j] = reports[j + 1] /\ (j \in Edits' <=> j + 1 \in Edits)
         /\ Edits' \in SUBSET (1 .. n) /\ Edits \in SUBSET (1 .. n + 1)
         /\ Pending' \in SUBSET Pending /\ \A j \in 1 .. n : Earlier(j)' \in SUBSET Earlier(j + 1)
         /\ 1 \in Edits <=> Head(reports) \notin {previous, applied}
         /\ 1 \in Edits => Head(reports) \in Pending /\ \A j \in 1 .. n : Head(reports) \in Earlier(j + 1)
  BY <1>t, ReportTaken
<1>2. PICK elements \in Scenes : elements = Head(reports)
  BY <1>1
<1>3. /\ 1 \in Edits /\ elements = reports[1] /\ elements \in Pending /\ local' = elements
      /\ \A j \in 1 .. n : elements \in Earlier(j + 1)
  BY <1>1, <1>2
<1>4. attached
  <2>1. 1 \in DOMAIN reports
    BY <1>1
  <2> QED BY <1>2, <1>3, <2>1 DEF BindingIInv, NothingYet
<1>5. /\ elements \in Seq(Elements) /\ IdsOf(elements) \in Seq(Ids) /\ Distinct(IdsOf(elements)) /\ Present(elements) \in SUBSET Ids
      /\ \A i \in DOMAIN elements : elements[i] \in Elements
  BY SceneIs
<1>6. order' = IdsOf(elements)
  <2>1. order \in Seq(Ids)
    BY <1>t DEF BoardTyped
  <2> QED BY <1>2, <1>5, <2>1, ReconcileIs
<1>7. /\ stored' \in Documents
      /\ \A i \in DOMAIN elements :
            stored'[elements[i].id] =
               IF stored[elements[i].id].v > elements[i].v THEN stored[elements[i].id]
               ELSE [v |-> elements[i].v, n |-> elements[i].n]
      /\ \A id \in Ids \ Present(elements) :
            stored'[id] = IF id \in Present(local) THEN Absent ELSE stored[id]
  BY <1>t, <1>2, MergedIs
<1>8. BoardTyped'
  <2>1. stored \in Documents /\ undoable \in Seq(Items)
    BY <1>t DEF BoardTyped
  <2>2. undoable' \in Seq(Items) /\ undone' \in Seq(Items)
    BY <1>7, <2>1, StackedIs
  <2>3. local' \in Scenes /\ lost' \in SUBSET Ids
    BY <1>3, <1>t DEF BoardTyped
  <2> QED BY <1>1, <1>5, <1>6, <1>7, <1>t, <2>2, <2>3 DEF BoardTyped
<1>9. NothingYet'
  BY <1>4 DEF NothingYet
<1>10. ASSUME NEW j \in Edits' PROVE j \in 1 .. n /\ j + 1 \in Edits /\ reports'[j] = reports[j + 1]
  BY <1>1
<1>11. ASSUME NEW id \in Present(elements) PROVE There(stored', id)
  <2>1. PICK i \in DOMAIN elements : elements[i].id = id
    BY PresentIs
  <2>2. elements[i].v \in Nat \ {0} /\ id \in Ids
    BY <1>5, <2>1 DEF Elements
  <2>3. CASE stored[id].v > elements[i].v
    <3>1. stored[id] \in {Absent} \cup Shapes
      BY <1>t, <2>2 DEF BoardTyped, Documents
    <3>2. stored[id] # Absent
      BY <2>2, <2>3 DEF Absent
    <3> QED BY <1>7, <2>1, <2>3, <3>2 DEF There
  <2>4. CASE ~(stored[id].v > elements[i].v)
    <3>1. stored'[id].v # 0
      <4>1. stored'[id] = [v |-> elements[i].v, n |-> elements[i].n]
        BY <1>7, <2>1, <2>4
      <4> QED BY <2>2, <4>1
    <3> QED BY <3>1 DEF There, Absent
  <2> QED BY <2>3, <2>4
<1>12. ASSUME ~crossed PROVE MissingIsErased'
  <2>0. MissingIsErased
    BY <1>12 DEF BindingIInv
  <2>1. ASSUME NEW j \in Edits', NEW x \in ({local, applied} \cup Earlier(j))',
               NEW id \in Present(x), id \notin Present(reports'[j])
        PROVE  id \in erased /\ id \notin Present(scene)
    <3>1. j + 1 \in Edits /\ x \in {local, applied} \cup Earlier(j + 1) /\ id \notin Present(reports[j + 1])
      BY <1>1, <1>3, <1>10, <2>1
    <3> QED BY <2>0, <3>1 DEF MissingIsErased
  <2>2. ASSUME NEW x \in ({local, applied} \cup Pending)', NEW id \in Present(x), id \notin Present(scene)
        PROVE  id \in erased
    <3>1. x \in {local, applied} \cup Pending
      BY <1>1, <1>3
    <3> QED BY <2>0, <2>2, <3>1 DEF MissingIsErased
  <2>3. ASSUME NEW id \in Ids \ erased, There(stored, id), ~There(stored', id) PROVE FALSE
    <3>1. id \notin Present(elements)
      BY <1>11, <2>3
    <3>2. id \in Present(local)
      BY <1>7, <2>3, <3>1 DEF There
    <3>3. id \in erased
      BY <1>3, <2>0, <3>1, <3>2 DEF MissingIsErased
    <3> QED BY <3>3
  <2>4. lost' = {}
    BY <2>0, <2>3 DEF MissingIsErased
  <2> QED BY <2>1, <2>2, <2>4 DEF MissingIsErased
<1>13. ASSUME ~crossed, ~repeated
      PROVE  (OrderIsWhole /\ LocalIsDrawn /\ SceneIsLast /\ EchoIsLocal /\ EditsAreLast /\ VersionsGrow)'
  <2>0. OrderIsWhole /\ LocalIsDrawn /\ SceneIsLast /\ EchoIsLocal /\ EditsAreLast /\ VersionsGrow
    BY <1>13 DEF BindingIInv
  <2>1. ASSUME NEW id \in ThereIn(stored)
        PROVE  \E a \in DOMAIN local : local[a].id = id /\ local[a].v = stored[id].v
    <3>1. PICK a \in DOMAIN order : order[a] = id
      BY <2>0 DEF OrderIsWhole, ToSet
    <3>2. a \in DOMAIN local /\ local[a] = Element(order[a], stored[order[a]])
      BY <1>4, <2>0 DEF LocalIsDrawn, Drawn
    <3> QED BY <3>1, <3>2 DEF Element
  <2>2. Present(local) = ThereIn(stored)
    <3>1. \A a \in DOMAIN local : local[a].id \in ThereIn(stored)
      <4>1. local = [a \in DOMAIN order |-> Element(order[a], stored[order[a]])]
        BY <1>4, <2>0 DEF LocalIsDrawn, Drawn
      <4>2. \A a \in DOMAIN local : a \in DOMAIN order /\ local[a].id = order[a]
        BY <4>1 DEF Element
      <4>3. \A a \in DOMAIN order : order[a] \in ThereIn(stored)
        BY <2>0 DEF OrderIsWhole, ToSet
      <4> QED BY <4>2, <4>3
    <3>2. Present(local) = {local[a].id : a \in DOMAIN local}
      BY PresentIs
    <3>3. ThereIn(stored) \in SUBSET Present(local)
      BY <2>1, <3>2
    <3>4. Present(local) \in SUBSET ThereIn(stored)
      BY <3>1, <3>2
    <3> QED BY <3>3, <3>4
  <2>3. ASSUME NEW i \in DOMAIN elements
        PROVE  stored'[elements[i].id] = [v |-> elements[i].v, n |-> elements[i].n]
    <3> DEFINE id == elements[i].id
    <3>0. id \in Ids /\ elements[i].v \in Nat
      BY <1>5 DEF Elements
    <3>1. CASE id \in ThereIn(stored)
      <4>1. PICK a \in DOMAIN local : local[a].id = id /\ local[a].v = stored[id].v
        BY <2>1, <3>1
      <4>2. local[a].v <= elements[i].v
        BY <1>3, <2>0, <4>1 DEF VersionsGrow, NotNewer
      <4>3. local \in Scenes
        BY <1>t DEF BoardTyped
      <4>4. local[a].v \in Nat
        BY <4>3, SceneIs DEF Elements
      <4>5. ~(stored[id].v > elements[i].v)
        BY <3>0, <4>1, <4>2, <4>4
      <4> QED BY <1>7, <4>5
    <3>2. CASE id \notin ThereIn(stored)
      <4>1. stored[id].v = 0
        BY <3>0, <3>2 DEF ThereIn, There, Absent
      <4>2. ~(stored[id].v > elements[i].v)
        BY <3>0, <4>1
      <4> QED BY <1>7, <4>2
    <3> QED BY <3>1, <3>2
  <2>4. OrderIsWhole'
    <3>1. ThereIn(stored') = Present(elements)
      <4>1. ASSUME NEW id \in Ids \ Present(elements) PROVE ~There(stored', id)
        BY <1>7, <2>2 DEF There, ThereIn
      <4> QED BY <1>5, <1>11, <4>1 DEF ThereIn
    <3> QED BY <1>6, <3>1 DEF OrderIsWhole, Present
  <2>5. LocalIsDrawn'
    <3>1. DOMAIN order' = DOMAIN elements /\ \A i \in DOMAIN elements : order'[i] = elements[i].id
      BY <1>6, PresentIs
    <3>2. ASSUME NEW i \in DOMAIN elements PROVE elements[i] = Element(order'[i], stored'[order'[i]])
      <4>1. elements[i] = [id |-> elements[i].id, v |-> elements[i].v, n |-> elements[i].n]
        BY <1>5 DEF Elements
      <4>2. order'[i] = elements[i].id /\ stored'[order'[i]] = [v |-> elements[i].v, n |-> elements[i].n]
        BY <2>3, <3>1
      <4> QED BY <4>1, <4>2 DEF Element
    <3>3. elements = [i \in DOMAIN elements |-> elements[i]]
      BY <1>5
    <3>4. elements = [i \in DOMAIN order' |-> Element(order'[i], stored'[order'[i]])]
      BY <3>1, <3>2, <3>3
    <3> QED BY <1>3, <3>4 DEF LocalIsDrawn, Drawn
  <2>6. \A j \in 1 .. n : j + 1 \in Edits /\ j \in Edits'
    <3>1. \A j \in 1 .. n : j + 1 \in DOMAIN reports /\ 1 < j + 1
      BY <1>1
    <3> QED BY <1>1, <1>3, <2>0, <3>1 DEF EditsAreLast
  <2>7. SceneIsLast'
    <3>1. reports[n + 1] = scene
      BY <1>1, <1>3, <1>4, <2>0 DEF SceneIsLast
    <3>2. CASE n = 0
      <4>1. Edits' = {} /\ elements = scene
        BY <1>1, <1>3, <3>1, <3>2
      <4> QED BY <1>3, <4>1 DEF SceneIsLast
    <3>3. CASE n # 0
      <4>1. n \in 1 .. n
        BY <3>3
      <4>2. Edits' # {} /\ reports'[n] = scene
        BY <1>1, <2>6, <3>1, <4>1
      <4> QED BY <1>1, <4>2 DEF SceneIsLast
    <3> QED BY <3>2, <3>3
  <2>8. EchoIsLocal'
    <3>1. \A j \in 1 .. n : reports'[j] # applied
      BY <2>6 DEF Edits, EditsOf
    <3> QED BY <1>1, <3>1 DEF EchoIsLocal
  <2>9. EditsAreLast'
    BY <1>1, <2>6 DEF EditsAreLast
  <2>10. VersionsGrow'
    <3>1. ASSUME NEW x \in ({local} \cup Pending)' PROVE NotNewer(x, scene)
      <4>1. x \in {local} \cup Pending
        BY <1>1, <1>3
      <4> QED BY <2>0, <4>1 DEF VersionsGrow
    <3>2. ASSUME NEW j \in Edits', NEW x \in ({local} \cup Earlier(j))' PROVE NotNewer(x, reports'[j])
      <4>1. j + 1 \in Edits /\ x \in {local} \cup Earlier(j + 1) /\ reports'[j] = reports[j + 1]
        BY <1>1, <1>3, <1>10
      <4> QED BY <2>0, <4>1 DEF VersionsGrow
    <3> QED BY <3>1, <3>2 DEF VersionsGrow
  <2> QED BY <2>4, <2>5, <2>7, <2>8, <2>9, <2>10
<1> QED BY <1>8, <1>9, <1>12, <1>13 DEF BindingIInv

LEMMA OnChangeStep == ASSUME BindingIInv, OnChange PROVE BindingIInv'
<1> DEFINE elements == Head(reports)
<1>0. /\ reports # <<>> /\ reports' = Tail(reports)
      /\ UNCHANGED <<attached, scene, previous, applied, erased, crossed, repeated, strokes, merges>>
  BY DEF OnChange
<1>1. CASE elements = applied
  <2>1. local' = applied /\ UNCHANGED <<stored, order, undoable, undone, lost>>
    BY <1>1 DEF OnChange, SameScene, document, stacks
  <2>2. ASSUME EchoIsLocal PROVE local' = local
    <3>1. reports \in Seq(Scenes)
      BY DEF BindingIInv, BoardTyped
    <3>2. 1 \in DOMAIN reports /\ reports[1] = applied
      BY <1>0, <1>1, <3>1, EmptySeq
    <3> QED BY <2>1, <2>2, <3>2 DEF EchoIsLocal
  <2> QED BY <1>0, <1>1, <2>1, <2>2, PassedOver
<1>2. CASE elements # applied /\ elements = previous
  <2>1. UNCHANGED <<stored, order, local, undoable, undone, lost>>
    BY <1>2 DEF OnChange, SameScene, IsStale, document, stacks
  <2> QED BY <1>0, <1>2, <2>1, PassedOver
<1>3. CASE elements # applied /\ elements # previous
  <2>1. /\ local' = Head(reports) /\ stored' = Merged(Head(reports))
        /\ order' = ReconcileOrder(order, IdsOf(Head(reports)))
        /\ undoable' \in Stacked(stored, stored') /\ undone' = <<>>
        /\ lost' = lost \cup {id \in Ids \ erased : There(stored, id) /\ ~There(stored', id)}
    BY <1>3 DEF OnChange, SameScene, IsStale
  <2> QED BY <1>0, <1>3, <2>1, EditTaken
<1> QED BY <1>1, <1>2, <1>3

-----------------------------------------------------------------------------

LEMMA BindingStarts == BindingInit => BindingIInv
<1> SUFFICES ASSUME BindingInit PROVE BindingIInv
  OBVIOUS
<1>0. /\ stored = [id \in Ids |-> Absent] /\ order = <<>>
      /\ attached = FALSE /\ scene = <<>> /\ reports \in {<<>>, <<(<<>>)>>}
      /\ local = <<>> /\ previous = <<>> /\ applied = <<>>
      /\ undoable = <<>> /\ undone = <<>>
      /\ erased = {} /\ lost = {} /\ crossed = FALSE /\ repeated = FALSE
      /\ strokes = 0 /\ merges = 0
  BY DEF BindingInit
<1>1. <<>> \in Scenes /\ Present(<<>>) = {} /\ DOMAIN <<>> = {}
  BY EmptyScene
<1>2. reports \in Seq(Scenes) /\ \A j \in DOMAIN reports : reports[j] = <<>>
  <2>1. CASE reports = <<>>
    BY <1>1, <2>1
  <2>2. CASE reports = <<(<<>>)>>
    <3> DEFINE e == <<>>
    <3>1. e \in Scenes /\ reports = <<e>> /\ e = <<>>
      BY <1>1, <2>2
    <3> HIDE DEF e
    <3>2. <<e>> \in Seq(Scenes) /\ \A j \in DOMAIN <<e>> : <<e>>[j] = e
      BY <3>1
    <3> QED BY <3>1, <3>2
  <2> QED BY <1>0, <2>1, <2>2
<1>3. BoardTyped
  <2>1. stored \in Documents
    BY <1>0 DEF Documents
  <2>2. order \in Seq(Ids) /\ Distinct(order) /\ undoable \in Seq(Items) /\ undone \in Seq(Items)
    BY <1>0 DEF Distinct
  <2> QED BY <1>0, <1>1, <1>2, <2>1, <2>2 DEF BoardTyped
<1>4. NothingYet
  BY <1>0, <1>2 DEF NothingYet
<1>5. Edits = {} /\ Pending = {}
  BY <1>0, <1>2 DEF Edits, EditsOf, Pending
<1>6. MissingIsErased
  BY <1>0, <1>5 DEF MissingIsErased
<1>7. OrderIsWhole
  <2>1. ThereIn(stored) = {}
    BY <1>0 DEF ThereIn, There
  <2>2. ToSet(order) = {}
    BY <1>0, <1>1 DEF ToSet
  <2> QED BY <2>1, <2>2 DEF OrderIsWhole
<1>8. LocalIsDrawn /\ SceneIsLast /\ EchoIsLocal /\ EditsAreLast
  BY <1>0, <1>5 DEF LocalIsDrawn, SceneIsLast, EchoIsLocal, EditsAreLast
<1>9. VersionsGrow
  BY <1>0, <1>1, <1>5, SceneIs DEF VersionsGrow
<1> QED BY <1>3, <1>4, <1>6, <1>7, <1>8, <1>9 DEF BindingIInv

LEMMA BindingSteps == BindingIInv /\ [BindingNext]_bindingVars => BindingIInv'
<1> SUFFICES ASSUME BindingIInv, [BindingNext]_bindingVars PROVE BindingIInv'
  OBVIOUS
<1>1. CASE Attach
  BY <1>1, AttachStep
<1>2. CASE OnChange
  BY <1>2, OnChangeStep
<1>3. CASE Undo
  BY <1>3, UndoStep
<1>4. CASE Redo
  BY <1>4, RedoStep
<1>5. CASE \E id \in Ids : AddElement(id)
  BY <1>5, AddStep
<1>6. CASE \E id \in Ids : Receive(id, Absent)
  BY <1>6, ReceiveStep
<1>7. CASE \E id \in Ids : \E v, n \in 1 .. MaxVersion : Receive(id, [v |-> v, n |-> n])
  <2>1. PICK id \in Ids, v \in 1 .. MaxVersion, n \in 1 .. MaxVersion : Receive(id, [v |-> v, n |-> n])
    BY <1>7
  <2>2. [v |-> v, n |-> n] \in {Absent} \cup Shapes
    <3>1. MaxVersion \in Nat
      BY BoundsArePositive
    <3>2. v \in Nat \ {0} /\ n \in Nat
      BY <3>1
    <3> QED BY <3>2 DEF Shapes
  <2> QED BY <2>1, <2>2, ReceiveStep
<1>8. CASE \E i \in DOMAIN scene : GrowStroke(i)
  BY <1>8, GrowStep
<1>9. CASE \E i \in DOMAIN scene : ChangeElement(i)
  BY <1>9, ChangeStep
<1>10. CASE \E i \in DOMAIN scene : EraseElement(i)
  BY <1>10, EraseStep
<1>11. CASE UNCHANGED bindingVars
  <2>0. UNCHANGED <<stored, order, attached, scene, reports, local, previous, applied, undoable, undone,
                    erased, lost, crossed, repeated, strokes, merges>>
    BY <1>11 DEF bindingVars, document, engine, snapshots, stacks, history
  <2>1. BoardTyped' /\ NothingYet'
    BY <2>0 DEF BindingIInv, BoardTyped, NothingYet
  <2>2. Edits' = Edits /\ Pending' = Pending /\ \A j : Earlier(j)' = Earlier(j)
    BY <2>0 DEF Edits, EditsOf, Pending, Earlier
  <2>3. MissingIsErased => MissingIsErased'
    BY <2>0, <2>2 DEF MissingIsErased
  <2>4. /\ OrderIsWhole => OrderIsWhole'
        /\ LocalIsDrawn => LocalIsDrawn'
        /\ SceneIsLast => SceneIsLast'
        /\ EchoIsLocal => EchoIsLocal'
        /\ EditsAreLast => EditsAreLast'
    BY <2>0, <2>2 DEF OrderIsWhole, LocalIsDrawn, SceneIsLast, EchoIsLocal, EditsAreLast
  <2>5. VersionsGrow => VersionsGrow'
    BY <2>0, <2>2 DEF VersionsGrow
  <2>6. crossed' = crossed /\ repeated' = repeated
    BY <2>0
  <2> QED BY <2>1, <2>3, <2>4, <2>5, <2>6 DEF BindingIInv
<1> QED BY <1>1, <1>2, <1>3, <1>4, <1>5, <1>6, <1>7, <1>8, <1>9, <1>10, <1>11 DEF BindingNext

LEMMA BindingImplied == BindingIInv => BindingInv
<1> SUFFICES ASSUME BindingIInv, ~crossed
             PROVE  /\ lost = {}
                    /\ attached /\ reports = <<>> /\ ~repeated =>
                         /\ scene = Rendered(stored, order)
                         /\ Len(order) = Cardinality({id \in Ids : There(stored, id)})
  BY DEF BindingInv
<1>1. lost = {}
  BY DEF BindingIInv, MissingIsErased
<1>2. ASSUME attached, reports = <<>>, ~repeated
      PROVE  scene = Rendered(stored, order) /\ Len(order) = Cardinality({id \in Ids : There(stored, id)})
  <2>0. OrderIsWhole /\ LocalIsDrawn /\ SceneIsLast
    BY <1>2 DEF BindingIInv
  <2>1. stored \in Documents /\ order \in Seq(Ids) /\ Distinct(order)
    BY DEF BindingIInv, BoardTyped
  <2>2. Edits = {}
    BY <1>2 DEF Edits, EditsOf
  <2>3. scene = Drawn(stored, order)
    BY <1>2, <2>0, <2>2 DEF SceneIsLast, LocalIsDrawn
  <2>4. Rendered(stored, order) = Drawn(stored, order)
    BY <2>0, <2>1, RenderedIs DEF OrderIsWhole
  <2>5. Cardinality(ThereIn(stored)) = Len(order)
    <3> DEFINE L == Len(order)
               N == 1 .. L
               T == ThereIn(stored)
    <3>1. L \in Nat /\ DOMAIN order = N
      BY <2>1
    <3>2. T = ToSet(order)
      BY <2>0 DEF OrderIsWhole
    <3>3. order \in Bijection(N, T)
      <4> HIDE DEF T
      <4>1. order \in [N -> T]
        BY <2>1, <3>1, <3>2 DEF ToSet
      <4>2. \A i, j \in N : order[i] = order[j] => i = j
        BY <2>1, <3>1 DEF Distinct
      <4>3. \A t \in T : \E i \in N : order[i] = t
        BY <3>1, <3>2 DEF ToSet
      <4> HIDE DEF N
      <4> QED BY <4>1, <4>2, <4>3 DEF Bijection, Injection, Surjection, IsInjective
    <3>4. IsFiniteSet(N) /\ Cardinality(N) = IF 1 > L THEN 0 ELSE L - 1 + 1
      BY <3>1, FS_Interval
    <3> HIDE DEF N, T
    <3>5. Cardinality(T) = Cardinality(N)
      BY <3>3, <3>4, FS_Bijection DEF ExistsBijection
    <3> QED BY <3>1, <3>4, <3>5 DEF T
  <2> QED BY <2>3, <2>4, <2>5 DEF ThereIn
<1> QED BY <1>1, <1>2

\* Whatever the engine echoes, repeats or reports late, the binding deletes
\* nothing that its user has not erased, and once all is reported document and
\* scene show the same.
THEOREM BoardAlwaysBound == BindingSpec => []BindingInv
<1>1. BindingInit => BindingIInv
  BY BindingStarts
<1>2. BindingIInv /\ [BindingNext]_bindingVars => BindingIInv'
  BY BindingSteps
<1>3. BindingIInv => BindingInv
  BY BindingImplied
<1> QED BY <1>1, <1>2, <1>3, PTL DEF BindingSpec

-----------------------------------------------------------------------------
(* The client as a whole: each step is one of one part.                    *)

LEMMA EachPartSteps ==
    [Next]_vars => [PublishNext]_publishVars /\ [CaptureNext]_captureVars /\ [BindingNext]_bindingVars
<1> SUFFICES ASSUME [Next]_vars
             PROVE  [PublishNext]_publishVars /\ [CaptureNext]_captureVars /\ [BindingNext]_bindingVars
  OBVIOUS
<1>1. CASE UNCHANGED vars
  BY <1>1 DEF vars
<1>2. CASE Next
  BY <1>2 DEF Next
<1> QED BY <1>1, <1>2

\* The user's captures, tracks and drawings are what the user, and the others,
\* are shown, in every part of the client.
THEOREM ClientAlwaysInOrder == Spec => []ClientInv
<1>1. Init => PublishInit /\ CaptureInit /\ BindingInit
  BY DEF Init
<1>2. Spec => PublishSpec /\ CaptureSpec /\ BindingSpec
  BY <1>1, EachPartSteps, PTL DEF Spec, PublishSpec, CaptureSpec, BindingSpec
<1> QED BY <1>2, PublishAlwaysInOrder, CaptureAlwaysInOrder, BoardAlwaysBound, PTL DEF ClientInv

=============================================================================
