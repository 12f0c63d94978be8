------------------------------- MODULE Capture -------------------------------
(***************************************************************************)
(* One capture of the participant's, camera or microphone, alone with the  *)
(* browser: MediaCapture with its states (packages/client/src/media:       *)
(* capture.ts, capture-state.ts, error-classifier.ts) and the hook that    *)
(* shows it and switches devices one at a time (packages/react/src/hooks:  *)
(* use-device-controls.ts, derive-media-control.ts).  SdkPublish has what  *)
(* becomes of the tracks, Devices which device is asked for.               *)
(*                                                                         *)
(* getUserMedia answers in any order; a stream is known by the number of   *)
(* the request that was granted it.                                        *)
(***************************************************************************)
EXTENDS Naturals, FiniteSets

CONSTANT MaxRequests \* bound: starts and stops of the capture

ASSUME RequestsAreNat == MaxRequests \in Nat

VARIABLES
    state,      \* the capture's state
    request,    \* currentRequestId
    stream,     \* the request whose stream is held, 0 for none
    known,      \* a deviceId is known
    retryDue,   \* pendingRetryTimer
    asking,     \* getUserMedia under way: [n, by, device], device TRUE for a
                \* device that was named
    open,       \* the streams whose track is live
    shownState, shownStream,  \* the hook's snapshot
    switching,  \* switchingRef
    wishedOff,  \* history: the last thing that was asked for is off
    restarted   \* history: a request started another after it was overtaken

captureVars == <<state, request, stream, known, retryDue, asking, open,
                 shownState, shownStream, switching, wishedOff, restarted>>

Problems == {"device_error", "no_device", "in_use", "not_found", "system_denied"}
CaptureStates == {"stopped", "starting", "active", "canceled"} \cup Problems

\* What a failed getUserMedia is classified as; `missing' is said of a device
\* that was asked for by name and is not there.
CaptureErrors ==
    [missing : {TRUE}, class : {"not_found", "device_error"}]
      \cup [missing : {FALSE}, class : (Problems \ {"no_device"}) \cup {"canceled"}]

\* How a control renders a state.
StatusOf(s) ==
    CASE s = "active" -> "on"
      [] s = "starting" -> "loading"
      [] s \in {"stopped", "canceled"} -> "off"
      [] s \in Problems -> "error"

CaptureInit ==
    /\ state = "stopped" /\ request = 0 /\ stream = 0 /\ known = FALSE
    /\ retryDue = FALSE /\ asking = {} /\ open = {}
    /\ shownState = "stopped" /\ shownStream = 0 /\ switching = FALSE
    /\ wishedOff = TRUE /\ restarted = FALSE

-----------------------------------------------------------------------------

\* setState: the hook takes its snapshot in the callback.
SetState(s, held) ==
    /\ state' = s /\ stream' = held
    /\ shownState' = s /\ shownStream' = held

\* start(), up to the wait for the browser; `others' are the requests that
\* are under way beside it.
AskBrowser(by, device, others, held) ==
    /\ request' = request + 1 /\ retryDue' = FALSE
    /\ SetState("starting", held)
    /\ asking' = others \cup {[n |-> request', by |-> by, device |-> device]}

\* start() of the application: with a device, or as the browser likes.
AskForCapture(device) ==
    /\ request < MaxRequests
    /\ AskBrowser("user", device, asking, stream)
    /\ wishedOff' = FALSE
    /\ UNCHANGED <<known, open, switching, restarted>>

\* guardedSwitch of an active capture, with switchDevice; an inactive one only
\* has its choice recorded.
SwitchCapture ==
    /\ request < MaxRequests /\ state = "active" /\ ~switching
    /\ open' = open \ {stream}
    /\ AskBrowser("switch", TRUE, asking, 0)
    /\ switching' = TRUE /\ wishedOff' = FALSE
    /\ UNCHANGED <<known, restarted>>

\* stop().
EndCapture ==
    /\ request < MaxRequests /\ request' = request + 1
    /\ retryDue' = FALSE
    /\ open' = open \ {stream}
    /\ SetState("stopped", 0)
    /\ wishedOff' = TRUE
    /\ UNCHANGED <<known, asking, switching, restarted>>

\* Variant: no request is overtaken.
NeverOvertaken(a) == FALSE

\* A later start or stop has taken the place of the request.
Overtaken(a) == a.n # request

\* The finally of guardedSwitch.
Returned(a) == asking' = asking \ {a} /\ switching' = (switching /\ a.by # "switch")

\* A stream comes: an overtaken request closes it at once, another one has it
\* take the place of the one there was.
StreamComes(a) ==
    /\ a \in asking /\ Returned(a)
    /\ IF Overtaken(a)
       THEN UNCHANGED <<state, stream, shownState, shownStream, open, known>>
       ELSE /\ open' = (open \ {stream}) \cup {a.n}
            /\ SetState("active", a.n)
            /\ known' \in {TRUE, a.device}
    /\ UNCHANGED <<request, retryDue, wishedOff, restarted>>

\* A stream without a track of the kind is closed.
NoTrackComes(a) ==
    /\ a \in asking /\ Returned(a)
    /\ IF Overtaken(a) THEN UNCHANGED <<state, stream, shownState, shownStream>>
       ELSE SetState("no_device", stream)
    /\ UNCHANGED <<request, retryDue, open, known, wishedOff, restarted>>

\* The device that was asked for is gone: once more with the default one,
\* by whoever has been overtaken too.
DeviceMissing(a) ==
    /\ a \in asking /\ a.device
    /\ AskBrowser(a.by, FALSE, asking \ {a}, stream)
    /\ restarted' = (restarted \/ Overtaken(a))
    /\ UNCHANGED <<open, known, switching, wishedOff>>

\* The browser refuses; one that is in use is asked for again in 2 s.
CaptureRefused(a, e) ==
    /\ a \in asking /\ ~(a.device /\ e.missing) /\ Returned(a)
    /\ IF Overtaken(a) THEN UNCHANGED <<state, stream, shownState, shownStream, retryDue>>
       ELSE SetState(e.class, stream) /\ retryDue' = (retryDue \/ e.class = "in_use")
    /\ UNCHANGED <<request, open, known, wishedOff, restarted>>

\* handleNotReadableError's timer.
RetryIsDue ==
    /\ retryDue /\ request < MaxRequests
    /\ AskBrowser("timer", known, asking, stream)
    /\ UNCHANGED <<open, known, switching, wishedOff, restarted>>

\* The device of a live track goes: `ended' counts for the current request.
TrackEnds(n) ==
    /\ n \in open /\ open' = open \ {n}
    /\ IF n = request THEN known' = FALSE /\ SetState("not_found", stream)
       ELSE UNCHANGED <<known, state, stream, shownState, shownStream>>
    /\ UNCHANGED <<request, retryDue, asking, switching, wishedOff, restarted>>

CaptureNext ==
    \/ SwitchCapture \/ EndCapture \/ RetryIsDue
    \/ \E device \in BOOLEAN : AskForCapture(device)
    \/ \E a \in asking :
          \/ StreamComes(a) \/ NoTrackComes(a) \/ DeviceMissing(a)
          \/ \E e \in CaptureErrors : CaptureRefused(a, e)
    \/ \E n \in open : TrackEnds(n)

CaptureSpec == CaptureInit /\ [][CaptureNext]_captureVars

-----------------------------------------------------------------------------
(* Properties.                                                             *)

\* Whatever is started, stopped, switched and retried over a browser that
\* answers late: no track is live but the one that is held, none is held
\* after a stop, and the one that a control shows as on is live and is what
\* was asked for last; `loading' ends, for there is a request that it waits
\* for, and the next switch is not locked out by one that is over; a retry is
\* due as long as the device is said to be in use, and never otherwise; and
\* what was stopped stays off, unless an overtaken request has started
\* another (see OffIsOff).
CaptureInv ==
    /\ open \subseteq {stream} \ {0}
    /\ StatusOf(shownState) = "on" => shownStream = request /\ shownStream \in open
    /\ state = "stopped" => stream = 0
    /\ StatusOf(shownState) = "loading" <=> \E a \in asking : a.n = request
    /\ switching <=> \E a \in asking : a.by = "switch"
    /\ retryDue <=> state = "in_use"
    /\ shownState = state /\ shownStream = stream
    /\ wishedOff /\ ~restarted => state = "stopped"

-----------------------------------------------------------------------------
(* What one would expect, and the code does not do (README, Divergences).  *)

\* An overtaken start whose device is missing starts again (capture.ts:102),
\* after a stop as well.
OffIsOff == wishedOff => open = {}

\* A start that fails leaves the stream of the one before open (capture.ts:110)
\* under a control that is off, or in error.
OnlyOnIsLive == open # {} => StatusOf(state) \in {"on", "loading"}
=============================================================================
