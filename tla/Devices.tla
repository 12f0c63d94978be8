------------------------------- MODULE Devices -------------------------------
(***************************************************************************)
(* What the participant's device surface knows of the browser's cameras:   *)
(* the permission (packages/react/src/hooks/use-device-permissions.ts),    *)
(* the list and the choice (use-device-controls.ts with its device         *)
(* switcher), and what the SDK remembers of the last capture               *)
(* (packages/client/src/media).  One kind of device; the captures' races   *)
(* are SdkPublish's.                                                       *)
(*                                                                         *)
(* The browser answers queries in any order, each with what it read on the *)
(* way, and tells a status of a later change after it has handed it out.   *)
(***************************************************************************)
EXTENDS Naturals, FiniteSets

CONSTANTS
    Cameras,     \* the devices there may be
    MaxEvents    \* bound: things that happen

ASSUME EventsAreNat == MaxEvents \in Nat

VARIABLES
    permission,  \* what the browser holds
    shownAs,     \* the hook's state
    querySeq,    \* number of the latest query
    queries,     \* queries under way: [n, value], "unread" at first
    heeded,      \* statuses with an onchange
    changes,     \* statuses the browser has a change for
    untold,      \* the latest one was not told of a change
    refused,     \* the latest query failed
    present,     \* devices plugged in
    listed,      \* the hook's list
    refreshes,   \* enumerations under way: [n, value]
    loading,     \* isLoading
    enumerated,  \* number of the last enumeration, and whether it failed
    picked,      \* selectedDevices
    saved,       \* the selection in localStorage
    remembered,  \* device-preferences
    using,       \* the device of the active capture
    opening,     \* the start of a capture under way: [camera, by], by
                 \* "start", "panel" (a switch), or "nobody"
    events

permissionVars == <<permission, shownAs, querySeq, queries, heeded, changes, untold, refused>>
listVars == <<present, listed, refreshes, loading, enumerated>>
choiceVars == <<picked, saved, remembered, using, opening>>
deviceVars == <<permissionVars, listVars, choiceVars, events>>

NoCamera == "none"
NotOpening == [camera |-> NoCamera, by |-> "nobody"]
Happens == events < MaxEvents /\ events' = events + 1

-----------------------------------------------------------------------------
(* Permission.                                                             *)

\* query(), at first and whenever the window gains the focus.
QueryAsked ==
    /\ Happens
    /\ querySeq' = querySeq + 1
    /\ queries' = queries \cup {[n |-> querySeq + 1, value |-> "unread"]}
    /\ untold' = FALSE /\ refused' = FALSE
    /\ UNCHANGED <<permission, shownAs, heeded, changes, listVars, choiceVars>>

BrowserReads(q) ==
    /\ q \in queries /\ q.value = "unread"
    /\ queries' = (queries \ {q}) \cup {[q EXCEPT !.value = permission]}
    /\ UNCHANGED <<permission, shownAs, querySeq, heeded, changes, untold, refused, listVars, choiceVars, events>>

\* Variant: any answer will do.
AnyQuery(n) == n <= querySeq

\* "a slow older query must never overwrite the result of a newer one"
LatestQuery(n) == n = querySeq

QueryAnswered(q) ==
    /\ q \in queries /\ q.value # "unread"
    /\ queries' = queries \ {q}
    /\ shownAs' = IF LatestQuery(q.n) THEN q.value ELSE shownAs
    /\ heeded' = IF LatestQuery(q.n) THEN heeded \cup {q.n} ELSE heeded
    /\ UNCHANGED <<permission, querySeq, changes, untold, refused, listVars, choiceVars, events>>

QueryFails(q) ==
    /\ q \in queries /\ q.value = "unread"
    /\ queries' = queries \ {q}
    /\ IF LatestQuery(q.n) THEN shownAs' = "unknown" ELSE UNCHANGED shownAs
    /\ refused' = (refused \/ q.n = querySeq)
    /\ UNCHANGED <<permission, querySeq, heeded, changes, untold, listVars, choiceVars, events>>

PermissionChanges(p) ==
    /\ Happens /\ p # permission
    /\ permission' = p
    /\ changes' = changes \cup heeded \cup {q.n : q \in {r \in queries : r.value # "unread"}}
    /\ UNCHANGED <<shownAs, querySeq, queries, heeded, untold, refused, listVars, choiceVars>>

\* onchange, with the state of the day.
ChangeTold(n) ==
    /\ n \in changes \cap heeded
    /\ changes' = changes \ {n}
    /\ shownAs' = IF LatestQuery(n) THEN permission ELSE shownAs
    /\ UNCHANGED <<permission, querySeq, queries, heeded, untold, refused, listVars, choiceVars, events>>

\* "Engines differ in how reliably PermissionStatus.onchange fires"
ChangeNotTold(n) ==
    /\ n \in changes \cap heeded
    /\ changes' = changes \ {n}
    /\ untold' = (untold \/ n = querySeq)
    /\ UNCHANGED <<permission, shownAs, querySeq, queries, heeded, refused, listVars, choiceVars, events>>

-----------------------------------------------------------------------------
(* The list.                                                               *)

\* refresh(), with the number of the one before it.
Refresh ==
    /\ refreshes' = refreshes \cup {[n |-> enumerated.n + 1, value |-> {}, read |-> FALSE]}
    /\ enumerated' = [n |-> enumerated.n + 1, failed |-> FALSE]
    /\ loading' = TRUE

\* A device comes or goes, and a capture ends with its device.
DeviceChanges(c) ==
    /\ Happens
    /\ present' = IF c \in present THEN present \ {c} ELSE present \cup {c}
    /\ using' = IF using = c THEN NoCamera ELSE using
    /\ Refresh
    /\ UNCHANGED <<permissionVars, listed, picked, saved, remembered, opening>>

BrowserLists(r) ==
    /\ r \in refreshes /\ ~r.read
    /\ refreshes' = (refreshes \ {r}) \cup {[r EXCEPT !.value = present, !.read = TRUE]}
    /\ UNCHANGED <<permissionVars, present, listed, loading, enumerated, choiceVars, events>>

ListArrives(r) ==
    /\ r \in refreshes /\ r.read
    /\ refreshes' = refreshes \ {r}
    /\ listed' = r.value /\ loading' = FALSE
    /\ UNCHANGED <<permissionVars, present, enumerated, choiceVars, events>>

\* A failed enumeration keeps the list.
ListFails(r) ==
    /\ r \in refreshes /\ ~r.read
    /\ refreshes' = refreshes \ {r}
    /\ loading' = FALSE
    /\ enumerated' = [enumerated EXCEPT !.failed = @ \/ r.n = enumerated.n]
    /\ UNCHANGED <<permissionVars, present, listed, choiceVars, events>>

-----------------------------------------------------------------------------
(* The choice.                                                             *)

\* The prebuilt device switcher: select, and no more.
Select(c) ==
    /\ Happens /\ c \in listed /\ c # picked
    /\ picked' = c
    /\ UNCHANGED <<permissionVars, listVars, saved, remembered, using, opening>>

\* The effect of a new selection.
SelectionSaved ==
    /\ saved # picked
    /\ saved' = picked
    /\ UNCHANGED <<permissionVars, listVars, picked, remembered, using, opening, events>>

\* The application's panel: guardedSwitch, and select if it succeeds, which
\* it does when nothing is captured.
PanelSwitch(c) ==
    /\ Happens /\ c \in listed /\ opening = NotOpening
    /\ IF using = NoCamera
       THEN picked' = c /\ UNCHANGED <<using, opening>>
       ELSE /\ using' = NoCamera
            /\ opening' = [camera |-> c, by |-> "panel"]
            /\ UNCHANGED picked
    /\ UNCHANGED <<permissionVars, listVars, saved, remembered>>

\* start() without a device of its own: the selection, then what the SDK
\* remembers, then whatever the browser likes.
StartCapture ==
    /\ Happens /\ opening = NotOpening /\ using = NoCamera
    /\ opening' = [camera |-> IF saved # NoCamera THEN saved ELSE remembered, by |-> "start"]
    /\ UNCHANGED <<permissionVars, listVars, picked, saved, remembered, using>>

\* The device, or the default one when it is gone; what is captured is
\* remembered.  A switch that succeeds is selected as it was asked.
Opened(c) ==
    /\ opening # NotOpening /\ c \in present
    /\ opening.camera \in present => c = opening.camera
    /\ using' = c /\ remembered' = c
    /\ picked' = IF opening.by = "panel" THEN opening.camera ELSE picked
    /\ opening' = NotOpening
    /\ UNCHANGED <<permissionVars, listVars, saved, events>>

\* Nothing to open, or no permission.
OpenFails ==
    /\ opening # NotOpening
    /\ opening' = NotOpening
    /\ UNCHANGED <<permissionVars, listVars, picked, saved, remembered, using, events>>

StopCamera ==
    /\ Happens /\ (using # NoCamera \/ opening # NotOpening)
    /\ using' = NoCamera /\ opening' = NotOpening
    /\ UNCHANGED <<permissionVars, listVars, picked, saved, remembered>>

DevicesInit ==
    /\ permission = "prompting" /\ shownAs = "unknown"
    /\ querySeq = 1 /\ queries = {[n |-> 1, value |-> "unread"]}
    /\ heeded = {} /\ changes = {} /\ untold = FALSE /\ refused = FALSE
    /\ present = Cameras /\ listed = {}
    /\ refreshes = {[n |-> 1, value |-> {}, read |-> FALSE]} /\ loading = TRUE
    /\ enumerated = [n |-> 1, failed |-> FALSE]
    /\ picked = NoCamera /\ saved = NoCamera /\ remembered = NoCamera
    /\ using = NoCamera /\ opening = NotOpening
    /\ events = 0

DevicesNext ==
    \/ QueryAsked
    \/ \E q \in queries : BrowserReads(q) \/ QueryAnswered(q) \/ QueryFails(q)
    \/ \E p \in {"prompting", "granted", "denied"} : PermissionChanges(p)
    \/ \E n \in changes : ChangeTold(n) \/ ChangeNotTold(n)
    \/ \E c \in Cameras : DeviceChanges(c) \/ Select(c) \/ PanelSwitch(c) \/ Opened(c)
    \/ \E r \in refreshes : BrowserLists(r) \/ ListArrives(r) \/ ListFails(r)
    \/ SelectionSaved \/ StartCapture \/ OpenFails \/ StopCamera

DevicesSpec == DevicesInit /\ [][DevicesNext]_deviceVars

-----------------------------------------------------------------------------
DevicesTypeOK ==
    /\ permission \in {"prompting", "granted", "denied"}
    /\ shownAs \in {"prompting", "granted", "denied", "unknown"}
    /\ {q.n : q \in queries} \cup heeded \cup changes \subseteq 1 .. querySeq
    /\ {untold, refused, loading} \subseteq BOOLEAN
    /\ {present, listed} \subseteq SUBSET Cameras
    /\ {picked, saved, remembered, using, opening.camera} \subseteq Cameras \cup {NoCamera}
    /\ events \in 0 .. MaxEvents

\* Once nothing is under way, the permission that is shown is the browser's,
\* whatever order the answers came in and whoever changed it meanwhile,
\* unless the engine kept a change to itself; and it is unknown when the
\* latest query failed.
PermissionIsCurrent ==
    /\ DevicesTypeOK
    /\ queries = {} /\ querySeq \notin changes /\ ~untold =>
         shownAs = IF refused THEN "unknown" ELSE permission

-----------------------------------------------------------------------------
(* What documents promise and the code does not do (README, Divergences).  *)

\* "the single public device surface ... reflects connection changes"
\* (openspec/specs/sdk/spec.md): enumerations have no number, and one that
\* is slow puts an old list in the place of a new one.
ListIsCurrent == refreshes = {} /\ ~enumerated.failed => listed = present

\* isLoading goes off with the first of the enumerations under way.
LoadingIsShown == refreshes # {} => loading

\* "WHEN a participant switches camera ... in the prebuilt room THEN ...
\* capture updates without leaving the room" (openspec/specs/sdk/spec.md):
\* its switcher only selects.
SwitchTakesEffect ==
    using # NoCamera /\ opening = NotOpening /\ picked \in present => using = picked
=============================================================================
