------------------------------- MODULE Prejoin -------------------------------
(***************************************************************************)
(* The way into a room and out of it: the prejoin machine                  *)
(* (packages/react/src/hooks/use-prejoin.ts) in its two hosts, the         *)
(* prebuilt widget (embedded/zvonok-embedded-room.tsx) and the page of the *)
(* application (apps/client/src/routes/room.tsx) for one who needs no      *)
(* approval.  The connection is SdkSession's, by the status it shows.      *)
(***************************************************************************)
EXTENDS Naturals

CONSTANT MaxConfirms  \* bound: confirmations; and twice that for joins

ASSUME ConfirmsAreNat == MaxConfirms \in Nat

VARIABLES
    host,      \* "widget" or "page"
    skip,      \* the widget was told to skip the card
    skipped,   \* skipStartedRef
    prejoin,   \* the machine's phase
    entry,     \* the join action under way: "none", "devices" while they
               \* start, "joining", "left" when a leave has superseded it
    conn,      \* the connection's status
    kicked,    \* the store's flag
    view,      \* the page's viewState
    confirms,  \* confirmations, by the user or by skip
    autos,     \* those by skip
    begun      \* calls of connection.join()

prejoinVars == <<host, skip, skipped, prejoin, entry, conn, kicked, view, confirms, autos, begun>>

OnWidget == host = "widget"
OnPage == host = "page"

\* inRoom
InRoom == kicked \/ conn \in {"joined", "connecting"}

\* The widget renders nothing at first when the card is to be skipped.
Blank == skip /\ prejoin = "joining" /\ conn = "disconnected"

CardShown == IF OnWidget THEN ~Blank /\ conn # "error" /\ ~InRoom ELSE view = "prejoin"

\* The effect of the phase "joining" runs the join action: the widget starts
\* the devices, the page becomes active, which is all it waits for, and joins.
BeginJoin ==
    /\ confirms' = confirms + 1
    /\ IF OnWidget
       THEN prejoin' = "joining" /\ entry' = "devices" /\ UNCHANGED <<conn, view, begun>>
       ELSE /\ prejoin' = "confirmed" /\ view' = "active"
            /\ conn' = IF conn = "disconnected" THEN "connecting" ELSE conn
            /\ begun' = IF conn = "disconnected" THEN begun + 1 ELSE begun
            /\ UNCHANGED entry
    /\ UNCHANGED <<host, skip, kicked>>

\* Variant: the flag is forgotten.
SkipAgain == skip

SkipIsDue == skip /\ ~skipped

\* confirm, ignored unless the phase is "confirming"; the effect of skip
\* comes before any click.
Confirm ==
    /\ CardShown /\ ~SkipIsDue /\ prejoin = "confirming" /\ confirms < MaxConfirms
    /\ BeginJoin /\ UNCHANGED <<skipped, autos>>

\* The widget is given the name of its user, which skips the card.
SkipGiven ==
    /\ OnWidget /\ ~skip
    /\ skip' = TRUE
    /\ UNCHANGED <<host, skipped, prejoin, entry, conn, kicked, view, confirms, autos, begun>>

AutoConfirm ==
    /\ OnWidget /\ SkipIsDue /\ prejoin = "confirming" /\ confirms < MaxConfirms
    /\ skipped' = TRUE /\ autos' = autos + 1
    /\ BeginJoin

\* Capture problems never block joining.
DevicesStarted ==
    /\ entry = "devices"
    /\ entry' = "joining" /\ conn' = "connecting" /\ begun' = begun + 1
    /\ UNCHANGED <<host, skip, skipped, prejoin, kicked, view, confirms, autos>>

\* connection.join() settles; the widget swallows its failure, the page goes
\* back to the card.
JoinSettles(status) ==
    /\ conn = "connecting"
    /\ conn' = status
    /\ prejoin' = IF entry = "joining" THEN "confirmed" ELSE prejoin
    /\ entry' = IF entry = "joining" THEN "none" ELSE entry
    /\ view' = IF OnPage /\ status = "error" THEN "prejoin" ELSE view
    /\ UNCHANGED <<host, skip, skipped, kicked, confirms, autos, begun>>

\* A join that was superseded settles silently, in time.
LeftSettles ==
    /\ entry = "left"
    /\ entry' = "none"
    /\ prejoin' = IF prejoin = "joining" THEN "confirmed" ELSE prejoin
    /\ UNCHANGED <<host, skip, skipped, conn, kicked, view, confirms, autos, begun>>

\* leave()
Released ==
    /\ conn' = "disconnected" /\ kicked' = FALSE
    /\ entry' = IF entry = "joining" THEN "left" ELSE entry

\* The button of the widget's control bar.
Leave ==
    /\ OnWidget /\ InRoom
    /\ Released
    /\ UNCHANGED <<host, skip, skipped, prejoin, view, confirms, autos, begun>>

\* The one of its error card.
Back ==
    /\ OnWidget /\ conn = "error"
    /\ Released
    /\ prejoin' = "confirming"
    /\ UNCHANGED <<host, skip, skipped, view, confirms, autos, begun>>

\* The session leaves; on the page the effect of a status "disconnected"
\* calls join() once more before the view has ended and leaves with it.
RoomIsEnded ==
    /\ conn = "joined"
    /\ Released
    /\ view' = IF OnPage THEN "ended" ELSE view
    /\ begun' = IF OnPage THEN begun + 1 ELSE begun
    /\ UNCHANGED <<host, skip, skipped, prejoin, confirms, autos>>

\* A kick: the widget shows it; the page's effect finds the view active and
\* the status "disconnected", and joins.
IsKicked ==
    /\ conn = "joined" /\ begun < 2 * MaxConfirms
    /\ kicked' = TRUE
    /\ conn' = IF OnPage THEN "connecting" ELSE "disconnected"
    /\ begun' = IF OnPage THEN begun + 1 ELSE begun
    /\ UNCHANGED <<host, skip, skipped, prejoin, entry, view, confirms, autos>>

\* The session cannot be recovered.
ConnectionFails ==
    /\ conn = "joined"
    /\ conn' = "error"
    /\ UNCHANGED <<host, skip, skipped, prejoin, entry, kicked, view, confirms, autos, begun>>

PrejoinInit ==
    /\ host \in {"widget", "page"} /\ skip \in BOOLEAN /\ (skip => OnWidget)
    /\ skipped = FALSE /\ prejoin = "confirming" /\ entry = "none"
    /\ conn = "disconnected" /\ kicked = FALSE /\ view = "prejoin"
    /\ confirms = 0 /\ autos = 0 /\ begun = 0

PrejoinNext ==
    \/ Confirm \/ SkipGiven \/ AutoConfirm \/ DevicesStarted
    \/ \E status \in {"joined", "error"} : JoinSettles(status)
    \/ LeftSettles \/ Leave \/ Back
    \/ RoomIsEnded \/ IsKicked \/ ConnectionFails

PrejoinSpec == PrejoinInit /\ [][PrejoinNext]_prejoinVars

-----------------------------------------------------------------------------
PrejoinTypeOK ==
    /\ host \in {"widget", "page"} /\ {skip, skipped, kicked} \subseteq BOOLEAN
    /\ prejoin \in {"confirming", "joining", "confirmed"}
    /\ entry \in {"none", "devices", "joining", "left"}
    /\ conn \in {"disconnected", "connecting", "joined", "error"}
    /\ view \in {"prejoin", "active", "ended"}
    /\ confirms \in 0 .. MaxConfirms /\ autos \in 0 .. confirms /\ begun \in Nat

\* In the widget nobody enters the room unasked: whatever fails, is left or
\* reset, a join is of one confirmation, and skip confirms once only
\* ("Skipped prejoins auto-confirm exactly once"), and none is lost.
JoinIsMeant ==
    /\ PrejoinTypeOK
    /\ OnWidget => /\ autos <= 1
                   /\ confirms = begun + IF entry = "devices" THEN 1 ELSE 0

-----------------------------------------------------------------------------
(* What comments promise and the code does not do (README, Divergences).   *)

\* "leaving the pre-join stage is the single join trigger" (room.tsx): the
\* effect runs on every render, and a kick makes its condition true.
SingleTrigger == OnPage => begun <= confirms

\* "A retry works after the failure." (use-prejoin.test.tsx): the hosts
\* swallow the failure, and the card is shown by a machine that is
\* "confirmed" and ignores its button.
CardWorks == CardShown /\ entry = "none" => prejoin = "confirming"
=============================================================================
