----------------------------- MODULE Whiteboard -----------------------------
(***************************************************************************)
(* The shared board of a room: the server's copy (apps/server/src/         *)
(* whiteboard), and for each user the panel with its socket (use-          *)
(* whiteboard-panel.ts), the transport (whiteboard-core) and the binding   *)
(* to the drawing engine (excalidraw-yjs-binding.ts).                      *)
(*                                                                         *)
(* A document is a set of edits.  Yjs numbers the edits of each binding    *)
(* and lets one count only when all earlier ones are there (Whole); what   *)
(* an edit does to the picture is left out.  Requests of a socket reach    *)
(* the server in order, and so do its answers; what a panel emits while it *)
(* is disconnected is sent when it is connected again, before its join.    *)
(***************************************************************************)
EXTENDS Naturals, Sequences, SequencesExt, FiniteSets

CONSTANTS
    Users,      \* those in the room
    Owner,      \* the owner of the room
    Guests,     \* the guests among them
    MaxEdits,   \* bound: edits of all
    MaxMounts,  \* bound: engines a user mounts
    MaxTrouble, \* bound: lost connections, restarts, closings of the room
    MaxToggles  \* bound: changes of the mode

ASSUME OwnerIsUser == Owner \in Users \ Guests
ASSUME BoundsAreNat == {MaxEdits, MaxMounts, MaxTrouble, MaxToggles} \subseteq Nat

VARIABLES
    board,    \* server: the edits of the room's document
    mode,     \* server: "owner" or "open", who may draw
    active,   \* server: the room has not ended
    present,  \* server: the users with a seat in the room
    admitted, \* server: users whose socket is admitted and in the room
    joining,  \* server: joins whose room is awaited
    setting,  \* server: modes whose room is awaited
    up, down, \* what is on the way from and to each user
    connected,   \* users whose panel is connected
    engine,   \* "loading" or "mounted"
    mounts,   \* engines each user has mounted
    doc,      \* the edits in each user's document
    sent,     \* serverVector: what the user's document held at the last send
    known,    \* the mode each user knows
    fed,      \* users whose engine was there when the state came
    strokes, drops, blanks, toggles

server == <<board, mode, active, present, admitted, joining, setting>>
net == <<up, down, connected>>
picture == <<engine, mounts, doc, sent, fed>>
bounds == <<strokes, drops, blanks, toggles>>
boardVars == <<server, net, picture, known, bounds>>

Edit == [by : Users, mount : 1 .. MaxMounts, n : 1 .. MaxEdits]

\* The edits of a document that count.
Whole(edits_) == {e \in edits_ : \A m \in 1 .. e.n : [e EXCEPT !.n = m] \in edits_}

CanDraw(u) == known[u] = "open" \/ u = Owner

\* Every user has just opened the panel.
BoardInit ==
    /\ board = {} /\ mode = "owner" /\ active = TRUE /\ present = Users
    /\ admitted = {} /\ joining = {} /\ setting = <<>>
    /\ up = [u \in Users |-> <<>>] /\ down = [u \in Users |-> <<>>] /\ connected = {}
    /\ engine = [u \in Users |-> "loading"] /\ mounts = [u \in Users |-> 0]
    /\ doc = [u \in Users |-> {}] /\ sent = [u \in Users |-> {}]
    /\ known = [u \in Users |-> "owner"]
    /\ fed = {} /\ strokes = 0 /\ drops = 0 /\ blanks = 0 /\ toggles = 0

-----------------------------------------------------------------------------
(* The panel.                                                              *)

\* What was emitted meanwhile goes first, then the connect handler joins.
ConnectPanel(u) ==
    /\ u \notin connected /\ u \in present
    /\ connected' = connected \cup {u}
    /\ up' = [up EXCEPT ![u] = Append(@, [ev |-> "join"])]
    /\ UNCHANGED <<server, down, picture, known, bounds>>

\* An admission ends with the socket it was given to.
StaysAdmitted(users) == admitted \ users

\* The sockets of these users are gone, and what was under way with them.
Cut(users) ==
    /\ connected' = connected \ users
    /\ admitted' = StaysAdmitted(users) /\ joining' = joining \ users
    /\ up' = [u \in Users |-> IF u \in users /\ u \in connected THEN <<>> ELSE up[u]]
    /\ down' = [u \in Users |-> IF u \in users THEN <<>> ELSE down[u]]

Drop(u) ==
    /\ u \in connected /\ drops + blanks < MaxTrouble /\ drops' = drops + 1
    /\ Cut({u})
    /\ UNCHANGED <<board, mode, active, present, setting, picture, known, strokes, blanks, toggles>>

\* mountEngine: the engine is there, with an empty document of its own.
Mount(u) ==
    /\ engine[u] = "loading" /\ mounts[u] < MaxMounts
    /\ engine' = [engine EXCEPT ![u] = "mounted"]
    /\ mounts' = [mounts EXCEPT ![u] = @ + 1]
    /\ doc' = [doc EXCEPT ![u] = {}] /\ sent' = [sent EXCEPT ![u] = {}]
    /\ UNCHANGED <<server, net, fed, known, bounds>>

\* setContainer: the container is replaced, the engine disposed of, and the
\* next one loaded for the same transport.
Remount(u) ==
    /\ engine[u] = "mounted" /\ mounts[u] < MaxMounts
    /\ engine' = [engine EXCEPT ![u] = "loading"]
    /\ fed' = fed \ {u}
    /\ UNCHANGED <<server, net, mounts, doc, sent, known, bounds>>

\* sendLocalDiff: all that came since the last send.
LocalDiff(u, e) == (doc[u] \cup {e}) \ sent[u]

\* handleLocalChange, undo and redo.  The keys of undo and redo work on a
\* read-only canvas too: what they need is a stroke of the user's own.
Draw(u) ==
    LET own == {e \in doc[u] : e.by = u /\ e.mount = mounts[u]}
        e == [by |-> u, mount |-> mounts[u], n |-> Cardinality(own) + 1] IN
    /\ engine[u] = "mounted" /\ (CanDraw(u) \/ own # {})
    /\ strokes < MaxEdits /\ strokes' = strokes + 1
    /\ doc' = [doc EXCEPT ![u] = @ \cup {e}]
    /\ up' = [up EXCEPT ![u] = Append(@, [ev |-> "update", edits |-> LocalDiff(u, e)])]
    /\ sent' = [sent EXCEPT ![u] = Whole(doc[u] \cup {e})]
    /\ UNCHANGED <<server, down, connected, engine, mounts, fed, known, drops, blanks, toggles>>

\* setBoardMode
Toggle(m) ==
    /\ toggles < MaxToggles /\ toggles' = toggles + 1
    /\ m # known[Owner]
    /\ up' = [up EXCEPT ![Owner] = Append(@, [ev |-> "mode", mode |-> m])]
    /\ UNCHANGED <<server, down, connected, picture, known, strokes, drops, blanks>>

\* The transport passes on what the server says.  Its queue for frames that
\* come before the engine is emptied when the panel subscribes for its own
\* status, at once: a frame that comes later and finds no engine is lost.
Receive(u) ==
    /\ down[u] # <<>> /\ down' = [down EXCEPT ![u] = Tail(@)]
    /\ LET frame == Head(down[u]) IN
       IF frame.ev = "mode"
       THEN known' = [known EXCEPT ![u] = frame.mode] /\ UNCHANGED <<doc, fed>>
       ELSE /\ doc' = IF engine[u] = "mounted" THEN [doc EXCEPT ![u] = @ \cup frame.edits] ELSE doc
            /\ fed' = IF engine[u] = "mounted" /\ frame.ev = "state" THEN fed \cup {u} ELSE fed
            /\ UNCHANGED known
    /\ UNCHANGED <<server, up, connected, engine, mounts, sent, bounds>>

-----------------------------------------------------------------------------
(* The server.                                                             *)

Asks(u, ev) ==
    /\ u \in connected /\ up[u] # <<>> /\ Head(up[u]).ev = ev
    /\ up' = [up EXCEPT ![u] = Tail(@)]

Say(users, frames) == down' = [u \in Users |-> IF u \in users THEN down[u] \o frames ELSE down[u]]

\* handleJoin up to its await.
AskJoin(u) ==
    /\ Asks(u, "join")
    /\ joining' = joining \cup {u}
    /\ UNCHANGED <<board, mode, active, present, admitted, setting, down, connected, picture, known, bounds>>

\* A guest's approval is enough; a user needs a seat in the room.
MayJoin(u) == u \in present \/ u \in Guests

\* Its rest: who may not join, and a room that has ended, are refused.
Admit(u) ==
    /\ u \in joining /\ joining' = joining \ {u}
    /\ IF active /\ MayJoin(u)
       THEN /\ admitted' = admitted \cup {u}
            /\ Say({u}, <<[ev |-> "state", edits |-> board], [ev |-> "mode", mode |-> mode]>>)
       ELSE UNCHANGED <<admitted, down>>
    /\ UNCHANGED <<board, mode, active, present, setting, up, connected, picture, known, bounds>>

\* Variant: the owner's board is the original, it is not told.
AllButOwner(u) == admitted \ {u, Owner}

Peers(u) == admitted \ {u}

\* handleUpdate: one that is not allowed is dropped without a word, one that
\* is too large with an error; the user's document keeps it.
Update(u) ==
    LET new == Head(up[u]).edits
        allowed == u \in admitted /\ (mode = "open" \/ u = Owner) IN
    /\ Asks(u, "update")
    /\ \/ allowed /\ board' = board \cup new /\ Say(Peers(u), <<[ev |-> "update", edits |-> new]>>)
       \/ UNCHANGED <<board, down>>
    /\ UNCHANGED <<mode, active, present, admitted, joining, setting, connected, picture, known, bounds>>

\* handleMode up to its await, for the owner.
AskMode ==
    /\ Asks(Owner, "mode")
    /\ setting' = IF Owner \in admitted THEN Append(setting, Head(up[Owner]).mode) ELSE setting
    /\ UNCHANGED <<board, mode, active, present, admitted, joining, down, connected, picture, known, bounds>>

\* Variant: who asked is not told.
ToldOthers == admitted \ {Owner}

ToldOfMode == admitted

\* Its rest: several lookups may end in any order.
SetMode(i) ==
    /\ i \in DOMAIN setting /\ setting' = RemoveAt(setting, i)
    /\ IF active
       THEN mode' = setting[i] /\ Say(ToldOfMode, <<[ev |-> "mode", mode |-> setting[i]]>>)
       ELSE UNCHANGED <<mode, down>>
    /\ UNCHANGED <<board, active, present, admitted, joining, up, connected, picture, known, bounds>>

\* The last participant leaves, or the room ends: the board is dropped; the
\* admissions stay.
RoomCloses(ends) ==
    /\ drops + blanks < MaxTrouble /\ blanks' = blanks + 1
    /\ active /\ active' = ~ends /\ present' = {}
    /\ board' = {} /\ mode' = "owner"
    /\ UNCHANGED <<admitted, joining, setting, net, picture, known, strokes, drops, toggles>>

Return(u) ==
    /\ active /\ u \notin present /\ present' = present \cup {u}
    /\ UNCHANGED <<board, mode, active, admitted, joining, setting, net, picture, known, bounds>>

\* The server starts again, with blank boards; the seats are taken again.
Restart ==
    /\ drops + blanks < MaxTrouble /\ blanks' = blanks + 1
    /\ board' = {} /\ mode' = "owner" /\ setting' = <<>>
    /\ Cut(Users)
    /\ UNCHANGED <<active, present, picture, known, strokes, drops, toggles>>

-----------------------------------------------------------------------------

BoardNext ==
    \/ \E u \in Users : ConnectPanel(u) \/ Drop(u) \/ Mount(u) \/ Remount(u) \/ Draw(u) \/ Receive(u)
    \/ \E m \in {"owner", "open"} : Toggle(m)
    \/ \E u \in Users : AskJoin(u) \/ Admit(u) \/ Update(u) \/ Return(u)
    \/ AskMode \/ \E i \in DOMAIN setting : SetMode(i)
    \/ \E ends \in BOOLEAN : RoomCloses(ends)
    \/ Restart

BoardSpec == BoardInit /\ [][BoardNext]_boardVars

-----------------------------------------------------------------------------
(* Properties.                                                             *)

BoardOK ==
    /\ board \subseteq Edit /\ mode \in {"owner", "open"} /\ active \in BOOLEAN
    /\ {present, admitted, joining, connected, fed} \subseteq SUBSET Users
    /\ admitted \subseteq connected /\ joining \subseteq connected
    /\ \A u \in Users :
        /\ doc[u] \subseteq Edit /\ sent[u] = Whole(sent[u]) /\ sent[u] \subseteq doc[u]
        /\ known[u] \in {"owner", "open"} /\ engine[u] \in {"loading", "mounted"}

Quiet(u) == u \in admitted /\ up[u] = <<>> /\ down[u] = <<>> /\ joining = {} /\ setting = <<>>

\* The picture of the room lacks nothing the others have drawn.
Complete(u) == engine[u] = "mounted" => {e \in board : e.by # u} \subseteq doc[u]

\* Who has had the state has all of the others' picture once things are
\* quiet, also what was drawn while it was joining or was away.  (An update
\* of its earlier engine may bring back what a blanked board had.)
RoomIsShown ==
    /\ BoardOK
    /\ \A u \in fed : Quiet(u) /\ (blanks = 0 \/ mounts[u] = 1) => Complete(u)

\* Everyone knows the mode the server enforces, for a read-only canvas is
\* all that tells a user that the edits would be dropped.  (When the room
\* closed under an open panel, not: ClosingIsTold.)
ModeIsKnown == \A u \in Users : Quiet(u) /\ blanks = 0 => known[u] = mode

\* Both: once things are quiet, who has had the state sees the whole board,
\* and everyone knows whether it may be drawn on.
BoardInv == RoomIsShown /\ ModeIsKnown

-----------------------------------------------------------------------------
(* What documents and comments promise and the code does not do.           *)

\* "frames arriving before a consumer subscribes must be queued, not
\* dropped, or late joiners render an empty board" (transport.ts:60).
LateJoinersSee == \A u \in Users : Quiet(u) => Complete(u)

\* "Sends everything the server has not seen yet" (excalidraw-yjs-
\* binding.ts:178): not what it refused, nor what was sent before the join.
WorkArrives == \A u \in Users : Quiet(u) /\ blanks = 0 => doc[u] \subseteq board

\* What arrives also counts: not if an earlier edit of its user was lost.
WorkCounts == \A u \in Users : Quiet(u) /\ blanks = 0 => board = Whole(board)

\* "the board is dropped when the room ends": an open panel starts another.
BoardEndsWithRoom == ~active => board = {}

\* The mode of a board that was dropped under an open panel is not told.
ClosingIsTold == \A u \in Users : Quiet(u) => known[u] = mode

=============================================================================
