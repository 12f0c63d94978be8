------------------------------- MODULE Binding -------------------------------
(***************************************************************************)
(* The binding of one user's drawing engine to the document of the board   *)
(* (packages/whiteboard-react/src/binding/excalidraw-yjs-binding.ts).      *)
(*                                                                         *)
(* The engine holds a scene and reports it through onChange some time      *)
(* after it changed, also when it was the binding that changed it.  An     *)
(* element is an identity, a version and a number of points; freehand      *)
(* strokes grow without a new version.  Yjs merges what the others do:     *)
(* here it comes one change after the other.  Whiteboard has the way to    *)
(* the server.                                                             *)
(***************************************************************************)
EXTENDS Naturals, Sequences, SequencesExt, FiniteSets

CONSTANTS
    Ids,        \* the elements there may be
    MaxVersion, \* bound: versions, and points, of an element
    MaxStrokes, \* bound: edits of the user, undo and redo included
    MaxPeer,    \* bound: changes of the others
    MaxReports  \* bound: reports under way

ASSUME BoundsArePositive == {MaxVersion, MaxStrokes, MaxPeer, MaxReports} \subseteq Nat \ {0}
ASSUME IdsAreFinite == IsFiniteSet(Ids)

VARIABLES
    stored,   \* elements: the version and points of each, Absent if not there
    order,    \* order: identities from the bottom to the top
    attached, \* the engine has given its scene
    scene,    \* the engine's elements
    reports,  \* calls of onChange under way
    local,    \* localElements
    previous, \* previousScene
    applied,  \* lastAppliedScene
    undone, undoable, \* the two stacks of the undo manager
    erased,   \* history: elements the user erased since they were last drawn
    lost,     \* history: elements the binding deleted that the user had not
    crossed,  \* history: a scene was applied while the engine had something
              \* to report that the binding did not know
    repeated, \* history: an edit gave a scene the binding takes for its own
    strokes, merges

document == <<stored, order>>
engine == <<attached, scene, reports>>
snapshots == <<local, previous, applied>>
stacks == <<undoable, undone>>
history == <<erased, lost, crossed, repeated>>
bindingVars == <<document, engine, snapshots, stacks, history, strokes, merges>>

Absent == [v |-> 0, n |-> 0]
There(doc, id) == doc[id] # Absent
Element(id, e) == [id |-> id, v |-> e.v, n |-> e.n]
IdsOf(elements) == [i \in DOMAIN elements |-> elements[i].id]
Present(elements) == ToSet(IdsOf(elements))

\* Those of ids that are in S, in their order.
Only(ids, S) ==
    LET places == {i \in DOMAIN ids : ids[i] \in S}
        nth(n) == CHOOSE i \in places : Cardinality({j \in places : j <= i}) = n IN
    [n \in 1 .. Cardinality(places) |-> ids[nth(n)]]

\* The engine may report the scene it has mounted with.
BindingInit ==
    /\ stored = [id \in Ids |-> Absent] /\ order = <<>>
    /\ attached = FALSE /\ scene = <<>> /\ reports \in {<<>>, <<(<<>>)>>}
    /\ local = <<>> /\ previous = <<>> /\ applied = <<>>
    /\ undoable = <<>> /\ undone = <<>>
    /\ erased = {} /\ lost = {} /\ crossed = FALSE /\ repeated = FALSE
    /\ strokes = 0 /\ merges = 0

-----------------------------------------------------------------------------
(* From the document to the scene.                                         *)

\* The elements of the document, in their order.
Rendered(doc, ids) ==
    LET there == Only(ids, {id \in Ids : There(doc, id)}) IN
    [i \in DOMAIN there |-> Element(there[i], doc[there[i]])]

\* applyScene, and the engine's echo of it.
ApplyScene(doc, ids) ==
    LET restored == Rendered(doc, ids) IN
    /\ previous' = local /\ applied' = restored /\ local' = restored
    /\ scene' = restored
    /\ reports' \in {reports, Append(reports, restored)}
    /\ crossed' = (crossed \/ \E r \in ToSet(reports) : r # local)

\* handleDocChange with scheduleApplyScene: the microtask runs before
\* anything else, and finds no scene before the engine is attached.
Rerender(doc, ids) ==
    IF attached THEN ApplyScene(doc, ids)
    ELSE UNCHANGED <<scene, reports, snapshots, crossed>>

Attach ==
    /\ ~attached /\ attached' = TRUE
    /\ ApplyScene(stored, order)
    /\ UNCHANGED <<document, stacks, erased, lost, repeated, strokes, merges>>

\* receive: the others set an element, a new one above the rest, or delete it.
Receive(id, e) ==
    /\ merges < MaxPeer /\ merges' = merges + 1
    /\ e # stored[id] /\ (e = Absent \/ e.v > stored[id].v)
    /\ stored' = [stored EXCEPT ![id] = e]
    /\ order' = IF e = Absent THEN Only(order, Ids \ {id})
                ELSE IF id \in ToSet(order) THEN order ELSE Append(order, id)
    /\ Rerender(stored', order')
    /\ UNCHANGED <<attached, stacks, erased, lost, repeated, strokes>>

-----------------------------------------------------------------------------
(* From the scene to the document.                                         *)

\* The user changes the scene.
SceneBecomes(elements, gone) ==
    /\ attached /\ strokes < MaxStrokes /\ strokes' = strokes + 1
    /\ Len(reports) < MaxReports
    /\ scene' = elements /\ reports' = Append(reports, elements)
    /\ erased' = (erased \ Present(elements)) \cup gone
    /\ repeated' = (repeated \/ elements \in {previous, applied})
    /\ UNCHANGED <<document, attached, snapshots, stacks, lost, crossed, merges>>

\* An identity is drawn by the engine and never used again.
Fresh(id) ==
    /\ ~There(stored, id) /\ id \notin erased
    /\ \A known \in {scene, local, previous, applied} \cup ToSet(reports) : id \notin Present(known)
    /\ \A item \in ToSet(undoable) \cup ToSet(undone) : ~There(item.old, id) /\ ~There(item.new, id)

AddElement(id) ==
    /\ Fresh(id)
    /\ SceneBecomes(Append(scene, Element(id, [v |-> 1, n |-> 1])), {})

\* A stroke of the user's grows, also one that the binding has applied
\* meanwhile, or an element is changed and may come to the front.  The engine
\* draws on an object of its own; the binding compares clones.
GrowStroke(i) ==
    /\ scene[i].n < MaxVersion
    /\ SceneBecomes([scene EXCEPT ![i].n = @ + 1], {})

ChangeElement(i) ==
    LET changed == [scene[i] EXCEPT !.v = @ + 1] IN
    /\ scene[i].v < MaxVersion
    /\ \/ SceneBecomes([scene EXCEPT ![i] = changed], {})
       \/ SceneBecomes(Append(RemoveAt(scene, i), changed), {})

EraseElement(i) == SceneBecomes(RemoveAt(scene, i), {scene[i].id})

\* Variant: a stroke that has grown is taken for the same.
SameVersions(left, right) ==
    LET versions(s) == [i \in DOMAIN s |-> <<s[i].id, s[i].v>>] IN versions(left) = versions(right)

SameScene(left, right) == left = right

\* Variant: only the last echo is recognised, not a scene from before it.
StaleIsEdit(elements) == FALSE

\* A snapshot of the scene there was before the last apply.
IsStale(elements) == SameScene(elements, previous)

\* reconcileOrder: walks the order along the target, moves or inserts what is
\* not in its place, and cuts the rest off.
TakeOut(ids, id) ==
    LET at == CHOOSE i \in DOMAIN ids : ids[i] = id /\ \A j \in 1 .. i - 1 : ids[j] # id IN
    IF id \in ToSet(ids) THEN RemoveAt(ids, at) ELSE ids

PutAt(ids, k, id) ==
    IF k <= Len(ids) /\ ids[k] = id THEN ids ELSE InsertAt(TakeOut(ids, id), k, id)

ReconcileOrder(ids, target) ==
    LET walk[k \in 0 .. Len(target)] == IF k = 0 THEN ids ELSE PutAt(walk[k - 1], k, target[k]) IN
    SubSeq(walk[Len(target)], 1, Len(target))

\* What a reported scene makes of the elements: one that is older than the
\* stored one is passed over, one that has left the scene is deleted.
Merged(elements) ==
    [id \in Ids |->
        IF id \in Present(elements)
        THEN LET e == CHOOSE x \in ToSet(elements) : x.id = id IN
             IF stored[id].v > e.v THEN stored[id] ELSE [v |-> e.v, n |-> e.n]
        ELSE IF id \in Present(local) THEN Absent ELSE stored[id]]

\* The undo manager stacks an edit, or joins it to one shortly before.
Stacked(old, new) ==
    {Append(undoable, [old |-> old, new |-> new])}
      \cup {Append(Front(u), [Last(u) EXCEPT !.new = new]) : u \in {undoable} \ {<<>>}}

\* handleLocalChange of an echo, of a stale snapshot, and of an edit.
OnChange ==
    LET elements == Head(reports) IN
    /\ reports # <<>> /\ reports' = Tail(reports)
    /\ IF SameScene(elements, applied)
       THEN local' = elements /\ UNCHANGED <<document, stacks, lost>>
       ELSE IF IsStale(elements)
       THEN UNCHANGED <<document, local, stacks, lost>>
       ELSE /\ local' = elements
            /\ stored' = Merged(elements)
            /\ order' = ReconcileOrder(order, IdsOf(elements))
            /\ undoable' \in Stacked(stored, stored') /\ undone' = <<>>
            /\ lost' = lost \cup {id \in Ids \ erased : There(stored, id) /\ ~There(stored', id)}
    /\ UNCHANGED <<attached, scene, previous, applied, erased, crossed, repeated, strokes, merges>>

\* The undo manager puts back what an edit replaced, where nobody else has
\* changed it since.
PutBack(from, to) ==
    LET doc == [id \in Ids |-> IF stored[id] = from[id] THEN to[id] ELSE stored[id]]
        there == {id \in Ids : There(doc, id)} IN
    /\ stored' = doc
    /\ order' = Only(order, there) \o SetToSeq(there \ ToSet(order))
    /\ Rerender(stored', order')

\* undo and redo.
Undo ==
    /\ undoable # <<>> /\ strokes < MaxStrokes /\ strokes' = strokes + 1
    /\ PutBack(Last(undoable).new, Last(undoable).old)
    /\ undone' = Append(undone, Last(undoable)) /\ undoable' = Front(undoable)
    /\ UNCHANGED <<attached, erased, lost, repeated, merges>>

Redo ==
    /\ undone # <<>> /\ strokes < MaxStrokes /\ strokes' = strokes + 1
    /\ PutBack(Last(undone).old, Last(undone).new)
    /\ undoable' = Append(undoable, Last(undone)) /\ undone' = Front(undone)
    /\ UNCHANGED <<attached, erased, lost, repeated, merges>>

-----------------------------------------------------------------------------

BindingNext ==
    \/ Attach \/ OnChange \/ Undo \/ Redo
    \/ \E id \in Ids :
          \/ AddElement(id) \/ Receive(id, Absent)
          \/ \E v, n \in 1 .. MaxVersion : Receive(id, [v |-> v, n |-> n])
    \/ \E i \in DOMAIN scene : GrowStroke(i) \/ ChangeElement(i) \/ EraseElement(i)

BindingSpec == BindingInit /\ [][BindingNext]_bindingVars

-----------------------------------------------------------------------------
(* Properties.                                                             *)

\* The binding takes nothing from the board that its user has not erased,
\* whatever the engine echoes, repeats or reports late ("Treating either as
\* local would delete room elements"); and once the engine has reported all,
\* document and scene show the same, grown strokes included.  Exempt is a
\* scene that was applied over something the engine had not reported yet, see
\* NothingWiped, and an edit that only takes something back, see EditsArrive.
BindingInv ==
    ~crossed =>
        /\ lost = {}
        /\ attached /\ reports = <<>> /\ ~repeated =>
             /\ scene = Rendered(stored, order)
             /\ Len(order) = Cardinality({id \in Ids : There(stored, id)})

-----------------------------------------------------------------------------
(* What comments promise and the code does not do.                         *)

\* "a late joiner wiped the board it had just received" (excalidraw-yjs-
\* binding.ts:107): a report that is older than the last two scenes, or an
\* edit that a remote scene has overtaken, still deletes what came meanwhile.
NothingWiped == lost = {}

\* "if a change reaches this line it must land in the document" (:122): an
\* element that is erased right after it came leaves the very scene there was
\* before, which is taken for a stale one and never reaches that line.
EditsArrive == ~crossed /\ attached /\ reports = <<>> => scene = Rendered(stored, order)

=============================================================================
