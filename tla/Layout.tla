------------------------------- MODULE Layout -------------------------------
(***************************************************************************)
(* What the stage shows and where: the geometry of                         *)
(* packages/video-layout/src/grid-layout.ts, the arrangement of            *)
(* packages/react/src/hooks/use-room-layout.ts and the tiles of            *)
(* components/stage/stage.tsx.  It follows from who is there, who shares   *)
(* and how large the stage is.                                             *)
(*                                                                         *)
(* Lengths are exact, in gaps of 8 px: a tile has the size of a fraction,  *)
(* <<p, q>>.  Where one is on either axis is a span, from one number to    *)
(* another, counted in parts of a gap.                                     *)
(***************************************************************************)
EXTENDS Integers, Sequences, SequencesExt

CONSTANTS
    Myself, Remotes,   \* the local participant, and the others who may share a screen
    StageSizes,        \* bound: stages, as <<width, height>>
    MaxAudience        \* bound: the others who never share

ASSUME OthersAreOthers == Myself \notin Remotes
ASSUME SizesAreNat == StageSizes \subseteq Nat \X Nat
ASSUME AudienceIsNat == MaxAudience \in Nat

VARIABLES
    roster,     \* remotes with their streams, in the order of the tracker
    audience,   \* how many others are there; their tiles are like any
    sharing,    \* who shares a screen
    stageSize

layoutVars == <<roster, audience, sharing, stageSize>>

Greater(a, b) == IF a < b THEN b ELSE a
Ceil(a, b) == (a + b - 1) \div b
Measured(size) == size[1] > 0 /\ size[2] > 0

Span(a, b) == [from |-> a, to |-> b, parts |-> 1]

\* Of tiles of p/q a gap apart, the one after m others, from a place that is
\* counted in 2q parts; and what k of them leave free, one half of it.
Cell(from, p, q, m) ==
    [from |-> from + 2 * m * (p + q), to |-> from + 2 * m * (p + q) + 2 * p, parts |-> 2 * q]
Slack(length, k, p, q) == length * q - (k * p + (k - 1) * q)

-----------------------------------------------------------------------------
(* computeLayout: the grid.                                                *)

ByWidth(size, n, cols) ==
    LET rows == Ceil(n, cols) IN
    9 * rows * (size[1] - (cols - 1)) <= 16 * cols * (size[2] - (rows - 1))

Side(size, n, cols) ==
    LET rows == Ceil(n, cols) IN
    IF ByWidth(size, n, cols) THEN <<size[1] - (cols - 1), cols>>
    ELSE <<16 * (size[2] - (rows - 1)), 9 * rows>>

\* The share of the stage that the grid takes, gaps and empty cells included:
\* it takes the whole of it in one direction.
Coverage(size, n, cols) ==
    LET rows == Ceil(n, cols) IN
    IF ByWidth(size, n, cols)
    THEN <<9 * rows * (size[1] - (cols - 1)) + 16 * cols * (rows - 1), 16 * cols * size[2]>>
    ELSE <<16 * cols * (size[2] - (rows - 1)) + 9 * rows * (cols - 1), 9 * rows * size[1]>>

\* A score below 0 does not count.
Better(size, n, c, d) ==
    LET a == Coverage(size, n, c)
        b == Coverage(size, n, d) IN
    Greater(0, a[1]) * b[2] > Greater(0, b[1]) * a[2]

\* computeGridDimensions: the first of the best.
Columns(size, n) ==
    CHOOSE c \in 1 .. n :
        /\ \A d \in 1 .. n : ~Better(size, n, d, c)
        /\ \A d \in 1 .. c - 1 : Better(size, n, c, d)

MinTile == 15

\* Variant: the column of a tile is taken for its row.
RowByColumn(i, cols) == (i - 1) % cols

RowOf(i, cols) == (i - 1) \div cols

Grid(size, n) ==
    LET cols == Columns(size, n)
        rows == Ceil(n, cols)
        side == Side(size, n, cols)
        p == IF side[1] < MinTile * side[2] THEN MinTile ELSE side[1]
        q == IF side[1] < MinTile * side[2] THEN 1 ELSE side[2] IN
    [i \in 1 .. n |->
        [x |-> Cell(Slack(size[1], cols, p, q), p, q, (i - 1) % cols),
         y |-> Cell(Slack(size[2], rows, 9 * p, 16 * q), 9 * p, 16 * q, RowOf(i, cols))]]

-----------------------------------------------------------------------------
(* computeSpotlightLayout: the screen, and the tiles in a strip of 160 px  *)
(* on its right or of 96 px below it.                                      *)

StripWidth == 20
StripHeight == 12
IsWide(size) == 2 * size[1] > 3 * size[2]

SpotlightArea(size) ==
    IF IsWide(size) THEN [x |-> Span(0, size[1] - StripWidth - 1), y |-> Span(0, size[2])]
    ELSE [x |-> Span(0, size[1]), y |-> Span(0, size[2] - StripHeight - 1)]

\* Tiles on top of each other, no higher than their shape allows; a pixel
\* is the least.
StackedHeight(size, n) ==
    LET room == size[2] - (n - 1) IN
    IF 8 * room < n THEN <<1, 8>>
    ELSE IF 16 * room > 9 * StripWidth * n THEN <<9 * StripWidth, 16>>
    ELSE <<room, n>>

RightStrip(size, n) ==
    LET height == StackedHeight(size, n)
        top == Greater(0, Slack(size[2], n, height[1], height[2])) IN
    [i \in 1 .. n |-> [x |-> Span(size[1] - StripWidth, size[1]),
                       y |-> Cell(top, height[1], height[2], i - 1)]]

\* Tiles in a row, no wider than the stage allows.
RowWidth(size, n) ==
    IF 16 * StripHeight * n + 9 * (n - 1) > 9 * size[1] THEN <<size[1] - (n - 1), n>>
    ELSE <<16 * StripHeight, 9>>

BottomStrip(size, n) ==
    LET p == RowWidth(size, n)[1]
        q == RowWidth(size, n)[2]
        top == 16 * q * (size[2] - StripHeight)
        left == Greater(0, Slack(size[1], n, p, q)) IN
    [i \in 1 .. n |-> [x |-> Cell(left, p, q, i - 1),
                       y |-> [from |-> top, to |-> top + 9 * p, parts |-> 16 * q]]]

Strip(size, n) == IF IsWide(size) THEN RightStrip(size, n) ELSE BottomStrip(size, n)

-----------------------------------------------------------------------------
(* deriveArrangement and useStage.                                         *)

Ordered == <<Myself>> \o roster

\* Who has the spotlight: the first of them that shares.
Sharers == {i \in DOMAIN Ordered : Ordered[i] \in sharing}
Spotlit == sharing # {}
Sharer == Ordered[CHOOSE i \in Sharers : \A j \in Sharers : i <= j]

\* Tiles, one for each participant; none has a place on a stage that is not
\* measured.
Tiles == Len(Ordered) + audience
Rects == IF Spotlit THEN Strip(stageSize, Tiles) ELSE Grid(stageSize, Tiles)

\* Variant: one does not see the own screen.
OthersOnly == IF Sharer = Myself THEN {} ELSE {Sharer}

\* The spotlight tile.
SpotlightOf == {Sharer}

\* The screens on the stage: the spotlight, or without one a tile for each
\* remote that shares.
Screens ==
    IF Spotlit /\ Measured(stageSize) THEN SpotlightOf
    ELSE {p \in sharing : p # Myself}

-----------------------------------------------------------------------------

PeerComes(p) ==
    /\ \A i \in DOMAIN roster : roster[i] # p
    /\ roster' = Append(roster, p)
    /\ UNCHANGED <<audience, sharing, stageSize>>

PeerGoes(p) ==
    /\ \E i \in DOMAIN roster : roster[i] = p /\ roster' = RemoveAt(roster, i)
    /\ sharing' = sharing \ {p}
    /\ UNCHANGED <<audience, stageSize>>

OnlookerComes ==
    /\ audience < MaxAudience
    /\ audience' = audience + 1
    /\ UNCHANGED <<roster, sharing, stageSize>>

OnlookerGoes ==
    /\ audience > 0
    /\ audience' = audience - 1
    /\ UNCHANGED <<roster, sharing, stageSize>>

ShareChanges(p) ==
    /\ \E i \in DOMAIN Ordered : Ordered[i] = p
    /\ sharing' = IF p \in sharing THEN sharing \ {p} ELSE sharing \cup {p}
    /\ UNCHANGED <<roster, audience, stageSize>>

Resized(size) ==
    /\ stageSize' = size
    /\ UNCHANGED <<roster, audience, sharing>>

LayoutInit == roster = <<>> /\ audience = 0 /\ sharing = {} /\ stageSize = <<0, 0>>

LayoutNext ==
    \/ \E p \in Remotes : PeerComes(p) \/ PeerGoes(p)
    \/ OnlookerComes \/ OnlookerGoes
    \/ \E p \in Remotes \cup {Myself} : ShareChanges(p)
    \/ \E size \in StageSizes : Resized(size)

LayoutSpec == LayoutInit /\ [][LayoutNext]_layoutVars

-----------------------------------------------------------------------------
LayoutTypeOK ==
    /\ roster \in Seq(Remotes) /\ audience \in 0 .. MaxAudience
    /\ sharing \subseteq Remotes \cup {Myself}
    /\ stageSize \in StageSizes \cup {<<0, 0>>}

Before(a, b) == a.to * b.parts <= b.from * a.parts
Apart(a, b) == Before(a.x, b.x) \/ Before(b.x, a.x) \/ Before(a.y, b.y) \/ Before(b.y, a.y)
Inside(a, length) == 0 <= a.from /\ a.to <= length * a.parts

TilesApart ==
    LET rects == Rects IN
    \A i \in DOMAIN rects :
        /\ Spotlit => Apart(rects[i], SpotlightArea(stageSize))
        /\ \A j \in DOMAIN rects : i # j => Apart(rects[i], rects[j])

TilesInside ==
    LET rects == Rects IN
    \A i \in DOMAIN rects : Inside(rects[i].x, stageSize[1]) /\ Inside(rects[i].y, stageSize[2])

\* However many participants there are and whoever shares, no tile lies on
\* another or on the screen.  Up to fifteen of them, on a stage of 400 px and
\* more each way, are in the stage as a whole: the least size of a tile never
\* applies, and the strip has room.  (Sixteen are not: see NoTileExceeds.)
\* And a screen that alone is shared is shown, unless it is the own one on a
\* stage without a spotlight.
StageShowsAll ==
    /\ LayoutTypeOK
    /\ Measured(stageSize) => TilesApart
    /\ stageSize[1] >= 50 /\ stageSize[2] >= 50 /\ Tiles <= 15 => TilesInside
    /\ \A p \in sharing : (\A q \in sharing : q = p) /\ (p = Myself => Measured(stageSize)) => p \in Screens

-----------------------------------------------------------------------------
(* What a test says and the code does not keep (README, Divergences).      *)

\* "no tile exceeds container bounds" (grid-layout.test.ts): on a small
\* stage the least size of a tile and the strip push tiles out of it, and on
\* a larger one a crowd does: sixteen on 400 x 400 px get three columns, of
\* which the sides of 107 px are raised to 120, and six rows of 445 px.
NoTileExceeds == Measured(stageSize) => TilesInside
=============================================================================
