---------------------------- MODULE FixtureCursor ----------------------------
(***************************************************************************)
(* A loaded fixture chain and the cursor that a Chain-Sync server moves    *)
(* over it (src/scenario/fixture.rs).  A header is named by its point.     *)
(*                                                                         *)
(* Cursor positions: -1 before the anchor (the initial position), 0 at the *)
(* anchor, k >= 1 at the k-th header.                                      *)
(***************************************************************************)
EXTENDS Integers, Sequences

CONSTANTS
    Points,     \* every point a client or a fixture may name
    Origin,     \* Point::Origin
    Anchor,     \* the point before the first header
    Chain       \* the headers, in chain order

\* parse_anchor yields any point; header lines carry a slot and a hash, so
\* no header is Origin.  Nothing forbids repeated headers.
ASSUME ChainAssumption ==
    /\ Origin \in Points
    /\ Anchor \in Points
    /\ Chain \in Seq(Points \ {Origin})

Positions == -1..Len(Chain)

\* point_to_pos returns Some(_) exactly for the anchor and the headers.
Known(p) == p = Anchor \/ \E i \in 1..Len(Chain) : Chain[i] = p

\* point_to_pos: the anchor is looked at first, then the first equal header.
point_to_pos(p) ==
    IF p = Anchor THEN 0
    ELSE CHOOSE i \in 1..Len(Chain) :
            Chain[i] = p /\ \A j \in 1..(i - 1) : Chain[j] # p

\* find_intersect: the client's own order decides, not the slots.
IsFirstKnown(points, i) ==
    Known(points[i]) /\ \A j \in 1..(i - 1) : ~Known(points[j])

HasIntersect(points) == \E i \in 1..Len(points) : Known(points[i])

find_intersect(points) ==
    point_to_pos(points[CHOOSE i \in 1..Len(points) : IsFirstKnown(points, i)])

\* Mutant of current_point: indexes the headers from 0.
current_point_off_by_one(pos) == IF pos <= 1 THEN Anchor ELSE Chain[pos - 1]

\* current_point
current_point(pos) == IF pos <= 0 THEN Anchor ELSE Chain[pos]

\* Mutant of advance_pos: the cursor runs past the tip.
advance_pos_unbounded(pos) == pos + 1

\* Mutant of advance_some: the last header counts as the tip.
advance_some_short(pos) == pos + 1 < Len(Chain) /\ pos + 1 # 0

\* advance: where the cursor goes, and whether it has a header to return.
advance_pos(pos) == IF pos + 1 > Len(Chain) THEN pos ELSE pos + 1
advance_some(pos) == pos + 1 <= Len(Chain) /\ pos + 1 # 0
=============================================================================
