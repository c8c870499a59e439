--------------------------- MODULE MrcAllocation ----------------------------
(***************************************************************************)
(* The last part of mrc_report in llama-moestream.cpp: how many more hits  *)
(* the slots could bring if they were not split evenly over the layers.    *)
(* Each layer's cumulative hits are replaced by their upper concave hull,  *)
(* and the hulls' segments are taken steepest first.  Here the calculation *)
(* is made in every state Mrc reaches, for every budget.                   *)
(*                                                                         *)
(* The code divides in floating point; slopes here are multiplied by       *)
(* Scale, which every length of a segment divides.  Among equal slopes the *)
(* order is left open.                                                     *)
(***************************************************************************)
EXTENDS Mrc

CONSTANT Scale

ASSUME ScaleAssumption == Scale \in Nat \ {0} /\ \A n \in 1 .. NExpert : Scale % n = 0

\* V: hits of layer l with c slots.
Hits(l, c) == HitsAt(hist_l[l], c)

Slope(l, a, b) == ((Hits(l, b) - Hits(l, a)) * Scale) \div (b - a)

DentsLower(l, a, b, c) == Slope(l, b, c) <= Slope(l, a, b)  \* Mutant: lower hull.

DentsNever(l, a, b, c) == FALSE  \* Mutant: "A naive greedy allocation".

\* b lies below the line from a to c, or on it.
Dents(l, a, b, c) == Slope(l, b, c) >= Slope(l, a, b)

\* The monotone chain: points are popped off the end while they dent, then c is
\* pushed.
Kept(l, hull, c) ==
    Max({k \in 1 .. Len(hull) : k > 1 => ~Dents(l, hull[k - 1], hull[k], c)})

WithPoint(l, hull, c) == Append(SubSeq(hull, 1, Kept(l, hull, c)), c)

Chain(l) ==
    LET hull[c \in 0 .. NExpert] ==
            IF c = 0 THEN <<0>> ELSE WithPoint(l, hull[c - 1], c)
    IN  hull[NExpert]

Segment(l, a, b) == [slope |-> Slope(l, a, b), n |-> b - a, layer |-> l, from |-> a]

\* The rising segments of all hulls.
Segments ==
    UNION {LET hull == Chain(l)
           IN  {Segment(l, hull[k], hull[k + 1]) : k \in 1 .. Len(hull) - 1} :
              l \in Layer}

Rising == {s \in Segments : s.slope > 0}

Steepest(segs) == CHOOSE s \in segs : \A t \in segs : t.slope <= s.slope

\* The loop over the segments, until the budget is spent: the hits they bring
\* (times Scale), the slots each layer gets, and whether the last segment was cut
\* short.
Take(got) ==
    IF got.segs = {} \/ got.left = 0 THEN got
    ELSE LET s == Steepest(got.segs)
             n == IF s.n < got.left THEN s.n ELSE got.left
         IN  [segs  |-> got.segs \ {s},
              left  |-> got.left - n,
              hits  |-> got.hits + s.slope * n,
              slots |-> [got.slots EXCEPT ![s.layer] = @ + n],
              cut   |-> n < s.n]

\* Every segment takes a slot at least: the budget is enough rounds.
Optimum(budget) ==
    LET got[n \in 0 .. budget] ==
            IF n = 0
              THEN [segs |-> Rising, left |-> budget, hits |-> 0,
                    slots |-> [l \in Layer |-> 0], cut |-> FALSE]
              ELSE Take(got[n - 1])
    IN  got[budget]

\* A loop over the layers adds up f as the loop of HitsAt does.
OverLayers(f) == HitsAt(f, NLayer)

\* hit_uniform: the even split.
EvenHits(slots) == OverLayers([l \in Layer |-> Hits(l, slots)])
-----------------------------------------------------------------------------
\* "optimal upper bound": no way to spread the slots over the layers, the even
\* one included, brings more hits than the calculation reports.
BoundsEveryAllocation ==
    \A slots \in SlotCount :
        LET bound == Optimum(slots * NLayer).hits IN
        /\ EvenHits(slots) * Scale <= bound
        /\ \A a \in [Layer -> SlotCount] :
              OverLayers(a) <= slots * NLayer
                 => OverLayers([l \in Layer |-> Hits(l, a[l])]) * Scale <= bound

\* The bound is not idle: unless a segment was cut, the slot counts reported
\* with it bring just as many hits.
BoundIsReached ==
    \A slots \in SlotCount :
        LET best == Optimum(slots * NLayer) IN
        ~best.cut =>
            OverLayers([l \in Layer |-> Hits(l, best.slots[l])]) * Scale = best.hits
=============================================================================
