-------------------------------- MODULE Mrc ---------------------------------
(***************************************************************************)
(* The measured miss ratio curve of llama-moestream.cpp: mrc_touch counts, *)
(* for every access of the decode path, how many experts of the layer were *)
(* touched since the accessed one was.  From the histogram of these reuse  *)
(* distances mrc_report reads off the hit rate of every slot count.        *)
(*                                                                         *)
(* Beside the code's counters the module runs what they are claimed to     *)
(* stand for: LRU caches of every size, fed the same accesses.             *)
(***************************************************************************)
EXTENDS Integers, Sequences, FiniteSets, FiniteSetsExt, SequencesExt

CONSTANTS
    NLayer,   \* layers that are measured
    NExpert,  \* experts per layer
    MaxTotal  \* bound: accesses recorded

ASSUME MrcAssumption ==
    NLayer \in Nat \ {0} /\ NExpert \in Nat \ {0} /\ MaxTotal \in Nat

Layer == 0 .. NLayer - 1
Expert == 0 .. NExpert - 1
Distance == 0 .. NExpert - 1
SlotCount == 0 .. NExpert

VARIABLES
    last,     \* g_mrc_last[l][e], 0 for never
    clock,    \* g_mrc_clock[l]
    hist,     \* g_mrc_hist[r]
    hist_l,   \* g_mrc_hist_l[l][r]
    tot_l,    \* g_mrc_tot_l[l]
    cold,     \* g_mrc_cold
    total,    \* g_mrc_total
    lru,      \* reference: lru[l][c], a cache of c slots, latest first
    lru_hits  \* reference: lru_hits[c], hits of LRU caches of c slots per layer

counters == <<last, clock, hist, hist_l, tot_l, cold, total>>
vars == <<counters, lru, lru_hits>>

Init ==
    /\ last = [l \in Layer |-> [e \in Expert |-> 0]]
    /\ clock = [l \in Layer |-> 0]
    /\ hist = [r \in Distance |-> 0]
    /\ hist_l = [l \in Layer |-> [r \in Distance |-> 0]]
    /\ tot_l = [l \in Layer |-> 0]
    /\ cold = 0 /\ total = 0
    /\ lru = [l \in Layer |-> [c \in SlotCount |-> <<>>]]
    /\ lru_hits = [c \in SlotCount |-> 0]
-----------------------------------------------------------------------------
\* Mutant: the accessed expert counts itself.
ReuseDistanceInclusive(l, e) ==
    Cardinality({x \in Expert : last[l][x] >= last[l][e]})

\* Experts of the layer touched more recently.
ReuseDistance(l, e) == Cardinality({x \in Expert : last[l][x] > last[l][e]})

CountInLayer(l, r) == hist_l' = [hist_l EXCEPT ![l][r] = @ + 1]

\* A first access misses at any slot count.
CountCold == cold' = cold + 1 /\ UNCHANGED <<hist, hist_l>>

CountReuse(l, e) ==
    LET r == ReuseDistance(l, e) IN
    /\ IF r \in Distance
         THEN hist' = [hist EXCEPT ![r] = @ + 1] /\ CountInLayer(l, r)
         ELSE UNCHANGED <<hist, hist_l>>
    /\ UNCHANGED cold

Advance(l, e) == clock' = [clock EXCEPT ![l] = @ + 1]

Without(s, e) ==
    IF Contains(s, e) THEN RemoveAt(s, CHOOSE i \in DOMAIN s : s[i] = e) ELSE s

\* The reference caches: a miss evicts the least recently used expert.
LruTouch(l, e) ==
    /\ lru_hits' = [c \in SlotCount |->
                      lru_hits[c] + IF Contains(lru[l][c], e) THEN 1 ELSE 0]
    /\ lru' = [lru EXCEPT ![l] =
                 [c \in SlotCount |->
                    LET s == <<e>> \o Without(lru[l][c], e)
                    IN  IF Len(s) > c THEN Front(s) ELSE s]]

\* mrc_touch.
Touch(l, e) ==
    /\ total < MaxTotal
    /\ total' = total + 1
    /\ tot_l' = [tot_l EXCEPT ![l] = @ + 1]
    /\ IF last[l][e] = 0 THEN CountCold ELSE CountReuse(l, e)
    /\ Advance(l, e)
    /\ last' = [last EXCEPT ![l][e] = clock[l] + 1]
    /\ LruTouch(l, e)

Next == \E l \in Layer, e \in Expert : Touch(l, e)

Spec == Init /\ [][Next]_vars
-----------------------------------------------------------------------------
\* What mrc_report accumulates for c slots, as its loop adds it up.
HitsAt(h, c) ==
    LET acc[n \in 0 .. c] == IF n = 0 THEN 0 ELSE acc[n - 1] + h[n - 1]
    IN  acc[c]

\* No two experts of a layer carry the same stamp: the order is total.
TypeOK ==
    /\ last \in [Layer -> [Expert -> 0 .. MaxTotal]]
    /\ \A l \in Layer, e, x \in Expert :
          (e # x /\ last[l][e] = last[l][x]) => last[l][e] = 0
    /\ clock \in [Layer -> 0 .. MaxTotal]
    /\ hist \in [Distance -> Nat]
    /\ hist_l \in [Layer -> [Distance -> Nat]]
    /\ tot_l \in [Layer -> Nat]
    /\ cold \in Nat /\ total \in 0 .. MaxTotal

\* "hit rate(C slots) = P(reuse distance < C) ... exact for LRU": one run tells
\* the hits of every slot count at once.
ExactForLru == \A c \in SlotCount : HitsAt(hist, c) = lru_hits[c]
=============================================================================
