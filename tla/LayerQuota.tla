----------------------------- MODULE LayerQuota -----------------------------
(***************************************************************************)
(* The per-layer slot quotas of ExpertCache and their periodic             *)
(* reallocation (src/src/expert_cache.cpp: the constructor, end_step and   *)
(* rebalance_quota).  The quotas are ceilings, not seats: ExpertCache      *)
(* consults them to decide which layer gives up a slot.                    *)
(*                                                                         *)
(* Abstractions: the learning rate quota_eta is the rational               *)
(* EtaNum / EtaDen, and products of doubles are exact rationals.           *)
(***************************************************************************)
EXTENDS Integers, FiniteSets, SequencesExt

CONSTANTS
    NLayer,         \* Config::n_layer
    NExpert,        \* Config::n_expert, experts per layer
    NSlot,          \* n_slot_, slots shared by all layers
    QuotaMin,       \* Config::quota_min
    EtaNum, EtaDen, \* Config::quota_eta = EtaNum / EtaDen
    QuotaPeriod,    \* Config::quota_period, steps between reallocations
    QuotaAdapt,     \* Config::layer_quota_adapt
    MaxGhostHits    \* bound: a layer's ghost hits per period count up to here

ASSUME QuotaAssumption ==
    /\ NLayer \in Nat \ {0} /\ NExpert \in Nat \ {0} /\ NSlot \in Nat \ {0}
    /\ QuotaMin \in Nat \ {0} /\ QuotaPeriod \in Nat \ {0}
    /\ EtaNum \in Nat /\ EtaDen \in Nat \ {0}
    /\ QuotaAdapt \in BOOLEAN /\ MaxGhostHits \in Nat

VARIABLES
    quota,      \* quota_[l]
    ghost_hits, \* LayerState::ghost_hits of layer l
    step        \* step_, kept modulo QuotaPeriod: nothing else reads it

quotaVars == <<quota, ghost_hits, step>>

Layer == 0 .. NLayer - 1

\* The sum over the layers, added up as the code's loops do.
Sum(f) ==
    LET upTo[n \in 0 .. NLayer] == IF n = 0 THEN 0 ELSE upTo[n - 1] + f[n - 1]
    IN  upTo[NLayer]

AtLeast(n, floor) == IF n < floor THEN floor ELSE n
AtMost(n, ceiling) == IF n > ceiling THEN ceiling ELSE n

\* An even split, the remainder going to the leading layers.
EvenQuota ==
    [l \in Layer |-> NSlot \div NLayer + (IF l < NSlot % NLayer THEN 1 ELSE 0)]

\* int64_t(x +- 0.5) for x = num / den: round to nearest, halves away from 0.
Rounded(num, den) ==
    IF num >= 0 THEN (2 * num + den) \div (2 * den)
                ELSE -((den - 2 * num) \div (2 * den))

\* Each quota moves in proportion to how far its layer's ghost hits are from
\* the mean, and is clamped to [QuotaMin, NExpert].
Shifted(q, gh) ==
    LET total == Sum(gh) IN
    [l \in Layer |->
        q[l] + Rounded(EtaNum * (NLayer * gh[l] - total) * q[l], EtaDen * total)]

NudgedReversed(q, gh) ==  \* Mutant: takes from the layers with most near-misses.
    LET total == Sum(gh) IN
    [l \in Layer |-> AtMost(AtLeast(q[l]
        + Rounded(EtaNum * (total - NLayer * gh[l]) * q[l], EtaDen * total),
        QuotaMin), NExpert)]

Nudged(q, gh) ==
    [l \in Layer |-> AtMost(AtLeast(Shifted(q, gh)[l], QuotaMin), NExpert)]

\* Mutant: the minimum is not reapplied after scaling.
ScaledNoFloor(nq) == [l \in Layer |-> (nq[l] * NSlot) \div Sum(nq)]

\* Scaled so that the quotas sum to NSlot, then lifted to QuotaMin again.
Scaled(nq) ==
    [l \in Layer |-> AtLeast((nq[l] * NSlot) \div Sum(nq), QuotaMin)]

ToppedUpNever(nq) == nq  \* Mutant: what rounding down lost is not given back.

\* What rounding down lost is handed out one by one from layer 0 on.
ToppedUp(nq) ==
    LET lost == NSlot - Sum(nq) IN
    IF lost <= 0 THEN nq
    ELSE [l \in Layer |->
            nq[l] + lost \div NLayer + (IF l < lost % NLayer THEN 1 ELSE 0)]

Rebalanced(q, gh) ==
    IF Sum(gh) = 0 THEN q ELSE ToppedUp(Scaled(Nudged(q, gh)))

QuotaInit ==
    /\ quota = EvenQuota
    /\ ghost_hits = [l \in Layer |-> 0]
    /\ step = 0

\* end_step: every QuotaPeriod steps the quotas are reallocated.
QuotaEndStep ==
    /\ step' = (step + 1) % QuotaPeriod
    /\ IF QuotaAdapt /\ step' = 0
         THEN /\ quota' = Rebalanced(quota, ghost_hits)
              /\ ghost_hits' = [l \in Layer |-> 0]
         ELSE UNCHANGED <<quota, ghost_hits>>

\* acquire finds the expert in layer l's ghost list (the count saturates at
\* the bound MaxGhostHits).
CountGhostHit(l) ==
    /\ ghost_hits' = [ghost_hits EXCEPT ![l] = AtMost(@ + 1, MaxGhostHits)]
    /\ UNCHANGED <<quota, step>>

QuotaNext == QuotaEndStep \/ \E l \in Layer : CountGhostHit(l)

QuotaSpec == QuotaInit /\ [][QuotaNext]_quotaVars
-----------------------------------------------------------------------------
QuotaTypeOK ==
    /\ quota \in [Layer -> Nat]
    /\ ghost_hits \in [Layer -> 0 .. MaxGhostHits]
    /\ step \in 0 .. QuotaPeriod - 1

\* No slot is left without a layer entitled to it, however the quotas drifted
\* (rebalance_quota's top-up loop runs while the sum is below n_slot_).
QuotasCoverTheSlots == Sum(quota) >= NSlot

\* A layer that once had QuotaMin never loses it: no layer can be starved by
\* the others' ghost hits (the two std::max with quota_min).
QuotaFloor == \A l \in Layer : quota[l] >= AtMost(QuotaMin, NSlot \div NLayer)

\* A reallocation follows demand: of two layers, the one that had at least the
\* quota and more near-misses is not overtaken by more than the one slot the
\* top-up hands to leading layers (DESIGN 12.5, "higher marginal utility").
QuotaFollowsDemand ==
    [][ \A a, b \in Layer :
          (quota' # quota /\ quota[a] >= quota[b] /\ ghost_hits[a] > ghost_hits[b])
            => quota'[a] + 1 >= quota'[b] ]_quotaVars

\* rebalance_quota's comment: "Normalize so the total never exceeds the slot
\* count".  The second clamp to quota_min breaks it.
QuotasFitTheSlots == Sum(quota) <= NSlot
=============================================================================
