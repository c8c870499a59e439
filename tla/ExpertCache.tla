---------------------------- MODULE ExpertCache ----------------------------
(***************************************************************************)
(* ExpertCache (src/src/expert_cache.hpp and .cpp): which experts sit in   *)
(* the slots of the slab.  Each layer runs S3-FIFO (SMALL, MAIN and a      *)
(* GHOST list of evicted ids) beside a PINNED set; all layers share one    *)
(* stack of free slots and the quotas of LayerQuota decide who gives a     *)
(* slot up.  The class is single-threaded: every call is one step.         *)
(*                                                                         *)
(* The statistics counters, Entry::last and the byte counts are left out:  *)
(* no decision reads them.                                                 *)
(***************************************************************************)
EXTENDS LayerQuota

CONSTANTS
    Expert,     \* the expert ids of a layer
    Slot,       \* the slots, n_slot_ of them
    NoSlot,     \* NO_SLOT
    Origins,    \* the request origins the callers use
    GhostMult,  \* Config::ghost_mult
    PinCount,   \* experts build_pinned pins per layer; 0 when pin_ratio is 0
    MaxRefs     \* bound: references the callers hold on one expert at a time

FREQ_MAX == 3
RC_MOD == 65536  \* Entry::rc is a uint16_t

ASSUME CacheAssumption ==
    /\ IsFiniteSet(Expert) /\ Cardinality(Expert) = NExpert
    /\ IsFiniteSet(Slot) /\ Cardinality(Slot) = NSlot /\ NoSlot \notin Slot
    /\ Origins \subseteq {"Demand", "PrefetchHigh", "PrefetchLow", "Sweep"}
    /\ GhostMult \in Nat /\ PinCount \in 0 .. NExpert
    /\ MaxRefs \in 1 .. RC_MOD - 1

VARIABLES
    ent,    \* ent_[l, e]: slot, rc, seg, resident and freq
    table,  \* slot_[l, e], the slot table callers read
    lay,    \* lay_[l]: the queues small, main and ghost, resident and pinned
    free    \* free_, a stack whose top is its last element

cacheVars == <<ent, table, lay, free>>
vars == <<cacheVars, quotaVars>>

Seg == {"None", "Pinned", "Small", "Main"}

Cached(l, e) == ent[l][e].seg # "None"

\* The constructor stacks the slots so that slot 0 is handed out first; slots
\* being mere names, any order stands for that one.
Init ==
    /\ QuotaInit
    /\ ent = [l \in Layer |-> [e \in Expert |->
                [slot |-> NoSlot, rc |-> 0, seg |-> "None",
                 resident |-> FALSE, freq |-> 0]]]
    /\ table = [l \in Layer |-> [e \in Expert |-> NoSlot]]
    /\ lay = [l \in Layer |-> [small |-> <<>>, main |-> <<>>, ghost |-> <<>>,
                               resident |-> 0, pinned |-> 0]]
    /\ free \in Bijection(1 .. NSlot, Slot)
-----------------------------------------------------------------------------
(* evict_one: whom it takes and what it leaves behind.                     *)

IdleAny(l, e) == TRUE  \* Mutant: entries in use may go.

Idle(l, e) == ent[l][e].rc = 0

IdleIn(l, q) == {e \in ToSet(q) : Idle(l, e)}

ColdAny(l, e) == TRUE  \* Mutant: no second chance in MAIN.

\* In MAIN an entry with freq > 1 earns a reinsertion.
Cold(l, e) == ent[l][e].freq <= 1

\* Pass 0 scans SMALL; passes 1 and 2 scan MAIN.
TakesSmall(l) == IdleIn(l, lay[l].small) # {}

ScannedQueue(l) == IF TakesSmall(l) THEN lay[l].small ELSE lay[l].main

\* Pass 1 takes a cold entry; pass 2, reached when MAIN has none, any idle one.
Takeable(l) ==
    LET idle == IdleIn(l, ScannedQueue(l))
        cold == {e \in idle : Cold(l, e)}
    IN  IF TakesSmall(l) \/ cold = {} THEN idle ELSE cold

CanEvict(l) == Takeable(l) # {}

\* The scan rotates what it skips to the back, so it stops at the first.
VictimIndex(l) ==
    CHOOSE i \in DOMAIN ScannedQueue(l) :
        /\ ScannedQueue(l)[i] \in Takeable(l)
        /\ \A j \in 1 .. i - 1 : ScannedQueue(l)[j] \notin Takeable(l)

Victim(l) == ScannedQueue(l)[VictimIndex(l)]

\* The idle entries of MAIN that pass 1 met and reinserted, at the price of
\* one freq: those before the victim, or all when there is no cold one.
Reinserted(l) ==
    IF TakesSmall(l) THEN {}
    ELSE {e \in IdleIn(l, lay[l].main) :
            ~Cold(l, e) /\ (\/ Takeable(l) = IdleIn(l, lay[l].main)
                            \/ \E j \in 1 .. VictimIndex(l) - 1 : lay[l].main[j] = e)}

\* Mutant: the scan does not rotate what it skips.
QueueUnrotated(l) == RemoveAt(ScannedQueue(l), VictimIndex(l))

QueueWithoutVictim(l) ==
    LET q == ScannedQueue(l) i == VictimIndex(l)
    IN  SubSeq(q, i + 1, Len(q)) \o SubSeq(q, 1, i - 1)

\* The ghost list keeps its newest quota * GhostMult ids.
TrimmedGhost(l, ghost) ==
    LET gmax == quota[l] * GhostMult
    IN  IF Len(ghost) > gmax THEN SubSeq(ghost, Len(ghost) - gmax + 1, Len(ghost))
                             ELSE ghost

\* Mutant: the evicted entry keeps its slot number.
EntriesKeepingSlot(l) ==
    [ent[l] EXCEPT ![Victim(l)].seg = "None", ![Victim(l)].freq = 0]

EntriesAfterEviction(l) ==
    [e \in Expert |->
        IF e = Victim(l)
          THEN [ent[l][e] EXCEPT !.slot = NoSlot, !.seg = "None",
                                 !.resident = FALSE, !.freq = 0]
        ELSE IF e \in Reinserted(l) THEN [ent[l][e] EXCEPT !.freq = @ - 1]
        ELSE ent[l][e]]

\* Mutant: the layer's resident count is not decremented.
LayerMiscounted(l, ls) ==
    [ls EXCEPT
        !.small = IF TakesSmall(l) THEN QueueWithoutVictim(l) ELSE @,
        !.main = IF TakesSmall(l) THEN @ ELSE QueueWithoutVictim(l),
        !.ghost = TrimmedGhost(l, Append(@, Victim(l)))]

\* ls is layer l's state when evict_one is called.
LayerAfterEviction(l, ls) ==
    [ls EXCEPT
        !.small = IF TakesSmall(l) THEN QueueWithoutVictim(l) ELSE @,
        !.main = IF TakesSmall(l) THEN @ ELSE QueueWithoutVictim(l),
        !.ghost = TrimmedGhost(l, Append(@, Victim(l))),
        !.resident = @ - 1]
-----------------------------------------------------------------------------
(* alloc_slot: whether to evict, and from which layer.                     *)

OverQuotaNever(l) == FALSE  \* Mutant: a layer may outgrow its quota.

OverQuota(l) == lay[l].resident >= quota[l]

NeedsEviction(l) == OverQuota(l) \/ free = <<>>

\* With nothing free, the layer furthest over its quota among those that hold
\* more than pinned entries; the asking layer if there is none.
FurthestOver(l) ==
    LET candidates == {m \in Layer : lay[m].resident > lay[m].pinned}
        over(m) == lay[m].resident - quota[m]
    IN  IF candidates = {} THEN l
        ELSE CHOOSE m \in candidates : \A k \in candidates :
                over(k) < over(m) \/ (over(k) = over(m) /\ m <= k)

GivingLayer(l) == IF OverQuota(l) THEN l ELSE FurthestOver(l)

Refuses(l) == NeedsEviction(l) /\ ~CanEvict(GivingLayer(l))
-----------------------------------------------------------------------------
(* acquire.                                                                *)

\* std::find and erase; the lists hold an id at most once.
Erased(q, e) ==
    IF Contains(q, e) THEN RemoveAt(q, CHOOSE i \in DOMAIN q : q[i] = e) ELSE q

Unghosted(ls, e) == [ls EXCEPT !.ghost = Erased(@, e)]

WasGhost(l, e) == Contains(lay[l].ghost, e)

GhostHits(l, e) ==
    IF WasGhost(l, e) THEN CountGhostHit(l) ELSE UNCHANGED quotaVars

FreqAfterHit(freq) == AtMost(freq + 1, FREQ_MAX)

\* A second reference while in SMALL moves the entry to MAIN.
Promotes(l, e) == ent[l][e].seg = "Small" /\ FreqAfterHit(ent[l][e].freq) >= 2

Hit(l, e) ==
    /\ Cached(l, e)
    /\ ent[l][e].rc < MaxRefs
    /\ ent' = [ent EXCEPT ![l][e].freq = FreqAfterHit(@),
                          ![l][e].rc = (@ + 1) % RC_MOD,
                          ![l][e].seg = IF Promotes(l, e) THEN "Main" ELSE @]
    /\ lay' = IF Promotes(l, e)
                THEN [lay EXCEPT ![l].small = Erased(@, e), ![l].main = Append(@, e)]
                ELSE lay
    /\ UNCHANGED <<table, free, quotaVars>>

\* A miss that reserves no slot: a sweep, or alloc_slot found nothing.  The
\* reference count it starts with and the ghost entry it used up stay changed.
MissUnserved(l, e, origin) ==
    /\ ~Cached(l, e)
    /\ origin = "Sweep" \/ Refuses(l)
    /\ ent' = [ent EXCEPT ![l][e].freq = 1]
    /\ lay' = [lay EXCEPT ![l] = Unghosted(@, e)]
    /\ GhostHits(l, e)
    /\ UNCHANGED <<table, free>>

\* A ghost hit goes to MAIN, a low-confidence prefetch to the end of SMALL
\* that is evicted first, everything else to the far end of SMALL.
Enqueued(ls, e, origin, ghost) ==
    [ls EXCEPT
        !.main = IF ghost THEN Append(@, e) ELSE @,
        !.small = IF ghost THEN @
                  ELSE IF origin = "PrefetchLow" THEN <<e>> \o @
                  ELSE Append(@, e),
        !.resident = @ + 1]

\* A miss that reserves a slot, evicting one entry first if it has to.
Admit(l, e, origin) ==
    /\ ~Cached(l, e)
    /\ origin # "Sweep"
    /\ ~Refuses(l)
    /\ LET evicting == NeedsEviction(l)
           giver == GivingLayer(l)
           s == IF evicting THEN ent[giver][Victim(giver)].slot ELSE Last(free)
           unghosted == [lay EXCEPT ![l] = Unghosted(@, e)]
           entries == IF evicting
                        THEN [ent EXCEPT ![giver] = EntriesAfterEviction(giver)]
                        ELSE ent
           layers == IF evicting
                       THEN [unghosted EXCEPT ![giver] = LayerAfterEviction(giver, @)]
                       ELSE unghosted
           slots == IF evicting
                      THEN [table EXCEPT ![giver][Victim(giver)] = NoSlot]
                      ELSE table
       IN  /\ ent' = [entries EXCEPT ![l][e] =
                        [slot |-> s, rc |-> 1, resident |-> FALSE, freq |-> 1,
                         seg |-> IF WasGhost(l, e) THEN "Main" ELSE "Small"]]
           /\ lay' = [layers EXCEPT ![l] = Enqueued(@, e, origin, WasGhost(l, e))]
           /\ table' = [slots EXCEPT ![l][e] = s]
           /\ free' = IF evicting THEN free ELSE Front(free)
    /\ GhostHits(l, e)

Acquire(l, e, origin) ==
    Hit(l, e) \/ MissUnserved(l, e, origin) \/ Admit(l, e, origin)

\* The caller's read has finished.
MarkResident(l, e) ==
    /\ Cached(l, e) /\ ~ent[l][e].resident
    /\ ent' = [ent EXCEPT ![l][e].resident = TRUE]
    /\ UNCHANGED <<table, lay, free, quotaVars>>

Release(l, e) ==
    /\ ent[l][e].rc > 0
    /\ ent' = [ent EXCEPT ![l][e].rc = @ - 1]
    /\ UNCHANGED <<table, lay, free, quotaVars>>

EndStep == QuotaEndStep /\ UNCHANGED cacheVars

\* build_pinned, called once on the fresh cache: order[l] is layer l's most
\* frequent experts in the calibration run.  Layer by layer, slots are popped
\* until none is free.
BuildPinned(order) ==
    /\ PinCount > 0
    /\ \A l \in Layer : lay[l].resident = 0
    /\ LET rank(l, e) == CHOOSE i \in 1 .. PinCount : order[l][i] = e
           pop(l, e) == l * PinCount + rank(l, e)
           pins(l, e) == Contains(order[l], e) /\ pop(l, e) <= Len(free)
           slotFor(l, e) == free[Len(free) - pop(l, e) + 1]
           pinned(l) == {e \in Expert : pins(l, e)}
           taken == AtMost(NLayer * PinCount, Len(free))
       IN  /\ ent' = [l \in Layer |-> [e \in Expert |->
                        IF pins(l, e)
                          THEN [ent[l][e] EXCEPT !.slot = slotFor(l, e),
                                    !.seg = "Pinned", !.resident = TRUE]
                          ELSE ent[l][e]]]
           /\ table' = [l \in Layer |-> [e \in Expert |->
                          IF pins(l, e) THEN slotFor(l, e) ELSE table[l][e]]]
           /\ lay' = [l \in Layer |-> [lay[l] EXCEPT
                        !.pinned = @ + Cardinality(pinned(l)),
                        !.resident = @ + Cardinality(pinned(l))]]
           /\ free' = SubSeq(free, 1, Len(free) - taken)
    /\ UNCHANGED quotaVars

Order == Injection(1 .. PinCount, Expert)

Next ==
    \/ \E l \in Layer, e \in Expert :
          \/ \E origin \in Origins : Acquire(l, e, origin)
          \/ MarkResident(l, e)
          \/ Release(l, e)
    \/ \E order \in [Layer -> Order] : BuildPinned(order)
    \/ EndStep

Spec == Init /\ [][Next]_vars
-----------------------------------------------------------------------------
TypeOK ==
    /\ QuotaTypeOK
    /\ ent \in [Layer -> [Expert ->
            [slot : Slot \cup {NoSlot}, rc : 0 .. MaxRefs, seg : Seg,
             resident : BOOLEAN, freq : 0 .. FREQ_MAX]]]
    /\ table \in [Layer -> [Expert -> Slot \cup {NoSlot}]]
    /\ lay \in [Layer ->
            [small : Seq(Expert), main : Seq(Expert), ghost : Seq(Expert),
             resident : 0 .. NSlot, pinned : 0 .. NSlot]]
    /\ free \in Seq(Slot)

\* Slots are conserved: each one is either on the free stack, once, or the
\* slot of exactly one entry, and the slot table says the same as the entries.
\* A leak starves the cache, a duplicate puts two experts in the same bytes.
SlotsConserved ==
    /\ \A s \in Slot :
          Cardinality({i \in DOMAIN free : free[i] = s})
            + Cardinality({k \in Layer \X Expert : ent[k[1]][k[2]].slot = s}) = 1
    /\ \A l \in Layer, e \in Expert :
          /\ table[l][e] = ent[l][e].slot
          /\ Cached(l, e) <=> ent[l][e].slot # NoSlot

Lists(q, S) == IsInjective(q) /\ ToSet(q) = S

\* The queues evict_one scans list exactly the entries of their segment, once
\* each, the ghost list only ids of experts that are gone (a stale one would count
\* near-misses that were none), and the counters alloc_slot compares agree.
QueuesMatchEntries ==
    \A l \in Layer :
        LET in(seg) == {e \in Expert : ent[l][e].seg = seg} IN
        /\ Lists(lay[l].small, in("Small"))
        /\ Lists(lay[l].main, in("Main"))
        /\ IsInjective(lay[l].ghost)
        /\ \A e \in ToSet(lay[l].ghost) : ~Cached(l, e)
        /\ lay[l].pinned = Cardinality(in("Pinned"))
        /\ lay[l].resident = Cardinality({e \in Expert : Cached(l, e)})

\* Eviction order (S3-FIFO, the comments of evict_one): an entry leaves MAIN
\* only when SMALL has no idle entry, and one with freq > 1 leaves only when
\* every idle entry of MAIN had freq > 1.
ColdestGoesFirst ==
    [][ \A l \in Layer, e \in Expert :
          (ent[l][e].seg = "Main" /\ ent'[l][e].seg = "None") =>
             /\ \A x \in Expert : ent[l][x].seg = "Small" => ent[l][x].rc > 0
             /\ ent[l][e].freq > 1 =>
                  \A x \in Expert : (ent[l][x].seg = "Main" /\ ent[l][x].rc = 0)
                                        => ent[l][x].freq > 1 ]_vars

\* A layer at its quota evicts from itself: an eviction hits another layer
\* only when the asking layer is below its quota and no slot is free.
ForeignEvictionIsLastResort ==
    [][ \A l, m \in Layer, e, x \in Expert :
          (/\ l # m
           /\ ~Cached(l, e) /\ ent'[l][e].seg # "None"
           /\ Cached(m, x) /\ ent'[m][x].seg = "None")
            => free = <<>> /\ lay[l].resident < quota[l] ]_vars

\* acquire's comment where alloc_slot returned NO_SLOT: "everything has
\* refcount>0; nothing evictable".  A layer at its quota is refused although
\* other layers hold idle entries.
RefusalMeansNothingEvictable ==
    \A l \in Layer : Refuses(l) =>
        \A m \in Layer, e \in Expert :
            ent[m][e].seg \in {"Small", "Main"} => ent[m][e].rc > 0

SlotOf(k) == table[k[1]][k[2]]
RefsOf(k) == ent[k[1]][k[2]].rc

Seats == INSTANCE SlotCache WITH
            Key <- Layer \X Expert,
            seat <- [k \in Layer \X Expert |-> SlotOf(k)],
            refs <- [k \in Layer \X Expert |-> RefsOf(k)]

\* Every call is a step of the abstract slot cache or invisible to callers:
\* whatever the policy does, at most one idle entry loses its slot, to the
\* request that needed it, and no entry in use is touched.
ImplementsSlotCache == Seats!SeatSpec
=============================================================================
