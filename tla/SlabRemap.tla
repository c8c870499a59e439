----------------------------- MODULE SlabRemap ------------------------------
(***************************************************************************)
(* The decode path of src/src/llama-moestream.cpp: ms_remap_fn, a CPU op   *)
(* of the compute graph, turns the router's expert ids into slots of the   *)
(* layer's slab, reads the missing experts into it, and the GPU then       *)
(* multiplies with whatever those slots hold.                              *)
(*                                                                         *)
(* One layer is one ExpertCache object and one slab, so a slot here is a   *)
(* layer and a seat of its slab.  The cache is the abstract SlotCache:     *)
(* the results hold for every eviction policy that implements it.  The     *)
(* three weights of an expert (gate, up, down) are read together, and the  *)
(* order of the parallel reads is left open.  Timing, statistics and the   *)
(* diagnostic settings (noop levels, MOESTREAM_SWEEP_TEST) are left out.   *)
(***************************************************************************)
EXTENDS Integers, Sequences, FiniteSets, FiniteSetsExt

CONSTANTS
    NLayer,       \* MoE layers
    NExpert,      \* experts per layer
    NSeat,        \* g_slots, slots of a layer's slab
    NoSlot,       \* NO_SLOT
    ZeroSlot,     \* g_zero_slot, the null expert that contributes nothing
    Junk,         \* slab bytes that are no expert's weights
    PASS_KEYS,    \* held lists per layer: 8
    MaxPass,      \* bound: passes of an Expert Sweep; n_passes gives 1 unless forced
    MaxIds,       \* bound: expert ids in one batch (n_expert_used * n_tokens)
    DropFrom,     \* g_drop_from, first layer whose misses are dropped
    Unreadable    \* experts whose preads may fail or come back short

ASSUME RemapAssumption ==
    /\ NLayer \in Nat \ {0} /\ NExpert \in Nat \ {0} /\ NSeat \in Nat \ {0}
    /\ PASS_KEYS \in Nat \ {0} /\ MaxPass \in Nat \ {0} /\ MaxIds \in Nat \ {0}
    /\ DropFrom \in Nat /\ Unreadable \subseteq 0 .. NExpert - 1

Layer == 0 .. NLayer - 1
Expert == 0 .. NExpert - 1
Key == Layer \X Expert
Slot == Layer \X (0 .. NSeat - 1)

ASSUME NamesAssumption ==
    NoSlot \notin Slot /\ ZeroSlot \notin Slot /\ Junk \notin Expert

VARIABLES
    seat, refs,  \* the caches, as in SlotCache
    slab,        \* slot -> the expert whose weights its bytes are
    held,        \* g_held: held[HeldKey(l, q)][e] is how often e is on that list
    routing,     \* whether a remap is running
    layer, pass, \* of the remap that is running, or that comes next
    np,          \* passes of the running graph
    ids,         \* the router's selection for this layer's batch
    out,         \* the slots written so far to dst
    pend,        \* keys whose weights still have to be read
    gpu,         \* the mul_mat_id launched last: busy, its layer, ids and slots
    served,      \* history: positions this layer's earlier passes answered
    lost         \* history: seated keys whose read was dropped or failed

cacheVars == <<seat, refs>>
graphVars == <<layer, pass, np, ids, gpu, served>>
vars == <<cacheVars, slab, held, routing, out, pend, lost, graphVars>>

\* A layer's held lists account for fewer references than this on any key.
Cache == INSTANCE SlotCache WITH MaxRefs <- 2 * MaxIds

Batch == UNION {[1 .. n -> Expert] : n \in 1 .. MaxIds}

HeldKeys == 0 .. NLayer * PASS_KEYS + MaxPass - 1

\* hkey = il * 8 + pass.
HeldKey(l, q) == l * PASS_KEYS + q

GpuIdle == [busy |-> FALSE, layer |-> 0, ids |-> <<>>, out |-> <<>>]

Init ==
    /\ Cache!SeatInit
    /\ slab = [s \in Slot |-> Junk]
    /\ held = [h \in HeldKeys |-> [e \in Expert |-> 0]]
    /\ routing = FALSE
    /\ layer = 0 /\ pass = 0 /\ np = 1 /\ ids = <<>> /\ out = <<>> /\ pend = {}
    /\ gpu = GpuIdle
    /\ served = {}
    /\ lost = {}
-----------------------------------------------------------------------------
(* The start of a remap.                                                   *)

\* No list is longer: two passes may share one when passes exceed PASS_KEYS.
HeldMax == 2 * MaxIds

\* The references on e that the held lists of layer l account for.
HeldItems(l, e) ==
    {qi \in (0 .. PASS_KEYS - 1) \X (1 .. HeldMax) :
        qi[2] <= held[HeldKey(l, qi[1])][e]}

\* ExpertCache::release once for each item of the layer's held lists.
ReleaseHeld(l) ==
    /\ refs' = [k \in Key |->
                  IF k[1] # l THEN refs[k]
                  ELSE LET n == Cardinality(HeldItems(l, k[2]))
                       IN  IF n >= refs[k] THEN 0 ELSE refs[k] - n]
    /\ held' = [h \in HeldKeys |->
                  IF \E q \in 0 .. PASS_KEYS - 1 : h = HeldKey(l, q)
                    THEN [e \in Expert |-> 0] ELSE held[h]]

DependencyIgnored == TRUE  \* Mutant: ids do not depend on the previous pass.

\* The graph orders a remap after the mul_mat_id before it: the next layer's
\* ids are computed from its output, the next pass takes it as a second input.
DependencyMet == ~gpu.busy

BeginRemap ==
    /\ ~routing /\ DependencyMet
    /\ routing' = TRUE
    /\ ReleaseHeld(layer)
    /\ ids' \in IF pass = 0 THEN Batch ELSE {ids}
    /\ np' \in IF pass = 0 /\ layer = 0 THEN 1 .. MaxPass ELSE {np}
    /\ UNCHANGED <<seat, slab, out, pend, lost, layer, pass, gpu, served>>
-----------------------------------------------------------------------------
(* Routing one id after the other.                                         *)

Distinct == {ids[i] : i \in DOMAIN ids}

Rank(e) == Cardinality({d \in Distinct : d < e})

OwnedRoundingDown(e) ==  \* Mutant: parts of floor(n / np) lose the remainder.
    LET per == Cardinality(Distinct) \div np
    IN  pass * per <= Rank(e) /\ Rank(e) < (pass + 1) * per

\* in_pass: the sorted distinct experts in np equal parts, this pass's part.
Owned(e) ==
    LET per == (Cardinality(Distinct) + np - 1) \div np
    IN  pass * per <= Rank(e) /\ Rank(e) < (pass + 1) * per

Answer(slot) == out' = Append(out, slot)

HoldNothing(e) == UNCHANGED held  \* Mutant: references are not noted down.

Hold(e) ==
    held' = [held EXCEPT ![HeldKey(layer, pass)][e] = @ + 1]

RouteElsewhere(e) ==
    /\ np > 1 /\ ~Owned(e)
    /\ Answer(ZeroSlot)
    /\ UNCHANGED <<cacheVars, held, pend, lost>>

RouteHit(e) ==
    /\ Cache!Reuse(<<layer, e>>)
    /\ Answer(seat[<<layer, e>>])
    /\ Hold(e)
    /\ UNCHANGED <<pend, lost>>

StillSeated(keys) == {k \in keys : seat'[k] # NoSlot}

\* A miss that got a slot: the slab still holds what was there before.
RouteMiss(e) ==
    /\ layer < DropFrom
    /\ \E s \in Slot :
          /\ s[1] = layer
          /\ Cache!Grant(<<layer, e>>, s)
          /\ Answer(s)
    /\ Hold(e)
    /\ pend' = pend \cup {<<layer, e>>}
    /\ lost' = StillSeated(lost)

\* Drop mode: the slot stays granted, the reference is returned, nothing read.
RouteDropped(e) ==
    /\ layer >= DropFrom
    /\ \E s \in Slot :
          /\ s[1] = layer
          /\ Cache!GrantUnused(<<layer, e>>, s)
    /\ Answer(ZeroSlot)
    /\ lost' = StillSeated(lost) \cup {<<layer, e>>}
    /\ UNCHANGED <<held, pend>>

RouteExhaustedNever(e) == FALSE  \* Mutant: waits for a slot instead.

\* Every slot is referenced.
RouteExhausted(e) ==
    /\ ~Cache!Seated(<<layer, e>>)
    /\ \A s \in Slot : s[1] = layer => ~Cache!Grantable(s)
    /\ Answer(ZeroSlot)
    /\ UNCHANGED <<cacheVars, held, pend, lost>>

Route ==
    /\ routing /\ Len(out) < Len(ids)
    /\ LET e == ids[Len(out) + 1] IN
          \/ RouteElsewhere(e)
          \/ /\ np = 1 \/ Owned(e)
             /\ RouteHit(e) \/ RouteMiss(e) \/ RouteDropped(e) \/ RouteExhausted(e)
    /\ UNCHANGED <<slab, routing, graphVars>>
-----------------------------------------------------------------------------
(* Reading the misses and handing over to the GPU.                         *)

\* do_read returns without a word when pread fails or comes back short.
ReadOutcomes(k) == {k[2]} \cup (IF k[2] \in Unreadable THEN {Junk} ELSE {})

Read(k) ==
    /\ routing /\ Len(out) = Len(ids)
    /\ k \in pend
    /\ \E bytes \in ReadOutcomes(k) :
          /\ slab' = [slab EXCEPT ![seat[k]] = bytes]
          /\ lost' = IF bytes = k[2] THEN lost \ {k} ELSE lost \cup {k}
    /\ pend' = pend \ {k}
    /\ UNCHANGED <<cacheVars, held, routing, out, graphVars>>

ReadsJoined == pend = {}

NextLayer == (layer + 1) % NLayer

\* The end of the custom op lets the scheduler launch this pass's mul_mat_id.
Launch ==
    /\ routing /\ Len(out) = Len(ids) /\ ReadsJoined
    /\ routing' = FALSE
    /\ gpu' = [busy |-> TRUE, layer |-> layer, ids |-> ids, out |-> out]
    /\ served' = served \cup {i \in DOMAIN out : out[i] # ZeroSlot}
    /\ pass' = IF pass + 1 < np THEN pass + 1 ELSE 0
    /\ layer' = IF pass + 1 < np THEN layer ELSE NextLayer
    /\ ids' = IF pass + 1 < np THEN ids ELSE <<>>
    /\ out' = <<>>
    /\ UNCHANGED <<cacheVars, slab, held, pend, lost, np>>

GpuDone ==
    /\ gpu.busy
    /\ gpu' = GpuIdle
    /\ served' = IF pass = 0 THEN {} ELSE served
    /\ UNCHANGED <<cacheVars, slab, held, routing, out, pend, lost, layer, pass,
                   np, ids>>

Next ==
    \/ BeginRemap \/ Route \/ Launch \/ GpuDone
    \/ \E k \in Key : Read(k)

Spec == Init /\ [][Next]_vars

\* The op, its readers and the GPU do not stop while one of them can go on.
FairSpec == Spec /\ WF_vars(Next)
-----------------------------------------------------------------------------
TypeOK ==
    /\ Cache!SeatTypeOK
    /\ slab \in [Slot -> Expert \cup {Junk}]
    /\ held \in [HeldKeys -> [Expert -> Nat]]
    /\ routing \in BOOLEAN
    /\ layer \in Layer /\ pass \in 0 .. MaxPass - 1 /\ np \in 1 .. MaxPass
    /\ ids \in Seq(Expert) /\ out \in Seq(Slot \cup {ZeroSlot})
    /\ pend \subseteq Key
    /\ gpu \in [busy : BOOLEAN, layer : Layer, ids : Seq(Expert),
                out : Seq(Slot \cup {ZeroSlot})]
    /\ served \subseteq 1 .. MaxIds
    /\ lost \subseteq Key

\* While the GPU multiplies, every slot it was given holds the weights of the
\* expert the router chose there, or is the null expert, or belongs to an
\* expert whose own read was dropped or failed: no eviction, no later pass and
\* no read in flight gets in between.
GpuReadsTheRightExperts ==
    gpu.busy => \A i \in DOMAIN gpu.out :
        \/ gpu.out[i] = ZeroSlot
        \/ slab[gpu.out[i]] = gpu.ids[i]
        \/ <<gpu.layer, gpu.ids[i]>> \in lost

\* "Point at the null expert: this expert contributes nothing": an expert
\* nobody read contributes nothing, not the weights of whoever had its slot.
DroppedContributesNothing ==
    gpu.busy => \A i \in DOMAIN gpu.out :
        gpu.out[i] # ZeroSlot => slab[gpu.out[i]] = gpu.ids[i]

\* Every reference in a layer's cache is on one of the layer's held lists, so
\* the next remap of the layer returns it ("Without this, refcounts accumulate
\* and eviction stops entirely").
RefsAreHeld ==
    \A k \in Key : refs[k] = Cardinality(HeldItems(k[1], k[2]))

\* A pass whose distinct experts fit the slab answers all of its ids: slots
\* held by earlier passes or tokens do not count against it.
SlabSuffices ==
    (gpu.busy /\ np = 1 /\ gpu.layer < DropFrom
     /\ Cardinality({gpu.ids[i] : i \in DOMAIN gpu.ids}) <= NSeat)
        => \A i \in DOMAIN gpu.out : gpu.out[i] # ZeroSlot

\* An Expert Sweep answers each position in at most one of its passes, and
\* after the last pass in exactly one if every pass's part fits the slab: the
\* sum over the passes is the FFN.
AnsweredOnce ==
    [][ Launch =>
          /\ \A i \in served : out[i] = ZeroSlot
          /\ (/\ pass + 1 = np /\ layer < DropFrom
              /\ Cardinality(Distinct) <= NSeat * np)
                => served' = DOMAIN ids ]_vars

\* Every batch the router sends through a layer is computed.
RemapTerminates == routing ~> gpu.busy
=============================================================================
