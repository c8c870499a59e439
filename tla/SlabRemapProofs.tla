--------------------------- MODULE SlabRemapProofs --------------------------
(***************************************************************************)
(* Proofs about SlabRemap.  The inductive invariant follows one id through *)
(* a remap: routed to the seat of its key, which stays referenced, hence   *)
(* seated, until the next remap of the layer, and whose weights are still  *)
(* to be read, or in the slab, or lost.                                    *)
(***************************************************************************)
EXTENDS SlabRemap, FiniteSetTheorems, TLAPS

\* The cache part: what SlotCache promises, and each layer in its own slab.
CacheInv ==
    /\ seat \in [Key -> Slot \cup {NoSlot}]
    /\ refs \in [Key -> Nat]
    /\ \A j, k \in Key : seat[j] # NoSlot /\ seat[j] = seat[k] => j = k
    /\ \A k \in Key : refs[k] > 0 => seat[k] # NoSlot

\* Whatever has a seat has its weights there, or is waiting for its read, or
\* its read was dropped or failed.
SlabInv ==
    /\ slab \in [Slot -> Expert \cup {Junk}]
    /\ \A k \in Key : seat[k] # NoSlot =>
          k \in pend \/ k \in lost \/ slab[seat[k]] = k[2]

\* While a remap runs, its answers are the seats of referenced keys.
RoutingInv ==
    /\ routing \in BOOLEAN
    /\ layer \in Layer
    /\ ids \in Seq(Expert) /\ out \in Seq(Slot \cup {ZeroSlot})
    /\ pend \subseteq Key
    /\ \A k \in pend : refs[k] > 0
    /\ ~routing => pend = {}
    /\ routing =>
         /\ Len(out) <= Len(ids)
         /\ \A i \in 1 .. Len(out) : out[i] # ZeroSlot =>
              /\ out[i] = seat[<<layer, ids[i]>>]
              /\ refs[<<layer, ids[i]>>] > 0

\* While the GPU computes, nothing is routed and its slots are still seats.
GpuInv ==
    /\ gpu.busy \in BOOLEAN
    /\ gpu.busy =>
         /\ ~routing
         /\ gpu.layer \in Layer
         /\ gpu.ids \in Seq(Expert) /\ gpu.out \in Seq(Slot \cup {ZeroSlot})
         /\ Len(gpu.out) = Len(gpu.ids)
         /\ pend = {}
         /\ \A i \in 1 .. Len(gpu.out) : gpu.out[i] # ZeroSlot =>
              gpu.out[i] = seat[<<gpu.layer, gpu.ids[i]>>]

\* Between remaps there are no answers.
IdleInv == ~routing => out = <<>>

IInv == CacheInv /\ SlabInv /\ RoutingInv /\ GpuInv /\ IdleInv
-----------------------------------------------------------------------------
LEMMA InitIInv == Init => IInv
<1> SUFFICES ASSUME Init PROVE IInv
  OBVIOUS
<1> USE RemapAssumption, NamesAssumption DEF Init, Cache!SeatInit
<1>1. CacheInv
  BY DEF CacheInv
<1>2. SlabInv
  BY DEF SlabInv
<1>3. RoutingInv
  <2>1. layer \in Layer
    BY DEF Layer
  <2>2. ids \in Seq(Expert) /\ out \in Seq(Slot \cup {ZeroSlot})
    OBVIOUS
  <2> QED
    BY <2>1, <2>2 DEF RoutingInv
<1>4. GpuInv
  BY DEF GpuInv, GpuIdle
<1> QED
  BY <1>1, <1>2, <1>3, <1>4 DEF IInv, IdleInv

\* The number of references a layer's held lists account for is a number.
LEMMA HeldItemsCount ==
  ASSUME NEW l, NEW e
  PROVE  Cardinality(HeldItems(l, e)) \in Nat
<1>1. IsFiniteSet((0 .. PASS_KEYS - 1) \X (1 .. HeldMax))
  <2>1. PASS_KEYS - 1 \in Int /\ HeldMax \in Int
    BY RemapAssumption DEF HeldMax
  <2>2. IsFiniteSet(0 .. PASS_KEYS - 1) /\ IsFiniteSet(1 .. HeldMax)
    BY <2>1, FS_Interval
  <2> QED
    BY <2>2, FS_Product
<1>2. HeldItems(l, e) \subseteq (0 .. PASS_KEYS - 1) \X (1 .. HeldMax)
  BY DEF HeldItems
<1> QED
  BY <1>1, <1>2, FS_Subset, FS_CardinalityType

\* Starting a remap returns references and throws the old answers away.
LEMMA BeginRemapIInv ==
  ASSUME IInv, BeginRemap
  PROVE  IInv'
<1> USE DEF IInv
<1>1. refs' \in [Key -> Nat] /\ \A k \in Key : refs'[k] <= refs[k]
  <2> DEFINE n(k) == Cardinality(HeldItems(layer, k[2]))
  <2>1. \A k \in Key : n(k) \in Nat
    BY HeldItemsCount
  <2>2. refs' = [k \in Key |-> IF k[1] # layer THEN refs[k]
                               ELSE IF n(k) >= refs[k] THEN 0 ELSE refs[k] - n(k)]
    BY DEF BeginRemap, ReleaseHeld
  <2>3. \A k \in Key : refs[k] \in Nat
    BY DEF CacheInv
  <2> HIDE DEF n
  <2> QED
    BY <2>1, <2>2, <2>3
<1>2. ids' \in Seq(Expert)
  <2>1. \A b \in Batch : b \in Seq(Expert)
    BY RemapAssumption DEF Batch
  <2> QED
    BY <2>1 DEF BeginRemap, RoutingInv
<1>3. ~routing /\ pend = {} /\ out = <<>>
  BY DEF BeginRemap, RoutingInv, IdleInv
<1>4. CacheInv'
  BY <1>1 DEF CacheInv, BeginRemap
<1>5. SlabInv'
  BY DEF SlabInv, BeginRemap
<1>6. RoutingInv'
  <2>1. /\ layer' = layer /\ out' = out /\ pend' = pend /\ routing'
        /\ Len(out) = 0
    BY <1>3 DEF BeginRemap
  <2> QED
    BY <1>2, <1>3, <2>1 DEF RoutingInv
<1>7. GpuInv'
  BY DEF GpuInv, BeginRemap, DependencyMet
<1> QED
  BY <1>4, <1>5, <1>6, <1>7 DEF IdleInv, BeginRemap

\* Routing one id keeps every earlier answer: a hit adds a reference, a miss
\* takes a slot no referenced key has.
LEMMA RouteIInv ==
  ASSUME IInv, Route
  PROVE  IInv'
<1> DEFINE e == ids[Len(out) + 1]
           key == <<layer, e>>
<1> USE DEF IInv
<1>1. /\ routing /\ Len(out) < Len(ids)
      /\ UNCHANGED <<slab, routing, layer, ids, gpu>>
  BY DEF Route, graphVars
<1>2. e \in Expert /\ key \in Key /\ layer \in Layer
  BY <1>1 DEF RoutingInv, Key
<1>3. ~gpu.busy
  BY <1>1 DEF GpuInv
<1>4. GpuInv' /\ IdleInv'
  BY <1>1, <1>3 DEF GpuInv, IdleInv
<1>5. CASE Answer(ZeroSlot) /\ UNCHANGED <<cacheVars, pend, lost>>
  <2>1. out' \in Seq(Slot \cup {ZeroSlot}) /\ Len(out') = Len(out) + 1
        /\ out'[Len(out) + 1] = ZeroSlot
        /\ \A i \in 1 .. Len(out) : out'[i] = out[i]
    BY <1>5 DEF Answer, RoutingInv
  <2>2. CacheInv' /\ SlabInv'
    BY <1>1, <1>5 DEF cacheVars, CacheInv, SlabInv
  <2>3. /\ layer' = layer /\ ids' = ids /\ routing' /\ routing /\ pend' = pend
        /\ seat' = seat /\ refs' = refs
    BY <1>1, <1>5 DEF cacheVars
  <2>4. /\ layer \in Layer /\ ids \in Seq(Expert) /\ pend \subseteq Key
        /\ \A k \in pend : refs[k] > 0
        /\ Len(out') <= Len(ids) /\ Len(out) \in Nat /\ DOMAIN out' = 1 .. Len(out')
    BY <1>1, <2>1 DEF RoutingInv
  <2>5. ASSUME NEW i \in 1 .. Len(out'), out'[i] # ZeroSlot
        PROVE  /\ out'[i] = seat[<<layer, ids[i]>>]
               /\ refs[<<layer, ids[i]>>] > 0
    <3>1. i \in 1 .. Len(out)
      BY <2>1, <2>4, <2>5
    <3> QED
      BY <2>1, <2>3, <2>5, <3>1 DEF RoutingInv
  <2>6. RoutingInv'
    BY <2>1, <2>3, <2>4, <2>5 DEF RoutingInv
  <2> QED
    BY <1>4, <2>2, <2>6
<1>6. CASE RouteHit(e)
  <2>1. /\ seat[key] # NoSlot /\ seat' = seat /\ pend' = pend /\ lost' = lost
        /\ refs' = [refs EXCEPT ![key] = @ + 1]
    BY <1>6 DEF RouteHit, Cache!Reuse, Cache!Seated
  <2>2. seat[key] \in Slot
    <3>1. key \in Key /\ seat[key] # NoSlot
      BY <1>2, <2>1
    <3>2. seat \in [Key -> Slot \cup {NoSlot}]
      BY DEF CacheInv
    <3> HIDE DEF key
    <3> QED
      BY <3>1, <3>2
  <2>3. out' \in Seq(Slot \cup {ZeroSlot}) /\ Len(out') = Len(out) + 1
        /\ out'[Len(out) + 1] = seat[key]
        /\ \A i \in 1 .. Len(out) : out'[i] = out[i]
    BY <1>6, <2>2 DEF RouteHit, Answer, RoutingInv
  <2>4. refs' \in [Key -> Nat] /\ refs'[key] > 0
        /\ \A k \in Key : refs'[k] >= refs[k] /\ (k # key => refs'[k] = refs[k])
    <3>1. key \in Key /\ refs \in [Key -> Nat]
      BY <1>2 DEF CacheInv
    <3>2. refs' = [refs EXCEPT ![key] = @ + 1]
      BY <2>1
    <3> HIDE DEF key
    <3> QED
      BY <3>1, <3>2
  <2>5. CacheInv' /\ SlabInv'
    BY <1>1, <2>1, <2>4 DEF CacheInv, SlabInv
  <2>6. ASSUME NEW i \in 1 .. Len(out'), out'[i] # ZeroSlot
        PROVE  /\ out'[i] = seat[<<layer, ids[i]>>]
               /\ refs'[<<layer, ids[i]>>] > 0
    <3>1. CASE i = Len(out) + 1
      BY <2>3, <2>4, <3>1
    <3>2. CASE i \in 1 .. Len(out)
      <4>1. refs[<<layer, ids[i]>>] > 0 /\ out[i] = seat[<<layer, ids[i]>>]
        BY <1>1, <2>3, <2>6, <3>2 DEF RoutingInv
      <4>2. <<layer, ids[i]>> \in Key
        BY <1>1, <1>2, <3>2 DEF RoutingInv, Key
      <4> QED
        BY <2>3, <2>4, <3>2, <4>1, <4>2 DEF CacheInv
    <3> QED
      BY <2>3, <2>6, <3>1, <3>2 DEF RoutingInv
  <2>7. \A k \in pend' : refs'[k] > 0
    BY <2>1, <2>4 DEF RoutingInv, CacheInv
  <2>8. RoutingInv'
    <3>1. /\ routing' /\ layer' = layer /\ ids' = ids /\ pend' = pend
          /\ seat' = seat /\ Len(out') <= Len(ids)
      BY <1>1, <2>1, <2>3 DEF RoutingInv
    <3>2. /\ layer \in Layer /\ ids \in Seq(Expert) /\ pend \subseteq Key
      BY DEF RoutingInv
    <3> QED
      BY <2>3, <2>6, <2>7, <3>1, <3>2 DEF RoutingInv
  <2> QED
    BY <1>4, <2>5, <2>8
<1>7. CASE RouteMiss(e)
  <2>1. PICK s \in Slot : Cache!Grant(key, s) /\ Answer(s)
    BY <1>7 DEF RouteMiss
  <2>2. /\ seat[key] = NoSlot
        /\ \A j \in Key : seat[j] = s => refs[j] = 0
        /\ seat' = [j \in Key |-> IF j = key THEN s
                                  ELSE IF seat[j] = s THEN NoSlot ELSE seat[j]]
        /\ refs' = [refs EXCEPT ![key] = 1]
        /\ pend' = pend \cup {key}
        /\ lost' = StillSeated(lost)
    BY <1>7, <2>1 DEF RouteMiss, Cache!Grant, Cache!Granted, Cache!Grantable,
                      Cache!Seated
  <2>3. out' \in Seq(Slot \cup {ZeroSlot}) /\ Len(out') = Len(out) + 1
        /\ out'[Len(out) + 1] = s
        /\ \A i \in 1 .. Len(out) : out'[i] = out[i]
    BY <2>1 DEF Answer, RoutingInv
  <2>4. refs' \in [Key -> Nat] /\ refs'[key] = 1
        /\ \A k \in Key : k # key => refs'[k] = refs[k]
    BY <1>2, <2>2 DEF CacheInv
  <2>5. \A k \in Key : refs[k] > 0 => k # key /\ seat'[k] = seat[k]
    BY <2>2 DEF CacheInv
  <2>6. CacheInv'
    BY <1>2, <2>2, <2>4, <2>5, NamesAssumption DEF CacheInv
  <2>7. SlabInv'
    BY <1>1, <2>2, NamesAssumption DEF SlabInv, CacheInv, StillSeated
  <2>8. ASSUME NEW i \in 1 .. Len(out'), out'[i] # ZeroSlot
        PROVE  /\ out'[i] = seat'[<<layer, ids[i]>>]
               /\ refs'[<<layer, ids[i]>>] > 0
    <3>1. CASE i = Len(out) + 1
      BY <1>2, <2>2, <2>3, <2>4, <3>1
    <3>2. CASE i \in 1 .. Len(out)
      <4>1. refs[<<layer, ids[i]>>] > 0 /\ out[i] = seat[<<layer, ids[i]>>]
        BY <1>1, <2>3, <2>8, <3>2 DEF RoutingInv
      <4>2. <<layer, ids[i]>> \in Key
        BY <1>1, <1>2, <3>2 DEF RoutingInv, Key
      <4> QED
        BY <2>3, <2>4, <2>5, <3>2, <4>1, <4>2
    <3> QED
      BY <2>3, <2>8, <3>1, <3>2 DEF RoutingInv
  <2>9. pend' \subseteq Key /\ \A k \in pend' : refs'[k] > 0
    BY <1>2, <2>2, <2>4 DEF RoutingInv
  <2>10. RoutingInv'
    BY <1>1, <2>3, <2>8, <2>9 DEF RoutingInv
  <2> QED
    BY <1>4, <2>6, <2>7, <2>10
<1>8. CASE RouteDropped(e)
  <2>1. PICK s \in Slot : Cache!GrantUnused(key, s)
    BY <1>8 DEF RouteDropped
  <2>2. /\ seat[key] = NoSlot
        /\ \A j \in Key : seat[j] = s => refs[j] = 0
        /\ seat' = [j \in Key |-> IF j = key THEN s
                                  ELSE IF seat[j] = s THEN NoSlot ELSE seat[j]]
        /\ refs' = refs /\ pend' = pend
        /\ lost' = StillSeated(lost) \cup {key}
    BY <1>8, <2>1 DEF RouteDropped, Cache!GrantUnused, Cache!Granted,
                      Cache!Grantable, Cache!Seated
  <2>3. out' \in Seq(Slot \cup {ZeroSlot}) /\ Len(out') = Len(out) + 1
        /\ out'[Len(out) + 1] = ZeroSlot
        /\ \A i \in 1 .. Len(out) : out'[i] = out[i]
    BY <1>8 DEF RouteDropped, Answer, RoutingInv
  <2>4. \A k \in Key : refs[k] > 0 => k # key /\ seat'[k] = seat[k]
    <3>1. \A k \in Key : refs[k] > 0 => seat[k] # NoSlot /\ seat[k] # s
      BY <2>2 DEF CacheInv
    <3> HIDE DEF key
    <3> QED
      BY <2>2, <3>1
  <2>5. CacheInv'
    BY <1>2, <2>2, <2>4, NamesAssumption DEF CacheInv
  <2>6. SlabInv'
    BY <1>1, <2>2, NamesAssumption DEF SlabInv, CacheInv, StillSeated
  <2>7. ASSUME NEW i \in 1 .. Len(out'), out'[i] # ZeroSlot
        PROVE  /\ out'[i] = seat'[<<layer, ids[i]>>]
               /\ refs'[<<layer, ids[i]>>] > 0
    <3>1. i \in 1 .. Len(out)
      BY <2>3, <2>7 DEF RoutingInv
    <3>2. refs[<<layer, ids[i]>>] > 0 /\ out[i] = seat[<<layer, ids[i]>>]
      BY <1>1, <2>3, <2>7, <3>1 DEF RoutingInv
    <3>3. <<layer, ids[i]>> \in Key
      BY <1>1, <1>2, <3>1 DEF RoutingInv, Key
    <3> QED
      BY <2>2, <2>3, <2>4, <3>1, <3>2, <3>3
  <2>8. RoutingInv'
    <3>1. /\ routing' /\ layer' = layer /\ ids' = ids /\ pend' = pend
          /\ refs' = refs /\ Len(out') <= Len(ids)
      BY <1>1, <2>2, <2>3 DEF RoutingInv
    <3>2. /\ layer \in Layer /\ ids \in Seq(Expert) /\ pend \subseteq Key
          /\ \A k \in pend : refs[k] > 0
      BY DEF RoutingInv
    <3> QED
      BY <2>3, <2>7, <3>1, <3>2 DEF RoutingInv
  <2> QED
    BY <1>4, <2>5, <2>6, <2>8
<1> QED
  BY <1>1, <1>5, <1>6, <1>7, <1>8 DEF Route, RouteElsewhere, RouteExhausted

\* A read fills the seat of a referenced key, or the key is lost.
LEMMA ReadIInv ==
  ASSUME IInv, NEW k \in Key, Read(k)
  PROVE  IInv'
<1> USE DEF IInv
<1>1. PICK bytes \in Expert \cup {Junk} :
      /\ routing /\ k \in pend /\ pend' = pend \ {k}
      /\ slab' = [slab EXCEPT ![seat[k]] = bytes]
      /\ lost' = IF bytes = k[2] THEN lost \ {k} ELSE lost \cup {k}
      /\ UNCHANGED <<seat, refs, routing, out, layer, ids, gpu>>
  BY DEF Read, ReadOutcomes, cacheVars, graphVars, Key
<1>2. seat[k] \in Slot /\ k[2] \in Expert
  BY <1>1 DEF RoutingInv, CacheInv, Key
<1>3. CacheInv'
  BY <1>1 DEF CacheInv
<1>4. SlabInv'
  <2>1. slab' \in [Slot -> Expert \cup {Junk}]
    BY <1>1, <1>2 DEF SlabInv
  <2>2. ASSUME NEW j \in Key, seat[j] # NoSlot
        PROVE  j \in pend' \/ j \in lost' \/ slab'[seat[j]] = j[2]
    <3>1. CASE j = k
      BY <1>1, <1>2, <3>1 DEF SlabInv
    <3>2. CASE j # k
      <4>1. seat[j] # seat[k]
        BY <2>2, <3>2 DEF CacheInv
      <4> QED
        BY <1>1, <1>2, <2>2, <3>2, <4>1 DEF SlabInv, CacheInv
    <3> QED
      BY <3>1, <3>2
  <2> QED
    BY <1>1, <2>1, <2>2 DEF SlabInv
<1>5. RoutingInv'
  BY <1>1 DEF RoutingInv
<1>6. GpuInv'
  BY <1>1 DEF GpuInv
<1> QED
  BY <1>1, <1>3, <1>4, <1>5, <1>6 DEF IdleInv

\* The GPU is handed the answers of a finished remap.
LEMMA LaunchIInv ==
  ASSUME IInv, Launch
  PROVE  IInv'
<1> USE DEF IInv
<1>1. /\ routing /\ ~routing' /\ pend = {} /\ Len(out) = Len(ids)
      /\ gpu' = [busy |-> TRUE, layer |-> layer, ids |-> ids, out |-> out]
      /\ ids' \in {ids, <<>>} /\ out' = <<>>
      /\ UNCHANGED <<seat, refs, slab, pend, lost>>
  BY DEF Launch, ReadsJoined, cacheVars
<1>2. layer' \in Layer
  <2>1. layer \in Int /\ NLayer \in Nat \ {0} /\ layer \in Layer
    BY RemapAssumption DEF RoutingInv, Layer
  <2>2. (layer + 1) % NLayer \in 0 .. NLayer - 1
    BY <2>1
  <2> QED
    BY <2>1, <2>2 DEF Launch, NextLayer, Layer
<1>3. CacheInv' /\ SlabInv'
  BY <1>1 DEF CacheInv, SlabInv
<1>4. RoutingInv'
  <2>1. ids \in Seq(Expert) /\ <<>> \in Seq(Expert)
    BY DEF RoutingInv
  <2>2. ids' \in Seq(Expert)
    BY <1>1, <2>1
  <2>3. out' \in Seq(Slot \cup {ZeroSlot})
    BY <1>1
  <2>4. pend' = {} /\ ~routing' /\ routing' \in BOOLEAN
    BY <1>1 DEF Launch
  <2> QED
    BY <1>2, <2>2, <2>3, <2>4 DEF RoutingInv
<1>5. GpuInv'
  BY <1>1 DEF GpuInv, RoutingInv, Launch
<1> QED
  BY <1>1, <1>3, <1>4, <1>5 DEF IdleInv

LEMMA GpuDoneIInv ==
  ASSUME IInv, GpuDone
  PROVE  IInv'
<1> USE DEF IInv
<1>1. UNCHANGED <<seat, refs, slab, routing, out, pend, lost, layer, ids>>
  BY DEF GpuDone, cacheVars
<1>2. CacheInv' /\ SlabInv' /\ RoutingInv'
  BY <1>1 DEF CacheInv, SlabInv, RoutingInv
<1>3. GpuInv'
  BY DEF GpuInv, GpuDone, GpuIdle
<1> QED
  BY <1>1, <1>2, <1>3 DEF IdleInv

LEMMA StutterIInv == IInv /\ UNCHANGED vars => IInv'
BY DEF IInv, CacheInv, SlabInv, RoutingInv, GpuInv, IdleInv, vars, cacheVars, graphVars

\* Seated keys with nothing left to read have their weights in the slab, or
\* are lost.
LEMMA IInvRightExperts == IInv => GpuReadsTheRightExperts
<1> SUFFICES ASSUME IInv, gpu.busy, NEW i \in DOMAIN gpu.out,
                    gpu.out[i] # ZeroSlot
             PROVE  \/ slab[gpu.out[i]] = gpu.ids[i]
                    \/ <<gpu.layer, gpu.ids[i]>> \in lost
  BY DEF GpuReadsTheRightExperts
<1> DEFINE k == <<gpu.layer, gpu.ids[i]>>
<1>1. i \in 1 .. Len(gpu.out) /\ pend = {} /\ k \in Key
      /\ gpu.out[i] = seat[k] /\ gpu.out[i] \in Slot
  BY DEF IInv, GpuInv, RoutingInv, Key
<1>2. seat[k] # NoSlot
  BY <1>1, NamesAssumption
<1> QED
  BY <1>1, <1>2 DEF IInv, SlabInv

LEMMA StepIInv == IInv /\ [Next]_vars => IInv'
<1> SUFFICES ASSUME IInv, [Next]_vars PROVE IInv'
  OBVIOUS
<1> QED
  BY BeginRemapIInv, RouteIInv, ReadIInv, LaunchIInv, GpuDoneIInv, StutterIInv DEF Next

\* Whatever the number of layers, experts, slots and passes, whatever the
\* eviction policy, and with drop mode and failing reads: the GPU never
\* multiplies with another expert's weights because of the order in which
\* things happen (ms_remap_fn).
THEOREM RightExperts == Spec => []GpuReadsTheRightExperts
BY InitIInv, StepIInv, IInvRightExperts, PTL DEF Spec
-----------------------------------------------------------------------------
(* The references are on the held lists.                                   *)

\* No list holds an expert more often than a batch names it, and the list of
\* the running pass no more often than ids were routed.
ListsInv ==
    /\ held \in [HeldKeys -> [Expert -> Nat]]
    /\ pass \in Nat /\ np \in Nat /\ pass < MaxPass /\ np <= MaxPass
    /\ Len(ids) <= MaxIds
    /\ \A h \in HeldKeys, e \in Expert : held[h][e] <= MaxIds
    /\ routing => \A e \in Expert : held[HeldKey(layer, pass)][e] <= Len(out)

RInv == IInv /\ ListsInv /\ RefsAreHeld

LEMMA TimesMonotone ==
  ASSUME NEW m \in Nat, NEW n \in Nat, NEW s \in Nat, m < n
  PROVE  m * s \in Nat /\ n * s \in Nat /\ m * s + s <= n * s
<1>1. PICK d \in Nat : n = m + 1 + d
  <2>1. n - (m + 1) \in Nat /\ n = m + 1 + (n - (m + 1))
    OBVIOUS
  <2> QED
    BY <2>1
<1>2. n * s = m * s + s + d * s
  BY <1>1
<1>3. m * s \in Nat /\ n * s \in Nat /\ d * s \in Nat
  OBVIOUS
<1> QED
  BY <1>2, <1>3

\* hkey is a list, and two layers have none in common below PASS_KEYS passes.
LEMMA HeldKeyFacts ==
  ASSUME NEW l \in Layer, NEW q \in 0 .. PASS_KEYS - 1
  PROVE  /\ HeldKey(l, q) \in HeldKeys
         /\ \A m \in Layer, r \in 0 .. PASS_KEYS - 1 :
               HeldKey(l, q) = HeldKey(m, r) => l = m /\ q = r
<1>1. /\ l \in Nat /\ l < NLayer /\ NLayer \in Nat /\ PASS_KEYS \in Nat /\ MaxPass \in Nat \ {0}
      /\ q \in Nat /\ q < PASS_KEYS
  BY RemapAssumption DEF Layer
<1>2. HeldKey(l, q) \in HeldKeys
  <2>1. l * PASS_KEYS \in Nat /\ NLayer * PASS_KEYS \in Nat
        /\ l * PASS_KEYS + PASS_KEYS <= NLayer * PASS_KEYS
    BY <1>1, TimesMonotone
  <2> QED
    BY <1>1, <2>1 DEF HeldKey, HeldKeys
<1>3. ASSUME NEW m \in Layer, NEW r \in 0 .. PASS_KEYS - 1, HeldKey(l, q) = HeldKey(m, r)
      PROVE  l = m /\ q = r
  <2>1. m \in Nat /\ r \in Nat /\ r < PASS_KEYS
    BY <1>1 DEF Layer
  <2>2. l * PASS_KEYS + q = m * PASS_KEYS + r
    BY <1>3 DEF HeldKey
  <2>3. ~(l < m)
    <3> SUFFICES ASSUME l < m PROVE FALSE
      OBVIOUS
    <3>1. l * PASS_KEYS \in Nat /\ m * PASS_KEYS \in Nat
          /\ l * PASS_KEYS + PASS_KEYS <= m * PASS_KEYS
      BY <1>1, <2>1, TimesMonotone
    <3> QED
      BY <1>1, <2>1, <2>2, <3>1
  <2>4. ~(m < l)
    <3> SUFFICES ASSUME m < l PROVE FALSE
      OBVIOUS
    <3>1. l * PASS_KEYS \in Nat /\ m * PASS_KEYS \in Nat
          /\ m * PASS_KEYS + PASS_KEYS <= l * PASS_KEYS
      BY <1>1, <2>1, TimesMonotone
    <3> QED
      BY <1>1, <2>1, <2>2, <3>1
  <2>5. l = m
    BY <1>1, <2>1, <2>3, <2>4
  <2>6. l * PASS_KEYS \in Nat
    BY <1>1
  <2> QED
    BY <1>1, <2>1, <2>2, <2>5, <2>6
<1> QED
  BY <1>2, <1>3

\* HeldItems of the lists f.
ItemsOf(f, l, e) ==
    {qi \in (0 .. PASS_KEYS - 1) \X (1 .. HeldMax) : qi[2] <= f[HeldKey(l, qi[1])][e]}

Counted(r, f) == \A k \in Key : r[k] = Cardinality(ItemsOf(f, k[1], k[2]))

LEMMA CountedIsRefsAreHeld ==
  /\ RefsAreHeld <=> Counted(refs, held)
  /\ RefsAreHeld' <=> Counted(refs', held')
  /\ \A l, e : HeldItems(l, e) = ItemsOf(held, l, e)
BY DEF RefsAreHeld, Counted, HeldItems, ItemsOf

LEMMA ItemsFinite ==
  ASSUME NEW f, NEW l, NEW e
  PROVE  IsFiniteSet(ItemsOf(f, l, e))
<1>1. IsFiniteSet((0 .. PASS_KEYS - 1) \X (1 .. HeldMax))
  <2>1. PASS_KEYS - 1 \in Int /\ HeldMax \in Int /\ 0 \in Int /\ 1 \in Int
    BY RemapAssumption DEF HeldMax
  <2>2. IsFiniteSet(0 .. PASS_KEYS - 1) /\ IsFiniteSet(1 .. HeldMax)
    BY <2>1, FS_Interval
  <2> QED
    BY <2>2, FS_Product
<1> QED
  BY <1>1, FS_Subset DEF ItemsOf

\* Lists that do not name an expert account for no reference on it.
LEMMA NoItems ==
  ASSUME NEW f, NEW l, NEW e, \A q \in 0 .. PASS_KEYS - 1 : f[HeldKey(l, q)][e] = 0
  PROVE  Cardinality(ItemsOf(f, l, e)) = 0
<1>1. ItemsOf(f, l, e) = {}
  BY DEF ItemsOf
<1> QED
  BY <1>1, FS_EmptySet

\* Lists that agree on an expert account for as many references on it.
LEMMA SameItems ==
  ASSUME NEW f, NEW g, NEW l, NEW e,
         \A q \in 0 .. PASS_KEYS - 1 : f[HeldKey(l, q)][e] = g[HeldKey(l, q)][e]
  PROVE  ItemsOf(f, l, e) = ItemsOf(g, l, e)
BY DEF ItemsOf

\* Noting an expert down once more on one list of its layer accounts for one
\* more reference on it.
LEMMA OneMoreItem ==
  ASSUME NEW f \in [HeldKeys -> [Expert -> Nat]], NEW g,
         NEW l \in Layer, NEW q \in 0 .. PASS_KEYS - 1, NEW e \in Expert,
         f[HeldKey(l, q)][e] + 1 <= HeldMax,
         g[HeldKey(l, q)][e] = f[HeldKey(l, q)][e] + 1,
         \A r \in 0 .. PASS_KEYS - 1 : r # q => g[HeldKey(l, r)][e] = f[HeldKey(l, r)][e]
  PROVE  Cardinality(ItemsOf(g, l, e)) = Cardinality(ItemsOf(f, l, e)) + 1
<1> DEFINE U == (0 .. PASS_KEYS - 1) \X (1 .. HeldMax)
<1>1. PICK c : c = f[HeldKey(l, q)][e]
  OBVIOUS
<1>2. c \in Nat /\ c + 1 \in 1 .. HeldMax /\ HeldMax \in Nat
  <2>1. c \in Nat /\ HeldMax \in Nat
    BY <1>1, HeldKeyFacts, RemapAssumption DEF HeldMax
  <2> QED
    BY <1>1, <2>1
<1>3. ASSUME NEW x \in U
      PROVE  x[2] <= g[HeldKey(l, x[1])][e]
               <=> (x[2] <= f[HeldKey(l, x[1])][e] \/ x = <<q, c + 1>>)
  <2>1. x[1] \in 0 .. PASS_KEYS - 1 /\ x[2] \in Nat /\ x = <<x[1], x[2]>>
    BY <1>2
  <2>2. CASE x[1] = q
    <3>1. x = <<q, c + 1>> <=> x[2] = c + 1
      BY <2>1, <2>2
    <3>2. g[HeldKey(l, x[1])][e] = c + 1 /\ f[HeldKey(l, x[1])][e] = c
      BY <1>1, <2>2
    <3> QED
      BY <1>2, <2>1, <3>1, <3>2
  <2>3. CASE x[1] # q
    <3>1. g[HeldKey(l, x[1])][e] = f[HeldKey(l, x[1])][e]
      BY <2>1, <2>3
    <3>2. x # <<q, c + 1>>
      BY <2>3
    <3> QED
      BY <3>1, <3>2
  <2> QED
    BY <2>2, <2>3
<1>4. <<q, c + 1>> \in U
  BY <1>2
<1>5. ItemsOf(g, l, e) = ItemsOf(f, l, e) \cup {<<q, c + 1>>}
  BY <1>3, <1>4 DEF ItemsOf
<1>6. <<q, c + 1>> \notin ItemsOf(f, l, e)
  BY <1>1, <1>2 DEF ItemsOf
<1> QED
  BY <1>5, <1>6, ItemsFinite, FS_AddElement
-----------------------------------------------------------------------------
LEMMA InitRInv == Init => RInv
<1> SUFFICES ASSUME Init PROVE RInv
  OBVIOUS
<1>1. Counted(refs, held)
  <2>1. ASSUME NEW k \in Key PROVE Cardinality(ItemsOf(held, k[1], k[2])) = 0
    <3>1. k[1] \in Layer /\ k[2] \in Expert
      BY DEF Key
    <3>2. \A q \in 0 .. PASS_KEYS - 1 : held[HeldKey(k[1], q)][k[2]] = 0
      BY <3>1, HeldKeyFacts DEF Init
    <3> QED
      BY <3>2, NoItems
  <2> QED
    BY <2>1 DEF Counted, Init, Cache!SeatInit
<1>2. ListsInv
  <2>1. Len(ids) = 0 /\ ~routing
    BY DEF Init
  <2> QED
    BY <2>1, RemapAssumption DEF Init, ListsInv
<1> QED
  BY <1>1, <1>2, InitIInv, CountedIsRefsAreHeld DEF RInv

\* The start of a remap returns every reference of its layer.
LEMMA LayerReleased ==
  ASSUME RInv, BeginRemap, NEW k \in Key
  PROVE  refs'[k] = IF k[1] = layer THEN 0 ELSE refs[k]
<1>1. refs[k] = Cardinality(ItemsOf(held, k[1], k[2])) /\ refs[k] \in Nat
  BY CountedIsRefsAreHeld DEF RInv, Counted, IInv, CacheInv
<1>2. refs'[k] = IF k[1] # layer THEN refs[k]
                 ELSE LET n == Cardinality(ItemsOf(held, layer, k[2]))
                      IN  IF n >= refs[k] THEN 0 ELSE refs[k] - n
  BY CountedIsRefsAreHeld DEF BeginRemap, ReleaseHeld
<1> QED
  BY <1>1, <1>2

\* The layer's references are returned with its lists.
LEMMA BeginRemapRInv ==
  ASSUME RInv, MaxPass <= PASS_KEYS, BeginRemap
  PROVE  ListsInv' /\ RefsAreHeld'
<1>1. /\ layer \in Layer /\ pass \in 0 .. PASS_KEYS - 1
      /\ held \in [HeldKeys -> [Expert -> Nat]] /\ out = <<>> /\ out' = out
      /\ layer' = layer /\ pass' = pass
  BY RemapAssumption DEF RInv, IInv, RoutingInv, IdleInv, ListsInv, BeginRemap
<1>2. held' = [h \in HeldKeys |->
                 IF \E q \in 0 .. PASS_KEYS - 1 : h = HeldKey(layer, q)
                   THEN [e \in Expert |-> 0] ELSE held[h]]
  BY DEF BeginRemap, ReleaseHeld
<1>3. \A q \in 0 .. PASS_KEYS - 1, e \in Expert : held'[HeldKey(layer, q)][e] = 0
  BY <1>1, <1>2, HeldKeyFacts
<1>4. ListsInv'
  <2>1. held' \in [HeldKeys -> [Expert -> Nat]]
    BY <1>1, <1>2
  <2>2. \A h \in HeldKeys, e \in Expert : held'[h][e] <= MaxIds
    BY <1>2, RemapAssumption DEF RInv, ListsInv
  <2>3. Len(ids') <= MaxIds
    <3>1. \A b \in Batch : Len(b) <= MaxIds
      BY RemapAssumption DEF Batch
    <3> QED
      BY <3>1 DEF BeginRemap, RInv, ListsInv
  <2>4. np' \in Nat /\ np' <= MaxPass
    BY RemapAssumption DEF BeginRemap, RInv, ListsInv
  <2>5. \A e \in Expert : held'[HeldKey(layer', pass')][e] <= Len(out')
    BY <1>1, <1>3
  <2> QED
    BY <1>1, <2>1, <2>2, <2>3, <2>4, <2>5 DEF RInv, ListsInv
<1>5. ASSUME NEW k \in Key
      PROVE  refs'[k] = Cardinality(ItemsOf(held', k[1], k[2]))
  <2>1. k[1] \in Layer /\ k[2] \in Expert
    BY DEF Key
  <2>2. refs[k] = Cardinality(ItemsOf(held, k[1], k[2]))
    BY CountedIsRefsAreHeld DEF RInv, Counted
  <2>3. refs'[k] = IF k[1] = layer THEN 0 ELSE refs[k]
    BY LayerReleased
  <2>4. CASE k[1] = layer
    <3>1. refs'[k] = 0
      BY <2>3, <2>4
    <3> QED
      BY <1>3, <2>1, <2>4, <3>1, NoItems
  <2>5. CASE k[1] # layer
    <3>1. \A q \in 0 .. PASS_KEYS - 1 :
             held'[HeldKey(k[1], q)][k[2]] = held[HeldKey(k[1], q)][k[2]]
      BY <1>1, <1>2, <2>1, <2>5, HeldKeyFacts
    <3> QED
      BY <2>2, <2>3, <2>5, <3>1, SameItems
  <2> QED
    BY <2>4, <2>5
<1> QED
  BY <1>4, <1>5, CountedIsRefsAreHeld DEF Counted

\* A reference taken is noted down.
LEMMA HoldRInv ==
  ASSUME RInv, MaxPass <= PASS_KEYS, routing, Len(out) < Len(ids), NEW e \in Expert,
         Hold(e), refs' = [refs EXCEPT ![<<layer, e>>] = @ + 1],
         Len(out') = Len(out) + 1, UNCHANGED <<layer, pass, np, ids, routing>>
  PROVE  ListsInv' /\ RefsAreHeld'
<1>1. /\ layer \in Layer /\ pass \in 0 .. PASS_KEYS - 1
      /\ held \in [HeldKeys -> [Expert -> Nat]] /\ refs \in [Key -> Nat]
      /\ Len(out) \in Nat /\ Len(ids) \in Nat /\ Len(ids) <= MaxIds
  BY RemapAssumption DEF RInv, IInv, CacheInv, RoutingInv, ListsInv
<1>2. PICK h : h = HeldKey(layer, pass)
  OBVIOUS
<1>3. h \in HeldKeys
  BY <1>1, <1>2, HeldKeyFacts
<1>4. held' = [held EXCEPT ![h][e] = @ + 1]
  BY <1>2 DEF Hold
<1>5. /\ held' \in [HeldKeys -> [Expert -> Nat]]
      /\ held'[h][e] = held[h][e] + 1
      /\ \A j \in HeldKeys, d \in Expert : j # h \/ d # e => held'[j][d] = held[j][d]
  BY <1>1, <1>3, <1>4
<1>6. \A d \in Expert : held[h][d] \in Nat /\ held[h][d] <= Len(out)
  BY <1>1, <1>2, <1>3 DEF RInv, ListsInv
<1>7. ListsInv'
  <2>1. ASSUME NEW d \in Expert PROVE held'[h][d] <= Len(out')
    <3>1. held[h][d] \in Nat /\ held[h][d] <= Len(out) /\ Len(out') = Len(out) + 1
      BY <1>6
    <3>2. held'[h][d] = held[h][d] \/ held'[h][d] = held[h][d] + 1
      BY <1>3, <1>5
    <3> QED
      BY <1>1, <3>1, <3>2
  <2>2. \A j \in HeldKeys, d \in Expert : held'[j][d] <= MaxIds
    <3> SUFFICES ASSUME NEW j \in HeldKeys, NEW d \in Expert PROVE held'[j][d] <= MaxIds
      OBVIOUS
    <3>1. CASE j = h
      <4>1. held'[h][d] \in Nat /\ Len(out') <= MaxIds /\ Len(out') \in Nat /\ MaxIds \in Nat
        BY <1>1, <1>3, <1>5, RemapAssumption
      <4> QED
        BY <2>1, <3>1, <4>1
    <3>2. CASE j # h
      BY <1>5, <3>2 DEF RInv, ListsInv
    <3> QED
      BY <3>1, <3>2
  <2>3. HeldKey(layer, pass)' = h
    BY <1>2 DEF HeldKey
  <2> QED
    BY <1>5, <2>1, <2>2, <2>3 DEF RInv, ListsInv
<1>8. ASSUME NEW k \in Key
      PROVE  refs'[k] = Cardinality(ItemsOf(held', k[1], k[2]))
  <2>1. k[1] \in Layer /\ k[2] \in Expert /\ k = <<k[1], k[2]>>
    BY DEF Key
  <2>2. refs[k] = Cardinality(ItemsOf(held, k[1], k[2]))
    BY CountedIsRefsAreHeld DEF RInv, Counted
  <2>3. \A q \in 0 .. PASS_KEYS - 1 :
           /\ HeldKey(k[1], q) \in HeldKeys
           /\ HeldKey(k[1], q) = h => k[1] = layer /\ q = pass
    BY <1>1, <1>2, <2>1, HeldKeyFacts
  <2>4. CASE k = <<layer, e>>
    <3>1. k[1] = layer /\ k[2] = e
      BY <2>4
    <3>2. held[h][e] + 1 <= HeldMax
      BY <1>1, <1>6, RemapAssumption DEF HeldMax
    <3>3. \A r \in 0 .. PASS_KEYS - 1 : r # pass =>
             held'[HeldKey(layer, r)][e] = held[HeldKey(layer, r)][e]
      BY <1>5, <2>3, <3>1
    <3>4. Cardinality(ItemsOf(held', layer, e)) = Cardinality(ItemsOf(held, layer, e)) + 1
      BY <1>1, <1>2, <1>5, <3>2, <3>3, OneMoreItem
    <3> QED
      BY <1>1, <2>2, <2>4, <3>1, <3>4
  <2>5. CASE k # <<layer, e>>
    <3>1. refs'[k] = refs[k]
      BY <1>1, <2>5
    <3>2. \A q \in 0 .. PASS_KEYS - 1 :
             held[HeldKey(k[1], q)][k[2]] = held'[HeldKey(k[1], q)][k[2]]
      BY <1>5, <2>1, <2>3, <2>5
    <3> QED
      BY <2>2, <3>1, <3>2, SameItems
  <2> QED
    BY <2>4, <2>5
<1> QED
  BY <1>7, <1>8, CountedIsRefsAreHeld DEF Counted

LEMMA RouteRInv ==
  ASSUME RInv, MaxPass <= PASS_KEYS, Route
  PROVE  ListsInv' /\ RefsAreHeld'
<1> DEFINE e == ids[Len(out) + 1]
<1>1. /\ routing /\ Len(out) < Len(ids) /\ out \in Seq(Slot \cup {ZeroSlot})
      /\ UNCHANGED <<layer, pass, np, ids, routing>>
  BY DEF Route, graphVars, RInv, IInv, RoutingInv
<1>2. e \in Expert /\ <<layer, e>> \in Key
  BY <1>1 DEF RInv, IInv, RoutingInv, Key
<1>3. CASE \E s : Answer(s) /\ s \in Slot \cup {ZeroSlot} /\ UNCHANGED <<refs, held>>
  <2>1. Len(out') = Len(out) + 1 /\ Len(out) \in Nat
    BY <1>1, <1>3 DEF Answer
  <2>2. held \in [HeldKeys -> [Expert -> Nat]] /\ HeldKey(layer, pass) \in HeldKeys
    BY HeldKeyFacts, RemapAssumption DEF RInv, IInv, RoutingInv, ListsInv
  <2>3. RefsAreHeld'
    BY <1>3, CountedIsRefsAreHeld DEF RInv
  <2>4. HeldKey(layer, pass)' = HeldKey(layer, pass)
    BY <1>1 DEF HeldKey
  <2>5. ListsInv'
    BY <1>1, <1>3, <2>1, <2>2, <2>4 DEF RInv, ListsInv
  <2> QED
    BY <2>3, <2>5
<1>4. CASE RouteHit(e)
  <2>1. refs' = [refs EXCEPT ![<<layer, e>>] = @ + 1] /\ Hold(e)
    BY <1>4 DEF RouteHit, Cache!Reuse
  <2>2. Len(out') = Len(out) + 1
    BY <1>1, <1>4 DEF RouteHit, Answer
  <2> HIDE DEF e
  <2> QED
    BY <1>1, <1>2, <2>1, <2>2, HoldRInv
<1>5. CASE RouteMiss(e)
  <2>1. /\ refs' = [refs EXCEPT ![<<layer, e>>] = 1] /\ Hold(e) /\ seat[<<layer, e>>] = NoSlot
        /\ Len(out') = Len(out) + 1
    BY <1>1, <1>5 DEF RouteMiss, Answer, Cache!Grant, Cache!Granted, Cache!Seated
  <2>2. refs[<<layer, e>>] = 0 /\ refs \in [Key -> Nat]
    <3>1. refs \in [Key -> Nat]
          /\ \A k \in Key : refs[k] > 0 => seat[k] # NoSlot
      BY DEF RInv, IInv, CacheInv
    <3> HIDE DEF e
    <3> QED
      BY <1>2, <2>1, <3>1
  <2> HIDE DEF e
  <2>3. refs' = [refs EXCEPT ![<<layer, e>>] = @ + 1]
    BY <1>2, <2>1, <2>2
  <2> QED
    BY <1>1, <1>2, <2>1, <2>3, HoldRInv
<1>6. CASE RouteDropped(e)
  BY <1>3, <1>6 DEF RouteDropped, Cache!GrantUnused
<1> QED
  BY <1>3, <1>4, <1>5, <1>6 DEF Route, RouteElsewhere, RouteExhausted, cacheVars

LEMMA OtherRInv ==
  ASSUME RInv, \/ \E k \in Key : Read(k)
               \/ Launch \/ GpuDone \/ UNCHANGED vars
  PROVE  ListsInv' /\ RefsAreHeld'
<1>1. UNCHANGED <<refs, held>>
  BY DEF Read, Launch, GpuDone, vars, cacheVars
<1>2. RefsAreHeld'
  BY <1>1, CountedIsRefsAreHeld DEF RInv
<1>3. CASE Launch
  <2>1. Len(ids') <= MaxIds /\ ~routing'
    BY <1>3, RemapAssumption DEF Launch, RInv, ListsInv
  <2>2. pass' \in Nat /\ pass' < MaxPass /\ np' = np
    BY <1>3, RemapAssumption DEF Launch, RInv, ListsInv
  <2> QED
    BY <1>1, <1>2, <2>1, <2>2 DEF RInv, ListsInv
<1>4. CASE ~Launch
  <2>1. UNCHANGED <<layer, pass, np, ids, out, routing>>
    BY <1>4 DEF Read, GpuDone, vars, graphVars
  <2> QED
    BY <1>1, <1>2, <2>1 DEF RInv, ListsInv, HeldKey
<1> QED
  BY <1>3, <1>4

LEMMA StepRInv ==
  ASSUME RInv, [Next]_vars, MaxPass <= PASS_KEYS
  PROVE  RInv'
<1>1. IInv'
  BY StepIInv DEF RInv
<1>2. ListsInv' /\ RefsAreHeld'
  BY BeginRemapRInv, RouteRInv, OtherRInv DEF Next
<1> QED
  BY <1>1, <1>2 DEF RInv

\* A layer's next remap returns every reference in its cache, as long as the
\* passes of a graph do not exceed the held lists a layer has (g_held).
THEOREM ReferencesComeBack ==
  ASSUME MaxPass <= PASS_KEYS
  PROVE  Spec => []RefsAreHeld
<1>1. RInv /\ [Next]_vars => RInv'
  BY StepRInv
<1>2. RInv => RefsAreHeld
  BY DEF RInv
<1> QED
  BY <1>1, <1>2, InitRInv, PTL DEF Spec
-----------------------------------------------------------------------------
(* Expert Sweep: the parts of a batch.                                     *)

\* The experts of a pass, Owned as a set: D in n parts, the one numbered q.
PartSize(D, n) == (Cardinality(D) + n - 1) \div n
RankIn(D, e) == Cardinality({d \in D : d < e})
Part(D, n, q) ==
    {e \in D : /\ q * PartSize(D, n) <= RankIn(D, e)
               /\ RankIn(D, e) < (q + 1) * PartSize(D, n)}

LEMMA Division ==
  ASSUME NEW a \in Nat, NEW b \in Nat \ {0}
  PROVE  a \div b \in Nat /\ b * (a \div b) <= a /\ a < b * (a \div b) + b
OBVIOUS

LEMMA TimesCommutes == \A a, b \in Int : a * b = b * a /\ a * b \in Int
OBVIOUS

\* The parts are just large enough.
LEMMA PartSizeFacts ==
  ASSUME NEW D, IsFiniteSet(D), NEW n \in Nat \ {0}
  PROVE  /\ PartSize(D, n) \in Nat
         /\ Cardinality(D) \in Nat /\ Cardinality(D) <= n * PartSize(D, n)
         /\ \A m \in Nat : Cardinality(D) <= m * n => PartSize(D, n) <= m
<1> DEFINE c == Cardinality(D)
           p == PartSize(D, n)
<1>1. c \in Nat
  BY FS_CardinalityType
<1>2. /\ p \in Nat /\ n * p <= c + n - 1 /\ c + n - 1 < n * p + n
      /\ n * p \in Nat
  <2>1. c + n - 1 \in Nat /\ p = (c + n - 1) \div n
    BY <1>1 DEF PartSize
  <2> HIDE DEF c, p
  <2>2. p \in Nat /\ n * p <= c + n - 1 /\ c + n - 1 < n * p + n
    BY <2>1, Division
  <2> QED
    BY <2>2
<1> HIDE DEF c, p
<1>3. c <= n * p
  BY <1>1, <1>2
<1>4. ASSUME NEW m \in Nat, c <= m * n PROVE p <= m
  <2> SUFFICES ASSUME ~ (p <= m) PROVE FALSE
    OBVIOUS
  <2>1. p \in Nat /\ m < p
    <3>1. p \in Nat
      BY <1>2
    <3> QED
      BY <3>1
  <2>2. m * n \in Nat /\ p * n \in Nat /\ m * n + n <= p * n
    BY <2>1, TimesMonotone
  <2>3. p * n = n * p
    BY <1>2, TimesCommutes
  <2> QED
    BY <1>1, <1>2, <1>4, <2>2, <2>3
<1> QED
  BY <1>1, <1>2, <1>3, <1>4 DEF c, p

\* Ranks number the experts of a batch from 0.
LEMMA Ranks ==
  ASSUME NEW D \in SUBSET Int, IsFiniteSet(D), NEW e \in D
  PROVE  /\ RankIn(D, e) \in Nat /\ RankIn(D, e) < Cardinality(D)
         /\ \A x \in D : RankIn(D, x) = RankIn(D, e) => x = e
<1> DEFINE below(x) == {d \in D : d < x}
<1>1. \A x : IsFiniteSet(below(x)) /\ Cardinality(below(x)) \in Nat
  BY FS_Subset, FS_CardinalityType
<1>2. ASSUME NEW x \in D, NEW y \in D, x < y
      PROVE  Cardinality(below(x)) < Cardinality(below(y))
  <2>1. /\ x \in Int /\ y \in Int
        /\ \A d \in D : d < x => d < y
    BY <1>2
  <2>2. below(x) \in SUBSET below(y) /\ x \in below(y) /\ x \notin below(x)
    <3>1. ~ (x < x)
      BY <2>1
    <3>2. below(x) \subseteq below(y)
      BY <2>1
    <3> QED
      BY <1>2, <3>1, <3>2
  <2> HIDE DEF below
  <2>3. Cardinality(below(x)) <= Cardinality(below(y)) /\ Cardinality(below(y)) # Cardinality(below(x))
    BY <1>1, <2>2, FS_Subset
  <2> QED
    BY <1>1, <2>3
<1>3. Cardinality(below(e)) < Cardinality(D)
  <2>1. below(e) \in SUBSET D /\ e \in D /\ e \notin below(e)
    OBVIOUS
  <2> HIDE DEF below
  <2>2. Cardinality(below(e)) <= Cardinality(D) /\ Cardinality(D) # Cardinality(below(e))
    BY <2>1, FS_Subset
  <2>3. Cardinality(D) \in Nat
    BY FS_CardinalityType
  <2> QED
    BY <1>1, <2>2, <2>3
<1>4. \A x : RankIn(D, x) = Cardinality(below(x))
  BY DEF RankIn
<1> HIDE DEF below
<1>5. ASSUME NEW x \in D, Cardinality(below(x)) = Cardinality(below(e)) PROVE x = e
  <2>1. x \in Int /\ e \in Int
    OBVIOUS
  <2>2. ~ (x < e) /\ ~ (e < x)
    BY <1>1, <1>2, <1>5
  <2> QED
    BY <2>1, <2>2
<1> QED
  BY <1>1, <1>3, <1>4, <1>5

\* A part is no larger than the part size.
LEMMA PartIsSmall ==
  ASSUME NEW D \in SUBSET Int, IsFiniteSet(D), NEW n \in Nat \ {0}, NEW q \in Nat
  PROVE  /\ IsFiniteSet(Part(D, n, q))
         /\ Cardinality(Part(D, n, q)) <= PartSize(D, n)
<1> DEFINE p == PartSize(D, n)
           lo == q * p
           hi == (q + 1) * p - 1
           f == [e \in Part(D, n, q) |-> RankIn(D, e)]
<1>1. p \in Nat
  BY PartSizeFacts
<1>2. lo \in Nat /\ hi \in Int /\ hi = lo + p - 1
  <2> HIDE DEF p
  <2> QED
    BY <1>1
<1>3. \A e \in Part(D, n, q) : e \in D /\ lo <= RankIn(D, e) /\ RankIn(D, e) < (q + 1) * p
  BY DEF Part
<1>4. f \in [Part(D, n, q) -> lo .. hi]
  <2>1. ASSUME NEW e \in Part(D, n, q) PROVE RankIn(D, e) \in lo .. hi
    <3>1. RankIn(D, e) \in Nat /\ lo <= RankIn(D, e) /\ RankIn(D, e) < (q + 1) * p
      BY <1>3, Ranks
    <3>2. (q + 1) * p \in Int
      BY <1>1
    <3> HIDE DEF lo, p
    <3> QED
      BY <1>2, <3>1, <3>2
  <2> QED
    BY <2>1
<1>5. \A x, y \in Part(D, n, q) : f[x] = f[y] => x = y
  BY <1>3, Ranks
<1>6. f \in Injection(Part(D, n, q), lo .. hi)
  <2> HIDE DEF f, lo, hi
  <2> QED
    BY <1>4, <1>5 DEF Injection, IsInjective
<1>7. IsFiniteSet(lo .. hi) /\ Cardinality(lo .. hi) <= p
  <2> HIDE DEF lo, hi, p
  <2>1. lo \in Int /\ hi \in Int
    BY <1>2
  <2>2. IsFiniteSet(lo .. hi)
    BY <2>1, FS_Interval
  <2>3. Cardinality(lo .. hi) = IF lo > hi THEN 0 ELSE hi - lo + 1
    BY <2>1, FS_Interval
  <2> QED
    BY <1>1, <1>2, <2>2, <2>3
<1> HIDE DEF f, lo, hi, p
<1>8. /\ IsFiniteSet(Part(D, n, q))
      /\ Cardinality(Part(D, n, q)) <= Cardinality(lo .. hi)
  BY <1>6, <1>7, FS_Injection
<1> QED
  BY <1>1, <1>7, <1>8, FS_CardinalityType DEF p

\* No expert is in two parts.
LEMMA PartsAreDisjoint ==
  ASSUME NEW D \in SUBSET Int, IsFiniteSet(D), NEW n \in Nat \ {0},
         NEW q \in Nat, NEW r \in Nat, q < r, NEW e, e \in Part(D, n, q)
  PROVE  e \notin Part(D, n, r)
<1>1. PartSize(D, n) \in Nat
  BY PartSizeFacts
<1>2. e \in D /\ RankIn(D, e) < (q + 1) * PartSize(D, n)
  BY DEF Part
<1>3. RankIn(D, e) \in Nat
  BY <1>2, Ranks
<1>4. /\ q * PartSize(D, n) + PartSize(D, n) <= r * PartSize(D, n)
      /\ q * PartSize(D, n) \in Nat /\ r * PartSize(D, n) \in Nat
  BY <1>1, TimesMonotone
<1>5. (q + 1) * PartSize(D, n) = q * PartSize(D, n) + PartSize(D, n)
  BY <1>1
<1>6. ~ (r * PartSize(D, n) <= RankIn(D, e))
  BY <1>1, <1>2, <1>3, <1>4, <1>5
<1> QED
  BY <1>6 DEF Part

\* Every expert of the batch is in one of the parts.
LEMMA PartsCover ==
  ASSUME NEW D \in SUBSET Int, IsFiniteSet(D), NEW n \in Nat \ {0}, NEW e \in D
  PROVE  \E q \in 0 .. n - 1 : e \in Part(D, n, q)
<1> DEFINE p == PartSize(D, n)
           r == RankIn(D, e)
           q == r \div p
<1>1. /\ p \in Nat /\ Cardinality(D) \in Nat /\ Cardinality(D) <= n * p
      /\ r \in Nat /\ r < Cardinality(D)
  BY PartSizeFacts, Ranks
<1> HIDE DEF p, r
<1>2. n * p \in Nat /\ r < n * p
  BY <1>1
<1>3. p # 0
  BY <1>1, <1>2
<1>4. q \in Nat /\ p * q <= r /\ r < p * q + p
  BY <1>1, <1>3, Division
<1> HIDE DEF q
<1>5. q * p = p * q /\ (q + 1) * p = p * q + p /\ p * q \in Nat
  BY <1>1, <1>4
<1>6. q < n
  <2> SUFFICES ASSUME ~ (q < n) PROVE FALSE
    OBVIOUS
  <2>1. CASE q = n
    BY <1>1, <1>2, <1>4, <1>5, <2>1
  <2>2. CASE n < q
    <3>1. n * p + p <= q * p
      BY <1>1, <1>4, <2>2, TimesMonotone
    <3> QED
      BY <1>1, <1>2, <1>4, <1>5, <3>1
  <2> QED
    BY <1>4, <2>1, <2>2
<1>7. q * p <= r /\ r < (q + 1) * p
  BY <1>4, <1>5
<1> QED
  BY <1>4, <1>6, <1>7 DEF Part, p, r
-----------------------------------------------------------------------------
(* Expert Sweep: a slot for every expert of a pass, an answer for every    *)
(* position of the batch.                                                  *)

Fits == layer < DropFrom /\ PartSize(Distinct, np) <= NSeat

\* Each layer has a slab of its own.
OwnSlabs == \A k \in Key : seat[k] # NoSlot => seat[k][1] = k[1]

\* The answered positions are the earlier passes', and if each part fits, all
\* of theirs.
ServedInv ==
    /\ pass < np
    /\ \/ pass = 0 /\ gpu.busy
       \/ /\ \A i \in served :
               /\ i \in DOMAIN ids
               /\ \E q \in 0 .. pass - 1 : ids[i] \in Part(Distinct, np, q)
          /\ Fits => \A i \in DOMAIN ids, q \in 0 .. pass - 1 :
               ids[i] \in Part(Distinct, np, q) => i \in served

\* A pass answers its own part only, all of it if the part fits, and the
\* layer's references are on the experts it has answered.
PassInv ==
    routing =>
      /\ \A i \in 1 .. Len(out) : out[i] # ZeroSlot => ids[i] \in Part(Distinct, np, pass)
      /\ Fits => \A i \in 1 .. Len(out) :
            ids[i] \in Part(Distinct, np, pass) => out[i] # ZeroSlot
      /\ \A k \in Key : k[1] = layer /\ refs[k] > 0 =>
            \E i \in 1 .. Len(out) : out[i] # ZeroSlot /\ ids[i] = k[2]

SweepInv == OwnSlabs /\ ServedInv /\ PassInv /\ SlabSuffices

XInv == RInv /\ SweepInv

LEMMA BatchFacts ==
  ASSUME RInv
  PROVE  /\ ids \in Seq(Expert) /\ out \in Seq(Slot \cup {ZeroSlot})
         /\ Distinct \in SUBSET Int /\ IsFiniteSet(Distinct)
         /\ DOMAIN ids = 1 .. Len(ids) /\ DOMAIN out = 1 .. Len(out)
         /\ \A i \in DOMAIN ids : ids[i] \in Distinct /\ ids[i] \in Expert
         /\ layer \in Layer /\ pass \in Nat /\ np \in Nat /\ NSeat \in Nat \ {0}
         /\ routing => ~gpu.busy /\ Len(out) <= Len(ids)
<1>1. /\ ids \in Seq(Expert) /\ out \in Seq(Slot \cup {ZeroSlot}) /\ layer \in Layer
      /\ routing => ~gpu.busy /\ Len(out) <= Len(ids)
  BY DEF RInv, IInv, RoutingInv, GpuInv
<1>2. pass \in Nat /\ np \in Nat /\ NSeat \in Nat \ {0}
  BY RemapAssumption DEF RInv, ListsInv
<1>3. DOMAIN ids = 1 .. Len(ids) /\ DOMAIN out = 1 .. Len(out)
  BY <1>1
<1>4. \A i \in DOMAIN ids : ids[i] \in Distinct /\ ids[i] \in Expert
  BY <1>1 DEF Distinct
<1>5. Distinct \in SUBSET Expert
  BY <1>4 DEF Distinct
<1>6. Expert \in SUBSET Int /\ IsFiniteSet(Expert)
  <2>1. 0 \in Int /\ NExpert - 1 \in Int
    BY RemapAssumption
  <2>2. IsFiniteSet(0 .. NExpert - 1)
    BY <2>1, FS_Interval
  <2> QED
    BY <2>2 DEF Expert
<1>7. Distinct \in SUBSET Int /\ IsFiniteSet(Distinct)
  BY <1>5, <1>6, FS_Subset
<1> QED
  BY <1>1, <1>2, <1>3, <1>4, <1>7

LEMMA OwnedIsPart ==
  ASSUME NEW e \in Distinct
  PROVE  Owned(e) <=> e \in Part(Distinct, np, pass)
BY DEF Owned, Part, PartSize, Rank, RankIn

\* A graph of one pass has one part, the batch.
LEMMA OnePart ==
  ASSUME RInv, np = 1, pass < np, NEW e \in Distinct
  PROVE  e \in Part(Distinct, np, pass)
<1>1. pass = 0
  BY BatchFacts
<1>2. Distinct \in SUBSET Int /\ IsFiniteSet(Distinct) /\ np \in Nat \ {0}
  BY BatchFacts
<1>3. PICK q \in 0 .. np - 1 : e \in Part(Distinct, np, q)
  BY <1>2, PartsCover
<1>4. q = 0
  BY <1>3
<1> QED
  BY <1>1, <1>3, <1>4

\* An expert of a part that fits finds a slot: fewer slots of the slab than it
\* has are referenced, by the experts of this pass answered before.
LEMMA SlotLeft ==
  ASSUME XInv, routing, Len(out) < Len(ids), Fits, NEW e, e = ids[Len(out) + 1],
         e \in Part(Distinct, np, pass), seat[<<layer, e>>] = NoSlot
  PROVE  \E s \in Slot : s[1] = layer /\ Cache!Grantable(s)
<1> SUFFICES ASSUME \A s \in Slot : s[1] = layer => ~Cache!Grantable(s) PROVE FALSE
  OBVIOUS
<1> DEFINE P == Part(Distinct, np, pass)
           has(n, d) == seat[<<layer, d>>] = <<layer, n>>
           f == [n \in 0 .. NSeat - 1 |-> CHOOSE d \in P \ {e} : has(n, d)]
<1>0. RInv
  BY DEF XInv
<1>1. ASSUME NEW n \in 0 .. NSeat - 1
      PROVE  \E d \in P \ {e} : has(n, d)
  <2>1. <<layer, n>> \in Slot /\ <<layer, n>>[1] = layer /\ <<layer, n>> # NoSlot
    BY <1>0, BatchFacts, NamesAssumption DEF Slot
  <2>2. PICK j \in Key : seat[j] = <<layer, n>> /\ refs[j] # 0
    BY <2>1 DEF Cache!Grantable
  <2>3. refs[j] > 0
    BY <2>2 DEF XInv, RInv, IInv, CacheInv
  <2>4. j[1] = layer
    BY <2>1, <2>2 DEF XInv, SweepInv, OwnSlabs
  <2>5. PICK i \in 1 .. Len(out) : out[i] # ZeroSlot /\ ids[i] = j[2]
    BY <2>3, <2>4 DEF XInv, SweepInv, PassInv
  <2>6. j[2] \in P
    BY <2>5 DEF XInv, SweepInv, PassInv
  <2>7. j = <<layer, j[2]>>
    BY <2>4 DEF Key
  <2>8. j[2] # e
    BY <2>1, <2>2, <2>7
  <2> QED
    BY <2>2, <2>6, <2>7, <2>8
<1>2. /\ \A n \in 0 .. NSeat - 1 : f[n] \in P \ {e} /\ has(n, f[n])
  <2> HIDE DEF P, has
  <2> QED
    BY <1>1
<1>3. f \in [0 .. NSeat - 1 -> P \ {e}]
  BY <1>2
<1>4. \A m, n \in 0 .. NSeat - 1 : f[m] = f[n] => m = n
  <2> SUFFICES ASSUME NEW m \in 0 .. NSeat - 1, NEW n \in 0 .. NSeat - 1, f[m] = f[n]
               PROVE  m = n
    OBVIOUS
  <2>1. has(m, f[m]) /\ has(n, f[n])
    BY <1>2
  <2> HIDE DEF f
  <2>2. <<layer, m>> = <<layer, n>>
    BY <2>1
  <2> QED
    BY <2>2
<1>5. f \in Injection(0 .. NSeat - 1, P \ {e})
  <2> HIDE DEF f, P
  <2> QED
    BY <1>3, <1>4 DEF Injection, IsInjective
<1>6. /\ IsFiniteSet(P) /\ Cardinality(P) \in Nat
      /\ Cardinality(P) <= PartSize(Distinct, np)
  <2>1. np \in Nat \ {0} /\ pass \in Nat
    BY <1>0, BatchFacts DEF XInv, SweepInv, ServedInv
  <2>2. IsFiniteSet(P) /\ Cardinality(P) <= PartSize(Distinct, np)
    BY <1>0, <2>1, BatchFacts, PartIsSmall
  <2> QED
    BY <2>2, FS_CardinalityType
<1>7. PartSize(Distinct, np) <= NSeat /\ PartSize(Distinct, np) \in Nat
  <2>1. np \in Nat \ {0}
    BY <1>0, BatchFacts DEF XInv, SweepInv, ServedInv
  <2>2. PartSize(Distinct, np) \in Nat
    BY <1>0, <2>1, BatchFacts, PartSizeFacts
  <2> QED
    BY <2>2 DEF Fits
<1>8. e \in P
  OBVIOUS
<1> HIDE DEF f, P
<1>9. IsFiniteSet(P \ {e}) /\ Cardinality(P \ {e}) = Cardinality(P) - 1
  BY <1>6, <1>8, FS_RemoveElement
<1>10. Cardinality(0 .. NSeat - 1) = NSeat /\ NSeat \in Nat \ {0}
  <2>1. NSeat \in Nat \ {0} /\ 0 \in Int /\ NSeat - 1 \in Int
    BY RemapAssumption
  <2>2. Cardinality(0 .. NSeat - 1) = IF 0 > NSeat - 1 THEN 0 ELSE (NSeat - 1) - 0 + 1
    BY <2>1, FS_Interval
  <2> QED
    BY <2>1, <2>2
<1>11. Cardinality(0 .. NSeat - 1) <= Cardinality(P \ {e})
  BY <1>5, <1>9, FS_Injection
<1> QED
  BY <1>6, <1>7, <1>9, <1>10, <1>11

LEMMA InitSweep == Init => SweepInv
<1> SUFFICES ASSUME Init PROVE SweepInv
  OBVIOUS
<1>1. OwnSlabs
  BY DEF Init, Cache!SeatInit, OwnSlabs
<1>2. ServedInv
  BY DEF Init, ServedInv
<1>3. PassInv
  BY DEF Init, PassInv
<1>4. SlabSuffices
  BY DEF Init, GpuIdle, SlabSuffices
<1> QED
  BY <1>1, <1>2, <1>3, <1>4 DEF SweepInv

\* A new batch has no answers yet; a later pass keeps the batch and its parts.
LEMMA BeginRemapSweep ==
  ASSUME XInv, BeginRemap
  PROVE  SweepInv'
<1>1. RInv /\ OwnSlabs /\ ServedInv /\ ~gpu.busy /\ out = <<>>
  BY DEF XInv, SweepInv, BeginRemap, DependencyMet, RInv, IInv, IdleInv
<1>2. UNCHANGED <<seat, out, layer, pass, gpu, served>>
  BY DEF BeginRemap
<1>3. OwnSlabs'
  BY <1>1, <1>2 DEF OwnSlabs
<1>4. ServedInv'
  <2>1. CASE pass = 0
    <3>1. served = {}
      BY <1>1, <2>1 DEF ServedInv
    <3>2. 0 < np'
      <4>1. np' \in 1 .. MaxPass \/ np' = np
        BY DEF BeginRemap
      <4> QED
        BY <1>1, <2>1, <4>1 DEF ServedInv
    <3> QED
      BY <1>2, <2>1, <3>1, <3>2 DEF ServedInv
  <2>2. CASE pass # 0
    <3>1. ids' = ids /\ np' = np
      BY <2>2 DEF BeginRemap
    <3>2. Distinct' = Distinct /\ Fits' = Fits
      BY <1>2, <3>1 DEF Distinct, Fits
    <3> QED
      BY <1>1, <1>2, <2>2, <3>1, <3>2 DEF ServedInv
  <2> QED
    BY <2>1, <2>2
<1>5. PassInv'
  <2>1. \A k \in Key : k[1] = layer => ~ (refs'[k] > 0)
    BY <1>1, LayerReleased
  <2>2. Len(out') = 0
    BY <1>1, <1>2
  <2> QED
    BY <1>2, <2>1, <2>2 DEF PassInv
<1>6. SlabSuffices'
  BY <1>1, <1>2 DEF SlabSuffices
<1> QED
  BY <1>3, <1>4, <1>5, <1>6 DEF SweepInv

\* One more answer: the null expert for the experts of the other parts, and
\* while the parts fit for them only.
LEMMA RouteSweep ==
  ASSUME XInv, Route
  PROVE  SweepInv'
<1> DEFINE n == Len(out) + 1
           e == ids[n]
           key == <<layer, e>>
           mine == Part(Distinct, np, pass)
<1>1. /\ RInv /\ OwnSlabs /\ ServedInv /\ PassInv
      /\ routing /\ Len(out) < Len(ids) /\ ~gpu.busy
      /\ UNCHANGED <<slab, routing, layer, pass, np, ids, gpu, served>>
  BY DEF XInv, SweepInv, Route, graphVars, RInv, IInv, GpuInv
<1>2. /\ e \in Expert /\ e \in Distinct /\ key \in Key /\ n \in 1 .. Len(ids)
      /\ Len(out) \in Nat
  BY <1>1, BatchFacts DEF Key
<1>3. /\ Distinct' = Distinct /\ Fits' = Fits
  BY <1>1 DEF Distinct, Fits
<1>4. ServedInv' /\ SlabSuffices'
  BY <1>1, <1>3 DEF ServedInv, SlabSuffices
<1>5. ASSUME NEW slot, slot \in Slot \cup {ZeroSlot}, Answer(slot)
      PROVE  /\ Len(out') = n /\ out'[n] = slot
             /\ \A i \in 1 .. Len(out) : out'[i] = out[i]
  BY <1>1, <1>5, BatchFacts DEF Answer
<1>6. ASSUME NEW slot \in Slot \cup {ZeroSlot}, Answer(slot),
             slot # ZeroSlot => e \in mine,
             Fits /\ e \in mine => slot # ZeroSlot,
             \A k \in Key : refs'[k] # refs[k] => k = key /\ slot # ZeroSlot
      PROVE  PassInv'
  <2> HIDE DEF mine, n
  <2>1. /\ Len(out') = n /\ out'[n] = slot
        /\ \A i \in 1 .. Len(out) : out'[i] = out[i]
    BY <1>5, <1>6
  <2>2. \A i \in 1 .. Len(out') : i = n \/ i \in 1 .. Len(out)
    BY <1>2, <2>1 DEF n
  <2>3. n \in 1 .. Len(out') /\ \A i \in 1 .. Len(out) : i \in 1 .. Len(out')
    BY <1>2, <2>1 DEF n
  <2>4. \A i \in 1 .. Len(out') : out'[i] # ZeroSlot => ids[i] \in mine
    BY <1>1, <1>6, <2>1, <2>2 DEF PassInv, mine
  <2>5. Fits => \A i \in 1 .. Len(out') : ids[i] \in mine => out'[i] # ZeroSlot
    BY <1>1, <1>6, <2>1, <2>2 DEF PassInv, mine
  <2>6. ASSUME NEW k \in Key, k[1] = layer, refs'[k] > 0
        PROVE  \E i \in 1 .. Len(out') : out'[i] # ZeroSlot /\ ids[i] = k[2]
    <3>1. CASE refs'[k] = refs[k]
      <4>1. PICK i \in 1 .. Len(out) : out[i] # ZeroSlot /\ ids[i] = k[2]
        BY <1>1, <2>6, <3>1 DEF PassInv
      <4> QED
        BY <2>1, <2>3, <4>1
    <3>2. CASE refs'[k] # refs[k]
      <4>1. k[2] = e /\ slot # ZeroSlot
        BY <1>6, <3>2
      <4> QED
        BY <2>1, <2>3, <4>1
    <3> QED
      BY <3>1, <3>2
  <2> QED
    BY <1>1, <1>3, <2>4, <2>5, <2>6 DEF PassInv, mine
<1>7. ASSUME NEW s \in Slot, s[1] = layer, Cache!Granted(key, s)
      PROVE  OwnSlabs'
  <2>1. seat' = [j \in Key |-> IF j = key THEN s
                               ELSE IF seat[j] = s THEN NoSlot ELSE seat[j]]
    BY <1>7 DEF Cache!Granted
  <2>2. key[1] = layer
    OBVIOUS
  <2> HIDE DEF key
  <2> QED
    BY <1>1, <1>7, <2>1, <2>2 DEF OwnSlabs
<1>8. CASE RouteElsewhere(e)
  <2>1. e \notin mine
    BY <1>2, <1>8, OwnedIsPart DEF RouteElsewhere
  <2>2. OwnSlabs' /\ Answer(ZeroSlot) /\ refs' = refs
    BY <1>1, <1>8 DEF RouteElsewhere, cacheVars, OwnSlabs
  <2>3. PassInv'
    BY <1>6, <2>1, <2>2
  <2> QED
    BY <1>4, <2>2, <2>3 DEF SweepInv
<1>9. CASE /\ np = 1 \/ Owned(e)
           /\ RouteHit(e) \/ RouteMiss(e) \/ RouteDropped(e) \/ RouteExhausted(e)
  <2>1. e \in mine
    BY <1>1, <1>2, <1>9, OwnedIsPart, OnePart DEF ServedInv
  <2>2. ZeroSlot \notin Slot
    BY NamesAssumption
  <2>3. CASE RouteHit(e)
    <3>1. /\ refs' = [refs EXCEPT ![key] = @ + 1] /\ seat' = seat
          /\ Answer(seat[key]) /\ seat[key] # NoSlot
      BY <2>3 DEF RouteHit, Cache!Reuse, Cache!Seated
    <3>2. seat[key] \in Slot /\ refs \in [Key -> Nat]
      <4>1. seat \in [Key -> Slot \cup {NoSlot}] /\ refs \in [Key -> Nat]
        BY <1>1 DEF RInv, IInv, CacheInv
      <4> HIDE DEF key
      <4> QED
        BY <1>2, <3>1, <4>1
    <3>3. \A k \in Key : refs'[k] # refs[k] => k = key
      <4> HIDE DEF key
      <4> QED
        BY <3>1, <3>2
    <3>4. OwnSlabs'
      BY <1>1, <3>1 DEF OwnSlabs
    <3>5. PassInv'
      BY <1>6, <2>1, <2>2, <3>1, <3>2, <3>3
    <3> QED
      BY <1>4, <3>4, <3>5 DEF SweepInv
  <2>4. CASE RouteMiss(e)
    <3>1. PICK s \in Slot : s[1] = layer /\ Cache!Grant(key, s) /\ Answer(s)
      BY <2>4 DEF RouteMiss
    <3>2. Cache!Granted(key, s) /\ refs' = [refs EXCEPT ![key] = 1]
      BY <3>1 DEF Cache!Grant
    <3>3. \A k \in Key : refs'[k] # refs[k] => k = key
      <4>1. refs \in [Key -> Nat]
        BY <1>1 DEF RInv, IInv, CacheInv
      <4> HIDE DEF key
      <4> QED
        BY <3>2, <4>1
    <3>4. OwnSlabs'
      BY <1>7, <3>1, <3>2
    <3>5. PassInv'
      BY <1>6, <2>1, <2>2, <3>1, <3>3
    <3> QED
      BY <1>4, <3>4, <3>5 DEF SweepInv
  <2>5. CASE RouteDropped(e)
    <3>1. PICK s \in Slot : s[1] = layer /\ Cache!GrantUnused(key, s)
      BY <2>5 DEF RouteDropped
    <3>2. Cache!Granted(key, s) /\ refs' = refs
      BY <3>1 DEF Cache!GrantUnused
    <3>3. OwnSlabs'
      BY <1>7, <3>1, <3>2
    <3>4. Answer(ZeroSlot) /\ ~Fits
      BY <2>5, BatchFacts, <1>1, RemapAssumption DEF RouteDropped, Fits, Layer
    <3>5. PassInv'
      BY <1>6, <3>2, <3>4
    <3> QED
      BY <1>4, <3>3, <3>5 DEF SweepInv
  <2>6. CASE RouteExhausted(e)
    <3>1. ~Fits
      BY <1>1, <2>1, <2>6, SlotLeft DEF RouteExhausted, Cache!Seated
    <3>2. OwnSlabs' /\ Answer(ZeroSlot) /\ refs' = refs
      BY <1>1, <2>6 DEF RouteExhausted, cacheVars, OwnSlabs
    <3>3. PassInv'
      BY <1>6, <3>1, <3>2
    <3> QED
      BY <1>4, <3>2, <3>3 DEF SweepInv
  <2> QED
    BY <1>9, <2>3, <2>4, <2>5, <2>6
<1> QED
  BY <1>8, <1>9 DEF Route

\* What a launch answers: no position twice, and after the last pass all.
LEMMA LaunchAnswers ==
  ASSUME XInv, Launch
  PROVE  /\ \A i \in served : out[i] = ZeroSlot
         /\ (/\ pass + 1 = np /\ layer < DropFrom
             /\ Cardinality(Distinct) <= NSeat * np)
               => served' = DOMAIN ids
<1>1. /\ RInv /\ routing /\ ~gpu.busy /\ pass < np /\ Len(out) = Len(ids)
      /\ DOMAIN ids = 1 .. Len(out) /\ DOMAIN out = DOMAIN ids
      /\ pass \in Nat /\ np \in Nat \ {0}
      /\ Distinct \in SUBSET Int /\ IsFiniteSet(Distinct)
  <2>1. RInv /\ routing /\ pass < np /\ Len(out) = Len(ids)
    BY DEF XInv, SweepInv, ServedInv, Launch
  <2> QED
    BY <2>1, BatchFacts
<1>2. /\ \A i \in served :
           i \in DOMAIN ids /\ \E q \in 0 .. pass - 1 : ids[i] \in Part(Distinct, np, q)
      /\ Fits => \A i \in DOMAIN ids, q \in 0 .. pass - 1 :
           ids[i] \in Part(Distinct, np, q) => i \in served
  BY <1>1 DEF XInv, SweepInv, ServedInv
<1>3. /\ \A i \in DOMAIN ids : out[i] # ZeroSlot => ids[i] \in Part(Distinct, np, pass)
      /\ Fits => \A i \in DOMAIN ids :
            ids[i] \in Part(Distinct, np, pass) => out[i] # ZeroSlot
  BY <1>1 DEF XInv, SweepInv, PassInv
<1>4. ASSUME NEW i \in served PROVE out[i] = ZeroSlot
  <2>1. PICK q \in 0 .. pass - 1 : ids[i] \in Part(Distinct, np, q)
    BY <1>2
  <2>2. q \in Nat /\ q < pass
    BY <1>1
  <2>3. ids[i] \notin Part(Distinct, np, pass)
    BY <1>1, <2>1, <2>2, PartsAreDisjoint
  <2> QED
    BY <1>2, <1>3, <2>3
<1>5. ASSUME pass + 1 = np, layer < DropFrom, Cardinality(Distinct) <= NSeat * np
      PROVE  served' = DOMAIN ids
  <2>1. Fits
    <3>1. PartSize(Distinct, np) <= NSeat
      BY <1>1, <1>5, PartSizeFacts, RemapAssumption
    <3> QED
      BY <1>5, <3>1 DEF Fits
  <2>2. ASSUME NEW i \in DOMAIN ids PROVE i \in served \/ out[i] # ZeroSlot
    <3>1. ids[i] \in Distinct
      BY DEF Distinct
    <3>2. PICK q \in 0 .. np - 1 : ids[i] \in Part(Distinct, np, q)
      BY <1>1, <3>1, PartsCover
    <3>3. q = pass \/ q \in 0 .. pass - 1
      BY <1>1, <1>5
    <3> QED
      BY <1>2, <1>3, <2>1, <3>2, <3>3
  <2>3. served' = served \cup {i \in DOMAIN out : out[i] # ZeroSlot}
    BY DEF Launch
  <2> QED
    BY <1>1, <1>2, <2>2, <2>3
<1> QED
  BY <1>4, <1>5

LEMMA LaunchSweep ==
  ASSUME XInv, Launch
  PROVE  SweepInv'
<1>1. /\ RInv /\ OwnSlabs /\ PassInv /\ ServedInv /\ routing /\ ~gpu.busy
      /\ Len(out) = Len(ids) /\ DOMAIN ids = 1 .. Len(out) /\ DOMAIN out = DOMAIN ids
      /\ pass \in Nat /\ np \in Nat \ {0} /\ pass < np
      /\ Distinct \in SUBSET Int /\ IsFiniteSet(Distinct)
  <2>1. /\ RInv /\ OwnSlabs /\ PassInv /\ ServedInv /\ routing
        /\ pass < np /\ Len(out) = Len(ids)
    BY DEF XInv, SweepInv, ServedInv, Launch
  <2> QED
    BY <2>1, BatchFacts
<1>2. /\ seat' = seat /\ np' = np /\ ~routing'
      /\ gpu' = [busy |-> TRUE, layer |-> layer, ids |-> ids, out |-> out]
      /\ served' = served \cup {i \in DOMAIN out : out[i] # ZeroSlot}
  BY DEF Launch, cacheVars
<1>3. OwnSlabs' /\ PassInv'
  BY <1>1, <1>2 DEF OwnSlabs, PassInv
<1>4. /\ \A i \in served :
           i \in DOMAIN ids /\ \E q \in 0 .. pass - 1 : ids[i] \in Part(Distinct, np, q)
      /\ Fits => \A i \in DOMAIN ids, q \in 0 .. pass - 1 :
           ids[i] \in Part(Distinct, np, q) => i \in served
      /\ \A i \in DOMAIN ids : out[i] # ZeroSlot => ids[i] \in Part(Distinct, np, pass)
      /\ Fits => \A i \in DOMAIN ids :
            ids[i] \in Part(Distinct, np, pass) => out[i] # ZeroSlot
  BY <1>1 DEF ServedInv, PassInv
<1>5. ServedInv'
  <2>1. CASE pass + 1 < np
    <3>1. pass' = pass + 1 /\ layer' = layer /\ ids' = ids
      BY <2>1 DEF Launch
    <3>2. Distinct' = Distinct /\ Fits' = Fits
      BY <1>2, <3>1 DEF Distinct, Fits
    <3>3. 0 .. pass' - 1 = (0 .. pass - 1) \cup {pass}
      BY <1>1, <3>1
    <3>4. ASSUME NEW i \in served'
          PROVE  i \in DOMAIN ids /\ \E q \in 0 .. pass' - 1 : ids[i] \in Part(Distinct, np, q)
      BY <1>1, <1>2, <1>4, <3>3
    <3>5. ASSUME Fits, NEW i \in DOMAIN ids, NEW q \in 0 .. pass' - 1,
                 ids[i] \in Part(Distinct, np, q)
          PROVE  i \in served'
      BY <1>1, <1>2, <1>4, <3>3, <3>5
    <3>6. pass' < np'
      BY <1>2, <2>1, <3>1
    <3> QED
      BY <1>2, <3>1, <3>2, <3>4, <3>5, <3>6 DEF ServedInv
  <2>2. CASE ~ (pass + 1 < np)
    BY <1>1, <1>2, <2>2 DEF Launch, ServedInv
  <2> QED
    BY <2>1, <2>2
<1>6. SlabSuffices'
  <2> SUFFICES ASSUME np = 1, layer < DropFrom, Cardinality(Distinct) <= NSeat,
                      NEW i \in DOMAIN out
               PROVE  out[i] # ZeroSlot
    BY <1>2 DEF SlabSuffices, Distinct, Launch
  <2>1. Cardinality(Distinct) <= NSeat * np /\ NSeat \in Nat
    BY RemapAssumption
  <2>2. PartSize(Distinct, np) <= NSeat
    BY <1>1, <2>1, PartSizeFacts
  <2>3. ids[i] \in Part(Distinct, np, pass)
    BY <1>1, OnePart DEF Distinct
  <2> QED
    BY <1>1, <1>4, <2>2, <2>3 DEF Fits
<1> QED
  BY <1>3, <1>5, <1>6 DEF SweepInv

LEMMA OtherSweep ==
  ASSUME XInv, \/ \E k \in Key : Read(k)
               \/ GpuDone \/ UNCHANGED vars
  PROVE  SweepInv'
<1>1. /\ RInv /\ OwnSlabs /\ ServedInv /\ PassInv /\ SlabSuffices /\ pass \in Nat
      /\ UNCHANGED <<seat, refs, routing, layer, pass, np, ids, out>>
  <2>1. /\ RInv /\ OwnSlabs /\ ServedInv /\ PassInv /\ SlabSuffices
        /\ UNCHANGED <<seat, refs, routing, layer, pass, np, ids, out>>
    BY DEF XInv, SweepInv, Read, GpuDone, vars, cacheVars, graphVars
  <2> QED
    BY <2>1, BatchFacts
<1>2. Distinct' = Distinct /\ Fits' = Fits
  BY <1>1 DEF Distinct, Fits
<1>3. OwnSlabs' /\ PassInv'
  BY <1>1, <1>2 DEF OwnSlabs, PassInv
<1>4. CASE GpuDone
  <2>1. ~gpu'.busy /\ served' = IF pass = 0 THEN {} ELSE served
    BY <1>4 DEF GpuDone, GpuIdle
  <2>2. ServedInv'
    BY <1>1, <1>2, <2>1 DEF ServedInv
  <2>3. SlabSuffices'
    BY <2>1 DEF SlabSuffices
  <2> QED
    BY <1>3, <2>2, <2>3 DEF SweepInv
<1>5. CASE ~GpuDone
  <2>1. gpu' = gpu /\ served' = served
    BY <1>5 DEF Read, vars, graphVars
  <2>2. ServedInv' /\ SlabSuffices'
    BY <1>1, <1>2, <2>1 DEF ServedInv, SlabSuffices
  <2> QED
    BY <1>3, <2>2 DEF SweepInv
<1> QED
  BY <1>4, <1>5

LEMMA StepXInv ==
  ASSUME XInv, [Next]_vars, MaxPass <= PASS_KEYS
  PROVE  XInv'
<1>1. RInv'
  BY StepRInv DEF XInv
<1>2. SweepInv'
  BY BeginRemapSweep, RouteSweep, LaunchSweep, OtherSweep DEF Next
<1> QED
  BY <1>1, <1>2 DEF XInv

\* A batch whose distinct experts fit the layer's slab is answered in full by
\* the one pass that computes it: no earlier layer, batch or token has taken
\* the slots it needs, whatever the eviction policy (get_slots, ms_remap_fn).
THEOREM SlotsSuffice ==
  ASSUME MaxPass <= PASS_KEYS
  PROVE  Spec => []SlabSuffices
<1>1. Init => XInv
  BY InitRInv, InitSweep DEF XInv
<1>2. XInv /\ [Next]_vars => XInv'
  BY StepXInv
<1>3. XInv => SlabSuffices
  BY DEF XInv, SweepInv
<1> QED
  BY <1>1, <1>2, <1>3, PTL DEF Spec

\* The passes of an Expert Sweep add up to the FFN: no position is answered
\* by two passes, and none is left out once every part fits the slab.
THEOREM PassesAnswerOnce ==
  ASSUME MaxPass <= PASS_KEYS
  PROVE  Spec => AnsweredOnce
<1>1. Init => XInv
  BY InitRInv, InitSweep DEF XInv
<1>2. XInv /\ [Next]_vars => XInv'
  BY StepXInv
<1> DEFINE Answers ==
      Launch =>
        /\ \A i \in served : out[i] = ZeroSlot
        /\ (/\ pass + 1 = np /\ layer < DropFrom
            /\ Cardinality(Distinct) <= NSeat * np)
              => served' = DOMAIN ids
<1>3. XInv => Answers
  BY LaunchAnswers
<1>4. XInv /\ [Next]_vars => [Answers]_vars
  BY <1>3
<1>5. AnsweredOnce <=> [][Answers]_vars
  BY DEF AnsweredOnce
<1> HIDE DEF Answers
<1> QED
  BY <1>1, <1>2, <1>4, <1>5, PTL DEF Spec
=============================================================================
