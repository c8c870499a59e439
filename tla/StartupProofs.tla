--------------------------- MODULE StartupProofs ----------------------------
(***************************************************************************)
(* Proofs about what a start decides, in the server (Startup) and in the   *)
(* entrypoint (SpecLearning, in the last section).                         *)
(*                                                                         *)
(* Startup: for every model, machine and setting, whatever                 *)
(* graphs are built, dropped and run.  While weights are created, how each *)
(* was created agrees with the names and with the dense split; at the end  *)
(* of loading that gives every layer its replacement; and what a graph     *)
(* needs has been set up by the time it is executed.                       *)
(***************************************************************************)
EXTENDS Startup, SpecLearning, WellFoundedInduction, TLAPS

How == {"slab", "stub", "whole"}

RecordInv ==
    /\ conf \in Configs
    /\ alloc \in Seq(How) /\ Len(alloc) <= Len(Weights)
    /\ loaded \subseteq DOMAIN Weights
    /\ engine = [enabled |-> engine.enabled, cache |-> engine.cache,
                 open |-> engine.open, threshold |-> engine.threshold,
                 ready |-> engine.ready]
    /\ engine.enabled \in BOOLEAN /\ engine.cache \in BOOLEAN
    /\ engine.open \in BOOLEAN /\ engine.ready \in BOOLEAN
    /\ dense = [nlayer |-> dense.nlayer, first |-> dense.first,
                done |-> dense.done, ready |-> dense.ready]
    /\ dense.done \in BOOLEAN /\ dense.ready \in BOOLEAN

\* While the weights are created: a slab by name, a stub by the split, which is
\* decided at the first dense weight, whole otherwise.
CreateInv ==
    phase = "create" =>
        /\ \A i \in DOMAIN alloc :
              /\ alloc[i] = "slab" => engine.enabled /\ ExpertWeight(Weights[i])
              /\ alloc[i] = "stub" <=> StreamedIn(Weights[i], dense)
              /\ alloc[i] = "whole" => ~WantsSlab(Weights[i])
              /\ (engine.enabled /\ DenseWeight(Weights[i], Weights[i].bytes))
                    => dense.nlayer # 0
        /\ ~engine.cache /\ ~engine.open /\ ~engine.ready
        /\ ~dense.done /\ ~dense.ready

\* Once they are: whole weights have been read, but for those of a single expert,
\* and the others have not.
LoadedInv ==
    phase # "create" =>
        /\ DOMAIN alloc = DOMAIN Weights
        /\ \A i \in DOMAIN Weights :
              /\ i \in loaded => alloc[i] = "whole"
              /\ alloc[i] = "whole" => i \in loaded \/ LoneExpert(i)
              /\ alloc[i] = "slab" => ExpertWeight(Weights[i])
-----------------------------------------------------------------------------
LEMMA WeightsAreTyped ==
  ASSUME conf \in Configs
  PROVE  /\ Weights \in Seq(WeightRecord)
         /\ \A i \in DOMAIN Weights : Weights[i].experts \in Nat \ {0}
         /\ conf.on \in BOOLEAN
<1>1. Weights \in Seq(WeightRecord) /\ conf.on \in BOOLEAN
  BY ModelAssumption DEF Weights
<1>2. \A i \in DOMAIN Weights : Weights[i] \in WeightRecord
  BY <1>1
<1> QED
  BY <1>1, <1>2 DEF WeightRecord

\* A created weight is appended, the others stay.
LEMMA CreatedFacts ==
  ASSUME RecordInv, NEW i \in DOMAIN Weights, NEW how \in How, Creates(i, how)
  PROVE  /\ alloc' \in Seq(How) /\ Len(alloc') <= Len(Weights)
         /\ \A j \in DOMAIN alloc' :
               (j \in DOMAIN alloc /\ alloc'[j] = alloc[j]) \/ (j = i /\ alloc'[j] = how)
<1>1. Weights \in Seq(WeightRecord) /\ alloc \in Seq(How) /\ Len(alloc) <= Len(Weights)
  BY WeightsAreTyped DEF RecordInv
<1>2. i = Len(alloc) + 1 /\ alloc' = Append(alloc, how)
  BY DEF Creates
<1>3. i \in 1 .. Len(Weights)
  BY <1>1
<1>4. alloc' \in Seq(How) /\ Len(alloc') = Len(alloc) + 1
  BY <1>1, <1>2
<1>5. ASSUME NEW j \in DOMAIN alloc'
      PROVE  (j \in DOMAIN alloc /\ alloc'[j] = alloc[j]) \/ (j = i /\ alloc'[j] = how)
  <2>1. j \in 1 .. Len(alloc) + 1
    BY <1>4
  <2>2. CASE j = i
    BY <1>1, <1>2, <2>2
  <2>3. CASE j \in 1 .. Len(alloc)
    BY <1>1, <1>2, <2>3
  <2> QED
    BY <1>1, <1>2, <2>1, <2>2, <2>3
<1> QED
  BY <1>1, <1>2, <1>3, <1>4, <1>5

LEMMA InitRecord == Init => RecordInv /\ CreateInv /\ LoadedInv
<1> SUFFICES ASSUME Init PROVE RecordInv /\ CreateInv /\ LoadedInv
  OBVIOUS
<1>1. Weights \in Seq(WeightRecord) /\ conf.on \in BOOLEAN /\ conf \in Configs
  BY WeightsAreTyped DEF Init
<1>2. alloc \in Seq(How) /\ Len(alloc) = 0 /\ DOMAIN alloc = {}
  BY DEF Init
<1>3. Len(Weights) \in Nat
  BY <1>1
<1>4. RecordInv
  BY <1>1, <1>2, <1>3 DEF Init, RecordInv
<1> QED
  BY <1>2, <1>4 DEF Init, CreateInv, LoadedInv

-----------------------------------------------------------------------------
(* Every step.                                                             *)

Facts == RecordInv /\ CreateInv /\ LoadedInv

LEMMA SlabFacts ==
  ASSUME Facts, NEW i \in DOMAIN Weights, CreateSlab(i)
  PROVE  Facts'
<1>1. /\ phase = "create" /\ phase' = "create" /\ Weights' = Weights
      /\ engine' = engine /\ dense' = dense /\ conf' = conf /\ loaded' = loaded
  BY DEF CreateSlab, Creates, Weights
<1>2. /\ alloc' \in Seq(How) /\ Len(alloc') <= Len(Weights)
      /\ \A j \in DOMAIN alloc' :
            (j \in DOMAIN alloc /\ alloc'[j] = alloc[j]) \/ (j = i /\ alloc'[j] = "slab")
  BY CreatedFacts DEF CreateSlab, Facts, How
<1>3. engine.enabled /\ ExpertWeight(Weights[i]) /\ ~DenseWeight(Weights[i], Weights[i].bytes)
  BY DEF CreateSlab, WantsSlab, ExpertWeight, DenseWeight
<1>4. RecordInv'
  BY <1>1, <1>2 DEF Facts, RecordInv
<1>5. CreateInv'
  BY <1>1, <1>2, <1>3 DEF Facts, CreateInv, StreamedIn, WantsSlab
<1> QED
  BY <1>1, <1>4, <1>5 DEF Facts, LoadedInv

\* The split is decided once: no weight created before is in it.
LEMMA SplitFacts ==
  ASSUME Facts, phase = "create", NEW i \in DOMAIN Weights,
         dense' = DenseAfter(Weights[i])
  PROVE  /\ \A j \in DOMAIN alloc :
               StreamedIn(Weights[j], dense') <=> StreamedIn(Weights[j], dense)
         /\ (engine.enabled /\ DenseWeight(Weights[i], Weights[i].bytes))
               => dense'.nlayer # 0
         /\ dense.nlayer # 0 => dense'.nlayer # 0
         /\ dense' = [nlayer |-> dense'.nlayer, first |-> dense'.first,
                      done |-> dense.done, ready |-> dense.ready]
         /\ dense'.done = dense.done /\ dense'.ready = dense.ready
<1> USE DEF Facts
<1>1. CASE dense' = dense /\ ~(engine.enabled /\ DenseWeight(Weights[i], Weights[i].bytes)
                              /\ dense.nlayer = 0)
  BY <1>1 DEF RecordInv
<1>2. CASE /\ dense' = Decided(Weights[i]) /\ engine.enabled
           /\ DenseWeight(Weights[i], Weights[i].bytes) /\ dense.nlayer = 0
  <2>1. dense = [nlayer |-> 0, first |-> dense.first,
                 done |-> dense.done, ready |-> dense.ready]
    BY <1>2 DEF RecordInv
  <2>2. CASE dense' = [dense EXCEPT !.nlayer = -1]
    <3>1. dense' = [nlayer |-> -1, first |-> dense.first,
                    done |-> dense.done, ready |-> dense.ready]
      BY <2>1, <2>2
    <3>2. \A j \in DOMAIN alloc : ~DenseWeight(Weights[j], Weights[j].bytes)
      BY <1>2 DEF CreateInv
    <3> QED
      BY <1>2, <3>1, <3>2 DEF StreamedIn
  <2>3. CASE /\ BlockCount(conf.gguf) # 0
             /\ dense' = [dense EXCEPT !.nlayer = BlockCount(conf.gguf), !.first = Keep(Weights[i])]
    <3>1. dense' = [nlayer |-> BlockCount(conf.gguf), first |-> Keep(Weights[i]),
                    done |-> dense.done, ready |-> dense.ready]
      BY <2>1, <2>3
    <3>2. \A j \in DOMAIN alloc : ~DenseWeight(Weights[j], Weights[j].bytes)
      BY <1>2 DEF CreateInv
    <3>3. dense'.nlayer = BlockCount(conf.gguf) /\ dense'.first = Keep(Weights[i])
      BY <3>1
    <3>4. dense'.done = dense.done /\ dense'.ready = dense.ready /\ dense'.nlayer # 0
      BY <2>3, <3>1
    <3>5. dense' = [nlayer |-> dense'.nlayer, first |-> dense'.first,
                    done |-> dense.done, ready |-> dense.ready]
      BY <3>1, <3>3
    <3>6. \A j \in DOMAIN alloc :
             StreamedIn(Weights[j], dense') <=> StreamedIn(Weights[j], dense)
      BY <3>2 DEF StreamedIn
    <3> QED
      BY <3>4, <3>5, <3>6
  <2> QED
    BY <1>2, <2>2, <2>3 DEF Decided
<1> QED
  BY <1>1, <1>2 DEF DenseAfter

LEMMA StubOrWholeFacts ==
  ASSUME Facts, NEW i \in DOMAIN Weights, CreateStub(i) \/ CreateWhole(i)
  PROVE  Facts'
<1>1. /\ phase = "create" /\ phase' = "create" /\ Weights' = Weights
      /\ engine' = engine /\ conf' = conf /\ loaded' = loaded
      /\ dense' = DenseAfter(Weights[i]) /\ ~WantsSlab(Weights[i])
  BY DEF CreateStub, CreateWhole, Creates, Weights
<1>2. PICK how \in {"stub", "whole"} :
          Creates(i, how) /\ (how = "stub" <=> StreamedIn(Weights[i], dense'))
  BY DEF CreateStub, CreateWhole
<1>3. /\ alloc' \in Seq(How) /\ Len(alloc') <= Len(Weights)
      /\ \A j \in DOMAIN alloc' :
            (j \in DOMAIN alloc /\ alloc'[j] = alloc[j]) \/ (j = i /\ alloc'[j] = how)
  BY <1>2, CreatedFacts DEF Facts, How
<1>4. ~WantsSlab(Weights[i])
  BY <1>1
<1>5. RecordInv'
  BY <1>1, <1>3, SplitFacts DEF Facts, RecordInv
<1>6. CreateInv'
  <2> SUFFICES ASSUME NEW j \in DOMAIN alloc'
               PROVE  /\ alloc'[j] = "slab" => engine.enabled /\ ExpertWeight(Weights[j])
                      /\ alloc'[j] = "stub" <=> StreamedIn(Weights[j], dense')
                      /\ alloc'[j] = "whole" => ~WantsSlab(Weights[j])
                      /\ (engine.enabled /\ DenseWeight(Weights[j], Weights[j].bytes))
                            => dense'.nlayer # 0
    BY <1>1, SplitFacts DEF Facts, CreateInv, StreamedIn, WantsSlab
  <2>1. CASE j \in DOMAIN alloc /\ alloc'[j] = alloc[j]
    BY <1>1, <2>1, SplitFacts DEF Facts, CreateInv
  <2>2. CASE j = i /\ alloc'[j] = how
    BY <1>1, <1>2, <1>4, <2>2, SplitFacts
  <2> QED
    BY <1>3, <2>1, <2>2
<1> QED
  BY <1>1, <1>5, <1>6 DEF Facts, LoadedInv

LEMMA LoadFacts ==
  ASSUME Facts, LoadAllData PROVE Facts'
<1>1. /\ conf' = conf /\ alloc' = alloc /\ engine' = engine /\ dense' = dense
      /\ phase = "create" /\ phase' = "idle" /\ Weights' = Weights
      /\ Len(alloc) = Len(Weights)
      /\ loaded' = {i \in DOMAIN Weights : ~SkipLoad(i)}
  BY DEF LoadAllData, Weights
<1>2. Weights \in Seq(WeightRecord) /\ alloc \in Seq(How)
  BY WeightsAreTyped DEF Facts, RecordInv
<1>3. DOMAIN alloc = DOMAIN Weights
  BY <1>1, <1>2
<1>4. \A i \in DOMAIN Weights :
         /\ ~SkipLoad(i) => alloc[i] = "whole"
         /\ alloc[i] = "whole" => ~SkipLoad(i) \/ LoneExpert(i)
         /\ alloc[i] = "slab" => ExpertWeight(Weights[i])
  <2> SUFFICES ASSUME NEW i \in DOMAIN Weights
               PROVE  /\ ~SkipLoad(i) => alloc[i] = "whole"
                      /\ alloc[i] = "whole" => ~SkipLoad(i) \/ LoneExpert(i)
                      /\ alloc[i] = "slab" => ExpertWeight(Weights[i])
    OBVIOUS
  <2>1. alloc[i] \in How
    BY <1>2, <1>3
  <2>2. Weights[i].experts \in Nat \ {0}
    BY WeightsAreTyped DEF Facts, RecordInv
  <2>3. alloc[i] = "whole" /\ ExpertWeight(Weights[i]) /\ engine.enabled => LoneExpert(i)
    BY <1>1, <1>3, <2>2 DEF Facts, CreateInv, WantsSlab, LoneExpert
  <2> QED
    BY <1>1, <1>3, <2>1, <2>3 DEF SkipLoad, Facts, CreateInv, How, StreamedIn
<1> QED
  BY <1>1, <1>3, <1>4 DEF Facts, RecordInv, CreateInv, LoadedInv, LoneExpert, WantsSlab

\* From then on only the engine and the dense arena change.
LEMMA ServeFacts ==
  ASSUME Facts, [Next]_vars,
         ~\E i \in DOMAIN Weights : CreateSlab(i) \/ CreateStub(i) \/ CreateWhole(i),
         ~LoadAllData
  PROVE  Facts'
<1> USE DEF Facts
<1>1. CASE UNCHANGED vars
  BY <1>1 DEF vars, RecordInv, CreateInv, LoadedInv, Weights, StreamedIn,
                     LoneExpert, WantsSlab
<1>2. ASSUME NEW n \in 1 .. MaxBatch, BuildGraph(n) PROVE Facts'
  <2>1. /\ conf' = conf /\ alloc' = alloc /\ loaded' = loaded /\ Weights' = Weights
        /\ phase = "idle" /\ phase' \in {"crashed", "built"}
    BY <1>2 DEF BuildGraph, Weights
  <2>2. /\ engine' = [engine EXCEPT !.open = OpenAfterEnsure]
        /\ dense' \in {dense, DenseEnsured}
    BY <1>2 DEF BuildGraph
  <2>3. OpenAfterEnsure \in BOOLEAN
    BY DEF OpenAfterEnsure, RecordInv
  <2>4. engine' = [enabled |-> engine.enabled, cache |-> engine.cache,
                   open |-> OpenAfterEnsure, threshold |-> engine.threshold,
                   ready |-> engine.ready]
    BY <2>2 DEF RecordInv
  <2>5. /\ dense' = [nlayer |-> dense'.nlayer, first |-> dense'.first,
                     done |-> dense'.done, ready |-> dense'.ready]
        /\ dense'.done \in BOOLEAN /\ dense'.ready \in BOOLEAN
    <3>1. CASE dense' = dense
      BY <3>1 DEF RecordInv
    <3>2. CASE dense' = [dense EXCEPT !.done = TRUE,
                           !.ready = ShardsOpen /\ conf.uma /\ conf.arenas >= conf.bufs]
      BY <3>2 DEF RecordInv
    <3> QED
      BY <2>2, <3>1, <3>2 DEF DenseEnsured
  <2> QED
    BY <2>1, <2>3, <2>4, <2>5 DEF RecordInv, CreateInv, LoadedInv, LoneExpert
<1>3. CASE DropGraph \/ Compute
  BY <1>3 DEF DropGraph, Compute, RecordInv, CreateInv, LoadedInv, Weights,
              LoneExpert
<1>4. CASE FinalizeWithoutExperts
  BY <1>4 DEF FinalizeWithoutExperts, FirstRemap, FirstRemapFinalizes, RecordInv,
              CreateInv, LoadedInv, Weights, LoneExpert
<1>5. CASE FinalizeGivesUp
  BY <1>5 DEF FinalizeGivesUp, FirstRemap, FirstRemapFinalizes, ZeroSlotOutcomes, RecordInv,
              CreateInv, LoadedInv, Weights, LoneExpert
<1>6. CASE FinalizeSucceeds
  BY <1>6 DEF FinalizeSucceeds, FirstRemap, FirstRemapFinalizes, RecordInv,
              CreateInv, LoadedInv, Weights, LoneExpert
<1> QED
  BY <1>1, <1>2, <1>3, <1>4, <1>5, <1>6 DEF Next

LEMMA StepFacts == Facts /\ [Next]_vars => Facts'
BY SlabFacts, StubOrWholeFacts, LoadFacts, ServeFacts

\* A weight that load_all_data passes over was created as a slab or as a stub, or
\* else it is an expert weight of a single expert, for every model, file, machine
\* and setting.
THEOREM SkippedNotWhole == Spec => []SkippedIsReplaced
<1>1. Init => Facts
  BY InitRecord DEF Facts
<1>2. Facts => SkippedIsReplaced
  BY DEF Facts, LoadedInv, SkippedIsReplaced
<1> QED
  BY <1>1, <1>2, StepFacts, PTL DEF Spec
-----------------------------------------------------------------------------
(* What replaces the weights that were passed over.                        *)

Premise == OwnFile /\ DenseArenaPossible /\ EvenLayers

\* Where build_ffn will look for the arena it finds both tensors of a layer.
PairsInv ==
    phase # "create" => \A l \in Layers : Stubs(l) # {} =>
        ~Routed(l) /\ {1, 2} \subseteq {Weights[i].role : i \in Stubs(l)}

\* What a graph needs has been set up when it is executed.
EngineInv ==
    /\ engine.ready => engine.cache
    /\ engine.cache => engine.open
    /\ Allocated("slab") \cup Allocated("stub") # {} => engine.enabled
    /\ dense.done => dense.ready
    /\ phase \in {"built", "running"} =>
          /\ Allocated("stub") # {} => dense.ready /\ engine.open
          /\ \A l \in Layers : InSlab(l) =>
                graph.path[l] = "remap" \/ (graph.path[l] = "arena" /\ engine.cache)
    /\ (phase = "running" /\ Allocated("slab") # {}) => engine.cache
    /\ phase # "crashed" /\ wrong \subseteq LoneLayers

LEMMA OwnFileIsValid ==
  ASSUME Facts, Premise, phase # "create" PROVE ShardsOpen /\ ShardsValid
<1>1. conf \in Configs /\ conf.gguf = conf.model.shards /\ DOMAIN alloc = DOMAIN Weights
  BY DEF Facts, RecordInv, LoadedInv, Premise, OwnFile
<1> QED
  BY <1>1, ModelAssumption DEF ShardsOpen, ShardsValid, Allocated, Weights

LEMMA StubsComeInPairs ==
  ASSUME Facts, EvenLayers, phase = "create", DOMAIN alloc = DOMAIN Weights,
         NEW l \in Layers, Stubs(l) # {}
  PROVE  ~Routed(l) /\ {1, 2} \subseteq {Weights[i].role : i \in Stubs(l)}
<1>1. PICK i \in DOMAIN Weights : Weights[i].layer = l /\ alloc[i] = "stub"
  BY DEF Stubs, OfLayer, Allocated
<1>2. StreamedIn(Weights[i], dense)
  BY <1>1 DEF Facts, CreateInv
<1>3. conf \in Configs
  BY DEF Facts, RecordInv
<1>4. ~Routed(l)
  BY <1>1, <1>2, <1>3, ModelAssumption
     DEF StreamedIn, DenseWeight, Routed, OfLayer, Weights
<1>5. ASSUME NEW r \in {1, 2} PROVE \E j \in Stubs(l) : Weights[j].role = r
  <2>1. PICK j \in DOMAIN Weights :
            Weights[j].layer = l /\ Weights[j].kind = "ffn" /\ Weights[j].role = r
    BY <1>1, <1>2, <1>3, ModelAssumption DEF StreamedIn, DenseWeight, Weights
  <2>2. Weights[j].bytes >= MinBytes
    BY <1>1, <1>2, <2>1 DEF EvenLayers, OfLayer, StreamedIn, DenseWeight
  <2>3. StreamedIn(Weights[j], dense)
    BY <1>1, <1>2, <2>1, <2>2 DEF StreamedIn, DenseWeight
  <2> QED
    BY <2>1, <2>3 DEF Facts, CreateInv, Stubs, OfLayer, Allocated
<1> QED
  BY <1>4, <1>5

RealInv == Facts /\ (Premise => PairsInv /\ EngineInv)

LEMMA InitReal == Init => RealInv
<1> SUFFICES ASSUME Init PROVE RealInv
  OBVIOUS
<1>1. Facts
  BY InitRecord DEF Facts
<1> QED
  BY <1>1 DEF Init, RealInv, PairsInv, EngineInv, Allocated

\* One lemma per action: the premises are about conf, which no step changes.
LEMMA CreateReal ==
  ASSUME Facts, Facts', EngineInv, NEW i \in DOMAIN Weights,
         CreateSlab(i) \/ CreateStub(i) \/ CreateWhole(i)
  PROVE  PairsInv' /\ EngineInv'
<1>1. /\ phase = "create" /\ phase' = "create" /\ engine' = engine /\ wrong' = wrong
  BY DEF CreateSlab, CreateStub, CreateWhole, Creates
<1>2. ~engine.cache /\ ~engine.open /\ ~engine.ready /\ ~dense'.done
  BY <1>1 DEF Facts, CreateInv
<1>3. Allocated("slab")' \cup Allocated("stub")' # {} => engine'.enabled
  BY <1>1 DEF Allocated, Facts, CreateInv, StreamedIn
<1>4. LoneLayers' = LoneLayers
  BY DEF CreateSlab, CreateStub, CreateWhole, Creates, LoneLayers, LoneExpert, Weights
<1> QED
  BY <1>1, <1>2, <1>3, <1>4 DEF PairsInv, EngineInv

LEMMA LoadReal ==
  ASSUME Facts, Facts', EngineInv, Premise, LoadAllData
  PROVE  PairsInv' /\ EngineInv'
<1>1. /\ UNCHANGED <<conf, alloc, dense, engine, wrong>>
      /\ phase = "create" /\ phase' = "idle"
  BY DEF LoadAllData
<1>2. UNCHANGED <<Weights, Layers, LoneLayers>> /\ DOMAIN alloc = DOMAIN Weights
  BY <1>1 DEF Facts, LoadedInv, Weights, Layers, LoneLayers, LoneExpert
<1>3. \A l \in Layers : Stubs(l)' = Stubs(l) /\ (Routed(l)' <=> Routed(l))
  BY <1>1 DEF Stubs, Routed, OfLayer, Allocated, Weights
<1>4. PairsInv'
  BY <1>1, <1>2, <1>3, StubsComeInPairs DEF PairsInv, Premise
<1>5. EngineInv'
  BY <1>1, <1>2 DEF EngineInv, Allocated
<1> QED
  BY <1>4, <1>5

LEMMA BuildReal ==
  ASSUME Facts, Facts', EngineInv, PairsInv, Premise, NEW n \in 1 .. MaxBatch, BuildGraph(n)
  PROVE  PairsInv' /\ EngineInv'
<1>1. /\ UNCHANGED <<conf, alloc, loaded, wrong>> /\ phase = "idle"
      /\ engine' = [engine EXCEPT !.open = OpenAfterEnsure]
      /\ dense' = IF \E l \in Layers : ~Routed(l) THEN DenseEnsured ELSE dense
      /\ graph'.path = [l \in Layers |-> Path(l, n)]
      /\ phase' = IF \E l \in Layers : Stubs(l) # {} /\ ~Substituted(l, dense')
                    THEN "crashed" ELSE "built"
  BY DEF BuildGraph
<1>2. UNCHANGED <<Weights, Layers, Allocated("slab"), Allocated("stub"), LoneLayers>>
  BY <1>1 DEF Weights, Layers, Allocated, LoneLayers, LoneExpert
<1>3. \A l \in Layers : /\ Stubs(l)' = Stubs(l) /\ (Routed(l)' <=> Routed(l))
                        /\ InSlab(l)' <=> InSlab(l)
  BY <1>1 DEF Stubs, Routed, InSlab, OfLayer, Allocated, Weights
<1>4. PairsInv'
  BY <1>1, <1>2, <1>3 DEF PairsInv
<1>5. /\ engine'.enabled = engine.enabled /\ engine'.cache = engine.cache
      /\ engine'.ready = engine.ready /\ engine'.open = OpenAfterEnsure
  BY <1>1 DEF Facts, RecordInv
<1>6. ShardsOpen
  BY <1>1, OwnFileIsValid
<1>7. Allocated("stub") # {} => \E l \in Layers : Stubs(l) # {}
  BY <1>1 DEF Allocated, Stubs, OfLayer, Layers, Facts, LoadedInv, PairsInv
<1>8. Allocated("stub") # {} => engine'.open
  BY <1>5, <1>6 DEF OpenAfterEnsure, EngineInv
<1>9. /\ dense'.done => dense'.ready
      /\ Allocated("stub") # {} => dense'.ready
  <2>1. DenseEnsured.done => DenseEnsured.ready
    <3>1. [dense EXCEPT !.done = TRUE,
             !.ready = ShardsOpen /\ conf.uma /\ conf.arenas >= conf.bufs].ready
      BY <1>6 DEF Premise, DenseArenaPossible, Facts, RecordInv
    <3> QED
      BY <3>1 DEF DenseEnsured, EngineInv
  <2>2. Allocated("stub") # {} => DenseEnsured.ready
    <3>1. [dense EXCEPT !.done = TRUE,
             !.ready = ShardsOpen /\ conf.uma /\ conf.arenas >= conf.bufs].ready
      BY <1>6 DEF Premise, DenseArenaPossible, Facts, RecordInv
    <3> QED
      BY <3>1 DEF DenseEnsured, EngineInv
  <2>3. Allocated("stub") # {} => \E l \in Layers : ~Routed(l)
    BY <1>1, <1>7 DEF PairsInv
  <2> QED
    BY <1>1, <2>1, <2>2, <2>3 DEF EngineInv
<1>10. phase' = "built"
  <2> SUFFICES ASSUME NEW l \in Layers, Stubs(l) # {} PROVE Substituted(l, dense')
    BY <1>1
  <2>1. Allocated("stub") # {}
    BY DEF Stubs
  <2> QED
    BY <1>1, <1>9, <2>1 DEF Substituted, EngineInv, PairsInv
<1>11. \A l \in Layers : InSlab(l) =>
          Path(l, n) = "remap" \/ (Path(l, n) = "arena" /\ engine.cache)
  <2> SUFFICES ASSUME NEW l \in Layers, InSlab(l)
               PROVE  Path(l, n) = "remap" \/ (Path(l, n) = "arena" /\ engine.cache)
    OBVIOUS
  <2>1. Routed(l)
    BY <1>1 DEF InSlab, OfLayer, Allocated, Routed, Facts, LoadedInv, ExpertWeight
  <2>2. engine.enabled
    BY DEF EngineInv, InSlab
  <2> QED
    BY <2>1, <2>2 DEF Path, EngineInv
<1>12. EngineInv'
  BY <1>1, <1>2, <1>3, <1>5, <1>8, <1>9, <1>10, <1>11 DEF EngineInv, OpenAfterEnsure
<1> QED
  BY <1>4, <1>12

LEMMA FinalizeReal ==
  ASSUME Facts, Facts', EngineInv, PairsInv, Premise,
         FinalizeWithoutExperts \/ FinalizeGivesUp \/ FinalizeSucceeds
  PROVE  PairsInv' /\ EngineInv'
<1>1. /\ UNCHANGED <<conf, alloc, loaded, dense, graph, wrong>>
      /\ phase = "built" /\ engine.enabled /\ ~engine.cache
  BY DEF FinalizeWithoutExperts, FinalizeGivesUp, FinalizeSucceeds, FirstRemap,
         FirstRemapFinalizes
<1>2. UNCHANGED <<Weights, Layers, Allocated("slab"), Allocated("stub"), LoneLayers>>
  BY <1>1 DEF Weights, Layers, Allocated, LoneLayers, LoneExpert
<1>3. \A l \in Layers : /\ Stubs(l)' = Stubs(l) /\ (Routed(l)' <=> Routed(l))
                        /\ InSlab(l)' <=> InSlab(l)
  BY <1>1 DEF Stubs, Routed, InSlab, OfLayer, Allocated, Weights
<1>4. ShardsOpen /\ ShardsValid
  BY <1>1, OwnFileIsValid
<1>5. phase' = "running"
  BY <1>4 DEF FinalizeWithoutExperts, FinalizeGivesUp, FinalizeSucceeds
<1>6. PairsInv'
  BY <1>1, <1>2, <1>3, <1>5 DEF PairsInv
<1>7. CASE FinalizeWithoutExperts
  <2>1. /\ engine' = [engine EXCEPT !.enabled = dense.ready]
        /\ Allocated("slab") = {}
    BY <1>7 DEF FinalizeWithoutExperts
  <2>2. /\ engine'.enabled = dense.ready /\ engine'.cache = engine.cache
        /\ engine'.open = engine.open /\ engine'.ready = engine.ready
    BY <2>1 DEF Facts, RecordInv
  <2>3. \A l \in Layers : ~InSlab(l)
    BY <2>1 DEF InSlab
  <2> QED
    BY <1>1, <1>2, <1>3, <1>5, <1>6, <2>1, <2>2, <2>3 DEF EngineInv
<1>8. CASE FinalizeSucceeds
  <2>1. /\ engine'.enabled = engine.enabled /\ engine'.cache /\ engine'.open
    BY <1>8 DEF FinalizeSucceeds, Facts, RecordInv
  <2> QED
    BY <1>1, <1>2, <1>3, <1>5, <1>6, <2>1 DEF EngineInv
<1> QED
  BY <1>4, <1>7, <1>8 DEF FinalizeGivesUp

LEMMA ComputeReal ==
  ASSUME Facts, Facts', EngineInv, PairsInv, Premise, Compute
  PROVE  PairsInv' /\ EngineInv'
<1>1. /\ UNCHANGED <<conf, alloc, loaded, dense, engine, graph>>
      /\ phase \in {"built", "running"} /\ phase' = "idle"
      /\ phase = "built" => ~FirstRemapFinalizes
      /\ wrong' = {l \in Layers : \E i \in OfLayer(l) : ~RightWeight(l, i)}
  BY DEF Compute
<1>2. UNCHANGED <<Weights, Layers, Allocated("slab"), Allocated("stub"), LoneLayers>>
  BY <1>1 DEF Weights, Layers, Allocated, LoneLayers, LoneExpert
<1>3. \A l \in Layers : Stubs(l)' = Stubs(l) /\ (Routed(l)' <=> Routed(l))
  BY <1>1 DEF Stubs, Routed, InSlab, OfLayer, Allocated, Weights
<1>4. ASSUME NEW l \in Layers, NEW i \in OfLayer(l)
      PROVE  RightWeight(l, i) \/ l \in LoneLayers
  <2>1. i \in DOMAIN Weights /\ i \in DOMAIN alloc /\ alloc[i] \in How
    BY <1>1 DEF OfLayer, Facts, RecordInv, LoadedInv
  <2>2. engine.open => StreamsRightBytes
    BY DEF StreamsRightBytes, Premise, OwnFile
  <2>3. CASE alloc[i] = "whole"
    BY <1>1, <2>1, <2>3 DEF RightWeight, Facts, LoadedInv, LoneLayers, OfLayer
  <2>4. CASE alloc[i] = "stub"
    BY <1>1, <2>1, <2>2, <2>4 DEF RightWeight, EngineInv, Allocated
  <2>5. CASE alloc[i] = "slab"
    <3>1. InSlab(l) /\ Allocated("slab") # {} /\ engine.enabled
      BY <2>1, <2>5 DEF InSlab, Allocated, EngineInv
    <3>2. graph.path[l] = "remap" => engine.cache
      BY <1>1, <3>1 DEF EngineInv, FirstRemapFinalizes
    <3>3. engine.cache /\ graph.path[l] \in {"remap", "arena"} /\ StreamsRightBytes
      BY <1>1, <2>2, <3>1, <3>2 DEF EngineInv
    <3> QED
      BY <2>5, <3>1, <3>3 DEF RightWeight
  <2> QED
    BY <2>1, <2>3, <2>4, <2>5 DEF How
<1>5. wrong' \subseteq LoneLayers
  BY <1>1, <1>4
<1> QED
  BY <1>1, <1>2, <1>3, <1>5 DEF PairsInv, EngineInv

LEMMA StepReal == RealInv /\ [Next]_vars => RealInv'
<1> SUFFICES ASSUME RealInv, [Next]_vars PROVE RealInv'
  OBVIOUS
<1>1. Facts /\ Facts'
  BY StepFacts DEF RealInv
<1>2. SUFFICES ASSUME Premise' PROVE PairsInv' /\ EngineInv'
  BY <1>1 DEF RealInv
<1>3. conf' = conf
  BY DEF Next, vars, CreateSlab, CreateStub, CreateWhole, Creates, LoadAllData, BuildGraph,
         DropGraph, FinalizeWithoutExperts, FinalizeGivesUp, FinalizeSucceeds, FirstRemap,
         Compute
<1>4. Premise /\ PairsInv /\ EngineInv
  BY <1>2, <1>3 DEF RealInv, Premise, OwnFile, DenseArenaPossible, EvenLayers, Layers,
                    OfLayer, Weights
<1>5. CASE DropGraph \/ UNCHANGED vars
  BY <1>4, <1>5 DEF DropGraph, vars, PairsInv, EngineInv, Layers, Stubs, Routed, InSlab,
                    OfLayer, LoneLayers, LoneExpert, Allocated, Weights
<1> QED
  BY <1>1, <1>4, <1>5, CreateReal, LoadReal, BuildReal, FinalizeReal, ComputeReal DEF Next

\* Every graph multiplies with the model's own weights, as WeightsAreReal says it,
\* for every model, machine and setting.
THEOREM EveryWeightIsReal == Spec => []WeightsAreReal
<1>1. RealInv => WeightsAreReal
  BY DEF RealInv, Premise, EngineInv, WeightsAreReal
<1> QED
  BY <1>1, InitReal, StepReal, PTL DEF Spec
-----------------------------------------------------------------------------
(* Numbers.                                                                *)

LEMMA CountUpTo ==
  ASSUME NEW n \in Nat, NEW T, 0 \in T,
         \A i \in 0 .. n - 1 : i \in T => i + 1 \in T
  PROVE  n \in T
<1> DEFINE Out == {i \in 0 .. n : i \notin T}
<1> SUFFICES ASSUME n \notin T PROVE FALSE
  OBVIOUS
<1>1. Out \in SUBSET Nat /\ Out # {}
  OBVIOUS
<1>2. PICK i \in Out : \A j \in Out : <<j, i>> \notin OpToRel(<, Nat)
  <2> HIDE DEF OpToRel, Out
  <2> QED
    BY <1>1, NatLessThanWellFounded, WFMin
<1>3. i - 1 \in 0 .. n - 1 /\ (i - 1) + 1 = i
  <2>1. i \in 0 .. n /\ i # 0
    OBVIOUS
  <2> QED
    BY <2>1
<1>4. i - 1 \notin Out
  <2>1. <<i - 1, i>> \in OpToRel(<, Nat)
    BY <1>3 DEF OpToRel
  <2> QED
    BY <1>2, <2>1
<1>5. i - 1 \in T
  BY <1>3, <1>4
<1>6. i \in T
  BY <1>3, <1>5
<1> QED
  BY <1>6

LEMMA MaxOfTwo ==
  ASSUME NEW a \in Int, NEW b \in Int
  PROVE  Max({a, b}) = IF a >= b THEN a ELSE b
<1> DEFINE m == IF a >= b THEN a ELSE b
<1>1. m \in {a, b} /\ \A y \in {a, b} : m >= y
  OBVIOUS
<1>2. \A x \in {a, b} : (\A y \in {a, b} : x >= y) => x = m
  OBVIOUS
<1> QED
  BY <1>1, <1>2 DEF Max

LEMMA MinOfTwo ==
  ASSUME NEW a \in Int, NEW b \in Int
  PROVE  Min({a, b}) = IF a <= b THEN a ELSE b
<1> DEFINE m == IF a <= b THEN a ELSE b
<1>1. m \in {a, b} /\ \A y \in {a, b} : m <= y
  OBVIOUS
<1>2. \A x \in {a, b} : (\A y \in {a, b} : x <= y) => x = m
  OBVIOUS
<1> QED
  BY <1>1, <1>2 DEF Min

LEMMA MaxIsMember ==
  ASSUME NEW m \in Nat, NEW S \in SUBSET (0 .. m), S # {}
  PROVE  Max(S) \in S
<1> DEFINE T == {i \in 0 .. m : \A x \in S : x <= m - i}
<1>1. \E x \in S : \A y \in S : x >= y
  <2> SUFFICES ASSUME ~ \E x \in S : \A y \in S : x >= y PROVE FALSE
    OBVIOUS
  <2>1. 0 \in T
    OBVIOUS
  <2>2. ASSUME NEW i \in 0 .. m - 1, i \in T PROVE i + 1 \in T
    <3>1. \A x \in S : x \in Int /\ x <= m - i
      BY <2>2
    <3>2. m - i \notin S
      BY <3>1
    <3>3. \A x \in S : x <= m - (i + 1)
      BY <3>1, <3>2
    <3> QED
      BY <3>3
  <2> HIDE DEF T
  <2>3. m \in T
    BY <2>1, <2>2, CountUpTo
  <2>4. \A x \in S : x = 0
    BY <2>3 DEF T
  <2>5. PICK x \in S : TRUE
    OBVIOUS
  <2>6. \A y \in S : x >= y
    BY <2>4, <2>5
  <2> QED
    BY <2>5, <2>6
<1> QED
  BY <1>1 DEF Max

LEMMA ProductGrows ==
  ASSUME NEW a \in Int, NEW b \in Int, NEW p \in Nat, a <= b
  PROVE  a * p <= b * p
OBVIOUS

LEMMA DivBounds ==
  ASSUME NEW a \in Int, NEW b \in Nat \ {0}
  PROVE  a \div b \in Int /\ b * (a \div b) <= a /\ a < b * (a \div b) + b
OBVIOUS

LEMMA DivIsGreatest ==
  ASSUME NEW a \in Int, NEW b \in Nat \ {0}, NEW x \in Int, b * x <= a
  PROVE  x <= a \div b
<1> DEFINE q == a \div b
<1>1. q \in Int /\ a < b * q + b
  BY DivBounds
<1> HIDE DEF q
<1>2. CASE x >= q + 1
  <2>1. (q + 1) * b <= x * b
    BY <1>1, <1>2, ProductGrows
  <2>2. (q + 1) * b = b * q + b /\ x * b = b * x /\ b * q \in Int /\ b * x \in Int
    BY <1>1
  <2> QED
    BY <1>1, <2>1, <2>2
<1>3. CASE ~ (x >= q + 1)
  BY <1>1, <1>3 DEF q
<1> QED
  BY <1>2, <1>3
-----------------------------------------------------------------------------
(* The expected union.                                                     *)

Grown(nExpert, k, u) == u + (k * (1000 * nExpert - u)) \div nExpert

LEMMA GrownMonotone ==
  ASSUME NEW E \in Nat \ {0}, NEW a \in 0 .. E, NEW b \in a .. E,
         NEW u \in 0 .. 1000 * E, NEW v \in u .. 1000 * E
  PROVE  Grown(E, a, u) <= Grown(E, b, v)
<1> DEFINE ru == 1000 * E - u
           rv == 1000 * E - v
           d == v - u
           p == (a * ru) \div E
<1>1. ru \in Nat /\ rv \in Nat /\ d \in Nat /\ rv = ru - d /\ v = u + d
  OBVIOUS
<1>2. a \in Nat /\ b \in Nat /\ a <= b /\ b <= E /\ u \in Int
  OBVIOUS
<1>3. a * ru \in Int /\ b * rv \in Int
  BY <1>1, <1>2
<1>4. p \in Int /\ E * p <= a * ru
  BY <1>3, DivBounds
<1>5. Grown(E, a, u) = u + p /\ Grown(E, b, v) = v + (b * rv) \div E
  BY DEF Grown
<1> HIDE DEF ru, rv, d, p
<1>6. a * ru <= b * ru
  BY <1>1, <1>2, ProductGrows
<1>7. b * d <= E * d
  BY <1>1, <1>2, ProductGrows
<1>8. b * rv = b * ru - b * d
  BY <1>1, <1>2
<1>9. E * (p - d) = E * p - E * d
  BY <1>1, <1>4
<1>10. E * (p - d) <= b * rv
  <2>1. /\ E * p \in Int /\ E * d \in Int /\ b * ru \in Int /\ b * d \in Int
        /\ a * ru \in Int
    BY <1>1, <1>2, <1>4
  <2> QED
    BY <1>4, <1>6, <1>7, <1>8, <1>9, <2>1
<1>11. p - d <= (b * rv) \div E
  BY <1>1, <1>3, <1>4, <1>10, DivIsGreatest
<1>12. (b * rv) \div E \in Int
  BY <1>3, DivBounds
<1> QED
  BY <1>1, <1>2, <1>4, <1>5, <1>11, <1>12

LEMMA GrownBounds ==
  ASSUME NEW E \in Nat \ {0}, NEW a \in 0 .. E, NEW u \in 0 .. 1000 * E
  PROVE  Grown(E, a, u) \in u .. 1000 * E
<1> DEFINE r == 1000 * E - u
           q == (a * r) \div E
<1>1. r \in Nat /\ a \in Nat /\ a <= E /\ u \in Nat /\ u + r = 1000 * E
  OBVIOUS
<1>2. a * r \in Int /\ a * r >= 0 /\ a * r <= E * r
  <2>1. 0 * r <= a * r /\ a * r <= E * r
    BY <1>1, ProductGrows
  <2> HIDE DEF r
  <2> QED
    BY <1>1, <2>1
<1>3. q \in Int /\ E * q <= a * r
  BY <1>2, DivBounds
<1>4. 0 <= q
  BY <1>2, DivIsGreatest
<1>5. Grown(E, a, u) = u + q
  BY DEF Grown
<1> HIDE DEF q, r
<1>6. q <= r
  <2> SUFFICES ASSUME q >= r + 1 PROVE FALSE
    BY <1>1, <1>3
  <2>1. (r + 1) * E <= q * E
    BY <1>1, <1>3, ProductGrows
  <2>2. (r + 1) * E = E * r + E /\ q * E = E * q /\ E * r \in Int /\ E * q \in Int
    BY <1>1, <1>3
  <2> QED
    BY <1>2, <1>3, <2>1, <2>2
<1> QED
  BY <1>1, <1>3, <1>4, <1>5, <1>6

\* u lists the expected unions of 0 to n tokens.
Unions(E, a, n, u) ==
    /\ u \in [0 .. n -> 0 .. 1000 * E] /\ u[0] = 0
    /\ \A k \in 1 .. n : u[k] = Grown(E, a, u[k - 1])

LEMMA UnionsExtend ==
  ASSUME NEW E \in Nat \ {0}, NEW a \in 0 .. E, NEW n \in Nat, NEW u
  PROVE  Unions(E, a, n, u) => \E v : Unions(E, a, n + 1, v)
<1>0. \A x \in 0 .. 1000 * E : Grown(E, a, x) \in x .. 1000 * E
  BY GrownBounds
<1> HAVE Unions(E, a, n, u)
<1> DEFINE v == [i \in 0 .. n + 1 |-> IF i = n + 1 THEN Grown(E, a, u[n]) ELSE u[i]]
<1>1. \A i \in 0 .. n : u[i] \in 0 .. 1000 * E
  BY DEF Unions
<1>2. Grown(E, a, u[n]) \in 0 .. 1000 * E
  <2>1. u[n] \in 0 .. 1000 * E
    BY <1>1
  <2> QED
    BY <1>0, <2>1
<1>3. v \in [0 .. n + 1 -> 0 .. 1000 * E]
  <2> SUFFICES ASSUME NEW i \in 0 .. n + 1
               PROVE  (IF i = n + 1 THEN Grown(E, a, u[n]) ELSE u[i]) \in 0 .. 1000 * E
    OBVIOUS
  <2>1. CASE i = n + 1
    BY <1>2, <2>1
  <2>2. CASE i # n + 1
    <3>1. i \in 0 .. n
      BY <2>2
    <3> QED
      BY <1>1, <2>2, <3>1
  <2> QED
    BY <2>1, <2>2
<1>4. v[0] = 0
  BY DEF Unions
<1>5. ASSUME NEW k \in 1 .. n + 1 PROVE v[k] = Grown(E, a, v[k - 1])
  <2>1. k - 1 \in 0 .. n + 1 /\ k - 1 # n + 1 /\ k \in 0 .. n + 1
    OBVIOUS
  <2>2. v[k - 1] = u[k - 1]
    BY <2>1
  <2>3. CASE k = n + 1
    <3>1. v[k] = Grown(E, a, u[n]) /\ k - 1 = n
      BY <2>1, <2>3
    <3> HIDE DEF v
    <3> QED
      BY <2>2, <3>1
  <2>4. CASE k # n + 1
    <3>1. v[k] = u[k] /\ k \in 1 .. n
      BY <2>1, <2>4
    <3>2. u[k] = Grown(E, a, u[k - 1])
      BY <3>1 DEF Unions
    <3> HIDE DEF v
    <3> QED
      BY <2>2, <3>1, <3>2
  <2> QED
    BY <2>3, <2>4
<1> HIDE DEF v
<1>6. \A k \in 1 .. n + 1 : v[k] = Grown(E, a, v[k - 1])
  BY <1>5
<1>7. Unions(E, a, n + 1, v)
  BY <1>3, <1>4, <1>6 DEF Unions
<1> QED
  BY <1>7

LEMMA UnionsExist ==
  ASSUME NEW E \in Nat \ {0}, NEW a \in 0 .. E, NEW n \in Nat
  PROVE  \E u : Unions(E, a, n, u)
<1> DEFINE T == {k \in Nat : \E u : Unions(E, a, k, u)}
<1>1. 0 \in T
  <2>1. Unions(E, a, 0, [i \in 0 .. 0 |-> 0])
    BY DEF Unions
  <2> QED
    BY <2>1
<1>2. ASSUME NEW k \in 0 .. n - 1, k \in T PROVE k + 1 \in T
  BY <1>2, UnionsExtend
<1> HIDE DEF T
<1>3. n \in T
  BY <1>1, <1>2, CountUpTo
<1> QED
  BY <1>3 DEF T

LEMMA UnionIsExpected ==
  ASSUME NEW E \in Nat \ {0}, NEW a \in 0 .. E, NEW n \in Nat, NEW u, Unions(E, a, n, u)
  PROVE  ExpectedUnion(E, a, n) = u[n]
<1> DEFINE IsUnion(w) ==
      w = [k \in 0 .. n |->
             IF k = 0 THEN 0
             ELSE w[k - 1] + (a * (1000 * E - w[k - 1])) \div E]
           w == CHOOSE x : IsUnion(x)
<1>1. IsUnion(u)
  BY DEF Unions, Grown
<1>2. IsUnion(w)
  <2>1. \E x : IsUnion(x)
    BY <1>1
  <2> HIDE DEF IsUnion
  <2> QED
    BY <2>1
<1>3. ExpectedUnion(E, a, n) = w[n]
  BY DEF ExpectedUnion
<1> HIDE DEF w
<1>4. w[0] = 0 /\ \A k \in 1 .. n : w[k] = Grown(E, a, w[k - 1])
  <2>1. w[0] = 0
    BY <1>2
  <2>2. ASSUME NEW k \in 1 .. n PROVE w[k] = Grown(E, a, w[k - 1])
    <3>1. k \in 0 .. n /\ k # 0
      OBVIOUS
    <3> QED
      BY <1>2, <3>1 DEF Grown
  <2> QED
    BY <2>1, <2>2
<1> HIDE DEF IsUnion
<1> DEFINE T == {k \in 0 .. n : w[k] = u[k]}
<1>5. 0 \in T
  BY <1>4 DEF Unions
<1>6. ASSUME NEW k \in 0 .. n - 1, k \in T PROVE k + 1 \in T
  <2>1. k + 1 \in 1 .. n /\ (k + 1) - 1 = k /\ w[k] = u[k]
    BY <1>6
  <2>2. w[k + 1] = Grown(E, a, w[k])
    BY <1>4, <2>1
  <2>3. u[k + 1] = Grown(E, a, u[k])
    BY <2>1 DEF Unions
  <2> QED
    BY <2>1, <2>2, <2>3
<1> HIDE DEF T
<1>7. n \in T
  BY <1>5, <1>6, CountUpTo
<1> QED
  BY <1>3, <1>7 DEF T

LEMMA UnionFacts ==
  ASSUME NEW E \in Nat \ {0}, NEW a \in 0 .. E, NEW n \in Nat
  PROVE  /\ ExpectedUnion(E, a, n) \in 0 .. 1000 * E
         /\ ExpectedUnion(E, a, n) <= ExpectedUnion(E, a, n + 1)
         /\ ExpectedUnion(E, a, 1) = 1000 * a
<1>0. \A x \in 0 .. 1000 * E : Grown(E, a, x) \in x .. 1000 * E
  BY GrownBounds
<1>1. PICK u : Unions(E, a, n + 1, u)
  BY UnionsExist
<1>2. ExpectedUnion(E, a, n + 1) = u[n + 1]
  BY <1>1, UnionIsExpected
<1>3. ExpectedUnion(E, a, n) = u[n]
  <2> DEFINE v == [i \in 0 .. n |-> u[i]]
  <2>1. Unions(E, a, n, v)
    <3>1. v \in [0 .. n -> 0 .. 1000 * E] /\ v[0] = 0
      BY <1>1 DEF Unions
    <3>2. ASSUME NEW k \in 1 .. n PROVE v[k] = Grown(E, a, v[k - 1])
      <4>1. k \in 1 .. n + 1 /\ k \in 0 .. n /\ k - 1 \in 0 .. n
        OBVIOUS
      <4>2. u[k] = Grown(E, a, u[k - 1])
        BY <1>1, <4>1 DEF Unions
      <4>3. v[k] = u[k] /\ v[k - 1] = u[k - 1]
        BY <4>1
      <4> HIDE DEF v
      <4> QED
        BY <4>2, <4>3
    <3> HIDE DEF v
    <3> QED
      BY <3>1, <3>2 DEF Unions
  <2>2. v[n] = u[n]
    OBVIOUS
  <2> HIDE DEF v
  <2> QED
    BY <2>1, <2>2, UnionIsExpected
<1>4. u[n] \in 0 .. 1000 * E /\ u[n + 1] \in u[n] .. 1000 * E
  <2>1. u[n] \in 0 .. 1000 * E /\ u[n + 1] = Grown(E, a, u[n])
    <3>1. n \in 0 .. n + 1 /\ n + 1 \in 1 .. n + 1 /\ (n + 1) - 1 = n
      OBVIOUS
    <3> QED
      BY <1>1, <3>1 DEF Unions
  <2> QED
    BY <1>0, <2>1
<1>5. ExpectedUnion(E, a, 1) = 1000 * a
  <2>1. PICK w : Unions(E, a, 1, w)
    BY UnionsExist
  <2>2. ExpectedUnion(E, a, 1) = w[1]
    BY <2>1, UnionIsExpected
  <2>3. w[1] = Grown(E, a, 0)
    <3>1. w[0] = 0 /\ 1 \in 1 .. 1 /\ 1 - 1 = 0
      BY <2>1 DEF Unions
    <3> QED
      BY <2>1, <3>1 DEF Unions
  <2>4. Grown(E, a, 0) = (a * (1000 * E)) \div E
    BY DivBounds DEF Grown
  <2>5. (a * (1000 * E)) \div E = 1000 * a
    <3> DEFINE q == (a * (1000 * E)) \div E
    <3>1. a * (1000 * E) = E * (1000 * a) /\ a * (1000 * E) \in Int
      OBVIOUS
    <3>2. q \in Int /\ E * q <= a * (1000 * E) /\ 1000 * a <= q
      BY <3>1, DivBounds, DivIsGreatest
    <3> HIDE DEF q
    <3>3. q <= 1000 * a
      <4> SUFFICES ASSUME q >= 1000 * a + 1 PROVE FALSE
        BY <3>2
      <4>1. (1000 * a + 1) * E <= q * E
        BY <3>2, ProductGrows
      <4>2. /\ (1000 * a + 1) * E = E * (1000 * a) + E /\ q * E = E * q
            /\ E * (1000 * a) \in Int /\ E * q \in Int
        BY <3>2
      <4> QED
        BY <3>1, <3>2, <4>1, <4>2
    <3> QED
      BY <3>2, <3>3 DEF q
  <2> QED
    BY <2>2, <2>3, <2>4, <2>5
<1> QED
  BY <1>2, <1>3, <1>4, <1>5

LEMMA UnionIsNat ==
  ASSUME NEW E \in Nat \ {0}
  PROVE  \A a \in 0 .. E, n \in Nat : ExpectedUnion(E, a, n) \in Nat
<1> SUFFICES ASSUME NEW a \in 0 .. E, NEW n \in Nat PROVE ExpectedUnion(E, a, n) \in Nat
  OBVIOUS
<1>1. ExpectedUnion(E, a, n) \in 0 .. 1000 * E
  BY UnionFacts
<1> QED
  BY <1>1

LEMMA UnionInTopK ==
  ASSUME NEW E \in Nat \ {0}, NEW a \in 0 .. E, NEW b \in a .. E, NEW n \in Nat
  PROVE  ExpectedUnion(E, a, n) <= ExpectedUnion(E, b, n)
<1>1. \A x \in 0 .. 1000 * E : \A y \in x .. 1000 * E : Grown(E, a, x) <= Grown(E, b, y)
  BY GrownMonotone
<1>2. b \in 0 .. E
  OBVIOUS
<1>3. PICK u : Unions(E, a, n, u)
  BY UnionsExist
<1>4. PICK w : Unions(E, b, n, w)
  BY <1>2, UnionsExist
<1>5. ExpectedUnion(E, a, n) = u[n] /\ ExpectedUnion(E, b, n) = w[n]
  BY <1>2, <1>3, <1>4, UnionIsExpected
<1> DEFINE T == {k \in 0 .. n : u[k] <= w[k]}
<1>6. 0 \in T
  BY <1>3, <1>4 DEF Unions
<1>7. ASSUME NEW k \in 0 .. n - 1, k \in T PROVE k + 1 \in T
  <2>1. k \in 0 .. n /\ k + 1 \in 0 .. n /\ k + 1 \in 1 .. n /\ (k + 1) - 1 = k
    OBVIOUS
  <2>2. u[k] \in 0 .. 1000 * E /\ w[k] \in 0 .. 1000 * E /\ u[k] <= w[k]
    BY <1>3, <1>4, <1>7, <2>1 DEF Unions
  <2>3. w[k] \in u[k] .. 1000 * E
    BY <2>2
  <2>4. u[k + 1] = Grown(E, a, u[k]) /\ w[k + 1] = Grown(E, b, w[k])
    BY <1>3, <1>4, <2>1 DEF Unions
  <2>5. u[k + 1] <= w[k + 1]
    BY <1>1, <2>2, <2>3, <2>4
  <2> QED
    BY <2>1, <2>5
<1> HIDE DEF T
<1>8. n \in T
  BY <1>6, <1>7, CountUpTo
<1> QED
  BY <1>5, <1>8 DEF T

LEMMA UnionInTokens ==
  ASSUME NEW E \in Nat \ {0}, NEW a \in 0 .. E, NEW n \in Nat, NEW d \in Nat
  PROVE  ExpectedUnion(E, a, n) <= ExpectedUnion(E, a, n + d)
<1> DEFINE T == {k \in Nat : ExpectedUnion(E, a, n) <= ExpectedUnion(E, a, n + k)}
<1>0. \A m \in Nat : /\ ExpectedUnion(E, a, m) \in Int
                     /\ ExpectedUnion(E, a, m) <= ExpectedUnion(E, a, m + 1)
  BY UnionFacts
<1>1. 0 \in T
  <2>1. ExpectedUnion(E, a, n) \in 0 .. 1000 * E /\ n + 0 = n
    BY UnionFacts
  <2> QED
    BY <2>1
<1>2. ASSUME NEW k \in 0 .. d - 1, k \in T PROVE k + 1 \in T
  <2>1. k \in Nat /\ n + k \in Nat /\ n + (k + 1) = (n + k) + 1 /\ k + 1 \in Nat
    OBVIOUS
  <2>2. /\ ExpectedUnion(E, a, n) \in Int
        /\ ExpectedUnion(E, a, n + k) \in Int
        /\ ExpectedUnion(E, a, (n + k) + 1) \in Int
        /\ ExpectedUnion(E, a, n + k) <= ExpectedUnion(E, a, (n + k) + 1)
    BY <1>0, <2>1
  <2>3. ExpectedUnion(E, a, n) <= ExpectedUnion(E, a, n + k)
    BY <1>2
  <2>4. ExpectedUnion(E, a, n) <= ExpectedUnion(E, a, (n + k) + 1)
    BY <2>2, <2>3
  <2> QED
    BY <2>1, <2>4
<1> HIDE DEF T
<1>3. d \in T
  BY <1>1, <1>2, CountUpTo
<1> QED
  BY <1>3 DEF T
-----------------------------------------------------------------------------
(* The size of the slab.                                                   *)

\* What slab_slots makes of an expected union x and a size that was asked for.
Needed(nExpert, k, x) == Min({nExpert, (115 * x) \div 100000 + k})
Sized(nExpert, need, wanted) == Max({8, Min({nExpert, Max({wanted, need})})})

LEMMA NeededBounds ==
  ASSUME NEW E \in Nat \ {0}, NEW k \in 1 .. E, NEW x \in 0 .. 1000 * E
  PROVE  /\ Needed(E, k, x) \in 1 .. E
         /\ x <= 1000 * Needed(E, k, x)
         /\ x >= 1000 * k => Needed(E, k, x) = E \/ 2 * k <= Needed(E, k, x)
<1> DEFINE q == (115 * x) \div 100000
<1>1. q \in Int /\ 100000 * q <= 115 * x /\ 115 * x < 100000 * q + 100000
  OBVIOUS
<1>2. Needed(E, k, x) = IF E <= q + k THEN E ELSE q + k
  BY <1>1, MinOfTwo DEF Needed
<1> HIDE DEF q
<1>3. q >= 0
  BY <1>1
<1>4. x <= 1000 * (q + k)
  BY <1>1
<1>5. x >= 1000 * k => q >= k
  BY <1>1
<1> QED
  BY <1>1, <1>2, <1>3, <1>4, <1>5

LEMMA SizedBounds ==
  ASSUME NEW E \in Nat \ {0}, NEW need \in 1 .. E, NEW wanted \in Int
  PROVE  /\ Sized(E, need, wanted) \in Nat /\ Sized(E, need, wanted) >= 8
         /\ need <= Sized(E, need, wanted)
         /\ \/ Sized(E, need, wanted) = Max({8, need})
            \/ Sized(E, need, wanted) <= wanted
<1> DEFINE m == IF wanted >= need THEN wanted ELSE need
           c == IF E <= m THEN E ELSE m
<1>1. m \in Int /\ Max({wanted, need}) = m
  BY MaxOfTwo
<1>2. c \in Int /\ Min({E, m}) = c
  BY <1>1, MinOfTwo
<1>3. Max({8, c}) = (IF 8 >= c THEN 8 ELSE c) /\ Max({8, need}) = (IF 8 >= need THEN 8 ELSE need)
  BY <1>2, MaxOfTwo
<1>4. Sized(E, need, wanted) = IF 8 >= c THEN 8 ELSE c
  BY <1>1, <1>2, <1>3 DEF Sized
<1> QED
  BY <1>3, <1>4

LEMMA TwoTokensFit ==
  ASSUME NEW E \in Nat, NEW k \in Nat, NEW n \in 1 .. 2, NEW s \in Nat,
         E <= s \/ 2 * k <= s
  PROVE  Min({E, n * k}) <= s
<1> DEFINE p == n * k
<1>1. p \in Int /\ p <= 2 * k
  BY n = 1 \/ n = 2
<1> HIDE DEF p
<1>2. Min({E, p}) = IF E <= p THEN E ELSE p
  BY <1>1, MinOfTwo
<1>3. Min({E, p}) <= s
  BY <1>1, <1>2
<1> QED
  BY <1>3 DEF p

\* The same of SlabSlots.
LEMMA SlotsBounds ==
  ASSUME conf \in Configs, NEW E \in Nat \ {0}, SlabTopK \in 1 .. E, MaxUbatch \in Nat
  PROVE  /\ SlotsWanted(E) \in Int
         /\ Need(E) = Needed(E, SlabTopK, ExpectedUnion(E, SlabTopK, MaxUbatch))
         /\ SlabSlots(E) = Sized(E, Need(E), SlotsWanted(E))
         /\ Need(E) \in 1 .. E
         /\ ExpectedUnion(E, SlabTopK, MaxUbatch) <= 1000 * Need(E)
         /\ MaxUbatch >= 1 => Need(E) = E \/ 2 * SlabTopK <= Need(E)
<1> DEFINE v == conf.frac.value
           per == BytesPerSlot(conf.gguf)
           k == SlabTopK
           x == ExpectedUnion(E, k, MaxUbatch)
<1>1. v \in Nat /\ per \in Nat
  BY ExpertAssumption
<1>2. SlotsWanted(E) \in Int
  <2> HIDE DEF v, per
  <2>1. (2 * E * v + 100) \div 200 \in Int /\ (2 * E * 38 + 100) \div 200 \in Int
    BY <1>1
  <2>2. per # 0 => Min({E, Max({1, v \div per})}) \in Int
    <3> SUFFICES ASSUME per # 0 PROVE Min({E, Max({1, v \div per})}) \in Int
      OBVIOUS
    <3>1. v \div per \in Int
      BY <1>1, DivBounds
    <3>2. Max({1, v \div per}) \in Int
      BY <3>1, MaxOfTwo
    <3> QED
      BY <3>2, MinOfTwo
  <2> QED
    BY <2>1, <2>2 DEF SlotsWanted, v, per
<1>3. Need(E) = Needed(E, k, x)
  BY DEF Need, Needed
<1>4. SlabSlots(E) = Sized(E, Need(E), SlotsWanted(E))
  BY DEF SlabSlots, Sized
<1>5. k \in 0 .. E
  OBVIOUS
<1>6. x \in 0 .. 1000 * E
  BY <1>5, UnionFacts
<1>7. MaxUbatch >= 1 => x >= 1000 * k
  <2> SUFFICES ASSUME MaxUbatch >= 1 PROVE x >= 1000 * k
    OBVIOUS
  <2>1. MaxUbatch - 1 \in Nat /\ 1 + (MaxUbatch - 1) = MaxUbatch
    OBVIOUS
  <2>2. ExpectedUnion(E, k, 1) = 1000 * k
    BY <1>5, UnionFacts
  <2>3. ExpectedUnion(E, k, 1) <= ExpectedUnion(E, k, 1 + (MaxUbatch - 1))
    BY <1>5, <2>1, UnionInTokens
  <2> HIDE DEF k
  <2>4. 1000 * k <= x
    BY <2>1, <2>2, <2>3
  <2> QED
    BY <1>5, <1>6, <2>4
<1> HIDE DEF x, k
<1>8. /\ Needed(E, k, x) \in 1 .. E /\ x <= 1000 * Needed(E, k, x)
      /\ x >= 1000 * k => Needed(E, k, x) = E \/ 2 * k <= Needed(E, k, x)
  BY <1>6, NeededBounds DEF k
<1> QED
  BY <1>2, <1>3, <1>4, <1>7, <1>8 DEF x, k
-----------------------------------------------------------------------------
(* What the slab holds.                                                    *)

\* The slab has the size computed for the model's experts.
SizeInv == Allocated("slab") # {} => slots = SlabSlots(conf.model.experts)

\* What decided the arena threshold: the metadata's top_k, or what the first graph
\* to run selected.
ArenaFits ==
    \E k \in {conf.model.topk, conf.model.experts} \cup ({TopK(conf.gguf)} \ {0}) :
        \A m \in 2 .. engine.threshold :
            115 * ExpectedUnion(conf.model.experts, k, m) + 100000 * k <= 100000 * slots

ThresholdInv ==
    /\ ~engine.cache => /\ engine.threshold = IF conf.arena THEN -1 ELSE 0
                        /\ ~engine.ready
    /\ engine.ready => conf.arena /\ engine.threshold \in Nat /\ ArenaFits

\* A graph that was built after finalize is no warm-up, and keeps to the
\* threshold.
GraphInv ==
    /\ (engine.cache /\ phase \in {"idle", "built"}) => warm
    /\ phase = "built" =>
          /\ graph.n \in 1 .. conf.ub
          /\ graph.topk \in {conf.model.topk, conf.model.experts}
          /\ graph.late =>
                /\ engine.cache /\ graph.topk = conf.model.topk
                /\ \A l \in Layers :
                      (engine.ready /\ InSlab(l) /\ graph.path[l] = "remap")
                          => ~engine.enabled \/ graph.n <= engine.threshold

HoldInv == Facts /\ SizeInv /\ ThresholdInv /\ GraphInv

LEMMA InitHold == Init => HoldInv
<1> SUFFICES ASSUME Init PROVE HoldInv
  OBVIOUS
<1>1. Facts
  BY InitRecord DEF Facts
<1>2. SizeInv
  BY DEF Init, SizeInv, Allocated
<1>3. ThresholdInv /\ GraphInv
  BY DEF Init, ThresholdInv, GraphInv
<1> QED
  BY <1>1, <1>2, <1>3 DEF HoldInv

\* The size depends on the configuration only.
LEMMA SlabSlotsStays ==
  ASSUME conf' = conf PROVE SlabSlots(conf.model.experts)' = SlabSlots(conf.model.experts)
BY DEF SlabSlots, SlotsWanted, Need, SlabTopK, MaxUbatch

LEMMA ArenaFitsStays ==
  ASSUME conf' = conf, engine'.threshold = engine.threshold, slots' = slots, ArenaFits
  PROVE  ArenaFits'
BY DEF ArenaFits

LEMMA CreateHold ==
  ASSUME HoldInv, Facts', NEW i \in DOMAIN Weights,
         CreateSlab(i) \/ CreateStub(i) \/ CreateWhole(i)
  PROVE  SizeInv' /\ ThresholdInv' /\ GraphInv'
<1>1. /\ phase = "create" /\ phase' = "create" /\ conf' = conf /\ engine' = engine
      /\ graph' = graph /\ warm' = warm
  BY DEF CreateSlab, CreateStub, CreateWhole, Creates
<1>2. ~engine.cache
  BY <1>1 DEF HoldInv, Facts, CreateInv
<1>3. ThresholdInv' /\ GraphInv'
  BY <1>1, <1>2 DEF HoldInv, ThresholdInv, GraphInv
<1>4. CASE CreateSlab(i)
  <2>1. ExpertWeight(Weights[i]) /\ slots' = SlabSlots(Weights[i].experts)
    BY <1>4 DEF CreateSlab, WantsSlab
  <2>2. Weights[i].experts = conf.model.experts
    BY <2>1, ExpertAssumption DEF HoldInv, Facts, RecordInv, Weights, ExpertWeight
  <2>3. slots' = SlabSlots(conf.model.experts)
    BY <2>1, <2>2
  <2>4. slots' = SlabSlots(conf.model.experts)'
    BY <1>1, <2>3, SlabSlotsStays
  <2> QED
    BY <1>3, <2>4 DEF SizeInv
<1>5. ASSUME NEW how \in {"stub", "whole"}, Creates(i, how), slots' = slots PROVE SizeInv'
  <2>1. \A j \in DOMAIN alloc' :
           (j \in DOMAIN alloc /\ alloc'[j] = alloc[j]) \/ (j = i /\ alloc'[j] = how)
    BY <1>5, CreatedFacts DEF HoldInv, Facts, How
  <2>2. Allocated("slab")' # {} => Allocated("slab") # {}
    BY <1>5, <2>1 DEF Allocated
  <2> QED
    BY <1>1, <1>5, <2>2, SlabSlotsStays DEF SizeInv, HoldInv
<1> QED
  BY <1>3, <1>4, <1>5 DEF CreateStub, CreateWhole

LEMMA BuildHold ==
  ASSUME HoldInv, Facts', NEW n \in 1 .. MaxBatch, BuildGraph(n)
  PROVE  SizeInv' /\ ThresholdInv' /\ GraphInv'
<1>1. /\ phase = "idle" /\ phase' \in {"built", "crashed"} /\ n \in 1 .. conf.ub
      /\ UNCHANGED <<conf, alloc, slots, warm>>
      /\ engine' = [engine EXCEPT !.open = OpenAfterEnsure]
  BY DEF BuildGraph
<1>2. /\ graph'.n = n /\ graph'.late = engine.cache
      /\ graph'.topk = IF WarmingUp THEN conf.model.experts ELSE conf.model.topk
      /\ \A l \in Layers : graph'.path[l] = Path(l, n)
  BY DEF BuildGraph
<1>3. /\ engine'.cache = engine.cache /\ engine'.threshold = engine.threshold
      /\ engine'.ready = engine.ready /\ engine'.enabled = engine.enabled
  BY <1>1 DEF HoldInv, Facts, RecordInv
<1>4. SizeInv'
  BY <1>1, SlabSlotsStays DEF HoldInv, SizeInv, Allocated
<1>5. ThresholdInv'
  BY <1>1, <1>3, ArenaFitsStays DEF HoldInv, ThresholdInv
<1>6. engine.cache => warm /\ ~WarmingUp
  BY <1>1 DEF HoldInv, GraphInv, WarmingUp
<1>7. Layers' = Layers /\ \A l \in Layers : InSlab(l)' <=> InSlab(l)
  BY <1>1 DEF Layers, InSlab, OfLayer, Allocated, Weights
<1>8. ASSUME NEW l \in Layers, engine.ready, InSlab(l), Path(l, n) = "remap",
             engine.enabled
      PROVE  n <= engine.threshold
  <2>1. ~(n > engine.threshold)
    BY <1>8 DEF Path
  <2>2. engine.threshold \in Nat
    BY <1>8 DEF HoldInv, ThresholdInv
  <2> QED
    BY <2>1, <2>2
<1>9. GraphInv'
  BY <1>1, <1>2, <1>3, <1>6, <1>7, <1>8 DEF GraphInv
<1> QED
  BY <1>4, <1>5, <1>9

\* The threshold is 1, or every batch up to it fits.
LEMMA ThresholdFits ==
  /\ Threshold \in 1 .. MaxBatch
  /\ \A m \in 2 .. Threshold : Fits(m)
<1> DEFINE S == {1} \cup {n \in 2 .. MaxBatch : \A m \in 2 .. n : Fits(m)}
<1>1. MaxBatch \in Nat /\ MaxBatch >= 1
  BY MaxBatchAssumption
<1>2. S \in SUBSET (0 .. MaxBatch) /\ S # {}
  BY <1>1
<1>3. Threshold = Max(S)
  BY DEF Threshold
<1>4. \A n \in S : n \in 1 .. MaxBatch /\ \A m \in 2 .. n : Fits(m)
  BY <1>1
<1> HIDE DEF S
<1>5. Max(S) \in S
  BY <1>1, <1>2, MaxIsMember
<1> QED
  BY <1>3, <1>4, <1>5

LEMMA FinalizeHold ==
  ASSUME HoldInv, Facts',
         FinalizeWithoutExperts \/ FinalizeGivesUp \/ FinalizeSucceeds
  PROVE  SizeInv' /\ ThresholdInv' /\ GraphInv'
<1>1. /\ UNCHANGED <<conf, alloc, slots>>
      /\ phase = "built" /\ phase' \in {"running", "crashed"} /\ ~engine.cache
  BY DEF FinalizeWithoutExperts, FinalizeGivesUp, FinalizeSucceeds, FirstRemap,
         FirstRemapFinalizes, ZeroSlotOutcomes
<1>2. SizeInv'
  BY <1>1, SlabSlotsStays DEF HoldInv, SizeInv, Allocated
<1>3. GraphInv'
  BY <1>1 DEF GraphInv
<1>4. ~engine.ready /\ engine.threshold = IF conf.arena THEN -1 ELSE 0
  BY <1>1 DEF HoldInv, ThresholdInv
<1>5. CASE FinalizeWithoutExperts \/ FinalizeGivesUp
  <2>1. engine'.threshold = engine.threshold /\ engine'.ready = engine.ready
    BY <1>5 DEF FinalizeWithoutExperts, FinalizeGivesUp, HoldInv, Facts, RecordInv
  <2> QED
    BY <1>1, <1>2, <1>3, <1>4, <2>1 DEF ThresholdInv
<1>6. CASE FinalizeSucceeds
  <2> DEFINE t == IF engine.threshold < 0 THEN Threshold ELSE engine.threshold
  <2>1. engine' = [engine EXCEPT !.cache = TRUE, !.open = TRUE, !.threshold = t,
                                 !.ready = t > 0 /\ conf.uma /\ conf.arenas >= 1]
    BY <1>6 DEF FinalizeSucceeds
  <2>2. engine'.cache /\ engine'.threshold = t /\ (engine'.ready => t > 0)
    BY <2>1 DEF HoldInv, Facts, RecordInv
  <2>3. engine'.ready => conf.arena /\ t = Threshold
    BY <1>4, <2>2
  <2>4. ASSUME engine'.ready PROVE ArenaFits'
    <3>1. ArenaTopK \in {conf.model.topk, conf.model.experts}
                          \cup ({TopK(conf.gguf)} \ {0})
      <4>1. CASE TopK(conf.gguf) > 0
        BY <4>1 DEF ArenaTopK
      <4>2. CASE ~(TopK(conf.gguf) > 0)
        BY <1>1, <4>2 DEF ArenaTopK, HoldInv, GraphInv
      <4> QED
        BY <4>1, <4>2
    <3>2. \A m \in 2 .. engine'.threshold :
             115 * ExpectedUnion(conf.model.experts, ArenaTopK, m) + 100000 * ArenaTopK
                 <= 100000 * slots
      BY <2>2, <2>3, <2>4, ThresholdFits DEF Fits
    <3> QED
      BY <1>1, <3>1, <3>2 DEF ArenaFits
  <2>5. Threshold \in Nat
    BY ThresholdFits, MaxBatchAssumption
  <2> HIDE DEF t
  <2>6. ThresholdInv'
    BY <1>1, <2>2, <2>3, <2>4, <2>5 DEF ThresholdInv
  <2> QED
    BY <1>2, <1>3, <2>6
<1> QED
  BY <1>5, <1>6

LEMMA StepHold == HoldInv /\ [Next]_vars => HoldInv'
<1> SUFFICES ASSUME HoldInv, [Next]_vars PROVE HoldInv'
  OBVIOUS
<1>1. Facts'
  BY StepFacts DEF HoldInv
<1>2. CASE UNCHANGED vars
  BY <1>1, <1>2 DEF vars, HoldInv, SizeInv, ThresholdInv, GraphInv, ArenaFits, Allocated,
       Layers, InSlab, OfLayer, Weights, SlabSlots, SlotsWanted, Need, SlabTopK, MaxUbatch
<1>3. CASE LoadAllData \/ DropGraph \/ Compute
  <2>1. /\ UNCHANGED <<conf, alloc, slots, engine>>
        /\ phase' = "idle"
        /\ LoadAllData => phase = "create" /\ warm' = warm
        /\ DropGraph => phase = "built" /\ warm' = warm
        /\ Compute => warm' = TRUE
    BY <1>3 DEF LoadAllData, DropGraph, Compute
  <2>2. SizeInv'
    BY <2>1, SlabSlotsStays DEF HoldInv, SizeInv, Allocated
  <2>3. ThresholdInv'
    BY <2>1, ArenaFitsStays DEF HoldInv, ThresholdInv
  <2>4. GraphInv'
    BY <1>3, <2>1 DEF HoldInv, Facts, CreateInv, GraphInv
  <2> QED
    BY <1>1, <2>2, <2>3, <2>4 DEF HoldInv
<1> QED
  BY <1>1, <1>2, <1>3, CreateHold, BuildHold, FinalizeHold DEF Next, HoldInv

\* The experts of a model with a slab.
LEMMA ExpertFacts ==
  ASSUME HoldInv, OwnFile, Allocated("slab") # {}
  PROVE  /\ conf.model.experts \in Nat \ {0}
         /\ conf.model.topk \in 1 .. conf.model.experts
         /\ SlabTopK \in conf.model.topk .. conf.model.experts
         /\ TopK(conf.gguf) \in {0, conf.model.topk}
         /\ conf.ub \in Nat /\ MaxUbatch \in Nat
<1>1. PICK i \in DOMAIN alloc : alloc[i] = "slab"
  BY DEF Allocated
<1>2. conf \in Configs
  BY DEF HoldInv, Facts, RecordInv
<1>3. i \in DOMAIN Weights /\ ExpertWeight(Weights[i])
  <2>1. alloc \in Seq(How) /\ Len(alloc) <= Len(Weights) /\ Weights \in Seq(WeightRecord)
    BY <1>2, WeightsAreTyped DEF HoldInv, Facts, RecordInv
  <2>2. i \in DOMAIN Weights
    BY <1>1, <2>1
  <2> QED
    BY <1>1, <2>2 DEF HoldInv, Facts, CreateInv, LoadedInv
<1>4. Weights[i].experts = conf.model.experts /\ Weights[i].experts \in Nat \ {0}
  <2>1. Weights[i] \in WeightRecord
    BY <1>2, <1>3, WeightsAreTyped
  <2> QED
    BY <1>2, <1>3, <2>1, ExpertAssumption DEF Weights, ExpertWeight, WeightRecord
<1>5. /\ conf.model.topk \in 1 .. conf.model.experts
      /\ \/ TopK(conf.model.shards) = conf.model.topk
         \/ /\ TopK(conf.model.shards) = 0
            /\ conf.model.topk <= 8 /\ conf.model.experts >= 8
  BY <1>2, <1>3, ExpertAssumption DEF Weights, ExpertWeight
<1>6. TopK(conf.gguf) = TopK(conf.model.shards)
  BY DEF OwnFile
<1>7. SlabTopK \in conf.model.topk .. conf.model.experts
  BY <1>4, <1>5, <1>6 DEF SlabTopK
<1>8. conf.ub \in Nat /\ MaxUbatch \in Nat
  BY <1>2, ExpertAssumption DEF MaxUbatch
<1> QED
  BY <1>4, <1>5, <1>6, <1>7, <1>8

\* Nothing but the size of the slab and the threshold stands between a batch and
\* its slots.
LEMMA BatchHolds == HoldInv => SlabHoldsTheBatch
<1> DEFINE E == conf.model.experts
           k == conf.model.topk
           n == graph.n
           need == Need(E)
<1> SUFFICES ASSUME HoldInv, phase = "built", engine.enabled, graph.late, OwnFile,
                    engine.ready \/ ~conf.arena,
                    NEW l \in Layers, InSlab(l), graph.path[l] = "remap"
             PROVE  /\ ExpectedUnion(E, graph.topk, n) <= 1000 * slots
                    /\ n <= 2 => Min({E, n * graph.topk}) <= slots
  BY DEF SlabHoldsTheBatch
<1>1. Allocated("slab") # {}
  BY DEF InSlab
<1>2. /\ E \in Nat \ {0} /\ k \in 1 .. E /\ SlabTopK \in k .. E
      /\ TopK(conf.gguf) \in {0, k} /\ conf.ub \in Nat /\ MaxUbatch \in Nat
  BY <1>1, ExpertFacts
<1>3. /\ graph.topk = k /\ n \in 1 .. conf.ub
      /\ engine.ready => /\ n <= engine.threshold /\ engine.threshold \in Nat
                         /\ conf.arena /\ ArenaFits
  BY DEF HoldInv, GraphInv, ThresholdInv
<1>4. conf \in Configs /\ slots = SlabSlots(E)
  BY <1>1 DEF HoldInv, Facts, RecordInv, SizeInv
<1>5. SlabTopK \in 1 .. E /\ k \in 0 .. E
  BY <1>2
<1>6. /\ SlotsWanted(E) \in Int /\ SlabSlots(E) = Sized(E, need, SlotsWanted(E))
      /\ need \in 1 .. E
      /\ ExpectedUnion(E, SlabTopK, MaxUbatch) <= 1000 * need
      /\ MaxUbatch >= 1 => need = E \/ 2 * SlabTopK <= need
  BY <1>2, <1>4, <1>5, SlotsBounds
<1>7. slots \in Nat /\ need <= slots
  <2>1. /\ Sized(E, need, SlotsWanted(E)) \in Nat
        /\ need <= Sized(E, need, SlotsWanted(E))
    <3> HIDE DEF E, need
    <3> QED
      BY <1>2, <1>6, SizedBounds
  <2> QED
    BY <1>4, <1>6, <2>1
<1>8. MaxUbatch \in Nat /\ MaxUbatch >= 1 /\ (conf.arena => MaxUbatch = 2)
      /\ (~conf.arena => MaxUbatch = conf.ub)
  BY <1>2, <1>3 DEF MaxUbatch
<1> HIDE DEF E, k, n, need
<1>9. ASSUME n <= 2 PROVE Min({E, n * k}) <= slots
  <2>1. E <= slots \/ 2 * k <= slots
    BY <1>2, <1>6, <1>7, <1>8
  <2>2. n \in 1 .. 2 /\ k \in Nat /\ E \in Nat
    BY <1>2, <1>3, <1>9
  <2> QED
    BY <1>7, <2>1, <2>2, TwoTokensFit
\* A batch no larger than what the slab was sized for.
<1>10. ASSUME n <= MaxUbatch PROVE ExpectedUnion(E, k, n) <= 1000 * slots
  <2>1. n \in Nat /\ MaxUbatch - n \in Nat /\ n + (MaxUbatch - n) = MaxUbatch
    BY <1>2, <1>3, <1>10
  <2>2. ExpectedUnion(E, k, n) <= ExpectedUnion(E, k, n + (MaxUbatch - n))
    BY <1>2, <1>5, <2>1, UnionInTokens
  <2>3. ExpectedUnion(E, k, MaxUbatch) <= ExpectedUnion(E, SlabTopK, MaxUbatch)
    BY <1>2, <1>5, UnionInTopK
  <2>4. /\ ExpectedUnion(E, k, n) \in Int /\ ExpectedUnion(E, k, MaxUbatch) \in Int
        /\ ExpectedUnion(E, SlabTopK, MaxUbatch) \in Int
    <3>1. \A a \in 0 .. E, m \in Nat : ExpectedUnion(E, a, m) \in Nat
      BY <1>2, UnionIsNat
    <3> QED
      BY <1>2, <1>5, <2>1, <3>1
  <2>5. ExpectedUnion(E, k, n) <= 1000 * need
    BY <1>6, <2>1, <2>2, <2>3, <2>4
  <2> QED
    BY <1>6, <1>7, <2>4, <2>5
\* A larger batch is one that the threshold lets through.
<1>11. ASSUME ~(n <= MaxUbatch) PROVE ExpectedUnion(E, k, n) <= 1000 * slots
  <2>1. engine.ready /\ n \in 2 .. engine.threshold
    BY <1>3, <1>8, <1>11
  <2>2. PICK a \in {k, E} \cup ({TopK(conf.gguf)} \ {0}) :
           115 * ExpectedUnion(E, a, n) + 100000 * a <= 100000 * slots
    BY <1>3, <2>1 DEF ArenaFits, E, k
  <2>3. a \in k .. E
    BY <1>2, <2>2
  <2>4. ExpectedUnion(E, k, n) <= ExpectedUnion(E, a, n)
    BY <1>2, <1>3, <1>5, <2>1, <2>3, UnionInTopK
  <2>5. ExpectedUnion(E, k, n) \in Nat /\ ExpectedUnion(E, a, n) \in Nat
    <3>1. \A b \in 0 .. E, m \in Nat : ExpectedUnion(E, b, m) \in Nat
      BY <1>2, UnionIsNat
    <3> QED
      BY <1>2, <1>3, <2>1, <2>3, <3>1
  <2> QED
    BY <1>2, <1>7, <2>2, <2>3, <2>4, <2>5
<1> QED
  BY <1>3, <1>9, <1>10, <1>11 DEF E, k, n

\* What the loader sized the slab for and what the arena threshold lets through fit
\* the slab, for every model, machine and setting.
THEOREM EveryBatchFits == Spec => []SlabHoldsTheBatch
BY InitHold, StepHold, BatchHolds, PTL DEF Spec

\* The tensor tables of a model's own file list its expert weights.
TablesListWeights ==
    \A c \in Configs : BytesPerSlot(c.model.shards) = SlotOfWeights(c.model)

LEMMA BudgetHolds == HoldInv /\ TablesListWeights => SlabKeepsItsBudget
<1> DEFINE E == conf.model.experts
           need == Need(E)
           v == conf.frac.value
           per == BytesPerSlot(conf.gguf)
<1> SUFFICES ASSUME HoldInv, TablesListWeights, Allocated("slab") # {}, OwnFile,
                    conf.frac.how = "auto"
             PROVE  \/ slots * SlotOfWeights(conf.model) <= v
                    \/ slots = Max({8, need})
  BY DEF SlabKeepsItsBudget
<1>1. /\ E \in Nat \ {0} /\ SlabTopK \in 1 .. E /\ MaxUbatch \in Nat
  BY ExpertFacts
<1>2. conf \in Configs /\ slots = SlabSlots(E)
  BY DEF HoldInv, Facts, RecordInv, SizeInv
<1>3. /\ SlotsWanted(E) \in Int /\ SlabSlots(E) = Sized(E, need, SlotsWanted(E))
      /\ need \in 1 .. E
  BY <1>1, <1>2, SlotsBounds
<1>4. v \in Nat /\ per \in Nat
  BY <1>2, ExpertAssumption
<1>5. SlotOfWeights(conf.model) = per
  BY <1>2 DEF TablesListWeights, OwnFile
<1>6. per # 0 => SlotsWanted(E) = Min({E, Max({1, v \div per})})
  BY DEF SlotsWanted
<1> HIDE DEF E, need, v, per
<1>7. /\ slots \in Nat /\ slots >= 8
      /\ slots = Max({8, need}) \/ slots <= SlotsWanted(E)
  BY <1>1, <1>2, <1>3, SizedBounds
<1>8. CASE per = 0
  BY <1>4, <1>5, <1>7, <1>8
<1>9. CASE per # 0 /\ slots <= SlotsWanted(E)
  <2> DEFINE q == v \div per
  <2>1. q \in Int /\ per * q <= v
    BY <1>4, <1>9, DivBounds
  <2> HIDE DEF q
  <2>2. Max({1, q}) = IF 1 >= q THEN 1 ELSE q
    BY <2>1, MaxOfTwo
  <2>3. SlotsWanted(E) <= Max({1, q})
    <3>1. Max({1, q}) \in Int
      BY <2>1, <2>2
    <3>2. Min({E, Max({1, q})}) = IF E <= Max({1, q}) THEN E ELSE Max({1, q})
      BY <1>1, <3>1, MinOfTwo
    <3> QED
      BY <1>1, <1>6, <1>9, <3>1, <3>2 DEF q
  <2>4. slots <= q
    BY <1>3, <1>7, <1>9, <2>1, <2>2, <2>3
  <2>5. slots * per <= q * per
    BY <1>4, <1>7, <2>1, <2>4, ProductGrows
  <2>6. q * per = per * q /\ slots * per \in Int /\ per * q \in Int
    BY <1>4, <1>7, <2>1
  <2> QED
    BY <1>4, <1>5, <2>1, <2>5, <2>6
<1> QED
  BY <1>7, <1>8, <1>9

\* cache_frac=auto spends its budget and no more, for every model, machine and
\* setting, if the file lists the weights.
THEOREM BudgetIsKept ==
  ASSUME TablesListWeights
  PROVE  Spec => []SlabKeepsItsBudget
<1>1. HoldInv => SlabKeepsItsBudget
  BY BudgetHolds
<1> QED
  BY <1>1, InitHold, StepHold, PTL DEF Spec
-----------------------------------------------------------------------------
(* Bytes of a set of weights.                                              *)

Share(W, S, k) == IF k \in S THEN W[k].bytes ELSE 0

\* u lists the bytes of S among the first 0 to n weights.
Sums(W, S, n, u) ==
    /\ u \in [0 .. n -> Nat] /\ u[0] = 0
    /\ \A k \in 1 .. n : u[k] = u[k - 1] + Share(W, S, k)

LEMMA SharesAreNat ==
  ASSUME NEW W \in Seq(WeightRecord), NEW S, NEW k \in 1 .. Len(W)
  PROVE  Share(W, S, k) \in Nat
<1>1. W[k] \in WeightRecord
  OBVIOUS
<1>2. W[k].bytes \in Nat
  BY <1>1 DEF WeightRecord
<1> QED
  BY <1>2 DEF Share

LEMMA SumsExtend ==
  ASSUME NEW W \in Seq(WeightRecord), NEW S, NEW n \in Nat, n + 1 <= Len(W), NEW u
  PROVE  Sums(W, S, n, u) => \E v : Sums(W, S, n + 1, v)
<1>0. Share(W, S, n + 1) \in Nat
  <2>1. n + 1 \in 1 .. Len(W)
    OBVIOUS
  <2> QED
    BY <2>1, SharesAreNat
<1> HAVE Sums(W, S, n, u)
<1> DEFINE v == [i \in 0 .. n + 1 |-> IF i = n + 1 THEN u[n] + Share(W, S, n + 1) ELSE u[i]]
<1>1. \A i \in 0 .. n : u[i] \in Nat
  BY DEF Sums
<1>2. u[n] + Share(W, S, n + 1) \in Nat
  BY <1>0, <1>1
<1>3. v \in [0 .. n + 1 -> Nat]
  <2> SUFFICES ASSUME NEW i \in 0 .. n + 1
               PROVE  (IF i = n + 1 THEN u[n] + Share(W, S, n + 1) ELSE u[i]) \in Nat
    OBVIOUS
  <2>1. CASE i = n + 1
    BY <1>2, <2>1
  <2>2. CASE i # n + 1
    <3>1. i \in 0 .. n
      BY <2>2
    <3> QED
      BY <1>1, <2>2, <3>1
  <2> QED
    BY <2>1, <2>2
<1>4. v[0] = 0
  BY DEF Sums
<1>5. ASSUME NEW k \in 1 .. n + 1 PROVE v[k] = v[k - 1] + Share(W, S, k)
  <2>1. k - 1 \in 0 .. n + 1 /\ k - 1 # n + 1 /\ k \in 0 .. n + 1
    OBVIOUS
  <2>2. v[k - 1] = u[k - 1]
    BY <2>1
  <2>3. CASE k = n + 1
    <3>1. v[k] = u[n] + Share(W, S, n + 1) /\ k - 1 = n
      BY <2>1, <2>3
    <3> HIDE DEF v
    <3> QED
      BY <2>2, <2>3, <3>1
  <2>4. CASE k # n + 1
    <3>1. v[k] = u[k] /\ k \in 1 .. n
      BY <2>1, <2>4
    <3>2. u[k] = u[k - 1] + Share(W, S, k)
      BY <3>1 DEF Sums
    <3> HIDE DEF v
    <3> QED
      BY <2>2, <3>1, <3>2
  <2> QED
    BY <2>3, <2>4
<1> HIDE DEF v
<1>6. \A k \in 1 .. n + 1 : v[k] = v[k - 1] + Share(W, S, k)
  BY <1>5
<1>7. Sums(W, S, n + 1, v)
  BY <1>3, <1>4, <1>6 DEF Sums
<1> QED
  BY <1>7

LEMMA SumsExist ==
  ASSUME NEW W \in Seq(WeightRecord), NEW S
  PROVE  \E u : Sums(W, S, Len(W), u)
<1> DEFINE T == {k \in Nat : \E u : Sums(W, S, k, u)}
<1>0. Len(W) \in Nat
  OBVIOUS
<1>1. 0 \in T
  <2>1. Sums(W, S, 0, [i \in 0 .. 0 |-> 0])
    BY DEF Sums
  <2> QED
    BY <2>1
<1>2. ASSUME NEW k \in 0 .. Len(W) - 1, k \in T PROVE k + 1 \in T
  <2>1. k \in Nat /\ k + 1 <= Len(W)
    BY <1>0
  <2> QED
    BY <1>2, <2>1, SumsExtend
<1> HIDE DEF T
<1>3. Len(W) \in T
  BY <1>0, <1>1, <1>2, CountUpTo
<1> QED
  BY <1>3 DEF T

LEMMA SumIsBytes ==
  ASSUME NEW W \in Seq(WeightRecord), NEW S, NEW u, Sums(W, S, Len(W), u)
  PROVE  BytesOf(W, S) = u[Len(W)]
<1> DEFINE n == Len(W)
<1>0. n \in Nat
  OBVIOUS
<1> DEFINE IsSum(w) ==
      w = [k \in 0 .. n |->
             IF k = 0 THEN 0 ELSE w[k - 1] + (IF k \in S THEN W[k].bytes ELSE 0)]
           w == CHOOSE x : IsSum(x)
<1>1. IsSum(u)
  BY DEF Sums, Share
<1>2. IsSum(w)
  <2>1. \E x : IsSum(x)
    BY <1>1
  <2> HIDE DEF IsSum
  <2> QED
    BY <2>1
<1>3. BytesOf(W, S) = w[n]
  BY DEF BytesOf
<1> HIDE DEF w
<1>4. w[0] = 0 /\ \A k \in 1 .. n : w[k] = w[k - 1] + Share(W, S, k)
  <2> HIDE DEF n
  <2>1. w[0] = 0
    BY <1>0, <1>2
  <2>2. ASSUME NEW k \in 1 .. n PROVE w[k] = w[k - 1] + Share(W, S, k)
    <3>1. k \in 0 .. n /\ k # 0
      BY <1>0
    <3> QED
      BY <1>2, <3>1 DEF Share
  <2> QED
    BY <2>1, <2>2
<1> HIDE DEF IsSum
<1> DEFINE T == {k \in 0 .. n : w[k] = u[k]}
<1>5. 0 \in T
  BY <1>0, <1>4 DEF Sums
<1>6. ASSUME NEW k \in 0 .. n - 1, k \in T PROVE k + 1 \in T
  <2>1. k + 1 \in 1 .. n /\ (k + 1) - 1 = k /\ w[k] = u[k]
    BY <1>0, <1>6
  <2>2. w[k + 1] = w[k] + Share(W, S, k + 1)
    BY <1>4, <2>1
  <2>3. u[k + 1] = u[k] + Share(W, S, k + 1)
    BY <2>1 DEF Sums
  <2> QED
    BY <1>0, <2>1, <2>2, <2>3
<1> HIDE DEF T, n
<1>7. n \in T
  BY <1>0, <1>5, <1>6, CountUpTo
<1> QED
  BY <1>3, <1>7 DEF T, n

LEMMA BytesAreNat ==
  ASSUME NEW W \in Seq(WeightRecord), NEW S
  PROVE  BytesOf(W, S) \in Nat
<1>1. PICK u : Sums(W, S, Len(W), u)
  BY SumsExist
<1>2. u[Len(W)] \in Nat
  BY <1>1 DEF Sums
<1> QED
  BY <1>1, <1>2, SumIsBytes

LEMMA BytesOfNone ==
  ASSUME NEW W \in Seq(WeightRecord)
  PROVE  BytesOf(W, {}) = 0
<1>1. Sums(W, {}, Len(W), [k \in 0 .. Len(W) |-> 0])
  BY DEF Sums, Share
<1>2. BytesOf(W, {}) = [k \in 0 .. Len(W) |-> 0][Len(W)]
  BY <1>1, SumIsBytes
<1> QED
  BY <1>2

LEMMA BytesOfApart ==
  ASSUME NEW W \in Seq(WeightRecord), NEW A, NEW B, A \cap B = {}
  PROVE  BytesOf(W, A \cup B) = BytesOf(W, A) + BytesOf(W, B)
<1>1. PICK u : Sums(W, A, Len(W), u)
  BY SumsExist
<1>2. PICK v : Sums(W, B, Len(W), v)
  BY SumsExist
<1> DEFINE n == Len(W)
           s == [k \in 0 .. n |-> u[k] + v[k]]
<1>0. n \in Nat
  OBVIOUS
<1>3. \A k \in 0 .. n : u[k] \in Nat /\ v[k] \in Nat
  BY <1>1, <1>2 DEF Sums
<1>4. s \in [0 .. n -> Nat] /\ s[0] = 0
  BY <1>0, <1>1, <1>2, <1>3 DEF Sums
<1>5. ASSUME NEW k \in 1 .. n PROVE s[k] = s[k - 1] + Share(W, A \cup B, k)
  <2>1. k \in 0 .. n /\ k - 1 \in 0 .. n
    BY <1>0
  <2>2. u[k] = u[k - 1] + Share(W, A, k) /\ v[k] = v[k - 1] + Share(W, B, k)
    BY <1>1, <1>2 DEF Sums
  <2>3. s[k] = u[k] + v[k] /\ s[k - 1] = u[k - 1] + v[k - 1]
    BY <2>1
  <2>4. Share(W, A, k) \in Nat /\ Share(W, B, k) \in Nat
    BY SharesAreNat
  <2>5. Share(W, A \cup B, k) = Share(W, A, k) + Share(W, B, k)
    <3>1. W[k].bytes \in Nat
      <4>1. W[k] \in WeightRecord
        OBVIOUS
      <4> QED
        BY <4>1 DEF WeightRecord
    <3> QED
      BY <3>1 DEF Share
  <2> HIDE DEF s, n
  <2> QED
    BY <1>3, <2>1, <2>2, <2>3, <2>4, <2>5
<1>6. Sums(W, A \cup B, n, s)
  <2> HIDE DEF s
  <2> QED
    BY <1>4, <1>5 DEF Sums
<1>7. BytesOf(W, A \cup B) = s[n]
  <2> HIDE DEF s
  <2> QED
    BY <1>6, SumIsBytes
<1>8. s[n] = u[n] + v[n]
  BY <1>0
<1>9. BytesOf(W, A) = u[n] /\ BytesOf(W, B) = v[n]
  BY <1>1, <1>2, SumIsBytes
<1> QED
  BY <1>7, <1>8, <1>9

LEMMA BytesOfMember ==
  ASSUME NEW W \in Seq(WeightRecord), NEW S, NEW i \in DOMAIN W, i \in S
  PROVE  W[i].bytes <= BytesOf(W, S)
<1> DEFINE n == Len(W)
           s == [k \in 0 .. n |-> IF k < i THEN 0 ELSE W[i].bytes]
<1>0. n \in Nat /\ i \in 1 .. n /\ W[i].bytes \in Nat
  <2>1. W[i] \in WeightRecord
    OBVIOUS
  <2> QED
    BY <2>1 DEF WeightRecord
<1>1. Sums(W, {i}, n, s)
  <2>1. s \in [0 .. n -> Nat] /\ s[0] = 0
    BY <1>0
  <2>2. ASSUME NEW k \in 1 .. n PROVE s[k] = s[k - 1] + Share(W, {i}, k)
    <3>1. k \in 0 .. n /\ k - 1 \in 0 .. n /\ k \in Int
      BY <1>0
    <3>2. CASE k < i
      BY <1>0, <3>1, <3>2 DEF Share
    <3>3. CASE k = i
      BY <1>0, <3>1, <3>3 DEF Share
    <3>4. CASE k > i
      BY <1>0, <3>1, <3>4 DEF Share
    <3> QED
      BY <1>0, <3>1, <3>2, <3>3, <3>4
  <2> HIDE DEF s
  <2> QED
    BY <2>1, <2>2 DEF Sums
<1>2. BytesOf(W, {i}) = s[n]
  <2> HIDE DEF s
  <2> QED
    BY <1>1, SumIsBytes
<1>3. s[n] = W[i].bytes
  BY <1>0
<1>4. BytesOf(W, {i} \cup (S \ {i})) = BytesOf(W, {i}) + BytesOf(W, S \ {i})
  BY BytesOfApart
<1>5. {i} \cup (S \ {i}) = S
  OBVIOUS
<1>6. BytesOf(W, S \ {i}) \in Nat
  BY BytesAreNat
<1>7. BytesOf(W, {i}) = W[i].bytes
  BY <1>2, <1>3
<1>8. BytesOf(W, S) = W[i].bytes + BytesOf(W, S \ {i})
  BY <1>4, <1>5, <1>7
<1> HIDE DEF n, s
<1> QED
  BY <1>0, <1>6, <1>8

\* When all layers have the same bytes, the last ones have their multiple.
LEMMA TailBytes ==
  ASSUME NEW W \in Seq(WeightRecord), NEW F \in SUBSET DOMAIN W, NEW nl \in Nat,
         NEW per \in Nat,
         \A i \in F : W[i].layer \in 0 .. nl - 1,
         \A l \in 0 .. nl - 1 : BytesOf(W, {i \in F : W[i].layer = l}) = per
  PROVE  \A f \in 0 .. nl : BytesOf(W, {i \in F : W[i].layer >= f}) = (nl - f) * per
<1> DEFINE From(f) == {i \in F : W[i].layer >= f}
           T == {j \in 0 .. nl : BytesOf(W, From(nl - j)) = j * per}
<1>1. 0 \in T
  <2>1. From(nl) = {}
    OBVIOUS
  <2>2. nl - 0 = nl /\ 0 * per = 0
    OBVIOUS
  <2>3. BytesOf(W, {}) = 0
    BY BytesOfNone
  <2> HIDE DEF From
  <2>4. BytesOf(W, From(nl - 0)) = 0 * per
    BY <2>1, <2>2, <2>3
  <2>5. 0 \in 0 .. nl
    OBVIOUS
  <2> QED
    BY <2>4, <2>5
<1>2. ASSUME NEW j \in 0 .. nl - 1, j \in T PROVE j + 1 \in T
  <2> DEFINE l == nl - (j + 1)
             L == {i \in F : W[i].layer = l}
  <2>1. l \in 0 .. nl - 1 /\ nl - j = l + 1
    OBVIOUS
  <2>2. From(l) = L \cup From(l + 1) /\ L \cap From(l + 1) = {}
    <3>1. \A i \in F : W[i].layer \in Int
      OBVIOUS
    <3> HIDE DEF l
    <3> QED
      BY <2>1, <3>1
  <2>3. BytesOf(W, L) = per
    BY <2>1
  <2>4. BytesOf(W, From(l + 1)) = j * per
    BY <1>2, <2>1
  <2> HIDE DEF L, From
  <2>5. BytesOf(W, L \cup From(l + 1)) = BytesOf(W, L) + BytesOf(W, From(l + 1))
    BY <2>2, BytesOfApart
  <2>6. BytesOf(W, From(l)) = per + j * per
    BY <2>2, <2>3, <2>4, <2>5
  <2>7. per + j * per = (j + 1) * per /\ j + 1 \in 0 .. nl
    OBVIOUS
  <2> QED
    BY <2>6, <2>7
<1>3. \A j \in 0 .. nl : j \in T
  <2> HIDE DEF T
  <2> SUFFICES ASSUME NEW j \in 0 .. nl PROVE j \in T
    OBVIOUS
  <2>1. \A k \in 0 .. j - 1 : k \in T => k + 1 \in T
    <3>1. \A k \in 0 .. j - 1 : k \in 0 .. nl - 1
      OBVIOUS
    <3> QED
      BY <1>2, <3>1
  <2> QED
    BY <1>1, <2>1, CountUpTo
<1> SUFFICES ASSUME NEW f \in 0 .. nl PROVE BytesOf(W, From(f)) = (nl - f) * per
  OBVIOUS
<1>4. nl - f \in 0 .. nl /\ nl - (nl - f) = f
  OBVIOUS
<1> HIDE DEF From
<1> QED
  BY <1>3, <1>4
-----------------------------------------------------------------------------
(* The dense split.  Room(t) and the bytes used add up, but for the excess *)
(* of the scan, to the layers kept; Keep(t) rounds Room(t) to layers.      *)

\* nl layers of per bytes, A in all, and an excess of e; the first f are kept.
SplitNumbers(nl, f, per, A, e, file, mem, bufs, room) ==
    /\ nl \in Nat \ {0} /\ f \in 0 .. nl - 1 /\ per \in Nat /\ A \in Nat /\ e \in Nat
    /\ file \in Nat /\ mem \in Int /\ bufs \in Nat /\ room \in Int
    /\ A = nl * per /\ A + e > 0
    /\ room = nl * (mem - (file - (A + e))) - bufs * (A + e)
    /\ f = Min({nl, (2 * Max({0, room}) + (A + e)) \div (2 * (A + e))})

Used(nl, f, per, file, bufs) == file - (nl - f) * per + bufs * per

LeastThatFits(nl, f, A, e, mem, bufs, used) ==
    /\ f > 0 => 2 * nl * (used - mem) <= A + (2 * nl + 1) * e
    /\ 2 * nl * (used - mem) + A + (2 * bufs + 1) * e > 0

LEMMA SplitArithmetic ==
  ASSUME NEW nl, NEW f, NEW per, NEW A, NEW e, NEW file, NEW mem, NEW bufs, NEW room,
         SplitNumbers(nl, f, per, A, e, file, mem, bufs, room)
  PROVE  LeastThatFits(nl, f, A, e, mem, bufs, Used(nl, f, per, file, bufs))
<1> DEFINE scan == A + e
           used == Used(nl, f, per, file, bufs)
<1>n. /\ nl \in Nat \ {0} /\ f \in 0 .. nl - 1 /\ per \in Nat /\ A \in Nat /\ e \in Nat
      /\ file \in Nat /\ mem \in Int /\ bufs \in Nat /\ room \in Int
      /\ A = nl * per /\ scan \in Nat \ {0} /\ scan = A + e
      /\ room = nl * (mem - (file - scan)) - bufs * scan
      /\ f = Min({nl, (2 * Max({0, room}) + scan) \div (2 * scan)})
  BY DEF SplitNumbers
<1>u. used = file - (nl - f) * per + bufs * per /\ used \in Int
  BY <1>n DEF Used
<1> HIDE DEF scan, used
<1> USE <1>n, <1>u
<1> DEFINE top == Max({0, room})
           h == (2 * top + scan) \div (2 * scan)
<1>1. top = (IF 0 >= room THEN 0 ELSE room) /\ top \in Nat
  BY MaxOfTwo
<1> HIDE DEF top
<1>2. 2 * top + scan \in Int /\ 2 * scan \in Nat \ {0}
  BY <1>1
<1>3. h \in Int /\ 2 * scan * h <= 2 * top + scan /\ 2 * top + scan < 2 * scan * h + 2 * scan
  BY <1>2, DivBounds
<1>4. f = h
  <2>1. f = Min({nl, h})
    BY DEF top
  <2> HIDE DEF h
  <2>2. Min({nl, h}) = IF nl <= h THEN nl ELSE h
    BY <1>3, MinOfTwo
  <2> QED
    BY <2>1, <2>2
<1> HIDE DEF h
<1> DEFINE x == nl * (used - mem)
<1>5. x = f * A - room + nl * e - bufs * e
  <2>1. x = nl * file - nl * ((nl - f) * per) + nl * (bufs * per) - nl * mem
    OBVIOUS
  <2>2. nl * ((nl - f) * per) = nl * A - f * A
    <3>1. nl * ((nl - f) * per) = nl * (nl * per) - f * (nl * per)
      OBVIOUS
    <3> QED
      BY <3>1
  <2>3. nl * (bufs * per) = bufs * A
    <3>1. nl * (bufs * per) = bufs * (nl * per)
      OBVIOUS
    <3> QED
      BY <3>1
  <2>4. room = nl * mem - nl * file + nl * A + nl * e - bufs * A - bufs * e
    <3>1. room = nl * (mem - (file - (A + e))) - bufs * (A + e)
      OBVIOUS
    <3>2. nl * (mem - (file - (A + e))) = nl * mem - nl * file + nl * A + nl * e
      OBVIOUS
    <3>3. bufs * (A + e) = bufs * A + bufs * e
      OBVIOUS
    <3> QED
      BY <3>1, <3>2, <3>3
  <2>5. /\ nl * file \in Int /\ nl * A \in Int /\ f * A \in Int /\ bufs * A \in Int
        /\ nl * mem \in Int /\ nl * e \in Int /\ bufs * e \in Int
    OBVIOUS
  <2> HIDE DEF x
  <2> QED
    BY <2>1, <2>2, <2>3, <2>4, <2>5
<1>6. scan * f = f * A + f * e /\ 2 * scan * f = 2 * (scan * f)
  <2>1. (A + e) * f = f * A + f * e
    OBVIOUS
  <2> QED
    BY <2>1
<1>7. 0 <= f * e /\ f * e <= nl * e
  <2>1. f * e <= nl * e
    BY ProductGrows
  <2>2. f * e \in Nat
    OBVIOUS
  <2> QED
    BY <2>1, <2>2
<1>8. /\ 2 * nl * (used - mem) = 2 * x
      /\ (2 * nl + 1) * e = 2 * (nl * e) + e
      /\ (2 * bufs + 1) * e = 2 * (bufs * e) + e
  OBVIOUS
<1>9. /\ x \in Int /\ f * A \in Nat /\ f * e \in Nat /\ nl * e \in Nat /\ bufs * e \in Nat
      /\ scan * f \in Nat
  OBVIOUS
<1> DEFINE fA == f * A
           fe == f * e
           ne == nl * e
           be == bufs * e
           sf == scan * f
<1>10. /\ x \in Int /\ fA \in Nat /\ fe \in Nat /\ ne \in Nat /\ be \in Nat /\ sf \in Nat
       /\ x = fA - room + ne - be /\ sf = fA + fe /\ fe <= ne
       /\ 2 * sf <= 2 * top + scan /\ 2 * top + scan < 2 * sf + 2 * scan
  BY <1>3, <1>4, <1>5, <1>6, <1>7, <1>9
<1>11. /\ 2 * nl * (used - mem) = 2 * x
       /\ (2 * nl + 1) * e = 2 * ne + e
       /\ (2 * bufs + 1) * e = 2 * be + e
  BY <1>8
<1>12. f > 0 => scan <= sf
  <2> SUFFICES ASSUME f > 0 PROVE scan <= sf
    OBVIOUS
  <2>1. 1 * scan <= f * scan
    BY ProductGrows
  <2>2. f * scan = sf /\ 1 * scan = scan
    OBVIOUS
  <2> QED
    BY <2>1, <2>2
<1> HIDE DEF x, fA, fe, ne, be, sf
<1>13. f > 0 => 2 * x <= A + (2 * ne + e)
  BY <1>1, <1>10, <1>12
<1>14. 2 * x + A + (2 * be + e) > 0
  BY <1>1, <1>10
<1> QED
  BY <1>11, <1>13, <1>14 DEF LeastThatFits, used

\* The loader's scan covers the dense weights the model has in as many layers
\* as the header says, and stays within the file.
HeaderTellsTheFfn ==
    \A c \in Configs : LET m == c.model IN
        ~(ExpertCount(m.shards) > 0) =>
            /\ BlockCount(m.shards) \in Nat
            /\ {m.weights[i].layer : i \in DOMAIN m.weights} = 0 .. BlockCount(m.shards) - 1
            /\ ScanTotal(m.shards) \in
                  BytesOf(m.weights, {i \in DOMAIN m.weights :
                                        DenseWeight(m.weights[i], m.weights[i].bytes)})
                      .. FileBytes(m.shards)

DecidedBy(t) ==
    /\ DenseWeight(t, t.bytes)
    /\ ~(ExpertCount(conf.gguf) > 0) /\ BlockCount(conf.gguf) # 0
    /\ dense.nlayer = BlockCount(conf.gguf) /\ dense.first = Keep(t)

InSplit(t) ==
    conf.on /\ DenseWeight(t, t.bytes) /\ dense.nlayer > 0 /\ t.layer >= dense.first

\* The split was decided by the first dense weight, and the stubs are what it
\* says for as long as the run lasts.
SplitInv ==
    /\ phase = "create" => engine.enabled = conf.on
    /\ \A i \in DOMAIN alloc : alloc[i] = "stub" <=> InSplit(Weights[i])
    /\ dense.nlayer \in {0, -1} \/ \E i \in DOMAIN Weights : DecidedBy(Weights[i])
    /\ dense.done => phase # "create" /\ Allocated("stub") # {}

LEMMA InitSplit == Init => SplitInv
BY DEF Init, SplitInv, Allocated

LEMMA CreateSplit ==
  ASSUME Facts, Facts', SplitInv, NEW i \in DOMAIN Weights,
         CreateSlab(i) \/ CreateStub(i) \/ CreateWhole(i)
  PROVE  SplitInv'
<1>1. /\ phase = "create" /\ phase' = "create" /\ conf' = conf /\ engine' = engine
      /\ (dense' = dense \/ dense' = DenseAfter(Weights[i]))
      /\ engine.enabled = conf.on
  BY DEF CreateSlab, CreateStub, CreateWhole, Creates, SplitInv
<1>2. \/ dense' = dense
      \/ dense' = Decided(Weights[i]) /\ DenseWeight(Weights[i], Weights[i].bytes)
  BY <1>1 DEF DenseAfter
<1>3. \A j \in DOMAIN alloc' : alloc'[j] = "stub" <=> InSplit(Weights[j])'
  BY <1>1 DEF Facts, CreateInv, StreamedIn, InSplit, SplitInv, Weights
<1>4. ~dense'.done
  BY <1>1 DEF Facts, CreateInv
<1>5. dense'.nlayer \in {0, -1} \/ \E j \in DOMAIN Weights : DecidedBy(Weights[j])'
  <2>1. CASE dense' = dense
    BY <1>1, <2>1 DEF SplitInv, DecidedBy, Keep, Room, ScannedFfn, Weights
  <2>2. CASE dense' = Decided(Weights[i]) /\ DenseWeight(Weights[i], Weights[i].bytes)
    <3>1. CASE dense' = [dense EXCEPT !.nlayer = -1]
      BY <3>1 DEF Facts, RecordInv
    <3>2. CASE /\ ~(ExpertCount(conf.gguf) > 0) /\ BlockCount(conf.gguf) # 0
               /\ dense' = [dense EXCEPT !.nlayer = BlockCount(conf.gguf),
                                         !.first = Keep(Weights[i])]
      <4>1. /\ dense'.nlayer = BlockCount(conf.gguf) /\ dense'.first = Keep(Weights[i])
        BY <3>2 DEF Facts, RecordInv
      <4>2. DecidedBy(Weights[i])'
        BY <1>1, <2>2, <3>2, <4>1 DEF DecidedBy, Keep, Room, ScannedFfn, Weights
      <4> QED
        BY <4>2
    <3> QED
      BY <2>2, <3>1, <3>2 DEF Decided
  <2> QED
    BY <1>2, <2>1, <2>2
<1>6. Weights' = Weights
  BY <1>1 DEF Weights
<1> QED
  BY <1>1, <1>3, <1>4, <1>5, <1>6 DEF SplitInv

\* Later steps leave the split and the stubs alone.
LEMMA LaterSplit ==
  ASSUME SplitInv, conf' = conf, alloc' = alloc, phase' # "create",
         dense'.nlayer = dense.nlayer, dense'.first = dense.first,
         dense'.done => Allocated("stub") # {}
  PROVE  SplitInv'
<1>1. Weights' = Weights /\ Allocated("stub")' = Allocated("stub")
  BY DEF Weights, Allocated
<1>2. \A t : InSplit(t)' = InSplit(t)
  BY DEF InSplit
<1>3. \A t : DecidedBy(t) => DecidedBy(t)'
  BY DEF DecidedBy, Keep, Room, ScannedFfn
<1> QED
  BY <1>1, <1>2, <1>3 DEF SplitInv

LEMMA StepSplit == Facts /\ SplitInv /\ [Next]_vars => SplitInv'
<1> SUFFICES ASSUME Facts, SplitInv, [Next]_vars PROVE SplitInv'
  OBVIOUS
<1>0. Facts'
  BY StepFacts
<1>1. CASE UNCHANGED vars
  BY <1>1 DEF vars, SplitInv, InSplit, DecidedBy, Keep, Room, ScannedFfn, Weights, Allocated
<1>2. CASE \E i \in DOMAIN Weights : CreateSlab(i) \/ CreateStub(i) \/ CreateWhole(i)
  BY <1>0, <1>2, CreateSplit
<1>3. CASE \E n \in 1 .. MaxBatch : BuildGraph(n)
  <2>1. /\ conf' = conf /\ alloc' = alloc /\ phase' # "create"
        /\ (dense' = dense \/ dense' = DenseEnsured)
    BY <1>3 DEF BuildGraph
  <2>2. /\ dense'.nlayer = dense.nlayer /\ dense'.first = dense.first
        /\ dense'.done => Allocated("stub") # {}
    BY <2>1 DEF DenseEnsured, SplitInv, Facts, RecordInv
  <2> QED
    BY <2>1, <2>2, LaterSplit
<1>4. CASE LoadAllData \/ DropGraph \/ FinalizeWithoutExperts \/ FinalizeGivesUp
           \/ FinalizeSucceeds \/ Compute
  <2>1. conf' = conf /\ alloc' = alloc /\ phase' # "create" /\ dense' = dense
    BY <1>4 DEF LoadAllData, DropGraph, FinalizeWithoutExperts, FinalizeGivesUp,
                FinalizeSucceeds, Compute, FirstRemap, ZeroSlotOutcomes
  <2> QED
    BY <2>1, LaterSplit DEF SplitInv
<1> QED
  BY <1>1, <1>2, <1>3, <1>4 DEF Next

\* What the first dense weight decided, from the numbers of the header.
LEMMA DecisionRounds ==
  ASSUME conf \in Configs, conf.dense.how = "auto", conf.mem # Unknown, NEW t,
         NEW nl \in Nat \ {0}, nl = BlockCount(conf.gguf),
         ScanTotal(conf.gguf) \in Nat \ {0}, FileBytes(conf.gguf) \in Nat,
         ScanTotal(conf.gguf) <= FileBytes(conf.gguf)
  PROVE  /\ Room(t) \in Int /\ Keep(t) \in Nat
         /\ Room(t) = nl * (conf.mem - (FileBytes(conf.gguf) - ScanTotal(conf.gguf)))
                         - conf.bufs * ScanTotal(conf.gguf)
         /\ Keep(t) = Min({nl, (2 * Max({0, Room(t)}) + ScanTotal(conf.gguf))
                                  \div (2 * ScanTotal(conf.gguf))})
<1> DEFINE scan == ScanTotal(conf.gguf)
           file == FileBytes(conf.gguf)
           room == Room(t)
           h == (2 * Max({0, room}) + scan) \div (2 * scan)
<1>1. conf.mem \in Int /\ conf.bufs \in Nat
  BY MemoryAssumption
<1>2. ScannedFfn(t) = scan
  BY DEF ScannedFfn
<1>3. Max({0, file - scan}) = file - scan
  <2>1. file - scan \in Int /\ file - scan >= 0
    OBVIOUS
  <2> QED
    BY <2>1, MaxOfTwo
<1>4. room = nl * (conf.mem - (file - scan)) - conf.bufs * scan
  BY <1>2, <1>3 DEF Room
<1>5. Keep(t) = Min({nl, h})
  BY <1>2 DEF Keep
<1>6. scan \in Nat \ {0} /\ file \in Nat
  OBVIOUS
<1> HIDE DEF scan, file
<1>7. room \in Int
  BY <1>1, <1>4, <1>6
<1> HIDE DEF room
<1>8. h \in Nat
  <2> DEFINE a == 2 * Max({0, room}) + scan
  <2>1. Max({0, room}) \in Nat
    BY <1>7, MaxOfTwo
  <2>2. a \in Nat /\ 2 * scan \in Nat \ {0} /\ (2 * scan) * 0 <= a
    BY <1>6, <2>1
  <2> HIDE DEF a
  <2>3. a \div (2 * scan) \in Int /\ 0 <= a \div (2 * scan)
    BY <2>2, DivBounds, DivIsGreatest
  <2> QED
    BY <2>3 DEF a
<1> HIDE DEF h
<1>9. Min({nl, h}) \in Nat
  BY <1>8, MinOfTwo
<1> QED
  BY <1>4, <1>5, <1>7, <1>9 DEF h, room, scan, file

\* The stubs are the dense weights of the last layers, a whole number of them,
\* and each layer needs the same bytes in the arena.
LEMMA SplitIsTheTail ==
  ASSUME Facts, SplitInv, HeaderTellsTheFfn, OwnFile, LayersAlike, dense.done,
         conf.dense.how = "auto", conf.mem # Unknown
  PROVE  \E nl \in Nat \ {0}, f, per \in Nat, d \in DOMAIN Weights :
            /\ f \in 0 .. nl - 1 /\ nl = BlockCount(conf.gguf) /\ dense.nlayer = nl
            /\ dense.first = f /\ f = Keep(Weights[d])
            /\ SumOf(Ffn) \in Nat \ {0} /\ SumOf(Ffn) = nl * per
            /\ SumOf(Allocated("stub")) = (nl - f) * per
            /\ Max({SumOf(Stubs(l)) : l \in Layers}) = per
            /\ ScanTotal(conf.gguf) \in SumOf(Ffn) .. FileBytes(conf.gguf)
<1> DEFINE W == Weights
           nl == BlockCount(conf.gguf)
           f == dense.first
           LayerFfn(l) == {i \in Ffn : W[i].layer = l}
           From(k) == {i \in Ffn : W[i].layer >= k}
           per == BytesOf(W, LayerFfn(0))
<1>1. conf \in Configs /\ W \in Seq(WeightRecord) /\ DOMAIN alloc = DOMAIN W
  BY WeightsAreTyped DEF Facts, RecordInv, LoadedInv, SplitInv
<1>2. PICK i \in Allocated("stub") : TRUE
  BY DEF SplitInv
<1>3. i \in DOMAIN W /\ InSplit(W[i])
  BY <1>1, <1>2 DEF Allocated, SplitInv
<1>4. PICK d \in DOMAIN W : DecidedBy(W[d])
  BY <1>3 DEF InSplit, SplitInv
<1>5. /\ ~(ExpertCount(conf.gguf) > 0) /\ dense.nlayer = nl /\ f = Keep(W[d])
      /\ DenseWeight(W[d], W[d].bytes)
  BY <1>4 DEF DecidedBy
<1>6. /\ nl \in Nat /\ Layers = 0 .. nl - 1
      /\ ScanTotal(conf.gguf) \in SumOf(Ffn) .. FileBytes(conf.gguf)
  BY <1>1, <1>5 DEF HeaderTellsTheFfn, OwnFile, Layers, Ffn, SumOf, Weights
<1>7. \A j \in DOMAIN W : W[j].layer \in 0 .. nl - 1 /\ W[j].bytes \in Nat
  <2> TAKE j \in DOMAIN W
  <2>1. W[j] \in WeightRecord
    BY <1>1
  <2>2. W[j].layer \in Layers
    BY DEF Layers
  <2> QED
    BY <1>6, <2>1, <2>2 DEF WeightRecord
<1>8. Ffn \subseteq DOMAIN W
  BY DEF Ffn
<1>9. nl \in Nat \ {0}
  BY <1>3, <1>6, <1>7
<1>10. per \in Nat /\ SumOf(Ffn) \in Nat
  BY <1>1, BytesAreNat DEF SumOf
<1>11. \A l \in 0 .. nl - 1 : BytesOf(W, LayerFfn(l)) = per
  <2>1. \A l : OfLayer(l) \cap Ffn = LayerFfn(l)
    BY DEF OfLayer, Ffn
  <2>2. 0 \in 0 .. nl - 1
    BY <1>9
  <2> QED
    BY <1>6, <2>1, <2>2 DEF LayersAlike, SumOf
<1>12. \A k \in 0 .. nl : BytesOf(W, From(k)) = (nl - k) * per
  <2> HIDE DEF W, nl, per
  <2>1. \A j \in Ffn : W[j].layer \in 0 .. nl - 1
    BY <1>7, <1>8
  <2>2. \A l \in 0 .. nl - 1 : BytesOf(W, {j \in Ffn : W[j].layer = l}) = per
    BY <1>11
  <2>3. Ffn \in SUBSET DOMAIN W /\ nl \in Nat /\ W \in Seq(WeightRecord)
    BY <1>1, <1>6, <1>8
  <2>4. \A k \in 0 .. nl : BytesOf(W, {j \in Ffn : W[j].layer >= k}) = (nl - k) * per
    BY <1>10, <2>1, <2>2, <2>3, TailBytes
  <2> QED
    BY <2>4
<1>13. SumOf(Ffn) \in Nat \ {0}
  <2>1. W[d].bytes <= SumOf(Ffn)
    BY <1>1, <1>5, BytesOfMember DEF SumOf, Ffn
  <2>2. W[d].bytes > 0
    BY <1>5, <1>7, MinBytesAssumption DEF DenseWeight
  <2> QED
    BY <1>7, <1>10, <2>1, <2>2
<1>14. f \in Nat
  <2>1. FileBytes(conf.gguf) \in Nat
    BY <1>1, MemoryAssumption DEF OwnFile
  <2>2. ScanTotal(conf.gguf) \in Nat \ {0} /\ ScanTotal(conf.gguf) <= FileBytes(conf.gguf)
    BY <1>6, <1>13, <2>1
  <2>3. nl = BlockCount(conf.gguf) /\ conf \in Configs
    BY <1>1
  <2> HIDE DEF nl
  <2>4. Keep(W[d]) \in Nat
    BY <1>9, <2>1, <2>2, <2>3, DecisionRounds
  <2> QED
    BY <1>5, <2>4
<1>15. f \in 0 .. nl - 1
  BY <1>3, <1>6, <1>7, <1>14 DEF InSplit
<1>16. Allocated("stub") = From(f)
  BY <1>1, <1>3 DEF Allocated, SplitInv, InSplit, Ffn
<1>17. Ffn = From(0)
  BY <1>7, <1>8
<1>18. SumOf(Allocated("stub")) = (nl - f) * per /\ SumOf(Ffn) = nl * per
  <2>1. f \in 0 .. nl /\ 0 \in 0 .. nl /\ (nl - 0) * per = nl * per
    BY <1>9, <1>10, <1>15
  <2>2. BytesOf(W, From(f)) = (nl - f) * per
    BY <1>12, <2>1
  <2>3. BytesOf(W, From(0)) = nl * per
    BY <1>12, <2>1
  <2> HIDE DEF nl, f, per, From
  <2> QED
    BY <1>16, <1>17, <2>2, <2>3 DEF SumOf
<1>19. Max({SumOf(Stubs(l)) : l \in Layers}) = per
  <2>1. ASSUME NEW l \in Layers PROVE SumOf(Stubs(l)) = IF l >= f THEN per ELSE 0
    <3>1. l \in 0 .. nl - 1
      BY <1>6
    <3>2. CASE l >= f
      <4>1. Stubs(l) = LayerFfn(l)
        BY <1>16, <3>2 DEF Stubs, OfLayer, Ffn
      <4> QED
        BY <1>11, <3>1, <3>2, <4>1 DEF SumOf
    <3>3. CASE ~(l >= f)
      <4>1. Stubs(l) = {}
        BY <1>16, <3>3 DEF Stubs, OfLayer, Ffn
      <4> QED
        BY <1>1, <3>3, <4>1, BytesOfNone DEF SumOf
    <3> QED
      BY <3>2, <3>3
  <2>2. nl - 1 \in Layers /\ nl - 1 >= f
    BY <1>6, <1>9, <1>15
  <2> DEFINE All == {SumOf(Stubs(l)) : l \in Layers}
  <2>3. per \in All /\ \A y \in All : y \in Nat /\ per >= y
    BY <1>10, <2>1, <2>2
  <2> HIDE DEF All, per
  <2>4. \A x \in All : (\A y \in All : x >= y) => x = per
    BY <1>10, <2>3
  <2> QED
    BY <2>3, <2>4 DEF Max, All
<1>20. /\ f \in 0 .. nl - 1 /\ nl = BlockCount(conf.gguf) /\ dense.nlayer = nl
       /\ dense.first = f /\ f = Keep(Weights[d])
       /\ SumOf(Ffn) \in Nat \ {0} /\ SumOf(Ffn) = nl * per
       /\ SumOf(Allocated("stub")) = (nl - f) * per
       /\ Max({SumOf(Stubs(l)) : l \in Layers}) = per
       /\ ScanTotal(conf.gguf) \in SumOf(Ffn) .. FileBytes(conf.gguf)
  BY <1>5, <1>6, <1>13, <1>15, <1>18, <1>19
<1> HIDE DEF nl, f, per
<1> QED
  BY <1>9, <1>10, <1>14, <1>20

LEMMA SplitFits == Facts /\ SplitInv /\ HeaderTellsTheFfn => SplitFitsMemory
<1> DEFINE ffn == SumOf(Ffn)
           scan == ScanTotal(conf.gguf)
           file == FileBytes(conf.gguf)
           e == scan - ffn
           arena == IF dense.ready
                      THEN conf.bufs * Max({SumOf(Stubs(l)) : l \in Layers}) ELSE 0
           used == file - SumOf(Allocated("stub")) + arena
<1> SUFFICES ASSUME Facts, SplitInv, HeaderTellsTheFfn, OwnFile, LayersAlike, dense.done,
                    conf.dense.how = "auto", conf.mem # Unknown, dense.ready
             PROVE  /\ dense.first > 0 =>
                          2 * dense.nlayer * (used - conf.mem)
                              <= ffn + (2 * dense.nlayer + 1) * e
                    /\ 2 * dense.nlayer * (used - conf.mem) + ffn
                              + (2 * conf.bufs + 1) * e > 0
  BY DEF SplitFitsMemory
<1>1. PICK nl \in Nat \ {0}, f, per \in Nat, d \in DOMAIN Weights :
            /\ f \in 0 .. nl - 1 /\ nl = BlockCount(conf.gguf) /\ dense.nlayer = nl
            /\ dense.first = f /\ f = Keep(Weights[d])
            /\ ffn \in Nat \ {0} /\ ffn = nl * per
            /\ SumOf(Allocated("stub")) = (nl - f) * per
            /\ Max({SumOf(Stubs(l)) : l \in Layers}) = per
            /\ scan \in ffn .. file
  BY SplitIsTheTail
<1>2. conf \in Configs /\ file \in Nat /\ conf.mem \in Int /\ conf.bufs \in Nat
  BY MemoryAssumption DEF Facts, RecordInv, OwnFile
<1>3. used = file - (nl - f) * per + conf.bufs * per
  BY <1>1
<1> HIDE DEF used, ffn
<1>4. scan \in Nat \ {0} /\ scan <= file /\ e \in Nat /\ scan = ffn + e
  BY <1>1, <1>2
<1>5. /\ Room(Weights[d]) \in Int
      /\ Room(Weights[d]) = nl * (conf.mem - (file - scan)) - conf.bufs * scan
      /\ f = Min({nl, (2 * Max({0, Room(Weights[d])}) + scan) \div (2 * scan)})
  BY <1>1, <1>2, <1>4, DecisionRounds
<1> HIDE DEF scan, file, e
<1>6. SplitNumbers(nl, f, per, ffn, e, file, conf.mem, conf.bufs, Room(Weights[d]))
  BY <1>1, <1>2, <1>4, <1>5 DEF SplitNumbers
<1>7. LeastThatFits(nl, f, ffn, e, conf.mem, conf.bufs, Used(nl, f, per, file, conf.bufs))
  BY <1>6, SplitArithmetic
<1> QED
  BY <1>1, <1>3, <1>7 DEF LeastThatFits, Used

\* The dense split fits the memory budget and streams no layer too many, for
\* every model with layers of one size, every machine and number of buffers, if
\* the scan of the header covers the model's FFN and stays within the file.
THEOREM SplitKeepsToMemory ==
  ASSUME HeaderTellsTheFfn
  PROVE  Spec => []SplitFitsMemory
<1>1. Facts /\ SplitInv => SplitFitsMemory
  BY SplitFits
<1>2. Facts /\ SplitInv /\ [Next]_vars => (Facts /\ SplitInv)'
  BY StepFacts, StepSplit
<1>3. Init => Facts /\ SplitInv
  BY InitRecord, InitSplit DEF Facts
<1> QED
  BY <1>1, <1>2, <1>3, PTL DEF Spec
-----------------------------------------------------------------------------
(* Draft sizes: SpecLearning, for any candidates, concurrencies and polls. *)
(* The rate of a draft size must not depend on the frac the server         *)
(* resolves, which is not in the key of a row (MCSpecLearningFrac).        *)

SameAtEveryFrac == \A f, g \in Frac : Rate[f] = Rate[g]

\* A row holds the rate of its draft size at its concurrency.
DraftRowsInv ==
    /\ \A r \in rows : r.par \in Parallel
    /\ \A f \in Frac : \A r \in rows : r.rate = Rate[f][r.par][r.n]

\* Once a concurrency has rows for all candidates, a recorder that is still
\* there has changed no row since the start chose the fastest.
ChoiceInv ==
    /\ run.par \in Parallel /\ run.frac \in Frac
    /\ (/\ up /\ recorder > 0
        /\ \A i \in DOMAIN Candidates : \E r \in rows :
              r.par = run.par /\ r.n = Candidates[i])
       => \E m \in rows :
             /\ m.par = run.par /\ m.n = run.n
             /\ \A o \in rows : o.par = run.par => o.rate <= m.rate

DraftInv == DraftRowsInv /\ ChoiceInv
-----------------------------------------------------------------------------
LEMMA InitDraftInv == DraftInit => DraftInv
BY DEF DraftInit, DraftInv, DraftRowsInv, ChoiceInv

LEMMA StartDraftInv == DraftInv /\ Start => DraftInv'
<1> SUFFICES ASSUME DraftInv, Start PROVE DraftInv'
  OBVIOUS
<1>1. PICK p \in Parallel, f \in Frac :
         \E n \in Choice(p) : run' = [par |-> p, n |-> n, frac |-> f]
  BY DEF Start
<1>2. PICK n \in Choice(p) : run' = [par |-> p, n |-> n, frac |-> f]
  BY <1>1
<1>3. rows' = rows
  BY DEF Start
<1>4. ASSUME \A i \in DOMAIN Candidates : \E r \in rows : r.par = p /\ r.n = Candidates[i]
      PROVE  \E m \in rows :
                /\ m.par = p /\ m.n = n
                /\ \A o \in rows : o.par = p => o.rate <= m.rate
  <2>1. Untried(p) = {}
    BY <1>4 DEF Untried, RowsOf
  <2>2. n \in Fastest(p)
    BY <1>2, <2>1 DEF Choice
  <2> QED
    BY <2>2 DEF Fastest, RowsOf
<1>5. run'.par = p /\ run'.n = n /\ run'.frac = f
  BY <1>2
<1> QED
  BY <1>3, <1>4, <1>5 DEF DraftInv, DraftRowsInv, ChoiceInv

LEMMA KeepDraftInv ==
  ASSUME DraftInv,
         \/ Generate \/ Poll \/ Stop
         \/ UNCHANGED draftVars
  PROVE  DraftInv'
<1>1. rows' = rows /\ run' = run
  BY DEF Generate, Poll, Stop, draftVars
<1>2. CASE Generate \/ UNCHANGED draftVars
  BY <1>1, <1>2 DEF Generate, draftVars, DraftInv, DraftRowsInv, ChoiceInv
<1>3. CASE Poll
  BY <1>1, <1>3 DEF Poll, DraftInv, DraftRowsInv, ChoiceInv
<1>4. CASE Stop
  BY <1>1, <1>4 DEF Stop, DraftInv, DraftRowsInv, ChoiceInv
<1> QED
  BY <1>2, <1>3, <1>4

LEMMA RecordDraftInv == SameAtEveryFrac /\ DraftInv /\ Record => DraftInv'
<1> SUFFICES ASSUME SameAtEveryFrac, DraftInv, Record PROVE DraftInv'
  OBVIOUS
<1> DEFINE new == [par |-> run.par, n |-> run.n,
                   rate |-> Rate[run.frac][run.par][run.n]]
<1>1. rows' = (rows \ Replaced) \cup {new} /\ run' = run /\ recorder' = 0
  BY DEF Record
<1>2. \A f \in Frac : new.rate = Rate[f][new.par][new.n]
  BY DEF DraftInv, ChoiceInv, SameAtEveryFrac
<1>3. new.par \in Parallel
  BY DEF DraftInv, ChoiceInv
<1> HIDE DEF new
<1>4. DraftRowsInv'
  BY <1>1, <1>2, <1>3 DEF DraftInv, DraftRowsInv
<1> QED
  BY <1>1, <1>4 DEF DraftInv, ChoiceInv

\* What was chosen when every candidate had its row has the highest rate.
LEMMA ChosenIsFastest == SameAtEveryFrac /\ DraftInv => ConcurrencyIsRespected
<1> DEFINE rate == Rate[run.frac][run.par]
<1> SUFFICES ASSUME SameAtEveryFrac, DraftInv, up, recorder > 0,
                    Untried(run.par) = {}, NEW n \in Draft
             PROVE  rate[n] <= rate[run.n]
  BY DEF ConcurrencyIsRespected
<1>1. \A i \in DOMAIN Candidates : \E r \in rows : r.par = run.par /\ r.n = Candidates[i]
  BY DEF Untried, RowsOf
<1>2. PICK m \in rows :
         /\ m.par = run.par /\ m.n = run.n
         /\ \A o \in rows : o.par = run.par => o.rate <= m.rate
  BY <1>1 DEF DraftInv, ChoiceInv
<1>3. PICK o \in rows : o.par = run.par /\ o.n = n
  BY <1>1 DEF Draft
<1>4. m.rate = rate[run.n] /\ o.rate = rate[n]
  BY <1>2, <1>3 DEF DraftInv, DraftRowsInv, ChoiceInv
<1> QED
  BY <1>2, <1>3, <1>4

\* At no concurrency does the server run, once all candidates have their rows
\* there, at a draft size that rows of another concurrency made look good.
THEOREM DraftsAreTheirOwn ==
  ASSUME SameAtEveryFrac
  PROVE  DraftSpec => []ConcurrencyIsRespected
<1>1. DraftInv /\ [DraftNext]_draftVars => DraftInv'
  BY StartDraftInv, KeepDraftInv, RecordDraftInv DEF DraftNext
<1>2. DraftInv => ConcurrencyIsRespected
  BY ChosenIsFastest
<1> QED
  BY <1>1, <1>2, InitDraftInv, PTL DEF DraftSpec
==============================================================================
