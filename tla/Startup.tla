------------------------------ MODULE Startup --------------------------------
(***************************************************************************)
(* How a run begins (src/src/llama-moestream.cpp, hooked into llama.cpp by *)
(* src/src/apply.py).  The loader creates every weight: expert weights as  *)
(* a slab of a few slots, dense weights of the tail layers as a one-row    *)
(* stub, and load_all_data then skips both.  From there on the promise is  *)
(* that something else takes their place: the dense arena from the first   *)
(* graph that is built, the slab with its caches and the prefill arena     *)
(* from the first remap that is executed, which runs finalize.             *)
(*                                                                         *)
(* Everything happens in one thread.  What varies is the machine, the      *)
(* model, the settings and the file MOESTREAM_GGUF names: conf, chosen     *)
(* once.  Sizes count in units of the smallest weight, fracs in            *)
(* hundredths, expected unions in thousandths of an expert.  Statistics,   *)
(* the exit hook and the choice of the prefill read strategy are left out. *)
(***************************************************************************)
EXTENDS GgufHeader

CONSTANTS
    Configs,   \* the configurations under study
    MaxBatch,  \* bound: tokens in a batch; the threshold search stops at 4096
    Unknown    \* device memory that sysfs does not tell

ASSUME MaxBatchAssumption == MaxBatch \in Nat \ {0, 1}

WeightRecord ==
    [layer : Nat, kind : {"exps", "fused", "ffn", "other"}, role : 0 .. 2,
     experts : Nat \ {0}, bytes : Nat, shard : Nat \ {0}, off : Nat]

\* A file that is the model's can be read, and it has every weight.  An expert
\* weight may have one expert; a layer with a dense FFN has its up and its down
\* (roles 1 and 2), and no experts.
ASSUME ModelAssumption ==
    \A c \in Configs : LET m == c.model IN
        /\ c.on \in BOOLEAN /\ c.uma \in BOOLEAN
        /\ m.weights \in Seq(WeightRecord)
        /\ m.shards # <<>> /\ \A s \in DOMAIN m.shards : m.shards[s].opens
        /\ \A i \in DOMAIN m.weights : LET w == m.weights[i] IN
              /\ w.kind = "ffn" => \A j \in DOMAIN m.weights :
                    m.weights[j].layer = w.layer => m.weights[j].kind \notin {"exps", "fused"}
              /\ w.kind = "ffn" => \A r \in {1, 2} : \E j \in DOMAIN m.weights :
                    /\ m.weights[j].layer = w.layer
                    /\ m.weights[j].kind = "ffn" /\ m.weights[j].role = r
              /\ w.shard \in DOMAIN m.shards
              /\ m.shards[w.shard].header + w.off + w.bytes <= m.shards[w.shard].size

\* Every expert weight has all the experts.  The header tells how many of them a
\* token uses, or the default that the slab takes in its place will do.
ASSUME ExpertAssumption ==
    \A c \in Configs : LET m == c.model IN
        /\ c.ub \in Nat /\ c.frac.value \in Nat /\ BytesPerSlot(c.gguf) \in Nat
        /\ \A i \in DOMAIN m.weights : m.weights[i].kind = "exps" =>
              /\ m.weights[i].experts = m.experts
              /\ m.topk \in 1 .. m.experts
              /\ \/ TopK(m.shards) = m.topk
                 \/ TopK(m.shards) = 0 /\ m.topk <= 8 /\ m.experts >= 8

\* Sizes are numbers, device memory may be unknown.
ASSUME MemoryAssumption ==
    \A c \in Configs :
        /\ c.bufs \in Nat /\ FileBytes(c.model.shards) \in Nat
        /\ c.mem = Unknown \/ c.mem \in Int

VARIABLES
    conf,    \* on, model, gguf, frac, ub, arena, warmup, uma, arenas, dense, mem, bufs
    phase,   \* "create", "idle", "built", "running" or "crashed"
    alloc,   \* alloc[i]: how weight i was created, a sequence that grows
    loaded,  \* the weights load_all_data read
    slots,   \* g_slots, and g_zero_slot: the slab has one slot more
    dense,   \* g_dn_nlayer (0 undecided, -1 off), g_dn_first, done and ready
    engine,  \* enabled, cache, open (g_fds), threshold, ready (g_pf_ready)
    graph,   \* the graph built last
    warm,    \* whether a graph was executed
    wrong    \* the layers the last graph multiplied with other weights

vars == <<conf, phase, alloc, loaded, slots, dense, engine, graph, warm, wrong>>

Weights == conf.model.weights
Layers == {Weights[i].layer : i \in DOMAIN Weights}

Allocated(how) == {i \in DOMAIN alloc : alloc[i] = how}
OfLayer(l) == {i \in DOMAIN Weights : Weights[i].layer = l}

NoGraph == [n |-> 0, topk |-> 0, late |-> FALSE, path |-> <<>>]

Init ==
    /\ conf \in Configs
    /\ phase = "create" /\ alloc = <<>> /\ loaded = {}
    /\ slots = 0
    /\ dense = [nlayer |-> 0, first |-> 0, done |-> FALSE, ready |-> FALSE]
    /\ engine = [enabled |-> conf.on, cache |-> FALSE, open |-> FALSE,
                 threshold |-> IF conf.arena THEN -1 ELSE 0, ready |-> FALSE]
    /\ graph = NoGraph /\ warm = FALSE /\ wrong = {}
-----------------------------------------------------------------------------
(* The size of the slab.                                                   *)

\* n_expert * (1 - (1 - top_k / n_expert) ^ n), token after token.
ExpectedUnion(nExpert, topk, n) ==
    LET u[k \in 0 .. n] ==
            IF k = 0 THEN 0 ELSE u[k - 1] + (topk * (1000 * nExpert - u[k - 1])) \div nExpert
    IN  u[n]

\* top_k of the slab, with the default when the metadata does not say.
SlabTopK == IF TopK(conf.gguf) > 0 THEN TopK(conf.gguf) ELSE 8

\* g_max_ubatch; the entrypoint raises it when the prefill arena is switched off.
MaxUbatch == IF conf.arena THEN 2 ELSE conf.ub

\* union(g_max_ubatch) with the margin of 1.15.
Need(nExpert) ==
    Min({nExpert,
         (115 * ExpectedUnion(nExpert, SlabTopK, MaxUbatch)) \div 100000 + SlabTopK})

\* learn and a number give a fraction of the experts, auto a budget in bytes.
SlotsWanted(nExpert) ==
    IF conf.frac.how = "number" THEN (2 * nExpert * conf.frac.value + 100) \div 200
    ELSE LET per == BytesPerSlot(conf.gguf)
         IN  IF per = 0 THEN (2 * nExpert * 38 + 100) \div 200
             ELSE Min({nExpert, Max({1, conf.frac.value \div per})})

SlabSlots(nExpert) ==
    Max({8, Min({nExpert, Max({SlotsWanted(nExpert), Need(nExpert)})})})
-----------------------------------------------------------------------------
(* The split of a dense model.                                             *)

ScannedFfn(t) ==
    IF ScanTotal(conf.gguf) > 0 THEN ScanTotal(conf.gguf)
    ELSE 3 * BlockCount(conf.gguf) * t.bytes

RoomIgnoringArena(t) ==  \* Mutant: the arena itself takes no memory.
    BlockCount(conf.gguf) * (conf.mem - Max({0, FileBytes(conf.gguf) - ScannedFfn(t)}))

\* Memory left for resident FFN weights, times the number of layers.
Room(t) ==
    LET ffn == ScannedFfn(t)
        other == Max({0, FileBytes(conf.gguf) - ffn})
    IN  BlockCount(conf.gguf) * (conf.mem - other) - conf.bufs * ffn

EverythingFits(t) ==
    IF conf.dense.how = "number" THEN conf.dense.value >= 100
    ELSE conf.mem = Unknown \/ Room(t) >= BlockCount(conf.gguf) * ScannedFfn(t)

Keep(t) ==
    LET nl == BlockCount(conf.gguf)
        ffn == ScannedFfn(t)
        half == IF conf.dense.how = "number" THEN (2 * conf.dense.value * nl + 100) \div 200
                ELSE (2 * Max({0, Room(t)}) + ffn) \div (2 * ffn)
    IN  Min({nl, half})

\* The decision of the first dense_claim.
Decided(t) ==
    IF ExpertCount(conf.gguf) > 0 \/ BlockCount(conf.gguf) = 0 \/ EverythingFits(t)
      THEN [dense EXCEPT !.nlayer = -1]
      ELSE [dense EXCEPT !.nlayer = BlockCount(conf.gguf), !.first = Keep(t)]

DenseAfter(t) ==
    IF engine.enabled /\ DenseWeight(t, t.bytes) /\ dense.nlayer = 0
      THEN Decided(t) ELSE dense

StreamedIn(t, d) ==
    engine.enabled /\ DenseWeight(t, t.bytes) /\ d.nlayer > 0 /\ t.layer >= d.first
-----------------------------------------------------------------------------
(* Loading: create_tensor for every weight, then load_all_data.            *)

WantsSlab(t) == engine.enabled /\ ExpertWeight(t) /\ t.experts > 1

Creates(i, how) ==
    /\ phase = "create" /\ i = Len(alloc) + 1 /\ i \in DOMAIN Weights
    /\ alloc' = Append(alloc, how)
    /\ UNCHANGED <<conf, phase, loaded, engine, graph, warm, wrong>>

CreateSlab(i) ==
    /\ Creates(i, "slab")
    /\ WantsSlab(Weights[i])
    /\ slots' = SlabSlots(Weights[i].experts)
    /\ UNCHANGED dense

CreateStub(i) ==
    /\ Creates(i, "stub")
    /\ ~WantsSlab(Weights[i])
    /\ dense' = DenseAfter(Weights[i])
    /\ StreamedIn(Weights[i], dense')
    /\ UNCHANGED slots

CreateWhole(i) ==
    /\ Creates(i, "whole")
    /\ ~WantsSlab(Weights[i])
    /\ dense' = DenseAfter(Weights[i])
    /\ ~StreamedIn(Weights[i], dense')
    /\ UNCHANGED slots

SkipByName(i) ==  \* Mutant: decides again from the name.
    engine.enabled /\ (ExpertWeight(Weights[i]) \/ DenseWeight(Weights[i], Weights[i].bytes))

\* The name decides for an expert weight, whatever slab_slots said to its size.
SkipLoad(i) == engine.enabled /\ (ExpertWeight(Weights[i]) \/ alloc[i] = "stub")

LoadAllData ==
    /\ phase = "create" /\ Len(alloc) = Len(Weights)
    /\ phase' = "idle"
    /\ loaded' = {i \in DOMAIN Weights : ~SkipLoad(i)}
    /\ UNCHANGED <<conf, alloc, slots, dense, engine, graph, warm, wrong>>
-----------------------------------------------------------------------------
(* Building a graph.                                                       *)

Routed(l) == \E i \in OfLayer(l) : Weights[i].kind \in {"exps", "fused"}

InSlab(l) == OfLayer(l) \cap Allocated("slab") # {}

Stubs(l) == OfLayer(l) \cap Allocated("stub")

ShardsOpen == conf.gguf # <<>> /\ \A i \in DOMAIN conf.gguf : conf.gguf[i].opens

EnsureNothing == dense  \* Mutant: waits for the first graph to run.

\* dense_ensure runs finalize_dense: every buffer is allocated, or none is kept.
DenseEnsured ==
    IF dense.done \/ ~engine.enabled \/ Allocated("stub") = {} THEN dense
    ELSE [dense EXCEPT !.done = TRUE,
                       !.ready = ShardsOpen /\ conf.uma /\ conf.arenas >= conf.bufs]

OpenAfterEnsure ==
    engine.open \/ (engine.enabled /\ Allocated("stub") # {} /\ ShardsOpen)

\* build_ffn takes the arena's tensors if up and down are both streamed.
Substituted(l, d) ==
    /\ engine.enabled /\ d.ready
    /\ {1, 2} \subseteq {Weights[i].role : i \in Stubs(l)}

\* prefill_exps: more tokens than the slab can serve go through the arena.
Path(l, n) ==
    IF ~Routed(l) THEN "plain"
    ELSE IF ~engine.enabled THEN "ids"
    ELSE IF InSlab(l) /\ engine.ready /\ n > engine.threshold THEN "arena"
    ELSE "remap"

\* llama.cpp warms up with a short batch in which every expert is selected.
WarmingUp == conf.warmup /\ ~warm

\* Multiplying a one-row stub fails an assertion of ggml.
BuildGraph(n) ==
    /\ phase = "idle" /\ n \in 1 .. conf.ub /\ (WarmingUp => n <= 2)
    /\ dense' = IF \E l \in Layers : ~Routed(l) THEN DenseEnsured ELSE dense
    /\ engine' = [engine EXCEPT !.open = OpenAfterEnsure]
    /\ graph' = [n |-> n, late |-> engine.cache,
                 topk |-> IF WarmingUp THEN conf.model.experts ELSE conf.model.topk,
                 path |-> [l \in Layers |-> Path(l, n)]]
    /\ phase' = IF \E l \in Layers : Stubs(l) # {} /\ ~Substituted(l, dense')
                  THEN "crashed" ELSE "built"
    /\ UNCHANGED <<conf, alloc, loaded, slots, warm, wrong>>

\* llama.cpp reserves memory with graphs it does not execute.
DropGraph ==
    /\ phase = "built" /\ phase' = "idle"
    /\ UNCHANGED <<conf, alloc, loaded, slots, dense, engine, graph, warm, wrong>>
-----------------------------------------------------------------------------
(* The first remap runs finalize.                                          *)

FirstRemapFinalizes ==
    /\ phase = "built" /\ engine.enabled /\ ~engine.cache
    /\ \E l \in Layers : graph.path[l] = "remap"

FirstRemap ==
    /\ FirstRemapFinalizes
    /\ UNCHANGED <<conf, alloc, loaded, slots, dense, graph, warm, wrong>>

\* No weight has a name the slab knows: nothing was changed, nothing is needed.
FinalizeWithoutExperts ==
    /\ FirstRemap /\ Allocated("slab") = {}
    /\ engine' = [engine EXCEPT !.enabled = dense.ready]
    /\ phase' = "running"

\* Every expert weight lies within the shard it claims.
ShardsValid ==
    \A i \in Allocated("slab") :
        LET w == Weights[i] IN
            /\ w.shard \in DOMAIN conf.gguf
            /\ conf.model.shards[w.shard].header + w.off + w.bytes <= conf.gguf[w.shard].size

\* ensure_zero_slot copies from zeros(g_maxb), which is empty if finalize gave up:
\* a copy from a null pointer.
ZeroSlotOutcomes == {"crashed", "running"}

\* g_cache is filled first, so this remap goes on; later remaps hand the ids
\* through.
FinalizeGivesUp ==
    /\ FirstRemap /\ Allocated("slab") # {}
    /\ ~(ShardsOpen /\ ShardsValid)
    /\ engine' = [engine EXCEPT !.enabled = FALSE, !.cache = TRUE, !.open = FALSE]
    /\ phase' \in ZeroSlotOutcomes

ArenaTopK == IF TopK(conf.gguf) > 0 THEN TopK(conf.gguf) ELSE graph.topk

\* union(n) * 1.15 + top_k <= g_slots
Fits(n) ==
    115 * ExpectedUnion(conf.model.experts, ArenaTopK, n) + 100000 * ArenaTopK
        <= 100000 * slots

ThresholdOfUbatch == conf.ub  \* Mutant: the slab serves whatever comes.

\* The largest n that fits, 1 at least.
Threshold == Max({1} \cup {n \in 2 .. MaxBatch : \A m \in 2 .. n : Fits(m)})

FinalizeSucceeds ==
    /\ FirstRemap /\ Allocated("slab") # {}
    /\ ShardsOpen /\ ShardsValid
    /\ LET threshold == IF engine.threshold < 0 THEN Threshold ELSE engine.threshold
       IN  engine' = [engine EXCEPT !.cache = TRUE, !.open = TRUE,
                                    !.threshold = threshold,
                                    !.ready = threshold > 0 /\ conf.uma /\ conf.arenas >= 1]
    /\ phase' = "running"
-----------------------------------------------------------------------------
(* Executing the graph.                                                    *)

\* What is read through g_fds are the weights of the model.
StreamsRightBytes ==
    /\ engine.open
    /\ \A i \in DOMAIN conf.gguf : conf.gguf[i].tensors = conf.model.shards[i].tensors

\* What a weight of layer l is multiplied as: itself, the arena's tensor, or a
\* slab that is indexed with slots, or else with the router's own ids.
RightWeight(l, i) ==
    CASE alloc[i] = "whole" -> i \in loaded
      [] alloc[i] = "stub" -> StreamsRightBytes
      [] alloc[i] = "slab" ->
             /\ StreamsRightBytes
             /\ \/ graph.path[l] = "arena"
                \/ graph.path[l] = "remap" /\ engine.enabled /\ engine.cache

Compute ==
    /\ \/ phase = "running"
       \/ phase = "built" /\ ~FirstRemapFinalizes
    /\ phase' = "idle"
    /\ wrong' = {l \in Layers : \E i \in OfLayer(l) : ~RightWeight(l, i)}
    /\ warm' = TRUE
    /\ UNCHANGED <<conf, alloc, loaded, slots, dense, engine, graph>>

Next ==
    \/ \E i \in DOMAIN Weights : CreateSlab(i) \/ CreateStub(i) \/ CreateWhole(i)
    \/ LoadAllData
    \/ \E n \in 1 .. MaxBatch : BuildGraph(n)
    \/ DropGraph
    \/ FinalizeWithoutExperts \/ FinalizeGivesUp \/ FinalizeSucceeds
    \/ Compute

Spec == Init /\ [][Next]_vars
-----------------------------------------------------------------------------
TypeOK ==
    /\ conf \in Configs
    /\ phase \in {"create", "idle", "built", "running", "crashed"}
    /\ alloc \in Seq({"slab", "stub", "whole"}) /\ Len(alloc) <= Len(Weights)
    /\ loaded \subseteq DOMAIN Weights
    /\ slots \in Nat
    /\ dense.nlayer \in Nat \cup {-1} /\ dense.first \in Nat
    /\ dense.done \in BOOLEAN /\ dense.ready \in BOOLEAN
    /\ engine.threshold \in Nat \cup {-1}
    /\ wrong \subseteq Layers

\* slab_slots leaves an expert weight of a single expert as it is.
LoneExpert(i) == ExpertWeight(Weights[i]) /\ Weights[i].experts = 1

\* A weight that load_all_data passes over was created as a slab or as a stub,
\* and not whole, unless it is an expert weight of a single expert: "the failure
\* mode is a real weight left unread".
SkippedIsReplaced ==
    phase # "create" =>
        \A i \in DOMAIN Weights \ loaded : alloc[i] # "whole" \/ LoneExpert(i)

\* The same without the exception.  A single expert refutes it: slab_slots has it
\* created whole, skip_load decides "again from the name" and leaves it unread.
\* No run checks it but MCStartupLoneExpert.cfg.
SkippedIsNeverWhole ==
    phase # "create" => \A i \in DOMAIN Weights \ loaded : alloc[i] # "whole"

LoneLayers == {Weights[i].layer : i \in {j \in DOMAIN Weights : LoneExpert(j)}}

OwnFile == conf.gguf = conf.model.shards

DenseArenaPossible == conf.uma /\ conf.arenas >= conf.bufs

\* Quantisation leaves up and down of a layer on the same side of MinBytes.
EvenLayers ==
    \A l \in Layers : \A i, j \in OfLayer(l) :
        (Weights[i].kind = "ffn" /\ Weights[j].kind = "ffn")
            => (Weights[i].bytes >= MinBytes) = (Weights[j].bytes >= MinBytes)

\* Every graph multiplies with the model's own weights, whether they are whole,
\* in a slab or in an arena, whichever settings and machine, as long as the file
\* is the model's and the dense arena can be had: "Nothing reads the stub,
\* because build_ffn substitutes the arena tensor for it".  The layers of a
\* single expert are excepted, and no layer beside them.
WeightsAreReal ==
    (OwnFile /\ DenseArenaPossible /\ EvenLayers) =>
        phase # "crashed" /\ wrong \subseteq LoneLayers

\* When moestream finds that it cannot stream and disables itself, the run goes
\* on with the right weights ("disable rather than misread silently").
DisablingIsHarmless ==
    (conf.on /\ ~engine.enabled) => phase # "crashed" /\ wrong = {}

\* A batch on the slab path is expected to find slots for all of its experts,
\* and one of two tokens is sure to: what the loader sized the slab for is what
\* the arena threshold lets through.  Graphs from before finalize are excepted,
\* and machines on which no arena can be had.
SlabHoldsTheBatch ==
    (/\ phase = "built" /\ engine.enabled /\ graph.late /\ OwnFile
     /\ engine.ready \/ ~conf.arena
     /\ \E l \in Layers : InSlab(l) /\ graph.path[l] = "remap")
        => /\ ExpectedUnion(conf.model.experts, graph.topk, graph.n) <= 1000 * slots
           /\ graph.n <= 2 => Min({conf.model.experts, graph.n * graph.topk}) <= slots

\* The bytes of the weights in S, added up one by one.
BytesOf(weights, S) ==
    LET upTo[n \in 0 .. Len(weights)] ==
            IF n = 0 THEN 0
                     ELSE upTo[n - 1] + (IF n \in S THEN weights[n].bytes ELSE 0)
    IN  upTo[Len(weights)]

SumOf(S) == BytesOf(Weights, S)

\* One expert of every expert weight of a model.
SlotOfWeights(m) ==
    MapThenSumSet(LAMBDA i : m.weights[i].bytes \div m.weights[i].experts,
                  {i \in DOMAIN m.weights : ExpertWeight(m.weights[i])})

\* cache_frac=auto spends the budget it is given, unless the smallest slab that
\* works is larger.
SlabKeepsItsBudget ==
    (Allocated("slab") # {} /\ OwnFile /\ conf.frac.how = "auto")
        => \/ slots * SlotOfWeights(conf.model) <= conf.frac.value
           \/ slots = Max({8, Need(conf.model.experts)})

Ffn == {i \in DOMAIN Weights : DenseWeight(Weights[i], Weights[i].bytes)}

LayersAlike ==
    \A l, m \in Layers : SumOf(OfLayer(l) \cap Ffn) = SumOf(OfLayer(m) \cap Ffn)

\* The dense split the loader chose, with the arena the first graph allocates,
\* fits the memory budget up to rounding, half a layer, and streams no layer that
\* would have fitted ("stream the least that still fits").  The scan takes the
\* file's header for a part of the last tensor: where that is an FFN weight, the
\* excess counts once for every layer kept.
SplitFitsMemory ==
    LET nl == dense.nlayer
        ffn == SumOf(Ffn)
        excess == ScanTotal(conf.gguf) - ffn
        arena == IF dense.ready
                   THEN conf.bufs * Max({SumOf(Stubs(l)) : l \in Layers}) ELSE 0
        used == FileBytes(conf.gguf) - SumOf(Allocated("stub")) + arena
    IN  (/\ OwnFile /\ conf.dense.how = "auto" /\ conf.mem # Unknown /\ LayersAlike
         /\ dense.done /\ dense.ready)
            => /\ dense.first > 0 =>
                     2 * nl * (used - conf.mem) <= ffn + (2 * nl + 1) * excess
               /\ 2 * nl * (used - conf.mem) + ffn + (2 * conf.bufs + 1) * excess > 0
=============================================================================
