# A verification project for moestream

moestream streams the weights of a language model from an SSD while llama.cpp
computes with it. A mixture-of-experts model keeps only some experts of each
layer in a *slab* in GPU-visible memory; a dense model keeps only its first
layers. Everything here is about one question in several guises: **when the GPU
multiplies, are the bytes it multiplies with the weights it was meant to use** -
and do the parts that decide what is kept where (cache policy, quotas, learned
settings) do what they say over long sequences of calls.

The modules are written from the source under `src/` of the repository (`src/src/...`
below). `PROJECT.json` maps every definition to the lines it models.

## 1. The system: components, state, interaction

| Component | Source | State it keeps | Operations | Modelled in |
|---|---|---|---|---|
| Expert cache | `src/src/expert_cache.{hpp,cpp}` | per (layer, expert): slot, reference count, segment, residency, frequency; per layer: SMALL, MAIN, GHOST queues, counts; free-slot stack; quotas and ghost hits | `acquire`, `mark_resident`, `release`, `end_step`, `build_pinned` | `LayerQuota`, `ExpertCache`, `EvictScan`, abstractly `SlotCache` |
| Slab remap (decode) | `src/src/llama-moestream.cpp`, `ms_remap_fn`, `build_remap_pass`, `run_reads_parallel` | `g_held` (references per layer and pass), slab bytes, staging memory | one remap per layer and pass: release, route, read, hand over | `SlabRemap`, `ReadBatch` |
| Prefill arena | same, `ms_pfload_fn`, `load_layer_arena`, `pf_wait`, `pf_kick` | arena buffers, `g_arena_layer`, `g_arena_have`, `g_prev_union`, the prefetch thread | load the layer's experts, prefetch the next layer's | `PrefillArena` |
| Dense streaming | same, `ms_dnload_fn`, `dense_load_layer`, `dn_wait`, `dn_kick` | arena buffers, `g_dn_resident`, the prefetch thread | load a layer, prefetch the next | `DenseArena` (claiming and the split: `Startup`) |
| Learned frac and micro-batch | `src/src/entrypoint.sh`, state files in `llama-moestream.cpp` | `tuning.tsv`, `ubatch.tsv`, `g_frac`, the memory peak | choose at start, sample, record at exit and while reporting | `Learning`, `MrcReport` |
| Learned speculation | `src/src/entrypoint.sh` | `spec.tsv`, a background recorder | choose at start, poll, record | `SpecLearning` |
| Miss ratio curve | `llama-moestream.cpp`, `mrc_touch`, `mrc_report` | stamps, histograms | count an access, read the curve, allocate slots to layers, recommend a share | `Mrc`, `MrcAllocation`, `MrcReport` |
| Start-up | `llama-moestream.cpp` (`slab_slots`, `dense_claim`, `skip_load`, `finalize`, `finalize_dense`, header scans), hooks of `src/src/apply.py` | how each weight was created, `g_enabled`, `g_cache`, `g_fds`, the threshold, the dense split | create and load weights, build a graph, first remap | `GgufHeader`, `Startup` |
| Thread tuner | `llama-moestream.cpp` | six candidates and their bandwidth | answer a number of threads | only its answers, in `ReadBatch` |
| Reports, launcher, images, probe, research | `src/launcher.sh`, ... | statistics | - | not modelled |

How they interact:

- The compute graph calls `ms_remap_fn` (decode) or `ms_pfload_fn` (prefill) as
  CPU operators before each layer's `mul_mat_id`. The graph's data dependencies
  are the only synchronisation between these operators and the GPU: a layer's
  router ids depend on the previous layer's output.
- `apply.py` hooks the loader (`create_tensor`, `load_all_data`) and the graph
  (`build_ffn`, `build_moe_ffn`). The loader decides by name and size what is
  created small; everything else that is to replace those weights comes later and
  separately: the dense arena with the first graph that is built, the slab's caches
  and the prefill arena with the first remap that is *executed*.
- `ms_remap_fn` owns one `ExpertCache` *per layer*, each with its own slab. Slots
  are referenced while the GPU may read them; references go onto the held lists
  and are returned when the same layer is remapped again.
- Reads run on threads that are joined inside the operator; the two prefetch
  threads (expert and dense) outlive the operator that started them and are
  joined at the start of the next one. None of the shared arrays has a lock:
  `join()` is the hand-over.
- `entrypoint.sh` runs before the server and shares only files and environment
  variables with it. The server writes them at exit and when it reports the
  curve; a file is replaced by renaming, so a kill leaves the old one.

What is hard about it: threads that fill buffers beside a running GPU; marks that
are set before the read they stand for; references whose return is postponed to
a later call; integer rounding in quotas and Sweep parts; a second-chance scan
with aging; two programs that resolve the same setting independently; kills
between two writes; reads that fail; start-up decisions taken twice, by different code, that
have to agree. `PROJECT.json`, "hazards", lists each at its line
with the properties that are about it, or why none is.

What makes each component correct:

- cache: no slot lost or given out twice, no entry in use evicted, queues and
  counters in step with the entries, eviction order as documented, quotas
  that cover the slots and starve nobody;
- remap: the GPU gets the right bytes; references come back; a pass that fits
  the slab never runs out; a Sweep answers each position once; no hang;
- read batch: each weight read once into its own place, inside the staging
  memory, no read running after the operator returned;
- arenas: the buffer the GPU reads is complete and untouched; marks are true;
  only one loader at a time; the pipeline moves;
- learning: rows are comparable measurements; the searches end at the best
  candidate; nothing learned for one model is applied to another; a recommendation
  fits the machine at the next start, and comes to rest;
- start-up: a weight is skipped only if something replaces it, every graph multiplies
  real weights, the slab holds what the arena threshold lets through, slab and
  dense split keep to their memory;
- curve: exact for LRU; the allocation bound is a bound, and attained.

## 2. Modules

```
LayerQuota  <-- ExpertCache  <-- EvictScan  <-- ExpertCacheProofs   (cache policy)
                    |  implements
                SlotCache    <-- SlabRemap  <-- SlabRemapProofs
                                 ReadBatch  <-- ReadBatchProofs   (one remap's reads)
PrefillArena <-- PrefillArenaProofs                 (weights streamed to an arena)
DenseArena   <-- DenseArenaProofs
GgufHeader <-- Startup <-- StartupProofs            (how a run begins)
SpecLearning           <-- StartupProofs
MrcReport <-- Learning <-- LearningProofs           (what is kept between runs)
Mrc <-- MrcAllocation <-- MrcProofs                 (the curve)
MCExpertCache, MCLearning, MCSpecLearning, MCStartup: instances for TLC
```

**LayerQuota** - quotas and their reallocation (`rebalance_quota`). The state is
`quota`, `ghost_hits` and `step`; actions are a ghost hit and the end of a step.
Doubles become exact rationals; rounding is modelled as the code does it
(`int64_t(x +- 0.5)`, integer division, two clamps, a top-up loop).

**ExpertCache** - the class, one action per method: `Acquire` (hit with promotion
and frequency; miss with ghost list, eviction or refusal, insertion), `MarkResident`,
`Release`, `EndStep`, `BuildPinned`. An eviction is given in closed form (whom it
takes, what it rotates and ages); **EvictScan** holds the loops of `evict_one` as
the code writes them, and in every state the two agree (`ScanMatchesLoops`).

**SlotCache** - what callers rely on: a table from keys to slots, references that
pin, requests that may be refused. `ExpertCache` implements it (`ImplementsSlotCache`,
a refinement mapping of `slot_` and `rc`), and `SlabRemap` uses only it, so what is shown of the
remap holds for any policy that implements it.

**SlabRemap** - `ms_remap_fn`: `BeginRemap` (wait for the graph dependency, return
held references), `Route` (one id: hit, miss, dropped, exhausted, other pass's),
`Read` (one miss, in any order, which may fail), `Launch` (the operator ends, the GPU
starts), `GpuDone`. The slab's bytes are part of the state, so "right weights" is a
statement about bytes and not about bookkeeping; `lost` remembers which seated
experts' reads were dropped or failed.

**ReadBatch** - the inside of the read phase: batches bounded by staging slots,
threads drawing jobs by a shared counter, uploads. The number of threads is any of those
the tuner may answer. `SlabRemap` takes a miss's read
as one step; `ReadBatch` shows what that relies on.

**PrefillArena** - `ms_pfload_fn` in the steps between which other actors can run
(`PfLoadStarts`, `PfLoadPlans`, `PfLoadReads`, `PfLoadEnds`), the thread's (`ThreadPlans`,
`ThreadReads`), the GPU's, and layers that take the slab path. Marks (`have`)
and bytes (`arena`) are separate, as in the code, where marks come first. The read
strategy (`g_prefetch`) is chosen once and either way. A read may fail (`ReadFails`), which `do_read`
tells nobody: the mark stays, and the bytes are whatever they were or became. `lost` remembers which
experts of a buffer that concerns, until the buffer changes its layer.

**DenseArena** - the same shape for dense models, with weights split into chunks
that are joined weight by weight.

**GgufHeader** - what is learned from the header of the file while the model is still
loading: integer entries, the scan for dense weights (a tensor's size is the distance to
the next offset), the bytes of one slot; headers may end early, shards may be missing.
**Startup** - the loader's three ways to create a weight, `load_all_data`, the graph
hooks, the warm-up, the first remap with `finalize` and everything that makes it give
up, `finalize_dense`. One configuration (machine, model, settings, the file
`MOESTREAM_GGUF` names) is chosen at the beginning. What a graph multiplies with is
computed when it runs; a graph without the weights it needs ends in an assertion
or with wrong weights. Expert weights of a single expert are included: `slab_slots` leaves them
whole and `skip_load` passes over them all the same.

**MrcReport** - the recommendation `mrc_report` makes from a curve, with its memory cap, in
integers. **Learning** - starts, requests (with cancelled ones), memory samples, reports,
clean stops in their two writes, kills, changing memory of other programs and
exchanges of the model file; the state is the two files, the model's geometry and the
run. **SpecLearning** - the same for draft sizes, with the recorder that polls.

**Mrc** - the counters next to LRU caches of every size fed the same accesses.
**MrcAllocation** - hulls and greedy allocation, as recursive functions of the points and of the rounds, computed in every
state `Mrc` reaches.

## 3. Runs

| Run | What it asks | Bounds, and why they are enough |
|---|---|---|
| `quota` | Are the slots always covered, is no layer starved, does quota follow near-misses? | 3 layers (a gainer, a loser, a bystander), 24 slots, minimum 4, learning rate 1/5, up to 3 ghost hits per period: all of clamping, scaling and topping up happens, in every order |
| `cache_layer` | One layer, as the runtime builds it | 5 experts for 3 slots: SMALL, MAIN and GHOST fill, evictions rotate and age, requests are refused. Symmetric in experts and slots |
| `cache_pool` | Layers sharing a pool with pinning and adaptive quotas, as the replay under `research/` builds it | 2 layers of 2 experts, 3 slots, 1 pinned: an odd slot to fight over |
| `remap` | Decode and Sweep, with and without drop mode, with batches the slab holds and batches it does not | 2 layers, the second dropping misses, 3 experts, 2 slots, batches up to 3 ids, 1 or 2 passes, 2 held lists a layer: eviction between tokens and between passes, exhaustion, an expert named twice, the next layer while the slab of the last is still held |
| `read_batch` | Threads, staging and direct reads | 3 misses, 1, 2 or 4 threads, 5 staging slots: more jobs than threads and fewer, full and partial batches, every mix of direct and staged weights |
| `arena` | Prefill | 3 layers on 2 buffers (so a buffer changes layer and the last layer's buffer meets the first's), 2 experts, every nonempty choice of the router, every batch size, both read strategies, and any read may fail |
| `dense` | Dense model | 6 layers, 5 of them streamed over 2 buffers, 2 weights of 3 chunks |
| `learning` | `MOESTREAM_CACHE_FRAC=learn` | 2 candidates, 2 geometries under one file name, others' memory wavering by less than the hysteresis, a report capped by memory for one and by nothing for the other, cancelled prompts |
| `spec` | `SPEC_DECODING=learn` | 3 draft sizes, 2 concurrencies with opposite optima, recorder giving up after 2 polls |
| `mrc` | The curve | 2 layers of 3 experts, all sequences of up to 8 accesses (`MaxTotal`): 8 is more than it takes to reach each distance in each layer |
| `startup` | Loading, the first graphs, `finalize` | 7 models (one dense layer among experts, two shards, few experts, a single expert, fused expert names, dense, unevenly quantised), their files present, absent, cut short or with a shard missing, unified memory or not, with or without arena memory, every memory size around the split's rounding |
| `startup_disabled` | (violation) Does the run go on with the right weights when streaming is disabled? | a model whose file cannot be opened |

Each stateful module also has a `TypeOK`, for reading; the runs spend their properties on
other questions. Deadlock is checked except in `read_batch`, where the remap returns
and is over, `mrc`, where accesses stop at the bound, and `startup`, where a run may
have ended in an assertion.

Named bounds in the modules: `MaxGhostHits` (ghost hits per period saturate),
`MaxRefs` (references callers hold on an expert), `MaxPass` and `MaxIds` (a Sweep's passes, a
batch's ids), `Polls` (the recorder's tries, 600 in the code), `MaxTotal`, `MaxBatch` (tokens of a graph, 4096 in
the threshold's search).

### Fairness

- Arena, dense and read batch: weak fairness of each step of an operator, a reader
  thread, and the GPU's completion. In `SlabRemap`, weak fairness of `Next` is enough:
  the system goes on while any of them can. Threads are scheduled by the
  operating system, `pread` returns (possibly with failure), a launched kernel ends. No
  fairness is assumed of requests in `PrefillArena` (`PfLoadStarts`, `SlabLayer`): no
  prompt need ever come. In `DenseArena` tokens are assumed to keep coming.
- `Learning`, `SpecLearning`: the operator keeps starting the server, and again and
  again a run lasts long enough (two requests; `SPEC_MIN_TOKENS`) and is stopped
  rather than killed. That is strong fairness, since kills may come in between any
  number of times; `docs/USAGE.md` asks for it ("stop the container, do not kill
  it"). Nothing is assumed about the recommendation, which may waver for ever.

## 4. What is proved

For every value of the constants that satisfies the modules' named assumptions
(`CacheAssumption`, `RemapAssumption`, `ArenaAssumption`, `ModelAssumption`, `ExpertAssumption`,
`LearningAssumption`, `MemoryAssumption`, `ScaleAssumption`, ...), which TLC evaluates for the instances it checks. Further premises are part of the theorem.

**ExpertCacheProofs.** *SlotsAreConserved*, *QueuesAlwaysMatch*, *CacheTypeCorrect*,
*QuotasSuffice*, *CacheQuotasSuffice*, *ColdestAlwaysGoesFirst*, *ForeignEvictionIsAlwaysLast* and
*CacheImplementsSlotCache*: any numbers of layers, experts and slots, any ghost length, pinning
included. The invariant has three parts. `LayerOk`, for one layer: its queues list the entries of
their segments once each, its counters count them, ids in the ghost list are not cached, only
cached experts have references. `Owned`, across layers: the slot table and the free stack
share the slots out. `QuotaInv`: every quota has its floor and together they cover the slots.
A miss that evicts passes through states in which a layer has given up an entry and the
miss is not yet enqueued, so `EvictionOk` and `EnqueueOk` carry `LayerOk` through the two halves of
the call and `OwnedMove` the slot from one to the other. `FreshInv` is needed for `build_pinned`
only: it pins where nothing is cached, and an id that were in a ghost list then would be pinned and
a ghost at once; but an eviction, which alone makes ghosts, leaves something cached. `Visible` says what each
call lets its callers see, and is mapped to the actions of `SlotCache`: together with
*RightExperts* below, which holds for every policy that implements `SlotCache`, the
result for the GPU is about S3-FIFO itself. The induction theorems of the library cannot be applied, so
`UpTo` derives induction over the layers from the least counterexample, and `SumToppedUp` with it that
the top-up loop hands out exactly what rounding lost.

*DemandIsFollowed*, of the same reallocation and for any learning rate: a layer with at least the quota
and more near-misses than another ends at most one slot below it. `Claim` is a
layer's quota times its rate-weighted share before rounding; `ClaimsFollowDemand` shows that claims keep
the order unless neither is positive, and then both layers are lifted to the minimum. Each
following step keeps the order: rounding half away from zero (`RoundedKeepsOrder`, with `RoundedCut` where
the two claims round on different sides of zero), the clamps, the scaling by division
(`ScaledKeepsOrder`); only the top-up, which runs through the layers in order, can hand one a slot more
(`ToppedUpKeepsOrder`), hence the "+ 1".

*ClosedFormIsTheLoops*: `ExpertCache` states an eviction in closed form (the victim, the
rotation, the aged entries) and this theorem makes it what `evict_one` does, so that nothing above hangs
on a reading of its loops. `Around(q, m, k)` is a queue of which the first k entries have gone round and m is
at the front. `ScanLoopIs` shows that a sequence of states which starts as the loop does and goes on round by
round (`RunsAs`) *is* what the recursive function computes, since two such functions cannot differ first
anywhere; `ScanSkipsAll` and `ScanFinds` give that sequence for a queue without and with a victim. `ScanMatches`
combines the three passes: SMALL with an idle entry, MAIN with one of low frequency, MAIN in
which every idle entry is aged and the third pass begins over, and neither.

**SlabRemapProofs.** *RightExperts*: for any numbers of layers, experts, slots,
passes and batch size, any policy that implements `SlotCache`, drop mode and failing
reads included, the GPU never multiplies with another expert's weights, unless the
read of that very expert was dropped or failed. `GpuReadsTheRightExperts` speaks of
the time the GPU runs and is not inductive; `IInv` follows an id from its routing on.
`CacheInv`: no two keys share a seat, a referenced key has one. `SlabInv`: a seated
key's weights are in its seat, or the key is pending or lost. `RoutingInv`: what has
been answered is the seat of a *referenced* key, and pending keys are referenced, so
neither can be evicted by the ids routed after it. `GpuInv`: while the GPU runs
nothing is routed and nothing is pending, so `SlabInv` gives the bytes. `BeginRemap`
may release references only because `DependencyMet` says the GPU is done.

*ReferencesComeBack* (premise `MaxPass <= PASS_KEYS`; without it `MCSlabRemapKeys`
violates the property): every reference in a layer's cache is on one of the
layer's held lists. `ListsInv` bounds what a list holds by the ids routed, so that
counting a list's items never saturates; `HeldKeyFacts` shows that il * 8 + pass is injective.

*SlotsSuffice* and *PassesAnswerOnce* (same premise). A miss finds a slot unless all are referenced. With
references on the held lists (above), a layer's references at that moment belong to the pass at work,
since the others were returned when it began; `OwnSlabs` keeps other layers out of the slab, so the referenced
seats belong to experts of this pass's part, and one of them, the one being routed, has none: `SlotLeft`
is the pigeonhole. That the experts of a pass are few enough is about `Part`, the ranks q\*s to
(q+1)\*s - 1 of the distinct experts: `PartIsSmall`, `PartsAreDisjoint` and `PartsCover`, each with the rounded
division of the code. `ServedInv` and `PassInv` say that exactly the positions of the parts so far have been
answered (when they fit), so no pass answers one twice and the last completes them.

**ReadBatchProofs.** *AllMissesAreRead*: any number of misses and threads, any staging
memory, any mix of direct and staged weights. `BatchInv`: below the shared counter every
job is delivered or in the hands of a thread, and the threads have ended only
when the counter is past the last job. `JobFacts` and `BlocksApart` show that two jobs of a
batch never share a staging slot and all slots lie inside the staging memory;
`PrefixInv` carries finished batches.

**PrefillArenaProofs.** *ArenaIsRight*, *GpuIsSpared*, *LoadersAlternate*, *MarksHold*,
*TypeCorrect*: any numbers of layers, experts and buffers, asynchronous or not, with either
read strategy, whichever reads fail: what is said of bytes excepts the experts of which a read has failed since
the buffer took its layer (without the exception, `MCPrefillArenaShortRead`). `ReadIntoFacts` is what one read
can do to bytes and to `lost`. `LoaderInv` says who may have reads outstanding and into which
buffer; `MarksAreTrue` ties marks to bytes; `OverlapInv` says that while the GPU computes layer l
the op rests, a thread can only be on layer l + 1, and each needed cell holds layer l or is lost. The
thread then writes buffer (l + 1) mod NBuf, which `NeighboursApart`
shows to be another one whenever there are two; without two there is no thread.

*PrefetchedLayersNeverStall*: with the read-all strategy, what the thread has been sent for is
complete. `PrefetchInv`: the layer in flight is the thread's, its list is all experts,
and once the thread has planned, all are marked. An op that finds its own layer in flight has joined the
thread before it plans, so nothing is left to read. It speaks of marks and of
jobs, whether or not the reads succeeded. The statement would fail if a mark could be taken back
between prefetch and use, or if the hint were the previous layer's union here too.

**DenseArenaProofs.** *DenseIsRight*, *ResidentMeansWhole*, with premise `~ReadsMayFail`
(`MCDenseArenaShortRead` shows why). `Holds`: the chunks a loader has joined hold its layer; a buffer
is declared resident only with all of them; `OverlapInv` as above.

**StartupProofs.** *SkippedNotWhole*, *EveryWeightIsReal*. `CreateInv`: how each
weight was created agrees with its name and with the dense split, which is decided at
the first dense weight and never again (`SplitFacts`); with it `LoadedInv` says that whatever
was not loaded is a slab, a stub, or an expert weight of a single expert, which both theorems except
(`MCStartupLoneExpert` shows why; *EveryWeightIsReal* still covers every other layer of such a model). `PairsInv`: a layer with stubs has them for `up` and
`down`, where `build_ffn` looks for the arena. `EngineInv`: `finalize` has succeeded before a
graph uses the slab's caches, the dense arena exists before a graph with stubs runs. The
property's own premises say when this holds: the file is the model's, the arena can be had,
a layer's weights are on one side of the size limit.

*EveryBatchFits*: what the loader sizes the slab for before it knows the batch, and what the threshold of the
first remap lets through later, agree. Both compute an expected union of experts; `Unions` is that sequence, and
`UnionInTopK` and `UnionInTokens` show, with the rounding of the model's integers, that it grows with the experts per token
and with the tokens (`GrownMonotone`), so a batch at or below the threshold is covered. `HoldInv` carries three facts from
loading to the graph: `SizeInv`, the slab has the size `slab_slots` gives; `ThresholdInv`, with an arena
(`ArenaFits`) the threshold's own batch fits the slab; `GraphInv`, a graph took its path by that threshold. That one or two
tokens fit for certain rests on the slots being at least need (`TwoTokensFit`). `ExpertAssumption` is what the
model's file must say: its expert weights are all of the model's number of experts, and the header tells how many a token uses
or the built-in 8 does. *BudgetIsKept* (premise `TablesListWeights`: the tensor tables of the model's own file list its
expert weights, each with its size): with `auto` the slab stays within its budget unless the smallest
that works is larger.

*SplitKeepsToMemory* (premise `HeaderTellsTheFfn`: the scan of the header counts at least the model's FFN weights and at most
the file, and its number of blocks is the model's; it is true of every configuration of `MCStartup`): with layers of one size, the split chosen with `MOESTREAM_DENSE_FRAC=auto` fits the
memory to half a layer, arena included, and streams no layer that would have fitted. `SplitInv` ties the split to
the dense weight that decided it and every stub to the split, from loading on. `DecisionRounds` is the decision's
rounded division; `SplitArithmetic` turns it into the two inequalities, given that the stubs are `(nl - first)` layers
of equal bytes. That they are is about sums: `BytesOf` adds weight by weight, `Share` and `Sums` are its partial sums,
`BytesOfApart` adds up disjoint sets, and with `TailBytes`, one layer at a time, `SplitIsTheTail` makes the stubs a
product. `CountUpTo` (the least counterexample again) stands in for the induction.

*DraftsAreTheirOwn*, of `SpecLearning` (premise `SameAtEveryFrac`; without it
`MCSpecLearningFrac`): `ChoiceInv` says that a recorder still waiting has changed no row since the
start chose, so what runs is still the fastest of the complete rows.

**LearningProofs.** *RunsAtItsOwnFrac* (premise `Steady`: other programs vary by less than the
smallest slab), *LearnedFracFits* (with `ReserveCovers`: the reserve is at least that
variation and the rounding of the frac), *EveryRowIsMeasured*. The key is `BudgetFacts`: what
the report takes for "everything that is not the slab" does not depend on the slab it was
made beside, so a recommendation depends on the other programs only; `TuningInv` says the
file holds such recommendations, filed under the right geometry. Both premises hold in the
checked instance and are about the machine, not the code: at exit, a reading lower than the
run's peak is taken for the same thing (`Steady`), and `MCLearningNoRoom` has a reserve
without room.

**MrcProofs.** *HistogramIsExact*: for any numbers of layers and experts and any accesses, the sum of the
histogram below c is the number of hits of an LRU cache of c slots, for every c. An LRU cache of c slots lists
the c experts touched last, in order (`KeepsLatest`), and an expert at distance d has been followed by exactly
d others (`DistTouched` follows that number through an access). So an expert is in the cache exactly if its
distance is less than c (`HitIsNear`), and at index distance + 1, from where a hit takes it
(`HitKeeps`; `MissKeeps` for the other case). `HitsCounted` adds one access to the partial sums.
The invariant is `StampInv` (stamps of a layer differ, except those of untouched experts, and are not past the clock), `CountInv`, `LruInv` and `HitsInv`.
*CountersStayTyped*: the stamps' part, for reading.

*BoundIsSound*, *BoundIsTight*, of `MrcAllocation`: whatever was counted, no way to spread the slots over the
layers brings more hits than the hulls and the greedy loop report, and where the loop cut no segment short its own slot
counts bring as many. The argument is a price per slot. `HullInv` is what the monotone chain keeps: points in
order, slopes falling, no count of slots above any of the lines through neighbouring points (`LineBothEnds`,
`HullGrows`: popping a dent and pushing the new point keep that). Where the slopes fall below a price, the hull's
point brings the most hits less price (`VertexIsOptimal`). `Ordered` describes the greedy loop: every layer stands on a
point of its hull, behind it lie exactly the segments taken, all at some price or above, and before it those at
that price or below, *the same price for all layers*. Taking the steepest segment left keeps that with the
segment's slope as the price (`NextSegment`: it begins where its layer stands; `WholeOrdered`); a segment that is
cut spends the budget at its slope (`CutIsBest`); and each round spends a slot at least (`TakeRound`). So the end
is best at a price in every layer, with the rest of the budget sold at that price (`BestAt`), and an allocation
within the budget cannot beat that (`BestBounds`, from `LayersBound`, which adds the layers up). The statements
are about `hist_l` alone, so they hold in every state. Nothing is assumed of the order of equal slopes; slopes are exact because
`Scale` is divided by every length (`ScaleAssumption`), where the code has doubles.

Model-checked only: liveness (`LoadEnds`, `TokensAdvance`, `RemapTerminates`, `ReadsEnd`, `SearchConverges`,
`FracSettles`), which needs fairness and ENABLED. Every safety property of a passing run is stated by a theorem, with
the premises named above.

## 5. Where the code and its words disagree

The listed violation, `startup_disabled`: `finalize` fills `g_cache` before it opens and
checks the shards. When one is missing or too short it clears `g_enabled`, but the
loader has passed over the expert weights and the slab was never read, the remap that called it goes on into
`ensure_zero_slot` with `g_maxb = 0`, and later remaps hand raw expert ids to that slab.
`src/src/llama-moestream.cpp:1455` says "Open every shard. If any is missing,
disable rather than misread silently."

The following configurations are kept to reproduce other disagreements; TLC
reports the named property violated.

| Configuration (module) | Property | What happens, and what the repository says |
|---|---|---|
| `MCLayerQuotaFit` (`LayerQuota`) | `QuotasFitTheSlots` | The minimum is reapplied after scaling, and quotas exceed the slots; `expert_cache.cpp:253`: "Normalize so the total never exceeds the slot count" |
| `MCExpertCacheRefusal` (`MCExpertCache`) | `RefusalMeansNothingEvictable` | With a shared pool a layer is refused while another has idle entries; `expert_cache.cpp:124`: "everything has refcount>0; nothing evictable". Not reachable with one cache per layer |
| `MCSlabRemapDrop` (`SlabRemap`) | `DroppedContributesNothing` | In drop mode a miss has already been entered in the cache when only its reference is returned, so the next access is a hit on a slot never read; 1933: "The slot is already reserved, so later accesses load it normally." |
| `MCSlabRemapShortRead` (`SlabRemap`) | `DroppedContributesNothing` | `do_read` (1230-1242) says nothing of a failed or short `pread`, and the slot is used; 1998, of another way to get there: "never swallow this; it corrupts output" |
| `MCSlabRemapKeys` (`SlabRemap`) | `RefsAreHeld` | `hkey` is il * 8 + pass, but a forced pass count is not clamped (2130): pass 8 files its references under the next layer (shown with 2 keys) |
| `MCPrefillArenaShortRead` (`PrefillArena`) | `NeedIsInTheArena` | `have` is set (2262) before the read, `do_read` is silent about a failed one, and later loads skip what is marked (2250); 2296: "Whatever is missing is fetched synchronously once the ids arrive, so a bad guess never changes the output" |
| `MCDenseArenaHead` (`DenseArena`) | `HeadComputeHidesReads` | Only a streamed layer's op starts the thread, so nothing is read while the resident head computes; 463: "with the tail streamed, the forward pass through the resident head is time the reads happen in" |
| `MCDenseArenaShortRead` (`DenseArena`) | `ResidentIsWhole` | `g_dn_resident` is set after a short read; later hits trust it |
| `MCStartupLoneExpert` (`MCStartup`) | `SkippedIsNeverWhole` | For an expert weight of a single expert `slab_slots` answers 0 (1020), so it is created whole, and `skip_load` passes over it by its name (1091): it is never read. 1093, of the dense weights: "Deciding again from the name would be a different test than the one that ran at allocation time, and the failure mode is a real weight left unread" |
| `MCLearningNoRoom` (`MCLearning`) | `NextStartFits` | When nothing fits beside the other programs (`fits` = 0) the recommendation is left uncapped (2872-2874) and recorded; 835, of the cap: "a recommendation that does not fit is worse than no recommendation: the server simply fails to start" |
| `MCLearningAuto` (`MCLearning`) | `SearchConverges` | With `auto`, rows are looked up at 0.15 (`entrypoint.sh:77`) and recorded at 0.38: the first candidate is measured at every start; `docs/USAGE.md:400`: "after four they are all in, and the fastest is used from then on" |
| `MCSpecLearningFrac` (`MCSpecLearning`) | `RowsAreComparable` | The key holds the text of `MOESTREAM_CACHE_FRAC`, so with `learn` rates of different fracs are compared; `entrypoint.sh:158` says rows are keyed by "the streaming configuration" |

More of what modelling brought up, visible in the modules' text and premises:

- With the variable unset, `FracSeen` is 0.25 where `FracUsed` is 0.15 or the learned value;
  `rows` have no geometry, so a model exchanged under its file name inherits
  measured rates (`SearchConverges` is therefore stated for a model that stays).
- `build_ffn` substitutes the arena only if `up` *and* `down` of a layer are claimed,
  but claiming is by size, tensor by tensor: with uneven quantisation a stub is
  multiplied and ggml asserts (`EvenLayers` excepts it; the comment at
  `src/src/apply.py:67` says nothing reads the stub). The same follows when
  `finalize_dense` cannot allocate the arena (`DenseArenaPossible`).
- The scan takes a tensor's size to be the distance to the next offset, so the last tensor of a shard
  gets the file's header with it. Where that is an FFN weight, the automatic split counts the excess once for every
  layer it keeps (`excess` in `SplitFitsMemory`).
- Graphs built before the first remap take the slab path whatever their batch
  (1822); the slab then holds their experts only by luck (`graph.late` in
  `SlabHoldsTheBatch`).
- `slab_slots` sizes the slab for `int(u * 1.15) + tk` slots, the threshold (1538) compares
  the expected union exactly: they agree (*EveryBatchFits*), but "always hold one micro-batch's union" (1063)
  is a statement about the expectation, not about every batch.
- `pf_req_close` only looks at single-token batches: a cancelled request's prompt is added to
  the next one's (958), and its row may stay wrong (`spoilt`).
- `PassesAnswerOnce` is about which pass answers which position. That a Sweep's passes are added up correctly
  is a matter of ggml's graph buffers, whose aliasing spoils it (`src/docs/RESULTS.md`, section 9, finding N4), and not in the model.
- Dense models never run `finalize`, so the exit hook is not installed and
  `UBATCH=learn` records nothing for them.

## 6. What is not modelled, and why

- Of start-up: the choice of the prefill read strategy (`PrefillArena` takes either)
  and the exit hook (`Learning` stops cleanly or not).
- What the thread tuner settles on: a matter of wall-clock bandwidth. `ReadBatch` takes
  any of its answers for each batch.
- Timing, statistics, reports: no decision modelled here depends on them, except
  the rates, which are a constant table, and the curve's hits, which are constants too
  where the recommendation is made.
- `apply.py`'s editing of llama.cpp's text (its hooks are modelled where they run), launcher,
  images, probe, research spikes: text processing, packaging, experiments.

Abstractions inside the modules are named in each module's head. The ones to keep in
mind: an expert's three weights are one cell in `SlabRemap` and `PrefillArena`
(`ReadBatch` has all three); floating point is replaced by integers in
hundredths or finer; reads may fail in `SlabRemap`, `PrefillArena` and `DenseArena` (there switched off for the passing run
and the theorems, by `ReadsMayFail`), while `ReadBatch` is about which reads are made and where they go; `rc` does not reach 2^16, which `RefsAreHeld` justifies; one
model file in `Learning`.

## 7. Plan

Done, in this order of importance: SlotCache, ExpertCache with its quotas, SlabRemap
and the proofs of both, PrefillArena, DenseArena and ReadBatch with theirs, Startup, Learning with
the report's memory cap and cancelled prompts, SpecLearning, Mrc.

To extend:

1. A module composing `ExpertCache` itself with the remap's held lists (one layer),
   so that policy and references are seen together, not only through `SlotCache`.
2. Several sequences decoding while another's prompt is loaded: the span `pf_req_close`
   measures then covers decode.

Not proved: liveness, above all `RemapTerminates` and `TokensAdvance`. What it would rest on is there
(references return, slots suffice, loaders alternate); the step from fairness to progress is TLC's.

## 8. Running it

    tlc -config MCSlabRemap.cfg SlabRemap.tla
    tlapm SlabRemapProofs.tla

Each run's module and configuration are in `PROJECT.json`; the longest, `remap`, takes
two to three minutes, `arena` about one. The mutants there replace a definition by a plausible mistake, marked
`Mutant` beside it, which breaks the property named.
