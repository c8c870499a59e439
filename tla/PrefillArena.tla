---------------------------- MODULE PrefillArena -----------------------------
(***************************************************************************)
(* The prefill path of src/src/llama-moestream.cpp.  A micro-batch runs    *)
(* the layers in order.  Before the mul_mat_id of a layer, the CPU op      *)
(* ms_pfload_fn reads the experts the router chose into an arena buffer    *)
(* (buffer il % NBuf for layer il), and, in the background, a thread       *)
(* started by pf_kick reads the next layer's into the next buffer while    *)
(* the GPU multiplies.                                                     *)
(*                                                                         *)
(* Abstractions: an expert's three weights are one cell of the buffer,     *)
(* tagged with the layer they belong to; the reads of one load complete    *)
(* in any order (run_reads_parallel).  Each of them may fail: do_read       *)
(* returns silently without a file or when pread ends early, and the mark  *)
(* that load_layer_arena set before it stays; lost, which the code has no  *)
(* counterpart of, remembers those cells.  A layer that has too few tokens *)
(* for the prefill path takes the slab path, which does not touch the      *)
(* arena.  Timing and statistics are left out.                             *)
(***************************************************************************)
EXTENDS Integers, FiniteSets

CONSTANTS
    NLayer,   \* MoE layers, 0 .. NLayer - 1 (keys of g_layers)
    Expert,   \* experts of a layer
    NBuf,     \* g_pf_nbuf, arena buffers that could be allocated
    Async,    \* g_pf_async
    Stale,    \* a cell whose bytes are no known layer's weights
    None      \* -1 for a layer, no load for a loader

ASSUME ArenaAssumption ==
    /\ NLayer \in Nat \ {0} /\ NBuf \in Nat \ {0}
    /\ Async \in BOOLEAN

Layer == 0 .. NLayer - 1
Buffer == 0 .. NBuf - 1

ASSUME ArenaNames == Stale \notin Layer /\ None \notin Layer

VARIABLES
    arena,       \* arena[b][e]: the layer whose weights of e the buffer holds
    arena_layer, \* g_arena_layer[b]
    have,        \* g_arena_have[b]
    lost,        \* lost[b]: the experts in have[b] of which a read failed
    prefetch,    \* g_prefetch: prefetch the previous union only, else everything
    prev_union,  \* g_prev_union[l]; empty before the layer's first large pass
    jobs,        \* cells each loader has still to read: "op" and "thread"
    thread,      \* g_pf_thread: not joinable, or its layer, hint and progress
    inflight,    \* g_pf_inflight
    op,          \* ms_pfload_fn: at which step it is, for which experts
    gpu,         \* the mul_mat_id launched last: busy, its layer and experts
    next,        \* the layer the graph comes to next
    batch        \* the micro-batch that runs, one of BatchSize

vars == <<arena, arena_layer, have, lost, prefetch, prev_union, jobs, thread,
          inflight, op, gpu, next, batch>>

\* How many tokens a layer computes: at most the threshold (the slab path),
\* more, or 256 and more (which also prefetches).
BatchSize == {"Few", "Some", "Many"}

BufferOf(l) == l % NBuf

\* finalize decides the strategy from what fits beside the slab, or is told.
Init ==
    /\ prefetch \in BOOLEAN
    /\ arena = [b \in Buffer |-> [e \in Expert |-> Stale]]
    /\ arena_layer = [b \in Buffer |-> None]
    /\ have = [b \in Buffer |-> {}] /\ lost = [b \in Buffer |-> {}]
    /\ prev_union = [l \in Layer |-> {}]
    /\ jobs = [op |-> {}, thread |-> {}]
    /\ thread = [layer |-> None, hint |-> {}, planned |-> FALSE]
    /\ inflight = None
    /\ op = [at |-> "idle", need |-> {}, large |-> FALSE]
    /\ gpu = [busy |-> FALSE, layer |-> 0, need |-> {}]
    /\ next = 0 /\ batch = "Few"
-----------------------------------------------------------------------------
(* load_layer_arena: what is still missing is marked and then read.        *)

\* Mutant: the resident set survives a switch of layers.
ResidentKept(l) == have[BufferOf(l)]

ResidentForgotten(l) == {}  \* Mutant: every load starts over.

\* The resident set is emptied when the buffer switches layers.
Resident(l) == IF arena_layer[BufferOf(l)] = l THEN have[BufferOf(l)] ELSE {}

\* What a buffer lost is forgotten with its marks, and only with them.
PlanLoad(loader, l, need) ==
    /\ have' = [have EXCEPT ![BufferOf(l)] = Resident(l) \cup need]
    /\ lost' = [lost EXCEPT ![BufferOf(l)] = @ \cap Resident(l)]
    /\ arena_layer' = [arena_layer EXCEPT ![BufferOf(l)] = l]
    /\ jobs' = [jobs EXCEPT ![loader] = need \ Resident(l)]

ReadSucceeds(l, e) ==
    /\ arena' = [arena EXCEPT ![BufferOf(l)][e] = l]
    /\ UNCHANGED lost

\* Nothing was read and the old bytes are still there, or it ended half-way.
ReadFails(l, e) ==
    /\ \E left \in {arena[BufferOf(l)][e], Stale} :
           arena' = [arena EXCEPT ![BufferOf(l)][e] = left]
    /\ lost' = [lost EXCEPT ![BufferOf(l)] = @ \cup {e}]

\* The reads of one expert in the loader's run_reads_parallel finish.
ReadInto(loader, l) ==
    \E e \in jobs[loader] :
        /\ ReadSucceeds(l, e) \/ ReadFails(l, e)
        /\ jobs' = [jobs EXCEPT ![loader] = @ \ {e}]
-----------------------------------------------------------------------------
(* The prefetch thread.                                                    *)

Joinable == thread.layer # None

ThreadPlans ==
    /\ Joinable /\ ~thread.planned
    /\ PlanLoad("thread", thread.layer, thread.hint)
    /\ thread' = [thread EXCEPT !.planned = TRUE]
    /\ UNCHANGED <<arena, prefetch, prev_union, inflight, op, gpu, next,
                   batch>>

ThreadReads ==
    /\ Joinable /\ thread.planned
    /\ ReadInto("thread", thread.layer)
    /\ UNCHANGED <<arena_layer, have, prefetch, prev_union, thread, inflight, op, gpu,
                   next, batch>>

ThreadEnded == thread.planned /\ jobs["thread"] = {}
-----------------------------------------------------------------------------
(* ms_pfload_fn.                                                           *)

\* A micro-batch keeps its size through the layers, except that the last one
\* computes only the rows that are output.
Micro(size) ==
    /\ next # 0 => batch' = batch
    /\ batch' \in BatchSize
    /\ \/ size = batch'
       \/ /\ next = NLayer - 1
          /\ <<size, batch'>> \in {<<"Few", "Some">>, <<"Few", "Many">>,
                                  <<"Some", "Many">>}

\* The router's ids for this layer arrive: the op sees them only when the GPU
\* has computed everything before them.
PfLoadStarts ==
    /\ op.at = "idle" /\ ~gpu.busy
    /\ \E need \in SUBSET Expert \ {{}}, size \in {"Some", "Many"} :
          /\ Micro(size)
          /\ op' = [at |-> "wait", need |-> need, large |-> size = "Many"]
          /\ prev_union' = IF size = "Many" THEN [prev_union EXCEPT ![next] = need]
                                           ELSE prev_union
    /\ UNCHANGED <<arena, arena_layer, have, lost, prefetch, jobs, thread, inflight,
                   gpu, next>>

JoinNobody == TRUE  \* Mutant: does not wait for the thread.

JoinsByFlag == ~Joinable \/ inflight = None  \* Mutant: waits for the flag.

\* join() returns when there is no thread or it has run to its end.
Joins == ~Joinable \/ ThreadEnded

NotJoinable == [layer |-> None, hint |-> {}, planned |-> FALSE]

Overlapping == Async /\ NBuf >= 2

\* pf_wait, then the synchronous load of whatever is missing.
PfLoadPlans ==
    /\ op.at = "wait"
    /\ Overlapping => Joins
    /\ IF Overlapping THEN thread' = NotJoinable /\ inflight' = None
                      ELSE UNCHANGED <<thread, inflight>>
    /\ PlanLoad("op", next, op.need)
    /\ op' = [op EXCEPT !.at = "load"]
    /\ UNCHANGED <<arena, prefetch, prev_union, gpu, next, batch>>

PfLoadReads ==
    /\ op.at = "load"
    /\ ReadInto("op", next)
    /\ UNCHANGED <<arena_layer, have, prefetch, prev_union, thread, inflight, op, gpu,
                   next, batch>>

\* Mutant: prefetches two layers ahead.
KickedTooFar(l) == l + 2

KickedLayer(l) == l + 1

\* Layer l's experts in its last large pass, or all of them.
Hint(l) == IF prefetch /\ prev_union[l] # {} THEN prev_union[l] ELSE Expert

Kicks == Overlapping /\ op.large /\ KickedLayer(next) \in Layer

NextLayer == (next + 1) % NLayer

\* The last read is in; pf_kick starts the thread for the next layer, and the
\* end of the op lets the GPU multiply with the buffer.
PfLoadEnds ==
    /\ op.at = "load" /\ jobs["op"] = {}
    /\ IF Kicks
         THEN /\ thread' = [layer |-> KickedLayer(next),
                            hint |-> Hint(KickedLayer(next)), planned |-> FALSE]
              /\ inflight' = KickedLayer(next)
         ELSE UNCHANGED <<thread, inflight>>
    /\ gpu' = [busy |-> TRUE, layer |-> next, need |-> op.need]
    /\ op' = [op EXCEPT !.at = "idle"]
    /\ next' = NextLayer
    /\ UNCHANGED <<arena, arena_layer, have, lost, prefetch, prev_union, jobs, batch>>

\* A layer with no more tokens than the threshold runs on the slab: the last
\* layer, which computes only the rows that are output, or a small batch.
SlabLayer ==
    /\ op.at = "idle" /\ ~gpu.busy
    /\ Micro("Few")
    /\ next' = NextLayer
    /\ UNCHANGED <<arena, arena_layer, have, lost, prefetch, prev_union, jobs, thread,
                   inflight, op, gpu>>

GpuDone ==
    /\ gpu.busy
    /\ gpu' = [gpu EXCEPT !.busy = FALSE]
    /\ UNCHANGED <<arena, arena_layer, have, lost, prefetch, prev_union, jobs, thread,
                   inflight, op, next, batch>>

Next ==
    \/ PfLoadStarts \/ PfLoadPlans \/ PfLoadReads \/ PfLoadEnds
    \/ SlabLayer \/ GpuDone
    \/ ThreadPlans \/ ThreadReads

Spec == Init /\ [][Next]_vars

\* Threads are scheduled, reads return and the GPU finishes its kernels.
FairSpec ==
    /\ Spec
    /\ WF_vars(PfLoadPlans) /\ WF_vars(PfLoadReads) /\ WF_vars(PfLoadEnds)
    /\ WF_vars(ThreadPlans) /\ WF_vars(ThreadReads) /\ WF_vars(GpuDone)
-----------------------------------------------------------------------------
TypeOK ==
    /\ arena \in [Buffer -> [Expert -> Layer \cup {Stale}]]
    /\ arena_layer \in [Buffer -> Layer \cup {None}]
    /\ have \in [Buffer -> SUBSET Expert] /\ lost \in [Buffer -> SUBSET Expert]
    /\ prefetch \in BOOLEAN
    /\ prev_union \in [Layer -> SUBSET Expert]
    /\ jobs \in [{"op", "thread"} -> SUBSET Expert]
    /\ thread \in [layer : Layer \cup {None}, hint : SUBSET Expert, planned : BOOLEAN]
    /\ inflight \in Layer \cup {None}
    /\ op \in [at : {"idle", "wait", "load"}, need : SUBSET Expert, large : BOOLEAN]
    /\ gpu \in [busy : BOOLEAN, layer : Layer, need : SUBSET Expert]
    /\ next \in Layer /\ batch \in BatchSize

\* While the GPU multiplies, every expert the router chose is in its buffer,
\* whatever the prefetch guessed, however the layers share the buffers ("a bad
\* guess never changes the output"), except the experts of which a read failed
\* since the buffer took the layer: what a failure spoils is its own expert.
ArenaFeedsTheRightExperts ==
    gpu.busy =>
        \A e \in gpu.need \ lost[BufferOf(gpu.layer)] :
            arena[BufferOf(gpu.layer)][e] = gpu.layer

\* The same without the exception: what load_layer_arena was asked for is there
\* when it returns.  A read that fails refutes it, and so does every later pass
\* that finds the expert marked; no run checks it but MCPrefillArenaShortRead.cfg.
NeedIsInTheArena ==
    gpu.busy => \A e \in gpu.need : arena[BufferOf(gpu.layer)][e] = gpu.layer

\* The thread never writes, or is about to write, the buffer the GPU reads.
PrefetchSparesTheGpu ==
    (gpu.busy /\ Joinable) => BufferOf(thread.layer) # BufferOf(gpu.layer)

\* The op and the thread never load at the same time: "state is handed over
\* across join()", g_arena_* has no other protection.
OneLoaderAtATime == op.at = "load" => ~Joinable /\ jobs["thread"] = {}

\* A cell marked resident holds the buffer's layer unless a loader still has it
\* to read or its read failed: the marks are set before the reads, and nobody
\* takes one for true while the read is under way.  One whose read failed stays
\* set, and load_layer_arena skips the expert until the buffer switches layers.
MarksAreTrue ==
    \A b \in Buffer : \A e \in have[b] \ lost[b] :
        \/ arena[b][e] = arena_layer[b]
        \/ op.at = "load" /\ b = BufferOf(next) /\ e \in jobs["op"]
        \/ Joinable /\ b = BufferOf(thread.layer) /\ e \in jobs["thread"]

\* With the read-all strategy a layer that was prefetched leaves the op nothing
\* to read ("read-all (never stall)"): a statement about the marks and the reads
\* they save, whether those that were made succeeded or not.
ReadAllNeverStalls ==
    [][ (PfLoadPlans /\ ~prefetch /\ inflight = next) => jobs'["op"] = {} ]_vars

\* Every load op ends: the thread it waits for runs to its end.
LoadEnds == op.at # "idle" ~> gpu.busy
=============================================================================
