----------------------------- MODULE DenseArena ------------------------------
(***************************************************************************)
(* Dense streaming in src/src/llama-moestream.cpp: the layers of a dense   *)
(* model from First on have no memory of their own.  Before such a layer   *)
(* runs, the CPU op ms_dnload_fn reads its weights into an arena buffer    *)
(* (il % NBuf) unless the thread that dn_kick started while the previous   *)
(* layer was computed has done so.                                         *)
(*                                                                         *)
(* A weight is read in chunks by as many threads, joined before the next   *)
(* weight is begun.  Layers below First compute from memory of their own.  *)
(* Timing and statistics are left out.                                     *)
(***************************************************************************)
EXTENDS Integers, FiniteSets

CONSTANTS
    NLayer,  \* g_dn_nlayer
    First,   \* g_dn_first: layers First .. NLayer - 1 are streamed
    NWeight, \* streamed weights of a layer, read in order
    NChunk,  \* chunks a weight is split into (g_dn_th)
    NBuf,    \* g_dn_nbuf
    ReadsMayFail, \* whether a pread may fail
    Stale,   \* a cell whose bytes are no layer's weight
    None     \* -1

ASSUME DenseAssumption ==
    /\ NLayer \in Nat \ {0} /\ First \in 0 .. NLayer - 1
    /\ NWeight \in Nat \ {0} /\ NChunk \in Nat \ {0} /\ NBuf \in Nat \ {0}
    /\ ReadsMayFail \in BOOLEAN

Layer == 0 .. NLayer - 1
Streamed == First .. NLayer - 1
Buffer == 0 .. NBuf - 1
Weight == 1 .. NWeight
Cell == Weight \X (1 .. NChunk)

ASSUME DenseNames == Stale \notin Layer /\ None \notin Layer

VARIABLES
    arena,    \* arena[b][c]: the layer whose chunk c the buffer holds
    resident, \* g_dn_resident[b]
    thread,   \* g_dn_thread: its layer (None: not joinable), cells read, ended
    inflight, \* g_dn_inflight
    op,       \* ms_dnload_fn: at which step it is, cells read
    gpu,      \* the FFN launched last: whether it runs, on which layer
    next      \* the layer the graph comes to next

vars == <<arena, resident, thread, inflight, op, gpu, next>>

BufferOf(l) == l % NBuf

NoThread == [layer |-> None, read |-> {}, ended |-> FALSE]

Init ==
    /\ arena = [b \in Buffer |-> [c \in Cell |-> Stale]]
    /\ resident = [b \in Buffer |-> None]
    /\ thread = NoThread
    /\ inflight = None
    /\ op = [at |-> "idle", read |-> {}]
    /\ gpu = [busy |-> FALSE, layer |-> 0]
    /\ next = 0
-----------------------------------------------------------------------------
(* dense_load_layer, as the steps of whoever runs it.                      *)

AlreadyResident(l) == resident[BufferOf(l)] = l

\* The chunks being read: what is left of the first weight not yet complete.
Reading(read) ==
    {c \in Cell \ read : \A d \in Cell \ read : c[1] <= d[1]}

\* A chunk that could not be read in full leaves bytes that are no weight.
ReadChunk(l, c) ==
    \/ arena' = [arena EXCEPT ![BufferOf(l)][c] = l]
    \/ ReadsMayFail /\ arena' = [arena EXCEPT ![BufferOf(l)][c] = Stale]

\* Mutant: the buffer is declared resident before it is read.
ResidentAtOnce(l, read) ==
    resident' = [resident EXCEPT ![BufferOf(l)] = l]

\* The buffer counts as resident once every chunk has been tried, short reads
\* included.
ResidentWhenRead(l, read) ==
    resident' = IF read = Cell THEN [resident EXCEPT ![BufferOf(l)] = l]
                ELSE resident

ThreadReads ==
    /\ thread.layer # None /\ ~thread.ended
    /\ \/ /\ AlreadyResident(thread.layer)
          /\ thread' = [thread EXCEPT !.ended = TRUE]
          /\ UNCHANGED <<arena, resident>>
       \/ /\ ~AlreadyResident(thread.layer)
          /\ \E c \in Reading(thread.read) :
                LET read == thread.read \cup {c} IN
                /\ ReadChunk(thread.layer, c)
                /\ ResidentWhenRead(thread.layer, read)
                /\ thread' = [thread EXCEPT !.read = read, !.ended = read = Cell]
    /\ UNCHANGED <<inflight, op, gpu, next>>
-----------------------------------------------------------------------------
(* ms_dnload_fn.                                                           *)

NextLayer == (next + 1) % NLayer

\* A layer of the resident head; nothing of this code runs.
ResidentLayer ==
    /\ op.at = "idle" /\ ~gpu.busy /\ next \notin Streamed
    /\ next' = NextLayer
    /\ UNCHANGED <<arena, resident, thread, inflight, op, gpu>>

JoinNobody == TRUE  \* Mutant: does not wait for the thread.

JoinsByFlag == inflight = None  \* Mutant: waits for a flag only it clears.

Joins == thread.layer = None \/ thread.ended

\* The hidden state arrives; dn_wait.
DnLoadJoins ==
    /\ op.at = "idle" /\ ~gpu.busy /\ next \in Streamed
    /\ Joins
    /\ thread' = (IF thread.ended THEN NoThread ELSE thread) /\ inflight' = None
    /\ op' = [at |-> "load", read |-> {}]
    /\ UNCHANGED <<arena, resident, gpu, next>>

DnLoadReads ==
    /\ op.at = "load" /\ ~AlreadyResident(next)
    /\ \E c \in Reading(op.read) :
          /\ ReadChunk(next, c)
          /\ ResidentWhenRead(next, op.read \cup {c})
          /\ op' = [op EXCEPT !.read = @ \cup {c}]
    /\ UNCHANGED <<thread, inflight, gpu, next>>

KickedTooFar(l) == l + 2  \* Mutant: prefetches two layers ahead.

KickedLayer(l) == l + 1

\* dn_kick: only with a second buffer, and not beyond the last layer.
Kicks == NBuf >= 2 /\ KickedLayer(next) \in Streamed

\* The layer is there: the next one is prefetched and the FFN starts.
DnLoadEnds ==
    /\ op.at = "load" /\ AlreadyResident(next)
    /\ IF Kicks THEN /\ thread' = [NoThread EXCEPT !.layer = KickedLayer(next)]
                     /\ inflight' = KickedLayer(next)
                ELSE UNCHANGED <<thread, inflight>>
    /\ op' = [op EXCEPT !.at = "idle"]
    /\ gpu' = [busy |-> TRUE, layer |-> next]
    /\ next' = NextLayer
    /\ UNCHANGED <<arena, resident>>

GpuDone ==
    /\ gpu.busy
    /\ gpu' = [gpu EXCEPT !.busy = FALSE]
    /\ UNCHANGED <<arena, resident, thread, inflight, op, next>>

Next ==
    \/ ThreadReads
    \/ ResidentLayer \/ DnLoadJoins \/ DnLoadReads \/ DnLoadEnds \/ GpuDone

Spec == Init /\ [][Next]_vars

\* Tokens keep coming, threads are scheduled, reads return, kernels finish.
FairSpec ==
    /\ Spec
    /\ WF_vars(ThreadReads) /\ WF_vars(ResidentLayer) /\ WF_vars(GpuDone)
    /\ WF_vars(DnLoadJoins) /\ WF_vars(DnLoadReads) /\ WF_vars(DnLoadEnds)
-----------------------------------------------------------------------------
TypeOK ==
    /\ arena \in [Buffer -> [Cell -> Layer \cup {Stale}]]
    /\ resident \in [Buffer -> Layer \cup {None}]
    /\ thread \in [layer : Streamed \cup {None}, read : SUBSET Cell, ended : BOOLEAN]
    /\ inflight = thread.layer
    /\ op \in [at : {"idle", "load"}, read : SUBSET Cell]
    /\ gpu \in [busy : BOOLEAN, layer : Layer]
    /\ next \in Layer

\* While the GPU computes a streamed layer, its buffer holds all the weights of
\* that layer and of no other ("the layer being computed and the layer being
\* prefetched never share a buffer").
GpuReadsItsLayer ==
    gpu.busy => \A c \in Cell : arena[BufferOf(gpu.layer)][c] = gpu.layer

\* The op and the thread never write an arena at the same time.
OneLoaderAtATime == op.at = "load" => thread.layer = None

\* A buffer that counts as resident holds its layer, unless a loader has since
\* begun to overwrite it: the hit path never trusts a half-read buffer.
ResidentIsWhole ==
    \A b \in Buffer : resident[b] # None =>
        \/ \A c \in Cell : arena[b][c] = resident[b]
        \/ op.at = "load" /\ b = BufferOf(next) /\ resident[b] # next
        \/ /\ thread.layer # None /\ ~thread.ended
           /\ b = BufferOf(thread.layer) /\ resident[b] # thread.layer

\* With two buffers every streamed layer but the first is being prefetched, or
\* has been, when its op starts ("Nothing to predict: layer il+1 is always
\* layer il+1").
LaterLoadsArePrefetched ==
    [][ (DnLoadJoins /\ NBuf >= 2 /\ next # First) => inflight = next ]_vars

\* What llama-moestream.h promises: "with the tail streamed the resident head's
\* compute is time the reads are hidden behind", so after the first token the
\* first streamed layer too is in flight, or read, when its op starts.
HeadComputeHidesReads ==
    [][ (DnLoadJoins /\ next = First /\ First > 0 /\ \E b \in Buffer : resident[b] # None)
          => inflight = next \/ AlreadyResident(next) ]_vars

\* Every token gets through every streamed layer.
TokensAdvance == \A l \in Streamed : []<>(gpu.busy /\ gpu.layer = l)
=============================================================================
