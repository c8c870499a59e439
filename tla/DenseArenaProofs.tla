--------------------------- MODULE DenseArenaProofs --------------------------
(***************************************************************************)
(* Proofs about DenseArena: with any number of layers, buffers, weights    *)
(* and chunks, and any interleaving of the op, the prefetch thread and the *)
(* GPU.  The argument follows a buffer from the first chunk to the FFN:    *)
(* what a loader has read is there, a buffer is declared resident when     *)
(* everything was read, and from the FFN's start nobody writes it, because *)
(* the op rests and the thread is one layer ahead, in another buffer.      *)
(***************************************************************************)
EXTENDS DenseArena, TLAPS

\* Adjacent layers have different buffers as soon as there are two.
LEMMA ModNeighboursApart ==
  ASSUME NEW n \in Nat, n >= 2, NEW l \in Nat
  PROVE  (l + 1) % n # l % n
<1> SUFFICES ASSUME (l + 1) % n = l % n PROVE FALSE
  OBVIOUS
<1> DEFINE d == l \div n
           f == (l + 1) \div n
<1>1. d \in Int /\ f \in Int /\ l % n \in Int
  OBVIOUS
<1>2. l = n * d + (l % n) /\ l + 1 = n * f + ((l + 1) % n)
  OBVIOUS
<1>3. n * f = n * d + 1
  BY <1>1, <1>2
<1> HIDE DEF d, f
<1>4. CASE f <= d
  <2>1. n * f <= n * d
    BY <1>1, <1>4
  <2> QED
    BY <1>1, <1>3, <2>1
<1>5. CASE f >= d + 1
  <2>1. n * f >= n * (d + 1)
    BY <1>1, <1>5
  <2>2. n * (d + 1) = n * d + n
    BY <1>1
  <2> QED
    BY <1>1, <1>3, <2>1, <2>2
<1> QED
  BY <1>1, <1>4, <1>5

StateInv ==
    /\ arena \in [Buffer -> [Cell -> Layer \cup {Stale}]]
    /\ resident \in [Buffer -> Layer \cup {None}]
    /\ thread \in [layer : Layer \cup {None}, read : SUBSET Cell, ended : BOOLEAN]
    /\ thread.ended => thread.layer # None
    /\ op \in [at : {"idle", "load"}, read : SUBSET Cell]
    /\ gpu \in [busy : BOOLEAN, layer : Layer]
    /\ next \in Layer

\* The cells a loader has read hold the layer it loads.
Holds(l, read) ==
    resident[BufferOf(l)] # l => \A c \in read : arena[BufferOf(l)][c] = l

LoaderInv ==
    /\ op.at = "load" => Holds(next, op.read)
    /\ (thread.layer # None /\ ~thread.ended) => Holds(thread.layer, thread.read)

\* While the GPU runs, the op rests and the thread is one layer ahead.
OverlapInv ==
    gpu.busy =>
        /\ op.at = "idle"
        /\ thread.layer # None => thread.layer = gpu.layer + 1 /\ NBuf >= 2

IInv ==
    /\ StateInv /\ OneLoaderAtATime /\ LoaderInv
    /\ ResidentIsWhole /\ OverlapInv /\ GpuReadsItsLayer
-----------------------------------------------------------------------------
LEMMA BufferRange == \A l \in Layer : BufferOf(l) \in Buffer
BY DenseAssumption DEF BufferOf, Buffer, Layer

LEMMA NextLayerRange == next \in Layer => NextLayer \in Layer
BY DenseAssumption DEF NextLayer, Layer

LEMMA InitIInv == Init => IInv
<1> SUFFICES ASSUME Init PROVE IInv
  OBVIOUS
<1>1. 0 \in Layer
  BY DenseAssumption DEF Layer
<1> QED
  BY <1>1, DenseNames DEF Init, IInv, StateInv, OneLoaderAtATime, LoaderInv,
                          ResidentIsWhole, OverlapInv, GpuReadsItsLayer, NoThread
-----------------------------------------------------------------------------
(* One lemma per action.                                                   *)

\* A read that succeeds brings one cell of the buffer, and after the last one the
\* buffer is whole.
LEMMA ReadFacts ==
  ASSUME ~ReadsMayFail, StateInv, NEW l \in Layer, NEW read \in SUBSET Cell,
         NEW c \in Cell, Holds(l, read), resident[BufferOf(l)] # l,
         ReadChunk(l, c), ResidentWhenRead(l, read \cup {c})
  PROVE  /\ arena' \in [Buffer -> [Cell -> Layer \cup {Stale}]]
         /\ resident' \in [Buffer -> Layer \cup {None}]
         /\ \A b \in Buffer \ {BufferOf(l)} :
               arena'[b] = arena[b] /\ resident'[b] = resident[b]
         /\ \A d \in read \cup {c} : arena'[BufferOf(l)][d] = l
         /\ \/ /\ read \cup {c} = Cell /\ resident'[BufferOf(l)] = l
            \/ /\ read \cup {c} # Cell /\ resident'[BufferOf(l)] # l
<1>1. BufferOf(l) \in Buffer
  BY BufferRange
<1>2. arena' = [arena EXCEPT ![BufferOf(l)][c] = l]
  BY DEF ReadChunk
<1>3. /\ arena' \in [Buffer -> [Cell -> Layer \cup {Stale}]]
      /\ arena'[BufferOf(l)][c] = l
      /\ \A d \in Cell \ {c} : arena'[BufferOf(l)][d] = arena[BufferOf(l)][d]
      /\ \A b \in Buffer \ {BufferOf(l)} : arena'[b] = arena[b]
  BY <1>1, <1>2 DEF StateInv
<1>4. CASE read \cup {c} = Cell
  <2>1. resident' = [resident EXCEPT ![BufferOf(l)] = l]
    BY <1>4 DEF ResidentWhenRead
  <2> QED
    BY <1>1, <1>3, <1>4, <2>1 DEF StateInv, Holds
<1>5. CASE read \cup {c} # Cell
  <2>1. resident' = resident
    BY <1>5 DEF ResidentWhenRead
  <2> QED
    BY <1>1, <1>3, <1>5, <2>1 DEF StateInv, Holds
<1> QED
  BY <1>4, <1>5

LEMMA ThreadReadsIInv ==
  ASSUME ~ReadsMayFail, IInv, ThreadReads
  PROVE  IInv'
<1> USE DEF IInv
<1> DEFINE l == thread.layer
<1>1. /\ l \in Layer /\ l # None /\ ~thread.ended /\ op.at = "idle"
      /\ BufferOf(l) \in Buffer
      /\ UNCHANGED <<inflight, op, gpu, next>>
  BY BufferRange DEF ThreadReads, StateInv, OneLoaderAtATime
<1>2. CASE AlreadyResident(l)
  <2>1. /\ thread' = [thread EXCEPT !.ended = TRUE]
        /\ UNCHANGED <<arena, resident>>
    BY <1>2 DEF ThreadReads
  <2>2. /\ thread' \in [layer : Layer \cup {None}, read : SUBSET Cell, ended : BOOLEAN]
        /\ thread'.layer = l /\ thread'.ended
    BY <2>1 DEF StateInv
  <2>3. StateInv' /\ OneLoaderAtATime'
    BY <1>1, <2>1, <2>2 DEF StateInv, OneLoaderAtATime
  <2>4. LoaderInv'
    BY <1>1, <2>1, <2>2 DEF LoaderInv
  <2>5. ResidentIsWhole'
    BY <1>1, <1>2, <2>1, <2>2 DEF ResidentIsWhole, AlreadyResident
  <2>6. OverlapInv' /\ GpuReadsItsLayer'
    BY <1>1, <2>1, <2>2 DEF OverlapInv, GpuReadsItsLayer
  <2> QED
    BY <2>3, <2>4, <2>5, <2>6
<1>3. CASE ~AlreadyResident(l)
  <2>1. PICK c \in Reading(thread.read) :
          /\ ReadChunk(l, c)
          /\ ResidentWhenRead(l, thread.read \cup {c})
          /\ thread' = [thread EXCEPT !.read = thread.read \cup {c},
                                      !.ended = thread.read \cup {c} = Cell]
    BY <1>3 DEF ThreadReads
  <2>2. c \in Cell /\ thread.read \in SUBSET Cell /\ Holds(l, thread.read)
    BY <1>1 DEF Reading, StateInv, LoaderInv
  <2>3. resident[BufferOf(l)] # l
    BY <1>3 DEF AlreadyResident
  <2>4. /\ arena' \in [Buffer -> [Cell -> Layer \cup {Stale}]]
        /\ resident' \in [Buffer -> Layer \cup {None}]
        /\ \A b \in Buffer \ {BufferOf(l)} :
              arena'[b] = arena[b] /\ resident'[b] = resident[b]
        /\ \A d \in thread.read \cup {c} : arena'[BufferOf(l)][d] = l
        /\ \/ /\ thread.read \cup {c} = Cell /\ resident'[BufferOf(l)] = l
           \/ /\ thread.read \cup {c} # Cell /\ resident'[BufferOf(l)] # l
    BY <1>1, <2>1, <2>2, <2>3, ReadFacts
  <2>5. /\ thread' \in [layer : Layer \cup {None}, read : SUBSET Cell, ended : BOOLEAN]
        /\ thread'.layer = l /\ thread'.read = thread.read \cup {c}
        /\ thread'.ended = (thread.read \cup {c} = Cell)
    BY <2>1, <2>2 DEF StateInv
  <2>6. StateInv' /\ OneLoaderAtATime'
    BY <1>1, <2>4, <2>5 DEF StateInv, OneLoaderAtATime
  <2>7. LoaderInv'
    BY <1>1, <2>4, <2>5 DEF LoaderInv, Holds
  <2>8. ResidentIsWhole'
    <3> SUFFICES ASSUME NEW b \in Buffer, resident'[b] # None
                 PROVE  \/ \A d \in Cell : arena'[b][d] = resident'[b]
                        \/ /\ thread'.layer # None /\ ~thread'.ended
                           /\ b = BufferOf(thread'.layer) /\ resident'[b] # thread'.layer
      BY DEF ResidentIsWhole
    <3>1. CASE b = BufferOf(l)
      BY <1>1, <2>4, <2>5, <3>1
    <3>2. CASE b # BufferOf(l)
      BY <1>1, <2>4, <3>2 DEF ResidentIsWhole
    <3> QED
      BY <3>1, <3>2
  <2>9. OverlapInv'
    BY <1>1, <2>5 DEF OverlapInv
  <2>10. GpuReadsItsLayer'
    <3> SUFFICES ASSUME gpu.busy
                 PROVE  \A d \in Cell : arena'[BufferOf(gpu.layer)][d] = gpu.layer
      BY <1>1 DEF GpuReadsItsLayer
    <3>1. l = gpu.layer + 1 /\ NBuf >= 2 /\ gpu.layer \in Layer
      BY <1>1 DEF OverlapInv, StateInv
    <3>2. BufferOf(l) # BufferOf(gpu.layer)
      BY <3>1, ModNeighboursApart, DenseAssumption DEF BufferOf, Layer
    <3>3. BufferOf(gpu.layer) \in Buffer
      BY <3>1, BufferRange
    <3> QED
      BY <2>4, <3>2, <3>3 DEF GpuReadsItsLayer
  <2> QED
    BY <2>6, <2>7, <2>8, <2>9, <2>10
<1> QED
  BY <1>2, <1>3

LEMMA DnLoadJoinsIInv ==
  ASSUME IInv, DnLoadJoins
  PROVE  IInv'
<1> USE DEF IInv
<1>1. /\ op.at = "idle" /\ ~gpu.busy /\ next \in Layer
      /\ op' = [at |-> "load", read |-> {}]
      /\ UNCHANGED <<arena, resident, gpu, next>>
  BY DEF DnLoadJoins, StateInv
<1>2. /\ thread' \in [layer : Layer \cup {None}, read : SUBSET Cell, ended : BOOLEAN]
      /\ thread'.layer = None /\ ~thread'.ended
      /\ \/ thread.layer = None
         \/ thread.ended
  <2>1. CASE thread.ended
    <3>1. thread' = NoThread
      BY <2>1 DEF DnLoadJoins
    <3> QED
      BY <2>1, <3>1 DEF NoThread
  <2>2. CASE ~thread.ended
    BY <2>2 DEF DnLoadJoins, Joins, StateInv
  <2> QED
    BY <2>1, <2>2
<1>3. StateInv' /\ OneLoaderAtATime'
  BY <1>1, <1>2 DEF StateInv, OneLoaderAtATime
<1>4. LoaderInv'
  BY <1>1, <1>2 DEF LoaderInv, Holds
<1>5. ResidentIsWhole'
  BY <1>1, <1>2 DEF ResidentIsWhole
<1>6. OverlapInv' /\ GpuReadsItsLayer'
  BY <1>1 DEF OverlapInv, GpuReadsItsLayer
<1> QED
  BY <1>3, <1>4, <1>5, <1>6

LEMMA DnLoadReadsIInv ==
  ASSUME ~ReadsMayFail, IInv, DnLoadReads
  PROVE  IInv'
<1> USE DEF IInv
<1>1. PICK c \in Reading(op.read) :
        /\ ReadChunk(next, c)
        /\ ResidentWhenRead(next, op.read \cup {c})
        /\ op' = [op EXCEPT !.read = @ \cup {c}]
  BY DEF DnLoadReads
<1>2. /\ op.at = "load" /\ next \in Layer /\ thread.layer = None /\ ~gpu.busy
      /\ BufferOf(next) \in Buffer /\ resident[BufferOf(next)] # next
      /\ c \in Cell /\ op.read \in SUBSET Cell /\ Holds(next, op.read)
      /\ UNCHANGED <<thread, inflight, gpu, next>>
  BY BufferRange DEF DnLoadReads, AlreadyResident, Reading, StateInv, LoaderInv,
                     OneLoaderAtATime, OverlapInv
<1>3. /\ arena' \in [Buffer -> [Cell -> Layer \cup {Stale}]]
      /\ resident' \in [Buffer -> Layer \cup {None}]
      /\ \A b \in Buffer \ {BufferOf(next)} :
            arena'[b] = arena[b] /\ resident'[b] = resident[b]
      /\ \A d \in op.read \cup {c} : arena'[BufferOf(next)][d] = next
      /\ \/ /\ op.read \cup {c} = Cell /\ resident'[BufferOf(next)] = next
         \/ /\ op.read \cup {c} # Cell /\ resident'[BufferOf(next)] # next
  BY <1>1, <1>2, ReadFacts
<1>4. op' \in [at : {"idle", "load"}, read : SUBSET Cell]
      /\ op'.at = "load" /\ op'.read = op.read \cup {c}
  BY <1>1, <1>2 DEF StateInv
<1>5. StateInv' /\ OneLoaderAtATime'
  BY <1>2, <1>3, <1>4 DEF StateInv, OneLoaderAtATime
<1>6. LoaderInv'
  BY <1>2, <1>3, <1>4 DEF LoaderInv, Holds
<1>7. ResidentIsWhole'
  <2> SUFFICES ASSUME NEW b \in Buffer, resident'[b] # None
               PROVE  \/ \A d \in Cell : arena'[b][d] = resident'[b]
                      \/ b = BufferOf(next) /\ resident'[b] # next
    BY <1>2, <1>4 DEF ResidentIsWhole
  <2>1. CASE b = BufferOf(next)
    BY <1>3, <2>1
  <2>2. CASE b # BufferOf(next)
    BY <1>2, <1>3, <2>2 DEF ResidentIsWhole
  <2> QED
    BY <2>1, <2>2
<1>8. OverlapInv' /\ GpuReadsItsLayer'
  BY <1>2 DEF OverlapInv, GpuReadsItsLayer
<1> QED
  BY <1>5, <1>6, <1>7, <1>8

LEMMA DnLoadEndsIInv ==
  ASSUME IInv, DnLoadEnds
  PROVE  IInv'
<1> USE DEF IInv
<1>1. /\ op.at = "load" /\ next \in Layer /\ resident[BufferOf(next)] = next
      /\ BufferOf(next) \in Buffer /\ thread.layer = None
      /\ op' = [op EXCEPT !.at = "idle"]
      /\ gpu' = [busy |-> TRUE, layer |-> next]
      /\ next' = NextLayer /\ NextLayer \in Layer
      /\ UNCHANGED <<arena, resident>>
  BY BufferRange, NextLayerRange DEF DnLoadEnds, AlreadyResident, StateInv, OneLoaderAtATime
<1>2. /\ thread' \in [layer : Layer \cup {None}, read : SUBSET Cell, ended : BOOLEAN]
      /\ ~thread'.ended
      /\ \/ thread'.layer = None
         \/ thread'.layer = next + 1 /\ thread'.read = {} /\ NBuf >= 2
  <2>1. CASE Kicks
    <3>1. thread' = [NoThread EXCEPT !.layer = KickedLayer(next)]
          /\ KickedLayer(next) \in Layer /\ NBuf >= 2
      BY <2>1, DenseAssumption DEF DnLoadEnds, Kicks, Streamed, Layer
    <3> QED
      BY <3>1 DEF NoThread, KickedLayer
  <2>2. CASE ~Kicks
    BY <1>1, <2>2 DEF DnLoadEnds, StateInv
  <2> QED
    BY <2>1, <2>2
<1>3. op' \in [at : {"idle", "load"}, read : SUBSET Cell] /\ op'.at = "idle"
  BY <1>1 DEF StateInv
<1>4. StateInv' /\ OneLoaderAtATime'
  BY <1>1, <1>2, <1>3 DEF StateInv, OneLoaderAtATime
<1>5. LoaderInv'
  BY <1>2, <1>3 DEF LoaderInv, Holds
<1>6. \A b \in Buffer : resident[b] # None => \A c \in Cell : arena[b][c] = resident[b]
  BY <1>1 DEF ResidentIsWhole
<1>7. ResidentIsWhole'
  BY <1>1, <1>6 DEF ResidentIsWhole
<1>8. OverlapInv'
  BY <1>1, <1>2, <1>3 DEF OverlapInv
<1>9. GpuReadsItsLayer'
  BY <1>1, <1>6, DenseNames DEF GpuReadsItsLayer
<1> QED
  BY <1>4, <1>5, <1>7, <1>8, <1>9

LEMMA ResidentLayerIInv ==
  ASSUME IInv, ResidentLayer
  PROVE  IInv'
<1>1. /\ op.at = "idle" /\ ~gpu.busy /\ next' \in Layer
      /\ UNCHANGED <<arena, resident, thread, inflight, op, gpu>>
  BY NextLayerRange DEF ResidentLayer, IInv, StateInv
<1> QED
  BY <1>1 DEF IInv, StateInv, OneLoaderAtATime, LoaderInv, Holds, ResidentIsWhole,
              OverlapInv, GpuReadsItsLayer

LEMMA QuietIInv ==
  ASSUME IInv, GpuDone \/ UNCHANGED vars
  PROVE  IInv'
<1>1. /\ UNCHANGED <<arena, resident, thread, inflight, op, next>>
      /\ gpu' \in [busy : BOOLEAN, layer : Layer]
      /\ gpu'.busy => gpu' = gpu
  BY DEF GpuDone, vars, IInv, StateInv
<1>2. StateInv' /\ OneLoaderAtATime' /\ LoaderInv' /\ ResidentIsWhole'
  BY <1>1 DEF IInv, StateInv, OneLoaderAtATime, LoaderInv, Holds, ResidentIsWhole
<1>3. OverlapInv' /\ GpuReadsItsLayer'
  BY <1>1 DEF IInv, OverlapInv, GpuReadsItsLayer
<1> QED
  BY <1>2, <1>3 DEF IInv

LEMMA Invariance ==
  ASSUME ~ReadsMayFail
  PROVE  Spec => []IInv
<1>1. IInv /\ [Next]_vars => IInv'
  BY ThreadReadsIInv, DnLoadJoinsIInv, DnLoadReadsIInv, DnLoadEndsIInv,
     ResidentLayerIInv, QuietIInv DEF Next
<1> QED
  BY InitIInv, <1>1, PTL DEF Spec
-----------------------------------------------------------------------------
\* ms_dnload_fn: when the FFN of a streamed layer runs its buffer holds all its
\* weights, provided that reads return what they were asked for.
THEOREM DenseIsRight ==
  ASSUME ~ReadsMayFail
  PROVE  Spec => []GpuReadsItsLayer
<1>1. IInv => GpuReadsItsLayer
  BY DEF IInv
<1> QED
  BY Invariance, <1>1, PTL

\* dense_load_layer: a buffer declared resident is whole, so that the hit path
\* may skip the read.
THEOREM ResidentMeansWhole ==
  ASSUME ~ReadsMayFail
  PROVE  Spec => []ResidentIsWhole
<1>1. IInv => ResidentIsWhole
  BY DEF IInv
<1> QED
  BY Invariance, <1>1, PTL
=============================================================================
