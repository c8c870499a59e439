-------------------------- MODULE PrefillArenaProofs -------------------------
(***************************************************************************)
(* Proofs about PrefillArena: with any number of layers, experts and       *)
(* buffers, whatever the router chooses, whichever reads fail and however  *)
(* the prefetch thread interleaves with the load op and the GPU.  The      *)
(* invariant divides the buffers among the three: the thread has the one   *)
(* after the GPU's, and the op loads only when both the thread and the GPU *)
(* have finished.  The last section is about what prefetching buys: an op  *)
(* with nothing to read.                                                   *)
(***************************************************************************)
EXTENDS PrefillArena, TLAPS

\* Adjacent layers have different buffers as soon as there are two.
LEMMA ModNeighboursApart ==
  ASSUME NEW n \in Nat, n >= 2, NEW l \in Nat
  PROVE  (l + 1) % n # l % n
<1> SUFFICES ASSUME (l + 1) % n = l % n PROVE FALSE
  OBVIOUS
<1> DEFINE d == l \div n
           f == (l + 1) \div n
<1>1. d \in Int /\ f \in Int /\ l % n \in Int
  OBVIOUS
<1>2. l = n * d + (l % n) /\ l + 1 = n * f + ((l + 1) % n)
  OBVIOUS
<1>3. n * f = n * d + 1
  BY <1>1, <1>2
<1> HIDE DEF d, f
<1>4. CASE f <= d
  <2>1. n * f <= n * d
    BY <1>1, <1>4
  <2> QED
    BY <1>1, <1>3, <2>1
<1>5. CASE f >= d + 1
  <2>1. n * f >= n * (d + 1)
    BY <1>1, <1>5
  <2>2. n * (d + 1) = n * d + n
    BY <1>1
  <2> QED
    BY <1>1, <1>3, <2>1, <2>2
<1> QED
  BY <1>1, <1>4, <1>5

StateInv ==
    /\ arena \in [Buffer -> [Expert -> Layer \cup {Stale}]]
    /\ arena_layer \in [Buffer -> Layer \cup {None}]
    /\ have \in [Buffer -> SUBSET Expert] /\ lost \in [Buffer -> SUBSET Expert]
    /\ prev_union \in [Layer -> SUBSET Expert]
    /\ jobs \in [{"op", "thread"} -> SUBSET Expert]
    /\ thread \in [layer : Layer \cup {None}, hint : SUBSET Expert, planned : BOOLEAN]
    /\ op \in [at : {"idle", "wait", "load"}, need : SUBSET Expert, large : BOOLEAN]
    /\ gpu \in [busy : BOOLEAN, layer : Layer, need : SUBSET Expert]
    /\ next \in Layer

\* Who may have reads outstanding, and into which buffer.
LoaderInv ==
    /\ Joinable => Overlapping
    /\ ~Joinable \/ ~thread.planned => jobs["thread"] = {}
    /\ op.at # "load" => jobs["op"] = {}
    /\ op.at = "load" => ~Joinable
    /\ Joinable /\ thread.planned =>
         arena_layer[BufferOf(thread.layer)] = thread.layer
    /\ op.at = "load" =>
         /\ arena_layer[BufferOf(next)] = next
         /\ op.need \subseteq have[BufferOf(next)]

\* While the GPU runs, the op rests and the thread is one layer ahead.
OverlapInv ==
    gpu.busy =>
        /\ op.at = "idle"
        /\ Joinable => thread.layer = gpu.layer + 1
        /\ \A e \in gpu.need \ lost[BufferOf(gpu.layer)] :
               arena[BufferOf(gpu.layer)][e] = gpu.layer

IInv == StateInv /\ LoaderInv /\ MarksAreTrue /\ OverlapInv
-----------------------------------------------------------------------------
LEMMA BufferRange == \A l \in Layer : BufferOf(l) \in Buffer
BY ArenaAssumption DEF BufferOf, Buffer, Layer

\* With two buffers or more, adjacent layers have different ones.
LEMMA NeighboursApart ==
  ASSUME NEW l \in Nat, NBuf >= 2
  PROVE  BufferOf(l + 1) # BufferOf(l)
BY ModNeighboursApart, ArenaAssumption DEF BufferOf

LEMMA InitIInv == Init => IInv
<1> SUFFICES ASSUME Init PROVE IInv
  OBVIOUS
<1>1. 0 \in Layer
  BY ArenaAssumption DEF Layer
<1> QED
  BY <1>1, ArenaNames DEF Init, IInv, StateInv, LoaderInv, MarksAreTrue,
                          OverlapInv, Joinable
\* The thread's buffer is not the GPU's.
LEMMA ThreadSparesGpu ==
  ASSUME StateInv, LoaderInv, OverlapInv, gpu.busy, Joinable
  PROVE  BufferOf(thread.layer) # BufferOf(gpu.layer)
<1>1. thread.layer = gpu.layer + 1 /\ gpu.layer \in Layer
  BY DEF OverlapInv, StateInv
<1>2. NBuf >= 2
  BY DEF LoaderInv, Overlapping
<1> QED
  BY <1>1, <1>2, NeighboursApart DEF Layer
-----------------------------------------------------------------------------
(* One lemma per action.                                                   *)

LEMMA PfLoadStartsIInv ==
  ASSUME IInv, PfLoadStarts
  PROVE  IInv'
<1> USE DEF IInv
<1>1. PICK need \in SUBSET Expert \ {{}}, size \in {"Some", "Many"} :
        /\ op' = [at |-> "wait", need |-> need, large |-> size = "Many"]
        /\ prev_union' = IF size = "Many" THEN [prev_union EXCEPT ![next] = need]
                                         ELSE prev_union
  BY DEF PfLoadStarts
<1>2. /\ op.at = "idle" /\ ~gpu.busy
      /\ UNCHANGED <<arena, arena_layer, have, lost, jobs, thread, gpu, next>>
  BY DEF PfLoadStarts
<1>3. StateInv'
  BY <1>1, <1>2 DEF StateInv
<1>4. LoaderInv'
  BY <1>1, <1>2 DEF LoaderInv, Joinable
<1>5. MarksAreTrue'
  BY <1>1, <1>2 DEF MarksAreTrue, Joinable
<1>6. OverlapInv'
  BY <1>2 DEF OverlapInv
<1> QED
  BY <1>3, <1>4, <1>5, <1>6

\* Planning a load moves a buffer to layer l and queues what it lacks.
LEMMA PlanLoadFacts ==
  ASSUME StateInv, NEW loader \in {"op", "thread"}, NEW l \in Layer,
         NEW need \in SUBSET Expert, PlanLoad(loader, l, need)
  PROVE  /\ have' \in [Buffer -> SUBSET Expert]
         /\ lost' \in [Buffer -> SUBSET Expert]
         /\ arena_layer' \in [Buffer -> Layer \cup {None}]
         /\ jobs' \in [{"op", "thread"} -> SUBSET Expert]
         /\ arena_layer'[BufferOf(l)] = l
         /\ need \subseteq have'[BufferOf(l)]
         /\ \A b \in Buffer \ {BufferOf(l)} :
               /\ have'[b] = have[b] /\ lost'[b] = lost[b]
               /\ arena_layer'[b] = arena_layer[b]
         /\ \A e \in have'[BufferOf(l)] \ lost'[BufferOf(l)] :
               \/ e \in jobs'[loader]
               \/ /\ e \in have[BufferOf(l)] \ lost[BufferOf(l)]
                  /\ arena_layer[BufferOf(l)] = l
         /\ \A other \in {"op", "thread"} \ {loader} : jobs'[other] = jobs[other]
<1>1. BufferOf(l) \in Buffer
  BY BufferRange
<1>2. Resident(l) \subseteq Expert
  BY <1>1 DEF Resident, StateInv
<1>3. \A e \in Resident(l) : e \in have[BufferOf(l)] /\ arena_layer[BufferOf(l)] = l
  BY DEF Resident
<1> QED
  BY <1>1, <1>2, <1>3 DEF PlanLoad, StateInv

LEMMA PfLoadPlansIInv ==
  ASSUME IInv, PfLoadPlans
  PROVE  IInv'
<1> USE DEF IInv
<1>1. /\ op.at = "wait" /\ ~gpu.busy /\ next \in Layer
      /\ op.need \in SUBSET Expert
      /\ PlanLoad("op", next, op.need)
      /\ op' = [op EXCEPT !.at = "load"]
      /\ UNCHANGED <<arena, prev_union, gpu, next>>
  BY DEF PfLoadPlans, OverlapInv, StateInv
<1>2. thread' \in [layer : Layer \cup {None}, hint : SUBSET Expert, planned : BOOLEAN]
      /\ ~Joinable'
  <2>1. CASE Overlapping
    <3>1. thread' = NotJoinable
      BY <2>1 DEF PfLoadPlans
    <3> QED
      BY <3>1 DEF NotJoinable, Joinable
  <2>2. CASE ~Overlapping
    <3>1. thread' = thread
      BY <2>2 DEF PfLoadPlans
    <3> QED
      BY <2>2, <3>1 DEF Joinable, LoaderInv, StateInv
  <2> QED
    BY <2>1, <2>2
<1>3. jobs["thread"] = {}
  BY DEF PfLoadPlans, Joins, ThreadEnded, LoaderInv
<1>4. /\ have' \in [Buffer -> SUBSET Expert] /\ lost' \in [Buffer -> SUBSET Expert]
      /\ arena_layer' \in [Buffer -> Layer \cup {None}]
      /\ jobs' \in [{"op", "thread"} -> SUBSET Expert]
      /\ arena_layer'[BufferOf(next)] = next
      /\ op.need \subseteq have'[BufferOf(next)]
      /\ \A b \in Buffer \ {BufferOf(next)} :
            /\ have'[b] = have[b] /\ lost'[b] = lost[b]
            /\ arena_layer'[b] = arena_layer[b]
      /\ \A e \in have'[BufferOf(next)] \ lost'[BufferOf(next)] :
            \/ e \in jobs'["op"]
            \/ /\ e \in have[BufferOf(next)] \ lost[BufferOf(next)]
               /\ arena_layer[BufferOf(next)] = next
      /\ jobs'["thread"] = jobs["thread"]
  BY <1>1, PlanLoadFacts
<1>5. op' \in [at : {"idle", "wait", "load"}, need : SUBSET Expert, large : BOOLEAN]
      /\ op'.at = "load" /\ op'.need = op.need
  BY <1>1 DEF StateInv
<1>6. StateInv'
  BY <1>1, <1>2, <1>4, <1>5 DEF StateInv
<1>7. LoaderInv'
  BY <1>1, <1>2, <1>3, <1>4, <1>5 DEF LoaderInv
<1>8. ASSUME NEW b \in Buffer, NEW e \in have'[b] \ lost'[b]
      PROVE  arena'[b][e] = arena_layer'[b] \/ (b = BufferOf(next) /\ e \in jobs'["op"])
  <2>1. \A c \in Buffer : \A x \in have[c] \ lost[c] : arena[c][x] = arena_layer[c]
    BY <1>1, <1>3 DEF MarksAreTrue, LoaderInv
  <2> QED
    BY <1>1, <1>4, <1>8, <2>1
<1>9. MarksAreTrue'
  BY <1>1, <1>5, <1>8 DEF MarksAreTrue
<1>10. OverlapInv'
  BY <1>1 DEF OverlapInv
<1> QED
  BY <1>6, <1>7, <1>9, <1>10

LEMMA ThreadPlansIInv ==
  ASSUME IInv, ThreadPlans
  PROVE  IInv'
<1> USE DEF IInv
<1> DEFINE l == thread.layer
<1>1. /\ l \in Layer /\ ~thread.planned /\ thread.hint \in SUBSET Expert
      /\ PlanLoad("thread", l, thread.hint)
      /\ thread' = [thread EXCEPT !.planned = TRUE]
      /\ UNCHANGED <<arena, prev_union, op, gpu, next>>
  BY DEF ThreadPlans, Joinable, StateInv
<1>2. op.at # "load" /\ jobs["op"] = {} /\ jobs["thread"] = {} /\ Overlapping
  BY DEF ThreadPlans, LoaderInv
<1>3. /\ have' \in [Buffer -> SUBSET Expert] /\ lost' \in [Buffer -> SUBSET Expert]
      /\ arena_layer' \in [Buffer -> Layer \cup {None}]
      /\ jobs' \in [{"op", "thread"} -> SUBSET Expert]
      /\ arena_layer'[BufferOf(l)] = l
      /\ \A b \in Buffer \ {BufferOf(l)} :
            /\ have'[b] = have[b] /\ lost'[b] = lost[b]
            /\ arena_layer'[b] = arena_layer[b]
      /\ \A e \in have'[BufferOf(l)] \ lost'[BufferOf(l)] :
            \/ e \in jobs'["thread"]
            \/ /\ e \in have[BufferOf(l)] \ lost[BufferOf(l)]
               /\ arena_layer[BufferOf(l)] = l
      /\ jobs'["op"] = jobs["op"]
  BY <1>1, PlanLoadFacts
<1>4. /\ thread' \in [layer : Layer \cup {None}, hint : SUBSET Expert, planned : BOOLEAN]
      /\ thread'.layer = l /\ thread'.planned /\ Joinable'
  BY <1>1, ArenaNames DEF StateInv, Joinable
<1>5. StateInv'
  BY <1>1, <1>3, <1>4 DEF StateInv
<1>6. LoaderInv'
  BY <1>1, <1>2, <1>3, <1>4 DEF LoaderInv, Overlapping
<1>7. ASSUME NEW b \in Buffer, NEW e \in have'[b] \ lost'[b]
      PROVE  arena'[b][e] = arena_layer'[b] \/ (b = BufferOf(l) /\ e \in jobs'["thread"])
  <2>1. \A c \in Buffer : \A x \in have[c] \ lost[c] : arena[c][x] = arena_layer[c]
    BY <1>2 DEF MarksAreTrue
  <2> QED
    BY <1>1, <1>3, <1>7, <2>1
<1>8. MarksAreTrue'
  BY <1>4, <1>7 DEF MarksAreTrue
<1>9. ASSUME gpu.busy
      PROVE  lost'[BufferOf(gpu.layer)] = lost[BufferOf(gpu.layer)]
  BY <1>1, <1>3, <1>9, ThreadSparesGpu, BufferRange DEF StateInv, ThreadPlans
<1>10. OverlapInv'
  BY <1>1, <1>4, <1>9 DEF OverlapInv, Joinable, ThreadPlans
<1> QED
  BY <1>5, <1>6, <1>8, <1>10

\* The reads of one expert touch its cell alone, which then holds the layer or
\* counts as lost.
ReadDone(loader, l, e) ==
    /\ arena' \in [Buffer -> [Expert -> Layer \cup {Stale}]]
    /\ lost' \in [Buffer -> SUBSET Expert]
    /\ jobs' \in [{"op", "thread"} -> SUBSET Expert]
    /\ jobs'[loader] = jobs[loader] \ {e}
    /\ \A other \in {"op", "thread"} \ {loader} : jobs'[other] = jobs[other]
    /\ arena'[BufferOf(l)][e] = l \/ e \in lost'[BufferOf(l)]
    /\ \A b \in Buffer, x \in Expert :
          (b # BufferOf(l) \/ x # e) => arena'[b][x] = arena[b][x]
    /\ \A b \in Buffer : lost[b] \subseteq lost'[b]
    /\ \A b \in Buffer \ {BufferOf(l)} : lost'[b] = lost[b]

LEMMA ReadIntoFacts ==
  ASSUME StateInv, NEW loader \in {"op", "thread"}, NEW l \in Layer,
         ReadInto(loader, l)
  PROVE  \E e \in jobs[loader] : ReadDone(loader, l, e)
<1>1. PICK e \in jobs[loader] :
        /\ ReadSucceeds(l, e) \/ ReadFails(l, e)
        /\ jobs' = [jobs EXCEPT ![loader] = @ \ {e}]
  BY DEF ReadInto
<1>2. e \in Expert /\ BufferOf(l) \in Buffer
  BY BufferRange DEF StateInv
<1>3. /\ jobs' \in [{"op", "thread"} -> SUBSET Expert]
      /\ jobs'[loader] = jobs[loader] \ {e}
      /\ \A other \in {"op", "thread"} \ {loader} : jobs'[other] = jobs[other]
  BY <1>1 DEF StateInv
<1>4. PICK left \in Layer \cup {Stale} :
        arena' = [arena EXCEPT ![BufferOf(l)][e] = left]
  <2>1. CASE ReadSucceeds(l, e)
    BY <2>1 DEF ReadSucceeds
  <2>2. CASE ReadFails(l, e)
    <3>1. arena[BufferOf(l)][e] \in Layer \cup {Stale}
      BY <1>2 DEF StateInv
    <3> QED
      BY <2>2, <3>1 DEF ReadFails
  <2> QED
    BY <1>1, <2>1, <2>2
<1>5. /\ arena' \in [Buffer -> [Expert -> Layer \cup {Stale}]]
      /\ \A b \in Buffer, x \in Expert :
            (b # BufferOf(l) \/ x # e) => arena'[b][x] = arena[b][x]
  BY <1>2, <1>4 DEF StateInv
<1>6. /\ lost' \in [Buffer -> SUBSET Expert]
      /\ \A b \in Buffer : lost[b] \subseteq lost'[b]
      /\ \A b \in Buffer \ {BufferOf(l)} : lost'[b] = lost[b]
      /\ arena'[BufferOf(l)][e] = l \/ e \in lost'[BufferOf(l)]
  <2>1. CASE ReadSucceeds(l, e)
    BY <1>2, <2>1 DEF ReadSucceeds, StateInv
  <2>2. CASE ReadFails(l, e)
    BY <1>2, <2>2 DEF ReadFails, StateInv
  <2> QED
    BY <1>1, <2>1, <2>2
<1> QED
  BY <1>3, <1>5, <1>6 DEF ReadDone

LEMMA PfLoadReadsIInv ==
  ASSUME IInv, PfLoadReads
  PROVE  IInv'
<1> USE DEF IInv
<1>1. /\ op.at = "load" /\ next \in Layer /\ ReadInto("op", next)
      /\ UNCHANGED <<arena_layer, have, prev_union, thread, op, gpu, next>>
  BY DEF PfLoadReads, StateInv
<1>2. PICK e \in jobs["op"] : ReadDone("op", next, e)
  BY <1>1, ReadIntoFacts
<1>3. /\ arena' \in [Buffer -> [Expert -> Layer \cup {Stale}]]
      /\ lost' \in [Buffer -> SUBSET Expert]
      /\ jobs' \in [{"op", "thread"} -> SUBSET Expert]
      /\ jobs'["op"] = jobs["op"] \ {e} /\ jobs'["thread"] = jobs["thread"]
  BY <1>2 DEF ReadDone
<1>4. /\ arena'[BufferOf(next)][e] = next \/ e \in lost'[BufferOf(next)]
      /\ \A b \in Buffer, x \in Expert :
            (b # BufferOf(next) \/ x # e) => arena'[b][x] = arena[b][x]
      /\ \A b \in Buffer : lost[b] \subseteq lost'[b]
      /\ \A b \in Buffer \ {BufferOf(next)} : lost'[b] = lost[b]
  BY <1>2 DEF ReadDone
<1>5. StateInv'
  BY <1>1, <1>3 DEF StateInv
<1>6. LoaderInv'
  BY <1>1, <1>3 DEF LoaderInv, Joinable
<1>7. ASSUME NEW b \in Buffer, NEW x \in have[b] \ lost'[b]
      PROVE  \/ arena'[b][x] = arena_layer[b]
             \/ b = BufferOf(next) /\ x \in jobs'["op"]
  <2>1. x \in Expert /\ x \in have[b] \ lost[b]
    BY <1>4, <1>7 DEF StateInv
  <2>2. arena[b][x] = arena_layer[b] \/ (b = BufferOf(next) /\ x \in jobs["op"])
    BY <1>1, <1>7, <2>1 DEF MarksAreTrue, LoaderInv
  <2>3. arena_layer[BufferOf(next)] = next
    BY <1>1 DEF LoaderInv
  <2> QED
    BY <1>3, <1>4, <1>7, <2>1, <2>2, <2>3
<1>8. MarksAreTrue'
  BY <1>1, <1>7 DEF MarksAreTrue
<1>9. OverlapInv'
  BY <1>1 DEF OverlapInv
<1> QED
  BY <1>5, <1>6, <1>8, <1>9

LEMMA ThreadReadsIInv ==
  ASSUME IInv, ThreadReads
  PROVE  IInv'
<1> USE DEF IInv
<1> DEFINE l == thread.layer
<1>1. /\ Joinable /\ thread.planned /\ l \in Layer /\ op.at # "load"
      /\ ReadInto("thread", l)
      /\ UNCHANGED <<arena_layer, have, prev_union, thread, op, gpu, next>>
  BY DEF ThreadReads, StateInv, Joinable, LoaderInv
<1>2. PICK e \in jobs["thread"] : ReadDone("thread", l, e)
  BY <1>1, ReadIntoFacts
<1>3. /\ arena' \in [Buffer -> [Expert -> Layer \cup {Stale}]]
      /\ lost' \in [Buffer -> SUBSET Expert]
      /\ jobs' \in [{"op", "thread"} -> SUBSET Expert]
      /\ jobs'["thread"] = jobs["thread"] \ {e} /\ jobs'["op"] = jobs["op"]
  BY <1>2 DEF ReadDone
<1>4. /\ arena'[BufferOf(l)][e] = l \/ e \in lost'[BufferOf(l)]
      /\ \A b \in Buffer, x \in Expert :
            (b # BufferOf(l) \/ x # e) => arena'[b][x] = arena[b][x]
      /\ \A b \in Buffer : lost[b] \subseteq lost'[b]
      /\ \A b \in Buffer \ {BufferOf(l)} : lost'[b] = lost[b]
  BY <1>2 DEF ReadDone
<1>5. StateInv'
  BY <1>1, <1>3 DEF StateInv
<1>6. LoaderInv'
  BY <1>1, <1>3 DEF LoaderInv, Joinable
<1>7. ASSUME NEW b \in Buffer, NEW x \in have[b] \ lost'[b]
      PROVE  \/ arena'[b][x] = arena_layer[b]
             \/ b = BufferOf(l) /\ x \in jobs'["thread"]
  <2>1. x \in Expert /\ x \in have[b] \ lost[b]
    BY <1>4, <1>7 DEF StateInv
  <2>2. arena[b][x] = arena_layer[b] \/ (b = BufferOf(l) /\ x \in jobs["thread"])
    BY <1>1, <1>7, <2>1 DEF MarksAreTrue, LoaderInv
  <2>3. arena_layer[BufferOf(l)] = l
    BY <1>1 DEF LoaderInv
  <2> QED
    BY <1>3, <1>4, <1>7, <2>1, <2>2, <2>3
<1>8. MarksAreTrue'
  BY <1>1, <1>7 DEF MarksAreTrue, Joinable
<1>9. ASSUME gpu.busy, NEW x \in gpu.need \ lost'[BufferOf(gpu.layer)]
      PROVE  arena'[BufferOf(gpu.layer)][x] = gpu.layer
  <2>1. gpu.layer \in Layer /\ x \in Expert
    BY <1>9 DEF StateInv
  <2>2. BufferOf(gpu.layer) # BufferOf(l) /\ BufferOf(gpu.layer) \in Buffer
    BY <1>1, <1>9, <2>1, ThreadSparesGpu, BufferRange
  <2> QED
    BY <1>4, <1>9, <2>1, <2>2 DEF OverlapInv
<1>10. OverlapInv'
  BY <1>1, <1>9 DEF OverlapInv, Joinable
<1> QED
  BY <1>5, <1>6, <1>8, <1>10

LEMMA PfLoadEndsIInv ==
  ASSUME IInv, PfLoadEnds
  PROVE  IInv'
<1> USE DEF IInv
<1>1. /\ op.at = "load" /\ jobs["op"] = {} /\ ~Joinable /\ next \in Layer
      /\ gpu' = [busy |-> TRUE, layer |-> next, need |-> op.need]
      /\ op' = [op EXCEPT !.at = "idle"]
      /\ UNCHANGED <<arena, arena_layer, have, lost, prev_union, jobs>>
      /\ next' = NextLayer
  BY DEF PfLoadEnds, LoaderInv, StateInv
<1>2. jobs["thread"] = {}
  BY <1>1 DEF LoaderInv
<1>3. NextLayer \in Layer
  BY <1>1, ArenaAssumption DEF NextLayer, Layer
<1>4. \/ thread' = thread /\ ~Joinable'
      \/ /\ Overlapping /\ KickedLayer(next) \in Layer
         /\ thread' = [layer |-> KickedLayer(next),
                       hint |-> Hint(KickedLayer(next)), planned |-> FALSE]
  BY <1>1 DEF PfLoadEnds, Kicks, Joinable
<1>5. KickedLayer(next) \in Layer => Hint(KickedLayer(next)) \in SUBSET Expert
  BY DEF Hint, StateInv
<1>6. StateInv'
  <2>1. op' \in [at : {"idle", "wait", "load"}, need : SUBSET Expert, large : BOOLEAN]
    BY <1>1 DEF StateInv
  <2>2. gpu' \in [busy : BOOLEAN, layer : Layer, need : SUBSET Expert]
    BY <1>1 DEF StateInv
  <2>3. thread' \in [layer : Layer \cup {None}, hint : SUBSET Expert, planned : BOOLEAN]
    <3>1. CASE thread' = thread
      BY <3>1 DEF StateInv
    <3>2. CASE /\ KickedLayer(next) \in Layer
               /\ thread' = [layer |-> KickedLayer(next),
                             hint |-> Hint(KickedLayer(next)), planned |-> FALSE]
      BY <1>5, <3>2
    <3> QED
      BY <1>4, <3>1, <3>2
  <2> QED
    BY <1>1, <1>3, <2>1, <2>2, <2>3 DEF StateInv
<1>7. LoaderInv'
  BY <1>1, <1>2, <1>4 DEF LoaderInv, Joinable, Overlapping, StateInv
<1>8. \A b \in Buffer : \A e \in have[b] \ lost[b] : arena[b][e] = arena_layer[b]
  BY <1>1, <1>2 DEF MarksAreTrue
<1>9. MarksAreTrue'
  BY <1>1, <1>8 DEF MarksAreTrue
<1>10. \A e \in op.need \ lost[BufferOf(next)] : arena[BufferOf(next)][e] = next
  BY <1>1, <1>8, BufferRange DEF LoaderInv
<1>11. OverlapInv'
  BY <1>1, <1>4, <1>10 DEF OverlapInv, Joinable, KickedLayer, StateInv
<1> QED
  BY <1>6, <1>7, <1>9, <1>11

LEMMA SlabLayerIInv ==
  ASSUME IInv, SlabLayer
  PROVE  IInv'
<1>1. NextLayer \in Layer
  BY ArenaAssumption DEF IInv, StateInv, NextLayer, Layer
<1>2. /\ op.at = "idle" /\ ~gpu.busy /\ next' = NextLayer
      /\ UNCHANGED <<arena, arena_layer, have, lost, prev_union, jobs, thread, op, gpu>>
  BY DEF SlabLayer
<1>3. StateInv'
  BY <1>1, <1>2 DEF IInv, StateInv
<1>4. LoaderInv'
  BY <1>2 DEF IInv, LoaderInv, Joinable
<1>5. MarksAreTrue'
  BY <1>2 DEF IInv, MarksAreTrue, Joinable
<1>6. OverlapInv'
  BY <1>2 DEF OverlapInv
<1> QED
  BY <1>3, <1>4, <1>5, <1>6 DEF IInv

LEMMA QuietIInv ==
  ASSUME IInv, GpuDone \/ UNCHANGED vars
  PROVE  IInv'
<1>1. /\ UNCHANGED <<arena, arena_layer, have, lost, prev_union, jobs, thread, op, next>>
      /\ gpu' \in [busy : BOOLEAN, layer : Layer, need : SUBSET Expert]
      /\ gpu'.busy => gpu' = gpu
  BY DEF GpuDone, vars, IInv, StateInv
<1>2. StateInv'
  BY <1>1 DEF IInv, StateInv
<1>3. LoaderInv' /\ MarksAreTrue'
  BY <1>1 DEF IInv, LoaderInv, MarksAreTrue, Joinable
<1>4. OverlapInv'
  BY <1>1 DEF IInv, OverlapInv, Joinable
<1> QED
  BY <1>2, <1>3, <1>4 DEF IInv

LEMMA NextIInv == IInv /\ [Next]_vars => IInv'
BY PfLoadStartsIInv, PfLoadPlansIInv, PfLoadReadsIInv, PfLoadEndsIInv,
   SlabLayerIInv, ThreadPlansIInv, ThreadReadsIInv, QuietIInv DEF Next

\* What StateInv leaves out of TypeOK needs nothing but itself.
LEMMA NextTypeOK ==
  ASSUME TypeOK, IInv', [Next]_vars
  PROVE  TypeOK'
<1>1. inflight' \in Layer \cup {None}
  BY DEF TypeOK, Next, vars, PfLoadStarts, PfLoadPlans, PfLoadReads, PfLoadEnds,
         SlabLayer, GpuDone, ThreadPlans, ThreadReads, Kicks
<1>2. batch' \in BatchSize
  BY DEF TypeOK, Next, vars, PfLoadStarts, PfLoadPlans, PfLoadReads, PfLoadEnds,
         SlabLayer, GpuDone, ThreadPlans, ThreadReads, Micro
<1>3. prefetch' \in BOOLEAN
  BY DEF TypeOK, Next, vars, PfLoadStarts, PfLoadPlans, PfLoadReads, PfLoadEnds,
         SlabLayer, GpuDone, ThreadPlans, ThreadReads
<1> QED
  BY <1>1, <1>2, <1>3 DEF TypeOK, IInv, StateInv
-----------------------------------------------------------------------------
\* Every variable keeps to its values (all of the module's operations).
THEOREM TypeCorrect == Spec => []TypeOK
<1>1. Init => TypeOK
  <2> SUFFICES ASSUME Init PROVE TypeOK
    OBVIOUS
  <2>1. IInv
    BY InitIInv
  <2> QED
    BY <2>1 DEF Init, TypeOK, IInv, StateInv, BatchSize
<1>2. TypeOK /\ IInv' /\ [Next]_vars => TypeOK'
  BY NextTypeOK
<1> QED
  BY InitIInv, NextIInv, <1>1, <1>2, PTL DEF Spec

\* Whatever the number of layers, experts and buffers, and whichever reads fail,
\* the GPU's mul_mat_id finds in its arena buffer the experts the router chose,
\* except those of which a read failed since the buffer took the layer
\* (ms_pfload_fn, do_read).
THEOREM ArenaIsRight == Spec => []ArenaFeedsTheRightExperts
<1>1. IInv => ArenaFeedsTheRightExperts
  BY DEF IInv, OverlapInv, ArenaFeedsTheRightExperts
<1> QED
  BY InitIInv, NextIInv, <1>1, PTL DEF Spec

\* The prefetch thread never has the GPU's buffer to write (pf_kick).
THEOREM GpuIsSpared == Spec => []PrefetchSparesTheGpu
<1>1. IInv => PrefetchSparesTheGpu
  BY ThreadSparesGpu DEF IInv, PrefetchSparesTheGpu
<1> QED
  BY InitIInv, NextIInv, <1>1, PTL DEF Spec

\* The load op and the prefetch thread never load at once (pf_wait's join).
THEOREM LoadersAlternate == Spec => []OneLoaderAtATime
<1>1. IInv => OneLoaderAtATime
  BY DEF IInv, LoaderInv, OneLoaderAtATime
<1> QED
  BY InitIInv, NextIInv, <1>1, PTL DEF Spec

\* have[] tells the truth but for failed reads: what it marks is in the arena, or
\* on its way by the one loader that is at work, or was lost in a read of its own
\* that failed (load_layer_arena, do_read).
THEOREM MarksHold == Spec => []MarksAreTrue
<1>1. IInv => MarksAreTrue
  BY DEF IInv
<1> QED
  BY InitIInv, NextIInv, <1>1, PTL DEF Spec
-----------------------------------------------------------------------------
(* With the read-all strategy, the layer in flight is the thread's, for every
   expert, and as soon as the thread has planned, all of them are marked.  *)
PrefetchInv ==
    ~prefetch /\ inflight \in Layer =>
        /\ Overlapping
        /\ thread.layer = inflight /\ thread.hint = Expert
        /\ thread.planned => have[BufferOf(inflight)] = Expert

LEMMA InitPrefetchInv == Init => PrefetchInv
BY ArenaNames DEF Init, PrefetchInv

\* The op joins the thread and forgets the layer in flight.
LEMMA PfLoadPlansPrefetchInv ==
  ASSUME PrefetchInv, PfLoadPlans
  PROVE  PrefetchInv'
<1>1. prefetch' = prefetch
  BY DEF PfLoadPlans
<1>2. CASE Overlapping
  <2>1. inflight' = None
    BY <1>2 DEF PfLoadPlans
  <2> QED
    BY <2>1, ArenaNames DEF PrefetchInv, Layer
<1>3. CASE ~Overlapping
  <2>1. inflight' = inflight
    BY <1>3 DEF PfLoadPlans
  <2> QED
    BY <1>1, <1>3, <2>1 DEF PrefetchInv, Layer
<1> QED
  BY <1>2, <1>3

\* pf_kick asks for every expert; no other thread is left to have planned.
LEMMA PfLoadEndsPrefetchInv ==
  ASSUME PrefetchInv, PfLoadEnds
  PROVE  PrefetchInv'
<1>1. UNCHANGED <<prefetch, have>>
  BY DEF PfLoadEnds
<1>2. CASE Kicks
  <2>1. /\ thread' = [layer |-> KickedLayer(next),
                      hint |-> Hint(KickedLayer(next)), planned |-> FALSE]
        /\ inflight' = KickedLayer(next)
        /\ Overlapping
    BY <1>2 DEF PfLoadEnds, Kicks
  <2>2. ~prefetch => Hint(KickedLayer(next)) = Expert
    BY DEF Hint
  <2> QED
    BY <1>1, <2>1, <2>2 DEF PrefetchInv, Overlapping
<1>3. CASE ~Kicks
  <2>1. UNCHANGED <<thread, inflight>>
    BY <1>3 DEF PfLoadEnds
  <2> QED
    BY <1>1, <2>1 DEF PrefetchInv, Overlapping, Layer, BufferOf
<1> QED
  BY <1>2, <1>3

\* The thread marks what it was asked for, which is everything.
LEMMA ThreadPlansPrefetchInv ==
  ASSUME IInv, PrefetchInv, ThreadPlans
  PROVE  PrefetchInv'
<1> SUFFICES ASSUME ~prefetch', inflight' \in Layer
             PROVE  /\ Overlapping
                    /\ thread'.layer = inflight' /\ thread'.hint = Expert
                    /\ have'[BufferOf(inflight')] = Expert
  BY DEF PrefetchInv, Overlapping, Layer, BufferOf
<1>1. /\ ~prefetch /\ inflight \in Layer /\ inflight' = inflight
      /\ PlanLoad("thread", thread.layer, thread.hint)
      /\ thread' = [thread EXCEPT !.planned = TRUE]
  BY DEF ThreadPlans
<1>2. Overlapping /\ thread.layer = inflight /\ thread.hint = Expert
  BY <1>1 DEF PrefetchInv
<1>3. thread'.layer = inflight /\ thread'.hint = Expert
  BY <1>1, <1>2 DEF IInv, StateInv
<1>4. /\ have' \in [Buffer -> SUBSET Expert]
      /\ Expert \subseteq have'[BufferOf(inflight)]
  BY <1>1, <1>2, PlanLoadFacts DEF IInv
<1>5. have'[BufferOf(inflight)] = Expert
  BY <1>1, <1>4, BufferRange
<1> QED
  BY <1>1, <1>2, <1>3, <1>5

LEMMA NextPrefetchInv == IInv /\ PrefetchInv /\ [Next]_vars => PrefetchInv'
<1> SUFFICES ASSUME IInv, PrefetchInv, [Next]_vars PROVE PrefetchInv'
  OBVIOUS
<1>1. CASE \/ PfLoadStarts \/ PfLoadReads \/ SlabLayer \/ GpuDone
           \/ ThreadReads \/ UNCHANGED vars
  <2>1. UNCHANGED <<prefetch, inflight, thread, have>>
    BY <1>1 DEF PfLoadStarts, PfLoadReads, SlabLayer, GpuDone, ThreadReads, vars
  <2> QED
    BY <2>1 DEF PrefetchInv, Overlapping, Layer, BufferOf
<1> QED
  BY <1>1, PfLoadPlansPrefetchInv, PfLoadEndsPrefetchInv, ThreadPlansPrefetchInv
  DEF Next

\* A layer the thread has read in full leaves ms_pfload_fn nothing to read: the
\* join is what lets the op believe the marks.
LEMMA PrefetchedStep ==
  ASSUME IInv, PrefetchInv, PfLoadPlans, ~prefetch, inflight = next
  PROVE  jobs'["op"] = {}
<1>1. next \in Layer /\ op.need \in SUBSET Expert
  BY DEF IInv, StateInv
<1>2. Overlapping /\ thread.layer = next /\ (thread.planned => have[BufferOf(next)] = Expert)
  BY <1>1 DEF PrefetchInv
<1>3. Joinable
  BY <1>1, <1>2, ArenaNames DEF Joinable
<1>4. thread.planned
  BY <1>2, <1>3 DEF PfLoadPlans, Joins, ThreadEnded
<1>5. arena_layer[BufferOf(next)] = next
  BY <1>2, <1>3, <1>4 DEF IInv, LoaderInv
<1>6. Resident(next) = Expert
  BY <1>2, <1>4, <1>5 DEF Resident
<1>7. jobs'["op"] = op.need \ Resident(next)
  BY DEF PfLoadPlans, PlanLoad, IInv, StateInv
<1> QED
  BY <1>1, <1>6, <1>7

\* With the read-all strategy the op never waits for a read of a layer that was
\* prefetched, whatever the router chose ("read-all (never stall)").
THEOREM PrefetchedLayersNeverStall == Spec => ReadAllNeverStalls
<1>1. IInv /\ PrefetchInv /\ [Next]_vars =>
        [(PfLoadPlans /\ ~prefetch /\ inflight = next) => jobs'["op"] = {}]_vars
  BY PrefetchedStep
<1> QED
  BY InitIInv, NextIInv, InitPrefetchInv, NextPrefetchInv, <1>1, PTL
  DEF Spec, ReadAllNeverStalls
=============================================================================
