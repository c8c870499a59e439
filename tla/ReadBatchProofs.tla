--------------------------- MODULE ReadBatchProofs --------------------------
(***************************************************************************)
(* Proofs about ReadBatch: with any number of misses, any numbers of       *)
(* threads, any staging memory and any mix of staged and direct weights.   *)
(* A job that was drawn is in the hands of a thread or delivered, two jobs *)
(* of a batch never share a staging slot, and the threads have ended only  *)
(* when every job was drawn.                                               *)
(***************************************************************************)
EXTENDS ReadBatch, FiniteSetTheorems, SequenceTheorems, TLAPS

\* The staging slots a miss needs up to role r.
Place(r) == Cardinality({s \in Role \ direct : s <= r})

LEMMA PlaceFacts ==
  ASSUME direct \subseteq Role
  PROVE  /\ StageNeed \in Nat
         /\ \A r \in Role \ direct : Place(r) \in 1 .. StageNeed
         /\ \A r, q \in Role \ direct : r < q => Place(r) < Place(q)
<1>1. IsFiniteSet(Role)
  <2>1. 1 \in Int /\ 3 \in Int
    OBVIOUS
  <2>2. IsFiniteSet(1 .. 3)
    BY <2>1, FS_Interval
  <2> QED
    BY <2>2 DEF Role
<1>2. IsFiniteSet(Role \ direct)
  BY <1>1, FS_Subset
<1>3. StageNeed \in Nat
  BY <1>2, FS_CardinalityType DEF StageNeed
<1>4. \A r \in Role : IsFiniteSet({s \in Role \ direct : s <= r})
  BY <1>2, FS_Subset
<1>5. ASSUME NEW r \in Role \ direct PROVE Place(r) \in 1 .. StageNeed
  <2>1. Place(r) \in Nat /\ Place(r) <= StageNeed
    BY <1>2, <1>4, FS_Subset, FS_CardinalityType DEF Place, StageNeed
  <2>2. Place(r) # 0
    <3>1. r \in {s \in Role \ direct : s <= r}
      BY DEF Role
    <3> QED
      BY <1>4, <3>1, FS_EmptySet DEF Place
  <2> QED
    BY <1>3, <2>1, <2>2
<1>6. ASSUME NEW r \in Role \ direct, NEW q \in Role \ direct, r < q
      PROVE  Place(r) < Place(q)
  <2> DEFINE R == {s \in Role \ direct : s <= r}
             Q == {s \in Role \ direct : s <= q}
  <2>1. R \subseteq Q /\ q \in Q /\ q \notin R
    BY <1>6 DEF Role
  <2>2. IsFiniteSet(Q)
    BY <1>4
  <2> HIDE DEF R, Q
  <2>3. Cardinality(R) <= Cardinality(Q) /\ Cardinality(R) # Cardinality(Q)
    BY <2>1, <2>2, FS_Subset
  <2>4. Cardinality(R) \in Nat /\ Cardinality(Q) \in Nat
    BY <2>1, <2>2, FS_Subset, FS_CardinalityType
  <2> QED
    BY <2>3, <2>4 DEF R, Q, Place
<1> QED
  BY <1>3, <1>5, <1>6

LEMMA BlocksApart ==
  ASSUME NEW m \in Nat, NEW n \in Nat, NEW s \in Nat, NEW a \in 1 .. s, NEW b \in 1 .. s, m < n
  PROVE  m * s + a < n * s + b
<1>1. (m + 1) * s <= n * s
  <2>1. PICK d \in Nat : n = m + 1 + d
    <3>1. n - (m + 1) \in Nat /\ n = m + 1 + (n - (m + 1))
      OBVIOUS
    <3> QED
      BY <3>1
  <2>2. n * s = (m + 1) * s + d * s
    BY <2>1
  <2>3. d * s \in Nat /\ (m + 1) * s \in Nat
    OBVIOUS
  <2> QED
    BY <2>2, <2>3
<1>2. (m + 1) * s = m * s + s /\ m * s \in Nat /\ n * s \in Nat
  OBVIOUS
<1> QED
  BY <1>1, <1>2
-----------------------------------------------------------------------------
(* The jobs of a batch.                                                    *)

\* The jobs for the misses after b up to q, which the staging memory holds.
Batch(b, q) == [i \in 1 .. 3 * (q - b) |-> JobOf(b, i)]

BatchFits(b, q) ==
    /\ b \in 0 .. NPend /\ q \in 0 .. NPend /\ b <= q
    /\ (q - b) * StageNeed <= NStage

LEMMA BatchIsSequence ==
  ASSUME NEW b \in Int, NEW q \in Int, b <= q
  PROVE  /\ DOMAIN Batch(b, q) = 1 .. 3 * (q - b)
         /\ Len(Batch(b, q)) = 3 * (q - b) /\ 3 * (q - b) \in Nat
         /\ \A i \in 1 .. 3 * (q - b) : Batch(b, q)[i] = JobOf(b, i)
<1> DEFINE n == 3 * (q - b)
           U == {JobOf(b, i) : i \in 1 .. n}
<1>1. n \in Nat
  OBVIOUS
<1>2. Batch(b, q) \in [1 .. n -> U]
  BY DEF Batch
<1>3. Batch(b, q) \in Seq(U)
  BY <1>1, <1>2, SeqDef
<1>4. DOMAIN Batch(b, q) = 1 .. Len(Batch(b, q)) /\ Len(Batch(b, q)) \in Nat
  BY <1>3, LenProperties
<1>5. DOMAIN Batch(b, q) = 1 .. n
  BY DEF Batch
<1>6. Len(Batch(b, q)) = n
  <2> HIDE DEF n
  <2>1. CASE n > Len(Batch(b, q))
    <3>1. n \in 1 .. n /\ n \notin 1 .. Len(Batch(b, q))
      BY <1>1, <1>4, <2>1
    <3> QED
      BY <1>4, <1>5, <3>1
  <2>2. CASE Len(Batch(b, q)) > n
    <3>1. Len(Batch(b, q)) \in 1 .. Len(Batch(b, q)) /\ Len(Batch(b, q)) \notin 1 .. n
      BY <1>1, <1>4, <2>2
    <3> QED
      BY <1>4, <1>5, <3>1
  <2>3. n \in Int /\ Len(Batch(b, q)) \in Int
    BY <1>1, <1>4
  <2>4. n = Len(Batch(b, q)) \/ n > Len(Batch(b, q)) \/ Len(Batch(b, q)) > n
    BY <2>3
  <2> QED
    BY <2>1, <2>2, <2>4
<1> QED
  BY <1>1, <1>5, <1>6 DEF Batch

\* Every weight of the batch has one job, staged in a place of its own.
LEMMA JobFacts ==
  ASSUME direct \subseteq Role, NEW b, NEW q, BatchFits(b, q),
         NEW i \in 1 .. 3 * (q - b)
  PROVE  /\ JobOf(b, i).cell \in Cell /\ JobOf(b, i).cell[1] \in b + 1 .. q
         /\ (JobOf(b, i).dst = Nothing) <=> (JobOf(b, i).cell[2] \in direct)
         /\ JobOf(b, i).dst # Nothing => JobOf(b, i).dst \in 1 .. NStage
         /\ \A j \in 1 .. 3 * (q - b) :
               (JobOf(b, i).dst = JobOf(b, j).dst /\ JobOf(b, i).dst # Nothing) => i = j
<1> DEFINE N(k) == (k - 1) \div 3
           R(k) == ((k - 1) % 3) + 1
           P(k) == StageSlot(N(k), R(k))
<1>1. b \in Nat /\ q \in Nat /\ q <= NPend /\ b <= q /\ NPend \in Nat /\ NStage \in Nat
  BY ReadAssumption DEF BatchFits
<1>2. \A k \in 1 .. 3 * (q - b) :
         /\ N(k) \in 0 .. q - b - 1 /\ R(k) \in Role
         /\ k = 3 * N(k) + R(k)
  BY <1>1 DEF Role
<1>3. \A k : /\ JobOf(b, k).cell = <<b + N(k) + 1, R(k)>>
             /\ JobOf(b, k).dst = IF R(k) \in direct THEN Nothing ELSE P(k)
  BY DEF JobOf
<1> HIDE DEF N, R
<1>4. StageNeed \in Nat /\ \A r \in Role \ direct : Place(r) \in 1 .. StageNeed
  BY PlaceFacts
<1>5. \A k : P(k) = N(k) * StageNeed + Place(R(k))
  BY DEF StageSlot, Place
<1> HIDE DEF P
<1>6. ASSUME NEW k \in 1 .. 3 * (q - b), R(k) \notin direct
      PROVE  P(k) \in 1 .. NStage
  <2>1. N(k) \in Nat /\ Place(R(k)) \in 1 .. StageNeed /\ N(k) + 1 <= q - b
    BY <1>1, <1>2, <1>4, <1>6
  <2>2. P(k) = N(k) * StageNeed + Place(R(k)) /\ N(k) * StageNeed \in Nat
    BY <1>4, <1>5, <2>1
  <2>3. P(k) <= (q - b) * StageNeed
    <3>1. CASE N(k) + 1 = q - b
      <4>1. (q - b) * StageNeed = N(k) * StageNeed + StageNeed
        BY <1>1, <1>4, <2>1, <3>1
      <4> QED
        BY <1>4, <2>1, <2>2, <4>1
    <3>2. CASE N(k) + 1 < q - b
      <4>1. N(k) < q - b - 1 /\ q - b - 1 \in Nat
        BY <1>1, <2>1, <3>2
      <4>2. N(k) * StageNeed + Place(R(k)) < (q - b - 1) * StageNeed + Place(R(k))
        BY <1>4, <2>1, <4>1, BlocksApart
      <4>3. (q - b) * StageNeed = (q - b - 1) * StageNeed + StageNeed
        BY <1>1, <1>4
      <4>4. (q - b - 1) * StageNeed \in Nat
        BY <1>4, <4>1
      <4> QED
        BY <1>4, <2>1, <2>2, <4>2, <4>3, <4>4
    <3> QED
      BY <1>1, <2>1, <3>1, <3>2
  <2>4. (q - b) * StageNeed <= NStage /\ (q - b) * StageNeed \in Nat
    BY <1>1, <1>4 DEF BatchFits
  <2> QED
    BY <1>1, <2>1, <2>2, <2>3, <2>4
<1>7. ASSUME NEW k \in 1 .. 3 * (q - b), NEW j \in 1 .. 3 * (q - b), k # j,
             R(k) \notin direct, R(j) \notin direct
      PROVE  P(k) # P(j)
  <2>1. /\ N(k) \in Nat /\ Place(R(k)) \in 1 .. StageNeed /\ R(k) \in Role
        /\ N(j) \in Nat /\ Place(R(j)) \in 1 .. StageNeed /\ R(j) \in Role
    BY <1>1, <1>2, <1>4, <1>7
  <2>2. CASE N(k) < N(j)
    BY <1>4, <1>5, <2>1, <2>2, BlocksApart
  <2>3. CASE N(j) < N(k)
    BY <1>4, <1>5, <2>1, <2>3, BlocksApart
  <2>4. CASE N(k) = N(j)
    <3>1. R(k) < R(j) \/ R(j) < R(k)
      BY <1>2, <1>7, <2>1, <2>4 DEF Role
    <3>2. Place(R(k)) # Place(R(j))
      BY <1>7, <2>1, <3>1, PlaceFacts
    <3>3. N(k) * StageNeed \in Nat
      BY <1>4, <2>1
    <3> QED
      BY <1>5, <2>1, <2>4, <3>2, <3>3
  <2> QED
    BY <2>1, <2>2, <2>3, <2>4
<1>8. JobOf(b, i).cell \in Cell /\ JobOf(b, i).cell[1] \in b + 1 .. q
  <2>1. b + N(i) + 1 \in b + 1 .. q /\ b + N(i) + 1 \in 1 .. NPend /\ R(i) \in Role
    BY <1>1, <1>2
  <2>2. <<b + N(i) + 1, R(i)>> \in Cell
    BY <2>1 DEF Cell
  <2>3. JobOf(b, i).cell = <<b + N(i) + 1, R(i)>>
    BY <1>3
  <2> QED
    BY <2>1, <2>2, <2>3
<1>9. /\ (JobOf(b, i).dst = Nothing) <=> (JobOf(b, i).cell[2] \in direct)
      /\ JobOf(b, i).dst # Nothing => JobOf(b, i).dst \in 1 .. NStage
  BY <1>1, <1>3, <1>6, ReadAssumption
<1>10. ASSUME NEW j \in 1 .. 3 * (q - b), JobOf(b, i).dst = JobOf(b, j).dst,
              JobOf(b, i).dst # Nothing
       PROVE  i = j
  BY <1>1, <1>3, <1>6, <1>7, <1>10, ReadAssumption
<1> QED
  BY <1>8, <1>9, <1>10

\* No weight of the batch is without a job.
LEMMA EveryCellHasAJob ==
  ASSUME NEW b, NEW q, BatchFits(b, q), NEW c \in Cell, c[1] \in b + 1 .. q
  PROVE  \E i \in 1 .. 3 * (q - b) : JobOf(b, i).cell = c
<1> DEFINE i == 3 * (c[1] - b - 1) + c[2]
<1>1. b \in Nat /\ q \in Nat /\ c[1] \in Nat /\ c[2] \in 1 .. 3 /\ c = <<c[1], c[2]>>
  BY ReadAssumption DEF BatchFits, Cell, Role
<1>2. i \in 1 .. 3 * (q - b)
  BY <1>1
<1>3. (i - 1) \div 3 = c[1] - b - 1 /\ ((i - 1) % 3) + 1 = c[2]
  BY <1>1
<1>4. JobOf(b, i).cell = <<b + (c[1] - b - 1) + 1, c[2]>>
  BY <1>3 DEF JobOf
<1>5. b + (c[1] - b - 1) + 1 = c[1]
  BY <1>1
<1> QED
  BY <1>1, <1>2, <1>4, <1>5
-----------------------------------------------------------------------------
(* What holds in every state.                                              *)

ValuesInv ==
    /\ direct \subseteq Role /\ cap \in {0, NStage}
    /\ base \in 0 .. NPend /\ p \in 0 .. NPend
    /\ at \in {"alloc", "batch", "read", "discarded", "returned"}
    /\ ticket \in Nat \ {0}
    /\ worker \in [Thread -> Nat \cup {Nothing}]
    /\ stage \in [1 .. NStage -> Cell \cup {Nothing}]
    /\ slab \in [Cell -> Cell \cup {Nothing}]
    /\ (at # "alloc" /\ NeedsStage) => cap = NStage
    /\ at = "returned" => base = NPend

Delivered(i) ==
    IF jobs[i].dst = Nothing THEN slab[jobs[i].cell] = jobs[i].cell
    ELSE stage[jobs[i].dst] = jobs[i].cell

\* While a batch is read: a thread is at work until every job is drawn, and a
\* drawn job is in the hands of a thread or delivered.
BatchInv ==
    at = "read" =>
        /\ BatchFits(base, p) /\ base < p /\ jobs = Batch(base, p)
        /\ \A t \in Thread :
              worker[t] \notin {Nothing, Ended} => worker[t] \in 1 .. 3 * (p - base)
        /\ Joined => ticket > 3 * (p - base)
        /\ \A i \in 1 .. 3 * (p - base) :
              i < ticket => Delivered(i) \/ \E t \in Thread : worker[t] = i

\* Earlier batches are in the slab.
PrefixInv == \A c \in Cell : c[1] <= base => slab[c] = c

IInv == ValuesInv /\ BatchInv /\ PrefixInv
-----------------------------------------------------------------------------
LEMMA ThreadFacts == Max(Threads) \in Threads /\ Threads \subseteq 1 .. Max(Threads)
<1>1. \E n \in Threads : \A m \in Threads : n >= m
  BY ReadAssumption
<1>2. Max(Threads) \in Threads /\ \A m \in Threads : Max(Threads) >= m
  BY <1>1 DEF Max
<1> QED
  BY <1>2, ReadAssumption

LEMMA InitIInv == Init => IInv
BY ReadAssumption DEF Init, IInv, ValuesInv, BatchInv, PrefixInv, Cell, Ended

LEMMA AllocateIInv == IInv /\ Allocate => IInv'
BY DEF IInv, ValuesInv, BatchInv, PrefixInv, Allocate, NeedsStage, StageNeed

LEMMA ReturnIInv == IInv /\ Return => IInv'
BY DEF IInv, ValuesInv, BatchInv, PrefixInv, Return, NeedsStage, StageNeed

\* The staging memory holds what BatchSize puts into a batch.
LEMMA BatchSizeFits ==
  ASSUME ValuesInv, at = "batch", base < NPend,
         p' = IF base + BatchSize < NPend THEN base + BatchSize ELSE NPend
  PROVE  BatchFits(base, p')
<1>1. StageNeed \in Nat /\ NPend \in Nat /\ NStage \in Nat /\ base \in Nat
  BY PlaceFacts, ReadAssumption DEF ValuesInv
<1>2. CASE StageNeed = 0
  <2>1. BatchSize = NPend
    BY <1>2 DEF BatchSize
  <2>2. p' = NPend
    BY <1>1, <2>1 DEF ValuesInv
  <2>3. (p' - base) * StageNeed = 0
    BY <1>1, <1>2, <2>2
  <2> QED
    BY <1>1, <2>2, <2>3 DEF BatchFits, ValuesInv
<1>3. CASE StageNeed > 0
  <2>1. BatchSize = NStage \div StageNeed
    BY <1>3 DEF BatchSize, ValuesInv, NeedsStage
  <2>2. /\ BatchSize \in Nat /\ BatchSize * StageNeed <= NStage
        /\ BatchSize * StageNeed \in Nat
    BY <1>1, <1>3, <2>1
  <2>3. p' \in base .. NPend /\ p' - base <= BatchSize /\ p' - base \in Nat
    BY <1>1, <2>2
  <2>4. (p' - base) * StageNeed <= BatchSize * StageNeed
    <3>1. CASE p' - base = BatchSize
      BY <1>1, <2>2, <3>1
    <3>2. CASE p' - base < BatchSize
      <4>1. 1 \in 1 .. StageNeed
        BY <1>1, <1>3
      <4>2. (p' - base) * StageNeed + 1 < BatchSize * StageNeed + 1
        BY <1>1, <2>2, <2>3, <3>2, <4>1, BlocksApart
      <4>3. (p' - base) * StageNeed \in Nat
        BY <1>1, <2>3
      <4> QED
        BY <2>2, <4>2, <4>3
    <3> QED
      BY <2>2, <2>3, <3>1, <3>2
  <2>5. (p' - base) * StageNeed \in Nat
    BY <1>1, <2>3
  <2> QED
    BY <1>1, <2>2, <2>3, <2>4, <2>5 DEF BatchFits, ValuesInv
<1> QED
  BY <1>1, <1>2, <1>3

LEMMA MinOfTwo ==
  ASSUME NEW a \in Int, NEW b \in Int
  PROVE  Min({a, b}) \in {a, b}
<1>1. \E x \in {a, b} : \A y \in {a, b} : x <= y
  <2>1. CASE a <= b
    BY <2>1
  <2>2. CASE b <= a
    BY <2>2
  <2> QED
    BY <2>1, <2>2
<1> QED
  BY <1>1 DEF Min

LEMMA BatchNotEmpty ==
  ASSUME NEW b \in Int, NEW q \in Int, b <= q, Batch(b, q) # <<>>
  PROVE  3 * (q - b) >= 1 /\ b < q
<1>1. b # q
  <2> SUFFICES ASSUME b = q PROVE FALSE
    OBVIOUS
  <2>1. 1 .. 3 * (q - b) = {}
    OBVIOUS
  <2> QED
    BY <2>1 DEF Batch
<1>2. b < q
  BY <1>1
<1> QED
  BY <1>2

LEMMA FormBatchIInv == IInv /\ FormBatch => IInv'
<1> SUFFICES ASSUME IInv, FormBatch PROVE IInv'
  OBVIOUS
<1>1. /\ at = "batch" /\ base < NPend /\ ticket' = 1
      /\ UNCHANGED <<direct, cap, base, stage, slab>>
      /\ p' = IF base + BatchSize < NPend THEN base + BatchSize ELSE NPend
      /\ jobs' = [i \in 1 .. 3 * (p' - base) |-> JobOf(base, i)]
      /\ at' = IF jobs' = <<>> THEN "discarded" ELSE "read"
  BY DEF FormBatch
<1>2. PICK n \in Threads :
          worker' = [t \in Thread |-> IF t <= Min({n, Len(jobs')}) THEN Nothing ELSE Ended]
  BY DEF FormBatch
<1>3. BatchFits(base, p')
  BY <1>1, BatchSizeFits DEF IInv
<1>4. base \in Int /\ p' \in Int /\ base <= p' /\ jobs' = Batch(base, p')
  BY <1>1, <1>3 DEF BatchFits, Batch
<1>5. Len(jobs') = 3 * (p' - base)
  BY <1>4, BatchIsSequence
<1>6. ValuesInv'
  <2>1. worker' \in [Thread -> Nat \cup {Nothing}]
    BY <1>2 DEF Ended
  <2> QED
    BY <1>1, <1>3, <2>1 DEF IInv, ValuesInv, BatchFits, NeedsStage, StageNeed
<1>7. ASSUME at' = "read"
      PROVE  base < p' /\ ~Joined'
  <2>1. jobs' # <<>>
    BY <1>1, <1>7
  <2>2. 3 * (p' - base) >= 1 /\ base < p'
    BY <1>4, <2>1, BatchNotEmpty
  <2>3. n \in Nat \ {0}
    BY ReadAssumption
  <2>4. 1 \in Thread
    <3>1. Max(Threads) \in Nat \ {0}
      BY ThreadFacts, ReadAssumption
    <3> QED
      BY <3>1 DEF Thread
  <2>5. 1 <= Min({n, Len(jobs')})
    <3>1. Len(jobs') \in Int /\ 1 <= Len(jobs')
      <4>1. 3 * (p' - base) \in Int
        BY <1>4
      <4> QED
        BY <1>5, <2>2, <4>1
    <3>2. Min({n, Len(jobs')}) \in {n, Len(jobs')}
      BY <2>3, <3>1, MinOfTwo
    <3> QED
      BY <2>3, <3>1, <3>2
  <2>6. worker'[1] = Nothing /\ Nothing # Ended
    BY <1>2, <2>4, <2>5, ReadAssumption DEF Ended
  <2> QED
    BY <2>2, <2>4, <2>6 DEF Joined
<1>8. BatchInv'
  <2> SUFFICES ASSUME at' = "read" PROVE BatchInv'
    BY DEF BatchInv
  <2>1. BatchFits(base, p)'
    BY <1>1, <1>3 DEF BatchFits, StageNeed
  <2>2. Batch(base, p)' = Batch(base, p')
    BY <1>1 DEF Batch, JobOf, StageSlot, StageNeed
  <2>3. \A t \in Thread : worker'[t] \in {Nothing, Ended}
    BY <1>2
  <2>4. \A i \in 1 .. 3 * (p' - base) : ~(i < ticket')
    BY <1>1, <1>4
  <2> QED
    BY <1>1, <1>4, <1>7, <2>1, <2>2, <2>3, <2>4 DEF BatchInv
<1>9. PrefixInv'
  BY <1>1 DEF IInv, PrefixInv
<1> QED
  BY <1>6, <1>8, <1>9 DEF IInv

LEMMA DrawIInv == ASSUME IInv, NEW t \in Thread, Draw(t) PROVE IInv'
<1> DEFINE n == 3 * (p - base)
<1>1. /\ at = "read" /\ at' = "read" /\ worker[t] = Nothing /\ ticket' = ticket + 1
      /\ worker' = [worker EXCEPT ![t] = IF Drawn THEN ticket ELSE Ended]
      /\ UNCHANGED <<direct, cap, base, p, jobs, stage, slab>>
  BY DEF Draw, Advance
<1>2. BatchFits(base, p) /\ jobs = Batch(base, p) /\ ticket \in Nat \ {0}
  BY <1>1 DEF IInv, BatchInv, ValuesInv
<1>3. base \in Int /\ p \in Int /\ base <= p /\ n \in Nat
  BY <1>2 DEF BatchFits
<1>4. Drawn <=> ticket <= n
  BY <1>2, <1>3, BatchIsSequence DEF Drawn
<1>5. BatchFits(base, p)' /\ Batch(base, p)' = Batch(base, p)
  BY <1>1, <1>2 DEF BatchFits, Batch, JobOf, StageSlot, StageNeed
<1>6. ValuesInv'
  BY <1>1, <1>2 DEF IInv, ValuesInv, Ended, NeedsStage, StageNeed
<1>7. worker \in [Thread -> Nat \cup {Nothing}] /\ Nothing \notin Nat
  BY ReadAssumption DEF IInv, ValuesInv
<1>8. \A u \in Thread : worker'[u] \notin {Nothing, Ended} => worker'[u] \in 1 .. n
  BY <1>1, <1>2, <1>3, <1>4, <1>7 DEF IInv, BatchInv
<1>9. Joined' => ticket' > n
  <2>1. Joined' => worker'[t] = Ended
    BY DEF Joined
  <2> QED
    BY <1>1, <1>2, <1>3, <1>4, <1>7, <2>1 DEF Ended
<1>10. ASSUME NEW i \in 1 .. n, i < ticket'
       PROVE  Delivered(i)' \/ \E u \in Thread : worker'[u] = i
  <2>1. CASE i = ticket
    BY <1>1, <1>3, <1>4, <1>7, <2>1
  <2>2. CASE i < ticket
    <3>1. Delivered(i) \/ \E u \in Thread : worker[u] = i
      BY <1>1, <2>2 DEF IInv, BatchInv
    <3>2. Delivered(i)' <=> Delivered(i)
      BY <1>1 DEF Delivered
    <3>3. ASSUME NEW u \in Thread, worker[u] = i PROVE worker'[u] = i
      BY <1>1, <1>7, <3>3
    <3> QED
      BY <3>1, <3>2, <3>3
  <2> QED
    BY <1>1, <1>2, <1>10, <2>1, <2>2
<1>11. BatchInv'
  BY <1>1, <1>2, <1>5, <1>8, <1>9, <1>10 DEF IInv, BatchInv
<1> QED
  BY <1>1, <1>6, <1>11 DEF IInv, PrefixInv

\* A job's read leaves what the others delivered alone.
LEMMA ReadIInv == ASSUME IInv, NEW t \in Thread, Read(t) PROVE IInv'
<1> DEFINE n == 3 * (p - base)
           k == worker[t]
<1>1. /\ at = "read" /\ at' = "read" /\ k \notin {Nothing, Ended}
      /\ worker' = [worker EXCEPT ![t] = Nothing]
      /\ UNCHANGED <<direct, cap, base, p, jobs, ticket>>
      /\ IF jobs[k].dst = Nothing
           THEN slab' = [slab EXCEPT ![jobs[k].cell] = jobs[k].cell] /\ UNCHANGED stage
           ELSE stage' = [stage EXCEPT ![jobs[k].dst] = jobs[k].cell] /\ UNCHANGED slab
  BY DEF Read
<1>2. /\ BatchFits(base, p) /\ jobs = Batch(base, p) /\ k \in 1 .. n
      /\ direct \subseteq Role
  BY <1>1 DEF IInv, BatchInv, ValuesInv
<1>3. base \in Int /\ p \in Int /\ base <= p /\ n \in Nat
  BY <1>2 DEF BatchFits
<1>4. \A i \in 1 .. n : jobs[i] = JobOf(base, i)
  BY <1>2, <1>3, BatchIsSequence
<1>5. /\ jobs[k].cell \in Cell
      /\ jobs[k].dst # Nothing => jobs[k].dst \in 1 .. NStage
      /\ \A i \in 1 .. n : (jobs[k].dst = jobs[i].dst /\ jobs[k].dst # Nothing) => i = k
  BY <1>2, <1>4, JobFacts
<1>6. /\ worker \in [Thread -> Nat \cup {Nothing}] /\ Nothing \notin Nat
      /\ stage \in [1 .. NStage -> Cell \cup {Nothing}]
      /\ slab \in [Cell -> Cell \cup {Nothing}]
  BY ReadAssumption DEF IInv, ValuesInv
<1>7. \A c \in Cell : slab[c] = c => slab'[c] = c
  BY <1>1, <1>5, <1>6
<1>8. ValuesInv'
  BY <1>1, <1>5, <1>6 DEF IInv, ValuesInv, NeedsStage, StageNeed
<1>9. BatchFits(base, p)' /\ Batch(base, p)' = Batch(base, p)
  BY <1>1, <1>2 DEF BatchFits, Batch, JobOf, StageSlot, StageNeed
<1>10. \A u \in Thread : worker'[u] \notin {Nothing, Ended} => worker'[u] \in 1 .. n
  BY <1>1, <1>6 DEF IInv, BatchInv
<1>11. ~Joined'
  BY <1>1, <1>6 DEF Joined, Ended
<1>12. ASSUME NEW i \in 1 .. n, i < ticket
       PROVE  Delivered(i)' \/ \E u \in Thread : worker'[u] = i
  <2>1. CASE i = k
    BY <1>1, <1>5, <1>6, <2>1 DEF Delivered
  <2>2. CASE i # k
    <3>1. Delivered(i) \/ \E u \in Thread : worker[u] = i
      BY <1>1, <1>12 DEF IInv, BatchInv
    <3>2. jobs[i].cell \in Cell
      BY <1>2, <1>4, JobFacts
    <3>3. jobs[i].dst # Nothing => stage'[jobs[i].dst] = stage[jobs[i].dst]
      <4> SUFFICES ASSUME jobs[i].dst # Nothing PROVE stage'[jobs[i].dst] = stage[jobs[i].dst]
        OBVIOUS
      <4>1. CASE jobs[k].dst = Nothing
        BY <1>1, <4>1
      <4>2. CASE jobs[k].dst # Nothing
        <5>1. jobs[i].dst # jobs[k].dst
          BY <1>5, <2>2, <4>2
        <5>2. jobs[i].dst \in 1 .. NStage
          BY <1>2, <1>4, JobFacts
        <5>3. stage' = [stage EXCEPT ![jobs[k].dst] = jobs[k].cell]
          BY <1>1, <4>2
        <5> QED
          BY <1>6, <5>1, <5>2, <5>3
      <4> QED
        BY <4>1, <4>2
    <3>4. Delivered(i) => Delivered(i)'
      BY <1>1, <1>7, <3>2, <3>3 DEF Delivered
    <3>5. ASSUME NEW u \in Thread, worker[u] = i PROVE worker'[u] = i
      BY <1>1, <1>6, <2>2, <3>5
    <3> QED
      BY <3>1, <3>4, <3>5
  <2> QED
    BY <2>1, <2>2
<1>13. BatchInv'
  BY <1>1, <1>2, <1>9, <1>10, <1>11, <1>12 DEF IInv, BatchInv
<1>14. PrefixInv'
  BY <1>1, <1>7 DEF IInv, PrefixInv
<1> QED
  BY <1>8, <1>13, <1>14 DEF IInv

\* Once the threads have joined, what is not in the slab is in staging memory.
LEMMA UploadIInv == IInv /\ Upload => IInv'
<1> SUFFICES ASSUME IInv, Upload PROVE IInv'
  OBVIOUS
<1> DEFINE n == 3 * (p - base)
           Staged(c) == {i \in DOMAIN jobs : jobs[i].cell = c /\ jobs[i].dst # Nothing}
<1>1. /\ at = "read" /\ at' = "batch" /\ Joined /\ base' = p
      /\ UNCHANGED <<direct, cap, p, jobs, ticket, worker, stage>>
      /\ slab' = [c \in Cell |-> IF Staged(c) = {} THEN slab[c]
                                 ELSE stage[jobs[CHOOSE i \in Staged(c) : TRUE].dst]]
  BY DEF Upload
<1>2. /\ BatchFits(base, p) /\ jobs = Batch(base, p) /\ ticket > n
      /\ direct \subseteq Role /\ ticket \in Nat
  BY <1>1 DEF IInv, BatchInv, ValuesInv
<1>3. base \in Int /\ p \in Int /\ base <= p /\ n \in Nat
  BY <1>2 DEF BatchFits
<1>4. DOMAIN jobs = 1 .. n /\ \A i \in 1 .. n : jobs[i] = JobOf(base, i)
  BY <1>2, <1>3, BatchIsSequence
<1>5. ASSUME NEW i \in 1 .. n PROVE Delivered(i)
  <2>1. \A t \in Thread : worker[t] # i
    BY <1>1, <1>3 DEF Joined, Ended
  <2>2. i < ticket
    BY <1>2, <1>3
  <2> QED
    BY <1>1, <2>1, <2>2 DEF IInv, BatchInv
<1>6. ASSUME NEW c \in Cell, Staged(c) # {} PROVE slab'[c] = c
  <2>1. PICK i : i = CHOOSE j \in Staged(c) : TRUE
    OBVIOUS
  <2>2. i \in Staged(c)
    BY <1>6, <2>1
  <2>3. i \in 1 .. n /\ jobs[i].cell = c /\ jobs[i].dst # Nothing
    BY <1>4, <2>2
  <2>4. stage[jobs[i].dst] = c
    BY <1>5, <2>3 DEF Delivered
  <2> QED
    BY <1>1, <1>6, <2>1, <2>4
<1>7. ASSUME NEW c \in Cell, c[1] <= p PROVE slab'[c] = c
  <2>1. CASE Staged(c) # {}
    BY <1>6, <2>1
  <2>2. CASE Staged(c) = {} /\ c[1] <= base
    BY <1>1, <2>2 DEF IInv, PrefixInv
  <2>3. CASE Staged(c) = {} /\ c[1] > base
    <3>1. c[1] \in base + 1 .. p
      BY <1>3, <1>7, <2>3 DEF Cell
    <3>2. PICK i \in 1 .. n : jobs[i].cell = c
      BY <1>2, <1>4, <3>1, EveryCellHasAJob
    <3>3. jobs[i].dst = Nothing
      BY <1>4, <2>3, <3>2
    <3>4. slab[c] = c
      BY <1>5, <3>2, <3>3 DEF Delivered
    <3> QED
      BY <1>1, <2>3, <3>4
  <2>4. c[1] \in Int
    BY DEF Cell
  <2> QED
    BY <1>3, <2>1, <2>2, <2>3, <2>4
<1>8. slab' \in [Cell -> Cell \cup {Nothing}]
  <2>1. \A c \in Cell : Staged(c) = {} => slab'[c] = slab[c]
    BY <1>1
  <2>2. \A c \in Cell : slab'[c] \in Cell \cup {Nothing}
    BY <1>6, <2>1 DEF IInv, ValuesInv
  <2> QED
    BY <1>1, <2>2
<1>9. ValuesInv'
  BY <1>1, <1>8 DEF IInv, ValuesInv, NeedsStage, StageNeed
<1> QED
  BY <1>1, <1>7, <1>9 DEF IInv, BatchInv, PrefixInv

LEMMA StepIInv == IInv /\ [Next]_vars => IInv'
<1>1. ASSUME IInv, UNCHANGED vars PROVE IInv'
  BY <1>1 DEF vars, IInv, ValuesInv, BatchInv, PrefixInv, BatchFits, Batch, JobOf, StageSlot,
              StageNeed, NeedsStage, Delivered, Joined
<1> QED
  BY <1>1, AllocateIInv, FormBatchIInv, UploadIInv, ReturnIInv, DrawIInv, ReadIInv DEF Next

\* When the remap is past its reads, every miss has its own three weights in the
\* slab.
THEOREM AllMissesAreRead == Spec => []EveryMissIsRead
<1>1. IInv => EveryMissIsRead
  BY ReadAssumption DEF IInv, ValuesInv, PrefixInv, EveryMissIsRead, Cell
<1> QED
  BY <1>1, InitIInv, StepIInv, PTL DEF Spec
=============================================================================
