-------------------------- MODULE ExpertCacheProofs --------------------------
(***************************************************************************)
(* Proofs about LayerQuota, ExpertCache and EvictScan, for any number of   *)
(* layers, experts and slots: the quotas always cover the slots and follow *)
(* demand, slots are neither lost nor shared, the queues list what the     *)
(* entries say, the loops of evict_one do what its closed form says, and   *)
(* the cache implements SlotCache.                                         *)
(***************************************************************************)
EXTENDS EvictScan, FiniteSetTheorems, SequenceTheorems, TLAPS

\* What the assumption on the reference bound says of small numbers.
LEMMA RefBounds ==
  /\ RC_MOD \in Nat /\ MaxRefs \in Nat /\ MaxRefs < RC_MOD
  /\ 0 \in 0 .. MaxRefs /\ 1 \in 0 .. MaxRefs
<1>1. RC_MOD \in Nat
  BY DEF RC_MOD
<1>2. MaxRefs \in 1 .. RC_MOD - 1
  BY CacheAssumption
<1>3. ASSUME NEW n \in Nat, NEW m \in 1 .. n - 1
      PROVE  m \in Nat /\ m < n /\ 0 \in 0 .. m /\ 1 \in 0 .. m
  OBVIOUS
<1> QED
  BY <1>1, <1>2, <1>3
-----------------------------------------------------------------------------
(* Numbers: a least member, and induction up to a bound.                   *)

LEMMA Least ==
  ASSUME NEW T \in SUBSET Nat, T # {}
  PROVE  \E n \in T : \A m \in T : n <= m
<1>1. \E n \in T : \A m \in T : <<m, n>> \notin OpToRel(<, Nat)
  <2> HIDE DEF OpToRel
  <2> QED
    BY NatLessThanWellFounded, WFMin
<1>2. ASSUME NEW m \in Nat, NEW n \in Nat, m < n
      PROVE  <<m, n>> \in OpToRel(<, Nat)
  BY <1>2 DEF OpToRel
<1>3. PICK n \in T : \A m \in T : <<m, n>> \notin OpToRel(<, Nat)
  BY <1>1
<1>4. ASSUME NEW m \in T PROVE ~ (m < n)
  <2>1. m \in Nat /\ n \in Nat
    OBVIOUS
  <2> QED
    BY <1>2, <1>3, <2>1, Zenon
<1> QED
  BY <1>4

LEMMA UpTo ==
  ASSUME NEW n \in Nat, NEW T, 0 \in T,
         \A i \in 0 .. n - 1 : i \in T => i + 1 \in T
  PROVE  0 .. n \subseteq T
<1> DEFINE Out == {i \in 0 .. n : i \notin T}
<1> SUFFICES ASSUME Out # {} PROVE FALSE
  OBVIOUS
<1>1. Out \in SUBSET Nat
  OBVIOUS
<1>2. PICK i \in Out : \A j \in Out : i <= j
  BY <1>1, Least
<1>3. i # 0 /\ i - 1 \in 0 .. n - 1
  BY <1>2
<1>4. i - 1 \notin Out
  BY <1>2, <1>3
<1>5. i - 1 \in T
  BY <1>3, <1>4
<1>6. (i - 1) + 1 \in T
  BY <1>3, <1>5
<1> QED
  BY <1>2, <1>6
-----------------------------------------------------------------------------
(* Sum, by its partial sums.                                               *)

Partial(f, g, n) ==
    /\ g \in [0 .. n -> Int] /\ g[0] = 0
    /\ \A i \in 1 .. n : g[i] = g[i - 1] + f[i - 1]

LEMMA PartialExtends ==
  ASSUME NEW f \in [Layer -> Int], NEW n \in Layer, NEW g, Partial(f, g, n)
  PROVE  \E k : Partial(f, k, n + 1)
<1> DEFINE k == [i \in 0 .. n + 1 |-> IF i = n + 1 THEN g[n] + f[n] ELSE g[i]]
<1>1. n \in Nat /\ f[n] \in Int /\ g[n] \in Int
  BY QuotaAssumption DEF Layer, Partial
<1>2. k \in [0 .. n + 1 -> Int] /\ k[0] = 0
  BY <1>1 DEF Partial
<1>3. ASSUME NEW i \in 1 .. n + 1 PROVE k[i] = k[i - 1] + f[i - 1]
  <2>1. CASE i = n + 1
    BY <1>1, <2>1
  <2>2. CASE i # n + 1
    <3>1. i \in 1 .. n /\ i - 1 \in 0 .. n + 1 /\ i - 1 # n + 1 /\ i \in 0 .. n + 1
      BY <1>1, <2>2
    <3>2. g[i] = g[i - 1] + f[i - 1]
      BY <3>1 DEF Partial
    <3>3. k[i] = g[i] /\ k[i - 1] = g[i - 1]
      BY <2>2, <3>1
    <3> QED
      BY <3>2, <3>3
  <2> QED
    BY <2>1, <2>2
<1> HIDE DEF k
<1> QED
  BY <1>2, <1>3 DEF Partial

LEMMA SumIsPartial ==
  ASSUME NEW f \in [Layer -> Int]
  PROVE  \E g : Partial(f, g, NLayer) /\ Sum(f) = g[NLayer]
<1> DEFINE T == {n \in 0 .. NLayer : \E g : Partial(f, g, n)}
<1>1. 0 \in T
  <2>1. Partial(f, [i \in 0 .. 0 |-> 0], 0)
    BY DEF Partial
  <2> QED
    BY <2>1, QuotaAssumption
<1>2. ASSUME NEW n \in 0 .. NLayer - 1, n \in T PROVE n + 1 \in T
  BY <1>2, PartialExtends, QuotaAssumption DEF Layer
<1> HIDE DEF T
<1>10. NLayer \in T
  BY <1>1, <1>2, UpTo, QuotaAssumption
<1>3. PICK g : Partial(f, g, NLayer)
  BY <1>10 DEF T
<1> DEFINE IsSum(h) ==
      h = [n \in 0 .. NLayer |-> IF n = 0 THEN 0 ELSE h[n - 1] + f[n - 1]]
           h == CHOOSE x : IsSum(x)
<1>4. IsSum(g)
  BY <1>3 DEF Partial
<1>5. IsSum(h)
  BY <1>4
<1>6. Sum(f) = h[NLayer]
  BY DEF Sum
<1> HIDE DEF h
<1>7. \A n \in 0 .. NLayer : h[n] = IF n = 0 THEN 0 ELSE h[n - 1] + f[n - 1]
  BY <1>5
<1> DEFINE U == {n \in 0 .. NLayer : h[n] = g[n]}
<1>8. 0 \in U
  BY <1>3, <1>7, QuotaAssumption DEF Partial
<1>9. ASSUME NEW n \in 0 .. NLayer - 1, n \in U PROVE n + 1 \in U
  BY <1>3, <1>7, <1>9, QuotaAssumption DEF Partial
<1> HIDE DEF U
<1>11. NLayer \in U
  BY <1>8, <1>9, UpTo, QuotaAssumption
<1> QED
  BY <1>3, <1>6, <1>11 DEF U

\* Every summand may only add to a sum of naturals.
LEMMA SumOfNats ==
  ASSUME NEW f \in [Layer -> Nat]
  PROVE  Sum(f) \in Nat /\ \A l \in Layer : f[l] <= Sum(f)
<1>1. PICK g : Partial(f, g, NLayer) /\ Sum(f) = g[NLayer]
  BY SumIsPartial
<1> DEFINE T == {n \in 0 .. NLayer :
                   g[n] >= 0 /\ \A l \in 0 .. n - 1 : f[l] <= g[n]}
<1>2. 0 \in T
  BY <1>1, QuotaAssumption DEF Partial
<1>3. ASSUME NEW n \in 0 .. NLayer - 1, n \in T PROVE n + 1 \in T
  <2>1. n \in Layer /\ n \in Nat /\ n + 1 \in 1 .. NLayer
    BY <1>3, QuotaAssumption DEF Layer
  <2>2. g[n + 1] = g[n] + f[n] /\ g[n] \in Int /\ f[n] \in Nat /\ g[n + 1] \in Int
    BY <1>1, <2>1, QuotaAssumption DEF Partial
  <2>3. ASSUME NEW l \in 0 .. n PROVE f[l] <= g[n + 1]
    <3>1. l \in Layer
      BY <2>1, QuotaAssumption DEF Layer
    <3> QED
      BY <1>3, <2>1, <2>2, <3>1
  <2> QED
    BY <1>3, <2>1, <2>2, <2>3
<1> HIDE DEF T
<1>4. NLayer \in T
  BY <1>2, <1>3, UpTo, QuotaAssumption
<1>5. g[NLayer] \in Int
  BY <1>1, QuotaAssumption DEF Partial
<1> QED
  BY <1>1, <1>4, <1>5 DEF T, Layer

\* Handing out k >= 0 slots from layer 0 on adds k to the sum.
LEMMA SumToppedUp ==
  ASSUME NEW f \in [Layer -> Int], NEW k \in Nat
  PROVE  Sum([l \in Layer |->
             f[l] + k \div NLayer + (IF l < k % NLayer THEN 1 ELSE 0)]) = Sum(f) + k
<1> DEFINE d == k \div NLayer
           r == k % NLayer
           h == [l \in Layer |-> f[l] + d + (IF l < r THEN 1 ELSE 0)]
<1>1. d \in Nat /\ r \in 0 .. NLayer - 1 /\ k = NLayer * d + r
  BY QuotaAssumption
<1> HIDE DEF d, r
<1>2. h \in [Layer -> Int]
  BY <1>1
<1>3. PICK g : Partial(f, g, NLayer) /\ Sum(f) = g[NLayer]
  BY SumIsPartial
<1>4. PICK p : Partial(h, p, NLayer) /\ Sum(h) = p[NLayer]
  BY <1>2, SumIsPartial
<1> DEFINE T == {n \in 0 .. NLayer :
                   p[n] = g[n] + n * d + (IF n < r THEN n ELSE r)}
<1>11. \A n \in Layer : h[n] = f[n] + d + (IF n < r THEN 1 ELSE 0)
  OBVIOUS
<1> HIDE DEF h
<1>5. 0 \in T
  <2>1. g[0] = 0 /\ p[0] = 0 /\ 0 * d = 0
    BY <1>1, <1>3, <1>4 DEF Partial
  <2> QED
    BY <1>1, <2>1, QuotaAssumption
<1>6. ASSUME NEW n \in 0 .. NLayer - 1, n \in T PROVE n + 1 \in T
  <2>1. n \in Layer /\ n \in Nat /\ n + 1 \in 1 .. NLayer
    BY QuotaAssumption DEF Layer
  <2>2. /\ g[n + 1] = g[n] + f[n] /\ g[n] \in Int /\ f[n] \in Int
        /\ p[n + 1] = p[n] + h[n]
    BY <1>3, <1>4, <2>1, QuotaAssumption DEF Partial
  <2>3. h[n] = f[n] + d + (IF n < r THEN 1 ELSE 0)
    BY <1>11, <2>1
  <2>4. p[n] = g[n] + n * d + (IF n < r THEN n ELSE r)
    BY <1>6
  <2>5. (n + 1) * d = n * d + d /\ n * d \in Int
    BY <1>1, <2>1
  <2> DEFINE goal == p[n + 1] = g[n + 1] + (n + 1) * d + (IF n + 1 < r THEN n + 1 ELSE r)
  <2>7. ASSUME n < r PROVE goal
    BY <1>1, <2>1, <2>2, <2>3, <2>4, <2>5, <2>7
  <2>8. ASSUME ~ (n < r) PROVE goal
    BY <1>1, <2>1, <2>2, <2>3, <2>4, <2>5, <2>8
  <2>6. p[n + 1] = g[n + 1] + (n + 1) * d + (IF n + 1 < r THEN n + 1 ELSE r)
    BY <2>7, <2>8
  <2> QED
    BY <2>1, <2>6
<1> HIDE DEF T
<1>7. NLayer \in T
  BY <1>5, <1>6, UpTo, QuotaAssumption
<1>8. p[NLayer] = g[NLayer] + NLayer * d + r
  BY <1>1, <1>7, QuotaAssumption DEF T
<1>9. g[NLayer] \in Int
  BY <1>3, QuotaAssumption DEF Partial
<1>10. Sum(h) = Sum(f) + k
  BY <1>1, <1>3, <1>4, <1>8, <1>9, QuotaAssumption
<1> QED
  BY <1>10 DEF h, d, r
-----------------------------------------------------------------------------
(* LayerQuota: reallocations leave naturals, the floor, and enough of them. *)

QuotaInv == QuotaTypeOK /\ QuotasCoverTheSlots /\ QuotaFloor

LEMMA RoundedType ==
  ASSUME NEW num \in Int, NEW den \in Nat \ {0}
  PROVE  Rounded(num, den) \in Int
<1>1. CASE num >= 0
  BY <1>1 DEF Rounded
<1>2. CASE ~ (num >= 0)
  BY <1>2 DEF Rounded
<1> QED
  BY <1>1, <1>2

LEMMA NudgedType ==
  ASSUME NEW q \in [Layer -> Nat], NEW gh \in [Layer -> Nat], Sum(gh) # 0
  PROVE  Nudged(q, gh) \in [Layer -> Nat \ {0}]
<1> DEFINE total == Sum(gh)
<1>1. total \in Nat \ {0}
  BY SumOfNats
<1> HIDE DEF total
<1>2. EtaDen * total \in Nat \ {0}
  BY <1>1, QuotaAssumption
<1>3. ASSUME NEW l \in Layer PROVE Shifted(q, gh)[l] \in Int
  <2>1. EtaNum * (NLayer * gh[l] - total) * q[l] \in Int
    BY <1>1, QuotaAssumption
  <2>2. Rounded(EtaNum * (NLayer * gh[l] - total) * q[l], EtaDen * total) \in Int
    BY <1>2, <2>1, RoundedType
  <2>3. Shifted(q, gh)[l]
          = q[l] + Rounded(EtaNum * (NLayer * gh[l] - total) * q[l], EtaDen * total)
    BY DEF Shifted, total
  <2> QED
    BY <2>2, <2>3
<1> QED
  BY <1>3, QuotaAssumption DEF Nudged, AtMost, AtLeast

LEMMA ScaledType ==
  ASSUME NEW nq \in [Layer -> Nat \ {0}]
  PROVE  /\ Scaled(nq) \in [Layer -> Nat]
         /\ \A l \in Layer : Scaled(nq)[l] >= QuotaMin
<1> DEFINE total == Sum(nq)
<1>1. total \in Nat \ {0}
  <2>1. 0 \in Layer /\ nq \in [Layer -> Nat]
    BY QuotaAssumption DEF Layer
  <2>2. total \in Nat /\ nq[0] <= total
    BY <2>1, SumOfNats
  <2> QED
    BY <2>1, <2>2
<1>2. Scaled(nq) = [l \in Layer |-> AtLeast((nq[l] * NSlot) \div total, QuotaMin)]
  BY DEF Scaled
<1> HIDE DEF total
<1>3. ASSUME NEW l \in Layer
      PROVE  (nq[l] * NSlot) \div total \in Int
  <2>1. nq[l] * NSlot \in Int
    BY QuotaAssumption
  <2> QED
    BY <1>1, <2>1
<1> QED
  BY <1>2, <1>3, QuotaAssumption DEF AtLeast

LEMMA ToppedUpCovers ==
  ASSUME NEW nq \in [Layer -> Nat]
  PROVE  /\ ToppedUp(nq) \in [Layer -> Nat]
         /\ Sum(ToppedUp(nq)) >= NSlot
         /\ \A l \in Layer : ToppedUp(nq)[l] >= nq[l]
<1> DEFINE lost == NSlot - Sum(nq)
<1>1. Sum(nq) \in Nat /\ lost \in Int
  BY SumOfNats, QuotaAssumption
<1>2. CASE lost <= 0
  BY <1>1, <1>2, QuotaAssumption DEF ToppedUp
<1>3. CASE lost > 0
  <2> DEFINE up == [l \in Layer |->
                      nq[l] + lost \div NLayer + (IF l < lost % NLayer THEN 1 ELSE 0)]
  <2>1. ToppedUp(nq) = up
    BY <1>1, <1>3 DEF ToppedUp
  <2>2. Sum(up) = Sum(nq) + lost
    <3>1. nq \in [Layer -> Int] /\ lost \in Nat
      BY <1>1, <1>3
    <3> HIDE DEF lost
    <3> QED
      BY <3>1, SumToppedUp
  <2>3. lost \div NLayer \in Nat
    BY <1>1, <1>3, QuotaAssumption
  <2> HIDE DEF lost
  <2>4. \A l \in Layer : up[l] \in Nat /\ up[l] >= nq[l]
    BY <2>3
  <2> QED
    BY <1>1, <2>1, <2>2, <2>4, QuotaAssumption DEF lost
<1> QED
  BY <1>1, <1>2, <1>3

LEMMA EvenQuotaCovers ==
  /\ EvenQuota \in [Layer -> Nat]
  /\ Sum(EvenQuota) = NSlot
  /\ \A l \in Layer : EvenQuota[l] >= NSlot \div NLayer
<1> DEFINE zero == [l \in Layer |-> 0]
<1>1. Sum(zero) = 0
  <2>1. PICK g : Partial(zero, g, NLayer) /\ Sum(zero) = g[NLayer]
    BY SumIsPartial
  <2> DEFINE T == {n \in 0 .. NLayer : g[n] = 0}
  <2>2. 0 \in T
    BY <2>1, QuotaAssumption DEF Partial
  <2>3. ASSUME NEW n \in 0 .. NLayer - 1, n \in T PROVE n + 1 \in T
    BY <2>1, <2>3, QuotaAssumption DEF Partial, Layer
  <2> HIDE DEF T
  <2>4. NLayer \in T
    BY <2>2, <2>3, UpTo, QuotaAssumption
  <2> QED
    BY <2>1, <2>4 DEF T
<1>2. Sum([l \in Layer |-> zero[l] + NSlot \div NLayer
                            + (IF l < NSlot % NLayer THEN 1 ELSE 0)]) = Sum(zero) + NSlot
  <2>1. zero \in [Layer -> Int] /\ NSlot \in Nat
    BY QuotaAssumption
  <2> HIDE DEF zero
  <2> QED
    BY <2>1, SumToppedUp
<1>3. NSlot \div NLayer \in Nat
  BY QuotaAssumption
<1>4. EvenQuota = [l \in Layer |-> zero[l] + NSlot \div NLayer
                                    + (IF l < NSlot % NLayer THEN 1 ELSE 0)]
  BY <1>3 DEF EvenQuota
<1> QED
  BY <1>1, <1>2, <1>3, <1>4, QuotaAssumption

LEMMA QuotaInitInv == QuotaInit => QuotaInv
BY EvenQuotaCovers, QuotaAssumption
   DEF QuotaInit, QuotaInv, QuotaTypeOK, QuotasCoverTheSlots, QuotaFloor, AtMost

LEMMA QuotaEndStepInv ==
  ASSUME QuotaInv, QuotaEndStep
  PROVE  QuotaInv'
<1>1. step' \in 0 .. QuotaPeriod - 1
  BY QuotaAssumption DEF QuotaInv, QuotaTypeOK, QuotaEndStep
<1>2. CASE UNCHANGED <<quota, ghost_hits>>
  BY <1>1, <1>2 DEF QuotaInv, QuotaTypeOK, QuotasCoverTheSlots, QuotaFloor
<1>3. CASE /\ quota' = Rebalanced(quota, ghost_hits)
           /\ ghost_hits' = [l \in Layer |-> 0]
  <2>1. ghost_hits' \in [Layer -> 0 .. MaxGhostHits]
    BY <1>3, QuotaAssumption
  <2>2. CASE Sum(ghost_hits) = 0
    <3>1. quota' = quota
      BY <1>3, <2>2 DEF Rebalanced
    <3> QED
      BY <1>1, <2>1, <3>1 DEF QuotaInv, QuotaTypeOK, QuotasCoverTheSlots, QuotaFloor
  <2>3. CASE Sum(ghost_hits) # 0
    <3> DEFINE nq == Nudged(quota, ghost_hits)
    <3>1. nq \in [Layer -> Nat \ {0}]
      BY <2>3, NudgedType DEF QuotaInv, QuotaTypeOK
    <3> HIDE DEF nq
    <3>2. /\ Scaled(nq) \in [Layer -> Nat]
          /\ \A l \in Layer : Scaled(nq)[l] >= QuotaMin
      BY <3>1, ScaledType
    <3> DEFINE tq == ToppedUp(Scaled(nq))
    <3>3. /\ tq \in [Layer -> Nat]
          /\ Sum(tq) >= NSlot
          /\ \A l \in Layer : tq[l] >= Scaled(nq)[l]
      BY <3>2, ToppedUpCovers
    <3>4. quota' = tq
      BY <1>3, <2>3 DEF Rebalanced, nq
    <3> HIDE DEF tq
    <3>5. \A l \in Layer : tq[l] >= QuotaMin
      BY <3>2, <3>3, QuotaAssumption
    <3>6. NSlot \div NLayer \in Nat
      BY QuotaAssumption
    <3>7. QuotaFloor'
      BY <3>3, <3>4, <3>5, <3>6, QuotaAssumption DEF QuotaFloor, AtMost
    <3> QED
      BY <1>1, <2>1, <3>3, <3>4, <3>7 DEF QuotaInv, QuotaTypeOK, QuotasCoverTheSlots
  <2> QED
    BY <2>2, <2>3
<1> QED
  BY <1>2, <1>3 DEF QuotaEndStep

LEMMA CountGhostHitInv ==
  ASSUME QuotaInv, NEW l \in Layer, CountGhostHit(l)
  PROVE  QuotaInv'
<1>1. ghost_hits' \in [Layer -> 0 .. MaxGhostHits]
  BY QuotaAssumption DEF QuotaInv, QuotaTypeOK, CountGhostHit, AtMost
<1> QED
  BY <1>1 DEF QuotaInv, QuotaTypeOK, QuotasCoverTheSlots, QuotaFloor, CountGhostHit

LEMMA QuotaNextInv == QuotaInv /\ [QuotaNext]_quotaVars => QuotaInv'
<1>1. CASE UNCHANGED quotaVars
  BY <1>1 DEF quotaVars, QuotaInv, QuotaTypeOK, QuotasCoverTheSlots, QuotaFloor
<1> QED
  BY <1>1, QuotaEndStepInv, CountGhostHitInv DEF QuotaNext

\* However the near-misses fall, the quotas entitle the layers to every slot,
\* and no layer falls below quota_min or its even share.
THEOREM QuotasSuffice == QuotaSpec => [](QuotasCoverTheSlots /\ QuotaFloor)
<1>1. QuotaInv => QuotasCoverTheSlots /\ QuotaFloor
  BY DEF QuotaInv
<1> QED
  BY <1>1, QuotaInitInv, QuotaNextInv, PTL DEF QuotaSpec
-----------------------------------------------------------------------------
(* LayerQuota: a reallocation keeps the order of the layers' claims.       *)

LEMMA ProductGrows ==
  ASSUME NEW x \in Int, NEW y \in Int, NEW p \in Nat, x <= y
  PROVE  x * p <= y * p
OBVIOUS

LEMMA DivBounds ==
  ASSUME NEW x \in Int, NEW y \in Nat \ {0}
  PROVE  x \div y \in Int /\ y * (x \div y) <= x /\ x < y * (x \div y) + y
OBVIOUS

LEMMA DivIsGreatest ==
  ASSUME NEW x \in Int, NEW y \in Nat \ {0}, NEW k \in Int, y * k <= x
  PROVE  k <= x \div y
<1> DEFINE z == x \div y
<1>1. z \in Int /\ x < y * z + y
  BY DivBounds
<1> HIDE DEF z
<1>2. CASE k >= z + 1
  <2>1. (z + 1) * y <= k * y
    BY <1>1, <1>2, ProductGrows
  <2>2. (z + 1) * y = y * z + y /\ k * y = y * k /\ y * z \in Int /\ y * k \in Int
    BY <1>1
  <2> QED
    BY <1>1, <2>1, <2>2
<1>3. CASE ~ (k >= z + 1)
  BY <1>1, <1>3 DEF z
<1> QED
  BY <1>2, <1>3

\* Division by a positive number is monotone, a whole multiple j apart.
LEMMA DivShifts ==
  ASSUME NEW x \in Int, NEW y \in Int, NEW m \in Nat \ {0}, NEW j \in Int,
         x <= m * j + y
  PROVE  x \div m <= j + y \div m
<1> DEFINE z == x \div m
<1>1. z \in Int /\ m * z <= x
  BY DivBounds
<1> HIDE DEF z
<1>2. m * (z - j) = m * z - m * j /\ m * z \in Int /\ m * j \in Int
  BY <1>1
<1>3. z - j \in Int /\ m * (z - j) <= y
  BY <1>1, <1>2
<1>4. z - j <= y \div m /\ y \div m \in Int
  BY <1>3, DivIsGreatest, DivBounds
<1> QED
  BY <1>1, <1>4 DEF z

\* Half a unit rounded down is none.
LEMMA HalfIsNone ==
  ASSUME NEW d \in Nat \ {0}
  PROVE  d \div (2 * d) = 0
<1>1. 2 * d \in Nat \ {0}
  OBVIOUS
<1>2. d \div (2 * d) \in Int /\ (2 * d) * (d \div (2 * d)) <= d /\ 0 <= d \div (2 * d)
  BY <1>1, DivBounds, DivIsGreatest
<1>3. CASE d \div (2 * d) >= 1
  <2>1. 1 * (2 * d) <= (d \div (2 * d)) * (2 * d)
    BY <1>1, <1>2, <1>3, ProductGrows
  <2> QED
    BY <1>1, <1>2, <2>1
<1> QED
  BY <1>2, <1>3

\* Two quotients on the same side of zero keep their order when rounded, even
\* j apart.  (Across zero they need not: halves go away from it.)
LEMMA RoundedKeepsOrder ==
  ASSUME NEW x \in Int, NEW y \in Int, NEW d \in Nat \ {0}, NEW j \in Nat,
         x <= d * j + y, y >= 0 \/ x <= 0
  PROVE  Rounded(x, d) <= j + Rounded(y, d)
<1>1. d * j \in Int /\ 2 * d \in Nat \ {0} /\ 2 * d * j = 2 * (d * j)
  OBVIOUS
<1>2. CASE x >= 0 /\ y >= 0
  <2>1. 2 * x + d <= 2 * d * j + (2 * y + d)
    BY <1>1
  <2>2. (2 * x + d) \div (2 * d) <= j + (2 * y + d) \div (2 * d)
    BY <1>1, <2>1, DivShifts
  <2> QED
    BY <1>2, <2>2 DEF Rounded
<1>3. CASE x < 0 /\ y >= 0
  <2>1. 0 <= (d - 2 * x) \div (2 * d) /\ (d - 2 * x) \div (2 * d) \in Int
    BY <1>1, <1>3, DivIsGreatest, DivBounds
  <2>2. 0 <= (2 * y + d) \div (2 * d) /\ (2 * y + d) \div (2 * d) \in Int
    BY <1>1, <1>3, DivIsGreatest, DivBounds
  <2> QED
    BY <1>3, <2>1, <2>2 DEF Rounded
<1>4. CASE x < 0 /\ y < 0
  <2>1. d - 2 * y <= 2 * d * j + (d - 2 * x)
    BY <1>1
  <2>2. (d - 2 * y) \div (2 * d) <= j + (d - 2 * x) \div (2 * d)
    BY <1>1, <2>1, DivShifts
  <2>3. (d - 2 * y) \div (2 * d) \in Int /\ (d - 2 * x) \div (2 * d) \in Int
    BY <1>1, DivBounds
  <2> QED
    BY <1>4, <2>2, <2>3 DEF Rounded
<1>5. CASE x = 0 /\ y < 0
  <2>1. d - 2 * y <= 2 * d * j + d
    BY <1>1, <1>5
  <2>2. (d - 2 * y) \div (2 * d) <= j + d \div (2 * d)
    BY <1>1, <2>1, DivShifts
  <2>3. (d - 2 * y) \div (2 * d) \in Int /\ d \div (2 * d) \in Int
    BY <1>1, DivBounds
  <2>4. d \div (2 * d) = 0
    BY HalfIsNone
  <2>5. Rounded(x, d) = d \div (2 * d)
    BY <1>5 DEF Rounded
  <2> QED
    BY <1>5, <2>2, <2>3, <2>4, <2>5 DEF Rounded
<1> QED
  BY <1>2, <1>3, <1>4, <1>5

\* A cut of n or more stays one when rounded.
LEMMA RoundedCut ==
  ASSUME NEW x \in Int, NEW d \in Nat \ {0}, NEW n \in Nat, x + d * n <= 0
  PROVE  n + Rounded(x, d) <= 0
<1>1. d * n \in Nat /\ 2 * d \in Nat \ {0} /\ 2 * d * n = 2 * (d * n)
  OBVIOUS
<1>2. Rounded(0, d) = 0
  BY HalfIsNone DEF Rounded
<1>3. CASE x = 0
  <2>1. d * n <= 0
    BY <1>1, <1>3
  <2>2. CASE n >= 1
    <3>1. 1 * d <= n * d
      BY <2>2, ProductGrows
    <3> QED
      BY <2>1, <3>1
  <2> QED
    BY <1>2, <1>3, <2>2
<1>4. CASE x < 0
  <2>1. 2 * d * n <= d - 2 * x
    BY <1>1, <1>4
  <2>2. n <= (d - 2 * x) \div (2 * d)
    BY <1>1, <2>1, DivIsGreatest
  <2>3. (d - 2 * x) \div (2 * d) \in Int
    BY <1>1, DivBounds
  <2> QED
    BY <1>4, <2>2, <2>3 DEF Rounded
<1> QED
  BY <1>1, <1>3, <1>4

\* What layer l claims before rounding, in units of 1 / (EtaDen * total).
Claim(l, q, gh, total) ==
    q[l] * (EtaDen * total + EtaNum * (NLayer * gh[l] - total))

\* A layer with as large a quota and more near-misses claims no less, and when
\* its quota is cut, the other's is cut too or was none.
LEMMA ClaimsFollowDemand ==
  ASSUME NEW q \in [Layer -> Nat], NEW gh \in [Layer -> Nat],
         NEW total \in Nat \ {0}, NEW a \in Layer, NEW b \in Layer,
         q[b] <= q[a], gh[b] < gh[a]
  PROVE  \/ Claim(b, q, gh, total) <= Claim(a, q, gh, total)
         \/ Claim(b, q, gh, total) <= 0 /\ Claim(a, q, gh, total) <= 0
<1> DEFINE f(l) == EtaDen * total + EtaNum * (NLayer * gh[l] - total)
<1>1. f(a) \in Int /\ f(b) \in Int /\ q[a] \in Nat /\ q[b] \in Nat
  BY QuotaAssumption
<1>2. f(b) <= f(a)
  <2>1. gh[b] * NLayer <= gh[a] * NLayer
    BY QuotaAssumption, ProductGrows
  <2>2. NLayer * gh[b] - total <= NLayer * gh[a] - total
    BY <2>1, QuotaAssumption
  <2>3. (NLayer * gh[b] - total) * EtaNum <= (NLayer * gh[a] - total) * EtaNum
    BY <2>2, QuotaAssumption, ProductGrows
  <2> QED
    BY <2>3, QuotaAssumption
<1>3. \A l \in Layer : Claim(l, q, gh, total) = q[l] * f(l)
  BY DEF Claim
<1> HIDE DEF f
<1>4. f(b) * q[b] <= f(a) * q[b]
  BY <1>1, <1>2, ProductGrows
<1>5. CASE f(a) >= 0
  <2>1. q[b] * f(a) <= q[a] * f(a)
    BY <1>1, <1>5, ProductGrows
  <2>2. f(b) * q[b] = q[b] * f(b) /\ f(a) * q[b] = q[b] * f(a)
    BY <1>1
  <2>3. q[b] * f(b) \in Int /\ q[b] * f(a) \in Int /\ q[a] * f(a) \in Int
    BY <1>1
  <2> QED
    BY <1>3, <1>4, <2>1, <2>2, <2>3
<1>6. CASE f(a) < 0
  <2>1. f(a) * q[a] <= 0 * q[a] /\ f(b) * q[b] <= 0 * q[b]
    BY <1>1, <1>2, <1>6, ProductGrows
  <2>2. q[a] * f(a) <= 0 /\ q[b] * f(b) <= 0
    BY <1>1, <2>1
  <2> QED
    BY <1>3, <2>2
<1> QED
  BY <1>1, <1>5, <1>6

\* Clamped to [QuotaMin, NExpert], the claims leave the layers in that order:
\* rounding cannot reverse two claims on the same side of the quotas, and a
\* claim of nothing is lifted to QuotaMin whatever it rounds to.
LEMMA NudgedFollowsDemand ==
  ASSUME NEW q \in [Layer -> Nat], NEW gh \in [Layer -> Nat], Sum(gh) # 0,
         NEW a \in Layer, NEW b \in Layer, q[b] <= q[a], gh[b] < gh[a]
  PROVE  Nudged(q, gh)[b] <= Nudged(q, gh)[a]
<1> DEFINE total == Sum(gh)
           d == EtaDen * total
           move(l) == EtaNum * (NLayer * gh[l] - total) * q[l]
<1>1. total \in Nat \ {0} /\ \A l \in Layer : gh[l] <= total
  BY SumOfNats
<1>2. \A l \in Layer : Shifted(q, gh)[l] = q[l] + Rounded(move(l), d)
  BY DEF Shifted
<1>3. \A l \in Layer : Nudged(q, gh)[l]
                      = AtMost(AtLeast(Shifted(q, gh)[l], QuotaMin), NExpert)
  BY DEF Nudged
<1> HIDE DEF total
<1>4. d \in Nat \ {0} /\ \A l \in Layer : move(l) \in Int
  BY <1>1, QuotaAssumption
<1>5. \A l \in Layer : Claim(l, q, gh, total) = d * q[l] + move(l)
  BY <1>1, QuotaAssumption DEF Claim
<1>6. move(a) >= 0 \/ move(b) <= 0
  <2>1. gh[b] * NLayer <= gh[a] * NLayer
    BY QuotaAssumption, ProductGrows
  <2> DEFINE fa == EtaNum * (NLayer * gh[a] - total)
             fb == EtaNum * (NLayer * gh[b] - total)
  <2>2. fa \in Int /\ fb \in Int /\ fb <= fa
    <3>1. (NLayer * gh[b] - total) * EtaNum <= (NLayer * gh[a] - total) * EtaNum
      BY <1>1, <2>1, QuotaAssumption, ProductGrows
    <3> QED
      BY <1>1, <3>1, QuotaAssumption
  <2>3. move(a) = fa * q[a] /\ move(b) = fb * q[b]
    OBVIOUS
  <2> HIDE DEF move, fa, fb
  <2>4. CASE fa >= 0
    <3>1. 0 * q[a] <= fa * q[a]
      BY <2>2, <2>4, ProductGrows
    <3> QED
      BY <2>3, <3>1
  <2>5. CASE fa < 0
    <3>1. fb * q[b] <= 0 * q[b]
      BY <2>2, <2>5, ProductGrows
    <3> QED
      BY <2>3, <3>1
  <2> QED
    BY <2>2, <2>4, <2>5
<1> HIDE DEF d, move
<1>7. \A l \in Layer : Shifted(q, gh)[l] \in Int
  BY <1>2, <1>4, RoundedType
<1>8. CASE Claim(b, q, gh, total) <= Claim(a, q, gh, total)
  <2>1. q[a] - q[b] \in Nat
    OBVIOUS
  <2>2. d * (q[a] - q[b]) = d * q[a] - d * q[b] /\ d * q[a] \in Int /\ d * q[b] \in Int
    BY <1>4
  <2>3. move(b) <= d * (q[a] - q[b]) + move(a)
    BY <1>4, <1>5, <1>8, <2>2
  <2>4. Rounded(move(b), d) <= (q[a] - q[b]) + Rounded(move(a), d)
    BY <1>4, <1>6, <2>1, <2>3, RoundedKeepsOrder
  <2>5. Rounded(move(b), d) \in Int /\ Rounded(move(a), d) \in Int
    BY <1>4, RoundedType
  <2>6. Shifted(q, gh)[b] <= Shifted(q, gh)[a]
    BY <1>2, <2>4, <2>5
  <2> QED
    BY <1>3, <1>7, <2>6, QuotaAssumption DEF AtMost, AtLeast
<1>9. CASE Claim(b, q, gh, total) <= 0 /\ Claim(a, q, gh, total) <= 0
  <2>1. Shifted(q, gh)[a] <= 0 /\ Shifted(q, gh)[b] <= 0
    <3>1. ASSUME NEW l \in Layer, Claim(l, q, gh, total) <= 0
          PROVE  Shifted(q, gh)[l] <= 0
      <4>1. move(l) + d * q[l] <= 0
        BY <1>4, <1>5, <3>1
      <4>2. q[l] + Rounded(move(l), d) <= 0
        BY <1>4, <4>1, RoundedCut
      <4> QED
        BY <1>2, <4>2
    <3> QED
      BY <1>9, <3>1
  <2> QED
    BY <1>3, <1>7, <2>1, QuotaAssumption DEF AtMost, AtLeast
<1> QED
  BY <1>1, <1>8, <1>9, ClaimsFollowDemand

LEMMA ScaledKeepsOrder ==
  ASSUME NEW nq \in [Layer -> Nat \ {0}], NEW a \in Layer, NEW b \in Layer,
         nq[b] <= nq[a]
  PROVE  Scaled(nq)[b] <= Scaled(nq)[a]
<1> DEFINE total == Sum(nq)
<1>1. total \in Nat \ {0}
  <2>1. 0 \in Layer /\ nq \in [Layer -> Nat]
    BY QuotaAssumption DEF Layer
  <2>2. total \in Nat /\ nq[0] <= total
    BY <2>1, SumOfNats
  <2> QED
    BY <2>1, <2>2
<1>2. \A l \in Layer : Scaled(nq)[l] = AtLeast((nq[l] * NSlot) \div total, QuotaMin)
  BY DEF Scaled
<1> HIDE DEF total
<1>3. nq[a] * NSlot \in Int /\ nq[b] * NSlot \in Int /\ nq[b] * NSlot <= nq[a] * NSlot
  BY QuotaAssumption, ProductGrows
<1>4. (nq[b] * NSlot) \div total <= 0 + (nq[a] * NSlot) \div total
  BY <1>1, <1>3, DivShifts
<1>5. (nq[b] * NSlot) \div total \in Int /\ (nq[a] * NSlot) \div total \in Int
  BY <1>1, <1>3, DivBounds
<1> QED
  BY <1>2, <1>4, <1>5, QuotaAssumption DEF AtLeast

\* What is handed out differs by at most one slot between two layers.
LEMMA ToppedUpKeepsOrder ==
  ASSUME NEW nq \in [Layer -> Nat], NEW a \in Layer, NEW b \in Layer,
         nq[b] <= nq[a]
  PROVE  ToppedUp(nq)[b] <= ToppedUp(nq)[a] + 1
<1> DEFINE lost == NSlot - Sum(nq)
<1>1. Sum(nq) \in Nat /\ lost \in Int
  BY SumOfNats, QuotaAssumption
<1>2. CASE lost <= 0
  BY <1>1, <1>2 DEF ToppedUp
<1>3. CASE lost > 0
  <2>1. \A l \in Layer :
          ToppedUp(nq)[l]
            = nq[l] + lost \div NLayer + (IF l < lost % NLayer THEN 1 ELSE 0)
    BY <1>1, <1>3 DEF ToppedUp
  <2>2. lost \div NLayer \in Int
    BY <1>1, QuotaAssumption, DivBounds
  <2> HIDE DEF lost
  <2> QED
    BY <2>1, <2>2
<1> QED
  BY <1>1, <1>2, <1>3

\* Whatever the learning rate, a reallocation favours the layer with the larger
\* quota and more near-misses, up to the one slot rebalance_quota's top-up hands
\* to leading layers.
THEOREM DemandIsFollowed == QuotaSpec => QuotaFollowsDemand
<1>1. ASSUME QuotaInv, QuotaNext, quota' # quota, NEW a \in Layer, NEW b \in Layer,
             quota[a] >= quota[b], ghost_hits[a] > ghost_hits[b]
      PROVE  quota'[a] + 1 >= quota'[b]
  <2>1. quota' = Rebalanced(quota, ghost_hits)
    BY <1>1 DEF QuotaNext, QuotaEndStep, CountGhostHit
  <2>2. quota \in [Layer -> Nat] /\ ghost_hits \in [Layer -> Nat]
    BY <1>1, QuotaAssumption DEF QuotaInv, QuotaTypeOK
  <2> DEFINE nq == Nudged(quota, ghost_hits)
             sq == Scaled(nq)
  <2>3. Sum(ghost_hits) # 0 /\ quota' = ToppedUp(sq)
    BY <1>1, <2>1 DEF Rebalanced
  <2>4. nq \in [Layer -> Nat \ {0}]
    BY <2>2, <2>3, NudgedType
  <2>5. nq[b] <= nq[a]
    BY <1>1, <2>2, <2>3, NudgedFollowsDemand
  <2> HIDE DEF nq
  <2>6. sq \in [Layer -> Nat] /\ sq[b] <= sq[a]
    BY <2>4, <2>5, ScaledType, ScaledKeepsOrder
  <2> HIDE DEF sq
  <2>7. quota'[b] <= quota'[a] + 1
    BY <2>3, <2>6, ToppedUpKeepsOrder
  <2>8. quota'[a] \in Nat /\ quota'[b] \in Nat
    BY <2>3, <2>6, ToppedUpCovers
  <2> QED
    BY <2>7, <2>8
<1>2. QuotaInv /\ [QuotaNext]_quotaVars =>
        [\A a, b \in Layer :
           (quota' # quota /\ quota[a] >= quota[b] /\ ghost_hits[a] > ghost_hits[b])
             => quota'[a] + 1 >= quota'[b]]_quotaVars
  BY <1>1
<1> QED
  BY <1>2, QuotaInitInv, QuotaNextInv, PTL DEF QuotaSpec, QuotaFollowsDemand
-----------------------------------------------------------------------------
(* Sequences that list a set without repetition.                           *)

LEMMA AppendLists ==
  ASSUME NEW S, NEW q \in Seq(S), IsInjective(q), NEW x \in S, x \notin ToSet(q)
  PROVE  /\ Append(q, x) \in Seq(S)
         /\ Lists(Append(q, x), ToSet(q) \cup {x})
<1> DEFINE a == Append(q, x)
<1>1. /\ a \in Seq(S) /\ Len(a) = Len(q) + 1 /\ DOMAIN a = 1 .. Len(q) + 1
      /\ \A i \in 1 .. Len(q) : a[i] = q[i]
      /\ a[Len(q) + 1] = x
  BY AppendProperties, LenProperties
<1>2. Len(q) \in Nat /\ DOMAIN q = 1 .. Len(q)
  BY LenProperties
<1> HIDE DEF a
<1>3. \A i \in 1 .. Len(q) : a[i] \in ToSet(q) /\ a[i] # x
  BY <1>1, <1>2 DEF ToSet
<1>4. IsInjective(a)
  <2> SUFFICES ASSUME NEW i \in 1 .. Len(q) + 1, NEW j \in 1 .. Len(q) + 1, a[i] = a[j]
               PROVE  i = j
    BY <1>1 DEF IsInjective
  <2>1. CASE i = Len(q) + 1 \/ j = Len(q) + 1
    BY <1>1, <1>2, <1>3, <2>1
  <2>2. CASE i # Len(q) + 1 /\ j # Len(q) + 1
    <3>1. i \in 1 .. Len(q) /\ j \in 1 .. Len(q)
      BY <1>2, <2>2
    <3> QED
      BY <1>1, <1>2, <3>1 DEF IsInjective
  <2> QED
    BY <2>1, <2>2
<1>5. ToSet(a) = ToSet(q) \cup {x}
  <2>1. ASSUME NEW y \in ToSet(a) PROVE y \in ToSet(q) \cup {x}
    <3>1. PICK i \in 1 .. Len(q) + 1 : y = a[i]
      BY <1>1 DEF ToSet
    <3>2. CASE i = Len(q) + 1
      BY <1>1, <3>1, <3>2
    <3>3. CASE i # Len(q) + 1
      <4>1. i \in 1 .. Len(q)
        BY <1>2, <3>3
      <4> QED
        BY <1>3, <3>1, <4>1
    <3> QED
      BY <3>2, <3>3
  <2>2. ASSUME NEW y \in ToSet(q) PROVE y \in ToSet(a)
    <3>1. PICK i \in 1 .. Len(q) : y = q[i]
      BY <1>2 DEF ToSet
    <3>2. i \in DOMAIN a /\ y = a[i]
      BY <1>1, <1>2, <3>1
    <3> QED
      BY <3>2 DEF ToSet
  <2>3. x \in ToSet(a)
    <3>1. Len(q) + 1 \in DOMAIN a
      BY <1>1, <1>2
    <3> QED
      BY <1>1, <3>1 DEF ToSet
  <2> QED
    BY <2>1, <2>2, <2>3
<1> QED
  BY <1>1, <1>4, <1>5 DEF Lists, a

LEMMA SubSeqLists ==
  ASSUME NEW S, NEW q \in Seq(S), IsInjective(q),
         NEW m \in Nat \ {0}, NEW n \in Int, n <= Len(q)
  PROVE  /\ SubSeq(q, m, n) \in Seq(S)
         /\ Lists(SubSeq(q, m, n), {q[i] : i \in m .. n})
<1> DEFINE b == SubSeq(q, m, n)
<1>1. Len(q) \in Nat /\ DOMAIN q = 1 .. Len(q) /\ \A i \in m .. n : q[i] \in S
  BY LenProperties, ElementOfSeq
<1>2. /\ b \in Seq(S)
      /\ Len(b) = IF m <= n THEN n - m + 1 ELSE 0
      /\ \A i \in 1 .. n - m + 1 : b[i] = q[m + i - 1]
  BY <1>1, SubSeqProperties
<1> HIDE DEF b
<1>3. DOMAIN b = 1 .. n - m + 1
  <2>1. DOMAIN b = 1 .. Len(b)
    BY <1>2, LenProperties
  <2> QED
    BY <1>2, <2>1
<1>4. IsInjective(b)
  <2> SUFFICES ASSUME NEW i \in 1 .. n - m + 1, NEW j \in 1 .. n - m + 1, b[i] = b[j]
               PROVE  i = j
    BY <1>3 DEF IsInjective
  <2>1. m + i - 1 \in DOMAIN q /\ m + j - 1 \in DOMAIN q
    BY <1>1
  <2>2. m + i - 1 = m + j - 1
    BY <1>2, <2>1 DEF IsInjective
  <2> QED
    BY <2>2
<1>5. ToSet(b) = {q[i] : i \in m .. n}
  <2>1. ASSUME NEW i \in 1 .. n - m + 1 PROVE b[i] \in {q[k] : k \in m .. n}
    <3>1. m + i - 1 \in m .. n
      OBVIOUS
    <3> QED
      BY <1>2, <3>1
  <2>2. ASSUME NEW k \in m .. n PROVE q[k] \in ToSet(b)
    <3>1. k - m + 1 \in 1 .. n - m + 1 /\ m + (k - m + 1) - 1 = k
      OBVIOUS
    <3>2. b[k - m + 1] = q[k]
      BY <1>2, <3>1
    <3> QED
      BY <1>3, <3>1, <3>2 DEF ToSet
  <2> QED
    BY <1>3, <2>1, <2>2 DEF ToSet
<1> QED
  BY <1>2, <1>4, <1>5 DEF Lists, b

LEMMA ConcatLists ==
  ASSUME NEW S, NEW p \in Seq(S), NEW q \in Seq(S), IsInjective(p), IsInjective(q),
         ToSet(p) \cap ToSet(q) = {}
  PROVE  /\ p \o q \in Seq(S)
         /\ Lists(p \o q, ToSet(p) \cup ToSet(q))
<1> DEFINE c == p \o q
<1>1. /\ c \in Seq(S) /\ Len(c) = Len(p) + Len(q)
      /\ \A i \in 1 .. Len(p) + Len(q) :
           c[i] = IF i <= Len(p) THEN p[i] ELSE q[i - Len(p)]
  BY ConcatProperties
<1>2. /\ Len(p) \in Nat /\ DOMAIN p = 1 .. Len(p)
      /\ Len(q) \in Nat /\ DOMAIN q = 1 .. Len(q)
      /\ DOMAIN c = 1 .. Len(p) + Len(q)
  BY <1>1, LenProperties
<1> HIDE DEF c
<1>3. \A i \in 1 .. Len(p) : c[i] = p[i] /\ i \in DOMAIN c
  BY <1>1, <1>2
<1>4. \A j \in 1 .. Len(q) : c[Len(p) + j] = q[j] /\ Len(p) + j \in DOMAIN c
  <2> TAKE j \in 1 .. Len(q)
  <2>1. Len(p) + j \in 1 .. Len(p) + Len(q) /\ ~ (Len(p) + j <= Len(p))
    BY <1>2
  <2>2. Len(p) + j - Len(p) = j
    BY <1>2
  <2> QED
    BY <1>1, <1>2, <2>1, <2>2
<1>5. ASSUME NEW i \in DOMAIN c
      PROVE  \/ i \in 1 .. Len(p)
             \/ i - Len(p) \in 1 .. Len(q) /\ i = Len(p) + (i - Len(p))
  BY <1>2
<1>6. \A i \in 1 .. Len(p) : p[i] \in ToSet(p)
  BY <1>2 DEF ToSet
<1>7. \A i \in 1 .. Len(q) : q[i] \in ToSet(q)
  BY <1>2 DEF ToSet
<1>8. IsInjective(c)
  <2> SUFFICES ASSUME NEW i \in DOMAIN c, NEW j \in DOMAIN c, c[i] = c[j]
               PROVE  i = j
    BY DEF IsInjective
  <2>1. CASE i \in 1 .. Len(p) /\ j \in 1 .. Len(p)
    BY <1>2, <1>3, <2>1 DEF IsInjective
  <2>2. CASE i \in 1 .. Len(p) /\ j \notin 1 .. Len(p)
    <3>1. c[i] \in ToSet(p) /\ c[j] \in ToSet(q)
      BY <1>3, <1>4, <1>5, <1>6, <1>7, <2>2
    <3> QED
      BY <3>1
  <2>3. CASE i \notin 1 .. Len(p) /\ j \in 1 .. Len(p)
    <3>1. c[j] \in ToSet(p) /\ c[i] \in ToSet(q)
      BY <1>3, <1>4, <1>5, <1>6, <1>7, <2>3
    <3> QED
      BY <3>1
  <2>4. CASE i \notin 1 .. Len(p) /\ j \notin 1 .. Len(p)
    <3>1. /\ i - Len(p) \in 1 .. Len(q) /\ c[i] = q[i - Len(p)]
          /\ j - Len(p) \in 1 .. Len(q) /\ c[j] = q[j - Len(p)]
      BY <1>4, <1>5, <2>4
    <3>2. i - Len(p) = j - Len(p)
      BY <1>2, <3>1 DEF IsInjective
    <3> QED
      BY <1>2, <3>2
  <2> QED
    BY <2>1, <2>2, <2>3, <2>4
<1>9. ToSet(c) = ToSet(p) \cup ToSet(q)
  <2>1. ASSUME NEW y \in ToSet(c) PROVE y \in ToSet(p) \cup ToSet(q)
    <3>1. PICK i \in DOMAIN c : y = c[i]
      BY DEF ToSet
    <3> QED
      BY <1>3, <1>4, <1>5, <1>6, <1>7, <3>1
  <2>2. ASSUME NEW y \in ToSet(p) PROVE y \in ToSet(c)
    <3>1. PICK i \in 1 .. Len(p) : y = p[i]
      BY <1>2 DEF ToSet
    <3> QED
      BY <1>3, <3>1 DEF ToSet
  <2>3. ASSUME NEW y \in ToSet(q) PROVE y \in ToSet(c)
    <3>1. PICK j \in 1 .. Len(q) : y = q[j]
      BY <1>2 DEF ToSet
    <3> QED
      BY <1>4, <3>1 DEF ToSet
  <2> QED
    BY <2>1, <2>2, <2>3
<1> QED
  BY <1>1, <1>8, <1>9 DEF Lists, c

\* The ids before and after position i, in either order, are all but q[i].
LEMMA AllBut ==
  ASSUME NEW S, NEW q \in Seq(S), IsInjective(q), NEW i \in DOMAIN q
  PROVE  LET before == SubSeq(q, 1, i - 1)
             after == SubSeq(q, i + 1, Len(q))
         IN  /\ before \o after \in Seq(S) /\ Lists(before \o after, ToSet(q) \ {q[i]})
             /\ after \o before \in Seq(S) /\ Lists(after \o before, ToSet(q) \ {q[i]})
<1> DEFINE before == SubSeq(q, 1, i - 1)
           after == SubSeq(q, i + 1, Len(q))
<1>1. Len(q) \in Nat /\ DOMAIN q = 1 .. Len(q) /\ i \in 1 .. Len(q)
  BY LenProperties
<1>2. before \in Seq(S) /\ Lists(before, {q[j] : j \in 1 .. i - 1})
  BY <1>1, SubSeqLists
<1>3. after \in Seq(S) /\ Lists(after, {q[j] : j \in i + 1 .. Len(q)})
  BY <1>1, SubSeqLists
<1> HIDE DEF before, after
<1>4. \A j, k \in 1 .. Len(q) : q[j] = q[k] => j = k
  BY <1>1 DEF IsInjective
<1>5. ToSet(before) \cap ToSet(after) = {}
  BY <1>1, <1>2, <1>3, <1>4 DEF Lists
<1>6. ToSet(before) \cup ToSet(after) = ToSet(q) \ {q[i]}
  <2>1. ASSUME NEW y \in ToSet(before) \cup ToSet(after) PROVE y \in ToSet(q) \ {q[i]}
    <3>1. y \in {q[j] : j \in 1 .. i - 1} \/ y \in {q[j] : j \in i + 1 .. Len(q)}
      BY <1>2, <1>3 DEF Lists
    <3>2. \E j \in 1 .. Len(q) : j # i /\ y = q[j]
      <4>1. CASE y \in {q[j] : j \in 1 .. i - 1}
        BY <1>1, <4>1
      <4>2. CASE y \in {q[j] : j \in i + 1 .. Len(q)}
        BY <1>1, <4>2
      <4> QED
        BY <3>1, <4>1, <4>2
    <3> QED
      BY <1>1, <1>4, <3>2 DEF ToSet
  <2>2. ASSUME NEW y \in ToSet(q) \ {q[i]} PROVE y \in ToSet(before) \cup ToSet(after)
    <3>1. PICK j \in 1 .. Len(q) : y = q[j] /\ j # i
      BY <1>1 DEF ToSet
    <3>2. j \in 1 .. i - 1 \/ j \in i + 1 .. Len(q)
      BY <1>1, <3>1
    <3> QED
      BY <1>2, <1>3, <3>1, <3>2 DEF Lists
  <2> QED
    BY <2>1, <2>2
<1>7. IsInjective(before) /\ IsInjective(after)
  BY <1>2, <1>3 DEF Lists
<1>8. before \o after \in Seq(S) /\ Lists(before \o after, ToSet(q) \ {q[i]})
  BY <1>2, <1>3, <1>5, <1>6, <1>7, ConcatLists
<1>9. after \o before \in Seq(S) /\ Lists(after \o before, ToSet(q) \ {q[i]})
  BY <1>2, <1>3, <1>5, <1>6, <1>7, ConcatLists
<1> QED
  BY <1>8, <1>9 DEF before, after

LEMMA ErasedLists ==
  ASSUME NEW S, NEW q \in Seq(S), IsInjective(q), NEW x \in S
  PROVE  /\ Erased(q, x) \in Seq(S)
         /\ Lists(Erased(q, x), ToSet(q) \ {x})
<1>1. Len(q) \in Nat /\ DOMAIN q = 1 .. Len(q)
  BY LenProperties
<1>2. CASE Contains(q, x)
  <2> DEFINE i == CHOOSE j \in DOMAIN q : q[j] = x
  <2>1. i \in DOMAIN q /\ q[i] = x
    BY <1>1, <1>2 DEF Contains
  <2>2. Erased(q, x) = SubSeq(q, 1, i - 1) \o SubSeq(q, i + 1, Len(q))
    BY <1>2 DEF Erased, RemoveAt
  <2> HIDE DEF i
  <2> QED
    BY <2>1, <2>2, AllBut
<1>3. CASE ~Contains(q, x)
  <2>1. x \notin ToSet(q)
    BY <1>1, <1>3 DEF Contains, ToSet
  <2> QED
    BY <1>3, <2>1 DEF Erased, Lists
<1> QED
  BY <1>2, <1>3
-----------------------------------------------------------------------------
(* The invariant.  LayerOk is what a layer's entries le and state ls say of *)
(* each other, between any two steps of a call; Owned, that the slot table  *)
(* and the free stack share the slots out.                                  *)

Entry == [slot : Slot \cup {NoSlot}, rc : 0 .. MaxRefs, seg : Seg,
          resident : BOOLEAN, freq : 0 .. FREQ_MAX]

Queues == [small : Seq(Expert), main : Seq(Expert), ghost : Seq(Expert),
           resident : Int, pinned : Int]

In(le, seg) == {e \in Expert : le[e].seg = seg}

Held(le) == {e \in Expert : le[e].seg # "None"}

LayerOk(le, ls) ==
    /\ le \in [Expert -> Entry]
    /\ ls \in Queues
    /\ \A e \in Expert : le[e].rc > 0 => le[e].seg # "None"
    /\ \A e \in Expert : le[e].seg # "None" <=> le[e].slot # NoSlot
    /\ Lists(ls.small, In(le, "Small"))
    /\ Lists(ls.main, In(le, "Main"))
    /\ IsInjective(ls.ghost)
    /\ \A e \in ToSet(ls.ghost) : le[e].seg = "None"
    /\ ls.pinned = Cardinality(In(le, "Pinned"))
    /\ ls.resident = Cardinality(Held(le))

Owned(t, f) ==
    /\ t \in [Layer -> [Expert -> Slot \cup {NoSlot}]]
    /\ f \in Seq(Slot)
    /\ IsInjective(f)
    /\ \A l, m \in Layer, e, x \in Expert :
         t[l][e] = t[m][x] /\ t[l][e] # NoSlot => l = m /\ e = x
    /\ \A l \in Layer, e \in Expert : t[l][e] \notin ToSet(f)
    /\ \A s \in Slot : s \in ToSet(f) \/ \E l \in Layer, e \in Expert : t[l][e] = s

CacheInv ==
    /\ ent \in [Layer -> [Expert -> Entry]]
    /\ lay \in [Layer -> Queues]
    /\ \A l \in Layer : LayerOk(ent[l], lay[l])
    /\ \A l \in Layer, e \in Expert : table[l][e] = ent[l][e].slot
    /\ Owned(table, free)

IInv == QuotaInv /\ CacheInv
-----------------------------------------------------------------------------
(* Lists and counters through the steps of a call.                         *)

LEMMA UnghostOk ==
  ASSUME NEW le, NEW ls, LayerOk(le, ls), NEW e \in Expert
  PROVE  /\ LayerOk(le, Unghosted(ls, e))
         /\ e \notin ToSet(Unghosted(ls, e).ghost)
         /\ ToSet(Unghosted(ls, e).ghost) \subseteq ToSet(ls.ghost)
<1> DEFINE us == Unghosted(ls, e)
<1>1. ls \in Queues /\ IsInjective(ls.ghost) /\ ls.ghost \in Seq(Expert)
  BY DEF LayerOk, Queues
<1>2. Erased(ls.ghost, e) \in Seq(Expert) /\ Lists(Erased(ls.ghost, e), ToSet(ls.ghost) \ {e})
  BY <1>1, ErasedLists
<1>3. /\ us \in Queues /\ us.ghost = Erased(ls.ghost, e)
      /\ us.small = ls.small /\ us.main = ls.main
      /\ us.resident = ls.resident /\ us.pinned = ls.pinned
  BY <1>1, <1>2 DEF Unghosted, Queues
<1> HIDE DEF us
<1>4. IsInjective(us.ghost) /\ ToSet(us.ghost) = ToSet(ls.ghost) \ {e}
  BY <1>2, <1>3 DEF Lists
<1>5. LayerOk(le, us)
  BY <1>3, <1>4 DEF LayerOk
<1> QED
  BY <1>4, <1>5 DEF us

LEMMA HeldFinite ==
  ASSUME NEW le
  PROVE  /\ IsFiniteSet(Held(le)) /\ Cardinality(Held(le)) \in 0 .. NExpert
         /\ \A seg : IsFiniteSet(In(le, seg))
<1>1. Held(le) \in SUBSET Expert /\ \A seg : In(le, seg) \in SUBSET Expert
  BY DEF Held, In
<1>2. IsFiniteSet(Expert) /\ Cardinality(Expert) = NExpert
  BY CacheAssumption
<1>3. IsFiniteSet(Held(le)) /\ Cardinality(Held(le)) <= NExpert
  BY <1>1, <1>2, FS_Subset
<1>4. Cardinality(Held(le)) \in Nat
  BY <1>3, FS_CardinalityType
<1>5. \A seg : IsFiniteSet(In(le, seg))
  BY <1>1, <1>2, FS_Subset
<1> QED
  BY <1>3, <1>4, <1>5, QuotaAssumption

NewEntry(s, ghost) ==
    [slot |-> s, rc |-> 1, resident |-> FALSE, freq |-> 1,
     seg |-> IF ghost THEN "Main" ELSE "Small"]

LEMMA EnqueueOk ==
  ASSUME NEW le, NEW ls, LayerOk(le, ls), NEW e \in Expert, le[e].seg = "None",
         e \notin ToSet(ls.ghost), NEW s \in Slot, NEW ghost \in BOOLEAN, NEW origin
  PROVE  LayerOk([le EXCEPT ![e] = NewEntry(s, ghost)], Enqueued(ls, e, origin, ghost))
<1> DEFINE new == [le EXCEPT ![e] = NewEntry(s, ghost)]
           es == Enqueued(ls, e, origin, ghost)
<1>1. /\ le \in [Expert -> Entry] /\ ls \in Queues
      /\ ls.small \in Seq(Expert) /\ ls.main \in Seq(Expert) /\ ls.ghost \in Seq(Expert)
      /\ Lists(ls.small, In(le, "Small")) /\ Lists(ls.main, In(le, "Main"))
      /\ e \notin In(le, "Small") /\ e \notin In(le, "Main") /\ e \notin Held(le)
      /\ ls.resident = Cardinality(Held(le)) /\ ls.pinned = Cardinality(In(le, "Pinned"))
  BY DEF LayerOk, Queues, In, Held
<1>2. /\ NewEntry(s, ghost) \in Entry
      /\ new \in [Expert -> Entry]
      /\ new[e] = NewEntry(s, ghost)
      /\ \A x \in Expert : x # e => new[x] = le[x]
  <2>1. NewEntry(s, ghost) \in Entry
    <3>1. 1 \in 0 .. FREQ_MAX
      BY DEF FREQ_MAX
    <3> QED
      BY <3>1, RefBounds DEF NewEntry, Entry, Seg
  <2> HIDE DEF new
  <2>2. new = [le EXCEPT ![e] = NewEntry(s, ghost)]
    BY DEF new
  <2> QED
    BY <1>1, <2>1, <2>2
<1>3. /\ new[e].slot = s /\ new[e].rc = 1 /\ new[e].seg = IF ghost THEN "Main" ELSE "Small"
      /\ s # NoSlot
  BY <1>2, CacheAssumption DEF NewEntry
<1>4. /\ Append(ls.main, e) \in Seq(Expert)
      /\ Lists(Append(ls.main, e), In(le, "Main") \cup {e})
      /\ Append(ls.small, e) \in Seq(Expert)
      /\ Lists(Append(ls.small, e), In(le, "Small") \cup {e})
  BY <1>1, AppendLists DEF Lists
<1>5. /\ <<e>> \o ls.small \in Seq(Expert)
      /\ Lists(<<e>> \o ls.small, In(le, "Small") \cup {e})
  <2>1. <<e>> \in Seq(Expert) /\ IsInjective(<<e>>) /\ ToSet(<<e>>) = {e}
    BY DEF IsInjective, ToSet
  <2>2. /\ ls.small \in Seq(Expert) /\ IsInjective(ls.small)
        /\ ToSet(ls.small) = In(le, "Small")
    BY <1>1 DEF Lists
  <2>3. ToSet(<<e>>) \cap ToSet(ls.small) = {}
    BY <1>1, <2>1, <2>2
  <2>4. /\ <<e>> \o ls.small \in Seq(Expert)
        /\ Lists(<<e>> \o ls.small, ToSet(<<e>>) \cup ToSet(ls.small))
    BY <2>1, <2>2, <2>3, ConcatLists
  <2> QED
    BY <2>1, <2>2, <2>4 DEF Lists
<1>6. /\ es \in Queues /\ es.ghost = ls.ghost /\ es.pinned = ls.pinned
      /\ es.resident = ls.resident + 1
      /\ es.main = IF ghost THEN Append(ls.main, e) ELSE ls.main
      /\ es.small = IF ghost THEN ls.small
                    ELSE IF origin = "PrefetchLow" THEN <<e>> \o ls.small
                    ELSE Append(ls.small, e)
  <2> DEFINE newMain == IF ghost THEN Append(ls.main, e) ELSE ls.main
             newSmall == IF ghost THEN ls.small
                         ELSE IF origin = "PrefetchLow" THEN <<e>> \o ls.small
                         ELSE Append(ls.small, e)
  <2>1. newMain \in Seq(Expert) /\ newSmall \in Seq(Expert)
    BY <1>1, <1>4, <1>5
  <2>2. es = [ls EXCEPT !.main = newMain, !.small = newSmall, !.resident = @ + 1]
    BY DEF Enqueued
  <2> HIDE DEF newMain, newSmall, es
  <2>4. ls.resident \in Int /\ ls.pinned \in Int
    BY <1>1 DEF Queues
  <2>5. es = [small |-> newSmall, main |-> newMain, ghost |-> ls.ghost,
              resident |-> ls.resident + 1, pinned |-> ls.pinned]
    BY <1>1, <2>2 DEF Queues
  <2>3. /\ es \in Queues /\ es.ghost = ls.ghost /\ es.pinned = ls.pinned
        /\ es.resident = ls.resident + 1 /\ es.main = newMain /\ es.small = newSmall
    BY <1>1, <2>1, <2>4, <2>5 DEF Queues
  <2> QED
    BY <2>3 DEF newMain, newSmall
<1> HIDE DEF new, es
<1>7. /\ In(new, "Small") = IF ghost THEN In(le, "Small") ELSE In(le, "Small") \cup {e}
      /\ In(new, "Main") = IF ghost THEN In(le, "Main") \cup {e} ELSE In(le, "Main")
      /\ In(new, "Pinned") = In(le, "Pinned")
      /\ Held(new) = Held(le) \cup {e}
  <2>1. CASE ghost
    BY <1>1, <1>2, <1>3, <2>1 DEF In, Held
  <2>2. CASE ~ghost
    BY <1>1, <1>2, <1>3, <2>2 DEF In, Held
  <2> QED
    BY <2>1, <2>2
<1>8. Lists(es.small, In(new, "Small")) /\ Lists(es.main, In(new, "Main"))
  BY <1>1, <1>4, <1>5, <1>6, <1>7
<1>9. es.resident = Cardinality(Held(new)) /\ es.pinned = Cardinality(In(new, "Pinned"))
  <2>1. Cardinality(Held(le) \cup {e}) = Cardinality(Held(le)) + 1
    BY <1>1, HeldFinite, FS_AddElement
  <2> QED
    BY <1>1, <1>6, <1>7, <2>1
<1>10. \A x \in Expert : new[x].rc > 0 => new[x].seg # "None"
  BY <1>2, <1>3 DEF LayerOk
<1>13. \A x \in Expert : new[x].seg # "None" <=> new[x].slot # NoSlot
  BY <1>2, <1>3 DEF LayerOk
<1>11. IsInjective(es.ghost) /\ \A x \in ToSet(es.ghost) : new[x].seg = "None"
  <2>1. \A x \in ToSet(ls.ghost) : x \in Expert
    <3>1. ls.ghost \in [1 .. Len(ls.ghost) -> Expert]
      BY <1>1, LenProperties
    <3> QED
      BY <3>1 DEF ToSet
  <2> QED
    BY <1>2, <1>6, <2>1 DEF LayerOk
<1>12. LayerOk(new, es)
  BY <1>2, <1>6, <1>8, <1>9, <1>10, <1>11, <1>13 DEF LayerOk
<1> QED
  BY <1>12 DEF new, es
-----------------------------------------------------------------------------
(* evict_one.                                                              *)

ScannedSeg(m) == IF TakesSmall(m) THEN "Small" ELSE "Main"

LEMMA ScannedLists ==
  ASSUME NEW m \in Layer, LayerOk(ent[m], lay[m])
  PROVE  /\ ScannedQueue(m) \in Seq(Expert)
         /\ Lists(ScannedQueue(m), In(ent[m], ScannedSeg(m)))
BY DEF LayerOk, Queues, ScannedQueue, ScannedSeg

LEMMA TakeableIdle ==
  ASSUME NEW m \in Layer, NEW e \in Takeable(m)
  PROVE  e \in ToSet(ScannedQueue(m)) /\ ent[m][e].rc = 0
BY DEF Takeable, IdleIn, Idle

\* The entries of a queue, by position and as a set.
LEMMA QueueSet ==
  ASSUME NEW q \in Seq(Expert)
  PROVE  /\ \A j \in 1 .. Len(q) : q[j] \in Expert /\ q[j] \in ToSet(q)
         /\ \A e \in ToSet(q) : \E j \in 1 .. Len(q) : q[j] = e
         /\ DOMAIN q = 1 .. Len(q) /\ Len(q) \in Nat
<1>1. DOMAIN q = 1 .. Len(q) /\ Len(q) \in Nat
  BY LenProperties
<1> QED
  BY <1>1, ElementOfSeq DEF ToSet

\* The closed form's victim, as a scan for Takeable entries finds it.
LEMMA VictimScan ==
  ASSUME NEW l \in Layer, LayerOk(ent[l], lay[l]), CanEvict(l)
  PROVE  /\ VictimIndex(l) \in 1 .. Len(ScannedQueue(l))
         /\ ScannedQueue(l)[VictimIndex(l)] \in Takeable(l)
         /\ \A j \in 1 .. VictimIndex(l) - 1 : ScannedQueue(l)[j] \notin Takeable(l)
<1> DEFINE q == ScannedQueue(l)
           IsIndex(i) == /\ q[i] \in Takeable(l)
                         /\ \A j \in 1 .. i - 1 : q[j] \notin Takeable(l)
           T == {i \in DOMAIN q : q[i] \in Takeable(l)}
<1>1. q \in Seq(Expert)
  BY ScannedLists
<1>2. DOMAIN q = 1 .. Len(q) /\ Len(q) \in Nat /\ \A e \in ToSet(q) : \E j \in 1 .. Len(q) : q[j] = e
  BY <1>1, QueueSet
<1>3. PICK e \in Takeable(l) : e \in ToSet(q)
  BY TakeableIdle DEF CanEvict
<1>4. T \in SUBSET Nat /\ T # {}
  BY <1>2, <1>3
<1>5. PICK n \in T : \A k \in T : n <= k
  BY <1>4, Least
<1>6. IsIndex(n)
  <2>1. ASSUME NEW j \in 1 .. n - 1, q[j] \in Takeable(l) PROVE FALSE
    <3>1. j \in T /\ ~ (n <= j)
      BY <1>2, <1>4, <2>1
    <3> QED
      BY <1>5, <3>1
  <2> QED
    BY <2>1
<1>7. VictimIndex(l) = CHOOSE i \in DOMAIN q : IsIndex(i)
  BY DEF VictimIndex
<1>8. n \in DOMAIN q
  OBVIOUS
<1> HIDE DEF IsIndex
<1>9. VictimIndex(l) \in DOMAIN q /\ IsIndex(VictimIndex(l))
  BY <1>6, <1>7, <1>8
<1> QED
  BY <1>2, <1>9 DEF IsIndex

\* The victim is an idle entry of the queue that is scanned.
LEMMA VictimFacts ==
  ASSUME NEW m \in Layer, LayerOk(ent[m], lay[m]), CanEvict(m)
  PROVE  /\ VictimIndex(m) \in DOMAIN ScannedQueue(m)
         /\ Victim(m) \in Takeable(m)
         /\ Victim(m) \in Expert
         /\ ent[m][Victim(m)].rc = 0
         /\ ent[m][Victim(m)].seg = ScannedSeg(m)
         /\ ent[m][Victim(m)].seg \in {"Small", "Main"}
<1> DEFINE q == ScannedQueue(m)
<1>1. q \in Seq(Expert) /\ Lists(q, In(ent[m], ScannedSeg(m)))
  BY ScannedLists
<1>2. VictimIndex(m) \in 1 .. Len(q) /\ q[VictimIndex(m)] \in Takeable(m)
  BY VictimScan
<1>3. Victim(m) = q[VictimIndex(m)]
  BY DEF Victim
<1> HIDE DEF q
<1>4. VictimIndex(m) \in DOMAIN q /\ Victim(m) \in ToSet(q)
  BY <1>1, <1>2, <1>3, QueueSet
<1>5. Victim(m) \in In(ent[m], ScannedSeg(m))
  BY <1>1, <1>4 DEF Lists
<1>6. ent[m][Victim(m)].rc = 0
  BY <1>2, <1>3, TakeableIdle
<1> QED
  BY <1>2, <1>3, <1>4, <1>5, <1>6 DEF In, ScannedSeg, q

\* The victim is gone from the entries, and nothing else but a frequency moved.
LEMMA EntriesEvicted ==
  ASSUME NEW m \in Layer, LayerOk(ent[m], lay[m]), CanEvict(m)
  PROVE  LET le == EntriesAfterEviction(m) v == Victim(m) IN
         /\ le \in [Expert -> Entry]
         /\ le[v].seg = "None" /\ le[v].slot = NoSlot /\ le[v].rc = 0
         /\ \A x \in Expert : x # v =>
              /\ le[x].seg = ent[m][x].seg
              /\ le[x].slot = ent[m][x].slot
              /\ le[x].rc = ent[m][x].rc
<1> DEFINE le == EntriesAfterEviction(m)
           v == Victim(m)
<1>1. v \in Expert /\ ent[m][v].rc = 0
  BY VictimFacts
<1>2. ent[m] \in [Expert -> Entry]
  BY DEF LayerOk
<1>3. le = [e \in Expert |->
        IF e = v THEN [ent[m][e] EXCEPT !.slot = NoSlot, !.seg = "None",
                                        !.resident = FALSE, !.freq = 0]
        ELSE IF e \in Reinserted(m) THEN [ent[m][e] EXCEPT !.freq = @ - 1]
        ELSE ent[m][e]]
  BY DEF EntriesAfterEviction
<1> HIDE DEF le, v
<1>4. /\ le[v] \in Entry /\ le[v].seg = "None" /\ le[v].slot = NoSlot /\ le[v].rc = 0
  <2>1. le[v] = [ent[m][v] EXCEPT !.slot = NoSlot, !.seg = "None",
                                  !.resident = FALSE, !.freq = 0]
    BY <1>1, <1>3
  <2>2. ent[m][v] \in Entry
    BY <1>1, <1>2
  <2>3. le[v] = [slot |-> NoSlot, rc |-> 0, seg |-> "None", resident |-> FALSE, freq |-> 0]
    BY <1>1, <2>1, <2>2 DEF Entry
  <2> QED
    <3>1. 0 \in 0 .. FREQ_MAX
      BY DEF FREQ_MAX
    <3>2. [slot |-> NoSlot, rc |-> 0, seg |-> "None", resident |-> FALSE, freq |-> 0] \in Entry
      BY <3>1, RefBounds DEF Entry, Seg
    <3> QED
      BY <2>3, <3>2
<1>5. ASSUME NEW x \in Expert, x # v
      PROVE  /\ le[x] \in Entry
             /\ le[x].seg = ent[m][x].seg
             /\ le[x].slot = ent[m][x].slot
             /\ le[x].rc = ent[m][x].rc
  <2>1. ent[m][x] \in Entry
    BY <1>2
  <2>2. CASE x \in Reinserted(m)
    <3>1. le[x] = [ent[m][x] EXCEPT !.freq = @ - 1]
      BY <1>3, <1>5, <2>2
    <3>2. ent[m][x].freq \in 0 .. FREQ_MAX /\ ~ (ent[m][x].freq <= 1)
      BY <2>1, <2>2 DEF Reinserted, Cold, Entry
    <3>3. ent[m][x].freq - 1 \in 0 .. FREQ_MAX
      BY <3>2 DEF FREQ_MAX
    <3>4. le[x] = [ent[m][x] EXCEPT !.freq = ent[m][x].freq - 1]
      BY <2>1, <3>1
    <3> QED
      BY <2>1, <3>3, <3>4 DEF Entry
  <2>3. CASE x \notin Reinserted(m)
    <3>1. le[x] = ent[m][x]
      BY <1>3, <1>5, <2>3
    <3> QED
      BY <2>1, <3>1
  <2> QED
    BY <2>2, <2>3
<1>6. le \in [Expert -> Entry]
  BY <1>3, <1>4, <1>5
<1> QED
  BY <1>4, <1>5, <1>6 DEF le, v

LEMMA TrimmedGhostFacts ==
  ASSUME QuotaInv, NEW m \in Layer, NEW g \in Seq(Expert), IsInjective(g)
  PROVE  /\ TrimmedGhost(m, g) \in Seq(Expert)
         /\ IsInjective(TrimmedGhost(m, g))
         /\ ToSet(TrimmedGhost(m, g)) \subseteq ToSet(g)
<1> DEFINE gmax == quota[m] * GhostMult
<1>1. gmax \in Nat
  BY CacheAssumption DEF QuotaInv, QuotaTypeOK
<1>2. TrimmedGhost(m, g) = IF Len(g) > gmax THEN SubSeq(g, Len(g) - gmax + 1, Len(g)) ELSE g
  BY DEF TrimmedGhost
<1> HIDE DEF gmax
<1>3. Len(g) \in Nat /\ DOMAIN g = 1 .. Len(g)
  BY LenProperties
<1>4. CASE Len(g) > gmax
  <2>1. Len(g) - gmax + 1 \in Nat \ {0} /\ Len(g) <= Len(g) /\ Len(g) \in Int
    BY <1>1, <1>3, <1>4
  <2> DEFINE t == SubSeq(g, Len(g) - gmax + 1, Len(g))
  <2>2. /\ t \in Seq(Expert)
        /\ Lists(t, {g[i] : i \in Len(g) - gmax + 1 .. Len(g)})
    BY <2>1, SubSeqLists
  <2>3. {g[i] : i \in Len(g) - gmax + 1 .. Len(g)} \subseteq ToSet(g)
    BY <1>1, <1>3, <1>4 DEF ToSet
  <2> HIDE DEF t
  <2>4. TrimmedGhost(m, g) = t
    BY <1>2, <1>4 DEF t
  <2> QED
    BY <2>2, <2>3, <2>4 DEF Lists
<1>5. CASE ~ (Len(g) > gmax)
  BY <1>2, <1>5
<1> QED
  BY <1>4, <1>5

\* ls is layer m's state, up to what acquire erased from the ghost list.
LEMMA EvictionOk ==
  ASSUME QuotaInv, NEW m \in Layer, LayerOk(ent[m], lay[m]), CanEvict(m),
         NEW ls, LayerOk(ent[m], ls),
         ls.small = lay[m].small, ls.main = lay[m].main
  PROVE  /\ LayerOk(EntriesAfterEviction(m), LayerAfterEviction(m, ls))
         /\ ToSet(LayerAfterEviction(m, ls).ghost) \subseteq ToSet(ls.ghost) \cup {Victim(m)}
<1> DEFINE le == EntriesAfterEviction(m)
           v == Victim(m)
           es == LayerAfterEviction(m, ls)
           q == ScannedQueue(m)
           i == VictimIndex(m)
<1>1. /\ i \in DOMAIN q /\ v \in Expert /\ v = q[i] /\ ent[m][v].rc = 0
      /\ ent[m][v].seg = ScannedSeg(m) /\ ent[m][v].seg \in {"Small", "Main"}
  BY VictimFacts DEF Victim
<1>2. /\ le \in [Expert -> Entry]
      /\ le[v].seg = "None" /\ le[v].slot = NoSlot /\ le[v].rc = 0
      /\ \A x \in Expert : x # v =>
           /\ le[x].seg = ent[m][x].seg
           /\ le[x].slot = ent[m][x].slot
           /\ le[x].rc = ent[m][x].rc
  BY EntriesEvicted
<1>3. q \in Seq(Expert) /\ IsInjective(q) /\ ToSet(q) = In(ent[m], ScannedSeg(m))
  BY ScannedLists DEF Lists
<1>4. /\ QueueWithoutVictim(m) \in Seq(Expert)
      /\ Lists(QueueWithoutVictim(m), ToSet(q) \ {q[i]})
  <2>1. QueueWithoutVictim(m) = SubSeq(q, i + 1, Len(q)) \o SubSeq(q, 1, i - 1)
    BY DEF QueueWithoutVictim
  <2> HIDE DEF q, i
  <2>2. i \in DOMAIN q
    BY <1>1
  <2>3. /\ SubSeq(q, i + 1, Len(q)) \o SubSeq(q, 1, i - 1) \in Seq(Expert)
        /\ Lists(SubSeq(q, i + 1, Len(q)) \o SubSeq(q, 1, i - 1), ToSet(q) \ {q[i]})
    BY <1>3, <2>2, AllBut, Zenon
  <2> QED
    BY <2>1, <2>3, Zenon
<1>5. /\ ls \in Queues /\ ls.small \in Seq(Expert) /\ ls.main \in Seq(Expert)
      /\ ls.ghost \in Seq(Expert) /\ IsInjective(ls.ghost)
      /\ ls.resident \in Int /\ ls.pinned \in Int
      /\ Lists(ls.small, In(ent[m], "Small")) /\ Lists(ls.main, In(ent[m], "Main"))
      /\ \A e \in ToSet(ls.ghost) : ent[m][e].seg = "None"
      /\ ls.resident = Cardinality(Held(ent[m]))
      /\ ls.pinned = Cardinality(In(ent[m], "Pinned"))
  BY DEF LayerOk, Queues
<1> DEFINE ghost == TrimmedGhost(m, Append(ls.ghost, v))
           newSmall == IF TakesSmall(m) THEN QueueWithoutVictim(m) ELSE ls.small
           newMain == IF TakesSmall(m) THEN ls.main ELSE QueueWithoutVictim(m)
<1>6. es = [ls EXCEPT !.small = newSmall, !.main = newMain, !.ghost = ghost,
                      !.resident = @ - 1]
  BY <1>5 DEF LayerAfterEviction, Queues
<1> HIDE DEF le, v, es, q, i
<1>7. v \notin ToSet(ls.ghost)
  BY <1>1, <1>5
<1>8. /\ ghost \in Seq(Expert) /\ IsInjective(ghost)
      /\ ToSet(ghost) \subseteq ToSet(ls.ghost) \cup {v}
  <2>1. /\ Append(ls.ghost, v) \in Seq(Expert)
        /\ Lists(Append(ls.ghost, v), ToSet(ls.ghost) \cup {v})
    BY <1>1, <1>5, <1>7, AppendLists
  <2> QED
    BY <2>1, TrimmedGhostFacts DEF Lists
<1> HIDE DEF ghost
<1>9. newSmall \in Seq(Expert) /\ newMain \in Seq(Expert)
  BY <1>4, <1>5
<1>10. /\ In(le, "Pinned") = In(ent[m], "Pinned")
       /\ Held(le) = Held(ent[m]) \ {v} /\ v \in Held(ent[m])
       /\ ScannedSeg(m) = "Small" =>
            /\ In(le, "Small") = In(ent[m], "Small") \ {v}
            /\ In(le, "Main") = In(ent[m], "Main")
       /\ ScannedSeg(m) = "Main" =>
            /\ In(le, "Small") = In(ent[m], "Small")
            /\ In(le, "Main") = In(ent[m], "Main") \ {v}
  BY <1>1, <1>2 DEF In, Held
<1>11. Lists(newSmall, In(le, "Small")) /\ Lists(newMain, In(le, "Main"))
  <2>1. CASE TakesSmall(m)
    BY <1>1, <1>3, <1>4, <1>5, <1>10, <2>1 DEF ScannedSeg
  <2>2. CASE ~TakesSmall(m)
    BY <1>1, <1>3, <1>4, <1>5, <1>10, <2>2 DEF ScannedSeg
  <2> QED
    BY <2>1, <2>2
<1> HIDE DEF newSmall, newMain
<1>12. es = [small |-> newSmall, main |-> newMain, ghost |-> ghost,
             resident |-> ls.resident - 1, pinned |-> ls.pinned]
  BY <1>5, <1>6 DEF Queues
<1>13. /\ es \in Queues /\ es.small = newSmall /\ es.main = newMain /\ es.ghost = ghost
       /\ es.resident = ls.resident - 1 /\ es.pinned = ls.pinned
  BY <1>5, <1>8, <1>9, <1>12 DEF Queues
<1>14. Cardinality(Held(le)) = Cardinality(Held(ent[m])) - 1
  BY <1>10, HeldFinite, FS_RemoveElement
<1>15. \A x \in Expert : le[x].rc > 0 => le[x].seg # "None"
  BY <1>2 DEF LayerOk
<1>16. \A x \in Expert : le[x].seg # "None" <=> le[x].slot # NoSlot
  BY <1>2 DEF LayerOk
<1>17. \A x \in ToSet(es.ghost) : le[x].seg = "None"
  <2>1. ToSet(ls.ghost) \subseteq Expert
    <3>1. ls.ghost \in [1 .. Len(ls.ghost) -> Expert]
      BY <1>5, LenProperties
    <3> QED
      BY <3>1 DEF ToSet
  <2> QED
    BY <1>2, <1>5, <1>8, <1>13, <2>1
<1>18. LayerOk(le, es)
  BY <1>2, <1>5, <1>8, <1>10, <1>11, <1>13, <1>14, <1>15, <1>16, <1>17 DEF LayerOk
<1> QED
  BY <1>8, <1>13, <1>18 DEF le, es, v
-----------------------------------------------------------------------------
(* alloc_slot.                                                             *)

\* The layer that gives a slot is one of the layers: a furthest one exists.
LEMMA GivingLayerType ==
  ASSUME IInv, NEW l \in Layer
  PROVE  GivingLayer(l) \in Layer
<1> DEFINE candidates == {m \in Layer : lay[m].resident > lay[m].pinned}
           over(m) == lay[m].resident - quota[m]
           best(m) == /\ m \in candidates
                      /\ \A k \in candidates :
                           over(k) < over(m) \/ (over(k) = over(m) /\ m <= k)
<1>1. \A m \in Layer : over(m) \in Int /\ NExpert - over(m) \in Nat
  <2> TAKE m \in Layer
  <2>1. lay[m].resident \in 0 .. NExpert
    BY HeldFinite DEF IInv, CacheInv, LayerOk
  <2>2. quota[m] \in Nat
    BY DEF IInv, QuotaInv, QuotaTypeOK
  <2> QED
    BY <2>1, <2>2, QuotaAssumption
<1>2. CASE candidates = {}
  BY <1>2 DEF GivingLayer, FurthestOver
<1>3. CASE candidates # {}
  <2> HIDE DEF over
  <2> DEFINE A == {NExpert - over(m) : m \in candidates}
  <2>1. A \in SUBSET Nat /\ A # {}
    BY <1>1, <1>3
  <2>2. PICK a \in A : \A b \in A : a <= b
    BY <2>1, Least
  <2> DEFINE B == {m \in candidates : NExpert - over(m) = a}
  <2>3. B \in SUBSET Nat /\ B # {}
    BY <2>2, QuotaAssumption DEF Layer
  <2>4. PICK m \in B : \A k \in B : m <= k
    BY <2>3, Least
  <2>5. best(m)
    <3> SUFFICES ASSUME NEW k \in candidates
                 PROVE  over(k) < over(m) \/ (over(k) = over(m) /\ m <= k)
      BY <2>4
    <3>1. a <= NExpert - over(k) /\ NExpert - over(m) = a
      BY <2>2, <2>4
    <3>2. NExpert \in Int /\ over(k) \in Int /\ over(m) \in Int
      BY <1>1, <2>4, QuotaAssumption
    <3>3. CASE over(k) = over(m)
      BY <2>4, <3>1, <3>3
    <3> QED
      BY <3>1, <3>2, <3>3
  <2>6. FurthestOver(l) = CHOOSE x : best(x)
    BY <1>3 DEF FurthestOver, over
  <2>7. best(FurthestOver(l))
    BY <2>5, <2>6
  <2> QED
    BY <2>7 DEF GivingLayer
<1> QED
  BY <1>2, <1>3

\* A slot moves from the victim to the newcomer.
LEMMA OwnedMove ==
  ASSUME NEW t, NEW f, Owned(t, f), NEW u,
         NEW g \in Layer, NEW v \in Expert, NEW l \in Layer, NEW e \in Expert,
         t[g][v] \in Slot, t[l][e] = NoSlot,
         u \in [Layer -> [Expert -> Slot \cup {NoSlot}]],
         u[g][v] = NoSlot, u[l][e] = t[g][v],
         \A m \in Layer, x \in Expert :
            <<m, x>> # <<g, v>> /\ <<m, x>> # <<l, e>> => u[m][x] = t[m][x]
  PROVE  Owned(u, f)
<1>1. NoSlot \notin Slot /\ <<l, e>> # <<g, v>>
  BY CacheAssumption
<1>2. /\ f \in Seq(Slot) /\ IsInjective(f)
      /\ \A k, m \in Layer, y, x \in Expert :
           t[k][y] = t[m][x] /\ t[k][y] # NoSlot => k = m /\ y = x
      /\ \A k \in Layer, y \in Expert : t[k][y] \notin ToSet(f)
      /\ \A s \in Slot : s \in ToSet(f) \/ \E k \in Layer, y \in Expert : t[k][y] = s
  BY DEF Owned
<1>3. NoSlot \notin ToSet(f)
  BY <1>2
<1>4. \A k \in Layer, y \in Expert :
        \/ k = g /\ y = v /\ u[k][y] = NoSlot
        \/ k = l /\ y = e /\ u[k][y] = t[g][v]
        \/ <<k, y>> # <<g, v>> /\ <<k, y>> # <<l, e>> /\ u[k][y] = t[k][y]
  OBVIOUS
<1>5. \A k, m \in Layer, y, x \in Expert :
        u[k][y] = u[m][x] /\ u[k][y] # NoSlot => k = m /\ y = x
  <2> SUFFICES ASSUME NEW k \in Layer, NEW m \in Layer, NEW y \in Expert, NEW x \in Expert,
                      u[k][y] = u[m][x], u[k][y] # NoSlot
               PROVE  k = m /\ y = x
    OBVIOUS
  <2>1. CASE k = l /\ y = e /\ u[k][y] = t[g][v]
    BY <1>2, <1>4, <2>1
  <2>2. CASE m = l /\ x = e /\ u[m][x] = t[g][v]
    BY <1>2, <1>4, <2>2
  <2>3. CASE /\ <<k, y>> # <<g, v>> /\ <<k, y>> # <<l, e>>
             /\ <<m, x>> # <<g, v>> /\ <<m, x>> # <<l, e>>
    <3>1. u[k][y] = t[k][y] /\ u[m][x] = t[m][x]
      BY <2>3
    <3>2. t[k][y] = t[m][x] /\ t[k][y] # NoSlot
      BY <3>1
    <3>3. \A a, b \in Layer, c, d \in Expert :
            t[a][c] = t[b][d] /\ t[a][c] # NoSlot => a = b /\ c = d
      BY DEF Owned
    <3> QED
      BY <3>2, <3>3
  <2>4. <<k, y>> # <<g, v>> /\ <<m, x>> # <<g, v>>
    OBVIOUS
  <2> QED
    BY <2>1, <2>2, <2>3, <2>4
<1>6. \A k \in Layer, y \in Expert : u[k][y] \notin ToSet(f)
  BY <1>2, <1>3, <1>4
<1>7. ASSUME NEW s \in Slot
      PROVE  s \in ToSet(f) \/ \E k \in Layer, y \in Expert : u[k][y] = s
  <2>1. CASE s = t[g][v]
    BY <2>1
  <2>2. CASE s # t[g][v]
    <3>1. CASE \E k \in Layer, y \in Expert : t[k][y] = s
      <4>1. PICK k \in Layer, y \in Expert : t[k][y] = s
        BY <3>1
      <4>2. u[k][y] = s
        BY <1>1, <1>4, <2>2, <4>1
      <4> QED
        BY <4>2
    <3> QED
      BY <1>2, <3>1
  <2> QED
    BY <2>1, <2>2
<1> QED
  BY <1>2, <1>5, <1>6, <1>7 DEF Owned

\* The top of the free stack goes to the newcomer.
LEMMA OwnedTake ==
  ASSUME NEW t, NEW f, Owned(t, f), f # <<>>, NEW u,
         NEW l \in Layer, NEW e \in Expert, t[l][e] = NoSlot,
         u \in [Layer -> [Expert -> Slot \cup {NoSlot}]],
         u[l][e] = Last(f),
         \A m \in Layer, x \in Expert : <<m, x>> # <<l, e>> => u[m][x] = t[m][x]
  PROVE  Owned(u, Front(f)) /\ Last(f) \in Slot
<1>1. /\ f \in Seq(Slot) /\ IsInjective(f)
      /\ \A k, m \in Layer, y, x \in Expert :
           t[k][y] = t[m][x] /\ t[k][y] # NoSlot => k = m /\ y = x
      /\ \A k \in Layer, y \in Expert : t[k][y] \notin ToSet(f)
      /\ \A s \in Slot : s \in ToSet(f) \/ \E k \in Layer, y \in Expert : t[k][y] = s
  BY DEF Owned
<1>2. Len(f) \in Nat \ {0} /\ DOMAIN f = 1 .. Len(f)
  BY <1>1, LenProperties, EmptySeq
<1>10. Len(f) \in Nat /\ Len(f) >= 1
  BY <1>2
<1>3. Last(f) \in ToSet(f) /\ Last(f) \in Slot
  <2>1. Len(f) \in DOMAIN f
    BY <1>2
  <2>2. f[Len(f)] \in Slot
    BY <1>1, <1>2, ElementOfSeq
  <2> QED
    BY <2>1, <2>2 DEF Last, ToSet
<1>4. /\ Front(f) \in Seq(Slot) /\ IsInjective(Front(f))
      /\ ToSet(Front(f)) = {f[i] : i \in 1 .. Len(f) - 1}
  BY <1>1, <1>2, SubSeqLists DEF Front, Lists
<1>5. ToSet(Front(f)) = ToSet(f) \ {Last(f)}
  <2>1. \A i, j \in 1 .. Len(f) : f[i] = f[j] => i = j
    BY <1>1, <1>2 DEF IsInjective
  <2>2. ASSUME NEW y \in ToSet(Front(f)) PROVE y \in ToSet(f) \ {Last(f)}
    <3>1. PICK i \in 1 .. Len(f) - 1 : y = f[i]
      BY <1>4
    <3>2. i \in 1 .. Len(f) /\ Len(f) \in 1 .. Len(f) /\ i # Len(f)
      BY <1>10
    <3> QED
      BY <1>2, <2>1, <3>1, <3>2 DEF ToSet, Last
  <2>3. ASSUME NEW y \in ToSet(f) \ {Last(f)} PROVE y \in ToSet(Front(f))
    <3>1. PICK i \in 1 .. Len(f) : y = f[i]
      BY <1>2 DEF ToSet
    <3>2. i # Len(f)
      BY <3>1 DEF Last
    <3>3. i \in 1 .. Len(f) - 1
      BY <1>10, <3>2
    <3> QED
      BY <1>4, <3>1, <3>3
  <2> QED
    BY <2>2, <2>3
<1>6. \A k \in Layer, y \in Expert :
        \/ k = l /\ y = e /\ u[k][y] = Last(f)
        \/ <<k, y>> # <<l, e>> /\ u[k][y] = t[k][y]
  OBVIOUS
<1>7. \A k, m \in Layer, y, x \in Expert :
        u[k][y] = u[m][x] /\ u[k][y] # NoSlot => k = m /\ y = x
  BY <1>1, <1>3, <1>6
<1>8. \A k \in Layer, y \in Expert : u[k][y] \notin ToSet(Front(f))
  BY <1>1, <1>5, <1>6
<1>9. ASSUME NEW s \in Slot
      PROVE  s \in ToSet(Front(f)) \/ \E k \in Layer, y \in Expert : u[k][y] = s
  <2>1. CASE s = Last(f)
    BY <2>1
  <2>2. CASE \E k \in Layer, y \in Expert : t[k][y] = s
    <3>1. PICK k \in Layer, y \in Expert : t[k][y] = s
      BY <2>2
    <3>2. s # NoSlot
      BY CacheAssumption
    <3>3. u[k][y] = s
      BY <1>6, <3>1, <3>2
    <3> QED
      BY <3>3
  <2> QED
    BY <1>1, <1>5, <2>1, <2>2
<1> QED
  BY <1>3, <1>4, <1>7, <1>8, <1>9 DEF Owned
-----------------------------------------------------------------------------
(* Init, and one lemma per action.                                         *)

LEMMA InitIInv == Init => IInv
<1> SUFFICES ASSUME Init PROVE IInv
  OBVIOUS
<1>1. QuotaInv
  BY QuotaInitInv DEF Init
<1> DEFINE fresh == [slot |-> NoSlot, rc |-> 0, seg |-> "None",
                     resident |-> FALSE, freq |-> 0]
           empty == [small |-> <<>>, main |-> <<>>, ghost |-> <<>>,
                     resident |-> 0, pinned |-> 0]
<1>2. /\ ent = [l \in Layer |-> [e \in Expert |-> fresh]]
      /\ lay = [l \in Layer |-> empty]
      /\ table = [l \in Layer |-> [e \in Expert |-> NoSlot]]
      /\ free \in Bijection(1 .. NSlot, Slot)
  BY DEF Init
<1>3. fresh \in Entry /\ empty \in Queues
  <2>1. <<>> \in Seq(Expert)
    BY EmptySeq
  <2> QED
    <3>1. 0 \in 0 .. FREQ_MAX
      BY DEF FREQ_MAX
    <3>2. fresh \in Entry
      BY <3>1, RefBounds DEF Entry, Seg
    <3>3. empty \in Queues
      BY <2>1 DEF Queues
    <3> QED
      BY <3>2, <3>3
<1>4. ASSUME NEW l \in Layer PROVE LayerOk(ent[l], lay[l])
  <2>1. /\ ent[l] = [e \in Expert |-> fresh] /\ lay[l] = empty
    BY <1>2
  <2>2. /\ In(ent[l], "Small") = {} /\ In(ent[l], "Main") = {}
        /\ In(ent[l], "Pinned") = {} /\ Held(ent[l]) = {}
    BY <2>1 DEF In, Held
  <2>3. Lists(<<>>, {})
    BY DEF Lists, IsInjective, ToSet
  <2>4. IsInjective(<<>>) /\ ToSet(<<>>) = {}
    BY <2>3 DEF Lists
  <2>5. Cardinality({}) = 0
    BY FS_EmptySet
  <2>6. ent[l] \in [Expert -> Entry] /\ lay[l] \in Queues
    BY <1>3, <2>1
  <2>7. \A e \in Expert : ent[l][e].rc = 0 /\ ent[l][e].seg = "None" /\ ent[l][e].slot = NoSlot
    BY <2>1
  <2>8. /\ lay[l].small = <<>> /\ lay[l].main = <<>> /\ lay[l].ghost = <<>>
        /\ lay[l].resident = 0 /\ lay[l].pinned = 0
    BY <2>1
  <2> HIDE DEF fresh, empty
  <2>9. \A e \in ToSet(lay[l].ghost) : ent[l][e].seg = "None"
    BY <2>4, <2>8
  <2>10. /\ Lists(lay[l].small, In(ent[l], "Small"))
         /\ Lists(lay[l].main, In(ent[l], "Main"))
         /\ IsInjective(lay[l].ghost)
    BY <2>2, <2>3, <2>4, <2>8
  <2>11. /\ lay[l].pinned = Cardinality(In(ent[l], "Pinned"))
         /\ lay[l].resident = Cardinality(Held(ent[l]))
    BY <2>2, <2>5, <2>8
  <2>12. \A e \in Expert : ent[l][e].rc > 0 => ent[l][e].seg # "None"
    BY <2>7
  <2>13. \A e \in Expert : ent[l][e].seg # "None" <=> ent[l][e].slot # NoSlot
    BY <2>7
  <2> QED
    BY <2>6, <2>9, <2>10, <2>11, <2>12, <2>13 DEF LayerOk
<1>5. Owned(table, free)
  <2>1. /\ free \in [1 .. NSlot -> Slot] /\ IsInjective(free)
        /\ \A s \in Slot : \E i \in 1 .. NSlot : free[i] = s
    BY <1>2 DEF Bijection, Injection, Surjection
  <2>2. free \in Seq(Slot)
    BY <2>1, SeqDef, QuotaAssumption
  <2>3. DOMAIN free = 1 .. NSlot
    BY <2>1
  <2>4. \A s \in Slot : s \in ToSet(free)
    BY <2>1, <2>3 DEF ToSet
  <2>5. NoSlot \notin ToSet(free)
    <3>1. \A i \in 1 .. NSlot : free[i] \in Slot
      BY <2>1
    <3> QED
      BY <2>3, <3>1, CacheAssumption DEF ToSet
  <2> QED
    BY <1>2, <2>1, <2>2, <2>4, <2>5 DEF Owned
<1>6. \A l \in Layer, e \in Expert : table[l][e] = ent[l][e].slot
  BY <1>2
<1>7. ent \in [Layer -> [Expert -> Entry]] /\ lay \in [Layer -> Queues]
  BY <1>2, <1>3
<1> QED
  BY <1>1, <1>4, <1>5, <1>6, <1>7 DEF IInv, CacheInv

\* Changing the fields of one entry that the lists do not depend on.
LEMMA EntryTouched ==
  ASSUME IInv, NEW l \in Layer, NEW e \in Expert, NEW new \in Entry,
         new.slot = ent[l][e].slot, new.seg = ent[l][e].seg,
         new.rc > 0 => new.seg # "None",
         ent' = [ent EXCEPT ![l][e] = new],
         NEW ls, LayerOk(ent[l], ls), lay' = [lay EXCEPT ![l] = ls],
         UNCHANGED <<table, free>>
  PROVE  CacheInv'
<1>1. /\ ent \in [Layer -> [Expert -> Entry]] /\ lay \in [Layer -> Queues]
      /\ \A k \in Layer : LayerOk(ent[k], lay[k])
      /\ \A k \in Layer, y \in Expert : table[k][y] = ent[k][y].slot
      /\ Owned(table, free)
  BY DEF IInv, CacheInv
<1>2. /\ ent' \in [Layer -> [Expert -> Entry]]
      /\ ent'[l][e] = new
      /\ \A k \in Layer, y \in Expert : <<k, y>> # <<l, e>> => ent'[k][y] = ent[k][y]
  BY <1>1
<1>3. \A k \in Layer, y \in Expert :
        ent'[k][y].slot = ent[k][y].slot /\ ent'[k][y].seg = ent[k][y].seg
  BY <1>2
<1>4. ls \in Queues /\ lay' \in [Layer -> Queues]
  BY <1>1 DEF LayerOk
<1>5. ASSUME NEW k \in Layer PROVE LayerOk(ent'[k], lay'[k])
  <2>1. lay'[k] = IF k = l THEN ls ELSE lay[k]
    BY <1>1
  <2>2. LayerOk(ent[k], lay'[k])
    BY <1>1, <2>1
  <2>3. /\ Held(ent'[k]) = Held(ent[k])
        /\ In(ent'[k], "Small") = In(ent[k], "Small")
        /\ In(ent'[k], "Main") = In(ent[k], "Main")
        /\ In(ent'[k], "Pinned") = In(ent[k], "Pinned")
    BY <1>3 DEF Held, In
  <2>4. \A y \in Expert : ent'[k][y].rc > 0 => ent'[k][y].seg # "None"
    BY <1>2, <2>2 DEF LayerOk
  <2>5. \A y \in Expert : ent'[k][y].seg # "None" <=> ent'[k][y].slot # NoSlot
    BY <1>3, <2>2 DEF LayerOk
  <2>6. \A y \in ToSet(lay'[k].ghost) : ent'[k][y].seg = "None"
    <3>1. lay'[k].ghost \in Seq(Expert)
      BY <2>2 DEF LayerOk, Queues
    <3>2. lay'[k].ghost \in [1 .. Len(lay'[k].ghost) -> Expert]
      BY <3>1, LenProperties
    <3>3. ToSet(lay'[k].ghost) \subseteq Expert
      BY <3>2 DEF ToSet
    <3> QED
      BY <1>3, <2>2, <3>3 DEF LayerOk
  <2>7. ent'[k] \in [Expert -> Entry]
    BY <1>2
  <2> QED
    BY <2>2, <2>3, <2>4, <2>5, <2>6, <2>7 DEF LayerOk
<1>6. \A k \in Layer, y \in Expert : table'[k][y] = ent'[k][y].slot
  BY <1>1, <1>3
<1> QED
  BY <1>1, <1>2, <1>4, <1>5, <1>6 DEF CacheInv

LEMMA MarkResidentIInv ==
  ASSUME IInv, NEW l \in Layer, NEW e \in Expert, MarkResident(l, e)
  PROVE  IInv'
<1> DEFINE new == [ent[l][e] EXCEPT !.resident = TRUE]
<1>1. /\ ent \in [Layer -> [Expert -> Entry]] /\ lay \in [Layer -> Queues]
      /\ LayerOk(ent[l], lay[l])
  BY DEF IInv, CacheInv
<1>2. ent[l][e] \in Entry
  BY <1>1
<1>3. /\ new \in Entry /\ new.slot = ent[l][e].slot /\ new.seg = ent[l][e].seg
      /\ new.rc > 0 => new.seg # "None"
  BY <1>1, <1>2 DEF Entry, LayerOk
<1>4. ent' = [ent EXCEPT ![l][e] = new]
  BY <1>1 DEF MarkResident
<1>5. lay' = [lay EXCEPT ![l] = lay[l]] /\ UNCHANGED <<table, free>>
  BY <1>1 DEF MarkResident
<1> HIDE DEF new
<1>6. CacheInv'
  BY <1>1, <1>3, <1>4, <1>5, EntryTouched
<1>7. QuotaInv'
  BY DEF MarkResident, IInv, QuotaInv, QuotaTypeOK, QuotasCoverTheSlots, QuotaFloor, quotaVars
<1> QED
  BY <1>6, <1>7 DEF IInv

LEMMA ReleaseIInv ==
  ASSUME IInv, NEW l \in Layer, NEW e \in Expert, Release(l, e)
  PROVE  IInv'
<1> DEFINE new == [ent[l][e] EXCEPT !.rc = @ - 1]
<1>1. /\ ent \in [Layer -> [Expert -> Entry]] /\ lay \in [Layer -> Queues]
      /\ LayerOk(ent[l], lay[l])
  BY DEF IInv, CacheInv
<1>2. ent[l][e] \in Entry /\ ent[l][e].rc \in 0 .. MaxRefs /\ ent[l][e].rc > 0
  BY <1>1 DEF Entry, Release
<1>3. ent[l][e].rc - 1 \in 0 .. MaxRefs /\ MaxRefs \in Int
  <2>1. ASSUME NEW m \in Nat, NEW n \in 0 .. m, n > 0
        PROVE  n - 1 \in 0 .. m /\ m \in Int
    BY <2>1
  <2> QED
    BY <1>2, <2>1, RefBounds
<1>4. new = [ent[l][e] EXCEPT !.rc = ent[l][e].rc - 1]
  OBVIOUS
<1>5. /\ new \in Entry /\ new.slot = ent[l][e].slot /\ new.seg = ent[l][e].seg
      /\ new.rc > 0 => new.seg # "None"
  BY <1>1, <1>2, <1>3, <1>4 DEF Entry, LayerOk
<1>6. ent' = [ent EXCEPT ![l][e] = new]
  BY <1>1 DEF Release
<1>7. lay' = [lay EXCEPT ![l] = lay[l]] /\ UNCHANGED <<table, free>>
  BY <1>1 DEF Release
<1> HIDE DEF new
<1>8. CacheInv'
  BY <1>1, <1>5, <1>6, <1>7, EntryTouched
<1>9. QuotaInv'
  BY DEF Release, IInv, QuotaInv, QuotaTypeOK, QuotasCoverTheSlots, QuotaFloor, quotaVars
<1> QED
  BY <1>8, <1>9 DEF IInv

LEMMA GhostHitsInv ==
  ASSUME IInv, NEW l \in Layer, NEW e \in Expert, GhostHits(l, e)
  PROVE  QuotaInv'
<1>1. CASE CountGhostHit(l)
  BY <1>1, CountGhostHitInv DEF IInv
<1>2. CASE UNCHANGED quotaVars
  BY <1>2 DEF IInv, QuotaInv, QuotaTypeOK, QuotasCoverTheSlots, QuotaFloor, quotaVars
<1> QED
  BY <1>1, <1>2 DEF GhostHits

LEMMA MissUnservedIInv ==
  ASSUME IInv, NEW l \in Layer, NEW e \in Expert, NEW origin, MissUnserved(l, e, origin)
  PROVE  IInv'
<1> DEFINE new == [ent[l][e] EXCEPT !.freq = 1]
           ls == Unghosted(lay[l], e)
<1>1. /\ ent \in [Layer -> [Expert -> Entry]] /\ lay \in [Layer -> Queues]
      /\ LayerOk(ent[l], lay[l])
  BY DEF IInv, CacheInv
<1>2. ent[l][e] \in Entry
  BY <1>1
<1>3. /\ new \in Entry /\ new.slot = ent[l][e].slot /\ new.seg = ent[l][e].seg
      /\ new.rc > 0 => new.seg # "None"
  <2>1. 1 \in 0 .. FREQ_MAX
    BY DEF FREQ_MAX
  <2>2. /\ new \in Entry /\ new.slot = ent[l][e].slot /\ new.seg = ent[l][e].seg
        /\ new.rc = ent[l][e].rc
    BY <1>2, <2>1 DEF Entry
  <2> QED
    BY <1>1, <2>2 DEF LayerOk
<1>4. ent' = [ent EXCEPT ![l][e] = new]
  BY <1>1 DEF MissUnserved
<1>5. lay' = [lay EXCEPT ![l] = ls] /\ UNCHANGED <<table, free>>
  BY <1>1 DEF MissUnserved
<1>6. LayerOk(ent[l], ls)
  BY <1>1, UnghostOk
<1> HIDE DEF new, ls
<1>7. CacheInv'
  BY <1>1, <1>3, <1>4, <1>5, <1>6, EntryTouched
<1>8. QuotaInv'
  BY GhostHitsInv DEF MissUnserved
<1> QED
  BY <1>7, <1>8 DEF IInv

\* A step that rewrites one layer and no slot.
LEMMA LayerRewritten ==
  ASSUME IInv, NEW l \in Layer, LayerOk(ent'[l], lay'[l]),
         ent' \in [Layer -> [Expert -> Entry]], lay' \in [Layer -> Queues],
         \A k \in Layer : k # l => ent'[k] = ent[k] /\ lay'[k] = lay[k],
         \A x \in Expert : ent'[l][x].slot = ent[l][x].slot,
         table' = table, free' = free
  PROVE  CacheInv'
<1>1. /\ \A k \in Layer : LayerOk(ent[k], lay[k])
      /\ \A k \in Layer, y \in Expert : table[k][y] = ent[k][y].slot
      /\ Owned(table, free)
  BY DEF IInv, CacheInv
<1>2. ASSUME NEW k \in Layer PROVE LayerOk(ent'[k], lay'[k])
  BY <1>1
<1>3. ASSUME NEW k \in Layer, NEW y \in Expert PROVE table'[k][y] = ent'[k][y].slot
  BY <1>1
<1>4. Owned(table', free')
  BY <1>1
<1> QED
  BY <1>2, <1>3, <1>4 DEF CacheInv

LEMMA QueuesUpdated ==
  ASSUME NEW q \in Queues, NEW small, NEW main, NEW r,
         r = [q EXCEPT !.small = small, !.main = main]
  PROVE  r = [small |-> small, main |-> main, ghost |-> q.ghost,
              resident |-> q.resident, pinned |-> q.pinned]
BY DEF Queues

LEMMA EntryUpdated ==
  ASSUME NEW old \in Entry, NEW freq, NEW rc, NEW seg, NEW r,
         r = [old EXCEPT !.freq = freq, !.rc = rc, !.seg = seg]
  PROVE  r = [slot |-> old.slot, rc |-> rc, seg |-> seg,
              resident |-> old.resident, freq |-> freq]
BY DEF Entry

EntryAfterHit(l, e) ==
    [slot |-> ent[l][e].slot, rc |-> ent[l][e].rc + 1,
     seg |-> IF Promotes(l, e) THEN "Main" ELSE ent[l][e].seg,
     resident |-> ent[l][e].resident, freq |-> FreqAfterHit(ent[l][e].freq)]

\* What a hit does to the entry: the caller's reference is counted.
LEMMA HitFacts ==
  ASSUME IInv, NEW l \in Layer, NEW e \in Expert, Hit(l, e)
  PROVE  /\ EntryAfterHit(l, e) \in Entry
         /\ ent' = [ent EXCEPT ![l][e] = EntryAfterHit(l, e)]
         /\ ent[l][e].rc < MaxRefs
<1> DEFINE new == EntryAfterHit(l, e)
           old == ent[l][e]
           r == [old EXCEPT !.freq = FreqAfterHit(@), !.rc = (@ + 1) % RC_MOD,
                            !.seg = IF Promotes(l, e) THEN "Main" ELSE @]
<1>1. ent \in [Layer -> [Expert -> Entry]]
  BY DEF IInv, CacheInv
<1>2. old \in Entry
  BY <1>1
<1>3. /\ old.slot \in Slot \cup {NoSlot} /\ old.rc \in 0 .. MaxRefs /\ old.seg \in Seg
      /\ old.resident \in BOOLEAN /\ old.freq \in 0 .. 3
      /\ old = [slot |-> old.slot, rc |-> old.rc, seg |-> old.seg,
                resident |-> old.resident, freq |-> old.freq]
  BY <1>2 DEF Entry, FREQ_MAX
<1>4. old.rc < MaxRefs
  BY DEF Hit
<1>5. (old.rc + 1) % RC_MOD = old.rc + 1 /\ old.rc + 1 \in 0 .. MaxRefs
  <2>1. ASSUME NEW n \in Nat, NEW m \in Nat, m < n, NEW i \in 0 .. m, i < m
        PROVE  (i + 1) % n = i + 1 /\ i + 1 \in 0 .. m
    BY <2>1
  <2> HIDE DEF old
  <2> QED
    BY <1>3, <1>4, <2>1, RefBounds
<1>6. FreqAfterHit(old.freq) \in 0 .. FREQ_MAX
  BY <1>3 DEF FreqAfterHit, AtMost, FREQ_MAX
<1>7. new \in Entry
  BY <1>3, <1>5, <1>6 DEF Entry, Seg, EntryAfterHit
<1>8. ent' = [ent EXCEPT ![l][e] = r]
  BY <1>1, <1>2 DEF Hit, Entry
<1>9. r = new
  <2> DEFINE seg == IF Promotes(l, e) THEN "Main" ELSE old.seg
             freq == FreqAfterHit(old.freq)
             rc == (old.rc + 1) % RC_MOD
  <2>1. new = [slot |-> old.slot, rc |-> rc, seg |-> seg,
               resident |-> old.resident, freq |-> freq]
    BY <1>5 DEF EntryAfterHit
  <2>2. r = [old EXCEPT !.freq = freq, !.rc = rc, !.seg = seg]
    OBVIOUS
  <2> HIDE DEF seg, freq, rc, new, r, old
  <2>3. r = [slot |-> old.slot, rc |-> rc, seg |-> seg,
             resident |-> old.resident, freq |-> freq]
    BY <1>2, <2>2, EntryUpdated
  <2> QED
    BY <2>1, <2>3
<1> HIDE DEF r
<1> QED
  BY <1>4, <1>7, <1>8, <1>9

LEMMA HitIInv ==
  ASSUME IInv, NEW l \in Layer, NEW e \in Expert, Hit(l, e)
  PROVE  IInv'
<1> DEFINE new == EntryAfterHit(l, e)
<1>1. /\ ent \in [Layer -> [Expert -> Entry]] /\ lay \in [Layer -> Queues]
      /\ LayerOk(ent[l], lay[l])
  BY DEF IInv, CacheInv
<1>2. new \in Entry /\ ent' = [ent EXCEPT ![l][e] = new]
  BY HitFacts
<1>3. QuotaInv'
  BY DEF Hit, IInv, QuotaInv, QuotaTypeOK, QuotasCoverTheSlots, QuotaFloor, quotaVars
<1>4. ent[l][e].seg # "None" /\ ent[l][e].seg \in Seg /\ UNCHANGED <<table, free>>
  BY <1>1 DEF Hit, Cached, Entry
<1>5. CASE ~Promotes(l, e)
  <2>1. new.slot = ent[l][e].slot /\ new.seg = ent[l][e].seg /\ new.seg # "None"
    BY <1>4, <1>5 DEF EntryAfterHit
  <2>2. lay' = [lay EXCEPT ![l] = lay[l]]
    BY <1>1, <1>5 DEF Hit
  <2> HIDE DEF new
  <2>3. CacheInv'
    BY <1>1, <1>2, <1>4, <2>1, <2>2, EntryTouched
  <2> QED
    BY <1>3, <2>3 DEF IInv
<1>6. CASE Promotes(l, e)
  <2> DEFINE le == [ent[l] EXCEPT ![e] = new]
             small == Erased(lay[l].small, e)
             main == Append(lay[l].main, e)
             ls == [small |-> small, main |-> main, ghost |-> lay[l].ghost,
                    resident |-> lay[l].resident, pinned |-> lay[l].pinned]
  <2>1. /\ new.slot = ent[l][e].slot /\ new.seg = "Main" /\ ent[l][e].seg = "Small"
    BY <1>6 DEF Promotes, EntryAfterHit
  <2> HIDE DEF new
  <2>2. /\ lay[l] \in Queues /\ lay[l].small \in Seq(Expert) /\ lay[l].main \in Seq(Expert)
        /\ lay[l].ghost \in Seq(Expert) /\ lay[l].resident \in Int /\ lay[l].pinned \in Int
        /\ Lists(lay[l].small, In(ent[l], "Small")) /\ Lists(lay[l].main, In(ent[l], "Main"))
        /\ e \in In(ent[l], "Small") /\ e \notin In(ent[l], "Main")
    BY <1>1, <2>1 DEF LayerOk, Queues, In
  <2>3. /\ small \in Seq(Expert) /\ Lists(small, In(ent[l], "Small") \ {e})
        /\ main \in Seq(Expert) /\ Lists(main, In(ent[l], "Main") \cup {e})
    BY <2>2, ErasedLists, AppendLists DEF Lists
  <2> HIDE DEF small, main
  <2>4. lay' = [lay EXCEPT ![l] = ls]
    <3>1. lay' = [lay EXCEPT ![l].small = small, ![l].main = main]
      BY <1>1, <1>6 DEF Hit, small, main
    <3>2. lay' = [lay EXCEPT ![l] = [lay[l] EXCEPT !.small = small, !.main = main]]
      BY <1>1, <2>2, <3>1
    <3> DEFINE r == [lay[l] EXCEPT !.small = small, !.main = main]
    <3>4. r = ls
      BY <2>2, QueuesUpdated
    <3> QED
      BY <3>2, <3>4 DEF r
  <2>5. /\ le \in [Expert -> Entry] /\ le[e] = new
        /\ \A x \in Expert : x # e => le[x] = ent[l][x]
        /\ ent' = [ent EXCEPT ![l] = le]
    BY <1>1, <1>2
  <2> HIDE DEF le
  <2>6. /\ In(le, "Small") = In(ent[l], "Small") \ {e}
        /\ In(le, "Main") = In(ent[l], "Main") \cup {e}
        /\ In(le, "Pinned") = In(ent[l], "Pinned")
        /\ Held(le) = Held(ent[l])
    BY <2>1, <2>5 DEF In, Held
  <2>7. /\ ls \in Queues /\ ls.small = small /\ ls.main = main /\ ls.ghost = lay[l].ghost
        /\ ls.resident = lay[l].resident /\ ls.pinned = lay[l].pinned
    BY <2>2, <2>3 DEF Queues
  <2> HIDE DEF ls
  <2>8. \A x \in Expert : le[x].slot = ent[l][x].slot
    BY <2>1, <2>5
  <2>9. \A x \in Expert : le[x].rc > 0 => le[x].seg # "None"
    BY <1>1, <2>1, <2>5 DEF LayerOk
  <2>10. \A x \in Expert : le[x].seg # "None" <=> le[x].slot # NoSlot
    BY <1>1, <2>1, <2>5 DEF LayerOk
  <2>11. IsInjective(ls.ghost) /\ \A x \in ToSet(ls.ghost) : le[x].seg = "None"
    <3>1. lay[l].ghost \in [1 .. Len(lay[l].ghost) -> Expert]
      BY <2>2, LenProperties
    <3>2. ToSet(lay[l].ghost) \subseteq Expert
      BY <3>1 DEF ToSet
    <3> QED
      BY <1>1, <2>1, <2>5, <2>7, <3>2 DEF LayerOk
  <2>12. /\ ls.pinned = Cardinality(In(le, "Pinned"))
         /\ ls.resident = Cardinality(Held(le))
    BY <1>1, <2>6, <2>7 DEF LayerOk
  <2>13. Lists(ls.small, In(le, "Small")) /\ Lists(ls.main, In(le, "Main"))
    BY <2>3, <2>6, <2>7
  <2>14. LayerOk(le, ls)
    BY <2>5, <2>7, <2>9, <2>10, <2>11, <2>12, <2>13 DEF LayerOk
  <2>15. /\ ent'[l] = le /\ lay'[l] = ls
         /\ \A k \in Layer : k # l => ent'[k] = ent[k] /\ lay'[k] = lay[k]
    BY <1>1, <2>4, <2>5
  <2>16. ent' \in [Layer -> [Expert -> Entry]] /\ lay' \in [Layer -> Queues]
    BY <1>1, <2>4, <2>5, <2>7
  <2>17. table' = table /\ free' = free
    BY <1>4
  <2>18. LayerOk(ent'[l], lay'[l]) /\ \A x \in Expert : ent'[l][x].slot = ent[l][x].slot
    BY <2>8, <2>14, <2>15
  <2>19. CacheInv'
    BY <2>15, <2>16, <2>17, <2>18, LayerRewritten
  <2> QED
    BY <1>3, <2>19 DEF IInv
<1> QED
  BY <1>5, <1>6

\* What a miss that is served looks like from outside.
Served(l, e) ==
    \E s \in Slot :
        /\ \A m \in Layer, x \in Expert : table[m][x] = s => ent[m][x].rc = 0
        /\ \A m \in Layer, x \in Expert :
             table'[m][x] = IF m = l /\ x = e THEN s
                            ELSE IF table[m][x] = s THEN NoSlot ELSE table[m][x]
        /\ \A m \in Layer, x \in Expert :
             ent'[m][x].rc = IF m = l /\ x = e THEN 1 ELSE ent[m][x].rc

LEMMA AdmitFresh ==
  ASSUME IInv, NEW l \in Layer, NEW e \in Expert, NEW origin, Admit(l, e, origin),
         ~NeedsEviction(l)
  PROVE  CacheInv' /\ Served(l, e)
<1> DEFINE s == Last(free)
           ghost == WasGhost(l, e)
           new == NewEntry(s, ghost)
           us == Unghosted(lay[l], e)
<1>1. /\ ent \in [Layer -> [Expert -> Entry]] /\ lay \in [Layer -> Queues]
      /\ \A k \in Layer : LayerOk(ent[k], lay[k])
      /\ \A k \in Layer, y \in Expert : table[k][y] = ent[k][y].slot
      /\ Owned(table, free)
      /\ table \in [Layer -> [Expert -> Slot \cup {NoSlot}]]
  BY DEF IInv, CacheInv, Owned
<1>2. ent' = [ent EXCEPT ![l][e] = new]
  BY DEF Admit, NewEntry
<1>3. lay' = [[lay EXCEPT ![l] = Unghosted(@, e)] EXCEPT
                 ![l] = Enqueued(@, e, origin, ghost)]
  BY DEF Admit
<1>4. table' = [table EXCEPT ![l][e] = s] /\ free' = Front(free)
  BY DEF Admit
<1>5. free # <<>>
  BY DEF NeedsEviction
<1>6. ghost \in BOOLEAN
  BY DEF WasGhost, Contains
<1> HIDE DEF s, ghost, new, us
<1>7. ent[l][e].seg = "None" /\ table[l][e] = NoSlot
  <2>1. ent[l][e].seg = "None"
    BY DEF Admit, Cached
  <2> QED
    BY <1>1, <2>1 DEF LayerOk
<1>8. Owned(table', free') /\ s \in Slot
  <2>1. s \in Slot
    <3>1. free \in Seq(Slot) /\ Len(free) \in 1 .. Len(free)
      BY <1>1, <1>5, LenProperties, EmptySeq DEF Owned
    <3> QED
      BY <3>1, ElementOfSeq DEF s, Last
  <2>2. /\ table' \in [Layer -> [Expert -> Slot \cup {NoSlot}]]
        /\ table'[l][e] = s
        /\ \A m \in Layer, x \in Expert : <<m, x>> # <<l, e>> => table'[m][x] = table[m][x]
    BY <1>1, <1>4, <2>1
  <2>3. Owned(table', Front(free))
    BY <1>1, <1>5, <1>7, <2>2, OwnedTake DEF s
  <2> QED
    BY <1>4, <2>1, <2>3
<1>9. LayerOk(ent[l], us) /\ e \notin ToSet(us.ghost)
  BY <1>1, UnghostOk DEF us
<1>10. lay'[l] = Enqueued(us, e, origin, ghost)
  BY <1>1, <1>3 DEF us
<1>11. \A k \in Layer : k # l => lay'[k] = lay[k] /\ ent'[k] = ent[k]
  BY <1>1, <1>2, <1>3
<1>12. ent'[l] = [ent[l] EXCEPT ![e] = NewEntry(s, ghost)]
  BY <1>1, <1>2 DEF new
<1>13. LayerOk(ent'[l], lay'[l])
  BY <1>6, <1>7, <1>8, <1>9, <1>10, <1>12, EnqueueOk
<1>14. \A k \in Layer : LayerOk(ent'[k], lay'[k])
  BY <1>1, <1>11, <1>13
<1>15. ent' \in [Layer -> [Expert -> Entry]] /\ lay' \in [Layer -> Queues]
  <2>1. \A k \in Layer : ent'[k] \in [Expert -> Entry] /\ lay'[k] \in Queues
    BY <1>14 DEF LayerOk
  <2>2. ent' \in [Layer -> [Expert -> Entry]]
    BY <1>1, <1>2, <2>1
  <2>3. lay' \in [Layer -> Queues]
    BY <1>1, <1>3, <2>1
  <2> QED
    BY <2>2, <2>3
<1>16. /\ ent'[l][e] = new
       /\ \A k \in Layer, y \in Expert : ~(k = l /\ y = e) => ent'[k][y] = ent[k][y]
  BY <1>1, <1>2
<1>17. new.slot = s /\ new.rc = 1
  BY DEF new, NewEntry
<1>18. /\ table'[l][e] = s
       /\ \A k \in Layer, y \in Expert : ~(k = l /\ y = e) => table'[k][y] = table[k][y]
  BY <1>1, <1>4
<1>19. \A k \in Layer, y \in Expert : table'[k][y] = ent'[k][y].slot
  BY <1>1, <1>16, <1>17, <1>18
<1>20. \A k \in Layer, y \in Expert : table[k][y] # s
  <2>1. s \in ToSet(free)
    <3>1. free \in Seq(Slot) /\ Len(free) \in DOMAIN free
      BY <1>1, <1>5, LenProperties, EmptySeq DEF Owned
    <3> QED
      BY <3>1 DEF s, Last, ToSet
  <2> QED
    BY <1>1, <2>1 DEF Owned
<1>21. Served(l, e)
  <2>1. \A m \in Layer, x \in Expert : table[m][x] = s => ent[m][x].rc = 0
    BY <1>20
  <2>2. \A m \in Layer, x \in Expert :
          table'[m][x] = IF m = l /\ x = e THEN s
                         ELSE IF table[m][x] = s THEN NoSlot ELSE table[m][x]
    BY <1>18, <1>20
  <2>3. \A m \in Layer, x \in Expert :
          ent'[m][x].rc = IF m = l /\ x = e THEN 1 ELSE ent[m][x].rc
    BY <1>16, <1>17
  <2> QED
    BY <1>8, <2>1, <2>2, <2>3 DEF Served
<1> QED
  BY <1>8, <1>14, <1>15, <1>19, <1>21 DEF CacheInv

LEMMA AdmitEvicting ==
  ASSUME IInv, NEW l \in Layer, NEW e \in Expert, NEW origin, Admit(l, e, origin),
         NeedsEviction(l)
  PROVE  CacheInv' /\ Served(l, e)
<1> DEFINE g == GivingLayer(l)
           v == Victim(g)
           s == ent[g][v].slot
           ghost == WasGhost(l, e)
           new == NewEntry(s, ghost)
           U == [lay EXCEPT ![l] = Unghosted(@, e)]
           E1 == [ent EXCEPT ![g] = EntriesAfterEviction(g)]
           L1 == [U EXCEPT ![g] = LayerAfterEviction(g, @)]
           T1 == [table EXCEPT ![g][v] = NoSlot]
<1>1. /\ ent \in [Layer -> [Expert -> Entry]] /\ lay \in [Layer -> Queues]
      /\ \A k \in Layer : LayerOk(ent[k], lay[k])
      /\ \A k \in Layer, y \in Expert : table[k][y] = ent[k][y].slot
      /\ Owned(table, free)
      /\ table \in [Layer -> [Expert -> Slot \cup {NoSlot}]]
  BY DEF IInv, CacheInv, Owned
<1>2. ent' = [E1 EXCEPT ![l][e] = new]
  BY DEF Admit, NewEntry
<1>3. lay' = [L1 EXCEPT ![l] = Enqueued(@, e, origin, ghost)]
  BY DEF Admit
<1>4. table' = [T1 EXCEPT ![l][e] = s] /\ free' = free
  BY DEF Admit
<1>5. g \in Layer /\ CanEvict(g)
  BY GivingLayerType DEF Admit, Refuses
<1>6. ghost \in BOOLEAN
  BY DEF WasGhost, Contains
<1>7. QuotaInv /\ LayerOk(ent[g], lay[g])
  BY <1>1, <1>5 DEF IInv
<1>8. /\ v \in Expert /\ ent[g][v].rc = 0 /\ ent[g][v].seg \in {"Small", "Main"}
  BY <1>5, <1>7, VictimFacts
<1>9. LET le == EntriesAfterEviction(g) IN
      /\ le \in [Expert -> Entry]
      /\ le[v].seg = "None" /\ le[v].slot = NoSlot /\ le[v].rc = 0
      /\ \A x \in Expert : x # v =>
           /\ le[x].seg = ent[g][x].seg
           /\ le[x].slot = ent[g][x].slot
           /\ le[x].rc = ent[g][x].rc
  BY <1>5, <1>7, EntriesEvicted
<1> HIDE DEF g, v, s, ghost, new
<1>10. ent[l][e].seg = "None" /\ table[l][e] = NoSlot
  <2>1. ent[l][e].seg = "None"
    BY DEF Admit, Cached
  <2> QED
    BY <1>1, <2>1 DEF LayerOk
<1>11. <<l, e>> # <<g, v>>
  BY <1>8, <1>10
<1>12. s \in Slot /\ table[g][v] = s
  <2>1. ent[g][v] \in Entry /\ ent[g][v].slot # NoSlot
    BY <1>1, <1>5, <1>8 DEF LayerOk
  <2> QED
    BY <1>1, <1>5, <1>8, <2>1 DEF s, Entry
<1>13. /\ T1 \in [Layer -> [Expert -> Slot \cup {NoSlot}]]
       /\ T1[g][v] = NoSlot
       /\ \A m \in Layer, x \in Expert : <<m, x>> # <<g, v>> => T1[m][x] = table[m][x]
  BY <1>1, <1>5, <1>8
<1>14. /\ E1 \in [Layer -> [Expert -> Entry]]
       /\ E1[g] = EntriesAfterEviction(g)
       /\ \A m \in Layer : m # g => E1[m] = ent[m]
  BY <1>1, <1>5, <1>9
<1> DEFINE us == Unghosted(lay[l], e)
<1>15. LayerOk(ent[l], us) /\ e \notin ToSet(us.ghost)
  BY <1>1, UnghostOk
<1>16. us.small = lay[l].small /\ us.main = lay[l].main
  BY <1>1 DEF Unghosted, Queues
<1>17. U \in [Layer -> Queues] /\ U[l] = us /\ \A m \in Layer : m # l => U[m] = lay[m]
  BY <1>1, <1>15 DEF LayerOk
<1> HIDE DEF T1, E1, U, us
<1>18. /\ LayerOk(ent[g], U[g]) /\ U[g].small = lay[g].small /\ U[g].main = lay[g].main
       /\ g = l => e \notin ToSet(U[g].ghost)
  BY <1>1, <1>5, <1>15, <1>16, <1>17
<1>19. /\ LayerOk(EntriesAfterEviction(g), LayerAfterEviction(g, U[g]))
       /\ ToSet(LayerAfterEviction(g, U[g]).ghost) \subseteq ToSet(U[g].ghost) \cup {v}
  BY <1>5, <1>7, <1>18, EvictionOk DEF v
<1>20. /\ L1 \in [Layer -> Queues] /\ L1[g] = LayerAfterEviction(g, U[g])
       /\ \A m \in Layer : m # g => L1[m] = U[m]
  BY <1>5, <1>17, <1>19 DEF LayerOk
<1> HIDE DEF L1
<1>21. /\ LayerOk(E1[l], L1[l]) /\ E1[l][e].seg = "None" /\ e \notin ToSet(L1[l].ghost)
  <2>1. CASE g = l
    <3>1. e # v
      BY <1>11, <2>1
    <3> QED
      BY <1>9, <1>10, <1>14, <1>18, <1>19, <1>20, <2>1, <3>1
  <2>2. CASE g # l
    BY <1>10, <1>14, <1>15, <1>17, <1>20, <2>2
  <2> QED
    BY <2>1, <2>2
<1>22. /\ lay'[l] = Enqueued(L1[l], e, origin, ghost)
       /\ \A k \in Layer : k # l => lay'[k] = L1[k]
  BY <1>3, <1>20
<1>23. /\ ent'[l] = [E1[l] EXCEPT ![e] = NewEntry(s, ghost)]
       /\ \A k \in Layer : k # l => ent'[k] = E1[k]
  BY <1>2, <1>14 DEF new
<1>24. LayerOk(ent'[l], lay'[l])
  BY <1>6, <1>12, <1>21, <1>22, <1>23, EnqueueOk
<1>25. ASSUME NEW k \in Layer PROVE LayerOk(ent'[k], lay'[k])
  <2>1. CASE k = l
    BY <1>24, <2>1
  <2>2. CASE k # l /\ k = g
    BY <1>14, <1>19, <1>20, <1>22, <1>23, <2>2
  <2>3. CASE k # l /\ k # g
    <3>1. ent'[k] = ent[k] /\ lay'[k] = lay[k]
      BY <1>14, <1>17, <1>20, <1>22, <1>23, <2>3
    <3> QED
      BY <1>1, <3>1
  <2> QED
    BY <2>1, <2>2, <2>3
<1>26. ent' \in [Layer -> [Expert -> Entry]] /\ lay' \in [Layer -> Queues]
  <2>1. \A k \in Layer : ent'[k] \in [Expert -> Entry] /\ lay'[k] \in Queues
    BY <1>25 DEF LayerOk
  <2>2. ent' \in [Layer -> [Expert -> Entry]]
    BY <1>2, <1>14, <2>1
  <2>3. lay' \in [Layer -> Queues]
    BY <1>3, <1>20, <2>1
  <2> QED
    BY <2>2, <2>3
<1>27. /\ ent'[l][e].slot = s /\ ent'[l][e].rc = 1
       /\ \A k \in Layer, y \in Expert : ~(k = l /\ y = e) => ent'[k][y] = E1[k][y]
  <2>1. ent'[l][e] = new /\ \A k \in Layer, y \in Expert :
                              ~(k = l /\ y = e) => ent'[k][y] = E1[k][y]
    BY <1>2, <1>14
  <2> QED
    BY <2>1 DEF new, NewEntry
<1>28. /\ table' \in [Layer -> [Expert -> Slot \cup {NoSlot}]]
       /\ table'[l][e] = s
       /\ \A k \in Layer, y \in Expert : ~(k = l /\ y = e) => table'[k][y] = T1[k][y]
  BY <1>4, <1>12, <1>13
<1>29. ASSUME NEW k \in Layer, NEW y \in Expert
       PROVE  /\ E1[k][y].slot = T1[k][y]
              /\ E1[k][y].rc = ent[k][y].rc
  <2>1. CASE k = g /\ y = v
    BY <1>8, <1>9, <1>13, <1>14, <2>1
  <2>2. CASE k = g /\ y # v
    BY <1>1, <1>9, <1>13, <1>14, <2>2
  <2>3. CASE k # g
    BY <1>1, <1>13, <1>14, <2>3
  <2> QED
    BY <2>1, <2>2, <2>3
<1>30. \A k \in Layer, y \in Expert : table'[k][y] = ent'[k][y].slot
  BY <1>27, <1>28, <1>29
<1>31. Owned(table', free')
  <2>1. table'[g][v] = NoSlot
    BY <1>5, <1>8, <1>11, <1>13, <1>28
  <2>2. \A m \in Layer, x \in Expert :
          <<m, x>> # <<g, v>> /\ <<m, x>> # <<l, e>> => table'[m][x] = table[m][x]
    BY <1>13, <1>28
  <2>4. /\ g \in Layer /\ v \in Expert
        /\ table[g][v] \in Slot /\ table[l][e] = NoSlot
        /\ table' \in [Layer -> [Expert -> Slot \cup {NoSlot}]]
        /\ table'[l][e] = table[g][v]
    BY <1>5, <1>8, <1>10, <1>12, <1>28
  <2>5. Owned(table, free)
    BY <1>1
  <2>3. Owned(table', free)
    BY <2>1, <2>2, <2>4, <2>5, OwnedMove
  <2> QED
    BY <1>4, <2>3
<1>32. \A m \in Layer, x \in Expert : table[m][x] = s => m = g /\ x = v
  <2>1. s # NoSlot
    BY <1>12, CacheAssumption
  <2> QED
    BY <1>1, <1>5, <1>8, <1>12, <2>1 DEF Owned
<1>33. Served(l, e)
  <2>1. \A m \in Layer, x \in Expert : table[m][x] = s => ent[m][x].rc = 0
    BY <1>8, <1>32
  <2>2. ASSUME NEW m \in Layer, NEW x \in Expert
        PROVE  table'[m][x] = IF m = l /\ x = e THEN s
                              ELSE IF table[m][x] = s THEN NoSlot ELSE table[m][x]
    <3>1. CASE m = l /\ x = e
      BY <1>28, <3>1
    <3>2. CASE m = g /\ x = v
      BY <1>11, <1>12, <1>13, <1>28, <3>2
    <3>3. CASE ~(m = l /\ x = e) /\ ~(m = g /\ x = v)
      <4>1. table'[m][x] = table[m][x]
        BY <1>13, <1>28, <3>3
      <4> QED
        BY <1>32, <3>3, <4>1
    <3> QED
      BY <3>1, <3>2, <3>3
  <2>3. \A m \in Layer, x \in Expert :
          ent'[m][x].rc = IF m = l /\ x = e THEN 1 ELSE ent[m][x].rc
    BY <1>27, <1>29
  <2> QED
    BY <1>12, <2>1, <2>2, <2>3 DEF Served
<1> QED
  BY <1>25, <1>26, <1>30, <1>31, <1>33 DEF CacheInv

LEMMA AdmitIInv ==
  ASSUME IInv, NEW l \in Layer, NEW e \in Expert, NEW origin, Admit(l, e, origin)
  PROVE  IInv' /\ Served(l, e)
<1>1. CacheInv' /\ Served(l, e)
  BY AdmitFresh, AdmitEvicting
<1>2. QuotaInv'
  BY GhostHitsInv DEF Admit
<1> QED
  BY <1>1, <1>2 DEF IInv

LEMMA EndStepIInv ==
  ASSUME IInv, EndStep
  PROVE  IInv' /\ UNCHANGED cacheVars
<1>1. QuotaInv'
  BY QuotaEndStepInv DEF EndStep, IInv
<1>2. UNCHANGED <<ent, table, lay, free>>
  BY DEF EndStep, cacheVars
<1>3. CacheInv'
  BY <1>2 DEF IInv, CacheInv
<1> QED
  BY <1>1, <1>2, <1>3 DEF IInv, cacheVars
-----------------------------------------------------------------------------
(* build_pinned.  It needs one more invariant: while nothing is cached no  *)
(* id is in a ghost list, for an eviction makes room for an admission.     *)

FreshInv ==
    (\A l \in Layer, e \in Expert : ent[l][e].seg = "None")
      => \A l \in Layer : ToSet(lay[l].ghost) = {}

\* The n-th pop of the loops takes the slot n places from the stack's end.
Rank(order, l, e) == CHOOSE i \in 1 .. PinCount : order[l][i] = e
Pop(order, l, e) == l * PinCount + Rank(order, l, e)
Pins(order, l, e) == Contains(order[l], e) /\ Pop(order, l, e) <= Len(free)
PinnedSlot(order, l, e) == free[Len(free) - Pop(order, l, e) + 1]

LEMMA PopsApart ==
  ASSUME NEW P \in Nat, NEW l \in Nat, NEW m \in Nat, NEW r \in 1 .. P, NEW s \in 1 .. P,
         l * P + r = m * P + s
  PROVE  l = m /\ r = s
<1>1. l * P \in Nat /\ m * P \in Nat
  OBVIOUS
<1>2. ASSUME NEW a \in Nat, NEW b \in Nat, a < b
      PROVE  a * P + P <= b * P
  <2>1. PICK d \in Nat : b = a + 1 + d
    <3>1. b - a - 1 \in Nat /\ b = a + 1 + (b - a - 1)
      BY <1>2
    <3> QED
      BY <3>1
  <2>2. b * P = a * P + P + d * P /\ d * P \in Nat /\ a * P \in Nat
    BY <2>1
  <2> QED
    BY <2>2
<1>3. ~ (l < m)
  BY <1>1, <1>2
<1>4. ~ (m < l)
  BY <1>1, <1>2
<1>5. l = m
  BY <1>3, <1>4
<1> QED
  BY <1>1, <1>5

LEMMA PopOf ==
  ASSUME NEW n \in Nat, 1 <= n, n <= NLayer * PinCount
  PROVE  \E l \in Layer, r \in 1 .. PinCount : n = l * PinCount + r
<1>1. PinCount \in Nat /\ NLayer \in Nat
  BY CacheAssumption, QuotaAssumption
<1>2. PinCount # 0
  <2> SUFFICES ASSUME PinCount = 0 PROVE FALSE
    OBVIOUS
  <2>1. NLayer * PinCount = 0
    BY <1>1
  <2> QED
    BY <2>1
<1> DEFINE l == (n - 1) \div PinCount
           r == (n - 1) % PinCount
<1>3. /\ l \in Nat /\ r \in 0 .. PinCount - 1
      /\ n - 1 = PinCount * l + r
  BY <1>1, <1>2
<1> HIDE DEF l, r
<1>4. l < NLayer
  <2> SUFFICES ASSUME NLayer <= l PROVE FALSE
    BY <1>1, <1>3
  <2>1. PICK d \in Nat : l = NLayer + d
    <3>1. l - NLayer \in Nat /\ l = NLayer + (l - NLayer)
      BY <1>1, <1>3
    <3> QED
      BY <3>1
  <2>2. PinCount * l = NLayer * PinCount + PinCount * d /\ PinCount * d \in Nat
    BY <1>1, <2>1
  <2>3. NLayer * PinCount \in Nat
    BY <1>1
  <2> QED
    BY <1>1, <1>3, <2>2, <2>3
<1>5. l * PinCount = PinCount * l /\ PinCount * l \in Nat
  BY <1>1, <1>3
<1>6. n = l * PinCount + (r + 1) /\ r + 1 \in 1 .. PinCount
  BY <1>1, <1>3, <1>5
<1>7. l \in Layer
  BY <1>1, <1>3, <1>4 DEF Layer
<1> QED
  BY <1>6, <1>7

LEMMA RangesEqual ==
  ASSUME NEW S, NEW m \in Nat, NEW n \in Nat, S = 1 .. m, S = 1 .. n
  PROVE  m = n
<1>1. m \in 1 .. n \/ m = 0
  OBVIOUS
<1>2. n \in 1 .. m \/ n = 0
  OBVIOUS
<1> QED
  BY <1>1, <1>2

LEMMA RankFacts ==
  ASSUME NEW order \in [Layer -> Order], NEW l \in Layer
  PROVE  /\ \A e \in Expert : Contains(order[l], e) =>
              Rank(order, l, e) \in 1 .. PinCount /\ order[l][Rank(order, l, e)] = e
         /\ \A r \in 1 .. PinCount :
              /\ order[l][r] \in Expert
              /\ Contains(order[l], order[l][r])
              /\ Rank(order, l, order[l][r]) = r
<1>1. order[l] \in [1 .. PinCount -> Expert] /\ IsInjective(order[l])
  BY DEF Order, Injection
<1>2. order[l] \in Seq(Expert)
  BY <1>1, SeqDef, CacheAssumption
<1>3. Len(order[l]) = PinCount
  <2>1. DOMAIN order[l] = 1 .. Len(order[l]) /\ Len(order[l]) \in Nat
    BY <1>2, LenProperties
  <2>2. DOMAIN order[l] = 1 .. PinCount /\ PinCount \in Nat
    BY <1>1, CacheAssumption
  <2> QED
    BY <2>1, <2>2, RangesEqual
<1>4. \A e : Contains(order[l], e) <=> \E i \in 1 .. PinCount : order[l][i] = e
  BY <1>3 DEF Contains
<1>5. \A e : Contains(order[l], e) =>
        Rank(order, l, e) \in 1 .. PinCount /\ order[l][Rank(order, l, e)] = e
  BY <1>4 DEF Rank
<1>6. ASSUME NEW r \in 1 .. PinCount
      PROVE  Contains(order[l], order[l][r]) /\ Rank(order, l, order[l][r]) = r
  <2>1. Contains(order[l], order[l][r])
    BY <1>4
  <2>2. /\ Rank(order, l, order[l][r]) \in 1 .. PinCount
        /\ order[l][Rank(order, l, order[l][r])] = order[l][r]
    BY <1>5, <2>1
  <2>3. \A i, j \in 1 .. PinCount : order[l][i] = order[l][j] => i = j
    BY <1>1 DEF IsInjective
  <2> QED
    BY <2>1, <2>2, <2>3
<1> QED
  BY <1>1, <1>5, <1>6

\* The pops of different experts are different, and within bounds.
LEMMA PinnedApart ==
  ASSUME NEW order \in [Layer -> Order],
         NEW l \in Layer, NEW e \in Expert, Pins(order, l, e)
  PROVE  /\ Pop(order, l, e) \in Nat /\ 1 <= Pop(order, l, e)
         /\ Pop(order, l, e) <= NLayer * PinCount /\ Pop(order, l, e) <= Len(free)
         /\ \A m \in Layer, x \in Expert :
              Pins(order, m, x) /\ Pop(order, m, x) = Pop(order, l, e) => m = l /\ x = e
<1>1. PinCount \in Nat /\ NLayer \in Nat /\ l \in Nat /\ l + 1 <= NLayer
  BY CacheAssumption, QuotaAssumption DEF Layer
<1>2. Rank(order, l, e) \in 1 .. PinCount /\ order[l][Rank(order, l, e)] = e
  BY RankFacts DEF Pins
<1>3. l * PinCount \in Nat /\ l * PinCount + PinCount <= NLayer * PinCount
  <2>1. PICK d \in Nat : NLayer = l + 1 + d
    <3>1. NLayer - l - 1 \in Nat /\ NLayer = l + 1 + (NLayer - l - 1)
      BY <1>1
    <3> QED
      BY <3>1
  <2>2. NLayer * PinCount = l * PinCount + PinCount + d * PinCount /\ d * PinCount \in Nat
    BY <1>1, <2>1
  <2>3. l * PinCount \in Nat
    BY <1>1
  <2> QED
    BY <1>1, <2>2, <2>3
<1>4. /\ Pop(order, l, e) \in Nat /\ 1 <= Pop(order, l, e)
      /\ Pop(order, l, e) <= NLayer * PinCount
  <2>1. NLayer * PinCount \in Nat
    BY <1>1
  <2> QED
    BY <1>1, <1>2, <1>3, <2>1 DEF Pop
<1>5. ASSUME NEW m \in Layer, NEW x \in Expert,
             Pins(order, m, x), Pop(order, m, x) = Pop(order, l, e)
      PROVE  m = l /\ x = e
  <2>1. m \in Nat
    BY QuotaAssumption DEF Layer
  <2>2. Rank(order, m, x) \in 1 .. PinCount /\ order[m][Rank(order, m, x)] = x
    BY <1>5, RankFacts DEF Pins
  <2>3. m * PinCount + Rank(order, m, x) = l * PinCount + Rank(order, l, e)
    BY <1>5 DEF Pop
  <2>4. m = l /\ Rank(order, m, x) = Rank(order, l, e)
    BY <1>1, <1>2, <2>1, <2>2, <2>3, PopsApart
  <2> QED
    BY <1>2, <2>2, <2>4
<1> QED
  BY <1>4, <1>5 DEF Pins

LEMMA BuildPinnedDefined ==
  ASSUME NEW order, BuildPinned(order)
  PROVE  /\ PinCount > 0
         /\ \A l \in Layer : lay[l].resident = 0
         /\ ent' = [l \in Layer |-> [e \in Expert |->
                      IF Pins(order, l, e)
                        THEN [ent[l][e] EXCEPT !.slot = PinnedSlot(order, l, e),
                                  !.seg = "Pinned", !.resident = TRUE]
                        ELSE ent[l][e]]]
         /\ table' = [l \in Layer |-> [e \in Expert |->
                        IF Pins(order, l, e) THEN PinnedSlot(order, l, e)
                                             ELSE table[l][e]]]
         /\ lay' = [l \in Layer |-> [lay[l] EXCEPT
                      !.pinned = @ + Cardinality({e \in Expert : Pins(order, l, e)}),
                      !.resident = @ + Cardinality({e \in Expert : Pins(order, l, e)})]]
         /\ free' = SubSeq(free, 1, Len(free) - AtMost(NLayer * PinCount, Len(free)))
         /\ UNCHANGED quotaVars
BY DEF BuildPinned, Pins, PinnedSlot, Pop, Rank

\* No expert is cached when build_pinned runs.
LEMMA NothingCached ==
  ASSUME IInv, NEW l \in Layer, lay[l].resident = 0
  PROVE  \A e \in Expert : /\ ent[l][e].seg = "None" /\ ent[l][e].slot = NoSlot
                            /\ ent[l][e].rc = 0 /\ table[l][e] = NoSlot
<1>1. LayerOk(ent[l], lay[l]) /\ \A e \in Expert : table[l][e] = ent[l][e].slot
  BY DEF IInv, CacheInv
<1>2. Cardinality(Held(ent[l])) = 0 /\ IsFiniteSet(Held(ent[l]))
  BY <1>1, HeldFinite DEF LayerOk
<1>3. Held(ent[l]) = {}
  BY <1>2, FS_EmptySet
<1>4. \A e \in Expert : ent[l][e].seg = "None"
  BY <1>3 DEF Held
<1>5. ASSUME NEW e \in Expert PROVE ent[l][e].rc = 0 /\ ent[l][e].slot = NoSlot
  <2>1. ent[l][e] \in Entry
    BY <1>1 DEF LayerOk
  <2>2. ent[l][e].rc \in Nat
    BY <2>1, CacheAssumption DEF Entry
  <2> QED
    BY <1>1, <1>4, <2>2 DEF LayerOk
<1> QED
  BY <1>1, <1>4, <1>5

LEMMA EntryPinned ==
  ASSUME NEW old \in Entry, NEW s \in Slot, NEW r,
         r = [old EXCEPT !.slot = s, !.seg = "Pinned", !.resident = TRUE]
  PROVE  /\ r = [slot |-> s, rc |-> old.rc, seg |-> "Pinned",
                 resident |-> TRUE, freq |-> old.freq]
         /\ r \in Entry
<1>1. r = [slot |-> s, rc |-> old.rc, seg |-> "Pinned",
           resident |-> TRUE, freq |-> old.freq]
  BY DEF Entry
<1>2. /\ old.rc \in 0 .. MaxRefs /\ "Pinned" \in Seg
      /\ TRUE \in BOOLEAN /\ old.freq \in 0 .. FREQ_MAX
  BY DEF Entry, Seg
<1> QED
  BY <1>1, <1>2 DEF Entry

LEMMA IntPlus == \A i \in Int, n \in Nat : i + n \in Int
OBVIOUS

LEMMA ZeroPlus ==
  /\ \A n \in Nat : 0 + n = n
  /\ \A n : n = 0 => ~ (n > 0)
OBVIOUS

LEMMA QueuesSet ==
  ASSUME NEW ls \in Queues, NEW p \in Int, NEW n \in Int, NEW r,
         r = [ls EXCEPT !.pinned = p, !.resident = n]
  PROVE  r = [small |-> ls.small, main |-> ls.main, ghost |-> ls.ghost,
              resident |-> n, pinned |-> p]
BY DEF Queues

LEMMA QueuesPinned ==
  ASSUME NEW ls \in Queues, NEW c \in Nat, NEW r,
         r = [ls EXCEPT !.pinned = @ + c, !.resident = @ + c]
  PROVE  /\ r = [small |-> ls.small, main |-> ls.main, ghost |-> ls.ghost,
                 resident |-> ls.resident + c, pinned |-> ls.pinned + c]
         /\ r \in Queues
<1>1. /\ ls.pinned + c \in Int /\ ls.resident + c \in Int
      /\ ls.small \in Seq(Expert) /\ ls.main \in Seq(Expert) /\ ls.ghost \in Seq(Expert)
  <2>1. /\ ls.pinned \in Int /\ ls.resident \in Int
        /\ ls.small \in Seq(Expert) /\ ls.main \in Seq(Expert) /\ ls.ghost \in Seq(Expert)
    BY DEF Queues
  <2> QED
    BY <2>1, IntPlus
<1> DEFINE p == ls.pinned + c
           n == ls.resident + c
<1>2. r = [ls EXCEPT !.pinned = p, !.resident = n] /\ p \in Int /\ n \in Int
  BY <1>1
<1> HIDE DEF p, n
<1>3. r = [small |-> ls.small, main |-> ls.main, ghost |-> ls.ghost,
           resident |-> n, pinned |-> p]
  BY <1>2, QueuesSet
<1>4. r \in Queues
  BY <1>1, <1>2, <1>3 DEF Queues
<1> QED
  BY <1>3, <1>4 DEF p, n

\* One layer: what pinning the experts of pins leaves of its empty state.
LEMMA LayerPinned ==
  ASSUME NEW le, NEW ls, LayerOk(le, ls), ls.resident = 0,
         \A e \in Expert : le[e].seg = "None" /\ le[e].slot = NoSlot /\ le[e].rc = 0,
         NEW pins \in SUBSET Expert, NEW slotFor, \A e \in pins : slotFor[e] \in Slot,
         ToSet(ls.ghost) = {},
         NEW ne \in [Expert -> Entry],
         \A e \in pins : ne[e] = [slot |-> slotFor[e], rc |-> le[e].rc, seg |-> "Pinned",
                                  resident |-> TRUE, freq |-> le[e].freq],
         \A e \in Expert : e \notin pins => ne[e] = le[e],
         NEW ns \in Queues,
         ns.small = ls.small, ns.main = ls.main, ns.ghost = ls.ghost,
         ns.pinned = ls.pinned + Cardinality(pins),
         ns.resident = ls.resident + Cardinality(pins)
  PROVE  /\ LayerOk(ne, ns)
         /\ ne \in [Expert -> Entry] /\ ns \in Queues
         /\ \A e \in Expert : ne[e].slot = IF e \in pins THEN slotFor[e] ELSE le[e].slot
         /\ \A e \in Expert : ne[e].rc = le[e].rc
         /\ ns.ghost = ls.ghost
<1>1. /\ le \in [Expert -> Entry] /\ ls \in Queues
      /\ Lists(ls.small, In(le, "Small")) /\ Lists(ls.main, In(le, "Main"))
      /\ IsInjective(ls.ghost) /\ ls.pinned = Cardinality(In(le, "Pinned"))
  BY DEF LayerOk
<1>2. Cardinality(pins) \in Nat
  BY CacheAssumption, FS_Subset, FS_CardinalityType
<1>3. ASSUME NEW e \in pins
      PROVE  ne[e].slot = slotFor[e] /\ ne[e].rc = le[e].rc /\ ne[e].seg = "Pinned"
  <2> DEFINE r == ne[e]
  <2>1. r = [slot |-> slotFor[e], rc |-> le[e].rc, seg |-> "Pinned",
             resident |-> TRUE, freq |-> le[e].freq]
    OBVIOUS
  <2> HIDE DEF r
  <2>2. r.slot = slotFor[e] /\ r.rc = le[e].rc /\ r.seg = "Pinned"
    BY <2>1
  <2> QED
    BY <2>2 DEF r
<1>4. \A e \in Expert : e \notin pins => ne[e] = le[e]
  OBVIOUS
<1>7. /\ In(le, "Small") = {} /\ In(le, "Main") = {} /\ In(le, "Pinned") = {}
  BY DEF In
<1>8. /\ In(ne, "Small") = {} /\ In(ne, "Main") = {}
      /\ In(ne, "Pinned") = pins /\ Held(ne) = pins
  <2>1. \A e \in Expert : ne[e].seg = IF e \in pins THEN "Pinned" ELSE "None"
    BY <1>3, <1>4
  <2> QED
    BY <2>1 DEF In, Held
<1>9. Cardinality({}) = 0
  BY FS_EmptySet
<1>11. /\ ns.pinned = Cardinality(In(ne, "Pinned"))
       /\ ns.resident = Cardinality(Held(ne))
  <2>1. ls.pinned = 0 /\ ls.resident = 0
    BY <1>1, <1>7, <1>9
  <2>2. 0 + Cardinality(pins) = Cardinality(pins)
    BY <1>2, ZeroPlus
  <2>3. ns.pinned = Cardinality(pins) /\ ns.resident = Cardinality(pins)
    BY <2>1, <2>2
  <2> QED
    BY <1>8, <2>3
<1>12. \A e \in Expert :
         /\ ne[e].slot = IF e \in pins THEN slotFor[e] ELSE le[e].slot
         /\ ne[e].rc = le[e].rc
  BY <1>3, <1>4
<1>13. ASSUME NEW e \in Expert PROVE ne[e].seg # "None" <=> ne[e].slot # NoSlot
  <2>1. CASE e \in pins
    <3>1. ne[e].seg = "Pinned" /\ ne[e].slot \in Slot
      BY <1>3, <2>1
    <3> QED
      BY <3>1, CacheAssumption
  <2>2. CASE e \notin pins
    <3>1. ne[e].seg = "None" /\ ne[e].slot = NoSlot
      BY <1>4, <2>2
    <3> QED
      BY <3>1
  <2> QED
    BY <2>1, <2>2
<1>14. ASSUME NEW e \in Expert PROVE ~ (ne[e].rc > 0)
  <2>1. ne[e].rc = 0
    BY <1>12
  <2> QED
    BY <2>1, ZeroPlus
<1>15. Lists(ns.small, In(ne, "Small")) /\ Lists(ns.main, In(ne, "Main"))
  BY <1>1, <1>7, <1>8
<1>16. IsInjective(ns.ghost) /\ \A e \in ToSet(ns.ghost) : ne[e].seg = "None"
  BY <1>1
<1> QED
  BY <1>11, <1>12, <1>13, <1>14, <1>15, <1>16 DEF LayerOk

\* The pops take exactly what build_pinned removes from the stack.
LEMMA OwnedPinned ==
  ASSUME NEW order \in [Layer -> Order], Owned(table, free),
         \A l \in Layer, e \in Expert : table[l][e] = NoSlot,
         NEW t, t = [l \in Layer |-> [e \in Expert |->
                      IF Pins(order, l, e) THEN PinnedSlot(order, l, e)
                                           ELSE table[l][e]]],
         NEW f, f = SubSeq(free, 1, Len(free) - AtMost(NLayer * PinCount, Len(free)))
  PROVE  /\ Owned(t, f)
         /\ \A l \in Layer, e \in Expert :
              Pins(order, l, e) => PinnedSlot(order, l, e) \in Slot
<1> DEFINE n == Len(free)
           top == NLayer * PinCount
           taken == AtMost(top, n)
<1>1. /\ free \in Seq(Slot) /\ IsInjective(free)
      /\ \A s \in Slot : s \in ToSet(free)
  <2>1. \A s \in Slot : s \in ToSet(free) \/ \E l \in Layer, e \in Expert : table[l][e] = s
    BY DEF Owned
  <2> QED
    BY <2>1, CacheAssumption DEF Owned
<1>2. n \in Nat /\ DOMAIN free = 1 .. n /\ \A i \in 1 .. n : free[i] \in Slot
  BY <1>1, LenProperties, ElementOfSeq
<1>3. \A i, j \in 1 .. n : free[i] = free[j] => i = j
  BY <1>1, <1>2 DEF IsInjective
<1>4. top \in Nat
  BY CacheAssumption, QuotaAssumption
<1>5. /\ taken \in Nat /\ taken <= n /\ taken <= top
      /\ \A k \in Nat : k <= top /\ k <= n => k <= taken
  <2> HIDE DEF top, n
  <2> QED
    BY <1>2, <1>4 DEF AtMost
<1>6. f = SubSeq(free, 1, n - taken)
  OBVIOUS
<1> HIDE DEF taken
<1>7. /\ n - taken \in Int /\ n - taken <= n
      /\ f \in Seq(Slot) /\ Lists(f, {free[i] : i \in 1 .. n - taken})
  <2>1. n - taken \in Int /\ n - taken <= n /\ 1 \in Nat \ {0}
    BY <1>2, <1>5
  <2>2. free \in Seq(Slot) /\ IsInjective(free) /\ n = Len(free)
    BY <1>1
  <2> HIDE DEF n
  <2>3. /\ SubSeq(free, 1, n - taken) \in Seq(Slot)
        /\ Lists(SubSeq(free, 1, n - taken), {free[i] : i \in 1 .. n - taken})
    BY <2>1, <2>2, SubSeqLists, Zenon
  <2> QED
    BY <1>6, <2>1, <2>3
<1>8. IsInjective(f) /\ ToSet(f) = {free[i] : i \in 1 .. n - taken}
  BY <1>7 DEF Lists
<1>9. ASSUME NEW l \in Layer, NEW e \in Expert, Pins(order, l, e)
      PROVE  /\ n - Pop(order, l, e) + 1 \in 1 .. n
             /\ n - taken < n - Pop(order, l, e) + 1
             /\ Pop(order, l, e) \in Nat
             /\ PinnedSlot(order, l, e) = free[n - Pop(order, l, e) + 1]
             /\ PinnedSlot(order, l, e) \in Slot
  <2>1. /\ Pop(order, l, e) \in Nat /\ 1 <= Pop(order, l, e)
        /\ Pop(order, l, e) <= top /\ Pop(order, l, e) <= n
    BY <1>9, PinnedApart
  <2>2. Pop(order, l, e) <= taken
    BY <1>5, <2>1
  <2> HIDE DEF n, top
  <2>3. n - Pop(order, l, e) + 1 \in 1 .. n /\ n - taken < n - Pop(order, l, e) + 1
    BY <1>2, <1>5, <2>1, <2>2
  <2>4. PinnedSlot(order, l, e) = free[n - Pop(order, l, e) + 1]
    BY DEF PinnedSlot, n
  <2> QED
    BY <1>2, <2>1, <2>3, <2>4
<1>10. \A l \in Layer, e \in Expert :
         t[l][e] = IF Pins(order, l, e) THEN PinnedSlot(order, l, e) ELSE NoSlot
  OBVIOUS
<1>11. t \in [Layer -> [Expert -> Slot \cup {NoSlot}]]
  <2>1. \A l \in Layer, e \in Expert :
          (IF Pins(order, l, e) THEN PinnedSlot(order, l, e) ELSE table[l][e])
             \in Slot \cup {NoSlot}
    BY <1>9
  <2> QED
    BY <2>1
<1>12. ASSUME NEW l \in Layer, NEW m \in Layer, NEW e \in Expert, NEW x \in Expert,
              t[l][e] = t[m][x], t[l][e] # NoSlot
       PROVE  l = m /\ e = x
  <2>1. Pins(order, l, e) /\ Pins(order, m, x)
    BY <1>10, <1>12
  <2>2. free[n - Pop(order, l, e) + 1] = free[n - Pop(order, m, x) + 1]
    <3>1. PinnedSlot(order, l, e) = PinnedSlot(order, m, x)
      BY <1>10, <1>12, <2>1
    <3> QED
      BY <1>9, <2>1, <3>1
  <2>3. n - Pop(order, l, e) + 1 = n - Pop(order, m, x) + 1
    BY <1>3, <1>9, <2>1, <2>2
  <2>4. Pop(order, m, x) = Pop(order, l, e)
    BY <1>2, <1>9, <2>1, <2>3
  <2> QED
    BY <2>1, <2>4, PinnedApart
<1>13. ASSUME NEW l \in Layer, NEW e \in Expert, t[l][e] \in ToSet(f) PROVE FALSE
  <2>1. PICK i \in 1 .. n - taken : t[l][e] = free[i]
    BY <1>8, <1>13
  <2>2. i \in 1 .. n
    BY <1>2, <1>5
  <2>3. t[l][e] # NoSlot
    BY <1>2, <2>1, <2>2, CacheAssumption
  <2>4. Pins(order, l, e) /\ t[l][e] = PinnedSlot(order, l, e)
    BY <1>10, <2>3
  <2>5. i = n - Pop(order, l, e) + 1
    <3>1. free[i] = free[n - Pop(order, l, e) + 1] /\ n - Pop(order, l, e) + 1 \in 1 .. n
      BY <1>9, <2>1, <2>4
    <3> QED
      BY <1>3, <2>2, <3>1
  <2> QED
    BY <1>2, <1>5, <1>9, <2>4, <2>5
<1>14. ASSUME NEW s \in Slot
       PROVE  s \in ToSet(f) \/ \E l \in Layer, e \in Expert : t[l][e] = s
  <2>1. PICK i \in 1 .. n : free[i] = s
    BY <1>1, <1>2 DEF ToSet
  <2>2. CASE i <= n - taken
    <3>1. i \in 1 .. n - taken
      BY <1>2, <1>5, <2>2
    <3> QED
      BY <1>8, <2>1, <3>1
  <2>3. CASE ~ (i <= n - taken)
    <3>1. n - i + 1 \in Nat /\ 1 <= n - i + 1 /\ n - i + 1 <= taken
      BY <1>2, <1>5, <2>3
    <3>2. n - i + 1 <= top
      <4> HIDE DEF top, n
      <4> QED
        BY <1>2, <1>4, <1>5, <3>1
    <3>3. PICK l \in Layer, r \in 1 .. PinCount : n - i + 1 = l * PinCount + r
      BY <3>1, <3>2, PopOf
    <3> DEFINE e == order[l][r]
    <3>4. e \in Expert /\ Contains(order[l], e) /\ Rank(order, l, e) = r
      BY RankFacts
    <3>5. Pop(order, l, e) = n - i + 1
      BY <3>3, <3>4 DEF Pop
    <3>6. n - i + 1 <= n /\ n - (n - i + 1) + 1 = i
      BY <1>2, <2>1
    <3>7. Pins(order, l, e)
      BY <3>4, <3>5, <3>6 DEF Pins
    <3>8. PinnedSlot(order, l, e) = s
      BY <2>1, <3>5, <3>6 DEF PinnedSlot
    <3> QED
      BY <1>10, <3>4, <3>7, <3>8
  <2> QED
    BY <2>2, <2>3
<1>15. Owned(t, f)
  BY <1>7, <1>8, <1>11, <1>12, <1>13, <1>14 DEF Owned
<1> QED
  BY <1>9, <1>15

\* What the callers see of build_pinned: some keys get slots of their own.
Preloaded ==
    /\ \A l \in Layer, e \in Expert : table[l][e] = NoSlot
    /\ table' \in [Layer -> [Expert -> Slot \cup {NoSlot}]]
    /\ \A l, m \in Layer, e, x \in Expert :
         table'[l][e] = table'[m][x] /\ table'[l][e] # NoSlot => l = m /\ e = x
    /\ \A l \in Layer, e \in Expert : ent'[l][e].rc = ent[l][e].rc

LEMMA BuildPinnedIInv ==
  ASSUME IInv, FreshInv, NEW order \in [Layer -> Order], BuildPinned(order)
  PROVE  IInv' /\ FreshInv' /\ Preloaded
<1>1. /\ ent \in [Layer -> [Expert -> Entry]] /\ lay \in [Layer -> Queues]
      /\ \A l \in Layer : LayerOk(ent[l], lay[l])
      /\ \A l \in Layer, e \in Expert : table[l][e] = ent[l][e].slot
      /\ Owned(table, free)
  BY DEF IInv, CacheInv
<1>2. \A l \in Layer : lay[l].resident = 0
  BY BuildPinnedDefined
<1>3. \A l \in Layer, e \in Expert :
        /\ ent[l][e].seg = "None" /\ ent[l][e].slot = NoSlot
        /\ ent[l][e].rc = 0 /\ table[l][e] = NoSlot
  BY <1>2, NothingCached
<1>4. \A l \in Layer : ToSet(lay[l].ghost) = {}
  BY <1>3 DEF FreshInv
<1>5. /\ Owned(table', free')
      /\ \A l \in Layer, e \in Expert : Pins(order, l, e) => PinnedSlot(order, l, e) \in Slot
  BY <1>1, <1>3, BuildPinnedDefined, OwnedPinned
<1>6. ASSUME NEW l \in Layer
      PROVE  /\ LayerOk(ent'[l], lay'[l])
             /\ ent'[l] \in [Expert -> Entry] /\ lay'[l] \in Queues
             /\ lay'[l].ghost = lay[l].ghost
             /\ \A e \in Expert :
                  /\ ent'[l][e].slot = IF Pins(order, l, e) THEN PinnedSlot(order, l, e)
                                                            ELSE ent[l][e].slot
                  /\ ent'[l][e].rc = ent[l][e].rc
  <2> DEFINE pins == {e \in Expert : Pins(order, l, e)}
             slotFor == [e \in Expert |-> PinnedSlot(order, l, e)]
             le == ent[l]
             ls == lay[l]
  <2>1. /\ ent'[l] = [e \in Expert |-> ent'[l][e]]
        /\ \A e \in Expert : e \notin pins => ent'[l][e] = le[e]
        /\ \A e \in pins : ent'[l][e] =
             [le[e] EXCEPT !.slot = slotFor[e], !.seg = "Pinned", !.resident = TRUE]
    <3>1. ent' = [k \in Layer |-> [e \in Expert |->
                   IF Pins(order, k, e)
                     THEN [ent[k][e] EXCEPT !.slot = PinnedSlot(order, k, e),
                               !.seg = "Pinned", !.resident = TRUE]
                     ELSE ent[k][e]]]
      BY BuildPinnedDefined
    <3> QED
      BY <3>1
  <2>2. lay'[l] = [ls EXCEPT !.pinned = @ + Cardinality(pins),
                             !.resident = @ + Cardinality(pins)]
    <3>1. lay' = [k \in Layer |-> [lay[k] EXCEPT
                   !.pinned = @ + Cardinality({e \in Expert : Pins(order, k, e)}),
                   !.resident = @ + Cardinality({e \in Expert : Pins(order, k, e)})]]
      BY BuildPinnedDefined
    <3> QED
      BY <3>1
  <2>3. /\ pins \in SUBSET Expert /\ \A e \in pins : slotFor[e] \in Slot
        /\ \A e \in Expert : e \in pins <=> Pins(order, l, e)
        /\ \A e \in Expert : slotFor[e] = PinnedSlot(order, l, e)
    BY <1>5
  <2>4. /\ LayerOk(le, ls) /\ ls.resident = 0 /\ ToSet(ls.ghost) = {}
        /\ \A e \in Expert : le[e].seg = "None" /\ le[e].slot = NoSlot /\ le[e].rc = 0
    BY <1>1, <1>2, <1>3, <1>4
  <2> HIDE DEF pins, slotFor, le, ls
  <2>5. ls \in Queues /\ Cardinality(pins) \in Nat /\ \A e \in Expert : le[e] \in Entry
    BY <2>3, <2>4, CacheAssumption, FS_Subset, FS_CardinalityType DEF LayerOk
  <2>6. /\ lay'[l] \in Queues
        /\ lay'[l] = [small |-> ls.small, main |-> ls.main, ghost |-> ls.ghost,
                      resident |-> ls.resident + Cardinality(pins),
                      pinned |-> ls.pinned + Cardinality(pins)]
    BY <2>2, <2>5, QueuesPinned
  <2>7. /\ lay'[l].small = ls.small /\ lay'[l].main = ls.main /\ lay'[l].ghost = ls.ghost
        /\ lay'[l].resident = ls.resident + Cardinality(pins)
        /\ lay'[l].pinned = ls.pinned + Cardinality(pins)
    BY <2>6
  <2>8. ASSUME NEW e \in pins
        PROVE  /\ ent'[l][e] \in Entry
               /\ ent'[l][e] = [slot |-> slotFor[e], rc |-> le[e].rc, seg |-> "Pinned",
                                resident |-> TRUE, freq |-> le[e].freq]
    <3>1. le[e] \in Entry /\ slotFor[e] \in Slot
      BY <2>3, <2>5
    <3>2. ent'[l][e] = [le[e] EXCEPT !.slot = slotFor[e], !.seg = "Pinned", !.resident = TRUE]
      BY <2>1
    <3> QED
      BY <3>1, <3>2, EntryPinned
  <2>9. ent'[l] \in [Expert -> Entry]
    <3>1. \A e \in Expert : ent'[l][e] \in Entry
      BY <2>1, <2>3, <2>5, <2>8
    <3> QED
      BY <2>1, <3>1
  <2>10. /\ \A e \in Expert : e \notin pins => ent'[l][e] = le[e]
         /\ \A e \in pins : ent'[l][e] = [slot |-> slotFor[e], rc |-> le[e].rc, seg |-> "Pinned",
                                          resident |-> TRUE, freq |-> le[e].freq]
    BY <2>1, <2>8
  <2>11. pins \in SUBSET Expert /\ \A e \in pins : slotFor[e] \in Slot
    BY <2>3
  <2>12. /\ LayerOk(ent'[l], lay'[l])
         /\ ent'[l] \in [Expert -> Entry] /\ lay'[l] \in Queues
         /\ \A e \in Expert : ent'[l][e].slot = IF e \in pins THEN slotFor[e] ELSE le[e].slot
         /\ \A e \in Expert : ent'[l][e].rc = le[e].rc
         /\ lay'[l].ghost = ls.ghost
    BY <2>4, <2>6, <2>7, <2>9, <2>10, <2>11, LayerPinned
  <2>13. \A e \in Expert :
           /\ ent'[l][e].slot = IF Pins(order, l, e) THEN PinnedSlot(order, l, e)
                                                     ELSE le[e].slot
           /\ ent'[l][e].rc = le[e].rc
    BY <2>3, <2>12
  <2> QED
    BY <2>12, <2>13 DEF le, ls
<1>7. \A l \in Layer, e \in Expert : table'[l][e] = ent'[l][e].slot
  <2>1. \A l \in Layer, e \in Expert :
          table'[l][e] = IF Pins(order, l, e) THEN PinnedSlot(order, l, e) ELSE table[l][e]
    <3>1. table' = [l \in Layer |-> [e \in Expert |->
                     IF Pins(order, l, e) THEN PinnedSlot(order, l, e) ELSE table[l][e]]]
      BY BuildPinnedDefined
    <3> QED
      BY <3>1
  <2> QED
    BY <1>1, <1>6, <2>1
<1>8. ent' \in [Layer -> [Expert -> Entry]] /\ lay' \in [Layer -> Queues]
  <2>1. DOMAIN ent' = Layer /\ DOMAIN lay' = Layer
        /\ ent' = [l \in Layer |-> ent'[l]] /\ lay' = [l \in Layer |-> lay'[l]]
    BY BuildPinnedDefined
  <2> QED
    BY <1>6, <2>1
<1>9. CacheInv'
  BY <1>5, <1>6, <1>7, <1>8 DEF CacheInv
<1>10. QuotaInv'
  BY BuildPinnedDefined DEF IInv, QuotaInv, QuotaTypeOK, QuotasCoverTheSlots, QuotaFloor, quotaVars
<1>11. \A l \in Layer : ToSet(lay'[l].ghost) = {}
  BY <1>4, <1>6
<1>12. FreshInv'
  BY <1>11 DEF FreshInv
<1>13. Preloaded
  BY <1>3, <1>5, <1>6 DEF Preloaded, Owned
<1> QED
  BY <1>9, <1>10, <1>12, <1>13 DEF IInv
-----------------------------------------------------------------------------
(* The steps together, and what each lets the callers see.                 *)

LEMMA FreshKept ==
  ASSUME FreshInv, \A l \in Layer, e \in Expert : ent'[l][e].seg = ent[l][e].seg,
         \A l \in Layer : ToSet(lay'[l].ghost) \subseteq ToSet(lay[l].ghost)
  PROVE  FreshInv'
BY DEF FreshInv

\* A hit is one more reference on a key that has a slot.
Counted(l, e) ==
    /\ table[l][e] # NoSlot /\ ent[l][e].rc < MaxRefs
    /\ UNCHANGED table
    /\ \A m \in Layer, x \in Expert :
         ent'[m][x].rc = IF m = l /\ x = e THEN ent[m][x].rc + 1 ELSE ent[m][x].rc

Kept ==
    /\ UNCHANGED table
    /\ \A l \in Layer, e \in Expert : ent'[l][e].rc <= ent[l][e].rc

Visible ==
    \/ \E l \in Layer, e \in Expert :
          Counted(l, e) \/ (table[l][e] = NoSlot /\ Served(l, e))
    \/ Kept
    \/ Preloaded

LEMMA HitVisible ==
  ASSUME IInv, NEW l \in Layer, NEW e \in Expert, Hit(l, e)
  PROVE  FreshInv' /\ Counted(l, e)
<1>1. /\ ent \in [Layer -> [Expert -> Entry]] /\ LayerOk(ent[l], lay[l])
      /\ table[l][e] = ent[l][e].slot
  BY DEF IInv, CacheInv
<1>2. /\ ent' = [ent EXCEPT ![l][e] = EntryAfterHit(l, e)] /\ ent[l][e].rc < MaxRefs
      /\ ent[l][e].seg # "None" /\ UNCHANGED table
  BY HitFacts DEF Hit, Cached
<1>3. /\ ent'[l][e] = EntryAfterHit(l, e)
      /\ \A m \in Layer, x \in Expert : ~ (m = l /\ x = e) => ent'[m][x] = ent[m][x]
  BY <1>1, <1>2
<1>4. EntryAfterHit(l, e).rc = ent[l][e].rc + 1 /\ EntryAfterHit(l, e).seg # "None"
  BY <1>2 DEF EntryAfterHit
<1>5. FreshInv'
  BY <1>3, <1>4 DEF FreshInv
<1>6. table[l][e] # NoSlot
  BY <1>1, <1>2 DEF LayerOk
<1> QED
  BY <1>2, <1>3, <1>4, <1>5, <1>6 DEF Counted

LEMMA MissUnservedVisible ==
  ASSUME IInv, FreshInv, NEW l \in Layer, NEW e \in Expert, NEW origin,
         MissUnserved(l, e, origin)
  PROVE  FreshInv' /\ Kept
<1>1. /\ ent \in [Layer -> [Expert -> Entry]] /\ lay \in [Layer -> Queues]
      /\ LayerOk(ent[l], lay[l])
  BY DEF IInv, CacheInv
<1>2. ent[l][e] \in Entry
  BY <1>1
<1>3. /\ ent' = [ent EXCEPT ![l][e].freq = 1] /\ UNCHANGED table
      /\ lay' = [lay EXCEPT ![l] = Unghosted(@, e)]
  BY DEF MissUnserved
<1>4. \A m \in Layer, x \in Expert :
        /\ ent'[m][x].seg = ent[m][x].seg /\ ent'[m][x].rc = ent[m][x].rc
        /\ ent[m][x].rc \in 0 .. MaxRefs
  BY <1>1, <1>2, <1>3 DEF Entry
<1>5. \A m \in Layer : ToSet(lay'[m].ghost) \subseteq ToSet(lay[m].ghost)
  BY <1>1, <1>3, UnghostOk
<1>6. FreshInv'
  BY <1>4, <1>5, FreshKept
<1>7. \A m \in Layer, x \in Expert : ent'[m][x].rc <= ent[m][x].rc
  BY <1>4, CacheAssumption
<1> QED
  BY <1>3, <1>6, <1>7 DEF Kept

LEMMA AdmitVisible ==
  ASSUME IInv, NEW l \in Layer, NEW e \in Expert, NEW origin, Admit(l, e, origin)
  PROVE  FreshInv' /\ table[l][e] = NoSlot /\ Served(l, e)
<1>1. IInv' /\ Served(l, e)
  BY AdmitIInv
<1>2. PICK s \in Slot : table'[l][e] = s
  BY <1>1 DEF Served
<1>3. LayerOk(ent'[l], lay'[l]) /\ table'[l][e] = ent'[l][e].slot
  BY <1>1 DEF IInv, CacheInv
<1>4. ent'[l][e].seg # "None"
  BY <1>2, <1>3, CacheAssumption DEF LayerOk
<1>5. FreshInv'
  BY <1>4 DEF FreshInv
<1>6. table[l][e] = NoSlot
  BY DEF Admit, Cached, IInv, CacheInv, LayerOk
<1> QED
  BY <1>1, <1>5, <1>6

LEMMA MarkReleaseVisible ==
  ASSUME IInv, FreshInv, NEW l \in Layer, NEW e \in Expert,
         MarkResident(l, e) \/ Release(l, e)
  PROVE  FreshInv' /\ Kept
<1>1. ent \in [Layer -> [Expert -> Entry]]
  BY DEF IInv, CacheInv
<1>2. \A m \in Layer, x \in Expert : ent[m][x] \in Entry /\ ent[m][x].rc \in Int
  BY <1>1, CacheAssumption DEF Entry
<1>3. \A m \in Layer, x \in Expert :
        ent'[m][x].seg = ent[m][x].seg /\ ent'[m][x].rc <= ent[m][x].rc
  <2>1. CASE MarkResident(l, e)
    <3>1. \A m \in Layer, x \in Expert :
            ent'[m][x].seg = ent[m][x].seg /\ ent'[m][x].rc = ent[m][x].rc
      BY <1>1, <1>2, <2>1 DEF MarkResident, Entry
    <3> QED
      BY <1>2, <3>1
  <2>2. CASE Release(l, e)
    <3>1. \A m \in Layer, x \in Expert :
            /\ ent'[m][x].seg = ent[m][x].seg
            /\ ent'[m][x].rc = IF m = l /\ x = e THEN ent[m][x].rc - 1 ELSE ent[m][x].rc
      BY <1>1, <1>2, <2>2 DEF Release, Entry
    <3> QED
      BY <1>2, <3>1
  <2> QED
    BY <2>1, <2>2
<1>4. UNCHANGED <<table, lay>>
  BY DEF MarkResident, Release
<1>5. FreshInv'
  BY <1>3, <1>4, FreshKept
<1> QED
  BY <1>3, <1>4, <1>5 DEF Kept

LEMMA UnchangedVisible ==
  ASSUME IInv, FreshInv, UNCHANGED cacheVars
  PROVE  FreshInv' /\ Kept
<1>1. UNCHANGED <<ent, table, lay>>
  BY DEF cacheVars
<1>2. \A l \in Layer, e \in Expert : ent[l][e].rc \in Int
  BY CacheAssumption DEF IInv, CacheInv, Entry
<1>3. \A l \in Layer, e \in Expert : ent'[l][e].rc <= ent[l][e].rc
  BY <1>1, <1>2
<1> QED
  BY <1>1, <1>3 DEF FreshInv, Kept

LEMMA StepIInv ==
  ASSUME IInv, FreshInv, [Next]_vars
  PROVE  IInv' /\ FreshInv' /\ Visible
<1>1. ASSUME NEW l \in Layer, NEW e \in Expert, NEW origin, Acquire(l, e, origin)
      PROVE  IInv' /\ FreshInv' /\ Visible
  <2>1. CASE Hit(l, e)
    BY <2>1, HitIInv, HitVisible DEF Visible
  <2>2. CASE MissUnserved(l, e, origin)
    BY <2>2, MissUnservedIInv, MissUnservedVisible DEF Visible
  <2>3. CASE Admit(l, e, origin)
    BY <2>3, AdmitIInv, AdmitVisible DEF Visible
  <2> QED
    BY <1>1, <2>1, <2>2, <2>3 DEF Acquire
<1>2. ASSUME NEW l \in Layer, NEW e \in Expert, MarkResident(l, e) \/ Release(l, e)
      PROVE  IInv' /\ FreshInv' /\ Visible
  BY <1>2, MarkResidentIInv, ReleaseIInv, MarkReleaseVisible DEF Visible
<1>3. ASSUME NEW order \in [Layer -> Order], BuildPinned(order)
      PROVE  IInv' /\ FreshInv' /\ Visible
  BY <1>3, BuildPinnedIInv DEF Visible
<1>4. CASE EndStep
  BY <1>4, EndStepIInv, UnchangedVisible DEF Visible
<1>5. CASE UNCHANGED vars
  <2>1. UNCHANGED cacheVars /\ UNCHANGED quotaVars
    BY <1>5 DEF vars
  <2>2. IInv'
    BY <2>1 DEF IInv, CacheInv, cacheVars, quotaVars, QuotaInv, QuotaTypeOK,
                QuotasCoverTheSlots, QuotaFloor
  <2> QED
    BY <2>1, <2>2, UnchangedVisible DEF Visible
<1> QED
  BY <1>1, <1>2, <1>3, <1>4, <1>5 DEF Next

LEMMA InitFresh == Init => FreshInv
<1> SUFFICES ASSUME Init PROVE FreshInv
  OBVIOUS
<1>1. \A l \in Layer : lay[l].ghost = <<>>
  BY DEF Init
<1>2. ToSet(<<>>) = {}
  BY DEF ToSet
<1> QED
  BY <1>1, <1>2 DEF FreshInv

THEOREM CacheInvariant == Spec => [](IInv /\ FreshInv)
<1>1. Init => IInv /\ FreshInv
  BY InitIInv, InitFresh
<1>2. IInv /\ FreshInv /\ [Next]_vars => IInv' /\ FreshInv'
  BY StepIInv
<1> QED
  BY <1>1, <1>2, PTL DEF Spec
-----------------------------------------------------------------------------
(* What follows from the invariant.                                        *)

LEMMA OwnedConserves ==
  ASSUME CacheInv
  PROVE  SlotsConserved
<1>1. /\ \A l \in Layer : LayerOk(ent[l], lay[l])
      /\ \A l \in Layer, e \in Expert : table[l][e] = ent[l][e].slot
      /\ IsInjective(free)
      /\ \A l, m \in Layer, e, x \in Expert :
           table[l][e] = table[m][x] /\ table[l][e] # NoSlot => l = m /\ e = x
      /\ \A l \in Layer, e \in Expert : table[l][e] \notin ToSet(free)
      /\ \A s \in Slot : s \in ToSet(free) \/ \E l \in Layer, e \in Expert : table[l][e] = s
  BY DEF CacheInv, Owned
<1>2. ASSUME NEW s \in Slot
      PROVE  Cardinality({i \in DOMAIN free : free[i] = s})
               + Cardinality({k \in Layer \X Expert : ent[k[1]][k[2]].slot = s}) = 1
  <2> DEFINE A == {i \in DOMAIN free : free[i] = s}
             B == {k \in Layer \X Expert : ent[k[1]][k[2]].slot = s}
  <2>1. Cardinality({}) = 0 /\ \A x : Cardinality({x}) = 1
    BY FS_EmptySet, FS_Singleton
  <2>2. \A k \in Layer \X Expert :
          /\ k[1] \in Layer /\ k[2] \in Expert /\ k = <<k[1], k[2]>>
          /\ ent[k[1]][k[2]].slot = table[k[1]][k[2]]
    BY <1>1
  <2>3. CASE s \in ToSet(free)
    <3>1. PICK i \in DOMAIN free : free[i] = s
      BY <2>3 DEF ToSet
    <3>2. A = {i}
      BY <1>1, <3>1 DEF IsInjective
    <3>3. B = {}
      BY <1>1, <2>2, <2>3
    <3> HIDE DEF A, B
    <3>4. Cardinality(A) = 1 /\ Cardinality(B) = 0
      BY <2>1, <3>2, <3>3
    <3> QED
      BY <3>4 DEF A, B
  <2>4. CASE s \notin ToSet(free)
    <3>1. PICK l \in Layer, e \in Expert : table[l][e] = s
      BY <1>1, <2>4
    <3>2. A = {}
      BY <2>4 DEF ToSet
    <3>3. s # NoSlot
      BY CacheAssumption
    <3>4. \A m \in Layer, x \in Expert : table[m][x] = s => m = l /\ x = e
      BY <1>1, <3>1, <3>3
    <3>5. B = {<<l, e>>}
      <4>1. <<l, e>> \in B
        BY <1>1, <3>1
      <4>2. \A k \in B : k = <<l, e>>
        BY <2>2, <3>4
      <4> QED
        BY <4>1, <4>2
    <3> HIDE DEF A, B
    <3>6. Cardinality(A) = 0 /\ Cardinality(B) = 1
      BY <2>1, <3>2, <3>5
    <3> QED
      BY <3>6 DEF A, B
  <2> QED
    BY <2>3, <2>4
<1>3. \A l \in Layer, e \in Expert : Cached(l, e) <=> ent[l][e].slot # NoSlot
  BY <1>1 DEF LayerOk, Cached
<1> QED
  BY <1>1, <1>2, <1>3 DEF SlotsConserved

\* A layer holds no more entries than there are slots: their slots differ.
LEMMA HeldWithinSlots ==
  ASSUME CacheInv, NEW l \in Layer
  PROVE  Cardinality(Held(ent[l])) \in 0 .. NSlot
<1>1. /\ LayerOk(ent[l], lay[l]) /\ table \in [Layer -> [Expert -> Slot \cup {NoSlot}]]
      /\ \A e \in Expert : table[l][e] = ent[l][e].slot
      /\ \A e, x \in Expert : table[l][e] = table[l][x] /\ table[l][e] # NoSlot => e = x
  BY DEF CacheInv, Owned
<1> DEFINE H == Held(ent[l])
           f == [e \in H |-> table[l][e]]
<1>2. \A e \in H : e \in Expert /\ table[l][e] # NoSlot /\ table[l][e] \in Slot
  BY <1>1 DEF Held, LayerOk
<1>3. f \in [H -> Slot] /\ IsInjective(f)
  BY <1>1, <1>2 DEF IsInjective
<1>4. f \in Injection(H, Slot)
  BY <1>3 DEF Injection
<1>5. IsFiniteSet(Slot) /\ Cardinality(Slot) = NSlot
  BY CacheAssumption
<1> HIDE DEF f, H
<1>6. IsFiniteSet(H) /\ Cardinality(H) <= NSlot
  BY <1>4, <1>5, FS_Injection
<1>7. Cardinality(H) \in Nat
  BY <1>6, FS_CardinalityType
<1> QED
  BY <1>6, <1>7, QuotaAssumption DEF H

LEMMA InvTypeOK ==
  ASSUME IInv
  PROVE  TypeOK
<1>1. /\ ent \in [Layer -> [Expert -> Entry]] /\ lay \in [Layer -> Queues]
      /\ \A l \in Layer : LayerOk(ent[l], lay[l])
      /\ table \in [Layer -> [Expert -> Slot \cup {NoSlot}]] /\ free \in Seq(Slot)
      /\ QuotaTypeOK
  BY DEF IInv, CacheInv, Owned, QuotaInv
<1>2. ASSUME NEW l \in Layer
      PROVE  /\ lay[l].resident \in 0 .. NSlot /\ lay[l].pinned \in 0 .. NSlot
             /\ lay[l] \in Queues
  <2>1. Cardinality(Held(ent[l])) \in 0 .. NSlot /\ IsFiniteSet(Held(ent[l]))
    BY HeldWithinSlots, HeldFinite DEF IInv
  <2>2. In(ent[l], "Pinned") \in SUBSET Held(ent[l])
    BY DEF In, Held
  <2>3. IsFiniteSet(In(ent[l], "Pinned"))
          /\ Cardinality(In(ent[l], "Pinned")) <= Cardinality(Held(ent[l]))
    BY <2>1, <2>2, FS_Subset
  <2>4. Cardinality(In(ent[l], "Pinned")) \in Nat
    BY <2>3, FS_CardinalityType
  <2>5. Cardinality(In(ent[l], "Pinned")) \in 0 .. NSlot
    BY <2>1, <2>3, <2>4, QuotaAssumption
  <2>6. /\ lay[l].resident = Cardinality(Held(ent[l]))
        /\ lay[l].pinned = Cardinality(In(ent[l], "Pinned"))
    BY <1>1 DEF LayerOk
  <2> QED
    BY <1>1, <2>1, <2>5, <2>6
<1> DEFINE Q == [small : Seq(Expert), main : Seq(Expert), ghost : Seq(Expert),
                 resident : 0 .. NSlot, pinned : 0 .. NSlot]
<1>3. ASSUME NEW l \in Layer PROVE lay[l] \in Q
  BY <1>2 DEF Queues
<1>4. lay \in [Layer -> Q]
  <2> HIDE DEF Q
  <2> QED
    BY <1>1, <1>3
<1> QED
  BY <1>1, <1>4 DEF TypeOK, Entry

\* The types of the cache's state.
THEOREM CacheTypeCorrect == Spec => []TypeOK
<1>1. IInv /\ FreshInv => TypeOK
  BY InvTypeOK
<1> QED
  BY <1>1, CacheInvariant, PTL

\* In every cache that build_pinned, hits, misses, releases and reallocations
\* can produce, each slot is on the free stack or under one entry, and the
\* table the callers read says which.
THEOREM SlotsAreConserved == Spec => []SlotsConserved
<1>1. IInv /\ FreshInv => SlotsConserved
  BY OwnedConserves DEF IInv
<1> QED
  BY <1>1, CacheInvariant, PTL

\* evict_one's queues and alloc_slot's counters describe the entries exactly.
THEOREM QueuesAlwaysMatch == Spec => []QueuesMatchEntries
<1>1. IInv /\ FreshInv => QueuesMatchEntries
  BY DEF IInv, CacheInv, LayerOk, QueuesMatchEntries, In, Held, Cached
<1> QED
  BY <1>1, CacheInvariant, PTL

\* The quotas suffice and keep their floor inside the cache as well, whose
\* misses decide when a ghost hit is counted.
THEOREM CacheQuotasSuffice == Spec => [](QuotasCoverTheSlots /\ QuotaFloor)
<1>1. IInv /\ FreshInv => QuotasCoverTheSlots /\ QuotaFloor
  BY DEF IInv, QuotaInv
<1> QED
  BY <1>1, CacheInvariant, PTL
-----------------------------------------------------------------------------
(* The policy implements the abstract slot cache.                          *)

Keys == Layer \X Expert
SeatNow == [k \in Keys |-> SlotOf(k)]
RefsNow == [k \in Keys |-> RefsOf(k)]

LEMMA KeyParts ==
  ASSUME NEW k \in Keys
  PROVE  k[1] \in Layer /\ k[2] \in Expert /\ k = <<k[1], k[2]>>
BY DEF Keys

LEMMA InitSeats == Init => Seats!SeatInit
<1> SUFFICES ASSUME Init PROVE Seats!SeatInit
  OBVIOUS
<1>1. \A l \in Layer, e \in Expert : table[l][e] = NoSlot /\ ent[l][e].rc = 0
  BY DEF Init
<1>2. \A k \in Layer \X Expert : SlotOf(k) = NoSlot /\ RefsOf(k) = 0
  BY <1>1 DEF SlotOf, RefsOf
<1> QED
  BY <1>2 DEF Seats!SeatInit

LEMMA CountedIsReuse ==
  ASSUME NEW l \in Layer, NEW e \in Expert, Counted(l, e)
  PROVE  Seats!Reuse(<<l, e>>)
<1>1. <<l, e>> \in Keys /\ \A k \in Keys : (k[1] = l /\ k[2] = e) <=> k = <<l, e>>
  BY KeyParts DEF Keys
<1>2. SlotOf(<<l, e>>) # NoSlot /\ RefsOf(<<l, e>>) < MaxRefs
  BY DEF Counted, SlotOf, RefsOf
<1>3. \A k \in Keys : /\ SlotOf(k)' = SlotOf(k)
                       /\ RefsOf(k)' = IF k = <<l, e>> THEN RefsOf(k) + 1 ELSE RefsOf(k)
  BY <1>1, KeyParts DEF Counted, SlotOf, RefsOf
<1>4. SeatNow' = SeatNow
  BY <1>3 DEF SeatNow, Keys
<1>5. RefsNow' = [RefsNow EXCEPT ![<<l, e>>] = @ + 1]
  BY <1>1, <1>3 DEF RefsNow, Keys
<1>6. SeatNow[<<l, e>>] # NoSlot /\ RefsNow[<<l, e>>] < MaxRefs
  BY <1>1, <1>2 DEF SeatNow, RefsNow
<1> QED
  BY <1>4, <1>5, <1>6 DEF Seats!Reuse, Seats!Seated, SeatNow, RefsNow, Keys

LEMMA ServedIsGrant ==
  ASSUME NEW l \in Layer, NEW e \in Expert, table[l][e] = NoSlot, Served(l, e)
  PROVE  \E s \in Slot : Seats!Grant(<<l, e>>, s)
<1>1. <<l, e>> \in Keys /\ \A k \in Keys : (k[1] = l /\ k[2] = e) <=> k = <<l, e>>
  BY KeyParts DEF Keys
<1>2. PICK s \in Slot :
        /\ \A m \in Layer, x \in Expert : table[m][x] = s => ent[m][x].rc = 0
        /\ \A m \in Layer, x \in Expert :
             table'[m][x] = IF m = l /\ x = e THEN s
                            ELSE IF table[m][x] = s THEN NoSlot ELSE table[m][x]
        /\ \A m \in Layer, x \in Expert :
             ent'[m][x].rc = IF m = l /\ x = e THEN 1 ELSE ent[m][x].rc
  BY DEF Served
<1>3. \A k \in Keys :
        /\ SlotOf(k) = s => RefsOf(k) = 0
        /\ SlotOf(k)' = IF k = <<l, e>> THEN s
                        ELSE IF SlotOf(k) = s THEN NoSlot ELSE SlotOf(k)
        /\ RefsOf(k)' = IF k = <<l, e>> THEN 1 ELSE RefsOf(k)
  BY <1>1, <1>2, KeyParts DEF SlotOf, RefsOf
<1>4. SeatNow[<<l, e>>] = NoSlot /\ \A k \in Keys : SeatNow[k] = s => RefsNow[k] = 0
  BY <1>1, <1>3 DEF SeatNow, RefsNow, SlotOf
<1>5. SeatNow' = [k \in Keys |-> IF k = <<l, e>> THEN s
                                 ELSE IF SeatNow[k] = s THEN NoSlot ELSE SeatNow[k]]
  BY <1>3 DEF SeatNow, Keys
<1>6. RefsNow' = [RefsNow EXCEPT ![<<l, e>>] = 1]
  BY <1>1, <1>3 DEF RefsNow, Keys
<1>7. Seats!Grant(<<l, e>>, s)
  BY <1>4, <1>5, <1>6 DEF Seats!Grant, Seats!Granted, Seats!Grantable, Seats!Seated,
                          SeatNow, RefsNow, Keys
<1> QED
  BY <1>7

LEMMA KeptIsDrop ==
  ASSUME IInv', Kept
  PROVE  Seats!Drop
<1>1. \A k \in Keys : /\ SlotOf(k)' = SlotOf(k) /\ RefsOf(k)' <= RefsOf(k)
                       /\ RefsOf(k)' \in 0 .. MaxRefs
  <2>1. ent' \in [Layer -> [Expert -> Entry]]
    BY DEF IInv, CacheInv
  <2>2. \A l \in Layer, e \in Expert : ent'[l][e].rc \in 0 .. MaxRefs
    BY <2>1 DEF Entry
  <2> QED
    BY <2>2, KeyParts DEF Kept, SlotOf, RefsOf
<1>2. SeatNow' = SeatNow
  BY <1>1 DEF SeatNow, Keys
<1>3. RefsNow' \in [Keys -> 0 .. MaxRefs] /\ \A k \in Keys : RefsNow'[k] <= RefsNow[k]
  BY <1>1 DEF RefsNow, Keys
<1> QED
  BY <1>2, <1>3 DEF Seats!Drop, SeatNow, RefsNow, Keys

LEMMA PreloadedIsPreload ==
  ASSUME Preloaded
  PROVE  Seats!Preload
<1>1. \A k \in Keys : /\ SlotOf(k) = NoSlot /\ RefsOf(k)' = RefsOf(k)
                       /\ SlotOf(k)' \in Slot \cup {NoSlot}
  BY KeyParts DEF Preloaded, SlotOf, RefsOf
<1>2. \A j, k \in Keys : SlotOf(j)' = SlotOf(k)' => j = k \/ SlotOf(j)' = NoSlot
  BY KeyParts DEF Preloaded, SlotOf
<1>3. RefsNow' = RefsNow
  BY <1>1 DEF RefsNow, Keys
<1>4. /\ \A k \in Keys : SeatNow[k] = NoSlot
      /\ SeatNow' \in [Keys -> Slot \cup {NoSlot}]
      /\ \A j, k \in Keys : SeatNow'[j] = SeatNow'[k] => j = k \/ SeatNow'[j] = NoSlot
  BY <1>1, <1>2 DEF SeatNow, Keys
<1> QED
  BY <1>3, <1>4 DEF Seats!Preload, Seats!Seated, SeatNow, RefsNow, Keys

\* Every call of ExpertCache is a step of SlotCache, the contract that
\* SlabRemap is proved against: whatever S3-FIFO, ghosts, quotas and pinning
\* decide, at most one idle entry loses its slot, to the request that needed it.
THEOREM CacheImplementsSlotCache == Spec => ImplementsSlotCache
<1>1. Init => Seats!SeatInit
  BY InitSeats
<1>2. IInv /\ FreshInv /\ [Next]_vars => [Seats!SeatNext]_(Seats!seatVars)
  <2> SUFFICES ASSUME IInv, FreshInv, [Next]_vars PROVE Seats!SeatNext
    OBVIOUS
  <2>1. IInv' /\ Visible
    BY StepIInv
  <2>2. CASE \E l \in Layer, e \in Expert :
               Counted(l, e) \/ (table[l][e] = NoSlot /\ Served(l, e))
    <3>1. PICK l \in Layer, e \in Expert :
                 Counted(l, e) \/ (table[l][e] = NoSlot /\ Served(l, e))
      BY <2>2
    <3>2. <<l, e>> \in Layer \X Expert
      OBVIOUS
    <3>3. Seats!Reuse(<<l, e>>) \/ \E s \in Slot : Seats!Grant(<<l, e>>, s)
      BY <3>1, CountedIsReuse, ServedIsGrant
    <3> QED
      BY <3>2, <3>3 DEF Seats!SeatNext
  <2>3. CASE Kept
    BY <2>1, <2>3, KeptIsDrop DEF Seats!SeatNext
  <2>4. CASE Preloaded
    BY <2>4, PreloadedIsPreload DEF Seats!SeatNext
  <2> QED
    BY <2>1, <2>2, <2>3, <2>4 DEF Visible
<1> QED
  BY <1>1, <1>2, CacheInvariant, PTL DEF Spec, ImplementsSlotCache, Seats!SeatSpec
-----------------------------------------------------------------------------
(* Who is evicted, and from where.                                         *)

\* An entry disappears only as the victim of a miss, in the giving layer.
LEMMA AdmitTakesTheVictim ==
  ASSUME IInv, NEW l \in Layer, NEW e \in Expert, NEW origin, Admit(l, e, origin),
         NEW m \in Layer, NEW x \in Expert
  PROVE  /\ ent[m][x].seg = "None" /\ ent'[m][x].seg # "None" => m = l /\ x = e
         /\ ent[m][x].seg # "None" /\ ent'[m][x].seg = "None" =>
              /\ NeedsEviction(l) /\ m = GivingLayer(l) /\ CanEvict(m)
              /\ x = Victim(m)
<1> DEFINE g == GivingLayer(l)
           v == Victim(g)
           s == IF NeedsEviction(l) THEN ent[g][v].slot ELSE Last(free)
           new == NewEntry(s, WasGhost(l, e))
           E1 == IF NeedsEviction(l) THEN [ent EXCEPT ![g] = EntriesAfterEviction(g)]
                                     ELSE ent
<1>1. /\ ent \in [Layer -> [Expert -> Entry]]
      /\ \A k \in Layer : LayerOk(ent[k], lay[k])
  BY DEF IInv, CacheInv
<1>2. ent' = [E1 EXCEPT ![l][e] = new] /\ ent[l][e].seg = "None"
  BY DEF Admit, NewEntry, Cached
<1>3. new.seg # "None"
  BY DEF NewEntry
<1>4. g \in Layer /\ (NeedsEviction(l) => CanEvict(g))
  BY GivingLayerType DEF Admit, Refuses
<1>5. NeedsEviction(l) =>
        LET le == EntriesAfterEviction(g) IN
        /\ le \in [Expert -> Entry]
        /\ \A y \in Expert : y # v => le[y].seg = ent[g][y].seg
        /\ le[v].seg = "None"
  BY <1>1, <1>4, EntriesEvicted
<1> HIDE DEF g, v, s, new
<1>6. /\ E1 \in [Layer -> [Expert -> Entry]]
      /\ \A k \in Layer, y \in Expert :
           ~ (NeedsEviction(l) /\ k = g /\ y = v) => E1[k][y].seg = ent[k][y].seg
      /\ NeedsEviction(l) => E1[g][v].seg = "None" \/ v \notin Expert
  <2>1. CASE NeedsEviction(l)
    BY <1>1, <1>4, <1>5, <2>1
  <2>2. CASE ~NeedsEviction(l)
    BY <1>1, <2>2
  <2> QED
    BY <2>1, <2>2
<1> HIDE DEF E1
<1>7. ent'[l][e] = new /\ (~ (m = l /\ x = e) => ent'[m][x] = E1[m][x])
  BY <1>2, <1>6
<1>8. CASE m = l /\ x = e
  BY <1>2, <1>3, <1>7, <1>8
<1>9. CASE ~ (m = l /\ x = e)
  <2>1. ent'[m][x] = E1[m][x]
    BY <1>7, <1>9
  <2>2. CASE NeedsEviction(l) /\ m = g /\ x = v
    <3>1. ent'[m][x].seg = "None"
      BY <1>6, <2>1, <2>2
    <3> QED
      BY <1>4, <2>2, <3>1 DEF g, v
  <2>3. CASE ~ (NeedsEviction(l) /\ m = g /\ x = v)
    BY <1>6, <2>1, <2>3
  <2> QED
    BY <2>2, <2>3
<1> QED
  BY <1>8, <1>9

LEMMA OthersTakeNothing ==
  ASSUME IInv, [Next]_vars, NEW m \in Layer, NEW x \in Expert,
         ent[m][x].seg # "None", ent'[m][x].seg = "None"
  PROVE  \E l \in Layer, e \in Expert, origin \in Origins : Admit(l, e, origin)
<1>1. ent \in [Layer -> [Expert -> Entry]]
  BY DEF IInv, CacheInv
<1>2. \A l \in Layer, e \in Expert : ent[l][e] \in Entry
  BY <1>1
<1>3. ASSUME NEW l \in Layer, NEW e \in Expert, Hit(l, e) PROVE FALSE
  <2>1. ent' = [ent EXCEPT ![l][e] = EntryAfterHit(l, e)] /\ ent[l][e].seg # "None"
    BY <1>3, HitFacts DEF Hit, Cached
  <2>2. EntryAfterHit(l, e).seg # "None"
    BY <2>1 DEF EntryAfterHit
  <2> QED
    BY <1>1, <2>1, <2>2
<1>4. ASSUME NEW l \in Layer, NEW e \in Expert, NEW origin, MissUnserved(l, e, origin)
      PROVE FALSE
  BY <1>1, <1>2, <1>4 DEF MissUnserved, Entry
<1>5. ASSUME NEW l \in Layer, NEW e \in Expert, MarkResident(l, e) PROVE FALSE
  BY <1>1, <1>2, <1>5 DEF MarkResident, Entry
<1>6. ASSUME NEW l \in Layer, NEW e \in Expert, Release(l, e) PROVE FALSE
  BY <1>1, <1>2, <1>6 DEF Release, Entry
<1>7. ASSUME NEW order \in [Layer -> Order], BuildPinned(order) PROVE FALSE
  BY <1>7, BuildPinnedDefined, NothingCached
<1>8. ~EndStep /\ ~UNCHANGED vars
  BY DEF EndStep, cacheVars, vars
<1> QED
  BY <1>3, <1>4, <1>5, <1>6, <1>7, <1>8 DEF Next, Acquire

LEMMA MainVictim ==
  ASSUME IInv, NEW m \in Layer, CanEvict(m), ent[m][Victim(m)].seg = "Main"
  PROVE  /\ \A x \in Expert : ent[m][x].seg = "Small" => ent[m][x].rc > 0
         /\ ent[m][Victim(m)].freq > 1 =>
              \A x \in Expert : (ent[m][x].seg = "Main" /\ ent[m][x].rc = 0)
                                    => ent[m][x].freq > 1
<1> DEFINE v == Victim(m)
<1>1. LayerOk(ent[m], lay[m]) /\ \A x \in Expert : ent[m][x] \in Entry
  BY DEF IInv, CacheInv
<1>2. v \in Takeable(m) /\ v \in Expert /\ ent[m][v].seg = ScannedSeg(m)
  BY <1>1, VictimFacts
<1>3. ~TakesSmall(m)
  BY <1>2 DEF ScannedSeg
<1>4. /\ ToSet(lay[m].small) = In(ent[m], "Small")
      /\ ToSet(lay[m].main) = In(ent[m], "Main")
  BY <1>1 DEF LayerOk, Lists
<1>5. \A x \in Expert : ent[m][x].rc \in Nat /\ ent[m][x].freq \in 0 .. 3
  BY <1>1, CacheAssumption DEF Entry, FREQ_MAX
<1>6. \A x \in Expert : ent[m][x].seg = "Small" => ent[m][x].rc # 0
  BY <1>3, <1>4 DEF TakesSmall, IdleIn, Idle, In
<1>7. ASSUME ent[m][v].freq > 1, NEW x \in Expert,
             ent[m][x].seg = "Main", ent[m][x].rc = 0
      PROVE  ent[m][x].freq > 1
  <2>1. ~Cold(m, v)
    BY <1>2, <1>5, <1>7 DEF Cold
  <2>2. {e \in IdleIn(m, lay[m].main) : Cold(m, e)} = {}
    BY <1>2, <1>3, <2>1 DEF Takeable, ScannedQueue
  <2>3. x \in IdleIn(m, lay[m].main)
    BY <1>4, <1>7 DEF IdleIn, Idle, In
  <2>4. ~Cold(m, x)
    BY <2>2, <2>3
  <2> QED
    BY <1>5, <2>4 DEF Cold
<1>8. \A x \in Expert : ent[m][x].seg = "Small" => ent[m][x].rc > 0
  BY <1>5, <1>6
<1> QED
  BY <1>7, <1>8

\* evict_one's order: MAIN gives an entry up only while SMALL has no idle one,
\* and a reused one only while every idle entry of MAIN was reused.
THEOREM ColdestAlwaysGoesFirst == Spec => ColdestGoesFirst
<1>1. ASSUME IInv, FreshInv, [Next]_vars, NEW l \in Layer, NEW e \in Expert,
             ent[l][e].seg = "Main", ent'[l][e].seg = "None"
      PROVE  /\ \A x \in Expert : ent[l][x].seg = "Small" => ent[l][x].rc > 0
             /\ ent[l][e].freq > 1 =>
                  \A x \in Expert : (ent[l][x].seg = "Main" /\ ent[l][x].rc = 0)
                                        => ent[l][x].freq > 1
  <2>1. PICK k \in Layer, y \in Expert, origin \in Origins : Admit(k, y, origin)
    BY <1>1, OthersTakeNothing
  <2>2. CanEvict(l) /\ e = Victim(l)
    BY <1>1, <2>1, AdmitTakesTheVictim
  <2> QED
    BY <1>1, <2>2, MainVictim
<1>2. IInv /\ FreshInv /\ [Next]_vars =>
        [ \A l \in Layer, e \in Expert :
            (ent[l][e].seg = "Main" /\ ent'[l][e].seg = "None") =>
               /\ \A x \in Expert : ent[l][x].seg = "Small" => ent[l][x].rc > 0
               /\ ent[l][e].freq > 1 =>
                    \A x \in Expert : (ent[l][x].seg = "Main" /\ ent[l][x].rc = 0)
                                          => ent[l][x].freq > 1 ]_vars
  BY <1>1
<1> QED
  BY <1>2, CacheInvariant, PTL DEF Spec, ColdestGoesFirst

\* alloc_slot turns to another layer only when its own is below its quota and
\* the free stack is empty.
THEOREM ForeignEvictionIsAlwaysLast == Spec => ForeignEvictionIsLastResort
<1>1. ASSUME IInv, FreshInv, [Next]_vars,
             NEW l \in Layer, NEW m \in Layer, NEW e \in Expert, NEW x \in Expert,
             l # m, ~Cached(l, e), ent'[l][e].seg # "None",
             Cached(m, x), ent'[m][x].seg = "None"
      PROVE  free = <<>> /\ lay[l].resident < quota[l]
  <2>1. PICK k \in Layer, y \in Expert, origin \in Origins : Admit(k, y, origin)
    BY <1>1, OthersTakeNothing DEF Cached
  <2>2. l = k
    BY <1>1, <2>1, AdmitTakesTheVictim DEF Cached
  <2>3. NeedsEviction(l) /\ m = GivingLayer(l)
    BY <1>1, <2>1, <2>2, AdmitTakesTheVictim DEF Cached
  <2>4. ~OverQuota(l)
    BY <1>1, <2>3 DEF GivingLayer
  <2>5. lay[l].resident \in Int /\ quota[l] \in Int
    BY <1>1 DEF IInv, CacheInv, Queues, QuotaInv, QuotaTypeOK
  <2> QED
    BY <2>3, <2>4, <2>5 DEF NeedsEviction, OverQuota
<1>2. IInv /\ FreshInv /\ [Next]_vars =>
        [ \A l, m \in Layer, e, x \in Expert :
            (/\ l # m
             /\ ~Cached(l, e) /\ ent'[l][e].seg # "None"
             /\ Cached(m, x) /\ ent'[m][x].seg = "None")
              => free = <<>> /\ lay[l].resident < quota[l] ]_vars
  BY <1>1
<1> QED
  BY <1>2, CacheInvariant, PTL DEF Spec, ForeignEvictionIsLastResort
-----------------------------------------------------------------------------
(* EvictScan: what the loops of evict_one do to a queue.                   *)

\* The entries from m on, then the first k.
Around(q, m, k) == SubSeq(q, m, Len(q)) \o SubSeq(q, 1, k)

\* It has n entries from m on and k from the front.
AroundIs(S, q, m, k, n) ==
    /\ Around(q, m, k) \in Seq(S)
    /\ Len(Around(q, m, k)) = n + k
    /\ \A i \in 1 .. n + k :
          Around(q, m, k)[i] = IF i <= n THEN q[m + i - 1] ELSE q[i - n]

LEMMA AroundEntries ==
  ASSUME NEW S, NEW q \in Seq(S), NEW m \in Nat \ {0}, NEW k \in Nat, NEW n \in Nat,
         m + n = Len(q) + 1, k <= Len(q)
  PROVE  AroundIs(S, q, m, k, n)
<1> DEFINE back == SubSeq(q, m, Len(q))
           front == SubSeq(q, 1, k)
<1>1. Len(q) \in Nat /\ n = Len(q) - m + 1
  BY LenProperties
<1>2. \A i \in 1 .. Len(q) : q[i] \in S
  BY ElementOfSeq
<1>3. /\ back \in Seq(S) /\ Len(back) = n
      /\ \A i \in 1 .. n : back[i] = q[m + i - 1]
  <2>1. \A i \in m .. Len(q) : q[i] \in S
    BY <1>1, <1>2
  <2>2. /\ back \in Seq(S)
        /\ Len(back) = IF m <= Len(q) THEN Len(q) - m + 1 ELSE 0
        /\ \A i \in 1 .. Len(q) - m + 1 : back[i] = q[m + i - 1]
    BY <1>1, <2>1, SubSeqProperties
  <2> HIDE DEF back
  <2> QED
    BY <1>1, <2>2
<1>4. /\ front \in Seq(S) /\ Len(front) = k
      /\ \A i \in 1 .. k : front[i] = q[i]
  <2>1. \A i \in 1 .. k : q[i] \in S
    BY <1>1, <1>2
  <2>2. /\ front \in Seq(S) /\ Len(front) = IF 1 <= k THEN k - 1 + 1 ELSE 0
        /\ \A i \in 1 .. k - 1 + 1 : front[i] = q[1 + i - 1]
    BY <1>1, <2>1, SubSeqProperties
  <2> HIDE DEF front
  <2>3. \A i \in 1 .. k : front[i] = q[i]
    <3> TAKE i \in 1 .. k
    <3>1. i \in 1 .. k - 1 + 1 /\ 1 + i - 1 = i
      OBVIOUS
    <3> QED
      BY <2>2, <3>1
  <2> QED
    BY <2>2, <2>3
<1>5. Around(q, m, k) = back \o front
  BY DEF Around
<1> HIDE DEF back, front
<1>6. /\ back \o front \in Seq(S)
      /\ Len(back \o front) = n + k
      /\ \A i \in 1 .. n + k :
            (back \o front)[i] = IF i <= n THEN back[i] ELSE front[i - n]
  <2>1. back \in Seq(S) /\ front \in Seq(S)
    BY <1>3, <1>4
  <2>2. /\ back \o front \in Seq(S)
        /\ Len(back \o front) = Len(back) + Len(front)
        /\ \A i \in 1 .. Len(back) + Len(front) :
              (back \o front)[i] = IF i <= Len(back) THEN back[i]
                                   ELSE front[i - Len(back)]
    BY <2>1, ConcatProperties
  <2>3. Len(back) = n /\ Len(front) = k
    BY <1>3, <1>4
  <2> QED
    BY <2>2, <2>3, Zenon
<1>7. ASSUME NEW i \in 1 .. n + k
      PROVE  (back \o front)[i] = IF i <= n THEN q[m + i - 1] ELSE q[i - n]
  <2>1. CASE i <= n
    <3>1. i \in 1 .. n
      BY <2>1
    <3> QED
      BY <1>3, <1>6, <2>1, <3>1
  <2>2. CASE ~ (i <= n)
    <3>1. i - n \in 1 .. k
      BY <2>2
    <3> QED
      BY <1>4, <1>6, <2>2, <3>1
  <2> QED
    BY <2>1, <2>2
<1> QED
  BY <1>5, <1>6, <1>7 DEF AroundIs

\* A round takes the front entry off ...
LEMMA AroundTail ==
  ASSUME NEW S, NEW q \in Seq(S), NEW m \in 1 .. Len(q), NEW k \in 0 .. Len(q)
  PROVE  /\ Head(Around(q, m, k)) = q[m]
         /\ Tail(Around(q, m, k)) = Around(q, m + 1, k)
<1> DEFINE a == Around(q, m, k)
           t == Around(q, m + 1, k)
           n == Len(q) - m
<1>1. /\ Len(q) \in Nat /\ m \in Nat \ {0} /\ k \in Nat /\ k <= Len(q) /\ n \in Nat
      /\ m + (n + 1) = Len(q) + 1 /\ (m + 1) + n = Len(q) + 1
      /\ m + 1 \in Nat \ {0} /\ n + 1 \in Nat
  BY LenProperties
<1> HIDE DEF n
<1>2. AroundIs(S, q, m, k, n + 1)
  BY <1>1, AroundEntries
<1>3. AroundIs(S, q, m + 1, k, n)
  BY <1>1, AroundEntries
<1>4. /\ a \in Seq(S) /\ Len(a) = (n + 1) + k
      /\ \A i \in 1 .. (n + 1) + k :
            a[i] = IF i <= n + 1 THEN q[m + i - 1] ELSE q[i - (n + 1)]
  BY <1>2 DEF AroundIs
<1>5. /\ t \in Seq(S) /\ Len(t) = n + k
      /\ \A i \in 1 .. n + k : t[i] = IF i <= n THEN q[(m + 1) + i - 1] ELSE q[i - n]
  BY <1>3 DEF AroundIs
<1> HIDE DEF a, t
<1>6. a # << >>
  BY <1>1, <1>4
<1>7. Head(a) = q[m]
  <2>1. Head(a) = a[1]
    BY <1>4, <1>6
  <2>2. 1 \in 1 .. (n + 1) + k /\ 1 <= n + 1 /\ m + 1 - 1 = m
    BY <1>1
  <2> QED
    BY <1>4, <2>1, <2>2
<1>8. /\ Tail(a) \in Seq(S) /\ Len(Tail(a)) = n + k
      /\ \A i \in 1 .. n + k : Tail(a)[i] = a[i + 1]
  <2>1. /\ Tail(a) \in Seq(S) /\ Len(Tail(a)) = Len(a) - 1
        /\ \A i \in 1 .. Len(Tail(a)) : Tail(a)[i] = a[i + 1]
    BY <1>4, <1>6, HeadTailProperties
  <2>2. Len(a) - 1 = n + k
    BY <1>1, <1>4
  <2> QED
    BY <2>1, <2>2
<1>9. ASSUME NEW i \in 1 .. n + k PROVE a[i + 1] = t[i]
  <2>1. i + 1 \in 1 .. (n + 1) + k
    BY <1>1
  <2>2. CASE i <= n
    <3>1. i + 1 <= n + 1 /\ m + (i + 1) - 1 = (m + 1) + i - 1
      BY <1>1, <2>2
    <3> QED
      BY <1>4, <1>5, <2>1, <2>2, <3>1
  <2>3. CASE ~ (i <= n)
    <3>1. ~ (i + 1 <= n + 1) /\ (i + 1) - (n + 1) = i - n
      BY <1>1, <2>3
    <3> QED
      BY <1>4, <1>5, <2>1, <2>3, <3>1
  <2> QED
    BY <2>2, <2>3
<1>10. Tail(a) = t
  BY <1>5, <1>8, <1>9, SeqEqual
<1> QED
  BY <1>7, <1>10 DEF a, t

\* ... and may put it back at the other end.
LEMMA AroundAppend ==
  ASSUME NEW S, NEW q \in Seq(S), NEW m \in 1 .. Len(q) + 1, NEW k \in 0 .. Len(q) - 1
  PROVE  Append(Around(q, m, k), q[k + 1]) = Around(q, m, k + 1)
<1> DEFINE a == Around(q, m, k)
           t == Around(q, m, k + 1)
           n == Len(q) - m + 1
<1>1. /\ Len(q) \in Nat /\ m \in Nat \ {0} /\ k \in Nat /\ n \in Nat
      /\ m + n = Len(q) + 1 /\ k <= Len(q) /\ k + 1 <= Len(q)
      /\ k + 1 \in Nat /\ k + 1 \in 1 .. Len(q)
  BY LenProperties
<1> HIDE DEF n
<1>2. AroundIs(S, q, m, k, n) /\ AroundIs(S, q, m, k + 1, n)
  BY <1>1, AroundEntries
<1>3. /\ a \in Seq(S) /\ Len(a) = n + k
      /\ \A i \in 1 .. n + k : a[i] = IF i <= n THEN q[m + i - 1] ELSE q[i - n]
  BY <1>2 DEF AroundIs
<1>4. /\ t \in Seq(S) /\ Len(t) = n + (k + 1)
      /\ \A i \in 1 .. n + (k + 1) : t[i] = IF i <= n THEN q[m + i - 1] ELSE q[i - n]
  BY <1>2 DEF AroundIs
<1>5. q[k + 1] \in S
  BY <1>1, ElementOfSeq
<1> HIDE DEF a, t
<1>6. /\ Append(a, q[k + 1]) \in Seq(S) /\ Len(Append(a, q[k + 1])) = Len(a) + 1
      /\ \A i \in 1 .. Len(a) : Append(a, q[k + 1])[i] = a[i]
      /\ Append(a, q[k + 1])[Len(a) + 1] = q[k + 1]
  BY <1>3, <1>5, AppendProperties
<1>7. ASSUME NEW i \in 1 .. n + (k + 1) PROVE Append(a, q[k + 1])[i] = t[i]
  <2>1. CASE i \in 1 .. n + k
    BY <1>3, <1>4, <1>6, <2>1
  <2>2. CASE i \notin 1 .. n + k
    <3>1. i = (n + k) + 1 /\ ~ (i <= n) /\ i - n = k + 1
      BY <1>1, <2>2
    <3> QED
      BY <1>3, <1>4, <1>6, <3>1
  <2> QED
    BY <2>1, <2>2
<1>8. Append(a, q[k + 1]) = t
  <2>1. Len(Append(a, q[k + 1])) = n + (k + 1)
    BY <1>1, <1>3, <1>6
  <2> QED
    BY <1>4, <1>6, <1>7, <2>1, SeqEqual
<1> QED
  BY <1>8 DEF a, t

\* Rotated by nothing or all the way round, a queue is what it was.
LEMMA AroundEnds ==
  ASSUME NEW S, NEW q \in Seq(S)
  PROVE  Around(q, 1, 0) = q /\ Around(q, Len(q) + 1, Len(q)) = q
<1> DEFINE n == Len(q)
<1>1. n \in Nat /\ 1 + n = n + 1 /\ (n + 1) + 0 = n + 1 /\ n + 1 \in Nat \ {0} /\ 0 <= n
  BY LenProperties
<1>2. AroundIs(S, q, 1, 0, n)
  BY <1>1, AroundEntries
<1>3. AroundIs(S, q, n + 1, n, 0)
  BY <1>1, AroundEntries
<1> HIDE DEF n
<1>4. Around(q, 1, 0) = q
  <2>1. /\ Around(q, 1, 0) \in Seq(S) /\ Len(Around(q, 1, 0)) = n
        /\ \A i \in 1 .. n : Around(q, 1, 0)[i] = q[1 + i - 1]
    BY <1>1, <1>2 DEF AroundIs
  <2>2. \A i \in 1 .. n : 1 + i - 1 = i
    BY <1>1
  <2> QED
    BY <2>1, <2>2, SeqEqual DEF n
<1>5. Around(q, n + 1, n) = q
  <2>1. /\ Around(q, n + 1, n) \in Seq(S) /\ Len(Around(q, n + 1, n)) = n
        /\ \A i \in 1 .. n : Around(q, n + 1, n)[i] = q[i - 0]
    BY <1>1, <1>3 DEF AroundIs
  <2>2. \A i \in 1 .. n : i - 0 = i
    BY <1>1
  <2> QED
    BY <2>1, <2>2, SeqEqual DEF n
<1> QED
  BY <1>4, <1>5 DEF n
-----------------------------------------------------------------------------
(* The inner loop, whichever pass it is.                                   *)

Taken(l, pass, freq, e) == Idle(l, e) /\ ~ (pass = 1 /\ freq[e] > 1)

\* Pass 1 takes one from each idle entry it meets that has two or more.
Aged(l, pass, q, freq, k) ==
    [e \in Expert |->
        IF /\ pass = 1 /\ Idle(l, e) /\ freq[e] > 1
           /\ \E j \in 1 .. k : q[j] = e
          THEN freq[e] - 1 ELSE freq[e]]

\* After k rounds without a victim, and with the victim found in round i.
Skipped(l, pass, q, freq, k) ==
    [q |-> Around(q, k + 1, k), freq |-> Aged(l, pass, q, freq, k), victim |-> Nobody]

Found(l, pass, q, freq, i) ==
    [q |-> Around(q, i + 1, i - 1), freq |-> Aged(l, pass, q, freq, i - 1),
     victim |-> q[i]]

\* After k rounds the next entry is at the front, and has not been met before.
AtFront(l, pass, q, freq, k) ==
    /\ q[k + 1] \in Expert
    /\ Aged(l, pass, q, freq, k)[q[k + 1]] = freq[q[k + 1]]
    /\ Head(Around(q, k + 1, k)) = q[k + 1]
    /\ Tail(Around(q, k + 1, k)) = Around(q, k + 2, k)
    /\ Append(Tail(Around(q, k + 1, k)), q[k + 1]) = Around(q, (k + 1) + 1, k + 1)

LEMMA NextIsNew ==
  ASSUME NEW l, NEW pass, NEW q \in Seq(Expert), IsInjective(q),
         NEW freq \in [Expert -> Nat], NEW k \in 0 .. Len(q) - 1
  PROVE  AtFront(l, pass, q, freq, k)
<1>1. /\ Len(q) \in Nat /\ DOMAIN q = 1 .. Len(q) /\ k \in Nat
      /\ k + 1 \in 1 .. Len(q) /\ k \in 0 .. Len(q)
      /\ (k + 1) + 1 = k + 2 /\ k + 2 \in 1 .. Len(q) + 1
  BY LenProperties
<1>2. q[k + 1] \in Expert
  BY <1>1, ElementOfSeq
<1>3. ~ \E j \in 1 .. k : q[j] = q[k + 1]
  <2> SUFFICES ASSUME NEW j \in 1 .. k, q[j] = q[k + 1] PROVE FALSE
    OBVIOUS
  <2>1. j \in DOMAIN q /\ k + 1 \in DOMAIN q
    BY <1>1
  <2>2. j = k + 1
    BY <2>1 DEF IsInjective
  <2> QED
    BY <1>1, <2>2
<1>4. Aged(l, pass, q, freq, k)[q[k + 1]] = freq[q[k + 1]]
  BY <1>2, <1>3 DEF Aged
<1>5. /\ Head(Around(q, k + 1, k)) = q[k + 1]
      /\ Tail(Around(q, k + 1, k)) = Around(q, (k + 1) + 1, k)
  BY <1>1, AroundTail
<1>6. Append(Around(q, k + 2, k), q[k + 1]) = Around(q, k + 2, k + 1)
  BY <1>1, AroundAppend
<1> QED
  BY <1>1, <1>2, <1>4, <1>5, <1>6 DEF AtFront

LEMMA LookedSkips ==
  ASSUME NEW l, NEW pass, NEW q \in Seq(Expert), IsInjective(q),
         NEW freq \in [Expert -> Nat], NEW k \in 0 .. Len(q) - 1,
         ~ Taken(l, pass, freq, q[k + 1])
  PROVE  Looked(l, pass, Skipped(l, pass, q, freq, k)) = Skipped(l, pass, q, freq, k + 1)
<1>0. AtFront(l, pass, q, freq, k)
  BY NextIsNew
<1> DEFINE s == Skipped(l, pass, q, freq, k)
           e == q[k + 1]
           back == Around(q, (k + 1) + 1, k + 1)
           aged == Aged(l, pass, q, freq, k)
           next == Aged(l, pass, q, freq, k + 1)
<1>1. /\ e \in Expert /\ aged[e] = freq[e]
      /\ Head(Around(q, k + 1, k)) = e
      /\ Append(Tail(Around(q, k + 1, k)), e) = back
  BY <1>0 DEF AtFront
<1>2. s = [q |-> Around(q, k + 1, k), freq |-> aged, victim |-> Nobody]
  BY DEF Skipped
<1>3. Skipped(l, pass, q, freq, k + 1) = [q |-> back, freq |-> next, victim |-> Nobody]
  BY DEF Skipped
<1>4. /\ s.victim = Nobody /\ Head(s.q) = e /\ Append(Tail(s.q), e) = back
      /\ s.freq = aged
  BY <1>1, <1>2
<1>5. aged \in [Expert -> Int] /\ next \in [Expert -> Int]
  BY DEF Aged
<1>6. ASSUME NEW x \in Expert, x # e PROVE next[x] = aged[x]
  <2>1. (\E j \in 1 .. k + 1 : q[j] = x) <=> (\E j \in 1 .. k : q[j] = x)
    <3>1. \A j \in 1 .. k + 1 : j \in 1 .. k \/ j = k + 1
      OBVIOUS
    <3>2. 1 .. k \subseteq 1 .. k + 1
      OBVIOUS
    <3> QED
      BY <1>6, <3>1, <3>2
  <2> QED
    BY <2>1 DEF Aged
<1>7. \E j \in 1 .. k + 1 : q[j] = e
  <2>1. k + 1 \in 1 .. k + 1
    OBVIOUS
  <2> QED
    BY <2>1
<1>8. next[e] = IF pass = 1 /\ Idle(l, e) /\ freq[e] > 1 THEN freq[e] - 1 ELSE freq[e]
  BY <1>1, <1>7 DEF Aged
<1>9. Looked(l, pass, s) =
        IF ~Idle(l, e) THEN [s EXCEPT !.q = back]
        ELSE IF pass = 1 /\ s.freq[e] > 1 THEN [s EXCEPT !.q = back, !.freq[e] = @ - 1]
        ELSE [s EXCEPT !.q = Tail(s.q), !.victim = e]
  BY <1>4 DEF Looked
<1> HIDE DEF s, e, back, aged, next
<1>10. CASE ~Idle(l, e)
  <2>1. \A x \in Expert : next[x] = aged[x]
    BY <1>1, <1>6, <1>8, <1>10
  <2>2. next = aged
    BY <1>5, <2>1
  <2>3. Looked(l, pass, s) = [s EXCEPT !.q = back]
    BY <1>9, <1>10
  <2> QED
    BY <1>2, <1>3, <2>2, <2>3 DEF s
<1>11. CASE Idle(l, e)
  <2>1. pass = 1 /\ freq[e] > 1
    BY <1>11 DEF Taken, e
  <2>2. next = [aged EXCEPT ![e] = aged[e] - 1]
    <3>1. next[e] = aged[e] - 1
      BY <1>1, <1>8, <1>11, <2>1
    <3> QED
      BY <1>1, <1>5, <1>6, <3>1
  <2>3. Looked(l, pass, s) = [s EXCEPT !.q = back, !.freq[e] = @ - 1]
    BY <1>1, <1>4, <1>9, <1>11, <2>1
  <2>4. [s EXCEPT !.q = back, !.freq[e] = @ - 1]
          = [q |-> back, freq |-> [aged EXCEPT ![e] = aged[e] - 1], victim |-> Nobody]
    <3> DEFINE turned == [s EXCEPT !.q = back]
               down == [aged EXCEPT ![e] = aged[e] - 1]
    <3>1. turned = [q |-> back, freq |-> aged, victim |-> Nobody]
      BY <1>2
    <3>2. [s EXCEPT !.q = back, !.freq[e] = @ - 1] = [turned EXCEPT !.freq = down]
      BY <1>2, <3>1
    <3> HIDE DEF turned, down
    <3>3. [turned EXCEPT !.freq = down] = [q |-> back, freq |-> down, victim |-> Nobody]
      BY <3>1
    <3> QED
      BY <3>2, <3>3 DEF down
  <2> QED
    BY <1>3, <2>2, <2>3, <2>4 DEF s
<1> QED
  BY <1>10, <1>11

LEMMA LookedFinds ==
  ASSUME NEW l, NEW pass, NEW q \in Seq(Expert), IsInjective(q),
         NEW freq \in [Expert -> Nat], NEW i \in 1 .. Len(q),
         Taken(l, pass, freq, q[i])
  PROVE  Looked(l, pass, Skipped(l, pass, q, freq, i - 1)) = Found(l, pass, q, freq, i)
<1> DEFINE k == i - 1
           s == Skipped(l, pass, q, freq, k)
           aged == Aged(l, pass, q, freq, k)
<1>1. k \in 0 .. Len(q) - 1 /\ k + 1 = i /\ k + 2 = i + 1
  BY LenProperties
<1>2. s = [q |-> Around(q, k + 1, k), freq |-> aged, victim |-> Nobody]
  BY DEF Skipped
<1>3. Found(l, pass, q, freq, i)
        = [q |-> Around(q, i + 1, k), freq |-> aged, victim |-> q[i]]
  BY DEF Found
<1> HIDE DEF k, s, aged
<1>4. /\ q[k + 1] \in Expert /\ Aged(l, pass, q, freq, k)[q[k + 1]] = freq[q[k + 1]]
      /\ Head(Around(q, k + 1, k)) = q[k + 1]
      /\ Tail(Around(q, k + 1, k)) = Around(q, k + 2, k)
  <2>1. AtFront(l, pass, q, freq, k)
    BY <1>1, NextIsNew
  <2> QED
    BY <2>1 DEF AtFront
<1>5. /\ s.victim = Nobody /\ s.freq[q[i]] = freq[q[i]] /\ Head(s.q) = q[i]
      /\ Tail(s.q) = Around(q, i + 1, k)
  <2>1. aged[q[i]] = freq[q[i]]
    BY <1>1, <1>4 DEF aged
  <2> QED
    BY <1>1, <1>2, <1>4, <2>1
<1>6. Looked(l, pass, s) = [s EXCEPT !.q = Tail(s.q), !.victim = q[i]]
  BY <1>5 DEF Looked, Taken
<1>7. Looked(l, pass, s) = [q |-> Around(q, i + 1, k), freq |-> aged, victim |-> q[i]]
  BY <1>2, <1>5, <1>6
<1> QED
  BY <1>3, <1>7 DEF s, k

LEMMA LookedStays ==
  ASSUME NEW l, NEW pass, NEW q \in Seq(Expert), NEW freq, NEW i \in 1 .. Len(q)
  PROVE  Looked(l, pass, Found(l, pass, q, freq, i)) = Found(l, pass, q, freq, i)
<1>1. q[i] # Nobody
  BY ElementOfSeq, NobodyAssumption
<1> QED
  BY <1>1 DEF Looked, Found

\* Any function that starts and goes on as the loop does is the loop.
RunsAs(l, pass, q, freq, g) ==
    g = [n \in 0 .. Len(q) |->
            IF n = 0 THEN [q |-> q, freq |-> freq, victim |-> Nobody]
                     ELSE Looked(l, pass, g[n - 1])]

LEMMA ScanLoopIs ==
  ASSUME NEW l, NEW pass, NEW q \in Seq(Expert), NEW freq, NEW g,
         RunsAs(l, pass, q, freq, g)
  PROVE  ScanLoop(l, pass, q, freq) = g[Len(q)]
<1> DEFINE start == [q |-> q, freq |-> freq, victim |-> Nobody]
           IsLoop(h) == h = [n \in 0 .. Len(q) |->
                              IF n = 0 THEN start ELSE Looked(l, pass, h[n - 1])]
           h == CHOOSE x : IsLoop(x)
<1>1. IsLoop(g)
  BY DEF RunsAs
<1>2. IsLoop(h)
  BY <1>1
<1>3. ScanLoop(l, pass, q, freq) = h[Len(q)]
  BY DEF ScanLoop
<1> HIDE DEF h, start
<1>4. Len(q) \in Nat
  BY LenProperties
<1> DEFINE U == {n \in 0 .. Len(q) : h[n] = g[n]}
<1>5. 0 \in U
  BY <1>1, <1>2, <1>4
<1>6. ASSUME NEW n \in 0 .. Len(q) - 1, n \in U PROVE n + 1 \in U
  <2>1. n + 1 \in 0 .. Len(q) /\ n + 1 # 0 /\ (n + 1) - 1 = n
    BY <1>4
  <2>2. h[n + 1] = Looked(l, pass, h[n]) /\ g[n + 1] = Looked(l, pass, g[n])
    BY <1>1, <1>2, <2>1
  <2> QED
    BY <1>6, <2>1, <2>2
<1> HIDE DEF U, IsLoop
<1>7. 0 .. Len(q) \subseteq U
  <2>1. \A n \in 0 .. Len(q) - 1 : n \in U => n + 1 \in U
    BY <1>6
  <2> QED
    BY <1>4, <1>5, <2>1, UpTo
<1>8. Len(q) \in 0 .. Len(q)
  BY <1>4
<1> QED
  BY <1>3, <1>7, <1>8 DEF U

LEMMA SkippedNone ==
  ASSUME NEW l, NEW pass, NEW q \in Seq(Expert), NEW freq \in [Expert -> Nat]
  PROVE  Skipped(l, pass, q, freq, 0) = [q |-> q, freq |-> freq, victim |-> Nobody]
<1>1. Around(q, 0 + 1, 0) = q
  BY AroundEnds
<1>2. Aged(l, pass, q, freq, 0) = freq
  BY DEF Aged
<1> QED
  BY <1>1, <1>2 DEF Skipped

\* Without an entry to take, the queue comes round to what it was.
LEMMA ScanSkipsAll ==
  ASSUME NEW l, NEW pass, NEW q \in Seq(Expert), IsInjective(q),
         NEW freq \in [Expert -> Nat],
         \A j \in 1 .. Len(q) : ~ Taken(l, pass, freq, q[j])
  PROVE  ScanLoop(l, pass, q, freq)
           = [q |-> q, freq |-> Aged(l, pass, q, freq, Len(q)), victim |-> Nobody]
<1> DEFINE g == [n \in 0 .. Len(q) |-> Skipped(l, pass, q, freq, n)]
<1>1. Len(q) \in Nat
  BY LenProperties
<1>2. ASSUME NEW n \in 0 .. Len(q)
      PROVE  g[n] = IF n = 0 THEN [q |-> q, freq |-> freq, victim |-> Nobody]
                             ELSE Looked(l, pass, g[n - 1])
  <2>1. CASE n = 0
    BY <1>1, <2>1, SkippedNone
  <2>2. CASE n # 0
    <3>1. n - 1 \in 0 .. Len(q) - 1 /\ (n - 1) + 1 = n /\ n \in 1 .. Len(q)
          /\ n - 1 \in 0 .. Len(q)
      BY <1>1, <2>2
    <3>2. ~ Taken(l, pass, freq, q[(n - 1) + 1])
      BY <3>1
    <3>3. Looked(l, pass, Skipped(l, pass, q, freq, n - 1))
            = Skipped(l, pass, q, freq, (n - 1) + 1)
      BY <3>1, <3>2, LookedSkips
    <3> QED
      BY <2>2, <3>1, <3>3
  <2> QED
    BY <2>1, <2>2
<1>3. RunsAs(l, pass, q, freq, g)
  BY <1>2 DEF RunsAs
<1>4. g[Len(q)] = Skipped(l, pass, q, freq, Len(q))
  BY <1>1
<1> HIDE DEF g
<1>5. ScanLoop(l, pass, q, freq) = g[Len(q)]
  BY <1>3, ScanLoopIs
<1>6. Around(q, Len(q) + 1, Len(q)) = q
  BY AroundEnds
<1> QED
  BY <1>4, <1>5, <1>6 DEF Skipped

\* The first entry to take is the victim.
LEMMA ScanFinds ==
  ASSUME NEW l, NEW pass, NEW q \in Seq(Expert), IsInjective(q),
         NEW freq \in [Expert -> Nat], NEW i \in 1 .. Len(q),
         Taken(l, pass, freq, q[i]),
         \A j \in 1 .. i - 1 : ~ Taken(l, pass, freq, q[j])
  PROVE  ScanLoop(l, pass, q, freq) = Found(l, pass, q, freq, i)
<1> DEFINE g == [n \in 0 .. Len(q) |-> IF n < i THEN Skipped(l, pass, q, freq, n)
                                       ELSE Found(l, pass, q, freq, i)]
<1>1. Len(q) \in Nat /\ i \in Nat /\ i <= Len(q) /\ 0 < i
  BY LenProperties
<1>2. ASSUME NEW n \in 0 .. Len(q)
      PROVE  g[n] = IF n = 0 THEN [q |-> q, freq |-> freq, victim |-> Nobody]
                             ELSE Looked(l, pass, g[n - 1])
  <2>1. CASE n = 0
    BY <1>1, <2>1, SkippedNone
  <2>2. CASE n # 0 /\ n < i
    <3>1. n - 1 \in 0 .. Len(q) - 1 /\ (n - 1) + 1 = n /\ n \in 1 .. i - 1
          /\ n - 1 \in 0 .. Len(q) /\ n - 1 < i
      BY <1>1, <2>2
    <3>2. ~ Taken(l, pass, freq, q[(n - 1) + 1])
      BY <3>1
    <3>3. Looked(l, pass, Skipped(l, pass, q, freq, n - 1))
            = Skipped(l, pass, q, freq, (n - 1) + 1)
      BY <3>1, <3>2, LookedSkips
    <3> QED
      BY <2>2, <3>1, <3>3
  <2>3. CASE n = i
    <3>1. n - 1 \in 0 .. Len(q) /\ n - 1 < i /\ ~ (n < i) /\ n # 0
      BY <1>1, <2>3
    <3>2. Looked(l, pass, Skipped(l, pass, q, freq, n - 1)) = Found(l, pass, q, freq, i)
      BY <2>3, LookedFinds
    <3> QED
      BY <3>1, <3>2
  <2>4. CASE n > i
    <3>1. n - 1 \in 0 .. Len(q) /\ ~ (n - 1 < i) /\ ~ (n < i) /\ n # 0
      BY <1>1, <2>4
    <3>2. Looked(l, pass, Found(l, pass, q, freq, i)) = Found(l, pass, q, freq, i)
      BY LookedStays
    <3> QED
      BY <3>1, <3>2
  <2> QED
    BY <1>1, <2>1, <2>2, <2>3, <2>4
<1>3. RunsAs(l, pass, q, freq, g)
  BY <1>2 DEF RunsAs
<1>4. g[Len(q)] = Found(l, pass, q, freq, i)
  BY <1>1
<1> HIDE DEF g
<1>5. ScanLoop(l, pass, q, freq) = g[Len(q)]
  BY <1>3, ScanLoopIs
<1> QED
  BY <1>4, <1>5
-----------------------------------------------------------------------------
(* The three passes, and the closed form of ExpertCache.                   *)

FreqOf(l) == [e \in Expert |-> ent[l][e].freq]

\* What the outer loop's result must be for an eviction, and without one.
ScanEvicts(l) ==
    /\ EvictLoop(l).victim = Victim(l)
    /\ EvictLoop(l).small = LayerAfterEviction(l, lay[l]).small
    /\ EvictLoop(l).main = LayerAfterEviction(l, lay[l]).main
    /\ \A e \in Expert \ {EvictLoop(l).victim} :
          EvictLoop(l).freq[e] = EntriesAfterEviction(l)[e].freq

ScanMovesNothing(l) ==
    /\ EvictLoop(l).victim = Nobody
    /\ EvictLoop(l).small = lay[l].small /\ EvictLoop(l).main = lay[l].main
    /\ \A e \in Expert : EvictLoop(l).freq[e] = ent[l][e].freq

\* The queues and frequencies of a layer, as the scans find them.
LEMMA ScanInputs ==
  ASSUME NEW l \in Layer, LayerOk(ent[l], lay[l])
  PROVE  /\ lay[l].small \in Seq(Expert) /\ IsInjective(lay[l].small)
         /\ lay[l].main \in Seq(Expert) /\ IsInjective(lay[l].main)
         /\ FreqOf(l) \in [Expert -> Nat]
         /\ \A e \in Expert : FreqOf(l)[e] = ent[l][e].freq
         /\ \A e \in Expert : ent[l][e] \in Entry
<1>1. /\ lay[l].small \in Seq(Expert) /\ IsInjective(lay[l].small)
      /\ lay[l].main \in Seq(Expert) /\ IsInjective(lay[l].main)
  BY DEF LayerOk, Queues, Lists
<1>2. \A e \in Expert : ent[l][e] \in Entry /\ ent[l][e].freq \in Nat
  BY DEF LayerOk, Entry, FREQ_MAX
<1> QED
  BY <1>1, <1>2 DEF FreqOf

\* SMALL has an idle entry: pass 0 ends the loops.
LEMMA ScanOfSmall ==
  ASSUME NEW l \in Layer, LayerOk(ent[l], lay[l]), TakesSmall(l)
  PROVE  CanEvict(l) /\ ScanEvicts(l)
<1> DEFINE q == lay[l].small
           f == FreqOf(l)
           i == VictimIndex(l)
           small0 == ScanLoop(l, 0, q, f)
<1>1. /\ q \in Seq(Expert) /\ IsInjective(q) /\ f \in [Expert -> Nat]
      /\ \A e \in Expert : f[e] = ent[l][e].freq
  BY ScanInputs
<1>2. ScannedQueue(l) = q /\ Takeable(l) = IdleIn(l, q)
  BY DEF ScannedQueue, Takeable
<1>3. CanEvict(l)
  BY <1>2 DEF CanEvict, TakesSmall
<1>4. /\ i \in 1 .. Len(q) /\ q[i] \in IdleIn(l, q)
      /\ \A j \in 1 .. i - 1 : q[j] \notin IdleIn(l, q)
  BY <1>2, <1>3, VictimScan
<1>5. Victim(l) = q[i]
  BY <1>2 DEF Victim
<1>6. /\ LayerAfterEviction(l, lay[l]).small = Around(q, i + 1, i - 1)
      /\ LayerAfterEviction(l, lay[l]).main = lay[l].main
  <2>1. QueueWithoutVictim(l) = Around(q, i + 1, i - 1)
    BY <1>2 DEF QueueWithoutVictim, Around
  <2>2. lay[l] \in Queues
    BY DEF LayerOk
  <2> QED
    BY <2>1, <2>2 DEF LayerAfterEviction, Queues
<1>7. small0.victim # Nobody =>
        EvictLoop(l) = [small |-> small0.q, main |-> lay[l].main,
                        freq |-> small0.freq, victim |-> small0.victim]
  BY DEF EvictLoop, FreqOf
<1> HIDE DEF q, f, i
<1>8. \A j \in 1 .. Len(q) : q[j] \in Expert /\ q[j] \in ToSet(q)
  BY <1>1, QueueSet
<1>9. /\ Taken(l, 0, f, q[i])
      /\ \A j \in 1 .. i - 1 : ~ Taken(l, 0, f, q[j])
  <2>1. \A j \in 1 .. i - 1 : j \in 1 .. Len(q)
    BY <1>1, <1>4, LenProperties
  <2> QED
    BY <1>4, <1>8, <2>1 DEF Taken, IdleIn
<1>10. small0 = Found(l, 0, q, f, i)
  BY <1>1, <1>4, <1>9, ScanFinds
<1>11. Aged(l, 0, q, f, i - 1) = f
  BY <1>1 DEF Aged
<1>12. small0 = [q |-> Around(q, i + 1, i - 1), freq |-> f, victim |-> q[i]]
  BY <1>10, <1>11 DEF Found
<1> HIDE DEF small0
<1>13. q[i] \in Expert /\ q[i] # Nobody
  BY <1>4, <1>8, NobodyAssumption
<1>14. EvictLoop(l) = [small |-> Around(q, i + 1, i - 1), main |-> lay[l].main,
                       freq |-> f, victim |-> q[i]]
  BY <1>7, <1>12, <1>13
<1>15. \A e \in Expert \ {q[i]} : EntriesAfterEviction(l)[e].freq = f[e]
  <2>1. Reinserted(l) = {}
    BY DEF Reinserted
  <2> QED
    BY <1>1, <1>5, <2>1 DEF EntriesAfterEviction
<1> QED
  BY <1>3, <1>5, <1>6, <1>14, <1>15 DEF ScanEvicts

\* Otherwise it turns SMALL once round, and MAIN is scanned.
LEMMA ScanReachesMain ==
  ASSUME NEW l \in Layer, LayerOk(ent[l], lay[l]), ~ TakesSmall(l)
  PROVE  LET main1 == ScanLoop(l, 1, lay[l].main, FreqOf(l))
             main2 == ScanLoop(l, 2, main1.q, main1.freq)
             main == IF main1.victim # Nobody THEN main1 ELSE main2
         IN  EvictLoop(l) = [small |-> lay[l].small, main |-> main.q,
                             freq |-> main.freq, victim |-> main.victim]
<1> DEFINE q == lay[l].small
           f == FreqOf(l)
           small0 == ScanLoop(l, 0, q, f)
<1>1. /\ q \in Seq(Expert) /\ IsInjective(q) /\ f \in [Expert -> Nat]
  BY ScanInputs
<1>2. \A j \in 1 .. Len(q) : ~ Taken(l, 0, f, q[j])
  <2>1. \A j \in 1 .. Len(q) : q[j] \in ToSet(q)
    BY <1>1, QueueSet
  <2> QED
    BY <2>1 DEF Taken, TakesSmall, IdleIn
<1>3. small0 = [q |-> q, freq |-> Aged(l, 0, q, f, Len(q)), victim |-> Nobody]
  BY <1>1, <1>2, ScanSkipsAll
<1>4. small0.q = q /\ small0.victim = Nobody
  BY <1>3
<1> HIDE DEF small0
<1> QED
  BY <1>4 DEF EvictLoop, FreqOf, small0

\* Pass 1 stops at an idle entry that is cold.
LEMMA ScanOfCold ==
  ASSUME NEW l \in Layer, LayerOk(ent[l], lay[l]), ~ TakesSmall(l), CanEvict(l),
         NEW x \in IdleIn(l, lay[l].main), Cold(l, x)
  PROVE  ScanEvicts(l)
<1> DEFINE q == lay[l].main
           f == FreqOf(l)
           i == VictimIndex(l)
           main1 == ScanLoop(l, 1, q, f)
           main2 == ScanLoop(l, 2, main1.q, main1.freq)
           main == IF main1.victim # Nobody THEN main1 ELSE main2
<1>1. /\ q \in Seq(Expert) /\ IsInjective(q) /\ f \in [Expert -> Nat]
      /\ \A e \in Expert : f[e] = ent[l][e].freq
  BY ScanInputs
<1>2. /\ ScannedQueue(l) = q
      /\ Takeable(l) = {e \in IdleIn(l, q) : Cold(l, e)}
  BY DEF ScannedQueue, Takeable
<1>3. /\ i \in 1 .. Len(q) /\ q[i] \in Takeable(l)
      /\ \A j \in 1 .. i - 1 : q[j] \notin Takeable(l)
  BY <1>2, VictimScan
<1>4. Victim(l) = q[i]
  BY <1>2 DEF Victim
<1>5. /\ LayerAfterEviction(l, lay[l]).small = lay[l].small
      /\ LayerAfterEviction(l, lay[l]).main = Around(q, i + 1, i - 1)
  <2>1. QueueWithoutVictim(l) = Around(q, i + 1, i - 1)
    BY <1>2 DEF QueueWithoutVictim, Around
  <2>2. lay[l] \in Queues
    BY DEF LayerOk
  <2> QED
    BY <2>1, <2>2 DEF LayerAfterEviction, Queues
<1>6. EvictLoop(l) = [small |-> lay[l].small, main |-> main.q,
                      freq |-> main.freq, victim |-> main.victim]
  BY ScanReachesMain
<1>7. \A e \in Reinserted(l) : e \in Expert
  BY <1>1, QueueSet DEF Reinserted, IdleIn
<1>8. Reinserted(l) = {e \in IdleIn(l, q) : ~Cold(l, e) /\ \E j \in 1 .. i - 1 : q[j] = e}
  BY <1>2 DEF Reinserted
<1> HIDE DEF q, f, i
<1>9. /\ \A j \in 1 .. Len(q) : q[j] \in Expert /\ q[j] \in ToSet(q)
      /\ Len(q) \in Nat
  BY <1>1, QueueSet
<1>10. \A e \in Expert : Cold(l, e) <=> ~ (f[e] > 1)
  BY <1>1 DEF Cold
<1>11. \A j \in 1 .. Len(q) : Taken(l, 1, f, q[j]) <=> q[j] \in Takeable(l)
  BY <1>2, <1>9, <1>10 DEF Taken, IdleIn
<1>12. \A j \in 1 .. i - 1 : j \in 1 .. Len(q)
  BY <1>3, <1>9
<1>13. main1 = Found(l, 1, q, f, i)
  <2>1. /\ Taken(l, 1, f, q[i])
        /\ \A j \in 1 .. i - 1 : ~ Taken(l, 1, f, q[j])
    BY <1>3, <1>11, <1>12
  <2> QED
    BY <1>1, <1>3, <2>1, ScanFinds
<1> DEFINE aged == Aged(l, 1, q, f, i - 1)
<1>14. main1 = [q |-> Around(q, i + 1, i - 1), freq |-> aged, victim |-> q[i]]
  BY <1>13 DEF Found
<1> HIDE DEF main1, main2, aged
<1>15. q[i] \in Expert /\ q[i] # Nobody
  BY <1>3, <1>9, NobodyAssumption
<1>16. EvictLoop(l) = [small |-> lay[l].small, main |-> Around(q, i + 1, i - 1),
                       freq |-> aged, victim |-> q[i]]
  BY <1>6, <1>14, <1>15
<1>17. ASSUME NEW e \in Expert, e # q[i]
       PROVE  aged[e] = EntriesAfterEviction(l)[e].freq
  <2>1. ent[l][e] \in Entry
    BY ScanInputs
  <2>2. EntriesAfterEviction(l)[e].freq
          = IF e \in Reinserted(l) THEN ent[l][e].freq - 1 ELSE ent[l][e].freq
    BY <1>4, <1>17, <2>1 DEF EntriesAfterEviction, Entry
  <2>3. e \in Reinserted(l)
          <=> Idle(l, e) /\ f[e] > 1 /\ \E j \in 1 .. i - 1 : q[j] = e
    BY <1>8, <1>9, <1>10, <1>12 DEF IdleIn
  <2>4. aged[e] = IF Idle(l, e) /\ f[e] > 1 /\ \E j \in 1 .. i - 1 : q[j] = e
                    THEN f[e] - 1 ELSE f[e]
    BY DEF aged, Aged
  <2> QED
    BY <1>1, <2>2, <2>3, <2>4
<1> QED
  BY <1>4, <1>5, <1>16, <1>17 DEF ScanEvicts, q, i

\* Without a cold one pass 1 ages every idle entry and turns MAIN once round.
LEMMA ScanAgesMain ==
  ASSUME NEW l \in Layer, LayerOk(ent[l], lay[l]), ~ TakesSmall(l),
         \A x \in IdleIn(l, lay[l].main) : ~ Cold(l, x)
  PROVE  LET q == lay[l].main
             aged == Aged(l, 1, q, FreqOf(l), Len(q))
             main2 == ScanLoop(l, 2, q, aged)
         IN  /\ EvictLoop(l) = [small |-> lay[l].small, main |-> main2.q,
                                freq |-> main2.freq, victim |-> main2.victim]
             /\ aged \in [Expert -> Nat]
             /\ \A e \in Expert :
                  aged[e] = IF e \in IdleIn(l, q) THEN ent[l][e].freq - 1
                                                  ELSE ent[l][e].freq
<1> DEFINE q == lay[l].main
           f == FreqOf(l)
           aged == Aged(l, 1, q, f, Len(q))
           main1 == ScanLoop(l, 1, q, f)
           main2 == ScanLoop(l, 2, main1.q, main1.freq)
           main == IF main1.victim # Nobody THEN main1 ELSE main2
<1>1. /\ q \in Seq(Expert) /\ IsInjective(q) /\ f \in [Expert -> Nat]
      /\ \A e \in Expert : f[e] = ent[l][e].freq
  BY ScanInputs
<1>2. EvictLoop(l) = [small |-> lay[l].small, main |-> main.q,
                      freq |-> main.freq, victim |-> main.victim]
  BY ScanReachesMain
<1>3. \A x \in IdleIn(l, q) : ~ Cold(l, x)
  OBVIOUS
<1> HIDE DEF q, f
<1>4. /\ \A j \in 1 .. Len(q) : q[j] \in Expert /\ q[j] \in ToSet(q)
      /\ \A e \in ToSet(q) : \E j \in 1 .. Len(q) : q[j] = e
  BY <1>1, QueueSet
<1>5. \A e \in Expert : Cold(l, e) <=> ~ (f[e] > 1)
  BY <1>1 DEF Cold
<1>6. \A j \in 1 .. Len(q) : ~ Taken(l, 1, f, q[j])
  BY <1>3, <1>4, <1>5 DEF Taken, IdleIn
<1>7. main1 = [q |-> q, freq |-> aged, victim |-> Nobody]
  BY <1>1, <1>6, ScanSkipsAll
<1>8. main1.q = q /\ main1.freq = aged /\ main1.victim = Nobody
  BY <1>7
<1>9. main = ScanLoop(l, 2, q, aged)
  BY <1>8
<1>10. ASSUME NEW e \in Expert
       PROVE  /\ aged[e] = IF e \in IdleIn(l, q) THEN ent[l][e].freq - 1
                                                 ELSE ent[l][e].freq
              /\ aged[e] \in Nat
  <2>1. aged[e] = IF Idle(l, e) /\ f[e] > 1 /\ \E j \in 1 .. Len(q) : q[j] = e
                    THEN f[e] - 1 ELSE f[e]
    BY DEF Aged
  <2>2. (\E j \in 1 .. Len(q) : q[j] = e) <=> e \in ToSet(q)
    BY <1>4
  <2>3. Idle(l, e) /\ f[e] > 1 /\ e \in ToSet(q) <=> e \in IdleIn(l, q)
    BY <1>3, <1>5 DEF IdleIn
  <2>4. f[e] \in Nat
    BY <1>1
  <2> HIDE DEF aged
  <2>5. CASE e \in IdleIn(l, q)
    <3>1. aged[e] = f[e] - 1 /\ f[e] > 1
      BY <2>1, <2>2, <2>3, <2>5
    <3> QED
      BY <1>1, <2>4, <2>5, <3>1
  <2>6. CASE e \notin IdleIn(l, q)
    <3>1. aged[e] = f[e]
      BY <2>1, <2>2, <2>3, <2>6
    <3> QED
      BY <1>1, <2>4, <2>6, <3>1
  <2> QED
    BY <2>5, <2>6
<1>11. aged \in [Expert -> Nat]
  BY <1>10 DEF Aged
<1> HIDE DEF main, aged
<1> QED
  BY <1>2, <1>9, <1>10, <1>11 DEF q, f, aged

\* Pass 2 then stops at the first idle entry.
LEMMA ScanOfWarm ==
  ASSUME NEW l \in Layer, LayerOk(ent[l], lay[l]), ~ TakesSmall(l), CanEvict(l),
         \A x \in IdleIn(l, lay[l].main) : ~ Cold(l, x)
  PROVE  ScanEvicts(l)
<1> DEFINE q == lay[l].main
           i == VictimIndex(l)
           aged == Aged(l, 1, q, FreqOf(l), Len(q))
           main2 == ScanLoop(l, 2, q, aged)
<1>1. q \in Seq(Expert) /\ IsInjective(q)
  BY ScanInputs
<1>2. /\ ScannedQueue(l) = q
      /\ Takeable(l) = IdleIn(l, q)
  BY DEF ScannedQueue, Takeable
<1>3. /\ i \in 1 .. Len(q) /\ q[i] \in IdleIn(l, q)
      /\ \A j \in 1 .. i - 1 : q[j] \notin IdleIn(l, q)
  BY <1>2, VictimScan
<1>4. Victim(l) = q[i]
  BY <1>2 DEF Victim
<1>5. /\ LayerAfterEviction(l, lay[l]).small = lay[l].small
      /\ LayerAfterEviction(l, lay[l]).main = Around(q, i + 1, i - 1)
  <2>1. QueueWithoutVictim(l) = Around(q, i + 1, i - 1)
    BY <1>2 DEF QueueWithoutVictim, Around
  <2>2. lay[l] \in Queues
    BY DEF LayerOk
  <2> QED
    BY <2>1, <2>2 DEF LayerAfterEviction, Queues
<1>6. Reinserted(l) = IdleIn(l, q)
  BY <1>2 DEF Reinserted
<1>7. /\ EvictLoop(l) = [small |-> lay[l].small, main |-> main2.q,
                         freq |-> main2.freq, victim |-> main2.victim]
      /\ aged \in [Expert -> Nat]
      /\ \A e \in Expert : aged[e] = IF e \in IdleIn(l, q) THEN ent[l][e].freq - 1
                                                           ELSE ent[l][e].freq
  BY ScanAgesMain
<1> HIDE DEF q, i, aged
<1>8. /\ \A j \in 1 .. Len(q) : q[j] \in Expert /\ q[j] \in ToSet(q)
      /\ Len(q) \in Nat
  BY <1>1, QueueSet
<1>9. \A j \in 1 .. i - 1 : j \in 1 .. Len(q)
  BY <1>3, <1>8
<1>10. \A j \in 1 .. Len(q) : Taken(l, 2, aged, q[j]) <=> q[j] \in IdleIn(l, q)
  BY <1>8 DEF Taken, IdleIn
<1>11. main2 = Found(l, 2, q, aged, i)
  <2>1. /\ Taken(l, 2, aged, q[i])
        /\ \A j \in 1 .. i - 1 : ~ Taken(l, 2, aged, q[j])
    BY <1>3, <1>9, <1>10
  <2> QED
    BY <1>1, <1>3, <1>7, <2>1, ScanFinds
<1>12. Aged(l, 2, q, aged, i - 1) = aged
  BY <1>7 DEF Aged
<1>13. main2 = [q |-> Around(q, i + 1, i - 1), freq |-> aged, victim |-> q[i]]
  BY <1>11, <1>12 DEF Found
<1> HIDE DEF main2
<1>14. EvictLoop(l) = [small |-> lay[l].small, main |-> Around(q, i + 1, i - 1),
                       freq |-> aged, victim |-> q[i]]
  BY <1>7, <1>13
<1>15. ASSUME NEW e \in Expert, e # q[i]
       PROVE  aged[e] = EntriesAfterEviction(l)[e].freq
  <2>1. ent[l][e] \in Entry
    BY ScanInputs
  <2>2. EntriesAfterEviction(l)[e].freq
          = IF e \in Reinserted(l) THEN ent[l][e].freq - 1 ELSE ent[l][e].freq
    BY <1>4, <1>15, <2>1 DEF EntriesAfterEviction, Entry
  <2> QED
    BY <1>6, <1>7, <2>2
<1> QED
  BY <1>4, <1>5, <1>14, <1>15 DEF ScanEvicts, q, i

\* With every entry of both queues in use, three rounds change nothing.
LEMMA ScanOfNone ==
  ASSUME NEW l \in Layer, LayerOk(ent[l], lay[l]), ~ CanEvict(l)
  PROVE  ScanMovesNothing(l)
<1> DEFINE q == lay[l].main
           aged == Aged(l, 1, q, FreqOf(l), Len(q))
           main2 == ScanLoop(l, 2, q, aged)
<1>1. ~ TakesSmall(l) /\ IdleIn(l, q) = {}
  <2>1. ~ TakesSmall(l)
    BY DEF CanEvict, Takeable, TakesSmall, ScannedQueue
  <2> QED
    BY <2>1 DEF CanEvict, Takeable, ScannedQueue
<1>2. q \in Seq(Expert) /\ IsInjective(q)
  BY ScanInputs
<1>3. /\ EvictLoop(l) = [small |-> lay[l].small, main |-> main2.q,
                         freq |-> main2.freq, victim |-> main2.victim]
      /\ aged \in [Expert -> Nat]
      /\ \A e \in Expert : aged[e] = IF e \in IdleIn(l, q) THEN ent[l][e].freq - 1
                                                           ELSE ent[l][e].freq
  BY <1>1, ScanAgesMain
<1> HIDE DEF q, aged
<1>4. \A j \in 1 .. Len(q) : ~ Taken(l, 2, aged, q[j])
  <2>1. \A j \in 1 .. Len(q) : q[j] \in ToSet(q)
    BY <1>2, QueueSet
  <2> QED
    BY <1>1, <2>1 DEF Taken, IdleIn
<1>5. main2 = [q |-> q, freq |-> Aged(l, 2, q, aged, Len(q)), victim |-> Nobody]
  BY <1>2, <1>3, <1>4, ScanSkipsAll
<1>6. Aged(l, 2, q, aged, Len(q)) = aged
  BY <1>3 DEF Aged
<1> HIDE DEF main2
<1>7. EvictLoop(l) = [small |-> lay[l].small, main |-> q, freq |-> aged,
                      victim |-> Nobody]
  BY <1>3, <1>5, <1>6
<1> QED
  BY <1>1, <1>3, <1>7 DEF ScanMovesNothing, q

LEMMA ScanMatches ==
  ASSUME NEW l \in Layer, LayerOk(ent[l], lay[l])
  PROVE  IF CanEvict(l) THEN ScanEvicts(l) ELSE ScanMovesNothing(l)
<1>1. CASE TakesSmall(l)
  BY <1>1, ScanOfSmall
<1>2. CASE ~ TakesSmall(l) /\ CanEvict(l)
  <2>1. CASE \E x \in IdleIn(l, lay[l].main) : Cold(l, x)
    BY <1>2, <2>1, ScanOfCold
  <2>2. CASE \A x \in IdleIn(l, lay[l].main) : ~ Cold(l, x)
    BY <1>2, <2>2, ScanOfWarm
  <2> QED
    BY <1>2, <2>1, <2>2
<1>3. CASE ~ CanEvict(l)
  BY <1>3, ScanOfNone
<1> QED
  BY <1>1, <1>2, <1>3

\* The closed form of an eviction, which the other theorems speak of, is what the
\* three passes of evict_one do, in every state and whatever the queues hold.
THEOREM ClosedFormIsTheLoops == Spec => []ScanMatchesLoops
<1>1. ASSUME IInv PROVE ScanMatchesLoops
  <2> SUFFICES ASSUME NEW l \in Layer
               PROVE  IF CanEvict(l) THEN ScanEvicts(l) ELSE ScanMovesNothing(l)
    BY DEF ScanMatchesLoops, ScanEvicts, ScanMovesNothing
  <2>1. LayerOk(ent[l], lay[l])
    BY <1>1 DEF IInv, CacheInv
  <2> QED
    BY <2>1, ScanMatches
<1> QED
  BY <1>1, CacheInvariant, PTL
=============================================================================
