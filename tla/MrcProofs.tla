------------------------------ MODULE MrcProofs ------------------------------
(***************************************************************************)
(* Proofs about Mrc and MrcAllocation, for any number of layers and experts*)
(* and any sequence of accesses.                                           *)
(*                                                                         *)
(* The histogram of reuse distances tells the hits of an LRU cache of every*)
(* size.  The link is where an LRU cache keeps an expert: behind exactly   *)
(* the experts touched since, so that the reuse distance is its depth.     *)
(*                                                                         *)
(* The allocation built from the histogram bounds every other.  The points *)
(* of a hull bring the most hits at a price per slot; the segments taken so*)
(* far are those above a price, the same in all layers; and what is best at*)
(* a price in every layer, with the rest of the budget sold at that price, *)
(* cannot be beaten within the budget.                                     *)
(***************************************************************************)
EXTENDS MrcAllocation, FiniteSetTheorems, SequenceTheorems, WellFoundedInduction, TLAPS
-----------------------------------------------------------------------------
(* The cache as a sequence.                                                *)

Pushed(s, e, c) ==
    LET t == <<e>> \o Without(s, e)
    IN  IF Len(t) > c THEN Front(t) ELSE t

\* Without takes out what is at position i.
LEMMA WithoutAt ==
  ASSUME NEW S, NEW s \in Seq(S), NEW i \in 1 .. Len(s),
         \A j \in 1 .. Len(s) : s[j] = s[i] => j = i
  PROVE  /\ Without(s, s[i]) \in Seq(S) /\ Len(Without(s, s[i])) = Len(s) - 1
         /\ \A k \in 1 .. Len(s) - 1 :
               Without(s, s[i])[k] = IF k < i THEN s[k] ELSE s[k + 1]
<1> DEFINE a == SubSeq(s, 1, i - 1)
           b == SubSeq(s, i + 1, Len(s))
<1>1. Len(s) \in Nat /\ DOMAIN s = 1 .. Len(s)
  BY LenProperties
<1>2. Without(s, s[i]) = a \o b
  <2>1. Contains(s, s[i])
    BY <1>1 DEF Contains
  <2>2. (CHOOSE j \in DOMAIN s : s[j] = s[i]) = i
    BY <1>1
  <2> QED
    BY <2>1, <2>2 DEF Without, RemoveAt
<1>3. /\ a \in Seq(S) /\ Len(a) = i - 1 /\ \A k \in 1 .. i - 1 : a[k] = s[k]
  <2>1. \A k \in 1 .. i - 1 : s[k] \in S
    BY <1>1, ElementOfSeq
  <2>2. /\ a \in Seq(S) /\ Len(a) = IF 1 <= i - 1 THEN (i - 1) - 1 + 1 ELSE 0
        /\ \A k \in 1 .. (i - 1) - 1 + 1 : a[k] = s[1 + k - 1]
    BY <1>1, <2>1, SubSeqProperties
  <2> HIDE DEF a
  <2> QED
    BY <1>1, <2>2
<1>4. /\ b \in Seq(S) /\ Len(b) = Len(s) - i
      /\ \A k \in 1 .. Len(s) - i : b[k] = s[i + k]
  <2>1. \A k \in i + 1 .. Len(s) : s[k] \in S
    BY <1>1, ElementOfSeq
  <2>2. /\ b \in Seq(S) /\ Len(b) = IF i + 1 <= Len(s) THEN Len(s) - (i + 1) + 1 ELSE 0
        /\ \A k \in 1 .. Len(s) - (i + 1) + 1 : b[k] = s[(i + 1) + k - 1]
    BY <1>1, <2>1, SubSeqProperties
  <2> HIDE DEF a, b
  <2>3. Len(b) = Len(s) - i
    <3>1. ASSUME NEW n \in Nat, NEW k \in 1 .. n
          PROVE  (IF k + 1 <= n THEN n - (k + 1) + 1 ELSE 0) = n - k
      OBVIOUS
    <3> QED
      BY <1>1, <2>2, <3>1
  <2>4. ASSUME NEW k \in 1 .. Len(s) - i PROVE b[k] = s[i + k]
    <3>1. k \in 1 .. Len(s) - (i + 1) + 1 /\ (i + 1) + k - 1 = i + k
      BY <1>1
    <3> QED
      BY <2>2, <3>1
  <2> QED
    BY <2>2, <2>3, <2>4
<1> HIDE DEF a, b
<1>5. /\ a \o b \in Seq(S) /\ Len(a \o b) = Len(s) - 1
      /\ \A k \in 1 .. Len(s) - 1 :
            (a \o b)[k] = IF k <= i - 1 THEN a[k] ELSE b[k - (i - 1)]
  <2>1. /\ a \o b \in Seq(S) /\ Len(a \o b) = Len(a) + Len(b)
        /\ \A k \in 1 .. Len(a) + Len(b) :
              (a \o b)[k] = IF k <= Len(a) THEN a[k] ELSE b[k - Len(a)]
    BY <1>3, <1>4, ConcatProperties
  <2>2. Len(a) + Len(b) = Len(s) - 1
    BY <1>1, <1>3, <1>4
  <2> QED
    BY <1>3, <2>1, <2>2
<1>6. ASSUME NEW k \in 1 .. Len(s) - 1
      PROVE  (a \o b)[k] = IF k < i THEN s[k] ELSE s[k + 1]
  <2>1. CASE k < i
    <3>1. k <= i - 1 /\ k \in 1 .. i - 1
      BY <1>1, <2>1
    <3> QED
      BY <1>3, <1>5, <2>1, <3>1
  <2>2. CASE ~ (k < i)
    <3>1. k - (i - 1) \in 1 .. Len(s) - i /\ i + (k - (i - 1)) = k + 1
      BY <1>1, <2>2
    <3>2. (a \o b)[k] = b[k - (i - 1)]
      BY <1>1, <1>5, <2>2
    <3>3. b[k - (i - 1)] = s[i + (k - (i - 1))]
      BY <1>4, <3>1
    <3> QED
      BY <2>2, <3>1, <3>2, <3>3
  <2> QED
    BY <2>1, <2>2
<1> QED
  BY <1>2, <1>5, <1>6

\* p is s with what was at position i in front.
MovedToFront(s, i, p) ==
    /\ p \in Seq(Expert) /\ Len(p) = Len(s)
    /\ p[1] = s[i]
    /\ \A k \in 2 .. i : p[k] = s[k - 1]
    /\ \A k \in i + 1 .. Len(s) : p[k] = s[k]

LEMMA PushedHit ==
  ASSUME NEW s \in Seq(Expert), NEW c \in Nat, Len(s) <= c, NEW i \in 1 .. Len(s),
         \A j \in 1 .. Len(s) : s[j] = s[i] => j = i
  PROVE  MovedToFront(s, i, Pushed(s, s[i], c))
<1> DEFINE w == Without(s, s[i])
           e == s[i]
<1>1. /\ w \in Seq(Expert) /\ Len(w) = Len(s) - 1 /\ Len(s) \in Nat /\ e \in Expert
      /\ \A k \in 1 .. Len(s) - 1 : w[k] = IF k < i THEN s[k] ELSE s[k + 1]
  BY WithoutAt
<1> HIDE DEF w, e
<1>2. /\ <<e>> \o w \in Seq(Expert) /\ Len(<<e>> \o w) = Len(s) /\ (<<e>> \o w)[1] = e
      /\ \A k \in 2 .. Len(s) : (<<e>> \o w)[k] = w[k - 1]
  BY <1>1
<1>3. Pushed(s, e, c) = <<e>> \o w
  BY <1>1, <1>2 DEF Pushed, w, e
<1>4. ASSUME NEW k \in 2 .. i PROVE (<<e>> \o w)[k] = s[k - 1]
  <2>1. k \in 2 .. Len(s) /\ k - 1 \in 1 .. Len(s) - 1 /\ k - 1 < i
    BY <1>1
  <2> QED
    BY <1>1, <1>2, <2>1
<1>5. ASSUME NEW k \in i + 1 .. Len(s) PROVE (<<e>> \o w)[k] = s[k]
  <2>1. k \in 2 .. Len(s) /\ k - 1 \in 1 .. Len(s) - 1 /\ ~ (k - 1 < i) /\ (k - 1) + 1 = k
    BY <1>1
  <2> QED
    BY <1>1, <1>2, <2>1
<1> QED
  BY <1>2, <1>3, <1>4, <1>5 DEF e, MovedToFront

\* p is e and then s, the last of which goes if that is more than c.
PutInFront(s, e, c, p) ==
    /\ p \in Seq(Expert)
    /\ Len(s) = c => Len(p) = c
    /\ Len(s) # c => Len(p) = Len(s) + 1
    /\ 1 \in 1 .. Len(p) => p[1] = e
    /\ \A k \in 2 .. Len(p) : p[k] = s[k - 1]

LEMMA PushedMiss ==
  ASSUME NEW s \in Seq(Expert), NEW c \in Nat, Len(s) <= c, NEW e \in Expert,
         \A j \in 1 .. Len(s) : s[j] # e
  PROVE  PutInFront(s, e, c, Pushed(s, e, c))
<1>1. Len(s) \in Nat /\ DOMAIN s = 1 .. Len(s)
  BY LenProperties
<1>2. Without(s, e) = s
  BY <1>1 DEF Without, Contains
<1> DEFINE t == <<e>> \o s
<1>3. /\ t \in Seq(Expert) /\ Len(t) = Len(s) + 1
      /\ t[1] = e /\ \A k \in 2 .. Len(s) + 1 : t[k] = s[k - 1]
  BY <1>1
<1>4. Pushed(s, e, c) = IF Len(t) > c THEN Front(t) ELSE t
  BY <1>2 DEF Pushed
<1> HIDE DEF t
<1>5. /\ Front(t) \in Seq(Expert) /\ Len(Front(t)) = Len(s)
      /\ \A k \in 1 .. Len(s) : Front(t)[k] = t[k]
  BY <1>1, <1>3 DEF Front
<1>6. CASE Len(s) = c
  <2>1. Len(t) > c
    BY <1>1, <1>3, <1>6
  <2>2. Pushed(s, e, c) = Front(t)
    BY <1>4, <2>1
  <2> QED
    BY <1>1, <1>3, <1>5, <1>6, <2>2 DEF PutInFront
<1>7. CASE Len(s) # c
  <2>1. ~ (Len(t) > c)
    <3>1. Len(s) \in Nat /\ Len(t) = Len(s) + 1
      BY <1>1, <1>3
    <3> QED
      BY <1>7, <3>1
  <2>2. Pushed(s, e, c) = t
    BY <1>4, <2>1
  <2> QED
    BY <1>3, <1>7, <2>2 DEF PutInFront
<1> QED
  BY <1>6, <1>7
-----------------------------------------------------------------------------
(* Reuse distances.                                                        *)

Later(L, x) == {y \in Expert : L[y] > L[x]}
Dist(L, x) == Cardinality(Later(L, x))

LEMMA ExpertsAreFinite == IsFiniteSet(Expert) /\ Cardinality(Expert) = NExpert
<1>1. 0 \in Int /\ NExpert - 1 \in Int /\ NExpert \in Nat \ {0}
  BY MrcAssumption
<1>2. IsFiniteSet(0 .. NExpert - 1)
  BY <1>1, FS_Interval
<1>3. Cardinality(0 .. NExpert - 1) = IF 0 > NExpert - 1 THEN 0 ELSE NExpert - 1 - 0 + 1
  BY <1>1, FS_Interval
<1> QED
  BY <1>1, <1>2, <1>3 DEF Expert

\* An expert is not touched after itself.
LEMMA DistIsADistance ==
  ASSUME NEW L \in [Expert -> Nat], NEW x \in Expert
  PROVE  Dist(L, x) \in Nat /\ Dist(L, x) < NExpert /\ IsFiniteSet(Later(L, x))
<1>1. IsFiniteSet(Expert \ {x}) /\ Cardinality(Expert \ {x}) = NExpert - 1
  BY ExpertsAreFinite, FS_RemoveElement
<1>2. Later(L, x) \subseteq Expert \ {x}
  BY DEF Later
<1>3. IsFiniteSet(Later(L, x)) /\ Cardinality(Later(L, x)) <= Cardinality(Expert \ {x})
  BY <1>1, <1>2, FS_Subset
<1>4. Cardinality(Later(L, x)) \in Nat
  BY <1>3, FS_CardinalityType
<1> QED
  BY <1>1, <1>3, <1>4, MrcAssumption DEF Dist

\* The earlier the touch, the greater the distance.
LEMMA DistOrder ==
  ASSUME NEW L \in [Expert -> Nat], NEW x \in Expert, NEW y \in Expert, L[x] <= L[y]
  PROVE  Dist(L, y) <= Dist(L, x)
<1>1. Later(L, y) \subseteq Later(L, x)
  BY DEF Later
<1>2. IsFiniteSet(Later(L, x))
  BY DistIsADistance
<1> QED
  BY <1>1, <1>2, FS_Subset DEF Dist

Touched(L, M, e, t) == M[e] = t /\ \A x \in Expert \ {e} : M[x] = L[x]

\* A touch of e moves e to the front and one place back what was before it.
LEMMA DistTouched ==
  ASSUME NEW L \in [Expert -> Nat], NEW e \in Expert, NEW t \in Nat,
         \A x \in Expert : L[x] < t,
         NEW M \in [Expert -> Nat], Touched(L, M, e, t)
  PROVE  /\ Dist(M, e) = 0
         /\ \A x \in Expert \ {e} :
               Dist(M, x) = Dist(L, x) + IF L[x] < L[e] THEN 0 ELSE 1
<1>1. M[e] = t /\ \A x \in Expert \ {e} : M[x] = L[x]
  BY DEF Touched
<1>2. Dist(M, e) = 0
  <2>1. Later(M, e) = {}
    <3> SUFFICES ASSUME NEW y \in Expert, M[y] > M[e] PROVE FALSE
      BY DEF Later
    <3> QED
      BY <1>1
  <2> QED
    BY <2>1, FS_EmptySet DEF Dist
<1>3. ASSUME NEW x \in Expert \ {e}
      PROVE  Dist(M, x) = Dist(L, x) + IF L[x] < L[e] THEN 0 ELSE 1
  <2>1. Later(M, x) = Later(L, x) \cup {e}
    <3>1. ASSUME NEW y \in Expert PROVE M[y] > M[x] <=> (L[y] > L[x] \/ y = e)
      BY <1>1
    <3> QED
      BY <3>1 DEF Later
  <2>2. IsFiniteSet(Later(L, x)) /\ Dist(L, x) \in Nat
    BY DistIsADistance
  <2>3. CASE L[x] < L[e]
    <3>1. e \in Later(L, x)
      BY <2>3 DEF Later
    <3>2. Later(M, x) = Later(L, x)
      BY <2>1, <3>1
    <3> QED
      BY <2>2, <2>3, <3>2 DEF Dist
  <2>4. CASE ~ (L[x] < L[e])
    <3>1. e \notin Later(L, x)
      <4>1. L[x] \in Nat /\ L[e] \in Nat
        OBVIOUS
      <4> QED
        BY <2>4, <4>1 DEF Later
    <3>2. Cardinality(Later(L, x) \cup {e}) = Cardinality(Later(L, x)) + 1
      BY <2>2, <3>1, FS_AddElement
    <3> QED
      BY <2>1, <2>4, <3>2 DEF Dist
  <2> QED
    BY <2>3, <2>4
<1> QED
  BY <1>2, <1>3
-----------------------------------------------------------------------------
(* What an LRU cache of c slots keeps.                                     *)

\* The cache lists the c experts touched last, each at its distance.
KeepsLatest(L, s, c) ==
    /\ s \in Seq(Expert) /\ Len(s) <= c
    /\ \A i \in 1 .. Len(s) : L[s[i]] > 0 /\ Dist(L, s[i]) = i - 1
    /\ \A x \in Expert :
          (L[x] > 0 /\ Dist(L, x) < c) => \E i \in 1 .. Len(s) : s[i] = x

LEMMA KeptOnce ==
  ASSUME NEW L \in [Expert -> Nat], NEW c \in Nat, NEW s, KeepsLatest(L, s, c),
         NEW i \in 1 .. Len(s), NEW j \in 1 .. Len(s), s[j] = s[i]
  PROVE  j = i
<1>1. Dist(L, s[i]) = i - 1 /\ Dist(L, s[j]) = j - 1
  BY DEF KeepsLatest
<1>2. i - 1 = j - 1
  BY <1>1
<1> QED
  BY <1>2

\* An access hits in a cache of c slots exactly if the distance is below c.
LEMMA HitIsNear ==
  ASSUME NEW L \in [Expert -> Nat], NEW c \in Nat, NEW s, KeepsLatest(L, s, c),
         NEW e \in Expert
  PROVE  Contains(s, e) <=> (L[e] > 0 /\ Dist(L, e) < c)
<1>1. /\ s \in Seq(Expert) /\ Len(s) \in Nat /\ DOMAIN s = 1 .. Len(s) /\ Len(s) <= c
  BY LenProperties DEF KeepsLatest
<1>2. ASSUME Contains(s, e) PROVE L[e] > 0 /\ Dist(L, e) < c
  <2>1. PICK i \in 1 .. Len(s) : s[i] = e
    BY <1>1, <1>2 DEF Contains
  <2>2. L[e] > 0 /\ Dist(L, e) = i - 1
    BY <2>1 DEF KeepsLatest
  <2>3. i - 1 < c
    BY <1>1
  <2> QED
    BY <2>2, <2>3
<1>3. ASSUME L[e] > 0, Dist(L, e) < c PROVE Contains(s, e)
  <2>1. PICK i \in 1 .. Len(s) : s[i] = e
    BY <1>3 DEF KeepsLatest
  <2> QED
    BY <1>1, <2>1 DEF Contains
<1> QED
  BY <1>2, <1>3

LEMMA HitKeeps ==
  ASSUME NEW L \in [Expert -> Nat], NEW c \in Nat, NEW s, KeepsLatest(L, s, c),
         NEW e \in Expert, NEW t \in Nat, \A x \in Expert : L[x] < t,
         NEW M \in [Expert -> Nat], Touched(L, M, e, t),
         NEW i \in 1 .. Len(s), s[i] = e
  PROVE  KeepsLatest(M, Pushed(s, e, c), c)
<1> DEFINE p == Pushed(s, e, c)
<1>1. /\ s \in Seq(Expert) /\ Len(s) \in Nat /\ Len(s) <= c
      /\ \A j \in 1 .. Len(s) : s[j] \in Expert
  BY LenProperties, ElementOfSeq DEF KeepsLatest
<1>2. \A j \in 1 .. Len(s) : s[j] = s[i] => j = i
  BY KeptOnce
<1>3. /\ p \in Seq(Expert) /\ Len(p) = Len(s) /\ p[1] = e
      /\ \A k \in 2 .. i : p[k] = s[k - 1]
      /\ \A k \in i + 1 .. Len(s) : p[k] = s[k]
  <2>1. s \in Seq(Expert) /\ Len(s) <= c
    BY <1>1
  <2>2. MovedToFront(s, i, Pushed(s, s[i], c))
    BY <1>2, <2>1, PushedHit
  <2>3. MovedToFront(s, i, p)
    BY <2>2
  <2> HIDE DEF p
  <2> QED
    BY <2>3 DEF MovedToFront
<1> HIDE DEF p
<1>4. /\ M[e] = t /\ \A x \in Expert \ {e} : M[x] = L[x]
      /\ t > 0 /\ \A x \in Expert : L[x] \in Nat
  BY DEF Touched
<1>5. /\ Dist(M, e) = 0
      /\ \A x \in Expert \ {e} :
            Dist(M, x) = Dist(L, x) + IF L[x] < L[e] THEN 0 ELSE 1
  BY DistTouched
<1>6. \A j \in 1 .. Len(s) : L[s[j]] > 0 /\ Dist(L, s[j]) = j - 1
  BY DEF KeepsLatest
\* Before e: touched later than e, now one place further back.
<1>7. ASSUME NEW k \in 1 .. Len(s), k < i
      PROVE  /\ s[k] \in Expert \ {e} /\ M[s[k]] > 0 /\ Dist(M, s[k]) = k
  <2>1. s[k] \in Expert \ {e}
    BY <1>1, <1>2, <1>7
  <2>2. ~ (L[s[k]] <= L[e])
    <3> SUFFICES ASSUME L[s[k]] <= L[e] PROVE FALSE
      OBVIOUS
    <3>1. Dist(L, e) <= Dist(L, s[k])
      BY <2>1, DistOrder
    <3> QED
      BY <1>6, <1>7, <3>1
  <2>3. ~ (L[s[k]] < L[e])
    BY <1>4, <2>1, <2>2
  <2>4. Dist(M, s[k]) = (k - 1) + 1
    BY <1>5, <1>6, <2>1, <2>3
  <2> QED
    BY <1>4, <1>6, <2>1, <2>4
\* Behind e: touched before e, where it was.
<1>8. ASSUME NEW k \in 1 .. Len(s), i < k
      PROVE  /\ s[k] \in Expert \ {e} /\ M[s[k]] > 0 /\ Dist(M, s[k]) = k - 1
  <2>1. s[k] \in Expert \ {e}
    BY <1>1, <1>2, <1>8
  <2>2. ~ (L[e] <= L[s[k]])
    <3> SUFFICES ASSUME L[e] <= L[s[k]] PROVE FALSE
      OBVIOUS
    <3>1. Dist(L, s[k]) <= Dist(L, e)
      BY <2>1, DistOrder
    <3> QED
      BY <1>6, <1>8, <3>1
  <2>3. L[s[k]] < L[e]
    BY <1>4, <2>1, <2>2
  <2>4. Dist(M, s[k]) = (k - 1) + 0
    BY <1>5, <1>6, <2>1, <2>3
  <2> QED
    BY <1>4, <1>6, <2>1, <2>4
<1>9. ASSUME NEW k \in 1 .. Len(p) PROVE M[p[k]] > 0 /\ Dist(M, p[k]) = k - 1
  <2>1. CASE k = 1
    BY <1>3, <1>4, <1>5, <2>1
  <2>2. CASE k \in 2 .. i
    <3>1. k - 1 \in 1 .. Len(s) /\ k - 1 < i
      BY <1>1, <2>2
    <3> QED
      BY <1>3, <1>7, <2>2, <3>1
  <2>3. CASE k \in i + 1 .. Len(s)
    <3>1. k \in 1 .. Len(s) /\ i < k
      BY <1>3, <2>3
    <3> QED
      BY <1>3, <1>8, <2>3, <3>1
  <2>4. k = 1 \/ k \in 2 .. i \/ k \in i + 1 .. Len(s)
    BY <1>1, <1>3
  <2> QED
    BY <2>1, <2>2, <2>3, <2>4
<1>10. ASSUME NEW x \in Expert, M[x] > 0, Dist(M, x) < c
       PROVE  \E k \in 1 .. Len(p) : p[k] = x
  <2>1. CASE x = e
    <3>1. 1 \in 1 .. Len(p)
      BY <1>1, <1>3
    <3> QED
      BY <1>3, <2>1, <3>1
  <2>2. CASE x # e
    <3>1. L[x] > 0 /\ Dist(L, x) < c
      <4>1. Dist(L, x) \in Nat
        BY DistIsADistance
      <4>2. Dist(M, x) = Dist(L, x) \/ Dist(M, x) = Dist(L, x) + 1
        <5>1. Dist(M, x) = Dist(L, x) + IF L[x] < L[e] THEN 0 ELSE 1
          BY <1>5, <2>2
        <5>2. CASE L[x] < L[e]
          BY <4>1, <5>1, <5>2
        <5>3. CASE ~ (L[x] < L[e])
          BY <5>1, <5>3
        <5> QED
          BY <5>2, <5>3
      <4>3. Dist(M, x) \in Nat /\ Dist(L, x) <= Dist(M, x)
        BY <4>1, <4>2
      <4> QED
        BY <1>4, <1>10, <2>2, <4>1, <4>3
    <3>2. PICK j \in 1 .. Len(s) : s[j] = x
      BY <3>1 DEF KeepsLatest
    <3>3. CASE j < i
      <4>1. j + 1 \in 2 .. i /\ j + 1 \in 1 .. Len(p) /\ (j + 1) - 1 = j
        BY <1>1, <1>3, <3>3
      <4> QED
        BY <1>3, <3>2, <4>1
    <3>4. CASE i < j
      <4>1. j \in i + 1 .. Len(s) /\ j \in 1 .. Len(p)
        BY <1>1, <1>3, <3>4
      <4> QED
        BY <1>3, <3>2, <4>1
    <3>5. j < i \/ i < j
      BY <1>1, <2>2, <3>2
    <3> QED
      BY <3>3, <3>4, <3>5
  <2> QED
    BY <2>1, <2>2
<1> QED
  BY <1>1, <1>3, <1>9, <1>10 DEF KeepsLatest, p

LEMMA MissKeeps ==
  ASSUME NEW L \in [Expert -> Nat], NEW c \in Nat, NEW s, KeepsLatest(L, s, c),
         NEW e \in Expert, NEW t \in Nat, \A x \in Expert : L[x] < t,
         NEW M \in [Expert -> Nat], Touched(L, M, e, t),
         ~ Contains(s, e)
  PROVE  KeepsLatest(M, Pushed(s, e, c), c)
<1> DEFINE p == Pushed(s, e, c)
<1>1. /\ s \in Seq(Expert) /\ Len(s) \in Nat /\ Len(s) <= c /\ DOMAIN s = 1 .. Len(s)
      /\ \A j \in 1 .. Len(s) : s[j] \in Expert
  BY LenProperties, ElementOfSeq DEF KeepsLatest
<1>2. \A j \in 1 .. Len(s) : s[j] # e
  BY <1>1 DEF Contains
<1>3. /\ p \in Seq(Expert)
      /\ Len(s) = c => Len(p) = c
      /\ Len(s) # c => Len(p) = Len(s) + 1
      /\ 1 \in 1 .. Len(p) => p[1] = e
      /\ \A k \in 2 .. Len(p) : p[k] = s[k - 1]
  <2>1. s \in Seq(Expert) /\ Len(s) <= c
    BY <1>1
  <2>2. PutInFront(s, e, c, Pushed(s, e, c))
    <3> HIDE DEF p
    <3> QED
      BY <1>2, <2>1, PushedMiss, Zenon
  <2> HIDE DEF p
  <2>3. PutInFront(s, e, c, p)
    BY <2>2 DEF p
  <2> QED
    BY <2>3 DEF PutInFront
<1> HIDE DEF p
<1>11. /\ Len(p) \in Nat /\ Len(p) <= c /\ Len(p) <= Len(s) + 1
       /\ \A j \in 0 .. Len(s) : j < c => j + 1 <= Len(p)
  <2>1. CASE Len(s) = c
    BY <1>1, <1>3, <2>1
  <2>2. CASE Len(s) # c
    <3>1. Len(p) = Len(s) + 1
      BY <1>3, <2>2
    <3>2. Len(s) \in Nat /\ Len(s) <= c
      BY <1>1
    <3> QED
      BY <2>2, <3>1, <3>2
  <2> QED
    BY <2>1, <2>2
<1>4. /\ M[e] = t /\ \A x \in Expert \ {e} : M[x] = L[x]
      /\ t > 0 /\ \A x \in Expert : L[x] \in Nat
  BY DEF Touched
<1>5. /\ Dist(M, e) = 0
      /\ \A x \in Expert \ {e} :
            Dist(M, x) = Dist(L, x) + IF L[x] < L[e] THEN 0 ELSE 1
  BY DistTouched
<1>6. \A j \in 1 .. Len(s) : L[s[j]] > 0 /\ Dist(L, s[j]) = j - 1
  BY DEF KeepsLatest
<1>7. L[e] = 0 \/ Dist(L, e) >= c
  <2>1. ~ (L[e] > 0 /\ Dist(L, e) < c)
    BY HitIsNear
  <2>2. Dist(L, e) \in Nat /\ L[e] \in Nat
    BY DistIsADistance
  <2> QED
    BY <2>1, <2>2
\* Whatever the cache keeps was touched after e.
<1>8. ASSUME NEW k \in 1 .. Len(s)
      PROVE  /\ s[k] \in Expert \ {e} /\ M[s[k]] > 0 /\ Dist(M, s[k]) = k
  <2>1. s[k] \in Expert \ {e}
    BY <1>1, <1>2
  <2>2. ~ (L[s[k]] < L[e])
    <3> SUFFICES ASSUME L[s[k]] < L[e] PROVE FALSE
      OBVIOUS
    <3>1. Dist(L, e) <= Dist(L, s[k])
      BY <1>4, <2>1, DistOrder
    <3>2. L[e] # 0
      BY <1>4, <2>1
    <3>3. Dist(L, e) >= c /\ Dist(L, e) \in Nat
      BY <1>7, <3>2, DistIsADistance
    <3> QED
      BY <1>1, <1>6, <3>1, <3>3
  <2>3. Dist(M, s[k]) = (k - 1) + 1
    BY <1>5, <1>6, <2>1, <2>2
  <2> QED
    BY <1>4, <1>6, <2>1, <2>3
<1>9. ASSUME NEW k \in 1 .. Len(p) PROVE M[p[k]] > 0 /\ Dist(M, p[k]) = k - 1
  <2>1. CASE k = 1
    BY <1>3, <1>4, <1>5, <2>1
  <2>2. CASE k # 1
    <3>1. ASSUME NEW m \in Nat, NEW n \in Nat, m <= n + 1, NEW j \in 1 .. m, j # 1
          PROVE  j - 1 \in 1 .. n
      BY <3>1
    <3>3. Len(p) \in Nat /\ Len(s) \in Nat /\ Len(p) <= Len(s) + 1
      BY <1>1, <1>11
    <3>2. k - 1 \in 1 .. Len(s)
      BY <2>2, <3>1, <3>3
    <3>4. k \in 2 .. Len(p)
      BY <2>2, <3>3
    <3> QED
      BY <1>3, <1>8, <3>2, <3>4
  <2> QED
    BY <2>1, <2>2
<1>10. ASSUME NEW x \in Expert, M[x] > 0, Dist(M, x) < c
       PROVE  \E k \in 1 .. Len(p) : p[k] = x
  <2>1. CASE x = e
    <3>1. 1 \in 1 .. Len(p)
      BY <1>1, <1>5, <1>10, <1>11, <2>1
    <3> QED
      BY <1>3, <2>1, <3>1
  <2>2. CASE x # e
    <3>1. L[x] > 0 /\ Dist(L, x) < c
      <4>1. Dist(L, x) \in Nat
        BY DistIsADistance
      <4>2. Dist(M, x) = Dist(L, x) \/ Dist(M, x) = Dist(L, x) + 1
        <5>1. Dist(M, x) = Dist(L, x) + IF L[x] < L[e] THEN 0 ELSE 1
          BY <1>5, <2>2
        <5>2. CASE L[x] < L[e]
          BY <4>1, <5>1, <5>2
        <5>3. CASE ~ (L[x] < L[e])
          BY <5>1, <5>3
        <5> QED
          BY <5>2, <5>3
      <4>3. Dist(M, x) \in Nat /\ Dist(L, x) <= Dist(M, x)
        BY <4>1, <4>2
      <4> QED
        BY <1>4, <1>10, <2>2, <4>1, <4>3
    <3>2. PICK j \in 1 .. Len(s) : s[j] = x
      BY <3>1 DEF KeepsLatest
    <3>3. j < c
      BY <1>8, <1>10, <3>2
    <3>4. j + 1 \in 1 .. Len(p) /\ j + 1 \in 2 .. Len(p) /\ (j + 1) - 1 = j
      BY <1>1, <1>11, <3>3
    <3> QED
      BY <1>3, <3>2, <3>4
  <2> QED
    BY <2>1, <2>2
<1> QED
  BY <1>3, <1>9, <1>10, <1>11 DEF KeepsLatest, p
-----------------------------------------------------------------------------
(* The hits read off a histogram, by its partial sums.                     *)

LEMMA CountUpTo ==
  ASSUME NEW n \in Nat, NEW T, 0 \in T,
         \A i \in 0 .. n - 1 : i \in T => i + 1 \in T
  PROVE  n \in T
<1> DEFINE Out == {i \in 0 .. n : i \notin T}
<1> SUFFICES ASSUME n \notin T PROVE FALSE
  OBVIOUS
<1>1. Out \in SUBSET Nat /\ Out # {}
  OBVIOUS
<1>2. \E i \in Out : \A j \in Out : <<j, i>> \notin OpToRel(<, Nat)
  <2> HIDE DEF OpToRel, Out
  <2> QED
    BY <1>1, NatLessThanWellFounded, WFMin
<1>3. PICK i \in Out : \A j \in Out : <<j, i>> \notin OpToRel(<, Nat)
  BY <1>2
<1>4. i # 0 /\ i - 1 \in 0 .. n - 1 /\ (i - 1) + 1 = i
  <2>1. i \in 0 .. n /\ i # 0
    OBVIOUS
  <2> QED
    BY <2>1
<1>5. i - 1 \notin Out
  <2>1. <<i - 1, i>> \in OpToRel(<, Nat)
    BY <1>4 DEF OpToRel
  <2> QED
    BY <1>3, <2>1
<1>6. i - 1 \in T
  BY <1>4, <1>5
<1>7. i \in T
  BY <1>4, <1>6
<1> QED
  BY <1>3, <1>7

Partial(h, g, n) ==
    /\ g \in [0 .. n -> Int] /\ g[0] = 0
    /\ \A i \in 1 .. n : g[i] = g[i - 1] + h[i - 1]

LEMMA SumExtends ==
  ASSUME NEW m \in Nat, NEW h \in [0 .. m - 1 -> Int], NEW n \in 0 .. m - 1, NEW g,
         Partial(h, g, n)
  PROVE  \E k : Partial(h, k, n + 1)
<1> DEFINE k == [i \in 0 .. n + 1 |-> IF i = n + 1 THEN g[n] + h[n] ELSE g[i]]
<1>1. n \in Nat /\ h[n] \in Int /\ g[n] \in Int
  BY DEF Partial
<1>2. k \in [0 .. n + 1 -> Int] /\ k[0] = 0
  BY <1>1 DEF Partial
<1>3. ASSUME NEW i \in 1 .. n + 1 PROVE k[i] = k[i - 1] + h[i - 1]
  <2>1. CASE i = n + 1
    BY <1>1, <2>1
  <2>2. CASE i # n + 1
    <3>1. i \in 1 .. n /\ i - 1 \in 0 .. n + 1 /\ i - 1 # n + 1 /\ i \in 0 .. n + 1
      BY <1>1, <2>2
    <3>2. g[i] = g[i - 1] + h[i - 1]
      BY <3>1 DEF Partial
    <3>3. k[i] = g[i] /\ k[i - 1] = g[i - 1]
      BY <2>2, <3>1
    <3> QED
      BY <3>2, <3>3
  <2> QED
    BY <2>1, <2>2
<1> HIDE DEF k
<1> QED
  BY <1>2, <1>3 DEF Partial

LEMMA SumExists ==
  ASSUME NEW m \in Nat, NEW h \in [0 .. m - 1 -> Int], NEW c \in 0 .. m
  PROVE  \E g : Partial(h, g, c)
<1> DEFINE T == {n \in 0 .. c : \E g : Partial(h, g, n)}
<1>1. c \in Nat /\ c <= m
  OBVIOUS
<1>2. 0 \in T
  <2>1. Partial(h, [i \in 0 .. 0 |-> 0], 0)
    BY DEF Partial
  <2> QED
    BY <1>1, <2>1
<1>3. ASSUME NEW n \in 0 .. c - 1, n \in T PROVE n + 1 \in T
  <2>1. n \in 0 .. m - 1 /\ n + 1 \in 0 .. c
    BY <1>1
  <2> QED
    BY <1>3, <2>1, SumExtends
<1> HIDE DEF T
<1>4. c \in T
  BY <1>1, <1>2, <1>3, CountUpTo
<1> QED
  BY <1>4 DEF T

LEMMA SumIsHitsAt ==
  ASSUME NEW m \in Nat, NEW h \in [0 .. m - 1 -> Int], NEW c \in 0 .. m, NEW g,
         Partial(h, g, c)
  PROVE  HitsAt(h, c) = g[c]
<1> DEFINE IsSum(a) == a = [n \in 0 .. c |-> IF n = 0 THEN 0 ELSE a[n - 1] + h[n - 1]]
           a == CHOOSE x : IsSum(x)
<1>1. c \in Nat
  OBVIOUS
<1>2. IsSum(g)
  BY <1>1 DEF Partial
<1>3. IsSum(a)
  BY <1>2
<1>4. HitsAt(h, c) = a[c]
  BY DEF HitsAt
<1> HIDE DEF a
<1>5. \A n \in 0 .. c : a[n] = IF n = 0 THEN 0 ELSE a[n - 1] + h[n - 1]
  BY <1>3
<1> DEFINE U == {n \in 0 .. c : a[n] = g[n]}
<1>6. 0 \in U
  BY <1>1, <1>5 DEF Partial
<1>7. ASSUME NEW n \in 0 .. c - 1, n \in U PROVE n + 1 \in U
  BY <1>1, <1>5, <1>7 DEF Partial
<1> HIDE DEF U
<1>8. c \in U
  BY <1>1, <1>6, <1>7, CountUpTo
<1> QED
  BY <1>4, <1>8 DEF U

LEMMA PartialExists ==
  ASSUME NEW h \in [Distance -> Int], NEW c \in SlotCount
  PROVE  \E g : Partial(h, g, c)
BY SumExists, MrcAssumption DEF Distance, SlotCount

LEMMA PartialIsHitsAt ==
  ASSUME NEW h \in [Distance -> Int], NEW c \in SlotCount, NEW g, Partial(h, g, c)
  PROVE  HitsAt(h, c) = g[c]
BY SumIsHitsAt, MrcAssumption DEF Distance, SlotCount

\* One more at distance r is one more hit wherever there are more than r slots.
LEMMA HitsCounted ==
  ASSUME NEW h \in [Distance -> Int], NEW c \in SlotCount, NEW r \in Distance,
         NEW k \in [Distance -> Int], k = [h EXCEPT ![r] = @ + 1]
  PROVE  HitsAt(k, c) = HitsAt(h, c) + IF r < c THEN 1 ELSE 0
<1>1. PICK g : Partial(h, g, c)
  BY PartialExists
<1>2. HitsAt(h, c) = g[c]
  BY <1>1, PartialIsHitsAt
<1>3. c \in Nat /\ c <= NExpert /\ r \in Nat
  BY MrcAssumption DEF SlotCount, Distance
<1> DEFINE f == [n \in 0 .. c |-> g[n] + IF r < n THEN 1 ELSE 0]
<1>4. Partial(k, f, c)
  <2>1. f \in [0 .. c -> Int] /\ f[0] = 0
    BY <1>1, <1>3 DEF Partial
  <2>2. ASSUME NEW i \in 1 .. c PROVE f[i] = f[i - 1] + k[i - 1]
    <3>1. i - 1 \in Distance /\ i - 1 \in 0 .. c /\ i \in 0 .. c
      BY <1>3, MrcAssumption DEF Distance
    <3>2. g[i] = g[i - 1] + h[i - 1] /\ g[i - 1] \in Int /\ h[i - 1] \in Int
      BY <1>1, <3>1 DEF Partial
    <3>3. k[i - 1] = IF i - 1 = r THEN h[i - 1] + 1 ELSE h[i - 1]
      BY <3>1
    <3>4. f[i] = g[i] + IF r < i THEN 1 ELSE 0
      BY <3>1
    <3>5. f[i - 1] = g[i - 1] + IF r < i - 1 THEN 1 ELSE 0
      BY <3>1
    <3> HIDE DEF f
    <3> QED
      BY <1>3, <3>2, <3>3, <3>4, <3>5
  <2> HIDE DEF f
  <2> QED
    BY <2>1, <2>2 DEF Partial
<1>5. f[c] = g[c] + IF r < c THEN 1 ELSE 0
  BY <1>3
<1> HIDE DEF f
<1>6. HitsAt(k, c) = f[c]
  BY <1>4, PartialIsHitsAt
<1> QED
  BY <1>2, <1>5, <1>6

LEMMA HitsOfNothing ==
  ASSUME NEW c \in SlotCount
  PROVE  HitsAt([r \in Distance |-> 0], c) = 0
<1> DEFINE h == [r \in Distance |-> 0]
           g == [i \in 0 .. c |-> 0]
<1>1. c \in Nat /\ c <= NExpert
  BY MrcAssumption DEF SlotCount
<1>2. h \in [Distance -> Int]
  OBVIOUS
<1>3. Partial(h, g, c)
  <2>1. g \in [0 .. c -> Int] /\ g[0] = 0
    BY <1>1
  <2>2. ASSUME NEW i \in 1 .. c PROVE g[i] = g[i - 1] + h[i - 1]
    <3>1. i - 1 \in Distance /\ i - 1 \in 0 .. c /\ i \in 0 .. c
      BY <1>1, MrcAssumption DEF Distance
    <3> QED
      BY <3>1
  <2> HIDE DEF g, h
  <2> QED
    BY <2>1, <2>2 DEF Partial
<1>4. g[c] = 0
  BY <1>1
<1> HIDE DEF g, h
<1>5. HitsAt(h, c) = g[c]
  BY <1>2, <1>3, PartialIsHitsAt
<1> QED
  BY <1>4, <1>5 DEF h
-----------------------------------------------------------------------------
(* The invariant.                                                          *)

\* The stamps of a layer are its clock readings, each given once.
StampInv ==
    /\ last \in [Layer -> [Expert -> Nat]]
    /\ clock \in [Layer -> Nat] /\ total \in 0 .. MaxTotal
    /\ \A l \in Layer : clock[l] <= total
    /\ \A l \in Layer, e \in Expert : last[l][e] <= clock[l]
    /\ \A l \in Layer, e, x \in Expert :
          (e # x /\ last[l][e] = last[l][x]) => last[l][e] = 0

CountInv ==
    /\ hist \in [Distance -> Nat]
    /\ hist_l \in [Layer -> [Distance -> Nat]]
    /\ tot_l \in [Layer -> Nat] /\ cold \in Nat

\* Every cache of every layer keeps the experts nearest by reuse distance.
LruInv ==
    /\ lru = [l \in Layer |-> lru[l]]
    /\ \A l \in Layer, c \in SlotCount : KeepsLatest(last[l], lru[l][c], c)

HitsInv == \A c \in SlotCount : lru_hits[c] = HitsAt(hist, c)

IInv == StampInv /\ CountInv /\ LruInv /\ HitsInv

LEMMA InitIInv == Init => IInv
<1> SUFFICES ASSUME Init PROVE IInv
  OBVIOUS
<1>1. StampInv /\ CountInv
  BY MrcAssumption DEF Init, StampInv, CountInv
<1>2. LruInv
  <2> SUFFICES ASSUME NEW l \in Layer, NEW c \in SlotCount
               PROVE  KeepsLatest(last[l], lru[l][c], c)
    BY DEF LruInv, Init
  <2>1. lru[l][c] = <<>> /\ c \in Nat /\ \A x \in Expert : last[l][x] = 0
    BY MrcAssumption DEF Init, SlotCount
  <2>2. <<>> \in Seq(Expert) /\ Len(<<>>) = 0
    BY EmptySeq
  <2> QED
    BY <2>1, <2>2 DEF KeepsLatest
<1>3. HitsInv
  BY HitsOfNothing DEF Init, HitsInv
<1> QED
  BY <1>1, <1>2, <1>3 DEF IInv

LEMMA TouchStamps ==
  ASSUME IInv, NEW l \in Layer, NEW e \in Expert, Touch(l, e)
  PROVE  /\ StampInv' /\ clock[l] + 1 \in Nat
         /\ \A x \in Expert : last[l][x] < clock[l] + 1
         /\ last'[l] \in [Expert -> Nat]
         /\ Touched(last[l], last'[l], e, clock[l] + 1)
         /\ \A k \in Layer \ {l} : last'[k] = last[k]
<1>1. /\ last' = [last EXCEPT ![l][e] = clock[l] + 1]
      /\ clock' = [clock EXCEPT ![l] = @ + 1]
      /\ total' = total + 1 /\ total < MaxTotal
  BY DEF Touch, Advance
<1>2. StampInv
  BY DEF IInv
<1>3. /\ clock[l] + 1 \in Nat /\ clock[l] \in Nat /\ total \in Nat
      /\ \A x \in Expert : last[l][x] \in Nat /\ last[l][x] <= clock[l]
  BY <1>2, MrcAssumption DEF StampInv
<1>4. /\ last' \in [Layer -> [Expert -> Nat]]
      /\ last'[l][e] = clock[l] + 1
      /\ \A x \in Expert \ {e} : last'[l][x] = last[l][x]
      /\ \A k \in Layer \ {l} : last'[k] = last[k]
  BY <1>1, <1>2, <1>3 DEF StampInv
<1>5. /\ clock' \in [Layer -> Nat] /\ clock'[l] = clock[l] + 1
      /\ \A k \in Layer \ {l} : clock'[k] = clock[k]
  BY <1>1, <1>2, <1>3 DEF StampInv
<1>6. total' \in 0 .. MaxTotal
  BY <1>1, <1>2, MrcAssumption DEF StampInv
<1>7. ASSUME NEW k \in Layer PROVE clock'[k] <= total'
  <2>1. clock[k] \in Nat /\ clock[k] <= total
    BY <1>2 DEF StampInv
  <2> QED
    BY <1>1, <1>3, <1>5, <2>1
<1>8. ASSUME NEW k \in Layer, NEW x \in Expert PROVE last'[k][x] <= clock'[k]
  <2>1. last[k][x] <= clock[k]
    BY <1>2 DEF StampInv
  <2>2. CASE k = l
    BY <1>3, <1>4, <1>5, <2>2
  <2>3. CASE k # l
    BY <1>4, <1>5, <2>1, <2>3
  <2> QED
    BY <2>2, <2>3
<1>9. ASSUME NEW k \in Layer, NEW x \in Expert, NEW y \in Expert,
             x # y, last'[k][x] = last'[k][y]
      PROVE  last'[k][x] = 0
  <2>1. last[k][x] = last[k][y] => last[k][x] = 0
    BY <1>2, <1>9 DEF StampInv
  <2>2. CASE k = l
    BY <1>3, <1>4, <1>9, <2>1, <2>2
  <2>3. CASE k # l
    BY <1>4, <1>9, <2>1, <2>3
  <2> QED
    BY <2>2, <2>3
<1>10. StampInv'
  BY <1>4, <1>5, <1>6, <1>7, <1>8, <1>9 DEF StampInv
<1>11. \A x \in Expert : last[l][x] < clock[l] + 1
  BY <1>3
<1>12. last'[l] \in [Expert -> Nat]
  BY <1>4
<1> QED
  BY <1>3, <1>4, <1>10, <1>11, <1>12 DEF Touched

LEMMA TouchLru ==
  ASSUME IInv, NEW l \in Layer, NEW e \in Expert, Touch(l, e)
  PROVE  LruInv'
<1>1. lru = [k \in Layer |-> lru[k]]
  BY DEF IInv, LruInv
<1>2. lru' = [lru EXCEPT ![l] = [d \in SlotCount |-> Pushed(lru[l][d], e, d)]]
  BY DEF Touch, LruTouch, Pushed
<1>3. lru' = [k \in Layer |-> lru'[k]]
  BY <1>2, <1>1
<1> SUFFICES ASSUME NEW k \in Layer, NEW c \in SlotCount
             PROVE  KeepsLatest(last'[k], lru'[k][c], c)
  BY <1>3 DEF LruInv
<1>4. KeepsLatest(last[k], lru[k][c], c) /\ last[k] \in [Expert -> Nat] /\ c \in Nat
  BY MrcAssumption DEF IInv, LruInv, StampInv, SlotCount
<1>5. CASE k = l
  <2>1. lru'[k][c] = Pushed(lru[k][c], e, c)
    BY <1>2, <1>5, <1>1
  <2>2. CASE Contains(lru[k][c], e)
    <3>1. PICK i \in 1 .. Len(lru[k][c]) : lru[k][c][i] = e
      <4>1. DOMAIN lru[k][c] = 1 .. Len(lru[k][c])
        BY <1>4, LenProperties DEF KeepsLatest
      <4> QED
        BY <2>2, <4>1 DEF Contains
    <3>2. KeepsLatest(last'[k], Pushed(lru[k][c], e, c), c)
      BY <1>4, <1>5, <3>1, TouchStamps, HitKeeps
    <3> QED
      BY <2>1, <3>2
  <2>3. CASE ~ Contains(lru[k][c], e)
    <3>1. KeepsLatest(last'[k], Pushed(lru[k][c], e, c), c)
      BY <1>4, <1>5, <2>3, TouchStamps, MissKeeps
    <3> QED
      BY <2>1, <3>1
  <2> QED
    BY <2>2, <2>3
<1>6. CASE k # l
  <2>1. lru'[k] = lru[k] /\ last'[k] = last[k]
    BY <1>2, <1>6, <1>1, TouchStamps
  <2> QED
    BY <1>4, <2>1
<1> QED
  BY <1>5, <1>6

\* The histogram gains one at the distance below which the caches hit.
LEMMA TouchHits ==
  ASSUME IInv, NEW l \in Layer, NEW e \in Expert, Touch(l, e)
  PROVE  HitsInv' /\ CountInv'
<1> DEFINE r == ReuseDistance(l, e)
<1>1. last[l] \in [Expert -> Nat] /\ CountInv /\ last[l][e] \in Nat
  BY DEF IInv, StampInv
<1>2. r = Dist(last[l], e)
  BY DEF ReuseDistance, Dist, Later
<1>3. r \in Nat /\ r < NExpert
  BY <1>1, <1>2, DistIsADistance
<1> HIDE DEF r
<1>4. r \in Distance
  BY <1>3, MrcAssumption DEF Distance
<1>5. ASSUME NEW c \in SlotCount
      PROVE  /\ lru_hits'[c] = HitsAt(hist, c)
                                 + IF last[l][e] > 0 /\ r < c THEN 1 ELSE 0
  <2>1. KeepsLatest(last[l], lru[l][c], c) /\ c \in Nat
    BY MrcAssumption DEF IInv, LruInv, SlotCount
  <2>2. Contains(lru[l][c], e) <=> (last[l][e] > 0 /\ r < c)
    BY <1>1, <1>2, <2>1, HitIsNear
  <2>3. lru_hits'[c] = lru_hits[c] + IF Contains(lru[l][c], e) THEN 1 ELSE 0
    BY DEF Touch, LruTouch
  <2>4. lru_hits[c] = HitsAt(hist, c)
    BY DEF IInv, HitsInv
  <2> QED
    BY <2>2, <2>3, <2>4
<1>6. tot_l' = [tot_l EXCEPT ![l] = @ + 1]
  BY DEF Touch
<1>7. tot_l' \in [Layer -> Nat]
  BY <1>1, <1>6 DEF CountInv
<1>8. CASE last[l][e] = 0
  <2>1. hist' = hist /\ hist_l' = hist_l /\ cold' = cold + 1
    BY <1>8 DEF Touch, CountCold
  <2>2. CountInv'
    BY <1>1, <1>7, <2>1 DEF CountInv
  <2>3. ASSUME NEW c \in SlotCount PROVE lru_hits'[c] = HitsAt(hist', c)
    <3>1. HitsAt(hist, c) \in Int
      <4>1. hist \in [Distance -> Int]
        BY <1>1 DEF CountInv
      <4>2. PICK g : Partial(hist, g, c)
        BY <4>1, PartialExists
      <4>3. HitsAt(hist, c) = g[c] /\ c \in 0 .. c
        BY <4>1, <4>2, PartialIsHitsAt, MrcAssumption DEF SlotCount
      <4> QED
        BY <4>2, <4>3 DEF Partial
    <3>2. lru_hits'[c] = HitsAt(hist, c) + 0
      BY <1>5, <1>8
    <3> QED
      BY <2>1, <3>1, <3>2
  <2> QED
    BY <2>2, <2>3 DEF HitsInv
<1>9. CASE last[l][e] # 0
  <2>1. /\ hist' = [hist EXCEPT ![r] = @ + 1]
        /\ hist_l' = [hist_l EXCEPT ![l][r] = @ + 1] /\ cold' = cold
    BY <1>4, <1>9 DEF Touch, CountReuse, CountInLayer, r
  <2>2. hist' \in [Distance -> Nat] /\ hist_l' \in [Layer -> [Distance -> Nat]]
    BY <1>1, <1>4, <2>1 DEF CountInv
  <2>3. CountInv'
    BY <1>1, <1>7, <2>1, <2>2 DEF CountInv
  <2>4. ASSUME NEW c \in SlotCount PROVE lru_hits'[c] = HitsAt(hist', c)
    <3>1. hist \in [Distance -> Int] /\ hist' \in [Distance -> Int]
      BY <1>1, <2>2 DEF CountInv
    <3>2. HitsAt(hist', c) = HitsAt(hist, c) + IF r < c THEN 1 ELSE 0
      BY <1>4, <2>1, <3>1, HitsCounted
    <3>3. last[l][e] > 0
      BY <1>1, <1>9
    <3> QED
      BY <1>5, <3>2, <3>3
  <2> QED
    BY <2>3, <2>4 DEF HitsInv
<1> QED
  BY <1>1, <1>8, <1>9

LEMMA StepIInv == IInv /\ [Next]_vars => IInv'
<1> SUFFICES ASSUME IInv, [Next]_vars PROVE IInv'
  OBVIOUS
<1>1. ASSUME NEW l \in Layer, NEW e \in Expert, Touch(l, e) PROVE IInv'
  BY <1>1, TouchStamps, TouchLru, TouchHits DEF IInv
<1>2. CASE UNCHANGED vars
  BY <1>2 DEF vars, counters, IInv, StampInv, CountInv, LruInv, HitsInv
<1> QED
  BY <1>1, <1>2 DEF Next

\* The counters keep their types, and no two experts share a stamp.
THEOREM CountersStayTyped == Spec => []TypeOK
<1>1. IInv => TypeOK
  <2> SUFFICES ASSUME IInv PROVE TypeOK
    OBVIOUS
  <2>1. StampInv /\ CountInv
    BY DEF IInv
  <2>2. ASSUME NEW l \in Layer PROVE clock[l] \in 0 .. MaxTotal
    BY <2>1, MrcAssumption DEF StampInv
  <2>3. ASSUME NEW l \in Layer, NEW e \in Expert PROVE last[l][e] \in 0 .. MaxTotal
    <3>1. last[l][e] \in Nat /\ last[l][e] <= clock[l]
      BY <2>1 DEF StampInv
    <3> QED
      BY <2>2, <3>1, MrcAssumption
  <2>4. clock \in [Layer -> 0 .. MaxTotal]
    BY <2>1, <2>2 DEF StampInv
  <2>5. last \in [Layer -> [Expert -> 0 .. MaxTotal]]
    BY <2>1, <2>3 DEF StampInv
  <2> QED
    BY <2>1, <2>4, <2>5 DEF TypeOK, StampInv, CountInv
<1> QED
  BY <1>1, InitIInv, StepIInv, PTL DEF Spec

\* "exact for LRU": whatever is accessed, the histogram gives the hits of LRU
\* caches of every size.
THEOREM HistogramIsExact == Spec => []ExactForLru
<1>1. IInv => ExactForLru
  BY DEF IInv, HitsInv, ExactForLru
<1> QED
  BY <1>1, InitIInv, StepIInv, PTL DEF Spec
-----------------------------------------------------------------------------
(* The hull of a layer.  Heights are hits times Scale, so that a slope and *)
(* a length give a height again.                                           *)

LEMMA DivBounds ==
  ASSUME NEW a \in Int, NEW b \in Nat \ {0}
  PROVE  a \div b \in Int /\ b * (a \div b) <= a /\ a < b * (a \div b) + b
OBVIOUS

LEMMA ProductGrows ==
  ASSUME NEW a \in Int, NEW b \in Int, NEW p \in Nat, a <= b
  PROVE  a * p <= b * p
OBVIOUS

LEMMA TimesDistributes ==
  ASSUME NEW F \in Int, NEW a \in Int, NEW b \in Int, NEW s \in Int
  PROVE  /\ (F - a + b) * s = F * s - a * s + b * s
         /\ F * s \in Int /\ a * s \in Int /\ b * s \in Int
<1>1. F * s \in Int /\ a * s \in Int /\ b * s \in Int
  OBVIOUS
<1>2. (F - a + b) * s = F * s - a * s + b * s
  OBVIOUS
<1> QED
  BY <1>1, <1>2

\* A product is divided by a factor of its own.
LEMMA DivExact ==
  ASSUME NEW q \in Int, NEW b \in Nat \ {0}
  PROVE  (q * b) \div b = q
<1> DEFINE d == (q * b) \div b
<1>1. q * b \in Int /\ q * b = b * q
  OBVIOUS
<1>2. d \in Int /\ b * d <= q * b /\ q * b < b * d + b
  BY <1>1, DivBounds
<1> HIDE DEF d
<1>3. b * d = d * b /\ b * d + b = (d + 1) * b
  BY <1>2
<1>4. d <= q
  <2> SUFFICES ASSUME d >= q + 1 PROVE FALSE
    BY <1>2
  <2>1. (q + 1) * b <= d * b
    BY <1>2, ProductGrows
  <2>2. (q + 1) * b = q * b + b
    OBVIOUS
  <2> QED
    BY <1>1, <1>2, <1>3, <2>1, <2>2
<1>5. q <= d
  <2> SUFFICES ASSUME q >= d + 1 PROVE FALSE
    BY <1>2
  <2>1. (d + 1) * b <= q * b
    BY <1>2, ProductGrows
  <2> QED
    BY <1>1, <1>2, <1>3, <2>1
<1> QED
  BY <1>2, <1>4, <1>5 DEF d

Counted == hist_l \in [Layer -> [Distance -> Nat]]

Height(l, c) == Hits(l, c) * Scale

Line(l, a, b, c) == Height(l, a) + Slope(l, a, b) * (c - a)

LEMMA HitsAreNat ==
  ASSUME Counted, NEW l \in Layer, NEW c \in SlotCount
  PROVE  Hits(l, c) \in Nat /\ Height(l, c) \in Nat
<1>1. hist_l[l] \in [Distance -> Nat] /\ hist_l[l] \in [Distance -> Int]
  BY DEF Counted
<1>2. PICK g : Partial(hist_l[l], g, c)
  BY <1>1, PartialExists
<1>3. c \in Nat /\ c <= NExpert
  BY MrcAssumption DEF SlotCount
<1> DEFINE T == {n \in 0 .. c : g[n] \in Nat}
<1>4. 0 \in T
  BY <1>2, <1>3 DEF Partial
<1>5. ASSUME NEW n \in 0 .. c - 1, n \in T PROVE n + 1 \in T
  <2>1. n + 1 \in 1 .. c /\ (n + 1) - 1 = n /\ n \in Distance /\ g[n] \in Nat
    BY <1>3, <1>5, MrcAssumption DEF Distance
  <2>2. g[n + 1] = g[n] + hist_l[l][n]
    BY <1>2, <2>1 DEF Partial
  <2>3. hist_l[l][n] \in Nat
    BY <1>1, <2>1
  <2> QED
    BY <1>3, <2>1, <2>2, <2>3
<1> HIDE DEF T
<1>6. c \in T
  BY <1>3, <1>4, <1>5, CountUpTo
<1>7. Hits(l, c) = g[c]
  BY <1>1, <1>2, PartialIsHitsAt DEF Hits
<1>8. Hits(l, c) \in Nat
  BY <1>6, <1>7 DEF T
<1> QED
  BY <1>8, ScaleAssumption DEF Height

\* Scale makes slopes exact.
LEMMA SlopeIsExact ==
  ASSUME Counted, NEW l \in Layer, NEW a \in SlotCount, NEW b \in SlotCount, a < b
  PROVE  /\ Slope(l, a, b) \in Int
         /\ Height(l, b) = Height(l, a) + Slope(l, a, b) * (b - a)
<1> DEFINE n == b - a
           q == Scale \div n
           d == Hits(l, b) - Hits(l, a)
<1>1. n \in 1 .. NExpert /\ n \in Nat \ {0}
  BY MrcAssumption DEF SlotCount
<1>2. Hits(l, a) \in Int /\ Hits(l, b) \in Int
  BY HitsAreNat
<1>3. Scale \in Nat /\ Scale % n = 0
  BY <1>1, ScaleAssumption
<1> HIDE DEF n
<1>4. q \in Int /\ Scale = q * n
  BY <1>1, <1>3
<1> HIDE DEF q
<1>5. d \in Int /\ d * q \in Int /\ d * Scale = (d * q) * n
  BY <1>1, <1>2, <1>4
<1>6. Slope(l, a, b) = d * q
  <2>1. Slope(l, a, b) = (d * Scale) \div n
    BY DEF Slope, n
  <2> HIDE DEF d
  <2> QED
    BY <1>1, <1>5, <2>1, DivExact
<1>7. Height(l, b) = Height(l, a) + d * Scale
  BY <1>2, <1>3 DEF Height
<1> HIDE DEF d
<1> QED
  BY <1>5, <1>6, <1>7 DEF n

\* From a on, the steeper line is higher; before a, it is lower.
LEMMA SteeperLine ==
  ASSUME NEW h \in Int, NEW s \in Int, NEW t \in Int, s <= t, NEW x \in Int
  PROVE  /\ x >= 0 => h + s * x <= h + t * x
         /\ x <= 0 => h + t * x <= h + s * x
<1>1. ASSUME x >= 0 PROVE h + s * x <= h + t * x
  <2>1. s * x <= t * x
    BY <1>1, ProductGrows
  <2> QED
    BY <2>1
<1>2. ASSUME x <= 0 PROVE h + t * x <= h + s * x
  <2>1. 0 - x \in Nat
    BY <1>2
  <2>2. s * (0 - x) <= t * (0 - x)
    BY <2>1, ProductGrows
  <2>3. s * (0 - x) = 0 - s * x /\ t * (0 - x) = 0 - t * x
    OBVIOUS
  <2>4. s * x \in Int /\ t * x \in Int
    OBVIOUS
  <2> QED
    BY <2>2, <2>3, <2>4
<1> QED
  BY <1>1, <1>2

\* Of two segments in a row, the line across has a slope in between.
LEMMA SlopeAcross ==
  ASSUME Counted, NEW l \in Layer, NEW a \in SlotCount, NEW b \in SlotCount,
         NEW c \in SlotCount, a < b, b < c, Slope(l, b, c) >= Slope(l, a, b)
  PROVE  Slope(l, a, b) <= Slope(l, a, c)
<1> DEFINE s == Slope(l, a, b)
           t == Slope(l, b, c)
           u == Slope(l, a, c)
<1>1. a \in Int /\ b \in Int /\ c \in Int
  BY MrcAssumption DEF SlotCount
<1>2. s \in Int /\ t \in Int /\ u \in Int /\ Height(l, a) \in Int
  BY <1>1, SlopeIsExact, HitsAreNat
<1>3. /\ Height(l, b) = Height(l, a) + s * (b - a)
      /\ Height(l, c) = Height(l, b) + t * (c - b)
      /\ Height(l, c) = Height(l, a) + u * (c - a)
  BY <1>1, SlopeIsExact
<1>4. s <= t
  OBVIOUS
<1> HIDE DEF s, t, u
<1>5. s * (c - b) <= t * (c - b)
  BY <1>1, <1>2, <1>4, ProductGrows
<1>6. /\ s * (b - a) \in Int /\ s * (c - b) \in Int /\ t * (c - b) \in Int
      /\ u * (c - a) \in Int /\ s * (b - a) + s * (c - b) = s * (c - a)
  BY <1>1, <1>2
<1>7. s * (c - a) <= u * (c - a)
  BY <1>2, <1>3, <1>5, <1>6
<1>8. s <= u
  <2> SUFFICES ASSUME s >= u + 1 PROVE FALSE
    BY <1>2
  <2>1. (u + 1) * (c - a) <= s * (c - a)
    BY <1>1, <1>2, ProductGrows
  <2>2. (u + 1) * (c - a) = u * (c - a) + (c - a) /\ c - a > 0
    BY <1>1, <1>2
  <2> QED
    BY <1>1, <1>2, <1>6, <1>7, <2>1, <2>2
<1> QED
  BY <1>8 DEF s, u

LEMMA MaxIsGreatest ==
  ASSUME NEW m \in Nat, NEW S \in SUBSET (1 .. m), S # {}
  PROVE  Max(S) \in S /\ \A x \in S : x <= Max(S)
<1> DEFINE T == {i \in 0 .. m : \A x \in S : x <= m - i}
<1>1. \E x \in S : \A y \in S : x >= y
  <2> SUFFICES ASSUME ~ \E x \in S : \A y \in S : x >= y PROVE FALSE
    OBVIOUS
  <2>1. 0 \in T
    OBVIOUS
  <2>2. ASSUME NEW i \in 0 .. m - 1, i \in T PROVE i + 1 \in T
    <3>1. \A x \in S : x \in Int /\ x <= m - i
      BY <2>2
    <3>2. m - i \notin S
      BY <3>1
    <3>3. \A x \in S : x <= m - (i + 1)
      BY <3>1, <3>2
    <3> QED
      BY <3>3
  <2> HIDE DEF T
  <2>3. m \in T
    BY <2>1, <2>2, CountUpTo
  <2>4. \A x \in S : x <= 0
    BY <2>3 DEF T
  <2>5. PICK x \in S : TRUE
    OBVIOUS
  <2> QED
    BY <2>4, <2>5
<1>2. Max(S) \in S /\ \A x \in S : Max(S) >= x
  BY <1>1 DEF Max
<1> QED
  BY <1>2

\* The points of a hull from 0 to c: farther and farther, along lines that get
\* flatter, each of them above all the hits.
HullInv(l, h, c) ==
    /\ h \in Seq(0 .. c) /\ Len(h) \in Nat \ {0}
    /\ h[1] = 0 /\ h[Len(h)] = c
    /\ \A i, j \in 1 .. Len(h) : i < j => h[i] < h[j]
    /\ \A i, j \in 1 .. Len(h) - 1 : i < j => Slope(l, h[j], h[j + 1]) < Slope(l, h[i], h[i + 1])
    /\ \A k \in 1 .. Len(h) - 1, b \in 0 .. c : Height(l, b) <= Line(l, h[k], h[k + 1], b)

LEMMA HullStart ==
  ASSUME NEW l \in Layer
  PROVE  HullInv(l, <<0>>, 0)
BY DEF HullInv

\* What is kept of the hull, and why.
LEMMA KeptFacts ==
  ASSUME NEW l, NEW c \in Nat, NEW h \in Seq(SlotCount), Len(h) \in Nat \ {0}
  PROVE  \E j \in 1 .. Len(h) :
            /\ Kept(l, h, c) = j
            /\ j > 1 => ~Dents(l, h[j - 1], h[j], c)
            /\ j < Len(h) => Dents(l, h[j], h[j + 1], c)
<1> DEFINE S == {k \in 1 .. Len(h) : k > 1 => ~Dents(l, h[k - 1], h[k], c)}
           j == Max(S)
<1>1. 1 \in S /\ S \in SUBSET (1 .. Len(h))
  OBVIOUS
<1>2. j \in S /\ \A x \in S : x <= j
  <2> HIDE DEF S
  <2> QED
    BY <1>1, MaxIsGreatest
<1>3. Kept(l, h, c) = j
  BY DEF Kept
<1> HIDE DEF j
<1>4. j \in 1 .. Len(h) /\ (j > 1 => ~Dents(l, h[j - 1], h[j], c))
  BY <1>2
<1>5. ASSUME j < Len(h) PROVE Dents(l, h[j], h[j + 1], c)
  <2>1. j + 1 \in 1 .. Len(h) /\ j + 1 > 1 /\ (j + 1) - 1 = j /\ ~(j + 1 <= j)
    BY <1>4, <1>5
  <2>2. j + 1 \notin S
    BY <1>2, <2>1
  <2> QED
    BY <2>1, <2>2
<1> HIDE DEF S
<1> QED
  BY <1>3, <1>4, <1>5

LEMMA WithPointFacts ==
  ASSUME NEW l, NEW c \in Nat, NEW h \in Seq(0 .. c), Kept(l, h, c) \in 1 .. Len(h)
  PROVE  /\ WithPoint(l, h, c) \in Seq(0 .. c)
         /\ Len(WithPoint(l, h, c)) = Kept(l, h, c) + 1
         /\ \A i \in 1 .. Kept(l, h, c) : WithPoint(l, h, c)[i] = h[i]
         /\ WithPoint(l, h, c)[Kept(l, h, c) + 1] = c
<1> DEFINE j == Kept(l, h, c)
           t == SubSeq(h, 1, j)
<1>1. j \in 1 .. Len(h) /\ Len(h) \in Nat
  BY LenProperties
<1> HIDE DEF j
<1>2. t \in Seq(0 .. c) /\ Len(t) = j /\ \A i \in 1 .. j : t[i] = h[i]
  <2>1. \A k \in 1 .. j : h[k] \in 0 .. c
    BY <1>1, ElementOfSeq
  <2>2. /\ t \in Seq(0 .. c) /\ Len(t) = IF 1 <= j THEN j - 1 + 1 ELSE 0
        /\ \A k \in 1 .. j - 1 + 1 : t[k] = h[1 + k - 1]
    BY <1>1, <2>1, SubSeqProperties
  <2> HIDE DEF t
  <2> QED
    BY <1>1, <2>2
<1>3. WithPoint(l, h, c) = Append(t, c)
  BY DEF WithPoint, j
<1> HIDE DEF t
<1>4. /\ Append(t, c) \in Seq(0 .. c) /\ Len(Append(t, c)) = j + 1
      /\ \A i \in 1 .. j : Append(t, c)[i] = t[i]
      /\ Append(t, c)[j + 1] = c
  <2>1. c \in 0 .. c
    OBVIOUS
  <2> QED
    BY <1>1, <1>2, <2>1, AppendProperties
<1> QED
  BY <1>2, <1>3, <1>4 DEF j

\* A line may be drawn from its far end as well.
LEMMA LineBothEnds ==
  ASSUME Counted, NEW l \in Layer, NEW a \in SlotCount, NEW b \in SlotCount, a < b,
         NEW x \in Int
  PROVE  Line(l, a, b, x) = Height(l, b) + Slope(l, a, b) * (x - b)
<1> DEFINE s == Slope(l, a, b)
<1>1. a \in Int /\ b \in Int
  BY MrcAssumption DEF SlotCount
<1>2. s \in Int /\ Height(l, b) = Height(l, a) + s * (b - a) /\ Height(l, a) \in Int
  BY SlopeIsExact, HitsAreNat
<1>3. Line(l, a, b, x) = Height(l, a) + s * (x - a)
  BY DEF Line
<1> HIDE DEF s
<1>4. s * (x - a) = s * (b - a) + s * (x - b)
  BY <1>1, <1>2
<1>5. s * (b - a) \in Int /\ s * (x - b) \in Int
  BY <1>1, <1>2
<1> QED
  BY <1>2, <1>3, <1>4, <1>5 DEF s

LEMMA HullGrows ==
  ASSUME Counted, NEW l \in Layer, NEW c \in 1 .. NExpert, NEW h, HullInv(l, h, c - 1)
  PROVE  HullInv(l, WithPoint(l, h, c), c)
<1>1. c \in Nat /\ c \in SlotCount /\ \A b \in 0 .. c : b \in SlotCount /\ b \in Int
  BY MrcAssumption DEF SlotCount
<1>2. /\ h \in Seq(0 .. c - 1) /\ Len(h) \in Nat \ {0}
      /\ h[1] = 0 /\ h[Len(h)] = c - 1
      /\ \A i, j \in 1 .. Len(h) : i < j => h[i] < h[j]
      /\ \A i, j \in 1 .. Len(h) - 1 :
            i < j => Slope(l, h[j], h[j + 1]) < Slope(l, h[i], h[i + 1])
      /\ \A k \in 1 .. Len(h) - 1, b \in 0 .. c - 1 :
            Height(l, b) <= Line(l, h[k], h[k + 1], b)
  BY DEF HullInv
<1>3. \A i \in 1 .. Len(h) : h[i] \in 0 .. c - 1 /\ h[i] \in SlotCount
  <2> TAKE i \in 1 .. Len(h)
  <2>1. h[i] \in 0 .. c - 1
    BY <1>2, ElementOfSeq
  <2> QED
    BY <1>1, <2>1
<1>4. h \in Seq(0 .. c) /\ h \in Seq(SlotCount)
  <2>1. 0 .. c - 1 \subseteq 0 .. c /\ 0 .. c - 1 \subseteq SlotCount
    BY <1>1
  <2> QED
    BY <1>2, <2>1, SeqMonotonic
<1>5. PICK j \in 1 .. Len(h) :
            /\ Kept(l, h, c) = j
            /\ j > 1 => ~Dents(l, h[j - 1], h[j], c)
            /\ j < Len(h) => Dents(l, h[j], h[j + 1], c)
  BY <1>1, <1>2, <1>4, KeptFacts
<1> DEFINE g == WithPoint(l, h, c)
           p == h[j]
           s == Slope(l, p, c)
           S(k) == Slope(l, h[k], h[k + 1])
<1>6. g \in Seq(0 .. c) /\ Len(g) = j + 1 /\ (\A i \in 1 .. j : g[i] = h[i]) /\ g[j + 1] = c
  BY <1>1, <1>4, <1>5, WithPointFacts
<1> HIDE DEF g
<1>7. j \in Nat \ {0} /\ j <= Len(h)
  BY <1>2, <1>5
<1>8. p \in 0 .. c - 1 /\ p \in SlotCount /\ p < c
  BY <1>1, <1>3, <1>5
<1>9. s \in Int /\ Height(l, c) = Height(l, p) + s * (c - p) /\ Height(l, p) \in Int
  <2> HIDE DEF p
  <2>1. c \in SlotCount
    BY <1>1
  <2>2. Slope(l, p, c) \in Int /\ Height(l, c) = Height(l, p) + Slope(l, p, c) * (c - p)
    BY <1>8, <2>1, SlopeIsExact
  <2>3. Height(l, p) \in Int
    BY <1>8, HitsAreNat
  <2> QED
    BY <2>2, <2>3
<1>10. ASSUME NEW k \in 1 .. Len(h) - 1
       PROVE  /\ h[k] \in SlotCount /\ h[k + 1] \in SlotCount /\ h[k] < h[k + 1]
              /\ S(k) \in Int
  <2>1. k \in 1 .. Len(h) /\ k + 1 \in 1 .. Len(h) /\ k < k + 1
    BY <1>2
  <2>2. h[k] \in SlotCount /\ h[k + 1] \in SlotCount /\ h[k] < h[k + 1]
    BY <1>2, <1>3, <2>1
  <2> QED
    BY <2>2, SlopeIsExact
<1>11. ASSUME j > 1 PROVE s < S(j - 1)
  <2>1. j - 1 \in 1 .. Len(h) - 1 /\ (j - 1) + 1 = j
    BY <1>2, <1>7, <1>11
  <2>2. S(j - 1) \in Int /\ S(j - 1) = Slope(l, h[j - 1], p)
    BY <1>10, <2>1
  <2>3. ~(s >= Slope(l, h[j - 1], p))
    BY <1>5, <1>11 DEF Dents
  <2> HIDE DEF s, S, p
  <2> QED
    BY <1>9, <2>2, <2>3
<1>12. ASSUME j < Len(h) PROVE S(j) <= s
  <2>1. j \in 1 .. Len(h) - 1 /\ j + 1 \in 1 .. Len(h)
    BY <1>2, <1>7, <1>12
  <2>2. p < h[j + 1] /\ h[j + 1] \in SlotCount /\ h[j + 1] < c
    BY <1>1, <1>3, <1>10, <2>1
  <2>3. Slope(l, h[j + 1], c) >= Slope(l, p, h[j + 1])
    BY <1>5, <1>12 DEF Dents
  <2> QED
    BY <1>1, <1>8, <2>2, <2>3, SlopeAcross
<1>13. \A k \in 1 .. j - 1 : s < S(k)
  <2> SUFFICES ASSUME NEW k \in 1 .. j - 1 PROVE s < S(k)
    OBVIOUS
  <2>1. k \in 1 .. Len(h) - 1 /\ j - 1 \in 1 .. Len(h) - 1 /\ j > 1
    BY <1>2, <1>7
  <2>2. S(k) \in Int /\ S(j - 1) \in Int
    BY <1>10, <2>1
  <2>3. k < j - 1 => S(j - 1) < S(k)
    BY <1>2, <2>1
  <2>4. s < S(j - 1)
    BY <1>11, <2>1
  <2>5. k = j - 1 \/ k < j - 1
    BY <1>7
  <2> HIDE DEF s
  <2>6. CASE k = j - 1
    BY <2>4, <2>6
  <2>7. CASE k < j - 1
    <3> HIDE DEF S
    <3> QED
      BY <1>9, <2>2, <2>3, <2>4, <2>7
  <2> QED
    BY <2>5, <2>6, <2>7
<1>14. ASSUME NEW i \in 1 .. j + 1, NEW k \in 1 .. j + 1, i < k PROVE g[i] < g[k]
  <2>1. i \in 1 .. j /\ i \in 1 .. Len(h)
    BY <1>2, <1>7, <1>14
  <2>2. CASE k = j + 1
    BY <1>1, <1>3, <1>6, <2>1, <2>2
  <2>3. CASE k # j + 1
    <3>1. k \in 1 .. j /\ k \in 1 .. Len(h)
      BY <1>2, <1>7, <2>3
    <3> QED
      BY <1>2, <1>6, <1>14, <2>1, <3>1
  <2> QED
    BY <2>2, <2>3
<1>15. Slope(l, g[j], g[j + 1]) = s /\ \A k \in 1 .. j - 1 : Slope(l, g[k], g[k + 1]) = S(k)
  <2>1. j \in 1 .. j
    BY <1>7
  <2>2. \A k \in 1 .. j - 1 : k \in 1 .. j /\ k + 1 \in 1 .. j
    BY <1>7
  <2> QED
    BY <1>6, <2>1, <2>2
<1>16. ASSUME NEW i \in 1 .. j, NEW k \in 1 .. j, i < k
       PROVE  Slope(l, g[k], g[k + 1]) < Slope(l, g[i], g[i + 1])
  <2>1. i \in 1 .. j - 1 /\ i \in 1 .. Len(h) - 1
    BY <1>2, <1>7, <1>16
  <2>2. CASE k = j
    BY <1>13, <1>15, <2>1, <2>2
  <2>3. CASE k # j
    <3>1. k \in 1 .. j - 1 /\ k \in 1 .. Len(h) - 1
      BY <1>2, <1>7, <2>3
    <3> QED
      BY <1>2, <1>15, <1>16, <2>1, <3>1
  <2> QED
    BY <2>2, <2>3
<1>17. ASSUME NEW k \in 1 .. j - 1, NEW b \in 0 .. c
       PROVE  Height(l, b) <= Line(l, h[k], h[k + 1], b)
  <2>1. k \in 1 .. Len(h) - 1
    BY <1>2, <1>7
  <2>2. CASE b \in 0 .. c - 1
    BY <1>2, <2>1, <2>2
  <2>3. CASE b = c
    <3>1. Height(l, p) <= Line(l, h[k], h[k + 1], p)
      BY <1>2, <1>8, <2>1
    <3>2. /\ Line(l, h[k], h[k + 1], p) = Height(l, h[k]) + S(k) * (p - h[k])
          /\ Line(l, h[k], h[k + 1], c) = Height(l, h[k]) + S(k) * (c - h[k])
      BY DEF Line
    <3>3. S(k) \in Int /\ h[k] \in Int /\ Height(l, h[k]) \in Int /\ h[k] \in SlotCount
      <4>1. h[k] \in SlotCount /\ S(k) \in Int
        BY <1>10, <2>1
      <4> QED
        BY <4>1, HitsAreNat, MrcAssumption DEF SlotCount
    <3>4. s < S(k)
      BY <1>13
    <3>5. p \in Int /\ c \in Int /\ c - p \in Nat
      BY <1>1, <1>8
    <3> DEFINE t == S(k)
               q == h[k]
    <3>6. t * (c - q) = t * (p - q) + t * (c - p)
      <4> HIDE DEF t, q, p
      <4> QED
        BY <3>3, <3>5 DEF t, q
    <3>7. Height(l, p) + s * (c - p) <= Height(l, p) + t * (c - p)
      <4> HIDE DEF s, t, p
      <4>1. s <= t /\ t \in Int /\ c - p \in Int /\ c - p >= 0
        BY <1>9, <3>3, <3>4, <3>5 DEF t
      <4> QED
        BY <1>9, <4>1, SteeperLine
    <3>8. t * (p - q) \in Int /\ t * (c - p) \in Int /\ s * (c - p) \in Int
      <4> HIDE DEF s, t, p, q
      <4> QED
        BY <1>9, <3>3, <3>5 DEF t, q
    <3>9. Height(l, p) <= Height(l, q) + t * (p - q) /\ Height(l, q) \in Int
      BY <3>1, <3>2, <3>3
    <3>10. Height(l, c) <= Height(l, q) + t * (c - q)
      <4> HIDE DEF s, t, p, q, S
      <4> QED
        BY <1>9, <3>6, <3>7, <3>8, <3>9
    <3> QED
      BY <2>3, <3>2, <3>10
  <2> QED
    BY <2>2, <2>3, <1>1
<1>18. ASSUME NEW b \in 0 .. c PROVE Height(l, b) <= Line(l, p, c, b)
  <2>1. Line(l, p, c, b) = Height(l, p) + s * (b - p) /\ p \in Int /\ b \in Int
    BY <1>1, <1>8 DEF Line
  <2>2. CASE b = c
    <3>1. Height(l, c) \in Int
      BY <1>1, HitsAreNat
    <3> QED
      BY <1>9, <2>1, <2>2, <3>1
  <2>3. CASE b # c /\ b > p
    <3>1. b \in 0 .. c - 1
      BY <1>1, <2>3
    <3>2. j \in 1 .. Len(h) - 1 /\ j < Len(h)
      <4>1. p # c - 1
        BY <1>8, <2>1, <2>3, <3>1
      <4> QED
        BY <1>2, <1>5, <1>7, <4>1
    <3>3. Height(l, b) <= Height(l, p) + S(j) * (b - p)
      BY <1>2, <3>1, <3>2 DEF Line
    <3>4. S(j) <= s /\ S(j) \in Int
      BY <1>10, <1>12, <3>2
    <3> DEFINE t == S(j)
    <3>5. t \in Int /\ t <= s /\ Height(l, b) <= Height(l, p) + t * (b - p)
      BY <3>3, <3>4
    <3> HIDE DEF s, t, p, S
    <3>6. b - p \in Int /\ b - p >= 0 /\ Height(l, b) \in Int
      BY <1>1, <2>1, <2>3, HitsAreNat
    <3>7. Height(l, p) + t * (b - p) <= Height(l, p) + s * (b - p)
      BY <1>9, <3>5, <3>6, SteeperLine
    <3>8. t * (b - p) \in Int /\ s * (b - p) \in Int
      BY <1>9, <3>5, <3>6
    <3> QED
      BY <1>9, <2>1, <3>5, <3>6, <3>7, <3>8
  <2>4. CASE b # c /\ ~(b > p) /\ j = 1
    <3>1. b = p
      BY <1>2, <2>1, <2>4
    <3>2. s * (b - p) = 0
      <4> HIDE DEF s, p
      <4> QED
        BY <1>9, <2>1, <3>1
    <3> HIDE DEF s, p
    <3> QED
      BY <1>9, <2>1, <3>1, <3>2
  <2>5. CASE b # c /\ ~(b > p) /\ j # 1
    <3>1. b \in 0 .. c - 1 /\ j - 1 \in 1 .. Len(h) - 1 /\ (j - 1) + 1 = j /\ j > 1
      BY <1>1, <1>2, <1>7, <2>5
    <3> DEFINE t == S(j - 1)
    <3>2. /\ h[j - 1] \in SlotCount /\ h[j - 1] < p /\ t \in Int
          /\ t = Slope(l, h[j - 1], p)
      BY <1>10, <3>1
    <3>3. Height(l, b) <= Line(l, h[j - 1], p, b)
      BY <1>2, <3>1
    <3>4. Line(l, h[j - 1], p, b) = Height(l, p) + t * (b - p)
      BY <1>8, <2>1, <3>2, LineBothEnds
    <3>5. s < t
      BY <1>11, <3>1
    <3> HIDE DEF s, t, p, S
    <3>6. b - p \in Int /\ b - p <= 0 /\ Height(l, b) \in Int /\ s <= t
      BY <1>1, <1>9, <2>1, <2>5, <3>2, <3>5, HitsAreNat
    <3>7. Height(l, p) + t * (b - p) <= Height(l, p) + s * (b - p)
      BY <1>9, <3>2, <3>6, SteeperLine
    <3>8. t * (b - p) \in Int /\ s * (b - p) \in Int
      BY <1>9, <3>2, <3>6
    <3> QED
      BY <1>9, <2>1, <3>3, <3>4, <3>6, <3>7, <3>8
  <2> QED
    BY <2>2, <2>3, <2>4, <2>5
<1>19. ASSUME NEW k \in 1 .. j, NEW b \in 0 .. c
       PROVE  Height(l, b) <= Line(l, g[k], g[k + 1], b)
  <2>1. CASE k = j
    <3>1. g[k] = p /\ g[k + 1] = c
      BY <1>6, <2>1
    <3> QED
      BY <1>18, <3>1
  <2>2. CASE k # j
    <3>1. k \in 1 .. j - 1 /\ k \in 1 .. j /\ k + 1 \in 1 .. j
      BY <1>7, <2>2
    <3>2. g[k] = h[k] /\ g[k + 1] = h[k + 1]
      BY <1>6, <3>1
    <3> QED
      BY <1>17, <3>1, <3>2
  <2> QED
    BY <2>1, <2>2
<1>20. g[1] = 0 /\ g[Len(g)] = c /\ Len(g) \in Nat \ {0} /\ Len(g) - 1 = j
  BY <1>2, <1>6, <1>7
<1>21. HullInv(l, g, c)
  BY <1>6, <1>14, <1>16, <1>19, <1>20 DEF HullInv
<1> QED
  BY <1>21 DEF g

\* u lists the hulls of the first 0 to n slot counts.
Hulls(l, n, u) ==
    /\ u = [i \in 0 .. n |-> u[i]] /\ u[0] = <<0>>
    /\ \A k \in 1 .. n : u[k] = WithPoint(l, u[k - 1], k)

LEMMA HullsExtend ==
  ASSUME NEW l, NEW n \in Nat, NEW u, Hulls(l, n, u)
  PROVE  \E v : Hulls(l, n + 1, v)
<1> DEFINE x == WithPoint(l, u[n], n + 1)
           v == [i \in 0 .. n + 1 |-> IF i = n + 1 THEN x ELSE u[i]]
<1> HIDE DEF x
<1>1. v[0] = <<0>> /\ v = [i \in 0 .. n + 1 |-> v[i]]
  BY DEF Hulls
<1>2. ASSUME NEW k \in 1 .. n + 1 PROVE v[k] = WithPoint(l, v[k - 1], k)
  <2>1. k - 1 \in 0 .. n + 1 /\ k - 1 # n + 1 /\ k \in 0 .. n + 1
    OBVIOUS
  <2>2. v[k - 1] = u[k - 1]
    BY <2>1
  <2>3. CASE k = n + 1
    <3>1. v[k] = x /\ k - 1 = n
      BY <2>1, <2>3
    <3> HIDE DEF v
    <3> QED
      BY <2>2, <2>3, <3>1 DEF x
  <2>4. CASE k # n + 1
    <3>1. v[k] = u[k] /\ k \in 1 .. n
      BY <2>1, <2>4
    <3>2. u[k] = WithPoint(l, u[k - 1], k)
      BY <3>1 DEF Hulls
    <3> HIDE DEF v
    <3> QED
      BY <2>2, <3>1, <3>2
  <2> QED
    BY <2>3, <2>4
<1> HIDE DEF v
<1> QED
  BY <1>1, <1>2 DEF Hulls

LEMMA HullsExist ==
  ASSUME NEW l, NEW n \in Nat
  PROVE  \E u : Hulls(l, n, u)
<1> DEFINE T == {k \in Nat : \E u : Hulls(l, k, u)}
<1>1. 0 \in T
  <2>1. Hulls(l, 0, [i \in 0 .. 0 |-> <<0>>])
    BY DEF Hulls
  <2> QED
    BY <2>1
<1>2. ASSUME NEW k \in 0 .. n - 1, k \in T PROVE k + 1 \in T
  BY <1>2, HullsExtend
<1> HIDE DEF T
<1>3. n \in T
  BY <1>1, <1>2, CountUpTo
<1> QED
  BY <1>3 DEF T

\* The monotone chain ends with the hull of all slot counts.
LEMMA ChainIsHull ==
  ASSUME Counted, NEW l \in Layer
  PROVE  HullInv(l, Chain(l), NExpert)
<1> DEFINE IsHull(u) ==
      u = [c \in 0 .. NExpert |-> IF c = 0 THEN <<0>> ELSE WithPoint(l, u[c - 1], c)]
           w == CHOOSE u : IsHull(u)
<1>0. NExpert \in Nat
  BY MrcAssumption
<1>1. PICK u : Hulls(l, NExpert, u)
  BY <1>0, HullsExist
<1>2. IsHull(u)
  <2>1. \A c \in 0 .. NExpert : u[c] = IF c = 0 THEN <<0>> ELSE WithPoint(l, u[c - 1], c)
    <3> TAKE c \in 0 .. NExpert
    <3>1. c # 0 => c \in 1 .. NExpert
      BY <1>0
    <3> QED
      BY <1>1, <3>1 DEF Hulls
  <2>2. u = [c \in 0 .. NExpert |-> u[c]]
    BY <1>1 DEF Hulls
  <2> QED
    BY <2>1, <2>2
<1>3. IsHull(w)
  <2>1. \E x : IsHull(x)
    BY <1>2
  <2> HIDE DEF IsHull
  <2> QED
    BY <2>1
<1>4. Chain(l) = w[NExpert]
  BY DEF Chain
<1> HIDE DEF w
<1>5. \A c \in 0 .. NExpert : w[c] = IF c = 0 THEN <<0>> ELSE WithPoint(l, w[c - 1], c)
  BY <1>3
<1> HIDE DEF IsHull
<1> DEFINE T == {c \in 0 .. NExpert : HullInv(l, w[c], c)}
<1>6. 0 \in T
  BY <1>0, <1>5, HullStart
<1>7. ASSUME NEW c \in 0 .. NExpert - 1, c \in T PROVE c + 1 \in T
  <2>1. c + 1 \in 1 .. NExpert /\ c + 1 \in 0 .. NExpert /\ (c + 1) - 1 = c /\ c + 1 # 0
    BY <1>0
  <2>2. w[c + 1] = WithPoint(l, w[c], c + 1)
    BY <1>5, <2>1
  <2>3. HullInv(l, w[c], (c + 1) - 1)
    BY <1>7, <2>1
  <2> HIDE DEF T
  <2>4. HullInv(l, WithPoint(l, w[c], c + 1), c + 1)
    BY <2>1, <2>3, HullGrows
  <2> QED
    BY <2>1, <2>2, <2>4 DEF T
<1> HIDE DEF T
<1>8. NExpert \in T
  BY <1>0, <1>6, <1>7, CountUpTo
<1> QED
  BY <1>4, <1>8 DEF T

LEMMA ChainPoints ==
  ASSUME Counted, NEW l \in Layer
  PROVE  /\ Chain(l) \in Seq(SlotCount) /\ Len(Chain(l)) \in Nat \ {0}
         /\ Chain(l)[1] = 0 /\ Chain(l)[Len(Chain(l))] = NExpert
         /\ \A i \in 1 .. Len(Chain(l)) : Chain(l)[i] \in SlotCount /\ Chain(l)[i] \in Int
         /\ \A i, j \in 1 .. Len(Chain(l)) : i < j => Chain(l)[i] < Chain(l)[j]
<1>1. HullInv(l, Chain(l), NExpert)
  BY ChainIsHull
<1>2. Chain(l) \in Seq(SlotCount) /\ Len(Chain(l)) \in Nat \ {0}
  BY <1>1 DEF HullInv, SlotCount
<1>3. ASSUME NEW i \in 1 .. Len(Chain(l))
      PROVE  Chain(l)[i] \in SlotCount /\ Chain(l)[i] \in Int
  <2>1. Chain(l)[i] \in SlotCount
    BY <1>2, ElementOfSeq
  <2> QED
    BY <2>1, MrcAssumption DEF SlotCount
<1> QED
  BY <1>1, <1>2, <1>3 DEF HullInv

\* The slope of the hull's segment i, and that slopes decrease.
SlopeOf(l, i) == Slope(l, Chain(l)[i], Chain(l)[i + 1])

LEMMA ChainSlopes ==
  ASSUME Counted, NEW l \in Layer, NEW i \in 1 .. Len(Chain(l)) - 1
  PROVE  /\ i \in 1 .. Len(Chain(l)) /\ i + 1 \in 1 .. Len(Chain(l))
         /\ Chain(l)[i] \in SlotCount /\ Chain(l)[i + 1] \in SlotCount
         /\ Chain(l)[i] < Chain(l)[i + 1]
         /\ SlopeOf(l, i) \in Int
         /\ \A j \in 1 .. Len(Chain(l)) - 1 : i < j => SlopeOf(l, j) < SlopeOf(l, i)
<1> DEFINE h == Chain(l)
<1>1. /\ Len(h) \in Nat \ {0} /\ \A k \in 1 .. Len(h) : h[k] \in SlotCount
      /\ \A k, j \in 1 .. Len(h) : k < j => h[k] < h[j]
  BY ChainPoints
<1>2. i \in 1 .. Len(h) /\ i + 1 \in 1 .. Len(h) /\ i < i + 1
  BY <1>1
<1>3. h[i] \in SlotCount /\ h[i + 1] \in SlotCount /\ h[i] < h[i + 1]
  BY <1>1, <1>2
<1>4. SlopeOf(l, i) \in Int
  BY <1>3, SlopeIsExact DEF SlopeOf
<1>5. HullInv(l, h, NExpert)
  BY ChainIsHull
<1> QED
  BY <1>2, <1>3, <1>4, <1>5 DEF HullInv, SlopeOf

\* Where the slopes fall below a price per slot, hits less price are greatest.
LEMMA VertexIsOptimal ==
  ASSUME Counted, NEW l \in Layer, NEW k \in 1 .. Len(Chain(l)), NEW price \in Int,
         \A i \in 1 .. Len(Chain(l)) - 1 :
            /\ i < k => price <= SlopeOf(l, i)
            /\ i >= k => SlopeOf(l, i) <= price
  PROVE  \A c \in SlotCount :
            Height(l, c) <= Height(l, Chain(l)[k]) + price * (c - Chain(l)[k])
<1> DEFINE h == Chain(l)
           p == h[k]
<1>1. /\ Len(h) \in Nat \ {0} /\ h[1] = 0 /\ h[Len(h)] = NExpert
      /\ p \in SlotCount /\ p \in Int /\ k \in Nat \ {0} /\ k <= Len(h)
  BY ChainPoints
<1>2. \A i \in 1 .. Len(h) - 1, b \in SlotCount : Height(l, b) <= Line(l, h[i], h[i + 1], b)
  BY ChainIsHull DEF HullInv, SlotCount
<1>3. Height(l, p) \in Int
  BY <1>1, HitsAreNat
<1> SUFFICES ASSUME NEW c \in SlotCount
             PROVE  Height(l, c) <= Height(l, p) + price * (c - p)
  OBVIOUS
<1>4. c \in Int /\ c >= 0 /\ c <= NExpert /\ NExpert \in Nat
  BY MrcAssumption DEF SlotCount
<1>5. Height(l, c) \in Int
  BY HitsAreNat
<1>6. CASE c = p
  <2>1. price * (c - p) = 0
    <3> HIDE DEF p
    <3> QED
      BY <1>1, <1>6
  <2> HIDE DEF p
  <2> QED
    BY <1>3, <1>6, <2>1
<1>7. CASE c > p
  <2>1. k \in 1 .. Len(h) - 1
    BY <1>1, <1>4, <1>7
  <2> DEFINE t == SlopeOf(l, k)
  <2>2. t \in Int /\ t <= price
    BY <2>1, ChainSlopes
  <2>3. Height(l, c) <= Height(l, p) + t * (c - p)
    BY <1>2, <2>1 DEF Line, SlopeOf
  <2> HIDE DEF t, p
  <2>4. c - p \in Int /\ c - p >= 0
    BY <1>1, <1>4, <1>7
  <2>5. Height(l, p) + t * (c - p) <= Height(l, p) + price * (c - p)
    BY <1>3, <2>2, <2>4, SteeperLine
  <2>6. t * (c - p) \in Int /\ price * (c - p) \in Int
    BY <2>2, <2>4
  <2> QED
    BY <1>3, <1>5, <2>3, <2>5, <2>6
<1>8. CASE c < p
  <2>1. k - 1 \in 1 .. Len(h) - 1 /\ (k - 1) + 1 = k /\ k - 1 < k
    BY <1>1, <1>4, <1>8
  <2> DEFINE t == SlopeOf(l, k - 1)
             q == h[k - 1]
  <2>2. /\ t \in Int /\ q \in SlotCount /\ q < p /\ t = Slope(l, q, p)
    BY <2>1, ChainSlopes DEF SlopeOf
  <2>3. price <= t
    BY <2>1
  <2>4. Height(l, c) <= Line(l, q, p, c)
    BY <1>2, <2>1
  <2> HIDE DEF t, p, q
  <2>5. Line(l, q, p, c) = Height(l, p) + t * (c - p)
    <3>1. p \in SlotCount /\ q \in SlotCount /\ q < p /\ c \in Int
      BY <1>1, <1>4, <2>2
    <3>2. Line(l, q, p, c) = Height(l, p) + Slope(l, q, p) * (c - p)
      BY <3>1, LineBothEnds
    <3> QED
      BY <2>2, <3>2
  <2>6. c - p \in Int /\ c - p <= 0
    BY <1>1, <1>4, <1>8
  <2>7. Height(l, p) + t * (c - p) <= Height(l, p) + price * (c - p)
    BY <1>3, <2>2, <2>3, <2>6, SteeperLine
  <2>8. t * (c - p) \in Int /\ price * (c - p) \in Int
    BY <2>2, <2>6
  <2> QED
    BY <1>3, <1>5, <2>4, <2>5, <2>7, <2>8
<1> QED
  BY <1>1, <1>4, <1>6, <1>7, <1>8
-----------------------------------------------------------------------------
(* Sums over the layers.                                                   *)

Summed(f, g) ==
    /\ \A n \in 0 .. NLayer : g[n] \in Int
    /\ g[0] = 0 /\ \A n \in 0 .. NLayer - 1 : g[n + 1] = g[n] + f[n]
    /\ OverLayers(f) = g[NLayer]

LEMMA LayersSummed ==
  ASSUME NEW f \in [Layer -> Int]
  PROVE  OverLayers(f) \in Int /\ \E g : Summed(f, g)
<1>1. NLayer \in Nat /\ NLayer \in 0 .. NLayer /\ f \in [0 .. NLayer - 1 -> Int]
  BY MrcAssumption DEF Layer
<1>2. PICK g : Partial(f, g, NLayer)
  BY <1>1, SumExists
<1>3. OverLayers(f) = g[NLayer]
  BY <1>1, <1>2, SumIsHitsAt DEF OverLayers
<1>4. \A n \in 0 .. NLayer - 1 : g[n + 1] = g[n] + f[n]
  <2> TAKE n \in 0 .. NLayer - 1
  <2>1. n + 1 \in 1 .. NLayer /\ (n + 1) - 1 = n
    BY <1>1
  <2>2. g[n + 1] = g[(n + 1) - 1] + f[(n + 1) - 1]
    BY <1>2, <2>1 DEF Partial
  <2> QED
    BY <2>1, <2>2
<1>5. (\A n \in 0 .. NLayer : g[n] \in Int) /\ g[0] = 0
  BY <1>2 DEF Partial
<1>6. Summed(f, g)
  BY <1>3, <1>4, <1>5 DEF Summed
<1> QED
  BY <1>1, <1>3, <1>5, <1>6

LEMMA BoundsAdd ==
  ASSUME NEW F \in Int, NEW G \in Int, NEW D \in Int, NEW f \in Int, NEW g \in Int,
         NEW d \in Int, NEW p \in Int, NEW s \in Int,
         F * s <= G * s + p * D, f * s <= g * s + p * d
  PROVE  (F + f) * s <= (G + g) * s + p * (D + d)
<1>1. /\ (F + f) * s = F * s + f * s /\ (G + g) * s = G * s + g * s
      /\ p * (D + d) = p * D + p * d
  OBVIOUS
<1>2. /\ F * s \in Int /\ f * s \in Int /\ G * s \in Int /\ g * s \in Int
      /\ p * D \in Int /\ p * d \in Int
  OBVIOUS
<1> QED
  BY <1>1, <1>2

\* A bound on every layer, with a price per slot, is a bound on the sums.
LEMMA LayersBound ==
  ASSUME NEW f \in [Layer -> Int], NEW g \in [Layer -> Int], NEW a \in [Layer -> Int],
         NEW x \in [Layer -> Int], NEW p \in Int,
         \A l \in Layer : f[l] * Scale <= g[l] * Scale + p * (a[l] - x[l])
  PROVE  OverLayers(f) * Scale
            <= OverLayers(g) * Scale + p * (OverLayers(a) - OverLayers(x))
<1>0. NLayer \in Nat /\ Scale \in Int /\ Layer = 0 .. NLayer - 1
  BY MrcAssumption, ScaleAssumption DEF Layer
<1>1. PICK F : Summed(f, F)
  BY LayersSummed
<1>2. PICK G : Summed(g, G)
  BY LayersSummed
<1>3. PICK A : Summed(a, A)
  BY LayersSummed
<1>4. PICK X : Summed(x, X)
  BY LayersSummed
<1> DEFINE T == {n \in 0 .. NLayer : F[n] * Scale <= G[n] * Scale + p * (A[n] - X[n])}
<1>5. 0 \in T
  <2>1. F[0] = 0 /\ G[0] = 0 /\ A[0] = 0 /\ X[0] = 0
    BY <1>1, <1>2, <1>3, <1>4 DEF Summed
  <2>2. 0 * Scale <= 0 * Scale + p * (0 - 0)
    BY <1>0
  <2> QED
    BY <1>0, <2>1, <2>2
<1>6. ASSUME NEW n \in 0 .. NLayer - 1, n \in T PROVE n + 1 \in T
  <2>0. n + 1 \in 0 .. NLayer /\ n \in 0 .. NLayer /\ n \in Layer
    BY <1>0
  <2>1. F[n] \in Int /\ G[n] \in Int /\ A[n] \in Int /\ X[n] \in Int
    BY <1>1, <1>2, <1>3, <1>4, <2>0 DEF Summed
  <2>2. f[n] \in Int /\ g[n] \in Int /\ a[n] \in Int /\ x[n] \in Int
    BY <2>0
  <2>3. /\ F[n + 1] = F[n] + f[n] /\ G[n + 1] = G[n] + g[n]
        /\ A[n + 1] = A[n] + a[n] /\ X[n + 1] = X[n] + x[n]
    BY <1>1, <1>2, <1>3, <1>4 DEF Summed
  <2>4. /\ F[n] * Scale <= G[n] * Scale + p * (A[n] - X[n])
        /\ f[n] * Scale <= g[n] * Scale + p * (a[n] - x[n])
    BY <1>6, <2>0
  <2>5. A[n] - X[n] \in Int /\ a[n] - x[n] \in Int
    BY <2>1, <2>2
  <2>6. (F[n] + f[n]) * Scale
           <= (G[n] + g[n]) * Scale + p * ((A[n] - X[n]) + (a[n] - x[n]))
    BY <1>0, <2>1, <2>2, <2>4, <2>5, BoundsAdd
  <2>7. (A[n] + a[n]) - (X[n] + x[n]) = (A[n] - X[n]) + (a[n] - x[n])
    BY <2>1, <2>2
  <2>8. F[n + 1] * Scale <= G[n + 1] * Scale + p * (A[n + 1] - X[n + 1])
    BY <2>3, <2>6, <2>7
  <2> QED
    BY <2>0, <2>8
<1> HIDE DEF T
<1>7. NLayer \in T
  BY <1>0, <1>5, <1>6, CountUpTo
<1> QED
  BY <1>1, <1>2, <1>3, <1>4, <1>7 DEF T, Summed

LEMMA LayersConst ==
  ASSUME NEW v \in Int
  PROVE  OverLayers([l \in Layer |-> v]) = v * NLayer
<1> DEFINE f == [l \in Layer |-> v]
<1>0. NLayer \in Nat /\ Layer = 0 .. NLayer - 1 /\ f \in [Layer -> Int]
  BY MrcAssumption DEF Layer
<1>1. \A l \in Layer : f[l] = v
  OBVIOUS
<1> HIDE DEF f
<1>2. PICK g : Summed(f, g)
  BY <1>0, LayersSummed
<1> DEFINE T == {n \in 0 .. NLayer : g[n] = v * n}
<1>3. 0 \in T
  BY <1>0, <1>2 DEF Summed
<1>4. ASSUME NEW n \in 0 .. NLayer - 1, n \in T PROVE n + 1 \in T
  <2>1. g[n + 1] = g[n] + f[n] /\ f[n] = v /\ g[n] = v * n
    BY <1>0, <1>1, <1>2, <1>4 DEF Summed
  <2>2. v * n + v = v * (n + 1) /\ n + 1 \in 0 .. NLayer
    BY <1>0
  <2> QED
    BY <2>1, <2>2
<1> HIDE DEF T
<1>5. NLayer \in T
  BY <1>0, <1>3, <1>4, CountUpTo
<1>6. OverLayers(f) = v * NLayer
  BY <1>2, <1>5 DEF T, Summed
<1> QED
  BY <1>6 DEF f

LEMMA LayersChange ==
  ASSUME NEW f \in [Layer -> Int], NEW l \in Layer, NEW y \in Int
  PROVE  OverLayers([f EXCEPT ![l] = y]) = OverLayers(f) - f[l] + y
<1> DEFINE k == [f EXCEPT ![l] = y]
<1>0. NLayer \in Nat /\ Layer = 0 .. NLayer - 1 /\ k \in [Layer -> Int] /\ l \in 0 .. NLayer - 1
  BY MrcAssumption DEF Layer
<1>1. (\A i \in Layer : k[i] = IF i = l THEN y ELSE f[i]) /\ f[l] \in Int
  OBVIOUS
<1> HIDE DEF k
<1>2. PICK F : Summed(f, F)
  BY LayersSummed
<1>3. PICK K : Summed(k, K)
  BY <1>0, LayersSummed
<1> DEFINE T == {n \in 0 .. NLayer : K[n] = IF n <= l THEN F[n] ELSE F[n] - f[l] + y}
<1>4. 0 \in T
  BY <1>0, <1>2, <1>3 DEF Summed
<1>5. ASSUME NEW n \in 0 .. NLayer - 1, n \in T PROVE n + 1 \in T
  <2>1. /\ K[n + 1] = K[n] + k[n] /\ F[n + 1] = F[n] + f[n]
        /\ F[n] \in Int /\ n \in Layer /\ n + 1 \in 0 .. NLayer /\ n \in 0 .. NLayer
    BY <1>0, <1>2, <1>3 DEF Summed
  <2>2. f[n] \in Int /\ k[n] = (IF n = l THEN y ELSE f[n])
    BY <1>1, <2>1
  <2>3. K[n] = IF n <= l THEN F[n] ELSE F[n] - f[l] + y
    BY <1>5
  <2>4. K[n + 1] = IF n + 1 <= l THEN F[n + 1] ELSE F[n + 1] - f[l] + y
    <3>1. CASE n < l
      BY <1>0, <2>1, <2>2, <2>3, <3>1
    <3>2. CASE n = l
      BY <1>0, <1>1, <2>1, <2>2, <2>3, <3>2
    <3>3. CASE n > l
      BY <1>0, <1>1, <2>1, <2>2, <2>3, <3>3
    <3> QED
      BY <1>0, <3>1, <3>2, <3>3
  <2> QED
    BY <2>1, <2>4
<1> HIDE DEF T
<1>6. NLayer \in T
  BY <1>0, <1>4, <1>5, CountUpTo
<1>7. OverLayers(k) = OverLayers(f) - f[l] + y
  <2>1. K[NLayer] = F[NLayer] - f[l] + y
    BY <1>0, <1>6 DEF T
  <2> QED
    BY <1>2, <1>3, <2>1 DEF Summed
<1> QED
  BY <1>7 DEF k
-----------------------------------------------------------------------------
(* The segments, taken in the order of their slopes.                       *)

SegmentOf(l, i) == Segment(l, Chain(l)[i], Chain(l)[i + 1])

LEMMA SegmentsAre ==
  /\ \A l \in Layer : \A i \in 1 .. Len(Chain(l)) - 1 : SegmentOf(l, i) \in Segments
  /\ \A s \in Segments : \E l \in Layer : \E i \in 1 .. Len(Chain(l)) - 1 : s = SegmentOf(l, i)
BY DEF Segments, SegmentOf

LEMMA SegmentFields ==
  ASSUME NEW l, NEW i
  PROVE  /\ SegmentOf(l, i).slope = SlopeOf(l, i) /\ SegmentOf(l, i).layer = l
         /\ SegmentOf(l, i).from = Chain(l)[i]
         /\ SegmentOf(l, i).n = Chain(l)[i + 1] - Chain(l)[i]
BY DEF SegmentOf, Segment, SlopeOf

\* A segment's fields are numbers.
LEMMA SegmentsAreTyped ==
  ASSUME Counted, NEW s \in Segments
  PROVE  s.slope \in Int /\ s.n \in Nat \ {0} /\ s.layer \in Layer /\ s.from \in Int
<1>1. PICK l \in Layer : \E i \in 1 .. Len(Chain(l)) - 1 : s = SegmentOf(l, i)
  BY SegmentsAre
<1>2. PICK i \in 1 .. Len(Chain(l)) - 1 : s = SegmentOf(l, i)
  BY <1>1
<1>3. /\ Chain(l)[i] \in SlotCount /\ Chain(l)[i + 1] \in SlotCount
      /\ Chain(l)[i] < Chain(l)[i + 1] /\ SlopeOf(l, i) \in Int
  BY ChainSlopes
<1>4. /\ s.slope = SlopeOf(l, i) /\ s.layer = l
      /\ s.from = Chain(l)[i] /\ s.n = Chain(l)[i + 1] - Chain(l)[i]
  BY <1>2, SegmentFields
<1>5. Chain(l)[i] \in Int /\ Chain(l)[i + 1] \in Int
  BY <1>3, MrcAssumption DEF SlotCount
<1>6. Chain(l)[i + 1] - Chain(l)[i] \in Nat \ {0}
  BY <1>3, <1>5
<1> QED
  BY <1>3, <1>4, <1>5, <1>6

\* No slope exceeds the first slopes of all layers.
LEMMA SlopesAreBounded ==
  ASSUME Counted
  PROVE  \E B \in Nat : \A s \in Segments : s.slope <= B
<1> DEFINE Within(n, B) ==
      \A l \in Layer : l < n => \A i \in 1 .. Len(Chain(l)) - 1 : SlopeOf(l, i) <= B
           T == {n \in 0 .. NLayer : \E B \in Nat : Within(n, B)}
<1>0. NLayer \in Nat /\ Layer = 0 .. NLayer - 1
  BY MrcAssumption DEF Layer
<1>1. 0 \in T
  <2>1. Within(0, 0)
    BY <1>0
  <2> QED
    BY <1>0, <2>1
<1>2. ASSUME NEW n \in 0 .. NLayer - 1, n \in T PROVE n + 1 \in T
  <2>1. PICK B \in Nat : Within(n, B)
    BY <1>2
  <2>2. n \in Layer /\ n + 1 \in 0 .. NLayer
    BY <1>0
  <2> DEFINE D == IF 1 <= Len(Chain(n)) - 1 /\ SlopeOf(n, 1) > B THEN SlopeOf(n, 1) ELSE B
  <2>3. D \in Nat /\ B <= D /\ \A i \in 1 .. Len(Chain(n)) - 1 : SlopeOf(n, i) <= D
    <3>1. Len(Chain(n)) \in Nat \ {0}
      BY <2>2, ChainPoints
    <3>2. CASE 1 <= Len(Chain(n)) - 1
      <4>1. 1 \in 1 .. Len(Chain(n)) - 1
        BY <3>1, <3>2
      <4>2. /\ SlopeOf(n, 1) \in Int
            /\ \A i \in 1 .. Len(Chain(n)) - 1 : 1 < i => SlopeOf(n, i) < SlopeOf(n, 1)
        BY <2>2, <4>1, ChainSlopes
      <4>3. \A i \in 1 .. Len(Chain(n)) - 1 : SlopeOf(n, i) \in Int
        BY <2>2, ChainSlopes
      <4>4. \A i \in 1 .. Len(Chain(n)) - 1 : SlopeOf(n, i) <= SlopeOf(n, 1)
        <5> TAKE i \in 1 .. Len(Chain(n)) - 1
        <5>1. i = 1 \/ 1 < i
          BY <3>1
        <5> QED
          BY <4>2, <4>3, <5>1
      <4> QED
        BY <2>1, <3>2, <4>2, <4>3, <4>4
    <3>3. CASE ~(1 <= Len(Chain(n)) - 1)
      BY <3>1, <3>3
    <3> QED
      BY <3>2, <3>3
  <2> HIDE DEF D
  <2>4. Within(n + 1, D)
    <3> SUFFICES ASSUME NEW l \in Layer, l < n + 1, NEW i \in 1 .. Len(Chain(l)) - 1
                 PROVE  SlopeOf(l, i) <= D
      OBVIOUS
    <3>1. SlopeOf(l, i) \in Int
      BY ChainSlopes
    <3>2. l = n \/ l < n
      BY <1>0, <2>2
    <3> QED
      BY <2>1, <2>3, <3>1, <3>2
  <2> QED
    BY <2>2, <2>3, <2>4
<1> HIDE DEF T, Within
<1>3. NLayer \in T
  BY <1>0, <1>1, <1>2, CountUpTo
<1>4. PICK B \in Nat : Within(NLayer, B)
  BY <1>3 DEF T
<1>5. ASSUME NEW s \in Segments PROVE s.slope <= B
  <2>1. PICK l \in Layer : \E i \in 1 .. Len(Chain(l)) - 1 : s = SegmentOf(l, i)
    BY SegmentsAre
  <2>2. PICK i \in 1 .. Len(Chain(l)) - 1 : s = SegmentOf(l, i)
    BY <2>1
  <2>3. s.slope = SlopeOf(l, i)
    BY <2>2, SegmentFields
  <2>4. l < NLayer
    BY <1>0
  <2> QED
    BY <1>4, <2>3, <2>4 DEF Within
<1> QED
  BY <1>5

\* Among rising segments one is the steepest.
LEMMA SteepestIs ==
  ASSUME Counted, NEW segs \in SUBSET Rising, segs # {}
  PROVE  Steepest(segs) \in segs /\ \A t \in segs : t.slope <= Steepest(segs).slope
<1>1. PICK B \in Nat : \A s \in Segments : s.slope <= B
  BY SlopesAreBounded
<1> DEFINE S == {s.slope : s \in segs}
<1>2. S \in SUBSET (1 .. B) /\ S # {}
  <2>1. ASSUME NEW s \in segs PROVE s.slope \in 1 .. B
    <3>1. s \in Segments /\ s.slope > 0
      BY DEF Rising
    <3>2. s.slope \in Int /\ s.slope <= B
      BY <1>1, <3>1, SegmentsAreTyped
    <3> QED
      BY <3>1, <3>2
  <2> QED
    BY <2>1
<1>3. Max(S) \in S /\ \A x \in S : x <= Max(S)
  <2> HIDE DEF S
  <2> QED
    BY <1>2, MaxIsGreatest
<1>4. \E s \in segs : \A t \in segs : t.slope <= s.slope
  BY <1>3
<1> QED
  BY <1>4 DEF Steepest

HitsWith(x) == OverLayers([l \in Layer |-> Hits(l, x[l])])

\* Before a segment is cut: every layer has the slots of a point of its hull, the
\* segments behind it have been taken and are the steeper ones, at price or above.
Ordered(budget, got, price) ==
    /\ price \in Nat /\ got.left \in Nat /\ got.cut = FALSE
    /\ got.slots \in [Layer -> SlotCount]
    /\ \A l \in Layer : \E k \in 1 .. Len(Chain(l)) : Chain(l)[k] = got.slots[l]
    /\ got.segs = {s \in Rising : s.from >= got.slots[s.layer]}
    /\ \A s \in Segments : s.from < got.slots[s.layer] => price <= s.slope
    /\ \A s \in got.segs : s.slope <= price
    /\ got.left = budget - OverLayers(got.slots)
    /\ got.hits = HitsWith(got.slots) * Scale

\* At a price, x brings each layer the most, and hits what x brings with what is
\* left of the budget sold at that price.
BestAt(budget, hits, x, price) ==
    /\ price \in Nat /\ x \in [Layer -> SlotCount]
    /\ \A l \in Layer : \A c \in SlotCount :
          Height(l, c) <= Height(l, x[l]) + price * (c - x[l])
    /\ hits = HitsWith(x) * Scale + price * (budget - OverLayers(x))

LEMMA OrderedIsBest ==
  ASSUME Counted, NEW budget, NEW got, NEW price, Ordered(budget, got, price),
         NEW p \in Nat, p <= price, \A s \in got.segs : s.slope <= p
  PROVE  \A l \in Layer : \A c \in SlotCount :
            Height(l, c) <= Height(l, got.slots[l]) + p * (c - got.slots[l])
<1> TAKE l \in Layer
<1> DEFINE h == Chain(l)
           x == got.slots[l]
<1>1. PICK k \in 1 .. Len(h) : h[k] = x
  BY DEF Ordered
<1>2. price \in Nat
  BY DEF Ordered
<1>3. ASSUME NEW i \in 1 .. Len(h) - 1
      PROVE  (i < k => p <= SlopeOf(l, i)) /\ (i >= k => SlopeOf(l, i) <= p)
  <2> DEFINE s == SegmentOf(l, i)
  <2>1. s \in Segments /\ s.slope = SlopeOf(l, i) /\ s.layer = l /\ s.from = h[i]
    BY SegmentsAre, SegmentFields
  <2>2. SlopeOf(l, i) \in Int /\ i \in 1 .. Len(h)
    BY ChainSlopes
  <2>3. \A j \in 1 .. Len(h) : h[j] \in Int
    BY ChainPoints
  <2> HIDE DEF s
  <2>4. ASSUME i < k PROVE p <= SlopeOf(l, i)
    <3>1. h[i] < h[k]
      BY <2>2, <2>4, ChainPoints
    <3>2. s.from < got.slots[s.layer]
      BY <1>1, <2>1, <3>1
    <3>3. price <= s.slope
      BY <2>1, <3>2 DEF Ordered
    <3> QED
      BY <1>2, <2>1, <2>2, <3>3
  <2>5. ASSUME i >= k, SlopeOf(l, i) > 0 PROVE SlopeOf(l, i) <= p
    <3>1. h[i] >= h[k]
      <4>1. i = k \/ k < i
        BY <2>2, <2>5
      <4>2. k < i => h[k] < h[i]
        BY <2>2, ChainPoints
      <4> QED
        BY <2>2, <2>3, <4>1, <4>2
    <3>2. s \in Rising /\ s.from >= got.slots[s.layer]
      BY <1>1, <2>1, <2>5, <3>1 DEF Rising
    <3>3. s \in got.segs
      BY <3>2 DEF Ordered
    <3> QED
      BY <2>1, <3>3
  <2>6. ~(SlopeOf(l, i) > 0) => SlopeOf(l, i) <= p
    BY <2>2
  <2> QED
    BY <2>4, <2>5, <2>6
<1>4. \A c \in SlotCount : Height(l, c) <= Height(l, h[k]) + p * (c - h[k])
  BY <1>3, VertexIsOptimal
<1> QED
  BY <1>1, <1>4

LEMMA SlotsAreInt ==
  ASSUME Counted, NEW x \in [Layer -> SlotCount]
  PROVE  /\ x \in [Layer -> Int] /\ OverLayers(x) \in Int
         /\ [l \in Layer |-> Hits(l, x[l])] \in [Layer -> Int] /\ HitsWith(x) \in Int
<1>1. x \in [Layer -> Int]
  BY MrcAssumption DEF SlotCount
<1>2. [l \in Layer |-> Hits(l, x[l])] \in [Layer -> Int]
  <2>1. \A l \in Layer : Hits(l, x[l]) \in Int
    BY HitsAreNat
  <2> QED
    BY <2>1
<1> QED
  BY <1>1, <1>2, LayersSummed DEF HitsWith

\* The steepest segment left starts where its layer stands.
LEMMA NextSegment ==
  ASSUME Counted, NEW budget, NEW got, NEW price, Ordered(budget, got, price),
         NEW s \in got.segs, \A t \in got.segs : t.slope <= s.slope
  PROVE  \E l \in Layer : \E i \in 1 .. Len(Chain(l)) - 1 :
            s = SegmentOf(l, i) /\ got.slots[l] = Chain(l)[i]
<1>1. s \in Segments /\ s.slope > 0 /\ s.from >= got.slots[s.layer]
  BY DEF Ordered, Rising
<1>2. PICK l \in Layer : \E i \in 1 .. Len(Chain(l)) - 1 : s = SegmentOf(l, i)
  BY <1>1, SegmentsAre
<1>3. PICK i \in 1 .. Len(Chain(l)) - 1 : s = SegmentOf(l, i)
  BY <1>2
<1> DEFINE h == Chain(l)
<1>4. s.slope = SlopeOf(l, i) /\ s.layer = l /\ s.from = h[i]
  BY <1>3, SegmentFields
<1>5. PICK k \in 1 .. Len(h) : h[k] = got.slots[l]
  BY DEF Ordered
<1>6. /\ i \in 1 .. Len(h) /\ SlopeOf(l, i) \in Int /\ Len(h) \in Nat
      /\ \A j \in 1 .. Len(h) : h[j] \in Int
  BY ChainSlopes, ChainPoints
<1>7. h[i] >= h[k]
  BY <1>1, <1>4, <1>5
<1>8. ~(i < k)
  <2>1. i < k => h[i] < h[k]
    BY <1>6, ChainPoints
  <2> QED
    BY <1>6, <1>7, <2>1
<1>9. ~(k < i)
  <2> SUFFICES ASSUME k < i PROVE FALSE
    OBVIOUS
  <2>1. k \in 1 .. Len(h) - 1
    BY <1>6
  <2>2. SlopeOf(l, i) < SlopeOf(l, k) /\ SlopeOf(l, k) \in Int
    BY <2>1, ChainSlopes
  <2> DEFINE t == SegmentOf(l, k)
  <2>3. t \in Segments /\ t.slope = SlopeOf(l, k) /\ t.layer = l /\ t.from = h[k]
    BY <2>1, SegmentsAre, SegmentFields
  <2> HIDE DEF t
  <2>4. t \in Rising
    BY <1>1, <1>4, <1>6, <2>2, <2>3 DEF Rising
  <2>5. t.from >= got.slots[t.layer]
    BY <1>5, <1>6, <2>3
  <2>6. t \in got.segs
    BY <2>4, <2>5 DEF Ordered
  <2>7. t.slope <= s.slope
    BY <2>6
  <2> QED
    BY <1>4, <1>6, <2>2, <2>3, <2>7
<1>10. i = k
  BY <1>6, <1>8, <1>9
<1> QED
  BY <1>3, <1>5, <1>10

LEMMA ChainOrder ==
  ASSUME Counted, NEW l \in Layer, NEW i \in 1 .. Len(Chain(l)), NEW j \in 1 .. Len(Chain(l))
  PROVE  Chain(l)[i] >= Chain(l)[j] <=> i >= j
<1>1. /\ i < j => Chain(l)[i] < Chain(l)[j]
      /\ j < i => Chain(l)[j] < Chain(l)[i]
      /\ Chain(l)[i] \in Int /\ Chain(l)[j] \in Int
  BY ChainPoints
<1>2. i < j \/ i = j \/ j < i
  OBVIOUS
<1> QED
  BY <1>1, <1>2

\* A round takes n slots' worth of s, segment i of layer l, and leaves next.
Takes(got, s, l, i, n, next) ==
    /\ s = SegmentOf(l, i) /\ got.slots[l] = Chain(l)[i]
    /\ \A t \in got.segs : t.slope <= s.slope
    /\ n = IF s.n < got.left THEN s.n ELSE got.left
    /\ next.segs = got.segs \ {s} /\ next.left = got.left - n
    /\ next.hits = got.hits + s.slope * n
    /\ next.slots = [got.slots EXCEPT ![l] = @ + n]
    /\ next.cut = (n < s.n)

LEMMA TakeFields ==
  ASSUME Counted, NEW budget, NEW got, NEW price, Ordered(budget, got, price),
         got.segs # {}, got.left # 0
  PROVE  \E s \in got.segs, l \in Layer, n \in Nat \ {0} :
            \E i \in 1 .. Len(Chain(l)) - 1 : Takes(got, s, l, i, n, Take(got))
<1> DEFINE s == Steepest(got.segs)
           n == IF s.n < got.left THEN s.n ELSE got.left
<1>1. got.segs \in SUBSET Rising /\ got.left \in Nat
  BY DEF Ordered
<1>2. s \in got.segs /\ \A t \in got.segs : t.slope <= s.slope
  BY <1>1, SteepestIs
<1> HIDE DEF s
<1>3. PICK l \in Layer : \E i \in 1 .. Len(Chain(l)) - 1 :
            s = SegmentOf(l, i) /\ got.slots[l] = Chain(l)[i]
  BY <1>2, NextSegment
<1>4. PICK i \in 1 .. Len(Chain(l)) - 1 : s = SegmentOf(l, i) /\ got.slots[l] = Chain(l)[i]
  BY <1>3
<1>5. s.layer = l
  BY <1>4, SegmentFields
<1>6. s.n \in Nat \ {0}
  BY <1>1, <1>2, SegmentsAreTyped DEF Rising
<1>7. n \in Nat \ {0}
  BY <1>1, <1>6
<1>8. Take(got) = [segs |-> got.segs \ {s}, left |-> got.left - n,
                   hits |-> got.hits + s.slope * n,
                   slots |-> [got.slots EXCEPT ![l] = @ + n], cut |-> n < s.n]
  BY <1>5 DEF Take, s
<1>9. n = IF s.n < got.left THEN s.n ELSE got.left
  OBVIOUS
<1> HIDE DEF n
<1>10. /\ Take(got).segs = got.segs \ {s} /\ Take(got).left = got.left - n
       /\ Take(got).hits = got.hits + s.slope * n
       /\ Take(got).slots = [got.slots EXCEPT ![l] = @ + n]
       /\ Take(got).cut = (n < s.n)
  BY <1>8
<1>11. Takes(got, s, l, i, n, Take(got))
  BY <1>2, <1>4, <1>9, <1>10 DEF Takes
<1> QED
  BY <1>2, <1>7, <1>11

\* A segment that is taken whole moves its layer to the next point.
LEMMA WholeOrdered ==
  ASSUME Counted, NEW budget \in Nat, NEW got, NEW price, Ordered(budget, got, price),
         NEW l \in Layer, NEW i \in 1 .. Len(Chain(l)) - 1, NEW s \in got.segs, NEW next,
         s = SegmentOf(l, i), got.slots[l] = Chain(l)[i],
         \A t \in got.segs : t.slope <= s.slope, s.n <= got.left,
         next.segs = got.segs \ {s}, next.left = got.left - s.n,
         next.hits = got.hits + s.slope * s.n,
         next.slots = [got.slots EXCEPT ![l] = @ + s.n], next.cut = FALSE
  PROVE  Ordered(budget, next, s.slope)
<1> DEFINE h == Chain(l)
           x == got.slots
           y == next.slots
<1>1. s.slope = SlopeOf(l, i) /\ s.layer = l /\ s.from = h[i] /\ s.n = h[i + 1] - h[i]
  BY SegmentFields
<1>2. /\ i \in 1 .. Len(h) /\ i + 1 \in 1 .. Len(h) /\ i \in Nat
      /\ h[i] \in SlotCount /\ h[i + 1] \in SlotCount /\ h[i] < h[i + 1]
      /\ SlopeOf(l, i) \in Int
  BY ChainSlopes
<1>3. h[i] \in Int /\ h[i + 1] \in Int
  BY <1>2, MrcAssumption DEF SlotCount
<1>4. s \in Rising /\ s.slope \in Nat /\ s.n \in Nat \ {0} /\ price \in Nat /\ s.slope <= price
  <2>1. s \in Rising /\ price \in Nat /\ s.slope <= price
    BY DEF Ordered
  <2>2. s.slope \in Int /\ s.slope > 0
    BY <1>1, <1>2, <2>1 DEF Rising
  <2> QED
    BY <1>1, <1>2, <1>3, <2>1, <2>2
<1>5. x \in [Layer -> SlotCount] /\ got.left \in Nat
  BY DEF Ordered
<1>6. /\ y = [x EXCEPT ![l] = h[i + 1]] /\ y \in [Layer -> SlotCount]
      /\ y[l] = h[i + 1] /\ \A m \in Layer : m # l => y[m] = x[m]
  <2>1. x[l] + s.n = h[i + 1]
    BY <1>1, <1>3
  <2>2. y = [x EXCEPT ![l] = h[i + 1]]
    BY <2>1
  <2> HIDE DEF x, y
  <2> QED
    BY <1>2, <1>5, <2>2
<1>7. next.left \in Nat
  BY <1>4, <1>5
<1>8. \A m \in Layer : \E k \in 1 .. Len(Chain(m)) : Chain(m)[k] = y[m]
  <2> TAKE m \in Layer
  <2>1. CASE m = l
    BY <1>2, <1>6, <2>1
  <2>2. CASE m # l
    BY <1>6, <2>2 DEF Ordered
  <2> QED
    BY <2>1, <2>2
<1>9. ASSUME NEW t \in Segments, t.layer = l
      PROVE  \E j \in 1 .. Len(h) - 1 :
                /\ t = SegmentOf(l, j) /\ t.from = h[j] /\ t.slope = SlopeOf(l, j)
                /\ t.from >= h[i] <=> j >= i
                /\ t.from >= h[i + 1] <=> j >= i + 1
  <2>1. PICK m \in Layer : \E j \in 1 .. Len(Chain(m)) - 1 : t = SegmentOf(m, j)
    BY SegmentsAre
  <2>2. PICK j \in 1 .. Len(Chain(m)) - 1 : t = SegmentOf(m, j)
    BY <2>1
  <2>3. t.layer = m /\ t.from = Chain(m)[j] /\ t.slope = SlopeOf(m, j)
    BY <2>2, SegmentFields
  <2>4. m = l /\ j \in 1 .. Len(h) - 1 /\ j \in 1 .. Len(h)
    BY <1>9, <2>3, ChainSlopes
  <2>5. (h[j] >= h[i] <=> j >= i) /\ (h[j] >= h[i + 1] <=> j >= i + 1)
    BY <1>2, <2>4, ChainOrder
  <2> QED
    BY <2>2, <2>3, <2>4, <2>5
<1>10. next.segs = {t \in Rising : t.from >= y[t.layer]}
  <2>1. got.segs = {t \in Rising : t.from >= x[t.layer]}
    BY DEF Ordered
  <2>2. ASSUME NEW t \in Rising
        PROVE  (t.from >= x[t.layer] /\ t # s) <=> t.from >= y[t.layer]
    <3>1. t \in Segments /\ t.layer \in Layer
      BY SegmentsAreTyped DEF Rising
    <3>2. CASE t.layer # l
      BY <1>1, <1>6, <3>1, <3>2
    <3>3. CASE t.layer = l
      <4>1. PICK j \in 1 .. Len(h) - 1 :
                /\ t = SegmentOf(l, j) /\ t.from = h[j] /\ t.slope = SlopeOf(l, j)
                /\ t.from >= h[i] <=> j >= i
                /\ t.from >= h[i + 1] <=> j >= i + 1
        BY <1>9, <3>1, <3>3
      <4>2. x[t.layer] = h[i] /\ y[t.layer] = h[i + 1]
        BY <1>6, <3>3
      <4>3. t = s => j = i
        <5> SUFFICES ASSUME t = s PROVE j = i
          OBVIOUS
        <5>1. h[j] = h[i] /\ j \in 1 .. Len(h)
          BY <1>1, <4>1, ChainSlopes
        <5>2. h[j] >= h[i] /\ h[i] >= h[j]
          BY <1>3, <5>1
        <5>3. j >= i /\ i >= j
          BY <1>2, <5>1, <5>2, ChainOrder
        <5> QED
          BY <1>2, <5>3
      <4>4. j = i => t = s
        BY <4>1
      <4>5. j >= i /\ j # i <=> j >= i + 1
        BY <1>2
      <4> QED
        BY <4>1, <4>2, <4>3, <4>4, <4>5
    <3> QED
      BY <3>2, <3>3
  <2>3. next.segs = {t \in Rising : t.from >= x[t.layer] /\ t # s}
    BY <2>1
  <2> HIDE DEF x, y
  <2> QED
    BY <2>2, <2>3
<1>11. ASSUME NEW t \in Segments, t.from < y[t.layer] PROVE s.slope <= t.slope
  <2>1. t.slope \in Int /\ t.layer \in Layer /\ t.from \in Int
    BY SegmentsAreTyped
  <2>2. t.from < x[t.layer] => price <= t.slope
    BY DEF Ordered
  <2>3. CASE t.layer # l
    BY <1>4, <1>6, <1>11, <2>1, <2>2, <2>3
  <2>4. CASE t.layer = l
    <3>1. PICK j \in 1 .. Len(h) - 1 :
              /\ t = SegmentOf(l, j) /\ t.from = h[j] /\ t.slope = SlopeOf(l, j)
              /\ t.from >= h[i] <=> j >= i
              /\ t.from >= h[i + 1] <=> j >= i + 1
      BY <1>9, <2>4
    <3>2. ~(j >= i + 1)
      BY <1>3, <1>6, <1>11, <2>1, <2>4, <3>1
    <3>3. CASE j = i
      BY <1>1, <2>1, <3>1, <3>3
    <3>4. CASE j < i
      <4>1. t.from < x[t.layer]
        BY <1>2, <1>3, <2>1, <2>4, <3>1, <3>4
      <4> QED
        BY <1>4, <2>1, <2>2, <4>1
    <3> QED
      BY <1>2, <3>2, <3>3, <3>4
  <2> QED
    BY <2>3, <2>4
<1>12. \A t \in next.segs : t.slope <= s.slope
  OBVIOUS
<1>13. next.left = budget - OverLayers(y)
  <2>1. got.left = budget - OverLayers(x)
    BY DEF Ordered
  <2>2. x \in [Layer -> Int] /\ OverLayers(x) \in Int
    BY <1>5, SlotsAreInt
  <2>3. OverLayers(y) = OverLayers(x) - x[l] + h[i + 1]
    <3> HIDE DEF x, y
    <3> DEFINE v == h[i + 1]
    <3>1. v \in Int /\ y = [x EXCEPT ![l] = v]
      BY <1>3, <1>6
    <3> HIDE DEF v
    <3>2. OverLayers([x EXCEPT ![l] = v]) = OverLayers(x) - x[l] + v
      BY <2>2, <3>1, LayersChange
    <3> QED
      BY <3>1, <3>2 DEF v
  <2>4. next.left = got.left - (h[i + 1] - h[i]) /\ x[l] = h[i]
    BY <1>1
  <2> HIDE DEF x, y
  <2> QED
    BY <1>3, <1>5, <2>1, <2>2, <2>3, <2>4
<1>14. next.hits = HitsWith(y) * Scale
  <2> DEFINE f == [m \in Layer |-> Hits(m, x[m])]
             g == [m \in Layer |-> Hits(m, y[m])]
  <2>1. f \in [Layer -> Int] /\ HitsWith(x) = OverLayers(f) /\ HitsWith(y) = OverLayers(g)
    BY <1>5, SlotsAreInt DEF HitsWith
  <2>2. Hits(l, h[i]) \in Int /\ Hits(l, h[i + 1]) \in Int
    BY <1>2, HitsAreNat
  <2>3. g = [f EXCEPT ![l] = Hits(l, h[i + 1])]
    <3> HIDE DEF x, y
    <3> QED
      BY <1>6
  <2>4. f[l] = Hits(l, h[i])
    OBVIOUS
  <2> HIDE DEF f, g
  <2>5. OverLayers(g) = OverLayers(f) - Hits(l, h[i]) + Hits(l, h[i + 1])
    <3> DEFINE v == Hits(l, h[i + 1])
    <3>1. v \in Int /\ g = [f EXCEPT ![l] = v]
      BY <2>2, <2>3
    <3> HIDE DEF v
    <3>2. OverLayers([f EXCEPT ![l] = v]) = OverLayers(f) - f[l] + v
      BY <2>1, <3>1, LayersChange
    <3> QED
      BY <2>4, <3>1, <3>2 DEF v
  <2>6. Height(l, h[i + 1]) = Height(l, h[i]) + s.slope * s.n
    BY <1>1, <1>2, SlopeIsExact DEF SlopeOf
  <2>7. got.hits = OverLayers(f) * Scale /\ OverLayers(f) \in Int
    BY <2>1, LayersSummed DEF Ordered
  <2> DEFINE F == OverLayers(f)
             a == Hits(l, h[i])
             b == Hits(l, h[i + 1])
             d == s.slope * s.n
  <2>8. /\ b * Scale = a * Scale + d /\ OverLayers(g) = F - a + b /\ next.hits = F * Scale + d
        /\ F \in Int /\ a \in Int /\ b \in Int /\ d \in Int /\ Scale \in Int
    <3>1. b * Scale = a * Scale + d /\ OverLayers(g) = F - a + b
      BY <2>5, <2>6 DEF Height
    <3>2. next.hits = F * Scale + d
      BY <2>7
    <3>3. d \in Int
      <4>1. \A t, n \in Int : t * n \in Int
        OBVIOUS
      <4> QED
        BY <1>4, <4>1
    <3>4. F \in Int /\ a \in Int /\ b \in Int /\ Scale \in Int
      BY <2>2, <2>7, ScaleAssumption
    <3> QED
      BY <3>1, <3>2, <3>3, <3>4
  <2> HIDE DEF F, a, b, d
  <2>9. /\ (F - a + b) * Scale = F * Scale - a * Scale + b * Scale
        /\ F * Scale \in Int /\ a * Scale \in Int /\ b * Scale \in Int
    BY <2>8, TimesDistributes
  <2> QED
    BY <2>1, <2>8, <2>9
<1> QED
  BY <1>4, <1>6, <1>7, <1>8, <1>10, <1>11, <1>12, <1>13, <1>14 DEF Ordered

\* A segment that is cut: what is left is sold at its slope.
LEMMA CutIsBest ==
  ASSUME Counted, NEW budget \in Nat, NEW got, NEW price, Ordered(budget, got, price),
         NEW s \in got.segs, \A t \in got.segs : t.slope <= s.slope
  PROVE  BestAt(budget, got.hits + s.slope * got.left, got.slots, s.slope)
<1>1. s \in Rising /\ price \in Nat /\ s.slope <= price
  BY DEF Ordered
<1>2. s.slope \in Nat
  <2>1. s \in Segments /\ s.slope > 0
    BY <1>1 DEF Rising
  <2>2. s.slope \in Int
    BY <2>1, SegmentsAreTyped
  <2> QED
    BY <2>1, <2>2
<1>3. \A l \in Layer : \A c \in SlotCount :
         Height(l, c) <= Height(l, got.slots[l]) + s.slope * (c - got.slots[l])
  BY <1>1, <1>2, OrderedIsBest
<1>4. /\ got.slots \in [Layer -> SlotCount] /\ got.left = budget - OverLayers(got.slots)
      /\ got.hits = HitsWith(got.slots) * Scale
  BY DEF Ordered
<1> QED
  BY <1>2, <1>3, <1>4 DEF BestAt

Start(budget) == [segs |-> Rising, left |-> budget, hits |-> 0,
                  slots |-> [l \in Layer |-> 0], cut |-> FALSE]

LEMMA StartIsOrdered ==
  ASSUME Counted, NEW budget \in Nat
  PROVE  \E price : Ordered(budget, Start(budget), price)
<1>1. PICK B \in Nat : \A s \in Segments : s.slope <= B
  BY SlopesAreBounded
<1> DEFINE x == [l \in Layer |-> 0]
<1>2. x \in [Layer -> SlotCount] /\ \A l \in Layer : x[l] = 0
  BY MrcAssumption DEF SlotCount
<1>3. OverLayers(x) = 0
  <2>1. OverLayers(x) = 0 * NLayer /\ NLayer \in Nat
    BY LayersConst, MrcAssumption
  <2> HIDE DEF x
  <2> QED
    BY <2>1
<1>4. HitsWith(x) = 0
  <2>1. \A l \in Layer : Hits(l, 0) = 0
    <3> TAKE l \in Layer
    <3>1. hist_l[l] \in [Distance -> Int] /\ 0 \in SlotCount
      BY MrcAssumption DEF Counted, SlotCount
    <3>2. PICK g : Partial(hist_l[l], g, 0)
      BY <3>1, PartialExists
    <3>3. Hits(l, 0) = g[0]
      BY <3>1, <3>2, PartialIsHitsAt DEF Hits
    <3> QED
      BY <3>2, <3>3 DEF Partial
  <2>2. [l \in Layer |-> Hits(l, x[l])] = [l \in Layer |-> 0]
    BY <1>2, <2>1
  <2>3. OverLayers([l \in Layer |-> 0]) = 0
    BY <1>3
  <2> HIDE DEF x
  <2> QED
    BY <2>2, <2>3 DEF HitsWith
<1> HIDE DEF x
<1>5. \A l \in Layer : \E k \in 1 .. Len(Chain(l)) : Chain(l)[k] = x[l]
  <2> TAKE l \in Layer
  <2>1. 1 \in 1 .. Len(Chain(l)) /\ Chain(l)[1] = 0
    BY ChainPoints
  <2> QED
    BY <1>2, <2>1
<1>6. \A s \in Segments : s.from \in Nat /\ s.layer \in Layer
  <2> TAKE s \in Segments
  <2>1. PICK l \in Layer : \E i \in 1 .. Len(Chain(l)) - 1 : s = SegmentOf(l, i)
    BY SegmentsAre
  <2>2. PICK i \in 1 .. Len(Chain(l)) - 1 : s = SegmentOf(l, i)
    BY <2>1
  <2>3. s.from = Chain(l)[i] /\ s.layer = l /\ Chain(l)[i] \in SlotCount
    BY <2>2, SegmentFields, ChainSlopes
  <2> QED
    BY <2>3, MrcAssumption DEF SlotCount
<1>7. Rising = {s \in Rising : s.from >= x[s.layer]}
  <2>1. ASSUME NEW s \in Rising PROVE s.from >= x[s.layer]
    <3>1. s.from \in Nat /\ s.layer \in Layer
      BY <1>6 DEF Rising
    <3> QED
      BY <1>2, <3>1
  <2> QED
    BY <2>1
<1>8. ASSUME NEW s \in Segments PROVE ~(s.from < x[s.layer])
  <2>1. s.from \in Nat /\ x[s.layer] = 0
    BY <1>2, <1>6
  <2> QED
    BY <2>1
<1> DEFINE got == Start(budget)
<1>9. /\ got.segs = Rising /\ got.left = budget /\ got.hits = 0 /\ got.slots = x
      /\ got.cut = FALSE
  BY DEF Start, x
<1> HIDE DEF got
<1>10. got.left = budget - OverLayers(x) /\ got.hits = HitsWith(x) * Scale
  BY <1>3, <1>4, <1>9, ScaleAssumption
<1>11. \A s \in got.segs : s.slope <= B
  BY <1>1, <1>9 DEF Rising
<1>12. Ordered(budget, got, B)
  BY <1>1, <1>2, <1>5, <1>7, <1>8, <1>9, <1>10, <1>11 DEF Ordered
<1> QED
  BY <1>12 DEF got

\* After n rounds: a slot at least is spent in each, until no segment or no slot is
\* left; and no segment has been cut, or one has and nothing is left.
Uncut(budget, got) == \E price : Ordered(budget, got, price)

CutShort(budget, got) ==
    got.cut = TRUE /\ got.left = 0 /\ \E x, price : BestAt(budget, got.hits, x, price)

RoundInv(budget, n, got) ==
    /\ got.left \in Nat
    /\ (got.left <= budget - n \/ got.segs = {} \/ got.left = 0)
    /\ (Uncut(budget, got) \/ CutShort(budget, got))

LEMMA TakeRound ==
  ASSUME Counted, NEW budget \in Nat, NEW n \in Nat, NEW got, RoundInv(budget, n, got)
  PROVE  RoundInv(budget, n + 1, Take(got))
<1>1. CASE got.segs = {} \/ got.left = 0
  <2>1. Take(got) = got
    BY <1>1 DEF Take
  <2>2. RoundInv(budget, n + 1, got)
    BY <1>1 DEF RoundInv
  <2> QED
    BY <2>1, <2>2
<1>2. CASE ~(got.segs = {} \/ got.left = 0)
  <2>1. got.segs # {} /\ got.left # 0 /\ got.left \in Nat /\ got.left <= budget - n
    BY <1>2 DEF RoundInv
  <2>2. PICK price : Ordered(budget, got, price)
    BY <2>1 DEF RoundInv, CutShort, Uncut
  <2> DEFINE next == Take(got)
  <2>3. PICK s \in got.segs, l \in Layer, m \in Nat \ {0} :
            \E i \in 1 .. Len(Chain(l)) - 1 : Takes(got, s, l, i, m, next)
    BY <2>1, <2>2, TakeFields
  <2>4. PICK i \in 1 .. Len(Chain(l)) - 1 : Takes(got, s, l, i, m, next)
    BY <2>3
  <2> HIDE DEF next
  <2>5. /\ s = SegmentOf(l, i) /\ got.slots[l] = Chain(l)[i]
        /\ \A t \in got.segs : t.slope <= s.slope
        /\ m = IF s.n < got.left THEN s.n ELSE got.left
        /\ next.segs = got.segs \ {s} /\ next.left = got.left - m
        /\ next.hits = got.hits + s.slope * m
        /\ next.slots = [got.slots EXCEPT ![l] = @ + m]
        /\ next.cut = (m < s.n)
    BY <2>4 DEF Takes
  <2>6. s.n \in Nat \ {0}
    BY <2>2, SegmentsAreTyped DEF Ordered, Rising
  <2>7. next.left \in Nat /\ next.left <= budget - (n + 1)
    <3>1. m <= got.left
      BY <2>1, <2>5, <2>6
    <3> QED
      BY <2>1, <2>5, <3>1
  <2>8. CASE s.n <= got.left
    <3>1. m = s.n
      BY <2>1, <2>5, <2>6, <2>8
    <3>2. next.cut = FALSE
      <4>1. ~(m < s.n)
        BY <2>6, <3>1
      <4>2. (m < s.n) = FALSE
        BY <4>1
      <4> QED
        BY <2>5, <4>2
    <3>3. next.left = got.left - s.n /\ next.hits = got.hits + s.slope * s.n
      BY <2>5, <3>1
    <3>4. next.slots = [got.slots EXCEPT ![l] = @ + s.n]
      BY <2>5, <3>1
    <3>5. Ordered(budget, next, s.slope)
      BY <2>2, <2>5, <2>8, <3>2, <3>3, <3>4, WholeOrdered
    <3>6. Uncut(budget, next)
      BY <3>5 DEF Uncut
    <3> QED
      BY <2>7, <3>6 DEF RoundInv, next
  <2>9. CASE ~(s.n <= got.left)
    <3>1. m = got.left /\ m < s.n
      BY <2>1, <2>5, <2>6, <2>9
    <3>2. next.cut = TRUE /\ next.left = 0
      <4>1. next.left = 0
        BY <2>1, <2>5, <3>1
      <4>2. next.cut = TRUE
        BY <2>5, <3>1, Zenon
      <4> QED
        BY <4>1, <4>2
    <3>3. next.hits = got.hits + s.slope * got.left
      BY <2>5, <3>1
    <3>4. BestAt(budget, got.hits + s.slope * got.left, got.slots, s.slope)
      BY <2>2, <2>5, CutIsBest
    <3>5. CutShort(budget, next)
      BY <3>2, <3>3, <3>4 DEF CutShort
    <3> QED
      BY <2>7, <3>5 DEF RoundInv, next
  <2> QED
    BY <2>8, <2>9
<1> QED
  BY <1>1, <1>2

\* u lists what there is after 0 to n rounds.
Rounds(budget, n, u) ==
    /\ u = [i \in 0 .. n |-> u[i]] /\ u[0] = Start(budget)
    /\ \A k \in 1 .. n : u[k] = Take(u[k - 1])

LEMMA RoundsExtend ==
  ASSUME NEW budget, NEW n \in Nat, NEW u, Rounds(budget, n, u)
  PROVE  \E v : Rounds(budget, n + 1, v)
<1> DEFINE x == Take(u[n])
           v == [i \in 0 .. n + 1 |-> IF i = n + 1 THEN x ELSE u[i]]
<1> HIDE DEF x
<1>1. v[0] = Start(budget) /\ v = [i \in 0 .. n + 1 |-> v[i]]
  BY DEF Rounds
<1>2. ASSUME NEW k \in 1 .. n + 1 PROVE v[k] = Take(v[k - 1])
  <2>1. k - 1 \in 0 .. n + 1 /\ k - 1 # n + 1 /\ k \in 0 .. n + 1
    OBVIOUS
  <2>2. v[k - 1] = u[k - 1]
    BY <2>1
  <2>3. CASE k = n + 1
    <3>1. v[k] = x /\ k - 1 = n
      BY <2>1, <2>3
    <3> HIDE DEF v
    <3> QED
      BY <2>2, <2>3, <3>1 DEF x
  <2>4. CASE k # n + 1
    <3>1. v[k] = u[k] /\ k \in 1 .. n
      BY <2>1, <2>4
    <3>2. u[k] = Take(u[k - 1])
      BY <3>1 DEF Rounds
    <3> HIDE DEF v
    <3> QED
      BY <2>2, <3>1, <3>2
  <2> QED
    BY <2>3, <2>4
<1> HIDE DEF v
<1> QED
  BY <1>1, <1>2 DEF Rounds

LEMMA RoundsExist ==
  ASSUME NEW budget, NEW n \in Nat
  PROVE  \E u : Rounds(budget, n, u)
<1> DEFINE T == {k \in Nat : \E u : Rounds(budget, k, u)}
<1>1. 0 \in T
  <2>1. Rounds(budget, 0, [i \in 0 .. 0 |-> Start(budget)])
    BY DEF Rounds
  <2> QED
    BY <2>1
<1>2. ASSUME NEW k \in 0 .. n - 1, k \in T PROVE k + 1 \in T
  BY <1>2, RoundsExtend
<1> HIDE DEF T
<1>3. n \in T
  BY <1>1, <1>2, CountUpTo
<1> QED
  BY <1>3 DEF T

LEMMA OptimumIsTaken ==
  ASSUME Counted, NEW budget \in Nat
  PROVE  RoundInv(budget, budget, Optimum(budget))
<1> DEFINE IsRounds(u) ==
      u = [n \in 0 .. budget |-> IF n = 0 THEN Start(budget) ELSE Take(u[n - 1])]
           w == CHOOSE u : IsRounds(u)
<1>1. PICK u : Rounds(budget, budget, u)
  BY RoundsExist
<1>2. IsRounds(u)
  <2>1. \A n \in 0 .. budget : u[n] = IF n = 0 THEN Start(budget) ELSE Take(u[n - 1])
    <3> TAKE n \in 0 .. budget
    <3>1. n # 0 => n \in 1 .. budget
      OBVIOUS
    <3> QED
      BY <1>1, <3>1 DEF Rounds
  <2>2. u = [n \in 0 .. budget |-> u[n]]
    BY <1>1 DEF Rounds
  <2> QED
    BY <2>1, <2>2
<1>3. IsRounds(w)
  <2>1. \E x : IsRounds(x)
    BY <1>2
  <2> HIDE DEF IsRounds
  <2> QED
    BY <2>1
<1>4. Optimum(budget) = w[budget]
  BY DEF Optimum, Start
<1> HIDE DEF w
<1>5. \A n \in 0 .. budget : w[n] = IF n = 0 THEN Start(budget) ELSE Take(w[n - 1])
  BY <1>3
<1> HIDE DEF IsRounds
<1> DEFINE T == {n \in 0 .. budget : RoundInv(budget, n, w[n])}
<1>6. 0 \in T
  <2>1. w[0] = Start(budget) /\ Start(budget).left = budget
    <3>1. 0 \in 0 .. budget
      OBVIOUS
    <3>2. w[0] = Start(budget)
      BY <1>5, <3>1
    <3>3. Start(budget).left = budget
      BY DEF Start
    <3> QED
      BY <3>2, <3>3
  <2>2. Uncut(budget, Start(budget))
    BY StartIsOrdered DEF Uncut
  <2>3. RoundInv(budget, 0, Start(budget))
    BY <2>1, <2>2 DEF RoundInv
  <2> QED
    BY <2>1, <2>3
<1>7. ASSUME NEW n \in 0 .. budget - 1, n \in T PROVE n + 1 \in T
  <2>1. n + 1 \in 0 .. budget /\ (n + 1) - 1 = n /\ n + 1 # 0 /\ n \in Nat
    OBVIOUS
  <2>2. w[n + 1] = Take(w[n])
    BY <1>5, <2>1
  <2>3. RoundInv(budget, n, w[n])
    BY <1>7
  <2>4. RoundInv(budget, n + 1, Take(w[n]))
    BY <2>1, <2>3, TakeRound
  <2> QED
    BY <2>1, <2>2, <2>4
<1> HIDE DEF T
<1>8. budget \in T
  BY <1>6, <1>7, CountUpTo
<1> QED
  BY <1>4, <1>8 DEF T

\* What the loop ends with is the best at some price.
LEMMA OptimumIsBest ==
  ASSUME Counted, NEW budget \in Nat
  PROVE  \E x, price : BestAt(budget, Optimum(budget).hits, x, price)
<1> DEFINE got == Optimum(budget)
<1>1. RoundInv(budget, budget, got)
  BY OptimumIsTaken
<1> HIDE DEF got
<1>2. CASE CutShort(budget, got)
  BY <1>2 DEF CutShort, got
<1>3. CASE Uncut(budget, got)
  <2>1. PICK price : Ordered(budget, got, price)
    BY <1>3 DEF Uncut
  <2>2. /\ price \in Nat /\ got.slots \in [Layer -> SlotCount] /\ got.left \in Nat
        /\ \A s \in got.segs : s.slope <= price
        /\ got.left = budget - OverLayers(got.slots)
        /\ got.hits = HitsWith(got.slots) * Scale
    BY <2>1 DEF Ordered
  <2>3. got.left = 0 \/ got.segs = {}
    BY <1>1, <2>2 DEF RoundInv
  <2> DEFINE p == IF got.left = 0 THEN price ELSE 0
             left == budget - OverLayers(got.slots)
             hits == HitsWith(got.slots) * Scale
  <2>4. p \in Nat /\ p <= price /\ \A s \in got.segs : s.slope <= p
    BY <2>2, <2>3
  <2>5. p * left = 0 /\ hits \in Int /\ got.hits = hits
    <3>1. HitsWith(got.slots) \in Int /\ Scale \in Int
      BY <2>2, SlotsAreInt, ScaleAssumption
    <3>2. hits \in Int /\ left \in Nat
      <4> DEFINE h == HitsWith(got.slots)
      <4> HIDE DEF h
      <4>1. h \in Int
        BY <3>1 DEF h
      <4>2. h * Scale \in Int
        BY <3>1, <4>1
      <4> QED
        BY <2>2, <4>2 DEF h
    <3>3. left = 0 \/ p = 0
      BY <2>2
    <3> HIDE DEF p, left, hits
    <3>4. p * left = 0
      BY <2>4, <3>2, <3>3
    <3> QED
      BY <2>2, <3>2, <3>4 DEF hits
  <2> HIDE DEF p
  <2>6. \A l \in Layer : \A c \in SlotCount :
           Height(l, c) <= Height(l, got.slots[l]) + p * (c - got.slots[l])
    BY <2>1, <2>4, OrderedIsBest
  <2>7. got.hits = hits + p * left
    <3> HIDE DEF left, hits
    <3> QED
      BY <2>5
  <2>8. BestAt(budget, got.hits, got.slots, p)
    BY <2>2, <2>4, <2>6, <2>7 DEF BestAt
  <2> QED
    BY <2>8 DEF got
<1> QED
  BY <1>1, <1>2, <1>3 DEF RoundInv

\* What is best at a price is, with the rest of the budget sold at that price, more
\* than any allocation within the budget brings.
LEMMA BestBounds ==
  ASSUME Counted, NEW budget \in Nat, NEW hits, NEW x, NEW price,
         BestAt(budget, hits, x, price),
         NEW a \in [Layer -> SlotCount], OverLayers(a) <= budget
  PROVE  HitsWith(a) * Scale <= hits
<1>1. /\ price \in Nat /\ x \in [Layer -> SlotCount]
      /\ hits = HitsWith(x) * Scale + price * (budget - OverLayers(x))
      /\ \A l \in Layer : \A c \in SlotCount :
            Height(l, c) <= Height(l, x[l]) + price * (c - x[l])
  BY DEF BestAt
<1> DEFINE f == [l \in Layer |-> Hits(l, a[l])]
           g == [l \in Layer |-> Hits(l, x[l])]
<1>2. /\ a \in [Layer -> Int] /\ OverLayers(a) \in Int /\ f \in [Layer -> Int]
      /\ x \in [Layer -> Int] /\ OverLayers(x) \in Int /\ g \in [Layer -> Int]
      /\ HitsWith(a) \in Int /\ HitsWith(x) \in Int
  BY <1>1, SlotsAreInt
<1>3. \A l \in Layer : f[l] * Scale <= g[l] * Scale + price * (a[l] - x[l])
  <2> TAKE l \in Layer
  <2>1. a[l] \in SlotCount /\ f[l] = Hits(l, a[l]) /\ g[l] = Hits(l, x[l])
    OBVIOUS
  <2>2. Height(l, a[l]) <= Height(l, x[l]) + price * (a[l] - x[l])
    BY <1>1, <2>1
  <2> HIDE DEF f, g
  <2> QED
    BY <2>1, <2>2 DEF Height
<1> HIDE DEF f, g
<1>4. OverLayers(f) * Scale <= OverLayers(g) * Scale + price * (OverLayers(a) - OverLayers(x))
  <2>1. price \in Int
    BY <1>1
  <2> QED
    BY <1>2, <1>3, <2>1, LayersBound
<1>5. HitsWith(a) = OverLayers(f) /\ HitsWith(x) = OverLayers(g)
  BY DEF HitsWith, f, g
<1> DEFINE F == HitsWith(a)
           G == HitsWith(x)
           A == OverLayers(a)
           X == OverLayers(x)
<1>6. /\ F \in Int /\ G \in Int /\ A \in Int /\ X \in Int /\ A <= budget
      /\ F * Scale <= G * Scale + price * (A - X) /\ hits = G * Scale + price * (budget - X)
      /\ Scale \in Int
  BY <1>1, <1>2, <1>4, <1>5, ScaleAssumption
<1> HIDE DEF F, G, A, X
<1>7. price * (A - X) <= price * (budget - X)
  <2>1. A - X \in Int /\ budget - X \in Int /\ A - X <= budget - X
    BY <1>6
  <2>2. (A - X) * price <= (budget - X) * price
    BY <1>1, <2>1, ProductGrows
  <2>3. (A - X) * price = price * (A - X) /\ (budget - X) * price = price * (budget - X)
    BY <1>1, <2>1
  <2> QED
    BY <2>2, <2>3
<1>8. /\ price * (A - X) \in Int /\ price * (budget - X) \in Int
      /\ F * Scale \in Int /\ G * Scale \in Int
  BY <1>1, <1>6
<1>9. F * Scale <= hits
  BY <1>6, <1>7, <1>8
<1> QED
  BY <1>9 DEF F

LEMMA CountedIsBounded == Counted => BoundsEveryAllocation
<1> SUFFICES ASSUME Counted, NEW slots \in SlotCount
             PROVE  /\ EvenHits(slots) * Scale <= Optimum(slots * NLayer).hits
                    /\ \A a \in [Layer -> SlotCount] :
                          OverLayers(a) <= slots * NLayer
                             => OverLayers([l \in Layer |-> Hits(l, a[l])]) * Scale
                                   <= Optimum(slots * NLayer).hits
  BY DEF BoundsEveryAllocation
<1> DEFINE budget == slots * NLayer
<1>1. budget \in Nat /\ slots \in Int
  BY MrcAssumption DEF SlotCount
<1>2. OverLayers([l \in Layer |-> slots]) = budget
  BY <1>1, LayersConst
<1> HIDE DEF budget
<1>3. PICK x, price : BestAt(budget, Optimum(budget).hits, x, price)
  BY <1>1, OptimumIsBest
<1>4. ASSUME NEW a \in [Layer -> SlotCount], OverLayers(a) <= budget
      PROVE  OverLayers([l \in Layer |-> Hits(l, a[l])]) * Scale <= Optimum(budget).hits
  BY <1>1, <1>3, <1>4, BestBounds DEF HitsWith
<1>5. EvenHits(slots) * Scale <= Optimum(budget).hits
  <2> DEFINE a == [l \in Layer |-> slots]
  <2>1. a \in [Layer -> SlotCount] /\ \A l \in Layer : a[l] = slots
    OBVIOUS
  <2>2. [l \in Layer |-> Hits(l, a[l])] = [l \in Layer |-> Hits(l, slots)]
    BY <2>1
  <2>3. OverLayers(a) <= budget
    BY <1>1, <1>2
  <2> HIDE DEF a
  <2> QED
    BY <1>4, <2>1, <2>2, <2>3 DEF EvenHits
<1> QED
  BY <1>4, <1>5 DEF budget

LEMMA CountedIsReached == Counted => BoundIsReached
<1> SUFFICES ASSUME Counted, NEW slots \in SlotCount, ~Optimum(slots * NLayer).cut
             PROVE  OverLayers([l \in Layer |-> Hits(l, Optimum(slots * NLayer).slots[l])])
                       * Scale = Optimum(slots * NLayer).hits
  BY DEF BoundIsReached
<1> DEFINE budget == slots * NLayer
           got == Optimum(budget)
<1>1. budget \in Nat
  BY MrcAssumption DEF SlotCount
<1>2. ~got.cut
  OBVIOUS
<1> HIDE DEF budget
<1>3. RoundInv(budget, budget, got)
  BY <1>1, OptimumIsTaken
<1> HIDE DEF got
<1>4. Uncut(budget, got)
  BY <1>2, <1>3 DEF RoundInv, CutShort
<1>5. PICK price : Ordered(budget, got, price)
  BY <1>4 DEF Uncut
<1>6. got.hits = HitsWith(got.slots) * Scale
  BY <1>5 DEF Ordered
<1> QED
  BY <1>6 DEF HitsWith, got, budget

\* "optimal upper bound": whatever was counted, no way to spread the slots over the
\* layers brings more hits than mrc_report says an optimal one would.
THEOREM BoundIsSound == Spec => []BoundsEveryAllocation
<1>1. IInv => BoundsEveryAllocation
  BY CountedIsBounded DEF IInv, CountInv, Counted
<1> QED
  BY <1>1, InitIInv, StepIInv, PTL DEF Spec

\* The bound is not idle: where mrc_report's loop cut no segment short, the slots
\* it gave the layers bring just the hits it reports.
THEOREM BoundIsTight == Spec => []BoundIsReached
<1>1. IInv => BoundIsReached
  BY CountedIsReached DEF IInv, CountInv, Counted
<1> QED
  BY <1>1, InitIInv, StepIInv, PTL DEF Spec
=============================================================================
