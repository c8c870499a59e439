--------------------------- MODULE LearningProofs ---------------------------
(***************************************************************************)
(* Proofs about Learning: for any models, candidates, rates and any memory *)
(* the other programs take.  The recommendation depends on the memory in   *)
(* use only through what is in use beside the slab, so it does not matter  *)
(* at which frac it was made; and what it leaves free is enough for the    *)
(* rounding of the recorded frac and for what the other programs add.      *)
(***************************************************************************)
EXTENDS Learning, TLAPS

LEMMA MaxOfTwo ==
  ASSUME NEW a \in Int, NEW b \in Int
  PROVE  Max({a, b}) = IF a >= b THEN a ELSE b
<1> DEFINE m == IF a >= b THEN a ELSE b
<1>1. m \in {a, b} /\ \A y \in {a, b} : m >= y
  OBVIOUS
<1>2. \A x \in {a, b} : (\A y \in {a, b} : x >= y) => x = m
  OBVIOUS
<1> QED
  BY <1>1, <1>2 DEF Max

LEMMA MinOfTwo ==
  ASSUME NEW a \in Int, NEW b \in Int
  PROVE  Min({a, b}) = IF a <= b THEN a ELSE b
<1> DEFINE m == IF a <= b THEN a ELSE b
<1>1. m \in {a, b} /\ \A y \in {a, b} : m <= y
  OBVIOUS
<1>2. \A x \in {a, b} : (\A y \in {a, b} : x <= y) => x = m
  OBVIOUS
<1> QED
  BY <1>1, <1>2 DEF Min

LEMMA DivBounds ==
  ASSUME NEW a \in Int, NEW b \in Nat \ {0}
  PROVE  a \div b \in Int /\ b * (a \div b) <= a /\ a < b * (a \div b) + b
OBVIOUS

LEMMA ProductGrows ==
  ASSUME NEW a \in Int, NEW b \in Int, NEW p \in Nat, a <= b
  PROVE  a * p <= b * p
OBVIOUS

HasGreatest(S) == \E x \in S : \A y \in S : x >= y

UpTo(S, n) == \A y \in S : y <= n

LEMMA OneLess ==
  ASSUME NEW S \in SUBSET Int, NEW n \in Int, UpTo(S, n), ~HasGreatest(S)
  PROVE  UpTo(S, n - 1)
<1>1. n \notin S
  BY DEF UpTo, HasGreatest
<1> QED
  BY <1>1 DEF UpTo

LEMMA GreatestOfFew ==
  ASSUME NEW S \in SUBSET (2 .. 12), S # {}
  PROVE  Max(S) \in S
<1>1. HasGreatest(S)
  <2> SUFFICES ASSUME ~HasGreatest(S) PROVE FALSE
    OBVIOUS
  <2>1. \A n \in Int : UpTo(S, n) => UpTo(S, n - 1)
    BY OneLess
  <2>2. UpTo(S, 12)
    BY DEF UpTo
  <2>3. UpTo(S, 9)
    BY <2>1, <2>2
  <2>4. UpTo(S, 6)
    BY <2>1, <2>3
  <2>5. UpTo(S, 3)
    BY <2>1, <2>4
  <2>6. UpTo(S, 1)
    BY <2>1, <2>5
  <2>7. PICK y : y \in S
    OBVIOUS
  <2> QED
    BY <2>6, <2>7 DEF UpTo
<1> QED
  BY <1>1 DEF Max, HasGreatest
-----------------------------------------------------------------------------
(* Slots and recommendations.                                              *)

Sound(m) == m.experts \in Nat \ {0} /\ m.need \in Nat /\ m.per \in Nat \ {0}

LEMMA ModelsAreSound == \A g \in Geometry : Sound(Model[g])
BY LearningAssumption DEF Sound

LEMMA IdealIsNatural == ASSUME NEW m, Sound(m) PROVE Ideal(m) \in Nat
<1>1. CASE Paying(m) = {}
  BY <1>1 DEF Ideal
<1>2. CASE Paying(m) # {}
  <2>1. Len(Shares) = 12
    BY DEF Shares
  <2>2. Paying(m) \in SUBSET (2 .. 12)
    BY <2>1 DEF Paying
  <2>3. Max(Paying(m)) \in 2 .. 12
    BY <1>2, <2>2, GreatestOfFew
  <2>4. \A i \in 2 .. 12 : Shares[i] \in Nat
    BY DEF Shares
  <2>5. \A i \in 2 .. 12 : (2 * Shares[i] * m.experts + 100) \div 200 \in Int
    BY <2>4 DEF Sound
  <2>6. \A i \in 2 .. 12 : SlotsAt(m, Shares[i]) \in Nat
    BY <2>5, MaxOfTwo DEF SlotsAt
  <2> QED
    BY <1>2, <2>3, <2>6 DEF Ideal
<1> QED
  BY <1>1, <1>2

\* The slots of a frac, as the four numbers they are chosen from.
ShareOf(m, f) == (2 * m.experts * f + 100) \div 200

LEMMA SlotsFacts ==
  ASSUME NEW m, Sound(m), NEW f \in Int
  PROVE  /\ ShareOf(m, f) \in Int
         /\ SlotsOf(m, f) =
              LET x == ShareOf(m, f)
                  y == IF m.need >= x THEN m.need ELSE x
                  z == IF m.experts <= y THEN m.experts ELSE y
              IN  IF 8 >= z THEN 8 ELSE z
<1> DEFINE x == ShareOf(m, f)
<1>1. x \in Int /\ m.need \in Int /\ m.experts \in Int
  BY DEF Sound, ShareOf
<1> DEFINE y == IF m.need >= x THEN m.need ELSE x
           z == IF m.experts <= y THEN m.experts ELSE y
<1>2. SlotsOf(m, f) = Max({8, Min({m.experts, Max({m.need, x})})})
  BY DEF SlotsOf, ShareOf
<1> HIDE DEF x
<1>3. Max({m.need, x}) = y /\ y \in Int
  BY <1>1, MaxOfTwo
<1>4. Min({m.experts, y}) = z /\ z \in Int
  BY <1>1, <1>3, MinOfTwo
<1>5. Max({8, z}) = IF 8 >= z THEN 8 ELSE z
  BY <1>4, MaxOfTwo
<1> QED
  BY <1>1, <1>2, <1>3, <1>4, <1>5 DEF x

LEMMA SlotsAreMany ==
  ASSUME NEW m, Sound(m), NEW f \in Int
  PROVE  SlotsOf(m, f) \in Nat /\ SlotsOf(m, f) >= 8
BY SlotsFacts DEF Sound

\* More slots than another frac gives only for the share itself.
LEMMA SlotsBound ==
  ASSUME NEW m, Sound(m), NEW f \in Int, NEW f0 \in Int
  PROVE  \/ SlotsOf(m, f) <= SlotsOf(m, f0)
         \/ SlotsOf(m, f) <= ShareOf(m, f)
BY SlotsFacts DEF Sound

\* A recorded frac gives at most the slots recommended, up to its rounding.
LEMMA RoundingBound ==
  ASSUME NEW m, Sound(m), NEW rec \in Nat
  PROVE  /\ Hundredths(m, rec) \in Int
         /\ ShareOf(m, Hundredths(m, rec)) <= rec + (m.experts + 100) \div 200
<1> DEFINE e == m.experts
           f == Hundredths(m, rec)
           x == (2 * e * f + 100) \div 200
           k == (e + 100) \div 200
<1>1. e \in Nat \ {0} /\ 2 * e \in Nat \ {0} /\ 200 * rec + e \in Int
  BY DEF Sound
<1>2. f \in Int /\ (2 * e) * f <= 200 * rec + e
  BY <1>1, DivBounds DEF Hundredths
<1>3. 2 * e * f + 100 \in Int /\ 2 * e * f = (2 * e) * f
  BY <1>1, <1>2
<1>4. x \in Int /\ 200 * x <= 2 * e * f + 100
  BY <1>3, DivBounds
<1>5. k \in Int /\ e + 100 < 200 * k + 200
  BY <1>1, DivBounds
<1> HIDE DEF e, f, x, k
<1>6. 200 * x <= 200 * rec + e + 100
  BY <1>1, <1>2, <1>3, <1>4
<1>7. x <= rec + k
  BY <1>1, <1>4, <1>5, <1>6
<1> QED
  BY <1>2, <1>7 DEF e, f, x, k, ShareOf
-----------------------------------------------------------------------------
(* What is recommended depends on the memory beside the slab only.         *)

\* The other programs' memory varies by less than the smallest slab.
Steady == \A g \in Geometry : \A o, p \in Others : p <= o + 9 * Model[g].per

\* With a slab of s slots beside o.
InUse(m, s, o) == o + (s + 1) * m.per

LEMMA BudgetFacts ==
  ASSUME NEW m, Sound(m), NEW s \in Nat, NEW o \in Nat
  PROVE  /\ InUse(m, s, o) \in Nat
         /\ Budget(m, s, InUse(m, s, o)) = Budget(m, 0, o + m.per)
         /\ Budget(m, 0, o + m.per) = Total - Reserve - (o + m.per)
<1>1. m.per \in Nat /\ s * m.per \in Nat /\ (s + 1) * m.per = s * m.per + m.per
  BY DEF Sound
<1>2. InUse(m, s, o) - s * m.per = o + m.per /\ (o + m.per) - 0 * m.per = o + m.per
  BY <1>1 DEF InUse
<1>3. Max({0, o + m.per}) = o + m.per
  BY <1>1, MaxOfTwo
<1>4. InUse(m, s, o) \in Nat
  BY <1>1 DEF InUse
<1>5. Budget(m, s, InUse(m, s, o)) = Total - Reserve - Max({0, o + m.per})
  BY <1>2 DEF Budget
<1>6. Budget(m, 0, o + m.per) = Total - Reserve - Max({0, o + m.per})
  BY <1>2 DEF Budget
<1> QED
  BY <1>3, <1>4, <1>5, <1>6

LEMMA RecommendationFacts ==
  ASSUME NEW m, Sound(m), NEW s \in Nat, NEW o \in Nat
  PROVE  Recommendation(m, s, InUse(m, s, o)) = Recommendation(m, 0, o + m.per)
BY BudgetFacts DEF Recommendation, Fits

\* A reading while the model is live, and one after it is gone.
LEMMA UsedFacts ==
  ASSUME Steady, NEW g \in Geometry, NEW s \in Nat, s >= 8, NEW o \in Others, NEW p \in Others
  PROVE  /\ Used(InUse(Model[g], s, o), InUse(Model[g], s, p))
               \in {InUse(Model[g], s, o), InUse(Model[g], s, p)}
         /\ Used(InUse(Model[g], s, o), p) = InUse(Model[g], s, o)
         /\ Used(0, InUse(Model[g], s, p)) = InUse(Model[g], s, p)
<1> DEFINE m == Model[g]
<1>1. o \in Nat /\ p \in Nat /\ Sound(m)
  BY LearningAssumption, ModelsAreSound
<1>2. InUse(m, s, o) \in Nat /\ InUse(m, s, p) \in Nat
  BY <1>1, BudgetFacts
<1>3. 9 * m.per <= (s + 1) * m.per
  BY <1>1, ProductGrows DEF Sound
<1>4. p <= InUse(m, s, o)
  <2>1. p <= o + 9 * m.per
    BY DEF Steady
  <2>2. m.per \in Nat /\ (s + 1) * m.per \in Nat /\ 9 * m.per \in Nat
    BY <1>1 DEF Sound
  <2> QED
    BY <1>1, <1>3, <2>1, <2>2 DEF InUse
<1> HIDE DEF m
<1>5. /\ Used(InUse(m, s, o), InUse(m, s, p)) \in {InUse(m, s, o), InUse(m, s, p)}
      /\ Used(InUse(m, s, o), p) = InUse(m, s, o)
      /\ Used(0, InUse(m, s, p)) = InUse(m, s, p)
  BY <1>1, <1>2, <1>4, MaxOfTwo DEF Used
<1> QED
  BY <1>5 DEF m

LEMMA RecommendationIsNatural ==
  ASSUME NEW m, Sound(m), NEW o \in Nat
  PROVE  /\ Recommendation(m, 0, o + m.per) \in Nat
         /\ (Sysfs /\ Total >= Reserve + o + 2 * m.per) =>
               m.per * Recommendation(m, 0, o + m.per) <= Total - Reserve - (o + m.per)
<1> DEFINE b == Budget(m, 0, o + m.per)
           q == b \div m.per
           fits == Fits(m, 0, o + m.per)
<1>1. Ideal(m) \in Nat /\ m.per \in Nat \ {0} /\ m.experts \in Nat
  BY IdealIsNatural DEF Sound
<1>2. b = Total - Reserve - (o + m.per) /\ b \in Int
  <2>1. 0 \in Nat
    OBVIOUS
  <2>2. b = Total - Reserve - (o + m.per)
    BY <2>1, BudgetFacts
  <2> QED
    BY <1>1, <2>2, MrcReportAssumption
<1>3. q \in Int /\ m.per * q <= b /\ b < m.per * q + m.per
  BY <1>1, <1>2, DivBounds
<1>4. fits = IF b > 0 THEN (IF m.experts <= q THEN m.experts ELSE q) ELSE 0
  BY <1>1, <1>3, MinOfTwo DEF Fits
<1>5. fits \in Int
  BY <1>1, <1>3, <1>4
<1>6. Recommendation(m, 0, o + m.per) =
          IF Sysfs /\ fits > 0 THEN (IF Ideal(m) <= fits THEN Ideal(m) ELSE fits) ELSE Ideal(m)
  BY <1>1, <1>5, MinOfTwo DEF Recommendation
<1>7. Recommendation(m, 0, o + m.per) \in Nat
  BY <1>1, <1>5, <1>6
<1>8. ASSUME Sysfs, Total >= Reserve + o + 2 * m.per
      PROVE  m.per * Recommendation(m, 0, o + m.per) <= b
  <2>1. b >= m.per /\ b > 0
    BY <1>1, <1>2, <1>8, MrcReportAssumption
  <2>2. q > 0
    <3>1. CASE q <= 0
      <4>1. q * m.per <= 0 * m.per
        BY <1>1, <1>3, <3>1, ProductGrows
      <4> QED
        BY <1>1, <1>2, <1>3, <2>1, <4>1
    <3> QED
      BY <1>3, <3>1
  <2>3. fits > 0 /\ fits <= q
    BY <1>1, <1>3, <1>4, <2>1, <2>2 DEF Sound
  <2>4. Recommendation(m, 0, o + m.per) <= q
    BY <1>1, <1>5, <1>6, <1>8, <2>3, <1>3
  <2>5. Recommendation(m, 0, o + m.per) * m.per <= q * m.per
    BY <1>1, <1>3, <1>7, <2>4, ProductGrows
  <2> QED
    BY <1>1, <1>2, <1>3, <1>7, <2>5
<1> QED
  BY <1>2, <1>7, <1>8

LEMMA LearnableIsInt == ASSUME NEW g \in Geometry, NEW f \in Learnable(g) PROVE f \in Int
<1>1. PICK o \in Others :
          f = Hundredths(Model[g], Recommendation(Model[g], 0, o + Model[g].per))
  BY DEF Learnable
<1> DEFINE m == Model[g]
           rec == Recommendation(m, 0, o + m.per)
<1>2. Sound(m) /\ o \in Nat
  BY ModelsAreSound, LearningAssumption
<1>3. rec \in Nat
  BY <1>2, RecommendationIsNatural
<1> QED
  BY <1>1, <1>2, <1>3, RoundingBound
-----------------------------------------------------------------------------
(* The files and the run.                                                  *)

FracsOf(g) ==
    IF Learns THEN {FirstFrac} \cup Learnable(g) ELSE {BuiltInFrac, ConfFrac}

\* What was recorded was learned, and the peak was read beside the run's slab.
TuningInv ==
    /\ geometry \in Geometry /\ others \in Others /\ phase \in {"down", "up", "exit"}
    /\ run = [seen |-> run.seen, frac |-> run.frac, ub |-> run.ub,
              requests |-> run.requests, prompt |-> run.prompt,
              spoilt |-> run.spoilt, peak |-> run.peak]
    /\ tuning # NoRow => /\ tuning.geometry \in Geometry
                         /\ tuning.frac \in Learnable(tuning.geometry)
    /\ phase # "down" =>
          /\ run.frac \in FracsOf(geometry)
          /\ run.peak = 0 \/ \E o \in Others : run.peak = DeviceUsed(run.frac, o)

LEMMA FracsAreInts == ASSUME NEW g \in Geometry, NEW f \in FracsOf(g) PROVE f \in Int
<1>1. ConfFrac \in Frac /\ Frac \subseteq Nat
  BY LearningAssumption
<1>2. FirstFrac \in Int /\ BuiltInFrac \in Int /\ ConfFrac \in Int
  BY <1>1 DEF FirstFrac, BuiltInFrac
<1> QED
  BY <1>2, LearnableIsInt DEF FracsOf

LEMMA FracUsedFacts == ASSUME TuningInv PROVE FracUsed \in FracsOf(geometry)
<1>1. CASE Learns
  BY <1>1 DEF FracUsed, LearnedFrac, FracsOf, TuningInv
<1>2. CASE ~Learns
  <2>1. Mode \in {"auto", "number"}
    BY <1>2, LearningAssumption DEF Learns
  <2> QED
    BY <1>2, <2>1 DEF FracUsed, FracsOf
<1> QED
  BY <1>1, <1>2

LEMMA StoreFacts ==
  ASSUME Steady, TuningInv, phase # "down",
         NEW now, now \in {DeviceUsed(run.frac, others), others}, StoreFrac(now)
  PROVE  tuning'.geometry = geometry /\ tuning'.frac \in Learnable(geometry)
<1> DEFINE m == Model[geometry]
           s == SlotsOf(m, run.frac)
           rec == Recommendation(m, s, Used(run.peak, now))
<1>1. geometry \in Geometry /\ others \in Others /\ Sound(m) /\ Others \subseteq Nat
  BY ModelsAreSound, LearningAssumption DEF TuningInv
<1>2. s \in Nat /\ s >= 8
  BY <1>1, FracsAreInts, SlotsAreMany DEF TuningInv
<1>3. \A o : DeviceUsed(run.frac, o) = InUse(m, s, o)
  BY DEF DeviceUsed, InUse
<1>4. \E o \in Others : rec = Recommendation(m, 0, o + m.per)
  <2>1. CASE ~Sysfs
    BY <1>1, <2>1 DEF Recommendation
  <2>2. CASE Sysfs
    <3>1. run.peak > 0
      BY <2>2 DEF StoreFrac
    <3>2. PICK o \in Others : run.peak = InUse(m, s, o)
      BY <1>3, <3>1 DEF TuningInv
    <3>3. Used(run.peak, now) \in {InUse(m, s, o), InUse(m, s, others)}
      BY <1>1, <1>2, <1>3, <3>2, UsedFacts
    <3>4. PICK p \in Others : Used(run.peak, now) = InUse(m, s, p)
      BY <1>1, <3>2, <3>3
    <3> QED
      BY <1>1, <1>2, <3>4, RecommendationFacts
  <2> QED
    BY <2>1, <2>2
<1>5. tuning' = [frac |-> Hundredths(m, rec), geometry |-> geometry]
  BY DEF StoreFrac
<1> QED
  BY <1>4, <1>5 DEF Learnable

LEMMA InitTuning == Init => TuningInv
BY DEF Init, Idle, TuningInv

\* One step for each kind of action: what it does to the run and to tuning.tsv.
LEMMA StepTuning == ASSUME Steady, TuningInv, [Next]_vars PROVE TuningInv'
<1>1. CASE Start
  <2>1. /\ UNCHANGED <<geometry, tuning, others>> /\ phase' = "up"
        /\ \E ub : run' = [Idle EXCEPT !.seen = FracSeen, !.frac = FracUsed, !.ub = ub]
    BY <1>1 DEF Start
  <2>2. /\ run' = [seen |-> run'.seen, frac |-> run'.frac, ub |-> run'.ub,
                   requests |-> run'.requests, prompt |-> run'.prompt,
                   spoilt |-> run'.spoilt, peak |-> run'.peak]
        /\ run'.frac = FracUsed /\ run'.peak = 0
    BY <2>1 DEF Idle
  <2>3. FracsOf(geometry)' = FracsOf(geometry)
    BY <2>1 DEF FracsOf, Learnable
  <2> QED
    BY <2>1, <2>2, <2>3, FracUsedFacts DEF TuningInv
<1>2. CASE SwapModel \/ OthersVary
  BY <1>2 DEF SwapModel, OthersVary, TuningInv, DeviceUsed
<1>3. CASE PrefillBegins \/ Cancel \/ DecodeBegins \/ SpanDropped
  <2>1. /\ UNCHANGED <<geometry, tuning, phase, others>> /\ phase # "down"
        /\ run'.frac = run.frac /\ run'.peak = run.peak
        /\ run' = [seen |-> run'.seen, frac |-> run'.frac, ub |-> run'.ub,
                   requests |-> run'.requests, prompt |-> run'.prompt,
                   spoilt |-> run'.spoilt, peak |-> run'.peak]
    BY <1>3 DEF PrefillBegins, Cancel, DecodeBegins, SpanDropped, TuningInv
  <2> QED
    BY <2>1 DEF TuningInv, DeviceUsed
<1>4. CASE SampleMemory
  <2>1. /\ UNCHANGED <<geometry, tuning, phase, others>> /\ phase = "up"
        /\ run'.frac = run.frac /\ run'.peak = DeviceUsed(run.frac, others)
        /\ run' = [seen |-> run'.seen, frac |-> run'.frac, ub |-> run'.ub,
                   requests |-> run'.requests, prompt |-> run'.prompt,
                   spoilt |-> run'.spoilt, peak |-> run'.peak]
    BY <1>4 DEF SampleMemory, TuningInv
  <2> QED
    BY <2>1 DEF TuningInv, DeviceUsed
<1>5. CASE MrcReport
  <2>1. UNCHANGED <<geometry, phase, run, others>> /\ phase = "up"
    BY <1>5 DEF MrcReport, StoreFrac
  <2>2. tuning'.geometry = geometry /\ tuning'.frac \in Learnable(geometry)
    BY <1>5, StoreFacts DEF MrcReport
  <2> QED
    BY <2>1, <2>2 DEF TuningInv, DeviceUsed
<1>6. CASE StopCleanly \/ Kill
  BY <1>6 DEF StopCleanly, Kill, Idle, TuningInv, DeviceUsed
<1>7. CASE ExitReport
  <2>1. UNCHANGED <<geometry, others>> /\ phase = "exit" /\ phase' = "down" /\ run' = Idle
    BY <1>7 DEF ExitReport, StoreFrac
  <2>2. CASE UNCHANGED tuning
    BY <2>1, <2>2 DEF TuningInv, Idle
  <2>3. CASE StoreFrac(others)
    <3>1. tuning'.geometry = geometry /\ tuning'.frac \in Learnable(geometry)
      BY <2>1, <2>3, StoreFacts
    <3> QED
      BY <2>1, <3>1 DEF TuningInv, Idle
  <2> QED
    BY <1>7, <2>2, <2>3 DEF ExitReport
<1>8. CASE UNCHANGED vars
  BY <1>8 DEF vars, TuningInv, DeviceUsed
<1> QED
  BY <1>1, <1>2, <1>3, <1>4, <1>5, <1>6, <1>7, <1>8 DEF Next

\* If the other programs vary by less than the smallest slab, a model runs only at
\* the first frac or at one of its own recommendations.
THEOREM RunsAtItsOwnFrac == ASSUME Steady PROVE Spec => []FracIsItsOwn
<1>1. TuningInv => FracIsItsOwn
  BY DEF TuningInv, FracIsItsOwn, FracsOf
<1> QED
  BY <1>1, InitTuning, StepTuning, PTL DEF Spec
-----------------------------------------------------------------------------
(* The next start.                                                         *)

\* Device memory is known; the reserve takes the rounding of a frac and what the
\* others may add; and every frac that is not learned fits beside them.
ReserveCovers ==
    /\ Sysfs
    /\ \A g \in Geometry : LET m == Model[g] IN
          /\ \A o, p \in Others :
                (p - o) + ((m.experts + 100) \div 200) * m.per <= Reserve
          /\ \A o \in Others : Total >= Reserve + o + 2 * m.per
          /\ \A o \in Others : \A f \in {FirstFrac, BuiltInFrac, ConfFrac} :
                InUse(m, SlotsOf(m, f), o) <= Total

LEMMA LearnableFits ==
  ASSUME ReserveCovers, NEW g \in Geometry, NEW f \in Learnable(g), NEW p \in Others
  PROVE  InUse(Model[g], SlotsOf(Model[g], f), p) <= Total
<1> DEFINE m == Model[g]
           s == SlotsOf(m, f)
           k == (m.experts + 100) \div 200
<1>1. Sound(m) /\ p \in Nat /\ FirstFrac \in Int /\ f \in Int /\ m.per \in Nat
  <2>1. Sound(m) /\ f \in Int
    BY ModelsAreSound, LearnableIsInt
  <2>2. Others \subseteq Nat
    BY LearningAssumption
  <2> QED
    BY <2>1, <2>2 DEF Sound, FirstFrac
<1>2. PICK o \in Others : f = Hundredths(m, Recommendation(m, 0, o + m.per))
  BY DEF Learnable
<1> DEFINE rec == Recommendation(m, 0, o + m.per)
<1>3. o \in Nat /\ k \in Int /\ Total \in Nat /\ Reserve \in Nat
  BY <1>1, LearningAssumption, MrcReportAssumption DEF Sound
<1>4. /\ (p - o) + k * m.per <= Reserve /\ Total >= Reserve + o + 2 * m.per
      /\ InUse(m, SlotsOf(m, FirstFrac), p) <= Total /\ Sysfs
  BY DEF ReserveCovers
<1>5. rec \in Nat /\ m.per * rec <= Total - Reserve - (o + m.per)
  BY <1>1, <1>3, <1>4, RecommendationIsNatural
<1>6. ShareOf(m, f) <= rec + k
  BY <1>1, <1>2, <1>5, RoundingBound
<1>7. s \in Nat /\ SlotsOf(m, FirstFrac) \in Nat
  BY <1>1, SlotsAreMany
<1>8. CASE s <= SlotsOf(m, FirstFrac)
  <2>1. (s + 1) * m.per <= (SlotsOf(m, FirstFrac) + 1) * m.per
    BY <1>1, <1>7, <1>8, ProductGrows
  <2>2. (s + 1) * m.per \in Int /\ (SlotsOf(m, FirstFrac) + 1) * m.per \in Int
    BY <1>1, <1>7
  <2> QED
    BY <1>1, <1>3, <1>4, <2>1, <2>2 DEF InUse
<1>9. CASE s <= ShareOf(m, f)
  <2>1. ShareOf(m, f) \in Int
    BY <1>1, SlotsFacts
  <2> HIDE DEF k, rec, s, m
  <2>2. s + 1 <= rec + k + 1
    BY <1>3, <1>5, <1>6, <1>7, <1>9, <2>1
  <2>3. (s + 1) * m.per <= (rec + k + 1) * m.per
    BY <1>1, <1>3, <1>5, <1>7, <2>2, ProductGrows
  <2>4. (rec + k + 1) * m.per = m.per * rec + k * m.per + m.per
    BY <1>1, <1>3, <1>5
  <2>5. m.per * rec \in Int /\ k * m.per \in Int /\ (s + 1) * m.per \in Int
    BY <1>1, <1>3, <1>5, <1>7
  <2>6. p + (s + 1) * m.per <= Total
    BY <1>1, <1>3, <1>4, <1>5, <2>3, <2>4, <2>5
  <2> QED
    BY <2>6 DEF InUse, s, m
<1> QED
  BY <1>1, <1>8, <1>9, SlotsBound

\* A server that starts at a learned frac fits on the device, whatever the other
\* programs take by then.
THEOREM LearnedFracFits == ASSUME Steady, ReserveCovers PROVE Spec => []NextStartFits
<1>1. TuningInv => NextStartFits
  <2> SUFFICES ASSUME TuningInv, NEW o \in Others PROVE DeviceUsed(FracUsed, o) <= Total
    BY DEF NextStartFits
  <2>1. geometry \in Geometry /\ FracUsed \in FracsOf(geometry)
    BY FracUsedFacts DEF TuningInv
  <2>2. CASE FracUsed \in {FirstFrac, BuiltInFrac, ConfFrac}
    BY <2>1, <2>2 DEF ReserveCovers, DeviceUsed, InUse
  <2>3. CASE FracUsed \in Learnable(geometry)
    BY <2>1, <2>3, LearnableFits DEF DeviceUsed, InUse
  <2> QED
    BY <2>1, <2>2, <2>3 DEF FracsOf
<1> QED
  BY <1>1, InitTuning, StepTuning, PTL DEF Spec
-----------------------------------------------------------------------------
(* ubatch.tsv.                                                             *)

RowsInv == RowsAreMeasurements /\ geometry \in Geometry

LEMMA RecordedFacts ==
  ASSUME RowsInv, StopCleanly, Comparable PROVE RowsAreMeasurements'
<1> DEFINE key == <<run.frac, run.ub>>
<1>1. /\ rows' = Recorded
      /\ spoilt' = IF run.spoilt THEN spoilt \cup {key} ELSE spoilt \ {key}
  BY DEF StopCleanly, RecordedFrac
<1>2. ASSUME NEW r \in rows'
      PROVE  \/ r \in rows /\ <<r.frac, r.ub>> # key
             \/ r = [frac |-> run.frac, ub |-> run.ub, rate |-> MeasuredRate]
  BY <1>1, <1>2 DEF Recorded, RecordedFrac
<1>3. ASSUME NEW r \in rows'
      PROVE  \/ \E g \in Geometry : r.rate = Rate[g][r.frac][r.ub]
             \/ <<r.frac, r.ub>> \in spoilt'
  <2>1. CASE r \in rows /\ <<r.frac, r.ub>> # key
    BY <1>1, <2>1 DEF RowsInv, RowsAreMeasurements
  <2>2. CASE r = [frac |-> run.frac, ub |-> run.ub, rate |-> MeasuredRate]
    <3>1. r.frac = run.frac /\ r.ub = run.ub /\ r.rate = MeasuredRate
      BY <2>2
    <3>2. CASE run.spoilt
      BY <1>1, <3>1, <3>2
    <3>3. CASE ~run.spoilt
      <4>1. MeasuredRate = Rate[geometry][run.frac][run.ub]
        BY <3>3 DEF MeasuredRate, Comparable
      <4> QED
        BY <3>1, <4>1 DEF RowsInv
    <3> QED
      BY <3>2, <3>3
  <2> QED
    BY <1>2, <2>1, <2>2
<1>4. ASSUME NEW r \in rows', NEW q \in rows', q.frac = r.frac, q.ub = r.ub PROVE q = r
  <2>1. CASE r \in rows /\ <<r.frac, r.ub>> # key
    <3>1. <<q.frac, q.ub>> # key
      BY <1>4, <2>1
    <3>2. q \in rows
      BY <1>2, <3>1
    <3> QED
      BY <1>4, <2>1, <3>2 DEF RowsInv, RowsAreMeasurements
  <2>2. CASE r = [frac |-> run.frac, ub |-> run.ub, rate |-> MeasuredRate]
    <3>1. <<q.frac, q.ub>> = key
      BY <1>4, <2>2
    <3> QED
      BY <1>2, <2>2, <3>1
  <2> QED
    BY <1>2, <2>1, <2>2
<1> QED
  BY <1>3, <1>4 DEF RowsAreMeasurements

LEMMA StepRows == RowsInv /\ [Next]_vars => RowsInv'
<1> SUFFICES ASSUME RowsInv, [Next]_vars PROVE RowsInv'
  OBVIOUS
<1>1. geometry' \in Geometry
  BY DEF RowsInv, Next, vars, Start, SwapModel, OthersVary, PrefillBegins, Cancel,
         DecodeBegins, SpanDropped, SampleMemory, MrcReport, StoreFrac, StopCleanly,
         ExitReport, Kill
<1>2. CASE StopCleanly
  BY <1>1, <1>2, RecordedFacts DEF StopCleanly, RowsInv, RowsAreMeasurements
<1>3. CASE ~StopCleanly
  <2>1. UNCHANGED <<rows, spoilt>>
    BY <1>3 DEF Next, vars, Start, SwapModel, OthersVary, PrefillBegins, Cancel,
         DecodeBegins, SpanDropped, SampleMemory, MrcReport, StoreFrac, ExitReport, Kill
  <2> QED
    BY <1>1, <2>1 DEF RowsInv, RowsAreMeasurements
<1> QED
  BY <1>2, <1>3

\* Every row is a measurement under the conditions it is filed under, but for runs
\* with a cancelled prompt.
THEOREM EveryRowIsMeasured == Spec => []RowsAreMeasurements
<1>1. Init => RowsInv
  BY DEF Init, RowsInv, RowsAreMeasurements
<1>2. RowsInv => RowsAreMeasurements
  BY DEF RowsInv
<1> QED
  BY <1>1, <1>2, StepRows, PTL DEF Spec
==============================================================================
