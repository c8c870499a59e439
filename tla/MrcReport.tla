----------------------------- MODULE MrcReport -------------------------------
(***************************************************************************)
(* The recommendation mrc_report of llama-moestream.cpp makes: the largest *)
(* share of the experts whose last step still brings enough hits for its   *)
(* memory, capped by what fits on the device.                              *)
(*                                                                         *)
(* A model is a record: experts (per layer), per (memory of one slot over  *)
(* all layers, one unit being as fine as matters), need (slots one         *)
(* micro-batch takes) and hits (hit rate at every slot count, in a unit as *)
(* fine as matters).  The code calculates in floating point, here shares   *)
(* are hundredths and all comparisons are between integers.                *)
(***************************************************************************)
EXTENDS Integers, Sequences, FiniteSets, FiniteSetsExt

CONSTANTS
    Gain,     \* g_pt_per_gib: hits a unit of memory has to bring
    Total,    \* memory of the device
    Reserve,  \* MOESTREAM_MEM_RESERVE_GIB, 1 GiB by default
    Sysfs     \* whether the driver tells how much memory is in use

ASSUME MrcReportAssumption ==
    Gain \in Nat /\ Total \in Nat /\ Reserve \in Nat /\ Sysfs \in BOOLEAN

\* fr
Shares == <<5, 10, 15, 20, 25, 30, 35, 40, 50, 60, 75, 100>>

SlotsAt(m, share) == Max({1, (2 * share * m.experts + 100) \div 200})

\* The step up to a share costs memory and brings more than Gain for it.
StepPays(m, i) ==
    LET c == SlotsAt(m, Shares[i])
        c2 == SlotsAt(m, Shares[i - 1])
    IN  c > c2 /\ m.hits[c] - m.hits[c2] > Gain * (c - c2) * m.per

Paying(m) == {i \in 2 .. Len(Shares) : StepPays(m, i)}

\* 0 if no step pays.
Ideal(m) == IF Paying(m) = {} THEN 0 ELSE SlotsAt(m, Shares[Max(Paying(m))])

UsedNow(peak, now) == now  \* Mutant: at exit the buffers are released already.

\* dev_used: the reading, unless more was in use while the model was live.
Used(peak, now) == Max({peak, now})

\* What is left when everything that is not the slab is taken as fixed.
Budget(m, slots, used) == Total - Reserve - Max({0, used - slots * m.per})

Fits(m, slots, used) ==
    IF Budget(m, slots, used) > 0
      THEN Min({m.experts, Budget(m, slots, used) \div m.per})
      ELSE 0

\* rec
Recommendation(m, slots, used) ==
    IF Sysfs /\ Fits(m, slots, used) > 0
      THEN Min({Ideal(m), Fits(m, slots, used)})
      ELSE Ideal(m)

\* "%.2f" of rec_frac.
Hundredths(m, slots) == (200 * slots + m.experts) \div (2 * m.experts)

\* slab_slots for a learned frac, without the zero slot.
SlotsOf(m, frac) ==
    Max({8, Min({m.experts, Max({m.need, (2 * m.experts * frac + 100) \div 200})})})
=============================================================================
