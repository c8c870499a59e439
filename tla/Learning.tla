------------------------------ MODULE Learning ------------------------------
(***************************************************************************)
(* What moestream remembers between starts.  src/src/entrypoint.sh chooses *)
(* the micro-batch (UBATCH=learn) from ubatch.tsv for the frac it expects  *)
(* the server to use; the server (src/src/llama-moestream.cpp) resolves    *)
(* its frac from tuning.tsv, and records both files: a recommended frac    *)
(* whenever it reports the miss ratio curve, the prefill rate at exit.     *)
(*                                                                         *)
(* One model file is modelled: rows of other files are neither read nor    *)
(* changed.  A model of another geometry may be put under the same name.   *)
(* Fracs are in hundredths, as "%.2f" writes them.  The device is shared:  *)
(* what else is in its memory varies.  The workload does not, so a model's *)
(* curve stays what it is.                                                 *)
(***************************************************************************)
EXTENDS MrcReport

CONSTANTS
    Mode,         \* MOESTREAM_CACHE_FRAC: "unset", "learn", "auto" or "number"
    ConfFrac,     \* its value when it is a number
    Candidates,   \* UBATCH_CANDIDATES, a sequence
    Geometry,     \* expert count and bytes per slot of the models
    Model,        \* Model[g]: the model of geometry g, as in MrcReport
    Others,       \* memory the slab leaves to weights, arena and other programs
    MayCancel,    \* whether a client may go away during prefill
    Rate,         \* Rate[g][f][ub]: prefill rate
    NoRow         \* tuning.tsv has no row for the model file

Frac == UNION {DOMAIN Rate[g] : g \in Geometry}
Ubatch == {Candidates[i] : i \in DOMAIN Candidates}

FirstFrac == 15     \* frac while nothing is learned
DefaultFrac == 25   \* what the entrypoint expects when the variable is unset
BuiltInFrac == 38   \* g_frac, which auto leaves alone
FirstUbatch == 1024 \* when nothing was measured

ASSUME LearningAssumption ==
    /\ Mode \in {"unset", "learn", "auto", "number"}
    /\ {FirstFrac, DefaultFrac, BuiltInFrac, ConfFrac} \subseteq Frac
    /\ Frac \subseteq Nat /\ Others \subseteq Nat /\ MayCancel \in BOOLEAN
    /\ \A g \in Geometry : Model[g].experts \in Nat \ {0} /\ Model[g].need \in Nat
                           /\ Model[g].per \in Nat \ {0}
    /\ FirstUbatch \in Ubatch
    /\ \A g \in Geometry : Rate[g] \in [Frac -> [Ubatch -> Nat \ {0}]]

VARIABLES
    geometry, \* of the model file in place
    tuning,   \* tuning.tsv: NoRow or the frac and geometry recorded
    rows,     \* ubatch.tsv: records of frac, ub and rate
    phase,    \* "down", "up", or "exit": between the two writes of atexit
    run,      \* seen, frac, ub: the frac the entrypoint saw, g_frac, ubatch;
              \* requests (up to 2), prompt, spoilt: their prefill times;
              \* peak: g_dev_used_peak
    others,   \* of Others, at present
    spoilt    \* history: fracs and ubatches whose row counts an idle gap

vars == <<geometry, tuning, rows, phase, run, others, spoilt>>

Idle == [seen |-> FirstFrac, frac |-> FirstFrac, ub |-> FirstUbatch,
         requests |-> 0, prompt |-> "none", spoilt |-> FALSE, peak |-> 0]

Init ==
    /\ geometry \in Geometry
    /\ tuning = NoRow /\ rows = {}
    /\ phase = "down" /\ run = Idle
    /\ others \in Others /\ spoilt = {}
-----------------------------------------------------------------------------
(* A start: the entrypoint, then the server.                               *)

LearnedFracNever == 0  \* Mutant: asked before the geometry is known.

LearnedFracByName == IF tuning # NoRow THEN tuning.frac ELSE 0  \* Mutant: by name.

\* learned_frac: the row counts only if the geometry matches.
LearnedFrac == IF tuning # NoRow /\ tuning.geometry = geometry THEN tuning.frac ELSE 0

\* The frac the entrypoint measures at.
FracSeen ==
    [unset  |-> DefaultFrac,
     learn  |-> IF tuning # NoRow THEN tuning.frac ELSE FirstFrac,
     auto   |-> FirstFrac,
     number |-> ConfFrac][Mode]

Learns == Mode \in {"unset", "learn"}  \* The entrypoint exports learn for unset.

\* g_frac once slab_slots ran.
FracUsed ==
    IF ~Learns THEN [auto |-> BuiltInFrac, number |-> ConfFrac][Mode]
    ELSE IF LearnedFrac > 0 THEN LearnedFrac ELSE FirstFrac

MeasuredAt(f) == {r \in rows : r.frac = f}

UntriedAnywhere(f) ==  \* Mutant: rows of other fracs count.
    {i \in DOMAIN Candidates : \A r \in rows : r.ub # Candidates[i]}

Untried(f) == {i \in DOMAIN Candidates : \A r \in MeasuredAt(f) : r.ub # Candidates[i]}

Fastest(f) ==
    {r.ub : r \in {m \in MeasuredAt(f) :
                     /\ m.rate > 0
                     /\ \A n \in MeasuredAt(f) : n.rate <= m.rate}}

\* The first candidate without a row at f, else the fastest.
Choice(f) ==
    IF Untried(f) # {} THEN {Candidates[Min(Untried(f))]}
    ELSE IF Fastest(f) # {} THEN Fastest(f) ELSE {FirstUbatch}

\* In use with other programs, the slab and its zero slot.
DeviceUsed(frac, other) ==
    other + (SlotsOf(Model[geometry], frac) + 1) * Model[geometry].per

\* A slab that does not fit keeps the server from starting; nothing is recorded.
Start ==
    /\ phase = "down"
    /\ DeviceUsed(FracUsed, others) <= Total
    /\ phase' = "up"
    /\ \E ub \in Choice(FracSeen) :
          run' = [Idle EXCEPT !.seen = FracSeen, !.frac = FracUsed, !.ub = ub]
    /\ UNCHANGED <<geometry, tuning, rows, others, spoilt>>

\* Another model is put under the same file name.
SwapModel ==
    /\ phase = "down"
    /\ geometry' \in Geometry \ {geometry}
    /\ UNCHANGED <<tuning, rows, phase, run, others, spoilt>>

\* Another program takes or releases device memory.
OthersVary ==
    /\ others' \in Others \ {others}
    /\ UNCHANGED <<geometry, tuning, rows, phase, run, spoilt>>
-----------------------------------------------------------------------------
(* The run, and the end of it.                                             *)

\* load_layer_arena at the first layer: g_req_t0 is set if no prompt is open.
PrefillBegins ==
    /\ phase = "up" /\ run.prompt = "none"
    /\ run' = [run EXCEPT !.prompt = "open"]
    /\ UNCHANGED <<geometry, tuning, rows, phase, others, spoilt>>

\* The client goes away before the first token: the prompt stays open, and its
\* time runs on into the next request.
Cancel ==
    /\ MayCancel /\ phase = "up" /\ run.prompt = "open"
    /\ run' = [run EXCEPT !.prompt = "merged"]
    /\ UNCHANGED <<geometry, tuning, rows, phase, others, spoilt>>

\* pf_req_close at the first token, counted up to the two that matter.  The
\* first one is the warm-up and subtracted later.
DecodeBegins ==
    /\ phase = "up" /\ run.prompt # "none"
    /\ run' = [run EXCEPT !.prompt = "none", !.requests = Min({2, @ + 1}),
                          !.spoilt = @ \/ (run.prompt = "merged" /\ run.requests > 0)]
    /\ UNCHANGED <<geometry, tuning, rows, phase, others, spoilt>>

\* A span of an hour is dropped; only an idle gap makes one.
SpanDropped ==
    /\ phase = "up" /\ run.prompt = "merged"
    /\ run' = [run EXCEPT !.prompt = "none"]
    /\ UNCHANGED <<geometry, tuning, rows, phase, others, spoilt>>

\* Device memory is read from 32 tokens on, long before a report has the
\* accesses it needs.
SampleMemory ==
    /\ phase = "up" /\ Sysfs
    /\ DeviceUsed(run.frac, others) > run.peak
    /\ run' = [run EXCEPT !.peak = DeviceUsed(run.frac, others)]
    /\ UNCHANGED <<geometry, tuning, rows, phase, others, spoilt>>

\* |rec_frac - prev| >= 0.02, with 0 for a frac not learned.
Restores(rec) ==
    LET n == Model[geometry].experts
        moved == 100 * rec - LearnedFrac * n
    IN  moved >= 2 * n \/ moved <= -2 * n

\* The end of mrc_report, and learned_frac_store; now is the memory in use.
StoreFrac(now) ==
    LET m == Model[geometry]
        rec == Recommendation(m, SlotsOf(m, run.frac), Used(run.peak, now))
    IN  /\ Learns
        /\ Sysfs => run.peak > 0
        /\ rec > 0 /\ Restores(rec)
        /\ tuning' = [frac |-> Hundredths(m, rec), geometry |-> geometry]
        /\ UNCHANGED <<geometry, rows, others, spoilt>>

MrcReport ==
    /\ phase = "up"
    /\ StoreFrac(DeviceUsed(run.frac, others))
    /\ UNCHANGED <<phase, run>>

\* The frac a measurement is filed under: g_frac.
RecordedFrac == run.frac

FirstRequestCounts == run.requests >= 1  \* Mutant: keeps the warm-up request.

\* Without a second request there is no rate free of the warm-up.
Comparable == run.requests >= 2

\* prefill_rate.  The warm-up request looks slower than the rest, and so does
\* a request whose time began with a cancelled one.
MeasuredRate ==
    IF run.requests >= 2 /\ ~run.spoilt THEN Rate[geometry][run.frac][run.ub] ELSE 1

\* state_put replaces the row of this frac and ubatch.
Recorded ==
    {r \in rows : ~(r.frac = RecordedFrac /\ r.ub = run.ub)}
        \cup {[frac |-> RecordedFrac, ub |-> run.ub, rate |-> MeasuredRate]}

\* The first half of the atexit handler: ubatch_store.
StopCleanly ==
    /\ phase = "up"
    /\ phase' = "exit"
    /\ rows' = IF Comparable THEN Recorded ELSE rows
    /\ spoilt' = IF ~Comparable THEN spoilt
                 ELSE IF run.spoilt THEN spoilt \cup {<<RecordedFrac, run.ub>>}
                 ELSE spoilt \ {<<RecordedFrac, run.ub>>}
    /\ UNCHANGED <<geometry, tuning, run, others>>

\* The second half: report, hence mrc_report if it has accesses enough.  The
\* slab is no longer on the device.
ExitReport ==
    /\ phase = "exit"
    /\ phase' = "down" /\ run' = Idle
    /\ UNCHANGED <<geometry, tuning, rows, others, spoilt>> \/ StoreFrac(others)

\* SIGKILL: nothing that is not renamed into place is kept.
Kill ==
    /\ phase # "down"
    /\ phase' = "down" /\ run' = Idle
    /\ UNCHANGED <<geometry, tuning, rows, others, spoilt>>

Next ==
    \/ Start \/ SwapModel \/ OthersVary
    \/ PrefillBegins \/ Cancel \/ DecodeBegins \/ SpanDropped
    \/ SampleMemory \/ MrcReport
    \/ StopCleanly \/ ExitReport \/ Kill

Spec == Init /\ [][Next]_vars

\* The operator starts it again and again, and again and again a run serves two
\* requests and is then stopped, not killed (USAGE: "stop the container, do not
\* kill it").
FairSpec ==
    /\ Spec
    /\ WF_vars(Start)
    /\ SF_vars(PrefillBegins /\ run.requests = 0)
    /\ SF_vars(PrefillBegins /\ run.requests = 1)
    /\ SF_vars(DecodeBegins /\ run.requests = 0)
    /\ SF_vars(DecodeBegins /\ run.requests = 1)
    /\ SF_vars(StopCleanly /\ run.requests = 2) /\ SF_vars(ExitReport)
-----------------------------------------------------------------------------
TypeOK ==
    /\ geometry \in Geometry
    /\ tuning \in {NoRow} \cup [frac : Frac, geometry : Geometry]
    /\ rows \subseteq [frac : Frac, ub : Ubatch, rate : Nat]
    /\ phase \in {"down", "up", "exit"}
    /\ run \in [seen : Frac, frac : Frac, ub : Ubatch, requests : 0 .. 2,
                prompt : {"none", "open", "merged"}, spoilt : BOOLEAN, peak : Nat]
    /\ others \in Others
    /\ spoilt \subseteq Frac \X Ubatch

\* Every row of ubatch.tsv is the rate at which a model prefills with its ubatch
\* at its frac, warm-up excluded, and the only row of the pair: candidates are
\* compared under the same conditions ("every row present is a real measurement").
\* The one exception are runs in which a prompt was cancelled after the warm-up.
RowsAreMeasurements ==
    \A r \in rows :
        /\ \/ \E g \in Geometry : r.rate = Rate[g][r.frac][r.ub]
           \/ <<r.frac, r.ub>> \in spoilt
        /\ \A s \in rows : (s.frac = r.frac /\ s.ub = r.ub) => s = r

\* What may be recommended to a model of geometry g: its own curve, capped
\* beside anything the other programs leave.
Learnable(g) ==
    {Hundredths(Model[g], Recommendation(Model[g], 0, o + Model[g].per)) : o \in Others}

\* A model never runs at a frac learned for another that had its file name
\* ("a different model never inherits the previous one's value").
FracIsItsOwn ==
    (phase # "down" /\ Learns) => run.frac \in {FirstFrac} \cup Learnable(geometry)

\* A learned frac does not keep the next start from coming up, whatever the other
\* programs take by then: the reserve covers them, the rounding of the frac and
\* the hysteresis ("a recommendation that does not fit is worse than no
\* recommendation: the server simply fails to start").
NextStartFits ==
    phase = "down" => \A o \in Others : DeviceUsed(FracUsed, o) <= Total

\* "after four they are all in, and the fastest is used from then on": as long as
\* the model stays the same, from some start on the search is over for the frac
\* in use, although kills lose measurements and the frac itself is learned.
\* Only a row that a cancelled prompt spoilt may mislead it.
SearchConverges ==
    \A g \in Geometry :
        [](geometry = g) =>
            <>[](phase = "up" =>
                    /\ \A ub \in Ubatch : \E r \in rows : r.frac = run.frac /\ r.ub = ub
                    /\ \A ub \in Ubatch :
                          \/ Rate[g][run.frac][ub] <= Rate[g][run.frac][run.ub]
                          \/ \E u \in Ubatch : <<run.frac, u>> \in spoilt)

\* Once the model stays the same the learned frac comes to rest although the
\* other programs' memory keeps wavering: every move would restart the search for
\* the ubatch.
FracSettles ==
    \A g \in Geometry :
        <>[](geometry = g) => <>[][UNCHANGED tuning]_tuning
=============================================================================
