---------------------------- MODULE SpecLearning ----------------------------
(***************************************************************************)
(* SPEC_DECODING=learn in src/src/entrypoint.sh, for a model that can      *)
(* speculate.  A start takes the draft size to run with from spec.tsv and  *)
(* leaves a recorder behind, a background process that waits for the       *)
(* server to come up, polls its metrics, and files the generation rate     *)
(* once enough tokens were generated.                                      *)
(*                                                                         *)
(* The key of a row is the configuration as the environment states it and  *)
(* N_PARALLEL.  The environment is fixed here, so of the key only          *)
(* N_PARALLEL is left; the frac the server resolves MOESTREAM_CACHE_FRAC   *)
(* to is not part of it.                                                   *)
(***************************************************************************)
EXTENDS Integers, Sequences, FiniteSets, FiniteSetsExt

CONSTANTS
    Candidates, \* SPEC_CANDIDATES, a sequence of draft sizes (0: off)
    Parallel,   \* values of N_PARALLEL
    Frac,       \* fracs the server may run at under this environment
    Rate,       \* Rate[f][p][n]: tokens per second
    Polls       \* bound: polls before the recorder gives up (600)

Draft == {Candidates[i] : i \in DOMAIN Candidates}
Off == 0

ASSUME SpecAssumption ==
    /\ Off \in Draft /\ Polls \in Nat \ {0}
    /\ Rate \in [Frac -> [Parallel -> [Draft -> Nat \ {0}]]]

VARIABLES
    rows,     \* spec.tsv: records of par, n and rate
    up,       \* whether the container runs
    run,      \* N_PARALLEL, draft size and frac of the run
    enough,   \* the server generated SPEC_MIN_TOKENS tokens
    recorder  \* "gone", or the number of polls it has left

draftVars == <<rows, up, run, enough, recorder>>

DraftInit ==
    /\ rows = {}
    /\ up = FALSE /\ enough = FALSE /\ recorder = 0
    /\ run \in [par : Parallel, n : {Off}, frac : Frac]
-----------------------------------------------------------------------------
RowsOfAny(p) == rows  \* Mutant: rows of every concurrency.

\* SKEY: rows of another concurrency are neither read nor replaced.
RowsOf(p) == {r \in rows : r.par = p}

Untried(p) == {i \in DOMAIN Candidates : \A r \in RowsOf(p) : r.n # Candidates[i]}

Fastest(p) == {r.n : r \in {m \in RowsOf(p) : \A o \in RowsOf(p) : o.rate <= m.rate}}

Choice(p) ==
    IF Untried(p) # {} THEN {Candidates[Min(Untried(p))]} ELSE Fastest(p)

\* The entrypoint chooses, starts the recorder and becomes the server.
Start ==
    /\ ~up /\ up' = TRUE
    /\ \E p \in Parallel, f \in Frac :
          \E n \in Choice(p) : run' = [par |-> p, n |-> n, frac |-> f]
    /\ recorder' = Polls /\ enough' = FALSE
    /\ UNCHANGED rows

\* predicted_tokens_total reaches SPEC_MIN_TOKENS.
Generate ==
    /\ up /\ ~enough
    /\ enough' = TRUE
    /\ UNCHANGED <<rows, up, run, recorder>>

\* A poll that is not answered, or too early: sleep 20.
Poll ==
    /\ up /\ recorder > 0
    /\ recorder' = recorder - 1
    /\ UNCHANGED <<rows, up, run, enough>>

ReplacedAll == RowsOf(run.par)  \* Mutant: the draft size is left out of the key.

Replaced == {r \in rows : r.par = run.par /\ r.n = run.n}

\* The row is filed by renaming a complete copy into place; the recorder ends.
Record ==
    /\ up /\ recorder > 0 /\ enough
    /\ rows' = (rows \ Replaced)
                 \cup {[par |-> run.par, n |-> run.n,
                        rate |-> Rate[run.frac][run.par][run.n]]}
    /\ recorder' = 0
    /\ UNCHANGED <<up, run, enough>>

\* Cleanly or not: the recorder dies with the container.
Stop ==
    /\ up /\ up' = FALSE
    /\ recorder' = 0
    /\ UNCHANGED <<rows, run, enough>>

DraftNext == Start \/ Generate \/ Poll \/ Record \/ Stop

DraftSpec == DraftInit /\ [][DraftNext]_draftVars

\* At every concurrency in use the operator starts it again and again, and again
\* and again the run generates enough while the recorder still polls.
FairDraftSpec ==
    /\ DraftSpec
    /\ \A p \in Parallel : SF_draftVars(Start /\ run'.par = p)
    /\ \A p \in Parallel : SF_draftVars(Generate /\ recorder > 0 /\ run.par = p)
    /\ \A p \in Parallel : SF_draftVars(Record /\ run.par = p)
    /\ WF_draftVars(Stop)
-----------------------------------------------------------------------------
DraftTypeOK ==
    /\ rows \subseteq [par : Parallel, n : Draft, rate : Nat]
    /\ up \in BOOLEAN /\ enough \in BOOLEAN
    /\ run \in [par : Parallel, n : Draft, frac : Frac]
    /\ recorder \in 0 .. Polls

\* "A row learned at one concurrency must never be applied at another": once the
\* candidates are all in at a concurrency, what runs is the fastest there.
ConcurrencyIsRespected ==
    (up /\ Untried(run.par) = {} /\ recorder > 0 /\ ~enough)
        => \A n \in Draft :
             Rate[run.frac][run.par][n] <= Rate[run.frac][run.par][run.n]

\* "The streaming configuration ... change[s] the answer, so rows are keyed by
\* both": rows compared with one another were measured at one frac.
RowsAreComparable ==
    \A p \in Parallel : \E f \in Frac :
        \A r \in RowsOf(p) : r.rate = Rate[f][p][r.n]

\* Every concurrency ends up with the draft size that is fastest there.
SearchConverges ==
    \A p \in Parallel :
        <>[]((up /\ run.par = p) =>
               /\ Untried(p) = {}
               /\ \A n \in Draft : Rate[run.frac][p][n] <= Rate[run.frac][p][run.n])
=============================================================================
