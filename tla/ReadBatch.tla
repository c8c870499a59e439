----------------------------- MODULE ReadBatch ------------------------------
(***************************************************************************)
(* The reads of one remap, from llama-moestream.cpp: ms_remap_fn cuts the  *)
(* pending misses into batches, run_reads_parallel lets threads draw the   *)
(* jobs of a batch by a shared counter, and what was read into staging     *)
(* memory is uploaded before the next batch reuses it.                     *)
(*                                                                         *)
(* A miss has three weights; a weight whose slab the CPU can address       *)
(* (zero-copy) is read straight into it.  Reads do not fail here, that is  *)
(* SlabRemap's subject.  Which number of threads a batch gets is left open *)
(* (the tuner tries six of them in turn), statistics are left out.         *)
(***************************************************************************)
EXTENDS Integers, Sequences, FiniteSets, FiniteSetsExt

CONSTANTS
    NPend,   \* misses of the remap
    Threads, \* the numbers of threads io_threads_for_this_call may answer
    NStage,  \* staging slots once allocated: 3 * 32
    Nothing  \* memory that holds no weight, and a thread without a job

Role == 1 .. 3
Cell == (1 .. NPend) \X Role  \* the weights to be read
Thread == 1 .. Max(Threads)

ASSUME ReadAssumption ==
    /\ NPend \in Nat \ {0}
    /\ Threads \subseteq Nat \ {0}
    /\ \E n \in Threads : \A m \in Threads : m <= n
    /\ NStage \in Nat /\ NStage >= 3
    /\ Nothing \notin Cell /\ Nothing \notin Nat

VARIABLES
    direct,  \* the roles whose slab is zero-copy
    cap,     \* staging slots allocated
    base, p, \* pend[base + 1 .. p] is the batch
    jobs,    \* the batch: cell, and staging slot or Nothing if direct
    ticket,  \* the shared counter next
    worker,  \* worker[t]: the job it reads, Nothing, or its end
    stage,   \* staging slot -> the weight its bytes are
    slab,    \* cell -> the weight the slab holds there
    at       \* step of ms_remap_fn

vars == <<direct, cap, base, p, jobs, ticket, worker, stage, slab, at>>

Ended == 0  \* No job has this number.

Init ==
    /\ direct \in SUBSET Role
    /\ cap \in {0, NStage}  \* An earlier remap may have allocated it.
    /\ base = 0 /\ p = 0 /\ jobs = <<>>
    /\ ticket = 1
    /\ worker = [t \in Thread |-> Ended]
    /\ stage = [s \in 1 .. NStage |-> Nothing]
    /\ slab = [c \in Cell |-> Nothing]
    /\ at = "alloc"
-----------------------------------------------------------------------------
\* Staging slots one miss needs.
StageNeed == Cardinality(Role \ direct)

NeedsStage == StageNeed > 0

Allocate ==
    /\ at = "alloc"
    /\ cap' = IF NeedsStage THEN NStage ELSE cap
    /\ at' = "batch"
    /\ UNCHANGED <<direct, base, p, jobs, ticket, worker, stage, slab>>

\* How many misses fit into one batch.
BatchSize == IF StageNeed = 0 THEN NPend ELSE cap \div StageNeed

\* Staged weights are numbered as they are met, misses first, then roles.
StageSlot(n, r) == n * StageNeed + Cardinality({s \in Role \ direct : s <= r})

JobOf(first, i) ==
    LET n == (i - 1) \div 3
        r == ((i - 1) % 3) + 1
    IN  [cell |-> <<first + n + 1, r>>,
         dst  |-> IF r \in direct THEN Nothing ELSE StageSlot(n, r)]

\* The batch, and the threads that read it: no more than there are jobs.  A
\* single thread is ms_remap_fn's own.  A batch of no misses would end the reads
\* ("[BUG] ... Output will be corrupt").
FormBatch ==
    /\ at = "batch" /\ base < NPend
    /\ p' = IF base + BatchSize < NPend THEN base + BatchSize ELSE NPend
    /\ jobs' = [i \in 1 .. 3 * (p' - base) |-> JobOf(base, i)]
    /\ ticket' = 1
    /\ \E n \in Threads :
          worker' = [t \in Thread |-> IF t <= Min({n, Len(jobs')}) THEN Nothing ELSE Ended]
    /\ at' = IF jobs' = <<>> THEN "discarded" ELSE "read"
    /\ UNCHANGED <<direct, cap, base, stage, slab>>

Advance == ticket' = ticket + 1

DrawnBelow == ticket < Len(jobs)  \* Mutant: stops one job early.

Drawn == ticket <= Len(jobs)

\* fetch_add: each ticket goes to one thread; past the last job it ends.
Draw(t) ==
    /\ at = "read" /\ worker[t] = Nothing
    /\ worker' = [worker EXCEPT ![t] = IF Drawn THEN ticket ELSE Ended]
    /\ Advance
    /\ UNCHANGED <<direct, cap, base, p, jobs, stage, slab, at>>

\* do_read: pread into the slab or the job's staging slot.
Read(t) ==
    /\ at = "read" /\ worker[t] \notin {Nothing, Ended}
    /\ LET j == jobs[worker[t]] IN
          IF j.dst = Nothing
            THEN slab' = [slab EXCEPT ![j.cell] = j.cell] /\ UNCHANGED stage
            ELSE stage' = [stage EXCEPT ![j.dst] = j.cell] /\ UNCHANGED slab
    /\ worker' = [worker EXCEPT ![t] = Nothing]
    /\ UNCHANGED <<direct, cap, base, p, jobs, ticket, at>>

\* Mutant: waits for as many threads as configured, not as started.
JoinedPool == ticket = Len(jobs) + Max(Threads) + 1

Joined == \A t \in Thread : worker[t] = Ended

\* The threads joined: everything staged is uploaded into its slab.
Upload ==
    /\ at = "read" /\ Joined
    /\ slab' = [c \in Cell |->
                  LET staged == {i \in DOMAIN jobs :
                                   jobs[i].cell = c /\ jobs[i].dst # Nothing}
                  IN  IF staged = {} THEN slab[c]
                      ELSE stage[jobs[CHOOSE i \in staged : TRUE].dst]]
    /\ base' = p
    /\ at' = "batch"
    /\ UNCHANGED <<direct, cap, p, jobs, ticket, worker, stage>>

Return ==
    /\ at = "batch" /\ base = NPend
    /\ at' = "returned"
    /\ UNCHANGED <<direct, cap, base, p, jobs, ticket, worker, stage, slab>>

Next ==
    \/ Allocate \/ FormBatch \/ Upload \/ Return
    \/ \E t \in Thread : Draw(t) \/ Read(t)

Spec == Init /\ [][Next]_vars

\* Every thread is scheduled and every pread returns.
FairSpec ==
    /\ Spec
    /\ WF_vars(Allocate) /\ WF_vars(FormBatch) /\ WF_vars(Upload) /\ WF_vars(Return)
    /\ \A t \in Thread : WF_vars(Draw(t)) /\ WF_vars(Read(t))
-----------------------------------------------------------------------------
TypeOK ==
    /\ direct \subseteq Role /\ cap \in {0, NStage}
    /\ base \in 0 .. NPend /\ p \in 0 .. NPend
    /\ \A i \in DOMAIN jobs : jobs[i].dst \in (1 .. cap) \cup {Nothing}
    /\ ticket \in 1 .. 3 * NPend + Max(Threads) + 1
    /\ \A t \in Thread : worker[t] \in (0 .. Len(jobs)) \cup {Nothing}
    /\ stage \in [1 .. NStage -> Cell \cup {Nothing}]
    /\ slab \in [Cell -> Cell \cup {Nothing}]

\* When ms_remap_fn is past its reads, every miss has its own three weights in
\* the slab, whatever the threads' timing and the mix of staged and direct
\* reads: no job is skipped and no staging slot reused before its upload.
EveryMissIsRead == at = "returned" => \A c \in Cell : slab[c] = c

\* ms_remap_fn gets through its batches and every thread ends; the branch that
\* discards pending reads because no miss fits the staging memory is never taken.
ReadsEnd == <>(at = "returned")
=============================================================================
