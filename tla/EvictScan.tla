----------------------------- MODULE EvictScan ------------------------------
(***************************************************************************)
(* ExpertCache::evict_one written as the loops of the code: three passes,  *)
(* each popping the front of a deque and pushing back what it skips.       *)
(* ExpertCache gives the outcome in closed form; this module is the        *)
(* reference it is checked against in every reachable state.               *)
(***************************************************************************)
EXTENDS ExpertCache

CONSTANT Nobody  \* no victim found
ASSUME NobodyAssumption == Nobody \notin Expert

\* One round of the inner loop: an entry in use, or one that earns its
\* reinsertion, goes to the back; otherwise the loop ends with the victim.
Looked(l, pass, s) ==
    LET e == Head(s.q) back == Append(Tail(s.q), e) IN
    IF s.victim # Nobody THEN s
    ELSE IF ~Idle(l, e) THEN [s EXCEPT !.q = back]
    ELSE IF pass = 1 /\ s.freq[e] > 1
      THEN [s EXCEPT !.q = back, !.freq[e] = @ - 1]
    ELSE [s EXCEPT !.q = Tail(s.q), !.victim = e]

\* The inner loop: as many rounds as the queue was long.
ScanLoop(l, pass, q, freq) ==
    LET after[n \in 0 .. Len(q)] ==
            IF n = 0 THEN [q |-> q, freq |-> freq, victim |-> Nobody]
                     ELSE Looked(l, pass, after[n - 1])
    IN  after[Len(q)]

\* The outer loop, stopping at the first pass that finds a victim.
EvictLoop(l) ==
    LET freq0 == [e \in Expert |-> ent[l][e].freq]
        small0 == ScanLoop(l, 0, lay[l].small, freq0)
        main1 == ScanLoop(l, 1, lay[l].main, freq0)
        main2 == ScanLoop(l, 2, main1.q, main1.freq)
        main == IF main1.victim # Nobody THEN main1 ELSE main2
    IN  IF small0.victim # Nobody
          THEN [small |-> small0.q, main |-> lay[l].main,
                freq |-> small0.freq, victim |-> small0.victim]
          ELSE [small |-> small0.q, main |-> main.q,
                freq |-> main.freq, victim |-> main.victim]

\* The loops pick the victim the closed form names, leave both queues in the
\* order it gives and charge second chances to the same entries; and they find
\* none exactly when every entry of SMALL and MAIN is in use, moving nothing.
ScanMatchesLoops ==
    \A l \in Layer :
        LET loop == EvictLoop(l)
            after == LayerAfterEviction(l, lay[l])
            entries == EntriesAfterEviction(l)
        IN  IF CanEvict(l)
              THEN /\ loop.victim = Victim(l)
                   /\ loop.small = after.small /\ loop.main = after.main
                   /\ \A e \in Expert \ {loop.victim} :
                         loop.freq[e] = entries[e].freq
              ELSE /\ loop.victim = Nobody
                   /\ loop.small = lay[l].small /\ loop.main = lay[l].main
                   /\ \A e \in Expert : loop.freq[e] = ent[l][e].freq

Symmetry == Permutations(Expert) \cup Permutations(Slot)
=============================================================================
