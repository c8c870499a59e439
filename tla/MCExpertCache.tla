--------------------------- MODULE MCExpertCache ----------------------------
(* Model checking of ExpertCache.  Expert ids, and slots, are              *)
(* interchangeable: the code compares them for equality only.              *)
EXTENDS ExpertCache

Symmetry == Permutations(Expert) \cup Permutations(Slot)
=============================================================================
