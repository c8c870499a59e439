CONSTANTS
    Candidates <- OffFirst
    Parallel = {1, 4}
    Frac = {15}
    Rate <- RateTableNumber
    Polls = 2
SPECIFICATION FairDraftSpec
INVARIANTS
    ConcurrencyIsRespected
PROPERTIES
    SearchConverges
