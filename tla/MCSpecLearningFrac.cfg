CONSTANTS
    Candidates <- OffFirst
    Parallel = {1}
    Frac = {15, 40}
    Rate <- RateTableOne
    Polls = 1
SPECIFICATION DraftSpec
INVARIANTS
    RowsAreComparable
