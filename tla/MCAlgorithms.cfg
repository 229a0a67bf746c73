SPECIFICATION Spec
CONSTANTS
    MaxSeats = 5
    Limit = 4
    ChainLengths <- chainLengthsTried
    SyllableCounts <- syllableCountsTried
    Lefts <- leftsTried
    OptionCounts <- optionCountsTried
    WordOrder <- everyPair
    MaxPlayed = 1
    searchDepth = 4
    branchCap = 12
    nodeCap = 20000
\* A run stops when it is done.
CHECK_DEADLOCK FALSE
INVARIANTS
    StopsWhereSaid
    TrimsAsSaid
    BetterIsNeverWorthLess
    BotsChooseWell
