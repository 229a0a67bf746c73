SPECIFICATION Spec
CONSTANTS
    Spelling <- MCSpelling
    variantsFor <- otherSpellings
    Text <- MCText
    isVietnamese <- hasVietnamese
    sensesOf <- pageSenses
    Dumps <- MCDumps
    Lists <- MCLists
    minWords = 1
    minPages = 1
    maxSenses = 2
\* The builder stops when no build is left to run.
CHECK_DEADLOCK FALSE
INVARIANTS
    TableIsOrderFree
    OutIsAlwaysServable
    CorpusRebuildsTheSame
    SensesStandInTheSection
