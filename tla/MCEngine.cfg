SPECIFICATION FairSpec
CONSTANTS
    p1 = p1
    p2 = p2
    p3 = p3
    p4 = p4
    NoWord = NoWord
    NoPlayer = NoPlayer
    TurnLimit = 2
    Player <- MCPlayer
    Tables <- MCTables
    Syllable <- MCSyllable
    Word <- MCWord
    FirstSyllable <- MCFirst
    LastSyllable <- MCLast
    Typed <- MCTyped
    Syllables <- MCSyllables
    Resolve <- MCResolve
\* The game stops when it is over: the engine then refuses every call but a submission.
INVARIANTS
    TypeOK
    TurnIsAlive
    ChainIsLegal
    PlacingsAreComplete
    CloserIsNeverStuck
    ScoresMatchMoves
PROPERTIES
    FreshTurnIsPlayable
    ClockIsNotExtended
    LaterOutStandsHigher
    ImplementsTable
    GameEnds
