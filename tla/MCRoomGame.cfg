SPECIFICATION Spec
CONSTANTS
    a = a
    b = b
    c = c
    a1 = a1
    b1 = b1
    b2 = b2
    c1 = c1
    None = None
    Person = {a, b, c}
    Holder <- MCHolder
    MaxPlayers = 3
    Session = {a1, b1, c1}
    Creator = a1
    MaxSeq = 2
    Roaming = {}
    MayDrain = FALSE
    JoinsAtOnce = 1
SYMMETRY MCSymmetry
INVARIANTS
    PlayersAreSeated
    NoGhostSeat
PROPERTIES
    SequenceNamesTheTurn
    PlaysAtATable
