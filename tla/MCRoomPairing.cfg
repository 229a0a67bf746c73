SPECIFICATION Spec
CONSTANTS
    a = a
    b = b
    c = c
    a1 = a1
    b1 = b1
    b2 = b2
    c1 = c1
    None = None
    Person = {a, b, c}
    Holder <- MCHolder
    MaxPlayers = 2
    Session = {b1, b2, c1}
    Creator = b1
    MaxSeq = 1
    Roaming = {}
    MayDrain = FALSE
    JoinsAtOnce = 1
PROPERTIES
    NobodyIsDealtInUnasked
