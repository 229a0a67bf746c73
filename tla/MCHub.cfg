SPECIFICATION FairSpec
CONSTANTS
    a = a
    b = b
    None = None
    Session = {a, b}
    Room = {11, 12}
    Code = {1, 2}
    MaxRooms = 2
    InboxCap = 1
    Asks <- MCAsks
    Mortal = {a}
INVARIANTS
    RegistryIsExact
    QueueHoldsTheLiving
    SeatsAreFollowed
PROPERTIES
    ShutdownEndsEverything
