CONSTANTS
    Handler <- requests
    addressOf <- sharedAddress
    Caps = {1, 2}
    MaxPerAddress = 1
    OutboxCap = 1
    PingMisses = 2
    MaxFrames = 2
    focus = "a"
SPECIFICATION FairSpec
INVARIANTS
    SlotsAddUp
    MissedMeansClosing
    LastWordsArrive
PROPERTY SlotsComeBack
CHECK_DEADLOCK FALSE
