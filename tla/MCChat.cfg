SPECIFICATION Spec
CONSTANTS
    Seat <- seats
    chatHistoryLimit = 2
    MaxLines = 3
    Nobody = Nobody
\* The room closes when its last seat is vacated.
CHECK_DEADLOCK FALSE
INVARIANT PanelsAreTrue
