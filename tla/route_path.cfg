SPECIFICATION Spec
CHECK_DEADLOCK FALSE
CONSTANTS
    a = a
    b = b
    sea = sea
    None = None
    Places <- ThreePlaces
    Commands <- PauseAndResume
    Orders <- PathOrders
    Edits <- Nothing
    Files <- OneTrack
    Tracks <- Nothing
    Drops <- Nothing
    Plans <- Nothing
    Connections <- FixOrNot
INVARIANTS
    ArrivalRuns
