SPECIFICATION Spec
CHECK_DEADLOCK FALSE
CONSTANTS
    a = a
    b = b
    sea = sea
    None = None
    Places <- BothPlaces
    Commands <- StopOnly
    Orders <- PathOrder
    Edits <- Nothing
    Files <- Nothing
    Tracks <- Nothing
    Drops <- Nothing
    Plans <- OneTrack
    Connections <- AllConnected
INVARIANTS
    StopHolds
