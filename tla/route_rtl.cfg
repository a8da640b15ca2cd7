SPECIFICATION LiveRoute
CHECK_DEADLOCK FALSE
CONSTANTS
    a = a
    b = b
    sea = sea
    None = None
    Places <- BothPlaces
    Commands <- StopOnly
    Orders <- RtlOrders
    Edits <- Nothing
    Files <- OneTrack
    Tracks <- Nothing
    Drops <- Nothing
    Plans <- OneTrack
    Connections <- AllConnected
PROPERTIES
    FaultPasses
