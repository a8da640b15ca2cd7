SPECIFICATION Spec
CHECK_DEADLOCK FALSE
CONSTANTS
    a = a
    b = b
    sea = sea
    None = None
    Places <- BothPlaces
    Commands <- AllCommands
    Orders <- LegOrders
    Edits <- ShortEdits
    Files <- Nothing
    Tracks <- OneTrack
    Drops <- Here
    Plans <- Nothing
    Connections <- AllConnected
INVARIANTS
    RouteTypeOK
    NoRouteFault
    StopHolds
PROPERTIES
    ResumeRestores
