SPECIFICATION LiveRoute
CHECK_DEADLOCK FALSE
CONSTANTS
    a = a
    b = b
    sea = sea
    None = None
    Places <- BothPlaces
    Commands <- MobAndStop
    Orders <- LiveOrders
    Edits <- Nothing
    Files <- Nothing
    Tracks <- Nothing
    Drops <- Nothing
    Plans <- Nothing
    Connections <- AllConnected
PROPERTIES
    RouteArrives
    PatrolSweeps
