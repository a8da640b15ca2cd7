SPECIFICATION LiveSupervisor
CHECK_DEADLOCK FALSE
CONSTANTS
    Timeout = 2
    MaxClients = 2
    ContinueMission = FALSE
    AutoRtl = FALSE
    AutoApb = FALSE
    Remote = FALSE
    Orders <- LegOrders
    Socs <- FlatOrFull
    Rungs <- OddRungs
    RtlSoc = 1
    CriticalSoc = 1
    Full = 4
INVARIANTS
    SupervisorTypeOK
    DeadmanHolds
PROPERTIES
    DeadmanStops
    HoldsPosition
    SelfDrivesOnlyOptedIn
