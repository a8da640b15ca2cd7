SPECIFICATION Spec
CHECK_DEADLOCK FALSE
CONSTANTS
    Timeout = 2
    MaxClients = 1
    ContinueMission = TRUE
    AutoRtl = TRUE
    AutoApb = TRUE
    Remote = FALSE
    Orders <- GuidedOrders
    Socs <- AllCharges
    Rungs <- OddRungs
    RtlSoc = 1
    CriticalSoc = 1
    Full = 4
INVARIANTS
    OnePlanner
PROPERTIES
    CapRisesWithCharge
