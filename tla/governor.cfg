SPECIFICATION Spec
CONSTANTS
    Full = 3
    Eps = 1
    ThrustSlew = 1
    SteerSlew = 1
    ReverseDelay = 4
    FixTimeout = 2
    HeadingStale = 1
    DepthStale = 1
    Manual = manual
    Modes = {manual, guided}
    Commands <- HelmCommands
    Elapses = {2}
    Readings <- ManyReadings
    Caps = {2, 4}
    MinDepths = {2}
    FloorMinDepth = 0
    FloorFix = TRUE
    Faults = {"before", "after"}
INVARIANTS
    TypeOK
    StopsInTime
PROPERTIES
    ImplementsInterlock
    DeratedNeverRises
    SlewBounded
