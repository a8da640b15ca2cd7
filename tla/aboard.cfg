SPECIFICATION Spec
CHECK_DEADLOCK FALSE
CONSTANTS
    Full = 2
    Eps = 1
    EngineSlew = 1
    DeadTime = 3
    Watchdog = 1
    LoopTimes = {1}
    Pwms = {0, 1, 2}
    DriverFull = 2
    DriverDelay = 2
    Thrusts <- Outer
    Waits = {1}
    MaxUpsets = 1
    Expiries = {1, 2, 9}
    MinExpiry = 2
    MaxExpiry = 3
    MaxPoints = 2
    Batch = 1
    MaxSoundings = 4
    MaxBoots = 2
    Reloads = {r1, r2, r3}
    Fitted = Fitted
    HeadRange = 8
    Deadband = 3
    StallErr = 4
    StallMove = 2
    StallTime = 2
    HostQuiet = 2
    Noise = 1
    Targets <- SteerTargets
    SpotCounts = {1, 2, 3}
    Dwell = 1
    MaxDrives = 2
    SeqModulo = 5
    RecentMax = 2
    AckTimeout = 1
INVARIANTS
    AboardTypeOK
    SilenceStops
    LatchFollowsDriver
    LiveSurvives
    OneMotor
    PushBounded
    DriveLetsGo
    DeafBoardNoticed
PROPERTIES
    CommandPrevails
    EverySpotWorked
