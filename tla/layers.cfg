SPECIFICATION SteadySpec
CONSTANTS
    Full = 3
    Eps = 1
    EngineSlew = 1
    DeadTime = 3
    Watchdog = 2
    LoopTimes = {1, 2}
    Pwms = {0, 1, 2, 3}
    DriverFull = 3
    DriverDelay = 2
    Thrusts <- SignedThrusts
    Waits = {1, 2}
    MaxUpsets = 0
PROPERTIES
    DriverImplementsInterlock
    BoardImplementsInterlock
