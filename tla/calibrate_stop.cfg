SPECIFICATION CalibrationSpec
CHECK_DEADLOCK FALSE
CONSTANTS
    MaxDrives = 1
PROPERTIES
    StopEndsDrive
