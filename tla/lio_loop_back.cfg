SPECIFICATION Spec
CONSTANTS
    MaxTime = 9
    Period = 4
    Offsets = {3}
    ImuGap = 4
    MaxScans = 2
    MaxSamples = 4
    LidarLoopBack = TRUE
    ImuLoopBack = FALSE
    MAX_INI_COUNT = 1
    Garbage = {0}
INVARIANT ScanKeepsItsTime
CHECK_DEADLOCK FALSE
