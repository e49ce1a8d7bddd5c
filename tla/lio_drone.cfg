SPECIFICATION Spec
CONSTANTS
    MaxTime = 14
    Period = 3
    Offsets = {0, 1, 3}
    ImuGap = 3
    MaxScans = 2
    MaxSamples = 2
    LidarLoopBack = FALSE
    ImuLoopBack = TRUE
    MAX_INI_COUNT = 1
    Garbage = {0, 14}
INVARIANTS
    QueuesAligned
PROPERTIES
    OdometryFresh
    PropagationExact
    FirstPropagation
CHECK_DEADLOCK FALSE
