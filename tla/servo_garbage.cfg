SPECIFICATION Spec
CONSTANTS
    Pulses = 3
    Garbage = {0, 3}
    MaxFaults = 0
INVARIANT DroppedMeansMoved
CHECK_DEADLOCK FALSE
