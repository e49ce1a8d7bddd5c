SPECIFICATION FairSpec
CONSTANTS
    Pulses = 3
    Garbage = {0}
    MaxFaults = 4
INVARIANTS
    NotBeforeTurn
    OnOutOfTurn
PROPERTIES
    CountedByItsRequest
    AllDropped
CHECK_DEADLOCK FALSE
