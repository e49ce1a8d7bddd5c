SPECIFICATION FairSpec
CONSTANTS
    LidarCount = 2
    Size = 2
    IndexMod = 4
    SeqMod = 4
INVARIANTS
    NoLostWakeup
PROPERTIES
    ImplementsQueue
    PacketsPublished
    ExitCompletes
CHECK_DEADLOCK FALSE
