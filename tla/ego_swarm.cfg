SPECIFICATION PlanningSpec
CONSTANTS
    Goal = {g1, g2}
    none = none
    Duration = 2
    QueueSize = 1
    MaxNested = 1
    realworld = FALSE
    drone_id = 1
    Swarm = TRUE
    DepthFusion = TRUE
    Handshake = FALSE
CHECK_DEADLOCK FALSE
INVARIANTS
    TrajectoryBeforeUse
    TargetWhilePlanning
SYMMETRY Symmetry
