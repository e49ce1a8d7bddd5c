SPECIFICATION PlanningSpec
CONSTANTS
    Goal = {g1, g2}
    none = none
    Duration = 2
    QueueSize = 1
    MaxNested = 0
    realworld = TRUE
    drone_id = 0
    Swarm = FALSE
    DepthFusion = FALSE
    Handshake = TRUE
CHECK_DEADLOCK FALSE
PROPERTY EmergencyIsStopped
