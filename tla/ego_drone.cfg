SPECIFICATION FairSpec
CONSTANTS
    Goal = {g1, g2}
    none = none
    Duration = 2
    QueueSize = 1
    MaxNested = 2
    realworld = TRUE
    drone_id = 0
    Swarm = FALSE
    DepthFusion = FALSE
    Handshake = TRUE
INVARIANTS
    PlanServesGoal
    StopOncePerPlan
    LoopCanReturn
    ServerFollowsPlanner
PROPERTIES
    ImplementsProtocol
    GoalReturns
    EmergencyEnds
    GoalFlown
CHECK_DEADLOCK FALSE
