--------------------------- MODULE MCMissionFlight ---------------------------
EXTENDS MissionFlight
MCGarbage == [at |-> "nowhere", z |-> 0]
MCPoints == [i \in 0 .. target_point_num - 1 |->
               [at |-> IF i % 2 = 0 THEN "field" ELSE "court", z |-> 100]]
MCOdometry == {[at |-> "home", z |-> 0]}
MCPutPlan == {[i \in 0 .. 3 |-> i = 1]}
=============================================================================
