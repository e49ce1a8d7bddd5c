---------------------------- MODULE MCMissionFSM ----------------------------
EXTENDS MissionFSM
MCOdometry == {[at |-> "home", z |-> 100], [at |-> "field", z |-> 100],
               [at |-> "field", z |-> 30]}
MCCommand == {[at |-> "field", z |-> 100]}
MCPutPlan == {[i \in 0 .. 3 |-> TRUE], [i \in 0 .. 3 |-> i = 1]}
MCGarbage == [at |-> "nowhere", z |-> 0]
MCPoints == [i \in 0 .. target_point_num - 1 |->
               [at |-> IF i % 2 = 0 THEN "field" ELSE "home", z |-> 100]]
=============================================================================
