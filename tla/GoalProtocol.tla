---------------------------- MODULE GoalProtocol ----------------------------
(***************************************************************************)
(* What the planner promises to whoever sends it goals: it starts idle,    *)
(* takes a goal at any time, and flies only while the trajectory it has    *)
(* leads to the goal it was given last.  It never leaves the idle state by *)
(* itself and never forgets a goal before its trajectory has ended.        *)
(***************************************************************************)
CONSTANTS Goal, none

VARIABLES phase, goal

Init == phase = "starting" /\ goal = none

Start  == phase = "starting" /\ phase' = "idle" /\ UNCHANGED goal
Accept == phase # "starting" /\ goal' \in Goal /\ phase' = "planning"
Plan   == phase = "planning" /\ phase' = "flying" /\ UNCHANGED goal
Replan == phase = "flying" /\ phase' = "planning" /\ UNCHANGED goal
Finish == phase = "flying" /\ phase' = "idle" /\ UNCHANGED goal

Next == Start \/ Accept \/ Plan \/ Replan \/ Finish

Spec == Init /\ [][Next]_<<phase, goal>>
=============================================================================
