----------------------------- MODULE EgoPlanning -----------------------------
(***************************************************************************)
(* The planner node and traj_server, which share the topic                 *)
(* planning/bspline, and what has to hold of them together.                *)
(***************************************************************************)
EXTENDS EgoReplanFSM

VARIABLES server, cmd       \* see TrajServer

TS == INSTANCE TrajServer

planner == <<exec_state, nested, have, escape, end_pt, traj, world, announced, stopped>>
allvars == <<vars, server, cmd>>

PlanningInit == Init /\ TS!Init

PlannerStep == (Subscription \/ execFSMCallback \/ Safety \/ Outside)
                 /\ UNCHANGED <<server, cmd>>
ServerStep  == (TS!bsplineCallback \/ TS!cmdCallback) /\ UNCHANGED planner
Time        == Elapse /\ server' = Grow(server) /\ UNCHANGED cmd

PlanningNext == PlannerStep \/ ServerStep \/ Time

PlanningSpec == PlanningInit /\ [][PlanningNext]_allvars
-----------------------------------------------------------------------------
\* The timers run; the vehicle slows down if EMERGENCY_STOP waits for it.  The
\* optimiser finds a trajectory if it is asked again and again with a start that
\* is not near the local target (each trial begins with another random path); it
\* never does while the start is near (see NeverStaysNear).
Fairness ==
    /\ WF_allvars(odometryCallback(TRUE) /\ ~have_odom /\ UNCHANGED <<server, cmd>>)
    /\ WF_allvars(InitState /\ UNCHANGED <<server, cmd>>)
    /\ WF_allvars(WaitTarget /\ UNCHANGED <<server, cmd>>)
    /\ SF_allvars(SpinReturns /\ UNCHANGED <<server, cmd>>)
    /\ SF_allvars(SequentialStart(TRUE) /\ UNCHANGED <<server, cmd>>)
    /\ SF_allvars(GenNewTraj(TRUE) /\ UNCHANGED <<server, cmd>>)
    /\ SF_allvars(ReplanTraj(TRUE) /\ UNCHANGED <<server, cmd>>)
    /\ WF_allvars((\E far \in BOOLEAN : ExecTraj(far)) /\ UNCHANGED <<server, cmd>>)
    /\ SF_allvars(EmergencyStop /\ UNCHANGED <<server, cmd>>)
    /\ WF_allvars(odometryCallback(TRUE) /\ exec_state = "EMERGENCY_STOP"
                    /\ UNCHANGED <<server, cmd>>)
    /\ WF_allvars(TS!bsplineCallback /\ UNCHANGED planner)
    /\ WF_allvars(TS!cmdCallback /\ UNCHANGED planner)

\* Reading the topic and the 10 ms timer of the server are short compared with
\* a unit of replan_thresh_.
ServerPrompt == bsplines = <<>> /\ cmd = TS!Sample

FairSpec == /\ PlanningInit /\ Fairness
            /\ [][PlanningNext /\ (Time => ServerPrompt)]_allvars
-----------------------------------------------------------------------------
\* What traj_server follows is, once it has read the topic, the trajectory
\* the planner checks for collisions; a full topic never loses the last one.
ServerFollowsPlanner ==
    (IF bsplines = <<>> THEN server ELSE bsplines[Len(bsplines)]) = traj

\* Obstacles stop appearing and depth is not lost.
CalmAtLast == <>[](~blocked /\ ~depth_timeout)

\* The point to plan from does not stay within 0.2 m of the local target for good:
\* there reboundReplan refuses every call ("Close to goal"), so that a goal given
\* next to a hovering drone is never planned for and keeps its callbacks suspended.
NeverStaysNear == []<>~near

\* No more goal callbacks are suspended: each new one keeps those below it in
\* the stack from returning.
GoalsPause == <>[][nested' <= nested]_allvars

\* However deep they are nested, all goal callbacks suspended in their spinOnce
\* loops return (ego_replan_fsm.cpp:191), but for a goal that stays next to the drone.
GoalReturns == CalmAtLast /\ NeverStaysNear /\ GoalsPause => (nested > 0 ~> nested = 0)

\* Every emergency ends: with the map clear the node leaves EMERGENCY_STOP.
EmergencyEnds == CalmAtLast => []<>(exec_state # "EMERGENCY_STOP")

AtEnd == exec_state = "EXEC_TRAJ" /\ traj.last /\ traj.age = Duration

\* Every goal the planner accepted is replaced or, in the end, flown: position
\* commands from a trajectory planned for it are published, but for a goal that
\* stays next to the drone.
GoalFlown ==
    CalmAtLast /\ NeverStaysNear => \A g \in Goal :
        end_pt = g /\ have_target /\ ~AtEnd ~> end_pt # g \/ cmd = [kind |-> "plan", goal |-> g]
=============================================================================
