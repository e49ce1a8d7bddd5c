---------------------------- MODULE EgoReplanFSM ----------------------------
(***************************************************************************)
(* The replanning state machine of the planner node: class EGOReplanFSM of *)
(* planner/plan_manage/src/ego_replan_fsm.cpp, for goals given by hand or  *)
(* by the mission controller (flight_type 1).                              *)
(*                                                                         *)
(* The node spins on one thread.  A goal that arrives while no trajectory  *)
(* is flown suspends its callback in a spinOnce loop until one is; every   *)
(* other callback, and another goal, runs inside that loop (nested counts  *)
(* the suspended callbacks).  The optimiser refuses to plan while the      *)
(* start is near the local target; else it finds a trajectory or not, and  *)
(* what more it computes is left out.  A trajectory's age counts units of  *)
(* replan_thresh_, and no trajectory is shorter than 0.75 s.               *)
(***************************************************************************)
EXTENDS Integers, Sequences

CONSTANTS
    Goal,               \* what the goal topic carries
    none,               \* end_pt_ before the first goal
    Duration,           \* age at which a trajectory has ended
    QueueSize,          \* messages planning/bspline holds; a full queue drops the oldest
    MaxNested,          \* bound on goal callbacks suspended at once
    realworld,          \* launch file: fsm/realworld_experiment
    drone_id,           \* launch file: 0 for a single drone
    Swarm,              \* another drone broadcasts its trajectories
    DepthFusion,        \* the map is built from depth images
    Handshake           \* goals are sent only after /ego_state was heard

ASSUME PlannerAssumption ==
    /\ none \notin Goal
    /\ Duration \in Nat \ {0} /\ QueueSize \in Nat \ {0} /\ MaxNested \in Nat
    /\ drone_id \in Nat
    /\ {realworld, Swarm, DepthFusion, Handshake} \subseteq BOOLEAN

VARIABLES
    exec_state,
    nested,             \* planNextWaypoint calls waiting in their spinOnce loop
    have_odom, have_target, have_trigger, have_recv_pre_agent,
    flag_escape_emergency, enable_fail_safe,
    end_pt,             \* the goal accepted last
    traj,               \* local_data_, and whether local_target_pt_ is end_pt_
    bsplines,           \* the topic planning/bspline, oldest message first
    slow, blocked, depth_timeout,  \* odom_vel_ below 0.1; the map; the depth flag
    near,               \* start_pt_ is within 0.2 m of local_target_pt_
    announced,          \* /ego_state was published
    stops, stopped      \* history: stop trajectories since GEN_NEW_TRAJ succeeded; one in this emergency

have   == <<have_odom, have_target, have_trigger, have_recv_pre_agent>>
escape == <<flag_escape_emergency, enable_fail_safe, stops>>
world  == <<slow, blocked, depth_timeout, near>>
vars   == <<exec_state, nested, have, escape, end_pt, traj, bsplines, world,
            announced, stopped>>

ExecState == {"INIT", "WAIT_TARGET", "GEN_NEW_TRAJ", "REPLAN_TRAJ", "EXEC_TRAJ",
              "EMERGENCY_STOP", "SEQUENTIAL_START"}
Trajectory == [kind : {"none", "plan", "stop"}, goal : Goal \cup {none},
               last : BOOLEAN, age : 0 .. Duration]
NoTrajectory == [kind |-> "none", goal |-> none, last |-> FALSE, age |-> 0]

\* flag_escape_emergency_ is never initialised.
Init ==
    /\ exec_state = "INIT" /\ nested = 0
    /\ have_odom = FALSE /\ have_target = FALSE /\ have_trigger = ~realworld
    /\ have_recv_pre_agent = FALSE
    /\ flag_escape_emergency \in BOOLEAN /\ enable_fail_safe = TRUE
    /\ end_pt = none /\ traj = NoTrajectory /\ bsplines = <<>>
    /\ slow = TRUE /\ blocked = FALSE /\ depth_timeout = FALSE /\ near = FALSE
    /\ announced = FALSE /\ stops = 0 /\ stopped = FALSE
-----------------------------------------------------------------------------
\* The number of consecutive calls only seeds the optimiser.
changeFSMExecState(state) ==
    /\ exec_state' = state
    /\ stopped' = (stopped /\ state = "EMERGENCY_STOP")

Publish(t) ==
    bsplines' = Append(IF Len(bsplines) < QueueSize THEN bsplines
                                                    ELSE Tail(bsplines), t)
\* Faulty variant: the new trajectory is not sent to traj_server.
UpdateTrajUnpublished(t) == traj' = t /\ UNCHANGED bsplines
UpdateTraj(t) == traj' = t /\ Publish(t)

\* callReboundReplan found a trajectory: local_data_ is replaced and
\* published.  Its end is the goal or a point on the way.  "Close to goal"
\* refuses every trial.
Planned ==
    /\ ~near
    /\ \E last \in BOOLEAN :
          UpdateTraj([kind |-> "plan", goal |-> end_pt, last |-> last, age |-> 0])

callEmergencyStop ==
    /\ UpdateTraj([kind |-> "stop", goal |-> end_pt, last |-> FALSE, age |-> 0])
    /\ stops' = IF stops < 2 THEN stops + 1 ELSE 2
-----------------------------------------------------------------------------
(* Subscriptions                                                           *)

odometryCallback(s) ==
    /\ have_odom' = TRUE /\ slow' = s
    /\ UNCHANGED <<exec_state, nested, have_target, have_trigger,
                   have_recv_pre_agent, escape, end_pt, traj, bsplines, blocked,
                   depth_timeout, near, announced, stopped>>

\* Faulty variants: a goal enters the loop in WAIT_TARGET too; a new goal does
\* not interrupt the flight.
SuspendsIdle == exec_state # "EXEC_TRAJ"
ResumeFlying == UNCHANGED <<exec_state, stopped>>

Resume == changeFSMExecState("REPLAN_TRAJ")
Suspends == exec_state \notin {"WAIT_TARGET", "EXEC_TRAJ"}

\* waypointCallback and the first part of planNextWaypoint; planGlobalTraj
\* always has two points and succeeds.
waypointCallback(g) ==
    /\ Handshake => announced
    /\ Suspends => nested < MaxNested
    /\ end_pt' = g /\ have_target' = TRUE
    /\ \/ exec_state = "WAIT_TARGET" /\ changeFSMExecState("GEN_NEW_TRAJ")
          /\ UNCHANGED nested
       \/ exec_state # "WAIT_TARGET" /\ ~Suspends
          /\ Resume /\ UNCHANGED nested
       \/ Suspends /\ nested' = nested + 1 /\ UNCHANGED <<exec_state, stopped>>
    /\ UNCHANGED <<have_odom, have_trigger, have_recv_pre_agent, escape, traj,
                   bsplines, world, announced>>

\* The innermost loop sees EXEC_TRAJ after a spinOnce and returns.
SpinReturns ==
    /\ nested > 0 /\ exec_state = "EXEC_TRAJ"
    /\ nested' = nested - 1 /\ Resume
    /\ UNCHANGED <<have, escape, end_pt, traj, bsplines, world, announced>>

swarmTrajsCallback ==
    /\ drone_id >= 1 /\ Swarm /\ have_odom
    /\ have_recv_pre_agent' = TRUE
    /\ UNCHANGED <<exec_state, nested, have_odom, have_target, have_trigger,
                   escape, end_pt, traj, bsplines, world, announced, stopped>>

\* Faulty variants of checkCollision: without the test of start_time_;
\* without the end of the time window.
InWindowUnplanned == traj.age < Duration
InWindowAlways == traj.kind # "none"

\* A broadcast trajectory, at most 0.25 s old, is compared with the first
\* two thirds of the own one.
InWindow == traj.kind # "none" /\ traj.age < Duration

\* A broadcast trajectory comes too close to the one flown.
BroadcastBsplineCallback ==
    /\ Swarm /\ InWindow
    /\ changeFSMExecState("REPLAN_TRAJ")
    /\ UNCHANGED <<nested, have, escape, end_pt, traj, bsplines, world, announced>>
-----------------------------------------------------------------------------
(* execFSMCallback, one action per branch                                  *)

Exec(state) == exec_state = state
Quiet == UNCHANGED <<nested, end_pt, world, have_odom, have_recv_pre_agent>>

InitState ==
    /\ Exec("INIT") /\ have_odom
    /\ changeFSMExecState("WAIT_TARGET")
    /\ Quiet /\ UNCHANGED <<have_target, have_trigger, escape, traj, bsplines, announced>>

WaitTarget ==
    /\ Exec("WAIT_TARGET")
    /\ \/ (~have_target \/ ~have_trigger) /\ announced' = TRUE
          /\ UNCHANGED <<exec_state, stopped>>
       \/ have_target /\ have_trigger /\ changeFSMExecState("SEQUENTIAL_START")
          /\ UNCHANGED announced
    /\ Quiet /\ UNCHANGED <<have_target, have_trigger, escape, traj, bsplines>>

SequentialStart(ok) ==
    /\ Exec("SEQUENTIAL_START")
    /\ drone_id = 0 \/ have_recv_pre_agent
    /\ have_odom /\ have_target /\ have_trigger
    /\ \/ ok /\ Planned /\ changeFSMExecState("EXEC_TRAJ")
       \/ ~ok /\ UNCHANGED <<exec_state, stopped, traj, bsplines>>
    /\ Quiet /\ UNCHANGED <<have_target, have_trigger, escape, announced>>

GenNewTraj(ok) ==
    /\ Exec("GEN_NEW_TRAJ")
    /\ \/ ok /\ Planned /\ changeFSMExecState("EXEC_TRAJ")
          /\ flag_escape_emergency' = TRUE /\ stops' = 0
       \/ ~ok /\ UNCHANGED <<exec_state, stopped, traj, bsplines,
                             flag_escape_emergency, stops>>
    /\ Quiet /\ UNCHANGED <<have_target, have_trigger, enable_fail_safe, announced>>

ReplanTraj(ok) ==
    /\ Exec("REPLAN_TRAJ")
    /\ \/ ok /\ Planned /\ changeFSMExecState("EXEC_TRAJ")
       \/ ~ok /\ UNCHANGED <<exec_state, stopped, traj, bsplines>>
    /\ Quiet /\ UNCHANGED <<have_target, have_trigger, escape, announced>>

\* far: the point flown now is more than no_replan_thresh_ from the goal.
ExecTraj(far) ==
    /\ Exec("EXEC_TRAJ")
    /\ \/ /\ traj.last /\ traj.age = Duration
          /\ have_target' = FALSE /\ have_trigger' = FALSE
          /\ changeFSMExecState("WAIT_TARGET")
       \/ /\ traj.last => far /\ traj.age < Duration
          /\ traj.age >= 1
          /\ changeFSMExecState("REPLAN_TRAJ")
          /\ UNCHANGED <<have_target, have_trigger>>
    /\ Quiet /\ UNCHANGED <<escape, traj, bsplines, announced>>

\* Faulty variant: flag_escape_emergency_ is not cleared.
DisarmNever == UNCHANGED flag_escape_emergency
Disarm == flag_escape_emergency' = FALSE

EmergencyStop ==
    /\ Exec("EMERGENCY_STOP")
    /\ Disarm
    /\ \/ /\ flag_escape_emergency
          /\ callEmergencyStop /\ stopped' = TRUE
          /\ UNCHANGED exec_state
       \/ /\ ~flag_escape_emergency /\ enable_fail_safe /\ slow
          /\ changeFSMExecState("GEN_NEW_TRAJ")
          /\ UNCHANGED <<traj, bsplines, stops>>
    /\ Quiet /\ UNCHANGED <<have_target, have_trigger, enable_fail_safe, announced>>
-----------------------------------------------------------------------------
(* checkCollisionCallback.  hit: the rest of the trajectory, or its first  *)
(* two thirds, meets an obstacle within emergency_time_ ("near") or later. *)

Hit == {"no", "near", "far"}
NoTrajectoryYet == exec_state = "WAIT_TARGET" \/ traj.kind = "none"
CollisionState(hit) == IF hit = "near" THEN "EMERGENCY_STOP" ELSE "REPLAN_TRAJ"

checkCollisionCallback(hit, ok) ==
    /\ ~NoTrajectoryYet
    /\ hit # "no" => traj.age < Duration /\ (blocked \/ (Swarm /\ hit = "near"))
    /\ enable_fail_safe' = (enable_fail_safe /\ ~depth_timeout)
    /\ \/ /\ hit = "no"
          /\ changeFSMExecState(IF depth_timeout THEN "EMERGENCY_STOP" ELSE exec_state)
          /\ UNCHANGED <<traj, bsplines>>
       \/ hit # "no" /\ ok /\ Planned /\ changeFSMExecState("EXEC_TRAJ")
       \/ /\ hit # "no" /\ ~ok
          /\ changeFSMExecState(CollisionState(hit))
          /\ UNCHANGED <<traj, bsplines>>
    /\ UNCHANGED <<nested, have, flag_escape_emergency, stops, end_pt, world, announced>>
-----------------------------------------------------------------------------
(* Outside the node.                                                       *)

Grow(t) == [t EXCEPT !.age = IF t.kind # "none" /\ @ < Duration THEN @ + 1 ELSE @]

\* Time passes; not while a loop is about to see EXEC_TRAJ, since one
\* spinOnce is short compared with a trajectory.
Elapse ==
    /\ ~(nested > 0 /\ exec_state = "EXEC_TRAJ")
    /\ traj' = Grow(traj)
    /\ bsplines' = [i \in 1 .. Len(bsplines) |-> Grow(bsplines[i])]
    /\ UNCHANGED <<exec_state, nested, have, escape, end_pt, world, announced, stopped>>

MapChanges ==
    /\ blocked' = ~blocked
    /\ UNCHANGED <<exec_state, nested, have, escape, end_pt, traj, bsplines, slow,
                   depth_timeout, near, announced, stopped>>

\* The vehicle, the point flown or the local target moves.
TargetNears ==
    /\ near' = ~near
    /\ UNCHANGED <<exec_state, nested, have, escape, end_pt, traj, bsplines, slow,
                   blocked, depth_timeout, announced, stopped>>

\* GridMap::updateOccupancyCallback sets the flag; nothing clears it.
DepthLost ==
    /\ DepthFusion /\ ~depth_timeout /\ depth_timeout' = TRUE
    /\ UNCHANGED <<exec_state, nested, have, escape, end_pt, traj, bsplines, slow,
                   blocked, near, announced, stopped>>

Subscription ==
    \/ \E s \in BOOLEAN : odometryCallback(s)
    \/ \E g \in Goal : waypointCallback(g)
    \/ SpinReturns
    \/ swarmTrajsCallback \/ BroadcastBsplineCallback

execFSMCallback ==
    \/ InitState \/ WaitTarget
    \/ \E ok \in BOOLEAN : SequentialStart(ok) \/ GenNewTraj(ok) \/ ReplanTraj(ok)
    \/ (\E far \in BOOLEAN : ExecTraj(far))
    \/ EmergencyStop

Safety == \E hit \in Hit, ok \in BOOLEAN : checkCollisionCallback(hit, ok)
Outside == MapChanges \/ TargetNears \/ DepthLost

Next == Subscription \/ execFSMCallback \/ Safety \/ Outside \/ Elapse

Spec == Init /\ [][Next]_vars
-----------------------------------------------------------------------------
(* Properties                                                              *)

\* Type invariant of the members of EGOReplanFSM.
FlagType ==
    /\ have_odom \in BOOLEAN /\ have_target \in BOOLEAN
    /\ have_trigger \in BOOLEAN /\ have_recv_pre_agent \in BOOLEAN
    /\ flag_escape_emergency \in BOOLEAN /\ enable_fail_safe \in BOOLEAN
    /\ slow \in BOOLEAN /\ blocked \in BOOLEAN /\ depth_timeout \in BOOLEAN
    /\ near \in BOOLEAN
    /\ announced \in BOOLEAN /\ stopped \in BOOLEAN
DataType ==
    /\ exec_state \in ExecState /\ nested \in 0 .. MaxNested
    /\ stops \in 0 .. 1 /\ end_pt \in Goal \cup {none}
    /\ traj \in Trajectory /\ bsplines \in Seq(Trajectory)
TypeOK == FlagType /\ DataType

\* REPLAN_TRAJ, EXEC_TRAJ and EMERGENCY_STOP evaluate local_data_'s splines,
\* which do not exist before the first successful plan; only the spinOnce
\* loop keeps a goal that comes early from getting there.
TrajectoryBeforeUse ==
    exec_state \in {"REPLAN_TRAJ", "EXEC_TRAJ", "EMERGENCY_STOP"} => traj.kind # "none"

\* In EXEC_TRAJ the trajectory flown leads to the goal accepted last,
\* whichever of the goal, safety and replanning callbacks ran before.
PlanServesGoal ==
    exec_state = "EXEC_TRAJ" =>
        have_target /\ traj.kind = "plan" /\ traj.goal = end_pt

\* "Avoiding repeated calls" (ego_replan_fsm.cpp:609): between two
\* successes of GEN_NEW_TRAJ at most one stop trajectory is issued,
\* however often the safety timer reports an emergency.
StopOncePerPlan == stops <= 1 /\ (flag_escape_emergency => stops = 0)

\* With a controller that waits for /ego_state, no goal callback is ever
\* suspended in a state the loop cannot leave: in INIT and WAIT_TARGET the
\* node would need odometry or a trigger nobody sends.
LoopCanReturn ==
    Handshake /\ nested > 0 => exec_state \notin {"INIT", "WAIT_TARGET"}

\* Planning goes on for an accepted goal until its trajectory has ended;
\* without a goal the planner stays in INIT or WAIT_TARGET.
TargetWhilePlanning ==
    exec_state \notin {"INIT", "WAIT_TARGET"} => have_target

\* What the others need: /ego_state is announced from WAIT_TARGET on; a
\* flight ends, in WAIT_TARGET, with its trajectory, and then without a goal
\* unless one came before the handshake; the loop returns to a new trajectory.
Phases ==
    /\ exec_state = "INIT" => ~announced /\ traj.kind = "none"
    /\ exec_state = "WAIT_TARGET" /\ traj.kind # "none" => traj.age = Duration
    /\ exec_state = "EXEC_TRAJ" /\ nested > 0 => traj.age = 0
    /\ Handshake /\ exec_state \in {"INIT", "WAIT_TARGET"} => ~have_target

IInv ==
    /\ TypeOK /\ TrajectoryBeforeUse /\ PlanServesGoal /\ StopOncePerPlan
    /\ LoopCanReturn /\ TargetWhilePlanning /\ Phases

\* With the handshake the planner implements GoalProtocol.
goal_phase ==
    IF exec_state = "INIT" THEN "starting"
    ELSE IF exec_state = "WAIT_TARGET" THEN "idle"
    ELSE IF exec_state = "EXEC_TRAJ" /\ nested = 0 THEN "flying"
    ELSE "planning"
Protocol == INSTANCE GoalProtocol WITH goal <- end_pt, phase <- goal_phase

\* The planner implements the goal protocol: only a goal takes it out of the
\* idle state, and it returns there only from flying.
ImplementsProtocol == Protocol!Spec

(***************************************************************************)
(* What messages and comments of the code say and the code does not do.    *)
(***************************************************************************)

\* ego_replan_fsm.cpp:753, "Suddenly discovered obstacles. emergency stop!":
\* the stop is skipped only where it would repeat one of this emergency.
EmergencyIsStopped ==
    [][exec_state = "EMERGENCY_STOP" /\ exec_state' = "GEN_NEW_TRAJ" => stopped]_vars
=============================================================================
