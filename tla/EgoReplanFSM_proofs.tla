------------------------ MODULE EgoReplanFSM_proofs ------------------------
(***************************************************************************)
(* Proofs about the planner's state machine, for every set of goals, queue *)
(* size, trajectory duration and launch configuration.                     *)
(***************************************************************************)
EXTENDS EgoReplanFSM, TLAPS

\* The parts of IInv that relate the state machine to its flags and its
\* trajectory; the queue is left to TypeOK.
Relations == /\ TrajectoryBeforeUse /\ PlanServesGoal /\ StopOncePerPlan
             /\ LoopCanReturn /\ TargetWhilePlanning /\ Phases

LEMMA InitInv == Init => IInv
<1> SUFFICES ASSUME Init PROVE IInv
  OBVIOUS
<1> USE PlannerAssumption DEF Init
<1>1. FlagType
  BY DEF FlagType
<1>2. NoTrajectory \in Trajectory /\ NoTrajectory.kind = "none"
  BY DEF NoTrajectory, Trajectory
<1>3. DataType
  BY <1>2 DEF DataType, ExecState
<1>4. Relations
  BY <1>2 DEF Relations, TrajectoryBeforeUse, PlanServesGoal, StopOncePerPlan,
              LoopCanReturn, TargetWhilePlanning, Phases
<1> QED
  BY <1>1, <1>3, <1>4 DEF IInv, TypeOK, Relations

\* A trajectory sent to traj_server keeps the topic well typed.
LEMMA PublishType ==
  ASSUME NEW t \in Trajectory, bsplines \in Seq(Trajectory), Publish(t)
  PROVE  bsplines' \in Seq(Trajectory)
<1>1. CASE Len(bsplines) < QueueSize
  BY <1>1 DEF Publish
<1>2. CASE ~(Len(bsplines) < QueueSize)
  <2>1. bsplines # <<>>
    BY <1>2, PlannerAssumption
  <2>2. Tail(bsplines) \in Seq(Trajectory)
    BY <2>1
  <2> QED
    BY <1>2, <2>2 DEF Publish
<1> QED
  BY <1>1, <1>2

\* What a successful plan leaves in local_data_.
LEMMA PlannedTraj ==
  ASSUME IInv, Planned
  PROVE  /\ traj' \in Trajectory /\ bsplines' \in Seq(Trajectory)
         /\ traj'.kind = "plan" /\ traj'.goal = end_pt /\ traj'.age = 0
<1>1. PICK last \in BOOLEAN :
        UpdateTraj([kind |-> "plan", goal |-> end_pt, last |-> last, age |-> 0])
  BY DEF Planned
<1>2. [kind |-> "plan", goal |-> end_pt, last |-> last, age |-> 0] \in Trajectory
  BY PlannerAssumption DEF IInv, TypeOK, DataType, Trajectory
<1> QED
  BY <1>1, <1>2, PublishType DEF UpdateTraj, IInv, TypeOK, DataType

\* How the trajectories grow older.
LEMMA GrowTraj ==
  ASSUME NEW t \in Trajectory
  PROVE  /\ Grow(t) \in Trajectory /\ Grow(t).kind = t.kind
         /\ Grow(t).goal = t.goal /\ Grow(t).last = t.last
         /\ t.age = Duration => Grow(t).age = Duration
<1>1. t.age \in 0 .. Duration /\ Duration \in Nat
  BY PlannerAssumption DEF Trajectory
<1> DEFINE older == IF t.kind # "none" /\ t.age < Duration THEN t.age + 1 ELSE t.age
<1>2. older \in 0 .. Duration
  BY <1>1
<1>3. Grow(t) = [t EXCEPT !.age = older]
  BY DEF Grow
<1>4. [t EXCEPT !.age = older] \in Trajectory
  BY <1>2 DEF Trajectory
<1>5. [t EXCEPT !.age = older].age = older
  BY DEF Trajectory
<1>6. t.age = Duration => older = Duration
  BY <1>1
<1> HIDE DEF older
<1> QED
  BY <1>3, <1>4, <1>5, <1>6 DEF Trajectory

-----------------------------------------------------------------------------
(* Every action preserves the three parts of IInv.                         *)

Parts == FlagType /\ DataType /\ Relations

LEMMA PartsAreIInv == IInv <=> Parts
  BY DEF IInv, TypeOK, Parts, Relations

LEMMA SubscriptionInv ==
  ASSUME Parts, Subscription
  PROVE  Parts'
<1> USE PlannerAssumption DEF Parts, Relations, TrajectoryBeforeUse, PlanServesGoal,
        StopOncePerPlan, LoopCanReturn, TargetWhilePlanning, Phases
<1>1. ASSUME NEW s \in BOOLEAN, odometryCallback(s) PROVE Parts'
  BY <1>1 DEF odometryCallback, escape, FlagType, DataType
<1>2. ASSUME NEW g \in Goal, waypointCallback(g) PROVE Parts'
  <2>1. FlagType'
    <3>1. UNCHANGED <<have_odom, have_trigger, have_recv_pre_agent, escape, world, announced>>
          /\ have_target' = TRUE
      BY ONLY <1>2 DEF waypointCallback
    <3>2. stopped' \in BOOLEAN
      BY <1>2 DEF waypointCallback, FlagType, changeFSMExecState, Resume
    <3> QED BY <3>1, <3>2 DEF escape, world, FlagType
  <2>2. DataType'
    BY <1>2 DEF waypointCallback, escape, DataType, ExecState, Suspends,
                changeFSMExecState, Resume
  <2>3. Relations'
    BY <1>2 DEF waypointCallback, escape, DataType, ExecState, Suspends,
                changeFSMExecState, Resume
  <2> QED
    BY <2>1, <2>2, <2>3
<1>3. CASE SpinReturns
  BY <1>3 DEF SpinReturns, have, escape, world, FlagType, DataType, ExecState,
              changeFSMExecState, Resume
<1>4. CASE swarmTrajsCallback
  BY <1>4 DEF swarmTrajsCallback, escape, world, FlagType, DataType
<1>5. CASE BroadcastBsplineCallback
  BY <1>5 DEF BroadcastBsplineCallback, InWindow, have, escape, world, FlagType,
              DataType, ExecState, Trajectory, changeFSMExecState
<1> QED
  BY <1>1, <1>2, <1>3, <1>4, <1>5 DEF Subscription

LEMMA ExecInv ==
  ASSUME Parts, execFSMCallback
  PROVE  Parts'
<1> USE PlannerAssumption DEF Parts, Relations, TrajectoryBeforeUse, PlanServesGoal,
        StopOncePerPlan, LoopCanReturn, TargetWhilePlanning, Phases
<1>a. Planned => /\ traj' \in Trajectory /\ bsplines' \in Seq(Trajectory)
                 /\ traj'.kind = "plan" /\ traj'.goal = end_pt /\ traj'.age = 0
  BY PartsAreIInv, PlannedTraj
<1>1. CASE InitState
  <2>1. FlagType'
    BY <1>1 DEF InitState, Quiet, escape, world, FlagType, changeFSMExecState
  <2>2. DataType'
    BY <1>1 DEF InitState, Quiet, escape, DataType, ExecState, changeFSMExecState
  <2>3. Relations'
    BY <1>1 DEF InitState, Exec, Quiet, escape, DataType, ExecState, changeFSMExecState
  <2> QED
    BY <2>1, <2>2, <2>3
<1>2. CASE WaitTarget
  <2>1. FlagType'
    BY <1>2 DEF WaitTarget, Quiet, escape, world, FlagType, changeFSMExecState
  <2>2. DataType'
    BY <1>2 DEF WaitTarget, Quiet, escape, DataType, ExecState, changeFSMExecState
  <2>3. Relations'
    BY <1>2 DEF WaitTarget, Exec, Quiet, escape, DataType, ExecState, changeFSMExecState
  <2> QED
    BY <2>1, <2>2, <2>3
<1>3. ASSUME NEW ok \in BOOLEAN, SequentialStart(ok) PROVE Parts'
  <2>1. FlagType'
    BY <1>3 DEF SequentialStart, Quiet, escape, world, FlagType, changeFSMExecState
  <2>2. DataType'
    BY <1>3, <1>a DEF SequentialStart, Quiet, escape, DataType, ExecState, changeFSMExecState
  <2>3. Relations'
    BY <1>3, <1>a DEF SequentialStart, Exec, Quiet, escape, DataType, ExecState, changeFSMExecState
  <2> QED
    BY <2>1, <2>2, <2>3
<1>4. ASSUME NEW ok \in BOOLEAN, GenNewTraj(ok) PROVE Parts'
  <2>1. FlagType'
    <3>1. /\ UNCHANGED <<have_odom, have_target, have_trigger, enable_fail_safe,
                         have_recv_pre_agent, world, announced>>
          /\ flag_escape_emergency' = TRUE \/ UNCHANGED flag_escape_emergency
      BY ONLY <1>4 DEF GenNewTraj, Quiet
    <3>2. stopped' \in BOOLEAN
      BY <1>4 DEF GenNewTraj, FlagType, changeFSMExecState
    <3> QED BY <3>1, <3>2 DEF world, FlagType
  <2>2. DataType'
    BY <1>4, <1>a DEF GenNewTraj, Quiet, escape, DataType, ExecState, changeFSMExecState
  <2>3. Relations'
    BY <1>4, <1>a DEF GenNewTraj, Exec, Quiet, escape, DataType, ExecState, changeFSMExecState
  <2> QED
    BY <2>1, <2>2, <2>3
<1>5. ASSUME NEW ok \in BOOLEAN, ReplanTraj(ok) PROVE Parts'
  <2>1. FlagType'
    <3>1. UNCHANGED <<have_odom, have_target, have_trigger, enable_fail_safe,
                      have_recv_pre_agent, escape, world, announced>>
      BY ONLY <1>5 DEF ReplanTraj, Quiet, have, escape, world
    <3>2. stopped' \in BOOLEAN
      BY <1>5 DEF ReplanTraj, FlagType, changeFSMExecState
    <3> QED BY <3>1, <3>2 DEF escape, world, FlagType
  <2>2. DataType'
    BY <1>5, <1>a DEF ReplanTraj, Quiet, escape, DataType, ExecState, changeFSMExecState
  <2>3. Relations'
    BY <1>5, <1>a DEF ReplanTraj, Exec, Quiet, escape, DataType, ExecState, changeFSMExecState
  <2> QED
    BY <2>1, <2>2, <2>3
<1>6. ASSUME NEW far \in BOOLEAN, ExecTraj(far) PROVE Parts'
  <2>1. FlagType'
    <3>1. UNCHANGED <<have_odom, have_recv_pre_agent, escape, world, announced>>
      BY ONLY <1>6 DEF ExecTraj, Quiet
    <3>2. stopped' \in BOOLEAN /\ have_target' \in BOOLEAN /\ have_trigger' \in BOOLEAN
      BY <1>6 DEF ExecTraj, FlagType, changeFSMExecState
    <3> QED BY <3>1, <3>2 DEF escape, world, FlagType
  <2>2. DataType'
    BY <1>6 DEF ExecTraj, Quiet, escape, DataType, ExecState, changeFSMExecState
  <2>3. Relations'
    BY <1>6 DEF ExecTraj, Exec, Quiet, escape, DataType, ExecState, changeFSMExecState
  <2> QED
    BY <2>1, <2>2, <2>3
<1>7. CASE EmergencyStop
  <2>1. callEmergencyStop =>
            /\ traj' \in Trajectory /\ bsplines' \in Seq(Trajectory)
            /\ traj'.kind = "stop" /\ stops' = IF stops < 2 THEN stops + 1 ELSE 2
    <3> SUFFICES ASSUME callEmergencyStop
                 PROVE  /\ traj' \in Trajectory /\ bsplines' \in Seq(Trajectory)
                        /\ traj'.kind = "stop"
                        /\ stops' = IF stops < 2 THEN stops + 1 ELSE 2
      OBVIOUS
    <3>1. /\ traj' = [kind |-> "stop", goal |-> end_pt, last |-> FALSE, age |-> 0]
          /\ Publish(traj')
          /\ stops' = IF stops < 2 THEN stops + 1 ELSE 2
      BY DEF callEmergencyStop, UpdateTraj
    <3>2. [kind |-> "stop", goal |-> end_pt, last |-> FALSE, age |-> 0] \in Trajectory
      BY DEF Trajectory, DataType
    <3>3. traj' \in Trajectory /\ traj'.kind = "stop"
      BY <3>1, <3>2
    <3>4. bsplines' \in Seq(Trajectory)
      BY <3>1, <3>3, PublishType DEF DataType
    <3> QED
      BY <3>1, <3>3, <3>4
  <2>2. FlagType'
    BY <1>7 DEF EmergencyStop, Disarm, Quiet, world, FlagType, changeFSMExecState,
                callEmergencyStop
  <2>3. DataType'
    BY <1>7, <2>1 DEF EmergencyStop, Exec, Disarm, Quiet, DataType, ExecState,
                changeFSMExecState
  <2>4. Relations'
    BY <1>7, <2>1 DEF EmergencyStop, Exec, Disarm, Quiet, DataType, FlagType,
                ExecState, changeFSMExecState
  <2> QED
    BY <2>2, <2>3, <2>4
<1> QED
  BY <1>1, <1>2, <1>3, <1>4, <1>5, <1>6, <1>7 DEF execFSMCallback

LEMMA SafetyInv ==
  ASSUME Parts, Safety
  PROVE  Parts'
<1> USE PlannerAssumption DEF Parts, Relations, TrajectoryBeforeUse, PlanServesGoal,
        StopOncePerPlan, LoopCanReturn, TargetWhilePlanning, Phases
<1>a. Planned => /\ traj' \in Trajectory /\ bsplines' \in Seq(Trajectory)
                 /\ traj'.kind = "plan" /\ traj'.goal = end_pt /\ traj'.age = 0
  BY PartsAreIInv, PlannedTraj
<1>1. PICK hit \in Hit, ok \in BOOLEAN : checkCollisionCallback(hit, ok)
  BY DEF Safety
<1>2. exec_state \notin {"INIT", "WAIT_TARGET"} /\ traj.kind # "none"
  BY <1>1 DEF checkCollisionCallback, NoTrajectoryYet
<1>3. FlagType'
  <2>1. /\ UNCHANGED <<have, flag_escape_emergency, world, announced>>
        /\ enable_fail_safe' = (enable_fail_safe /\ ~depth_timeout)
    BY ONLY <1>1 DEF checkCollisionCallback
  <2>2. stopped' \in BOOLEAN
    BY <1>1 DEF checkCollisionCallback, FlagType, changeFSMExecState
  <2> QED BY <2>1, <2>2 DEF have, world, FlagType
<1>4. CASE hit = "no"
  BY <1>1, <1>2, <1>3, <1>4 DEF checkCollisionCallback, have, DataType, ExecState,
     changeFSMExecState
<1>5. CASE hit # "no" /\ ok
  BY <1>1, <1>2, <1>3, <1>5, <1>a DEF checkCollisionCallback, have, DataType,
     ExecState, changeFSMExecState
<1>6. CASE hit # "no" /\ ~ok
  BY <1>1, <1>2, <1>3, <1>6 DEF checkCollisionCallback, have, DataType, ExecState,
     changeFSMExecState, CollisionState
<1> QED
  BY <1>4, <1>5, <1>6

LEMMA OutsideInv ==
  ASSUME Parts, Outside \/ Elapse
  PROVE  Parts'
<1> USE PlannerAssumption DEF Parts, Relations, TrajectoryBeforeUse, PlanServesGoal,
        StopOncePerPlan, LoopCanReturn, TargetWhilePlanning, Phases
<1>1. CASE MapChanges
  BY <1>1 DEF MapChanges, have, escape, FlagType, DataType
<1>2. CASE TargetNears
  BY <1>2 DEF TargetNears, have, escape, FlagType, DataType
<1>3. CASE DepthLost
  BY <1>3 DEF DepthLost, have, escape, FlagType, DataType
<1>4. CASE Elapse
  <2>1. /\ traj' \in Trajectory /\ traj'.kind = traj.kind /\ traj'.goal = traj.goal
        /\ traj.age = Duration => traj'.age = Duration
    BY <1>4, GrowTraj DEF Elapse, DataType
  <2>2. bsplines' \in Seq(Trajectory)
    <3>1. \A i \in 1 .. Len(bsplines) : Grow(bsplines[i]) \in Trajectory
      BY GrowTraj DEF DataType
    <3> QED
      BY <1>4, <3>1 DEF Elapse, DataType
  <2>3. FlagType'
    BY <1>4 DEF Elapse, have, escape, world, FlagType
  <2> QED
    BY <1>4, <2>1, <2>2, <2>3 DEF Elapse, have, escape, DataType
<1> QED
  BY <1>1, <1>2, <1>3, <1>4 DEF Outside

LEMMA NextInv == IInv /\ [Next]_vars => IInv'
<1> SUFFICES ASSUME Parts, [Next]_vars PROVE Parts'
  BY PartsAreIInv DEF IInv, TypeOK, Parts, Relations
<1>1. CASE UNCHANGED vars
  BY <1>1 DEF vars, have, escape, world, Parts, FlagType, DataType, Relations,
     TrajectoryBeforeUse, PlanServesGoal, StopOncePerPlan, LoopCanReturn,
     TargetWhilePlanning, Phases
<1>2. CASE Next
  BY <1>2, SubscriptionInv, ExecInv, SafetyInv, OutsideInv DEF Next
<1> QED
  BY <1>1, <1>2
-----------------------------------------------------------------------------
\* The inductive invariant of the planner: no callback order, emergency or
\* early goal breaks the relations between its states, flags and trajectory.
THEOREM PlannerInvariant == Spec => []IInv
  BY InitInv, NextInv, PTL DEF Spec

\* Every trajectory is planned before a state evaluates it.
THEOREM TrajectoryBeforeUseCorrect == Spec => []TrajectoryBeforeUse
<1>1. IInv => TrajectoryBeforeUse
  BY DEF IInv
<1> QED
  BY <1>1, PlannerInvariant, PTL

\* EXEC_TRAJ flies towards the goal that planNextWaypoint accepted last.
THEOREM PlanServesGoalCorrect == Spec => []PlanServesGoal
<1>1. IInv => PlanServesGoal
  BY DEF IInv
<1> QED
  BY <1>1, PlannerInvariant, PTL

\* However emergencies and recoveries follow each other, at most one stop trajectory
\* is sent for a plan of GEN_NEW_TRAJ.
THEOREM StopOncePerPlanCorrect == Spec => []StopOncePerPlan
<1>1. IInv => StopOncePerPlan
  BY DEF IInv
<1> QED
  BY <1>1, PlannerInvariant, PTL

\* If goals wait for /ego_state, a callback suspended in planNextWaypoint
\* waits in a state that leads to EXEC_TRAJ.
THEOREM LoopCanReturnCorrect == Spec => []LoopCanReturn
<1>1. IInv => LoopCanReturn
  BY DEF IInv
<1> QED
  BY <1>1, PlannerInvariant, PTL

\* Work goes on only for a goal, also in a swarm and with goals at any time.
THEOREM TargetWhilePlanningCorrect == Spec => []TargetWhilePlanning
<1>1. IInv => TargetWhilePlanning
  BY DEF IInv
<1> QED
  BY <1>1, PlannerInvariant, PTL
-----------------------------------------------------------------------------
(* With a controller that waits for /ego_state, the planner implements     *)
(* GoalProtocol.                                                           *)

LEMMA ProtocolInit == Init => Protocol!Init
  BY DEF Init, Protocol!Init, goal_phase

LEMMA SubscriptionStep ==
  ASSUME Handshake, IInv, IInv', Subscription
  PROVE  [Protocol!Next]_<<goal_phase, end_pt>>
<1> USE DEF goal_phase, Protocol!Next
<1>1. ASSUME NEW s \in BOOLEAN, odometryCallback(s) PROVE UNCHANGED <<goal_phase, end_pt>>
  BY <1>1 DEF odometryCallback
<1>2. ASSUME NEW g \in Goal, waypointCallback(g) PROVE Protocol!Accept
  <2>1. exec_state # "INIT" /\ exec_state' \notin {"INIT", "WAIT_TARGET"}
    BY <1>2 DEF waypointCallback, IInv, Phases, changeFSMExecState, Resume, Suspends
  <2>2. nested' \in Nat /\ (exec_state' = "EXEC_TRAJ" => nested' # 0)
    BY <1>2 DEF waypointCallback, IInv, TypeOK, DataType, changeFSMExecState, Resume, Suspends
  <2> QED
    BY <1>2, <2>1, <2>2 DEF Protocol!Accept, waypointCallback
<1>3. CASE SpinReturns
  BY <1>3 DEF SpinReturns, changeFSMExecState, Resume, IInv, TypeOK, DataType
<1>4. CASE swarmTrajsCallback
  BY <1>4 DEF swarmTrajsCallback
<1>5. CASE BroadcastBsplineCallback
  BY <1>5, PlannerAssumption DEF BroadcastBsplineCallback, InWindow, changeFSMExecState, IInv, Phases,
     TypeOK, DataType, Trajectory, Protocol!Replan
<1> QED
  BY <1>1, <1>2, <1>3, <1>4, <1>5 DEF Subscription

LEMMA ExecStep ==
  ASSUME Handshake, IInv, IInv', execFSMCallback
  PROVE  [Protocol!Next]_<<goal_phase, end_pt>>
<1> USE DEF goal_phase, Protocol!Next, changeFSMExecState, Exec, Quiet
<1>1. CASE InitState
  BY <1>1 DEF InitState, Protocol!Start
<1>2. CASE WaitTarget
  BY <1>2 DEF WaitTarget, IInv, Phases
<1>3. ASSUME NEW ok \in BOOLEAN, SequentialStart(ok) PROVE [Protocol!Next]_<<goal_phase, end_pt>>
  BY <1>3 DEF SequentialStart, Protocol!Plan
<1>4. ASSUME NEW ok \in BOOLEAN, GenNewTraj(ok) PROVE [Protocol!Next]_<<goal_phase, end_pt>>
  BY <1>4 DEF GenNewTraj, Protocol!Plan
<1>5. ASSUME NEW ok \in BOOLEAN, ReplanTraj(ok) PROVE [Protocol!Next]_<<goal_phase, end_pt>>
  BY <1>5 DEF ReplanTraj, Protocol!Plan
<1>6. ASSUME NEW far \in BOOLEAN, ExecTraj(far) PROVE [Protocol!Next]_<<goal_phase, end_pt>>
  <2>1. nested = 0
    BY <1>6, PlannerAssumption DEF ExecTraj, IInv, Phases, TypeOK, DataType
  <2> QED
    BY <1>6, <2>1 DEF ExecTraj, Protocol!Replan, Protocol!Finish
<1>7. CASE EmergencyStop
  BY <1>7 DEF EmergencyStop
<1> QED
  BY <1>1, <1>2, <1>3, <1>4, <1>5, <1>6, <1>7 DEF execFSMCallback

LEMMA SafetyStep ==
  ASSUME Handshake, IInv, IInv', Safety
  PROVE  [Protocol!Next]_<<goal_phase, end_pt>>
<1>1. PICK hit \in Hit, ok \in BOOLEAN : checkCollisionCallback(hit, ok)
  BY DEF Safety
<1>2. exec_state \notin {"INIT", "WAIT_TARGET"} /\ nested' = nested /\ end_pt' = end_pt
  BY <1>1 DEF checkCollisionCallback, NoTrajectoryYet, IInv, Phases
<1>3. exec_state' \notin {"INIT", "WAIT_TARGET"}
  <2>1. CASE hit = "no"
    BY <1>1, <1>2, <2>1 DEF checkCollisionCallback, changeFSMExecState
  <2>2. CASE hit # "no"
    BY <1>1, <2>2 DEF checkCollisionCallback, changeFSMExecState, CollisionState
  <2> QED
    BY <2>1, <2>2
<1> QED
  BY <1>2, <1>3 DEF goal_phase, Protocol!Next, Protocol!Plan, Protocol!Replan

LEMMA OutsideStep ==
  ASSUME Outside \/ Elapse
  PROVE  UNCHANGED <<goal_phase, end_pt>>
  BY DEF Outside, MapChanges, TargetNears, DepthLost, Elapse, goal_phase

LEMMA ProtocolStep ==
  ASSUME Handshake, IInv, IInv', [Next]_vars
  PROVE  [Protocol!Next]_<<goal_phase, end_pt>>
<1>1. UNCHANGED vars => UNCHANGED <<goal_phase, end_pt>>
  BY DEF vars, goal_phase
<1> QED
  BY <1>1, SubscriptionStep, ExecStep, SafetyStep, OutsideStep DEF Next

\* Only a goal takes the planner out of the idle state, it comes back there
\* only from flying the latest goal, and it never forgets a goal.
THEOREM PlannerImplementsProtocol ==
  ASSUME Handshake
  PROVE  Spec => ImplementsProtocol
  BY ProtocolInit, ProtocolStep, PlannerInvariant, PTL DEF Spec, Protocol!Spec, ImplementsProtocol
=============================================================================
