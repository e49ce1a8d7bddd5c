------------------------- MODULE EgoPlanning_proofs -------------------------
(***************************************************************************)
(* The planner beside its server: the invariant and the goal protocol of   *)
(* EgoReplanFSM_proofs survive the composition, and traj_server follows    *)
(* the trajectory that the planner has in local_data_, for every queue     *)
(* size and every loss of old messages.                                    *)
(***************************************************************************)
EXTENDS EgoPlanning, EgoReplanFSM_proofs, SequenceTheorems

\* Reading the topic keeps the planner's invariant.
LEMMA ServerKeepsIInv ==
  ASSUME IInv, ServerStep
  PROVE  IInv'
<1>1. bsplines' \in Seq(Trajectory)
  BY DEF ServerStep, TS!bsplineCallback, TS!cmdCallback, IInv, TypeOK, DataType
<1> QED
  BY <1>1 DEF ServerStep, planner, have, escape, world, IInv, TypeOK, FlagType,
     DataType, TrajectoryBeforeUse, PlanServesGoal, StopOncePerPlan, LoopCanReturn,
     TargetWhilePlanning, Phases

\* The planner and the server together keep IInv.
LEMMA PlanningKeepsIInv == IInv /\ [PlanningNext]_allvars => IInv'
<1>1. PlannerStep \/ Time => Next
  BY DEF PlannerStep, Time, Next
<1>2. UNCHANGED allvars => UNCHANGED vars
  BY DEF allvars
<1> QED
  BY <1>1, <1>2, NextInv, ServerKeepsIInv DEF PlanningNext

\* No step of traj_server, and no message its topic loses, disturbs the invariant
\* of the planner's callbacks.
THEOREM PlanningInvariant == PlanningSpec => []IInv
  BY InitInv, PlanningKeepsIInv, PTL DEF PlanningSpec, PlanningInit
-----------------------------------------------------------------------------
\* What the server does shows neither in the states of the planner nor in its goal.
LEMMA PlanningProtocolStep ==
  ASSUME Handshake, IInv, IInv', [PlanningNext]_allvars
  PROVE  [Protocol!Next]_<<goal_phase, end_pt>>
<1>1. CASE PlannerStep \/ Time
  BY <1>1, ProtocolStep DEF PlannerStep, Time, Next
<1>2. CASE ServerStep
  BY <1>2 DEF ServerStep, planner, goal_phase
<1>3. CASE UNCHANGED allvars
  BY <1>3 DEF allvars, vars, goal_phase
<1> QED
  BY <1>1, <1>2, <1>3 DEF PlanningNext

\* Planner and server together keep the goal protocol towards the controller, with
\* the fair timers and the prompt server of FairSpec and without.
THEOREM PlanningImplementsProtocol ==
  ASSUME Handshake
  PROVE  (PlanningSpec \/ FairSpec) => ImplementsProtocol
<1>1. (PlanningSpec \/ FairSpec) => PlanningSpec
  BY PTL DEF FairSpec, PlanningSpec
<1> QED
  BY <1>1, ProtocolInit, PlanningProtocolStep, PlanningInvariant, PTL
     DEF PlanningSpec, PlanningInit, Protocol!Spec, ImplementsProtocol

\* Beside the server, too, EXEC_TRAJ flies to the goal accepted last, one stop
\* trajectory is sent per plan, and a suspended goal callback can return.
THEOREM PlanningSafety ==
  PlanningSpec => [](PlanServesGoal /\ StopOncePerPlan /\ LoopCanReturn)
<1>1. IInv => PlanServesGoal /\ StopOncePerPlan /\ LoopCanReturn
  BY DEF IInv
<1> QED
  BY <1>1, PlanningInvariant, PTL
-----------------------------------------------------------------------------
\* A published trajectory is the last message of the topic.
LEMMA PublishLast ==
  ASSUME NEW t, bsplines \in Seq(Trajectory), Publish(t)
  PROVE  bsplines' # <<>> /\ bsplines'[Len(bsplines')] = t
<1> DEFINE rest == IF Len(bsplines) < QueueSize THEN bsplines ELSE Tail(bsplines)
<1>1. rest \in Seq(Trajectory)
  <2>1. ~(Len(bsplines) < QueueSize) => bsplines # <<>>
    BY PlannerAssumption
  <2> QED
    BY <2>1
<1>2. bsplines' = Append(rest, t)
  BY DEF Publish
<1> HIDE DEF rest
<1> QED
  BY <1>1, <1>2

\* Every step that replaces local_data_ publishes it, and no other step
\* touches the topic.
LEMMA PlannerPublishes ==
  ASSUME PlannerStep
  PROVE  Publish(traj') \/ UNCHANGED <<traj, bsplines>>
<1>1. Planned => Publish(traj')
  BY DEF Planned, UpdateTraj
<1>2. callEmergencyStop => Publish(traj')
  BY DEF callEmergencyStop, UpdateTraj
<1>3. Subscription => UNCHANGED <<traj, bsplines>>
  BY DEF Subscription, odometryCallback, waypointCallback, SpinReturns,
     swarmTrajsCallback, BroadcastBsplineCallback
<1>4. execFSMCallback => Publish(traj') \/ UNCHANGED <<traj, bsplines>>
  BY <1>1, <1>2 DEF execFSMCallback, InitState, WaitTarget, SequentialStart,
     GenNewTraj, ReplanTraj, ExecTraj, EmergencyStop
<1>5. Safety => Publish(traj') \/ UNCHANGED <<traj, bsplines>>
  BY <1>1 DEF Safety, checkCollisionCallback
<1>6. Outside => UNCHANGED <<traj, bsplines>>
  BY DEF Outside, MapChanges, TargetNears, DepthLost
<1> QED
  BY <1>3, <1>4, <1>5, <1>6 DEF PlannerStep

LEMMA FollowsInit == PlanningInit => ServerFollowsPlanner
  BY DEF PlanningInit, Init, TS!Init, NoTrajectory, TS!NoTrajectory, ServerFollowsPlanner

LEMMA FollowsNext ==
  ASSUME IInv, ServerFollowsPlanner, [PlanningNext]_allvars
  PROVE  ServerFollowsPlanner'
<1> USE DEF ServerFollowsPlanner
<1>0. bsplines \in Seq(Trajectory)
  BY DEF IInv, TypeOK, DataType
<1>1. CASE PlannerStep
  <2>1. CASE Publish(traj')
    <3>1. bsplines' # <<>> /\ bsplines'[Len(bsplines')] = traj'
      BY <1>0, <2>1, PublishLast
    <3> QED
      BY <3>1
  <2>2. CASE UNCHANGED <<traj, bsplines>>
    BY <1>1, <2>2 DEF PlannerStep
  <2> QED
    BY <1>1, <2>1, <2>2, PlannerPublishes
<1>2. CASE TS!bsplineCallback /\ UNCHANGED planner
  <2>1. bsplines # <<>> /\ bsplines' = Tail(bsplines) /\ server' = Head(bsplines)
        /\ traj' = traj
    BY <1>2 DEF TS!bsplineCallback, planner
  <2>2. CASE Len(bsplines) = 1
    BY <1>0, <2>1, <2>2
  <2>3. CASE Len(bsplines) > 1
    <3>1. Len(Tail(bsplines)) = Len(bsplines) - 1 /\ Len(bsplines) \in Nat
      BY <1>0, <2>1
    <3>2. Tail(bsplines)[Len(bsplines) - 1] = bsplines[Len(bsplines)]
      BY <1>0, <2>1, <2>3
    <3>3. Tail(bsplines) # <<>>
      <4>1. Len(Tail(bsplines)) # 0
        BY <2>3, <3>1
      <4>2. Tail(bsplines) \in Seq(Trajectory)
        BY <1>0, <2>1
      <4> QED
        BY <4>1, <4>2, EmptySeq
    <3> QED
      BY <2>1, <3>1, <3>2, <3>3
  <2> QED
    BY <1>0, <2>1, <2>2, <2>3
<1>3. CASE TS!cmdCallback /\ UNCHANGED planner
  BY <1>3 DEF TS!cmdCallback, planner
<1>4. CASE Time
  <2>1. /\ traj' = Grow(traj) /\ server' = Grow(server)
        /\ bsplines' = [i \in 1 .. Len(bsplines) |-> Grow(bsplines[i])]
    BY <1>4 DEF Time, Elapse
  <2>2. bsplines' \in Seq({Grow(bsplines[i]) : i \in 1 .. Len(bsplines)})
    BY <1>0, <2>1
  <2>3. Len(bsplines') = Len(bsplines)
    BY <1>0, <2>1
  <2> QED
    BY <1>0, <2>1, <2>2, <2>3
<1>5. CASE UNCHANGED allvars
  BY <1>5 DEF allvars, vars
<1> QED
  BY <1>1, <1>2, <1>3, <1>4, <1>5 DEF PlanningNext, ServerStep

\* Once it has read the topic, traj_server follows exactly the trajectory
\* the planner checks for collisions, stop trajectories included.
THEOREM ServerFollowsPlannerCorrect == PlanningSpec => []ServerFollowsPlanner
  BY PlanningInvariant, FollowsInit, FollowsNext, PTL DEF PlanningSpec
=============================================================================
