-------------------------- MODULE MissionFSM_proofs --------------------------
(***************************************************************************)
(* Proofs about the mission controller, for every route, every threshold   *)
(* and every set of odometry positions.  Each conjunct of the type         *)
(* invariant has a lemma of its own: a step of Next is split by the        *)
(* actions that write the conjunct's variables.                            *)
(***************************************************************************)
EXTENDS MissionFlight, TLAPS

USE DEF autopilot, sensed, route, poses, search, payload, flags,
        Tick, Doing, HoldTick, startMissionTimer, stopMissionTimer,
        CountDetection, ClimbsSpent, Lowered

\* The constants' types, one by one.
LEMMA Constants ==
    /\ home \in Place /\ garbage \in Position
    /\ put_height \in Int /\ hold_height \in Int
    /\ detect_height \in Int /\ adjust_height \in Int
    /\ PubWait \in Nat /\ DropWait \in Nat /\ RequestWait \in Nat
    /\ target_point_num \in Int
    /\ OvertimeTop \in Nat /\ DetectTop \in Nat
<1>1. /\ home \in Place /\ garbage \in Position
      /\ put_height \in Int /\ hold_height \in Int
      /\ detect_height \in Int /\ adjust_height \in Int
  BY MissionAssumption
<1>2. /\ PubWait \in Nat /\ DropWait \in Nat /\ RequestWait \in Nat
      /\ target_point_num \in Int
  BY MissionAssumption
<1>3. /\ LossLimit1 \in Nat /\ LossLimit2 \in Nat /\ DetectGiveUp \in Nat
  BY MissionAssumption
<1>4. OvertimeTop \in Nat /\ DetectTop \in Nat
  BY <1>3 DEF OvertimeTop, DetectTop
<1> QED BY <1>1, <1>2, <1>4

\* Every entry of the route, configured or not, is a position.
LEMMA PointType == ASSUME NEW i \in Nat PROVE Point(i) \in Position
<1>1. CASE i < target_point_num
  BY <1>1, MissionAssumption DEF Point
<1>2. CASE ~(i < target_point_num)
  BY <1>2, MissionAssumption DEF Point
<1> QED BY <1>1, <1>2

\* The saturating counters stay below their tops.
LEMMA BumpType ==
  ASSUME NEW top \in Nat, NEW n \in 0 .. top
  PROVE  Bump(n, top) \in 0 .. top
BY DEF Bump

\* Setpoints are positions: updatepnpPos copies the vehicle's place, the
\* mission actions set the height.
LEMMA PoseType ==
  ASSUME NEW p \in Position, NEW q \in Position, NEW h \in Int
  PROVE  /\ [at |-> q.at, z |-> h] \in Position
         /\ [p EXCEPT !.at = q.at] \in Position
         /\ [p EXCEPT !.z = h] \in Position
BY DEF Position

\* A step of the controller, with odometry and commands that can be any position.
AnyNext ==
    \/ LoopCallback \/ ServiceReply \/ Elapse \/ PilotSwitch
    \/ \E connected \in Link : px4_state_Callback(connected)
    \/ ego_init_Callback
    \/ \E p \in Position : odomCallback(p)
    \/ \E p \in Position : quadmsgCallback(p)

LEMMA NextIsAny == [Next]_vars => [AnyNext]_vars
<1>1. Odometry \subseteq Position /\ Command \subseteq Position
  BY MissionAssumption
<1> QED BY <1>1 DEF Next, Callback, AnyNext

LEMMA NextCases ==
  ASSUME [AnyNext]_vars
  PROVE  \/ InitTick \/ TakingOffTick \/ TrackingTick \/ LandTick
         \/ HoldWait \/ pubNewTarget \/ StartMission \/ YoloInit
         \/ (\E offset \in Offset : AdjustDetected(offset)) \/ AdjustLost
         \/ DropTick \/ PutSkip \/ PutWaitTick \/ RiseTick
         \/ (\E offset \in Offset : DropLandDetected(offset)) \/ DropLandLost
         \/ YoloReady \/ (\E ok \in BOOLEAN : ServoCall(ok))
         \/ (\E connected \in Link : px4_state_Callback(connected))
         \/ ego_init_Callback
         \/ (\E p \in Position : odomCallback(p))
         \/ (\E p \in Position : quadmsgCallback(p))
         \/ Elapse \/ PilotSwitch \/ UNCHANGED vars
BY DEF AnyNext, LoopCallback, ServiceReply
-----------------------------------------------------------------------------
(* The initial states.                                                     *)

LEMMA TypeInit == Init => TypeOK
<1> SUFFICES ASSUME Init PROVE TypeOK
  OBVIOUS
<1>1. ControlType
  BY MissionAssumption DEF Init, ControlType, FSMState, MissionAction
<1>2. AutopilotType
  BY DEF Init, AutopilotType, FlightMode
<1>3. PositionType
  BY MissionAssumption DEF Init, PositionType, ZeroPose, Position
<1>4. CounterType
  BY Constants DEF Init, CounterType
<1> QED
  BY <1>1, <1>2, <1>3, <1>4 DEF TypeOK
-----------------------------------------------------------------------------
(* The steps.                                                              *)

\* The two state machines and the flags.
LEMMA ControlStep == ControlType /\ [AnyNext]_vars => ControlType'
<1> SUFFICES ASSUME ControlType, [AnyNext]_vars PROVE ControlType'
  OBVIOUS
<1>1. CASE InitTick \/ LandTick \/ HoldWait \/ DropLandLost
  <2>1. CASE InitTick
    BY <2>1 DEF InitTick, ControlType, AtGoal, Close, FSMState
  <2>2. CASE LandTick
    BY <2>2 DEF LandTick, ControlType, AtGoal, Close
  <2>3. CASE HoldWait
    BY <2>3 DEF HoldWait, ControlType, AtGoal, Close
  <2>4. CASE DropLandLost
    BY <2>4 DEF DropLandLost, ControlType, AtGoal, Close
  <2> QED BY <1>1, <2>1, <2>2, <2>3, <2>4
<1>2. CASE TakingOffTick \/ TrackingTick \/ StartMission
  <2>1. CASE TakingOffTick
    BY <2>1 DEF TakingOffTick, ControlType, AtGoal, Close, FSMState
  <2>2. CASE TrackingTick
    BY <2>2 DEF TrackingTick, ControlType, AtGoal, Close, FSMState
  <2>3. CASE StartMission
    BY <2>3 DEF StartMission, LandingDue, ControlType, AtGoal, Close, FSMState, MissionAction
  <2> QED BY <1>2, <2>1, <2>2, <2>3
<1>3. CASE pubNewTarget
  BY <1>3 DEF pubNewTarget, ControlType, AtGoal, Close
<1>4. CASE YoloInit \/ PutSkip \/ PutWaitTick
  <2>1. CASE YoloInit
    BY <2>1 DEF YoloInit, ControlType, AtGoal, Close
  <2>2. CASE PutSkip
    BY <2>2 DEF PutSkip, ControlType, AtGoal, Close, MissionAction
  <2>3. CASE PutWaitTick
    BY <2>3 DEF PutWaitTick, ControlType, AtGoal, Close
  <2> QED BY <1>4, <2>1, <2>2, <2>3
<1>5. ASSUME NEW offset \in Offset, AdjustDetected(offset) PROVE ControlType'
  BY <1>5 DEF AdjustDetected, ControlType, AtGoal, Close, MissionAction
<1>6. CASE AdjustLost \/ DropTick
  <2>1. CASE AdjustLost
    BY <2>1 DEF AdjustLost, ControlType, AtGoal, Close, MissionAction
  <2>2. CASE DropTick
    BY <2>2 DEF DropTick, ControlType, AtGoal, Close, MissionAction
  <2> QED BY <1>6, <2>1, <2>2
<1>7. CASE RiseTick
  BY <1>7 DEF RiseTick, ControlType, AtGoal, Close, FSMState
<1>8. ASSUME NEW offset \in Offset, DropLandDetected(offset) PROVE ControlType'
  BY <1>8 DEF DropLandDetected, ControlType, AtGoal, Close, FSMState
<1>9. CASE YoloReady \/ (\E ok \in BOOLEAN : ServoCall(ok))
  <2>1. CASE YoloReady
    BY <2>1 DEF YoloReady, ControlType, MissionAction
  <2>2. ASSUME NEW ok \in BOOLEAN, ServoCall(ok) PROVE ControlType'
    BY <2>2 DEF ServoCall, ControlType, MissionAction
  <2> QED BY <1>9, <2>1, <2>2
<1>10. ASSUME NEW connected \in Link, px4_state_Callback(connected) PROVE ControlType'
  BY <1>10 DEF px4_state_Callback, ControlType
<1>14. CASE ego_init_Callback
  BY <1>14 DEF ego_init_Callback, ControlType
<1>13. ASSUME NEW p \in Position, quadmsgCallback(p) PROVE ControlType'
  BY <1>13 DEF quadmsgCallback, ControlType, FSMState
<1>12. ASSUME NEW p \in Position, odomCallback(p) PROVE ControlType'
  BY <1>12 DEF odomCallback, ControlType, Close
<1>11. CASE Elapse \/ PilotSwitch \/ UNCHANGED vars
  <2>1. CASE Elapse
    BY <2>1 DEF Elapse, ControlType
  <2>2. CASE PilotSwitch
    BY <2>2 DEF PilotSwitch, ControlType
  <2>3. CASE UNCHANGED vars
    BY <2>3 DEF vars, ControlType
  <2> QED BY <1>11, <2>1, <2>2, <2>3
<1> QED
  BY NextCases, <1>1, <1>2, <1>3, <1>4, <1>5, <1>6, <1>7, <1>8, <1>9, <1>10, <1>11, <1>12, <1>13, <1>14

\* The autopilot's state changes by requests, the pilot and its reports.
LEMMA AutopilotStep == AutopilotType /\ [AnyNext]_vars => AutopilotType'
<1> SUFFICES ASSUME AutopilotType, [AnyNext]_vars PROVE AutopilotType'
  OBVIOUS
<1>1. CASE TakingOffTick \/ LandTick \/ PilotSwitch
  <2>1. /\ [fcu EXCEPT !.mode = "OFFBOARD"] \in [mode : FlightMode, armed : BOOLEAN]
        /\ [fcu EXCEPT !.mode = "AUTO.LAND"] \in [mode : FlightMode, armed : BOOLEAN]
        /\ [fcu EXCEPT !.armed = TRUE] \in [mode : FlightMode, armed : BOOLEAN]
        /\ [mode |-> "OFFBOARD", armed |-> TRUE] \in [mode : FlightMode, armed : BOOLEAN]
    BY DEF AutopilotType, FlightMode
  <2> QED
    BY <1>1, <2>1 DEF TakingOffTick, LandTick, PilotSwitch, Request, AutopilotType
<1>2. ASSUME NEW connected \in Link, px4_state_Callback(connected)
      PROVE  AutopilotType'
  BY <1>2, MissionAssumption DEF px4_state_Callback, AutopilotType
<1>3. CASE InitTick \/ TrackingTick \/ HoldWait \/ pubNewTarget \/ StartMission \/ YoloInit
  BY <1>3 DEF InitTick, TrackingTick, HoldWait, pubNewTarget, StartMission, YoloInit, AutopilotType
<1>4. CASE \/ \E offset \in Offset : AdjustDetected(offset) \/ DropLandDetected(offset)
           \/ AdjustLost \/ DropTick \/ DropLandLost
  BY <1>4 DEF AdjustDetected, DropLandDetected, AdjustLost, DropTick, DropLandLost, AutopilotType
<1>5. CASE \/ PutSkip \/ PutWaitTick \/ RiseTick
           \/ YoloReady \/ (\E ok \in BOOLEAN : ServoCall(ok))
  BY <1>5 DEF PutSkip, PutWaitTick, RiseTick, YoloReady, ServoCall, AutopilotType
<1>6. CASE \/ ego_init_Callback
           \/ \E p \in Position : odomCallback(p)
           \/ \E p \in Position : quadmsgCallback(p)
           \/ Elapse \/ UNCHANGED vars
  BY <1>6 DEF ego_init_Callback, odomCallback, quadmsgCallback, Elapse, vars, AutopilotType
<1> QED
  BY NextCases, <1>1, <1>2, <1>3, <1>4, <1>5, <1>6

\* Odometry, goals and setpoints.
LEMMA PositionStep == PositionType /\ CounterType /\ [AnyNext]_vars => PositionType'
<1> SUFFICES ASSUME PositionType, CounterType, [AnyNext]_vars PROVE PositionType'
  OBVIOUS
<1>1. CASE TakingOffTick \/ TrackingTick
  <2>1. TakeoffPose \in Position
    BY Constants DEF TakeoffPose, Position
  <2> QED
    BY <1>1, <2>1 DEF TakingOffTick, TrackingTick, PositionType
<1>2. CASE pubNewTarget
  BY <1>2, PointType DEF pubNewTarget, PositionType, CounterType
<1>3. CASE YoloInit
  BY <1>3, PoseType, Constants DEF YoloInit, PositionType
<1>4. ASSUME NEW offset \in Offset, AdjustDetected(offset) PROVE PositionType'
  BY <1>4, PoseType, Constants DEF AdjustDetected, PositionType
<1>5. CASE AdjustLost
  <2>1. [mission_pose EXCEPT !.z = @ + 30] \in Position
    BY DEF Position, PositionType
  <2> QED
    BY <1>5, <2>1, Zenon DEF AdjustLost, PositionType
<1>6. CASE DropTick
  <2>1. mission_pose \in Position /\ [mission_pose EXCEPT !.at = odom.at] \in Position
    BY PoseType, Constants DEF PositionType
  <2>2. \A p \in Position : Lowered(p) \in Position
    BY Constants DEF Position
  <2> HIDE DEF Lowered
  <2> QED
    BY <1>6, <2>1, <2>2 DEF DropTick, PositionType
<1>7. CASE RiseTick
  BY <1>7, PoseType, Constants DEF RiseTick, PositionType
<1>8. ASSUME NEW offset \in Offset, DropLandDetected(offset) PROVE PositionType'
  <2>1. /\ [at |-> odom.at, z |-> 60] \in Position
        /\ [at |-> odom.at, z |-> 30] \in Position
        /\ [mission_pose EXCEPT !.at = odom.at] \in Position
    BY DEF Position, PositionType
  <2> QED
    BY <1>8, <2>1, Zenon DEF DropLandDetected, PositionType
<1>9. CASE \/ \E p \in Position : odomCallback(p)
           \/ \E p \in Position : quadmsgCallback(p)
  BY <1>9, MissionAssumption DEF odomCallback, quadmsgCallback, PositionType
<1>10. CASE InitTick \/ LandTick \/ HoldWait \/ StartMission \/ PutSkip \/ PutWaitTick
  BY <1>10 DEF InitTick, LandTick, HoldWait, StartMission, PutSkip, PutWaitTick, PositionType
<1>11. CASE DropLandLost \/ YoloReady \/ (\E ok \in BOOLEAN : ServoCall(ok))
  BY <1>11 DEF DropLandLost, YoloReady, ServoCall, PositionType
<1>12. CASE \/ \E connected \in Link : px4_state_Callback(connected)
            \/ ego_init_Callback \/ Elapse \/ PilotSwitch \/ UNCHANGED vars
  BY <1>12 DEF px4_state_Callback, ego_init_Callback, Elapse, PilotSwitch, vars, PositionType
<1> QED
  BY NextCases, <1>1, <1>2, <1>3, <1>4, <1>5, <1>6, <1>7, <1>8, <1>9, <1>10, <1>11, <1>12

\* Counters, ages, the waypoint index and the payload bays.
LEMMA CounterStep == CounterType /\ [AnyNext]_vars => CounterType'
<1> SUFFICES ASSUME CounterType, [AnyNext]_vars PROVE CounterType'
  OBVIOUS
<1>0. /\ Bump(detect_overtime, DetectTop) \in 0 .. DetectTop
      /\ Bump(overtime_t, OvertimeTop) \in 0 .. OvertimeTop
  BY BumpType, Constants DEF CounterType
<1>1. CASE TakingOffTick \/ LandTick
  BY <1>1, Constants DEF TakingOffTick, LandTick, Request, CounterType
<1>2. CASE pubNewTarget
  BY <1>2, Constants DEF pubNewTarget, CounterType
<1>3. ASSUME NEW offset \in Offset, AdjustDetected(offset) PROVE CounterType'
  BY <1>0, <1>3, Constants DEF AdjustDetected, Detected, CounterType
<1>4. CASE AdjustLost
  BY <1>0, <1>4, Constants DEF AdjustLost, CounterType
<1>5. CASE DropTick
  <2>1. overtime_t' \in 0 .. OvertimeTop /\ min_type' \in Type \cup {0}
    BY <1>0, <1>5, Constants DEF DropTick, Detected, Lost, CounterType
  <2>2. hold_age' \in 0 .. DropWait
    BY <1>5, Constants DEF DropTick, CounterType
  <2> QED
    BY <1>5, <2>1, <2>2 DEF DropTick, CounterType
<1>6. ASSUME NEW ok \in BOOLEAN, ServoCall(ok) PROVE CounterType'
  BY <1>6 DEF ServoCall, CounterType
<1>7. ASSUME NEW offset \in Offset, DropLandDetected(offset) PROVE CounterType'
  BY <1>0, <1>7, Constants DEF DropLandDetected, Detected, CounterType
<1>8. CASE DropLandLost
  BY <1>0, <1>8 DEF DropLandLost, Lost, CounterType
<1>9. CASE Elapse
  BY <1>9, Constants DEF Elapse, Bump, CounterType
<1>10. CASE InitTick \/ TrackingTick \/ HoldWait \/ StartMission \/ YoloInit
  BY <1>10 DEF InitTick, TrackingTick, HoldWait, StartMission, YoloInit, CounterType
<1>11. CASE PutSkip \/ PutWaitTick \/ RiseTick \/ YoloReady
  BY <1>11 DEF PutSkip, PutWaitTick, RiseTick, YoloReady, CounterType
<1>12. CASE \/ \E connected \in Link : px4_state_Callback(connected)
            \/ ego_init_Callback
            \/ \E p \in Position : odomCallback(p)
            \/ \E p \in Position : quadmsgCallback(p)
            \/ PilotSwitch \/ UNCHANGED vars
  BY <1>12 DEF px4_state_Callback, ego_init_Callback, odomCallback, quadmsgCallback, PilotSwitch, vars, CounterType
<1> QED
  BY NextCases, <1>1, <1>2, <1>3, <1>4, <1>5, <1>6, <1>7, <1>8, <1>9, <1>10, <1>11, <1>12

\* Type correctness of the controller's state (the members of class fsm).
THEOREM TypeCorrect == Spec => []TypeOK
<1>1. TypeOK /\ [AnyNext]_vars => TypeOK'
  BY ControlStep, AutopilotStep, PositionStep, CounterStep DEF TypeOK
<1> QED
  BY <1>1, TypeInit, NextIsAny, PTL DEF Spec
-----------------------------------------------------------------------------
(* Safety.  IInv is inductive relative to TypeOK; its conjuncts fall into  *)
(* five groups that are preserved one after the other.                     *)

LEMMA SafeInit == Init => IInv
BY MissionAssumption
   DEF Init, IInv, OneSetpointSource, Suspended, LandingAtRouteEnd, LandingOrder,
       DropsAsPlanned, DeliveryOrder, PutAtPutHeight, ClimbBounded, ClimbSoFar,
       GoalFollowsIndex, FlightToGoal, OnMission

\* Who publishes the setpoint, and where the node may be suspended.
LEMMA SourceStep ==
  ControlType /\ OneSetpointSource /\ Suspended /\ [AnyNext]_vars
     => OneSetpointSource' /\ Suspended'
<1> USE DEF OneSetpointSource, Suspended, OnMission, ControlType
<1> SUFFICES ASSUME ControlType, OneSetpointSource, Suspended, [AnyNext]_vars
             PROVE  OneSetpointSource' /\ Suspended'
  OBVIOUS
<1>1. CASE InitTick \/ TakingOffTick \/ TrackingTick \/ LandTick
  BY <1>1 DEF InitTick, TakingOffTick, TrackingTick, LandTick
<1>2. CASE HoldWait \/ pubNewTarget \/ StartMission \/ YoloInit
  BY <1>2 DEF HoldWait, pubNewTarget, StartMission, YoloInit
<1>3. ASSUME NEW offset \in Offset, AdjustDetected(offset) \/ DropLandDetected(offset)
      PROVE  OneSetpointSource' /\ Suspended'
  BY <1>3 DEF AdjustDetected, DropLandDetected
<1>4. CASE AdjustLost \/ DropTick \/ DropLandLost
  BY <1>4 DEF AdjustLost, DropTick, DropLandLost
<1>5. CASE PutSkip \/ PutWaitTick
  BY <1>5 DEF PutSkip, PutWaitTick
<1>6. CASE RiseTick
  BY <1>6 DEF RiseTick
<1>7. CASE YoloReady \/ (\E ok \in BOOLEAN : ServoCall(ok))
  BY <1>7 DEF YoloReady, ServoCall
<1>8. CASE (\E connected \in Link : px4_state_Callback(connected)) \/ ego_init_Callback
  BY <1>8 DEF px4_state_Callback, ego_init_Callback
<1>9. CASE \/ \E p \in Position : odomCallback(p)
           \/ \E p \in Position : quadmsgCallback(p)
  BY <1>9 DEF odomCallback, quadmsgCallback
<1>10. CASE Elapse \/ PilotSwitch \/ UNCHANGED vars
  BY <1>10 DEF Elapse, PilotSwitch, vars
<1> QED
  BY NextCases, <1>1, <1>2, <1>3, <1>4, <1>5, <1>6, <1>7, <1>8, <1>9, <1>10

\* Landing: do_land is set in one place and fixes target_id for good.
LEMMA LandingStep ==
  CounterType /\ AutopilotType /\ LandingAtRouteEnd /\ LandingOrder /\ [AnyNext]_vars
     => LandingAtRouteEnd' /\ LandingOrder'
<1> USE DEF LandingAtRouteEnd, LandingOrder, OnMission
<1> SUFFICES ASSUME CounterType, AutopilotType, LandingAtRouteEnd, LandingOrder,
                    [AnyNext]_vars
             PROVE  LandingAtRouteEnd' /\ LandingOrder'
  OBVIOUS
<1>1. CASE InitTick \/ TrackingTick \/ HoldWait
  BY <1>1 DEF InitTick, TrackingTick, HoldWait
<1>2. CASE TakingOffTick \/ LandTick \/ PilotSwitch
  BY <1>2 DEF TakingOffTick, LandTick, PilotSwitch, Request, AutopilotType
<1>3. CASE pubNewTarget
  BY <1>3, Constants DEF pubNewTarget, GoalDue, CounterType
<1>4. CASE StartMission
  BY <1>4 DEF StartMission, LandingDue, CounterType
<1>5. ASSUME NEW offset \in Offset, AdjustDetected(offset) \/ DropLandDetected(offset)
      PROVE  LandingAtRouteEnd' /\ LandingOrder'
  BY <1>5 DEF AdjustDetected, DropLandDetected
<1>6. CASE AdjustLost \/ DropTick \/ DropLandLost \/ YoloInit
  BY <1>6 DEF AdjustLost, DropTick, DropLandLost, YoloInit
<1>7. CASE PutSkip \/ PutWaitTick \/ RiseTick
  BY <1>7 DEF PutSkip, PutWaitTick, RiseTick
<1>8. CASE YoloReady \/ (\E ok \in BOOLEAN : ServoCall(ok))
  BY <1>8 DEF YoloReady, ServoCall
<1>9. CASE \/ \E connected \in Link : px4_state_Callback(connected)
           \/ ego_init_Callback
           \/ \E p \in Position : odomCallback(p)
           \/ \E p \in Position : quadmsgCallback(p)
  BY <1>9 DEF px4_state_Callback, ego_init_Callback, odomCallback, quadmsgCallback
<1>10. CASE Elapse \/ UNCHANGED vars
  BY <1>10 DEF Elapse, vars
<1> QED
  BY NextCases, <1>1, <1>2, <1>3, <1>4, <1>5, <1>6, <1>7, <1>8, <1>9, <1>10

\* Deliveries: from the tests in HOLD to the next goal.
LEMMA DeliveryStep ==
  ASSUME ControlType, CounterType, Suspended, LandingOrder,
         DropsAsPlanned, DeliveryOrder, [AnyNext]_vars
  PROVE  DropsAsPlanned' /\ DeliveryOrder'
<1> USE DEF DropsAsPlanned, DeliveryOrder, OnMission, ControlType, CounterType
<1>1. CASE InitTick \/ TakingOffTick \/ TrackingTick \/ LandTick \/ HoldWait
  BY <1>1 DEF InitTick, TakingOffTick, TrackingTick, LandTick, HoldWait
<1>2. CASE pubNewTarget
  BY <1>2 DEF pubNewTarget
<1>3. CASE StartMission
  <2>1. CASE do_land'
    BY <2>1
  <2>2. CASE ~do_land'
    <3>1. ~do_land /\ MissionDue
      BY <1>3, <2>2 DEF StartMission
    <3>2. /\ target_id \in 1 .. 4 /\ if_do_put[target_id - 1]
          /\ put_servo_id >= 1 /\ ~have_just_put
      BY <3>1 DEF MissionDue, PutDue
    <3>3. drops_here = 0
      BY <1>3, <3>1, <3>2 DEF StartMission
    <3> QED
      BY <1>3, <3>1, <3>2, <3>3 DEF StartMission
  <2> QED
    BY <2>1, <2>2
<1>4. ASSUME NEW offset \in Offset, AdjustDetected(offset) \/ DropLandDetected(offset)
      PROVE  DropsAsPlanned' /\ DeliveryOrder'
  BY <1>4 DEF AdjustDetected, DropLandDetected
<1>5. CASE AdjustLost \/ DropTick \/ DropLandLost \/ YoloInit
  <2>1. CASE AdjustLost
    BY <2>1 DEF AdjustLost
  <2>2. CASE DropTick
    BY <2>2 DEF DropTick
  <2>3. CASE DropLandLost \/ YoloInit
    BY <2>3 DEF DropLandLost, YoloInit
  <2> QED
    BY <1>5, <2>1, <2>2, <2>3
<1>6. CASE PutSkip \/ PutWaitTick
  BY <1>6 DEF PutSkip, PutWaitTick
<1>7. CASE RiseTick
  BY <1>7 DEF RiseTick
<1>8. CASE YoloReady
  BY <1>8 DEF YoloReady, Suspended
<1>9. ASSUME NEW ok \in BOOLEAN, ServoCall(ok) PROVE DropsAsPlanned' /\ DeliveryOrder'
  BY <1>9 DEF ServoCall, Suspended
<1>10. CASE \/ \E connected \in Link : px4_state_Callback(connected)
            \/ ego_init_Callback
            \/ \E p \in Position : odomCallback(p)
            \/ \E p \in Position : quadmsgCallback(p)
  BY <1>10 DEF px4_state_Callback, ego_init_Callback, odomCallback, quadmsgCallback
<1>11. CASE Elapse \/ PilotSwitch \/ UNCHANGED vars
  BY <1>11 DEF Elapse, PilotSwitch, vars
<1> QED
  BY NextCases, <1>1, <1>2, <1>3, <1>4, <1>5, <1>6, <1>7, <1>8, <1>9, <1>10, <1>11

\* Heights: the climbs of one search are counted by nn.
LEMMA ClimbStep ==
  ASSUME TypeOK, OneSetpointSource, Suspended, LandingOrder,
         PutAtPutHeight, ClimbBounded, ClimbSoFar, [AnyNext]_vars
  PROVE  PutAtPutHeight' /\ ClimbBounded' /\ ClimbSoFar'
<1> USE DEF PutAtPutHeight, ClimbBounded, ClimbSoFar, OnMission
<1>0. /\ mission_pose.z \in Int /\ nn \in 0 .. 2
      /\ put_height \in Int /\ hold_height \in Int
      /\ detect_height \in Int /\ adjust_height \in Int
  BY Constants DEF TypeOK, PositionType, Position, CounterType
<1>1. CASE InitTick \/ TakingOffTick \/ TrackingTick \/ LandTick \/ HoldWait
  BY <1>1 DEF InitTick, TakingOffTick, TrackingTick, LandTick, HoldWait
<1>2. CASE pubNewTarget \/ StartMission
  BY <1>2 DEF pubNewTarget, StartMission
<1>3. CASE YoloInit
  <2>1. mission_pose'.z = detect_height /\ mission_action' = "YOLO_INIT" /\ nn' = nn
    BY <1>3 DEF YoloInit
  <2>2. detect_height <= detect_height + 60 /\ detect_height <= detect_height + 30 * nn
    BY <1>0
  <2> QED
    BY <2>1, <2>2
<1>4. CASE YoloReady \/ (\E ok \in BOOLEAN : ServoCall(ok))
  BY <1>0, <1>4 DEF YoloReady, ServoCall, Suspended
<1>5. ASSUME NEW offset \in Offset, AdjustDetected(offset)
      PROVE  PutAtPutHeight' /\ ClimbBounded' /\ ClimbSoFar'
  <2>1. /\ mission_pose'.z = adjust_height \/ mission_pose'.z = mission_pose.z
        /\ mission_action' \in {"ADJUST", "DROP", "DROP_LAND"}
        /\ fsm_state' = fsm_state /\ nn' = nn /\ waiting' = waiting
        /\ waiting = "none" /\ mission_timer' = mission_timer
    BY <1>5 DEF AdjustDetected, TypeOK, PositionType, Position
  <2>2. /\ adjust_height <= adjust_height + 60
        /\ adjust_height <= adjust_height + 30 * nn
    BY <1>0
  <2>3. \E h \in {detect_height, adjust_height} : mission_pose'.z <= h + 30 * nn
    BY <1>5, <2>1, <2>2 DEF AdjustDetected
  <2>4. \E h \in {detect_height, adjust_height} : mission_pose'.z <= h + 60
    BY <1>0, <2>1, <2>3
  <2> QED
    BY <2>1, <2>3, <2>4
<1>6. CASE AdjustLost
  <2>1. /\ mission_timer /\ fsm_state' = fsm_state /\ waiting' = "none"
        /\ mission_action' \in {"ADJUST", "DROP"}
        /\ \E h \in {detect_height, adjust_height} : mission_pose.z <= h + 30 * nn
    BY <1>6 DEF AdjustLost, OneSetpointSource
  <2>2. CASE nn < 2 /\ nn' = nn + 1 /\ mission_pose' = [mission_pose EXCEPT !.z = @ + 30]
    <3>1. mission_pose'.z = mission_pose.z + 30
      BY <2>2 DEF TypeOK, PositionType, Position
    <3>2. \E h \in {detect_height, adjust_height} : mission_pose'.z <= h + 30 * nn'
      BY <1>0, <2>1, <2>2, <3>1
    <3>3. \E h \in {detect_height, adjust_height} : mission_pose'.z <= h + 60
      BY <1>0, <2>2, <3>2, <3>1
    <3> QED
      BY <2>1, <3>2, <3>3
  <2>3. CASE UNCHANGED mission_pose /\ (nn' = nn \/ mission_action' = "DROP")
    BY <2>1, <2>3
  <2> QED
    BY <1>0, <1>6, <2>2, <2>3 DEF AdjustLost
<1>7. CASE DropTick
  <2>1. mission_pose'.z = put_height
    <3>1. mission_pose \in Position /\ [mission_pose EXCEPT !.at = odom.at] \in Position
      BY PoseType, Constants DEF TypeOK, PositionType
    <3>2. \A p \in Position : Lowered(p).z = put_height
      BY DEF Position
    <3> HIDE DEF Lowered
    <3> QED
      BY <1>7, <3>1, <3>2 DEF DropTick
  <2>2. put_height <= put_height + 60
    BY <1>0
  <2>3. mission_action' \in {"DROP", "PUT"} /\ waiting' = "none"
    BY <1>7 DEF DropTick
  <2> QED
    BY <2>1, <2>2, <2>3
<1>8. CASE PutSkip \/ PutWaitTick
  BY <1>8 DEF PutSkip, PutWaitTick
<1>9. CASE RiseTick
  <2>1. mission_pose'.z = hold_height
    BY <1>9 DEF RiseTick, TypeOK, PositionType, Position
  <2>2. hold_height <= hold_height + 60
    BY <1>0
  <2>3. mission_action' = "RISE" /\ waiting' = "none"
    BY <1>9 DEF RiseTick
  <2> QED
    BY <2>1, <2>2, <2>3
<1>10. ASSUME NEW offset \in Offset, DropLandDetected(offset)
       PROVE  PutAtPutHeight' /\ ClimbBounded' /\ ClimbSoFar'
  <2>1. /\ mission_pose'.z \in {30, 60, mission_pose.z}
        /\ mission_action' = "DROP_LAND" /\ waiting' = "none"
        /\ mission_timer' = mission_timer
    BY <1>10 DEF DropLandDetected, TypeOK, PositionType, Position
  <2> QED
    BY <2>1
<1>11. CASE DropLandLost
  BY <1>11 DEF DropLandLost
<1>12. CASE (\E connected \in Link : px4_state_Callback(connected)) \/ ego_init_Callback
  BY <1>12 DEF px4_state_Callback, ego_init_Callback
<1>13. CASE \/ \E p \in Position : odomCallback(p)
            \/ \E p \in Position : quadmsgCallback(p)
  BY <1>13 DEF odomCallback, quadmsgCallback
<1>14. CASE Elapse \/ PilotSwitch \/ UNCHANGED vars
  BY <1>14 DEF Elapse, PilotSwitch, vars
<1> QED
  BY NextCases, <1>1, <1>2, <1>3, <1>4, <1>5, <1>6, <1>7, <1>8, <1>9, <1>10,
     <1>11, <1>12, <1>13, <1>14

\* pubNewTarget alone writes target_id and cur_target.
LEMMA GoalWriter ==
  ASSUME [AnyNext]_vars
  PROVE  pubNewTarget \/ UNCHANGED <<target_id, cur_target>>
<1>1. CASE InitTick \/ TakingOffTick \/ TrackingTick \/ LandTick \/ HoldWait
  BY <1>1 DEF InitTick, TakingOffTick, TrackingTick, LandTick, HoldWait
<1>2. CASE StartMission \/ YoloInit \/ AdjustLost \/ DropTick \/ PutSkip \/ PutWaitTick
  BY <1>2 DEF StartMission, YoloInit, AdjustLost, DropTick, PutSkip, PutWaitTick
<1>3. CASE \E offset \in Offset : AdjustDetected(offset) \/ DropLandDetected(offset)
  BY <1>3 DEF AdjustDetected, DropLandDetected
<1>4. CASE \/ RiseTick \/ DropLandLost
           \/ YoloReady \/ (\E ok \in BOOLEAN : ServoCall(ok))
  BY <1>4 DEF RiseTick, DropLandLost, YoloReady, ServoCall
<1>5. CASE \/ \E connected \in Link : px4_state_Callback(connected)
           \/ ego_init_Callback
           \/ \E p \in Position : odomCallback(p)
           \/ \E p \in Position : quadmsgCallback(p)
           \/ Elapse \/ PilotSwitch \/ UNCHANGED vars
  BY <1>5 DEF px4_state_Callback, ego_init_Callback, odomCallback, quadmsgCallback, Elapse, PilotSwitch, vars
<1> QED
  BY NextCases, <1>1, <1>2, <1>3, <1>4, <1>5

\* The goal published last, and how far target_id can run.
LEMMA GoalStep ==
  ASSUME CounterType, GoalFollowsIndex, [AnyNext]_vars
  PROVE  /\ GoalFollowsIndex'
         /\ target_point_num >= 5 /\ target_id <= target_point_num
              => target_id' <= target_point_num
<1> USE DEF GoalFollowsIndex, CounterType
<1>1. CASE pubNewTarget
  <2>1. GoalFollowsIndex'
    BY <1>1 DEF pubNewTarget
  <2>2. target_id' = target_id + 1 /\ (target_id <= 4 \/ target_id < target_point_num)
    BY <1>1 DEF pubNewTarget, GoalDue
  <2> QED
    BY <2>1, <2>2, Constants
<1>2. CASE UNCHANGED <<target_id, cur_target>>
  BY <1>2
<1> QED
  BY <1>1, <1>2, GoalWriter

\* leg follows the vehicle: only a new goal and odometry move it with respect
\* to the goal, and TRACKING is left at the goal only.
LEMMA FlightStep ==
  ASSUME ControlType, CounterType, FlightToGoal, [AnyNext]_vars
  PROVE  FlightToGoal'
<1> USE DEF FlightToGoal, AtGoal
<1>1. CASE pubNewTarget
  BY <1>1 DEF pubNewTarget, HoldTick
<1>2. ASSUME NEW p \in Position, odomCallback(p) PROVE FlightToGoal'
  BY <1>2 DEF odomCallback
<1>3. ASSUME NEW p \in Position, quadmsgCallback(p) PROVE FlightToGoal'
  BY <1>3 DEF quadmsgCallback, Close
<1>4. CASE TrackingTick
  BY <1>4 DEF TrackingTick, Close
<1>5. CASE /\ UNCHANGED <<leg, target_id, cur_target, odom>>
           /\ fsm_state = "TRACKING" => fsm_state' = "TRACKING"
  BY <1>5 DEF Close
<1>6. CASE InitTick \/ TakingOffTick \/ LandTick \/ HoldWait \/ StartMission
  BY <1>5, <1>6 DEF InitTick, TakingOffTick, LandTick, HoldWait, StartMission
<1>7. CASE YoloInit \/ PutSkip \/ PutWaitTick \/ AdjustLost \/ DropTick \/ RiseTick
             \/ DropLandLost \/ YoloReady
  BY <1>5, <1>7 DEF YoloInit, PutSkip, PutWaitTick, AdjustLost, DropTick, RiseTick,
     DropLandLost, YoloReady
<1>8. CASE \E offset \in Offset : AdjustDetected(offset) \/ DropLandDetected(offset)
  BY <1>5, <1>8 DEF AdjustDetected, DropLandDetected
<1>9. CASE \/ \E ok \in BOOLEAN : ServoCall(ok)
           \/ \E connected \in Link : px4_state_Callback(connected)
           \/ ego_init_Callback \/ Elapse \/ PilotSwitch \/ UNCHANGED vars
  BY <1>5, <1>9 DEF ServoCall, px4_state_Callback, ego_init_Callback, Elapse,
     PilotSwitch, vars
<1> QED
  BY NextCases, <1>1, <1>2, <1>3, <1>4, <1>6, <1>7, <1>8, <1>9

LEMMA SafeStep == TypeOK /\ IInv /\ [AnyNext]_vars => (TypeOK /\ IInv)'
<1>1. TypeOK /\ [AnyNext]_vars => TypeOK'
  BY ControlStep, AutopilotStep, PositionStep, CounterStep DEF TypeOK
<1>2. TypeOK /\ IInv /\ [AnyNext]_vars => IInv'
  BY SourceStep, LandingStep, DeliveryStep, ClimbStep, GoalStep, FlightStep
     DEF TypeOK, IInv
<1> QED BY <1>1, <1>2

\* The inductive invariant of the controller holds in every run.
THEOREM SafetyInvariant == Spec => [](TypeOK /\ IInv)
<1>1. Init => TypeOK /\ IInv
  BY TypeInit, SafeInit
<1> QED
  BY <1>1, SafeStep, NextIsAny, PTL DEF Spec

\* The loop and the mission timer never publish setpoints at the same time.
THEOREM OneSetpointSourceCorrect == Spec => []OneSetpointSource
<1>1. IInv => OneSetpointSource
  BY DEF IInv
<1> QED BY <1>1, SafetyInvariant, PTL

\* Before the landing, the servo is only called for a bay that is loaded.
THEOREM BayLoadedCorrect == Spec => []BayLoaded
<1>1. TypeOK /\ IInv => BayLoaded
  BY DEF TypeOK, CounterType, IInv, DeliveryOrder, BayLoaded, OnMission
<1> QED BY <1>1, SafetyInvariant, PTL

\* No search climbs more than 0.60 m, however often it is interrupted.
THEOREM HeightsCorrect == Spec => []ClimbBounded
<1>1. IInv => ClimbBounded
  BY DEF IInv
<1> QED BY <1>1, SafetyInvariant, PTL

\* The bay opens at put_height, whichever actions wrote the setpoint before.
THEOREM PutAtPutHeightCorrect == Spec => []PutAtPutHeight
<1>1. IInv => PutAtPutHeight
  BY DEF IInv
<1> QED BY <1>1, SafetyInvariant, PTL

\* AUTO.LAND is only ever requested after the last configured goal.
THEOREM LandingAtRouteEndCorrect == Spec => []LandingAtRouteEnd
<1>1. IInv => LandingAtRouteEnd
  BY DEF IInv
<1> QED BY <1>1, SafetyInvariant, PTL

\* A vehicle that set out for a goal starts its mission, or lands, at the goal.
THEOREM MissionAtWaypointCorrect == Spec => []MissionAtWaypoint
<1>1. TypeOK /\ IInv => MissionAtWaypoint
  BY DEF TypeOK, CounterType, IInv, FlightToGoal, LandingAtRouteEnd, LandingOrder,
     DeliveryOrder, OnMission, MissionAtWaypoint
<1> QED BY <1>1, SafetyInvariant, PTL

\* Only a new goal, the start of a mission and the servo's answer move the delivery plan.
LEMMA PlanWriter ==
  ASSUME [AnyNext]_vars
  PROVE  \/ pubNewTarget \/ StartMission \/ (\E ok \in BOOLEAN : ServoCall(ok))
         \/ UNCHANGED <<target_id, cur_target, if_do_put, put_servo_id, drops_here, do_land>>
<1> USE DEF route, payload, flags
<1>1. CASE InitTick \/ TakingOffTick \/ TrackingTick \/ LandTick \/ HoldWait
  BY <1>1 DEF InitTick, TakingOffTick, TrackingTick, LandTick, HoldWait
<1>2. CASE YoloInit \/ AdjustLost \/ DropTick \/ PutSkip \/ PutWaitTick
  BY <1>2 DEF YoloInit, AdjustLost, DropTick, PutSkip, PutWaitTick
<1>3. CASE \E offset \in Offset : AdjustDetected(offset) \/ DropLandDetected(offset)
  BY <1>3 DEF AdjustDetected, DropLandDetected
<1>4. CASE RiseTick \/ DropLandLost \/ YoloReady
  BY <1>4 DEF RiseTick, DropLandLost, YoloReady
<1>5. CASE \/ \E connected \in Link : px4_state_Callback(connected)
           \/ ego_init_Callback
           \/ \E p \in Position : odomCallback(p)
           \/ \E p \in Position : quadmsgCallback(p)
           \/ Elapse \/ PilotSwitch \/ UNCHANGED vars
  BY <1>5 DEF px4_state_Callback, ego_init_Callback, odomCallback, quadmsgCallback, Elapse, PilotSwitch, vars
<1> QED
  BY NextCases, <1>1, <1>2, <1>3, <1>4, <1>5

\* With five points or more, every step of the controller is one of the delivery plan.
LEMMA PlanStep ==
  ASSUME target_point_num >= 5, target_id <= target_point_num, TypeOK, IInv, [AnyNext]_vars
  PROVE  [Delivery!Next]_<<target_id, cur_target, if_do_put, put_servo_id, drops_here > 0, do_land>>
<1>1. target_id \in Nat /\ put_servo_id \in 0 .. 3 /\ drops_here \in Nat /\ do_land \in BOOLEAN
  BY DEF TypeOK, CounterType, ControlType
<1>2. do_land => target_id = target_point_num
  BY DEF IInv, LandingAtRouteEnd
<1>3. CASE pubNewTarget
  <2>1. ~do_land /\ target_id < target_point_num
    BY <1>1, <1>2, <1>3, Constants DEF pubNewTarget, GoalDue
  <2>2. cur_target' = target_points[target_id] /\ target_id' = target_id + 1 /\ drops_here' = 0
    BY <1>3, <2>1 DEF pubNewTarget, Point
  <2>3. UNCHANGED <<if_do_put, put_servo_id, do_land>>
    BY <1>3 DEF pubNewTarget
  <2>4. (drops_here > 0)' = FALSE
    BY <2>2
  <2> QED
    BY <2>1, <2>2, <2>3, <2>4 DEF Delivery!Next, Delivery!SetOut
<1>4. CASE StartMission
  <2>1. UNCHANGED <<target_id, cur_target, if_do_put, put_servo_id, drops_here>>
    BY <1>4 DEF StartMission, route, payload
  <2>2. do_land' = do_land \/ (target_id = target_point_num /\ do_land' = TRUE)
    BY <1>1, <1>4 DEF StartMission, LandingDue
  <2>3. (drops_here > 0)' = (drops_here > 0)
    BY <2>1
  <2> QED
    BY <2>1, <2>2, <2>3 DEF Delivery!Next, Delivery!Land
<1>5. ASSUME NEW ok \in BOOLEAN, ServoCall(ok)
      PROVE  [Delivery!Next]_<<target_id, cur_target, if_do_put, put_servo_id, drops_here > 0, do_land>>
  <2>1. UNCHANGED <<target_id, cur_target, if_do_put, do_land>>
    BY <1>5 DEF ServoCall, route, flags
  <2>2. CASE put_servo_id > 0 /\ put_servo_id' = put_servo_id - 1 /\ drops_here' = drops_here + 1
    <3>1. (drops_here > 0)' = TRUE
      BY <1>1, <2>2
    <3>2. CASE do_land
      BY <2>1, <2>2, <3>1, <3>2 DEF Delivery!Next, Delivery!Shed
    <3>3. CASE ~do_land
      <4>1. target_id \in 1 .. 4 /\ if_do_put[target_id - 1] /\ drops_here = 0
        BY <1>5, <3>3 DEF ServoCall, IInv, Suspended, DeliveryOrder, OnMission
      <4>2. (drops_here > 0) = FALSE
        BY <4>1
      <4> QED
        BY <2>1, <2>2, <3>1, <3>3, <4>1, <4>2 DEF Delivery!Next, Delivery!Deliver
    <3> QED
      BY <3>2, <3>3
  <2>3. CASE UNCHANGED <<put_servo_id, drops_here>>
    BY <2>1, <2>3
  <2> QED
    BY <1>1, <1>5, <2>2, <2>3 DEF ServoCall, payload
<1>6. CASE UNCHANGED <<target_id, cur_target, if_do_put, put_servo_id, drops_here, do_land>>
  BY <1>6
<1> QED
  BY <1>3, <1>4, <1>5, <1>6, PlanWriter

\* Whatever the environment does, the controller carries out the plan.
LEMMA AnyFollowsPlan ==
  ASSUME target_point_num >= 5
  PROVE  Init /\ [][AnyNext]_vars => FollowsPlan
<1> DEFINE Inside == target_id <= target_point_num
<1>1. Init => Inside /\ Delivery!Init
  BY Constants DEF Init, Delivery!Init
<1>2. TypeOK /\ IInv /\ Inside /\ [AnyNext]_vars => Inside'
  BY GoalStep DEF TypeOK, IInv
<1>3. TypeOK /\ IInv /\ Inside /\ [AnyNext]_vars
        => [Delivery!Next]_<<target_id, cur_target, if_do_put, put_servo_id, drops_here > 0, do_land>>
  BY PlanStep
<1>4. Init => TypeOK /\ IInv
  BY TypeInit, SafeInit
<1> HIDE DEF Inside
<1> QED
  BY <1>1, <1>2, <1>3, <1>4, SafeStep, PTL DEF FollowsPlan, Delivery!Spec

\* The controller implements the delivery plan, for every route of five points or more.
THEOREM FollowsPlanCorrect ==
  ASSUME target_point_num >= 5
  PROVE  Spec => FollowsPlan
  BY AnyFollowsPlan, NextIsAny, PTL DEF Spec
-----------------------------------------------------------------------------
(* The closed flight of MissionFlight: what the vehicle and the planner do *)
(* is among what the controller has to be prepared for, as long as its     *)
(* own setpoints are positions.                                            *)

LEMMA SetpointType == TypeOK => Setpoint \in Position
<1>1. TakeoffPose \in Position
  BY Constants DEF TakeoffPose, Position
<1> QED
  BY <1>1 DEF TypeOK, PositionType, Setpoint

LEMMA FlightIsAny == TypeOK /\ [FlightNext]_vars => [AnyNext]_vars
<1> SUFFICES ASSUME TypeOK, FlightNext PROVE AnyNext
  OBVIOUS
<1>1. odom \in Position /\ cur_target \in Position /\ Setpoint \in Position
  BY SetpointType DEF TypeOK, PositionType
<1>2. [odom EXCEPT !.at = transit] \in Position
  BY <1>1, FlightAssumption DEF Position
<1>3. CASE Depart \/ Arrive \/ Report
  BY <1>1, <1>2, <1>3 DEF Depart, Arrive, Report, AnyNext
<1>4. CASE Plan
  BY <1>1, <1>4 DEF Plan, AnyNext
<1> QED
  BY <1>3, <1>4 DEF FlightNext, Sense, AnyNext

\* With the vehicle that follows its setpoints, departs and arrives, the invariant
\* of the controller holds too: also in transit, where odometry reports a cell no
\* setpoint and no goal named.
THEOREM FlightInvariant == FlightSpec => [](TypeOK /\ IInv)
<1>1. FlightInit => TypeOK /\ IInv
  BY TypeInit, SafeInit DEF FlightInit
<1>2. TypeOK /\ IInv /\ [FlightNext]_vars => (TypeOK /\ IInv)'
  BY SafeStep, FlightIsAny
<1> QED
  BY <1>1, <1>2, PTL DEF FlightSpec

\* In the closed flight no two parts publish setpoints at once, the servo is called for
\* loaded bays at put_height, searches climb 0.60 m at most, AUTO.LAND waits for the end
\* of the route, and missions begin at the goal: MissionAtWaypoint also where the vehicle
\* is in transit and only its own odometry can say that it arrived.
THEOREM FlightSafety ==
  FlightSpec => [](/\ OneSetpointSource /\ BayLoaded /\ PutAtPutHeight
                   /\ ClimbBounded /\ LandingAtRouteEnd /\ MissionAtWaypoint)
<1>1. IInv => OneSetpointSource /\ PutAtPutHeight /\ ClimbBounded /\ LandingAtRouteEnd
  BY DEF IInv
<1>2. TypeOK /\ IInv => BayLoaded
  BY DEF TypeOK, CounterType, IInv, DeliveryOrder, BayLoaded, OnMission
<1>3. TypeOK /\ IInv => MissionAtWaypoint
  BY DEF TypeOK, CounterType, IInv, FlightToGoal, LandingAtRouteEnd, LandingOrder,
     DeliveryOrder, OnMission, MissionAtWaypoint
<1> QED
  BY <1>1, <1>2, <1>3, FlightInvariant, PTL

\* Every closed flight over a route of five points or more carries out the delivery
\* plan: goals in order, payloads where if_do_put selects them, then the landing.
THEOREM FlightFollowsPlan ==
  ASSUME target_point_num >= 5
  PROVE  FlightSpec => FollowsPlan
  BY FlightInvariant, FlightIsAny, AnyFollowsPlan, PTL DEF FlightSpec, FlightInit
=============================================================================
