----------------------------- MODULE MissionFSM -----------------------------
(***************************************************************************)
(* The mission controller of the drone: class fsm of                       *)
(* controller/controller/src/fsm.cpp.                                      *)
(*                                                                         *)
(* The node spins on one thread, so a callback is one atomic step, except  *)
(* that ros::service::waitForService suspends the node in the middle of    *)
(* the loop callback (variable waiting).  The loop callback is split into  *)
(* one action per branch of its switch; exactly one branch runs per tick.  *)
(* What the node reads from outside (odometry, autopilot state, planner    *)
(* commands, detector and servo replies) is unconstrained here; the module *)
(* MissionFlight closes the loop with a vehicle.                           *)
(*                                                                         *)
(* Heights are centimetres.  A horizontal position is a cell of Place:     *)
(* cells stand for spots more than half a metre apart, so two positions    *)
(* are close only if they share a cell.  Time is measured by ages that     *)
(* stop at the largest value the code compares them with.                  *)
(***************************************************************************)
EXTENDS Integers

CONSTANTS
    Place,                \* horizontal cells
    Odometry, Command,    \* positions odometry reports, and the planner commands
    PutPlan, Release,     \* values if_do_put and do_put_ can get
    Link,                 \* values of State.connected
    home, garbage,        \* cell of the local origin; an uninitialised point
    target_point_num, target_points,   \* launch file: the route, 0-indexed
    do_mission, use_sim_,              \* launch file: switches
    put_height, hold_height, detect_height, adjust_height,
    LossLimit1, LossLimit2,   \* overtime_thre1*60 and overtime_thre2*100
    DetectEnough, DetectGiveUp,   \* the literals 80 and 800
    PubWait, PutWait, DropWait, RequestWait,  \* 2 s, 3 s, 5 s and 2 s
    Type                      \* what the detector can recognise

Position == [at : Place, z : Int]
Point(i) == IF i < target_point_num THEN target_points[i] ELSE garbage
OvertimeTop == IF LossLimit1 < LossLimit2 THEN LossLimit2 + 1
                                          ELSE LossLimit1 + 1
DetectTop == IF DetectGiveUp < LossLimit2 THEN LossLimit2 + 1
                                          ELSE DetectGiveUp + 1

ASSUME MissionAssumption ==
    /\ home \in Place
    /\ Odometry \subseteq Position /\ Command \subseteq Position
    /\ PutPlan \subseteq [0 .. 3 -> BOOLEAN] /\ Release \subseteq BOOLEAN
    /\ Link \subseteq BOOLEAN
    /\ garbage \in Position
    /\ target_point_num \in Int /\ target_point_num <= 50
    /\ target_points \in [0 .. target_point_num - 1 -> Position]
    /\ {do_mission, use_sim_} \subseteq BOOLEAN
    /\ {put_height, hold_height, detect_height, adjust_height} \subseteq Int
    /\ {LossLimit1, LossLimit2} \subseteq Nat
    /\ {DetectEnough, DetectGiveUp} \subseteq Nat /\ DetectEnough < DetectGiveUp
    /\ {PubWait, PutWait, DropWait, RequestWait} \subseteq Nat
    /\ PutWait <= DropWait
    /\ 0 \notin Type

VARIABLES
    fsm_state, mission_action,   \* the two nested state machines
    waiting,        \* the service whose waitForService suspends the node
    px4, fcu,       \* autopilot state as last reported, and as it is
    ego_init, have_odom, odom, target_pos,     \* what the callbacks store
    pause_track,    \* within 0.5 m of cur_target, as of the last tick
    target_id, cur_target,       \* next waypoint index; last goal published
    hold_pose, mission_pose, mission_timer,    \* setpoints and their timer
    overtime_t, detect_overtime, nn, have_adjusted, min_type,
    put_servo_id, have_just_put, do_land, if_do_put, do_put_,
    hold_age, pub_age, req_age,  \* time since hold_time_, last_pub_time_, last_request
    leg, drops_here   \* history since cur_target was published: the flight to it; releases

autopilot == <<px4, fcu, req_age>>
sensed    == <<ego_init, have_odom, odom, target_pos>>
route     == <<target_id, cur_target, pub_age, leg>>
poses     == <<hold_pose, mission_pose, mission_timer>>
search    == <<overtime_t, detect_overtime, nn, have_adjusted, min_type>>
payload   == <<put_servo_id, drops_here>>
flags     == <<have_just_put, do_land, if_do_put, do_put_>>
vars == <<fsm_state, mission_action, waiting, pause_track, hold_age,
          autopilot, sensed, route, poses, search, payload, flags>>
-----------------------------------------------------------------------------
FSMState == {"INIT", "TAKING_OFF", "LAND", "HOLD", "EXEC_MISSION", "TRACKING"}
MissionAction == {"YOLO_INIT", "ADJUST", "DROP", "RISE", "PUT", "DROP_LAND"}
FlightMode == {"MANUAL", "OFFBOARD", "AUTO.LAND"}

\* How far the target is off centre after the correction for the payload
\* bay: both axes below 0.1 m, both below 0.2 m, or farther.
Offset == {"fine", "near", "far"}

Distance(a, b) == IF a < b THEN b - a ELSE a - b
Close(p, q, d) == p.at = q.at /\ Distance(p.z, q.z) < d
\* Faulty variant of AtGoal: measured against the planner's last command.
AtCommand == Close(odom, target_pos, 50)
AtGoal == Close(odom, cur_target, 50)
TakeoffPose == [at |-> home, z |-> 110]
ZeroPose == [at |-> home, z |-> 0]
Bump(n, top) == IF n < top THEN n + 1 ELSE n

(***************************************************************************)
(* fsm() leaves have_odom_, odom_pos_, targetPos_, cur_target_ and, when   *)
(* the YAML file cannot be read, if_do_put uninitialised; ROS messages and *)
(* ros::Time start at zero, so hold_time_ and last_pub_time_ are long past.*)
(***************************************************************************)
Init ==
    /\ fsm_state = "INIT" /\ mission_action = "YOLO_INIT" /\ waiting = "none"
    /\ px4 = [connected |-> FALSE, mode |-> "MANUAL", armed |-> FALSE]
    /\ fcu = [mode |-> "MANUAL", armed |-> FALSE]
    /\ ego_init = FALSE /\ pause_track = FALSE
    /\ have_odom \in BOOLEAN
    /\ odom \in Odometry
    /\ target_pos = garbage /\ cur_target = garbage
    /\ target_id = 0
    /\ hold_pose = ZeroPose /\ mission_pose = ZeroPose /\ mission_timer = FALSE
    /\ overtime_t = 0 /\ detect_overtime = 0 /\ nn = 0
    /\ have_adjusted = FALSE /\ min_type = 0
    /\ put_servo_id = 3 /\ have_just_put = FALSE /\ do_land = FALSE
    /\ if_do_put \in PutPlan /\ do_put_ \in Release
    /\ hold_age = DropWait /\ pub_age = PubWait /\ req_age = 0
    /\ leg = "held" /\ drops_here = 0
-----------------------------------------------------------------------------
(* Subscriptions.  None of them runs while the node is suspended.          *)

px4_state_Callback(connected) ==
    /\ waiting = "none"
    /\ px4' = [connected |-> connected, mode |-> fcu.mode, armed |-> fcu.armed]
    /\ UNCHANGED <<fsm_state, mission_action, waiting, pause_track, hold_age,
                   fcu, req_age, sensed, route, poses, search, payload, flags>>

\* The planner publishes true, and only true, on /ego_state.
ego_init_Callback ==
    /\ waiting = "none"
    /\ ego_init' = TRUE
    /\ UNCHANGED <<fsm_state, mission_action, waiting, pause_track, hold_age,
                   autopilot, have_odom, odom, target_pos, route, poses, search,
                   payload, flags>>

odomCallback(p) ==
    /\ waiting = "none"
    /\ odom' = p /\ have_odom' = TRUE
    /\ leg' = IF Close(p, cur_target, 50) THEN "arrived" ELSE leg
    /\ UNCHANGED <<fsm_state, mission_action, waiting, pause_track, hold_age,
                   autopilot, ego_init, target_pos, target_id, cur_target,
                   pub_age, poses, search, payload, flags>>

quadmsgCallback(p) ==
    /\ waiting = "none"
    /\ target_pos' = p
    /\ LET track == fsm_state = "HOLD" /\ ~pause_track
       IN  /\ fsm_state' = IF track THEN "TRACKING" ELSE fsm_state
           /\ leg' = IF track /\ leg = "held" THEN "tracked" ELSE leg
    /\ UNCHANGED <<mission_action, waiting, pause_track, hold_age, autopilot,
                   ego_init, have_odom, odom, target_id, cur_target, pub_age,
                   poses, search, payload, flags>>
-----------------------------------------------------------------------------
(* fsm_state_loopCallback: every tick starts with checkPOS.                *)

Tick ==
    /\ waiting = "none"
    /\ pause_track' = AtGoal

InitTick ==
    /\ Tick /\ fsm_state = "INIT"
    /\ fsm_state' = IF px4.connected /\ have_odom THEN "TAKING_OFF" ELSE "INIT"
    /\ UNCHANGED <<mission_action, waiting, hold_age, autopilot, sensed, route,
                   poses, search, payload, flags>>

\* One set_mode or arming call; the autopilot may refuse it.
Request(wanted) == req_age' = 0 /\ fcu' \in {wanted, fcu}

TakingOffTick ==
    /\ Tick /\ fsm_state = "TAKING_OFF"
    /\ LET late == req_age > RequestWait
           offboard == use_sim_ /\ late /\ px4.mode # "OFFBOARD"
           arm == use_sim_ /\ late /\ px4.mode = "OFFBOARD" /\ ~px4.armed
       IN  \/ offboard /\ Request([fcu EXCEPT !.mode = "OFFBOARD"])
           \/ arm /\ Request([fcu EXCEPT !.armed = TRUE])
           \/ ~offboard /\ ~arm /\ UNCHANGED <<fcu, req_age>>
    /\ \/ /\ Close(odom, TakeoffPose, 30)
          /\ fsm_state' = "HOLD" /\ hold_pose' = TakeoffPose
       \/ /\ ~Close(odom, TakeoffPose, 30)
          /\ UNCHANGED <<fsm_state, hold_pose>>
    /\ UNCHANGED <<mission_action, waiting, hold_age, px4, sensed, route,
                   mission_pose, mission_timer, search, payload, flags>>

TrackingTick ==
    /\ Tick /\ fsm_state = "TRACKING"
    /\ \/ /\ AtGoal
          /\ fsm_state' = "HOLD" /\ hold_pose' = odom
       \/ /\ ~AtGoal
          /\ UNCHANGED <<fsm_state, hold_pose>>
    /\ UNCHANGED <<mission_action, waiting, hold_age, autopilot, sensed, route,
                   mission_pose, mission_timer, search, payload, flags>>

LandTick ==
    /\ Tick /\ fsm_state = "LAND"
    /\ IF px4.mode # "AUTO.LAND" /\ req_age > RequestWait
       THEN Request([fcu EXCEPT !.mode = "AUTO.LAND"])
       ELSE UNCHANGED <<fcu, req_age>>
    /\ UNCHANGED <<fsm_state, mission_action, waiting, hold_age, px4, sensed,
                   route, poses, search, payload, flags>>
-----------------------------------------------------------------------------
(* HOLD                                                                    *)

\* Faulty variants: the payload check, the have_just_put check is missing;
\* the comparison with target_point_num_ is off by one.
PutDueUnloaded == do_mission /\ ~have_just_put /\ if_do_put[target_id - 1]
PutDueTwice == do_mission /\ put_servo_id >= 1 /\ if_do_put[target_id - 1]
LandingDueEarly == target_id >= 4 /\ target_id < target_point_num
                      /\ pub_age >= PubWait
LandingDueNever == target_id > target_point_num /\ target_id > 4

\* Still in the two seconds after the last goal.
TooEarly == target_id > 0 /\ pub_age < PubWait
PutDue == do_mission /\ ~have_just_put /\ put_servo_id >= 1
            /\ if_do_put[target_id - 1]
MissionDue == target_id \in 1 .. 4 /\ ~TooEarly /\ PutDue
GoalDue == \/ target_id = 0
           \/ target_id \in 1 .. 4 /\ ~TooEarly /\ ~PutDue
           \/ target_id > 4 /\ target_id < target_point_num /\ ~TooEarly
LandingDue == target_id > 4 /\ target_id = target_point_num /\ ~TooEarly
RouteReady == ego_init /\ target_point_num >= 1

HoldTick == Tick /\ fsm_state = "HOLD"

HoldWait ==
    /\ HoldTick
    /\ RouteReady => ~MissionDue /\ ~GoalDue /\ ~LandingDue
    /\ UNCHANGED <<fsm_state, mission_action, waiting, hold_age, autopilot,
                   sensed, route, poses, search, payload, flags>>

\* have_just_put is left alone when the first goal is published.
pubNewTarget ==
    /\ HoldTick /\ RouteReady /\ GoalDue
    /\ cur_target' = Point(target_id)
    /\ target_id' = target_id + 1
    /\ pub_age' = 0
    /\ leg' = IF Close(odom, Point(target_id), 50) THEN "arrived" ELSE "held"
    /\ drops_here' = 0
    /\ have_just_put' = (target_id = 0 /\ have_just_put)
    /\ UNCHANGED <<fsm_state, mission_action, waiting, hold_age, autopilot,
                   sensed, poses, search, put_servo_id, do_land, if_do_put,
                   do_put_>>

StartMission ==
    /\ HoldTick /\ RouteReady /\ (MissionDue \/ LandingDue)
    /\ do_land' = (do_land \/ LandingDue)
    /\ fsm_state' = "EXEC_MISSION" /\ mission_action' = "YOLO_INIT"
    /\ UNCHANGED <<waiting, hold_age, autopilot, sensed, route, poses, search,
                   payload, have_just_put, if_do_put, do_put_>>
-----------------------------------------------------------------------------
(* EXEC_MISSION                                                            *)

Doing(action) == Tick /\ fsm_state = "EXEC_MISSION" /\ mission_action = action

\* Faulty variant: the timer is left running.
stopMissionTimerForgotten == UNCHANGED mission_timer

startMissionTimer ==
    /\ mission_timer' = TRUE
    /\ mission_pose' = [at |-> odom.at, z |-> detect_height]
stopMissionTimer == mission_timer' = FALSE

\* Sets the setpoint up, then suspends the node in waitForService("yolo").
YoloInit ==
    /\ Doing("YOLO_INIT")
    /\ startMissionTimer
    /\ waiting' = "yolo"
    /\ UNCHANGED <<fsm_state, mission_action, hold_age, autopilot, sensed,
                   route, hold_pose, search, payload, flags>>

YoloReady ==
    /\ waiting = "yolo" /\ waiting' = "none"
    /\ mission_action' = "ADJUST"
    /\ UNCHANGED <<fsm_state, pause_track, hold_age, autopilot, sensed, route,
                   poses, search, payload, flags>>

\* yolo_client_.call: on success the response is stored and updatepnpPos
\* moves the setpoint to the vehicle's place; on failure the response and
\* the setpoint stay as they were.
Detected == overtime_t' = 0 /\ min_type' \in Type
Lost == overtime_t' = Bump(overtime_t, OvertimeTop) /\ UNCHANGED min_type

\* Faulty variants: detect_overtime is not counted; a third climb.
CountDetectionLost == detect_overtime
ClimbsSpentLate == nn >= 3
CountDetection == Bump(detect_overtime, DetectTop)
ClimbsSpent == nn >= 2

AdjustDetected(offset) ==
    LET seen == CountDetection
        lower == (offset # "far" \/ seen > DetectGiveUp) /\ ~have_adjusted
        settled == (offset = "fine" \/ seen > DetectEnough) /\ hold_age >= DropWait
    IN  /\ Doing("ADJUST") /\ Detected
        /\ \/ /\ lower
              /\ mission_pose' = [at |-> odom.at, z |-> adjust_height]
              /\ have_adjusted' = TRUE
              /\ detect_overtime' = 0 /\ hold_age' = 0
              /\ UNCHANGED mission_action
           \/ /\ ~lower /\ settled /\ do_land
              /\ mission_action' = "DROP_LAND"
              /\ mission_pose' = [mission_pose EXCEPT !.at = odom.at]
              /\ detect_overtime' = seen
              /\ UNCHANGED <<have_adjusted, hold_age>>
           \/ /\ ~lower /\ settled /\ ~do_land
              /\ mission_action' = "DROP"
              /\ mission_pose' = [mission_pose EXCEPT !.at = odom.at]
              /\ detect_overtime' = 0 /\ hold_age' = 0
              /\ UNCHANGED have_adjusted
           \/ /\ ~lower /\ ~settled
              /\ mission_pose' = [mission_pose EXCEPT !.at = odom.at]
              /\ detect_overtime' = seen
              /\ UNCHANGED <<mission_action, have_adjusted, hold_age>>
        /\ UNCHANGED <<fsm_state, waiting, autopilot, sensed, route, hold_pose,
                       mission_timer, nn, payload, flags>>

\* After LossLimit1 failures in a row: climb 0.30 m, the third time drop.
AdjustLost ==
    /\ Doing("ADJUST") /\ UNCHANGED min_type
    /\ LET lost == Bump(overtime_t, OvertimeTop)
       IN  \/ /\ lost > LossLimit1 /\ ClimbsSpent
              /\ overtime_t' = 0 /\ nn' = 0 /\ mission_action' = "DROP"
              /\ UNCHANGED mission_pose
           \/ /\ lost > LossLimit1 /\ ~ClimbsSpent
              /\ overtime_t' = 0 /\ nn' = nn + 1
              /\ mission_pose' = [mission_pose EXCEPT !.z = @ + 30]
              /\ UNCHANGED mission_action
           \/ /\ lost <= LossLimit1
              /\ overtime_t' = lost
              /\ UNCHANGED <<nn, mission_action, mission_pose>>
    /\ UNCHANGED <<fsm_state, waiting, hold_age, autopilot, sensed, route,
                   hold_pose, mission_timer, detect_overtime, have_adjusted,
                   payload, flags>>

\* Faulty variant: the height is not lowered.
LoweredNot(pose) == pose
Lowered(pose) == [pose EXCEPT !.z = put_height]

DropTick ==
    /\ Doing("DROP")
    /\ \/ Detected /\ mission_pose' = Lowered([mission_pose EXCEPT !.at = odom.at])
       \/ Lost /\ mission_pose' = Lowered(mission_pose)
    /\ LET low == Distance(odom.z, put_height) < 20 \/ overtime_t' > LossLimit2
       IN  IF low /\ hold_age >= DropWait
           THEN mission_action' = "PUT" /\ hold_age' = 0
           ELSE UNCHANGED <<mission_action, hold_age>>
    /\ UNCHANGED <<fsm_state, waiting, autopilot, sensed, route, hold_pose,
                   mission_timer, detect_overtime, nn, have_adjusted, payload,
                   flags>>

\* PUT without do_put_ only moves on; with it the servo is called once the
\* vehicle has held for PutWait, after waitForService("servo_move").
PutSkip ==
    /\ Doing("PUT") /\ ~do_put_
    /\ mission_action' = "RISE"
    /\ UNCHANGED <<fsm_state, waiting, hold_age, autopilot, sensed, route,
                   poses, search, payload, flags>>

PutWaitTick ==
    /\ Doing("PUT") /\ do_put_
    /\ waiting' = IF hold_age >= PutWait THEN "servo" ELSE "none"
    /\ UNCHANGED <<fsm_state, mission_action, hold_age, autopilot, sensed,
                   route, poses, search, payload, flags>>

\* The servo server refuses every number but 1, 2 and 3; a refused or
\* failed call is retried at the next tick.
ServoCall(ok) ==
    /\ waiting = "servo" /\ waiting' = "none"
    /\ \/ /\ ok /\ put_servo_id \in 1 .. 3
          /\ put_servo_id' = put_servo_id - 1
          /\ drops_here' = drops_here + 1
          /\ mission_action' = "RISE"
       \/ /\ ~ok
          /\ UNCHANGED <<mission_action, payload>>
    /\ UNCHANGED <<fsm_state, pause_track, hold_age, autopilot, sensed, route,
                   poses, search, flags>>

RiseTick ==
    /\ Doing("RISE")
    /\ mission_pose' = [mission_pose EXCEPT !.z = hold_height]
    /\ \/ /\ Distance(odom.z, hold_height) < 10
          /\ stopMissionTimer
          /\ have_just_put' = TRUE /\ have_adjusted' = FALSE
          /\ fsm_state' = "HOLD" /\ hold_pose' = mission_pose'
       \/ /\ Distance(odom.z, hold_height) >= 10
          /\ UNCHANGED <<mission_timer, have_just_put, have_adjusted, fsm_state,
                         hold_pose>>
    /\ UNCHANGED <<mission_action, waiting, hold_age, autopilot, sensed, route,
                   overtime_t, detect_overtime, nn, min_type, payload, do_land,
                   if_do_put, do_put_>>

DropLandDetected(offset) ==
    LET seen == CountDetection
        lower == (offset # "far" \/ seen > LossLimit2) /\ ~have_adjusted
        ready == offset = "fine" \/ seen > DetectEnough
    IN  /\ Doing("DROP_LAND") /\ Detected
        /\ \/ /\ lower
              /\ mission_pose' = [at |-> odom.at, z |-> 60]
              /\ have_adjusted' = TRUE
              /\ detect_overtime' = 0 /\ hold_age' = 0
              /\ UNCHANGED fsm_state
           \/ /\ ~lower /\ ready
              /\ mission_pose' = [at |-> odom.at, z |-> 30]
              /\ fsm_state' = IF hold_age >= DropWait THEN "LAND" ELSE fsm_state
              /\ detect_overtime' = seen
              /\ UNCHANGED <<have_adjusted, hold_age>>
           \/ /\ ~lower /\ ~ready
              /\ mission_pose' = [mission_pose EXCEPT !.at = odom.at]
              /\ detect_overtime' = seen
              /\ UNCHANGED <<have_adjusted, hold_age, fsm_state>>
        /\ UNCHANGED <<mission_action, waiting, autopilot, sensed, route,
                       hold_pose, mission_timer, nn, payload, flags>>

DropLandLost ==
    /\ Doing("DROP_LAND") /\ Lost
    /\ UNCHANGED <<fsm_state, mission_action, waiting, hold_age, autopilot,
                   sensed, route, poses, detect_overtime, nn, have_adjusted,
                   payload, flags>>
-----------------------------------------------------------------------------
(* The world outside the node.                                             *)

Elapse ==
    /\ \/ hold_age < DropWait \/ pub_age < PubWait \/ req_age <= RequestWait
    /\ hold_age' = Bump(hold_age, DropWait)
    /\ pub_age' = Bump(pub_age, PubWait)
    /\ req_age' = Bump(req_age, RequestWait + 1)
    /\ UNCHANGED <<fsm_state, mission_action, waiting, pause_track, px4, fcu,
                   sensed, target_id, cur_target, leg, poses, search,
                   payload, flags>>

\* With use_sim_ off the pilot arms and selects OFFBOARD on the remote.
PilotSwitch ==
    /\ fcu' = [mode |-> "OFFBOARD", armed |-> TRUE] /\ fcu' # fcu
    /\ fcu.mode = "MANUAL"
    /\ UNCHANGED <<fsm_state, mission_action, waiting, pause_track, hold_age,
                   px4, req_age, sensed, route, poses, search, payload, flags>>

LoopCallback ==
    \/ InitTick \/ TakingOffTick \/ TrackingTick \/ LandTick
    \/ HoldWait \/ pubNewTarget \/ StartMission
    \/ YoloInit
    \/ \E offset \in Offset : AdjustDetected(offset)
    \/ AdjustLost
    \/ DropTick
    \/ PutSkip \/ PutWaitTick
    \/ RiseTick
    \/ \E offset \in Offset : DropLandDetected(offset)
    \/ DropLandLost

ServiceReply == YoloReady \/ \E ok \in BOOLEAN : ServoCall(ok)

Callback ==
    \/ \E connected \in Link : px4_state_Callback(connected)
    \/ ego_init_Callback
    \/ \E p \in Odometry : odomCallback(p)
    \/ \E p \in Command : quadmsgCallback(p)

Next == LoopCallback \/ ServiceReply \/ Callback \/ Elapse \/ PilotSwitch

Spec == Init /\ [][Next]_vars
-----------------------------------------------------------------------------
(* Properties                                                              *)

\* Type invariant of class fsm's members (fsm.h).
ControlType ==
    /\ fsm_state \in FSMState /\ mission_action \in MissionAction
    /\ waiting \in {"none", "yolo", "servo"}
    /\ ego_init \in BOOLEAN /\ have_odom \in BOOLEAN /\ pause_track \in BOOLEAN
    /\ mission_timer \in BOOLEAN /\ have_adjusted \in BOOLEAN
    /\ have_just_put \in BOOLEAN /\ do_land \in BOOLEAN
    /\ leg \in {"held", "tracked", "arrived"}
    /\ if_do_put \in [0 .. 3 -> BOOLEAN] /\ do_put_ \in BOOLEAN
AutopilotType ==
    /\ px4 \in [connected : BOOLEAN, mode : FlightMode, armed : BOOLEAN]
    /\ fcu \in [mode : FlightMode, armed : BOOLEAN]
PositionType ==
    /\ odom \in Position /\ target_pos \in Position /\ cur_target \in Position
    /\ hold_pose \in Position /\ mission_pose \in Position
CounterType ==
    /\ target_id \in Nat /\ put_servo_id \in 0 .. 3 /\ drops_here \in Nat
    /\ overtime_t \in 0 .. OvertimeTop /\ detect_overtime \in 0 .. DetectTop
    /\ nn \in 0 .. 2 /\ min_type \in Type \cup {0}
    /\ hold_age \in 0 .. DropWait /\ pub_age \in 0 .. PubWait
    /\ req_age \in 0 .. RequestWait + 1
TypeOK == ControlType /\ AutopilotType /\ PositionType /\ CounterType

OnMission == fsm_state = "EXEC_MISSION"

\* The loop and the mission timer publish on the same setpoint topic.  The
\* timer runs exactly from startMissionTimer in YOLO_INIT to stopMissionTimer
\* in RISE, or for ever once LAND is reached: the states in which the loop
\* itself publishes no setpoint.
OneSetpointSource ==
    mission_timer <=> \/ OnMission /\ mission_action # "YOLO_INIT"
                      \/ OnMission /\ waiting = "yolo"
                      \/ fsm_state = "LAND"

\* With a route of at least five points the controller carries out the delivery plan:
\* the configured goals in order, payloads only where if_do_put selects them, the
\* landing after the last goal and no goal after that (fsm.cpp:275-335).
Delivery == INSTANCE DeliveryPlan WITH
    length <- target_point_num, route <- target_points, Plan <- PutPlan, start <- garbage,
    goals <- target_id, goal <- cur_target, plan <- if_do_put,
    loaded <- put_servo_id, delivered <- drops_here > 0, landing <- do_land
FollowsPlan == Delivery!Spec

\* Outside the landing, PUT calls the servo only with a bay that still
\* holds a payload: the test put_servo_id >= 1 of HOLD stays true until then.
BayLoaded ==
    OnMission /\ mission_action = "PUT" /\ ~do_land => put_servo_id \in 1 .. 3

\* Outside the landing, a waypoint gets at most one payload, and only if
\* if_do_put selects it: have_just_put must survive from RISE to the next goal.
DropsAsPlanned ==
    ~do_land => /\ drops_here <= 1
                /\ drops_here > 0 => /\ target_id \in 1 .. 4
                                     /\ if_do_put[target_id - 1]

\* The bay opens at put_height: the setpoint's height cannot be left over
\* from the search or the climb when PUT runs.
PutAtPutHeight ==
    OnMission /\ mission_action = "PUT" => mission_pose.z = put_height

\* While the mission timer runs its setpoint is at most two climbs of 0.30 m above
\* one of the heights a search may start from, whatever the order of lost and
\* found targets and of earlier missions.
ClimbBounded ==
    mission_timer =>
        \E h \in {detect_height, adjust_height, put_height, hold_height, 60} :
            mission_pose.z <= h + 60

\* The vehicle is put in LAND, and the autopilot switched to AUTO.LAND, only
\* by the landing mission, which starts after the last configured goal.
LandingAtRouteEnd ==
    /\ do_land => target_id = target_point_num
    /\ fsm_state = "LAND" \/ fcu.mode = "AUTO.LAND" => do_land

\* HOLD starts a mission two seconds after a goal, wherever the vehicle is.
\* What makes that safe is TRACKING: a vehicle that set out for its goal starts
\* no mission, and does not land, before odometry put it within 0.5 m of it.
MissionAtWaypoint == OnMission \/ fsm_state = "LAND" => leg # "tracked"

\* The node is suspended only inside YOLO_INIT and PUT.
Suspended ==
    /\ waiting = "yolo" => OnMission /\ mission_action = "YOLO_INIT"
    /\ waiting = "servo" => OnMission /\ mission_action = "PUT"

\* What LandingAtRouteEnd needs: only a landing mission reaches DROP_LAND,
\* and a landing mission is one for which the route had five points or more.
LandingOrder ==
    /\ do_land => target_id > 4
    /\ OnMission /\ mission_action = "DROP_LAND" => do_land

\* What BayLoaded and DropsAsPlanned need: a delivery keeps the conditions
\* HOLD tested until the bay opens, and afterwards RISE and have_just_put
\* stand between the release and a second mission at the same waypoint.
DeliveryOrder ==
    ~do_land =>
      /\ OnMission => target_id \in 1 .. 4 /\ if_do_put[target_id - 1]
      /\ OnMission /\ mission_action # "RISE" =>
            put_servo_id >= 1 /\ drops_here = 0
      /\ drops_here > 0 => have_just_put \/ OnMission

\* What ClimbBounded needs: nn counts at least the climbs of this search.
ClimbSoFar ==
    OnMission /\ (mission_action = "ADJUST" \/ waiting = "yolo") =>
        \E h \in {detect_height, adjust_height} : mission_pose.z <= h + 30 * nn

\* What MissionAtWaypoint needs: until odometry is near the goal the flight to
\* it has not arrived, and a vehicle that set out stays in TRACKING until then.
FlightToGoal ==
    target_id > 0 =>
      /\ leg # "arrived" => ~AtGoal
      /\ leg = "tracked" => fsm_state = "TRACKING"

\* The goal published last is the entry before target_id.
GoalFollowsIndex == target_id > 0 => cur_target = Point(target_id - 1)

IInv == /\ OneSetpointSource /\ Suspended
        /\ LandingAtRouteEnd /\ LandingOrder
        /\ DropsAsPlanned /\ DeliveryOrder
        /\ PutAtPutHeight /\ ClimbBounded /\ ClimbSoFar
        /\ GoalFollowsIndex /\ FlightToGoal
=============================================================================
