---------------------------- MODULE MissionFlight ----------------------------
(***************************************************************************)
(* The mission controller closed with the vehicle it flies: the autopilot  *)
(* follows the setpoint stream of the controller, the planner answers each *)
(* goal with position commands that end at it.  The detector stays free:   *)
(* any call may fail or report any offset.                                 *)
(***************************************************************************)
EXTENDS MissionFSM

CONSTANT transit   \* the cell of a vehicle that is between two waypoints

ASSUME FlightAssumption == transit \in Place \ {home}

\* The last setpoint on mavros/setpoint_raw/local.
Setpoint ==
    CASE fsm_state = "TRACKING" -> target_pos
      [] fsm_state = "HOLD" -> hold_pose
      [] mission_timer -> mission_pose
      [] OTHER -> IF fsm_state = "EXEC_MISSION" THEN hold_pose ELSE TakeoffPose

\* The autopilot follows setpoints once it is armed and in OFFBOARD.
Following == fcu = [mode |-> "OFFBOARD", armed |-> TRUE] /\ fsm_state # "INIT"

Depart == Following /\ odom.at # Setpoint.at
            /\ odomCallback([odom EXCEPT !.at = transit])
Arrive == Following /\ odomCallback(Setpoint)
Report == odomCallback(odom)

\* ego_planner and traj_server, once they have been given a goal.
Plan == target_id > 0 /\ quadmsgCallback(cur_target)

Sense == \/ \E connected \in Link : px4_state_Callback(connected)
         \/ ego_init_Callback \/ Depart \/ Arrive \/ Report \/ Plan

FlightInit == Init /\ ~have_odom
FlightNext == LoopCallback \/ ServiceReply \/ Sense \/ Elapse \/ PilotSwitch

(***************************************************************************)
(* The 10 ms timer re-arms itself at the end of every loop callback and    *)
(* ros::spin serves every queue, so the loop and each subscription are     *)
(* weakly fair.  Time passes, the services come up, and a servo call with  *)
(* a number the server accepts succeeds if it is retried for ever.         *)
(***************************************************************************)
Fairness ==
    /\ WF_vars(LoopCallback) /\ WF_vars(Elapse) /\ WF_vars(PilotSwitch)
    /\ SF_vars(px4_state_Callback(TRUE)) /\ SF_vars(ego_init_Callback)
    /\ SF_vars(Arrive) /\ SF_vars(Report) /\ SF_vars(Plan)
    /\ WF_vars(YoloReady) /\ WF_vars(ServoCall(FALSE)) /\ SF_vars(ServoCall(TRUE))

FlightSpec == FlightInit /\ [][FlightNext]_vars /\ Fairness

\* The target stays in view from some time on, and the autopilot does not
\* refuse AUTO.LAND for ever.
DetectorRecovers == <>[][~AdjustLost /\ ~DropLandLost]_vars
LandAccepted == SF_vars(LandTick /\ fcu'.mode = "AUTO.LAND")
-----------------------------------------------------------------------------
\* A delivery ends whatever the detector does: the failure counter, the
\* climb counter and detect_overtime together leave no way to search for
\* ever, and DROP, PUT and RISE wait only for the vehicle and the servo.
DeliveryTerminates == OnMission /\ ~do_land ~> fsm_state = "HOLD"

\* Where the flight ends once the target stays in view: with the autopilot in
\* AUTO.LAND at the end of the whole route, or in PUT with every bay used,
\* where a landing mission that lost its target before asks for servo 0 again
\* and again.  There is no third end: no goal, search or reply that is lost on
\* the way leaves the vehicle in HOLD, TRACKING or a delivery for ever.
RouteCompletes ==
    DetectorRecovers /\ LandAccepted =>
        \/ <>[](fsm_state = "LAND" /\ fcu.mode = "AUTO.LAND")
        \/ <>[](OnMission /\ mission_action = "PUT" /\ put_servo_id = 0)
=============================================================================
