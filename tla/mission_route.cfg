SPECIFICATION Spec
CONSTANTS
  Place = {"home", "field", "nowhere"}
  Odometry <- MCOdometry
  Command <- MCCommand
  PutPlan <- MCPutPlan
  Link = {TRUE}
  home = "home"
  garbage <- MCGarbage
  target_point_num = 6
  target_points <- MCPoints
  do_mission = TRUE
  Release = {TRUE, FALSE}
  use_sim_ = TRUE
  put_height = 30
  hold_height = 100
  detect_height = 140
  adjust_height = 100
  LossLimit1 = 1
  LossLimit2 = 2
  DetectEnough = 1
  DetectGiveUp = 2
  PubWait = 1
  PutWait = 1
  DropWait = 1
  RequestWait = 0
  Type = {2}
INVARIANTS OneSetpointSource BayLoaded PutAtPutHeight ClimbBounded LandingAtRouteEnd MissionAtWaypoint
PROPERTIES FollowsPlan
