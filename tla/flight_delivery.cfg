SPECIFICATION FlightSpec
CONSTANTS
  Place = {"home", "field", "court", "transit", "nowhere"}
  Odometry <- MCOdometry
  Command = {}
  PutPlan <- MCPutPlan
  Link = {TRUE}
  home = "home"
  transit = "transit"
  garbage <- MCGarbage
  target_point_num = 5
  target_points <- MCPoints
  do_mission = TRUE
  Release = {TRUE}
  use_sim_ = FALSE
  put_height = 30
  hold_height = 100
  detect_height = 140
  adjust_height = 100
  LossLimit1 = 1
  LossLimit2 = 1
  DetectEnough = 1
  DetectGiveUp = 2
  PubWait = 1
  PutWait = 1
  DropWait = 1
  RequestWait = 0
  Type = {2}
PROPERTIES DeliveryTerminates RouteCompletes
