# A verification project for the RoboCup 2024 drone

TLA+ modules that model the control software of this repository, TLC
configurations that check them on small instances, and theorems about them that
TLAPS proves for every value of the constants. File names below are relative to
`src/`; a name like `fsm.cpp:288` gives a line.

## 1. The system and its parts

The drone flies a configured route, looks for a marker at some of the points,
lowers itself over it, drops one of three payloads, and lands at the end. One
computer runs these ROS nodes:

| Part | Source | State it keeps | Operations | Modelled in |
|---|---|---|---|---|
| Mission controller | `controller/controller/src/fsm.cpp` | flight state, mission action, route index, setpoints, counters of the search, payload bay | 10 ms loop callback, 4 subscriptions, mission timer, 2 service clients | `MissionFSM`, `MissionFlight`, `DeliveryPlan` |
| Servo server | `servo_server/src/servo_server.cpp`, `gpio.cpp` | uninitialised pulse counter, direction and level of the GPIO pins | `doReq` | `DropService` |
| Planner state machine | `planner/planner/plan_manage/src/ego_replan_fsm.cpp` | planner state, goal, trajectory, emergency flags | 10 ms state timer, 50 ms safety timer, goal, odometry and swarm callbacks | `EgoReplanFSM`, `GoalProtocol` |
| Trajectory server | `plan_manage/src/traj_server.cpp` | last trajectory and its start | topic callback, 10 ms command timer | `TrajServer`, `EgoPlanning` |
| Lidar-inertial odometry | `odometry/FAST_LIO/src/laserMapping.cpp`, `IMU_Processing.hpp` | three buffers, the current package, filter, map | lidar and IMU callbacks, main loop | `LidarSync`, `LaserMapping` |
| Livox driver, point queue | `livox_ros_driver2/src/lds.cpp`, `comm/ldq.cpp`, `comm/semaphore.cpp`, `lddc.cpp`, `driver_node.cpp` | ring buffers, semaphore, exit flag | storing thread, polling thread, destructor | `PointQueue`, `PacketQueue` |
| Livox driver, device configuration | `livox_ros_driver2/src/lds_lidar.cpp`, `call_back/`, `comm/cache_index.cpp` | table of handles, pending configuration bits, connection states | asynchronous SDK callbacks | `LidarConfig` |
| Livox driver, packet assembly | `livox_ros_driver2/src/comm/pub_handler.cpp` | raw packets, points of the frame being filled | one thread between the SDK and the ring buffers | no (section 9) |
| Detector | `yolo_server/src/YoloServer.cpp` | last image, targets dropped | one service | arbitrary answers in `MissionFSM` |
| Optimiser, grid map, A* | `planner_manager.cpp`, `bspline_opt/`, `plan_env/`, `path_searching/` | trajectory, occupancy | called by the planner | success or failure, occupied or free |
| ikd-Tree | `FAST_LIO/include/ikd-Tree/ikd_Tree.cpp` | tree, operation log, four mutexes and a counter of searches | called by the odometry and its parallel search loop; rebuild thread | `IkdTree` |
| Swarm bridge, drone detection, pose relay, image publisher, utilities | see `PROJECT.json` | little or none | forwarding | no (reasons in section 9) |

How they meet:

- the controller sends goals (`/move_base_simple/goal`) to the planner after it
  heard `/ego_state`; the planner publishes trajectories (`planning/bspline`) to
  the trajectory server, which publishes position commands
  (`planning/pos_cmd`) that put the controller in TRACKING;
- the controller publishes setpoints to the autopilot from two places, its loop
  and its mission timer, and calls the detector and the servo server, which
  block it;
- the driver publishes point clouds, the odometry node matches them and
  publishes the pose every other node reads.

What is hard here: callbacks that run between two ticks and change what the
tick had decided; a goal callback that spins inside itself; calls that fail or
whose answer is lost; counters that are reset in some branches only; flags that
are set once; queues and tables read without a lock; a map that is rebuilt while it is
changed and searched; answers that come late, twice or not at all; clocks that jump.
The list, with the line of each, is `hazards` in `PROJECT.json`.

What makes each part correct:

- controller: one source of setpoints at a time; the bay opens at the planned
  waypoints, at the planned height, once, and only while it is loaded; landing
  at the end of the route and nowhere else; a delivery ends;
- servo server: a payload is counted as dropped on the answer to its own request, which
  sent all its pulses, and none is moved before its turn;
- planner: the trajectory flown is the one checked for collisions and leads to the
  goal accepted last; an emergency stops the drone and ends; a goal is flown;
- odometry: a scan keeps its own time, and the filter is propagated over every
  instant exactly once;
- ikd-Tree: a rebuild loses no point, no search of the parallel loop meets the copying,
  nobody who announced itself reads a freed subtree, and neither a rebuild nor the end of
  the thread is held off for ever;
- device configuration: a lidar's points are published only after it took every
  setting, and they are published in the end; one lidar, one entry;
- point queue: no packet is torn, lost, repeated or forgotten; the driver ends.

## 2. Modules

Each module names the code's identifiers where TLA+ allows it. `PROJECT.json`
(`map`) gives the lines behind every definition. Definitions marked *variant* or
*faulty variant* are plausible mistakes in the code; each property is checked
to fail under one of them.

### MissionFSM (fsm.cpp)

One action per branch of the loop callback (`InitTick`, `TakingOffTick`,
`HoldWait`, `pubNewTarget`, `StartMission`, `YoloInit`, `AdjustDetected`,
`AdjustLost`, `DropTick`, `PutSkip`, `PutWaitTick`, `RiseTick`, `DropLandDetected`,
`DropLandLost`, `TrackingTick`, `LandTick`), one per subscription, and
`YoloReady` and `ServoCall` for the return from the blocking service calls: the
variable `waiting` says that the node's only thread is suspended. Odometry,
planner commands, detector and servo answers are arbitrary.

- Heights are centimetres; a horizontal position is a cell, and cells are more
  than 0.5 m apart, so that `checkPOS` compares cells and heights.
- Times are ages that saturate at the largest value compared with them, and so
  do `overtime_t` and `detect_overtime`.
- `have_odom_`, `odom_pos_`, `if_do_put` are chosen freely in `Init`, as the
  constructor leaves them unset; a goal past the end of the route is `garbage`.
- `leg` and `drops_here` are history variables: whether the vehicle set out for,
  and reached, the goal published last, and how many payloads fell since then.

### DeliveryPlan

The abstract specification of the mission, in what a planner of delivery flights
thinks of: goals set out for, payloads delivered, the landing. `MissionFSM`
implements it (`FollowsPlan`) under a mapping from its indices, flags and counters:
`goals` is what `target_id`, the first take-off and the landing branch amount to,
`loaded` counts the bay, `delivered` is `drops_here > 0`.

### MissionFlight

`MissionFSM` with a vehicle that follows setpoints, a planner that answers each
goal with commands that end at it, and a detector that stays free. Used for
liveness.

### DropService (servo_server.cpp, gpio.cpp, PUT of fsm.cpp)

`doReq` as the sequence of its GPIO accesses, and the controller's retry. An access
fails in one of two ways: a file that does not open makes the request answer false
(`GpioFails`); a `write` that fails, whose result `gpio.cpp` ignores, changes nothing on
the pin and the request goes on. A call may be lost for the client while the server
still works on it. The kernel drives a pin low when its direction is set, and a pin that
is no `output` refuses a level. `moved`, `touched`, `pulsed` record what reached the
servos, `unheard` the writes of the request that changed nothing, `stuck` the pins on
which the write that should set OFF was one of them.

### GoalProtocol, EgoReplanFSM, TrajServer, EgoPlanning

`EgoReplanFSM` has one action per state of `execFSMCallback`, the safety timer,
and the callbacks. The goal callback of a state other than WAIT_TARGET and
EXEC_TRAJ spins inside itself until EXEC_TRAJ (`ego_replan_fsm.cpp:191`):
`nested` counts the suspended callbacks, whose tail is `SpinReturns`. Planning
succeeds or fails; a success yields a trajectory to `end_pt` whose end is the
goal or not yet. While `near` the start of the plan lies within 0.2 m of the local target,
and planning always fails (`planner_manager.cpp:59-64`). Ages are counted in units of
`replan_thresh_`.

`TrajServer` keeps the trajectory read last and, at each run of its timer, takes
a command from it unless it has ended. `EgoPlanning` composes both over the
bounded topic `planning/bspline`, which drops its oldest message when full.

`GoalProtocol` is the abstract specification: starting, idle, planning, flying;
only a goal leaves idle, and only a trajectory that ended returns there. The
planner implements it under `phase <- goal_phase, goal <- end_pt`.

### LidarSync, LaserMapping

`LidarSync` is the two callbacks and `sync_packages`, split where it returns:
`WaitForImu` (false, with `lidar_pushed`) and `Package` (true). A scan is its
stamp and the offset of its last point; an IMU sample is its stamp. The mean
scan time is computed in whole units. `LaserMapping` adds the main loop:
`ImuProcess::Process` (no sample, initialisation, undistortion), the time the
filter is propagated over, and which cloud is published under which time.

### IkdTree (ikd_Tree.cpp)

`multi_thread_rebuild` lock by lock: one action per acquisition, release and access
between them. What is rebuilt is one subtree below one father or, when `whole`, the tree
itself. The mapping thread's operations walk to the father, look at `Rebuild_Ptr`
without a lock, and change the subtree either at once or
under `working_flag_mutex` and into the logger. The search threads of the
parallel loop enter the subtree either freely or counted by `search_mutex_counter`,
which is -1 while the rebuild thread locks them out. The range search of `Add_Points`
takes `search_flag_mutex` for a son that is being rebuilt, and nothing for the whole tree.

The unlocked tests (lines 501, 513, 1014, 1103, 1268) read `Rebuild_Ptr`, what it points
to, and the father's pointer, one after the other. They are two steps here: the first
keeps the number of the subtree it sees (`map_gen`, `search_gen`), the second decides
(`MayFindChosen`, `MayFindOther`); if the subtree was replaced in between, the
comparison may come out either way and the old or the new pointer be followed.

A tree is the number of live
points of each kind, so that an operation lost, repeated or out of order shows; `gen`
numbers the subtrees, so that a reader of an old one shows; `clean` remembers whether
a rebuild started with an empty logger and with no unlocked change under way. A lazy
deletion of the father (`pend`) pushes itself down later, as the code's
`need_push_down` flags do, or is forgotten when the replacement recomputes the father.

### LidarConfig (cache_index.cpp, livox_lidar_callback.cpp)

The table `map_index_`/`index_cache_` with its two separately locked blocks and its
look-up outside the lock, the callback of a lidar's appearance, which under
`config_mutex_` sets a bit and sends a request for each configured setting, and the
callbacks of the answers, which clear the bit, send the request again after a
time-out, or only report another error. An entry that was not filled from
the configuration file is zero-initialised, and so asks for every setting with 0.
`applied` and `given_up` are history variables.

### PacketQueue, PointQueue

`PacketQueue` is what the rings promise: for each lidar a first-in-first-out queue of
bounded capacity, with the atomic operations `Put` and `Take`. `PointQueue` implements it
(`ImplementsQueue`) with the packets between `rd_idx` and `wr_idx` as the queue and
`pushed` as the number of the next packet: `PushIndex` is `Put`, `QueuePopUpdate` is
`Take`, and everything else, filling and reading the slots included, shows in no queue.

The storing thread (`Lds::PushLidarData`), the polling thread
(`PointCloudDataPollThread` down to `QueuePopUpdate`) and the destructor, one
action per access to shared memory. Indices wrap at `IndexMod` (2^32 in the
code), slots are selected with the mask. A slot being written is `Torn`.
Memory is sequentially consistent. `pushed` and `popped` number the packets.

### Proof modules

`MissionFSM_proofs`, `EgoReplanFSM_proofs`, `EgoPlanning_proofs`,
`LidarSync_proofs`, `DropService_proofs`, `IkdTree_proofs`,
`LidarConfig_proofs`, `PointQueue_proofs`: section 6.

## 3. Runs

| Run | Question | Distinct states | Result |
|---|---|---|---|
| `mission_route` | safety of the controller under an arbitrary environment; `DeliveryPlan` refined | 3.4 M | holds |
| `flight_delivery` | do deliveries and the flight end? | 0.11 M | hold |
| `servo_retry` | payloads under failing GPIO, noticed or not, and lost calls | 24 k | hold |
| `servo_garbage` | the same with an arbitrary initial counter | | **violated** |
| `ego_drone` | planner and trajectory server as the drone runs them: safety, liveness, `GoalProtocol` refined | 84 k | hold |
| `ego_swarm` | the planner as drone 1 of a swarm, goals at any time | 2.1 M | hold |
| `ego_emergency` | is every emergency answered by a stop? | | **violated** |
| `lio_drone` | scans, samples, propagation, published odometry | 2.8 M | hold |
| `lio_loop_back` | the same when the lidar's clock is set back | | **violated** |
| `ikd_rebuild` | a rebuild against operations, searches and the destructor | 0.75 M | hold |
| `lidar_config` | three lidars compete for two entries, answers in any order | 65 k | hold |
| `queue_ring` | packets, wake-ups and the end of the point queue; `PacketQueue` refined | 0.3 M | hold |

The longest run takes about two minutes.

### What the passing runs show

*Controller* (`mission_route`). `OneSetpointSource`: the mission timer runs
exactly in the states in which the loop publishes nothing. `FollowsPlan`: every
step of the controller is a step of `DeliveryPlan` or leaves it alone: no goal is
skipped, repeated or made up, no waypoint gets two payloads or one the plan does not
name, and no goal follows the landing. `BayLoaded`: before the landing, PUT has a
loaded bay. `PutAtPutHeight`, `ClimbBounded`: the setpoint that five actions write
has the right height when the bay opens, and the climbs of searches, also interrupted
ones, leave it at most 0.60 m above a height a search starts from. `LandingAtRouteEnd`: the autopilot is put in
AUTO.LAND only by the landing mission after the last goal.
`MissionAtWaypoint`: a vehicle that set out for its goal starts no mission before
odometry put it there, although HOLD itself only waits two seconds.

*Flight* (`flight_delivery`). `DeliveryTerminates`: whatever sequence of found and
lost targets the detector reports, a delivery returns to HOLD. `RouteCompletes`: if
the target stays in view from some time on, the flight ends in AUTO.LAND, or in PUT
with no bay left (section 8); there is no third end.

*Servo* (`servo_retry`). `NotBeforeTurn`: payloads 3, 2, 1 are moved in this order, also
with requests left over from lost calls. `CountedByItsRequest`: each is counted on the
answer to its own request, after all its pulses, but for one for each write that failed
unnoticed; that a payload counted was moved can so not be had (section 8).
`OnOutOfTurn`: out of the turn of its payload a pin is on only where the write of OFF
itself failed unnoticed. `AllDropped`: retries finish the job once faults stop.

*Planner* (`ego_*`). `TrajectoryBeforeUse`, `PlanServesGoal`, `TargetWhilePlanning`:
no state evaluates a trajectory that does not exist, and what EXEC_TRAJ flies leads
to the goal accepted last. `StopOncePerPlan`: an emergency sends at most one stop.
`LoopCanReturn`, `GoalReturns`: with the `/ego_state` handshake a suspended goal
callback waits in a state that leads to EXEC_TRAJ, and all suspended ones return once
no new one comes on top of them, unless the goal stays next to the drone.
`ServerFollowsPlanner`: once its topic is read, the trajectory server follows the
very trajectory the safety timer checks, also when the queue drops messages.
`EmergencyEnds`, `GoalFlown`: emergencies end, and an accepted goal is replaced or
position commands towards it are published, with the same exception. `ImplementsProtocol`: the refinement.

*Odometry* (`lio_drone`). `QueuesAligned`: scans and stamps stay paired across
`lidar_pushed`. `PropagationExact`, `FirstPropagation`: the filter is propagated from
the end of the last scan to the end of this one, with samples missing or at the
boundary, and the uninitialised `last_lidar_end_time_` does no harm at the first call.
`OdometryFresh`: odometry carries the cloud and the end of the package at hand.

*ikd-Tree* (`ikd_rebuild`). `SearchLockedOut`: while the rebuild thread flattens the
subtree, and up to its replacement, no search of the parallel loop is in it, counted or
not, although the searches decide by unlocked reads whether to count themselves; and none
is counted until the search is unlocked again. `DiscardedUnread`: when the old nodes are
deleted, no counted search and no range search that holds `search_flag_mutex` is in
them. Readers that did neither may be: section 8.
`RebuildKeepsPoints`: the subtree put in place has the points of the one it replaces,
with operations before, during and after the copy, under the three conditions that the
code needs (a copy that is not empty, a logger that was, no unlocked change under way at
the start; section 8). `RebuildCompletes`, `StopCompletes`: parallel loops without end do
not hold the rebuild thread off, nor do operations that pause, and the destructor's join
returns; deadlock is checked.

*Device configuration* (`lidar_config`). `SamplingMeansConfigured`: no answer
between two bits, no report of the same lidar again and no answer to an older
request makes a lidar sample early. `NoForgottenBit`: a bit that is set stands for a
request under way. `EntriesDistinct`: the check and the act under two locks give no
index twice. `ConfigCompletes`: a configured lidar gets sampling, unless it refused a
setting or a look-up raced with an insertion.

*Point queue* (`queue_ring`). `ImplementsQueue`: between `rd_idx` and `wr_idx` the
packets are whole and in order, over index overflow, and every step is one of a bounded
first-in-first-out queue or shows in none. `NoLostWakeup`,
`PacketsPublished`: the unlocked `GetCount() <= 0` loses no wake-up, the count stays at
most 1, and the last packet is published though none follows. `ExitCompletes`: the destructor's join returns
if packets keep coming.

### What the violated runs show

- `servo_garbage`, `DroppedMeansMoved` (`servo_server.cpp:10`): `int i` is not
  initialised. If it starts at 100 or above the loop does nothing, the request
  answers true, and the controller counts a payload that still hangs there.
- `ego_emergency`, `EmergencyIsStopped` (`ego_replan_fsm.cpp:619`):
  `flag_escape_emergency_` is cleared by every EMERGENCY_STOP tick and set only by a
  success of GEN_NEW_TRAJ. After a recovery through the safety check the next
  emergency sends no stop trajectory.
- `lio_loop_back`, `ScanKeepsItsTime` (`laserMapping.cpp:309`): a lidar stamp that runs
  back empties `lidar_buffer` but not `time_buffer`; from then on scans carry the
  stamps of others.

## 4. Bounds, and why they are enough

- `mission_route`: six points, as the branches of HOLD distinguish point 1, points
  1 to 4 and those past 4, the last one among them. Limits of the counters are 1 to 2
  instead of 60 to 800: each comparison is passed in both directions, and `OvertimeTop`,
  `DetectTop` exceed every limit. Three odometry positions: away, at a goal, low over
  it. Two payload plans (all, only the second point), with and without `do_put_`.
- `flight_delivery`: five points, one of them selected; the vehicle leaves
  a cell through `transit`.
- `servo_retry`: three pulses (first, middle, last) and four faults of any kind (files,
  writes, calls), more than one per payload; `servo_garbage`: a counter at 0 or at the limit.
- `ego_drone`: two goals, two suspended callbacks (`MaxNested`), a topic of one message,
  which so drops the older one at every overrun, trajectories of two units (before and
  after `replan_thresh_`). No depth images come (`DepthFusion` FALSE), as
  `single_run_in_exp_type1.launch` gives the grid map an unused depth topic; in
  `ego_swarm` they come and may fail. There the goals may be permuted (`MCEgoPlanning`):
  they are only compared there, and no liveness is checked.
- `lio_drone`: stamps to 14, scans three units apart with last points at 0 (an empty
  scan), 1 (shorter than half of the mean) and 3; two scans and two samples waiting;
  up to three units between samples, so that a whole scan may pass without one; the IMU's
  clock may be set back. Four packages fit: first scan, initialisation, map, match.
- `ikd_rebuild`: two kinds of points and a box over one of them or over all, two search
  threads (one leaves while the other stays), three operations of the mapping thread
  (`MaxOps`: one starts a rebuild, one is logged, one follows or starts the next),
  each of up to two changes, on a subtree or on the whole tree. The number of parallel
  loops has no bound.
- `lidar_config`: a lidar of the configuration file with two settings, as
  `config/MID360_config.json` has them, and two others with all four, of which the
  table of two entries has room for one; up to two reports of a lidar (`MaxInfo`), so
  that answers to the first come after the second.
- `queue_ring`: two lidars, rings of two slots, indices modulo 4: full and empty rings
  and overflow.

Deadlock is not checked where the system may rest: a planner without goals, buffers at
the stamp bound, a driver that has ended, lidars whose reports
are used up, all payloads dropped.

## 5. Fairness and assumptions

- `MissionFlight`: the loop timer re-arms itself and `ros::spin` serves every queue, so
  loop, subscriptions and time are fair; a service comes up; the vehicle reaches a
  setpoint that stays; a servo call with a valid number, retried for ever, succeeds.
  Nothing is assumed of the detector for `DeliveryTerminates`. `RouteCompletes` assumes
  `DetectorRecovers` and that AUTO.LAND is not refused for ever.
- `EgoPlanning` (`FairSpec`): timers and subscriptions run; the optimiser, each of whose
  trials begins with another random path, succeeds in the end if it is asked again and
  again with a start that is not near the local target; the vehicle slows down in
  EMERGENCY_STOP. Near the local target it never succeeds: `GoalReturns` and `GoalFlown`
  assume `NeverStaysNear`, that no goal stays within 0.2 m of the point to plan from.
  `ServerPrompt`: reading a topic and a 10 ms timer take less than a unit of
  `replan_thresh_`. The properties assume `CalmAtLast`: obstacles stop appearing.
  `GoalReturns` also assumes `GoalsPause`: a goal callback is resumed only after those
  that ran inside it, so goals without end would keep it suspended.
  In all runs no time passes while a suspended callback is about to see EXEC_TRAJ, and no
  trajectory is shorter than 0.75 s.
- `DropService`: server and controller run; faults are finitely many.
- `IkdTree`: each of the threads that can go on is scheduled (`WF` of each); what the
  mapping thread starts, and whether the tree is destroyed, is its own choice. Parallel
  loops may follow each other for ever, each with counted searches, so that weak fairness
  would let the rebuild thread miss every moment in which the counter is 0. It polls the
  counter every microsecond (lines 260-266, 307-313), and between two loops the mapping
  thread works on the filter for milliseconds: hence `SF` of the two `LockSearch` steps. The
  operations are finitely many (`MaxOps`): the replay ends only when it finds the logger
  empty, which needs the pauses between scans.
- `LidarConfig`: the SDK's callback threads run, and a lidar that is asked again and again
  confirms or refuses in the end. Time-outs are unbounded before that. The SDK
  reports one lidar once at a time; reports of different lidars may overlap.
- `PointQueue`: threads run; a packet begun is stored. `CatchesUp`: publishing is
  faster than a lidar, as the inner loop leaves only when the ring is empty.

## 6. Proofs

All theorems hold for every value of the constants that satisfies the named
assumptions (`MissionAssumption`, `PlannerAssumption`, `SyncAssumption`,
`DropAssumption`, `BoxesAssumption`, `SearchersAssumption`, `ConfigAssumption`,
`QueueAssumption`, `MappingAssumption`, `FlightAssumption`), which state types and little
else. A condition on the launch configuration (a route of five points, the handshake, a
lidar clock that is not set back) is a hypothesis of the theorem that needs it.

**Mission controller.** `IInv` is inductive together with `TypeOK`. The safety
properties are not inductive by themselves; what is added, and why:
`Suspended` (the node is suspended only in YOLO_INIT and PUT, needed for
`OneSetpointSource`); `LandingOrder` (DROP_LAND belongs to a landing mission, which has
`target_id > 4`); `DeliveryOrder` (a delivery keeps the conditions HOLD tested until the
bay opens, then RISE and `have_just_put` stand between the release and a second
mission: what `BayLoaded` and `DropsAsPlanned` rest on, the latter being what a
payload released means for the plan); `ClimbSoFar` (`nn` counts at
least the climbs of this search); `GoalFollowsIndex`; `FlightToGoal` (until odometry is
near the goal the flight has not arrived, and TRACKING is left at the goal only). One
lemma per part splits the step by the actions that write its variables. The lemmas
are about `AnyNext`, in which odometry and commands may be any position and not only
those of `Odometry` and `Command`, so that they hold for the controller alone (`NextIsAny`)
and for the closed flight (`FlightIsAny`: the setpoints of the controller are positions).
Proved: `TypeCorrect`, `SafetyInvariant`, `OneSetpointSourceCorrect`, `BayLoadedCorrect`,
`HeightsCorrect`, `PutAtPutHeightCorrect`, `LandingAtRouteEndCorrect`, `MissionAtWaypointCorrect`, and, for
routes of five points and more, `FollowsPlanCorrect`: `PlanWriter` finds the actions
that write a variable of the mapping, `PlanStep` shows each to be a step of the plan. For
`MissionFlight`, whose runs check liveness only, `FlightInvariant`, `FlightSafety` and
`FlightFollowsPlan` give the same of the vehicle in transit and the planner.

**Planner.** `PlannerInvariant` proves `IInv` of `EgoReplanFSM`; the part to find was
`Phases`: a flight ends, in WAIT_TARGET, with its trajectory, and the loop returns to a
new one. From it follow `TrajectoryBeforeUseCorrect`, `TargetWhilePlanningCorrect`,
`PlanServesGoalCorrect`, `StopOncePerPlanCorrect`, `LoopCanReturnCorrect`, and, with
`Handshake`, `PlannerImplementsProtocol`: every step of the planner is a step of
`GoalProtocol` or leaves its variables alone. `ServerFollowsPlannerCorrect` is about the
composition: every step that replaces the planner's trajectory appends it to the
topic, and the last message survives any queue size. `PlanningSafety` and
`PlanningImplementsProtocol` carry the results over to the composition that `ego_drone`
runs, with its fairness and without: the server writes nothing the planner's invariant
or the mapping reads, except that it shortens the topic.

**Odometry.** `QueuesAlignedCorrect` and `MappingQueuesAligned`: under
`~LidarLoopBack` the queues stay aligned. The assumption is needed: `lio_loop_back`.
`PropagationExactCorrect` and `FirstPropagationCorrect` leave both clocks free. They
rest on `ClocksCorrect`: the samples in `imu_buffer` increase (a clock set back empties
it, `ImuInOrder`), so those of a package do and none is after the package's end
(`PackageSamples`); and once the filter was propagated its last sample is not after the
last end (`FilterClock`). The time a package adds is a sum over its samples. A sum is
characterised by its partial sums (`IsSum`), and where a formula about them has to be
carried from sample to sample, `SetInduction` does it: a set of numbers without a least
element is empty, which is first-order and needs no induction principle over operators.
With it `SumBetween` telescopes the sum: the samples before the former end count nothing,
the one that crosses it counts from the former end on, the rest counts in full.
`OdometryFreshCorrect` rests on `InTime` and `OdomInOrder`: the mean scan time is at
most a period (`MeanBounded`, by quotients), scans that wait are a period apart, and so
the end of a package, taken from its points or from the mean, is not after the next
scan; a package with points ends after it begins, and only those are published once
there is a map.

**Servo.** `NotBeforeTurnCorrect` without condition, and `OnOutOfTurnCorrect` by
`OneTurn`: requests are answered in the order in which they were sent, so that none
outlives the turn of its payload; `CountedByItsRequestCorrect` if the
counter never starts above 0: the pulses made and the writes unheard add up to the
turns of the loop. This assumption is needed as well: `servo_garbage`.

**ikd-Tree.** `Protocol` is inductive: the counter is -1 exactly while the rebuild
thread locks the searches out and else is the number of counted ones
(`CounterCounts`, by cardinalities of a finite set of any size); only the mapping thread
chooses a subtree, and not while searches run (`Chosen`), so that until the replacement
whoever is between the two steps of a test has seen the chosen subtree, and the test
comes out right (`Fresh`, which `SearchLockedOut` needs and which fails from the
replacement on); a range search that holds its mutex is in the subtree in place or keeps
the rebuild thread in `UnlockSearch` (`RangeSearch`). It gives `LockOutSafety` and
`DiscardSafety`. `RebuildSafety` rests on `Replay`, of which `Announced` says that a
clean rebuild meets no change made without the lock: what the copy becomes by the
operation in hand and those in the logger is the subtree now in place. "Becomes by"
would be a fold over the logger, an induction at every use; `CatchesUp`
says instead that a sequence of trees exists that starts with the copy, ends
with the subtree, and follows the logger one by one. Appending and taking off an
operation are then steps on that witness (`CatchesUpAppend`, `CatchesUpTail`).

**Device configuration.** `ConfigInv` is inductive: `TableInv` (entries and cache agree,
but for the index being inserted), `LockInv` (who is between lock and unlock) and
`SettingInv`, whose part `AllAsked` says that a setting of a reported lidar is still to
be asked for, pending, or confirmed. Proved: `SamplingSafety`, `BitSafety`,
`TableSafety`, for any number of lidars, entries, reports and time-outs.

**Point queue.** `QueueRefinement`: the rings implement `PacketQueue`. `RingSafety`, that
what lies between the indices are the packets taken and not given out, rests on `Rings`:
for each lidar, the slot being written is
not among those from `rd_idx` to `wr_idx`, holds the packet before the index moves, and
a packet being read is there. As the indices wrap, the argument is about remainders:
`QueueUsedSize` is the distance on a circle of `IndexMod`, moved by one with either
index (`DistanceStep`), and slots less than a ring apart differ (`Apart`); that the size
of the ring divides `IndexMod` is what `ModMod` needs. With `Rings`, what a ring holds is
`used` consecutive numbers from `popped` on (`PacketsAre`); a number more at the end is
`Append` (`NumbersAppend`, `PushIsPut`), one less at the head is `Tail` (`NumbersTail`,
`PopIsTake`), and writing a slot is outside (`WriteIsHidden`). `WakeupSafety` rests on
`AllNoticed`: a packet of a lidar that stored one while sampling is signalled, or the
storing thread has still to decide on it, or the polling thread's round has it ahead,
or the driver exits; and on `CountIsBit`: only the storing thread raises the count, so
the one it read without the mutex can since only have fallen.

**Only model-checked.** Liveness and everything under fairness
(`DeliveryTerminates`, `RouteCompletes`, `GoalReturns`, `EmergencyEnds`, `GoalFlown`,
`AllDropped`, `RebuildCompletes`, `StopCompletes`, `ConfigCompletes`,
`PacketsPublished`, `ExitCompletes`), which is out of the prover's reach. Every
invariant, action property and refinement that a passing run checks is proved.

## 7. Simplifications

- Data: positions, images, clouds, trajectories and control gains are abstracted to
  what the control branches on. Setpoint velocities and yaw are left out.
- Planner: goals given one at a time (`flight_type` 1, as the launch files of the
  competition set it). The preset waypoints, the publishing of swarm trajectories,
  `target_exist` and visualisation are left out. Commands before a trajectory's start
  time are not modelled.
- Odometry: the configuration of `config/mid360.yaml` (`time_sync_en` false, Livox
  lidar). The filter is only its propagated time.
- ikd-Tree: one subtree, or the whole tree, whose nodes, geometry and rebuild in place
  are left out, as are `Delete_Points`, `Add_Point_Boxes` and `Search_by_radius`, which
  nothing calls, and `acquire_removed_points` (`laserMapping.cpp:224`, `272`), which hands out the
  points deleted under a mutex of their own and changes no node. The balance criterion
  is a free choice. An operation acts on the subtree it finds in place as one step; what
  an unlocked change does to nodes that are copied or freed under it is not followed.
- Servo: a `write` that sets fewer bytes than asked for counts as one that fails.
- Device configuration: the work mode, the installation attitude and the IMU switch,
  which change nothing in the driver, and requests that cannot be sent. A file with more
  lidars than entries, whose last ones the code skips with a message
  (`lds_lidar.cpp:151-154`), is excluded by `ConfigAssumption`. `given_up` also takes in
  every lidar that is not in the file, at its first report. The lidar of a
  recorded file (`lds.cpp:142`), which samples at its first packet, is left out.
- Point queue: the IMU list (under a mutex), the thread that polls it, which the
  destructor joins as well (`driver_node.cpp:38`), and the start-up delay of the polling
  thread are left out. Weak memory orders are not modelled: the code has neither fences nor
  atomics, so on a weakly ordered processor more behaviours exist.
- Counters of years (`int` overflow of `overtime_t`) saturate.

## 8. Observations without a run

Found while modelling; each follows from the lines named.

- `fsm.cpp:275` accepts routes of one to four points, which line 288 overruns: goals are
  taken from entries never set and the landing branch is not reached
  (`FollowsPlan` is checked and proved for five points and more). `fsm_run.launch` has two points.
- `fsm.cpp:290`: a planner that needs more than two seconds lets the delivery happen
  where the vehicle hovers; `MissionAtWaypoint` holds for vehicles that set out.
- `fsm.cpp:453`: giving up in ADJUST leads to DROP also in the landing mission, which
  then opens a bay at the landing point; with no bay left it asks for servo 0 for ever
  (`fsm.cpp:564`).
- `fsm.cpp:580`: a landing mission that loses its target after ADJUST hovers until it
  is seen again.
- `fsm.cpp:548`: after a delivery HOLD keeps the mission's setpoint, not the odometry
  pose that the comment at line 262 names; `fsm.cpp:149`: the test for
  "not near the goal" uses the flag of the last tick.
- `gpio.cpp:23`, `77`, `113`: the result of `write` is ignored. A direction or a level
  that is not taken answers true, and so a payload may count as dropped whose servo got
  fewer pulses or none, and a pin may stay on after its turn (`CountedByItsRequest`,
  `OnOutOfTurn` say that nothing worse happens).
- `planner_manager.cpp:59-64`: a plan that starts within 0.2 m of the local target is
  refused every time. While a goal stays that close to the hovering drone it is not flown,
  the planner does not leave GEN_NEW_TRAJ for EXEC_TRAJ, and a goal callback that waits
  for that stays suspended. `GoalFlown` and `GoalReturns` exclude it (`NeverStaysNear`).
- `ego_replan_fsm.cpp:706`: when the depth image is lost, the same call may go on to a
  successful replan and leave EMERGENCY_STOP.
- `traj_server.cpp:198`: the hover command at the end of a trajectory is computed and
  not published; the controller goes on with the last one.
- `IMU_Processing.hpp:342`: a scan without an IMU sample leaves `feats_undistort` as it
  was, and the former cloud is published under the new time.
- `laserMapping.cpp:352`: after the IMU's clock was set back, a package whose samples all
  lie before the end of the last scan propagates the filter twice over the time
  between. `PropagationExact` excludes this case.
- `ikd_Tree.cpp:352`: `rebuild_flag` is cleared after `working_flag_mutex` was given back.
  An operation that waited for the mutex is applied to the new subtree and logged; the
  next rebuild replays it a second time, which the message at line 246 calls an error.
  `RebuildKeepsPoints` excludes this rebuild (`clean`).
- `ikd_Tree.cpp:282`: when the copy is empty the block that waits for the logger is
  skipped, although the comment at line 279 announces it. Operations since the copy are
  lost, line 332 reads through a null `new_root_node`, and line 351 unlocks a mutex the thread
  does not hold. `RebuildKeepsPoints` excludes this case too
  (`working_flag_mutex = "rebuild"`).
- `ikd_Tree.cpp:519`: line 513 tests once for two changes. If the first (518) chooses the whole
  tree for a rebuild, the second is made without `working_flag_mutex` and without the
  logger while the rebuild thread copies, and may be lost. `RebuildKeepsPoints` excludes it
  (`clean`).
- `ikd_Tree.cpp:501`: the range search of the root takes no mutex. When the whole tree is
  rebuilt the old root may be replaced at line 330 and freed at 354 while it is read.
- `ikd_Tree.cpp:1103` (also 1125, 1198, 1221, 1268): the test reads `Rebuild_Ptr`, `*Rebuild_Ptr` and the
  father's pointer without a lock, while lines 318, 330 and 350 write them. A test across
  the replacement may take the subtree for another one: the search enters it without being
  counted, by the old pointer or the new; by the old one it may read nodes that line 354 frees. A build
  that loads `Rebuild_Ptr` twice may also read through null after line 350. Until the
  replacement the test is right (`SearchLockedOut`).
- `ikd_Tree.cpp:1274`: the range search does not look at `search_mutex_counter`. It runs
  while the subtree is flattened or, once it had to wait for the mutex, replaced: what the
  comments at lines 259 and 305 announce holds for the searches of `Search` alone.
- `ikd_Tree.cpp:345`: `Update` computes the father's `tree_deleted` again from its sons
  (line 1472). A deletion that the father was given and has not pushed down is forgotten,
  and the points of the rebuilt subtree stay alive.
- `livox_lidar_callback.cpp:150`: an error other than a time-out is not retried; the
  lidar stays silent until it is reported again. A lidar whose settings are all -1 gets
  no request, and so never samples.
- `livox_lidar_callback.cpp:36`: the second report of a lidar that is not in the
  configuration file finds the entry the first one made, sends settings of 0, and
  the lidar then samples. `connect_state` never leaves `kConnectStateSampling`.
- `cache_index.cpp:82`: `GetIndex` searches the map outside the mutex; while another lidar
  is inserted the look-up is a data race. The model lets it miss.
- A packet stored before its lidar was sampling waits for the next signal.

## 9. Not modelled

The optimiser, the grid map's updates, A*, the filter's algebra, the ikd-Tree's geometry,
the conversion and cutting of Livox packets (`pub_handler.cpp`, whose raw queue is one
list under one mutex) and the detector's network are numerical. The pose relay and the image publisher only
forward. The swarm bridge and drone detection are not used with one drone.
`ego_tracker.cpp` is started by no launch file of the competition. Eigen, rapidjson,
IKFoM and the message packages are third-party or generated. PX4, ROS and the Livox SDK
appear only through what the modelled code uses of them.

## 10. Plan

Done, in this order: `MissionFSM`, `MissionFlight`, `EgoReplanFSM` with `GoalProtocol`,
`TrajServer` and `EgoPlanning`, `LidarSync`, `LaserMapping`, `PointQueue`, `DropService`,
`IkdTree`, `LidarConfig`, `DeliveryPlan`, `PacketQueue`, and the eight proof modules.

What would add most next:

1. The composition of the controller with `EgoPlanning` over goals and commands, in place
   of the planner that `MissionFlight` assumes.
2. The preset-waypoint mode of the planner, whose waypoints advance when EXEC_TRAJ ends.
