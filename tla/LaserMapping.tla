---------------------------- MODULE LaserMapping ----------------------------
(***************************************************************************)
(* The main loop of the odometry node: what it does with a package of      *)
(* sync_packages (ImuProcess::Process, then the map and the odometry).     *)
(* The Kalman filter is left out but for the time it is propagated over.   *)
(***************************************************************************)
EXTENDS LidarSync

CONSTANTS
    MAX_INI_COUNT,   \* IMU samples the initialisation averages
    Garbage          \* values of the uninitialised last_lidar_end_time_

ASSUME MappingAssumption == MAX_INI_COUNT \in Nat /\ Garbage \subseteq Int

VARIABLES
    flg_first_scan, imu_need_init, init_iter_num,
    last_imu,               \* stamp of the IMU sample used last
    last_lidar_end_time,    \* ... the uninitialised one until undistorted
    undistorted,            \* history: UndistortPcl was called
    propagated,             \* time the filter was propagated over in the last call
    feats_undistort,        \* the cloud, which stays when Process returns early
    has_map,                \* ikdtree.Root_Node is set
    odom                    \* the odometry published last: cloud and stamp

imu_state == <<imu_need_init, init_iter_num, last_imu, last_lidar_end_time,
               undistorted, propagated, feats_undistort>>
vars == <<sync, flg_first_scan, imu_state, has_map, odom>>

Init ==
    /\ SyncInit
    /\ flg_first_scan = TRUE
    /\ imu_need_init = TRUE /\ init_iter_num = 1
    /\ last_imu = 0
    /\ last_lidar_end_time \in Garbage
    /\ undistorted = FALSE /\ propagated = 0
    /\ feats_undistort = NoScan
    /\ has_map = FALSE
    /\ odom = [scan |-> NoScan, stamp |-> -1]
-----------------------------------------------------------------------------
Distance(a, b) == IF a < b THEN b - a ELSE a - b

\* The filter's clock after it was propagated by each dt of a sequence.
SumOf(dt) ==
    LET sum[i \in 0 .. Len(dt)] == IF i = 0 THEN 0 ELSE sum[i - 1] + dt[i]
    IN  sum[Len(dt)]

\* Between sample i and the next of v_imu, from the end of the last scan on.
\* Variant with the line that IMU_Processing.hpp:263 has commented out.
DtFromBegin(v_imu, i, m) ==
    IF v_imu[i + 1] < last_lidar_end_time THEN 0
    ELSE IF v_imu[i] < last_lidar_end_time THEN v_imu[i + 1] - m.beg
    ELSE v_imu[i + 1] - v_imu[i]

\* Variant without the skip of samples before the end of the last scan.
DtNoContinue(v_imu, i, m) ==
    IF v_imu[i] < last_lidar_end_time THEN v_imu[i + 1] - last_lidar_end_time
    ELSE v_imu[i + 1] - v_imu[i]

Dt(v_imu, i, m) ==
    IF v_imu[i + 1] < last_lidar_end_time THEN 0
    ELSE IF v_imu[i] < last_lidar_end_time THEN v_imu[i + 1] - last_lidar_end_time
    ELSE v_imu[i + 1] - v_imu[i]

\* Time the filter is propagated over: from sample to sample, then from the
\* last one to the end of this scan.
Propagation(m) ==
    LET v_imu == <<last_imu>> \o m.imu
    IN  SumOf([i \in 1 .. Len(m.imu) |-> Dt(v_imu, i, m)])
          + Distance(m.end, v_imu[Len(v_imu)])

\* ImuProcess::Process.  A package without IMU samples changes nothing.
NoImu(m) == m.imu = <<>> /\ UNCHANGED imu_state

IMU_init(m) ==
    /\ m.imu # <<>> /\ imu_need_init
    /\ init_iter_num' = init_iter_num + Len(m.imu)
    /\ imu_need_init' = (init_iter_num' <= MAX_INI_COUNT)
    /\ last_imu' = m.imu[Len(m.imu)]
    /\ UNCHANGED <<last_lidar_end_time, undistorted, propagated, feats_undistort>>

UndistortPcl(m) ==
    /\ m.imu # <<>> /\ ~imu_need_init
    /\ propagated' = Propagation(m)
    /\ last_imu' = m.imu[Len(m.imu)]
    /\ last_lidar_end_time' = m.end
    /\ undistorted' = TRUE
    /\ feats_undistort' = m.scan
    /\ UNCHANGED <<imu_need_init, init_iter_num>>

Process(m) == NoImu(m) \/ IMU_init(m) \/ UndistortPcl(m)

\* Variant that stamps the odometry with the begin of the scan.
MatchBegin(m) ==
    /\ has_map' = (has_map \/ feats_undistort'.last > 0)
    /\ odom' = IF has_map /\ feats_undistort'.last > 0
               THEN [scan |-> feats_undistort', stamp |-> m.beg] ELSE odom

\* The cloud builds the map, or is matched with it and published; a cloud
\* of too few points is skipped.
Match(m) ==
    /\ has_map' = (has_map \/ feats_undistort'.last > 0)
    /\ odom' = IF has_map /\ feats_undistort'.last > 0
               THEN [scan |-> feats_undistort', stamp |-> m.end] ELSE odom

FirstScan == Package /\ flg_first_scan /\ flg_first_scan' = FALSE
               /\ UNCHANGED <<imu_state, has_map, odom>>
NextScan  == Package /\ ~flg_first_scan /\ Process(Measures') /\ Match(Measures')
               /\ UNCHANGED flg_first_scan

Callback == Receive /\ UNCHANGED <<flg_first_scan, imu_state, has_map, odom>>
Wait     == WaitForImu /\ UNCHANGED <<flg_first_scan, imu_state, has_map, odom>>

Next == Callback \/ Wait \/ FirstScan \/ NextScan

Spec == Init /\ [][Next]_vars
-----------------------------------------------------------------------------
\* However the samples fall into the packages of sync_packages, and whatever
\* was dropped in between, UndistortPcl propagates the filter exactly from
\* the end of the scan it undistorted last to the end of this one.  (If the
\* IMU's clock was set back and no sample reaches the former end, the filter
\* goes from the last sample to the end, twice over a part of the time.)
PropagationExact ==
    [][undistorted /\ last_lidar_end_time' # last_lidar_end_time
        /\ last_lidar_end_time <= last_imu'
         => propagated' = last_lidar_end_time' - last_lidar_end_time]_vars

\* The first call, which reads an uninitialised last_lidar_end_time_, never
\* propagates beyond the time since the initialisation's last sample, unless
\* the IMU's clock was set back behind that sample.
FirstPropagation ==
    [][~undistorted /\ undistorted' /\ last_imu <= Measures'.imu[1]
         => propagated' \in 0 .. last_lidar_end_time' - last_imu]_vars

\* A package with IMU samples is published as its own cloud, never the one
\* an earlier package left in feats_undistort, at the time the filter is
\* propagated to; and these times increase.  (Without a sample Process returns
\* at once, and the cloud of the package before is published again.)
OdometryFresh ==
    [][odom' # odom /\ Measures'.imu # <<>>
         => /\ odom'.scan = Measures'.scan
            /\ odom'.stamp = last_lidar_end_time'
            /\ odom'.stamp > odom.stamp]_vars
=============================================================================
