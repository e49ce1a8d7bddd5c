------------------------------ MODULE LidarSync ------------------------------
(***************************************************************************)
(* The measurement buffers of the odometry node: laserMapping.cpp of       *)
(* FAST-LIO, from the lidar and IMU callbacks to sync_packages, with the   *)
(* parameters of config/mid360.yaml (a Livox lidar, time_sync_en false and *)
(* no clock offset).                                                       *)
(*                                                                         *)
(* A scan is its stamp and the offset of its last point, 0 for a scan of   *)
(* at most one point; an IMU sample is its stamp.  The node spins on one   *)
(* thread, so each callback and each call of sync_packages is one step.    *)
(***************************************************************************)
EXTENDS Integers, Sequences

CONSTANTS
    MaxTime,         \* bound on stamps
    Period,          \* the least distance of the stamps of two scans
    Offsets,         \* offsets of the last point of a scan
    ImuGap,          \* the greatest distance of the stamps of two IMU samples
    MaxScans,        \* bound on the scans waiting
    MaxSamples,      \* bound on the IMU samples waiting
    LidarLoopBack,   \* the lidar's clock may be set back
    ImuLoopBack      \* the IMU's clock may be set back

ASSUME SyncAssumption ==
    /\ {MaxTime, Period, ImuGap, MaxScans, MaxSamples} \subseteq Nat \ {0}
    /\ Offsets \subseteq 0 .. Period
    /\ {LidarLoopBack, ImuLoopBack} \subseteq BOOLEAN

VARIABLES
    lidar_buffer, time_buffer, imu_buffer,
    last_timestamp_lidar, last_timestamp_imu,
    lidar_pushed,
    Measures,            \* the package: scan, begin and end time, IMU samples
    scan_num, scan_time  \* scans and their total length behind lidar_mean_scantime

clocks == <<last_timestamp_lidar, last_timestamp_imu>>
mean   == <<scan_num, scan_time>>
sync   == <<lidar_buffer, time_buffer, imu_buffer, clocks, lidar_pushed,
            Measures, mean>>

\* Both clocks are well past 0 when the node starts.
Stamp == Period .. MaxTime
Scan  == [stamp : Stamp, last : Offsets]

\* Measures before the first scan: no cloud.
NoScan == [stamp |-> -1, last |-> 0]

SyncInit ==
    /\ lidar_buffer = <<>> /\ time_buffer = <<>> /\ imu_buffer = <<>>
    /\ last_timestamp_lidar = 0 /\ last_timestamp_imu = -1
    /\ lidar_pushed = FALSE
    /\ Measures = [scan |-> NoScan, beg |-> 0, end |-> 0, imu |-> <<>>]
    /\ scan_num = 0 /\ scan_time = 0
-----------------------------------------------------------------------------
\* A stamp that runs back empties lidar_buffer, and only that.
ScansAfter(stamp) == IF stamp < last_timestamp_lidar THEN <<>> ELSE lidar_buffer

livox_pcl_cbk ==
    \E s \in Scan :
        /\ Len(lidar_buffer) < MaxScans
        /\ \/ s.stamp >= last_timestamp_lidar + Period
           \/ LidarLoopBack /\ s.stamp < last_timestamp_lidar
        /\ lidar_buffer' = Append(ScansAfter(s.stamp), s)
        /\ time_buffer' = Append(time_buffer, s.stamp)
        /\ last_timestamp_lidar' = s.stamp
        /\ UNCHANGED <<imu_buffer, last_timestamp_imu, lidar_pushed, Measures, mean>>

imu_cbk ==
    \E stamp \in Stamp :
        /\ Len(imu_buffer) < MaxSamples
        /\ \/ stamp \in last_timestamp_imu + 1 .. last_timestamp_imu + ImuGap
           \/ last_timestamp_imu = -1
           \/ ImuLoopBack /\ stamp < last_timestamp_imu
        /\ imu_buffer' = Append(IF stamp < last_timestamp_imu THEN <<>> ELSE imu_buffer, stamp)
        /\ last_timestamp_imu' = stamp
        /\ UNCHANGED <<lidar_buffer, time_buffer, last_timestamp_lidar, lidar_pushed,
                       Measures, mean>>
-----------------------------------------------------------------------------
\* lidar_mean_scantime, in whole units of time.
MeanScanTime == IF scan_num = 0 THEN 0 ELSE scan_time \div scan_num

\* A scan that ends before half of the mean length counts as one of that
\* length; only the others enter the mean.
TooShort(scan) == scan.last = 0 \/ 2 * scan_num * scan.last < scan_time

EndTime(scan) ==
    Head(time_buffer) + IF TooShort(scan) THEN MeanScanTime ELSE scan.last

\* meas while lidar_pushed, and otherwise with the oldest scan put into it.
Pushed ==
    IF lidar_pushed THEN Measures
    ELSE [Measures EXCEPT !.scan = Head(lidar_buffer), !.beg = Head(time_buffer),
                          !.end = EndTime(Head(lidar_buffer))]

CountScan ==
    IF lidar_pushed \/ TooShort(Head(lidar_buffer)) THEN UNCHANGED mean
    ELSE scan_num' = scan_num + 1 /\ scan_time' = scan_time + Head(lidar_buffer).last

\* How many samples the loop moves: it stops at a sample after the end, and
\* after one at the end, but does not start with that one.
Taken(end) ==
    IF Head(imu_buffer) >= end THEN 0
    ELSE CHOOSE n \in 1 .. Len(imu_buffer) :
            /\ \A i \in 1 .. n - 1 : imu_buffer[i] < end
            /\ imu_buffer[n] <= end
            /\ n = Len(imu_buffer) \/ imu_buffer[n] = end \/ imu_buffer[n + 1] > end

Ready == lidar_buffer # <<>> /\ imu_buffer # <<>>

\* Variant that leaves the stamp of the delivered scan in its queue.
PackageScanOnly ==
    /\ Ready
    /\ last_timestamp_imu >= Pushed.end
    /\ LET n == Taken(Pushed.end)
       IN  /\ Measures' = [Pushed EXCEPT !.imu = SubSeq(imu_buffer, 1, n)]
           /\ imu_buffer' = SubSeq(imu_buffer, n + 1, Len(imu_buffer))
    /\ lidar_buffer' = Tail(lidar_buffer) /\ lidar_pushed' = FALSE /\ CountScan
    /\ UNCHANGED <<time_buffer, clocks>>

\* sync_packages returns false: the IMU has not reached the end of the scan.
WaitForImu ==
    /\ Ready
    /\ last_timestamp_imu < Pushed.end
    /\ Measures' = Pushed /\ lidar_pushed' = TRUE /\ CountScan
    /\ UNCHANGED <<lidar_buffer, time_buffer, imu_buffer, clocks>>

\* sync_packages returns true: Measures is a package.
Package ==
    /\ Ready
    /\ last_timestamp_imu >= Pushed.end
    /\ LET n == Taken(Pushed.end)
       IN  /\ Measures' = [Pushed EXCEPT !.imu = SubSeq(imu_buffer, 1, n)]
           /\ imu_buffer' = SubSeq(imu_buffer, n + 1, Len(imu_buffer))
    /\ lidar_buffer' = Tail(lidar_buffer)
    /\ time_buffer' = Tail(time_buffer)
    /\ lidar_pushed' = FALSE
    /\ CountScan
    /\ UNCHANGED clocks

Receive == livox_pcl_cbk \/ imu_cbk

SyncSpec == SyncInit /\ [][Receive \/ WaitForImu \/ Package]_sync
-----------------------------------------------------------------------------
\* The types, and the stamps within the bound.
TypeOK ==
    /\ lidar_buffer \in Seq(Scan) /\ time_buffer \in Seq(Stamp)
    /\ imu_buffer \in Seq(Stamp)
    /\ last_timestamp_lidar \in Stamp \cup {0} /\ last_timestamp_imu \in Stamp \cup {-1}
    /\ lidar_pushed \in BOOLEAN
    /\ Measures \in [scan : Scan \cup {NoScan}, beg : Stamp \cup {0}, end : Int, imu : Seq(Stamp)]
    /\ scan_num \in Nat /\ scan_time \in Nat

\* "lidar loop back, clear buffer" (laserMapping.cpp:308): a scan is
\* delivered with the time at which it began, also after the lidar's clock
\* was set back.
ScanKeepsItsTime == Measures.scan # NoScan => Measures.beg = Measures.scan.stamp

\* The two queues of laserMapping.cpp:103 run in step: the stamp at a place
\* of time_buffer is that of the scan at the same place of lidar_buffer, and
\* while a scan waits for the IMU (lidar_pushed) Measures holds the oldest
\* one, with its own begin time, so that the two pop_front calls of
\* sync_packages remove what was delivered.
QueuesAligned ==
    /\ Len(time_buffer) = Len(lidar_buffer)
    /\ \A i \in 1 .. Len(lidar_buffer) : time_buffer[i] = lidar_buffer[i].stamp
    /\ lidar_pushed => /\ lidar_buffer # <<>>
                       /\ Measures.scan = Head(lidar_buffer)
    /\ ScanKeepsItsTime
=============================================================================
