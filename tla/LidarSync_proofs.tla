--------------------------- MODULE LidarSync_proofs ---------------------------
(***************************************************************************)
(* Scans, samples and odometry, for every value of the constants and every *)
(* order of callbacks and packages.  While the lidar's clock is never set  *)
(* back the queues stay aligned and the published times increase; whatever *)
(* the clocks do, the filter is propagated over each moment once.          *)
(***************************************************************************)
EXTENDS LaserMapping, SequenceTheorems, WellFoundedInduction, TLAPS

\* What a step needs to know of the types; Measures is a record.
Shape ==
    /\ lidar_buffer \in Seq(Scan) /\ time_buffer \in Seq(Stamp)
    /\ last_timestamp_lidar \in Nat
    /\ lidar_pushed \in BOOLEAN
    /\ Measures = [scan |-> Measures.scan, beg |-> Measures.beg,
                   end |-> Measures.end, imu |-> Measures.imu]

Inv == Shape /\ QueuesAligned

\* A scan is not NoScan, and its stamp is a natural number.
LEMMA ScanIsNotNoScan == \A s \in Scan : s # NoScan /\ s.stamp \in Stamp /\ s.stamp \in Nat
  BY SyncAssumption DEF SyncAssumption, Scan, Stamp, NoScan

\* A scan and its stamp join the ends of both queues (livox_pcl_cbk).
LEMMA LidarCallbackInv ==
  ASSUME Inv, ~LidarLoopBack, livox_pcl_cbk PROVE Inv'
<1>1. PICK s \in Scan :
        /\ s.stamp >= last_timestamp_lidar + Period
        /\ lidar_buffer' = Append(ScansAfter(s.stamp), s)
        /\ time_buffer' = Append(time_buffer, s.stamp)
        /\ last_timestamp_lidar' = s.stamp
        /\ UNCHANGED <<lidar_pushed, Measures>>
  BY DEF livox_pcl_cbk
<1>2. s.stamp \in Nat /\ s.stamp \in Stamp
  BY ScanIsNotNoScan
<1>3. ScansAfter(s.stamp) = lidar_buffer
  BY <1>1, <1>2, SyncAssumption DEF SyncAssumption, ScansAfter, Inv, Shape
<1>4. lidar_buffer' = Append(lidar_buffer, s)
  BY <1>1, <1>3
<1>5. Shape'
  BY <1>1, <1>2, <1>4 DEF Inv, Shape
<1>6. /\ Len(time_buffer') = Len(lidar_buffer')
      /\ \A i \in 1 .. Len(lidar_buffer') : time_buffer'[i] = lidar_buffer'[i].stamp
  BY <1>1, <1>4 DEF Inv, Shape, QueuesAligned
<1>7. lidar_buffer # <<>> => Head(lidar_buffer') = Head(lidar_buffer)
  BY <1>4 DEF Inv, Shape
<1>8. lidar_buffer' # <<>>
  BY <1>4 DEF Inv, Shape
<1>. QED BY <1>1, <1>5, <1>6, <1>7, <1>8 DEF Inv, QueuesAligned, ScanKeepsItsTime

\* The package that is put together holds the oldest scan and its stamp.
LEMMA PushedIsHead ==
  ASSUME Inv, Ready
  PROVE  /\ Pushed.scan = Head(lidar_buffer)
         /\ Pushed.beg = Pushed.scan.stamp
         /\ Pushed = [scan |-> Pushed.scan, beg |-> Pushed.beg,
                      end |-> Pushed.end, imu |-> Pushed.imu]
<1>1. /\ Head(lidar_buffer) \in Scan
      /\ Head(time_buffer) = Head(lidar_buffer).stamp
  BY DEF Inv, Shape, QueuesAligned, Ready
<1>2. CASE lidar_pushed
  BY <1>1, <1>2, ScanIsNotNoScan
     DEF Inv, Shape, QueuesAligned, ScanKeepsItsTime, Pushed
<1>3. CASE ~lidar_pushed
  BY <1>1, <1>3 DEF Inv, Shape, Pushed
<1>. QED BY <1>2, <1>3

\* sync_packages returning false.
LEMMA WaitForImuInv == ASSUME Inv, WaitForImu PROVE Inv'
<1>1. /\ Ready
      /\ Measures' = Pushed /\ lidar_pushed' = TRUE
      /\ UNCHANGED <<lidar_buffer, time_buffer, last_timestamp_lidar>>
  BY DEF WaitForImu, clocks
<1>2. lidar_buffer # <<>>
  BY <1>1 DEF Ready
<1>3. Shape'
  BY <1>1, PushedIsHead DEF Inv, Shape
<1>4. ScanKeepsItsTime'
  BY <1>1, PushedIsHead DEF ScanKeepsItsTime
<1>5. Measures'.scan = Head(lidar_buffer)
  BY <1>1, PushedIsHead
<1>. QED BY <1>1, <1>2, <1>3, <1>4, <1>5 DEF Inv, QueuesAligned

\* Both queues lose their oldest element (sync_packages returning true).
LEMMA PackageInv == ASSUME Inv, Package PROVE Inv'
<1>1. /\ Ready
      /\ lidar_buffer' = Tail(lidar_buffer) /\ time_buffer' = Tail(time_buffer)
      /\ lidar_pushed' = FALSE
      /\ last_timestamp_lidar' = last_timestamp_lidar
  BY DEF Package, clocks
<1>2. PICK samples : Measures' = [Pushed EXCEPT !.imu = samples]
  BY DEF Package
<1>3. /\ Measures'.scan = Pushed.scan /\ Measures'.beg = Pushed.beg
      /\ Measures' = [scan |-> Measures'.scan, beg |-> Measures'.beg,
                      end |-> Measures'.end, imu |-> Measures'.imu]
  BY <1>1, <1>2, PushedIsHead
<1>4. ScanKeepsItsTime'
  BY <1>1, <1>3, PushedIsHead DEF ScanKeepsItsTime
<1>5. lidar_buffer # <<>> /\ time_buffer # <<>>
  BY <1>1 DEF Ready, Inv, Shape, QueuesAligned
<1>6. Shape'
  <2>1. lidar_buffer' \in Seq(Scan) /\ time_buffer' \in Seq(Stamp)
    BY <1>1, <1>5 DEF Inv, Shape
  <2>2. last_timestamp_lidar' \in Nat /\ lidar_pushed' \in BOOLEAN
    BY <1>1 DEF Inv, Shape
  <2>. QED BY <2>1, <2>2, <1>3, Zenon DEF Shape
<1>7. /\ Len(time_buffer') = Len(lidar_buffer')
      /\ \A i \in 1 .. Len(lidar_buffer') : time_buffer'[i] = lidar_buffer'[i].stamp
  BY <1>1, <1>5 DEF Inv, Shape, QueuesAligned
<1>. QED BY <1>1, <1>4, <1>6, <1>7 DEF Inv, QueuesAligned

LEMMA InvInit == SyncInit => Inv
<1>. SUFFICES ASSUME SyncInit PROVE Inv
  OBVIOUS
<1>1. lidar_buffer = <<>> /\ time_buffer = <<>> /\ last_timestamp_lidar = 0 /\ lidar_pushed = FALSE
  BY DEF SyncInit
<1>2. Measures = [scan |-> NoScan, beg |-> 0, end |-> 0, imu |-> <<>>]
  BY DEF SyncInit
<1>3. Measures.scan = NoScan /\ Measures.beg = 0 /\ Measures.end = 0 /\ Measures.imu = <<>>
  BY <1>2
<1>4. Measures = [scan |-> Measures.scan, beg |-> Measures.beg,
                  end |-> Measures.end, imu |-> Measures.imu]
  BY <1>2, <1>3, Zenon
<1>5. lidar_buffer \in Seq(Scan) /\ time_buffer \in Seq(Stamp)
  BY <1>1
<1>6. last_timestamp_lidar \in Nat /\ lidar_pushed \in BOOLEAN
  BY <1>1
<1>7. QueuesAligned
  BY <1>1, <1>3 DEF QueuesAligned, ScanKeepsItsTime
<1>. QED BY <1>4, <1>5, <1>6, <1>7, Zenon DEF Inv, Shape

\* Without a clock set back, time_buffer stays the stamps of lidar_buffer and
\* each package its own scan's time (laserMapping.cpp, sync_packages).
THEOREM QueuesAlignedCorrect ==
  ASSUME ~LidarLoopBack PROVE SyncSpec => []QueuesAligned
<1>1. SyncInit => Inv
  BY InvInit
<1>2. Inv /\ [Receive \/ WaitForImu \/ Package]_sync => Inv'
  <2>. SUFFICES ASSUME Inv, [Receive \/ WaitForImu \/ Package]_sync PROVE Inv'
    OBVIOUS
  <2>1. CASE livox_pcl_cbk
    BY <2>1, LidarCallbackInv
  <2>2. CASE imu_cbk
    BY <2>2 DEF imu_cbk, Inv, Shape, QueuesAligned, ScanKeepsItsTime
  <2>3. CASE WaitForImu
    BY <2>3, WaitForImuInv
  <2>4. CASE Package
    BY <2>4, PackageInv
  <2>5. CASE UNCHANGED sync
    BY <2>5 DEF sync, clocks, Inv, Shape, QueuesAligned, ScanKeepsItsTime
  <2>. QED BY <2>1, <2>2, <2>3, <2>4, <2>5 DEF Receive
<1>3. Inv => QueuesAligned
  BY DEF Inv
<1>. QED BY <1>1, <1>2, <1>3, PTL DEF SyncSpec

\* The main loop only calls the buffers' operations: every execution of the
\* node is one of its buffers, so the queues stay aligned in it.
THEOREM MappingQueuesAligned ==
  ASSUME ~LidarLoopBack PROVE Spec => []QueuesAligned
<1>1. Init => SyncInit
  BY DEF Init
<1>2. [Next]_vars => [Receive \/ WaitForImu \/ Package]_sync
  BY DEF Next, vars, Callback, Wait, FirstScan, NextScan
<1>. QED BY <1>1, <1>2, QueuesAlignedCorrect, PTL DEF Spec, SyncSpec
-----------------------------------------------------------------------------
(* Sums over the samples of a package.  Induction is on sets of numbers, in *)
(* first-order form: a set with no least element is empty.                  *)

LEMMA LeastOf ==
  ASSUME NEW T \in SUBSET Nat, T # {} PROVE \E n \in T : \A m \in T : n <= m
<1>. DEFINE R == OpToRel(<, Nat)
<1>1. IsWellFoundedOn(R, Nat)
  BY NatLessThanWellFounded
<1>. HIDE DEF R
<1>2. PICK n \in T : \A m \in T : ~(<<m, n>> \in R)
  BY <1>1, WFMin
<1>3. \A m \in T : <<m, n>> \in R <=> m < n
  BY DEF R, OpToRel
<1>4. ASSUME NEW m \in T PROVE n <= m
  <2>1. ~(m < n)
    BY <1>2, <1>3, Zenon
  <2>. QED BY <2>1
<1>. QED BY <1>4

LEMMA SetInduction ==
  ASSUME NEW S, 0 \in S, \A n \in Nat : n \in S => n + 1 \in S
  PROVE  Nat \subseteq S
<1>. SUFFICES ASSUME Nat \ S # {} PROVE FALSE
  OBVIOUS
<1>1. PICK n \in Nat \ S : \A m \in Nat \ S : n <= m
  BY LeastOf
<1>2. n # 0 /\ n - 1 \in Nat /\ n - 1 \notin Nat \ S
  BY <1>1
<1>. QED BY <1>2

\* The partial sums of SumOf.
IsSum(f, n, dt) == f = [i \in 0 .. n |-> IF i = 0 THEN 0 ELSE f[i - 1] + dt[i]]

LEMMA SumExists == ASSUME NEW n \in Nat, NEW dt PROVE \E f : IsSum(f, n, dt)
<1>. DEFINE S == {k \in Nat : \E f : IsSum(f, k, dt)}
<1>1. 0 \in S
  <2>. DEFINE f == [i \in 0 .. 0 |-> 0]
  <2>1. IsSum(f, 0, dt)
    BY DEF IsSum
  <2>. QED BY <2>1
<1>2. ASSUME NEW k \in Nat, k \in S PROVE k + 1 \in S
  <2>1. PICK f : IsSum(f, k, dt)
    BY <1>2
  <2>. DEFINE g == [i \in 0 .. k + 1 |-> IF i <= k THEN f[i] ELSE f[k] + dt[k + 1]]
  <2>2. ASSUME NEW i \in 0 .. k + 1
        PROVE  g[i] = IF i = 0 THEN 0 ELSE g[i - 1] + dt[i]
    <3>1. CASE i = k + 1
      BY <3>1
    <3>2. CASE i <= k
      <4>1. f[i] = IF i = 0 THEN 0 ELSE f[i - 1] + dt[i]
        BY <2>1, <3>2 DEF IsSum
      <4>. QED BY <3>2, <4>1
    <3>. QED BY <3>1, <3>2
  <2>3. IsSum(g, k + 1, dt)
    BY <2>2 DEF IsSum
  <2>. HIDE DEF g
  <2>4. \E h : IsSum(h, k + 1, dt)
    BY <2>3, Zenon
  <2>. QED BY <2>4
<1>3. n \in S
  <2>. HIDE DEF S
  <2>1. \A k \in Nat : k \in S => k + 1 \in S
    BY <1>2
  <2>. QED BY <1>1, <2>1, SetInduction
<1>. QED BY <1>3

LEMMA SumOfIs ==
  ASSUME NEW dt, Len(dt) \in Nat
  PROVE  \E f : IsSum(f, Len(dt), dt) /\ SumOf(dt) = f[Len(dt)]
<1>. DEFINE f == CHOOSE f : f = [i \in 0 .. Len(dt) |-> IF i = 0 THEN 0 ELSE f[i - 1] + dt[i]]
<1>1. IsSum(f, Len(dt), dt)
  BY SumExists, Zenon DEF IsSum
<1>2. SumOf(dt) = f[Len(dt)]
  BY DEF SumOf
<1>. QED BY <1>1, <1>2

\* A sum lies where its terms add up to: between two functions that start at or
\* around 0 and grow at most, and at least, by each term.
LEMMA SumBetween ==
  ASSUME NEW dt, Len(dt) \in Nat,
         NEW lo \in [0 .. Len(dt) -> Int], NEW hi \in [0 .. Len(dt) -> Int],
         lo[0] <= 0, 0 <= hi[0],
         \A i \in 1 .. Len(dt) : dt[i] \in Int /\ lo[i] - lo[i - 1] <= dt[i]
                                               /\ dt[i] <= hi[i] - hi[i - 1]
  PROVE  SumOf(dt) \in lo[Len(dt)] .. hi[Len(dt)]
<1>. DEFINE n == Len(dt)
<1>1. PICK f : IsSum(f, n, dt) /\ SumOf(dt) = f[n]
  BY SumOfIs
<1>. DEFINE S == {k \in Nat : k <= n => f[k] \in lo[k] .. hi[k]}
<1>2. 0 \in S
  <2>1. f[0] = 0
    BY <1>1 DEF IsSum
  <2>. QED BY <2>1
<1>3. ASSUME NEW k \in Nat, k \in S PROVE k + 1 \in S
  <2>1. SUFFICES ASSUME k + 1 <= n PROVE f[k + 1] \in lo[k + 1] .. hi[k + 1]
    OBVIOUS
  <2>2. f[k + 1] = f[k] + dt[k + 1]
    <3>1. k + 1 \in 0 .. n /\ k + 1 # 0 /\ (k + 1) - 1 = k
      BY <2>1
    <3>. QED BY <1>1, <3>1 DEF IsSum
  <2>3. k + 1 \in 1 .. n /\ k \in 0 .. n /\ k + 1 \in 0 .. n /\ (k + 1) - 1 = k
    BY <2>1
  <2>4. f[k] \in lo[k] .. hi[k]
    BY <1>3, <2>1
  <2>5. dt[k + 1] \in Int /\ lo[k + 1] - lo[k] <= dt[k + 1] /\ dt[k + 1] <= hi[k + 1] - hi[k]
    BY <2>3
  <2>6. lo[k] \in Int /\ hi[k] \in Int /\ lo[k + 1] \in Int /\ hi[k + 1] \in Int
    BY <2>3
  <2>7. /\ f[k] \in Int /\ lo[k] <= f[k] /\ f[k] <= hi[k]
    BY <2>4, <2>6
  <2>8. lo[k + 1] <= f[k] + dt[k + 1] /\ f[k] + dt[k + 1] <= hi[k + 1]
    BY <2>5, <2>6, <2>7
  <2>. QED BY <2>2, <2>5, <2>6, <2>7, <2>8
<1>4. n \in S
  <2>. HIDE DEF S
  <2>1. \A k \in Nat : k \in S => k + 1 \in S
    BY <1>3
  <2>. QED BY <1>2, <2>1, SetInduction
<1>. QED BY <1>1, <1>4
-----------------------------------------------------------------------------
(* The samples of a package, whatever the clocks do.                       *)

Increasing(s) == \A i, j \in 1 .. Len(s) : i < j => s[i] < s[j]

Buffers ==
    /\ lidar_buffer \in Seq(Scan) /\ time_buffer \in Seq(Stamp)
    /\ Len(lidar_buffer) <= Len(time_buffer)
    /\ scan_num \in Nat /\ scan_time \in Nat
    /\ Measures = [scan |-> Measures.scan, beg |-> Measures.beg,
                   end |-> Measures.end, imu |-> Measures.imu]
    /\ Measures.end \in Int

\* A clock set back empties imu_buffer, so the samples in it are in order.
ImuInOrder ==
    /\ imu_buffer \in Seq(Nat) /\ last_timestamp_imu \in Int
    /\ Increasing(imu_buffer)
    /\ \A i \in 1 .. Len(imu_buffer) : imu_buffer[i] <= last_timestamp_imu

LEMMA StampIsNat == Stamp \subseteq Nat
  BY SyncAssumption DEF SyncAssumption, Stamp

LEMMA LastIsNat == \A s \in Scan : s.last \in Nat /\ s.last <= Period
<1>1. Offsets \subseteq 0 .. Period /\ Period \in Nat
  BY SyncAssumption DEF SyncAssumption
<1>2. ASSUME NEW s \in Scan PROVE s.last \in 0 .. Period
  <2>1. s.last \in Offsets
    BY DEF Scan
  <2>. QED BY <1>1, <2>1
<1>. QED BY <1>1, <1>2

LEMMA PushedEnd ==
  ASSUME Buffers, Ready
  PROVE  /\ Pushed.end \in Int
         /\ Pushed = [scan |-> Pushed.scan, beg |-> Pushed.beg,
                      end |-> Pushed.end, imu |-> Pushed.imu]
<1>1. CASE lidar_pushed
  BY <1>1, Zenon DEF Buffers, Pushed
<1>2. CASE ~lidar_pushed
  <2>1. /\ lidar_buffer # <<>> /\ time_buffer # <<>>
        /\ Head(lidar_buffer) \in Scan /\ Head(time_buffer) \in Nat
    BY StampIsNat DEF Buffers, Ready
  <2>2. Head(lidar_buffer).last \in Int
    BY <2>1, LastIsNat
  <2>3. MeanScanTime \in Int
    BY DEF Buffers, MeanScanTime
  <2>4. EndTime(Head(lidar_buffer)) \in Int
    BY <2>1, <2>2, <2>3 DEF EndTime
  <2>. QED BY <1>2, <2>4 DEF Buffers, Pushed
<1>. QED BY <1>1, <1>2

\* The loop takes a prefix of the samples, none of them after the end.
LEMMA TakenFacts ==
  ASSUME ImuInOrder, imu_buffer # <<>>, NEW end \in Int
  PROVE  /\ Taken(end) \in 0 .. Len(imu_buffer)
         /\ \A i \in 1 .. Taken(end) : imu_buffer[i] <= end
<1>. DEFINE b == imu_buffer
            Stops(n) == n = Len(b) \/ b[n] = end \/ b[n + 1] > end
            Fits(n)  == (\A i \in 1 .. n - 1 : b[i] < end) /\ b[n] <= end /\ Stops(n)
<1>1. Len(b) \in Nat \ {0} /\ b \in [1 .. Len(b) -> Nat] /\ Head(b) = b[1]
  BY DEF ImuInOrder
<1>2. CASE Head(b) >= end
  BY <1>1, <1>2 DEF Taken
<1>3. CASE ~(Head(b) >= end)
  <2>1. b[1] < end
    BY <1>1, <1>3
  <2>. DEFINE T == {n \in 1 .. Len(b) : Stops(n)}
  <2>2. Len(b) \in T /\ T \in SUBSET Nat
    BY <1>1
  <2>3. PICK n \in T : \A m \in T : n <= m
    <3>. HIDE DEF T
    <3>. QED BY <2>2, LeastOf
  <2>10. /\ n \in 1 .. Len(b) /\ Stops(n)
         /\ \A m \in 1 .. Len(b) : Stops(m) => n <= m
    <3>. HIDE DEF Stops, b
    <3>. QED BY <1>1, <2>3
  <2>. HIDE DEF T
  <2>4. ASSUME NEW i \in 1 .. n - 1 PROVE ~Stops(i)
    <3>. HIDE DEF Stops, b
    <3>. QED BY <1>1, <2>10, <2>4
  <2>5. ASSUME NEW i \in 1 .. n PROVE b[i] <= end /\ (i < n => b[i] < end)
    <3>0. n \in 1 .. Len(b) /\ i \in 1 .. Len(b)
      <4>. HIDE DEF Stops
      <4>. QED BY <1>1, <2>10
    <3>1. b[i] <= end
      <4>1. CASE i = 1
        BY <1>1, <2>1, <4>1
      <4>2. CASE i # 1
        <5>1. i - 1 \in 1 .. n - 1 /\ (i - 1) + 1 = i
          BY <3>0, <4>2
        <5>2. ~(b[i] > end)
          BY <2>4, <5>1
        <5>. QED BY <1>1, <3>0, <5>2
      <4>. QED BY <4>1, <4>2
    <3>2. ASSUME i < n PROVE b[i] # end
      BY <2>4, <3>0, <3>2
    <3>. QED BY <1>1, <3>0, <3>1, <3>2
  <2>6. n \in 1 .. Len(b) /\ Fits(n)
    <3>1. b[n] <= end /\ \A i \in 1 .. n - 1 : b[i] < end
      <4>. HIDE DEF Stops, b
      <4>. QED BY <1>1, <2>5, <2>10
    <3>. HIDE DEF Stops, b
    <3>. QED BY <2>10, <3>1, Zenon
  <2>7. Taken(end) = CHOOSE k \in 1 .. Len(b) : Fits(k)
    BY <1>3, Zenon DEF Taken
  <2>8. Taken(end) \in 1 .. Len(b) /\ Fits(Taken(end))
    <3>. HIDE DEF Fits
    <3>. QED BY <2>6, <2>7, Zenon
  <2>9. ASSUME NEW i \in 1 .. Taken(end) PROVE b[i] <= end
    <3>. DEFINE t == Taken(end)
    <3>1. t \in 1 .. Len(b) /\ Fits(t)
      BY <2>8
    <3>. HIDE DEF t
    <3>2. CASE i = t
      BY <3>1, <3>2
    <3>3. CASE i # t
      <4>1. i \in 1 .. t /\ i \in 1 .. t - 1 /\ i \in 1 .. Len(b)
        BY <3>1, <3>3 DEF t
      <4>2. b[i] < end /\ b[i] \in Nat
        BY <1>1, <3>1, <4>1
      <4>. HIDE DEF b
      <4>. QED BY <4>2
    <3>. QED BY <3>2, <3>3
  <2>. QED BY <1>1, <2>8, <2>9
<1>. QED BY <1>2, <1>3

\* A package holds samples in order and none after its end; so does what is left.
LEMMA PackageSamples ==
  ASSUME Buffers, ImuInOrder, Package
  PROVE  /\ Buffers' /\ ImuInOrder'
         /\ Measures'.imu \in Seq(Nat) /\ Increasing(Measures'.imu)
         /\ \A i \in 1 .. Len(Measures'.imu) : Measures'.imu[i] <= Measures'.end
         /\ Measures'.scan = Pushed.scan /\ Measures'.beg = Pushed.beg
         /\ Measures'.end = Pushed.end
<1>. DEFINE e == Pushed.end  n == Taken(e)  len == Len(imu_buffer)
<1>1. Ready /\ imu_buffer # <<>> /\ e \in Int
  BY PushedEnd DEF Package, Ready
<1>2. /\ len \in Nat /\ n \in 0 .. len
      /\ \A i \in 1 .. n : imu_buffer[i] <= e
      /\ \A i \in 1 .. len : imu_buffer[i] \in Nat
  <2>1. n \in 0 .. len /\ \A i \in 1 .. n : imu_buffer[i] <= e
    <3>. HIDE DEF e
    <3>. QED BY <1>1, TakenFacts, Zenon
  <2>2. len \in Nat /\ \A i \in 1 .. len : imu_buffer[i] \in Nat
    BY DEF ImuInOrder
  <2>. QED BY <2>1, <2>2, Zenon
<1>3. /\ Measures' = [Pushed EXCEPT !.imu = SubSeq(imu_buffer, 1, n)]
      /\ imu_buffer' = SubSeq(imu_buffer, n + 1, len)
      /\ lidar_buffer' = Tail(lidar_buffer) /\ time_buffer' = Tail(time_buffer)
      /\ last_timestamp_imu' = last_timestamp_imu
  BY DEF Package, clocks
<1>4. /\ Measures'.imu = SubSeq(imu_buffer, 1, n) /\ Measures'.end = e
      /\ Measures'.scan = Pushed.scan /\ Measures'.beg = Pushed.beg
      /\ Measures' = [scan |-> Measures'.scan, beg |-> Measures'.beg,
                      end |-> Measures'.end, imu |-> Measures'.imu]
  BY <1>1, <1>3, PushedEnd
<1>. HIDE DEF n, len, e
<1>5. /\ SubSeq(imu_buffer, 1, n) \in Seq(Nat)
      /\ Len(SubSeq(imu_buffer, 1, n)) = n
      /\ \A i \in 1 .. n : SubSeq(imu_buffer, 1, n)[i] = imu_buffer[i]
  <2>1. \A i \in 1 .. n : imu_buffer[i] \in Nat
    BY <1>2
  <2>2. 1 \in Int /\ n \in Int
    BY <1>2
  <2>3. /\ SubSeq(imu_buffer, 1, n) \in Seq(Nat)
        /\ Len(SubSeq(imu_buffer, 1, n)) = IF 1 <= n THEN n - 1 + 1 ELSE 0
        /\ \A i \in 1 .. n - 1 + 1 : SubSeq(imu_buffer, 1, n)[i] = imu_buffer[1 + i - 1]
    BY <2>1, <2>2, SubSeqProperties
  <2>. QED BY <1>2, <2>3
<1>6. /\ SubSeq(imu_buffer, n + 1, len) \in Seq(Nat)
      /\ Len(SubSeq(imu_buffer, n + 1, len)) = len - n
      /\ \A i \in 1 .. len - n : SubSeq(imu_buffer, n + 1, len)[i] = imu_buffer[n + i]
  <2>1. \A i \in n + 1 .. len : imu_buffer[i] \in Nat
    BY <1>2
  <2>2. n + 1 \in Int /\ len \in Int
    BY <1>2
  <2>3. /\ SubSeq(imu_buffer, n + 1, len) \in Seq(Nat)
        /\ Len(SubSeq(imu_buffer, n + 1, len)) = IF n + 1 <= len THEN len - (n + 1) + 1 ELSE 0
        /\ \A i \in 1 .. len - (n + 1) + 1 :
              SubSeq(imu_buffer, n + 1, len)[i] = imu_buffer[(n + 1) + i - 1]
    BY <2>1, <2>2, SubSeqProperties
  <2>. QED BY <1>2, <2>3
<1>7. Increasing(imu_buffer) /\ len = Len(imu_buffer) /\ last_timestamp_imu \in Int
      /\ \A i \in 1 .. len : imu_buffer[i] <= last_timestamp_imu
  BY DEF ImuInOrder, len
<1>8. Increasing(Measures'.imu) /\ \A i \in 1 .. n : Measures'.imu[i] <= Measures'.end
  BY <1>2, <1>4, <1>5, <1>7 DEF Increasing
<1>9. ImuInOrder'
  <2>. DEFINE s == SubSeq(imu_buffer, n + 1, len)
  <2>1. /\ s \in Seq(Nat) /\ Len(s) = len - n
        /\ \A i \in 1 .. len - n : s[i] = imu_buffer[n + i] /\ n + i \in 1 .. len
    BY <1>2, <1>6
  <2>2. imu_buffer' = s
    BY <1>3
  <2>. HIDE DEF s
  <2>3. Increasing(s)
    BY <1>2, <1>7, <2>1 DEF Increasing
  <2>4. \A i \in 1 .. Len(s) : s[i] <= last_timestamp_imu
    BY <1>2, <1>7, <2>1
  <2>. QED BY <1>3, <1>7, <2>1, <2>2, <2>3, <2>4 DEF ImuInOrder
<1>10. Buffers'
  <2>1. lidar_buffer # <<>> /\ Len(lidar_buffer) <= Len(time_buffer) /\ time_buffer # <<>>
    BY <1>1 DEF Ready, Buffers
  <2>2. /\ lidar_buffer' \in Seq(Scan) /\ time_buffer' \in Seq(Stamp)
        /\ Len(lidar_buffer') <= Len(time_buffer')
    BY <1>3, <2>1 DEF Buffers
  <2>3. scan_num' \in Nat /\ scan_time' \in Nat
    <3>1. Head(lidar_buffer) \in Scan
      BY <2>1 DEF Buffers
    <3>2. Head(lidar_buffer).last \in Nat
      BY <3>1, LastIsNat
    <3>. QED BY <3>2 DEF Package, CountScan, mean, Buffers
  <2>4. Measures'.end \in Int
    BY <1>1, <1>4
  <2>. QED BY <1>4, <2>2, <2>3, <2>4, Zenon DEF Buffers
<1>11. Measures'.imu \in Seq(Nat) /\ Len(Measures'.imu) = n
  BY <1>4, <1>5
<1>. QED BY <1>4, <1>8, <1>9, <1>10, <1>11 DEF e
-----------------------------------------------------------------------------
(* The time the filter is propagated over.                                 *)

\* The samples of UndistortPcl: the last one used, then those of the package.
LEMMA VImu ==
  ASSUME NEW x \in Int, NEW s \in Seq(Nat)
  PROVE  LET v == <<x>> \o s
         IN  /\ Len(v) = Len(s) + 1 /\ v[1] = x
             /\ \A i \in 1 .. Len(s) : v[i + 1] = s[i] /\ v[i + 1] \in Nat
<1>. DEFINE v == <<x>> \o s
<1>1. s \in Seq(Int) /\ <<x>> \in Seq(Int) /\ Len(<<x>>) = 1 /\ <<x>>[1] = x
  BY SeqMonotonic
<1>2. /\ Len(v) = Len(<<x>>) + Len(s)
      /\ \A i \in 1 .. Len(<<x>>) + Len(s) :
            v[i] = IF i <= Len(<<x>>) THEN <<x>>[i] ELSE s[i - Len(<<x>>)]
  BY <1>1, ConcatProperties
<1>3. Len(s) \in Nat /\ \A i \in 1 .. Len(s) : s[i] \in Nat
  OBVIOUS
<1>. HIDE DEF v
<1>4. Len(v) = Len(s) + 1 /\ v[1] = x
  BY <1>1, <1>2, <1>3
<1>5. ASSUME NEW i \in 1 .. Len(s) PROVE v[i + 1] = s[i] /\ v[i + 1] \in Nat
  <2>1. /\ i + 1 \in 1 .. Len(<<x>>) + Len(s) /\ ~(i + 1 <= Len(<<x>>))
        /\ (i + 1) - Len(<<x>>) = i
    BY <1>1, <1>3
  <2>. QED BY <1>2, <1>3, <2>1
<1>. QED BY <1>4, <1>5 DEF v

\* A package as UndistortPcl gets it.
GoodPackage(m) ==
    /\ m.imu \in Seq(Nat) /\ m.imu # <<>> /\ Increasing(m.imu)
    /\ m.end \in Int /\ \A i \in 1 .. Len(m.imu) : m.imu[i] <= m.end
    /\ last_imu \in Int /\ last_lidar_end_time \in Int

\* Propagation is a sum of terms and a rest; the terms, by the case of Dt.
LEMMA PropagationSum ==
  ASSUME NEW m, GoodPackage(m)
  PROVE  \E dt, v :
            /\ Len(dt) = Len(m.imu) /\ Len(m.imu) \in Nat \ {0}
            /\ v[1] = last_imu /\ \A i \in 1 .. Len(m.imu) : v[i + 1] = m.imu[i]
            /\ v \in [1 .. Len(m.imu) + 1 -> Int]
            /\ \A i \in 1 .. Len(m.imu) : dt[i] = Dt(v, i, m)
            /\ Propagation(m) = SumOf(dt) + (m.end - m.imu[Len(m.imu)])
<1>. DEFINE n == Len(m.imu)  w == <<last_imu>> \o m.imu
            v == [i \in 1 .. n + 1 |-> w[i]]
            dt == [i \in 1 .. n |-> Dt(w, i, m)]
<1>1. /\ n \in Nat \ {0} /\ m.end \in Int /\ last_imu \in Int
      /\ \A i \in 1 .. n : m.imu[i] \in Nat /\ m.imu[i] <= m.end
  BY EmptySeq DEF GoodPackage
<1>2. Len(w) = n + 1 /\ w[1] = last_imu /\ \A i \in 1 .. n : w[i + 1] = m.imu[i]
  BY VImu DEF GoodPackage
<1>3. /\ v[1] = last_imu /\ \A i \in 1 .. n : v[i + 1] = m.imu[i]
      /\ v \in [1 .. n + 1 -> Int]
  <2>. HIDE DEF w, n
  <2>1. ASSUME NEW i \in 1 .. n + 1 PROVE w[i] \in Int
    <3>1. CASE i = 1
      BY <1>1, <1>2, <3>1
    <3>2. CASE i # 1
      <4>1. i - 1 \in 1 .. n /\ (i - 1) + 1 = i
        BY <1>1, <3>2
      <4>. QED BY <1>1, <1>2, <4>1
    <3>. QED BY <3>1, <3>2
  <2>. QED BY <1>1, <1>2, <2>1
<1>4. Len(dt) = n
  <2>. HIDE DEF n
  <2>. QED BY <1>1
<1>5. \A i \in 1 .. n : dt[i] = Dt(v, i, m)
  <2>. HIDE DEF w, n
  <2>. QED BY <1>1 DEF Dt
<1>6. Propagation(m) = SumOf(dt) + Distance(m.end, w[Len(w)])
  BY Zenon DEF Propagation
<1>7. Distance(m.end, w[Len(w)]) = m.end - m.imu[n]
  <2>. HIDE DEF w, n
  <2>1. n \in 1 .. n
    BY <1>1
  <2>. QED BY <1>1, <1>2, <2>1 DEF Distance
<1>. HIDE DEF dt, v, w
<1>. QED BY <1>1, <1>3, <1>4, <1>5, <1>6, <1>7, Zenon

\* From the end of the last scan, when a sample reaches it.
LEMMA PropagationFromEnd ==
  ASSUME NEW m, GoodPackage(m),
         last_imu <= last_lidar_end_time, last_lidar_end_time <= m.imu[Len(m.imu)]
  PROVE  Propagation(m) = m.end - last_lidar_end_time
<1>. DEFINE n == Len(m.imu)  L == last_lidar_end_time
<1>1. PICK dt, v :
        /\ Len(dt) = n /\ n \in Nat \ {0}
        /\ v[1] = last_imu /\ \A i \in 1 .. n : v[i + 1] = m.imu[i]
        /\ v \in [1 .. n + 1 -> Int]
        /\ \A i \in 1 .. n : dt[i] = Dt(v, i, m)
        /\ Propagation(m) = SumOf(dt) + (m.end - m.imu[n])
  BY PropagationSum
<1>2. /\ L \in Int /\ m.end \in Int
      /\ \A i, j \in 1 .. n : i < j => m.imu[i] < m.imu[j]
      /\ \A i \in 1 .. n : m.imu[i] \in Nat
  BY DEF GoodPackage, Increasing
<1>. DEFINE g == [k \in 0 .. n |-> IF v[k + 1] < L THEN 0 ELSE v[k + 1] - L]
<1>3. \A k \in 0 .. n : v[k + 1] \in Int
  <2>. HIDE DEF n
  <2>. QED BY <1>1
<1>4. g \in [0 .. n -> Int]
  <2>. HIDE DEF n, L
  <2>. QED BY <1>1, <1>2, <1>3
<1>5. g[0] = 0
  <2>1. 0 \in 0 .. n /\ 0 + 1 = 1 /\ v[1] <= L /\ v[1] \in Int
    <3>. HIDE DEF n
    <3>. QED BY <1>1
  <2>. HIDE DEF n, L
  <2>. QED BY <1>2, <2>1
<1>6. ASSUME NEW i \in 1 .. n PROVE dt[i] \in Int /\ dt[i] = g[i] - g[i - 1]
  <2>1. i \in 0 .. n /\ i - 1 \in 0 .. n /\ (i - 1) + 1 = i
    <3>. HIDE DEF n
    <3>. QED BY <1>1
  <2>2. v[i] \in Int /\ v[i + 1] \in Int
    <3>. HIDE DEF n
    <3>. QED BY <1>1
  <2>3. /\ g[i] = IF v[i + 1] < L THEN 0 ELSE v[i + 1] - L
        /\ g[i - 1] = IF v[i] < L THEN 0 ELSE v[i] - L
    <3>. HIDE DEF n, L
    <3>. QED BY <2>1
  <2>4. dt[i] = IF v[i + 1] < L THEN 0 ELSE IF v[i] < L THEN v[i + 1] - L ELSE v[i + 1] - v[i]
    BY <1>1 DEF Dt
  <2>5. v[i + 1] < L => v[i] <= L /\ (v[i] < L \/ v[i] = L)
    <3>1. CASE i = 1
      BY <1>1, <1>2, <2>2, <3>1
    <3>2. CASE i # 1
      <4>1. i - 1 \in 1 .. n /\ i - 1 < i /\ (i - 1) + 1 = i
        BY <2>1, <3>2
      <4>2. v[i] = m.imu[i - 1] /\ v[i + 1] = m.imu[i] /\ m.imu[i - 1] < m.imu[i]
        BY <1>1, <1>2, <4>1
      <4>. QED BY <1>2, <2>2, <4>2
    <3>. QED BY <3>1, <3>2
  <2>. HIDE DEF n, L, g
  <2>. QED BY <1>2, <2>2, <2>3, <2>4, <2>5
<1>7. SumOf(dt) \in g[n] .. g[n]
  <2>1. \A i \in 1 .. Len(dt) : dt[i] \in Int /\ g[i] - g[i - 1] <= dt[i]
                                               /\ dt[i] <= g[i] - g[i - 1]
    <3>. HIDE DEF g, n
    <3>1. ASSUME NEW i \in 1 .. n PROVE dt[i] \in Int /\ g[i] - g[i - 1] <= dt[i]
                                          /\ dt[i] <= g[i] - g[i - 1]
      BY <1>6
    <3>. QED BY <1>1, <3>1
  <2>2. g[0] <= 0 /\ 0 <= g[0]
    BY <1>5
  <2>3. Len(dt) \in Nat /\ g \in [0 .. Len(dt) -> Int]
    BY <1>1, <1>4
  <2>. HIDE DEF g, n
  <2>4. SumOf(dt) \in g[Len(dt)] .. g[Len(dt)]
    BY <2>1, <2>2, <2>3, SumBetween
  <2>. QED BY <1>1, <2>4
<1>8. g[n] = m.imu[n] - L /\ g[n] \in Int
  <2>1. n \in 0 .. n /\ n \in 1 .. n /\ v[n + 1] = m.imu[n] /\ m.imu[n] \in Int
    <3>. HIDE DEF n
    <3>. QED BY <1>1, <1>2
  <2>. HIDE DEF n, L
  <2>. QED BY <1>2, <2>1 DEF n, L
<1>9. m.imu[n] \in Int
  <2>. HIDE DEF n
  <2>. QED BY <1>1, <1>2
<1>. HIDE DEF g, n
<1>10. SumOf(dt) = m.imu[n] - L
  BY <1>7, <1>8
<1>. QED BY <1>1, <1>2, <1>9, <1>10

\* Whatever the end of the last scan is read as, by no more than passed since the sample
\* used last.
LEMMA PropagationBounded ==
  ASSUME NEW m, GoodPackage(m), last_imu <= m.imu[1]
  PROVE  Propagation(m) \in 0 .. m.end - last_imu
<1>. DEFINE n == Len(m.imu)  L == last_lidar_end_time
<1>1. PICK dt, v :
        /\ Len(dt) = n /\ n \in Nat \ {0}
        /\ v[1] = last_imu /\ \A i \in 1 .. n : v[i + 1] = m.imu[i]
        /\ v \in [1 .. n + 1 -> Int]
        /\ \A i \in 1 .. n : dt[i] = Dt(v, i, m)
        /\ Propagation(m) = SumOf(dt) + (m.end - m.imu[n])
  BY PropagationSum
<1>2. /\ L \in Int /\ m.end \in Int /\ last_imu \in Int
      /\ \A i, j \in 1 .. n : i < j => m.imu[i] < m.imu[j]
      /\ \A i \in 1 .. n : m.imu[i] \in Nat /\ m.imu[i] <= m.end
  BY DEF GoodPackage, Increasing
<1>. DEFINE lo == [k \in 0 .. n |-> 0]
            hi == [k \in 0 .. n |-> v[k + 1] - last_imu]
<1>3. \A k \in 0 .. n : v[k + 1] \in Int
  <2>. HIDE DEF n
  <2>. QED BY <1>1
<1>4. lo \in [0 .. n -> Int] /\ hi \in [0 .. n -> Int] /\ lo[0] = 0 /\ hi[0] = 0
  <2>1. 0 \in 0 .. n /\ 0 + 1 = 1
    <3>. HIDE DEF n
    <3>. QED BY <1>1
  <2>. HIDE DEF n
  <2>. QED BY <1>1, <1>2, <1>3, <2>1
<1>5. ASSUME NEW i \in 1 .. n
      PROVE  dt[i] \in Int /\ lo[i] - lo[i - 1] <= dt[i] /\ dt[i] <= hi[i] - hi[i - 1]
  <2>1. i \in 0 .. n /\ i - 1 \in 0 .. n /\ (i - 1) + 1 = i
    <3>. HIDE DEF n
    <3>. QED BY <1>1
  <2>2. v[i] \in Int /\ v[i + 1] \in Int
    <3>. HIDE DEF n
    <3>. QED BY <1>1
  <2>3. /\ lo[i] = 0 /\ lo[i - 1] = 0
        /\ hi[i] = v[i + 1] - last_imu /\ hi[i - 1] = v[i] - last_imu
    <3>. HIDE DEF n
    <3>. QED BY <2>1
  <2>4. dt[i] = IF v[i + 1] < L THEN 0 ELSE IF v[i] < L THEN v[i + 1] - L ELSE v[i + 1] - v[i]
    BY <1>1 DEF Dt
  <2>5. v[i] <= v[i + 1]
    <3>1. CASE i = 1
      BY <1>1, <1>2, <2>2, <3>1
    <3>2. CASE i # 1
      <4>1. i - 1 \in 1 .. n /\ i - 1 < i /\ (i - 1) + 1 = i
        BY <2>1, <3>2
      <4>2. v[i] = m.imu[i - 1] /\ v[i + 1] = m.imu[i] /\ m.imu[i - 1] < m.imu[i]
        BY <1>1, <1>2, <4>1
      <4>. QED BY <1>2, <2>2, <4>2
    <3>. QED BY <3>1, <3>2
  <2>. HIDE DEF n, L, lo, hi
  <2>. QED BY <1>2, <2>2, <2>3, <2>4, <2>5
<1>6. SumOf(dt) \in lo[n] .. hi[n]
  <2>1. \A i \in 1 .. Len(dt) : dt[i] \in Int /\ lo[i] - lo[i - 1] <= dt[i]
                                               /\ dt[i] <= hi[i] - hi[i - 1]
    <3>. HIDE DEF lo, hi, n
    <3>1. ASSUME NEW i \in 1 .. n PROVE dt[i] \in Int /\ lo[i] - lo[i - 1] <= dt[i]
                                          /\ dt[i] <= hi[i] - hi[i - 1]
      BY <1>5
    <3>. QED BY <1>1, <3>1
  <2>2. lo[0] <= 0 /\ 0 <= hi[0]
    BY <1>4
  <2>3. /\ Len(dt) \in Nat
        /\ lo \in [0 .. Len(dt) -> Int] /\ hi \in [0 .. Len(dt) -> Int]
    BY <1>1, <1>4
  <2>. HIDE DEF lo, hi, n
  <2>4. SumOf(dt) \in lo[Len(dt)] .. hi[Len(dt)]
    BY <2>1, <2>2, <2>3, SumBetween
  <2>. QED BY <1>1, <2>4
<1>7. lo[n] = 0 /\ hi[n] = m.imu[n] - last_imu /\ m.imu[n] \in Int /\ m.imu[n] <= m.end
  <2>1. n \in 0 .. n /\ n \in 1 .. n /\ v[n + 1] = m.imu[n] /\ m.imu[n] \in Int
    <3>. HIDE DEF n
    <3>. QED BY <1>1, <1>2
  <2>. HIDE DEF n
  <2>. QED BY <1>2, <2>1
<1>. HIDE DEF lo, hi, n
<1>8. SumOf(dt) \in 0 .. m.imu[n] - last_imu
  BY <1>6, <1>7
<1>. QED BY <1>1, <1>2, <1>7, <1>8
-----------------------------------------------------------------------------
(* The clocks of the node in every execution, both clocks free to be set    *)
(* back.                                                                    *)

FilterClock ==
    /\ last_imu \in Int /\ last_lidar_end_time \in Int
    /\ undistorted => ~imu_need_init /\ last_imu <= last_lidar_end_time

Clocks == Buffers /\ ImuInOrder /\ FilterClock

LEMMA ClocksInit == Init => Clocks
<1>. SUFFICES ASSUME Init PROVE Clocks
  OBVIOUS
<1>1. /\ lidar_buffer = <<>> /\ time_buffer = <<>> /\ imu_buffer = <<>>
      /\ last_timestamp_imu = -1 /\ scan_num = 0 /\ scan_time = 0
      /\ Measures = [scan |-> NoScan, beg |-> 0, end |-> 0, imu |-> <<>>]
      /\ last_imu = 0 /\ last_lidar_end_time \in Garbage /\ ~undistorted
  BY DEF Init, SyncInit
<1>2. FilterClock
  BY <1>1, MappingAssumption DEF MappingAssumption, FilterClock
<1>3. /\ Measures.end = 0
      /\ Measures = [scan |-> Measures.scan, beg |-> Measures.beg,
                     end |-> Measures.end, imu |-> Measures.imu]
  BY <1>1
<1>4. Buffers
  BY <1>1, <1>3, EmptySeq DEF Buffers
<1>5. ImuInOrder
  BY <1>1, EmptySeq DEF ImuInOrder, Increasing
<1>. QED BY <1>2, <1>4, <1>5 DEF Clocks

LEMMA ImuCallbackOrder == ASSUME ImuInOrder, imu_cbk PROVE ImuInOrder'
<1>1. PICK stamp \in Stamp :
        /\ imu_buffer' = Append(IF stamp < last_timestamp_imu THEN <<>> ELSE imu_buffer, stamp)
        /\ last_timestamp_imu' = stamp
        /\ \/ stamp \in last_timestamp_imu + 1 .. last_timestamp_imu + ImuGap
           \/ last_timestamp_imu = -1
           \/ ImuLoopBack /\ stamp < last_timestamp_imu
  BY DEF imu_cbk
<1>2. stamp \in Nat /\ last_timestamp_imu \in Int
  BY StampIsNat DEF ImuInOrder
<1>3. CASE stamp < last_timestamp_imu
  <2>1. imu_buffer' = <<stamp>>
    BY <1>1, <1>3
  <2>2. <<stamp>> \in Seq(Nat) /\ Len(<<stamp>>) = 1 /\ <<stamp>>[1] = stamp
    BY <1>2
  <2>. QED BY <1>1, <1>2, <2>1, <2>2 DEF ImuInOrder, Increasing
<1>4. CASE ~(stamp < last_timestamp_imu)
  <2>. DEFINE b == imu_buffer
  <2>1. imu_buffer' = Append(b, stamp)
    BY <1>1, <1>4
  <2>2. /\ b \in Seq(Nat) /\ Len(b) \in Nat
        /\ \A i, j \in 1 .. Len(b) : i < j => b[i] < b[j]
        /\ \A i \in 1 .. Len(b) : b[i] <= last_timestamp_imu /\ b[i] \in Nat
    BY DEF ImuInOrder, Increasing
  <2>3. stamp > last_timestamp_imu
    BY <1>1, <1>2, <1>4
  <2>. HIDE DEF b
  <2>. DEFINE a == Append(b, stamp)
  <2>4. /\ a \in Seq(Nat) /\ Len(a) = Len(b) + 1 /\ a[Len(b) + 1] = stamp
        /\ \A i \in 1 .. Len(b) : a[i] = b[i]
    BY <1>2, <2>2, AppendProperties
  <2>. HIDE DEF a
  <2>5. \A i \in 1 .. Len(a) : i \in 1 .. Len(b) \/ i = Len(b) + 1
    BY <2>2, <2>4
  <2>6. ASSUME NEW i \in 1 .. Len(a)
        PROVE  a[i] \in Nat /\ a[i] <= stamp /\ (i \in 1 .. Len(b) => a[i] < stamp)
    <3>1. CASE i \in 1 .. Len(b)
      <4>1. a[i] = b[i] /\ b[i] \in Nat /\ b[i] <= last_timestamp_imu
        BY <2>2, <2>4, <3>1
      <4>. QED BY <1>2, <2>3, <4>1
    <3>2. CASE i = Len(b) + 1
      BY <1>2, <2>2, <2>4, <3>2
    <3>. QED BY <2>5, <3>1, <3>2
  <2>7. ASSUME NEW i \in 1 .. Len(a), NEW j \in 1 .. Len(a), i < j PROVE a[i] < a[j]
    <3>1. i \in 1 .. Len(b)
      BY <2>2, <2>4, <2>7
    <3>2. CASE j \in 1 .. Len(b)
      BY <2>2, <2>4, <2>7, <3>1, <3>2
    <3>3. CASE j = Len(b) + 1
      BY <2>4, <2>6, <3>1, <3>3
    <3>. QED BY <2>5, <3>2, <3>3
  <2>8. imu_buffer' = a /\ last_timestamp_imu' = stamp
    BY <1>1, <2>1 DEF a
  <2>9. Increasing(a)
    BY <2>7 DEF Increasing
  <2>10. \A i \in 1 .. Len(a) : a[i] <= stamp
    BY <2>6
  <2>. QED BY <1>2, <2>4, <2>8, <2>9, <2>10 DEF ImuInOrder
<1>. QED BY <1>3, <1>4

LEMMA BuffersStep == ASSUME Buffers, Receive \/ WaitForImu PROVE Buffers'
<1>1. CASE livox_pcl_cbk
  <2>1. PICK s \in Scan :
          /\ lidar_buffer' = Append(ScansAfter(s.stamp), s)
          /\ time_buffer' = Append(time_buffer, s.stamp)
          /\ UNCHANGED <<Measures, mean>>
    BY <1>1 DEF livox_pcl_cbk
  <2>2. ScansAfter(s.stamp) \in Seq(Scan) /\ Len(ScansAfter(s.stamp)) <= Len(time_buffer)
    BY EmptySeq DEF ScansAfter, Buffers
  <2>3. s.stamp \in Stamp
    BY ScanIsNotNoScan
  <2>. QED BY <2>1, <2>2, <2>3 DEF Buffers, mean
<1>2. CASE imu_cbk
  BY <1>2 DEF imu_cbk, mean, Buffers
<1>3. CASE WaitForImu
  <2>1. Ready /\ Measures' = Pushed /\ CountScan /\ UNCHANGED <<lidar_buffer, time_buffer>>
    BY <1>3 DEF WaitForImu
  <2>2. Measures'.end \in Int
        /\ Measures' = [scan |-> Measures'.scan, beg |-> Measures'.beg,
                        end |-> Measures'.end, imu |-> Measures'.imu]
    BY <2>1, PushedEnd
  <2>3. scan_num' \in Nat /\ scan_time' \in Nat
    <3>1. Head(lidar_buffer) \in Scan
      BY <2>1 DEF Ready, Buffers
    <3>2. Head(lidar_buffer).last \in Nat
      BY <3>1, LastIsNat
    <3>. QED BY <2>1, <3>2 DEF CountScan, mean, Buffers
  <2>4. /\ lidar_buffer' \in Seq(Scan) /\ time_buffer' \in Seq(Stamp)
        /\ Len(lidar_buffer') <= Len(time_buffer')
    BY <2>1 DEF Buffers
  <2>. QED BY <2>2, <2>3, <2>4, Zenon DEF Buffers
<1>. QED BY <1>1, <1>2, <1>3 DEF Receive

\* The package NextScan hands to Process.
LEMMA PackageIsGood ==
  ASSUME Clocks, Package, Measures'.imu # <<>>
  PROVE  GoodPackage(Measures')
  BY PackageSamples, Zenon DEF Clocks, Buffers, FilterClock, GoodPackage

LEMMA ProcessClock ==
  ASSUME Clocks, Package, Process(Measures')
  PROVE  FilterClock'
<1>1. CASE NoImu(Measures')
  BY <1>1 DEF NoImu, imu_state, Clocks, FilterClock
<1>. DEFINE m == Measures'  n == Len(m.imu)
<1>2. ASSUME m.imu # <<>> PROVE m.end \in Int /\ m.imu[n] \in Nat /\ m.imu[n] <= m.end
  <2>1. GoodPackage(m)
    BY <1>2, PackageIsGood
  <2>. HIDE DEF m
  <2>2. n \in 1 .. n
    BY <2>1, EmptySeq DEF GoodPackage
  <2>. QED BY <2>1, <2>2 DEF GoodPackage
<1>3. CASE IMU_init(Measures')
  <2>1. /\ m.imu # <<>> /\ imu_need_init /\ last_imu' = m.imu[n]
        /\ UNCHANGED <<last_lidar_end_time, undistorted>>
    BY <1>3 DEF IMU_init
  <2>. HIDE DEF m, n
  <2>. QED BY <1>2, <2>1 DEF Clocks, FilterClock
<1>4. CASE UndistortPcl(Measures')
  <2>1. /\ m.imu # <<>> /\ ~imu_need_init /\ last_imu' = m.imu[n]
        /\ last_lidar_end_time' = m.end /\ imu_need_init' = imu_need_init
    BY <1>4 DEF UndistortPcl
  <2>. HIDE DEF m, n
  <2>. QED BY <1>2, <2>1 DEF Clocks, FilterClock
<1>. QED BY <1>1, <1>3, <1>4 DEF Process

LEMMA ClocksStep == ASSUME Clocks, [Next]_vars PROVE Clocks'
<1>1. CASE Receive /\ UNCHANGED imu_state
  <2>1. Buffers'
    BY <1>1, BuffersStep DEF Clocks
  <2>2. ImuInOrder'
    <3>1. CASE imu_cbk
      BY <3>1, ImuCallbackOrder DEF Clocks
    <3>2. CASE livox_pcl_cbk
      BY <3>2 DEF livox_pcl_cbk, Clocks, ImuInOrder, Increasing
    <3>. QED BY <1>1, <3>1, <3>2 DEF Receive
  <2>3. FilterClock'
    BY <1>1 DEF imu_state, Clocks, FilterClock
  <2>. QED BY <2>1, <2>2, <2>3 DEF Clocks
<1>2. CASE WaitForImu /\ UNCHANGED imu_state
  <2>1. Buffers'
    BY <1>2, BuffersStep DEF Clocks
  <2>2. ImuInOrder'
    BY <1>2 DEF WaitForImu, clocks, Clocks, ImuInOrder, Increasing
  <2>3. FilterClock'
    BY <1>2 DEF imu_state, Clocks, FilterClock
  <2>. QED BY <2>1, <2>2, <2>3 DEF Clocks
<1>3. CASE Package /\ (UNCHANGED imu_state \/ Process(Measures'))
  <2>1. Buffers' /\ ImuInOrder'
    BY <1>3, PackageSamples DEF Clocks
  <2>2. FilterClock'
    <3>1. CASE UNCHANGED imu_state
      BY <3>1 DEF imu_state, Clocks, FilterClock
    <3>2. CASE Process(Measures')
      BY <1>3, <3>2, ProcessClock
    <3>. QED BY <1>3, <3>1, <3>2
  <2>. QED BY <2>1, <2>2 DEF Clocks
<1>4. CASE UNCHANGED vars
  BY <1>4 DEF vars, sync, clocks, mean, imu_state, Clocks, Buffers, ImuInOrder, Increasing, FilterClock
<1>. QED BY <1>1, <1>2, <1>3, <1>4 DEF Next, Callback, Wait, FirstScan, NextScan

\* Whichever clock is set back when: the samples waiting are in order, and the
\* filter never used a sample after the end of the scan it undistorted last.
THEOREM ClocksCorrect == Spec => []Clocks
BY ClocksInit, ClocksStep, PTL DEF Spec

\* UndistortPcl propagates the filter from the end of the last scan to the end of
\* this one, each moment once, however the samples fell into the packages.
THEOREM PropagationExactCorrect == Spec => PropagationExact
<1>1. ASSUME Clocks, [Next]_vars, undistorted, last_lidar_end_time' # last_lidar_end_time,
             last_lidar_end_time <= last_imu'
      PROVE  propagated' = last_lidar_end_time' - last_lidar_end_time
  <2>1. Package /\ UndistortPcl(Measures')
    BY <1>1 DEF Next, Callback, Wait, FirstScan, NextScan, Process, NoImu, IMU_init,
                imu_state, vars
  <2>2. GoodPackage(Measures')
    BY <1>1, <2>1, PackageIsGood DEF UndistortPcl
  <2>3. last_imu <= last_lidar_end_time
    BY <1>1 DEF Clocks, FilterClock
  <2>4. /\ propagated' = Propagation(Measures')
        /\ last_imu' = Measures'.imu[Len(Measures'.imu)]
        /\ last_lidar_end_time' = Measures'.end
    BY <2>1 DEF UndistortPcl
  <2>5. last_lidar_end_time <= Measures'.imu[Len(Measures'.imu)]
    BY <1>1, <2>4
  <2>6. Propagation(Measures') = Measures'.end - last_lidar_end_time
    BY <2>2, <2>3, <2>5, PropagationFromEnd
  <2>. QED BY <2>4, <2>6
<1>2. Clocks /\ [Next]_vars
      => [undistorted /\ last_lidar_end_time' # last_lidar_end_time
            /\ last_lidar_end_time <= last_imu'
             => propagated' = last_lidar_end_time' - last_lidar_end_time]_vars
  BY <1>1
<1>. QED BY <1>2, ClocksCorrect, PTL DEF Spec, PropagationExact

\* Whatever value the uninitialised last_lidar_end_time_ has.
THEOREM FirstPropagationCorrect == Spec => FirstPropagation
<1>1. ASSUME Clocks, [Next]_vars, ~undistorted, undistorted', last_imu <= Measures'.imu[1]
      PROVE  propagated' \in 0 .. last_lidar_end_time' - last_imu
  <2>1. Package /\ UndistortPcl(Measures')
    BY <1>1 DEF Next, Callback, Wait, FirstScan, NextScan, Process, NoImu, IMU_init,
                imu_state, vars
  <2>2. GoodPackage(Measures')
    BY <1>1, <2>1, PackageIsGood DEF UndistortPcl
  <2>3. propagated' = Propagation(Measures') /\ last_lidar_end_time' = Measures'.end
    BY <2>1 DEF UndistortPcl
  <2>4. Propagation(Measures') \in 0 .. Measures'.end - last_imu
    BY <1>1, <2>2, PropagationBounded
  <2>. QED BY <2>3, <2>4
<1>2. Clocks /\ [Next]_vars
      => [~undistorted /\ undistorted' /\ last_imu <= Measures'.imu[1]
            => propagated' \in 0 .. last_lidar_end_time' - last_imu]_vars
  BY <1>1
<1>. QED BY <1>2, ClocksCorrect, PTL DEF Spec, FirstPropagation
-----------------------------------------------------------------------------
(* The times of the published odometry, while the lidar's clock runs on.   *)

\* The mean length of the scans is at most a period.
MeanBounded == scan_time <= scan_num * Period

\* The scans waiting are a period apart, none after the lidar's clock.
ScansInOrder ==
    /\ \A i, j \in 1 .. Len(time_buffer) : i < j => time_buffer[i] + Period <= time_buffer[j]
    /\ \A i \in 1 .. Len(time_buffer) : time_buffer[i] <= last_timestamp_lidar

\* A scan ends within a period of its begin, and after it if it has points.
EndInTime(m) ==
    /\ m.end <= m.beg + Period
    /\ m.scan.last > 0 => m.beg < m.end

\* The odometry is no later than any scan still to be delivered, and there is
\* no cloud and no map before the IMU is initialised.
OdomInOrder ==
    /\ odom.stamp \in Int /\ odom.stamp <= last_timestamp_lidar + Period
    /\ \A i \in 1 .. Len(time_buffer) : odom.stamp <= time_buffer[i]
    /\ imu_need_init => ~has_map /\ feats_undistort.last = 0

InTime ==
    /\ Inv /\ Buffers /\ MeanBounded /\ ScansInOrder
    /\ lidar_pushed => EndInTime(Measures)

LEMMA QuotientAtMost ==
  ASSUME NEW a \in Nat, NEW b \in Nat, b > 0, NEW p \in Nat, a <= b * p
  PROVE  a \div b <= p
<1>. DEFINE q == a \div b
<1>1. q \in Int /\ b * q <= a
  BY SMT
<1>. HIDE DEF q
<1>2. SUFFICES ASSUME q >= p + 1 PROVE FALSE
  BY <1>1 DEF q
<1>3. b * (q - (p + 1)) >= 0
  BY <1>1, <1>2, SMT
<1>4. b * (q - (p + 1)) = b * q - b * p - b
  BY <1>1, SMT
<1>. QED BY <1>1, <1>3, <1>4

LEMMA QuotientAtLeastOne ==
  ASSUME NEW a \in Nat, NEW b \in Nat, b > 0, b <= a PROVE a \div b >= 1
  BY SMT

\* The end of the oldest scan (EndTime).
LEMMA EndTimeInTime ==
  ASSUME Buffers, MeanBounded, NEW s \in Scan, time_buffer # <<>>
  PROVE  /\ EndTime(s) \in Int /\ EndTime(s) <= Head(time_buffer) + Period
         /\ s.last > 0 => Head(time_buffer) < EndTime(s)
<1>1. /\ Head(time_buffer) \in Nat /\ s.last \in Nat /\ s.last <= Period /\ Period \in Nat \ {0}
      /\ scan_num \in Nat /\ scan_time \in Nat /\ scan_time <= scan_num * Period
  BY StampIsNat, LastIsNat, SyncAssumption DEF SyncAssumption, Buffers, MeanBounded
<1>2. MeanScanTime \in Nat /\ MeanScanTime <= Period
  <2>1. CASE scan_num = 0
    BY <1>1, <2>1 DEF MeanScanTime
  <2>2. CASE scan_num # 0
    <3>1. scan_time \div scan_num \in Nat
      BY <1>1, <2>2
    <3>2. scan_time \div scan_num <= Period
      BY <1>1, <2>2, QuotientAtMost
    <3>. QED BY <2>2, <3>1, <3>2 DEF MeanScanTime
  <2>. QED BY <2>1, <2>2
<1>3. ASSUME TooShort(s), s.last > 0 PROVE MeanScanTime >= 1
  <2>1. 2 * scan_num * s.last < scan_time
    BY <1>1, <1>3 DEF TooShort
  <2>2. scan_num * (s.last - 1) >= 0 /\ scan_num * (s.last - 1) = scan_num * s.last - scan_num
    BY <1>1, <1>3, SMT
  <2>3. 2 * scan_num * s.last = 2 * (scan_num * s.last) /\ scan_num * s.last \in Int
    BY <1>1, SMT
  <2>4. scan_num <= scan_time /\ 0 < scan_time
    BY <1>1, <2>1, <2>2, <2>3
  <2>5. scan_num # 0
    BY <1>1, <2>4
  <2>. QED BY <1>1, <2>4, <2>5, QuotientAtLeastOne DEF MeanScanTime
<1>. QED BY <1>1, <1>2, <1>3 DEF EndTime

\* The scan being delivered.
LEMMA PushedInTime ==
  ASSUME InTime, Ready
  PROVE  /\ EndInTime(Pushed)
         /\ Pushed.end \in Int /\ Pushed.beg \in Nat
         /\ time_buffer # <<>> /\ Pushed.beg = Head(time_buffer)
<1>1. /\ lidar_buffer # <<>> /\ time_buffer # <<>> /\ Head(lidar_buffer) \in Scan
      /\ Head(time_buffer) \in Nat /\ Head(time_buffer) = Head(lidar_buffer).stamp
  BY StampIsNat DEF InTime, Inv, Shape, QueuesAligned, Ready
<1>2. Pushed.beg = Head(time_buffer) /\ Pushed.end \in Int /\ Pushed.scan = Head(lidar_buffer)
  BY <1>1, PushedIsHead, PushedEnd DEF InTime
<1>3. EndInTime(Pushed)
  <2>1. CASE lidar_pushed
    BY <2>1 DEF Pushed, InTime
  <2>2. CASE ~lidar_pushed
    <3>1. Pushed.end = EndTime(Head(lidar_buffer))
      BY <2>2 DEF Pushed, InTime, Buffers
    <3>. QED BY <1>1, <1>2, <3>1, EndTimeInTime DEF EndInTime, InTime
  <2>. QED BY <2>1, <2>2
<1>. QED BY <1>1, <1>2, <1>3

LEMMA CountScanBounded ==
  ASSUME InTime, Ready, CountScan PROVE MeanBounded'
<1>1. /\ scan_num \in Nat /\ scan_time \in Nat /\ scan_time <= scan_num * Period
      /\ Head(lidar_buffer).last \in Nat /\ Head(lidar_buffer).last <= Period /\ Period \in Nat
  <2>1. Head(lidar_buffer) \in Scan
    BY DEF InTime, Buffers, Ready
  <2>. QED BY <2>1, LastIsNat, SyncAssumption DEF SyncAssumption, InTime, Buffers, MeanBounded
<1>2. CASE UNCHANGED mean
  BY <1>1, <1>2 DEF mean, MeanBounded
<1>3. CASE scan_num' = scan_num + 1 /\ scan_time' = scan_time + Head(lidar_buffer).last
  <2>1. (scan_num + 1) * Period = scan_num * Period + Period /\ scan_num * Period \in Int
    BY <1>1, SMT
  <2>. QED BY <1>1, <1>3, <2>1 DEF MeanBounded
<1>. QED BY <1>2, <1>3 DEF CountScan

\* Each scan is a period after the one before.
LEMMA LidarCallbackInTime ==
  ASSUME InTime, ~LidarLoopBack, livox_pcl_cbk
  PROVE  /\ InTime' /\ last_timestamp_lidar' >= last_timestamp_lidar + Period
         /\ \A i \in 1 .. Len(time_buffer') :
               \/ i \in 1 .. Len(time_buffer) /\ time_buffer'[i] = time_buffer[i]
               \/ time_buffer'[i] = last_timestamp_lidar'
<1>1. PICK s \in Scan :
        /\ s.stamp >= last_timestamp_lidar + Period
        /\ time_buffer' = Append(time_buffer, s.stamp)
        /\ last_timestamp_lidar' = s.stamp
        /\ UNCHANGED <<lidar_pushed, Measures, mean>>
  BY DEF livox_pcl_cbk
<1>2. Inv' /\ Buffers'
  BY LidarCallbackInv, BuffersStep DEF InTime, Receive
<1>3. s.stamp \in Nat /\ Period \in Nat \ {0} /\ last_timestamp_lidar \in Nat
  BY ScanIsNotNoScan, SyncAssumption DEF SyncAssumption, InTime, Inv, Shape
<1>. DEFINE tb == time_buffer
<1>4. /\ Len(tb) \in Nat /\ \A i \in 1 .. Len(tb) : tb[i] \in Nat /\ tb[i] <= last_timestamp_lidar
      /\ \A i, j \in 1 .. Len(tb) : i < j => tb[i] + Period <= tb[j]
  BY StampIsNat DEF InTime, Buffers, ScansInOrder
<1>5. /\ Len(tb') = Len(tb) + 1 /\ tb'[Len(tb) + 1] = s.stamp
      /\ \A i \in 1 .. Len(tb) : tb'[i] = tb[i]
  BY <1>1 DEF InTime, Buffers
<1>. HIDE DEF tb
<1>6. \A i \in 1 .. Len(tb') : i \in 1 .. Len(tb) \/ i = Len(tb) + 1
  BY <1>4, <1>5
<1>7. ASSUME NEW i \in 1 .. Len(tb') PROVE tb'[i] <= s.stamp
  BY <1>1, <1>3, <1>4, <1>5, <1>6
<1>8. ASSUME NEW i \in 1 .. Len(tb'), NEW j \in 1 .. Len(tb'), i < j
      PROVE  tb'[i] + Period <= tb'[j]
  <2>1. i \in 1 .. Len(tb)
    BY <1>4, <1>5, <1>8
  <2>2. CASE j \in 1 .. Len(tb)
    BY <1>4, <1>5, <1>8, <2>1, <2>2
  <2>3. CASE j = Len(tb) + 1
    <3>1. tb'[i] \in Nat /\ tb'[i] <= last_timestamp_lidar /\ tb'[j] = s.stamp
      BY <1>4, <1>5, <2>1, <2>3
    <3>. QED BY <1>1, <1>3, <3>1
  <2>. QED BY <1>6, <2>2, <2>3
<1>9. ScansInOrder'
  BY <1>1, <1>7, <1>8 DEF ScansInOrder, tb
<1>10. MeanBounded' /\ (lidar_pushed' => EndInTime(Measures'))
  BY <1>1 DEF InTime, MeanBounded, mean
<1>11. \A i \in 1 .. Len(tb') : (i \in 1 .. Len(tb) /\ tb'[i] = tb[i]) \/ tb'[i] = s.stamp
  BY <1>5, <1>6
<1>. QED BY <1>1, <1>2, <1>9, <1>10, <1>11 DEF InTime, tb

\* A scan that waits for the IMU, and one that is delivered.
LEMMA SyncInTime ==
  ASSUME InTime, ImuInOrder, WaitForImu \/ Package
  PROVE  InTime' /\ EndInTime(Measures')
<1>1. /\ Ready /\ CountScan /\ last_timestamp_lidar' = last_timestamp_lidar
      /\ Measures'.end = Pushed.end /\ Measures'.beg = Pushed.beg /\ Measures'.scan = Pushed.scan
  <2>1. Ready => Pushed = [scan |-> Pushed.scan, beg |-> Pushed.beg,
                           end |-> Pushed.end, imu |-> Pushed.imu]
    BY PushedEnd DEF InTime
  <2>. QED BY <2>1 DEF WaitForImu, Package, clocks
<1>2. EndInTime(Measures')
  BY <1>1, PushedInTime DEF EndInTime
<1>3. MeanBounded'
  BY <1>1, CountScanBounded
<1>4. CASE WaitForImu
  <2>1. Inv' /\ Buffers' /\ time_buffer' = time_buffer
    BY <1>4, WaitForImuInv, BuffersStep DEF InTime, WaitForImu
  <2>. QED BY <1>1, <1>2, <1>3, <2>1 DEF InTime, ScansInOrder
<1>5. CASE Package
  <2>1. Inv' /\ time_buffer' = Tail(time_buffer) /\ ~lidar_pushed'
    BY <1>5, PackageInv DEF InTime, Package
  <2>2. Buffers'
    BY <1>5, PackageSamples DEF InTime
  <2>3. time_buffer # <<>> /\ time_buffer \in Seq(Stamp)
    BY <1>1, PushedInTime DEF InTime, Buffers
  <2>. DEFINE tb == time_buffer
  <2>4. Len(tb) \in Nat /\ Len(tb') = Len(tb) - 1
        /\ \A i \in 1 .. Len(tb') : tb'[i] = tb[i + 1] /\ i + 1 \in 1 .. Len(tb)
    BY <2>1, <2>3
  <2>5. /\ \A i \in 1 .. Len(tb) : tb[i] <= last_timestamp_lidar
        /\ \A i, j \in 1 .. Len(tb) : i < j => tb[i] + Period <= tb[j]
    BY DEF InTime, ScansInOrder
  <2>. HIDE DEF tb
  <2>6. /\ \A i \in 1 .. Len(tb') : tb'[i] <= last_timestamp_lidar
        /\ \A i, j \in 1 .. Len(tb') : i < j => tb'[i] + Period <= tb'[j]
    <3>1. \A i, j \in 1 .. Len(tb') : i < j => i + 1 < j + 1
      BY <2>4
    <3>. QED BY <2>4, <2>5, <3>1
  <2>7. ScansInOrder'
    BY <1>1, <2>6 DEF ScansInOrder, tb
  <2>. QED BY <1>2, <1>3, <2>1, <2>2, <2>7, Zenon DEF InTime
<1>. QED BY <1>2, <1>4, <1>5

LEMMA InTimeInit == Init => InTime /\ OdomInOrder
<1>. SUFFICES ASSUME Init PROVE InTime /\ OdomInOrder
  OBVIOUS
<1>1. Inv /\ Buffers
  BY InvInit, ClocksInit DEF Init, Clocks
<1>2. /\ time_buffer = <<>> /\ scan_num = 0 /\ scan_time = 0 /\ ~lidar_pushed
      /\ last_timestamp_lidar = 0 /\ odom = [scan |-> NoScan, stamp |-> -1]
      /\ feats_undistort = NoScan /\ has_map = FALSE
  BY DEF Init, SyncInit
<1>3. Period \in Nat
  BY SyncAssumption DEF SyncAssumption
<1>4. ScansInOrder /\ MeanBounded
  BY <1>2, <1>3 DEF ScansInOrder, MeanBounded
<1>5. OdomInOrder
  BY <1>2, <1>3 DEF OdomInOrder, NoScan
<1>. QED BY <1>1, <1>2, <1>4, <1>5 DEF InTime

\* What a step of the main loop does to the published odometry.
LEMMA OdomStep ==
  ASSUME ~LidarLoopBack, Clocks, InTime, OdomInOrder, [Next]_vars
  PROVE  /\ InTime' /\ OdomInOrder'
         /\ odom' # odom /\ Measures'.imu # <<>>
              => /\ odom'.scan = Measures'.scan
                 /\ odom'.stamp = last_lidar_end_time'
                 /\ odom'.stamp > odom.stamp
<1>. DEFINE up == <<odom, has_map, imu_need_init, feats_undistort>>
<1>0. Period \in Nat /\ last_timestamp_lidar \in Nat /\ odom.stamp \in Int
  BY SyncAssumption DEF SyncAssumption, InTime, Inv, Shape, OdomInOrder
<1>1. CASE livox_pcl_cbk /\ UNCHANGED up
  <2>1. /\ InTime' /\ last_timestamp_lidar' >= last_timestamp_lidar + Period
        /\ \A i \in 1 .. Len(time_buffer') :
              \/ i \in 1 .. Len(time_buffer) /\ time_buffer'[i] = time_buffer[i]
              \/ time_buffer'[i] = last_timestamp_lidar'
    BY <1>1, LidarCallbackInTime
  <2>2. last_timestamp_lidar' \in Nat
    BY <2>1 DEF InTime, Inv, Shape
  <2>3. OdomInOrder'
    BY <1>0, <1>1, <2>1, <2>2 DEF OdomInOrder
  <2>. QED BY <1>1, <2>1, <2>3
<1>2. CASE imu_cbk /\ UNCHANGED up
  <2>1. Inv' /\ Buffers'
    BY <1>2, BuffersStep DEF InTime, Receive, imu_cbk, Inv, Shape, QueuesAligned, ScanKeepsItsTime
  <2>2. UNCHANGED <<time_buffer, last_timestamp_lidar, lidar_pushed, Measures, mean>>
    BY <1>2 DEF imu_cbk
  <2>. QED BY <1>2, <2>1, <2>2 DEF InTime, MeanBounded, ScansInOrder, OdomInOrder, mean
<1>3. CASE WaitForImu /\ UNCHANGED up
  <2>1. InTime'
    BY <1>3, SyncInTime DEF Clocks
  <2>. QED BY <1>3, <2>1 DEF WaitForImu, clocks, OdomInOrder
<1>4. CASE Package /\ (UNCHANGED up \/ (Process(Measures') /\ Match(Measures')))
  <2>1. InTime' /\ EndInTime(Measures')
    BY <1>4, SyncInTime DEF Clocks
  <2>. DEFINE tb == time_buffer  m == Measures'
  <2>2. /\ Len(tb) \in Nat \ {0} /\ m.beg = tb[1] /\ m.beg \in Nat /\ m.end \in Int
        /\ tb' = Tail(tb) /\ last_timestamp_lidar' = last_timestamp_lidar
    <3>1. Ready /\ tb' = Tail(tb) /\ last_timestamp_lidar' = last_timestamp_lidar
      BY <1>4 DEF Package, clocks
    <3>2. m.beg = Pushed.beg /\ m.end = Pushed.end
      BY <1>4, PackageSamples DEF Clocks
    <3>3. Pushed.beg = Head(tb) /\ Pushed.beg \in Nat /\ Pushed.end \in Int /\ tb # <<>>
      BY <3>1, PushedInTime
    <3>4. tb \in Seq(Stamp)
      BY DEF InTime, Buffers
    <3>. QED BY <3>1, <3>2, <3>3, <3>4
  <2>3. /\ \A i \in 1 .. Len(tb) : tb[i] <= last_timestamp_lidar /\ odom.stamp <= tb[i]
        /\ \A i, j \in 1 .. Len(tb) : i < j => tb[i] + Period <= tb[j]
        /\ tb \in Seq(Nat)
    BY StampIsNat DEF InTime, ScansInOrder, OdomInOrder, Buffers
  <2>4. /\ Len(tb') = Len(tb) - 1
        /\ \A i \in 1 .. Len(tb') : tb'[i] = tb[i + 1] /\ i + 1 \in 1 .. Len(tb)
    BY <2>2, <2>3
  <2>5. m.end <= last_timestamp_lidar + Period /\ odom.stamp <= m.beg
        /\ \A i \in 1 .. Len(tb') : m.end <= tb'[i] /\ odom.stamp <= tb'[i]
    <3>. HIDE DEF tb, m
    <3>1. m.end <= m.beg + Period
      BY <2>1 DEF EndInTime, m
    <3>2. odom.stamp <= m.beg /\ m.beg <= last_timestamp_lidar
      BY <2>2, <2>3
    <3>3. ASSUME NEW i \in 1 .. Len(tb') PROVE m.end <= tb'[i] /\ odom.stamp <= tb'[i]
      <4>1. i + 1 \in 1 .. Len(tb) /\ 1 < i + 1 /\ 1 \in 1 .. Len(tb) /\ tb'[i] = tb[i + 1]
        BY <2>2, <2>4
      <4>2. tb[1] + Period <= tb[i + 1] /\ tb[i + 1] \in Nat /\ odom.stamp <= tb[i + 1]
        BY <2>3, <4>1
      <4>. QED BY <1>0, <2>2, <3>1, <4>1, <4>2
    <3>. QED BY <1>0, <2>2, <3>1, <3>2, <3>3
  <2>6. odom' = odom \/ odom'.stamp = m.end
    BY <1>4 DEF Match
  <2>7. /\ odom'.stamp \in Int /\ odom'.stamp <= last_timestamp_lidar' + Period
        /\ \A i \in 1 .. Len(tb') : odom'.stamp <= tb'[i]
    <3>. HIDE DEF tb, m
    <3>1. odom.stamp <= last_timestamp_lidar + Period
      BY DEF OdomInOrder
    <3>. QED BY <1>0, <2>2, <2>5, <2>6, <3>1
  <2>8. CASE UNCHANGED up
    BY <2>1, <2>7, <2>8 DEF OdomInOrder
  <2>9. CASE Match(m) /\ (NoImu(m) \/ IMU_init(m))
    <3>. HIDE DEF m
    <3>1. /\ \/ m.imu = <<>> /\ UNCHANGED imu_need_init
             \/ m.imu # <<>> /\ imu_need_init
          /\ UNCHANGED feats_undistort
      BY <2>9 DEF NoImu, IMU_init, imu_state
    <3>2. imu_need_init => ~has_map /\ ~(feats_undistort'.last > 0) /\ feats_undistort'.last = 0
      BY <3>1 DEF OdomInOrder
    <3>3. imu_need_init => odom' = odom /\ ~has_map' /\ feats_undistort'.last = 0
      BY <2>9, <3>2, Zenon DEF Match
    <3>4. OdomInOrder'
      BY <2>7, <3>1, <3>3 DEF OdomInOrder
    <3>. QED BY <2>1, <3>1, <3>3, <3>4 DEF m
  <2>10. CASE Match(m) /\ UndistortPcl(m)
    <3>1. ~imu_need_init' /\ feats_undistort' = m.scan /\ last_lidar_end_time' = m.end
      BY <2>10 DEF UndistortPcl
    <3>2. OdomInOrder'
      BY <2>7, <3>1 DEF OdomInOrder
    <3>3. odom' # odom => odom' = [scan |-> m.scan, stamp |-> m.end] /\ m.scan.last > 0
      BY <2>10, <3>1 DEF Match
    <3>4. m.scan.last > 0 => m.end > m.beg
      BY <2>1 DEF EndInTime
    <3>5. odom' # odom => odom'.stamp > odom.stamp
      <4>. HIDE DEF m, tb
      <4>. QED BY <1>0, <2>2, <2>5, <3>3, <3>4
    <3>. QED BY <2>1, <3>1, <3>2, <3>3, <3>5
  <2>. QED BY <1>4, <2>8, <2>9, <2>10 DEF Process
<1>5. CASE UNCHANGED vars
  <2>1. /\ UNCHANGED <<lidar_buffer, time_buffer, last_timestamp_lidar, lidar_pushed, Measures>>
        /\ UNCHANGED mean /\ UNCHANGED up
    BY <1>5 DEF vars, sync, clocks, imu_state
  <2>2. Inv' /\ Buffers'
    BY <2>1 DEF mean, InTime, Inv, Shape, Buffers, QueuesAligned, ScanKeepsItsTime
  <2>3. InTime'
    BY <2>1, <2>2 DEF mean, InTime, MeanBounded, ScansInOrder
  <2>4. OdomInOrder'
    BY <2>1 DEF OdomInOrder
  <2>. QED BY <2>1, <2>3, <2>4
<1>6. UNCHANGED <<imu_state, has_map, odom>> => UNCHANGED up
  BY DEF imu_state
<1>. HIDE DEF up
<1>7. \/ (livox_pcl_cbk \/ imu_cbk \/ WaitForImu) /\ UNCHANGED up
      \/ Package /\ (UNCHANGED up \/ (Process(Measures') /\ Match(Measures')))
      \/ UNCHANGED vars
  <2>1. Callback => (livox_pcl_cbk \/ imu_cbk) /\ UNCHANGED <<imu_state, has_map, odom>>
    BY DEF Callback, Receive
  <2>2. Wait => WaitForImu /\ UNCHANGED <<imu_state, has_map, odom>>
    BY DEF Wait
  <2>3. FirstScan => Package /\ UNCHANGED <<imu_state, has_map, odom>>
    BY DEF FirstScan
  <2>4. NextScan => Package /\ Process(Measures') /\ Match(Measures')
    BY DEF NextScan
  <2>5. Callback \/ Wait \/ FirstScan \/ NextScan \/ UNCHANGED vars
    BY DEF Next
  <2>. QED BY <1>6, <2>1, <2>2, <2>3, <2>4, <2>5
<1>. QED BY <1>1, <1>2, <1>3, <1>4, <1>5, <1>7, Zenon

\* While the lidar's clock runs on, what is published is the cloud of the package,
\* at the time the filter was propagated to, and these times increase.
THEOREM OdometryFreshCorrect ==
  ASSUME ~LidarLoopBack PROVE Spec => OdometryFresh
<1>1. Init => InTime /\ OdomInOrder
  BY InTimeInit
<1>2. Clocks /\ (InTime /\ OdomInOrder) /\ [Next]_vars => (InTime /\ OdomInOrder)'
  BY OdomStep
<1>3. Clocks /\ (InTime /\ OdomInOrder) /\ [Next]_vars
      => [odom' # odom /\ Measures'.imu # <<>>
            => /\ odom'.scan = Measures'.scan
               /\ odom'.stamp = last_lidar_end_time'
               /\ odom'.stamp > odom.stamp]_vars
  BY OdomStep
<1>. QED BY <1>1, <1>2, <1>3, ClocksCorrect, PTL DEF Spec, OdometryFresh
=============================================================================
