-------------------------- MODULE PointQueue_proofs --------------------------
(***************************************************************************)
(* The point queue, for any number of lidars, rings of any size and        *)
(* indices of any width.  First its semaphore: the storing thread decides  *)
(* by an unlocked count and an unlocked look at the ring whether to        *)
(* signal, and yet the polling thread never sleeps over a packet.  Then    *)
(* its rings: filled and emptied with no lock, they keep every packet      *)
(* whole and in order.                                                     *)
(***************************************************************************)
EXTENDS PointQueue, SequenceTheorems, TLAPS

Typed ==
    /\ DOMAIN wr_idx = Lidar /\ DOMAIN rd_idx = Lidar
    /\ sampling \subseteq Lidar /\ heard \subseteq sampling
    /\ store_lidar \in Lidar /\ poll_lidar \in Lidar
    /\ store \in {"idle", "write", "copy", "index", "empty", "count", "signal"}
    /\ poll \in {"start", "wait", "lidar", "again", "read", "points", "pop", "inner",
                 "future", "done"}

\* Only the storing thread signals, and the count it saw can but fall.
CountIsBit == count \in {0, 1} /\ (store = "signal" => count = 0)

\* The polling thread has this lidar still before it.
Ahead(l) == poll \in {"lidar", "again", "read", "points", "pop", "inner"} /\ poll_lidar <= l

\* The storing thread has still to decide on a signal for this lidar's packet, or
\* will signal.
Deciding(l) == store \in {"count", "signal"} \/ (store = "empty" /\ store_lidar = l)

\* A packet is on its way: signalled, about to be, in the round that is under way, or
\* given up by the exit.
Noticed(l) ==
    count = 1 \/ Deciding(l) \/ Ahead(l) \/ (RequestedExit /\ poll # "wait")

AllNoticed == \A l \in heard : ~QueueIsEmpty(l) => Noticed(l)

WakeInv == Typed /\ CountIsBit /\ AllNoticed

LEMMA WakeInit == Init => WakeInv
  BY QueueAssumption DEF QueueAssumption, Init, Lidar, WakeInv, Typed, CountIsBit, AllNoticed

\* The storing thread.
LEMMA StoreWake == ASSUME WakeInv, Store PROVE WakeInv'
<1>1. UNCHANGED <<rd_idx, sampling, polling, driver>>
  BY DEF Store, PushLidarData, QueuePushAny, Write, PushIndex, CheckEmpty, GetCount, Signal,
         ring
<1>2. CASE PushIndex
  <2>1. Typed'
    BY <1>1, <1>2 DEF PushIndex, StoreStep, polling, WakeInv, Typed
  <2>2. CountIsBit'
    BY <1>2 DEF PushIndex, StoreStep, WakeInv, CountIsBit
  <2>3. ASSUME NEW l \in heard', ~QueueIsEmpty(l)' PROVE Noticed(l)'
    <3>1. CASE l = store_lidar
      BY <1>2, <3>1 DEF PushIndex, StoreStep, Noticed, Deciding
    <3>2. CASE l # store_lidar
      <4>1. l \in heard /\ ~QueueIsEmpty(l)
        BY <1>2, <2>3, <3>2 DEF PushIndex, QueueIsEmpty, WakeInv, Typed
      <4>2. Noticed(l) /\ ~Deciding(l)
        BY <1>2, <4>1 DEF PushIndex, StoreStep, WakeInv, AllNoticed, Deciding
      <4>. QED BY <1>1, <1>2, <4>2 DEF PushIndex, polling, Noticed, Ahead, RequestedExit
    <3>. QED BY <3>1, <3>2
  <2>. QED BY <2>1, <2>2, <2>3 DEF WakeInv, AllNoticed
<1>3. CASE (\E l \in Lidar : PushLidarData(l)) \/ QueuePushAny \/ CheckEmpty \/ GetCount
             \/ Signal
  <2>1. UNCHANGED <<wr_idx, heard>>
    BY <1>3 DEF PushLidarData, QueuePushAny, Write, CheckEmpty, GetCount, Signal, ring
  <2>2. Typed'
    BY <1>1, <1>3, <2>1 DEF PushLidarData, QueuePushAny, Write, CheckEmpty, GetCount, Signal,
         StoreStep, polling, WakeInv, Typed
  <2>3. CountIsBit'
    BY <1>3 DEF PushLidarData, QueuePushAny, Write, CheckEmpty, GetCount, Signal, StoreStep,
         WakeInv, CountIsBit
  <2>4. ASSUME NEW l \in heard, ~QueueIsEmpty(l) PROVE Noticed(l)'
    <3>1. Noticed(l)
      BY <2>4 DEF WakeInv, AllNoticed
    <3>2. CASE count = 1
      BY <1>3, <3>2 DEF PushLidarData, QueuePushAny, Write, CheckEmpty, GetCount, Signal,
         StoreStep, WakeInv, CountIsBit, Noticed
    <3>3. CASE Deciding(l) /\ count = 0
      BY <1>3, <2>4, <3>3 DEF PushLidarData, QueuePushAny, Write, CheckEmpty, GetCount, Signal,
         StoreStep, Deciding, Noticed
    <3>4. CASE Ahead(l) \/ (RequestedExit /\ poll # "wait")
      BY <1>1, <3>4 DEF polling, Noticed, Ahead, RequestedExit
    <3>. QED BY <3>1, <3>2, <3>3, <3>4 DEF Noticed, WakeInv, CountIsBit
  <2>5. \A l \in heard' : l \in heard /\ (QueueIsEmpty(l)' <=> QueueIsEmpty(l))
    BY <1>1, <2>1 DEF QueueIsEmpty
  <2>6. AllNoticed'
    BY <2>4, <2>5 DEF AllNoticed
  <2>. QED BY <2>2, <2>3, <2>6 DEF WakeInv
<1>. QED BY <1>2, <1>3 DEF Store

\* The polling thread goes through all lidars before it waits again.
LEMMA NextLidarWake ==
  ASSUME WakeInv, NextLidar, poll \in {"lidar", "again"},
         NEW l \in heard, Ahead(l), l # poll_lidar
  PROVE  Ahead(l)'
<1>1. l \in 1 .. LidarCount /\ poll_lidar \in 1 .. LidarCount /\ LidarCount \in Nat
  BY QueueAssumption DEF QueueAssumption, WakeInv, Typed, Lidar
<1>2. poll_lidar < l /\ poll_lidar < LidarCount
  BY <1>1 DEF Ahead
<1>. QED BY <1>1, <1>2 DEF NextLidar, Ahead

LEMMA PollWake == ASSUME WakeInv, Poll PROVE WakeInv'
<1>1. UNCHANGED <<wr_idx, sampling, heard, storing, driver>>
  BY DEF Poll, DistributePointCloudData, Wait, SkipLidar, PollingLidarPointCloudData,
         QueuePrePop, QueuePopUpdate, PublishCustomPointcloud, WaitFuture, ring
<1>2. Typed'
  <2>1. DOMAIN rd_idx' = DOMAIN rd_idx
    BY DEF Poll, DistributePointCloudData, Wait, SkipLidar, PollingLidarPointCloudData,
           QueuePrePop, QueuePopUpdate, PublishCustomPointcloud, WaitFuture, ring
  <2>2. 1 \in Lidar /\ (poll_lidar < LidarCount => poll_lidar + 1 \in Lidar)
    BY QueueAssumption DEF QueueAssumption, WakeInv, Typed, Lidar
  <2>3. poll_lidar' \in Lidar
    BY <2>2 DEF Poll, DistributePointCloudData, Wait, SkipLidar, PollingLidarPointCloudData,
           QueuePrePop, QueuePopUpdate, PublishCustomPointcloud, WaitFuture, NextLidar,
           WakeInv, Typed
  <2>4. poll' \in {"start", "wait", "lidar", "again", "read", "points", "pop", "inner",
                   "future", "done"}
    BY DEF Poll, DistributePointCloudData, Wait, SkipLidar, PollingLidarPointCloudData,
           QueuePrePop, QueuePopUpdate, PublishCustomPointcloud, WaitFuture, NextLidar, PollStep
  <2>. QED BY <1>1, <2>1, <2>3, <2>4 DEF storing, WakeInv, Typed
<1>3. CountIsBit'
  <2>1. count' = count \/ (count = 1 /\ count' = 0)
    BY DEF Poll, DistributePointCloudData, Wait, SkipLidar, PollingLidarPointCloudData,
           QueuePrePop, QueuePopUpdate, PublishCustomPointcloud, WaitFuture, WakeInv, CountIsBit
  <2>. QED BY <1>1, <2>1 DEF storing, WakeInv, CountIsBit
<1>4. ASSUME NEW l \in heard, ~QueueIsEmpty(l)' PROVE Noticed(l)'
  <2>0. l \in Lidar /\ l \in sampling /\ l >= 1
    BY DEF WakeInv, Typed, Lidar
  <2>1. Deciding(l)' <=> Deciding(l)
    BY <1>1 DEF storing, Deciding
  <2>2. CASE Wait
    BY <2>0, <2>2 DEF Wait, PollStep, Noticed, Ahead
  <2>3. CASE QueuePopUpdate
    <3>1. CASE l = poll_lidar
      BY <2>0, <2>3, <3>1 DEF QueuePopUpdate, PollStep, Noticed, Ahead, Lidar
    <3>2. CASE l # poll_lidar
      <4>1. Noticed(l)
        BY <1>4, <2>3, <3>2 DEF QueuePopUpdate, QueueIsEmpty, WakeInv, Typed, AllNoticed
      <4>. QED BY <1>1, <2>1, <2>3, <4>1 DEF QueuePopUpdate, PollStep, Noticed, Ahead,
                                              RequestedExit
    <3>. QED BY <3>1, <3>2
  <2>4. CASE SkipLidar \/ PollingLidarPointCloudData
    <3>1. Noticed(l) /\ UNCHANGED count
      BY <1>4, <2>4 DEF SkipLidar, PollingLidarPointCloudData, ring, QueueIsEmpty, WakeInv,
                        AllNoticed
    <3>2. CASE NextLidar
      <4>1. l # poll_lidar \/ RequestedExit
        BY <1>1, <1>4, <2>0, <2>4, <3>2 DEF SkipLidar, PollingLidarPointCloudData, NextLidar,
                                 ring, QueueIsEmpty
      <4>2. poll' # "wait" /\ poll \in {"lidar", "again"}
        BY <2>4, <3>2 DEF SkipLidar, PollingLidarPointCloudData, NextLidar
      <4>3. CASE RequestedExit
        BY <1>1, <4>2, <4>3 DEF Noticed, RequestedExit
      <4>4. CASE ~RequestedExit
        BY <2>1, <3>1, <3>2, <4>1, <4>2, <4>4, NextLidarWake DEF Noticed
      <4>. QED BY <4>3, <4>4
    <3>3. CASE poll' = "read" /\ UNCHANGED poll_lidar
      BY <1>1, <2>1, <2>4, <3>1, <3>3 DEF SkipLidar, PollingLidarPointCloudData, Noticed, Ahead,
                               RequestedExit
    <3>. QED BY <2>4, <3>2, <3>3 DEF SkipLidar, PollingLidarPointCloudData
  <2>5. CASE DistributePointCloudData \/ QueuePrePop \/ PublishCustomPointcloud \/ WaitFuture
    <3>1. Noticed(l) /\ UNCHANGED <<count, poll_lidar>>
      BY <1>4, <2>5 DEF DistributePointCloudData, QueuePrePop, PublishCustomPointcloud,
                        WaitFuture, ring, QueueIsEmpty, WakeInv, AllNoticed
    <3>2. /\ Ahead(l) => Ahead(l)'
          /\ RequestedExit => poll' # "wait"
      BY <2>5, <3>1 DEF DistributePointCloudData, QueuePrePop, PublishCustomPointcloud,
                        WaitFuture, PollStep, Ahead
    <3>. QED BY <1>1, <2>1, <3>1, <3>2 DEF Noticed, RequestedExit
  <2>. QED BY <2>2, <2>3, <2>4, <2>5 DEF Poll
<1>. QED BY <1>1, <1>2, <1>3, <1>4 DEF WakeInv, AllNoticed

LEMMA WakeStep == ASSUME WakeInv, [Next]_vars PROVE WakeInv'
<1>1. CASE DriverStep
  <2>1. UNCHANGED <<ring, sampling, heard, count, storing, polling>>
        /\ (RequestedExit => RequestedExit')
    BY <1>1 DEF DriverStep, RequestExit, SetValue, Join, RequestedExit
  <2>. QED BY <2>1 DEF ring, storing, polling, WakeInv, Typed, CountIsBit, AllNoticed,
                       QueueIsEmpty, Noticed, Deciding, Ahead
<1>2. CASE \E l \in Lidar : StartsSampling(l)
  BY <1>2 DEF StartsSampling, ring, storing, polling, WakeInv, Typed, CountIsBit, AllNoticed,
              QueueIsEmpty, Noticed, Deciding, Ahead, RequestedExit
<1>3. CASE UNCHANGED vars
  BY <1>3 DEF vars, ring, storing, polling, WakeInv, Typed, CountIsBit, AllNoticed,
              QueueIsEmpty, Noticed, Deciding, Ahead, RequestedExit
<1>. QED BY <1>1, <1>2, <1>3, StoreWake, PollWake DEF Next

\* If the polling thread waits and nothing is signalled, the storing thread is about to
\* decide on a signal for every packet stored while sampling; and the count stays a bit.
THEOREM WakeupSafety == Spec => []NoLostWakeup
<1>1. WakeInv => NoLostWakeup
  <2>1. ASSUME WakeInv, poll = "wait", count = 0, NEW l \in heard, ~QueueIsEmpty(l)
        PROVE  store \in {"empty", "count", "signal"}
    BY <2>1 DEF WakeInv, AllNoticed, Noticed, Deciding, Ahead
  <2>. QED BY <2>1 DEF NoLostWakeup, WakeInv, CountIsBit
<1>. QED BY <1>1, WakeInit, WakeStep, PTL DEF Spec
-----------------------------------------------------------------------------
(* Remainders, for the indices that wrap.                                  *)

\* A number is a multiple of the modulus and its remainder.
LEMMA DivMod ==
  ASSUME NEW n \in Nat \ {0}, NEW a \in Int
  PROVE  \E q \in Int : a = q * n + (a % n) /\ a % n \in 0 .. n - 1
<1>1. a \div n \in Int /\ a % n \in 0 .. n - 1 /\ a = (a \div n) * n + (a % n)
  OBVIOUS
<1>. QED BY <1>1

LEMMA Quotient ==
  \A n \in Nat \ {0}, a \in Int : \E q \in Int : a = q * n + (a % n)
  BY DivMod

LEMMA ModOf ==
  ASSUME NEW n \in Nat \ {0}, NEW q \in Int, NEW r \in 0 .. n - 1
  PROVE  (q * n + r) % n = r
  OBVIOUS

LEMMA SmallMod == ASSUME NEW n \in Nat \ {0}, NEW r \in 0 .. n - 1 PROVE r % n = r
  OBVIOUS

LEMMA Congruent ==
  ASSUME NEW n \in Nat \ {0}, NEW a \in Int, NEW b \in Int, NEW k \in Int, a = b + k * n
  PROVE  a % n = b % n
<1>1. PICK q \in Int : b = q * n + (b % n) /\ b % n \in 0 .. n - 1
  BY DivMod
<1>2. q + k \in Int /\ a = (q + k) * n + (b % n)
  BY <1>1
<1>. QED BY <1>1, <1>2, ModOf

\* A remainder may be taken before adding.
LEMMA ModPlus ==
  ASSUME NEW n \in Nat \ {0}, NEW a \in Int, NEW b \in Int
  PROVE  ((a % n) + b) % n = (a + b) % n
<1>1. PICK q \in Int : a = q * n + (a % n) /\ a % n \in 0 .. n - 1
  BY DivMod
<1>. DEFINE r == a % n
<1>2. r \in Int /\ a = q * n + r
  BY <1>1
<1>3. -q \in Int /\ r + b = (a + b) + (-q) * n
  <2>. HIDE DEF r
  <2>. QED BY <1>2
<1>4. r + b \in Int /\ a + b \in Int
  BY <1>2
<1>. HIDE DEF r
<1>5. (r + b) % n = (a + b) % n
  BY <1>3, <1>4, Congruent
<1>. QED BY <1>5 DEF r

LEMMA ModSucc ==
  ASSUME NEW n \in Nat \ {0}, NEW a \in Int
  PROVE  ((a % n) + 1) % n = (a + 1) % n /\ (a + 1) % n \in 0 .. n - 1
<1>1. 1 \in Int
  OBVIOUS
<1>2. ((a % n) + 1) % n = (a + 1) % n
  BY <1>1, ModPlus, Zenon
<1>3. (a + 1) % n \in 0 .. n - 1
  OBVIOUS
<1>. QED BY <1>2, <1>3

\* Or by a multiple of the modulus first.
Divides(s, n) == s \in Nat \ {0} /\ n \in Nat \ {0} /\ n % s = 0

LEMMA ModMod ==
  ASSUME NEW s, NEW n, Divides(s, n), NEW a \in Int, NEW b \in Int
  PROVE  ((a % n) + b) % s = (a + b) % s
<1>. s \in Nat \ {0} /\ n \in Nat \ {0} /\ n % s = 0
  BY DEF Divides
<1>1. PICK q \in Int : a = q * n + (a % n) /\ a % n \in 0 .. n - 1
  BY DivMod
<1>0. n \in Int
  OBVIOUS
<1>2. PICK k \in Int : n = k * s + (n % s)
  BY <1>0, Quotient, Zenon
<1>. DEFINE r == a % n
<1>3. r \in Int /\ a = q * n + r
  BY <1>1
<1>. HIDE DEF r
<1>4. n = k * s
  BY <1>2
<1>5. q * n = (q * k) * s
  BY <1>4
<1>6. -(q * k) \in Int /\ (-(q * k)) * s = -((q * k) * s)
  OBVIOUS
<1>7. r + b = (a + b) + (-(q * k)) * s
  BY <1>3, <1>5, <1>6
<1>8. (r + b) % s = (a + b) % s
  <2>. DEFINE x == r + b  y == a + b  j == -(q * k)
  <2>1. x \in Int /\ y \in Int /\ j \in Int /\ x = y + j * s
    BY <1>3, <1>6, <1>7
  <2>. HIDE DEF x, y, j
  <2>2. x % s = y % s
    BY <2>1, Congruent
  <2>. QED BY <2>2 DEF x, y
<1>. QED BY <1>8 DEF r

\* Slots less than a ring apart are different.
LEMMA Apart ==
  ASSUME NEW s \in Nat \ {0}, NEW a \in Int, NEW i \in Nat, NEW u \in Nat, i < u, u < s
  PROVE  (a + i) % s # (a + u) % s
<1>0. a + i \in Int /\ a + u \in Int
  OBVIOUS
<1>1. PICK q \in Int : a + i = q * s + ((a + i) % s)
  BY <1>0, Quotient
<1>2. PICK p \in Int : a + u = p * s + ((a + u) % s)
  BY <1>0, Quotient
<1>3. SUFFICES ASSUME (a + i) % s = (a + u) % s PROVE FALSE
  OBVIOUS
<1>4. (a + i) % s \in Int /\ (a + u) % s \in Int
  OBVIOUS
<1>. DEFINE d == p - q
<1>5. d \in Int /\ d * s = p * s - q * s
  OBVIOUS
<1>6. d * s = u - i
  BY <1>1, <1>2, <1>3, <1>4, <1>5
<1>. HIDE DEF d
<1>7. 0 < d * s /\ d * s < s
  BY <1>6
<1>8. CASE d <= 0
  BY <1>5, <1>7, <1>8
<1>9. CASE d >= 1
  <2>1. d * s >= s
    BY <1>5, <1>9
  <2>. QED BY <1>5, <1>7, <2>1
<1>. QED BY <1>5, <1>8, <1>9

\* The distance from r to w on a circle of n.
LEMMA Distance ==
  ASSUME NEW n \in Nat \ {0}, NEW r \in 0 .. n - 1, NEW w \in 0 .. n - 1
  PROVE  /\ (w - r) % n \in 0 .. n - 1
         /\ (r + ((w - r) % n)) % n = w
         /\ (w - r) % n = 0 <=> r = w
<1>1. CASE w >= r
  <2>1. w - r \in 0 .. n - 1
    BY <1>1
  <2>2. (w - r) % n = w - r
    BY <2>1, SmallMod
  <2>3. r + (w - r) = w /\ (w - r = 0 <=> r = w)
    OBVIOUS
  <2>. QED BY <2>1, <2>2, <2>3, SmallMod
<1>2. CASE w < r
  <2>1. w - r + n \in 0 .. n - 1 /\ w - r + n > 0 /\ -1 \in Int /\ w - r = (w - r + n) + (-1) * n
    BY <1>2
  <2>2. (w - r) % n = (w - r + n) % n
    <3>. DEFINE b == w - r + n
    <3>1. b \in Int /\ w - r \in Int /\ w - r = b + (-1) * n
      BY <2>1
    <3>. HIDE DEF b
    <3>2. (w - r) % n = b % n
      BY <2>1, <3>1, Congruent
    <3>. QED BY <3>2 DEF b
  <2>3. (w - r) % n = w - r + n
    BY <2>1, <2>2, SmallMod
  <2>4. r + (w - r + n) \in Int /\ r + (w - r + n) = w + 1 * n
    OBVIOUS
  <2>5. (r + (w - r + n)) % n = w % n
    <3>. DEFINE b == r + (w - r + n)
    <3>1. b \in Int /\ w \in Int /\ 1 \in Int /\ b = w + 1 * n
      BY <2>4
    <3>. HIDE DEF b
    <3>2. b % n = w % n
      BY <3>1, Congruent
    <3>. QED BY <3>2 DEF b
  <2>. QED BY <1>2, <2>1, <2>3, <2>5, SmallMod
<1>. QED BY <1>1, <1>2

\* It grows with w and shrinks with r.
LEMMA DistanceStep ==
  ASSUME NEW n \in Nat \ {0}, NEW r \in 0 .. n - 1, NEW w \in 0 .. n - 1
  PROVE  /\ (w - r) % n < n - 1 => (((w + 1) % n) - r) % n = ((w - r) % n) + 1
         /\ r # w => (w - ((r + 1) % n)) % n = ((w - r) % n) - 1
<1>. DEFINE u == (w - r) % n
<1>1. u \in 0 .. n - 1 /\ (u = 0 <=> r = w)
  BY Distance
<1>0. w - r \in Int /\ r + 1 \in Int /\ w + 1 \in Int /\ -r \in Int
  OBVIOUS
<1>2. PICK q \in Int : w - r = q * n + u
  BY <1>0, Quotient
<1>3. ASSUME u < n - 1 PROVE (((w + 1) % n) - r) % n = u + 1
  <2>1. (((w + 1) % n) + (-r)) % n = ((w + 1) + (-r)) % n
    BY <1>0, ModPlus
  <2>2. ((w + 1) % n) + (-r) = ((w + 1) % n) - r /\ (w + 1) + (-r) = w - r + 1
    OBVIOUS
  <2>3. u + 1 \in 0 .. n - 1 /\ w - r + 1 = q * n + (u + 1)
    <3>. HIDE DEF u
    <3>. QED BY <1>1, <1>2, <1>3
  <2>4. (w - r + 1) % n = u + 1
    <3>. HIDE DEF u
    <3>. QED BY <2>3, ModOf
  <2>. HIDE DEF u
  <2>. QED BY <2>1, <2>2, <2>4
<1>4. ASSUME r # w PROVE (w - ((r + 1) % n)) % n = u - 1
  <2>1. PICK p \in Int : r + 1 = p * n + ((r + 1) % n)
    BY <1>0, Quotient
  <2>. DEFINE x == (r + 1) % n
  <2>2. x \in Int /\ r + 1 = p * n + x
    BY <2>1
  <2>. HIDE DEF u, x
  <2>3. (p + q) \in Int /\ (p + q) * n = p * n + q * n
    OBVIOUS
  <2>4. u - 1 \in 0 .. n - 1 /\ w - x = (p + q) * n + (u - 1)
    BY <1>1, <1>2, <1>4, <2>2, <2>3
  <2>5. (w - x) % n = u - 1
    BY <2>3, <2>4, ModOf
  <2>. QED BY <2>5 DEF x
<1>. QED BY <1>3, <1>4

OnRing(w, r, n, s) == Divides(s, n) /\ r \in 0 .. n - 1 /\ w \in 0 .. n - 1

\* The place the distance leads to, on the ring of indices and on that of slots.
LEMMA DistancePlace ==
  ASSUME NEW s, NEW n, NEW r, NEW w, OnRing(w, r, n, s)
  PROVE  w % s = (r + ((w - r) % n)) % s
<1>. n \in Nat \ {0} /\ s \in Nat \ {0} /\ r \in 0 .. n - 1 /\ w \in 0 .. n - 1
  BY DEF OnRing, Divides
<1>0. Divides(s, n)
  BY DEF OnRing
<1>. DEFINE b == r + ((w - r) % n)
<1>1. b \in Int /\ b % n = w
  BY Distance
<1>. HIDE DEF b
<1>2. ASSUME NEW c \in Int PROVE (w + c) % s = (b + c) % s
  <2>1. ((b % n) + c) % s = (b + c) % s
    BY <1>0, <1>1, ModMod, Zenon
  <2>. QED BY <1>1, <2>1, Zenon
<1>3. 0 \in Int /\ w + 0 = w /\ b + 0 = b
  BY <1>1
<1>4. w % s = b % s
  BY <1>2, <1>3, Zenon
<1>. QED BY <1>4 DEF b

\* The same of rings whose size divides the number of indices.
Gap(w, r, n) == (w - r) % n

Located(w, r, n, s) ==
    /\ Gap(w, r, n) \in 0 .. n - 1
    /\ Gap(w, r, n) = 0 <=> r = w
    /\ w % s = (r + Gap(w, r, n)) % s

LEMMA GapFacts == ASSUME NEW s, NEW n, NEW r, NEW w, OnRing(w, r, n, s) PROVE Located(w, r, n, s)
<1>1. w % s = (r + ((w - r) % n)) % s
  BY DistancePlace, Zenon
<1>2. (w - r) % n \in 0 .. n - 1 /\ ((w - r) % n = 0 <=> r = w)
  BY Distance DEF OnRing, Divides
<1>. QED BY <1>1, <1>2, Zenon DEF Gap, Located

LEMMA GapStep ==
  ASSUME NEW n \in Nat \ {0}, NEW r \in 0 .. n - 1, NEW w \in 0 .. n - 1
  PROVE  /\ Gap(w, r, n) < n - 1 => Gap((w + 1) % n, r, n) = Gap(w, r, n) + 1
         /\ r # w => Gap(w, (r + 1) % n, n) = Gap(w, r, n) - 1
  BY DistanceStep DEF Gap

-----------------------------------------------------------------------------
(* The rings.                                                              *)

Filling(l) == store \in {"write", "copy", "index"} /\ store_lidar = l
Taking(l)  == poll \in {"read", "points", "pop"} /\ poll_lidar = l

RingTyped(l) ==
    /\ wr_idx[l] \in 0 .. IndexMod - 1 /\ rd_idx[l] \in 0 .. IndexMod - 1
    /\ pushed[l] \in 0 .. SeqMod - 1 /\ popped[l] \in 0 .. SeqMod - 1
    /\ DOMAIN slots[l] = 0 .. Size - 1

\* The slot being written is free, and whole when the index is about to move.
RingInv(l) ==
    /\ RingTyped(l)
    /\ QueueUsedSize(l) <= Size
    /\ \A i \in 0 .. QueueUsedSize(l) - 1 :
          slots[l][(rd_idx[l] + i) % Size] = (popped[l] + i) % SeqMod
    /\ pushed[l] = (popped[l] + QueueUsedSize(l)) % SeqMod
    /\ Filling(l) => QueueUsedSize(l) < Size
    /\ store = "index" /\ store_lidar = l => slots[l][wr_idx[l] % Size] = pushed[l]
    /\ Taking(l) => ~QueueIsEmpty(l)

Domains ==
    /\ \A f \in {slots, wr_idx, rd_idx, pushed, popped} : DOMAIN f = Lidar
    /\ store_lidar \in Lidar /\ poll_lidar \in Lidar

Rings == Domains /\ \A l \in Lidar : RingInv(l)

\* What the other steps leave alone: they keep the ring and do not come to fill or take.
LEMMA RingKept ==
  ASSUME NEW l \in Lidar, RingInv(l),
         slots'[l] = slots[l], wr_idx'[l] = wr_idx[l], rd_idx'[l] = rd_idx[l],
         pushed'[l] = pushed[l], popped'[l] = popped[l],
         Filling(l)' => Filling(l) \/ QueueUsedSize(l) < Size,
         store' = "index" /\ store_lidar' = l => store = "index" /\ store_lidar = l,
         Taking(l)' => Taking(l) \/ ~QueueIsEmpty(l)
  PROVE  RingInv(l)'
<1>1. QueueUsedSize(l)' = QueueUsedSize(l) /\ (QueueIsEmpty(l)' <=> QueueIsEmpty(l))
  BY DEF QueueUsedSize, QueueIsEmpty
<1>. QED BY <1>1 DEF RingInv, RingTyped

\* How far rd_idx is behind wr_idx, and where the next packet goes.
LEMMA UsedFacts ==
  ASSUME NEW l \in Lidar, RingTyped(l)
  PROVE  /\ QueueUsedSize(l) \in 0 .. IndexMod - 1
         /\ QueueUsedSize(l) = 0 <=> QueueIsEmpty(l)
         /\ wr_idx[l] % Size = (rd_idx[l] + QueueUsedSize(l)) % Size
<1>1. IndexMod \in Nat \ {0} /\ Size \in Nat \ {0} /\ IndexMod % Size = 0
  BY QueueAssumption DEF QueueAssumption
<1>2. rd_idx[l] \in 0 .. IndexMod - 1 /\ wr_idx[l] \in 0 .. IndexMod - 1
  BY DEF RingTyped
<1>3. QueueUsedSize(l) = Gap(wr_idx[l], rd_idx[l], IndexMod)
  BY DEF QueueUsedSize, Gap
<1>4. OnRing(wr_idx[l], rd_idx[l], IndexMod, Size)
  BY <1>1, <1>2 DEF OnRing, Divides
<1>5. Located(wr_idx[l], rd_idx[l], IndexMod, Size)
  BY <1>4, GapFacts, Zenon
<1>. QED BY <1>3, <1>5, Zenon DEF Located, QueueIsEmpty

LEMMA RingInit == Init => Rings
<1>. SUFFICES ASSUME Init PROVE Rings
  OBVIOUS
<1>1. IndexMod \in Nat \ {0} /\ Size \in Nat \ {0} /\ SeqMod \in Nat \ {0} /\ 1 \in Lidar
  BY QueueAssumption DEF QueueAssumption, Lidar
<1>2. Domains
  BY <1>1 DEF Init, Domains
<1>3. ASSUME NEW l \in Lidar PROVE RingInv(l)
  <2>1. /\ wr_idx[l] = 0 /\ rd_idx[l] = 0 /\ pushed[l] = 0 /\ popped[l] = 0
        /\ DOMAIN slots[l] = 0 .. Size - 1
    BY DEF Init
  <2>2. RingTyped(l)
    BY <1>1, <2>1 DEF RingTyped
  <2>3. QueueUsedSize(l) = 0
    BY <2>1, <2>2, UsedFacts DEF QueueIsEmpty
  <2>4. ~Filling(l) /\ store # "index" /\ ~Taking(l)
    BY DEF Init, Filling, Taking
  <2>5. 0 = (0 + 0) % SeqMod
    BY <1>1, SmallMod
  <2>. QED BY <1>1, <2>1, <2>2, <2>3, <2>4, <2>5 DEF RingInv
<1>. QED BY <1>2, <1>3 DEF Rings

\* The storing thread comes to a free slot,
LEMMA PushLidarDataRing == ASSUME Rings, NEW m \in Lidar, PushLidarData(m) PROVE Rings'
<1>1. Domains'
  BY DEF PushLidarData, ring, polling, Rings, Domains
<1>2. ASSUME NEW l \in Lidar PROVE RingInv(l)'
  <2>1. RingInv(l)
    BY DEF Rings
  <2>2. QueueUsedSize(l) \in Int /\ Size \in Int
    BY <2>1, UsedFacts, QueueAssumption DEF RingInv, QueueAssumption
  <2>3. Filling(l)' => QueueUsedSize(l) < Size
    BY <2>2 DEF PushLidarData, StoreStep, Filling, QueueIsFull
  <2>. QED BY <2>1, <2>3, RingKept DEF PushLidarData, StoreStep, ring, polling, Taking
<1>. QED BY <1>1, <1>2 DEF Rings

\* writes it, which is behind those that hold packets,
LEMMA WriteRing ==
  ASSUME Rings, NEW from \in {"write", "copy"}, NEW to, NEW value, Write(from, to, value),
         to = "copy" \/ (to = "index" /\ value = pushed[store_lidar])
  PROVE  Rings'
<1>0. PICK m \in Lidar : m = store_lidar
  BY DEF Rings, Domains
<1>. DEFINE k == wr_idx[m] % Size
<1>1. /\ DOMAIN slots = Lidar /\ RingInv(m)
      /\ DOMAIN slots[m] = 0 .. Size - 1
  BY DEF Rings, Domains, RingInv, RingTyped
<1>2. Size \in Nat \ {0} /\ IndexMod \in Nat \ {0}
  BY QueueAssumption DEF QueueAssumption
<1>3. /\ wr_idx[m] \in 0 .. IndexMod - 1 /\ rd_idx[m] \in 0 .. IndexMod - 1
      /\ QueueUsedSize(m) \in 0 .. IndexMod - 1
      /\ k = (rd_idx[m] + QueueUsedSize(m)) % Size
  BY <1>1, UsedFacts DEF RingInv, RingTyped
<1>4. /\ slots'[m] = [slots[m] EXCEPT ![k] = value]
      /\ \A l \in Lidar : l # m => slots'[l] = slots[l]
      /\ DOMAIN slots' = Lidar
  BY <1>0, <1>1 DEF Write
<1>5. k \in 0 .. Size - 1
  BY <1>2, <1>3
<1>6. Filling(m) /\ QueueUsedSize(m) < Size
  BY <1>0, <1>1 DEF Write, StoreStep, Filling, RingInv
<1>7. Domains'
  BY <1>4 DEF Write, polling, Rings, Domains
<1>8. RingInv(m)'
  <2>1. QueueUsedSize(m)' = QueueUsedSize(m) /\ (QueueIsEmpty(m)' <=> QueueIsEmpty(m))
    BY DEF Write, QueueUsedSize, QueueIsEmpty
  <2>2. RingTyped(m)'
    BY <1>1, <1>4 DEF Write, RingInv, RingTyped
  <2>3. ASSUME NEW i \in 0 .. QueueUsedSize(m) - 1
        PROVE  slots'[m][(rd_idx[m] + i) % Size] = (popped[m] + i) % SeqMod
    <3>1. i \in Nat /\ i < QueueUsedSize(m) /\ QueueUsedSize(m) \in Nat /\ rd_idx[m] \in Int
      BY <1>3
    <3>2. (rd_idx[m] + i) % Size # k
      <4>. HIDE DEF k
      <4>1. (rd_idx[m] + i) % Size # (rd_idx[m] + QueueUsedSize(m)) % Size
        BY <1>2, <1>6, <3>1, Apart
      <4>. QED BY <1>3, <4>1
    <3>3. (rd_idx[m] + i) % Size \in 0 .. Size - 1
      BY <1>2, <3>1
    <3>4. slots[m][(rd_idx[m] + i) % Size] = (popped[m] + i) % SeqMod
      BY <1>1 DEF RingInv
    <3>. HIDE DEF k
    <3>. QED BY <1>1, <1>4, <3>2, <3>3, <3>4
  <2>4. store' = "index" => slots'[m][k] = pushed[m]
    <3>1. store' = "index" => value = pushed[m]
      BY <1>0 DEF Write, StoreStep
    <3>. HIDE DEF k
    <3>. QED BY <1>1, <1>4, <1>5, <3>1
  <2>5. k' = k /\ UNCHANGED <<rd_idx, wr_idx, pushed, popped, poll, poll_lidar>>
    BY DEF Write, polling
  <2>6. Taking(m)' <=> Taking(m)
    BY <2>5 DEF Taking
  <2>. QED BY <1>1, <1>6, <2>1, <2>2, <2>3, <2>4, <2>5, <2>6 DEF RingInv
<1>9. ASSUME NEW l \in Lidar, l # m PROVE RingInv(l)'
  <2>1. RingInv(l) /\ slots'[l] = slots[l]
    BY <1>4, <1>9 DEF Rings
  <2>. QED BY <1>0, <1>9, <2>1, RingKept DEF Write, StoreStep, polling, Filling, Taking
<1>. QED BY <1>7, <1>8, <1>9 DEF Rings

\* and moves the index past it: there is one packet more,
LEMMA UsedPush ==
  ASSUME Rings, PushIndex, NEW m \in Lidar, m = store_lidar
  PROVE  QueueUsedSize(m) < Size /\ QueueUsedSize(m)' = QueueUsedSize(m) + 1
<1>. DEFINE u == QueueUsedSize(m)
<1>1. DOMAIN wr_idx = Lidar /\ RingInv(m)
  BY DEF Rings, Domains
<1>2. Size \in Nat \ {0} /\ IndexMod \in Nat \ {0} /\ IndexMod > Size
  BY QueueAssumption DEF QueueAssumption
<1>3. /\ wr_idx[m] \in 0 .. IndexMod - 1 /\ rd_idx[m] \in 0 .. IndexMod - 1
      /\ u \in 0 .. IndexMod - 1
  BY <1>1, UsedFacts DEF RingInv, RingTyped
<1>4. wr_idx'[m] = (wr_idx[m] + 1) % IndexMod /\ rd_idx' = rd_idx
  BY <1>1 DEF PushIndex
<1>5. u < Size
  BY <1>1 DEF PushIndex, StoreStep, Filling, RingInv
<1>6. QueueUsedSize(m)' = Gap((wr_idx[m] + 1) % IndexMod, rd_idx[m], IndexMod)
  BY <1>4 DEF QueueUsedSize, Gap
<1>7. u = Gap(wr_idx[m], rd_idx[m], IndexMod)
  BY DEF QueueUsedSize, Gap
<1>8. u < IndexMod - 1
  BY <1>2, <1>3, <1>5
<1>9. Gap((wr_idx[m] + 1) % IndexMod, rd_idx[m], IndexMod)
        = Gap(wr_idx[m], rd_idx[m], IndexMod) + 1
  BY <1>2, <1>3, <1>7, <1>8, GapStep
<1>. QED BY <1>5, <1>6, <1>7, <1>9, Zenon

\* the one that was filled in.
LEMMA PushIndexRing == ASSUME Rings, PushIndex PROVE Rings'
<1>0. PICK m \in Lidar : m = store_lidar
  BY DEF Rings, Domains
<1>. DEFINE u == QueueUsedSize(m)
<1>1. /\ DOMAIN wr_idx = Lidar /\ DOMAIN pushed = Lidar /\ RingInv(m)
  BY DEF Rings, Domains
<1>2. Size \in Nat \ {0} /\ IndexMod \in Nat \ {0} /\ SeqMod \in Nat \ {0} /\ IndexMod > Size
  BY QueueAssumption DEF QueueAssumption
<1>3. /\ wr_idx[m] \in 0 .. IndexMod - 1 /\ rd_idx[m] \in 0 .. IndexMod - 1
      /\ pushed[m] \in 0 .. SeqMod - 1 /\ popped[m] \in 0 .. SeqMod - 1
      /\ u \in 0 .. IndexMod - 1
      /\ wr_idx[m] % Size = (rd_idx[m] + u) % Size
  BY <1>1, UsedFacts DEF RingInv, RingTyped
<1>4. /\ wr_idx'[m] = (wr_idx[m] + 1) % IndexMod /\ pushed'[m] = (pushed[m] + 1) % SeqMod
      /\ \A l \in Lidar : l # m => wr_idx'[l] = wr_idx[l] /\ pushed'[l] = pushed[l]
      /\ DOMAIN wr_idx' = Lidar /\ DOMAIN pushed' = Lidar
      /\ UNCHANGED <<slots, rd_idx, popped, store_lidar, poll, poll_lidar>>
  BY <1>0, <1>1 DEF PushIndex, polling
<1>5. Filling(m) /\ u < Size /\ slots[m][wr_idx[m] % Size] = pushed[m]
      /\ pushed[m] = (popped[m] + u) % SeqMod
  BY <1>0, <1>1 DEF PushIndex, StoreStep, Filling, RingInv
<1>6. ~Filling(m)' /\ store' # "index" /\ (\A l \in Lidar : l # m => ~Filling(l) /\ ~Filling(l)')
  BY <1>0, <1>4 DEF PushIndex, StoreStep, Filling
<1>7. Domains'
  BY <1>4 DEF Rings, Domains
<1>8. RingInv(m)'
  <2>1. QueueUsedSize(m)' = u + 1
    BY <1>0, UsedPush
  <2>2. RingTyped(m)'
    <3>1. wr_idx[m] \in Int /\ pushed[m] \in Int
      BY <1>3
    <3>2. wr_idx'[m] \in 0 .. IndexMod - 1 /\ pushed'[m] \in 0 .. SeqMod - 1
      BY <1>2, <1>4, <3>1, ModSucc
    <3>. QED BY <1>1, <1>4, <3>2 DEF RingInv, RingTyped
  <2>3. ASSUME NEW i \in 0 .. u
        PROVE  slots[m][(rd_idx[m] + i) % Size] = (popped[m] + i) % SeqMod
    <3>1. CASE i = u
      <4>1. slots[m][(rd_idx[m] + u) % Size] = (popped[m] + u) % SeqMod
        BY <1>3, <1>5, Zenon
      <4>. QED BY <3>1, <4>1, Zenon
    <3>2. CASE i # u
      <4>1. i \in 0 .. u - 1
        BY <1>3, <3>2
      <4>. QED BY <1>1, <4>1 DEF RingInv
    <3>. QED BY <3>1, <3>2
  <2>4. pushed'[m] = (popped[m] + (u + 1)) % SeqMod
    <3>. DEFINE a == popped[m] + u
    <3>1. a \in Int /\ a + 1 = popped[m] + (u + 1)
      BY <1>3
    <3>. HIDE DEF a, u
    <3>2. ((a % SeqMod) + 1) % SeqMod = (a + 1) % SeqMod
      BY <1>2, <3>1, ModSucc
    <3>3. pushed[m] = a % SeqMod
      BY <1>5 DEF a
    <3>. QED BY <1>4, <3>1, <3>2, <3>3, Zenon
  <2>5. ~QueueIsEmpty(m)'
    <3>1. SUFFICES ASSUME rd_idx[m] = wr_idx'[m] PROVE FALSE
      BY <1>4 DEF QueueIsEmpty
    <3>2. (wr_idx'[m] - rd_idx[m]) % IndexMod = u + 1
      BY <1>4, <2>1 DEF QueueUsedSize
    <3>3. (rd_idx[m] - rd_idx[m]) % IndexMod = 0
      <4>1. rd_idx[m] - rd_idx[m] = 0 /\ 0 \in 0 .. IndexMod - 1
        BY <1>2, <1>3
      <4>. QED BY <1>2, <4>1, SmallMod
    <3>4. u + 1 # 0
      BY <1>3
    <3>. QED BY <3>1, <3>2, <3>3, <3>4
  <2>6. u + 1 <= Size /\ u + 1 \in Int /\ (u + 1) - 1 = u
    BY <1>2, <1>3, <1>5
  <2>7. /\ store' # "index" /\ ~Filling(m)'
        /\ UNCHANGED <<slots, rd_idx, popped, store_lidar>>
    BY <1>4, <1>6
  <2>. HIDE DEF u
  <2>. QED BY <2>1, <2>2, <2>3, <2>4, <2>5, <2>6, <2>7 DEF RingInv
<1>9. ASSUME NEW l \in Lidar, l # m PROVE RingInv(l)'
  <2>1. RingInv(l) /\ wr_idx'[l] = wr_idx[l] /\ pushed'[l] = pushed[l]
    BY <1>4, <1>9 DEF Rings
  <2>. QED BY <1>4, <1>6, <1>9, <2>1, RingKept DEF Taking
<1>. QED BY <1>7, <1>8, <1>9 DEF Rings

\* The polling thread frees the slot it read: there is one packet less,
LEMMA UsedPop ==
  ASSUME Rings, QueuePopUpdate, NEW m \in Lidar, m = poll_lidar
  PROVE  QueueUsedSize(m) # 0 /\ QueueUsedSize(m)' = QueueUsedSize(m) - 1
<1>. DEFINE u == QueueUsedSize(m)
<1>1. DOMAIN rd_idx = Lidar /\ RingInv(m)
  BY DEF Rings, Domains
<1>2. IndexMod \in Nat \ {0}
  BY QueueAssumption DEF QueueAssumption
<1>3. wr_idx[m] \in 0 .. IndexMod - 1 /\ rd_idx[m] \in 0 .. IndexMod - 1
  BY <1>1 DEF RingInv, RingTyped
<1>4. rd_idx'[m] = (rd_idx[m] + 1) % IndexMod /\ wr_idx' = wr_idx
  BY <1>1 DEF QueuePopUpdate
<1>5. ~QueueIsEmpty(m)
  BY <1>1 DEF QueuePopUpdate, PollStep, Taking, RingInv
<1>6. QueueUsedSize(m)' = Gap(wr_idx[m], (rd_idx[m] + 1) % IndexMod, IndexMod)
  BY <1>4 DEF QueueUsedSize, Gap
<1>7. u = Gap(wr_idx[m], rd_idx[m], IndexMod)
  BY DEF QueueUsedSize, Gap
<1>8. rd_idx[m] # wr_idx[m]
  BY <1>5 DEF QueueIsEmpty
<1>9. Gap(wr_idx[m], (rd_idx[m] + 1) % IndexMod, IndexMod)
        = Gap(wr_idx[m], rd_idx[m], IndexMod) - 1
  BY <1>2, <1>3, <1>8, GapStep
<1>10. u # 0
  BY <1>1, <1>5, UsedFacts DEF RingInv
<1>. QED BY <1>6, <1>7, <1>9, <1>10, Zenon

\* the oldest one,
LEMMA QueuePopUpdateRing == ASSUME Rings, QueuePopUpdate PROVE Rings'
<1>0. PICK m \in Lidar : m = poll_lidar
  BY DEF Rings, Domains
<1>. DEFINE u == QueueUsedSize(m)
<1>1. DOMAIN rd_idx = Lidar /\ DOMAIN popped = Lidar /\ RingInv(m)
  BY DEF Rings, Domains
<1>2. /\ Size \in Nat \ {0} /\ IndexMod \in Nat \ {0} /\ SeqMod \in Nat \ {0}
      /\ Divides(Size, IndexMod)
  BY QueueAssumption DEF QueueAssumption, Divides
<1>3. /\ wr_idx[m] \in 0 .. IndexMod - 1 /\ rd_idx[m] \in 0 .. IndexMod - 1
      /\ pushed[m] \in 0 .. SeqMod - 1 /\ popped[m] \in 0 .. SeqMod - 1
      /\ u \in 0 .. IndexMod - 1
  BY <1>1, UsedFacts DEF RingInv, RingTyped
<1>4. /\ rd_idx'[m] = (rd_idx[m] + 1) % IndexMod /\ popped'[m] = (popped[m] + 1) % SeqMod
      /\ \A l \in Lidar : l # m => rd_idx'[l] = rd_idx[l] /\ popped'[l] = popped[l]
      /\ DOMAIN rd_idx' = Lidar /\ DOMAIN popped' = Lidar
      /\ UNCHANGED <<slots, wr_idx, pushed, store, store_lidar, poll_lidar>>
  BY <1>0, <1>1 DEF QueuePopUpdate, storing
<1>5. ~QueueIsEmpty(m) /\ \A l \in Lidar : ~Taking(l)'
  BY <1>0, <1>1 DEF QueuePopUpdate, PollStep, Taking, RingInv
<1>6. u # 0
  BY <1>1, <1>5, UsedFacts DEF RingInv
<1>7. Domains'
  BY <1>4 DEF Rings, Domains
<1>8. RingInv(m)'
  <2>1. QueueUsedSize(m)' = u - 1
    BY <1>0, UsedPop
  <2>2. RingTyped(m)'
    <3>1. rd_idx[m] \in Int /\ popped[m] \in Int
      BY <1>3
    <3>2. rd_idx'[m] \in 0 .. IndexMod - 1 /\ popped'[m] \in 0 .. SeqMod - 1
      BY <1>2, <1>4, <3>1, ModSucc
    <3>. QED BY <1>1, <1>4, <3>2 DEF RingInv, RingTyped
  <2>3. ASSUME NEW i \in 0 .. (u - 1) - 1
        PROVE  slots[m][(rd_idx'[m] + i) % Size] = (popped'[m] + i) % SeqMod
    <3>1. i + 1 \in 0 .. u - 1 /\ i \in Int
      BY <1>3
    <3>2. slots[m][(rd_idx[m] + (i + 1)) % Size] = (popped[m] + (i + 1)) % SeqMod
      BY <1>1, <3>1 DEF RingInv
    <3>. DEFINE a == rd_idx[m] + 1  b == popped[m] + 1
    <3>3. a \in Int /\ b \in Int /\ a + i = rd_idx[m] + (i + 1) /\ b + i = popped[m] + (i + 1)
      BY <1>3, <3>1
    <3>4. rd_idx'[m] = a % IndexMod /\ popped'[m] = b % SeqMod
      BY <1>4
    <3>. HIDE DEF a, b, u
    <3>5. ((a % IndexMod) + i) % Size = (a + i) % Size
      BY <1>2, <3>1, <3>3, ModMod, Zenon
    <3>6. ((b % SeqMod) + i) % SeqMod = (b + i) % SeqMod
      BY <1>2, <3>1, <3>3, ModPlus, Zenon
    <3>. QED BY <3>2, <3>3, <3>4, <3>5, <3>6, Zenon
  <2>4. pushed[m] = (popped'[m] + (u - 1)) % SeqMod
    <3>. DEFINE b == popped[m] + 1  i == u - 1
    <3>1. b \in Int /\ i \in Int /\ b + i = popped[m] + u
      BY <1>3
    <3>2. popped'[m] = b % SeqMod /\ pushed[m] = (popped[m] + u) % SeqMod
      BY <1>1, <1>4 DEF RingInv
    <3>. HIDE DEF b, i, u
    <3>3. ((b % SeqMod) + i) % SeqMod = (b + i) % SeqMod
      BY <1>2, <3>1, ModPlus, Zenon
    <3>4. pushed[m] = (popped'[m] + i) % SeqMod
      BY <3>1, <3>2, <3>3, Zenon
    <3>. QED BY <3>4 DEF i
  <2>5. /\ u - 1 <= Size /\ (Filling(m)' => u - 1 < Size)
        /\ (store' = "index" /\ store_lidar' = m => slots'[m][wr_idx'[m] % Size] = pushed'[m])
    BY <1>1, <1>2, <1>3, <1>4 DEF RingInv, Filling
  <2>6. ~Taking(m)' /\ slots' = slots /\ pushed' = pushed
    BY <1>4, <1>5
  <2>. HIDE DEF u
  <2>. QED BY <2>1, <2>2, <2>3, <2>4, <2>5, <2>6 DEF RingInv
<1>9. ASSUME NEW l \in Lidar, l # m PROVE RingInv(l)'
  <2>1. RingInv(l) /\ rd_idx'[l] = rd_idx[l] /\ popped'[l] = popped[l]
    BY <1>4, <1>9 DEF Rings
  <2>. QED BY <1>4, <1>5, <1>9, <2>1, RingKept DEF Filling
<1>. QED BY <1>7, <1>8, <1>9 DEF Rings

\* and comes to read one only when there is one.
LEMMA PollRing ==
  ASSUME Rings,
         DistributePointCloudData \/ Wait \/ SkipLidar \/ PollingLidarPointCloudData
           \/ QueuePrePop \/ PublishCustomPointcloud \/ WaitFuture
  PROVE  Rings'
<1>1. UNCHANGED <<ring, storing>>
  BY DEF DistributePointCloudData, Wait, SkipLidar, PollingLidarPointCloudData, QueuePrePop,
         PublishCustomPointcloud, WaitFuture
<1>2. poll_lidar \in Lidar /\ LidarCount \in Nat \ {0}
  BY QueueAssumption DEF Rings, Domains, QueueAssumption
<1>3. poll_lidar' \in Lidar
  BY <1>2 DEF DistributePointCloudData, Wait, SkipLidar, PollingLidarPointCloudData,
              QueuePrePop, PublishCustomPointcloud, WaitFuture, NextLidar, Lidar
<1>4. Domains'
  BY <1>1, <1>3 DEF ring, storing, Rings, Domains
<1>5. ASSUME NEW l \in Lidar, Taking(l)' PROVE Taking(l) \/ ~QueueIsEmpty(l)
  BY <1>5 DEF DistributePointCloudData, Wait, SkipLidar, PollingLidarPointCloudData,
              QueuePrePop, PublishCustomPointcloud, WaitFuture, NextLidar, PollStep, Taking
<1>6. ASSUME NEW l \in Lidar PROVE RingInv(l)'
  <2>1. RingInv(l)
    BY DEF Rings
  <2>. QED BY <1>1, <1>5, <2>1, RingKept DEF ring, storing, Filling
<1>. QED BY <1>4, <1>6 DEF Rings

\* The rest of the storing thread, the driver and the SDK touch no ring.
LEMMA OtherRing ==
  ASSUME Rings,
         \/ CheckEmpty \/ GetCount \/ Signal \/ DriverStep \/ UNCHANGED vars
         \/ \E l \in Lidar : StartsSampling(l)
  PROVE  Rings'
<1>1. UNCHANGED <<ring, polling, store_lidar>>
  BY DEF CheckEmpty, GetCount, Signal, DriverStep, vars, StartsSampling, storing
<1>2. Domains'
  BY <1>1 DEF ring, polling, Rings, Domains
<1>3. ASSUME NEW l \in Lidar PROVE (Filling(l)' => Filling(l)) /\ (store' = "index" => store = "index")
  BY <1>1 DEF CheckEmpty, GetCount, Signal, DriverStep, vars, StartsSampling, storing,
              StoreStep, Filling
<1>4. ASSUME NEW l \in Lidar PROVE RingInv(l)'
  <2>1. RingInv(l)
    BY DEF Rings
  <2>. QED BY <1>1, <1>3, <2>1, RingKept DEF ring, polling, Taking
<1>. QED BY <1>2, <1>4 DEF Rings

LEMMA RingStep == ASSUME Rings, [Next]_vars PROVE Rings'
<1>1. CASE QueuePushAny
  <2>1. CASE Write("write", "copy", Torn)
    BY <2>1, WriteRing
  <2>2. CASE Write("copy", "index", pushed[store_lidar])
    BY <2>2, WriteRing
  <2>. QED BY <1>1, <2>1, <2>2 DEF QueuePushAny
<1>2. CASE PushIndex
  BY <1>2, PushIndexRing
<1>3. CASE QueuePopUpdate
  BY <1>3, QueuePopUpdateRing
<1>. QED BY <1>1, <1>2, <1>3, PushLidarDataRing, PollRing, OtherRing DEF Next, Store, Poll

\* Lock-free and across the overflow of the indices, the slots from rd_idx
\* to wr_idx hold the packets that were taken and not yet given out, whole
\* and in order (ldq.cpp): what QueuePrePop copies is the next packet, and
\* stays so until QueuePopUpdate frees it.
RingHoldsPackets ==
    \A l \in Lidar :
        /\ QueueUsedSize(l) <= Size
        /\ \A i \in 0 .. QueueUsedSize(l) - 1 :
              slots[l][(rd_idx[l] + i) % Size] = (popped[l] + i) % SeqMod
        /\ poll_lidar = l /\ poll \in {"read", "points", "pop"} => ~QueueIsEmpty(l)

\* For rings of any size and indices of any width that it divides, for any number of
\* lidars: however the two threads interleave, the slots from rd_idx to wr_idx hold the
\* packets taken and not yet given out, whole and in order (ldq.cpp), with no lock.
THEOREM RingSafety == Spec => []RingHoldsPackets
<1>1. Rings => RingHoldsPackets
  BY DEF Rings, RingInv, Taking, RingHoldsPackets
<1>. QED BY <1>1, RingInit, RingStep, PTL DEF Spec
-----------------------------------------------------------------------------
(* The rings implement the queues of PacketQueue: what a ring holds is     *)
(* given by the number of the oldest packet and how many there are.        *)

Numbers(first, n) == [i \in 1 .. n |-> (first + (i - 1)) % SeqMod]

LEMMA PacketsAre == Rings => \A l \in Lidar : Packets(l) = Numbers(popped[l], QueueUsedSize(l))
<1>. SUFFICES ASSUME Rings, NEW l \in Lidar PROVE Packets(l) = Numbers(popped[l], QueueUsedSize(l))
  OBVIOUS
<1>. DEFINE u == QueueUsedSize(l)
<1>1. RingInv(l)
  BY DEF Rings
<1>2. u \in Nat
  BY <1>1, UsedFacts, QueueAssumption DEF QueueAssumption, RingInv
<1>3. ASSUME NEW i \in 1 .. u
      PROVE  slots[l][(rd_idx[l] + (i - 1)) % Size] = (popped[l] + (i - 1)) % SeqMod
  <2>1. i - 1 \in 0 .. u - 1
    BY <1>2
  <2>. QED BY <1>1, <2>1 DEF RingInv
<1>. QED BY <1>3 DEF Packets, Numbers

\* The same of the state a step ends in.
LEMMA PacketsWillBe ==
  Rings' => \A l \in Lidar : Packets(l)' = Numbers(popped'[l], QueueUsedSize(l)')
<1>1. (Rings => \A l \in Lidar : Packets(l) = Numbers(popped[l], QueueUsedSize(l)))'
  BY PacketsAre, PTL
<1>. QED BY <1>1 DEF Numbers

LEMMA NumbersAreSeq ==
  ASSUME NEW p \in Nat, NEW n \in Nat
  PROVE  /\ Numbers(p, n) \in Seq(Int) /\ Len(Numbers(p, n)) = n
         /\ \A i \in 1 .. n : Numbers(p, n)[i] = (p + (i - 1)) % SeqMod
<1>1. SeqMod \in Nat \ {0}
  BY QueueAssumption DEF QueueAssumption
<1>2. \A i \in 1 .. n : (p + (i - 1)) % SeqMod \in Int
  BY <1>1
<1>. QED BY <1>2 DEF Numbers

\* A packet more at the end, and one less at the head.
LEMMA NumbersAppend ==
  ASSUME NEW p \in Nat, NEW n \in Nat
  PROVE  Append(Numbers(p, n), (p + n) % SeqMod) = Numbers(p, n + 1)
<1>. DEFINE s == Numbers(p, n)  t == Numbers(p, n + 1)  x == (p + n) % SeqMod
<1>1. /\ s \in Seq(Int) /\ Len(s) = n /\ t \in Seq(Int) /\ Len(t) = n + 1
      /\ \A i \in 1 .. n : s[i] = (p + (i - 1)) % SeqMod
      /\ \A i \in 1 .. n + 1 : t[i] = (p + (i - 1)) % SeqMod
  <2>1. /\ s \in Seq(Int) /\ Len(s) = n
        /\ \A i \in 1 .. n : s[i] = (p + (i - 1)) % SeqMod
    BY NumbersAreSeq, Zenon
  <2>2. n + 1 \in Nat
    OBVIOUS
  <2>3. /\ t \in Seq(Int) /\ Len(t) = n + 1
        /\ \A i \in 1 .. n + 1 : t[i] = (p + (i - 1)) % SeqMod
    BY <2>2, NumbersAreSeq, Zenon
  <2>. QED BY <2>1, <2>3
<1>2. x \in Int
  BY QueueAssumption DEF QueueAssumption
<1>. HIDE DEF s, t
<1>3. /\ Append(s, x) \in Seq(Int) /\ Len(Append(s, x)) = n + 1
      /\ Append(s, x)[n + 1] = x /\ \A i \in 1 .. n : Append(s, x)[i] = s[i]
  BY <1>1, <1>2
<1>4. ASSUME NEW i \in 1 .. n + 1 PROVE Append(s, x)[i] = t[i]
  <2>1. CASE i = n + 1
    <3>1. i - 1 = n
      BY <2>1
    <3>. QED BY <1>1, <1>3, <2>1, <3>1
  <2>2. CASE i # n + 1
    <3>1. i \in 1 .. n
      BY <2>2
    <3>. QED BY <1>1, <1>3, <3>1
  <2>. QED BY <2>1, <2>2
<1>. HIDE DEF x
<1>5. Append(s, x) = t
  BY <1>1, <1>3, <1>4, SeqEqual
<1>. QED BY <1>5 DEF s, t, x

LEMMA NumbersTail ==
  ASSUME NEW p \in Nat, NEW n \in Nat, n # 0
  PROVE  Numbers(p, n) # <<>> /\ Tail(Numbers(p, n)) = Numbers((p + 1) % SeqMod, n - 1)
<1>. DEFINE s == Numbers(p, n)  q == (p + 1) % SeqMod  t == Numbers(q, n - 1)
<1>0. SeqMod \in Nat \ {0} /\ q \in Nat /\ n - 1 \in Nat
  BY QueueAssumption DEF QueueAssumption
<1>. HIDE DEF q
<1>1. /\ s \in Seq(Int) /\ Len(s) = n /\ t \in Seq(Int) /\ Len(t) = n - 1
      /\ \A i \in 1 .. n : s[i] = (p + (i - 1)) % SeqMod
      /\ \A i \in 1 .. n - 1 : t[i] = (q + (i - 1)) % SeqMod
  BY <1>0, NumbersAreSeq
<1>. HIDE DEF s, t
<1>2. /\ s # <<>> /\ Tail(s) \in Seq(Int) /\ Len(Tail(s)) = n - 1
      /\ \A i \in 1 .. n - 1 : Tail(s)[i] = s[i + 1]
  BY <1>1
<1>3. ASSUME NEW i \in 1 .. n - 1 PROVE Tail(s)[i] = t[i]
  <2>1. i + 1 \in 1 .. n /\ p + 1 \in Int /\ i - 1 \in Int
        /\ p + ((i + 1) - 1) = (p + 1) + (i - 1)
    BY <1>0
  <2>2. (q + (i - 1)) % SeqMod = ((p + 1) + (i - 1)) % SeqMod
    BY <1>0, <2>1, ModPlus, Zenon DEF q
  <2>. QED BY <1>1, <1>2, <2>1, <2>2
<1>4. Tail(s) = t
  BY <1>1, <1>2, <1>3, SeqEqual
<1>. QED BY <1>2, <1>4 DEF s, t, q

\* What the refinement mapping makes of a state.
Mapped == <<[l \in Lidar |-> Packets(l)], pushed>>

LEMMA UsedType == Rings => \A l \in Lidar : QueueUsedSize(l) \in Nat /\ popped[l] \in Nat
<1>1. ASSUME Rings, NEW l \in Lidar PROVE QueueUsedSize(l) \in Nat /\ popped[l] \in Nat
  <2>1. RingTyped(l)
    BY <1>1 DEF Rings, RingInv
  <2>2. IndexMod \in Nat /\ SeqMod \in Nat
    BY QueueAssumption DEF QueueAssumption
  <2>. QED BY <2>1, <2>2, UsedFacts DEF RingTyped
<1>. QED BY <1>1

\* PushIndex puts the packet in, and only there.
LEMMA PushIsPut ==
  ASSUME Rings, Rings', PushIndex
  PROVE  \E l \in Lidar : Queues!Put(l)
<1>0. PICK m \in Lidar : m = store_lidar
  BY DEF Rings, Domains
<1>. DEFINE u == QueueUsedSize(m)  q == [l \in Lidar |-> Packets(l)]
<1>1. u \in Nat /\ popped[m] \in Nat /\ u < Size /\ QueueUsedSize(m)' = u + 1
  BY <1>0, UsedType, UsedPush
<1>2. /\ \A l \in Lidar : l # m => wr_idx'[l] = wr_idx[l]
      /\ UNCHANGED <<slots, rd_idx, popped>>
      /\ pushed' = [pushed EXCEPT ![m] = (@ + 1) % SeqMod]
  BY <1>0 DEF PushIndex, Rings, Domains
<1>3. ASSUME NEW l \in Lidar, l # m PROVE Packets(l)' = Packets(l)
  BY <1>2, <1>3 DEF Packets, QueueUsedSize
<1>4. Packets(m) = Numbers(popped[m], u) /\ Packets(m)' = Numbers(popped[m], u + 1)
  <2>1. Packets(m)' = Numbers(popped'[m], QueueUsedSize(m)')
    BY PacketsWillBe
  <2>. QED BY <1>1, <1>2, <2>1, PacketsAre
<1>5. pushed[m] = (popped[m] + u) % SeqMod
  BY DEF Rings, RingInv
<1>6. Packets(m)' = Append(Packets(m), pushed[m]) /\ Len(Packets(m)) = u
  BY <1>1, <1>4, <1>5, NumbersAppend, NumbersAreSeq
<1>7. q' = [q EXCEPT ![m] = Append(@, pushed[m])]
  BY <1>3, <1>6
<1>8. Len(q[m]) < Size
  BY <1>1, <1>6
<1>. HIDE DEF q, u
<1>9. Queues!Put(m)
  BY <1>2, <1>7, <1>8 DEF Queues!Put, q
<1>. QED BY <1>9

\* QueuePopUpdate takes the oldest packet out.
LEMMA PopIsTake ==
  ASSUME Rings, Rings', QueuePopUpdate
  PROVE  \E l \in Lidar : Queues!Take(l)
<1>0. PICK m \in Lidar : m = poll_lidar
  BY DEF Rings, Domains
<1>. DEFINE u == QueueUsedSize(m)  q == [l \in Lidar |-> Packets(l)]
<1>1. u \in Nat /\ popped[m] \in Nat /\ u # 0 /\ QueueUsedSize(m)' = u - 1
  BY <1>0, UsedType, UsedPop
<1>2. /\ \A l \in Lidar : l # m => rd_idx'[l] = rd_idx[l]
      /\ UNCHANGED <<slots, wr_idx, pushed>>
      /\ popped'[m] = (popped[m] + 1) % SeqMod
  BY <1>0 DEF QueuePopUpdate, Rings, Domains
<1>3. ASSUME NEW l \in Lidar, l # m PROVE Packets(l)' = Packets(l)
  BY <1>2, <1>3 DEF Packets, QueueUsedSize
<1>4. /\ Packets(m) = Numbers(popped[m], u)
      /\ Packets(m)' = Numbers((popped[m] + 1) % SeqMod, u - 1)
  <2>1. Packets(m)' = Numbers(popped'[m], QueueUsedSize(m)')
    BY PacketsWillBe
  <2>. QED BY <1>1, <1>2, <2>1, PacketsAre
<1>5. Packets(m) # <<>> /\ Packets(m)' = Tail(Packets(m))
  BY <1>1, <1>4, NumbersTail
<1>6. q' = [q EXCEPT ![m] = Tail(@)] /\ q[m] # <<>>
  BY <1>3, <1>5
<1>. HIDE DEF q, u
<1>7. Queues!Take(m)
  BY <1>2, <1>6 DEF Queues!Take, q
<1>. QED BY <1>7

\* Filling a slot shows in no queue.
LEMMA WriteIsHidden ==
  ASSUME Rings, Rings', QueuePushAny
  PROVE  UNCHANGED Mapped
<1>1. UNCHANGED <<wr_idx, rd_idx, pushed, popped>>
  BY DEF QueuePushAny, Write
<1>2. ASSUME NEW l \in Lidar PROVE Packets(l)' = Packets(l)
  <2>1. Packets(l)' = Numbers(popped'[l], QueueUsedSize(l)')
    BY PacketsWillBe
  <2>2. QueueUsedSize(l)' = QueueUsedSize(l)
    BY <1>1 DEF QueueUsedSize
  <2>. QED BY <1>1, <2>1, <2>2, PacketsAre
<1>. QED BY <1>1, <1>2 DEF Mapped

LEMMA RestIsHidden ==
  ASSUME [Next]_vars
  PROVE  PushIndex \/ QueuePopUpdate \/ QueuePushAny \/ UNCHANGED Mapped
<1>1. ASSUME UNCHANGED ring PROVE UNCHANGED Mapped
  BY <1>1 DEF ring, Mapped, Packets, QueueUsedSize
<1>2. CASE Store
  <2>1. ASSUME NEW l \in Lidar, PushLidarData(l) PROVE UNCHANGED ring
    BY <2>1 DEF PushLidarData
  <2>2. CheckEmpty \/ GetCount \/ Signal => UNCHANGED ring
    BY DEF CheckEmpty, GetCount, Signal
  <2>. QED BY <1>1, <1>2, <2>1, <2>2, Zenon DEF Store
<1>3. CASE Poll
  <2>1. (DistributePointCloudData \/ Wait \/ SkipLidar \/ PollingLidarPointCloudData
           \/ QueuePrePop \/ PublishCustomPointcloud \/ WaitFuture) => UNCHANGED ring
    BY DEF DistributePointCloudData, Wait, SkipLidar, PollingLidarPointCloudData,
           QueuePrePop, PublishCustomPointcloud, WaitFuture
  <2>. QED BY <1>1, <1>3, <2>1, Zenon DEF Poll
<1>4. CASE DriverStep
  BY <1>1, <1>4 DEF DriverStep
<1>5. ASSUME NEW l \in Lidar, StartsSampling(l) PROVE UNCHANGED ring
  BY <1>5 DEF StartsSampling
<1>6. CASE UNCHANGED vars
  BY <1>1, <1>6 DEF vars
<1>. QED BY <1>1, <1>2, <1>3, <1>4, <1>5, <1>6, Zenon DEF Next

\* The driver's rings are first-in-first-out queues: no packet is lost, torn, given
\* out twice or out of order, though no lock guards them (ldq.cpp).
THEOREM QueueRefinement == Spec => ImplementsQueue
<1>1. Init => Queues!Init
  <2>1. SUFFICES ASSUME Init, NEW l \in Lidar PROVE Packets(l) = <<>>
    BY DEF Init, Queues!Init
  <2>2. Rings
    BY <2>1, RingInit
  <2>3. Packets(l) = Numbers(0, 0)
    <3>1. QueueUsedSize(l) = 0 /\ popped[l] = 0
      <4>1. QueueIsEmpty(l) /\ popped[l] = 0 /\ RingTyped(l)
        BY <2>1, <2>2 DEF Init, QueueIsEmpty, Rings, RingInv
      <4>. QED BY <4>1, UsedFacts
    <3>. QED BY <2>2, <3>1, PacketsAre
  <2>4. Numbers(0, 0) \in Seq(Int) /\ Len(Numbers(0, 0)) = 0
    BY NumbersAreSeq
  <2>. QED BY <2>3, <2>4, EmptySeq
<1>2. Rings /\ [Next]_vars => [Queues!Next]_<<[l \in Lidar |-> Packets(l)], pushed>>
  <2>1. SUFFICES ASSUME Rings, [Next]_vars PROVE Queues!Next \/ UNCHANGED Mapped
    BY DEF Mapped
  <2>2. Rings'
    BY <2>1, RingStep
  <2>3. CASE PushIndex
    BY <2>1, <2>2, <2>3, PushIsPut DEF Queues!Next
  <2>4. CASE QueuePopUpdate
    BY <2>1, <2>2, <2>4, PopIsTake DEF Queues!Next
  <2>5. CASE QueuePushAny
    BY <2>1, <2>2, <2>5, WriteIsHidden
  <2>. QED BY <2>1, <2>3, <2>4, <2>5, RestIsHidden
<1>. QED BY <1>1, <1>2, RingInit, RingStep, PTL DEF Spec, ImplementsQueue, Queues!Spec
=============================================================================
