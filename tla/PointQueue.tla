----------------------------- MODULE PointQueue -----------------------------
(***************************************************************************)
(* Point cloud packets on their way through the lidar driver: the thread   *)
(* of pub_handler stores them (Lds::PushLidarData) in one ring per lidar,  *)
(* the thread PointCloudDataPollThread takes them out and publishes them,  *)
(* and the main thread ends it (~DriverNode).                              *)
(*                                                                         *)
(* Rings and indices carry no lock; only the count of pcd_semaphore_ has a *)
(* mutex, and GetCount reads it without.  Each read or write of a shared   *)
(* variable is a step; memory is sequentially consistent.  A packet is its *)
(* number among those its ring took, modulo SeqMod.                        *)
(***************************************************************************)
EXTENDS Integers

CONSTANTS
    LidarCount,    \* lidar_count_
    Size,          \* slots of a ring, a power of 2; Size - 1 is the mask
    IndexMod,      \* 2^w for indices of w bits (32 in the code)
    SeqMod         \* packet numbers are taken modulo SeqMod

ASSUME QueueAssumption ==
    /\ {LidarCount, Size, IndexMod, SeqMod} \subseteq Nat \ {0}
    /\ IndexMod > Size /\ IndexMod % Size = 0
    /\ SeqMod > Size

VARIABLES
    slots, wr_idx, rd_idx,     \* the ring of each lidar
    sampling,                  \* connect_state is kConnectStateSampling
    count,                     \* of pcd_semaphore_
    store, store_lidar,        \* the storing thread: next step, its lidar
    poll, poll_lidar,          \* the polling thread, likewise
    driver,                    \* the main thread
    pushed, popped,            \* history: packets the ring took, and gave
    heard                      \* history: lidars that stored one while sampling

ring     == <<slots, wr_idx, rd_idx, pushed, popped>>
storing  == <<store, store_lidar>>
polling  == <<poll, poll_lidar>>
vars == <<ring, sampling, heard, count, storing, polling, driver>>

Lidar == 1 .. LidarCount

\* What a slot holds while it is written, and before.
Torn == -1

Init ==
    /\ slots = [l \in Lidar |-> [i \in 0 .. Size - 1 |-> Torn]]
    /\ wr_idx = [l \in Lidar |-> 0] /\ rd_idx = [l \in Lidar |-> 0]
    /\ pushed = [l \in Lidar |-> 0] /\ popped = [l \in Lidar |-> 0]
    /\ sampling = {} /\ heard = {}
    /\ count = 0
    /\ store = "idle" /\ store_lidar = 1
    /\ poll = "start" /\ poll_lidar = 1
    /\ driver = "runs"

QueueIsEmpty(l) == rd_idx[l] = wr_idx[l]
QueueUsedSize(l) == (wr_idx[l] - rd_idx[l]) % IndexMod
\* Variant: one packet too many.
QueueIsFullLate(l) == QueueUsedSize(l) > Size

QueueIsFull(l) == QueueUsedSize(l) > Size - 1
-----------------------------------------------------------------------------
(* PushLidarData, on the storing thread.                                   *)

StoreStep(from, to) == store = from /\ store' = to

\* A full ring takes no packet, but the poll thread is woken all the same.
PushLidarData(l) ==
    /\ StoreStep("idle", IF QueueIsFull(l) THEN "count" ELSE "write")
    /\ store_lidar' = l
    /\ UNCHANGED <<ring, sampling, heard, count, polling, driver>>

\* QueuePushAny: base_time and points of the slot, then the index.
Write(from, to, value) ==
    /\ StoreStep(from, to)
    /\ slots' = [slots EXCEPT ![store_lidar][wr_idx[store_lidar] % Size] = value]
    /\ UNCHANGED <<wr_idx, rd_idx, pushed, popped, sampling, heard, count, store_lidar,
                   polling, driver>>

QueuePushAny ==
    \/ Write("write", "copy", Torn)
    \/ Write("copy", "index", pushed[store_lidar])

PushIndex ==
    /\ StoreStep("index", "empty")
    /\ wr_idx' = [wr_idx EXCEPT ![store_lidar] = (@ + 1) % IndexMod]
    /\ pushed' = [pushed EXCEPT ![store_lidar] = (@ + 1) % SeqMod]
    /\ heard' = heard \cup ({store_lidar} \cap sampling)
    /\ UNCHANGED <<slots, rd_idx, popped, sampling, count, store_lidar, polling, driver>>

CheckEmpty ==
    /\ StoreStep("empty", IF QueueIsEmpty(store_lidar) THEN "idle" ELSE "count")
    /\ UNCHANGED <<ring, sampling, heard, count, store_lidar, polling, driver>>

\* Variant: a count of 0 is taken for a signal.
GetCountNegative ==
    /\ StoreStep("count", IF count < 0 THEN "signal" ELSE "idle")
    /\ UNCHANGED <<ring, sampling, heard, count, store_lidar, polling, driver>>

GetCount ==
    /\ StoreStep("count", IF count <= 0 THEN "signal" ELSE "idle")
    /\ UNCHANGED <<ring, sampling, heard, count, store_lidar, polling, driver>>

Signal ==
    /\ StoreStep("signal", "idle")
    /\ count' = count + 1
    /\ UNCHANGED <<ring, sampling, heard, store_lidar, polling, driver>>
-----------------------------------------------------------------------------
(* PointCloudDataPollThread.                                               *)

PollStep(from, to) == poll = from /\ poll' = to

RequestedExit == driver # "runs"

DistributePointCloudData ==
    /\ PollStep("start", IF RequestedExit THEN "future" ELSE "wait")
    /\ UNCHANGED <<ring, sampling, heard, count, storing, poll_lidar, driver>>

\* Semaphore::Wait.
Wait ==
    /\ count > 0
    /\ PollStep("wait", "lidar")
    /\ count' = count - 1
    /\ poll_lidar' = 1
    /\ UNCHANGED <<ring, sampling, heard, storing, driver>>

\* Variant: the last lidar is left out.
NextLidarButLast ==
    IF poll_lidar + 1 < LidarCount THEN poll_lidar' = poll_lidar + 1 /\ poll' = "lidar"
    ELSE poll' = "future" /\ UNCHANGED poll_lidar

\* The polling thread turns to the next lidar, or has seen all.
NextLidar ==
    IF poll_lidar < LidarCount THEN poll_lidar' = poll_lidar + 1 /\ poll' = "lidar"
    ELSE poll' = "future" /\ UNCHANGED poll_lidar

SkipLidar ==
    /\ poll = "lidar"
    /\ poll_lidar \notin sampling
    /\ NextLidar
    /\ UNCHANGED <<ring, sampling, heard, count, storing, driver>>

\* The loop of PollingLidarPointCloudData.
PollingLidarPointCloudData ==
    /\ poll \in {"lidar", "again"}
    /\ poll = "lidar" => poll_lidar \in sampling
    /\ IF RequestedExit \/ QueueIsEmpty(poll_lidar) THEN NextLidar
       ELSE poll' = "read" /\ UNCHANGED poll_lidar
    /\ UNCHANGED <<ring, sampling, heard, count, storing, driver>>

\* QueuePop copies the slot (base_time, then points) and frees it.
QueuePrePop ==
    /\ PollStep("read", "points") \/ PollStep("points", "pop")
    /\ UNCHANGED <<ring, sampling, heard, count, storing, poll_lidar, driver>>

QueuePopUpdate ==
    /\ PollStep("pop", "inner")
    /\ rd_idx' = [rd_idx EXCEPT ![poll_lidar] = (@ + 1) % IndexMod]
    /\ popped' = [popped EXCEPT ![poll_lidar] = (@ + 1) % SeqMod]
    /\ UNCHANGED <<slots, wr_idx, pushed, sampling, heard, count, storing, poll_lidar, driver>>

\* The inner loop of PublishCustomPointcloud, which does not look for an exit.
PublishCustomPointcloud ==
    /\ PollStep("inner", IF QueueIsEmpty(poll_lidar) THEN "again" ELSE "read")
    /\ UNCHANGED <<ring, sampling, heard, count, storing, poll_lidar, driver>>

WaitFuture ==
    /\ PollStep("future", IF driver = "signalled" THEN "done" ELSE "start")
    /\ UNCHANGED <<ring, sampling, heard, count, storing, poll_lidar, driver>>
-----------------------------------------------------------------------------
\* A callback of the SDK finds the lidar sampling.
StartsSampling(l) ==
    /\ sampling' = sampling \cup {l}
    /\ UNCHANGED <<ring, heard, count, storing, polling, driver>>

\* ~DriverNode: RequestExit, set_value, join.
RequestExit == driver = "runs" /\ driver' = "requested"
SetValue    == driver = "requested" /\ driver' = "signalled"
Join        == driver = "signalled" /\ poll = "done" /\ driver' = "joined"

DriverStep ==
    /\ RequestExit \/ SetValue \/ Join
    /\ UNCHANGED <<ring, sampling, heard, count, storing, polling>>

Store == (\E l \in Lidar : PushLidarData(l)) \/ QueuePushAny \/ PushIndex
           \/ CheckEmpty \/ GetCount \/ Signal
Poll  == DistributePointCloudData \/ Wait \/ SkipLidar \/ PollingLidarPointCloudData
           \/ QueuePrePop \/ QueuePopUpdate \/ PublishCustomPointcloud \/ WaitFuture

Next == Store \/ Poll \/ DriverStep \/ \E l \in Lidar : StartsSampling(l)

Spec == Init /\ [][Next]_vars

\* Threads run; the storing thread goes on with a packet it has begun, and
\* no packet need ever come.
Fairness ==
    /\ WF_vars(Poll)
    /\ WF_vars(store # "idle" /\ Store)
    /\ WF_vars(driver # "runs" /\ DriverStep)

FairSpec == Spec /\ Fairness
-----------------------------------------------------------------------------
\* What the ring of a lidar holds, oldest first.
Packets(l) == [i \in 1 .. QueueUsedSize(l) |-> slots[l][(rd_idx[l] + (i - 1)) % Size]]

Queues == INSTANCE PacketQueue WITH
    Capacity <- Size, queue <- [l \in Lidar |-> Packets(l)], number <- pushed

\* With no lock around rings and indices, what the polling thread takes out are the
\* packets the storing thread put in, each once, whole and in order; a full ring
\* refuses a packet and loses none it took (ldq.cpp, also when the indices overflow).
ImplementsQueue == Queues!Spec

\* No wake-up is lost or given twice (lds.cpp:184-195), though GetCount reads the count
\* without its mutex: if the polling thread waits with a packet in the ring of a lidar
\* that stored one while sampling, the storing thread is about to signal.  (Packets
\* stored before wait for the next one.)
NoLostWakeup ==
    /\ count <= 1
    /\ poll = "wait" /\ count = 0 /\ (\E l \in heard : ~QueueIsEmpty(l))
          => store \in {"empty", "count", "signal"}

\* Publishing is faster than the lidar: a ring is empty in the end.  The loops
\* of one lidar look at no other before, and the inner one for no exit.
CatchesUp == []<>(poll \notin {"again", "read", "points", "pop", "inner"})

\* Every packet in the ring of a lidar that stored one while sampling is
\* published, also if none follows it, unless the driver ends.
PacketsPublished ==
    CatchesUp => \A l \in Lidar, n \in 0 .. SeqMod - 1 :
        (l \in heard /\ pushed[l] = n /\ ~QueueIsEmpty(l)) ~> (popped[l] = n \/ RequestedExit)

\* The destructor's first join returns if packets keep coming: the polling thread
\* waits for one before it sees the exit (lddc.cpp:123-128), be the rings full or
\* not.  The IMU thread, joined next (driver_node.cpp:38), is not modelled.
ExitCompletes ==
    CatchesUp /\ []<>(store # "idle") => (driver = "requested" ~> driver = "joined")
=============================================================================
