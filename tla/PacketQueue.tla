----------------------------- MODULE PacketQueue -----------------------------
(***************************************************************************)
(* What the rings of the lidar driver promise to the thread that stores    *)
(* packets and the one that publishes them: a queue per lidar, of at most  *)
(* Capacity packets, from which they come out as they went in.             *)
(***************************************************************************)
EXTENDS Integers, Sequences

CONSTANTS
    Lidar,
    Capacity,   \* the most packets a queue holds
    SeqMod      \* packets are numbered modulo SeqMod

VARIABLES
    queue,      \* of each lidar, oldest packet first
    number      \* of the next packet of each lidar

Init == /\ queue = [l \in Lidar |-> <<>>]
        /\ number = [l \in Lidar |-> 0]

Put(l) ==
    /\ Len(queue[l]) < Capacity
    /\ queue' = [queue EXCEPT ![l] = Append(@, number[l])]
    /\ number' = [number EXCEPT ![l] = (@ + 1) % SeqMod]

Take(l) ==
    /\ queue[l] # <<>>
    /\ queue' = [queue EXCEPT ![l] = Tail(@)]
    /\ UNCHANGED number

Next == \E l \in Lidar : Put(l) \/ Take(l)

Spec == Init /\ [][Next]_<<queue, number>>
=============================================================================
