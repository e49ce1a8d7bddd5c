----------------------------- MODULE TrajServer -----------------------------
(***************************************************************************)
(* The node traj_server: it keeps the trajectory received last and samples *)
(* it a hundred times a second into position commands.                     *)
(***************************************************************************)
EXTENDS Integers, Sequences

CONSTANTS
    Duration,    \* age at which a trajectory has ended
    none         \* no goal

VARIABLES
    bsplines,    \* the topic planning/bspline, oldest message first
    server,      \* traj_ and start_time_: the trajectory kept, with its age
    cmd          \* the trajectory the last run of cmdCallback took a command from

\* No trajectory received yet (receive_traj_ is false).
NoTrajectory == [kind |-> "none", goal |-> none, last |-> FALSE, age |-> 0]

Silent == [kind |-> "none", goal |-> none]

Init == server = NoTrajectory /\ cmd = Silent

\* Faulty variant: a trajectory is not replaced before it has ended.
bsplineCallbackLate ==
    /\ bsplines # <<>>
    /\ bsplines' = Tail(bsplines)
    /\ server' = IF server.kind = "none" \/ server.age = Duration
                 THEN Head(bsplines) ELSE server
    /\ UNCHANGED cmd

bsplineCallback ==
    /\ bsplines # <<>>
    /\ bsplines' = Tail(bsplines)
    /\ server' = Head(bsplines)
    /\ UNCHANGED cmd

\* Nothing is published before the first trajectory; the branch for a
\* trajectory that has ended computes a hover command and returns.
Sample == IF server.kind # "none" /\ server.age < Duration
          THEN [kind |-> server.kind, goal |-> server.goal] ELSE Silent
cmdCallback ==
    /\ cmd' = Sample
    /\ UNCHANGED <<bsplines, server>>
=============================================================================
