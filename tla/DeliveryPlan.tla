---------------------------- MODULE DeliveryPlan ----------------------------
(***************************************************************************)
(* What the mission controller promises to whoever plans a delivery        *)
(* flight: the goals are flown to in the order of the route, each once;    *)
(* at each of the first four at most one payload is delivered, where the   *)
(* plan says so and while there is one; after the last goal the vehicle    *)
(* lands, and sets out for no other goal.                                  *)
(***************************************************************************)
EXTENDS Integers

CONSTANTS
    length, route,   \* the goals, route[0] .. route[length - 1]
    Plan,            \* the plans: which of the first four goals get a payload
    start            \* where the vehicle is before its first goal

VARIABLES goals, goal, plan, loaded, delivered, landing

Init ==
    /\ goals = 0 /\ goal = start /\ plan \in Plan
    /\ loaded = 3 /\ delivered = FALSE /\ landing = FALSE

SetOut ==
    /\ ~landing /\ goals < length
    /\ goal' = route[goals] /\ goals' = goals + 1 /\ delivered' = FALSE
    /\ UNCHANGED <<plan, loaded, landing>>

Deliver ==
    /\ ~landing /\ goals \in 1 .. 4 /\ plan[goals - 1] /\ ~delivered
    /\ loaded > 0 /\ loaded' = loaded - 1 /\ delivered' = TRUE
    /\ UNCHANGED <<goals, goal, plan, landing>>

Land ==
    /\ goals = length /\ landing' = TRUE
    /\ UNCHANGED <<goals, goal, plan, loaded, delivered>>

\* A landing that lost its target releases a payload.
Shed ==
    /\ landing /\ loaded > 0 /\ loaded' = loaded - 1 /\ delivered' = TRUE
    /\ UNCHANGED <<goals, goal, plan, landing>>

Next == SetOut \/ Deliver \/ Land \/ Shed

Spec == Init /\ [][Next]_<<goals, goal, plan, loaded, delivered, landing>>
=============================================================================
