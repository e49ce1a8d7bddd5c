----------------------------- MODULE DropService -----------------------------
(***************************************************************************)
(* The node servo_server (servo_server.cpp, gpio.cpp) and the client that  *)
(* calls it, the action PUT of the mission controller.                     *)
(*                                                                         *)
(* The server takes one request at a time and drives a servo with a series *)
(* of pulses on a GPIO pin.  An access opens a file of the kernel, writes  *)
(* and closes it.  Only a failure to open is noticed (GpioFails); a write  *)
(* that fails is not, and changes nothing on the pin.  Payloads 1 and 3    *)
(* hang on one servo, which the width of its pulses turns one way or the   *)
(* other.  A call may be lost: the client is told that it failed while the *)
(* server still handles the request, or has done so.                       *)
(***************************************************************************)
EXTENDS Integers, Sequences

CONSTANTS
    Pulses,       \* pulses of a request (100)
    Garbage,      \* values of the uninitialised pulse counter i
    MaxFaults     \* bound on files that do not open, writes that fail, calls lost

ASSUME DropAssumption ==
    /\ Pulses \in Nat \ {0} /\ MaxFaults \in Nat
    /\ Garbage \subseteq Int /\ Garbage # {}

VARIABLES
    put_servo_id,    \* the controller's: the payload to drop next, 0 for none
    requests,        \* requests at the server; one answers the waiting call
    step, i,         \* doReq: its next GPIO access and its counter
    output,          \* pins whose direction is set; the others refuse a level
    high,            \* pins at level ON
    moved,           \* history: payloads whose servo got all its pulses
    touched,         \* history: payloads whose servo got a pulse
    stuck,           \* history: pins on which a write failed that sets OFF, and none came since
    pulsed,          \* history: pulses since the request began
    unheard,         \* history: writes since then that changed nothing
    faults

pins == <<output, high, stuck>>
seen == <<moved, touched, pulsed, unheard>>
server == <<step, i, pins, seen>>
vars == <<put_servo_id, requests, server, faults>>

Payload == 1 .. 3
Pin == [n \in Payload |-> IF n = 2 THEN "BUZZERB" ELSE "BUZZERA"]

\* A call is waiting for its answer.
Calling == \E k \in 1 .. Len(requests) : requests[k].answer

Init ==
    /\ put_servo_id = 3
    /\ requests = <<>>
    /\ step = "idle" /\ i \in Garbage
    /\ output \in SUBSET {"BUZZERA", "BUZZERB"} /\ high = {} /\ stuck = {}
    /\ moved = {} /\ touched = {} /\ pulsed = 0 /\ unheard = 0
    /\ faults = 0
-----------------------------------------------------------------------------
(* The controller, PUT.                                                    *)

\* Variant: the servo of the next payload is asked for.
CallServoNext ==
    /\ put_servo_id >= 2 /\ ~Calling
    /\ requests' = Append(requests, [servo |-> put_servo_id - 1, answer |-> TRUE])
    /\ UNCHANGED <<put_servo_id, server, faults>>

\* Variant: no retry for a servo that has moved at all.
CallServoOnce ==
    /\ put_servo_id >= 1 /\ ~Calling
    /\ put_servo_id \notin touched
    /\ requests' = Append(requests, [servo |-> put_servo_id, answer |-> TRUE])
    /\ UNCHANGED <<put_servo_id, server, faults>>

CallServo ==
    /\ put_servo_id >= 1 /\ ~Calling
    /\ requests' = Append(requests, [servo |-> put_servo_id, answer |-> TRUE])
    /\ UNCHANGED <<put_servo_id, server, faults>>

\* The connection breaks: the call returns false and is made again.
CallLost ==
    /\ Calling /\ faults < MaxFaults
    /\ faults' = faults + 1
    /\ requests' = [k \in DOMAIN requests |-> [requests[k] EXCEPT !.answer = FALSE]]
    /\ UNCHANGED <<put_servo_id, server>>

\* Variant: the payload is counted as dropped whatever the answer.
AnswerAlways(flag) ==
    /\ requests' = Tail(requests)
    /\ put_servo_id' = IF Head(requests).answer THEN put_servo_id - 1 ELSE put_servo_id

\* The server answers; "put defeat, retrying..." for false.
Answer(flag) ==
    /\ requests' = Tail(requests)
    /\ put_servo_id' = IF Head(requests).answer /\ flag THEN put_servo_id - 1
                       ELSE put_servo_id
-----------------------------------------------------------------------------
(* doReq.                                                                  *)

Servo == Head(requests).servo

\* A write that may fail: whether the pin takes it.
Written(ok) ==
    \/ ok /\ faults' = faults /\ unheard' = unheard
    \/ ~ok /\ faults < MaxFaults /\ faults' = faults + 1 /\ unheard' = unheard + 1

\* A level: a pin that is no output refuses it.
WrittenLevel(ok) ==
    \/ Pin[Servo] \in output /\ Written(ok)
    \/ Pin[Servo] \notin output /\ ~ok /\ unheard' = unheard + 1 /\ faults' = faults

\* openGpio; its write fails for a pin that is exported already, and setGpioDirection
\* finds no file to open if the pin is not.  i is whatever the stack holds.
Start ==
    /\ step = "idle" /\ requests # <<>>
    /\ step' = "direction" /\ i' \in Garbage /\ pulsed' = 0 /\ unheard' = 0
    /\ UNCHANGED <<put_servo_id, requests, pins, moved, touched, faults>>

\* setGpioDirection; the kernel makes the pin an output at level OFF.
SetDirection ==
    /\ step = "direction"
    /\ step' = IF i < Pulses THEN "on" ELSE "end"
    /\ \E ok \in BOOLEAN :
          /\ Written(ok)
          /\ output' = IF ok THEN output \cup {Pin[Servo]} ELSE output
          /\ high' = IF ok THEN high \ {Pin[Servo]} ELSE high
          /\ stuck' = IF ok THEN stuck \ {Pin[Servo]} ELSE stuck \cup {Pin[Servo]}
    /\ UNCHANGED <<put_servo_id, requests, i, moved, touched, pulsed>>

PulseOn ==
    /\ step = "on"
    /\ step' = "off" /\ i' = i + 1
    /\ \E ok \in BOOLEAN :
          /\ WrittenLevel(ok)
          /\ high' = IF ok THEN high \cup {Pin[Servo]} ELSE high
          /\ touched' = IF ok THEN touched \cup {Servo} ELSE touched
    /\ UNCHANGED <<put_servo_id, requests, output, stuck, moved, pulsed>>

\* Variant: the loop ends before the pin is set back.
PulseOffLast ==
    /\ step = "off"
    /\ step' = IF i < Pulses THEN "on" ELSE "end"
    /\ high' = IF i < Pulses THEN high \ {Pin[Servo]} ELSE high
    /\ pulsed' = pulsed + 1
    /\ moved' = IF pulsed' >= Pulses THEN moved \cup {Servo} ELSE moved
    /\ UNCHANGED <<put_servo_id, requests, i, output, stuck, touched, unheard, faults>>

\* A pulse ends when the level goes from ON to OFF.
PulseOff ==
    /\ step = "off"
    /\ step' = IF i < Pulses THEN "on" ELSE "end"
    /\ \E ok \in BOOLEAN :
          /\ WrittenLevel(ok)
          /\ high' = IF ok THEN high \ {Pin[Servo]} ELSE high
          /\ stuck' = IF ok THEN stuck \ {Pin[Servo]} ELSE stuck \cup {Pin[Servo]}
          /\ pulsed' = IF ok /\ Pin[Servo] \in high THEN pulsed + 1 ELSE pulsed
    /\ moved' = IF pulsed' >= Pulses THEN moved \cup {Servo} ELSE moved
    /\ UNCHANGED <<put_servo_id, requests, i, output, touched>>

\* A file does not open: doReq returns false.
GpioFails ==
    /\ step \in {"direction", "on", "off"} \/ (step = "idle" /\ requests # <<>>)
    /\ faults < MaxFaults
    /\ faults' = faults + 1
    /\ step' = "idle"
    /\ Answer(FALSE)
    /\ UNCHANGED <<i, pins, seen>>

Finish ==
    /\ step = "end"
    /\ step' = "idle"
    /\ Answer(TRUE)
    /\ UNCHANGED <<i, pins, seen, faults>>

doReq == Start \/ SetDirection \/ PulseOn \/ PulseOff \/ Finish

Next == CallServo \/ CallLost \/ doReq \/ GpioFails

Spec == Init /\ [][Next]_vars

\* Server and controller go on; GPIO and connection fail only so often.
FairSpec == Spec /\ WF_vars(CallServo) /\ WF_vars(doReq)
-----------------------------------------------------------------------------
\* The types; a lost call leaves its request in the queue.
TypeOK ==
    /\ put_servo_id \in 0 .. 3
    /\ requests \in Seq([servo : Payload, answer : BOOLEAN])
    /\ Len(requests) <= MaxFaults + 1
    /\ step \in {"idle", "direction", "on", "off", "end"}
    /\ step # "idle" => requests # <<>>
    /\ high \subseteq {"BUZZERA", "BUZZERB"} /\ stuck \subseteq {"BUZZERA", "BUZZERB"}
    /\ high \subseteq output
    /\ moved \subseteq Payload /\ touched \subseteq Payload
    /\ faults \in 0 .. MaxFaults

\* No payload's servo gets a pulse before the controller turned to it, even
\* by a request left over from a lost call (servo_server.cpp, fsm.cpp:564).
NotBeforeTurn == \A n \in touched : put_servo_id <= n

\* servo_server.cpp:7, the returned flag tells whether the request was
\* handled: a payload the controller counts as dropped had its servo moved.
DroppedMeansMoved == \A n \in Payload : n > put_servo_id => n \in moved

\* The controller counts a payload as dropped on the answer to a request for that very
\* payload, never one left over from a lost call, and its servo got every pulse but at
\* most one for each write that failed unnoticed: what is noticed is retried
\* (servo_server.cpp:28-43, fsm.cpp:565).
CountedByItsRequest ==
    [][put_servo_id' < put_servo_id =>
          /\ Servo = put_servo_id /\ put_servo_id' = put_servo_id - 1
          /\ pulsed + unheard >= Pulses]_vars

\* A failed request leaves a pin under voltage only until its own retry: out of the turn
\* of its payload a pin is on only if the write that sets it OFF failed unnoticed
\* (servo_server.cpp:107, gpio.cpp:113).
OnOutOfTurn == \A p \in high \ stuck : put_servo_id >= 1 /\ p = Pin[put_servo_id]

\* Whatever fails, all three payloads are dropped in the end.
AllDropped == <>(put_servo_id = 0)
=============================================================================
