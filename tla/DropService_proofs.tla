-------------------------- MODULE DropService_proofs --------------------------
(***************************************************************************)
(* No payload is dropped before its turn, however often files do not open, *)
(* writes fail and calls are lost; a pin is on out of its turn only if the *)
(* write of OFF failed; and while the uninitialised counter does not start *)
(* above 0, none is skipped but by writes that failed unnoticed.           *)
(***************************************************************************)
EXTENDS DropService, TLAPS, SequenceTheorems

Request == [servo : Payload, answer : BOOLEAN]
Typed ==
    /\ put_servo_id \in 0 .. 3
    /\ requests \in Seq(Request)
    /\ step \in {"idle", "direction", "on", "off", "end"}
    /\ i \in Int /\ pulsed \in Nat /\ unheard \in Nat
    /\ moved \subseteq Payload /\ touched \subseteq Payload

\* A request is for the payload in turn, or left from one before it; at most
\* one has a client that waits, and it is for the payload in turn.
RequestsInTurn ==
    /\ \A k \in 1 .. Len(requests) :
          /\ requests[k].servo >= put_servo_id
          /\ requests[k].answer => requests[k].servo = put_servo_id
    /\ \A j, k \in 1 .. Len(requests) : requests[j].answer /\ requests[k].answer => j = k
    /\ step # "idle" => requests # <<>>

Order == Typed /\ RequestsInTurn /\ NotBeforeTurn

\* The request at hand: its counter is ahead of its pulses only by the pulse that is on
\* and by the writes that failed.
Counted ==
    /\ step \in {"direction", "on", "end"} => i <= pulsed + unheard
    /\ step = "off" => i <= pulsed + unheard + (IF Pin[Servo] \in high THEN 1 ELSE 0)
    /\ step = "end" => i >= Pulses

Inv == Order /\ Counted

\* What the head of the queue is, and what taking it off leaves.
LEMMA HeadRequest ==
  ASSUME Order, requests # <<>>
  PROVE  /\ Head(requests) = requests[1] /\ 1 \in 1 .. Len(requests)
         /\ Head(requests) \in Request /\ Servo \in Payload
         /\ Servo >= put_servo_id
         /\ Head(requests).answer => Servo = put_servo_id
<1>1. Head(requests) = requests[1] /\ 1 \in 1 .. Len(requests) /\ Head(requests) \in Request
  BY DEF Order, Typed
<1>. QED BY <1>1 DEF Order, RequestsInTurn, Servo, Request

LEMMA TailRequests ==
  ASSUME Order, requests # <<>>
  PROVE  /\ Tail(requests) \in Seq(Request)
         /\ \A k \in 1 .. Len(Tail(requests)) :
               k + 1 \in 1 .. Len(requests) /\ Tail(requests)[k] = requests[k + 1]
  BY DEF Order, Typed

\* An answer: the payload in turn is counted as dropped or stays in turn.
LEMMA AnswerOrder ==
  ASSUME Order, requests # <<>>, NEW flag \in BOOLEAN, Answer(flag),
         step' = "idle", UNCHANGED <<i, seen>>
  PROVE  Order' /\ put_servo_id' <= put_servo_id
<1>1. /\ put_servo_id' \in 0 .. 3 /\ put_servo_id' <= put_servo_id
      /\ put_servo_id' # put_servo_id => Head(requests).answer
  BY HeadRequest DEF Answer, Order, Typed, Payload
<1>2. requests' = Tail(requests)
  BY DEF Answer
<1>3. Typed'
  BY <1>1, <1>2, TailRequests DEF seen, Order, Typed
<1>4. RequestsInTurn'
  <2>1. ASSUME NEW k \in 1 .. Len(Tail(requests))
        PROVE  /\ Tail(requests)[k].servo >= put_servo_id'
               /\ Tail(requests)[k].answer => Tail(requests)[k].servo = put_servo_id'
    <3>1. k + 1 \in 1 .. Len(requests) /\ Tail(requests)[k] = requests[k + 1] /\ k + 1 # 1
      BY TailRequests
    <3>2. requests[k + 1] \in Request
      BY <3>1 DEF Order, Typed
    <3>3. Head(requests).answer => ~requests[k + 1].answer
      BY <3>1, HeadRequest DEF Order, RequestsInTurn
    <3>. QED BY <3>1, <3>2, <3>3, <1>1 DEF Order, RequestsInTurn, Typed, Request, Payload
  <2>2. ASSUME NEW j \in 1 .. Len(Tail(requests)), NEW k \in 1 .. Len(Tail(requests)),
               Tail(requests)[j].answer, Tail(requests)[k].answer
        PROVE  j = k
    BY <2>2, TailRequests DEF Order, RequestsInTurn
  <2>. QED BY <2>1, <2>2, <1>2 DEF RequestsInTurn
<1>5. NotBeforeTurn'
  BY <1>1 DEF seen, Order, Typed, NotBeforeTurn, Payload
<1>. QED BY <1>1, <1>3, <1>4, <1>5 DEF Order

\* Calls of the controller, answered or lost.
LEMMA CallServoOrder == ASSUME Order, CallServo PROVE Order'
<1>. DEFINE r == [servo |-> put_servo_id, answer |-> TRUE]
<1>1. r \in Request /\ put_servo_id >= 1 /\ requests' = Append(requests, r)
      /\ ~Calling /\ UNCHANGED <<put_servo_id, server, faults>>
  BY DEF CallServo, Order, Typed, Request, Payload
<1>2. Typed'
  BY <1>1 DEF server, seen, Order, Typed
<1>3. RequestsInTurn'
  <2>1. \A k \in 1 .. Len(requests) : ~requests[k].answer
    BY <1>1 DEF Calling
  <2>2. \A k \in 1 .. Len(requests') :
           \/ k = Len(requests) + 1 /\ requests'[k] = r
           \/ k \in 1 .. Len(requests) /\ requests'[k] = requests[k]
    <3>1. /\ requests \in Seq(Request) /\ Len(requests) \in Nat
          /\ Len(requests') = Len(requests) + 1
          /\ requests'[Len(requests) + 1] = r
      BY <1>1 DEF Order, Typed
    <3>2. \A k \in 1 .. Len(requests) : requests'[k] = requests[k]
      BY <1>1, <3>1
    <3>3. ASSUME NEW k \in 1 .. Len(requests')
          PROVE  k = Len(requests) + 1 \/ k \in 1 .. Len(requests)
      BY <3>1
    <3>. QED BY <3>1, <3>2, <3>3
  <2>3. requests' # <<>>
    BY <1>1 DEF Order, Typed
  <2>. QED BY <1>1, <2>1, <2>2, <2>3 DEF Order, Typed, RequestsInTurn
<1>. QED BY <1>1, <1>2, <1>3 DEF server, seen, Order, NotBeforeTurn

LEMMA CallLostOrder ==
  ASSUME Order, CallLost PROVE Order' /\ (requests # <<>> => Servo' = Servo)
<1>1. requests' = [k \in DOMAIN requests |-> [requests[k] EXCEPT !.answer = FALSE]]
      /\ UNCHANGED <<put_servo_id, server>>
  BY DEF CallLost
<1>2. DOMAIN requests = 1 .. Len(requests) /\ Len(requests) \in Nat
  BY DEF Order, Typed
<1>3. \A k \in 1 .. Len(requests) :
        /\ requests[k] \in Request
        /\ requests'[k] \in Request
        /\ requests'[k].servo = requests[k].servo /\ requests'[k].answer = FALSE
  <2>1. ASSUME NEW k \in 1 .. Len(requests)
        PROVE  requests[k] \in Request
    BY DEF Order, Typed
  <2>2. ASSUME NEW k \in 1 .. Len(requests)
        PROVE  requests'[k] = [requests[k] EXCEPT !.answer = FALSE]
    BY <1>1, <1>2
  <2>3. ASSUME NEW k \in 1 .. Len(requests)
        PROVE  /\ requests'[k] \in Request
               /\ requests'[k].servo = requests[k].servo /\ requests'[k].answer = FALSE
    <3>1. requests[k] \in Request
      BY <2>1
    <3>2. requests'[k] = [requests[k] EXCEPT !.answer = FALSE]
      BY <2>2
    <3> QED BY ONLY <3>1, <3>2 DEF Request
  <2>. QED BY <2>1, <2>3
<1>4. requests' \in Seq(Request) /\ Len(requests') = Len(requests)
  <2>1. requests' \in [1 .. Len(requests) -> Request]
    BY <1>1, <1>2, <1>3
  <2>2. requests' \in Seq(Request)
    BY <1>2, <2>1, SeqDef
  <2>. QED BY <1>2, <2>1, <2>2, LenProperties
<1>5. requests # <<>> => requests' # <<>> /\ Servo' = Servo
  BY <1>2, <1>3, <1>4 DEF Servo, Order, Typed
<1>6. Typed'
  BY <1>1, <1>4 DEF server, seen, Order, Typed
<1>7. RequestsInTurn'
  BY <1>1, <1>3, <1>4, <1>5 DEF server, seen, Order, RequestsInTurn
<1>. QED BY <1>1, <1>5, <1>6, <1>7 DEF server, seen, Order, NotBeforeTurn

\* The steps of doReq that do not answer.
LEMMA PulseOrder ==
  ASSUME Order, Start \/ SetDirection \/ PulseOn \/ PulseOff
  PROVE  Order' /\ Servo' = Servo /\ put_servo_id' = put_servo_id
<1>1. UNCHANGED <<put_servo_id, requests>> /\ requests # <<>>
  BY DEF Start, SetDirection, PulseOn, PulseOff, Order, RequestsInTurn
<1>2. Servo' = Servo /\ Servo \in Payload /\ Servo >= put_servo_id
  BY <1>1, HeadRequest DEF Servo
<1>3. /\ step' \in {"direction", "on", "off", "end"}
      /\ i' \in Int /\ pulsed' \in Nat /\ unheard' \in Nat
  <2>1. CASE Start
    BY <2>1, DropAssumption DEF DropAssumption, Start
  <2>2. CASE SetDirection
    BY <2>2 DEF SetDirection, Written, Order, Typed
  <2>3. CASE PulseOn
    BY <2>3 DEF PulseOn, WrittenLevel, Written, Order, Typed
  <2>4. CASE PulseOff
    BY <2>4 DEF PulseOff, WrittenLevel, Written, Order, Typed
  <2>. QED BY <2>1, <2>2, <2>3, <2>4
<1>4. moved' \subseteq Payload /\ touched' \subseteq touched \cup {Servo}
  BY <1>2 DEF Start, SetDirection, PulseOn, PulseOff, Order, Typed
<1>5. Typed'
  BY <1>1, <1>2, <1>3, <1>4 DEF Order, Typed
<1>6. RequestsInTurn'
  BY <1>1 DEF Order, RequestsInTurn
<1>7. NotBeforeTurn'
  BY <1>1, <1>2, <1>4 DEF Order, NotBeforeTurn
<1>. QED BY <1>1, <1>2, <1>5, <1>6, <1>7 DEF Order

LEMMA InitOrder == Init => Order
  BY DropAssumption DEF DropAssumption, Init, Order, Typed, RequestsInTurn, NotBeforeTurn, Request

LEMMA NextOrder == ASSUME Order, [Next]_vars PROVE Order'
<1>1. CASE CallServo
  BY <1>1, CallServoOrder
<1>2. CASE CallLost
  BY <1>2, CallLostOrder
<1>3. CASE Start \/ SetDirection \/ PulseOn \/ PulseOff
  BY <1>3, PulseOrder
<1>4. CASE Finish
  <2>1. requests # <<>>
    BY <1>4 DEF Finish, Order, RequestsInTurn
  <2>. QED BY <1>4, <2>1, AnswerOrder DEF Finish
<1>5. CASE GpioFails
  <2>1. requests # <<>>
    BY <1>5 DEF GpioFails, Order, RequestsInTurn
  <2>. QED BY <1>5, <2>1, AnswerOrder DEF GpioFails
<1>6. CASE UNCHANGED vars
  BY <1>6 DEF vars, server, seen, Order, Typed, RequestsInTurn, NotBeforeTurn
<1>. QED BY <1>1, <1>2, <1>3, <1>4, <1>5, <1>6 DEF Next, doReq

\* No servo gets a pulse before the controller's put_servo_id has come down
\* to its payload.
THEOREM NotBeforeTurnCorrect == Spec => []NotBeforeTurn
<1>1. Order => NotBeforeTurn
  BY DEF Order
<1>2. Order /\ [Next]_vars => Order'
  BY NextOrder
<1>. QED BY InitOrder, <1>1, <1>2, PTL DEF Spec

\* The rest of the invariant, under the assumption on the counter.
LEMMA NextCounted ==
  ASSUME Inv, [Next]_vars, \A g \in Garbage : g <= 0
  PROVE  Counted'
<1>. USE DropAssumption DEF DropAssumption
<1>0. Order /\ Counted /\ Typed
  BY DEF Inv, Order
<1>1. CASE CallServo
  <2>1. step # "idle" => Servo' = Servo
    BY <1>0, <1>1 DEF CallServo, Servo, Order, Typed, RequestsInTurn
  <2>. QED BY <1>0, <1>1, <2>1 DEF CallServo, server, pins, seen, Counted
<1>2. CASE CallLost
  <2>1. step # "idle" => Servo' = Servo
    BY <1>0, <1>2, CallLostOrder DEF Order, RequestsInTurn
  <2>. QED BY <1>0, <1>2, <2>1 DEF CallLost, server, pins, seen, Counted
<1>3. CASE Start \/ SetDirection \/ PulseOn \/ PulseOff
  <2>1. Servo' = Servo
    BY <1>0, <1>3, PulseOrder
  <2>2. CASE Start
    <3>1. step' = "direction" /\ i' \in Int /\ i' <= 0 /\ pulsed' = 0 /\ unheard' = 0
      BY <2>2 DEF Start
    <3>. QED BY <3>1 DEF Counted
  <2>3. CASE SetDirection
    <3>1. /\ i' = i /\ pulsed' = pulsed /\ (unheard' = unheard \/ unheard' = unheard + 1)
          /\ step' \in {"on", "end"} /\ (step' = "end" => i >= Pulses)
          /\ i <= pulsed + unheard
      BY <1>0, <2>3 DEF SetDirection, Written, Counted, Typed
    <3>2. i \in Int /\ pulsed \in Nat /\ unheard \in Nat
      BY <1>0 DEF Typed
    <3>3. i' <= pulsed' + unheard'
      BY <3>1, <3>2
    <3>4. step' # "off" /\ (step' = "end" => i' >= Pulses)
      BY <3>1
    <3>. QED BY <3>3, <3>4 DEF Counted
  <2>4. CASE PulseOn
    <3>1. PICK ok \in BOOLEAN : /\ WrittenLevel(ok)
                                /\ high' = IF ok THEN high \cup {Pin[Servo]} ELSE high
      BY <2>4 DEF PulseOn
    <3>2. /\ i' = i + 1 /\ pulsed' = pulsed /\ step' = "off"
          /\ i <= pulsed + unheard
      BY <1>0, <2>4 DEF PulseOn, Counted
    <3>3. CASE ok
      <4>1. unheard' = unheard /\ Pin[Servo'] \in high'
        BY <2>1, <3>1, <3>3 DEF WrittenLevel, Written
      <4>. QED BY <1>0, <3>2, <4>1 DEF Counted, Typed
    <3>4. CASE ~ok
      <4>1. unheard' = unheard + 1
        BY <3>1, <3>4 DEF WrittenLevel, Written
      <4>. QED BY <1>0, <3>2, <4>1 DEF Counted, Typed
    <3>. QED BY <3>3, <3>4
  <2>5. CASE PulseOff
    <3>1. PICK ok \in BOOLEAN :
             /\ WrittenLevel(ok)
             /\ pulsed' = IF ok /\ Pin[Servo] \in high THEN pulsed + 1 ELSE pulsed
      BY <2>5 DEF PulseOff
    <3>2. /\ i' = i /\ step' \in {"on", "end"} /\ (step' = "end" => i >= Pulses)
          /\ i <= pulsed + unheard + (IF Pin[Servo] \in high THEN 1 ELSE 0)
      BY <1>0, <2>5 DEF PulseOff, Counted, Typed
    <3>3. i' <= pulsed' + unheard'
      <4>1. CASE ok
        BY <1>0, <3>1, <3>2, <4>1 DEF WrittenLevel, Written, Typed
      <4>2. CASE ~ok
        <5>1. unheard' = unheard + 1 /\ pulsed' = pulsed
          BY <3>1, <4>2 DEF WrittenLevel, Written
        <5>. QED BY <1>0, <3>2, <5>1 DEF Typed
      <4>. QED BY <4>1, <4>2
    <3>. QED BY <3>2, <3>3 DEF Counted
  <2>. QED BY <1>3, <2>2, <2>3, <2>4, <2>5
<1>4. CASE Finish \/ GpioFails
  BY <1>4 DEF Finish, GpioFails, Counted
<1>5. CASE UNCHANGED vars
  BY <1>0, <1>5 DEF vars, server, pins, seen, Counted, Servo
<1>. QED BY <1>1, <1>2, <1>3, <1>4, <1>5 DEF Next, doReq

\* Only the answer TRUE to a client that waits counts a payload.
LEMMA CountedOnAnswer ==
  ASSUME Inv, [Next]_vars, put_servo_id' < put_servo_id
  PROVE  /\ Servo = put_servo_id /\ put_servo_id' = put_servo_id - 1
         /\ pulsed + unheard >= Pulses
<1>0. Order /\ Counted /\ Typed
  BY DEF Inv, Order
<1>1. Finish
  <2>1. put_servo_id \in Int
    BY <1>0 DEF Typed
  <2>2. ~(put_servo_id < put_servo_id)
    BY <2>1
  <2>3. put_servo_id' # put_servo_id
    BY <2>2, Zenon
  <2>. QED
    BY <2>3 DEF Next, doReq, CallServo, CallLost, Start, SetDirection, PulseOn, PulseOff,
                GpioFails, Answer, vars
<1>2. requests # <<>> /\ step = "end"
  BY <1>0, <1>1 DEF Finish, Order, RequestsInTurn
<1>3. Head(requests).answer /\ put_servo_id' = put_servo_id - 1
  <2>1. put_servo_id' = IF Head(requests).answer THEN put_servo_id - 1 ELSE put_servo_id
    BY <1>1 DEF Finish, Answer
  <2>. QED BY <1>0, <2>1 DEF Typed
<1>4. Servo = put_servo_id
  BY <1>0, <1>2, <1>3, HeadRequest
<1>5. i <= pulsed + unheard /\ i >= Pulses
  BY <1>0, <1>2 DEF Counted, Typed
<1>. QED BY <1>0, <1>3, <1>4, <1>5, DropAssumption DEF Typed, DropAssumption

\* If i never starts above 0, a payload is counted as dropped on the answer to its own
\* request, whose servo got every pulse but at most one for each write that failed
\* unnoticed.
THEOREM CountedByItsRequestCorrect ==
  ASSUME \A g \in Garbage : g <= 0 PROVE Spec => CountedByItsRequest
<1>1. Init => Inv
  BY InitOrder DEF Init, Inv, Counted
<1>2. Inv /\ [Next]_vars => Inv'
  BY NextOrder, NextCounted DEF Inv
<1>3. Inv /\ [Next]_vars =>
        [put_servo_id' < put_servo_id =>
           /\ Servo = put_servo_id /\ put_servo_id' = put_servo_id - 1
           /\ pulsed + unheard >= Pulses]_vars
  BY CountedOnAnswer
<1>. QED BY <1>1, <1>2, <1>3, PTL DEF Spec, CountedByItsRequest
-----------------------------------------------------------------------------
(* The pins.                                                               *)

\* Requests are answered in their order, so none outlives its payload's turn; and a
\* request that ends has set its pin back, if the write did not fail.
OneTurn ==
    /\ \A k \in 1 .. Len(requests) :
          /\ requests[k].servo = put_servo_id
          /\ requests[k].answer => k = Len(requests)
    /\ step = "end" => Pin[Servo] \notin high \ stuck
    /\ OnOutOfTurn

LEMMA ServoInTurn ==
  ASSUME Order, OneTurn, requests # <<>>
  PROVE  /\ Servo = put_servo_id /\ put_servo_id \in Payload
         /\ Head(requests).answer => Tail(requests) = <<>>
<1>1. 1 \in 1 .. Len(requests) /\ Head(requests) = requests[1] /\ Servo \in Payload
  BY HeadRequest
<1>2. Servo = put_servo_id /\ (Head(requests).answer => Len(requests) = 1)
  BY <1>1 DEF OneTurn, Servo
<1>3. Len(requests) = 1 => Tail(requests) = <<>>
  <2>1. requests \in Seq(Request) /\ Len(requests) \in Nat
    BY DEF Order, Typed
  <2>2. Tail(requests) \in Seq(Request) /\ Len(Tail(requests)) = Len(requests) - 1
    BY <2>1, HeadTailProperties
  <2>3. \A q \in Seq(Request) : q # <<>> => Len(q) \in Nat \ {0}
    BY EmptySeq
  <2>4. 1 - 1 = 0
    OBVIOUS
  <2>5. Len(requests) = 1 => Len(Tail(requests)) = 0
    BY <2>2, <2>4, Zenon
  <2>. QED BY <2>2, <2>3, <2>5, Zenon
<1>. QED BY <1>1, <1>2, <1>3

\* An answer that ends the payload's turn leaves no request, and no pin on.
LEMMA AnswerTurn ==
  ASSUME Order, OneTurn, requests # <<>>, NEW flag \in BOOLEAN, Answer(flag),
         flag => step = "end", step' = "idle", UNCHANGED pins
  PROVE  OneTurn'
<1>1. CASE Head(requests).answer /\ flag
  <2>1. requests' = <<>>
    BY <1>1, ServoInTurn DEF Answer
  <2>2. high' \ stuck' = {}
    BY <1>1, ServoInTurn DEF pins, OneTurn, OnOutOfTurn
  <2>. QED BY <2>1, <2>2 DEF OneTurn, OnOutOfTurn
<1>2. CASE ~(Head(requests).answer /\ flag)
  <2>1. requests' = Tail(requests) /\ put_servo_id' = put_servo_id
    BY <1>2 DEF Answer
  <2>2. Len(Tail(requests)) = Len(requests) - 1 /\ Len(requests) \in Nat
    BY DEF Order, Typed
  <2>3. ASSUME NEW k \in 1 .. Len(Tail(requests))
        PROVE  /\ Tail(requests)[k].servo = put_servo_id
               /\ Tail(requests)[k].answer => k = Len(Tail(requests))
    <3>1. k + 1 \in 1 .. Len(requests) /\ Tail(requests)[k] = requests[k + 1]
      BY TailRequests
    <3>2. /\ requests[k + 1].servo = put_servo_id
          /\ requests[k + 1].answer => k + 1 = Len(requests)
      BY <3>1 DEF OneTurn
    <3>3. k + 1 = Len(requests) => k = Len(Tail(requests))
      <4>1. k \in Nat /\ Len(Tail(requests)) \in Nat
        BY <2>2, TailRequests, LenProperties
      <4>2. \A m, n, j \in Nat : m = n - 1 /\ j + 1 = n => j = m
        OBVIOUS
      <4>. QED BY <2>2, <4>1, <4>2, Zenon
    <3>. QED BY <3>1, <3>2, <3>3
  <2>4. OnOutOfTurn'
    BY <2>1 DEF pins, OneTurn, OnOutOfTurn
  <2>5. \A k \in 1 .. Len(requests') :
           /\ requests'[k].servo = put_servo_id'
           /\ requests'[k].answer => k = Len(requests')
    BY <2>1, <2>3
  <2>. QED BY <2>4, <2>5 DEF OneTurn
<1>. QED BY <1>1, <1>2

\* A call follows requests whose clients were told that they failed.
LEMMA CallTurn ==
  ASSUME Order, OneTurn, CallServo \/ CallLost
  PROVE  OneTurn'
<1>1. Len(requests) \in Nat /\ UNCHANGED <<put_servo_id, step, high, stuck>>
  BY DEF CallServo, CallLost, server, pins, Order, Typed
<1>2. step # "idle" => requests # <<>>
  BY DEF Order, RequestsInTurn
<1>3. CASE CallServo
  <2>. DEFINE r == [servo |-> put_servo_id, answer |-> TRUE]
  <2>1. requests \in Seq(Request) /\ r \in Request /\ requests' = Append(requests, r)
    BY <1>3 DEF CallServo, Order, Typed, Request, Payload
  <2>2. /\ Len(requests') = Len(requests) + 1 /\ requests'[Len(requests) + 1] = r
        /\ \A k \in 1 .. Len(requests) : requests'[k] = requests[k]
    BY <2>1, AppendProperties
  <2>3. \A k \in 1 .. Len(requests) : ~requests[k].answer
    BY <1>3 DEF CallServo, Calling
  <2>4. ASSUME NEW k \in 1 .. Len(requests')
        PROVE  /\ requests'[k].servo = put_servo_id
               /\ requests'[k].answer => k = Len(requests')
    <3>1. CASE k = Len(requests) + 1
      BY <3>1, <2>2
    <3>2. CASE k \in 1 .. Len(requests)
      BY <3>2, <2>2, <2>3 DEF OneTurn
    <3>. QED BY <3>1, <3>2, <2>2, <1>1
  <2>5. requests # <<>> => Servo' = Servo
    BY <2>1, <2>2 DEF Servo
  <2>. QED BY <1>1, <1>2, <2>4, <2>5 DEF OneTurn, OnOutOfTurn
<1>4. CASE CallLost
  <2>1. requests' = [k \in 1 .. Len(requests) |-> [requests[k] EXCEPT !.answer = FALSE]]
    BY <1>4 DEF CallLost, Order, Typed
  <2>2. Len(requests') = Len(requests)
    BY <1>1, <2>1
  <2>3. ASSUME NEW k \in 1 .. Len(requests)
        PROVE  requests'[k].servo = put_servo_id /\ ~requests'[k].answer
    <3>1. requests[k] \in Request
      BY DEF Order, Typed
    <3>2. requests'[k] = [requests[k] EXCEPT !.answer = FALSE]
      BY <2>1
    <3>3. requests'[k].servo = requests[k].servo /\ requests'[k].answer = FALSE
      BY ONLY <3>1, <3>2 DEF Request
    <3>. QED BY <3>3 DEF OneTurn
  <2>4. requests # <<>> => Servo' = Servo
    BY <1>4, CallLostOrder
  <2>. QED BY <1>1, <1>2, <2>2, <2>3, <2>4 DEF OneTurn, OnOutOfTurn
<1>. QED BY <1>3, <1>4

LEMMA PulseTurn ==
  ASSUME Order, OneTurn, Start \/ SetDirection \/ PulseOn \/ PulseOff
  PROVE  OneTurn'
<1>1. UNCHANGED <<put_servo_id, requests>> /\ requests # <<>> /\ Servo' = Servo
  BY PulseOrder DEF Start, SetDirection, PulseOn, PulseOff, Order, RequestsInTurn
<1>2. Servo = put_servo_id /\ put_servo_id >= 1
  BY <1>1, ServoInTurn DEF Payload
<1>3. /\ high' \ stuck' \subseteq (high \ stuck) \cup {Pin[Servo]}
      /\ step' = "end" => Pin[Servo] \notin high' \ stuck'
  <2>1. CASE Start
    BY <2>1 DEF Start, pins
  <2>2. CASE SetDirection
    BY <2>2 DEF SetDirection
  <2>3. CASE PulseOn
    BY <2>3 DEF PulseOn
  <2>4. CASE PulseOff
    BY <2>4 DEF PulseOff
  <2>. QED BY <2>1, <2>2, <2>3, <2>4
<1>4. OnOutOfTurn'
  BY <1>1, <1>2, <1>3 DEF OneTurn, OnOutOfTurn
<1>. QED BY <1>1, <1>3, <1>4 DEF OneTurn

LEMMA NextTurn == ASSUME Order, OneTurn, [Next]_vars PROVE OneTurn'
<1>1. CASE CallServo \/ CallLost
  BY <1>1, CallTurn
<1>2. CASE Start \/ SetDirection \/ PulseOn \/ PulseOff
  BY <1>2, PulseTurn
<1>3. CASE Finish
  <2>1. requests # <<>>
    BY <1>3 DEF Finish, Order, RequestsInTurn
  <2>. QED BY <1>3, <2>1, AnswerTurn DEF Finish
<1>4. CASE GpioFails
  <2>1. requests # <<>>
    BY <1>4 DEF GpioFails, Order, RequestsInTurn
  <2>. QED BY <1>4, <2>1, AnswerTurn DEF GpioFails
<1>5. CASE UNCHANGED vars
  BY <1>5 DEF vars, server, pins, OneTurn, OnOutOfTurn, Servo
<1>. QED BY <1>1, <1>2, <1>3, <1>4, <1>5 DEF Next, doReq

\* Whatever access or call fails, a pin that is on out of the turn of its payload is one on
\* which a write of OFF failed unnoticed; none is left on by an access that was noticed to
\* fail.
THEOREM OnOutOfTurnCorrect == Spec => []OnOutOfTurn
<1>1. Init => Order /\ OneTurn
  BY InitOrder DEF Init, OneTurn, OnOutOfTurn
<1>2. Order /\ OneTurn /\ [Next]_vars => (Order /\ OneTurn)'
  BY NextOrder, NextTurn
<1>3. OneTurn => OnOutOfTurn
  BY DEF OneTurn
<1>. QED BY <1>1, <1>2, <1>3, PTL DEF Spec
=============================================================================
