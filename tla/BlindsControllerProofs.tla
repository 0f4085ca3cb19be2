----------------------- MODULE BlindsControllerProofs -----------------------
(***************************************************************************)
(* Theorems about BlindsController for any travel range, backoff, offsets, *)
(* stall threshold, queue depth, inputs and failing hardware.              *)
(*                                                                         *)
(* The lemmas say what the queue calls, enterFault() and IMotor::move()    *)
(* preserve; one lemma per handler or step then shows that it keeps the    *)
(* inductive invariant IInv, and the theorems read the invariants off it.  *)
(***************************************************************************)
EXTENDS BlindsController, TLAPS

Box == [queue : Seq(BlindsCommand), dropped : 0..DropThreshold, lost : BOOLEAN,
        fault : FaultRecord]

GoodBox(b) == b \in Box /\ Len(b.queue) <= Depth

(* A fault is on record, or an event that will put one there is queued. *)
Warned(b) == HasFault(b.fault) \/ \E i \in 1..Len(b.queue) : b.queue[i].event = "FAULT"

(* From the box a to the box b nothing is forgotten. *)
Keeps(a, b) ==
  /\ HasFault(a.fault) => HasFault(b.fault)
  /\ Warned(a) => Warned(b)

GoodMotor(m) == m \in MotorState /\ m.max >= 1

(* Pulses go to a position inside the range. *)
Aimed(m) == Running(m) => m.target \in 0..m.max

(* While the homing handler sleeps the controller is still homing. *)
HomedMeansHoming == pc = "homed" => state = "CALIBRATING_HOME"

IInv ==
  /\ TypeOK
  /\ RangeOK
  /\ IdleMeansStopped
  /\ FaultRecorded
  /\ RecoveryHasTarget
  /\ HomedMeansHoming

-----------------------------------------------------------------------------
(* Recording a fault leaves a fault on record. *)
LEMMA RecordLemma ==
  ASSUME NEW f \in FaultRecord, NEW src \in FaultSource, NEW why \in FaultReason, why # "None"
  PROVE  RecordFault(f, src, why) \in FaultRecord /\ HasFault(RecordFault(f, src, why))
  BY DEF RecordFault, HasFault, FaultRecord

(* Recorded() touches the fault only. *)
LEMMA RecordedLemma ==
  ASSUME NEW b, GoodBox(b), NEW src \in FaultSource, NEW why \in FaultReason, why # "None"
  PROVE  /\ GoodBox(Recorded(b, src, why))
         /\ HasFault(Recorded(b, src, why).fault)
         /\ Warned(Recorded(b, src, why))
         /\ Recorded(b, src, why).queue = b.queue
  BY RecordLemma DEF Recorded, GoodBox, Box, Warned

(* enterFault() keeps the record, and with a reason there is one. *)
LEMMA BlamedLemma ==
  ASSUME NEW b, GoodBox(b), NEW why \in FaultReason
  PROVE  /\ GoodBox(Blamed(b, why))
         /\ Keeps(b, Blamed(b, why))
         /\ why # "None" => HasFault(Blamed(b, why).fault)
  BY RecordedLemma DEF Blamed, FaultSource, Keeps

(* What appending, putting in front and taking do to a sequence. *)
LEMMA SeqLemma ==
  ASSUME NEW S, NEW s \in Seq(S), NEW c \in S
  PROVE  /\ Append(s, c) \in Seq(S) /\ Len(Append(s, c)) = Len(s) + 1
         /\ s # << >> => /\ Head(s) \in S
                         /\ Tail(s) \in Seq(S) /\ Len(Tail(s)) = Len(s) - 1
                         /\ <<c>> \o Tail(s) \in Seq(S) /\ Len(<<c>> \o Tail(s)) = Len(s)
  OBVIOUS

(* A command of any kind without a percentage is a command. *)
LEMMA CmdLemma ==
  ASSUME NEW e \in BlindsEvent
  PROVE  Cmd(e) \in BlindsCommand
  BY DEF Cmd, BlindsCommand

(* The other senders send commands. *)
LEMMA ArrivingLemma == Arriving \subseteq BlindsCommand
<1>1. \A e \in Inputs : e \in BlindsEvent
  BY ControllerAssumption DEF BlindsEvent
<1>2. \A p \in Percents : [event |-> "MOVE_TO_PERCENT", percent |-> p] \in BlindsCommand
  BY DEF BlindsCommand, BlindsEvent
<1> QED
  BY <1>1, <1>2, CmdLemma DEF Arriving

(* A full queue stays inside its depth, and its overflow is on record. *)
LEMMA OverflowedLemma ==
  ASSUME NEW b, GoodBox(b), ~ HasRoom(b), NEW d \in Overflowed(b)
  PROVE  GoodBox(d) /\ HasFault(d.fault)
<1> USE ControllerAssumption
<1> DEFINE dropped == IF b.dropped < DropThreshold THEN b.dropped + 1 ELSE DropThreshold
           r == Recorded(b, "CommandQueue", "CommandQueueOverflow")
           rest == Tail(b.queue)
           noted == [r EXCEPT !.dropped = dropped]
           back == Cmd(RecoveryEventFor(dropped))
<1>0. b \in Box /\ Len(b.queue) <= Depth /\ b.queue \in Seq(BlindsCommand)
  BY DEF GoodBox, Box
<1>1. dropped \in 0..DropThreshold
  BY <1>0 DEF Box
<1>2. GoodBox(r) /\ HasFault(r.fault)
  BY RecordedLemma DEF FaultSource, FaultReason
<1>3. back \in BlindsCommand
  BY CmdLemma DEF RecoveryEventFor, BlindsEvent
<1>4. b.queue # << >>
  BY DEF HasRoom
<1>5. rest \in Seq(BlindsCommand) /\ Len(rest) = Len(b.queue) - 1
  BY ONLY <1>0, <1>4, SeqLemma
<1>6. <<back>> \o rest \in Seq(BlindsCommand) /\ Len(<<back>> \o rest) = Len(b.queue)
  BY ONLY <1>0, <1>3, <1>4, SeqLemma
<1>7. \/ d = [noted EXCEPT !.queue = <<back>> \o rest, !.lost = FALSE]
      \/ \E c \in Arriving : d = [noted EXCEPT !.queue = Append(rest, c), !.lost = TRUE]
  BY DEF Overflowed
<1> HIDE DEF dropped, r, rest, back
<1>8. noted \in Box /\ noted.fault = r.fault
  BY <1>1, <1>2 DEF GoodBox, Box
<1> HIDE DEF noted
<1>9. ASSUME NEW q \in Seq(BlindsCommand), Len(q) = Len(b.queue), NEW l \in BOOLEAN,
             d = [noted EXCEPT !.queue = q, !.lost = l]
      PROVE  GoodBox(d) /\ HasFault(d.fault)
  BY <1>0, <1>2, <1>8, <1>9 DEF GoodBox, Box
<1>10. ASSUME NEW c \in Arriving, d = [noted EXCEPT !.queue = Append(rest, c), !.lost = TRUE]
       PROVE  GoodBox(d) /\ HasFault(d.fault)
  <2>1. c \in BlindsCommand
    BY ArrivingLemma
  <2>2. Append(rest, c) \in Seq(BlindsCommand) /\ Len(Append(rest, c)) = Len(rest) + 1
    BY ONLY <1>5, <2>1, SeqLemma
  <2>3. Len(Append(rest, c)) = Len(b.queue)
    BY <1>0, <1>5, <2>2
  <2> QED
    BY <1>9, <1>10, <2>2, <2>3
<1> QED
  BY <1>6, <1>7, <1>9, <1>10

(* What is queued stays queued behind a new command. *)
LEMMA AppendWarnedLemma ==
  ASSUME NEW b, GoodBox(b), NEW c \in BlindsCommand
  PROVE  LET d == [b EXCEPT !.queue = Append(@, c)] IN
         /\ d \in Box /\ d.fault = b.fault /\ Len(d.queue) = Len(b.queue) + 1
         /\ Keeps(b, d)
         /\ c.event = "FAULT" => Warned(d)
<1> DEFINE q == Append(b.queue, c)
           d == [b EXCEPT !.queue = q]
<1>1. b \in Box /\ b.queue \in Seq(BlindsCommand)
  BY DEF GoodBox, Box
<1>2. /\ q \in Seq(BlindsCommand) /\ Len(q) = Len(b.queue) + 1
      /\ \A i \in 1..Len(b.queue) : q[i] = b.queue[i] /\ i \in 1..Len(q)
      /\ q[Len(q)] = c /\ Len(q) \in 1..Len(q)
  BY ONLY <1>1, c \in BlindsCommand
<1> HIDE DEF q
<1>3. d \in Box /\ d.queue = q /\ d.fault = b.fault
  BY <1>1, <1>2 DEF Box
<1> HIDE DEF d
<1>4. Keeps(b, d) /\ (c.event = "FAULT" => Warned(d))
  BY <1>2, <1>3 DEF Keeps, Warned
<1> QED
  BY <1>2, <1>3, <1>4 DEF d, q

(* send() keeps the queue inside its depth and forgets no fault; a FAULT   *)
(* event is queued or its loss is on record.                               *)
LEMMA SentLemma ==
  ASSUME NEW b, GoodBox(b), NEW c \in BlindsCommand, NEW d \in Sent(b, c)
  PROVE  /\ GoodBox(d)
         /\ Keeps(b, d)
         /\ c.event = "FAULT" => Warned(d)
         /\ ~ HasRoom(b) => HasFault(d.fault)
<1>1. CASE HasRoom(b)
  <2>1. d = [b EXCEPT !.queue = Append(@, c)]
    BY <1>1 DEF Sent
  <2>2. Len(b.queue) < Depth /\ Len(b.queue) \in Nat
    BY <1>1 DEF HasRoom, GoodBox, Box
  <2>3. Depth \in Nat
    BY ControllerAssumption
  <2>4. /\ d \in Box /\ Len(d.queue) = Len(b.queue) + 1
        /\ Keeps(b, d) /\ (c.event = "FAULT" => Warned(d))
    BY <2>1, AppendWarnedLemma
  <2>5. Len(d.queue) <= Depth
    BY ONLY <2>2, <2>3, <2>4
  <2> QED
    BY <1>1, <2>4, <2>5 DEF GoodBox
<1>2. CASE ~ HasRoom(b)
  <2>1. d \in Overflowed(b)
    BY <1>2 DEF Sent
  <2> QED
    BY <1>2, <2>1, OverflowedLemma DEF Keeps, Warned
<1> QED
  BY <1>1, <1>2

(* So does another sender that comes in between. *)
LEMMA MeanwhileLemma ==
  ASSUME NEW b, GoodBox(b), NEW d \in Meanwhile(b)
  PROVE  GoodBox(d) /\ Keeps(b, d)
<1>1. CASE d = b
  BY <1>1 DEF Keeps
<1>2. ASSUME NEW c \in Arriving, d \in Sent(b, c)
      PROVE  GoodBox(d) /\ Keeps(b, d)
  BY <1>2, ArrivingLemma, SentLemma
<1> QED
  BY <1>1, <1>2 DEF Meanwhile

(* The Blinds task takes the head of the queue. *)
LEMMA TakenLemma ==
  ASSUME GoodBox(box), box.queue # << >>
  PROVE  /\ GoodBox(Taken) /\ Taken.fault = box.fault
         /\ Head(box.queue) \in BlindsCommand
         /\ Head(box.queue).event # "FAULT" => Keeps(box, Taken)
<1> DEFINE q == Tail(box.queue)
<1>1. box.queue \in Seq(BlindsCommand) /\ box \in Box /\ Len(box.queue) <= Depth
  BY DEF GoodBox, Box
<1>2. q \in Seq(BlindsCommand) /\ Len(q) = Len(box.queue) - 1 /\ Head(box.queue) \in BlindsCommand
  BY ONLY <1>1, SeqLemma, box.queue # << >>
<1>3. Len(q) <= Depth
  BY <1>1, <1>2, ControllerAssumption
<1>4. Taken = [box EXCEPT !.queue = q]
  BY DEF Taken
<1>5. /\ Head(box.queue) = box.queue[1]
      /\ \A i \in 2..Len(box.queue) : i - 1 \in 1..Len(q) /\ q[i - 1] = box.queue[i]
      /\ \A i \in 1..Len(box.queue) : i = 1 \/ i \in 2..Len(box.queue)
  BY ONLY <1>1, box.queue # << >>
<1> HIDE DEF q
<1>6. Taken \in Box /\ Taken.queue = q /\ Taken.fault = box.fault
  BY <1>1, <1>2, <1>4 DEF Box
<1>7. Head(box.queue).event # "FAULT" => Keeps(box, Taken)
  BY <1>5, <1>6 DEF Keeps, Warned
<1> QED
  BY <1>2, <1>3, <1>6, <1>7 DEF GoodBox

-----------------------------------------------------------------------------
(* A torn down motor is off and keeps range, position and target. *)
LEMMA HaltedLemma ==
  ASSUME NEW m, m \in MotorState
  PROVE  /\ Halted(m) \in MotorState
         /\ Halted(m).motion = "STOPPED" /\ ~ Running(Halted(m)) /\ ~ Halted(m).stray
         /\ Halted(m).max = m.max /\ Halted(m).step = m.step /\ Halted(m).target = m.target
  BY DEF Halted, MotorState, Running

(* So is one whose counter was not read, except for the position. *)
LEMMA MislaidLemma ==
  ASSUME NEW m, m \in MotorState, NEW h \in Mislaid(m)
  PROVE  /\ h \in MotorState /\ h.motion = "STOPPED" /\ ~ Running(h) /\ ~ h.stray
         /\ h.max = m.max
<1>1. PICK s \in {m.step, m.start} : h = Halted([m EXCEPT !.step = s])
  BY DEF Mislaid
<1>2. [m EXCEPT !.step = s] \in MotorState /\ [m EXCEPT !.step = s].max = m.max
  BY DEF MotorState
<1> QED
  BY <1>1, <1>2, HaltedLemma

(* stop() leaves no movement; pulses of the last one only if it failed. *)
LEMMA StopsLemma ==
  ASSUME NEW m, m \in MotorState, NEW ok \in BOOLEAN, NEW h \in Stops(ok, m)
  PROVE  /\ h \in MotorState /\ h.motion = "STOPPED" /\ ~ Running(h) /\ Aimed(h)
         /\ h.max = m.max
         /\ h.stray => ~ ok /\ (Running(m) \/ m.stray)
<1>1. CASE ok
  BY <1>1, HaltedLemma DEF Stops, Aimed
<1>2. CASE ~ ok
  <2>1. PICK g \in Mislaid(m), on \in {FALSE, Running(m) \/ m.stray} : h = [g EXCEPT !.stray = on]
    BY <1>2 DEF Stops
  <2>2. on \in BOOLEAN
    BY <2>1
  <2>3. g \in MotorState /\ g.motion = "STOPPED" /\ g.max = m.max
    BY MislaidLemma
  <2>4. h \in MotorState /\ h.motion = "STOPPED" /\ h.max = m.max /\ h.stray = on
    BY <2>1, <2>2, <2>3 DEF MotorState
  <2> QED
    BY <1>2, <2>1, <2>4 DEF Running, Aimed
<1> QED
  BY <1>1, <1>2

LEMMA OutcomesLemma == \A kind : Outcomes(kind) \subseteq BOOLEAN
  BY DEF Outcomes

(* startMovement() aims at the target and keeps the range. *)
LEMMA StartedLemma ==
  ASSUME NEW m, GoodMotor(m), NEW t \in Int
  PROVE  /\ Started(m, t) \in MotorState
         /\ Started(m, t).max = m.max /\ Started(m, t).target = t
         /\ Running(Started(m, t))
<1> DEFINE h == Halted(m)
           way == IF t >= m.step THEN "UP" ELSE "DOWN"
<1>1. h \in MotorState /\ h.max = m.max
  BY HaltedLemma DEF GoodMotor
<1>2. way \in {"UP", "DOWN"} /\ Started(m, t) = [h EXCEPT !.motion = way, !.target = t]
  BY DEF Started
<1> HIDE DEF h, way
<1> QED
  BY <1>1, <1>2 DEF MotorState, Running

(* A movement that starts keeps the range and aims inside it. *)
LEMMA MoveSucceedsLemma ==
  ASSUME NEW b, GoodBox(b), NEW m, GoodMotor(m), NEW t, MoveSucceeds(b, m, t)
  PROVE  /\ GoodBox(box') /\ Keeps(b, box')
         /\ GoodMotor(motor') /\ Aimed(motor')
         /\ motor'.max = m.max /\ motor'.target = t
         /\ t \in 0..m.max
<1>1. t \in 0..m.max /\ t \in Int
  BY DEF MoveSucceeds
<1>2. GoodBox(box') /\ Keeps(b, box')
  <2>1. CASE box' = b
    BY <2>1 DEF Keeps
  <2>2. ASSUME NEW now \in Meanwhile(b), box' \in LimitSent(now)
        PROVE  GoodBox(box') /\ Keeps(b, box')
    <3>1. GoodBox(now) /\ Keeps(b, now)
      BY MeanwhileLemma
    <3>2. GoodBox(box') /\ Keeps(now, box')
      BY <2>2, <3>1, SentLemma, CmdLemma DEF LimitSent, BlindsEvent
    <3> QED
      BY <3>1, <3>2 DEF Keeps
  <2> QED
    BY <2>1, <2>2 DEF MoveSucceeds
<1>3. Started(m, t) \in MotorState /\ Started(m, t).max = m.max /\ Started(m, t).target = t
  BY <1>1, StartedLemma
<1>4. motor' = Started(m, t) \/ motor' = Halted(Started(m, t))
  BY DEF MoveSucceeds
<1>5. motor' \in MotorState /\ motor'.max = m.max /\ motor'.target = t
  BY <1>3, <1>4, HaltedLemma
<1> QED
  BY <1>1, <1>2, <1>5 DEF GoodMotor, Aimed

(* One that fails leaves the motor off or as it was, and a reason that is  *)
(* handed to enterFault() is on record.  Pulses that go on without a       *)
(* movement come with a FAULT event or a record.                           *)
LEMMA MoveFailsLemma ==
  ASSUME NEW b, GoodBox(b), NEW m, GoodMotor(m), NEW t, NEW why \in FaultReason,
         MoveFails(b, m, t, why)
  PROVE  /\ GoodBox(box') /\ Keeps(b, box')
         /\ why # "None" => HasFault(box'.fault)
         /\ GoodMotor(motor')
         /\ motor'.max = m.max
         /\ motor' = m \/ ~ Running(motor')
         /\ motor'.stray => motor' = m \/ Warned(box')
<1> DEFINE BoxKept == /\ GoodBox(box') /\ Keeps(b, box')
                      /\ why # "None" => HasFault(box'.fault)
<1>0. m \in MotorState /\ m.max >= 1
  BY DEF GoodMotor
<1>1. ASSUME NEW c, GoodBox(c), Keeps(b, c), box' = Blamed(c, why)
      PROVE  BoxKept /\ (Warned(c) => Warned(box'))
  <2>1. GoodBox(box') /\ Keeps(c, box') /\ (why # "None" => HasFault(box'.fault))
    BY <1>1, BlamedLemma
  <2> QED
    BY <1>1, <2>1 DEF Keeps
<1>2. ASSUME NEW now \in Meanwhile(b), NEW e \in BlindsEvent,
             NEW told \in Sent(now, Cmd(e)), box' = Blamed(told, why)
      PROVE  BoxKept /\ (e = "FAULT" => Warned(box'))
  <2>1. GoodBox(now) /\ Keeps(b, now)
    BY MeanwhileLemma
  <2>2. Cmd(e) \in BlindsCommand /\ Cmd(e).event = e
    BY CmdLemma DEF Cmd
  <2>3. GoodBox(told) /\ Keeps(now, told) /\ (e = "FAULT" => Warned(told))
    BY <2>1, <2>2, SentLemma
  <2>4. Keeps(b, told)
    BY <2>1, <2>3 DEF Keeps
  <2> QED
    BY <1>1, <1>2, <2>3, <2>4
<1>3. "FAULT" \in BlindsEvent /\ "LIMIT_REACHED" \in BlindsEvent
  BY DEF BlindsEvent
<1>4. b = b /\ Keeps(b, b)
  BY DEF Keeps
<1> HIDE DEF BoxKept
<1>5. /\ \A ok \in Outcomes("stop") : ok \in BOOLEAN
      /\ t \in 0..m.max => t \in Int
      /\ t \in 0..m.max \ {m.step} => t \in Int
  BY OutcomesLemma
<1>6. \/ /\ motor' \in {m} \cup Mislaid(m)
         /\ box' = Blamed(b, why)
      \/ /\ t \in Int
         /\ \E ok \in BOOLEAN : motor' \in Stops(ok, Started(m, t))
         /\ \E now \in Meanwhile(b) : \E told \in Sent(now, Cmd("FAULT")) : box' = Blamed(told, why)
      \/ /\ t \in Int
         /\ motor' = Halted(Started(m, t))
         /\ \/ box' = Blamed(b, why)
            \/ \E now \in Meanwhile(b) :
                 \E told \in Sent(now, Cmd("LIMIT_REACHED")) : box' = Blamed(told, why)
  BY <1>5 DEF MoveFails, LimitSent
<1>7. CASE motor' \in {m} \cup Mislaid(m) /\ box' = Blamed(b, why)
  <2>1. motor' = m \/ (motor' \in MotorState /\ ~ Running(motor') /\ ~ motor'.stray /\ motor'.max = m.max)
    BY <1>0, <1>7, MislaidLemma
  <2> QED
    BY <1>0, <1>1, <1>4, <1>7, <2>1 DEF GoodMotor, BoxKept
<1>8. ASSUME t \in Int, NEW ok \in BOOLEAN, motor' \in Stops(ok, Started(m, t)),
             NEW now \in Meanwhile(b), NEW told \in Sent(now, Cmd("FAULT")), box' = Blamed(told, why)
      PROVE  BoxKept /\ Warned(box') /\ GoodMotor(motor') /\ motor'.max = m.max /\ ~ Running(motor')
  <2>1. BoxKept /\ Warned(box')
    BY <1>2, <1>3, <1>8
  <2>2. Started(m, t) \in MotorState /\ Started(m, t).max = m.max
    BY <1>8, StartedLemma
  <2> QED
    BY <1>0, <1>8, <2>1, <2>2, StopsLemma DEF GoodMotor
<1>9. CASE /\ t \in Int
           /\ motor' = Halted(Started(m, t))
           /\ \/ box' = Blamed(b, why)
              \/ \E now \in Meanwhile(b) :
                   \E told \in Sent(now, Cmd("LIMIT_REACHED")) : box' = Blamed(told, why)
  <2>1. BoxKept
    BY <1>1, <1>2, <1>3, <1>4, <1>9
  <2>2. Started(m, t) \in MotorState /\ Started(m, t).max = m.max
    BY <1>9, StartedLemma
  <2>3. motor' \in MotorState /\ ~ Running(motor') /\ ~ motor'.stray /\ motor'.max = m.max
    BY <1>9, <2>2, HaltedLemma
  <2> QED
    BY <1>0, <2>1, <2>3 DEF GoodMotor, BoxKept
<1> QED
  BY <1>6, <1>7, <1>8, <1>9 DEF BoxKept

-----------------------------------------------------------------------------
(* The bookkeeping values are well typed. *)
LEMMA GoalLemma ==
  ASSUME NEW t \in Int, NEW st \in BlindsState
  PROVE  NoGoal \in Goal /\ Toward(t) \in Goal /\ Returning(t, st) \in Goal
<1>1. "IDLE" \in BlindsState
  BY DEF BlindsState
<1>2. NoGoal \in Goal
  BY <1>1 DEF NoGoal, Goal
<1>3. Toward(t) \in Goal
  BY <1>2 DEF Toward, Goal
<1>4. Returning(t, st) \in Goal
  BY <1>3 DEF Returning, Goal
<1> QED
  BY <1>2, <1>3, <1>4

(* What the invariant says of the parts. *)
LEMMA PartsLemma ==
  ASSUME IInv
  PROVE  /\ state \in BlindsState /\ goal \in Goal /\ returnStep \in 0..IntMax
         /\ GoodMotor(motor) /\ motor \in MotorState /\ motor.max \in Int /\ motor.step \in Int
         /\ GoodBox(box)
         /\ pc # "checking" => Aimed(motor)
  BY DEF IInv, TypeOK, RangeOK, GoodMotor, Aimed, GoodBox, Box, MotorState

(* And back. *)
LEMMA WholeLemma ==
  ASSUME state' \in BlindsState, goal' \in Goal, returnStep' \in 0..IntMax,
         pc' \in {"receive", "retry", "homed", "checking"},
         GoodMotor(motor'), GoodBox(box'),
         Aimed(motor') \/ (pc' = "checking" /\ state' = "FAULT"),
         boot' \in {"start", "checking", "passed", "running", "restarting"},
         IdleMeansStopped', FaultRecorded', RecoveryHasTarget', HomedMeansHoming'
  PROVE  IInv'
  BY DEF IInv, TypeOK, RangeOK, GoodMotor, Aimed, GoodBox, Box

(* Warned says what IdleMeansStopped asks of the box. *)
LEMMA IdleLemma ==
  /\ IdleMeansStopped <=>
       (state = "IDLE" /\ pc = "receive" => ~ Running(motor) /\ (motor.stray => Warned(box)))
  /\ IdleMeansStopped' <=>
       (state' = "IDLE" /\ pc' = "receive" => ~ Running(motor') /\ (motor'.stray => Warned(box')))
  BY DEF IdleMeansStopped, Warned, Queued

(* A received command has been taken from a queue that stays good. *)
LEMMA ReceivesLemma ==
  ASSUME IInv, NEW e, Receives(e)
  PROVE  /\ pc = "receive"
         /\ GoodBox(Taken) /\ Taken.fault = box.fault
         /\ e # "FAULT" => Keeps(box, Taken)
         /\ Head(box.queue) \in BlindsCommand
         /\ Aimed(motor)
  BY PartsLemma, TakenLemma DEF Receives

(* A handler or step that keeps state, goal, range and target, does not    *)
(* start the motor and forgets no fault keeps the invariant.               *)
LEMMA QuietLemma ==
  ASSUME IInv, GoodBox(box'), Keeps(box, box'),
         GoodMotor(motor'), motor'.max = motor.max,
         Running(motor') => Running(motor) /\ motor'.target = motor.target,
         motor'.stray => Running(motor) \/ motor.stray \/ Warned(box'),
         boot' \in {"start", "checking", "passed", "running", "restarting"},
         UNCHANGED <<state, goal, returnStep, pc>>
  PROVE  IInv'
<1>1. FaultRecorded' /\ RecoveryHasTarget' /\ HomedMeansHoming'
  BY DEF IInv, FaultRecorded, RecoveryHasTarget, HomedMeansHoming, Keeps
<1>2. IdleMeansStopped'
  BY IdleLemma DEF IInv, Keeps
<1>3. Aimed(motor') \/ (pc' = "checking" /\ state' = "FAULT")
  BY DEF IInv, RangeOK, Aimed
<1> QED
  BY <1>1, <1>2, <1>3, WholeLemma DEF IInv, TypeOK

(* A handler that ends in a state other than STALL_RECOVERY and goes back  *)
(* to receiving keeps it, if the blind is stopped in IDLE and a fault is   *)
(* on record in FAULT.                                                     *)
LEMMA SettledLemma ==
  ASSUME IInv, GoodBox(box'), GoodMotor(motor'), Aimed(motor'), pc' = "receive",
         goal' \in Goal, returnStep' \in 0..IntMax, boot' = boot,
         state' \in BlindsState \ {"STALL_RECOVERY"},
         state' = "IDLE" => ~ Running(motor') /\ (motor'.stray => Warned(box')),
         state' = "FAULT" => HasFault(box'.fault)
  PROVE  IInv'
<1>1. IdleMeansStopped' /\ FaultRecorded' /\ RecoveryHasTarget' /\ HomedMeansHoming'
  BY IdleLemma DEF FaultRecorded, RecoveryHasTarget, HomedMeansHoming
<1> QED
  BY <1>1, WholeLemma DEF IInv, TypeOK

(* What stop() leaves. *)
LEMMA StoppedLemma ==
  ASSUME IInv, NEW ok \in BOOLEAN, motor' \in Stops(ok, motor)
  PROVE  /\ GoodMotor(motor') /\ Aimed(motor') /\ motor'.max = motor.max
         /\ motor'.motion = "STOPPED" /\ ~ Running(motor')
         /\ motor'.stray => ~ ok /\ (Running(motor) \/ motor.stray)
  BY PartsLemma, StopsLemma DEF GoodMotor

(* stop() failed on the way (BlindsController.cpp:376). *)
LEMMA StopFailedLemma ==
  ASSUME IInv, NEW e, Receives(e), StopFailed, UNCHANGED <<returnStep, boot>>
  PROVE  IInv'
<1>1. GoodBox(box') /\ HasFault(box'.fault)
  BY ReceivesLemma, BlamedLemma DEF StopFailed, FaultReason
<1>2. GoodMotor(motor') /\ Aimed(motor')
  BY StoppedLemma DEF StopFailed
<1> QED
  BY <1>1, <1>2, SettledLemma, ReceivesLemma, PartsLemma DEF StopFailed, FaultState, BlindsState

(* The STOP handler (BlindsController.cpp:221). *)
LEMMA StopLemma ==
  ASSUME IInv, HandleStop
  PROVE  IInv'
<1>1. pc = "receive" /\ GoodBox(box') /\ box'.fault = box.fault /\ Keeps(box, box')
  BY ReceivesLemma DEF HandleStop
<1>2. PICK ok \in BOOLEAN :
        /\ motor' \in Stops(ok, motor)
        /\ \/ ok /\ goal' = NoGoal /\ state' = IdleUnlessFault(state)
           \/ ~ ok /\ UNCHANGED <<goal, state>>
  BY OutcomesLemma DEF HandleStop
<1>3. /\ GoodMotor(motor') /\ Aimed(motor') /\ motor'.max = motor.max /\ ~ Running(motor')
      /\ motor'.stray => ~ ok /\ (Running(motor) \/ motor.stray)
  BY <1>2, StoppedLemma
<1>4. CASE ok /\ goal' = NoGoal /\ state' = IdleUnlessFault(state)
  <2>1. goal' \in Goal
    BY <1>4, GoalLemma DEF BlindsState
  <2>2. state' \in {"IDLE", "FAULT"} /\ (state' = "FAULT" => state = "FAULT")
    BY <1>4 DEF IdleUnlessFault
  <2>3. state' = "FAULT" => HasFault(box'.fault)
    BY <1>1, <2>2 DEF IInv, FaultRecorded
  <2> QED
    BY <1>1, <1>3, <1>4, <2>1, <2>2, <2>3, SettledLemma, PartsLemma DEF HandleStop, BlindsState
<1>5. CASE UNCHANGED <<goal, state>>
  BY <1>1, <1>3, <1>5, QuietLemma DEF HandleStop, IInv, TypeOK
<1> QED
  BY <1>2, <1>4, <1>5

(* A command during calibration (BlindsController.cpp:244). *)
LEMMA InterruptedLemma ==
  ASSUME IInv, NEW e, Receives(e), CalibrationInterrupted, UNCHANGED <<returnStep, boot>>
  PROVE  IInv'
<1>1. /\ GoodBox(Blamed(Taken, "UnexpectedCalibrationCommand"))
      /\ HasFault(Blamed(Taken, "UnexpectedCalibrationCommand").fault)
      /\ GoodBox(Blamed(Taken, "MotorStopFailed"))
      /\ HasFault(Blamed(Taken, "MotorStopFailed").fault)
  BY ReceivesLemma, BlamedLemma DEF FaultReason
<1>2. \/ box' = Blamed(Taken, "UnexpectedCalibrationCommand")
      \/ box' = Blamed(Taken, "MotorStopFailed")
  BY DEF CalibrationInterrupted
<1>3. GoodBox(box') /\ HasFault(box'.fault)
  BY <1>1, <1>2
<1>4. GoodMotor(motor') /\ Aimed(motor')
  BY OutcomesLemma, StoppedLemma DEF CalibrationInterrupted
<1> QED
  BY <1>3, <1>4, SettledLemma, ReceivesLemma, PartsLemma
     DEF CalibrationInterrupted, FaultState, BlindsState

(* A command that is ignored. *)
LEMMA IgnoredLemma ==
  ASSUME IInv, NEW e, e # "FAULT", Receives(e), Ignored, UNCHANGED <<returnStep, boot>>
  PROVE  IInv'
  BY ReceivesLemma, PartsLemma, QuietLemma DEF Ignored, IInv, TypeOK

(* The UP and DOWN handlers (BlindsController.cpp:234-299). *)
LEMMA ManualLemma ==
  ASSUME IInv, NEW e, e # "FAULT", Receives(e), NEW t \in Int, NEW moving \in Moving,
         Manual(t, moving), UNCHANGED <<returnStep, boot>>
  PROVE  IInv'
<1>0. /\ pc = "receive" /\ GoodBox(Taken) /\ Taken.fault = box.fault /\ Keeps(box, Taken)
      /\ GoodMotor(motor) /\ Aimed(motor)
  BY ReceivesLemma, PartsLemma
<1>1. CASE Ignored
  BY <1>1, IgnoredLemma
<1>2. CASE CalibrationInterrupted
  BY <1>2, InterruptedLemma
<1>3. ASSUME NEW ok \in BOOLEAN, motor' \in Stops(ok, motor), box' = Taken, UNCHANGED pc,
             \/ ok /\ goal' = NoGoal /\ state' = "IDLE"
             \/ ~ ok /\ UNCHANGED <<goal, state>>
      PROVE  IInv'
  <2>1. /\ GoodMotor(motor') /\ Aimed(motor') /\ motor'.max = motor.max /\ ~ Running(motor')
        /\ motor'.stray => ~ ok /\ (Running(motor) \/ motor.stray)
    BY <1>3, StoppedLemma
  <2>2. CASE ok /\ goal' = NoGoal /\ state' = "IDLE"
    BY <1>0, <1>3, <2>1, <2>2, GoalLemma, SettledLemma, PartsLemma DEF BlindsState
  <2>3. CASE UNCHANGED <<goal, state>>
    BY <1>0, <1>3, <2>1, <2>3, QuietLemma DEF IInv, TypeOK
  <2> QED
    BY <1>3, <2>2, <2>3
<1>4. ASSUME state = "IDLE", MoveSucceeds(Taken, motor, t), goal' = Toward(t),
             state' = moving, UNCHANGED pc
      PROVE  IInv'
  <2>1. GoodBox(box') /\ GoodMotor(motor') /\ Aimed(motor')
    BY <1>0, <1>4, MoveSucceedsLemma
  <2>2. goal' \in Goal
    BY <1>4, GoalLemma DEF BlindsState
  <2>3. state' \in BlindsState \ {"STALL_RECOVERY", "IDLE", "FAULT"}
    BY <1>4 DEF Moving, BlindsState
  <2> QED
    BY <1>0, <1>4, <2>1, <2>2, <2>3, SettledLemma, PartsLemma
<1>5. ASSUME state = "IDLE", MoveFails(Taken, motor, t, "None"),
             UNCHANGED <<goal, state>>, UNCHANGED pc
      PROVE  IInv'
  <2>1. /\ GoodBox(box') /\ Keeps(Taken, box')
        /\ GoodMotor(motor') /\ motor'.max = motor.max
        /\ motor' = motor \/ ~ Running(motor')
        /\ motor'.stray => motor' = motor \/ Warned(box')
    BY <1>0, <1>5, MoveFailsLemma DEF FaultReason
  <2>2. Keeps(box, box')
    BY <1>0, <2>1 DEF Keeps
  <2> QED
    BY <1>5, <2>1, <2>2, QuietLemma DEF IInv, TypeOK
<1> QED
  BY <1>1, <1>2, <1>3, <1>4, <1>5, OutcomesLemma DEF Manual

LEMMA UpLemma ==
  ASSUME IInv, HandleUp
  PROVE  IInv'
<1>1. "MOVING_UP" \in Moving /\ motor.max \in Int
  BY PartsLemma DEF Moving
<1> QED
  BY <1>1, ManualLemma DEF HandleUp

LEMMA DownLemma ==
  ASSUME IInv, HandleDown
  PROVE  IInv'
<1>1. "MOVING_DOWN" \in Moving /\ 0 \in Int
  BY DEF Moving
<1> QED
  BY <1>1, ManualLemma DEF HandleDown

(* MOVE_TO_PERCENT (BlindsController.cpp:166-200): a movement starts or    *)
(* the blind is idle, whatever position the percentage stands for.         *)
LEMMA MoveToTargetStepLemma ==
  ASSUME IInv, NEW e, e # "FAULT", Receives(e), NEW m, GoodMotor(m), ~ Running(m),
         m.stray => Warned(box), NEW t \in Int,
         NEW idle \in Goal, MoveToTargetStep(m, t, idle), UNCHANGED <<returnStep, pc, boot>>
  PROVE  IInv'
<1>0. pc = "receive" /\ GoodBox(Taken) /\ Keeps(box, Taken)
  BY ReceivesLemma
<1>1. ASSUME MoveSucceeds(Taken, m, t), goal' = Toward(t), state' = Direction(t, m.step)
      PROVE  IInv'
  <2>1. GoodBox(box') /\ GoodMotor(motor') /\ Aimed(motor')
    BY <1>0, <1>1, MoveSucceedsLemma
  <2>2. goal' \in Goal
    BY <1>1, GoalLemma DEF BlindsState
  <2>3. state' \in BlindsState \ {"STALL_RECOVERY", "IDLE", "FAULT"}
    BY <1>1 DEF Direction, Moving, BlindsState
  <2> QED
    BY <1>0, <2>1, <2>2, <2>3, SettledLemma, PartsLemma
<1>2. ASSUME MoveFails(Taken, m, t, "None"), goal' = idle, state' = "IDLE"
      PROVE  IInv'
  <2>1. /\ GoodBox(box') /\ Keeps(Taken, box') /\ GoodMotor(motor')
        /\ motor' = m \/ ~ Running(motor')
        /\ motor'.stray => motor' = m \/ Warned(box')
    BY <1>0, <1>2, MoveFailsLemma DEF FaultReason
  <2>2. ~ Running(motor') /\ Aimed(motor')
    BY <2>1 DEF Aimed
  <2>3. motor'.stray => Warned(box')
    BY <1>0, <2>1 DEF Keeps
  <2> QED
    BY <1>0, <1>2, <2>1, <2>2, <2>3, SettledLemma, PartsLemma DEF BlindsState
<1> QED
  BY <1>1, <1>2 DEF MoveToTargetStep

LEMMA MoveToPercentLemma ==
  ASSUME IInv, HandleMoveToPercent
  PROVE  IInv'
<1> DEFINE p == Head(box.queue).percent
           t == PercentTarget(p)
<1>0. Receives("MOVE_TO_PERCENT") /\ UNCHANGED <<returnStep, boot>>
  BY DEF HandleMoveToPercent
<1>1. t \in Int
  <2>1. Head(box.queue) \in BlindsCommand
    BY <1>0, ReceivesLemma
  <2>2. p \in {0} \cup Percents
    BY <2>1 DEF BlindsCommand
  <2>3. \A n \in {0} \cup Percents : n \in Int
    BY ControllerAssumption
  <2>4. p \in Int
    BY ONLY <2>2, <2>3
  <2>5. \A n \in Int : n \div 100 \in Int
    OBVIOUS
  <2>6. motor.max * p + 50 \in Int
    BY <2>4, PartsLemma
  <2> QED
    BY <2>5, <2>6 DEF PercentTarget
<1>2. CASE Ignored
  BY <1>0, <1>2, IgnoredLemma
<1>3. CASE CalibrationInterrupted
  BY <1>0, <1>3, InterruptedLemma
<1>4. ASSUME state = "IDLE", MoveToTargetStep(motor, t, goal), UNCHANGED pc
      PROVE  IInv'
  <2>1. ~ Running(motor) /\ (motor.stray => Warned(box))
    BY <1>0, <1>4, IdleLemma DEF IInv, Receives
  <2> QED
    BY <1>0, <1>1, <1>4, <2>1, PartsLemma, MoveToTargetStepLemma
<1>5. ASSUME MoveToTargetStep(Halted(motor), t, NoGoal), UNCHANGED pc
      PROVE  IInv'
  <2>1. /\ GoodMotor(Halted(motor)) /\ ~ Running(Halted(motor)) /\ ~ Halted(motor).stray
        /\ NoGoal \in Goal
    BY PartsLemma, HaltedLemma, GoalLemma DEF GoodMotor, BlindsState
  <2> QED
    BY <1>0, <1>1, <1>5, <2>1, MoveToTargetStepLemma
<1>6. CASE StopFailed
  BY <1>0, <1>6, StopFailedLemma
<1> QED
  BY <1>2, <1>3, <1>4, <1>5, <1>6 DEF HandleMoveToPercent

(* The end of a movement or of a backoff (BlindsController.cpp:303-322). *)
LEMMA LimitReachedLemma ==
  ASSUME IInv, HandleLimitReached
  PROVE  IInv'
<1>0. Receives("LIMIT_REACHED") /\ UNCHANGED <<returnStep, boot>>
  BY DEF HandleLimitReached
<1>1. pc = "receive" /\ GoodBox(Taken)
  BY <1>0, ReceivesLemma
<1>2. /\ GoodMotor(Halted(motor)) /\ Halted(motor).max = motor.max
      /\ ~ Running(Halted(motor)) /\ Aimed(Halted(motor)) /\ ~ Halted(motor).stray
  BY PartsLemma, HaltedLemma DEF GoodMotor, Aimed
<1>3. ASSUME motor' = Halted(motor), box' = Taken, goal' = NoGoal, state' = "IDLE", UNCHANGED pc
      PROVE  IInv'
  BY <1>0, <1>1, <1>2, <1>3, GoalLemma, SettledLemma, PartsLemma DEF BlindsState
<1>4. ASSUME state = "STALL_RECOVERY", motor' = Halted(motor), box' = Taken,
             pc' = "retry", UNCHANGED <<state, goal>>
      PROVE  IInv'
  <2>1. IdleMeansStopped' /\ FaultRecorded' /\ HomedMeansHoming'
    BY <1>4 DEF IdleMeansStopped, FaultRecorded, HomedMeansHoming
  <2>2. RecoveryHasTarget'
    BY <1>2, <1>4 DEF IInv, RecoveryHasTarget
  <2> QED
    BY <1>0, <1>1, <1>2, <1>4, <2>1, <2>2, WholeLemma, PartsLemma DEF IInv, TypeOK
<1>5. CASE StopFailed
  BY <1>0, <1>5, StopFailedLemma
<1>6. CASE Ignored
  BY <1>0, <1>6, IgnoredLemma
<1> QED
  BY <1>3, <1>4, <1>5, <1>6 DEF HandleLimitReached

(* The retry after a backoff (BlindsController.cpp:36-59). *)
LEMMA RetryLemma ==
  ASSUME IInv, RetryTarget
  PROVE  IInv'
<1>0. pc = "retry" /\ pc' = "receive" /\ UNCHANGED <<returnStep, boot>>
  BY DEF RetryTarget
<1>1. GoodBox(box) /\ GoodMotor(motor) /\ Aimed(motor)
  BY <1>0, PartsLemma
<1>2. ASSUME MoveSucceeds(box, motor, RetryStep), UNCHANGED goal,
             state' = IF goal.return \in Calibrating THEN goal.return
                      ELSE Direction(RetryStep, motor.step)
      PROVE  IInv'
  <2>1. GoodBox(box') /\ GoodMotor(motor') /\ Aimed(motor')
    BY <1>1, <1>2, MoveSucceedsLemma
  <2>2. state' \in BlindsState \ {"STALL_RECOVERY", "IDLE", "FAULT"}
    BY <1>2 DEF Direction, Moving, Calibrating, BlindsState
  <2> QED
    BY <1>0, <1>2, <2>1, <2>2, SettledLemma, PartsLemma
<1>3. ASSUME MoveFails(box, motor, RetryStep, "MotorMoveFailed"), FaultState, UNCHANGED goal
      PROVE  IInv'
  <2>1. GoodBox(box') /\ HasFault(box'.fault) /\ GoodMotor(motor') /\ Aimed(motor')
    BY <1>1, <1>3, MoveFailsLemma DEF FaultReason, Aimed
  <2> QED
    BY <1>0, <1>3, <2>1, SettledLemma, PartsLemma DEF FaultState, BlindsState
<1>4. ASSUME box' = Blamed(box, "InvalidStallRecoveryTarget"), FaultState,
             UNCHANGED <<goal, motor>>
      PROVE  IInv'
  <2>1. GoodBox(box') /\ HasFault(box'.fault)
    BY <1>1, <1>4, BlamedLemma DEF FaultReason
  <2> QED
    BY <1>0, <1>1, <1>4, <2>1, SettledLemma, PartsLemma DEF FaultState, BlindsState
<1> QED
  BY <1>2, <1>3, <1>4 DEF RetryTarget

(* The start of a calibration (BlindsController.cpp:323-342). *)
LEMMA CalibrateLemma ==
  ASSUME IInv, HandleCalibrate
  PROVE  IInv'
<1>0. Receives("CALIBRATE") /\ UNCHANGED <<returnStep, boot>>
  BY DEF HandleCalibrate
<1>1. pc = "receive" /\ GoodBox(Taken) /\ GoodMotor(motor) /\ Aimed(motor)
  BY <1>0, ReceivesLemma, PartsLemma
<1>2. ASSUME MoveSucceeds(Taken, motor, 0), goal' = Returning(0, "CALIBRATING_HOME"),
             state' = "CALIBRATING_HOME", UNCHANGED pc
      PROVE  IInv'
  <2>1. GoodBox(box') /\ GoodMotor(motor') /\ Aimed(motor')
    BY <1>1, <1>2, MoveSucceedsLemma
  <2>2. goal' \in Goal
    BY <1>2, GoalLemma DEF BlindsState, Calibrating
  <2>3. state' \in BlindsState \ {"STALL_RECOVERY", "IDLE", "FAULT"}
    BY <1>2 DEF BlindsState, Calibrating
  <2> QED
    BY <1>0, <1>1, <1>2, <2>1, <2>2, <2>3, SettledLemma, PartsLemma
<1>3. ASSUME MoveFails(Taken, motor, 0, "MotorMoveFailed"), FaultState, UNCHANGED <<goal, pc>>
      PROVE  IInv'
  <2>1. GoodBox(box') /\ HasFault(box'.fault) /\ GoodMotor(motor') /\ Aimed(motor')
    BY <1>1, <1>3, MoveFailsLemma DEF FaultReason, Aimed
  <2> QED
    BY <1>0, <1>1, <1>3, <2>1, SettledLemma, PartsLemma DEF FaultState, BlindsState
<1>4. CASE Ignored
  BY <1>0, <1>4, IgnoredLemma
<1> QED
  BY <1>2, <1>3, <1>4 DEF HandleCalibrate

(* setHoming() shifts position and target and keeps range and output. *)
LEMMA RehomedLemma ==
  ASSUME NEW m, GoodMotor(m), NEW offset \in Int
  PROVE  /\ GoodMotor(Rehomed(m, offset)) /\ Rehomed(m, offset).max = m.max
         /\ Rehomed(m, offset).motion = m.motion
<1> DEFINE by == m.start + offset
           step == m.step - by
           target == m.target - by
           start == 0 - offset
           r == [m EXCEPT !.step = step, !.target = target, !.start = start]
<1>1. m \in MotorState /\ m.max >= 1
  BY DEF GoodMotor
<1>2. step \in Int /\ target \in Int /\ start \in Int
  BY <1>1 DEF MotorState
<1>3. Rehomed(m, offset) = [m EXCEPT !.step = @ - by, !.target = @ - by, !.start = start]
  BY DEF Rehomed
<1>4. Rehomed(m, offset) = r
  BY <1>1, <1>3 DEF MotorState
<1> HIDE DEF step, target, start
<1>5. r \in MotorState /\ r.max = m.max /\ r.motion = m.motion
  BY <1>1, <1>2 DEF MotorState
<1> QED
  BY <1>1, <1>4, <1>5 DEF GoodMotor

(* Home found (BlindsController.cpp:343-380). *)
LEMMA HomingReachedLemma ==
  ASSUME IInv, HandleHomingReached
  PROVE  IInv'
<1>0. Receives("HOMING_REACHED") /\ UNCHANGED boot
  BY DEF HandleHomingReached
<1>1. pc = "receive" /\ GoodBox(Taken) /\ Keeps(box, Taken)
  BY <1>0, ReceivesLemma
<1>2. /\ GoodMotor(Halted(motor)) /\ Halted(motor).max = motor.max
      /\ Halted(motor).motion = "STOPPED" /\ ~ Running(Halted(motor)) /\ ~ Halted(motor).stray
  BY PartsLemma, HaltedLemma DEF GoodMotor
<1>3. ASSUME state = "CALIBRATING_HOME",
             returnStep' = Clamp(IntMax - motor.step + OffsetOfMinStep),
             motor' = Rehomed(Halted(motor), OffsetOfMinStep),
             box' = Taken, pc' = "homed", UNCHANGED <<state, goal>>
      PROVE  IInv'
  <2>0. OffsetOfMinStep \in Int
    BY ControllerAssumption
  <2>1. GoodMotor(motor') /\ motor'.motion = "STOPPED"
    BY ONLY <1>2, <1>3, <2>0, RehomedLemma
  <2>2. returnStep' \in 0..IntMax
    BY <1>3, PartsLemma, ControllerAssumption DEF Clamp
  <2>3. IdleMeansStopped' /\ FaultRecorded' /\ RecoveryHasTarget' /\ HomedMeansHoming'
    BY <1>3 DEF IdleMeansStopped, FaultRecorded, RecoveryHasTarget, HomedMeansHoming
  <2>4. Aimed(motor')
    BY <2>1 DEF Aimed, Running
  <2> QED
    BY <1>0, <1>1, <1>3, <2>1, <2>2, <2>3, <2>4, WholeLemma, PartsLemma DEF IInv, TypeOK
<1>4. ASSUME motor' = Halted(motor), box' = Taken, UNCHANGED <<state, goal, returnStep, pc>>
      PROVE  IInv'
  BY <1>0, <1>1, <1>2, <1>4, QuietLemma DEF IInv, TypeOK
<1>5. CASE StopFailed /\ UNCHANGED returnStep
  BY <1>0, <1>5, StopFailedLemma
<1> QED
  BY <1>3, <1>4, <1>5 DEF HandleHomingReached

LEMMA MoveToTopLemma ==
  ASSUME IInv, MoveToTop
  PROVE  IInv'
<1>0. pc = "homed" /\ pc' = "receive" /\ UNCHANGED <<returnStep, boot>>
  BY DEF MoveToTop
<1>1. GoodBox(box) /\ GoodMotor(motor) /\ Aimed(motor) /\ motor.max \in Int
  BY <1>0, PartsLemma
<1>2. ASSUME MoveSucceeds(box, motor, motor.max),
             goal' = Returning(motor.max, "CALIBRATING_MAX"), state' = "CALIBRATING_MAX"
      PROVE  IInv'
  <2>1. GoodBox(box') /\ GoodMotor(motor') /\ Aimed(motor')
    BY <1>1, <1>2, MoveSucceedsLemma
  <2>2. goal' \in Goal
    BY <1>1, <1>2, GoalLemma DEF BlindsState, Calibrating
  <2>3. state' \in BlindsState \ {"STALL_RECOVERY", "IDLE", "FAULT"}
    BY <1>2 DEF BlindsState, Calibrating
  <2> QED
    BY <1>0, <2>1, <2>2, <2>3, SettledLemma, PartsLemma
<1>3. ASSUME MoveFails(box, motor, motor.max, "MotorMoveFailed"), FaultState, UNCHANGED goal
      PROVE  IInv'
  <2>1. GoodBox(box') /\ HasFault(box'.fault) /\ GoodMotor(motor') /\ Aimed(motor')
    BY <1>1, <1>3, MoveFailsLemma DEF FaultReason, Aimed
  <2> QED
    BY <1>0, <1>3, <2>1, SettledLemma, PartsLemma DEF FaultState, BlindsState
<1> QED
  BY <1>2, <1>3 DEF MoveToTop

-----------------------------------------------------------------------------
(* Where a stalled motor comes to rest: at most one step from the position *)
(* that was read, and off.                                                 *)
LEMMA RestLemma ==
  ASSUME IInv, NEW rest \in RestSteps(motor)
  PROVE  /\ rest \in Int /\ rest >= motor.step - 1
         /\ GoodMotor(Rested(motor, rest))
         /\ ~ Running(Rested(motor, rest)) /\ Aimed(Rested(motor, rest))
         /\ Rested(motor, rest).max = motor.max
<1> DEFINE m == [motor EXCEPT !.step = rest]
<1>1. motor \in MotorState /\ motor.max >= 1 /\ motor.step \in Int
  BY PartsLemma DEF GoodMotor
<1>2. rest \in {motor.step, motor.step + 1, motor.step - 1}
  BY DEF RestSteps
<1>3. rest \in Int /\ rest >= motor.step - 1
  BY <1>1, <1>2
<1>4. m \in MotorState /\ m.max = motor.max
  BY <1>1, <1>3 DEF MotorState
<1>5. Rested(motor, rest) = Halted(m)
  BY DEF Rested
<1> HIDE DEF m
<1> QED
  BY <1>1, <1>3, <1>4, <1>5, HaltedLemma DEF GoodMotor, Aimed

(* The range found at the top is not empty: a stall only counts as the top *)
(* above StallThreshold, which is above OffsetOfMaxStep.                   *)
LEMMA ToppedLemma ==
  ASSUME IInv, AtTop, NEW rest \in RestSteps(motor)
  PROVE  /\ GoodMotor(Topped(Rested(motor, rest), rest))
         /\ Aimed(Topped(Rested(motor, rest), rest))
<1> DEFINE m   == Rested(motor, rest)
           max == rest - OffsetOfMaxStep
<1>1. rest \in Int /\ rest >= motor.step - 1 /\ GoodMotor(m) /\ ~ Running(m)
  BY RestLemma
<1>2. max \in Int /\ max >= 1
  BY <1>1, PartsLemma, ControllerAssumption DEF AtTop
<1>3. Topped(m, rest) = [m EXCEPT !.max = max]
  BY DEF Topped
<1> HIDE DEF m, max
<1>4. /\ Topped(m, rest) \in MotorState
      /\ Topped(m, rest).max = max
      /\ Topped(m, rest).motion = m.motion
  BY <1>1, <1>2, <1>3 DEF GoodMotor, MotorState
<1>5. GoodMotor(Topped(m, rest)) /\ Aimed(Topped(m, rest))
  BY <1>1, <1>2, <1>4 DEF GoodMotor, Aimed, Running
<1> QED
  BY <1>5 DEF m

(* The end of a calibration (BlindsController.cpp:384-411). *)
LEMMA FinishCalibrationLemma ==
  ASSUME IInv, Receives("STALL_DETECTED"), AtTop, NEW rest \in RestSteps(motor),
         FinishCalibration(rest), UNCHANGED <<returnStep, pc, boot>>
  PROVE  IInv'
<1> DEFINE m == Topped(Rested(motor, rest), rest)
           t == IF returnStep > m.max THEN m.max ELSE returnStep
<1>1. GoodMotor(m) /\ Aimed(m) /\ GoodBox(Taken) /\ pc = "receive"
  BY ToppedLemma, ReceivesLemma
<1>2. t \in Int
  BY <1>1, PartsLemma DEF GoodMotor, MotorState
<1>3. \/ MoveSucceeds(Taken, m, t) /\ goal' = Toward(t) /\ state' = Direction(t, rest)
      \/ MoveFails(Taken, m, t, "MotorMoveFailed") /\ FaultState /\ UNCHANGED goal
  BY DEF FinishCalibration
<1> HIDE DEF m, t
<1>4. ASSUME MoveSucceeds(Taken, m, t), goal' = Toward(t), state' = Direction(t, rest)
      PROVE  IInv'
  <2>1. GoodBox(box') /\ GoodMotor(motor') /\ Aimed(motor')
    BY <1>1, <1>4, MoveSucceedsLemma
  <2>2. goal' \in Goal
    BY <1>2, <1>4, GoalLemma DEF BlindsState
  <2>3. state' \in BlindsState \ {"STALL_RECOVERY", "IDLE", "FAULT"}
    BY <1>4 DEF Direction, BlindsState, Moving
  <2> QED
    BY <1>1, <2>1, <2>2, <2>3, SettledLemma, PartsLemma
<1>5. ASSUME MoveFails(Taken, m, t, "MotorMoveFailed"), FaultState, UNCHANGED goal
      PROVE  IInv'
  <2>1. GoodBox(box') /\ HasFault(box'.fault) /\ GoodMotor(motor') /\ Aimed(motor')
    BY <1>1, <1>5, MoveFailsLemma DEF FaultReason, Aimed
  <2> QED
    BY <1>1, <1>5, <2>1, SettledLemma, PartsLemma DEF FaultState, BlindsState
<1> QED
  BY <1>3, <1>4, <1>5

(* A stall that cannot be recovered from. *)
LEMMA StallRefusedLemma ==
  ASSUME IInv, Receives("STALL_DETECTED"), NEW rest \in RestSteps(motor), NEW t \in Int,
         NEW why \in FaultReason, why # "None",
         StallRefused(t, rest, why), UNCHANGED <<returnStep, pc, boot>>
  PROVE  IInv'
<1>1. pc = "receive" /\ GoodBox(box') /\ HasFault(box'.fault)
  BY ReceivesLemma, BlamedLemma DEF StallRefused
<1>2. GoodMotor(motor') /\ Aimed(motor')
  BY RestLemma DEF StallRefused
<1>3. goal' \in Goal
  BY PartsLemma DEF StallRefused, Goal
<1> QED
  BY <1>1, <1>2, <1>3, SettledLemma, PartsLemma DEF StallRefused, FaultState, BlindsState

(* A backoff begins with all the retry will need: a target inside the      *)
(* range, the movement to resume and a count below the limit.              *)
LEMMA BackAwayLemma ==
  ASSUME IInv, Receives("STALL_DETECTED"), state \in Moving \cup Calibrating,
         NEW rest \in RestSteps(motor), BackAway(rest), UNCHANGED <<returnStep, pc, boot>>
  PROVE  IInv'
<1> DEFINE up   == state \in {"MOVING_UP", "CALIBRATING_MAX"}
           t    == IF goal.has THEN goal.target ELSE IF up THEN motor.max ELSE 0
           back == BackoffTarget(up, motor.step)
           away == [goal EXCEPT !.target = t, !.has = TRUE, !.return = state]
           m    == Rested(motor, rest)
<1>0. pc = "receive" /\ GoodBox(Taken)
  BY ReceivesLemma
<1>1. GoodMotor(m) /\ Aimed(m) /\ m.max = motor.max
  BY RestLemma
<1>2. t \in Int
  BY PartsLemma DEF Goal
<1>3. state \in BlindsState /\ goal \in Goal
  BY PartsLemma
<1>4. \/ StallRefused(t, rest, "InvalidStallRecoveryTarget")
      \/ StallRefused(t, rest, "StallRecoveryExhausted")
      \/ StallRefused(t, rest, "StallRecoveryBackoffInvalid")
      \/ /\ t \in 0..motor.max
         /\ ~ Exhausted
         /\ \/ /\ MoveSucceeds(Taken, m, back)
               /\ goal' = [away EXCEPT !.tries = @ + 1]
               /\ state' = "STALL_RECOVERY"
            \/ /\ MoveFails(Taken, m, back, "MotorMoveFailed")
               /\ goal' = away
               /\ FaultState
  BY DEF BackAway
<1> HIDE DEF back, m
<1>5. ASSUME \/ StallRefused(t, rest, "InvalidStallRecoveryTarget")
             \/ StallRefused(t, rest, "StallRecoveryExhausted")
             \/ StallRefused(t, rest, "StallRecoveryBackoffInvalid")
      PROVE  IInv'
  BY <1>2, <1>5, StallRefusedLemma DEF FaultReason
<1> HIDE DEF t
<1>6. /\ away \in Goal
      /\ away.has /\ away.target = t /\ away.return = state /\ away.tries = goal.tries
  BY <1>2, <1>3 DEF Goal
<1> HIDE DEF away
<1>7. ASSUME t \in 0..motor.max, ~ Exhausted, MoveSucceeds(Taken, m, back),
             goal' = [away EXCEPT !.tries = @ + 1], state' = "STALL_RECOVERY"
      PROVE  IInv'
  <2>1. GoodBox(box') /\ GoodMotor(motor') /\ Aimed(motor') /\ motor'.max = motor.max
    BY <1>0, <1>1, <1>7, MoveSucceedsLemma
  <2>2. /\ goal' \in Goal
        /\ goal'.has /\ goal'.target = t /\ goal'.return = state
        /\ goal'.tries = goal.tries + 1
    BY <1>6, <1>7 DEF Goal
  <2>3. goal.tries + 1 \in 1..MaxRecoveries
    BY <1>3, <1>7, ControllerAssumption DEF Exhausted, Goal
  <2>4. RecoveryHasTarget'
    BY <1>7, <2>1, <2>2, <2>3 DEF RecoveryHasTarget
  <2>5. IdleMeansStopped' /\ FaultRecorded' /\ HomedMeansHoming'
    BY <1>0, <1>7 DEF IdleMeansStopped, FaultRecorded, HomedMeansHoming
  <2> QED
    BY <1>0, <1>7, <2>1, <2>2, <2>4, <2>5, WholeLemma, PartsLemma DEF BlindsState, IInv, TypeOK
<1>8. ASSUME MoveFails(Taken, m, back, "MotorMoveFailed"), goal' = away, FaultState
      PROVE  IInv'
  <2>1. GoodBox(box') /\ HasFault(box'.fault) /\ GoodMotor(motor') /\ Aimed(motor')
    BY <1>0, <1>1, <1>8, MoveFailsLemma DEF FaultReason, Aimed
  <2> QED
    BY <1>0, <1>6, <1>8, <2>1, SettledLemma, PartsLemma DEF FaultState, BlindsState
<1> QED
  BY <1>4, <1>5, <1>7, <1>8

LEMMA StallDetectedLemma ==
  ASSUME IInv, HandleStallDetected
  PROVE  IInv'
<1>0. Receives("STALL_DETECTED") /\ UNCHANGED <<returnStep, pc, boot>>
  BY DEF HandleStallDetected
<1>1. ASSUME AtTop, NEW rest \in RestSteps(motor), FinishCalibration(rest)
      PROVE  IInv'
  BY <1>0, <1>1, FinishCalibrationLemma
<1>2. ASSUME state \in Moving \cup Calibrating, NEW rest \in RestSteps(motor), BackAway(rest)
      PROVE  IInv'
  BY <1>0, <1>2, BackAwayLemma
<1>3. CASE StopFailed
  BY <1>0, <1>3, StopFailedLemma
<1>4. CASE Ignored
  BY <1>0, <1>4, IgnoredLemma
<1> QED
  BY <1>1, <1>2, <1>3, <1>4 DEF HandleStallDetected

-----------------------------------------------------------------------------
(* The startup check (BlindsController.cpp:418-429). *)
LEMMA HomingCheckLemma ==
  ASSUME IInv, HandleHomingCheck
  PROVE  IInv'
<1> DEFINE m == Rehomed(motor, 0)
<1>0. /\ Receives("HOMING_CHECK") /\ pc' = "checking"
      /\ UNCHANGED <<goal, returnStep, boot>>
  BY DEF HandleHomingCheck
<1>1. GoodBox(Taken) /\ Keeps(box, Taken) /\ GoodMotor(m) /\ m.max = motor.max
  BY <1>0, ReceivesLemma, PartsLemma, RehomedLemma
<1>2. \/ MoveSucceeds(Taken, m, m.max) /\ UNCHANGED state
      \/ MoveFails(Taken, m, m.max, "MotorMoveFailed") /\ FaultState
  BY DEF HandleHomingCheck
<1> HIDE DEF m
<1>3. /\ GoodBox(box') /\ GoodMotor(motor') /\ motor'.max = motor.max
      /\ HasFault(box.fault) => HasFault(box'.fault)
      /\ \/ state' = state /\ Aimed(motor')
         \/ state' = "FAULT" /\ HasFault(box'.fault)
  <2>1. CASE MoveSucceeds(Taken, m, m.max) /\ UNCHANGED state
    BY <1>1, <2>1, MoveSucceedsLemma DEF Keeps
  <2>2. CASE MoveFails(Taken, m, m.max, "MotorMoveFailed") /\ FaultState
    BY <1>1, <2>2, MoveFailsLemma DEF FaultState, FaultReason
  <2> QED
    BY <1>2, <2>1, <2>2
<1>4. IdleMeansStopped' /\ HomedMeansHoming'
  BY <1>0 DEF IdleMeansStopped, HomedMeansHoming
<1>5. FaultRecorded'
  BY <1>3 DEF FaultRecorded, IInv
<1>6. RecoveryHasTarget'
  BY <1>0, <1>3 DEF RecoveryHasTarget, IInv
<1> QED
  BY <1>0, <1>3, <1>4, <1>5, <1>6, WholeLemma, PartsLemma DEF BlindsState, IInv, TypeOK

LEMMA EndHomingCheckLemma ==
  ASSUME IInv, EndHomingCheck
  PROVE  IInv'
<1>0. pc = "checking" /\ pc' = "receive" /\ UNCHANGED <<goal, returnStep, boot>>
  BY DEF EndHomingCheck
<1>1. PICK ok \in BOOLEAN :
        /\ motor' \in Stops(ok, motor)
        /\ \/ ok /\ UNCHANGED <<state, box>>
           \/ ~ ok /\ FaultState /\ box' = Blamed(box, "MotorStopFailed")
  BY OutcomesLemma DEF EndHomingCheck
<1>2. /\ GoodMotor(motor') /\ Aimed(motor') /\ motor'.max = motor.max /\ ~ Running(motor')
      /\ motor'.stray => ~ ok
  BY <1>1, StoppedLemma
<1>3. CASE ok /\ UNCHANGED <<state, box>>
  <2>1. FaultRecorded' /\ HomedMeansHoming'
    BY <1>0, <1>3 DEF FaultRecorded, HomedMeansHoming, IInv
  <2>2. IdleMeansStopped'
    BY <1>2, <1>3 DEF IdleMeansStopped
  <2>3. RecoveryHasTarget'
    BY <1>0, <1>2, <1>3 DEF RecoveryHasTarget, IInv
  <2> QED
    BY <1>0, <1>2, <1>3, <2>1, <2>2, <2>3, WholeLemma, PartsLemma DEF IInv, TypeOK
<1>4. CASE FaultState /\ box' = Blamed(box, "MotorStopFailed")
  <2>1. GoodBox(box') /\ HasFault(box'.fault)
    BY <1>4, PartsLemma, BlamedLemma DEF FaultReason
  <2> QED
    BY <1>0, <1>2, <1>4, <2>1, SettledLemma, PartsLemma DEF FaultState, BlindsState
<1> QED
  BY <1>1, <1>3, <1>4

(* An explicit fault event (BlindsController.cpp:430-433). *)
LEMMA FaultLemma ==
  ASSUME IInv, HandleFault
  PROVE  IInv'
<1>1. pc = "receive" /\ GoodBox(box') /\ HasFault(box'.fault)
  BY ReceivesLemma, BlamedLemma DEF HandleFault, FaultReason
<1> QED
  BY <1>1, SettledLemma, PartsLemma DEF HandleFault, FaultState, BlindsState

-----------------------------------------------------------------------------
(* A pulse: the position moves, nothing else. *)
LEMMA StepMotorLemma ==
  ASSUME IInv, StepMotor
  PROVE  IInv'
<1> DEFINE step == motor.step + (IF motor.motion = "UP" THEN 1 ELSE -1)
<1>1. motor' = [motor EXCEPT !.step = step]
  BY DEF StepMotor
<1>2. step \in Int /\ GoodMotor(motor) /\ GoodBox(box)
  BY PartsLemma
<1> HIDE DEF step
<1>3. /\ motor' \in MotorState /\ motor'.max = motor.max /\ motor'.stray = motor.stray
      /\ motor'.motion = motor.motion /\ motor'.target = motor.target
  BY <1>1, <1>2 DEF GoodMotor, MotorState
<1>4. GoodMotor(motor') /\ (Running(motor') => Running(motor))
  BY <1>2, <1>3 DEF GoodMotor, Running
<1>5. box' = box /\ boot' = boot /\ UNCHANGED <<state, goal, returnStep, pc>>
  BY DEF StepMotor
<1> QED
  BY <1>2, <1>3, <1>4, <1>5, QuietLemma DEF IInv, TypeOK, Keeps

(* Stray pulses come to an end. *)
LEMMA StrayEndsLemma ==
  ASSUME IInv, StrayEnds
  PROVE  IInv'
<1>1. /\ motor' = [motor EXCEPT !.stray = FALSE]
      /\ box' = box /\ boot' = boot /\ UNCHANGED <<state, goal, returnStep, pc>>
  BY DEF StrayEnds
<1>2. GoodMotor(motor) /\ GoodBox(box)
  BY PartsLemma
<1>3. /\ motor' \in MotorState /\ motor'.max = motor.max /\ ~ motor'.stray
      /\ motor'.motion = motor.motion /\ motor'.target = motor.target
  BY <1>1, <1>2 DEF GoodMotor, MotorState
<1> QED
  BY <1>1, <1>2, <1>3, QuietLemma DEF GoodMotor, Running, IInv, TypeOK, Keeps

(* A fault recorded and a FAULT event sent by another task. *)
LEMMA ReportedLemma ==
  ASSUME NEW b, GoodBox(b), NEW src \in FaultSource, NEW why \in FaultReason, why # "None",
         NEW d \in Sent(Recorded(b, src, why), Cmd("FAULT"))
  PROVE  GoodBox(d) /\ HasFault(d.fault) /\ Warned(d)
<1>1. GoodBox(Recorded(b, src, why)) /\ HasFault(Recorded(b, src, why).fault)
  BY RecordedLemma
<1>2. Cmd("FAULT") \in BlindsCommand
  BY CmdLemma DEF BlindsEvent
<1> QED
  BY <1>1, <1>2, SentLemma DEF Keeps, Warned

LEMMA CompleteMovementLemma ==
  ASSUME IInv, CompleteMovement
  PROVE  IInv'
<1>1. GoodBox(box) /\ motor \in MotorState /\ GoodMotor(motor)
  BY PartsLemma
<1>2. ASSUME NEW d \in LimitSent(box)
      PROVE  GoodBox(d) /\ Keeps(box, d)
  BY <1>1, SentLemma, CmdLemma DEF LimitSent, BlindsEvent
<1>3. /\ UNCHANGED <<state, goal, returnStep, pc, boot>>
      /\ motor' = Halted(motor) \/ motor' \in Mislaid(motor)
      /\ \/ box' \in LimitSent(box)
         \/ \E tried \in LimitSent(box) \cup {box} :
              box' \in Sent(Recorded(tried, "MotorController", "MovementCompletionFailed"), Cmd("FAULT"))
  BY DEF CompleteMovement
<1>4. GoodBox(box') /\ Keeps(box, box')
  <2>1. CASE box' \in LimitSent(box)
    BY <1>2, <2>1
  <2>2. ASSUME NEW tried \in LimitSent(box) \cup {box},
               box' \in Sent(Recorded(tried, "MotorController", "MovementCompletionFailed"), Cmd("FAULT"))
        PROVE  GoodBox(box') /\ Keeps(box, box')
    <3>1. GoodBox(tried)
      BY <1>1, <1>2
    <3> QED
      BY <2>2, <3>1, ReportedLemma DEF FaultSource, FaultReason, Keeps
  <2> QED
    BY <1>3, <2>1, <2>2
<1>5. motor' \in MotorState /\ ~ Running(motor') /\ ~ motor'.stray /\ motor'.max = motor.max
  BY <1>1, <1>3, HaltedLemma, MislaidLemma
<1> QED
  BY <1>1, <1>3, <1>4, <1>5, QuietLemma DEF GoodMotor, IInv, TypeOK

LEMMA RefillFailsLemma ==
  ASSUME IInv, RefillFails
  PROVE  IInv'
<1>1. GoodBox(box') /\ HasFault(box'.fault) /\ Warned(box')
  BY PartsLemma, ReportedLemma DEF RefillFails, FaultSource, FaultReason
<1>2. GoodMotor(motor') /\ motor'.max = motor.max /\ ~ Running(motor')
  BY OutcomesLemma, StoppedLemma DEF RefillFails
<1> QED
  BY <1>1, <1>2, QuietLemma DEF RefillFails, IInv, TypeOK, Keeps

(* A command from anyone else, at whatever point of the boot sequence. *)
LEMMA QueuesLemma ==
  ASSUME IInv, NEW c \in BlindsCommand, Queues(c),
         boot' \in {"start", "checking", "passed", "running", "restarting"}
  PROVE  IInv'
<1>1. GoodBox(box') /\ Keeps(box, box')
  BY PartsLemma, SentLemma DEF Queues
<1>2. motor' = motor /\ UNCHANGED <<state, goal, returnStep, pc>>
  BY DEF Queues
<1> QED
  BY <1>1, <1>2, QuietLemma, PartsLemma

LEMMA SourcesLemma ==
  ASSUME IInv, Button \/ Mqtt \/ SensorIsr \/ DiagIsr
  PROVE  IInv'
<1>1. boot' = boot /\ \E c \in BlindsCommand : Queues(c)
  BY ArrivingLemma DEF Button, Mqtt, SensorIsr, DiagIsr, Arrives
<1> QED
  BY <1>1, QueuesLemma DEF IInv, TypeOK

(* Where everything starts, after a power-up or esp_restart(). *)
LEMMA InitialMotorLemma ==
  /\ GoodMotor(InitialMotor) /\ Aimed(InitialMotor)
  /\ ~ Running(InitialMotor) /\ ~ InitialMotor.stray
  BY ControllerAssumption DEF InitialMotor, GoodMotor, Aimed, MotorState, Running

LEMMA InitialBoxLemma == GoodBox(InitialBox)
  BY ControllerAssumption
     DEF InitialBox, GoodBox, Box, NoFault, FaultRecord, FaultSource, FaultReason

(* app_main's own steps. *)
LEMMA MainLemma ==
  ASSUME IInv, Main
  PROVE  IInv'
<1>1. CASE SensorIdle \/ RecheckPassed
  <2>1. /\ boot' \in {"passed", "restarting"}
        /\ UNCHANGED <<state, goal, returnStep, pc, motor, box>>
    BY <1>1 DEF SensorIdle, RecheckPassed, CheckPassed
  <2> QED
    BY <2>1, PartsLemma, QuietLemma DEF Keeps
<1>2. CASE SensorActive
  BY <1>2, QueuesLemma, CmdLemma DEF SensorActive, BlindsEvent
<1>3. CASE SensorStuck
  <2>1. GoodBox(box') /\ HasFault(box'.fault) /\ Warned(box')
    BY <1>3, PartsLemma, ReportedLemma DEF SensorStuck, FaultSource, FaultReason
  <2> QED
    BY <1>3, <2>1, PartsLemma, QuietLemma DEF SensorStuck, Keeps
<1>4. CASE StartCalibration
  BY <1>4, QueuesLemma, CmdLemma DEF StartCalibration, BlindsEvent
<1>5. CASE Restart
  <2>1. GoodMotor(motor') /\ Aimed(motor') /\ GoodBox(box') /\ goal' \in Goal
    BY <1>5, InitialMotorLemma, InitialBoxLemma, GoalLemma DEF Restart, BlindsState
  <2>2. IdleMeansStopped' /\ FaultRecorded' /\ RecoveryHasTarget' /\ HomedMeansHoming'
    BY <1>5, InitialMotorLemma
       DEF Restart, IdleMeansStopped, FaultRecorded, RecoveryHasTarget, HomedMeansHoming
  <2> QED
    BY <1>5, <2>1, <2>2, WholeLemma, ControllerAssumption DEF Restart, BlindsState
<1> QED
  BY <1>1, <1>2, <1>3, <1>4, <1>5 DEF Main

-----------------------------------------------------------------------------
LEMMA InitLemma == Init => IInv
<1> SUFFICES ASSUME Init PROVE IInv
  OBVIOUS
<1>1. GoodMotor(motor) /\ GoodBox(box) /\ goal \in Goal
  BY InitialMotorLemma, InitialBoxLemma, GoalLemma DEF Init, BlindsState
<1>2. IdleMeansStopped /\ FaultRecorded /\ RecoveryHasTarget /\ HomedMeansHoming
  BY InitialMotorLemma
     DEF Init, IdleMeansStopped, FaultRecorded, RecoveryHasTarget, HomedMeansHoming
<1>3. TypeOK /\ RangeOK
  BY <1>1, InitialMotorLemma, ControllerAssumption
     DEF Init, TypeOK, RangeOK, GoodMotor, GoodBox, Box, BlindsState
<1> QED
  BY <1>2, <1>3 DEF IInv

LEMMA NextLemma == IInv /\ [Next]_vars => IInv'
<1> SUFFICES ASSUME IInv, [Next]_vars PROVE IInv'
  OBVIOUS
<1>1. CASE Controller
  BY <1>1, StopLemma, UpLemma, DownLemma, MoveToPercentLemma, LimitReachedLemma, RetryLemma,
     CalibrateLemma, HomingReachedLemma, MoveToTopLemma, StallDetectedLemma,
     HomingCheckLemma, EndHomingCheckLemma, FaultLemma DEF Controller
<1>2. CASE StepMotor \/ CompleteMovement \/ RefillFails \/ StrayEnds
  BY <1>2, StepMotorLemma, CompleteMovementLemma, RefillFailsLemma, StrayEndsLemma
<1>3. CASE Button \/ Mqtt \/ SensorIsr \/ DiagIsr
  BY <1>3, SourcesLemma
<1>4. CASE Main
  BY <1>4, MainLemma
<1>5. CASE UNCHANGED vars
  <2>1. UNCHANGED <<state, goal, returnStep, pc, motor, box, boot>>
    BY <1>5 DEF vars
  <2> QED
    BY <2>1, PartsLemma, QuietLemma DEF IInv, TypeOK, Keeps
<1> QED
  BY <1>1, <1>2, <1>3, <1>4, <1>5 DEF Next

(* Every invariant of the controller at once, as they need each other: the *)
(* target of a recovery is only inside a range that is not empty, and a    *)
(* movement from IDLE only starts from a motor that is off.                *)
THEOREM Invariant == Spec => []IInv
  BY InitLemma, NextLemma, PTL DEF Spec

(* No sequence of events and failures takes a variable out of its domain   *)
(* or overfills the queue.                                                 *)
THEOREM TypeCorrect == Spec => []TypeOK
<1>1. IInv => TypeOK
  BY DEF IInv
<1> QED
  BY <1>1, Invariant, PTL

(* Calibration never leaves an empty range (BlindsController.cpp:384) and  *)
(* pulses only ever aim inside the range (MotorController.cpp:576), except *)
(* while the startup check sleeps after it has failed.                     *)
THEOREM RangeCorrect == Spec => []RangeOK
<1>1. IInv => RangeOK
  BY DEF IInv
<1> QED
  BY <1>1, Invariant, PTL

(* A controller in IDLE has stopped its motor, whatever events were stale  *)
(* and whatever failed before; if rmt_disable did (MotorController.cpp:    *)
(* 213), so that pulses still come out, a fault is on record or a FAULT    *)
(* event queued.                                                           *)
THEOREM IdleStopped == Spec => []IdleMeansStopped
<1>1. IInv => IdleMeansStopped
  BY DEF IInv
<1> QED
  BY <1>1, Invariant, PTL

(* The controller enters FAULT only with a fault on record, through every  *)
(* call of enterFault() and every failure it follows.                      *)
THEOREM FaultsRecorded == Spec => []FaultRecorded
<1>1. IInv => FaultRecorded
  BY DEF IInv
<1> QED
  BY <1>1, Invariant, PTL

(* From the stall to the end of the backoff and its delay, whatever is     *)
(* handled in between, the retry has its target, its movement and a count  *)
(* in the limit (BlindsController.cpp:26-59).                              *)
THEOREM RecoveryReady == Spec => []RecoveryHasTarget
<1>1. IInv => RecoveryHasTarget
  BY DEF IInv
<1> QED
  BY <1>1, Invariant, PTL

-----------------------------------------------------------------------------
(* FAULT is left by a restart only, and no handler starts pulses in it     *)
(* except the startup check (BlindsController.cpp:216-440): the stall and  *)
(* homing handlers that sleep were never entered in it.                    *)
THEOREM FaultStays == Spec => FaultLatched
<1>1. IInv /\ [Next]_vars =>
        [state = "FAULT" /\ ~ Restarting =>
           /\ state' = "FAULT"
           /\ pc' = "receive" => motor'.motion \in {motor.motion, "STOPPED"}]_vars
  <2> SUFFICES ASSUME IInv, Next, state = "FAULT", ~ Restarting
               PROVE  /\ state' = "FAULT"
                      /\ pc' = "receive" => motor'.motion \in {motor.motion, "STOPPED"}
    OBVIOUS
  <2> DEFINE Kept == /\ state' = "FAULT"
                     /\ pc' = "receive" => motor'.motion \in {motor.motion, "STOPPED"}
  <2>0. /\ Halted(motor).motion = "STOPPED"
        /\ \A h \in Mislaid(motor) : h.motion = "STOPPED"
        /\ \A ok \in BOOLEAN : \A h \in Stops(ok, motor) : h.motion = "STOPPED"
    BY PartsLemma, HaltedLemma, MislaidLemma, StopsLemma
  <2>1. state \notin Moving \cup Calibrating \cup {"STALL_RECOVERY", "IDLE"}
    BY DEF Moving, Calibrating
  <2>2. pc \notin {"retry", "homed"}
    BY DEF IInv, RecoveryHasTarget, HomedMeansHoming
  <2>3. CASE HandleStop
    BY OutcomesLemma, <2>0, <2>3 DEF HandleStop, IdleUnlessFault
  <2>4. CASE HandleUp \/ HandleDown
    BY <2>1, <2>4 DEF HandleUp, HandleDown, Manual, CalibrationInterrupted, Ignored
  <2>5. CASE HandleMoveToPercent
    BY <2>1, <2>5 DEF HandleMoveToPercent, CalibrationInterrupted, Ignored
  <2>6. CASE HandleLimitReached
    BY <2>1, <2>6 DEF HandleLimitReached, Ignored
  <2>7. CASE RetryTarget \/ MoveToTop
    BY <2>2, <2>7 DEF RetryTarget, MoveToTop
  <2>8. CASE HandleCalibrate
    BY <2>8 DEF HandleCalibrate, CalibrateAllowed, Ignored
  <2>9. CASE HandleHomingReached
    BY <2>0, <2>9 DEF HandleHomingReached, StopFailed, FaultState
  <2>10. CASE HandleStallDetected
    BY <2>1, <2>10 DEF HandleStallDetected, AtTop, Ignored, Calibrating
  <2>11. CASE HandleHomingCheck
    BY <2>11 DEF HandleHomingCheck, FaultState
  <2>12. CASE EndHomingCheck
    BY OutcomesLemma, <2>0, <2>12 DEF EndHomingCheck, FaultState
  <2>13. CASE HandleFault
    BY <2>13 DEF HandleFault, FaultState
  <2>14. CASE StepMotor
    BY <2>14, PartsLemma DEF StepMotor, MotorState
  <2>15. CASE CompleteMovement
    BY <2>0, <2>15 DEF CompleteMovement
  <2>18. CASE RefillFails
    BY OutcomesLemma, <2>0, <2>18 DEF RefillFails
  <2>19. CASE StrayEnds
    BY <2>19, PartsLemma DEF StrayEnds, MotorState
  <2>16. CASE Button \/ Mqtt \/ SensorIsr \/ DiagIsr
    BY <2>16 DEF Button, Mqtt, SensorIsr, DiagIsr, Arrives, Queues
  <2>17. CASE Main
    BY <2>17 DEF Main, SensorIdle, SensorActive, RecheckPassed, CheckPassed, SensorStuck,
       StartCalibration, Restart, Restarting, Queues
  <2> QED
    BY <2>3, <2>4, <2>5, <2>6, <2>7, <2>8, <2>9, <2>10, <2>11, <2>12, <2>13, <2>14,
       <2>15, <2>16, <2>17, <2>18, <2>19 DEF Next, Controller
<1> QED
  BY <1>1, Invariant, PTL DEF Spec, FaultLatched

(* The target of a backoff lies behind the stall, at most BackoffSteps     *)
(* away, at whichever end of the range the stall was                       *)
(* (BlindsController.cpp:97-108).                                          *)
LEMMA BackoffTargetLemma ==
  ASSUME motor \in MotorState, NEW up \in BOOLEAN, motor.step \in 1..(motor.max - 1)
  PROVE  IF up THEN BackoffTarget(up, motor.step) \in (motor.step - BackoffSteps)..(motor.step - 1)
               ELSE BackoffTarget(up, motor.step) \in (motor.step + 1)..(motor.step + BackoffSteps)
<1>1. motor.step \in Int /\ motor.max \in Int /\ BackoffSteps \in Nat \ {0}
  BY ControllerAssumption DEF MotorState
<1>2. CASE up
  BY <1>1, <1>2 DEF BackoffTarget
<1>3. CASE ~ up
  BY <1>1, <1>3 DEF BackoffTarget
<1> QED
  BY <1>2, <1>3

(* Only a stall handled by handleNormalStall() begins a recovery.          *)
LEMMA RecoveryBeginsLemma ==
  ASSUME IInv, Next, state # "STALL_RECOVERY", state' = "STALL_RECOVERY"
  PROVE  /\ state \in Moving \cup Calibrating
         /\ \E rest \in RestSteps(motor) :
              MoveSucceeds(Taken, Rested(motor, rest),
                           BackoffTarget(state \in {"MOVING_UP", "CALIBRATING_MAX"}, motor.step))
         /\ Receives("STALL_DETECTED")
<1>0. \A t, n : Direction(t, n) # "STALL_RECOVERY"
  BY DEF Direction
<1>1. ~ (HandleStop \/ HandleUp \/ HandleDown)
  BY DEF HandleStop, IdleUnlessFault, HandleUp, HandleDown, Manual, Ignored,
     CalibrationInterrupted, FaultState
<1>2. ~ (HandleMoveToPercent \/ HandleLimitReached \/ RetryTarget)
  BY <1>0 DEF HandleMoveToPercent, MoveToTargetStep, Ignored, CalibrationInterrupted, StopFailed,
     FaultState, HandleLimitReached, RetryTarget, Calibrating
<1>3. ~ (HandleCalibrate \/ HandleHomingReached \/ MoveToTop \/ HandleFault)
  BY DEF HandleCalibrate, Ignored, FaultState, HandleHomingReached, StopFailed, MoveToTop, HandleFault
<1>4. ~ (HandleHomingCheck \/ EndHomingCheck)
  BY DEF HandleHomingCheck, EndHomingCheck, FaultState
<1>5. ~ (StepMotor \/ CompleteMovement \/ RefillFails \/ StrayEnds \/ Button \/ Mqtt \/ SensorIsr \/ DiagIsr)
  BY DEF StepMotor, CompleteMovement, RefillFails, StrayEnds, Button, Mqtt, SensorIsr, DiagIsr,
       Arrives, Queues
<1>6. ~ Main
  BY DEF Main, SensorIdle, SensorActive, RecheckPassed, CheckPassed, SensorStuck, StartCalibration, Restart, Queues
<1>7. HandleStallDetected
  BY <1>1, <1>2, <1>3, <1>4, <1>5, <1>6 DEF Next, Controller
<1>8. ASSUME NEW rest \in RestSteps(motor), FinishCalibration(rest)
      PROVE  FALSE
  BY <1>0, <1>8 DEF FinishCalibration, FaultState
<1>9. /\ state \in Moving \cup Calibrating
      /\ \E rest \in RestSteps(motor) : BackAway(rest)
  BY <1>7, <1>8 DEF HandleStallDetected, StopFailed, FaultState, Ignored
<1>10. PICK rest \in RestSteps(motor) : BackAway(rest)
  BY <1>9
<1>11. MoveSucceeds(Taken, Rested(motor, rest),
                    BackoffTarget(state \in {"MOVING_UP", "CALIBRATING_MAX"}, motor.step))
  BY <1>10 DEF BackAway, StallRefused, FaultState
<1> QED
  BY <1>7, <1>9, <1>11 DEF HandleStallDetected

(* Between the ends of the range a backoff turns back.                     *)
THEOREM BackoffAway == Spec => BackoffTurnsBack
<1>1. IInv /\ [Next]_vars =>
        [state # "STALL_RECOVERY" /\ state' = "STALL_RECOVERY" /\ motor.step \in 1..(motor.max - 1) =>
           IF state \in {"MOVING_UP", "CALIBRATING_MAX"}
           THEN motor'.target \in (motor.step - BackoffSteps)..(motor.step - 1)
           ELSE motor'.target \in (motor.step + 1)..(motor.step + BackoffSteps)]_vars
  <2> SUFFICES ASSUME IInv, Next, state # "STALL_RECOVERY", state' = "STALL_RECOVERY",
                      motor.step \in 1..(motor.max - 1)
               PROVE  IF state \in {"MOVING_UP", "CALIBRATING_MAX"}
                      THEN motor'.target \in (motor.step - BackoffSteps)..(motor.step - 1)
                      ELSE motor'.target \in (motor.step + 1)..(motor.step + BackoffSteps)
    OBVIOUS
  <2> DEFINE up == state \in {"MOVING_UP", "CALIBRATING_MAX"}
             back == BackoffTarget(up, motor.step)
  <2>1. PICK rest \in RestSteps(motor) : MoveSucceeds(Taken, Rested(motor, rest), back)
    BY RecoveryBeginsLemma
  <2>2. GoodBox(Taken) /\ GoodMotor(Rested(motor, rest))
    BY RecoveryBeginsLemma, ReceivesLemma, RestLemma
  <2>3. motor'.target = back
    BY <2>1, <2>2, MoveSucceedsLemma
  <2>4. up \in BOOLEAN /\ motor \in MotorState
    BY PartsLemma
  <2>5. IF up THEN back \in (motor.step - BackoffSteps)..(motor.step - 1)
              ELSE back \in (motor.step + 1)..(motor.step + BackoffSteps)
    BY ONLY <2>4, BackoffTargetLemma, motor.step \in 1..(motor.max - 1)
  <2> QED
    BY <2>3, <2>5
<1> QED
  BY <1>1, Invariant, PTL DEF Spec, BackoffTurnsBack

(* The retry aims at the goal of the stalled movement and keeps its count  *)
(* (BlindsController.cpp:36-59).                                           *)
THEOREM RetryAims == Spec => RetryKeepsGoal
<1>1. IInv /\ [Next]_vars =>
        [pc = "retry" /\ pc' = "receive" /\ ~ Restarting =>
           /\ goal' = goal
           /\ state' # "FAULT" => motor'.target = goal.target]_vars
  <2> SUFFICES ASSUME IInv, Next, pc = "retry", pc' = "receive", ~ Restarting
               PROVE  goal' = goal /\ (state' # "FAULT" => motor'.target = goal.target)
    OBVIOUS
  <2>1. ~ (StepMotor \/ CompleteMovement \/ RefillFails \/ StrayEnds \/ Button \/ Mqtt \/ SensorIsr \/ DiagIsr)
    BY DEF StepMotor, CompleteMovement, RefillFails, StrayEnds, Button, Mqtt, SensorIsr, DiagIsr,
       Arrives, Queues
  <2>2. ~ Main
    BY DEF Main, SensorIdle, SensorActive, RecheckPassed, CheckPassed, SensorStuck, StartCalibration,
       Restart, Restarting, Queues
  <2>3. RetryTarget
    BY <2>1, <2>2 DEF Next, Controller, HandleStop, HandleUp, HandleDown, HandleMoveToPercent,
       HandleLimitReached, HandleCalibrate, HandleHomingReached, MoveToTop, HandleStallDetected,
       HandleHomingCheck, EndHomingCheck, HandleFault, Receives
  <2>4. goal' = goal
    BY <2>3 DEF RetryTarget
  <2>5. CASE MoveSucceeds(box, motor, RetryStep)
    BY <2>4, <2>5, PartsLemma, MoveSucceedsLemma DEF RetryStep
  <2>6. CASE FaultState
    BY <2>4, <2>6 DEF FaultState
  <2> QED
    BY <2>3, <2>5, <2>6 DEF RetryTarget
<1> QED
  BY <1>1, Invariant, PTL DEF Spec, RetryKeepsGoal

-----------------------------------------------------------------------------
(* Rounding to the nearest step: the target of a percentage is inside the  *)
(* range and half a percent of it away at most.                            *)
LEMMA PercentTargetLemma ==
  ASSUME motor.max \in Int, motor.max >= 1, NEW p \in 0..100
  PROVE  /\ PercentTarget(p) \in 0..motor.max
         /\ 100 * PercentTarget(p) - motor.max * p \in -50..50
<1> DEFINE n == motor.max * p
<1>1. n \in Int /\ 0 <= n /\ n <= 100 * motor.max
  <2>1. \A a \in Nat, b \in Nat : a * b \in Nat
    OBVIOUS
  <2>2. p \in Nat /\ 100 - p \in Nat /\ motor.max \in Nat
    OBVIOUS
  <2>3. motor.max * p \in Nat /\ motor.max * (100 - p) \in Nat
    BY <2>1, <2>2
  <2>4. motor.max * p + motor.max * (100 - p) = 100 * motor.max
    BY <2>2
  <2> QED
    BY <2>3, <2>4
<1> HIDE DEF n
<1>2. PercentTarget(p) = (n + 50) \div 100
  BY DEF PercentTarget, n
<1>3. (n + 50) \div 100 \in Int /\ 100 * ((n + 50) \div 100) - n \in -50..50
  BY <1>1
<1>4. (n + 50) \div 100 \in 0..motor.max
  BY <1>1, <1>3
<1> QED
  BY <1>2, <1>3, <1>4 DEF n

(* A percentage of a known range is hit to within half a percent, and on   *)
(* hardware that does not fail it is only refused where the blind already  *)
(* is: its completion needs room for LIMIT_REACHED in a queue another      *)
(* sender may have filled up (MotorController.cpp:441), and that is put on *)
(* record (BlindsController.cpp:134-200).                                  *)
THEOREM PercentExact == Spec => PercentLands
<1>1. IInv /\ [Next]_vars =>
        [HandleMoveToPercent /\ PercentKnown /\ state \notin Calibrating \cup {"FAULT"} =>
           LET lands(step) == 100 * step - motor.max * Head(box.queue).percent \in -50..50 IN
           \/ state' \in Moving /\ lands(motor'.target)
           \/ /\ state' \notin Moving
              /\ HwFailures = {} => lands(motor.step) /\ HasFault(box'.fault)]_vars
  <2> DEFINE p == Head(box.queue).percent
             t == PercentTarget(p)
             Lands(step) == 100 * step - motor.max * p \in -50..50
             Kept == \/ state' \in Moving /\ Lands(motor'.target)
                     \/ /\ state' \notin Moving
                        /\ HwFailures = {} => Lands(motor.step) /\ HasFault(box'.fault)
  <2> SUFFICES ASSUME IInv, HandleMoveToPercent, PercentKnown,
                      state \notin Calibrating \cup {"FAULT"}
               PROVE  Kept
    OBVIOUS
  <2>1. Receives("MOVE_TO_PERCENT")
    BY DEF HandleMoveToPercent
  <2>2. GoodBox(Taken) /\ Head(box.queue) \in BlindsCommand /\ GoodMotor(motor) /\ motor.max \in Int
    BY <2>1, ReceivesLemma, PartsLemma
  <2>3. p \in 0..100
    <3>1. p \in {0} \cup Percents
      BY <2>2 DEF BlindsCommand
    <3>2. Percents \subseteq 0..100
      BY ControllerAssumption
    <3>3. \A n \in {0} \cup Percents : n \in 0..100
      BY ONLY <3>2
    <3> QED
      BY ONLY <3>1, <3>3
  <2>4. t \in 0..motor.max /\ Lands(t)
    BY <2>2, <2>3, PercentTargetLemma DEF GoodMotor
  <2> HIDE DEF t, Lands
  <2>5. ASSUME NEW m, GoodMotor(m), m.max = motor.max, m.step = motor.step, NEW idle,
               MoveToTargetStep(m, t, idle)
        PROVE  Kept
    <3>1. CASE MoveSucceeds(Taken, m, t) /\ state' = Direction(t, m.step)
      <4>1. motor'.target = t
        BY <2>2, <2>5, <3>1, MoveSucceedsLemma
      <4> QED
        BY <2>4, <3>1, <4>1 DEF Direction, Moving
    <3>2. CASE MoveFails(Taken, m, t, "None") /\ state' = "IDLE"
      <4>1. SUFFICES ASSUME HwFailures = {}
                     PROVE  Lands(motor.step) /\ HasFault(box'.fault)
        BY <3>2 DEF Moving
      <4>2. t = m.step /\ \E now \in Meanwhile(Taken) :
              ~ HasRoom(now) /\ \E told \in LimitSent(now) : box' = told
        BY <2>4, <2>5, <3>2, <4>1 DEF MoveFails, Blamed, Outcomes
      <4>3. PICK now \in Meanwhile(Taken) : ~ HasRoom(now) /\ box' \in LimitSent(now)
        BY <4>2
      <4>4. GoodBox(now) /\ Cmd("LIMIT_REACHED") \in BlindsCommand
        BY <2>2, MeanwhileLemma, CmdLemma DEF BlindsEvent
      <4>5. HasFault(box'.fault)
        BY <4>3, <4>4, SentLemma DEF LimitSent
      <4> QED
        BY <2>4, <2>5, <4>2, <4>5
    <3> QED
      BY <2>5, <3>1, <3>2 DEF MoveToTargetStep
  <2>6. CASE StopFailed
    BY <2>6 DEF StopFailed, Outcomes, FaultState, Moving
  <2>7. /\ GoodMotor(Halted(motor)) /\ Halted(motor).max = motor.max
        /\ Halted(motor).step = motor.step
    BY <2>2, HaltedLemma DEF GoodMotor
  <2>8. \/ MoveToTargetStep(motor, t, goal)
        \/ MoveToTargetStep(Halted(motor), t, NoGoal)
        \/ StopFailed
    BY DEF HandleMoveToPercent, CalibrationInterrupted, t
  <2> QED
    BY <2>2, <2>5, <2>6, <2>7, <2>8
<1> QED
  BY <1>1, Invariant, PTL DEF Spec, PercentLands

=============================================================================
