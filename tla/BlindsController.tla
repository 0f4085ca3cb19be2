-------------------------- MODULE BlindsController --------------------------
(***************************************************************************)
(* The Blinds task (BlindsController) with everything that races with it:  *)
(* the motor's pulse output and refill task seen through IMotor, the       *)
(* command queue, the sensor ISRs, the buttons and MQTT, and app_main's    *)
(* boot sequence.                                                          *)
(*                                                                         *)
(* A handler is one action, cut where the code calls vTaskDelay: while the *)
(* Blinds task sleeps, pc says where it resumes and everything else moves  *)
(* on.  The motor is what IMotor shows of it; the refill task's own        *)
(* interleavings are not modelled here.  A queue call is one step, as      *)
(* CommandQueue.tla is about its interleavings.                            *)
(***************************************************************************)
EXTENDS FaultHandler, Integers, Sequences

CONSTANTS
  IntMax,          \* INT_MAX: the unknown position before homing
  BackoffSteps,    \* AppConfig::normalStallBackoffSteps
  OffsetOfMinStep, \* AppConfig::offsetOfMinStep
  OffsetOfMaxStep, \* AppConfig::offsetOfMaxStep
  StallThreshold,  \* AppConfig::stepStallThreshold
  MaxRecoveries,   \* AppConfig::normalStallMaxRecoveries
  Depth,           \* AppConfig::commandsQueueDepth
  DropThreshold,   \* DROPPED_EVENT_FAULT_THRESHOLD
  Percents,        \* percentages MQTT asks for
  Inputs,          \* which events the outside world produces
  HwFailures       \* which hardware calls may fail: "stop", "start", "refill", "isr"

ASSUME ControllerAssumption ==
  /\ {IntMax, BackoffSteps, OffsetOfMinStep, OffsetOfMaxStep, StallThreshold,
      MaxRecoveries, Depth, DropThreshold} \subseteq Nat \ {0}
  /\ OffsetOfMaxStep < StallThreshold
  /\ StallThreshold < IntMax
  /\ Percents \subseteq 0..100
  /\ Inputs \subseteq {"UP", "DOWN", "STOP", "HOMING_REACHED", "STALL_DETECTED"}
  /\ HwFailures \subseteq {"stop", "start", "refill", "isr"}

VARIABLES
  state,      \* state_
  goal,       \* activeTargetStep_, hasActiveTarget_, recoveryReturnState_
              \* and normalStallRecoveries_
  returnStep, \* calibrationReturnStep_
  pc,         \* where the Blinds task is: "receive" or after a vTaskDelay
  motor,      \* what IMotor shows: pulse output, position, target, range,
              \* and stray pulses of a movement that was not switched off
  box,        \* the queue, droppedEvents_ (up to DropThreshold), whether the
              \* last overflow lost its recovery event, the fault
  boot        \* where app_main is

vars == <<state, goal, returnStep, pc, motor, box, boot>>

Moving      == {"MOVING_UP", "MOVING_DOWN"}
Calibrating == {"CALIBRATING_HOME", "CALIBRATING_MAX"}
BlindsState == Moving \cup Calibrating \cup {"IDLE", "STALL_RECOVERY", "FAULT"}

BlindsEvent == {"STOP", "UP", "DOWN", "MOVE_TO_PERCENT", "LIMIT_REACHED", "CALIBRATE",
                "HOMING_REACHED", "STALL_DETECTED", "HOMING_CHECK", "FAULT"}

BlindsCommand == [event : BlindsEvent, percent : {0} \cup Percents]

-----------------------------------------------------------------------------
(* Mutated forms of the operators below. *)

EscalatesLate(dropped) == IF dropped > DropThreshold THEN "FAULT" ELSE "STOP"

KeepsPulsing(m) == m

TopAnywhere == state = "CALIBRATING_MAX"

LimitForgotten(b) == {b}

InterruptUnrecorded(b, why) ==
  IF why = "UnexpectedCalibrationCommand" THEN b ELSE [b EXCEPT !.fault = RecordFault(@, "BlindsController", why)]

StopFailureUnrecorded(b, why) ==
  IF why = "MotorStopFailed" THEN b ELSE [b EXCEPT !.fault = RecordFault(@, "BlindsController", why)]

PercentRoundedDown(p) == (motor.max * p) \div 100

Unclamped(n) == n

BackoffOnwards(up, seen) ==
  IF up THEN (IF seen <= motor.max - BackoffSteps THEN seen + BackoffSteps ELSE motor.max)
        ELSE (IF seen > BackoffSteps THEN seen - BackoffSteps ELSE 0)

StopClearsFault(s) == "IDLE"

RetryToTheEnd ==
  IF goal.return \in {"MOVING_UP", "CALIBRATING_MAX"} THEN motor.max ELSE 0

ExhaustedLate == goal.tries > MaxRecoveries

-----------------------------------------------------------------------------
(* The command queue and the fault handler. *)

Cmd(e) == [event |-> e, percent |-> 0]

HasRoom(b) == Len(b.queue) < Depth

Recorded(b, src, why) == [b EXCEPT !.fault = RecordFault(@, src, why)]

RecoveryEventFor(dropped) == IF dropped >= DropThreshold THEN "FAULT" ELSE "STOP"

(* What the senders outside the program have to say: buttons, MQTT, the    *)
(* home sensor once its ISR is added, and the driver, which reports stalls *)
(* of a motor that is being pulsed.                                        *)
Arriving ==
  LET senses == boot \in {"passed", "running"}
      pulsed == motor.motion # "STOPPED" \/ motor.stray
  IN  {Cmd(e) : e \in {i \in Inputs : /\ i = "HOMING_REACHED" => senses
                                     /\ i = "STALL_DETECTED" => pulsed}}
        \cup {[event |-> "MOVE_TO_PERCENT", percent |-> p] : p \in Percents}

(* send() of a full queue: count the drop, record the fault, and replace   *)
(* the oldest command by a recovery event in front.  Another sender may    *)
(* take the room first, and the recovery event is lost.                    *)
Overflowed(b) ==
  LET dropped == IF b.dropped < DropThreshold THEN b.dropped + 1 ELSE DropThreshold
      rest    == Tail(b.queue)
      noted   == [Recorded(b, "CommandQueue", "CommandQueueOverflow") EXCEPT !.dropped = dropped]
  IN  {[noted EXCEPT !.queue = <<Cmd(RecoveryEventFor(dropped))>> \o rest, !.lost = FALSE]}
        \cup {[noted EXCEPT !.queue = Append(rest, c), !.lost = TRUE] : c \in Arriving}

(* What send() of c can make of the box b. *)
Sent(b, c) == IF HasRoom(b) THEN {[b EXCEPT !.queue = Append(@, c)]} ELSE Overflowed(b)

(* While a handler runs, another sender may come before its own send(). *)
Meanwhile(b) == {b} \cup UNION {Sent(b, c) : c \in Arriving}

Taken == [box EXCEPT !.queue = Tail(@)]

-----------------------------------------------------------------------------
(* The motor. *)

(* May the call of this kind fail? *)
Outcomes(kind) == IF kind \in HwFailures THEN BOOLEAN ELSE {TRUE}

Running(m) == m.motion # "STOPPED"

(* Output off; the start of the movement loses its meaning. *)
Halted(m) == [m EXCEPT !.motion = "STOPPED", !.start = m.step, !.stray = FALSE]

(* Output off, and the counter may not have been read: the position stays  *)
(* what it was when the movement started.                                  *)
Mislaid(m) == {Halted([m EXCEPT !.step = s]) : s \in {m.step, m.start}}

(* stop(): on an error the pulses already queued may still come out.       *)
Stops(ok, m) ==
  IF ok THEN {Halted(m)}
  ELSE {[h EXCEPT !.stray = on] : h \in Mislaid(m), on \in {FALSE, Running(m) \/ m.stray}}

(* setHoming(): the counter of a running movement goes on from the new     *)
(* origin, for as many pulses as it had left.                              *)
Rehomed(m, offset) ==
  LET by == m.start + offset IN
  [m EXCEPT !.step = @ - by, !.target = @ - by, !.start = 0 - offset]

(* setMaxStep() at the position where the motor came to rest. *)
Topped(m, rest) == [m EXCEPT !.max = rest - OffsetOfMaxStep]

(* A movement completed: LIMIT_REACHED is queued. *)
LimitSent(b) == Sent(b, Cmd("LIMIT_REACHED"))

Started(m, t) ==
  [Halted(m) EXCEPT !.motion = IF t >= m.step THEN "UP" ELSE "DOWN", !.target = t]

(* move(t) succeeds: pulses towards t, or a movement of no steps that      *)
(* completes on the spot, if the queue still has room when it does.        *)
MoveSucceeds(b, m, t) ==
  /\ t \in 0..m.max
  /\ \/ /\ t # m.step
        /\ motor' = Started(m, t)
        /\ box' = b
     \/ /\ t = m.step
        /\ motor' = Halted(Started(m, t))
        /\ \E now \in Meanwhile(b) : HasRoom(now) /\ box' \in LimitSent(now)

(* enterFault() records the reason, unless the caller only logs the error. *)
Blamed(b, why) == IF why = "None" THEN b ELSE Recorded(b, "BlindsController", why)

(* move(t) fails: a target out of range; hardware that fails before or     *)
(* after the old movement was torn down; no pulses queued, which reports a *)
(* FAULT event; the completion of no steps that finds the hardware failing *)
(* or the queue full.                                                      *)
MoveFails(b, m, t, why) ==
  \/ /\ t \notin 0..m.max
     /\ motor' = m
     /\ box' = Blamed(b, why)
  \/ /\ t \in 0..m.max
     /\ "start" \in HwFailures
     /\ motor' \in {m} \cup Mislaid(m)
     /\ box' = Blamed(b, why)
  \/ /\ t \in 0..m.max \ {m.step}
     /\ "refill" \in HwFailures
     /\ \E ok \in Outcomes("stop") : motor' \in Stops(ok, Started(m, t))
     /\ \E now \in Meanwhile(b) : \E told \in Sent(now, Cmd("FAULT")) : box' = Blamed(told, why)
  \/ /\ t \in 0..m.max
     /\ t = m.step
     /\ motor' = Halted(Started(m, t))
     /\ \/ /\ FALSE \in Outcomes("stop")
           /\ box' = Blamed(b, why)
        \/ \E now \in Meanwhile(b) :
             /\ ~ HasRoom(now)
             /\ \E told \in LimitSent(now) : box' = Blamed(told, why)

-----------------------------------------------------------------------------
(* The controller's bookkeeping. *)

NoGoal == [target |-> 0, has |-> FALSE, return |-> "IDLE", tries |-> 0]

Toward(t) == [NoGoal EXCEPT !.target = t, !.has = TRUE]

Returning(t, st) == [Toward(t) EXCEPT !.return = st]

Direction(t, step) == IF t >= step THEN "MOVING_UP" ELSE "MOVING_DOWN"

(* The target of MOVE_TO_PERCENT, and when there is one. *)
PercentKnown == motor.max # IntMax /\ motor.max > 0

PercentTarget(p) == (motor.max * p + 50) \div 100

Clamp(n) == IF n < 0 THEN 0 ELSE IF n > IntMax THEN IntMax ELSE n

(* Where handleNormalStall backs off to from the position it has read. *)
BackoffTarget(up, seen) ==
  IF up THEN (IF seen > BackoffSteps THEN seen - BackoffSteps ELSE 0)
        ELSE (IF seen <= motor.max - BackoffSteps THEN seen + BackoffSteps ELSE motor.max)

(* Where the motor comes to rest when stop() follows a reading of its      *)
(* position: pulses go on in between.                                      *)
RestSteps(m) ==
  {m.step} \cup (CASE m.motion = "UP"   /\ m.step < m.target -> {m.step + 1}
                   [] m.motion = "DOWN" /\ m.step > m.target -> {m.step - 1}
                   [] OTHER -> {})

Rested(m, rest) == Halted([m EXCEPT !.step = rest])

-----------------------------------------------------------------------------
(* Where everything starts, also after esp_restart(). *)
InitialMotor ==
  [motion |-> "STOPPED", step |-> IntMax, start |-> IntMax, target |-> 0, max |-> IntMax,
   stray |-> FALSE]

InitialBox == [queue |-> << >>, dropped |-> 0, lost |-> FALSE, fault |-> NoFault]

Init ==
  /\ state = "IDLE"
  /\ goal = NoGoal
  /\ returnStep = 0
  /\ pc = "receive"
  /\ motor = InitialMotor
  /\ box = InitialBox
  /\ boot = "start"

(* handleCommandTask has received an event of this kind. *)
Receives(e) ==
  /\ pc = "receive"
  /\ box.queue # << >>
  /\ Head(box.queue).event = e

FaultState == state' = "FAULT"

(* A handler that does nothing but take the command. *)
Ignored == box' = Taken /\ UNCHANGED <<state, goal, pc, motor>>

(* A failed stop() on the way: the movement has ended, but pulses may      *)
(* still come out and the position is uncertain.                           *)
StopFailed ==
  /\ FALSE \in Outcomes("stop")
  /\ motor' \in Stops(FALSE, motor)
  /\ FaultState
  /\ box' = Blamed(Taken, "MotorStopFailed")
  /\ UNCHANGED <<goal, pc>>

-----------------------------------------------------------------------------
IdleUnlessFault(s) == IF s = "FAULT" THEN "FAULT" ELSE "IDLE"

HandleStop ==
  /\ Receives("STOP")
  /\ box' = Taken
  /\ \E ok \in Outcomes("stop") :
       /\ motor' \in Stops(ok, motor)
       /\ \/ ok /\ goal' = NoGoal /\ state' = IdleUnlessFault(state)
          \/ ~ ok /\ UNCHANGED <<goal, state>>
  /\ UNCHANGED <<returnStep, pc, boot>>

(* A manual or remote command stops a calibration and is a fault. *)
CalibrationInterrupted ==
  /\ state \in Calibrating
  /\ FaultState
  /\ \E ok \in Outcomes("stop") :
       /\ motor' \in Stops(ok, motor)
       /\ box' = Blamed(Taken, IF ok THEN "UnexpectedCalibrationCommand" ELSE "MotorStopFailed")
  /\ UNCHANGED <<goal, pc>>

(* UP and DOWN toggle: they stop a movement and start one when idle.  A    *)
(* failed stop or move is only logged.                                     *)
Manual(t, moving) ==
  \/ state = "FAULT" /\ Ignored
  \/ CalibrationInterrupted
  \/ /\ state \in Moving \cup {"STALL_RECOVERY"}
     /\ box' = Taken
     /\ \E ok \in Outcomes("stop") :
          /\ motor' \in Stops(ok, motor)
          /\ \/ ok /\ goal' = NoGoal /\ state' = "IDLE"
             \/ ~ ok /\ UNCHANGED <<goal, state>>
     /\ UNCHANGED pc
  \/ /\ state = "IDLE"
     /\ \/ /\ MoveSucceeds(Taken, motor, t)
           /\ goal' = Toward(t)
           /\ state' = moving
        \/ /\ MoveFails(Taken, motor, t, "None")
           /\ UNCHANGED <<goal, state>>
     /\ UNCHANGED pc

HandleUp   == Receives("UP") /\ Manual(motor.max, "MOVING_UP") /\ UNCHANGED <<returnStep, boot>>
HandleDown == Receives("DOWN") /\ Manual(0, "MOVING_DOWN") /\ UNCHANGED <<returnStep, boot>>

(* moveToTargetStep(), entered with the state and goal of an idle blind.   *)
MoveToTargetStep(m, t, idleGoal) ==
  \/ /\ MoveSucceeds(Taken, m, t)
     /\ goal' = Toward(t)
     /\ state' = Direction(t, m.step)
  \/ /\ MoveFails(Taken, m, t, "None")
     /\ goal' = idleGoal
     /\ state' = "IDLE"

HandleMoveToPercent ==
  /\ Receives("MOVE_TO_PERCENT")
  /\ LET t == PercentTarget(Head(box.queue).percent) IN
       \/ state = "FAULT" /\ Ignored
       \/ CalibrationInterrupted
       \/ state \notin Calibrating \cup {"FAULT"} /\ ~ PercentKnown /\ Ignored
       \/ /\ state = "IDLE"
          /\ PercentKnown
          /\ MoveToTargetStep(motor, t, goal)
          /\ UNCHANGED pc
       \/ /\ state \in Moving \cup {"STALL_RECOVERY"}
          /\ PercentKnown
          /\ MoveToTargetStep(Halted(motor), t, NoGoal) /\ UNCHANGED pc
       \/ /\ state \in Moving \cup {"STALL_RECOVERY"}
          /\ PercentKnown
          /\ StopFailed
  /\ UNCHANGED <<returnStep, boot>>

(* The end of a movement; the end of a backoff starts the retry. *)
HandleLimitReached ==
  /\ Receives("LIMIT_REACHED")
  /\ \/ /\ state \in Moving
        /\ motor' = Halted(motor)
        /\ box' = Taken
        /\ goal' = NoGoal
        /\ state' = "IDLE"
        /\ UNCHANGED pc
     \/ /\ state = "STALL_RECOVERY"
        /\ motor' = Halted(motor)
        /\ box' = Taken
        /\ pc' = "retry"
        /\ UNCHANGED <<state, goal>>
     \/ state \in Moving \cup {"STALL_RECOVERY"} /\ StopFailed
     \/ state \notin Moving \cup {"STALL_RECOVERY"} /\ Ignored
  /\ UNCHANGED <<returnStep, boot>>

RetryStep == goal.target

(* retryStallRecoveryTarget() after its delay. *)
RetryTarget ==
  /\ pc = "retry"
  /\ pc' = "receive"
  /\ LET valid == goal.has /\ RetryStep \in 0..motor.max IN
       \/ /\ valid
          /\ MoveSucceeds(box, motor, RetryStep)
          /\ UNCHANGED goal
          /\ state' = IF goal.return \in Calibrating THEN goal.return
                      ELSE Direction(RetryStep, motor.step)
       \/ /\ valid
          /\ MoveFails(box, motor, RetryStep, "MotorMoveFailed")
          /\ FaultState
          /\ UNCHANGED goal
       \/ /\ ~ valid
          /\ box' = Blamed(box, "InvalidStallRecoveryTarget")
          /\ FaultState
          /\ UNCHANGED <<goal, motor>>
  /\ UNCHANGED <<returnStep, boot>>

CalibrateAllowed == state # "FAULT"

HandleCalibrate ==
  /\ Receives("CALIBRATE")
  /\ \/ /\ CalibrateAllowed
        /\ MoveSucceeds(Taken, motor, 0)
        /\ goal' = Returning(0, "CALIBRATING_HOME")
        /\ state' = "CALIBRATING_HOME"
        /\ UNCHANGED pc
     \/ /\ CalibrateAllowed
        /\ MoveFails(Taken, motor, 0, "MotorMoveFailed")
        /\ FaultState
        /\ UNCHANGED <<goal, pc>>
     \/ ~ CalibrateAllowed /\ Ignored
  /\ UNCHANGED <<returnStep, boot>>

(* Home found: outside CALIBRATING_HOME the motor stops and nothing else   *)
(* changes.                                                                *)
HandleHomingReached ==
  /\ Receives("HOMING_REACHED")
  /\ \/ /\ state = "CALIBRATING_HOME"
        /\ returnStep' = Clamp(IntMax - motor.step + OffsetOfMinStep)
        /\ motor' = Rehomed(Halted(motor), OffsetOfMinStep)
        /\ box' = Taken
        /\ pc' = "homed"
        /\ UNCHANGED <<state, goal>>
     \/ /\ state # "CALIBRATING_HOME"
        /\ motor' = Halted(motor)
        /\ box' = Taken
        /\ UNCHANGED <<state, goal, returnStep, pc>>
     \/ StopFailed /\ UNCHANGED returnStep
  /\ UNCHANGED boot

(* The rest of the handler after its delay: towards the top. *)
MoveToTop ==
  /\ pc = "homed"
  /\ pc' = "receive"
  /\ \/ /\ MoveSucceeds(box, motor, motor.max)
        /\ goal' = Returning(motor.max, "CALIBRATING_MAX")
        /\ state' = "CALIBRATING_MAX"
     \/ /\ MoveFails(box, motor, motor.max, "MotorMoveFailed")
        /\ FaultState
        /\ UNCHANGED goal
  /\ UNCHANGED <<returnStep, boot>>

-----------------------------------------------------------------------------
(* A stall high enough while looking for the top is the top. *)
AtTop == state = "CALIBRATING_MAX" /\ motor.step > StallThreshold

FinishCalibration(rest) ==
  LET m == Topped(Rested(motor, rest), rest)
      t == IF returnStep > m.max THEN m.max ELSE returnStep IN
  \/ /\ MoveSucceeds(Taken, m, t)
     /\ goal' = Toward(t)
     /\ state' = Direction(t, rest)
  \/ /\ MoveFails(Taken, m, t, "MotorMoveFailed")
     /\ FaultState
     /\ UNCHANGED goal

StallRefused(t, rest, why) ==
  /\ motor' = Rested(motor, rest)
  /\ box' = Blamed(Taken, why)
  /\ FaultState
  /\ goal' = [goal EXCEPT !.target = t, !.has = TRUE]

Exhausted == goal.tries >= MaxRecoveries

(* handleNormalStall() once stop() has succeeded at rest. *)
BackAway(rest) ==
  LET up   == state \in {"MOVING_UP", "CALIBRATING_MAX"}
      t    == IF goal.has THEN goal.target ELSE IF up THEN motor.max ELSE 0
      back == BackoffTarget(up, motor.step)
      away == [goal EXCEPT !.target = t, !.has = TRUE, !.return = state] IN
  \/ /\ t \notin 0..motor.max
     /\ StallRefused(t, rest, "InvalidStallRecoveryTarget")
  \/ /\ t \in 0..motor.max
     /\ Exhausted
     /\ StallRefused(t, rest, "StallRecoveryExhausted")
  \/ /\ t \in 0..motor.max
     /\ ~ Exhausted
     /\ back = motor.step
     /\ StallRefused(t, rest, "StallRecoveryBackoffInvalid")
  \/ /\ t \in 0..motor.max
     /\ ~ Exhausted
     /\ back # motor.step
     /\ \/ /\ MoveSucceeds(Taken, Rested(motor, rest), back)
           /\ goal' = [away EXCEPT !.tries = @ + 1]
           /\ state' = "STALL_RECOVERY"
        \/ /\ MoveFails(Taken, Rested(motor, rest), back, "MotorMoveFailed")
           /\ goal' = away
           /\ FaultState

HandleStallDetected ==
  /\ Receives("STALL_DETECTED")
  /\ \/ /\ AtTop
        /\ \E rest \in RestSteps(motor) : FinishCalibration(rest)
     \/ /\ ~ AtTop
        /\ state \in Moving \cup Calibrating
        /\ \E rest \in RestSteps(motor) : BackAway(rest)
     \/ state \in Moving \cup Calibrating /\ StopFailed
     \/ state \notin Moving \cup Calibrating /\ Ignored
  /\ UNCHANGED <<returnStep, pc, boot>>

(* The startup check moves away from the sensor whatever the state is. *)
HandleHomingCheck ==
  /\ Receives("HOMING_CHECK")
  /\ LET m == Rehomed(motor, 0) IN
       \/ MoveSucceeds(Taken, m, m.max) /\ UNCHANGED state
       \/ MoveFails(Taken, m, m.max, "MotorMoveFailed") /\ FaultState
  /\ pc' = "checking"
  /\ UNCHANGED <<goal, returnStep, boot>>

EndHomingCheck ==
  /\ pc = "checking"
  /\ pc' = "receive"
  /\ \E ok \in Outcomes("stop") :
       /\ motor' \in Stops(ok, motor)
       /\ \/ ok /\ UNCHANGED <<state, box>>
          \/ ~ ok /\ FaultState /\ box' = Blamed(box, "MotorStopFailed")
  /\ UNCHANGED <<goal, returnStep, boot>>

(* An explicit fault event changes the state only. *)
HandleFault ==
  /\ Receives("FAULT")
  /\ FaultState
  /\ box' = Blamed(Taken, "ExplicitFaultEvent")
  /\ UNCHANGED <<goal, returnStep, pc, motor, boot>>

Controller ==
  \/ HandleStop \/ HandleUp \/ HandleDown \/ HandleMoveToPercent
  \/ HandleLimitReached \/ RetryTarget \/ HandleCalibrate
  \/ HandleHomingReached \/ MoveToTop \/ HandleStallDetected
  \/ HandleHomingCheck \/ EndHomingCheck \/ HandleFault

-----------------------------------------------------------------------------
(* The motor's own steps. *)

StepMotor ==
  /\ Running(motor)
  /\ motor.step # motor.target
  /\ motor' = [motor EXCEPT !.step = @ + (IF motor.motion = "UP" THEN 1 ELSE -1)]
  /\ UNCHANGED <<state, goal, returnStep, pc, box, boot>>

(* The refill task finds all pulses done.  If the hardware does not stop   *)
(* or the queue refuses LIMIT_REACHED it reports a fault instead.          *)
CompleteMovement ==
  /\ Running(motor)
  /\ motor.step = motor.target
  /\ \E ok \in Outcomes("stop") :
       \/ /\ ok /\ HasRoom(box)
          /\ motor' = Halted(motor)
          /\ box' \in LimitSent(box)
       \/ /\ ~ (ok /\ HasRoom(box))
          /\ motor' \in IF ok THEN {Halted(motor)} ELSE Mislaid(motor)
          /\ \E tried \in IF ok THEN LimitSent(box) ELSE {box} :
               box' \in Sent(Recorded(tried, "MotorController", "MovementCompletionFailed"),
                             Cmd("FAULT"))
  /\ UNCHANGED <<state, goal, returnStep, pc, boot>>

RefillFails ==
  /\ "refill" \in HwFailures
  /\ Running(motor)
  /\ motor.step # motor.target
  /\ \E ok \in Outcomes("stop") : motor' \in Stops(ok, motor)
  /\ box' \in Sent(Recorded(box, "MotorController", "RmtRefillFailed"), Cmd("FAULT"))
  /\ UNCHANGED <<state, goal, returnStep, pc, boot>>

(* The last pulses of a movement that could not be switched off. *)
StrayEnds ==
  /\ motor.stray
  /\ motor' = [motor EXCEPT !.stray = FALSE]
  /\ UNCHANGED <<state, goal, returnStep, pc, box, boot>>

-----------------------------------------------------------------------------
(* Who else sends commands. *)

Queues(c) == box' \in Sent(box, c) /\ UNCHANGED <<state, goal, returnStep, pc, motor>>

Arrives(events) ==
  /\ \E c \in Arriving : c.event \in events /\ Queues(c)
  /\ UNCHANGED boot

Button    == Arrives({"UP", "DOWN"})
Mqtt      == Arrives({"STOP", "MOVE_TO_PERCENT"})
SensorIsr == Arrives({"HOMING_REACHED"})
DiagIsr   == Arrives({"STALL_DETECTED"})

-----------------------------------------------------------------------------
(* app_main from sensorCheck() on. *)

(* The check has passed and the sensor's ISR is added; without it, restart. *)
CheckPassed ==
  /\ \E ok \in Outcomes("isr") : boot' = IF ok THEN "passed" ELSE "restarting"
  /\ UNCHANGED <<state, goal, returnStep, pc, motor, box>>

SensorIdle == boot = "start" /\ CheckPassed

SensorActive ==
  /\ boot = "start"
  /\ boot' = IF HasRoom(box) THEN "checking" ELSE "restarting"
  /\ Queues(Cmd("HOMING_CHECK"))

RecheckPassed == boot = "checking" /\ CheckPassed

(* The sensor is still active: a fault, an event, and then a restart. *)
SensorStuck ==
  /\ boot = "checking"
  /\ boot' = "restarting"
  /\ box' \in Sent(Recorded(box, "HomeSensor", "StuckHomeSensor"), Cmd("FAULT"))
  /\ UNCHANGED <<state, goal, returnStep, pc, motor>>

StartCalibration ==
  /\ boot = "passed"
  /\ boot' = IF HasRoom(box) THEN "running" ELSE "restarting"
  /\ Queues(Cmd("CALIBRATE"))

(* esp_restart(): memory is lost, the fault record with it. *)
Restart ==
  /\ boot = "restarting"
  /\ boot' = "start"
  /\ state' = "IDLE"
  /\ goal' = NoGoal
  /\ returnStep' = 0
  /\ pc' = "receive"
  /\ motor' = InitialMotor
  /\ box' = InitialBox

Main == SensorIdle \/ SensorActive \/ RecheckPassed \/ SensorStuck \/ StartCalibration \/ Restart

Next ==
  \/ Controller
  \/ StepMotor \/ CompleteMovement \/ RefillFails \/ StrayEnds
  \/ Button \/ Mqtt \/ SensorIsr \/ DiagIsr
  \/ Main

Spec == Init /\ [][Next]_vars

(* The Blinds task and the refill task run whenever they are ready (tasks  *)
(* of priority 4 and 5 that only block on their queue, a delay or a        *)
(* notification), app_main goes on after its delays, and pulses run until  *)
(* they are stopped.                                                       *)
Fairness ==
  /\ WF_vars(Controller)
  /\ WF_vars(StepMotor)
  /\ WF_vars(CompleteMovement)
  /\ WF_vars(Main)

FairSpec == Spec /\ Fairness

-----------------------------------------------------------------------------
MotorState == [motion : {"STOPPED", "UP", "DOWN"},
               step : Int, start : Int, target : Int, max : Int, stray : BOOLEAN]

Goal == [target : Int, has : BOOLEAN, return : BlindsState, tries : Nat]

TypeOK ==
  /\ state \in BlindsState
  /\ goal \in Goal
  /\ returnStep \in 0..IntMax
  /\ pc \in {"receive", "retry", "homed", "checking"}
  /\ motor \in MotorState
  /\ box \in [queue : Seq(BlindsCommand), dropped : 0..DropThreshold, lost : BOOLEAN,
              fault : FaultRecord]
  /\ boot \in {"start", "checking", "passed", "running", "restarting"}
  /\ Len(box.queue) <= Depth

(* The travel range is never empty, and pulses are only ever put out       *)
(* towards a position inside it, whatever calibration, stall recovery,     *)
(* percentages and failed moves made of them before.  The startup check    *)
(* moves the origin under a running movement: until its pause is over it   *)
(* may run on outside, if the check could not start its own.               *)
RangeOK ==
  /\ motor.max >= 1
  /\ Running(motor) =>
       motor.target \in 0..motor.max \/ (pc = "checking" /\ state = "FAULT")

Queued(e) == \E i \in 1..Len(box.queue) : box.queue[i].event = e

(* An idle controller has no motor running behind its back: no toggle,     *)
(* stale event, failed move or startup check leaves a movement in IDLE     *)
(* once its handler has returned.  If the last pulses of a failed one      *)
(* still come out, a fault is on record or on its way.                     *)
IdleMeansStopped ==
  state = "IDLE" /\ pc = "receive" =>
    /\ ~ Running(motor)
    /\ motor.stray => HasFault(box.fault) \/ Queued("FAULT")

(* The controller never sits in FAULT without a fault to publish. *)
FaultRecorded == state = "FAULT" => HasFault(box.fault)

(* What a stall recovery will need after its backoff and its delay is      *)
(* there however many events were handled since the stall: a target inside *)
(* the range, the movement to go back to, and a retry count in its limit.  *)
RecoveryHasTarget ==
  state = "STALL_RECOVERY" \/ pc = "retry" =>
    /\ state = "STALL_RECOVERY"
    /\ goal.has
    /\ goal.target \in 0..motor.max
    /\ goal.return \in Moving \cup Calibrating
    /\ goal.tries \in 1..MaxRecoveries

Restarting == boot = "restarting" /\ boot' = "start"

(* FAULT is left by a restart only, and while in it the pulses may go on   *)
(* or stop but no handler turns them on, the startup check excepted.       *)
FaultLatched ==
  [][state = "FAULT" /\ ~ Restarting =>
       /\ state' = "FAULT"
       /\ pc' = "receive" => motor'.motion \in {motor.motion, "STOPPED"}]_vars

(* After a stall between the ends of the range the motor backs off in the  *)
(* direction it came from, by no more than BackoffSteps.                   *)
BackoffTurnsBack ==
  [][state # "STALL_RECOVERY" /\ state' = "STALL_RECOVERY" /\ motor.step \in 1..(motor.max - 1) =>
       IF state \in {"MOVING_UP", "CALIBRATING_MAX"}
       THEN motor'.target \in (motor.step - BackoffSteps)..(motor.step - 1)
       ELSE motor'.target \in (motor.step + 1)..(motor.step + BackoffSteps)]_vars

(* The retry after a backoff goes to the target of the stalled movement    *)
(* and does not forget how often it was tried: otherwise a blocked blind   *)
(* would be pushed forever.                                                *)
RetryKeepsGoal ==
  [][pc = "retry" /\ pc' = "receive" /\ ~ Restarting =>
       /\ goal' = goal
       /\ state' # "FAULT" => motor'.target = goal.target]_vars

(* A percentage of a known range starts a movement to within half a        *)
(* percent of the range.  On hardware that does not fail it is refused     *)
(* only where the blind is there already, and the full queue that refused  *)
(* it is on record.                                                        *)
PercentLands ==
  [][HandleMoveToPercent /\ PercentKnown /\ state \notin Calibrating \cup {"FAULT"} =>
       LET lands(step) == 100 * step - motor.max * Head(box.queue).percent \in -50..50 IN
       \/ state' \in Moving /\ lands(motor'.target)
       \/ /\ state' \notin Moving
          /\ HwFailures = {} => lands(motor.step) /\ HasFault(box'.fault)]_vars

(* Once DropThreshold commands were dropped the controller goes to FAULT,  *)
(* although each recovery event can be discarded for the next one, unless  *)
(* one of them is lost itself.                                             *)
EscalationLands ==
  box.dropped = DropThreshold /\ ~ box.lost ~> state = "FAULT" \/ box.dropped = 0 \/ box.lost

(* The event that would have ended a movement was discarded and the        *)
(* recovery event in its place lost.                                       *)
Stranded == box.lost /\ ~ Running(motor) /\ ~ Queued("LIMIT_REACHED")

(* A movement comes to an end: LIMIT_REACHED, the recovery event of the    *)
(* overflow that lost it, or another event takes the controller out of it. *)
(* Only an unexpected HOMING_REACHED ends it without (the handler leaves   *)
(* the state), and a recovery event that is lost itself.                   *)
MovementEnds ==
  state \in Moving /\ (Running(motor) \/ Queued("LIMIT_REACHED"))
    ~> state \notin Moving \/ Receives("HOMING_REACHED") \/ Stranded

(* A backoff, and the pause before its retry, come to an end too. *)
RecoveryEnds ==
  state = "STALL_RECOVERY" /\ (Running(motor) \/ Queued("LIMIT_REACHED") \/ pc = "retry")
    ~> state # "STALL_RECOVERY" \/ Receives("HOMING_REACHED") \/ Stranded

-----------------------------------------------------------------------------
(* What the documentation says and the code does not do. *)


(* BlindsController/README.md: the controller "backs away from the         *)
(* detected stall position", that is, against the stalled movement.        *)
BackoffMovesAway ==
  [][state # "STALL_RECOVERY" /\ state' = "STALL_RECOVERY" =>
       IF motor.motion = "UP" THEN motor'.target <= motor.step
                              ELSE motor'.target >= motor.step]_vars

=============================================================================
