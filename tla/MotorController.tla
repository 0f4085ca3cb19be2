--------------------------- MODULE MotorController ---------------------------
(***************************************************************************)
(* The motor's pulse machinery (MotorController): the Blinds task that     *)
(* stops and starts movements, the refill task of higher priority on the   *)
(* other core, and the RMT peripheral whose done interrupt wakes it.       *)
(*                                                                         *)
(* Both tasks run the same procedures (disabling the output, filling the   *)
(* RMT queue, completing or failing a movement), cut at every critical     *)
(* section of motorStepMux_, every section under rmtMutex_ and every call  *)
(* of the counter.  task[t] is where task t is, with its locals.           *)
(*                                                                         *)
(* A buffer's symbols (the ramp) are left out.  The two counts of finished *)
(* transactions only matter by their difference.  A channel that cannot be *)
(* recreated is left out; homing and range are BlindsController's.         *)
(***************************************************************************)
EXTENDS Integers, Sequences, FiniteSets

CONSTANTS
  Buffers,          \* rmtBufferCount_
  Symbols,          \* rmtSymbolsPerBuffer_
  MaxStep,          \* maxStep_
  MaxMoves,         \* bound on the movements started
  Failures          \* driver calls that may fail: "disable", "transmit", "send",
                    \* "count" (reading or stopping the counter, the step pin)
                    \* or "start" (direction pin, counter, channel)

ASSUME MotorAssumption ==
  /\ {Buffers, Symbols, MaxStep, MaxMoves} \subseteq Nat \ {0}
  /\ Failures \subseteq {"disable", "transmit", "send", "count", "start"}

VARIABLES
  motor,    \* the fields guarded by motorStepMux_
  ring,     \* rmtQueue_: the buffers and their bookkeeping
  rmt,      \* the RMT channel: enabled, and the transactions it holds
  pcnt,     \* the pulse counter
  shaft,    \* the direction pin, and where the shaft really is
  notified, \* the refill task's notification
  task,     \* where each task is
  moves,    \* movements started
  report,   \* the events sent since the last move(), and "OVERFLOW" when the
            \* full queue refused a FAULT and only its own fault record is left
  trouble   \* history, read by the properties alone: "overlap" once move() was
            \* called over a movement or an acting refill task, "disable" or
            \* "count" once rmt_disable() or a call of the counter has failed

vars == <<motor, ring, rmt, pcnt, shaft, notified, task, moves, report, trouble>>

Tasks == {"blinds", "refill"}

BufferIndex == 0..(Buffers - 1)

-----------------------------------------------------------------------------
(* Mutated forms of the operators below. *)

ReleasedOne(r) ==
  IF r.active = 0 \/ r.fresh = 0 THEN [r EXCEPT !.fresh = 0]
  ELSE [r EXCEPT !.used = @ \ {r.take}, !.take = (@ + 1) % Buffers,
                 !.active = @ - 1, !.fresh = 0]

ReservedUnwrapped(r) ==
  [r EXCEPT !.used = @ \cup {r.put}, !.put = @ + 1, !.active = @ + 1]

ReservedUncounted(r) == [r EXCEPT !.used = @ \cup {r.put}, !.put = (@ + 1) % Buffers]

FullBuffer(left) == Symbols

DisabledOnly(recreate) == [rmt EXCEPT !.enabled = FALSE]

CountsUp(from, st, count) == from + count

CompletesEarly ==
  /\ motor.state # "STOPPED"
  /\ motor.reserved >= motor.pulses
  /\ ~ motor.limit
  /\ ~ motor.abort

-----------------------------------------------------------------------------
EmptyRing == [used |-> {}, put |-> 0, take |-> 0, active |-> 0, fresh |-> 0]

(* releaseCompletedTransactions(): buffers are released in queueing order, *)
(* as many as transactions have finished.                                  *)
Released(r) ==
  LET n == IF r.fresh < r.active THEN r.fresh ELSE r.active IN
  [ used   |-> r.used \ {(r.take + i) % Buffers : i \in 0..(n - 1)},
    put    |-> r.put,
    take   |-> (r.take + n) % Buffers,
    active |-> r.active - n,
    fresh  |-> 0 ]

(* The next buffer reserved for a transaction. *)
Reserved(r) ==
  [r EXCEPT !.used = @ \cup {r.put}, !.put = (@ + 1) % Buffers, !.active = @ + 1]

(* Where the counter puts a movement that began at a step. *)
PositionFromCount(from, st, count) == IF st = "UP" THEN from + count ELSE from - count

CurrentStep ==
  IF pcnt.running /\ motor.state # "STOPPED"
  THEN PositionFromCount(motor.from, motor.state, pcnt.count)
  ELSE motor.step

Distance(a, b) == IF a >= b THEN a - b ELSE b - a

-----------------------------------------------------------------------------
(* A task outside the procedures: at is where it will go on, then where    *)
(* stopPulseHardware() returns to, ok its firstErr; recreate, buffer,      *)
(* count, state, from and step are read in one section and used in a later *)
(* one; dir and distance belong to startMovement().  still is set when the last *)
(* call of the Blinds task was a stop() that returned ESP_OK.              *)
IdleTask == [at |-> "home", then |-> "home", ok |-> TRUE, recreate |-> FALSE,
             buffer |-> 0, count |-> 0, state |-> "STOPPED", from |-> 0, step |-> 0,
             dir |-> "UP", distance |-> 0, still |-> FALSE]

Init ==
  /\ motor = [state |-> "STOPPED", step |-> 0, from |-> 0, target |-> 0, pulses |-> 0,
              reserved |-> 0, limit |-> FALSE, abort |-> FALSE]
  /\ ring = EmptyRing
  /\ rmt = [enabled |-> FALSE, queue |-> << >>]
  /\ pcnt = [running |-> FALSE, count |-> 0]
  /\ shaft = [up |-> FALSE, at |-> 0]
  /\ notified = FALSE
  /\ task = [t \in Tasks |-> IdleTask]
  /\ moves = 0
  /\ report = {}
  /\ trouble = {}

At(t, label) == task[t].at = label

Goto(t, label) == task' = [task EXCEPT ![t].at = label]

(* Call stopPulseHardware(), to go on at a label. *)
StopsPulses(t, label) ==
  task' = [task EXCEPT ![t].at = "readActive", ![t].then = label, ![t].ok = TRUE]

(* failMovementFromTask() *)
Fails(t) == StopsPulses(t, "failed")

(* A call of the Blinds task is over, or the refill task waits again.      *)
Home(t) == task' = [task EXCEPT ![t] = IdleTask]

-----------------------------------------------------------------------------
(* disableRmtOutput() and the rest of stopPulseHardware().                 *)

(* A call failed: stopPulseHardware() keeps the error and goes on,         *)
(* startMovement() returns it.                                             *)
CallFails(t, label) ==
  IF task[t].then = "aim" THEN Home(t)
  ELSE task' = [task EXCEPT ![t].at = label, ![t].ok = FALSE]

(* Whether the channel holds descriptors is decided before the mutex is    *)
(* taken.                                                                  *)
ReadActive(t) ==
  /\ At(t, "readActive")
  /\ task' = [task EXCEPT ![t].at = "disable", ![t].recreate = ring.active > 0]
  /\ UNCHANGED <<motor, ring, rmt, pcnt, shaft, notified, moves, report, trouble>>

(* rmt_disable() ends the transaction under way; only a new channel drops  *)
(* the queued ones.                                                        *)
Disabled(recreate) ==
  [enabled |-> FALSE,
   queue   |-> IF recreate \/ rmt.queue = << >> THEN << >> ELSE Tail(rmt.queue)]

DisableOutput(t) ==
  /\ At(t, "disable")
  /\ \/ /\ rmt' = IF rmt.enabled THEN Disabled(task[t].recreate) ELSE rmt
        /\ Goto(t, "reset")
        /\ UNCHANGED trouble
     \/ /\ "disable" \in Failures
        /\ rmt.enabled
        /\ CallFails(t, "refresh")
        /\ trouble' = trouble \cup {"disable"}
        /\ UNCHANGED rmt
  /\ UNCHANGED <<motor, ring, pcnt, shaft, notified, moves, report>>

ResetBuffers(t) ==
  /\ At(t, "reset")
  /\ ring' = EmptyRing
  /\ Goto(t, "refresh")
  /\ UNCHANGED <<motor, rmt, pcnt, shaft, notified, moves, report, trouble>>

(* refreshPositionFromPcnt() reads the movement, then the counter. *)
RefreshRead(t) ==
  /\ At(t, "refresh")
  /\ IF pcnt.running /\ motor.state # "STOPPED"
     THEN task' = [task EXCEPT ![t].at = "count",
                               ![t].state = motor.state, ![t].from = motor.from]
     ELSE Goto(t, "stopCounter")
  /\ UNCHANGED <<motor, ring, rmt, pcnt, shaft, notified, moves, report, trouble>>

ReadCount(t) ==
  /\ At(t, "count")
  /\ \/ /\ task' = [task EXCEPT
                      ![t].at = "position",
                      ![t].step = PositionFromCount(task[t].from, task[t].state, pcnt.count)]
        /\ UNCHANGED trouble
     \/ /\ "count" \in Failures
        /\ CallFails(t, "stopCounter")
        /\ trouble' = trouble \cup {"count"}
  /\ UNCHANGED <<motor, ring, rmt, pcnt, shaft, notified, moves, report>>

RefreshPosition(t) ==
  /\ At(t, "position")
  /\ motor' = [motor EXCEPT !.step = task[t].step]
  /\ Goto(t, "stopCounter")
  /\ UNCHANGED <<ring, rmt, pcnt, shaft, notified, moves, report, trouble>>

StopCounter(t) ==
  /\ At(t, "stopCounter")
  /\ \/ /\ pcnt' = [pcnt EXCEPT !.running = FALSE]
        /\ Goto(t, task[t].then)
        /\ UNCHANGED trouble
     \/ /\ "count" \in Failures
        /\ pcnt' \in {pcnt, [pcnt EXCEPT !.running = FALSE]}
        /\ CallFails(t, task[t].then)
        /\ trouble' = trouble \cup {"count"}
  /\ UNCHANGED <<motor, ring, rmt, shaft, notified, moves, report>>

-----------------------------------------------------------------------------
(* fillRmtQueue() *)

(* How many of the pulses left go into one buffer. *)
BufferPulses(left) == IF left < Symbols THEN left ELSE Symbols

NothingToReserve ==
  \/ motor.state = "STOPPED"
  \/ motor.abort
  \/ ring.active >= Buffers
  \/ motor.reserved >= motor.pulses

ReserveBuffer(t) ==
  /\ At(t, "reserve")
  /\ \/ NothingToReserve /\ Goto(t, "filled") /\ UNCHANGED <<motor, ring>>
     \/ ~ NothingToReserve /\ ring.put \in ring.used /\ Fails(t) /\ UNCHANGED <<motor, ring>>
     \/ /\ ~ NothingToReserve
        /\ ring.put \notin ring.used
        /\ LET n == BufferPulses(motor.pulses - motor.reserved) IN
             /\ motor' = [motor EXCEPT !.reserved = @ + n]
             /\ ring' = Reserved(ring)
             /\ task' = [task EXCEPT ![t].at = "transmit", ![t].buffer = ring.put, ![t].count = n]
  /\ UNCHANGED <<rmt, pcnt, shaft, notified, moves, report, trouble>>

CanTransmit == motor.state # "STOPPED" /\ ~ motor.abort /\ rmt.enabled

(* The section under the mutex. *)
Transmit(t) ==
  /\ At(t, "transmit")
  /\ \/ ~ CanTransmit /\ Goto(t, "filled") /\ UNCHANGED rmt
     \/ /\ CanTransmit
        /\ Len(rmt.queue) < Buffers
        /\ rmt' = [rmt EXCEPT !.queue =
                     Append(@, [buffer |-> task[t].buffer, left |-> task[t].count])]
        /\ Goto(t, "reserve")
     \/ /\ CanTransmit
        /\ Len(rmt.queue) >= Buffers \/ "transmit" \in Failures
        /\ Goto(t, "refused")
        /\ UNCHANGED rmt
  /\ UNCHANGED <<motor, ring, pcnt, shaft, notified, moves, report, trouble>>

TransmitRefused(t) ==
  /\ At(t, "refused")
  /\ IF motor.abort THEN Goto(t, "filled") ELSE Fails(t)
  /\ UNCHANGED <<motor, ring, rmt, pcnt, shaft, notified, moves, report, trouble>>

-----------------------------------------------------------------------------
(* completeMovementFromTask() and failMovementFromTask() *)

BeginCompletion(t) ==
  /\ At(t, "complete")
  /\ IF motor.state # "STOPPED" /\ ~ motor.limit /\ ~ motor.abort
     THEN motor' = [motor EXCEPT !.limit = TRUE] /\ StopsPulses(t, "completed")
     ELSE UNCHANGED motor /\ Home(t)
  /\ UNCHANGED <<ring, rmt, pcnt, shaft, notified, moves, report, trouble>>

(* An error ends the Blinds task's call; the refill task fails the         *)
(* movement.                                                               *)
CompletionFails(t) == IF t = "refill" THEN Fails(t) ELSE Home(t)

EndCompletion(t) ==
  /\ At(t, "completed")
  /\ motor' = [motor EXCEPT !.state = "STOPPED", !.pulses = 0, !.reserved = 0]
  /\ IF task[t].ok THEN Goto(t, "limit") ELSE CompletionFails(t)
  /\ UNCHANGED <<ring, rmt, pcnt, shaft, notified, moves, report, trouble>>

SendLimitReached(t) ==
  /\ At(t, "limit")
  /\ \/ report' = report \cup {"LIMIT_REACHED"} /\ Home(t)
     \/ "send" \in Failures /\ CompletionFails(t) /\ UNCHANGED report
  /\ UNCHANGED <<motor, ring, rmt, pcnt, shaft, notified, moves, trouble>>

Cleared(m) == [m EXCEPT !.state = "STOPPED", !.limit = FALSE, !.abort = FALSE,
                        !.pulses = 0, !.reserved = 0]

(* The event may find the queue full as well: then all that tells of the   *)
(* failure is the fault that send() recorded before.                       *)
EndFailure(t) ==
  /\ At(t, "failed")
  /\ motor' = Cleared(motor)
  /\ \/ report' = report \cup {"FAULT"}
     \/ "send" \in Failures /\ report' = report \cup {"OVERFLOW"}
  /\ Home(t)
  /\ UNCHANGED <<ring, rmt, pcnt, shaft, notified, moves, trouble>>

-----------------------------------------------------------------------------
(* stop() and move(), called by the Blinds task. *)

Stop ==
  /\ At("blinds", "home")
  /\ motor' = [motor EXCEPT !.abort = TRUE]
  /\ StopsPulses("blinds", "stopped")
  /\ UNCHANGED <<ring, rmt, pcnt, shaft, notified, moves, report, trouble>>

Stopped ==
  /\ At("blinds", "stopped")
  /\ motor' = Cleared(motor)
  /\ task' = [task EXCEPT !["blinds"] = [IdleTask EXCEPT !.still = task["blinds"].ok]]
  /\ UNCHANGED <<ring, rmt, pcnt, shaft, notified, moves, report, trouble>>

(* move() finds no movement and the refill task nowhere inside one: it     *)
(* waits, or is where it can only find that there is nothing to refill.    *)
FromRest ==
  /\ motor.state = "STOPPED"
  /\ task["refill"].at \in {"home", "release", "reserve", "filled"}

(* move() and startMovement() up to disableRmtOutput(). *)
Move(target) ==
  /\ At("blinds", "home")
  /\ moves < MaxMoves
  /\ moves' = moves + 1
  /\ motor' = [motor EXCEPT !.target = target]
  /\ task' = [task EXCEPT !["blinds"] =
                [IdleTask EXCEPT !.at = "readActive", !.then = "aim",
                                 !.dir = IF target >= CurrentStep THEN "UP" ELSE "DOWN"]]
  /\ report' = {}
  /\ trouble' = IF FromRest THEN trouble ELSE trouble \cup {"overlap"}
  /\ UNCHANGED <<ring, rmt, pcnt, shaft, notified>>

(* The direction pin and the distance.  From here on startMovement()       *)
(* returns an error with the channel disabled.                             *)
StartFails == "start" \in Failures /\ Home("blinds")

Aim ==
  /\ At("blinds", "aim")
  /\ \/ /\ shaft' = [shaft EXCEPT !.up = (task["blinds"].dir = "UP")]
        /\ task' = [task EXCEPT !["blinds"].at = "startCounter",
                                !["blinds"].distance = Distance(motor.target, motor.step)]
     \/ StartFails /\ UNCHANGED shaft
  /\ UNCHANGED <<motor, ring, rmt, pcnt, notified, moves, report, trouble>>

StartCounter ==
  /\ At("blinds", "startCounter")
  /\ \/ pcnt' = [running |-> TRUE, count |-> 0] /\ Goto("blinds", "enable")
     \/ StartFails /\ pcnt' \in {pcnt, [running |-> FALSE, count |-> 0]}
  /\ UNCHANGED <<motor, ring, rmt, shaft, notified, moves, report, trouble>>

EnableOutput ==
  /\ At("blinds", "enable")
  /\ \/ rmt' = [rmt EXCEPT !.enabled = TRUE] /\ Goto("blinds", "launch")
     \/ StartFails /\ UNCHANGED rmt
  /\ UNCHANGED <<motor, ring, pcnt, shaft, notified, moves, report, trouble>>

Launch ==
  /\ At("blinds", "launch")
  /\ motor' = [motor EXCEPT !.state = task["blinds"].dir, !.abort = FALSE, !.from = motor.step,
                            !.pulses = task["blinds"].distance, !.reserved = 0, !.limit = FALSE]
  /\ Goto("blinds", "reserve")
  /\ UNCHANGED <<ring, rmt, pcnt, shaft, notified, moves, report, trouble>>

(* The first buffers are queued; a movement of no steps is complete. *)
Launched ==
  /\ At("blinds", "filled")
  /\ IF task["blinds"].distance = 0 THEN Goto("blinds", "complete") ELSE Home("blinds")
  /\ UNCHANGED <<motor, ring, rmt, pcnt, shaft, notified, moves, report, trouble>>

-----------------------------------------------------------------------------
(* refillTaskLoop() *)

Wake ==
  /\ At("refill", "home")
  /\ notified
  /\ notified' = FALSE
  /\ Goto("refill", "release")
  /\ UNCHANGED <<motor, ring, rmt, pcnt, shaft, moves, report, trouble>>

Release ==
  /\ At("refill", "release")
  /\ ring' = Released(ring)
  /\ Goto("refill", "reserve")
  /\ UNCHANGED <<motor, rmt, pcnt, shaft, notified, moves, report, trouble>>

ShouldComplete ==
  /\ motor.state # "STOPPED"
  /\ motor.reserved >= motor.pulses
  /\ ring.active = 0
  /\ ~ motor.limit
  /\ ~ motor.abort

Refilled ==
  /\ At("refill", "filled")
  /\ IF ShouldComplete THEN Goto("refill", "complete") ELSE Home("refill")
  /\ UNCHANGED <<motor, ring, rmt, pcnt, shaft, notified, moves, report, trouble>>

-----------------------------------------------------------------------------
(* The RMT peripheral works through its transactions, and its done         *)
(* interrupt counts them and wakes the refill task.                        *)

Pulse ==
  /\ rmt.enabled
  /\ rmt.queue # << >>
  /\ Head(rmt.queue).left > 0
  /\ rmt' = [rmt EXCEPT !.queue[1].left = @ - 1]
  /\ shaft' = [shaft EXCEPT !.at = @ + (IF shaft.up THEN 1 ELSE -1)]
  /\ pcnt' = [pcnt EXCEPT !.count = IF pcnt.running THEN @ + 1 ELSE @]
  /\ UNCHANGED <<motor, ring, notified, task, moves, report, trouble>>

TransactionDone ==
  /\ rmt.enabled
  /\ rmt.queue # << >>
  /\ Head(rmt.queue).left = 0
  /\ rmt' = [rmt EXCEPT !.queue = Tail(@)]
  /\ ring' = [ring EXCEPT !.fresh = @ + 1]
  /\ notified' = TRUE
  /\ UNCHANGED <<motor, pcnt, shaft, task, moves, report, trouble>>

-----------------------------------------------------------------------------
Procedure(t) ==
  \/ ReadActive(t) \/ DisableOutput(t) \/ ResetBuffers(t)
  \/ RefreshRead(t) \/ ReadCount(t) \/ RefreshPosition(t) \/ StopCounter(t)
  \/ ReserveBuffer(t) \/ Transmit(t) \/ TransmitRefused(t)
  \/ BeginCompletion(t) \/ EndCompletion(t) \/ SendLimitReached(t) \/ EndFailure(t)

BlindsStep ==
  Procedure("blinds") \/ Stopped \/ Aim \/ StartCounter \/ EnableOutput \/ Launch \/ Launched

RefillStep == Procedure("refill") \/ Wake \/ Release \/ Refilled

Next ==
  \/ Stop
  \/ \E target \in 0..MaxStep : Move(target)
  \/ BlindsStep
  \/ RefillStep
  \/ Pulse
  \/ TransactionDone

Spec == Init /\ [][Next]_vars

(* A call that was made runs to its end, the refill task runs when it is   *)
(* notified, and an enabled channel puts out its pulses.  When stop() and  *)
(* move() are called is up to the controller.                              *)
Fairness ==
  /\ WF_vars(BlindsStep)
  /\ WF_vars(RefillStep)
  /\ WF_vars(Pulse \/ TransactionDone)

FairSpec == Spec /\ Fairness

-----------------------------------------------------------------------------
MotorState == {"STOPPED", "UP", "DOWN"}

Labels == {"home", "readActive", "disable", "reset", "refresh", "count", "position", "stopCounter",
           "reserve", "transmit", "refused", "filled", "complete", "completed", "limit",
           "failed", "stopped", "aim", "startCounter", "enable", "launch", "release"}

TypeOK ==
  /\ motor \in [state : MotorState, step : Int, from : Int, target : 0..MaxStep,
                pulses : Nat, reserved : Nat, limit : BOOLEAN, abort : BOOLEAN]
  /\ ring \in [used : SUBSET BufferIndex, put : BufferIndex, take : BufferIndex,
               active : 0..Buffers, fresh : Nat]
  /\ rmt \in [enabled : BOOLEAN, queue : Seq([buffer : BufferIndex, left : 0..Symbols])]
  /\ pcnt \in [running : BOOLEAN, count : Nat]
  /\ shaft \in [up : BOOLEAN, at : Int]
  /\ notified \in BOOLEAN
  /\ task \in [Tasks -> [at : Labels, then : Labels, ok : BOOLEAN, recreate : BOOLEAN,
                         buffer : BufferIndex, count : 0..Symbols, state : MotorState,
                         from : Int, step : Int, dir : {"UP", "DOWN"}, distance : Nat, still : BOOLEAN]]
  /\ moves \in 0..MaxMoves
  /\ report \subseteq {"LIMIT_REACHED", "FAULT", "OVERFLOW"}
  /\ trouble \subseteq {"overlap", "disable", "count"}

(* The buffers in use are the active ones in a row from the next to        *)
(* release up to the next to queue, so that a refill never finds its       *)
(* buffer taken, whoever resets, releases and reserves in between.         *)
RingOK ==
  /\ ring.used = {(ring.take + i) % Buffers : i \in 0..(ring.active - 1)}
  /\ ring.put = (ring.take + ring.active) % Buffers

(* Reserving before transmitting keeps both tasks together from queueing   *)
(* past the target, and the pulses put out never exceed it, until a        *)
(* move() overlaps.                                                        *)
NoOverrun ==
  /\ motor.reserved <= motor.pulses
  /\ "overlap" \notin trouble /\ motor.state # "STOPPED" /\ At("blinds", "home") =>
       pcnt.count <= motor.pulses

(* Once stop() has returned ESP_OK no pulse comes out before the next      *)
(* move(), wherever the refill task was at the time, and the channel holds *)
(* no stale descriptor that the next move() would put out with its own,    *)
(* until a move() overlaps.                                                *)
StopMeansStill ==
  "overlap" \notin trouble /\ At("blinds", "home") /\ task["blinds"].still =>
    ~ rmt.enabled /\ rmt.queue = << >>

(* With both tasks done and the motor stopped, the position the controller *)
(* believes in is where the shaft is.  A move() over an acting refill task *)
(* breaks it without any call failing.                                     *)
PositionTrue ==
  motor.state = "STOPPED" /\ At("blinds", "home") /\ At("refill", "home") =>
    motor.step = shaft.at

(* Nothing but an overlapping move(), a failed rmt_disable() and a failed  *)
(* call of the counter loses the position.                                 *)
PositionKept == trouble = {} => PositionTrue

(* When the Blinds task next takes a command, LIMIT_REACHED tells it that  *)
(* the movement has arrived, unless a FAULT event or the overflow's record *)
(* comes with it.                                                          *)
LimitMeansArrived ==
  trouble = {} /\ At("blinds", "home") /\ report = {"LIMIT_REACHED"} =>
    shaft.at = motor.target

(* The symbols of a transaction stay in place until its done interrupt:    *)
(* no task reserves a buffer the channel still reads from.  This does not  *)
(* hold: transmits may be in another order than the reservations.          *)
PayloadKept ==
  [][\A b \in ring'.used \ ring.used, i \in 1..Len(rmt.queue) : rmt.queue[i].buffer # b]_vars

(* Every movement ends: arrived, stopped, or reported as failed, until a   *)
(* move() overlaps.                                                        *)
MovementEnds == motor.state # "STOPPED" ~> motor.state = "STOPPED" \/ "overlap" \in trouble

-----------------------------------------------------------------------------
(* Task t is inside stopPulseHardware(), to go on at a place.              *)
Teardown ==
  {"readActive", "disable", "reset", "refresh", "count", "position", "stopCounter"}

Ending(t, place) == task[t].at \in Teardown /\ task[t].then = place

(* Task t is failing the movement. *)
Failing(t) == Ending(t, "failed") \/ task[t].at = "failed"

Promise ==
  INSTANCE Movement WITH
    Targets <- 0..MaxStep, at <- shaft.at, goal <- motor.target,
    moving <- motor.state # "STOPPED", stopping <- motor.abort,
    failing <- Failing("blinds"), told <- report, disturbed <- trouble # {}

(* All the sections of both tasks and the peripheral together are what the *)
(* Blinds task is promised of a movement, until there is trouble.          *)
MovementSpec == Promise!Spec

=============================================================================
