--------------------------- MODULE MotorStopProofs ---------------------------
(***************************************************************************)
(* Proof that a stop() which returned ESP_OK leaves a silent channel with  *)
(* no descriptor in it, for any buffers and any travel, whatever calls of  *)
(* the driver fail, until a move() is called over a movement or while the  *)
(* refill task acts.                                                       *)
(*                                                                         *)
(* rmt_disable() alone leaves the queued descriptors; they are dropped     *)
(* only if the ring counted a buffer as active when the teardown began,    *)
(* outside rmtMutex_.  So the proof has to show that this count covers     *)
(* what the channel holds and what a task is about to transmit, and that   *)
(* nothing is transmitted after a count of zero.                           *)
(***************************************************************************)
EXTENDS MotorControllerProofs

Filling == {"reserve", "transmit", "refused", "filled"}

(* No buffer is reserved or transmitted any more, until the next launch.   *)
Dead == motor.state = "STOPPED" \/ motor.abort

Full == motor.reserved >= motor.pulses

(* No move() was called over a movement or an acting refill task. *)
NoOverlap == "overlap" \notin trouble

(* Where a teardown goes on, and where the refill task can be. *)
Places ==
  /\ \A t \in Tasks : task[t].at \in Teardown =>
       task[t].then \in {"completed", "failed", "aim", "stopped"}
  /\ ~ Ending("refill", "aim") /\ ~ Ending("refill", "stopped")
  /\ task["refill"].at \in Teardown \cup Filling
       \cup {"home", "release", "complete", "completed", "limit", "failed"}

BeforeLaunch ==
  Ending("blinds", "aim") \/ task["blinds"].at \in {"aim", "startCounter", "enable", "launch"}

(* The refill task takes no part in the start of a movement. *)
LaunchAlone ==
  BeforeLaunch =>
    /\ motor.state = "STOPPED"
    /\ task["refill"].at \in {"home", "release", "reserve", "filled"}

LaunchFresh ==
  BeforeLaunch /\ task["blinds"].at \notin {"readActive", "disable", "reset", "launch"} =>
    ~ rmt.enabled /\ ring.active = 0 /\ ring.fresh = 0

ResetOff == \A t \in Tasks : task[t].at = "reset" => ~ rmt.enabled

Stopping == Ending("blinds", "stopped") \/ task["blinds"].at = "stopped"

StopOff ==
  /\ Stopping => Dead
  /\ Stopping /\ task["blinds"].at \notin {"readActive", "disable"} /\ task["blinds"].ok =>
       ~ rmt.enabled
  /\ task["blinds"].at = "home" /\ task["blinds"].still => ~ rmt.enabled

OffEmpty == ~ rmt.enabled => rmt.queue = << >>

(* An active buffer not in the channel belongs to a task that is about to  *)
(* transmit it or to fail for it.                                          *)
Claims(t) ==
  \/ task[t].at \in {"transmit", "refused"}
  \/ task[t].at = "readActive" /\ task[t].then = "failed" /\ ~ Dead

Claim(t) == IF Claims(t) THEN 1 ELSE 0

Backed ==
  rmt.enabled =>
    Len(rmt.queue) + ring.fresh + Claim("blinds") + Claim("refill") <= ring.active

(* A completion begins with nothing left to reserve; a teardown that keeps *)
(* the channel finds it empty.                                             *)
Completing(t) ==
  task[t].at = "complete" \/ (task[t].at = "readActive" /\ task[t].then = "completed")

NothingComes == Dead \/ (Full /\ \A u \in Tasks : task[u].at # "transmit")

Ends ==
  \A t \in Tasks :
    /\ Completing(t) => Full \/ Dead
    /\ task[t].at = "limit" => motor.state = "STOPPED"
    /\ task[t].at = "disable" /\ ~ task[t].recreate /\ rmt.enabled =>
         rmt.queue = << >> /\ NothingComes

DistanceKept == task["blinds"].at \in Filling => motor.pulses \in {0, task["blinds"].distance}

StillInv ==
  /\ Places /\ LaunchAlone /\ LaunchFresh /\ ResetOff /\ StopOff /\ OffEmpty /\ Backed
  /\ Ends /\ DistanceKept

-----------------------------------------------------------------------------
LEMMA Numbers ==
  ASSUME IInv
  PROVE  /\ task \in [Tasks -> TaskRecord] /\ motor \in MotorRecord /\ ring \in RingRecord
         /\ Len(rmt.queue) \in Nat /\ ring.fresh \in Nat /\ ring.active \in Nat
         /\ motor.reserved \in Nat /\ motor.pulses \in Nat
         /\ rmt \in [enabled : BOOLEAN, queue : Seq(Descriptor)]
         /\ \A t \in Tasks : Claim(t) \in {0, 1}
         /\ Tasks = {"blinds", "refill"}
  BY MotorAssumption DEF IInv, Typed, TasksTyped, MotorRecord, RingRecord, Claim, Tasks

(* What a step of task t leaves alone. *)
Others(t) == \A u \in Tasks : u # t => task'[u] = task[u]

Locals(t) ==
  /\ task'[t].then = task[t].then /\ task'[t].ok = task[t].ok
  /\ task'[t].recreate = task[t].recreate /\ task'[t].distance = task[t].distance
  /\ task'[t].still = task[t].still

LEMMA Effects ==
  ASSUME task \in [Tasks -> TaskRecord], NEW t \in Tasks
  PROVE  /\ \A l : Goto(t, l) => task'[t].at = l /\ Locals(t) /\ Others(t)
         /\ \A l : StopsPulses(t, l) =>
              /\ task'[t].at = "readActive" /\ task'[t].then = l /\ task'[t].ok
              /\ task'[t].distance = task[t].distance /\ Others(t)
         /\ Home(t) => task'[t].at = "home" /\ ~ task'[t].still /\ Others(t)
         /\ \A l : CallFails(t, l) =>
              /\ Others(t)
              /\ \/ task'[t].at = "home" /\ ~ task'[t].still
                 \/ /\ task'[t].at = l /\ ~ task'[t].ok
                    /\ task[t].then # "aim" /\ task'[t].then = task[t].then
<1>1. task[t] \in TaskRecord
  OBVIOUS
<1>2. ASSUME NEW l, Goto(t, l) PROVE task'[t].at = l /\ Locals(t) /\ Others(t)
  BY <1>1, <1>2 DEF Goto, Locals, Others, TaskRecord
<1>3. ASSUME NEW l, StopsPulses(t, l)
      PROVE  /\ task'[t].at = "readActive" /\ task'[t].then = l /\ task'[t].ok
             /\ task'[t].distance = task[t].distance /\ Others(t)
  <2>1. task' = [task EXCEPT ![t] =
                   [task[t] EXCEPT !.at = "readActive", !.then = l, !.ok = TRUE]]
    BY <1>3 DEF StopsPulses
  <2>2. task'[t] = [task[t] EXCEPT !.at = "readActive", !.then = l, !.ok = TRUE] /\ Others(t)
    BY <2>1 DEF Others
  <2>3. QED
    BY <1>1, <2>2 DEF TaskRecord
<1>4. Home(t) => task'[t].at = "home" /\ ~ task'[t].still /\ Others(t)
  BY DEF Home, Others, IdleTask
<1>5. ASSUME NEW l, CallFails(t, l)
      PROVE  /\ Others(t)
             /\ \/ task'[t].at = "home" /\ ~ task'[t].still
                \/ /\ task'[t].at = l /\ ~ task'[t].ok
                   /\ task[t].then # "aim" /\ task'[t].then = task[t].then
  <2>1. CASE task[t].then = "aim"
    BY <1>4, <1>5, <2>1 DEF CallFails
  <2>2. CASE task[t].then # "aim"
    BY <1>1, <1>5, <2>2 DEF CallFails, Others, TaskRecord
  <2>3. QED
    BY <2>1, <2>2
<1>6. QED
  BY <1>2, <1>3, <1>4, <1>5

(* stopPulseHardware() *)
LEMMA ReadActiveStill ==
  ASSUME IInv, StillInv, NEW t \in Tasks, ReadActive(t)
  PROVE  StillInv'
<1> USE Numbers
<1>1. /\ task[t].at = "readActive" /\ task'[t].at = "disable" /\ task'[t].then = task[t].then
      /\ task'[t].ok = task[t].ok /\ task'[t].recreate = (ring.active > 0)
      /\ task'[t].distance = task[t].distance /\ task'[t].still = task[t].still
      /\ Others(t) /\ UNCHANGED <<motor, ring, rmt>>
  BY DEF ReadActive, At, Others, TaskRecord
<1>2. ASSUME ring.active = 0, rmt.enabled
      PROVE  rmt.queue = << >> /\ NothingComes
  <2>1. Len(rmt.queue) = 0 /\ ~ Claims("blinds") /\ ~ Claims("refill")
    BY <1>2 DEF StillInv, Backed, Claim
  <2>2. rmt.queue = << >>
    BY <2>1
  <2>3. \A u \in Tasks : task[u].at # "transmit"
    BY <2>1 DEF Claims
  <2>4. task[t].then \in {"completed", "failed", "aim", "stopped"}
    BY <1>1 DEF StillInv, Places, Teardown
  <2>5. CASE task[t].then = "completed"
    BY <1>1, <2>2, <2>3, <2>5 DEF StillInv, Ends, Completing, NothingComes
  <2>6. CASE task[t].then = "failed"
    BY <1>1, <2>1, <2>2, <2>6 DEF Claims, NothingComes
  <2>7. CASE task[t].then \in {"aim", "stopped"}
    <3>1. t = "blinds"
      BY <1>1, <2>7 DEF StillInv, Places, Ending, Teardown
    <3>2. Dead
      BY <1>1, <2>7, <3>1 DEF StillInv, LaunchAlone, BeforeLaunch, StopOff, Stopping, Ending,
                              Teardown, Dead
    <3>3. QED
      BY <2>2, <3>2 DEF NothingComes
  <2>8. QED
    BY <2>4, <2>5, <2>6, <2>7
<1>3. Places' /\ LaunchAlone'
  BY <1>1 DEF StillInv, Places, LaunchAlone, BeforeLaunch, Ending, Teardown, Filling,
     Locals, Others
<1>4. LaunchFresh' /\ ResetOff'
  BY <1>1 DEF StillInv, LaunchAlone, LaunchFresh, ResetOff, BeforeLaunch, Ending,
     Teardown, Locals, Others
<1>5. StopOff' /\ DistanceKept'
  BY <1>1 DEF StillInv, StopOff, Stopping, DistanceKept, Dead, Ending, Teardown,
     Filling, Locals, Others
<1>6. OffEmpty'
  BY <1>1 DEF StillInv, OffEmpty, Locals, Others
<1>7. Backed'
  BY <1>1 DEF StillInv, Places, Backed, Claim, Claims, Dead, Locals, Others
<1>8. Ends'
  <2>1. \A u \in Tasks : task[u].at # "transmit" => task'[u].at # "transmit"
    BY <1>1 DEF Others
  <2>2. NothingComes => NothingComes'
    BY <1>1, <2>1 DEF NothingComes, Dead, Full
  <2>3. QED
    BY <1>1, <1>2, <2>2 DEF StillInv, Ends, Completing, Dead, Full, Others
<1> QED
  BY <1>3, <1>4, <1>5, <1>6, <1>7, <1>8 DEF StillInv

LEMMA DisableOutputStill ==
  ASSUME IInv, StillInv, NEW t \in Tasks, DisableOutput(t)
  PROVE  StillInv'
<1> USE Numbers
<1>1. /\ task[t].at = "disable" /\ Others(t) /\ UNCHANGED <<motor, ring>>
      /\ \/ /\ rmt' = IF rmt.enabled THEN Disabled(task[t].recreate) ELSE rmt
            /\ task'[t].at = "reset" /\ Locals(t)
         \/ /\ UNCHANGED rmt
            /\ \/ task'[t].at = "home" /\ ~ task'[t].still
               \/ /\ task'[t].at = "refresh" /\ ~ task'[t].ok
                  /\ task[t].then # "aim" /\ task'[t].then = task[t].then
  BY Effects DEF DisableOutput, At
<1>2. /\ Others(t) /\ UNCHANGED <<motor, ring>>
      /\ \/ /\ ~ rmt'.enabled /\ rmt'.queue = << >>
            /\ task'[t].at = "reset" /\ Locals(t)
         \/ /\ UNCHANGED rmt
            /\ \/ task'[t].at = "home" /\ ~ task'[t].still
               \/ /\ task'[t].at = "refresh" /\ ~ task'[t].ok
                  /\ task[t].then # "aim" /\ task'[t].then = task[t].then
  BY <1>1 DEF StillInv, Ends, OffEmpty, Disabled
<1>3. task[t].at = "disable"
  BY <1>1
<1>4. Places' /\ LaunchAlone'
  BY <1>2, <1>3 DEF StillInv, Places, LaunchAlone, BeforeLaunch, Ending, Teardown,
     Filling, Locals, Others
<1>5. LaunchFresh' /\ ResetOff'
  BY <1>2, <1>3 DEF StillInv, LaunchAlone, LaunchFresh, ResetOff, BeforeLaunch, Ending,
     Teardown, Locals, Others
<1>6. StopOff' /\ DistanceKept'
  BY <1>2, <1>3 DEF StillInv, StopOff, Stopping, DistanceKept, Dead, Ending, Teardown,
     Filling, Locals, Others
<1>7. OffEmpty'
  BY <1>2, <1>3 DEF StillInv, OffEmpty, Locals, Others
<1>8. Backed'
  BY <1>2, <1>3 DEF StillInv, Places, Backed, Claim, Claims, Dead, Locals, Others
<1>9. Ends'
  BY <1>2, <1>3 DEF StillInv, Ends, Completing, NothingComes, Dead, Full, Locals, Others
<1> QED
  BY <1>4, <1>5, <1>6, <1>7, <1>8, <1>9 DEF StillInv

LEMMA ResetBuffersStill ==
  ASSUME IInv, StillInv, NEW t \in Tasks, ResetBuffers(t)
  PROVE  StillInv'
<1> USE Numbers
<1>1. /\ task[t].at = "reset" /\ task'[t].at = "refresh" /\ Locals(t)
      /\ Others(t) /\ ring'.active = 0 /\ ring'.fresh = 0 /\ UNCHANGED <<motor, rmt>>
  BY Effects DEF ResetBuffers, At, EmptyRing
<1>2. Places' /\ LaunchAlone'
  BY <1>1 DEF StillInv, Places, LaunchAlone, BeforeLaunch, Ending, Teardown, Filling,
     Locals, Others
<1>3. LaunchFresh' /\ ResetOff'
  BY <1>1 DEF StillInv, LaunchAlone, LaunchFresh, ResetOff, BeforeLaunch, Ending,
     Teardown, Locals, Others
<1>4. StopOff' /\ DistanceKept'
  BY <1>1 DEF StillInv, StopOff, Stopping, DistanceKept, Dead, Ending, Teardown,
     Filling, Locals, Others
<1>5. OffEmpty'
  BY <1>1 DEF StillInv, OffEmpty, Locals, Others
<1>6. Backed'
  BY <1>1 DEF StillInv, Places, Backed, Claim, Claims, Dead, ResetOff, Locals, Others
<1>7. Ends'
  BY <1>1 DEF StillInv, Ends, Completing, NothingComes, Dead, Full, Locals, Others
<1> QED
  BY <1>2, <1>3, <1>4, <1>5, <1>6, <1>7 DEF StillInv

LEMMA RefreshReadStill ==
  ASSUME IInv, StillInv, NEW t \in Tasks, RefreshRead(t)
  PROVE  StillInv'
<1> USE Numbers
<1>1. /\ task[t].at = "refresh" /\ task'[t].at \in {"count", "stopCounter"} /\ Locals(t)
      /\ Others(t) /\ UNCHANGED <<motor, ring, rmt>>
  BY Effects DEF RefreshRead, At, Goto, Locals, Others, TaskRecord
<1>2. Places' /\ LaunchAlone'
  BY <1>1 DEF StillInv, Places, LaunchAlone, BeforeLaunch, Ending, Teardown, Filling,
     Locals, Others
<1>3. LaunchFresh' /\ ResetOff'
  BY <1>1 DEF StillInv, LaunchAlone, LaunchFresh, ResetOff, BeforeLaunch, Ending,
     Teardown, Locals, Others
<1>4. StopOff' /\ DistanceKept'
  BY <1>1 DEF StillInv, StopOff, Stopping, DistanceKept, Dead, Ending, Teardown,
     Filling, Locals, Others
<1>5. OffEmpty'
  BY <1>1 DEF StillInv, OffEmpty, Locals, Others
<1>6. Backed'
  BY <1>1 DEF StillInv, Places, Backed, Claim, Claims, Dead, Locals, Others
<1>7. Ends'
  BY <1>1 DEF StillInv, Ends, Completing, NothingComes, Dead, Full, Locals, Others
<1> QED
  BY <1>2, <1>3, <1>4, <1>5, <1>6, <1>7 DEF StillInv

LEMMA ReadCountStill ==
  ASSUME IInv, StillInv, NEW t \in Tasks, ReadCount(t)
  PROVE  StillInv'
<1> USE Numbers
<1>1. /\ task[t].at = "count" /\ Others(t) /\ UNCHANGED <<motor, ring, rmt>>
      /\ \/ task'[t].at = "position" /\ Locals(t)
         \/ task'[t].at = "home" /\ ~ task'[t].still
         \/ /\ task'[t].at = "stopCounter" /\ ~ task'[t].ok
            /\ task[t].then # "aim" /\ task'[t].then = task[t].then
  <2>1. CASE CallFails(t, "stopCounter")
    BY <2>1, Effects DEF ReadCount, At
  <2>2. CASE ~ CallFails(t, "stopCounter")
    BY <2>2 DEF ReadCount, At, Locals, Others, TaskRecord
  <2>3. QED
    BY <2>1, <2>2
<1>2. Places' /\ LaunchAlone'
  BY <1>1 DEF StillInv, Places, LaunchAlone, BeforeLaunch, Ending, Teardown, Filling,
     Locals, Others
<1>3. LaunchFresh' /\ ResetOff'
  BY <1>1 DEF StillInv, LaunchAlone, LaunchFresh, ResetOff, BeforeLaunch, Ending,
     Teardown, Locals, Others
<1>4. StopOff' /\ DistanceKept'
  BY <1>1 DEF StillInv, StopOff, Stopping, DistanceKept, Dead, Ending, Teardown,
     Filling, Locals, Others
<1>5. OffEmpty'
  BY <1>1 DEF StillInv, OffEmpty, Locals, Others
<1>6. Backed'
  BY <1>1 DEF StillInv, Places, Backed, Claim, Claims, Dead, Locals, Others
<1>7. Ends'
  BY <1>1 DEF StillInv, Ends, Completing, NothingComes, Dead, Full, Locals, Others
<1> QED
  BY <1>2, <1>3, <1>4, <1>5, <1>6, <1>7 DEF StillInv

LEMMA RefreshPositionStill ==
  ASSUME IInv, StillInv, NEW t \in Tasks, RefreshPosition(t)
  PROVE  StillInv'
<1> USE Numbers
<1>1. /\ task[t].at = "position" /\ task'[t].at = "stopCounter" /\ Locals(t)
      /\ Others(t) /\ UNCHANGED <<ring, rmt>>
      /\ motor'.state = motor.state /\ motor'.abort = motor.abort
      /\ motor'.reserved = motor.reserved /\ motor'.pulses = motor.pulses
  BY Effects DEF RefreshPosition, At, MotorRecord
<1>2. Places' /\ LaunchAlone'
  BY <1>1 DEF StillInv, Places, LaunchAlone, BeforeLaunch, Ending, Teardown, Filling,
     Locals, Others
<1>3. LaunchFresh' /\ ResetOff'
  BY <1>1 DEF StillInv, LaunchAlone, LaunchFresh, ResetOff, BeforeLaunch, Ending,
     Teardown, Locals, Others
<1>4. StopOff' /\ DistanceKept'
  BY <1>1 DEF StillInv, StopOff, Stopping, DistanceKept, Dead, Ending, Teardown,
     Filling, Locals, Others
<1>5. OffEmpty'
  BY <1>1 DEF StillInv, OffEmpty, Locals, Others
<1>6. Backed'
  BY <1>1 DEF StillInv, Places, Backed, Claim, Claims, Dead, Locals, Others
<1>7. Ends'
  BY <1>1 DEF StillInv, Ends, Completing, NothingComes, Dead, Full, Locals, Others
<1> QED
  BY <1>2, <1>3, <1>4, <1>5, <1>6, <1>7 DEF StillInv

LEMMA StopCounterStill ==
  ASSUME IInv, StillInv, NEW t \in Tasks, StopCounter(t)
  PROVE  StillInv'
<1> USE Numbers
<1>1. /\ task[t].at = "stopCounter" /\ Others(t) /\ UNCHANGED <<motor, ring, rmt>>
      /\ \/ task'[t].at = task[t].then /\ Locals(t)
         \/ task'[t].at = "home" /\ ~ task'[t].still
         \/ /\ task'[t].at = task[t].then /\ ~ task'[t].ok
            /\ task[t].then # "aim" /\ task'[t].then = task[t].then
  BY Effects DEF StopCounter, At
<1>2. /\ task[t].then \in {"completed", "failed", "aim", "stopped"}
      /\ t = "refill" => task[t].then \in {"completed", "failed"}
  BY <1>1 DEF StillInv, Places, Ending, Teardown
<1>3. Places' /\ LaunchAlone'
  BY <1>1, <1>2 DEF StillInv, Places, LaunchAlone, BeforeLaunch, Ending, Teardown,
     Filling, Locals, Others
<1>4. LaunchFresh' /\ ResetOff'
  BY <1>1, <1>2 DEF StillInv, LaunchAlone, LaunchFresh, ResetOff, BeforeLaunch, Ending,
     Teardown, Locals, Others
<1>5. StopOff' /\ DistanceKept'
  BY <1>1, <1>2 DEF StillInv, StopOff, Stopping, DistanceKept, Dead, Ending, Teardown,
     Filling, Locals, Others
<1>6. OffEmpty'
  BY <1>1, <1>2 DEF StillInv, OffEmpty, Locals, Others
<1>7. Backed'
  BY <1>1, <1>2 DEF StillInv, Places, Backed, Claim, Claims, Dead, Locals, Others
<1>8. Ends'
  BY <1>1, <1>2 DEF StillInv, Ends, Completing, NothingComes, Dead, Full, Locals, Others
<1> QED
  BY <1>3, <1>4, <1>5, <1>6, <1>7, <1>8 DEF StillInv

(* fillRmtQueue() *)
LEMMA ReserveBufferStill ==
  ASSUME IInv, StillInv, NEW t \in Tasks, ReserveBuffer(t)
  PROVE  StillInv'
<1> USE Numbers
<1>1. /\ task[t].at = "reserve" /\ Others(t) /\ UNCHANGED rmt
      /\ motor'.state = motor.state /\ motor'.abort = motor.abort /\ motor'.pulses = motor.pulses
      /\ \/ /\ task'[t].at = "filled" /\ Locals(t) /\ motor' = motor /\ ring' = ring
         \/ /\ ~ Dead /\ ~ Full /\ task'[t].at = "transmit" /\ Locals(t)
            /\ ring'.active = ring.active + 1 /\ ring'.fresh = ring.fresh
  <2>1. ring.active < Buffers => ring.put \notin ring.used
    <3>1. ASSUME ring.active < Buffers, ring.put \in ring.used PROVE FALSE
      <4>1. PICK i \in 0..(ring.active - 1) : Slot(ring.take, ring.active) = Slot(ring.take, i)
        BY <3>1 DEF IInv, InRow
      <4>2. i \in 0..(Buffers - 1) /\ ring.active \in 0..(Buffers - 1) /\ ring.take \in BufferIndex
        BY <3>1, MotorAssumption DEF RingRecord
      <4>3. QED
        BY <4>1, <4>2, SlotsDiffer
    <3>2. QED
      BY <3>1
  <2>2. CASE NothingToReserve /\ Goto(t, "filled") /\ UNCHANGED <<motor, ring>>
    BY <2>2, Effects DEF ReserveBuffer, At
  <2>3. CASE ~ NothingToReserve /\ ring.put \in ring.used
    BY <2>1, <2>3, MotorAssumption DEF NothingToReserve, RingRecord
  <2>4. ASSUME ~ NothingToReserve, NEW n,
               motor' = [motor EXCEPT !.reserved = @ + n], ring' = Reserved(ring),
               task' = [task EXCEPT ![t].at = "transmit", ![t].buffer = ring.put, ![t].count = n]
        PROVE  /\ Others(t) /\ ~ Dead /\ ~ Full /\ task'[t].at = "transmit" /\ Locals(t)
               /\ motor'.state = motor.state /\ motor'.abort = motor.abort
               /\ motor'.pulses = motor.pulses
               /\ ring'.active = ring.active + 1 /\ ring'.fresh = ring.fresh
    <3>1. /\ Others(t)
          /\ task'[t] = [task[t] EXCEPT !.at = "transmit", !.buffer = ring.put, !.count = n]
      BY <2>4 DEF Others
    <3>2. task[t] \in TaskRecord
      OBVIOUS
    <3>3. task'[t].at = "transmit" /\ Locals(t)
      BY <3>1, <3>2 DEF Locals, TaskRecord
    <3>4. QED
      BY <2>4, <3>1, <3>3 DEF NothingToReserve, Dead, Full, Reserved, MotorRecord, RingRecord
  <2>5. QED
    BY <2>2, <2>3, <2>4 DEF ReserveBuffer, At
<1>2. Places' /\ LaunchAlone'
  BY <1>1 DEF StillInv, Places, LaunchAlone, BeforeLaunch, Ending, Teardown, Filling,
     Dead, Locals, Others
<1>3. LaunchFresh' /\ ResetOff'
  BY <1>1 DEF StillInv, LaunchAlone, LaunchFresh, ResetOff, BeforeLaunch, Ending,
     Teardown, Dead, Locals, Others
<1>4. StopOff' /\ DistanceKept'
  BY <1>1 DEF StillInv, StopOff, Stopping, DistanceKept, Dead, Ending, Teardown,
     Filling, Locals, Others
<1>5. OffEmpty'
  BY <1>1 DEF StillInv, OffEmpty, Locals, Others
<1>6. Backed'
  <2>1. \A u \in Tasks : u # t => Claim(u)' = Claim(u)
    BY <1>1 DEF Claim, Claims, Dead, Others
  <2>2. Claim(t) = 0 /\ (task'[t].at = "transmit" => Claim(t)' = 1)
        /\ (task'[t].at = "filled" => Claim(t)' = 0)
    BY <1>1 DEF Claim, Claims
  <2>3. CASE t = "blinds"
    BY <1>1, <2>1, <2>2, <2>3 DEF StillInv, Backed
  <2>4. CASE t = "refill"
    BY <1>1, <2>1, <2>2, <2>4 DEF StillInv, Backed
  <2>5. QED
    BY <2>3, <2>4
<1>7. Ends'
  BY <1>1 DEF StillInv, Ends, Completing, NothingComes, Dead, Full, Locals, Others
<1> QED
  BY <1>2, <1>3, <1>4, <1>5, <1>6, <1>7 DEF StillInv

LEMMA TransmitStill ==
  ASSUME IInv, StillInv, NEW t \in Tasks, Transmit(t)
  PROVE  StillInv'
<1> USE Numbers
<1>1. /\ task[t].at = "transmit" /\ Others(t) /\ Locals(t) /\ UNCHANGED <<motor, ring>>
      /\ rmt'.enabled = rmt.enabled
      /\ \/ task'[t].at \in {"filled", "refused"} /\ UNCHANGED rmt
         \/ /\ task'[t].at = "reserve" /\ ~ Dead /\ rmt.enabled
            /\ Len(rmt'.queue) = Len(rmt.queue) + 1
  <2>1. CASE ~ CanTransmit /\ Goto(t, "filled") /\ UNCHANGED rmt
    BY <2>1, Effects DEF Transmit, At
  <2>2. CASE /\ CanTransmit /\ Goto(t, "reserve")
             /\ rmt' = [rmt EXCEPT !.queue =
                          Append(@, [buffer |-> task[t].buffer, left |-> task[t].count])]
    <3>1. Len(Append(rmt.queue, [buffer |-> task[t].buffer, left |-> task[t].count]))
            = Len(rmt.queue) + 1
      OBVIOUS
    <3>2. rmt'.enabled = rmt.enabled /\ Len(rmt'.queue) = Len(rmt.queue) + 1
      BY <2>2, <3>1
    <3>3. QED
      BY <2>2, <3>2, Effects DEF Transmit, At, CanTransmit, Dead
  <2>3. CASE CanTransmit /\ Goto(t, "refused") /\ UNCHANGED rmt
    BY <2>3, Effects DEF Transmit, At
  <2>4. QED
    BY <2>1, <2>2, <2>3 DEF Transmit
<1>2. Places' /\ LaunchAlone'
  BY <1>1 DEF StillInv, Places, LaunchAlone, BeforeLaunch, Ending, Teardown, Filling,
     Locals, Others
<1>3. LaunchFresh' /\ ResetOff'
  BY <1>1 DEF StillInv, LaunchAlone, LaunchFresh, ResetOff, BeforeLaunch, Ending,
     Teardown, Locals, Others
<1>4. StopOff' /\ DistanceKept'
  BY <1>1 DEF StillInv, StopOff, Stopping, DistanceKept, Dead, Ending, Teardown,
     Filling, Locals, Others
<1>5. OffEmpty'
  BY <1>1 DEF StillInv, OffEmpty, Locals, Others
<1>6. Backed'
  BY <1>1, SMTT(30) DEF StillInv, Places, Backed, Claim, Claims, Dead, Locals, Others
<1>7. Ends'
  BY <1>1 DEF StillInv, Ends, Completing, NothingComes, Dead, Full, Locals, Others
<1> QED
  BY <1>2, <1>3, <1>4, <1>5, <1>6, <1>7 DEF StillInv

LEMMA TransmitRefusedStill ==
  ASSUME IInv, StillInv, NEW t \in Tasks, TransmitRefused(t)
  PROVE  StillInv'
<1> USE Numbers
<1>1. /\ task[t].at = "refused" /\ Others(t) /\ UNCHANGED <<motor, ring, rmt>>
      /\ \/ task'[t].at = "filled" /\ Locals(t)
         \/ task'[t].at = "readActive" /\ task'[t].then = "failed" /\ task'[t].ok
            /\ task'[t].distance = task[t].distance
  BY Effects DEF TransmitRefused, Fails, At
<1>2. Places' /\ LaunchAlone'
  BY <1>1 DEF StillInv, Places, LaunchAlone, BeforeLaunch, Ending, Teardown, Filling,
     Locals, Others
<1>3. LaunchFresh' /\ ResetOff'
  BY <1>1 DEF StillInv, LaunchAlone, LaunchFresh, ResetOff, BeforeLaunch, Ending,
     Teardown, Locals, Others
<1>4. StopOff' /\ DistanceKept'
  BY <1>1 DEF StillInv, StopOff, Stopping, DistanceKept, Dead, Ending, Teardown,
     Filling, Locals, Others
<1>5. OffEmpty'
  BY <1>1 DEF StillInv, OffEmpty, Locals, Others
<1>6. Backed'
  BY <1>1 DEF StillInv, Places, Backed, Claim, Claims, Dead, Locals, Others
<1>7. Ends'
  BY <1>1 DEF StillInv, Ends, Completing, NothingComes, Dead, Full, Locals, Others
<1> QED
  BY <1>2, <1>3, <1>4, <1>5, <1>6, <1>7 DEF StillInv

(* completeMovementFromTask() and failMovementFromTask() *)
LEMMA BeginCompletionStill ==
  ASSUME IInv, StillInv, NEW t \in Tasks, BeginCompletion(t)
  PROVE  StillInv'
<1> USE Numbers
<1>1. /\ task[t].at = "complete" /\ Others(t) /\ UNCHANGED <<ring, rmt>>
      /\ motor'.state = motor.state /\ motor'.abort = motor.abort
      /\ motor'.reserved = motor.reserved /\ motor'.pulses = motor.pulses
      /\ \/ task'[t].at = "home" /\ ~ task'[t].still
         \/ task'[t].at = "readActive" /\ task'[t].then = "completed" /\ task'[t].ok
  BY Effects DEF BeginCompletion, At, MotorRecord, IdleTask
<1>2. Places' /\ LaunchAlone'
  BY <1>1 DEF StillInv, Places, LaunchAlone, BeforeLaunch, Ending, Teardown, Filling,
     Locals, Others
<1>3. LaunchFresh' /\ ResetOff'
  BY <1>1 DEF StillInv, LaunchAlone, LaunchFresh, ResetOff, BeforeLaunch, Ending,
     Teardown, Locals, Others
<1>4. StopOff' /\ DistanceKept'
  BY <1>1 DEF StillInv, StopOff, Stopping, DistanceKept, Dead, Ending, Teardown,
     Filling, Locals, Others
<1>5. OffEmpty'
  BY <1>1 DEF StillInv, OffEmpty, Locals, Others
<1>6. Backed'
  BY <1>1 DEF StillInv, Places, Backed, Claim, Claims, Dead, Locals, Others
<1>7. Ends'
  BY <1>1 DEF StillInv, Ends, Completing, NothingComes, Dead, Full, Locals, Others
<1> QED
  BY <1>2, <1>3, <1>4, <1>5, <1>6, <1>7 DEF StillInv

LEMMA EndCompletionStill ==
  ASSUME IInv, StillInv, NEW t \in Tasks, EndCompletion(t)
  PROVE  StillInv'
<1> USE Numbers
<1>1. /\ task[t].at = "completed" /\ Others(t) /\ UNCHANGED <<ring, rmt>>
      /\ motor'.state = "STOPPED" /\ motor'.reserved = 0 /\ motor'.pulses = 0
      /\ motor'.abort = motor.abort
      /\ \/ task'[t].at = "home" /\ ~ task'[t].still
         \/ task'[t].at = "limit"
         \/ task'[t].at = "readActive" /\ task'[t].then = "failed" /\ task'[t].ok
  BY Effects DEF EndCompletion, CompletionFails, Fails, At, MotorRecord, IdleTask
<1>2. Places' /\ LaunchAlone'
  BY <1>1 DEF StillInv, Places, LaunchAlone, BeforeLaunch, Ending, Teardown, Filling,
     Locals, Others
<1>3. LaunchFresh' /\ ResetOff'
  BY <1>1 DEF StillInv, LaunchAlone, LaunchFresh, ResetOff, BeforeLaunch, Ending,
     Teardown, Locals, Others
<1>4. StopOff' /\ DistanceKept'
  BY <1>1 DEF StillInv, StopOff, Stopping, DistanceKept, Dead, Ending, Teardown,
     Filling, Locals, Others
<1>5. OffEmpty'
  BY <1>1 DEF StillInv, OffEmpty, Locals, Others
<1>6. Backed'
  BY <1>1 DEF StillInv, Places, Backed, Claim, Claims, Dead, Locals, Others
<1>7. Ends'
  BY <1>1 DEF StillInv, Ends, Completing, NothingComes, Dead, Full, Locals, Others
<1> QED
  BY <1>2, <1>3, <1>4, <1>5, <1>6, <1>7 DEF StillInv

LEMMA SendLimitReachedStill ==
  ASSUME IInv, StillInv, NEW t \in Tasks, SendLimitReached(t)
  PROVE  StillInv'
<1> USE Numbers
<1>1. /\ task[t].at = "limit" /\ Others(t) /\ UNCHANGED <<motor, ring, rmt>>
      /\ motor.state = "STOPPED"
      /\ \/ task'[t].at = "home" /\ ~ task'[t].still
         \/ task'[t].at = "readActive" /\ task'[t].then = "failed" /\ task'[t].ok
  BY Effects DEF SendLimitReached, CompletionFails, Fails, At, IdleTask, StillInv, Ends
<1>2. Places' /\ LaunchAlone'
  BY <1>1 DEF StillInv, Places, LaunchAlone, BeforeLaunch, Ending, Teardown, Filling,
     Locals, Others
<1>3. LaunchFresh' /\ ResetOff'
  BY <1>1 DEF StillInv, LaunchAlone, LaunchFresh, ResetOff, BeforeLaunch, Ending,
     Teardown, Locals, Others
<1>4. StopOff' /\ DistanceKept'
  BY <1>1 DEF StillInv, StopOff, Stopping, DistanceKept, Dead, Ending, Teardown,
     Filling, Locals, Others
<1>5. OffEmpty'
  BY <1>1 DEF StillInv, OffEmpty, Locals, Others
<1>6. Backed'
  BY <1>1 DEF StillInv, Places, Backed, Claim, Claims, Dead, Locals, Others
<1>7. Ends'
  BY <1>1 DEF StillInv, Ends, Completing, NothingComes, Dead, Full, Locals, Others
<1> QED
  BY <1>2, <1>3, <1>4, <1>5, <1>6, <1>7 DEF StillInv

LEMMA EndFailureStill ==
  ASSUME IInv, StillInv, NEW t \in Tasks, EndFailure(t)
  PROVE  StillInv'
<1> USE Numbers
<1>1. /\ task[t].at = "failed" /\ Others(t) /\ UNCHANGED <<ring, rmt>>
      /\ motor'.state = "STOPPED" /\ motor'.reserved = 0 /\ motor'.pulses = 0
      /\ task'[t].at = "home" /\ ~ task'[t].still
  BY Effects DEF EndFailure, Cleared, At, MotorRecord, IdleTask
<1>2. Places' /\ LaunchAlone'
  BY <1>1 DEF StillInv, Places, LaunchAlone, BeforeLaunch, Ending, Teardown, Filling,
     Locals, Others
<1>3. LaunchFresh' /\ ResetOff'
  BY <1>1 DEF StillInv, LaunchAlone, LaunchFresh, ResetOff, BeforeLaunch, Ending,
     Teardown, Locals, Others
<1>4. StopOff' /\ DistanceKept'
  BY <1>1 DEF StillInv, StopOff, Stopping, DistanceKept, Dead, Ending, Teardown,
     Filling, Locals, Others
<1>5. OffEmpty'
  BY <1>1 DEF StillInv, OffEmpty, Locals, Others
<1>6. Backed'
  BY <1>1 DEF StillInv, Places, Backed, Claim, Claims, Dead, Locals, Others
<1>7. Ends'
  BY <1>1 DEF StillInv, Ends, Completing, NothingComes, Dead, Full, Locals, Others
<1> QED
  BY <1>2, <1>3, <1>4, <1>5, <1>6, <1>7 DEF StillInv

(* stop() and move() *)
LEMMA StopStill ==
  ASSUME IInv, StillInv, Stop
  PROVE  StillInv'
<1> USE Numbers
<1>1. /\ task["blinds"].at = "home" /\ Others("blinds") /\ UNCHANGED <<ring, rmt>>
      /\ task'["blinds"].at = "readActive" /\ task'["blinds"].then = "stopped"
      /\ motor'.state = motor.state /\ motor'.abort
      /\ motor'.reserved = motor.reserved /\ motor'.pulses = motor.pulses
  BY Effects DEF Stop, At, MotorRecord
<1>2. Places' /\ LaunchAlone'
  BY <1>1 DEF StillInv, Places, LaunchAlone, BeforeLaunch, Ending, Teardown, Filling,
     Locals, Others
<1>3. LaunchFresh' /\ ResetOff'
  BY <1>1 DEF StillInv, LaunchAlone, LaunchFresh, ResetOff, BeforeLaunch, Ending,
     Teardown, Locals, Others
<1>4. StopOff' /\ DistanceKept'
  BY <1>1 DEF StillInv, StopOff, Stopping, DistanceKept, Dead, Ending, Teardown,
     Filling, Locals, Others
<1>5. OffEmpty'
  BY <1>1 DEF StillInv, OffEmpty, Locals, Others
<1>6. Backed'
  BY <1>1 DEF StillInv, Places, Backed, Claim, Claims, Dead, Locals, Others
<1>7. Ends'
  BY <1>1 DEF StillInv, Ends, Completing, NothingComes, Dead, Full, Locals, Others
<1> QED
  BY <1>2, <1>3, <1>4, <1>5, <1>6, <1>7 DEF StillInv

LEMMA StoppedStill ==
  ASSUME IInv, StillInv, Stopped
  PROVE  StillInv'
<1> USE Numbers
<1>1. /\ task["blinds"].at = "stopped" /\ Others("blinds") /\ UNCHANGED <<ring, rmt>>
      /\ task'["blinds"].at = "home" /\ task'["blinds"].still = task["blinds"].ok
      /\ motor'.state = "STOPPED" /\ motor'.reserved = 0 /\ motor'.pulses = 0
  BY DEF Stopped, At, Cleared, MotorRecord, IdleTask, Others
<1>2. Places' /\ LaunchAlone'
  BY <1>1 DEF StillInv, Places, LaunchAlone, BeforeLaunch, Ending, Teardown, Filling,
     Locals, Others
<1>3. LaunchFresh' /\ ResetOff'
  BY <1>1 DEF StillInv, LaunchAlone, LaunchFresh, ResetOff, BeforeLaunch, Ending,
     Teardown, Locals, Others
<1>4. StopOff' /\ DistanceKept'
  BY <1>1 DEF StillInv, StopOff, Stopping, DistanceKept, Dead, Ending, Teardown,
     Filling, Locals, Others
<1>5. OffEmpty'
  BY <1>1 DEF StillInv, OffEmpty, Locals, Others
<1>6. Backed'
  BY <1>1 DEF StillInv, Places, Backed, Claim, Claims, Dead, Locals, Others
<1>7. Ends'
  BY <1>1 DEF StillInv, Ends, Completing, NothingComes, Dead, Full, Locals, Others
<1> QED
  BY <1>2, <1>3, <1>4, <1>5, <1>6, <1>7 DEF StillInv

LEMMA MoveStill ==
  ASSUME IInv, StillInv, NoOverlap', NEW target \in 0..MaxStep, Move(target)
  PROVE  StillInv'
<1> USE Numbers
<1>1. /\ task["blinds"].at = "home" /\ Others("blinds") /\ UNCHANGED <<ring, rmt>>
      /\ task["refill"].at \in {"home", "release", "reserve", "filled"}
      /\ motor.state = "STOPPED"
      /\ task'["blinds"].at = "readActive" /\ task'["blinds"].then = "aim"
      /\ motor'.state = motor.state /\ motor'.abort = motor.abort
      /\ motor'.reserved = motor.reserved /\ motor'.pulses = motor.pulses
  BY DEF Move, NoOverlap, FromRest, At, MotorRecord, IdleTask, Others
<1>2. Places' /\ LaunchAlone'
  BY <1>1 DEF StillInv, Places, LaunchAlone, BeforeLaunch, Ending, Teardown, Filling,
     Locals, Others
<1>3. LaunchFresh' /\ ResetOff'
  BY <1>1 DEF StillInv, LaunchAlone, LaunchFresh, ResetOff, BeforeLaunch, Ending,
     Teardown, Locals, Others
<1>4. StopOff' /\ DistanceKept'
  BY <1>1 DEF StillInv, StopOff, Stopping, DistanceKept, Dead, Ending, Teardown,
     Filling, Locals, Others
<1>5. OffEmpty'
  BY <1>1 DEF StillInv, OffEmpty, Locals, Others
<1>6. Backed'
  BY <1>1 DEF StillInv, Places, Backed, Claim, Claims, Dead, Locals, Others
<1>7. Ends'
  BY <1>1 DEF StillInv, Ends, Completing, NothingComes, Dead, Full, Locals, Others
<1> QED
  BY <1>2, <1>3, <1>4, <1>5, <1>6, <1>7 DEF StillInv

LEMMA AimStill ==
  ASSUME IInv, StillInv, Aim
  PROVE  StillInv'
<1> USE Numbers
<1>1. /\ task["blinds"].at = "aim" /\ Others("blinds") /\ UNCHANGED <<motor, ring, rmt>>
      /\ task'["blinds"].at = "startCounter" \/ (task'["blinds"].at = "home" /\ ~ task'["blinds"].still)
  <2>1. CASE StartFails
    BY <2>1, Effects DEF Aim, StartFails, At
  <2>2. CASE ~ StartFails
    BY <2>2 DEF Aim, At, Others, TaskRecord
  <2>3. QED
    BY <2>1, <2>2
<1>2. Places' /\ LaunchAlone'
  BY <1>1 DEF StillInv, Places, LaunchAlone, BeforeLaunch, Ending, Teardown, Filling,
     Locals, Others
<1>3. LaunchFresh' /\ ResetOff'
  BY <1>1 DEF StillInv, LaunchAlone, LaunchFresh, ResetOff, BeforeLaunch, Ending,
     Teardown, Locals, Others
<1>4. StopOff' /\ DistanceKept'
  BY <1>1 DEF StillInv, StopOff, Stopping, DistanceKept, Dead, Ending, Teardown,
     Filling, Locals, Others
<1>5. OffEmpty'
  BY <1>1 DEF StillInv, OffEmpty, Locals, Others
<1>6. Backed'
  BY <1>1 DEF StillInv, Places, Backed, Claim, Claims, Dead, Locals, Others
<1>7. Ends'
  BY <1>1 DEF StillInv, Ends, Completing, NothingComes, Dead, Full, Locals, Others
<1> QED
  BY <1>2, <1>3, <1>4, <1>5, <1>6, <1>7 DEF StillInv

LEMMA StartCounterStill ==
  ASSUME IInv, StillInv, StartCounter
  PROVE  StillInv'
<1> USE Numbers
<1>1. /\ task["blinds"].at = "startCounter" /\ Others("blinds") /\ UNCHANGED <<motor, ring, rmt>>
      /\ task'["blinds"].at = "enable" \/ (task'["blinds"].at = "home" /\ ~ task'["blinds"].still)
  BY Effects DEF StartCounter, StartFails, At
<1>2. Places' /\ LaunchAlone'
  BY <1>1 DEF StillInv, Places, LaunchAlone, BeforeLaunch, Ending, Teardown, Filling,
     Locals, Others
<1>3. LaunchFresh' /\ ResetOff'
  BY <1>1 DEF StillInv, LaunchAlone, LaunchFresh, ResetOff, BeforeLaunch, Ending,
     Teardown, Locals, Others
<1>4. StopOff' /\ DistanceKept'
  BY <1>1 DEF StillInv, StopOff, Stopping, DistanceKept, Dead, Ending, Teardown,
     Filling, Locals, Others
<1>5. OffEmpty'
  BY <1>1 DEF StillInv, OffEmpty, Locals, Others
<1>6. Backed'
  BY <1>1 DEF StillInv, Places, Backed, Claim, Claims, Dead, Locals, Others
<1>7. Ends'
  BY <1>1 DEF StillInv, Ends, Completing, NothingComes, Dead, Full, Locals, Others
<1> QED
  BY <1>2, <1>3, <1>4, <1>5, <1>6, <1>7 DEF StillInv

LEMMA EnableOutputStill ==
  ASSUME IInv, StillInv, EnableOutput
  PROVE  StillInv'
<1> USE Numbers
<1>1. /\ task["blinds"].at = "enable" /\ Others("blinds") /\ UNCHANGED <<motor, ring>>
      /\ rmt'.queue = rmt.queue
      /\ \/ task'["blinds"].at = "launch" /\ rmt'.enabled
         \/ task'["blinds"].at = "home" /\ ~ task'["blinds"].still /\ rmt' = rmt
      /\ ring.active = 0 /\ ring.fresh = 0 /\ Len(rmt.queue) = 0 /\ motor.state = "STOPPED"
      /\ task["refill"].at \in {"home", "release", "reserve", "filled"}
  <2>1. BeforeLaunch
    BY DEF EnableOutput, At, BeforeLaunch
  <2>2. rmt.queue = << >> /\ ring.active = 0 /\ ring.fresh = 0
    BY <2>1 DEF StillInv, LaunchFresh, OffEmpty, EnableOutput, At
  <2>3. QED
    BY <2>1, <2>2, Effects DEF StillInv, LaunchAlone, EnableOutput, StartFails, At
<1>2. Places' /\ LaunchAlone'
  BY <1>1 DEF StillInv, Places, LaunchAlone, BeforeLaunch, Ending, Teardown, Filling,
     Locals, Others
<1>3. LaunchFresh' /\ ResetOff'
  BY <1>1 DEF StillInv, LaunchAlone, LaunchFresh, ResetOff, BeforeLaunch, Ending,
     Teardown, Locals, Others
<1>4. StopOff' /\ DistanceKept'
  BY <1>1 DEF StillInv, StopOff, Stopping, DistanceKept, Dead, Ending, Teardown,
     Filling, Locals, Others
<1>5. OffEmpty'
  BY <1>1 DEF StillInv, OffEmpty, Locals, Others
<1>6. Backed'
  BY <1>1 DEF StillInv, Places, Backed, Claim, Claims, Dead, Locals, Others
<1>7. Ends'
  BY <1>1 DEF StillInv, Ends, Completing, NothingComes, Dead, Full, Locals, Others
<1> QED
  BY <1>2, <1>3, <1>4, <1>5, <1>6, <1>7 DEF StillInv

LEMMA LaunchStill ==
  ASSUME IInv, StillInv, Launch
  PROVE  StillInv'
<1> USE Numbers
<1>1. /\ task["blinds"].at = "launch" /\ Others("blinds") /\ UNCHANGED <<ring, rmt>>
      /\ task'["blinds"].at = "reserve" /\ task'["blinds"].distance = task["blinds"].distance
      /\ motor'.pulses = task["blinds"].distance /\ motor'.reserved = 0 /\ ~ motor'.abort
      /\ task["refill"].at \in {"home", "release", "reserve", "filled"}
  <2>1. BeforeLaunch
    BY DEF Launch, At, BeforeLaunch
  <2>2. QED
    BY <2>1, Effects DEF StillInv, LaunchAlone, Launch, At, Locals, MotorRecord
<1>2. Places' /\ LaunchAlone'
  BY <1>1 DEF StillInv, Places, LaunchAlone, BeforeLaunch, Ending, Teardown, Filling,
     Locals, Others
<1>3. LaunchFresh' /\ ResetOff'
  BY <1>1 DEF StillInv, LaunchAlone, LaunchFresh, ResetOff, BeforeLaunch, Ending,
     Teardown, Locals, Others
<1>4. StopOff' /\ DistanceKept'
  BY <1>1 DEF StillInv, StopOff, Stopping, DistanceKept, Dead, Ending, Teardown,
     Filling, Locals, Others
<1>5. OffEmpty'
  BY <1>1 DEF StillInv, OffEmpty, Locals, Others
<1>6. Backed'
  BY <1>1 DEF StillInv, Places, Backed, Claim, Claims, Dead, Locals, Others
<1>7. Ends'
  BY <1>1 DEF StillInv, Ends, Completing, NothingComes, Dead, Full, Locals, Others
<1> QED
  BY <1>2, <1>3, <1>4, <1>5, <1>6, <1>7 DEF StillInv

LEMMA LaunchedStill ==
  ASSUME IInv, StillInv, Launched
  PROVE  StillInv'
<1> USE Numbers
<1>1. /\ task["blinds"].at = "filled" /\ Others("blinds") /\ UNCHANGED <<motor, ring, rmt>>
      /\ \/ task'["blinds"].at = "complete" /\ Full
         \/ task'["blinds"].at = "home" /\ ~ task'["blinds"].still
  BY Effects DEF Launched, At, IdleTask, Full, StillInv, DistanceKept, Filling
<1>2. Places' /\ LaunchAlone'
  BY <1>1 DEF StillInv, Places, LaunchAlone, BeforeLaunch, Ending, Teardown, Filling,
     Locals, Others
<1>3. LaunchFresh' /\ ResetOff'
  BY <1>1 DEF StillInv, LaunchAlone, LaunchFresh, ResetOff, BeforeLaunch, Ending,
     Teardown, Locals, Others
<1>4. StopOff' /\ DistanceKept'
  BY <1>1 DEF StillInv, StopOff, Stopping, DistanceKept, Dead, Ending, Teardown,
     Filling, Locals, Others
<1>5. OffEmpty'
  BY <1>1 DEF StillInv, OffEmpty, Locals, Others
<1>6. Backed'
  BY <1>1 DEF StillInv, Places, Backed, Claim, Claims, Dead, Locals, Others
<1>7. Ends'
  BY <1>1 DEF StillInv, Ends, Completing, NothingComes, Dead, Full, Locals, Others
<1> QED
  BY <1>2, <1>3, <1>4, <1>5, <1>6, <1>7 DEF StillInv

(* refillTaskLoop() *)
LEMMA WakeStill ==
  ASSUME IInv, StillInv, Wake
  PROVE  StillInv'
<1> USE Numbers
<1>1. /\ task["refill"].at = "home" /\ Others("refill") /\ UNCHANGED <<motor, ring, rmt>>
      /\ task'["refill"].at = "release"
  BY Effects DEF Wake, At
<1>2. Places' /\ LaunchAlone'
  BY <1>1 DEF StillInv, Places, LaunchAlone, BeforeLaunch, Ending, Teardown, Filling,
     Locals, Others
<1>3. LaunchFresh' /\ ResetOff'
  BY <1>1 DEF StillInv, LaunchAlone, LaunchFresh, ResetOff, BeforeLaunch, Ending,
     Teardown, Locals, Others
<1>4. StopOff' /\ DistanceKept'
  BY <1>1 DEF StillInv, StopOff, Stopping, DistanceKept, Dead, Ending, Teardown,
     Filling, Locals, Others
<1>5. OffEmpty'
  BY <1>1 DEF StillInv, OffEmpty, Locals, Others
<1>6. Backed'
  BY <1>1 DEF StillInv, Places, Backed, Claim, Claims, Dead, Locals, Others
<1>7. Ends'
  BY <1>1 DEF StillInv, Ends, Completing, NothingComes, Dead, Full, Locals, Others
<1> QED
  BY <1>2, <1>3, <1>4, <1>5, <1>6, <1>7 DEF StillInv

LEMMA ReleaseStill ==
  ASSUME IInv, StillInv, Release
  PROVE  StillInv'
<1> USE Numbers
<1>1. /\ task["refill"].at = "release" /\ Others("refill") /\ UNCHANGED <<motor, rmt>>
      /\ task'["refill"].at = "reserve" /\ ring'.fresh = 0
      /\ ring'.active = ring.active - (IF ring.fresh < ring.active THEN ring.fresh ELSE ring.active)
  BY Effects DEF Release, Released, At
<1>2. Places' /\ LaunchAlone'
  BY <1>1 DEF StillInv, Places, LaunchAlone, BeforeLaunch, Ending, Teardown, Filling,
     Locals, Others
<1>3. LaunchFresh' /\ ResetOff'
  BY <1>1 DEF StillInv, LaunchAlone, LaunchFresh, ResetOff, BeforeLaunch, Ending,
     Teardown, Locals, Others
<1>4. StopOff' /\ DistanceKept'
  BY <1>1 DEF StillInv, StopOff, Stopping, DistanceKept, Dead, Ending, Teardown,
     Filling, Locals, Others
<1>5. OffEmpty'
  BY <1>1 DEF StillInv, OffEmpty, Locals, Others
<1>6. Backed'
  BY <1>1 DEF StillInv, Places, Backed, Claim, Claims, Dead, Locals, Others
<1>7. Ends'
  BY <1>1 DEF StillInv, Ends, Completing, NothingComes, Dead, Full, Locals, Others
<1> QED
  BY <1>2, <1>3, <1>4, <1>5, <1>6, <1>7 DEF StillInv

LEMMA RefilledStill ==
  ASSUME IInv, StillInv, Refilled
  PROVE  StillInv'
<1> USE Numbers
<1>1. /\ task["refill"].at = "filled" /\ Others("refill") /\ UNCHANGED <<motor, ring, rmt>>
      /\ \/ task'["refill"].at = "complete" /\ Full /\ motor.state # "STOPPED"
         \/ task'["refill"].at = "home"
  BY Effects DEF Refilled, ShouldComplete, At, IdleTask, Full
<1>2. Places' /\ LaunchAlone'
  BY <1>1 DEF StillInv, Places, LaunchAlone, BeforeLaunch, Ending, Teardown, Filling,
     Locals, Others
<1>3. LaunchFresh' /\ ResetOff'
  BY <1>1 DEF StillInv, LaunchAlone, LaunchFresh, ResetOff, BeforeLaunch, Ending,
     Teardown, Locals, Others
<1>4. StopOff' /\ DistanceKept'
  BY <1>1 DEF StillInv, StopOff, Stopping, DistanceKept, Dead, Ending, Teardown,
     Filling, Locals, Others
<1>5. OffEmpty'
  BY <1>1 DEF StillInv, OffEmpty, Locals, Others
<1>6. Backed'
  BY <1>1 DEF StillInv, Places, Backed, Claim, Claims, Dead, Locals, Others
<1>7. Ends'
  BY <1>1 DEF StillInv, Ends, Completing, NothingComes, Dead, Full, Locals, Others
<1> QED
  BY <1>2, <1>3, <1>4, <1>5, <1>6, <1>7 DEF StillInv

(* The RMT peripheral. *)
LEMMA PulseStill ==
  ASSUME IInv, StillInv, Pulse
  PROVE  StillInv'
<1> USE Numbers
<1>1. /\ UNCHANGED <<motor, ring, task>> /\ rmt.enabled /\ rmt'.enabled
      /\ rmt.queue # << >> /\ Len(rmt'.queue) = Len(rmt.queue)
  BY DEF Pulse
<1>2. Places' /\ LaunchAlone'
  BY <1>1 DEF StillInv, Places, LaunchAlone, BeforeLaunch, Ending, Teardown, Filling,
     Locals, Others
<1>3. LaunchFresh' /\ ResetOff'
  BY <1>1 DEF StillInv, LaunchAlone, LaunchFresh, ResetOff, BeforeLaunch, Ending,
     Teardown, Locals, Others
<1>4. StopOff' /\ DistanceKept'
  BY <1>1 DEF StillInv, StopOff, Stopping, DistanceKept, Dead, Ending, Teardown,
     Filling, Locals, Others
<1>5. OffEmpty'
  BY <1>1 DEF StillInv, OffEmpty, Locals, Others
<1>6. Backed'
  BY <1>1 DEF StillInv, Places, Backed, Claim, Claims, Dead, Locals, Others
<1>7. Ends'
  BY <1>1 DEF StillInv, Ends, Completing, NothingComes, Dead, Full, Locals, Others
<1> QED
  BY <1>2, <1>3, <1>4, <1>5, <1>6, <1>7 DEF StillInv

LEMMA TransactionDoneStill ==
  ASSUME IInv, StillInv, TransactionDone
  PROVE  StillInv'
<1> USE Numbers
<1>1. /\ UNCHANGED <<motor, task>> /\ rmt.enabled /\ rmt'.enabled
      /\ rmt.queue # << >> /\ Len(rmt'.queue) = Len(rmt.queue) - 1
      /\ ring'.active = ring.active /\ ring'.fresh = ring.fresh + 1
  BY DEF TransactionDone, RingRecord
<1>2. Places' /\ LaunchAlone'
  BY <1>1 DEF StillInv, Places, LaunchAlone, BeforeLaunch, Ending, Teardown, Filling,
     Locals, Others
<1>3. LaunchFresh' /\ ResetOff'
  BY <1>1 DEF StillInv, LaunchAlone, LaunchFresh, ResetOff, BeforeLaunch, Ending,
     Teardown, Locals, Others
<1>4. StopOff' /\ DistanceKept'
  BY <1>1 DEF StillInv, StopOff, Stopping, DistanceKept, Dead, Ending, Teardown,
     Filling, Locals, Others
<1>5. OffEmpty'
  BY <1>1 DEF StillInv, OffEmpty, Locals, Others
<1>6. Backed'
  BY <1>1 DEF StillInv, Places, Backed, Claim, Claims, Dead, Locals, Others
<1>7. Ends'
  BY <1>1 DEF StillInv, Ends, Completing, NothingComes, Dead, Full, Locals, Others
<1> QED
  BY <1>2, <1>3, <1>4, <1>5, <1>6, <1>7 DEF StillInv

-----------------------------------------------------------------------------
LEMMA StillInvInit == Init => StillInv
  BY DEF Init, StillInv, Places, LaunchAlone, LaunchFresh, ResetOff, StopOff, OffEmpty, Backed, Ends,
         DistanceKept, BeforeLaunch, Ending, Stopping, Teardown, Filling, Completing, IdleTask, Tasks

LEMMA StillInvNext ==
  ASSUME IInv, StillInv, NoOverlap', [Next]_vars
  PROVE  StillInv'
<1>1. ASSUME NEW t \in Tasks, Procedure(t) PROVE StillInv'
  BY <1>1, ReadActiveStill, DisableOutputStill, ResetBuffersStill, RefreshReadStill,
     ReadCountStill, RefreshPositionStill, StopCounterStill, ReserveBufferStill,
     TransmitStill, TransmitRefusedStill, BeginCompletionStill, EndCompletionStill,
     SendLimitReachedStill, EndFailureStill DEF Procedure
<1>2. CASE BlindsStep
  BY <1>1, <1>2, StoppedStill, AimStill, StartCounterStill, EnableOutputStill, LaunchStill,
     LaunchedStill DEF BlindsStep, Tasks
<1>3. CASE RefillStep
  BY <1>1, <1>3, WakeStill, ReleaseStill, RefilledStill DEF RefillStep, Tasks
<1>4. CASE UNCHANGED vars
  BY <1>4 DEF vars, StillInv, Places, LaunchAlone, LaunchFresh, ResetOff, StopOff, OffEmpty,
     Backed, Ends, DistanceKept, BeforeLaunch, Ending, Stopping, Dead, Full, Claim, Claims,
     Completing, NothingComes
<1>5. QED
  BY <1>2, <1>3, <1>4, StopStill, MoveStill, PulseStill, TransactionDoneStill DEF Next

(* No history is forgotten. *)
LEMMA TroubleStays ==
  ASSUME [Next]_vars
  PROVE  trouble \subseteq trouble'
<1>1. ASSUME NEW t \in Tasks, Procedure(t) PROVE trouble \subseteq trouble'
  BY <1>1 DEF Procedure, ReadActive, DisableOutput, ResetBuffers, RefreshRead, ReadCount,
     RefreshPosition, StopCounter, ReserveBuffer, Transmit, TransmitRefused, BeginCompletion,
     EndCompletion, SendLimitReached, EndFailure
<1>2. CASE BlindsStep
  BY <1>1, <1>2 DEF BlindsStep, Tasks, Stopped, Aim, StartCounter, EnableOutput, Launch, Launched
<1>3. CASE RefillStep
  BY <1>1, <1>3 DEF RefillStep, Tasks, Wake, Release, Refilled
<1>4. QED
  BY <1>2, <1>3 DEF Next, vars, Stop, Move, Pulse, TransactionDone

(* Once stop() has returned ESP_OK the channel is disabled and empty, for   *)
(* any buffers and any failing calls of the driver, until a move() is      *)
(* called over a movement or an acting refill task.                        *)
THEOREM StoppedIsStill == Spec => []StopMeansStill
<1> DEFINE Kept == NoOverlap => StillInv
<1>1. Kept => StopMeansStill
  BY DEF StillInv, StopOff, OffEmpty, StopMeansStill, At, NoOverlap
<1>2. IInv /\ Kept /\ [Next]_vars => Kept'
  BY StillInvNext, TroubleStays DEF NoOverlap
<1>3. Init => Kept
  BY StillInvInit
<1> HIDE DEF Kept
<1>4. QED
  BY <1>1, <1>2, <1>3, Invariance, PTL DEF Spec

=============================================================================
