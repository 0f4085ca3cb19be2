------------------------- MODULE MotorControllerProofs -------------------------
(***************************************************************************)
(* Proofs about MotorController, for any number of buffers, any buffer     *)
(* size, any travel and every interleaving of the tasks with the RMT       *)
(* peripheral and its interrupt.                                           *)
(***************************************************************************)
EXTENDS MotorController, TLAPS

MotorRecord ==
  [state : MotorState, step : Int, from : Int, target : 0..MaxStep,
   pulses : Nat, reserved : Nat, limit : BOOLEAN, abort : BOOLEAN]

RingRecord ==
  [used : SUBSET BufferIndex, put : BufferIndex, take : BufferIndex,
   active : 0..Buffers, fresh : Nat]

Descriptor == [buffer : BufferIndex, left : 0..Symbols]

TaskRecord ==
  [at : Labels, then : Labels, ok : BOOLEAN, recreate : BOOLEAN,
   buffer : BufferIndex, count : 0..Symbols, state : MotorState,
   from : Int, step : Int, dir : {"UP", "DOWN"}, distance : Nat, still : BOOLEAN]

-----------------------------------------------------------------------------
(* Going round the ring. *)
LEMMA Modulo ==
  ASSUME NEW x \in BufferIndex, NEW i \in 0..Buffers
  PROVE  /\ (x + i) % Buffers \in BufferIndex
         /\ (x + i) % Buffers = IF x + i < Buffers THEN x + i ELSE x + i - Buffers
<1> USE MotorAssumption DEF BufferIndex
<1>1. x + i \in Nat /\ Buffers \in Nat /\ Buffers > 0
  OBVIOUS
<1>2. (x + i) % Buffers \in 0..(Buffers - 1)
  BY <1>1
<1>3. CASE x + i < Buffers
  BY <1>1, <1>3
<1>4. CASE x + i >= Buffers
  <2>1. x + i - Buffers \in 0..(Buffers - 1)
    BY <1>1, <1>4
  <2>2. QED
    BY <1>1, <1>2, <1>4, <2>1
<1>5. QED
  BY <1>2, <1>3, <1>4

Slot(x, i) == (x + i) % Buffers

LEMMA SlotOfSlot ==
  ASSUME NEW x \in BufferIndex, NEW n \in 0..Buffers, NEW i \in 0..Buffers, n + i <= Buffers
  PROVE  Slot(Slot(x, n), i) = Slot(x, n + i)
<1>1. n + i \in 0..Buffers
  BY MotorAssumption
<1>2. Slot(x, n) \in BufferIndex
  BY Modulo DEF Slot
<1>3. /\ Slot(x, n) = IF x + n < Buffers THEN x + n ELSE x + n - Buffers
      /\ Slot(x, n + i) = IF x + (n + i) < Buffers THEN x + (n + i) ELSE x + (n + i) - Buffers
      /\ Slot(Slot(x, n), i) = IF Slot(x, n) + i < Buffers THEN Slot(x, n) + i
                                                           ELSE Slot(x, n) + i - Buffers
  BY <1>1, <1>2, Modulo DEF Slot
<1>4. x \in Nat /\ n \in Nat /\ i \in Nat /\ x < Buffers /\ Buffers \in Nat
  BY MotorAssumption DEF BufferIndex
<1>5. QED
  BY ONLY <1>3, <1>4, n + i <= Buffers

LEMMA SlotsDiffer ==
  ASSUME NEW x \in BufferIndex, NEW i \in 0..(Buffers - 1), NEW j \in 0..(Buffers - 1),
         Slot(x, i) = Slot(x, j)
  PROVE  i = j
<1>1. /\ x \in Nat /\ x < Buffers /\ Buffers \in Nat /\ i \in 0..Buffers /\ j \in 0..Buffers
      /\ i < Buffers /\ j < Buffers
  BY MotorAssumption DEF BufferIndex
<1>2. /\ Slot(x, i) = IF x + i < Buffers THEN x + i ELSE x + i - Buffers
      /\ Slot(x, j) = IF x + j < Buffers THEN x + j ELSE x + j - Buffers
  BY <1>1, Modulo DEF Slot
<1>3. QED
  BY ONLY <1>1, <1>2, Slot(x, i) = Slot(x, j)

(* RingOK, for any value of the ring. *)
InRow(r) ==
  /\ r.used = {Slot(r.take, i) : i \in 0..(r.active - 1)}
  /\ r.put = Slot(r.take, r.active)

LEMMA EmptyRingInRow == EmptyRing \in RingRecord /\ InRow(EmptyRing)
<1>1. 0 \in BufferIndex /\ 0 \in 0..Buffers
  BY MotorAssumption DEF BufferIndex
<1>2. Slot(0, 0) = 0
  BY <1>1, Modulo, MotorAssumption DEF Slot
<1>3. QED
  BY <1>1, <1>2 DEF EmptyRing, RingRecord, InRow

(* Reserving the next buffer prolongs the row. *)
LEMMA ReservedInRow ==
  ASSUME NEW r \in RingRecord, InRow(r), r.active < Buffers
  PROVE  Reserved(r) \in RingRecord /\ InRow(Reserved(r))
<1>1. /\ r.take \in BufferIndex /\ r.put \in BufferIndex /\ r.used \subseteq BufferIndex
      /\ r.active \in 0..(Buffers - 1) /\ r.active + 1 \in 0..Buffers /\ r.active \in 0..Buffers
      /\ r.fresh \in Nat /\ 1 \in 0..Buffers /\ Buffers \in Nat
  BY MotorAssumption DEF RingRecord
<1>2. /\ Reserved(r).used = r.used \cup {r.put} /\ Reserved(r).put = Slot(r.put, 1)
      /\ Reserved(r).active = r.active + 1 /\ Reserved(r).take = r.take
      /\ Reserved(r).fresh = r.fresh
  BY DEF Reserved, RingRecord, Slot
<1>3. Slot(r.put, 1) = Slot(r.take, r.active + 1)
  BY <1>1, SlotOfSlot DEF InRow
<1>4. Slot(r.put, 1) \in BufferIndex
  BY <1>1, Modulo DEF Slot
<1>5. {Slot(r.take, i) : i \in 0..r.active}
        = {Slot(r.take, i) : i \in 0..(r.active - 1)} \cup {Slot(r.take, r.active)}
  <2>1. 0..r.active = 0..(r.active - 1) \cup {r.active}
    BY <1>1
  <2>2. QED
    BY ONLY <2>1
<1>6. (r.active + 1) - 1 = r.active
  BY <1>1
<1>7. InRow(Reserved(r))
  BY <1>2, <1>3, <1>5, <1>6 DEF InRow
<1>8. Reserved(r) \in RingRecord
  BY <1>1, <1>2, <1>4 DEF RingRecord, Reserved
<1>9. QED
  BY <1>7, <1>8

(* Releasing from the front leaves the rest of the row. *)
LEMMA ReleasedInRow ==
  ASSUME NEW r \in RingRecord, InRow(r)
  PROVE  Released(r) \in RingRecord /\ InRow(Released(r))
<1> DEFINE n == IF r.fresh < r.active THEN r.fresh ELSE r.active
           gone == {Slot(r.take, i) : i \in 0..(n - 1)}
<1>1. /\ r.take \in BufferIndex /\ r.put \in BufferIndex /\ r.used \subseteq BufferIndex
      /\ r.active \in 0..Buffers /\ r.fresh \in Nat /\ Buffers \in Nat
  BY MotorAssumption DEF RingRecord
<1>2. n \in 0..Buffers /\ n <= r.active /\ r.active - n \in 0..Buffers
  BY <1>1
<1>3. Released(r) = [used |-> r.used \ gone, put |-> r.put, take |-> Slot(r.take, n),
                     active |-> r.active - n, fresh |-> 0]
  BY DEF Released, Slot
<1> HIDE DEF n
<1>4. Slot(r.take, n) \in BufferIndex
  BY <1>1, <1>2, Modulo DEF Slot
<1>5. Released(r) \in RingRecord
  BY <1>1, <1>2, <1>3, <1>4 DEF RingRecord
<1>6. r.put = Slot(Slot(r.take, n), r.active - n)
  <2>1. n + (r.active - n) = r.active
    BY <1>1, <1>2
  <2>2. QED
    BY <1>1, <1>2, <2>1, SlotOfSlot DEF InRow
<1>7. r.used \ gone = {Slot(Slot(r.take, n), i) : i \in 0..(r.active - n - 1)}
  <2>1. ASSUME NEW b \in r.used \ gone
        PROVE  b \in {Slot(Slot(r.take, n), i) : i \in 0..(r.active - n - 1)}
    <3>1. PICK j \in 0..(r.active - 1) : b = Slot(r.take, j)
      BY DEF InRow
    <3>2. j \notin 0..(n - 1)
      BY <3>1
    <3>3. j - n \in 0..(r.active - n - 1) /\ j - n \in 0..Buffers /\ n + (j - n) = j /\ j <= Buffers
      BY <1>1, <1>2, <3>2
    <3>4. Slot(Slot(r.take, n), j - n) = b
      BY <1>1, <1>2, <3>1, <3>3, SlotOfSlot
    <3>5. QED
      BY <3>3, <3>4
  <2>2. ASSUME NEW i \in 0..(r.active - n - 1)
        PROVE  Slot(Slot(r.take, n), i) \in r.used \ gone
    <3>1. /\ n + i \in 0..(r.active - 1) /\ i \in 0..Buffers /\ n + i <= Buffers
          /\ n + i \in 0..(Buffers - 1)
      BY <1>1, <1>2
    <3>2. Slot(Slot(r.take, n), i) = Slot(r.take, n + i)
      BY <1>1, <1>2, <3>1, SlotOfSlot
    <3>3. ASSUME NEW j \in 0..(n - 1), Slot(r.take, n + i) = Slot(r.take, j) PROVE FALSE
      <4>1. j \in 0..(Buffers - 1)
        BY <1>1, <1>2
      <4>2. n + i = j
        BY <1>1, <3>1, <3>3, <4>1, SlotsDiffer
      <4>3. QED
        BY <1>2, <4>2
    <3>4. QED
      BY <3>1, <3>2, <3>3 DEF InRow
  <2>3. QED
    BY <2>1, <2>2
<1>8. InRow(Released(r))
  BY <1>3, <1>6, <1>7 DEF InRow
<1>9. QED
  BY <1>5, <1>8

-----------------------------------------------------------------------------
TasksTyped == task \in [Tasks -> TaskRecord]

Typed ==
  /\ motor \in MotorRecord
  /\ ring \in RingRecord
  /\ rmt \in [enabled : BOOLEAN, queue : Seq(Descriptor)]
  /\ pcnt \in [running : BOOLEAN, count : Nat]
  /\ shaft \in [up : BOOLEAN, at : Int]
  /\ notified \in BOOLEAN
  /\ TasksTyped
  /\ moves \in 0..MaxMoves
  /\ report \subseteq {"LIMIT_REACHED", "FAULT", "OVERFLOW"}
  /\ trouble \subseteq {"overlap", "disable", "count"}

(* No more pulses are reserved than the movement has. *)
ReservedWithin == motor.reserved <= motor.pulses

IInv == Typed /\ InRow(ring) /\ ReservedWithin

(* Where a step of a task leaves the tasks. *)
LEMMA IdleTaskType == IdleTask \in TaskRecord
  BY MotorAssumption DEF IdleTask, TaskRecord, Labels, MotorState, BufferIndex

LEMMA Moving ==
  ASSUME TasksTyped, NEW t \in Tasks, NEW l \in Labels
  PROVE  /\ Goto(t, l) => TasksTyped'
         /\ StopsPulses(t, l) => TasksTyped'
         /\ Fails(t) => TasksTyped'
         /\ Home(t) => TasksTyped'
         /\ CompletionFails(t) => TasksTyped'
         /\ CallFails(t, l) => TasksTyped'
         /\ task[t] \in TaskRecord
<1>1. task[t] \in TaskRecord
  BY DEF TasksTyped
<1>2. Goto(t, l) => TasksTyped'
  BY <1>1 DEF Goto, TasksTyped, TaskRecord
<1>3. \A m \in Labels : StopsPulses(t, m) => TasksTyped'
  <2>1. "readActive" \in Labels
    BY DEF Labels
  <2>2. SUFFICES ASSUME NEW m \in Labels, StopsPulses(t, m) PROVE TasksTyped'
    OBVIOUS
  <2>3. [task[t] EXCEPT !.at = "readActive", !.then = m, !.ok = TRUE] \in TaskRecord
    BY <1>1, <2>1 DEF TaskRecord
  <2>4. task' = [task EXCEPT ![t] = [task[t] EXCEPT !.at = "readActive", !.then = m, !.ok = TRUE]]
    BY <2>2 DEF StopsPulses, TasksTyped
  <2>5. QED
    BY <2>3, <2>4 DEF TasksTyped
<1>4. Fails(t) => TasksTyped'
  BY <1>3 DEF Fails, Labels
<1>5. Home(t) => TasksTyped'
  BY IdleTaskType DEF Home, TasksTyped
<1>6. CallFails(t, l) => TasksTyped'
  <2>1. [task[t] EXCEPT !.at = l, !.ok = FALSE] \in TaskRecord
    BY <1>1 DEF TaskRecord
  <2>2. QED
    BY <1>5, <2>1 DEF CallFails, TasksTyped
<1>7. QED
  BY <1>1, <1>2, <1>3, <1>4, <1>5, <1>6 DEF CompletionFails

(* What a step may do to each of the records. *)
LEMMA MovingMore ==
  ASSUME Typed
  PROVE  /\ "refill" \in Tasks /\ "blinds" \in Tasks
         /\ \A t \in Tasks : task[t] \in TaskRecord
         /\ motor.state \in MotorState /\ motor.step \in Int /\ motor.from \in Int
         /\ Cleared(motor) \in MotorRecord
         /\ Cleared(motor).reserved = 0 /\ Cleared(motor).pulses = 0
         /\ CurrentStep \in Int
<1>1. \A f \in Int, n \in Nat : \A st : PositionFromCount(f, st, n) \in Int
  BY DEF PositionFromCount
<1>2. motor \in MotorRecord /\ pcnt.count \in Nat
  BY DEF Typed
<1>3. motor.state \in MotorState /\ motor.step \in Int /\ motor.from \in Int
  BY <1>2 DEF MotorRecord
<1>4. CurrentStep \in Int
  BY <1>1, <1>2, <1>3 DEF CurrentStep
<1>5. /\ Cleared(motor) \in MotorRecord
      /\ Cleared(motor).reserved = 0 /\ Cleared(motor).pulses = 0
  BY <1>2 DEF Cleared, MotorRecord, MotorState
<1>6. QED
  BY <1>3, <1>4, <1>5 DEF Tasks, Typed, TasksTyped

(* A step that moves a task and does nothing else. *)
LEMMA Only ==
  ASSUME IInv, UNCHANGED <<motor, ring, rmt, pcnt, shaft, notified, moves, report, trouble>>,
         TasksTyped'
  PROVE  IInv'
  BY DEF IInv, Typed, InRow, Slot, ReservedWithin

(* stopPulseHardware() *)
LEMMA StopPulsesKeeps ==
  ASSUME IInv, NEW t \in Tasks,
         ReadActive(t) \/ DisableOutput(t) \/ ResetBuffers(t) \/ RefreshRead(t)
           \/ ReadCount(t) \/ RefreshPosition(t) \/ StopCounter(t)
  PROVE  IInv'
<1> USE DEF IInv
<1>0. task[t] \in TaskRecord /\ TasksTyped /\ task \in [Tasks -> TaskRecord]
      /\ motor.state \in MotorState /\ motor.from \in Int
  BY MovingMore DEF Typed, TasksTyped
<1>1. CASE ReadActive(t)
  <2>1. (ring.active > 0) \in BOOLEAN /\ "disable" \in Labels
    BY DEF Labels
  <2>2. [task[t] EXCEPT !.at = "disable", !.recreate = ring.active > 0] \in TaskRecord
    BY <1>0, <2>1 DEF TaskRecord
  <2>3. TasksTyped'
    BY <1>0, <1>1, <2>2 DEF ReadActive, TasksTyped
  <2>4. QED
    BY <1>1, <2>3, Only DEF ReadActive
<1>2. CASE DisableOutput(t)
  <2>1. rmt' \in [enabled : BOOLEAN, queue : Seq(Descriptor)]
    <3>1. rmt \in [enabled : BOOLEAN, queue : Seq(Descriptor)]
      BY DEF Typed
    <3>2. \A r : Disabled(r) \in [enabled : BOOLEAN, queue : Seq(Descriptor)]
      <4>1. rmt.queue # << >> => Tail(rmt.queue) \in Seq(Descriptor)
        BY <3>1
      <4>2. << >> \in Seq(Descriptor)
        OBVIOUS
      <4>3. QED
        BY <4>1, <4>2 DEF Disabled
    <3>3. rmt' = rmt \/ \E r : rmt' = Disabled(r)
      BY <1>2 DEF DisableOutput
    <3>4. QED
      BY <3>1, <3>2, <3>3
  <2>2. TasksTyped'
    <3>1. "refresh" \in Labels /\ "reset" \in Labels
      BY DEF Labels
    <3>2. QED
      BY <1>0, <1>2, <3>1, Moving DEF DisableOutput
  <2>3. QED
    BY <1>2, <2>1, <2>2 DEF DisableOutput, Typed, InRow, Slot, ReservedWithin
<1>3. CASE ResetBuffers(t)
  <2>1. ring' \in RingRecord /\ InRow(ring)'
    BY <1>3, EmptyRingInRow DEF ResetBuffers, InRow, Slot
  <2>2. TasksTyped'
    BY <1>0, <1>3, Moving DEF ResetBuffers, Labels
  <2>3. QED
    BY <1>3, <2>1, <2>2 DEF ResetBuffers, Typed, ReservedWithin
<1>4. CASE RefreshRead(t)
  <2>1. [task[t] EXCEPT !.at = "count", !.state = motor.state, !.from = motor.from] \in TaskRecord
    BY <1>0 DEF TaskRecord, Labels
  <2>2. TasksTyped'
    BY <1>0, <1>4, <2>1, Moving DEF RefreshRead, TasksTyped, Labels
  <2>3. QED
    BY <1>4, <2>2, Only DEF RefreshRead
<1>5. CASE ReadCount(t)
  <2>1. PositionFromCount(task[t].from, task[t].state, pcnt.count) \in Int
    BY <1>0 DEF PositionFromCount, TaskRecord, Typed
  <2>2. [task[t] EXCEPT !.at = "position",
           !.step = PositionFromCount(task[t].from, task[t].state, pcnt.count)] \in TaskRecord
    BY <1>0, <2>1 DEF TaskRecord, Labels
  <2>3. TasksTyped'
    <3>1. "stopCounter" \in Labels
      BY DEF Labels
    <3>2. QED
      BY <1>0, <1>5, <2>2, <3>1, Moving DEF ReadCount, TasksTyped
  <2>4. trouble' \subseteq {"overlap", "disable", "count"}
    BY <1>5 DEF ReadCount, Typed
  <2>5. QED
    BY <1>5, <2>3, <2>4 DEF ReadCount, Typed, InRow, Slot, ReservedWithin
<1>6. CASE RefreshPosition(t)
  <2>1. TasksTyped'
    BY <1>0, <1>6, Moving DEF RefreshPosition, Labels
  <2>2. task[t].step \in Int
    BY <1>0 DEF TaskRecord
  <2>3. motor' \in MotorRecord /\ motor'.reserved = motor.reserved /\ motor'.pulses = motor.pulses
    BY <1>6, <2>2 DEF RefreshPosition, Typed, MotorRecord
  <2>4. QED
    BY <1>6, <2>1, <2>3 DEF RefreshPosition, Typed, InRow, Slot, ReservedWithin
<1>7. CASE StopCounter(t)
  <2>1. task[t].then \in Labels
    BY <1>0 DEF TaskRecord
  <2>2. TasksTyped'
    BY <1>0, <1>7, <2>1, Moving DEF StopCounter
  <2>3. pcnt' \in [running : BOOLEAN, count : Nat]
    BY <1>7 DEF StopCounter, Typed
  <2>4. QED
    BY <1>7, <2>2, <2>3 DEF StopCounter, Typed, InRow, Slot, ReservedWithin
<1>8. QED
  BY <1>1, <1>2, <1>3, <1>4, <1>5, <1>6, <1>7

(* fillRmtQueue() *)
LEMMA FillKeeps ==
  ASSUME IInv, NEW t \in Tasks,
         ReserveBuffer(t) \/ Transmit(t) \/ TransmitRefused(t)
  PROVE  IInv'
<1> USE DEF IInv
<1>0. task[t] \in TaskRecord /\ TasksTyped /\ task \in [Tasks -> TaskRecord]
  BY MovingMore DEF Typed, TasksTyped
<1>1. CASE ReserveBuffer(t)
  <2>1. CASE UNCHANGED <<motor, ring>>
    <3>1. CASE Goto(t, "filled") \/ Fails(t)
      BY <1>0, <1>1, <2>1, <3>1, Moving, Only DEF ReserveBuffer, Labels
    <3>2. CASE ~ NothingToReserve /\ ring' = Reserved(ring)
      <4>1. Reserved(ring).active = ring.active + 1 /\ ring.active \in Nat
        BY MotorAssumption DEF Reserved, RingRecord, Typed
      <4>2. ring' = ring /\ ring.active + 1 # ring.active
        BY <2>1, <4>1
      <4>3. QED
        BY ONLY <3>2, <4>1, <4>2
    <3>3. QED
      BY <1>1, <3>1, <3>2 DEF ReserveBuffer
  <2>2. CASE ~ UNCHANGED <<motor, ring>>
    <3> DEFINE n == BufferPulses(motor.pulses - motor.reserved)
    <3>1. /\ ~ NothingToReserve
          /\ motor' = [motor EXCEPT !.reserved = motor.reserved + n]
          /\ ring' = Reserved(ring)
          /\ task' = [task EXCEPT ![t].at = "transmit", ![t].buffer = ring.put, ![t].count = n]
          /\ UNCHANGED <<rmt, pcnt, shaft, notified, moves, report, trouble>>
      BY <1>1, <2>2 DEF ReserveBuffer
    <3>2. motor.reserved < motor.pulses /\ motor.reserved \in Nat /\ motor.pulses \in Nat
      BY <3>1 DEF NothingToReserve, Typed, MotorRecord
    <3>3. n \in 0..Symbols /\ motor.reserved + n <= motor.pulses /\ motor.reserved + n \in Nat
      BY <3>2, MotorAssumption DEF BufferPulses
    <3> HIDE DEF n
    <3>4. motor' \in MotorRecord /\ ReservedWithin'
      BY <3>1, <3>3 DEF Typed, MotorRecord, ReservedWithin
    <3>5. ring.active < Buffers
      BY <3>1, MotorAssumption DEF NothingToReserve, Typed, RingRecord
    <3>6. ring' \in RingRecord /\ InRow(ring')
      BY <3>1, <3>5, ReservedInRow DEF Typed
    <3>7. [task[t] EXCEPT !.at = "transmit", !.buffer = ring.put, !.count = n] \in TaskRecord
      BY <1>0, <3>3 DEF TaskRecord, Labels, Typed, RingRecord
    <3>8. TasksTyped'
      BY <1>0, <3>1, <3>7 DEF TasksTyped
    <3>9. QED
      BY <3>1, <3>4, <3>6, <3>8 DEF Typed, InRow, Slot
  <2>3. QED
    BY <2>1, <2>2
<1>2. CASE Transmit(t)
  <2>1. TasksTyped'
    BY <1>0, <1>2, Moving DEF Transmit, Labels
  <2>2. rmt' \in [enabled : BOOLEAN, queue : Seq(Descriptor)]
    <3>1. rmt \in [enabled : BOOLEAN, queue : Seq(Descriptor)]
      BY DEF Typed
    <3>2. [buffer |-> task[t].buffer, left |-> task[t].count] \in Descriptor
      BY <1>0 DEF TaskRecord, Descriptor
    <3>3. \/ rmt' = rmt
          \/ rmt' = [rmt EXCEPT !.queue =
                       Append(rmt.queue, [buffer |-> task[t].buffer, left |-> task[t].count])]
      BY <1>2 DEF Transmit
    <3>4. QED
      BY <3>1, <3>2, <3>3
  <2>3. QED
    BY <1>2, <2>1, <2>2 DEF Transmit, Typed, InRow, Slot, ReservedWithin
<1>3. CASE TransmitRefused(t)
  <2>1. TasksTyped'
    BY <1>0, <1>3, Moving DEF TransmitRefused, Labels
  <2>2. QED
    BY <1>3, <2>1, Only DEF TransmitRefused
<1>4. QED
  BY <1>1, <1>2, <1>3

(* completeMovementFromTask() and failMovementFromTask() *)
LEMMA EndsKeep ==
  ASSUME IInv, NEW t \in Tasks,
         BeginCompletion(t) \/ EndCompletion(t) \/ SendLimitReached(t) \/ EndFailure(t)
  PROVE  IInv'
<1> USE DEF IInv
<1>0. TasksTyped /\ motor \in MotorRecord
  BY DEF Typed
<1>1. CASE BeginCompletion(t)
  <2>1. TasksTyped'
    BY <1>0, <1>1, Moving DEF BeginCompletion, Labels
  <2>2. motor' \in MotorRecord /\ motor'.reserved = motor.reserved /\ motor'.pulses = motor.pulses
    <3>1. motor' = motor \/ motor' = [motor EXCEPT !.limit = TRUE]
      BY <1>1 DEF BeginCompletion
    <3>2. QED
      BY <1>0, <3>1 DEF MotorRecord
  <2>3. QED
    BY <1>1, <2>1, <2>2 DEF BeginCompletion, Typed, InRow, Slot, ReservedWithin
<1>2. CASE EndCompletion(t)
  <2>1. TasksTyped'
    BY <1>0, <1>2, Moving DEF EndCompletion, Labels
  <2>2. motor' \in MotorRecord /\ motor'.reserved = 0 /\ motor'.pulses = 0
    BY <1>0, <1>2 DEF EndCompletion, MotorRecord, MotorState
  <2>3. QED
    BY <1>2, <2>1, <2>2 DEF EndCompletion, Typed, InRow, Slot, ReservedWithin
<1>3. CASE SendLimitReached(t)
  <2>1. TasksTyped' /\ report' \subseteq {"LIMIT_REACHED", "FAULT", "OVERFLOW"}
    BY <1>0, <1>3, Moving DEF SendLimitReached, Labels, Typed
  <2>2. QED
    BY <1>3, <2>1 DEF SendLimitReached, Typed, InRow, Slot, ReservedWithin
<1>4. CASE EndFailure(t)
  <2>1. TasksTyped' /\ report' \subseteq {"LIMIT_REACHED", "FAULT", "OVERFLOW"}
    BY <1>0, <1>4, Moving DEF EndFailure, Labels, Typed
  <2>2. motor' \in MotorRecord /\ motor'.reserved = 0 /\ motor'.pulses = 0
    BY <1>4, MovingMore DEF EndFailure
  <2>3. QED
    BY <1>4, <2>1, <2>2 DEF EndFailure, Typed, InRow, Slot, ReservedWithin
<1>5. QED
  BY <1>1, <1>2, <1>3, <1>4

(* stop() and move() *)
LEMMA CallsKeep ==
  ASSUME IInv, Stop \/ Stopped \/ Aim \/ StartCounter \/ EnableOutput \/ Launch \/ Launched
           \/ \E target \in 0..MaxStep : Move(target)
  PROVE  IInv'
<1> USE DEF IInv
<1>0. /\ TasksTyped /\ motor \in MotorRecord /\ "blinds" \in Tasks /\ task["blinds"] \in TaskRecord
      /\ IdleTask \in TaskRecord
  BY MovingMore, IdleTaskType DEF Typed
<1>1. CASE Stop
  <2>1. TasksTyped'
    BY <1>0, <1>1, Moving DEF Stop, Labels
  <2>2. motor' \in MotorRecord /\ motor'.reserved = motor.reserved /\ motor'.pulses = motor.pulses
    BY <1>0, <1>1 DEF Stop, MotorRecord
  <2>3. QED
    BY <1>1, <2>1, <2>2 DEF Stop, Typed, InRow, Slot, ReservedWithin
<1>2. CASE Stopped
  <2>1. [IdleTask EXCEPT !.still = task["blinds"].ok] \in TaskRecord
    BY <1>0 DEF TaskRecord
  <2>2. TasksTyped'
    BY <1>0, <1>2, <2>1 DEF Stopped, TasksTyped
  <2>3. motor' \in MotorRecord /\ motor'.reserved = 0 /\ motor'.pulses = 0
    BY <1>2, MovingMore DEF Stopped
  <2>4. QED
    BY <1>2, <2>2, <2>3 DEF Stopped, Typed, InRow, Slot, ReservedWithin
<1>3. CASE Aim
  <2>1. Distance(motor.target, motor.step) \in Nat
    BY <1>0, MotorAssumption DEF MotorRecord, Distance
  <2>2. [task["blinds"] EXCEPT !.at = "startCounter",
           !.distance = Distance(motor.target, motor.step)] \in TaskRecord
    BY <1>0, <2>1 DEF TaskRecord, Labels
  <2>3. TasksTyped'
    <3>1. CASE StartFails
      BY <1>0, <3>1, Moving DEF StartFails, Labels
    <3>2. CASE ~ StartFails
      BY <1>0, <1>3, <2>2, <3>2 DEF Aim, TasksTyped
    <3>3. QED
      BY <3>1, <3>2
  <2>4. shaft' \in [up : BOOLEAN, at : Int]
    <3>1. (task["blinds"].dir = "UP") \in BOOLEAN
      OBVIOUS
    <3>2. QED
      BY <1>3, <3>1 DEF Aim, Typed
  <2>5. QED
    BY <1>3, <2>3, <2>4 DEF Aim, Typed, InRow, Slot, ReservedWithin
<1>4. CASE StartCounter
  <2>1. TasksTyped'
    BY <1>0, <1>4, Moving DEF StartCounter, StartFails, Labels
  <2>2. pcnt' \in [running : BOOLEAN, count : Nat]
    <3>1. \A b \in BOOLEAN : [running |-> b, count |-> 0] \in [running : BOOLEAN, count : Nat]
      OBVIOUS
    <3>2. pcnt' = pcnt \/ \E b \in BOOLEAN : pcnt' = [running |-> b, count |-> 0]
      BY <1>4 DEF StartCounter
    <3>3. QED
      BY <3>1, <3>2 DEF Typed
  <2>3. QED
    BY <1>4, <2>1, <2>2 DEF StartCounter, Typed, InRow, Slot, ReservedWithin
<1>5. CASE EnableOutput
  <2>1. TasksTyped' /\ rmt' \in [enabled : BOOLEAN, queue : Seq(Descriptor)]
    BY <1>0, <1>5, Moving DEF EnableOutput, StartFails, Labels, Typed
  <2>2. QED
    BY <1>5, <2>1 DEF EnableOutput, Typed, InRow, Slot, ReservedWithin
<1>6. CASE Launch
  <2>1. TasksTyped'
    BY <1>0, <1>6, Moving DEF Launch, Labels
  <2>2. task["blinds"].dir \in MotorState /\ task["blinds"].distance \in Nat
    BY <1>0 DEF TaskRecord, MotorState
  <2>3. motor' \in MotorRecord /\ ReservedWithin'
    <3>1. PICK d \in MotorState, n \in Nat :
            motor' = [motor EXCEPT !.state = d, !.abort = FALSE, !.from = motor.step,
                                   !.pulses = n, !.reserved = 0, !.limit = FALSE]
      BY <1>6, <2>2 DEF Launch
    <3>2. motor' \in MotorRecord
      BY <1>0, <3>1 DEF MotorRecord
    <3>3. motor'.reserved = 0 /\ motor'.pulses = n
      BY <1>0, <3>1 DEF MotorRecord
    <3>4. QED
      BY <3>2, <3>3 DEF ReservedWithin
  <2>4. QED
    BY <1>6, <2>1, <2>3 DEF Launch, Typed, InRow, Slot
<1>7. CASE Launched
  <2>1. TasksTyped'
    BY <1>0, <1>7, Moving DEF Launched, Labels
  <2>2. QED
    BY <1>7, <2>1, Only DEF Launched
<1>8. CASE \E target \in 0..MaxStep : Move(target)
  <2>1. PICK target \in 0..MaxStep : Move(target)
    BY <1>8
  <2>2. \A d \in {"UP", "DOWN"} :
          [IdleTask EXCEPT !.at = "readActive", !.then = "aim", !.dir = d] \in TaskRecord
    BY <1>0 DEF TaskRecord, Labels
  <2>3. TasksTyped'
    BY <1>0, <2>1, <2>2 DEF Move, TasksTyped
  <2>4. /\ motor' \in MotorRecord /\ motor'.reserved = motor.reserved /\ motor'.pulses = motor.pulses
        /\ trouble' \subseteq {"overlap", "disable", "count"}
    BY <1>0, <2>1 DEF Move, MotorRecord, Typed
  <2>5. moves' \in 0..MaxMoves /\ report' = {}
    <3>1. moves \in 0..MaxMoves /\ MaxMoves \in Nat
      BY MotorAssumption DEF Typed
    <3>2. moves < MaxMoves /\ moves' = moves + 1 /\ report' = {}
      BY <2>1 DEF Move
    <3>3. QED
      BY ONLY <3>1, <3>2
  <2>6. UNCHANGED <<ring, rmt, pcnt, shaft, notified>>
    BY <2>1 DEF Move
  <2>7. QED
    BY <2>3, <2>4, <2>5, <2>6 DEF Typed, InRow, Slot, ReservedWithin
<1>9. QED
  BY <1>1, <1>2, <1>3, <1>4, <1>5, <1>6, <1>7, <1>8

(* refillTaskLoop() *)
LEMMA RefillKeeps ==
  ASSUME IInv, Wake \/ Release \/ Refilled
  PROVE  IInv'
<1> USE DEF IInv
<1>0. TasksTyped /\ "refill" \in Tasks
  BY MovingMore DEF Typed
<1>1. CASE Wake
  <2>1. TasksTyped'
    BY <1>0, <1>1, Moving DEF Wake, Labels
  <2>2. QED
    BY <1>1, <2>1 DEF Wake, Typed, InRow, Slot, ReservedWithin
<1>2. CASE Release
  <2>1. TasksTyped'
    BY <1>0, <1>2, Moving DEF Release, Labels
  <2>2. ring' \in RingRecord /\ InRow(ring')
    BY <1>2, ReleasedInRow DEF Release, Typed
  <2>3. QED
    BY <1>2, <2>1, <2>2 DEF Release, Typed, InRow, Slot, ReservedWithin
<1>3. CASE Refilled
  <2>1. TasksTyped'
    BY <1>0, <1>3, Moving DEF Refilled, Labels
  <2>2. QED
    BY <1>3, <2>1, Only DEF Refilled
<1>4. QED
  BY <1>1, <1>2, <1>3

(* The RMT peripheral and its interrupt. *)
LEMMA PeripheralKeeps ==
  ASSUME IInv, Pulse \/ TransactionDone
  PROVE  IInv'
<1> USE DEF IInv
<1>0. rmt \in [enabled : BOOLEAN, queue : Seq(Descriptor)] /\ ring \in RingRecord
  BY DEF Typed
<1>1. CASE Pulse
  <2>1. rmt.queue # << >> /\ Head(rmt.queue).left > 0
    BY <1>1 DEF Pulse
  <2>2. 1 \in DOMAIN rmt.queue /\ rmt.queue[1] \in Descriptor /\ rmt.queue[1].left > 0
    BY <1>0, <2>1
  <2>3. [rmt.queue[1] EXCEPT !.left = rmt.queue[1].left - 1] \in Descriptor
    BY <2>2, MotorAssumption DEF Descriptor
  <2>4. [rmt.queue EXCEPT ![1] = [rmt.queue[1] EXCEPT !.left = rmt.queue[1].left - 1]]
          \in Seq(Descriptor)
    BY <1>0, <2>2, <2>3
  <2>5. rmt' \in [enabled : BOOLEAN, queue : Seq(Descriptor)]
    BY <1>0, <1>1, <2>2, <2>4 DEF Pulse
  <2>6. shaft' \in [up : BOOLEAN, at : Int] /\ pcnt' \in [running : BOOLEAN, count : Nat]
    BY <1>1 DEF Pulse, Typed
  <2>7. QED
    BY <1>1, <2>5, <2>6 DEF Pulse, Typed, TasksTyped, InRow, Slot, ReservedWithin
<1>2. CASE TransactionDone
  <2>1. rmt' \in [enabled : BOOLEAN, queue : Seq(Descriptor)]
    <3>1. Tail(rmt.queue) \in Seq(Descriptor)
      BY <1>0, <1>2 DEF TransactionDone
    <3>2. QED
      BY <1>0, <1>2, <3>1 DEF TransactionDone
  <2>2. ring' \in RingRecord /\ InRow(ring)'
    <3>1. ring' = [ring EXCEPT !.fresh = ring.fresh + 1] /\ ring.fresh + 1 \in Nat
      BY <1>0, <1>2 DEF TransactionDone, RingRecord
    <3>2. QED
      BY <1>0, <3>1 DEF RingRecord, InRow, Slot
  <2>3. QED
    BY <1>2, <2>1, <2>2 DEF TransactionDone, Typed, TasksTyped, ReservedWithin
<1>3. QED
  BY <1>1, <1>2

-----------------------------------------------------------------------------
LEMMA IInvInit == Init => IInv
<1> SUFFICES ASSUME Init PROVE IInv
  OBVIOUS
<1>1. ring \in RingRecord /\ InRow(ring)
  BY EmptyRingInRow DEF Init
<1>2. TasksTyped
  BY IdleTaskType DEF Init, TasksTyped
<1>3. motor \in MotorRecord /\ ReservedWithin
  BY MotorAssumption DEF Init, MotorRecord, MotorState, ReservedWithin
<1>4. QED
  <2>1. << >> \in Seq(Descriptor) /\ 0 \in 0..MaxMoves
    BY MotorAssumption
  <2>2. rmt \in [enabled : BOOLEAN, queue : Seq(Descriptor)]
    BY <2>1 DEF Init
  <2>3. pcnt \in [running : BOOLEAN, count : Nat] /\ shaft \in [up : BOOLEAN, at : Int]
    BY DEF Init
  <2>4. notified \in BOOLEAN
    BY DEF Init
  <2>5. moves \in 0..MaxMoves /\ trouble = {} /\ report \subseteq {"LIMIT_REACHED", "FAULT", "OVERFLOW"}
    BY <2>1 DEF Init
  <2>6. QED
    BY <1>1, <1>2, <1>3, <2>2, <2>3, <2>4, <2>5 DEF IInv, Typed

LEMMA IInvNext ==
  ASSUME IInv, [Next]_vars
  PROVE  IInv'
<1>0. "blinds" \in Tasks /\ "refill" \in Tasks
  BY DEF Tasks
<1>1. ASSUME NEW t \in Tasks, Procedure(t) PROVE IInv'
  BY <1>1, StopPulsesKeeps, FillKeeps, EndsKeep DEF Procedure
<1>2. CASE Stop \/ BlindsStep \/ \E target \in 0..MaxStep : Move(target)
  BY <1>0, <1>1, <1>2, CallsKeep DEF BlindsStep
<1>3. CASE RefillStep
  BY <1>0, <1>1, <1>3, RefillKeeps DEF RefillStep
<1>4. CASE Pulse \/ TransactionDone
  BY <1>4, PeripheralKeeps
<1>5. CASE UNCHANGED vars
  BY <1>5 DEF vars, IInv, Typed, TasksTyped, InRow, Slot, ReservedWithin
<1>6. QED
  BY <1>2, <1>3, <1>4, <1>5 DEF Next

(* Every reachable state satisfies the invariant the theorems rest on.     *)
THEOREM Invariance == Spec => []IInv
<1>1. IInv /\ [Next]_vars => IInv'
  BY IInvNext
<1>2. QED
  BY IInvInit, <1>1, PTL DEF Spec

(* Every variable of the motor, its tasks and the peripheral keeps its      *)
(* type, in every interleaving.                                            *)
THEOREM TypeCorrect == Spec => []TypeOK
<1>1. IInv => TypeOK
  BY DEF IInv, Typed, TasksTyped, TypeOK, MotorRecord, RingRecord, Descriptor, TaskRecord
<1>2. QED
  BY Invariance, <1>1, PTL

(* The RMT buffers in use are the active ones in a row, so that a refill    *)
(* never finds its next buffer taken, whichever task resets, releases or   *)
(* reserves in between (rmtQueue_ of MotorController).                     *)
THEOREM RingInRow == Spec => []RingOK
<1>1. IInv => RingOK
  BY DEF IInv, InRow, Slot, RingOK
<1>2. QED
  BY Invariance, <1>1, PTL

(* Neither a refill nor the first fill reserves more pulses than the        *)
(* movement has, whatever the other task does between a reservation and    *)
(* its transmit.                                                           *)
THEOREM ReservedNeverExceeds == Spec => []ReservedWithin
<1>1. IInv => ReservedWithin
  BY DEF IInv
<1>2. QED
  BY Invariance, <1>1, PTL

=============================================================================
