---------------------------- MODULE ButtonHandler ----------------------------
(***************************************************************************)
(* ButtonHandler: contacts that bounce, the interrupt that queues every    *)
(* rising edge, and the task that waits for the bounce to be over, looks   *)
(* at the pin, sends one command, waits for the release and then throws    *)
(* away what the interrupt has queued in the meantime.                     *)
(*                                                                         *)
(* Time is the FreeRTOS tick (10 ms): a delay of n ticks ends at the n-th  *)
(* tick after it began.  The task is blocked or done with its work before  *)
(* the next tick comes.  It is there from the start: a button used in the  *)
(* second in which app_main has not created it yet is left out.            *)
(***************************************************************************)
EXTENDS Naturals, Sequences

CONSTANTS
  Buttons,      \* ButtonPressed
  QueueDepth,   \* AppConfig::buttonsQueueDepth
  Debounce,     \* AppConfig::debouncTime in ticks
  BounceTicks,  \* a contact is at rest this many ticks after it was moved
  PressGap      \* a finger does not press again sooner after a release

(* The debounce time has been chosen longer than contacts bounce.  A       *)
(* finger does not come back before the task has looked at what the        *)
(* release left behind: then it could meet the bounce of the next press.   *)
ASSUME ButtonAssumption ==
  /\ QueueDepth \in Nat \ {0}
  /\ Debounce \in Nat /\ BounceTicks \in Nat \ {0} /\ BounceTicks < Debounce
  /\ PressGap \in Nat /\ Debounce + BounceTicks <= PressGap + 1

VARIABLES
  finger,   \* the buttons a finger holds down
  moved,    \* for each button, ticks since a finger moved it (up to PressGap)
  level,    \* the buttons whose pin is at BUTTON_PRESSED_LEVEL
  queue,    \* buttonQueue_
  task,     \* where buttonTask() is, for which button, and the ticks it still
            \* sleeps
  heard     \* history: commands sent since each button was last pressed (0..2)

vars == <<finger, moved, level, queue, task, heard>>

Init ==
  /\ finger = {}
  /\ moved = [b \in Buttons |-> PressGap]
  /\ level = {}
  /\ queue = << >>
  /\ task \in [at : {"receive"}, button : Buttons, sleep : {0}]
  /\ heard = [b \in Buttons |-> 0]

-----------------------------------------------------------------------------
(* Mutated forms of the operators below. *)

LooksAtOnce == 1

PressedActiveLow(b) == b \notin level

-----------------------------------------------------------------------------
(* The outside. *)
Moves(b) == moved' = [moved EXCEPT ![b] = 0]

Press(b) ==
  /\ b \notin finger /\ moved[b] = PressGap
  /\ finger' = finger \cup {b}
  /\ Moves(b)
  /\ heard' = [heard EXCEPT ![b] = 0]
  /\ UNCHANGED <<level, queue, task>>

Release(b) ==
  /\ b \in finger /\ moved[b] >= BounceTicks
  /\ finger' = finger \ {b}
  /\ Moves(b)
  /\ UNCHANGED <<level, queue, task, heard>>

AtRest(b) == b \in level <=> b \in finger

(* In its last tick a bouncing contact only comes to rest. *)
LastTick(b) == moved[b] = BounceTicks - 1

MayFlip(b) == moved[b] < BounceTicks - 1 \/ (LastTick(b) /\ ~ AtRest(b))

(* buttonIsr(): a rising edge is queued unless the queue is full. *)
Queued(b) == IF Len(queue) < QueueDepth THEN Append(queue, b) ELSE queue

Rise(b) ==
  /\ MayFlip(b) /\ b \notin level
  /\ level' = level \cup {b}
  /\ queue' = Queued(b)
  /\ UNCHANGED <<finger, moved, task, heard>>

Fall(b) ==
  /\ MayFlip(b) /\ b \in level
  /\ level' = level \ {b}
  /\ UNCHANGED <<finger, moved, queue, task, heard>>

Settle(b) == LastTick(b) /\ (Rise(b) \/ Fall(b))

-----------------------------------------------------------------------------
(* buttonTask(). *)
At(place) == task.at = place /\ task.sleep = 0

Goes(place, ticks) == task' = [task EXCEPT !.at = place, !.sleep = ticks]

DebounceTicks == Debounce

Receive ==
  /\ At("receive") /\ queue # << >>
  /\ queue' = Tail(queue)
  /\ task' = [at |-> "look", button |-> Head(queue), sleep |-> DebounceTicks]
  /\ UNCHANGED <<finger, moved, level, heard>>

Pressed(b) == b \in level

(* The result of commandQueue_.send() changes nothing here. *)
SendCommand ==
  /\ At("look") /\ Pressed(task.button)
  /\ heard' = [heard EXCEPT ![task.button] = IF @ = 2 THEN 2 ELSE @ + 1]
  /\ Goes("held", 0)
  /\ UNCHANGED <<finger, moved, level, queue>>

NotPressed ==
  /\ At("look") /\ ~ Pressed(task.button)
  /\ Goes("drain", 0)
  /\ UNCHANGED <<finger, moved, level, queue, heard>>

WaitForRelease ==
  /\ At("held")
  /\ IF Pressed(task.button) THEN Goes("held", 1) ELSE Goes("drain", 0)
  /\ UNCHANGED <<finger, moved, level, queue, heard>>

Drain ==
  /\ At("drain")
  /\ queue' = << >>
  /\ Goes("receive", 0)
  /\ UNCHANGED <<finger, moved, level, heard>>

ButtonTask == Receive \/ SendCommand \/ NotPressed \/ WaitForRelease \/ Drain

-----------------------------------------------------------------------------
TaskBlocked ==
  \/ task.sleep > 0
  \/ task.at = "receive" /\ queue = << >>

Tick ==
  /\ TaskBlocked
  /\ \A b \in Buttons : LastTick(b) => AtRest(b)
  /\ moved' = [b \in Buttons |-> IF moved[b] = PressGap THEN PressGap ELSE moved[b] + 1]
  /\ task' = [task EXCEPT !.sleep = IF @ = 0 THEN 0 ELSE @ - 1]
  /\ UNCHANGED <<finger, level, queue, heard>>

Next ==
  \/ \E b \in Buttons : Press(b) \/ Release(b) \/ Rise(b) \/ Fall(b)
  \/ ButtonTask
  \/ Tick

Spec == Init /\ [][Next]_vars

(* The task runs, time passes, and contacts come to rest. *)
FairSpec ==
  /\ Spec
  /\ WF_vars(ButtonTask)
  /\ WF_vars(Tick)
  /\ \A b \in Buttons : WF_vars(Settle(b))

-----------------------------------------------------------------------------
TypeOK ==
  /\ finger \subseteq Buttons
  /\ moved \in [Buttons -> 0..PressGap]
  /\ level \subseteq Buttons
  /\ queue \in Seq(Buttons) /\ Len(queue) <= QueueDepth
  /\ task \in [at : {"receive", "look", "held", "drain"}, button : Buttons,
               sleep : 0..Debounce]
  /\ heard \in [Buttons -> 0..2]

(* However its contact bounces when it is pressed and when it is released, *)
(* and whatever the other button does, a press moves the blinds once.      *)
OneCommandPerPress == \A b \in Buttons : heard[b] <= 1

(* A press whose edge the task is about to take is answered, unless the    *)
(* finger is taken away again: the bounce is over when the task looks, and *)
(* no press of the other button in the meantime takes its place.           *)
Comes(b) == At("receive") /\ queue # << >> /\ Head(queue) = b /\ b \in finger

FirstPressHeard == \A b \in Buttons : Comes(b) ~> (heard[b] = 1 \/ b \notin finger)

=============================================================================
