-------------------------- MODULE ButtonHandlerProofs --------------------------
(***************************************************************************)
(* Proof that a press sends one command, for any buttons, any depth of the *)
(* queue and any times that satisfy ButtonAssumption.                      *)
(*                                                                         *)
(* The argument follows one button through buttonTask(): the debounce      *)
(* delay begins while the contact still bounces, so it ends either with    *)
(* the contact at rest or after a release with no new press; while the     *)
(* task waits for the release it looks every tick and cannot miss it.      *)
(***************************************************************************)
EXTENDS ButtonHandler, SequenceTheorems, TLAPS

TaskRecord ==
  [at : {"receive", "look", "held", "drain"}, button : Buttons, sleep : 0..Debounce]

(* A contact that was not moved lately is where the finger is. *)
Resting == \A b \in Buttons : moved[b] >= BounceTicks => AtRest(b)

(* An edge the task can take is one of this very tick. *)
FreshEdges ==
  task.at = "receive" =>
    \A i \in 1..Len(queue) :
      /\ moved[queue[i]] < BounceTicks
      /\ queue[i] \notin finger => moved[queue[i]] + 1 < BounceTicks

(* During the debounce delay of button b. *)
LookOK ==
  LET b == task.button IN
  task.at = "look" =>
    /\ b \in finger =>
         /\ moved[b] + task.sleep < BounceTicks + Debounce
         /\ moved[b] + task.sleep >= Debounce \/ moved[b] >= BounceTicks
    /\ b \notin finger =>
         /\ moved[b] + task.sleep < PressGap
         /\ heard[b] # 0 => moved[b] + task.sleep >= BounceTicks

(* While the task waits for the release of button b. *)
HeldOK ==
  LET b == task.button IN
  task.at = "held" =>
    /\ task.sleep \in {0, 1}
    /\ b \in finger => moved[b] >= BounceTicks
    /\ b \notin finger => moved[b] + task.sleep <= BounceTicks

(* A press the task has answered and is not waiting on is over. *)
AnsweredIsOver ==
  \A b \in Buttons : heard[b] # 0 => b \notin finger \/ (task.at = "held" /\ task.button = b)

Awake == task.at \in {"receive", "drain"} => task.sleep = 0

IInv ==
  /\ TypeOK /\ Awake /\ Resting /\ FreshEdges /\ LookOK /\ HeldOK /\ AnsweredIsOver
  /\ OneCommandPerPress

-----------------------------------------------------------------------------
LEMMA Times ==
  /\ Debounce \in Nat /\ BounceTicks \in Nat /\ PressGap \in Nat
  /\ BounceTicks >= 1 /\ BounceTicks < Debounce
  /\ Debounce + BounceTicks <= PressGap + 1
  /\ BounceTicks < PressGap
  /\ 0 \in 0..Debounce /\ 1 \in 0..Debounce
  BY ButtonAssumption

LEMMA Typing ==
  ASSUME TypeOK
  PROVE  /\ task.at \in {"receive", "look", "held", "drain"}
         /\ task.button \in Buttons /\ task.sleep \in 0..Debounce
         /\ \A b \in Buttons : moved[b] \in 0..PressGap /\ heard[b] \in 0..2
  BY DEF TypeOK

(* The task moved on, with some sleep before it. *)
LEMMA Going ==
  ASSUME TypeOK, NEW place \in {"receive", "look", "held", "drain"}, NEW n \in 0..Debounce,
         task' = [task EXCEPT !.at = place, !.sleep = n]
  PROVE  task'.at = place /\ task'.button = task.button /\ task'.sleep = n /\ task' \in TaskRecord
<1>1. task \in TaskRecord
  BY DEF TypeOK, TaskRecord
<1>2. QED
  BY <1>1 DEF TaskRecord

LEMMA InitOK == Init => IInv
<1> SUFFICES ASSUME Init PROVE IInv
  OBVIOUS
<1>1. TypeOK
  BY Times, ButtonAssumption DEF Init, TypeOK
<1>2. task.at = "receive" /\ task.sleep = 0
  BY DEF Init
<1>3. Resting
  BY DEF Init, Resting, AtRest
<1>4. OneCommandPerPress /\ AnsweredIsOver
  BY DEF Init, OneCommandPerPress, AnsweredIsOver
<1>5. FreshEdges
  BY DEF Init, FreshEdges
<1>6. QED
  BY <1>1, <1>2, <1>3, <1>4, <1>5 DEF IInv, Awake, LookOK, HeldOK

(* A finger comes only when the task is done with the last press.          *)
LEMMA PressOK ==
  ASSUME IInv, NEW b \in Buttons, Press(b)
  PROVE  IInv'
<1> USE DEF IInv
<1>1. /\ b \notin finger /\ moved[b] = PressGap
      /\ finger' = finger \cup {b} /\ UNCHANGED <<level, queue, task>>
      /\ moved' = [moved EXCEPT ![b] = 0] /\ heard' = [heard EXCEPT ![b] = 0]
  BY DEF Press, Moves
<1>2. TypeOK'
  BY <1>1, Times DEF TypeOK
<1>3. /\ moved'[b] = 0 /\ heard'[b] = 0
      /\ \A c \in Buttons \ {b} : moved'[c] = moved[c] /\ heard'[c] = heard[c]
                                  /\ (c \in finger' <=> c \in finger)
  BY <1>1 DEF TypeOK
<1>4. Resting' /\ AnsweredIsOver' /\ OneCommandPerPress'
  BY <1>1, <1>3, Times DEF Resting, AtRest, AnsweredIsOver, OneCommandPerPress
<1>5. FreshEdges'
  <2>1. ASSUME task.at = "receive", NEW i \in 1..Len(queue)
        PROVE  queue[i] \in Buttons \ {b}
    BY <1>1, <2>1, Times DEF FreshEdges, TypeOK
  <2>2. QED
    BY <1>1, <1>3, <2>1 DEF FreshEdges
<1>6. task.at \in {"look", "held"} => task.button # b
  BY <1>1, Times, Typing DEF LookOK, HeldOK
<1>7. LookOK' /\ HeldOK' /\ Awake'
  BY <1>1, <1>3, <1>6, Typing DEF LookOK, HeldOK, Awake
<1>8. QED
  BY <1>2, <1>4, <1>5, <1>7

LEMMA ReleaseOK ==
  ASSUME IInv, NEW b \in Buttons, Release(b)
  PROVE  IInv'
<1> USE DEF IInv
<1>1. /\ b \in finger /\ moved[b] >= BounceTicks
      /\ finger' = finger \ {b} /\ UNCHANGED <<level, queue, task, heard>>
      /\ moved' = [moved EXCEPT ![b] = 0]
  BY DEF Release, Moves
<1>2. TypeOK'
  BY <1>1, Times DEF TypeOK
<1>3. /\ moved'[b] = 0
      /\ \A c \in Buttons \ {b} : moved'[c] = moved[c] /\ (c \in finger' <=> c \in finger)
  BY <1>1 DEF TypeOK
<1>4. Resting' /\ AnsweredIsOver' /\ OneCommandPerPress'
  BY <1>1, <1>3, Times DEF Resting, AtRest, AnsweredIsOver, OneCommandPerPress
<1>5. FreshEdges'
  <2>1. ASSUME task.at = "receive", NEW i \in 1..Len(queue)
        PROVE  queue[i] \in Buttons \ {b}
    BY <1>1, <2>1, Times, Typing DEF FreshEdges, TypeOK
  <2>2. QED
    BY <1>1, <1>3, <2>1 DEF FreshEdges
<1>6. LookOK'
  <2>1. CASE task.at = "look" /\ task.button = b
    <3>1. heard[b] = 0
      BY <1>1, <2>1, Typing DEF AnsweredIsOver
    <3>2. task.sleep < Debounce /\ task.sleep \in Nat
      BY <1>1, <2>1, Times, Typing DEF LookOK
    <3>3. moved'[b] + task.sleep < PressGap
      BY <1>3, <3>2, Times
    <3>4. QED
      BY <1>1, <2>1, <3>1, <3>3 DEF LookOK
  <2>2. CASE ~ (task.at = "look" /\ task.button = b)
    BY <1>1, <1>3, <2>2, Typing DEF LookOK
  <2>3. QED
    BY <2>1, <2>2
<1>7. HeldOK' /\ Awake'
  BY <1>1, <1>3, Times, Typing DEF HeldOK, Awake
<1>8. QED
  BY <1>2, <1>4, <1>5, <1>6, <1>7

(* The contact bounces. *)
LEMMA BounceOK ==
  ASSUME IInv, NEW b \in Buttons, Rise(b) \/ Fall(b)
  PROVE  IInv'
<1> USE DEF IInv
<1>1. moved[b] < BounceTicks /\ (b \notin finger /\ b \notin level => moved[b] + 1 < BounceTicks)
  BY Times, Typing DEF Rise, Fall, MayFlip, LastTick, AtRest
<1>2. /\ UNCHANGED <<finger, moved, task, heard>>
      /\ level' \subseteq Buttons /\ \A c \in Buttons \ {b} : c \in level' <=> c \in level
  BY DEF Rise, Fall, TypeOK
<1>3. Resting'
  <2>1. SUFFICES ASSUME NEW c \in Buttons, moved'[c] >= BounceTicks PROVE AtRest(c)'
    BY DEF Resting
  <2>2. c # b /\ moved[c] >= BounceTicks
    BY <1>1, <1>2, <2>1, Times, Typing
  <2>3. AtRest(c) /\ (c \in level' <=> c \in level)
    BY <1>2, <2>2 DEF Resting
  <2>4. QED
    BY <1>2, <2>3 DEF AtRest
<1>4. queue' \in Seq(Buttons) /\ Len(queue') <= QueueDepth
  <2>1. queue \in Seq(Buttons) /\ Len(queue) <= QueueDepth
    BY DEF TypeOK
  <2>2. queue' = queue \/ (queue' = Append(queue, b) /\ Len(queue) < QueueDepth)
    BY DEF Rise, Fall, Queued
  <2>3. CASE queue' = queue
    BY <2>1, <2>3
  <2>4. CASE queue' = Append(queue, b) /\ Len(queue) < QueueDepth
    BY <2>1, <2>4, AppendProperties, ButtonAssumption
  <2>5. QED
    BY <2>2, <2>3, <2>4
<1>5. FreshEdges'
  <2>1. CASE queue' = queue
    BY <1>2, <2>1 DEF FreshEdges
  <2>2. CASE queue' # queue
    <3>1. b \notin level /\ queue' = Append(queue, b) /\ queue \in Seq(Buttons)
      BY <2>2 DEF Rise, Fall, Queued, TypeOK
    <3>2. /\ Len(queue') = Len(queue) + 1 /\ queue'[Len(queue) + 1] = b
          /\ \A i \in 1..Len(queue) : queue'[i] = queue[i]
          /\ Len(queue) \in Nat
      BY <3>1, AppendProperties
    <3>3. \A i \in 1..Len(queue') : queue'[i] = b \/ (i \in 1..Len(queue) /\ queue'[i] = queue[i])
      BY <3>2
    <3>4. QED
      BY <1>1, <1>2, <3>1, <3>3 DEF FreshEdges
  <2>3. QED
    BY <2>1, <2>2
<1>6. QED
  BY <1>2, <1>3, <1>4, <1>5
  DEF TypeOK, Awake, LookOK, HeldOK, AnsweredIsOver, OneCommandPerPress

(* The delay begins with an edge of this tick. *)
LEMMA ReceiveOK ==
  ASSUME IInv, Receive
  PROVE  IInv'
<1> USE DEF IInv
<1> DEFINE b == Head(queue)
<1>1. /\ task.at = "receive" /\ queue # << >> /\ queue' = Tail(queue)
      /\ task' = [at |-> "look", button |-> b, sleep |-> Debounce]
      /\ UNCHANGED <<finger, moved, level, heard>>
  BY DEF Receive, At, DebounceTicks
<1>2. /\ b \in Buttons /\ queue' \in Seq(Buttons) /\ Len(queue') <= QueueDepth
      /\ 1 \in 1..Len(queue) /\ b = queue[1]
  BY <1>1, HeadTailProperties, ButtonAssumption DEF TypeOK
<1> HIDE DEF b
<1>3. TypeOK'
  BY <1>1, <1>2, Times DEF TypeOK
<1>4. moved[b] < BounceTicks /\ (b \notin finger => moved[b] + 1 < BounceTicks)
  BY <1>1, <1>2 DEF FreshEdges
<1>5. LookOK'
  BY <1>1, <1>2, <1>4, Times, Typing DEF LookOK
<1>6. AnsweredIsOver' /\ OneCommandPerPress'
  BY <1>1 DEF AnsweredIsOver, OneCommandPerPress
<1>7. Resting' /\ Awake' /\ FreshEdges' /\ HeldOK'
  BY <1>1 DEF Resting, AtRest, Awake, FreshEdges, HeldOK
<1>8. QED
  BY <1>3, <1>5, <1>6, <1>7

(* The task looks at the pin: a button answered before is no longer down.  *)
LEMMA LookedOK ==
  ASSUME IInv, SendCommand \/ NotPressed
  PROVE  IInv'
<1> USE DEF IInv
<1> DEFINE b == task.button
<1>1. /\ task.at = "look" /\ task.sleep = 0 /\ b \in Buttons /\ moved[b] \in Nat
      /\ UNCHANGED <<finger, moved, level, queue>>
  BY Typing DEF SendCommand, NotPressed, At
<1>2. b \in finger => moved[b] >= BounceTicks /\ b \in level /\ heard[b] = 0
  BY <1>1, Times DEF LookOK, Resting, AtRest, AnsweredIsOver
<1>3. b \notin finger /\ heard[b] # 0 => b \notin level
  BY <1>1 DEF LookOK, Resting, AtRest
<1>4. CASE SendCommand
  <2>1. b \in level /\ heard[b] = 0
    BY <1>2, <1>3, <1>4 DEF SendCommand, Pressed
  <2>2. task' = [task EXCEPT !.at = "held", !.sleep = 0]
    BY <1>4 DEF SendCommand, Goes
  <2>3. task'.at = "held" /\ task'.button = b /\ task'.sleep = 0 /\ task' \in TaskRecord
    BY <2>2, Times, Going
  <2>4. heard' = [heard EXCEPT ![b] = 1]
    BY <1>4, <2>1 DEF SendCommand
  <2>5. b \notin finger => moved[b] < BounceTicks
    BY <1>1, <2>1, Times DEF Resting, AtRest
  <2>6. TypeOK'
    BY <1>1, <2>3, <2>4 DEF TypeOK, TaskRecord
  <2>7. HeldOK'
    BY <1>1, <1>2, <2>3, <2>5, Times DEF HeldOK
  <2>8. AnsweredIsOver' /\ OneCommandPerPress'
    BY <1>1, <2>3, <2>4 DEF AnsweredIsOver, OneCommandPerPress, TypeOK
  <2>9. Resting' /\ Awake' /\ FreshEdges' /\ LookOK'
    BY <1>1, <2>3 DEF Resting, AtRest, Awake, FreshEdges, LookOK
  <2>10. QED
    BY <2>6, <2>7, <2>8, <2>9
<1>5. CASE NotPressed
  <2>1. task' = [task EXCEPT !.at = "drain", !.sleep = 0] /\ UNCHANGED heard
    BY <1>5 DEF NotPressed, Goes
  <2>2. task'.at = "drain" /\ task'.sleep = 0 /\ task' \in TaskRecord
    BY <2>1, Times, Going
  <2>3. TypeOK'
    BY <1>1, <2>1, <2>2 DEF TypeOK, TaskRecord
  <2>4. AnsweredIsOver' /\ OneCommandPerPress'
    BY <1>1, <2>1, <2>2 DEF AnsweredIsOver, OneCommandPerPress
  <2>5. Resting' /\ Awake' /\ FreshEdges' /\ LookOK' /\ HeldOK'
    BY <1>1, <2>2 DEF Resting, AtRest, Awake, FreshEdges, LookOK, HeldOK
  <2>6. QED
    BY <2>3, <2>4, <2>5
<1>6. QED
  BY <1>4, <1>5

(* A pin seen low is a finger gone. *)
LEMMA WaitOK ==
  ASSUME IInv, WaitForRelease
  PROVE  IInv'
<1> USE DEF IInv
<1> DEFINE b == task.button
<1>1. /\ task.at = "held" /\ task.sleep = 0 /\ b \in Buttons /\ moved[b] \in Nat
      /\ UNCHANGED <<finger, moved, level, queue, heard>>
  BY Typing DEF WaitForRelease, At
<1>2. b \in finger => moved[b] >= BounceTicks /\ b \in level
  BY <1>1 DEF HeldOK, Resting, AtRest
<1>3. CASE Pressed(b)
  <2>1. task' = [task EXCEPT !.at = "held", !.sleep = 1]
    BY <1>3 DEF WaitForRelease, Goes
  <2>2. task'.at = "held" /\ task'.button = b /\ task'.sleep = 1 /\ task' \in TaskRecord
    BY <2>1, Times, Going
  <2>3. b \notin finger => moved[b] < BounceTicks
    BY <1>1, <1>3, Times DEF Resting, AtRest, Pressed
  <2>4. HeldOK'
    BY <1>1, <1>2, <2>2, <2>3, Times DEF HeldOK
  <2>5. TypeOK' /\ Awake' /\ Resting' /\ FreshEdges' /\ LookOK' /\ AnsweredIsOver'
        /\ OneCommandPerPress'
    BY <1>1, <2>2
    DEF TypeOK, TaskRecord, Awake, Resting, AtRest, FreshEdges, LookOK, AnsweredIsOver,
        OneCommandPerPress
  <2>6. QED
    BY <2>4, <2>5
<1>4. CASE ~ Pressed(b)
  <2>1. task' = [task EXCEPT !.at = "drain", !.sleep = 0]
    BY <1>4 DEF WaitForRelease, Goes
  <2>2. task'.at = "drain" /\ task'.sleep = 0 /\ task' \in TaskRecord
    BY <2>1, Times, Going
  <2>3. b \notin finger
    BY <1>2, <1>4 DEF Pressed
  <2>4. AnsweredIsOver'
    BY <1>1, <2>2, <2>3 DEF AnsweredIsOver
  <2>5. TypeOK' /\ Awake' /\ Resting' /\ FreshEdges' /\ LookOK' /\ HeldOK' /\ OneCommandPerPress'
    BY <1>1, <2>2
    DEF TypeOK, TaskRecord, Awake, Resting, AtRest, FreshEdges, LookOK, HeldOK,
        OneCommandPerPress
  <2>6. QED
    BY <2>4, <2>5
<1>5. QED
  BY <1>3, <1>4

LEMMA DrainOK ==
  ASSUME IInv, Drain
  PROVE  IInv'
<1> USE DEF IInv
<1>1. /\ task.at = "drain" /\ queue' = << >> /\ UNCHANGED <<finger, moved, level, heard>>
      /\ task' = [task EXCEPT !.at = "receive", !.sleep = 0]
  BY DEF Drain, At, Goes
<1>2. task'.at = "receive" /\ task'.sleep = 0 /\ task' \in TaskRecord
  BY <1>1, Times, Going
<1>3. TypeOK'
  BY <1>1, <1>2, ButtonAssumption DEF TypeOK, TaskRecord
<1>4. FreshEdges'
  BY <1>1 DEF FreshEdges
<1>5. Awake' /\ Resting' /\ LookOK' /\ HeldOK' /\ AnsweredIsOver' /\ OneCommandPerPress'
  BY <1>1, <1>2
  DEF Awake, Resting, AtRest, LookOK, HeldOK, AnsweredIsOver, OneCommandPerPress
<1>6. QED
  BY <1>3, <1>4, <1>5

(* Time passes only while the task sleeps or has nothing to take. *)
LEMMA TickOK ==
  ASSUME IInv, Tick
  PROVE  IInv'
<1> USE DEF IInv
<1>1. /\ TaskBlocked /\ UNCHANGED <<finger, level, queue, heard>>
      /\ \A b \in Buttons : LastTick(b) => AtRest(b)
  BY DEF Tick
<1>2. \A b \in Buttons : moved'[b] = IF moved[b] = PressGap THEN PressGap ELSE moved[b] + 1
  BY DEF Tick
<1>3. task' = [task EXCEPT !.sleep = IF task.sleep = 0 THEN 0 ELSE task.sleep - 1]
  BY DEF Tick
<1>4. /\ task'.at = task.at /\ task'.button = task.button /\ task' \in TaskRecord
      /\ task'.sleep = IF task.sleep = 0 THEN 0 ELSE task.sleep - 1
  <2>1. task.sleep \in 0..Debounce /\ Debounce \in Nat
    BY Times, Typing
  <2>2. (IF task.sleep = 0 THEN 0 ELSE task.sleep - 1) \in 0..Debounce
    BY <2>1
  <2>3. task' = [task EXCEPT !.at = task.at,
                             !.sleep = IF task.sleep = 0 THEN 0 ELSE task.sleep - 1]
    BY <1>3 DEF TypeOK
  <2>4. QED
    BY <2>2, <2>3, Typing, Going
<1>5. moved' \in [Buttons -> 0..PressGap]
  BY Times, Typing DEF Tick
<1>6. TypeOK'
  BY <1>1, <1>4, <1>5 DEF TypeOK, TaskRecord
<1>7. Resting'
  BY <1>1, <1>2, Times, Typing DEF Resting, AtRest, LastTick
<1>8. Awake' /\ AnsweredIsOver' /\ OneCommandPerPress'
  BY <1>1, <1>4 DEF Awake, AnsweredIsOver, OneCommandPerPress
<1>9. FreshEdges'
  <2>1. task.at = "receive" => queue = << >>
    BY <1>1 DEF TaskBlocked, Awake
  <2>2. QED
    BY <1>1, <1>4, <2>1 DEF FreshEdges
<1>10. task.at \in {"look", "held"} => task.sleep > 0
  BY <1>1 DEF TaskBlocked
<1>11. LookOK'
  <2>1. SUFFICES ASSUME task.at = "look" PROVE LookOK'
    BY <1>4 DEF LookOK
  <2>2. /\ task.button \in Buttons /\ moved[task.button] \in 0..PressGap
        /\ task.sleep \in Nat /\ task'.sleep = task.sleep - 1
    BY <1>4, <1>10, <2>1, Typing
  <2>3. QED
    BY <1>1, <1>2, <1>4, <2>1, <2>2, Times DEF LookOK
<1>12. HeldOK'
  <2>1. SUFFICES ASSUME task.at = "held" PROVE HeldOK'
    BY <1>4 DEF HeldOK
  <2>2. /\ task.button \in Buttons /\ moved[task.button] \in 0..PressGap
        /\ task.sleep = 1 /\ task'.sleep = 0
    BY <1>4, <1>10, <2>1, Typing DEF HeldOK
  <2>3. QED
    BY <1>1, <1>2, <1>4, <2>1, <2>2, Times DEF HeldOK
<1>13. QED
  BY <1>6, <1>7, <1>8, <1>9, <1>11, <1>12

LEMMA IInvNext ==
  ASSUME IInv, [Next]_vars
  PROVE  IInv'
<1>1. ASSUME NEW b \in Buttons, Press(b) \/ Release(b) \/ Rise(b) \/ Fall(b) PROVE IInv'
  BY <1>1, PressOK, ReleaseOK, BounceOK
<1>2. CASE ButtonTask
  BY <1>2, ReceiveOK, LookedOK, WaitOK, DrainOK DEF ButtonTask
<1>3. CASE Tick
  BY <1>3, TickOK
<1>4. CASE UNCHANGED vars
  BY <1>4 DEF vars, IInv, TypeOK, Awake, Resting, AtRest, FreshEdges, LookOK, HeldOK,
     AnsweredIsOver, OneCommandPerPress
<1>5. QED
  BY <1>1, <1>2, <1>3, <1>4 DEF Next

(* Every reachable state satisfies the invariant the theorems rest on.     *)
THEOREM Invariance == Spec => []IInv
<1>1. IInv /\ [Next]_vars => IInv'
  BY IInvNext
<1>2. QED
  BY InitOK, <1>1, PTL DEF Spec

(* A press of a button makes buttonTask() send one command at most, however *)
(* its contact bounces on the way in and on the way out and whatever the   *)
(* other buttons do.                                                       *)
THEOREM PressHeardOnce == Spec => []OneCommandPerPress
<1>1. IInv => OneCommandPerPress
  BY DEF IInv
<1>2. QED
  BY Invariance, <1>1, PTL

=============================================================================
