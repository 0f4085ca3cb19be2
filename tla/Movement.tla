------------------------------ MODULE Movement ------------------------------
(***************************************************************************)
(* What the pulse machinery promises the Blinds task of its movements: one *)
(* at a time, a step at a time towards the target and never beyond it,     *)
(* until it arrives, is stopped or is reported as failed.  LIMIT_REACHED   *)
(* comes once at most, after the pulses, and belongs to this movement.     *)
(* The promise ends with the first disturbance: a move() that overlaps, a  *)
(* channel or a counter that does not obey.                                *)
(***************************************************************************)
EXTENDS Integers

CONSTANT Targets

VARIABLES
  at,       \* where the shaft is
  goal,     \* the target of the last move()
  moving,   \* is there a movement?
  stopping, \* is a stop() under way?
  failing,  \* is the Blinds task about to report a FAULT?
  told,     \* the events of the last move()
  disturbed \* has the promise ended?

movementVars == <<at, goal, moving, stopping, failing, told, disturbed>>

FailureEvents == {"FAULT", "OVERFLOW"}

Init ==
  /\ at = 0 /\ goal = 0
  /\ moving = FALSE /\ stopping = FALSE /\ failing = FALSE
  /\ told = {}
  /\ disturbed = FALSE

Command(target) ==
  /\ ~ moving /\ ~ failing
  /\ goal' = target
  /\ told' = {}
  /\ UNCHANGED <<at, moving, stopping, failing>>

Begin ==
  /\ ~ moving /\ ~ failing /\ told = {}
  /\ moving' = TRUE
  /\ stopping' = FALSE
  /\ UNCHANGED <<at, goal, failing, told>>

Approach ==
  /\ moving /\ at # goal
  /\ at' = IF goal > at THEN at + 1 ELSE at - 1
  /\ UNCHANGED <<goal, moving, stopping, failing, told>>

(* stop() is called, and returns. *)
Interrupt ==
  /\ ~ failing
  /\ stopping' = TRUE
  /\ UNCHANGED <<at, goal, moving, failing, told>>

Halt ==
  /\ moving => stopping
  /\ moving' = FALSE
  /\ stopping' = FALSE
  /\ UNCHANGED <<at, goal, failing, told>>

(* A call fails while move() is still under way, whose FAULT may come      *)
(* after the other task's LIMIT_REACHED, but does come, or is refused by   *)
(* the full queue, which records that.                                     *)
Falter ==
  /\ failing' = TRUE
  /\ UNCHANGED <<at, goal, moving, stopping, told>>

Fail ==
  /\ moving' = FALSE
  /\ stopping' = FALSE
  /\ failing' \in {FALSE, failing}
  /\ \E failure \in FailureEvents : told' = told \cup {failure}
  /\ UNCHANGED <<at, goal>>

HasArrived == at = goal \/ failing \/ told \cap FailureEvents # {}

Arrive ==
  /\ moving /\ HasArrived
  /\ moving' = FALSE
  /\ UNCHANGED <<at, goal, stopping, failing, told>>

Announce ==
  /\ ~ moving /\ HasArrived /\ "LIMIT_REACHED" \notin told
  /\ told' = told \cup {"LIMIT_REACHED"}
  /\ UNCHANGED <<at, goal, moving, stopping, failing>>

Keeping ==
  \/ \E target \in Targets : Command(target)
  \/ Begin \/ Approach \/ Arrive \/ Announce
  \/ Interrupt \/ Halt
  \/ Falter \/ Fail

Next ==
  \/ Keeping /\ ~ disturbed /\ ~ disturbed'
  \/ disturbed'

Spec == Init /\ [][Next]_movementVars

=============================================================================
