-------------------------- MODULE MCMotorController --------------------------
(* MotorController with the small constants of the configurations. *)
EXTENDS MotorController

(* What follows an overlapping move() is explored by the run that fails    *)
(* channel and counter too: the properties here say nothing of it.         *)
BeforeOverlap == "overlap" \notin trouble

(* An overlapping move() and a call that fails are explored each by itself. *)
OneTrouble == "overlap" \in trouble => trouble = {"overlap"}

=============================================================================
