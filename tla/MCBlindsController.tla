------------------------- MODULE MCBlindsController -------------------------
(* Instances of BlindsController for TLC. *)
EXTENDS BlindsController

=============================================================================
