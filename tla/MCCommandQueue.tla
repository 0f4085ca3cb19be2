--------------------------- MODULE MCCommandQueue ---------------------------
(* Instances of CommandQueue for TLC. *)
EXTENDS CommandQueue, TLC

(* Senders differ in name only. *)
SenderSymmetry == Permutations(Senders)

=============================================================================
