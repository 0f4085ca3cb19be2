-------------------------- MODULE MCTmc2209Driver --------------------------
(* Values for TLC, and what Tmc2209Driver assumes of the CRC, for a request *)
(* (4 bytes) and for a write or a reply (8 bytes).                         *)
EXTENDS Tmc2209Driver, TmcCrc

ASSUME CrcDetects == DetectsTwoBits(4) /\ DetectsTwoBits(8)

AllCounts == 0..255

=============================================================================
