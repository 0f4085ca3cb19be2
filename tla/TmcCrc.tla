-------------------------------- MODULE TmcCrc --------------------------------
(***************************************************************************)
(* tmcCrc(): the 8-bit CRC of a TMC2209 datagram, bits taken least         *)
(* significant first.  A frame is a sequence of bits; an error is the set  *)
(* of the bits the line has flipped.                                       *)
(***************************************************************************)
EXTENDS Integers, SequencesExt

(* n XOR 0x07. *)
Xor7(n) == 8 * (n \div 8) + 7 - (n % 8)

ShiftBit(crc, bit) ==
  LET shifted == (crc * 2) % 256 IN
  IF crc \div 128 # bit THEN Xor7(shifted) ELSE shifted

Crc(bits) == FoldLeft(ShiftBit, 0, bits)

(* A byte of the frame, sent least significant bit first. *)
ByteBits(byte) == [i \in 1..8 |-> (byte \div 2^(i - 1)) % 2]

(* The CRC is linear, so an error goes unnoticed if and only if it is a    *)
(* frame with a correct CRC itself.                                        *)
Unnoticed(size, flipped) ==
  LET bit == [i \in 1..(8 * size) |-> IF i \in flipped THEN 1 ELSE 0] IN
  ByteBits(Crc(SubSeq(bit, 1, 8 * (size - 1)))) = SubSeq(bit, 8 * (size - 1) + 1, 8 * size)

(* In a datagram of size bytes, one or two flipped bits never go unnoticed. *)
DetectsTwoBits(size) ==
  \A i \in 1..(8 * size), j \in 1..(8 * size) : i <= j => ~ Unnoticed(size, {i, j})

=============================================================================
