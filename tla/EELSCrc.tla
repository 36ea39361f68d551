------------------------------ MODULE EELSCrc ------------------------------
(***************************************************************************)
(* The check byte of a record: EELS_crc8 of src/EELS.c, the polynomial     *)
(* x^8 + x^5 + x^4 + 1 with the initial value 0xff.  Only the modules that *)
(* TLC runs use this one; the proofs hold for every function Crc.          *)
(***************************************************************************)
EXTENDS Integers, SequencesExt, Bitwise

LOCAL shift(crc) == IF crc >= 128 THEN ((2 * crc) % 256) ^^ 49 ELSE 2 * crc

(* The inner loop, for every value the byte may have.                      *)
CrcOfByte ==
  [crc \in 0 .. 255 |->
     shift(shift(shift(shift(shift(shift(shift(shift(crc))))))))]

EELS_crc8(data) ==
  FoldLeft(LAMBDA crc, byte : CrcOfByte[crc ^^ byte], 255, data)

=============================================================================
