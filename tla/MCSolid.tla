------------------------------ MODULE MCSolid ------------------------------
(***************************************************************************)
(* Slots without pages for TLC, with a byte at the end that no record uses *)
(* and bytes before and behind the slot that are not its own.              *)
(***************************************************************************)
EXTENDS EELSHistory, EELSCrc

SolidOf(records, data) ==
  [begining |-> 1, length |-> records * (data + 2) + 1, _counter_max |-> records,
   raw_data_size |-> data, slot_log_length |-> data + 2, page_size |-> 0,
   page_records |-> 0, page_offs |-> 0, page_limit |-> 0]

MCSlot == SolidOf(4, 1)
MCWide == SolidOf(2, 2)    \* logs that a write can leave mixed
MCFull == [MCSlot EXCEPT !.length = 12]    \* no unused byte, as the unit test's

MCPayloads     == {<<1>>, <<2>>}
MCSingle       == {<<1>>}
MCWidePayloads == {<<1, 2>>, <<3, 4>>}

(* What the theorems on mixtures and damage ask of the CRC: for the logs of *)
(* two bytes.  That one byte which changes is told holds for every log, as *)
(* no two bytes leave the same CRC behind.                                 *)
ASSUME MCLogsTold == Slot = MCWide => MixturesTold /\ DamageTold
ASSUME MCByteTold == Cardinality({CrcOfByte[crc] : crc \in 0 .. 255}) = 256

=============================================================================
