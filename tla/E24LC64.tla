------------------------------- MODULE E24LC64 -------------------------------
(***************************************************************************)
(* The driver of the EEPROM, src/driver/E24LC64.cpp.  The chip programs at *)
(* most a page at once, so eeprom_write sends a write in pieces, one call  *)
(* of _PageWrite each; any of them may fail, or lose the power, after some *)
(* of its bytes.  A write has at most 255 bytes (EELS.c:610), so the       *)
(* uint8_t length of _PageWrite cuts nothing off.                          *)
(***************************************************************************)
EXTENDS Integers, Sequences

CONSTANTS
  RomSize,   \* bytes of the chip
  ChipPage   \* E24LC64_WRITE_PAGE_SIZE

ASSUME ChipAssumption == {RomSize, ChipPage} \subseteq Nat \ {0}

VARIABLES
  chip,   \* the bytes of the chip
  sent    \* the bytes of the eeprom_write in progress that are behind it

ChipInit(blank) ==
  /\ chip = [a \in 0 .. RomSize - 1 |-> blank]
  /\ sent = 0

(* _PageWrite: what exceeds the page is trimmed.                           *)
Trimmed_not(address, length) == length                        \* mutant
Trimmed(address, length) ==
  LET head == address % ChipPage
  IN IF head + length > ChipPage THEN ChipPage - head ELSE length

(* eeprom_write: how far a page write brings it.                           *)
SentLength_head(address) == address % ChipPage                \* mutant
SentLength(address) == ChipPage - (address % ChipPage)

Sent(bytes) == IF sent < Len(bytes) THEN sent ELSE Len(bytes)

(* The piece that the next page write sends.                               *)
Piece(at, bytes) ==
  SubSeq(bytes, Sent(bytes) + 1,
         Sent(bytes) + Trimmed(at + sent, Len(bytes) - Sent(bytes)))

(* The chip takes the bytes one by one and never leaves the page: a byte   *)
(* too many goes over the first ones.                                      *)
Latched(address, bytes) ==
  LET page     == address - (address % ChipPage)
      first(a) == 1 + ((a - address) % ChipPage)
      last(a)  == first(a) + ChipPage * ((Len(bytes) - first(a)) \div ChipPage)
  IN [a \in DOMAIN chip |->
        IF a \in page .. page + ChipPage - 1 /\ first(a) <= Len(bytes)
        THEN bytes[last(a)] ELSE chip[a]]

PageWrite(at, bytes) ==
  /\ sent < Len(bytes)
  /\ chip' = Latched(at + sent, Piece(at, bytes))
  /\ sent' = sent + SentLength(at + sent)

(* The loop of eeprom_write has come to its end.                           *)
WriteSent(bytes) ==
  /\ sent >= Len(bytes)
  /\ sent' = 0
  /\ UNCHANGED chip

(* A page write that fails, or is the last before the power goes, has      *)
(* programmed its first k bytes.                                           *)
BrokenOff(at, bytes, k) ==
  /\ k <= Len(Piece(at, bytes))
  /\ chip' = Latched(at + sent, SubSeq(Piece(at, bytes), 1, k))
  /\ sent' = 0

=============================================================================
