\* Claimed, and violated: ReadLast on a paged slot.
SPECIFICATION HSpec
CONSTANTS
  Slot <- MCSlot
  RomSize = 25
  Payloads <- MCPayloads
  Crc <- EELS_crc8
  EpochNone = 4
  Blank = 255
  ReadErrors = {}
  WriteErrors = {}
  Unnoticed = {}
  PowerLosses = FALSE
  Rescans = FALSE
  Lost = Lost
  MaxCleans = 0
INVARIANTS ReadLastIsNewest
