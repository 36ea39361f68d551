\* Claimed, and violated: a full ring is counted as one.
SPECIFICATION HSpec
CONSTANTS
  Slot <- MCSlot
  RomSize = 17
  Payloads <- MCPayloads
  Crc <- EELS_crc8
  EpochNone = 4
  Blank = 255
  ReadErrors = {}
  WriteErrors = {}
  Unnoticed = {}
  PowerLosses = FALSE
  Rescans = TRUE
  Lost = Lost
  MaxCleans = 0
INVARIANTS CountsEveryLog
