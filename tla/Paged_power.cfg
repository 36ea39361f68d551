\* A slot of two pages that may lose its power within any write.
SPECIFICATION HSpec
CONSTANTS
  Slot <- MCSlot
  RomSize = 25
  Payloads <- MCSingle
  Crc <- EELS_crc8
  EpochNone = 4
  Blank = 255
  ReadErrors = {}
  WriteErrors = {}
  Unnoticed = {}
  PowerLosses = TRUE
  Rescans = TRUE
  Lost = Lost
  MaxCleans = 2
INVARIANTS CursorAgrees HistoryInv LogInv ReadsBack HealthCounted PosNextWalks
PROPERTIES RecoversCursor RecoversLength
