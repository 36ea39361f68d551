\* An unpaged slot that may lose its power within any write, and fail to clean.
SPECIFICATION HSpec
CONSTANTS
  Slot <- MCSlot
  RomSize = 17
  Payloads <- MCSingle
  Crc <- EELS_crc8
  EpochNone = 4
  Blank = 255
  ReadErrors = {}
  WriteErrors = {"clean_head"}
  Unnoticed = {}
  PowerLosses = TRUE
  Rescans = TRUE
  Lost = Lost
  MaxCleans = 2
INVARIANTS TypeOK StampsTellTheEnd HistoryInv LogInv ReadsBack SearchNarrows
PROPERTIES RecoversCursor RecoversLength
