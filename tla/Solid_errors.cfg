\* Insertions of two bytes that may fail or lose the power within a write.
SPECIFICATION HSpec
CONSTANTS
  Slot <- MCWide
  RomSize = 13
  Payloads <- MCWidePayloads
  Crc <- EELS_crc8
  EpochNone = 4
  Blank = 255
  ReadErrors = {}
  WriteErrors = {"insert_data", "insert_head", "insert_rec"}
  Unnoticed = {}
  PowerLosses = TRUE
  Rescans = TRUE
  Lost = Lost
  MaxCleans = 0
INVARIANTS HistoryInv LogInv ReadsBack ReadLastIsNewest NoMixedLog DamageShows
PROPERTIES RecoversCursor
