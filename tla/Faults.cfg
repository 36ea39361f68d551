\* Every read and write of a paged slot may fail, noticed or not.
SPECIFICATION FairSpec
CONSTANTS
  Slot <- MCPaged
  RomSize = 25
  Payloads <- MCBlank
  Crc <- MCNoCrc
  EpochNone = 4
  Blank = 255
  ReadErrors <- MCErrors
  WriteErrors = {"insert_data", "insert_head", "insert_rec", "clean_head"}
  Unnoticed = {"insert_data", "insert_head", "insert_rec", "clean_head"}
  PowerLosses = TRUE
  Rescans = TRUE
INVARIANTS SlotInv SearchNarrows
PROPERTIES OnlyCursorRecord EveryCallReturns
