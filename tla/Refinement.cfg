\* A slot whose reads and writes may fail and whose power may go implements
\* the abstract log.
SPECIFICATION Spec
CONSTANTS
  Slot <- MCSolid
  RomSize = 12
  Payloads <- MCPayloads
  Crc <- MCNoCrc
  EpochNone = 4
  Blank = 255
  ReadErrors <- MCErrors
  WriteErrors = {"insert_data", "insert_head", "insert_rec", "clean_head"}
  Unnoticed = {}
  PowerLosses = TRUE
  Rescans = TRUE
INVARIANTS WriteExact
PROPERTIES ImplementsLog
