\* Claimed, and violated: the search over pages.
SPECIFICATION HSpec
CONSTANTS
  Slot <- MCColumn
  RomSize = 33
  Payloads <- MCSingle
  Crc <- EELS_crc8
  EpochNone = 4
  Blank = 255
  ReadErrors = {}
  WriteErrors = {}
  Unnoticed = {}
  PowerLosses = TRUE
  Rescans = TRUE
  Lost = Lost
  MaxCleans = 0
PROPERTIES RecoversCursor
