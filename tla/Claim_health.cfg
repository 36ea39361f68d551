\* Claimed, and violated: a full ring of whole logs is counted as healthy, all of it.
SPECIFICATION HSpec
CONSTANTS
  Slot <- MCFull
  RomSize = 17
  Payloads <- MCSingle
  Crc <- EELS_crc8
  EpochNone = 4
  Blank = 255
  ReadErrors = {}
  WriteErrors = {}
  Unnoticed = {}
  PowerLosses = FALSE
  Rescans = FALSE
  Lost = Lost
  MaxCleans = 0
INVARIANTS HealthAsTested
