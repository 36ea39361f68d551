\* Claimed, and violated: the CRC tells a torn record.
SPECIFICATION HSpec
CONSTANTS
  Slot <- MCSlot
  RomSize = 17
  Payloads <- MCPayloads
  Crc <- EELS_crc8
  EpochNone = 4
  Blank = 255
  ReadErrors = {}
  WriteErrors = {}
  Unnoticed = {}
  PowerLosses = TRUE
  Rescans = TRUE
  Lost = Lost
  MaxCleans = 0
PROPERTIES TornRecFails
