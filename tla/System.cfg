\* Two slots in one EEPROM, behind the driver of the chip.
SPECIFICATION FairSpec
CONSTANTS
  SlotA <- MCSlotA
  SlotB <- MCSlotB
  RomSize = 24
  ChipPage = 2
  Payloads <- MCBlank
  Crc <- MCNoCrc
  EpochNone = 4
  Blank = 255
  ReadErrors = {}
  PowerLosses = TRUE
  Rescans = FALSE
  MaxFails = 2
INVARIANTS ChipIsRom
PROPERTIES SlotsAlone CallsReturn
