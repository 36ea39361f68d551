\* Two slots are configured in any order, with narrow integers.
SPECIFICATION Spec
CONSTANTS
  EELS_APP_SLOTS = 2
  ByteSize = 16
  LenSize = 8
  AddrSize = 64
  PageSizes = {0, 8}
  Sections <- MCSections
  Areas <- MCAreas
INVARIANTS ConfigTypeOK SectionAsAsked AcceptedLayout RecordsWhereAsked ValidatedApart SettlesOnce
