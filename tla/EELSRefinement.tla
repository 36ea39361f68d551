--------------------------- MODULE EELSRefinement ---------------------------
(***************************************************************************)
(* A slot implements EELSLog: it is on line from the end of a start-up to  *)
(* the loss of power or the next start-up, the log is what EELS_Len and    *)
(* EELS_ReadIdx show of it, the entry pending is the one its call writes.  *)
(***************************************************************************)
EXTENDS EELSSlot

Entry(d) == [ok |-> EELS_ERROR_OK, data |-> d]

Started      == pc \in {"idle"} \cup Writing
ReadableLog  == [k \in 1 .. EELS_Len |-> EELS_ReadIdx(k - 1)]
PendingEntry == IF pc \in {"insert_data", "insert_head", "insert_rec"}
                THEN {Entry(call.data)} ELSE {}

Log == INSTANCE EELSLog WITH
  online   <- Started,
  log      <- IF Started THEN ReadableLog ELSE <<>>,
  pending  <- PendingEntry,
  Capacity <- Counter_max,
  Entries  <- [ok : {EELS_ERROR_OK, EELS_ERROR_NOK},
               data : [1 .. Slot.raw_data_size -> Byte]],
  Inserted <- {Entry(d) : d \in Payloads}

(* Read through EELS_Len and EELS_ReadIdx, the slot is a log of its        *)
(* Counter_max newest entries after every step of every call, failed       *)
(* writes and cleans included, from whatever EEPROM it has started up:     *)
(* with torn records, with records of a log that a failed clean or a full  *)
(* ring has hidden, or with a cursor that a failed read has misplaced.     *)
ImplementsLog == Log!Spec

=============================================================================
