------------------------------ MODULE EELSSlot ------------------------------
(***************************************************************************)
(* One log slot of src/EELS.c: the ring of records it keeps in the EEPROM, *)
(* its write cursor in RAM, and the operations on them, each split at      *)
(* every EEPROM access, for an access may fail and the power may be lost   *)
(* in the middle of one.  This is the build without proto-threads          *)
(* (EELS_Conf.h:32): a call runs to its end before the next one starts.    *)
(*                                                                         *)
(* A record is  [epoch][crc][data...].  Every lap round the ring stamps    *)
(* its records with the next epoch; at start-up _EELS_FindLastPos finds    *)
(* the write cursor again as the place where the stamps change.            *)
(*                                                                         *)
(* A definition marked `mutant' is a plausible mistake in the definition   *)
(* of the same name without the suffix; nothing uses it but a run that     *)
(* makes sure the properties notice the mistake.                           *)
(***************************************************************************)
EXTENDS EELSLayout, FiniteSets, Sequences

CONSTANTS
  Slot,         \* the layout EELS_SetSlot gave this slot
  RomSize,      \* size of the EEPROM in bytes
  Payloads,     \* the logs the application inserts: sequences of bytes
  Crc(_),       \* EELS_CRC8 over a log
  EpochNone,    \* EELS_EPOCH_NONE: 0x80 in the source, the top bit of a byte
  Blank,        \* a byte of an EEPROM never written
  ReadErrors,   \* error codes that EELS_EEPROM_READ may return
  WriteErrors,  \* the writes (values of pc) that may fail with an error < 0
  Unnoticed,    \* the writes that may fail with an error > 0: `ok < 0' is all
                \* that EELS.c tests, so it takes them for done
  PowerLosses,  \* whether the power may be lost
  Rescans       \* whether EELS_SetSlot/_EELS_FindLastPos may be called again

Byte == 0 .. 255
Addr == 0 .. RomSize - 1

ASSUME SlotAssumption ==
  /\ SlotLayout(Slot)
  /\ RomSize \in Nat
  /\ Slot.begining + Slot.length <= RomSize

ASSUME DataAssumption ==
  /\ Payloads \subseteq [1 .. Slot.raw_data_size -> Byte]
  /\ \A d \in Payloads : Crc(d) \in Byte
  /\ Blank \in Byte

ASSUME EpochAssumption == EpochNone \in 4 .. 128

ASSUME FaultAssumption ==
  /\ ReadErrors \subseteq Int \ {0}
  /\ WriteErrors \cup Unnoticed
       \subseteq {"insert_data", "insert_head", "insert_rec", "clean_head"}
  /\ {PowerLosses, Rescans} \subseteq BOOLEAN

VARIABLES
  rom,    \* the bytes of the EEPROM
  slot,   \* EELslot_arr[slotNumber]: the fields the operations change
  call,   \* the EEPROM write in progress and the log it belongs to
  scan,   \* the locals of _EELS_FindLastPos
  pc      \* where in which call the slot is

vars == <<rom, slot, call, scan, pc>>

Writing  == {"insert_data", "insert_head", "insert_rec", "clean_head"}
Scanning == {"scan_pages", "scan_recs", "scan_solid"}

Counter_max == Slot._counter_max
Pos0        == eels_index_pos(Slot, 0)

(* eels_pos_ok only looks at the first byte of a record.                   *)
PosOk(x) == eels_pos_ok(Slot, x)

-----------------------------------------------------------------------------
(* Epochs: seven bits that count modulo EELS_EPOCH_NONE; the eighth marks  *)
(* an empty slot.  A byte with that bit set is >= EpochNone.               *)

HasNone(x) == x >= EpochNone

next_epoch_unmasked(x) == x + 1                               \* mutant
next_epoch(x) == (x + 1) % EpochNone

is_next_epoch(now, next) ==
  /\ ~ HasNone(now) /\ ~ HasNone(next)
  /\ next = next_epoch(now)

-----------------------------------------------------------------------------
(* The EEPROM.                                                             *)

(* rom after `bytes' have been programmed from address `at' on.            *)
Program(at, bytes) ==
  [a \in Addr |-> IF a \in at .. at + Len(bytes) - 1
                  THEN bytes[a - at + 1] ELSE rom[a]]

(* The write in progress has programmed its first k bytes.                 *)
Landed(k) == rom' = Program(call.at, SubSeq(call.bytes, 1, k))

(* How many bytes may have been programmed when a write is taken for done. *)
Done == IF pc \in Unnoticed THEN 0 .. Len(call.bytes) ELSE {Len(call.bytes)}

DataAt(pos) == [i \in 1 .. Slot.raw_data_size |-> rom[pos + EELS_RECSIZE_HEAD + i - 1]]
CrcAt(pos)  == rom[pos + EELS_RECOFFS_CRC]

(* What _EELS_ReadCounter may return: the epoch byte, or the error code of *)
(* the failed read cut down to a byte, or what was to be read into.        *)
Misread(err) == IF err < 0 THEN err % 256 ELSE 0
_EELS_ReadCounter(pos) == {rom[pos]} \cup {Misread(err) : err \in ReadErrors}

-----------------------------------------------------------------------------
(* The write cursor.                                                       *)

Cursor == [write_position : Nat, write_index : 0 .. Counter_max - 1,
           epoch_counter : 0 .. EpochNone - 1, overlaped : BOOLEAN]

BeyondTop(cnt) == cnt >= Counter_max

(* The cursor after the record under it has been written.                  *)
eels_write_advance(this) ==
  LET next == eels_next_pos(Slot, this.write_position)
      cnt  == IF this.write_position > next THEN 0 ELSE this.write_index + 1
      wrap == BeyondTop(cnt)
      lap  == cnt = 0 \/ wrap
  IN [write_position |-> IF wrap THEN Pos0 ELSE next,
      write_index    |-> IF lap THEN 0 ELSE cnt,
      epoch_counter  |-> IF lap THEN next_epoch(this.epoch_counter)
                                ELSE this.epoch_counter,
      overlaped      |-> lap \/ this.overlaped]

(* The RAM of a slot before EELS_SetSlot: EELS_Init and static storage.    *)
Cleared == [write_position |-> 0, write_index |-> 0,
            epoch_counter |-> 0, overlaped |-> FALSE]

NoWrite == [at |-> 0, bytes |-> <<>>, data |-> <<>>]
NoScan  == [epoch |-> 0, lo |-> 0, hi |-> 0, xi |-> 0, page |-> 0]

Init ==
  /\ rom = [a \in Addr |-> Blank]
  /\ slot = Cleared
  /\ call = NoWrite
  /\ scan = NoScan
  /\ pc = "off"

(* The call goes on to write `bytes' at `at'; it returns to its caller.    *)
Write(where, at, bytes, d) ==
  /\ pc' = where
  /\ call' = [at |-> at, bytes |-> bytes, data |-> d]

Return ==
  /\ pc' = "idle"
  /\ call' = NoWrite
  /\ scan' = NoScan

-----------------------------------------------------------------------------
(* EELS_InsertLog and EELS_InsertRec.  The first writes the data and then  *)
(* the header that completes the record, the second the record at once.    *)

Header(d) == <<slot.epoch_counter, Crc(d)>>

Unwrapped(this) ==
  IF this.write_index >= Counter_max
  THEN [this EXCEPT !.write_index = 0, !.write_position = Pos0]
  ELSE this

Insert(where, ofs, bytes, d) ==
  LET this == Unwrapped(slot)
  IN /\ pc = "idle"
     /\ slot' = this
     /\ IF PosOk(this.write_position)
        THEN Write(where, this.write_position + ofs, bytes, d)
        ELSE UNCHANGED <<call, pc>>
     /\ UNCHANGED <<rom, scan>>

InsertLog_flat(d) == Insert("insert_data", EELS_RECOFFS_CRC, d, d)  \* mutant
InsertLog(d)      == Insert("insert_data", EELS_RECSIZE_HEAD, d, d)

InsertRec_split(d) == Insert("insert_rec", EELS_RECSIZE_HEAD, Header(d) \o d, d)  \* mutant
InsertRec(d)       == Insert("insert_rec", 0, Header(d) \o d, d)

InsertDataDone(k) ==
  /\ pc = "insert_data"
  /\ k \in Done /\ Landed(k)
  /\ Write("insert_head", slot.write_position, Header(call.data), call.data)
  /\ UNCHANGED <<slot, scan>>

InsertDone(k) ==
  /\ pc \in {"insert_head", "insert_rec"}
  /\ k \in Done /\ Landed(k)
  /\ slot' = eels_write_advance(slot)
  /\ Return

-----------------------------------------------------------------------------
(* EELS_CleanLog breaks the stamp of record 0.  The cursor moves before    *)
(* the write, and stays moved when the write fails.                        *)

CleanEmpty(epoch) ==
  /\ HasNone(epoch)
  /\ slot' = [write_position |-> Pos0, write_index |-> 0,
              epoch_counter |-> next_epoch(epoch), overlaped |-> FALSE]
  /\ UNCHANGED <<call, pc>>

(* The epoch that the clean ends: a cursor at record 0 is already one lap  *)
(* ahead of the stamp there.                                               *)
CleanEpoch_rom(epoch) == epoch                                \* mutant
CleanEpoch(epoch) ==
  IF slot.write_position = Pos0 THEN slot.epoch_counter ELSE epoch

CleanHead_kept(last) == <<last, 255>>                         \* mutant
CleanHead(last)      == <<last + EpochNone, 255>>

CleanStamped(epoch) ==
  /\ ~ HasNone(epoch)
  /\ slot' = [write_position |-> Pos0,
              write_index    |-> IF slot.write_position = Pos0
                                 THEN slot.write_index ELSE 0,
              epoch_counter  |-> next_epoch(CleanEpoch(epoch)),
              overlaped      |-> FALSE]
  /\ Write("clean_head", Pos0, CleanHead(CleanEpoch(epoch)), <<>>)

CleanLog ==
  /\ pc = "idle"
  /\ \E epoch \in _EELS_ReadCounter(Pos0) : CleanEmpty(epoch) \/ CleanStamped(epoch)
  /\ UNCHANGED <<rom, scan>>

CleanDone(k) ==
  /\ pc = "clean_head"
  /\ k \in Done /\ Landed(k)
  /\ Return
  /\ UNCHANGED slot

-----------------------------------------------------------------------------
(* _EELS_FindLastPos, called by EELS_SetSlot at start-up.                  *)

FindEmpty_same(epoch) ==                                      \* mutant
  /\ HasNone(epoch)
  /\ slot' = [write_position |-> Pos0, write_index |-> 0,
              epoch_counter |-> epoch % EpochNone, overlaped |-> FALSE]
  /\ Return

FindEmpty(epoch) ==
  /\ HasNone(epoch)
  /\ slot' = [write_position |-> Pos0, write_index |-> 0,
              epoch_counter |-> next_epoch(epoch), overlaped |-> FALSE]
  /\ Return

FindStart(epoch) ==
  LET paged == Slot.page_records > 0
      lo == IF paged THEN eels_pos_page(Slot, Pos0) ELSE 0
      hi == IF paged THEN eels_pos_page(Slot, eels_pred_pos(Slot, Pos0))
                     ELSE Counter_max - 1
  IN /\ ~ HasNone(epoch)
     /\ slot' = [slot EXCEPT !.epoch_counter = epoch]
     /\ scan' = [epoch |-> epoch, lo |-> lo, hi |-> hi, xi |-> hi, page |-> 0]
     /\ pc' = IF paged THEN "scan_pages" ELSE "scan_solid"
     /\ UNCHANGED call

FindLastPos ==
  /\ pc = "off" \/ (pc = "idle" /\ Rescans)
  /\ PosOk(Pos0)
  /\ \E epoch \in _EELS_ReadCounter(Pos0) : FindEmpty(epoch) \/ FindStart(epoch)
  /\ UNCHANGED rom

(* The binary search over the first records of the pages, by address: what *)
(* a probe makes of it when it has found the epoch of record 0 or has not. *)
PagesHalf(found) ==
  LET lo == IF found THEN scan.xi ELSE scan.lo
      hi == IF found THEN scan.hi ELSE scan.xi - 1
  IN [scan EXCEPT !.lo = lo, !.hi = hi,
                  !.xi = IF hi - lo > Slot.page_size
                         THEN lo + eels_pos_page(Slot, (hi - lo) \div 2)
                         ELSE lo]

ScanPages ==
  /\ pc = "scan_pages" /\ scan.lo # scan.xi
  /\ \E xepoch \in _EELS_ReadCounter(scan.xi + Slot.page_offs) :
       scan' = PagesHalf(xepoch = scan.epoch)
  /\ UNCHANGED <<rom, slot, call, pc>>

ScanPagesEnd ==
  /\ pc = "scan_pages" /\ scan.lo = scan.xi
  /\ scan' = [scan EXCEPT !.page = scan.lo, !.lo = 0,
                          !.hi = Slot.page_records - 1, !.xi = Slot.page_records - 1]
  /\ pc' = "scan_recs"
  /\ UNCHANGED <<rom, slot, call>>

RecAt_flat(x) == scan.page + Slot.slot_log_length * x         \* mutant
RecAt(x) == scan.page + (Slot.page_offs + Slot.slot_log_length * x)

(* The binary search over the records of the page found, by index.         *)
RecsHalf_up(found) ==                                         \* mutant
  LET lo == IF found THEN scan.xi ELSE scan.lo
      hi == IF found THEN scan.hi ELSE scan.xi
  IN [scan EXCEPT !.lo = lo, !.hi = hi, !.xi = hi - ((hi - lo) \div 2)]

RecsHalf(found) ==
  LET lo == IF found THEN scan.xi ELSE scan.lo
      hi == IF found THEN scan.hi ELSE scan.xi - 1
  IN [scan EXCEPT !.lo = lo, !.hi = hi, !.xi = lo + ((hi - lo) \div 2)]

ScanRecs ==
  /\ pc = "scan_recs" /\ scan.lo # scan.xi
  /\ \E xepoch \in _EELS_ReadCounter(RecAt(scan.xi)) :
       scan' = RecsHalf(xepoch = scan.epoch)
  /\ UNCHANGED <<rom, slot, call, pc>>

(* The binary search over all records of an unpaged slot, by index.        *)
SolidHalf_up(found) ==                                        \* mutant
  LET lo == IF found THEN scan.xi ELSE scan.lo
      hi == IF found THEN scan.hi ELSE scan.xi
  IN [scan EXCEPT !.lo = lo, !.hi = hi, !.xi = hi - ((hi - lo) \div 2)]

SolidHalf_skip(found) ==                                      \* mutant
  LET lo == IF found THEN scan.xi ELSE scan.lo
      hi == IF found THEN scan.hi ELSE scan.xi - 1
  IN [scan EXCEPT !.lo = lo, !.hi = hi, !.xi = lo + ((hi - lo) \div 2)]

SolidHalf(found) ==
  LET lo == IF found THEN scan.xi ELSE scan.lo
      hi == IF found THEN scan.hi ELSE scan.xi
  IN [scan EXCEPT !.lo = lo, !.hi = hi, !.xi = lo + ((hi - lo) \div 2)]

ScanSolid ==
  /\ pc = "scan_solid" /\ scan.lo # scan.xi
  /\ \E xepoch \in _EELS_ReadCounter(eels_index_pos(Slot, scan.xi)) :
       scan' = SolidHalf(xepoch = scan.epoch)
  /\ UNCHANGED <<rom, slot, call, pc>>

(* The record found is the last one written: the cursor goes one further.  *)
Found ==
  IF pc = "scan_recs"
  THEN [slot EXCEPT !.write_position = RecAt(scan.xi),
                    !.write_index = eels_page_idx(Slot, scan.page) + scan.xi]
  ELSE [slot EXCEPT !.write_position = eels_index_pos(Slot, scan.lo),
                    !.write_index = scan.lo]

(* A record behind the cursor with the stamp of the lap before: the ring   *)
(* has been gone round.                                                    *)
Overlapped_any(hi_epoch, last_epoch) == hi_epoch = last_epoch \* mutant
Overlapped(hi_epoch, last_epoch) ==
  /\ hi_epoch = last_epoch
  /\ is_next_epoch(hi_epoch, scan.epoch)

FindEnd ==
  LET this == eels_write_advance(Found)
  IN /\ pc \in {"scan_recs", "scan_solid"} /\ scan.lo = scan.xi
     /\ \E hi_epoch \in _EELS_ReadCounter(eels_pred_pos(Slot, Pos0)),
           last_epoch \in _EELS_ReadCounter(this.write_position) :
          slot' = [this EXCEPT !.overlaped = Overlapped(hi_epoch, last_epoch)]
     /\ Return
     /\ UNCHANGED rom

-----------------------------------------------------------------------------
(* The environment.  A failed write, and a loss of power, may have         *)
(* programmed any number of the bytes, from the first on.                  *)

WriteFail_ignored(k) ==                                       \* mutant
  /\ pc \in WriteErrors
  /\ Landed(k)
  /\ slot' = IF pc = "clean_head" THEN slot ELSE eels_write_advance(slot)
  /\ Return

WriteFail(k) ==
  /\ pc \in WriteErrors
  /\ Landed(k)
  /\ Return
  /\ UNCHANGED slot

SwitchedOff ==
  /\ slot' = Cleared
  /\ call' = NoWrite
  /\ scan' = NoScan
  /\ pc' = "off"

PowerLoss(k) ==
  /\ PowerLosses
  /\ pc # "off"
  /\ Landed(k)
  /\ SwitchedOff

WriteDone(k) == InsertDataDone(k) \/ InsertDone(k) \/ CleanDone(k)

Scan == FindLastPos \/ ScanPages \/ ScanPagesEnd \/ ScanRecs \/ ScanSolid \/ FindEnd

Next ==
  \/ \E d \in Payloads : InsertLog(d) \/ InsertRec(d)
  \/ CleanLog
  \/ Scan
  \/ \E k \in 0 .. Len(call.bytes) : WriteDone(k) \/ WriteFail(k) \/ PowerLoss(k)

Spec == Init /\ [][Next]_vars

(* A call that has begun runs on, and an application that starts calls     *)
(* EELS_SetSlot.  Nothing obliges it to insert, to clean or to read.       *)
StartsUp ==
  \/ pc = "off" /\ FindLastPos
  \/ ScanPages \/ ScanPagesEnd \/ ScanRecs \/ ScanSolid \/ FindEnd

RunsOn == StartsUp \/ \E k \in Done : WriteDone(k)

FairSpec == Spec /\ WF_vars(RunsOn)

-----------------------------------------------------------------------------
(* Reading, when every EEPROM access succeeds.  No call below changes the  *)
(* slot (the CRC byte read passes through this->head, which every write    *)
(* sets anew).                                                             *)

EELS_ERROR_OK        == 0
EELS_ERROR_NOK       == 1
EELS_ERROR_NOSLOT    == -1
EELS_ERROR_OUTOFSLOT == -3

_EELS_ReadLog_unchecked(pos) ==                               \* mutant
  IF ~ PosOk(pos) THEN [ok |-> EELS_ERROR_OUTOFSLOT, data |-> <<>>]
  ELSE [ok |-> EELS_ERROR_OK, data |-> DataAt(pos)]

_EELS_ReadLog(pos) ==
  IF ~ PosOk(pos) THEN [ok |-> EELS_ERROR_OUTOFSLOT, data |-> <<>>]
  ELSE [ok   |-> IF Crc(DataAt(pos)) = CrcAt(pos) THEN EELS_ERROR_OK
                                                  ELSE EELS_ERROR_NOK,
        data |-> DataAt(pos)]

EELS_Len_more == IF slot.overlaped THEN Counter_max ELSE slot.write_index + 1  \* mutant
EELS_Len == IF slot.overlaped THEN Counter_max ELSE slot.write_index

RingIndex_late(i) == IF i > Counter_max THEN i - Counter_max  \* mutant
                     ELSE IF i < 0 THEN i + Counter_max ELSE i
RingIndex(i) == IF i >= Counter_max THEN i - Counter_max
                ELSE IF i < 0 THEN i + Counter_max ELSE i

(* The position of log idx, counted from the oldest one, or from the       *)
(* newest one when idx < 0.  (EELSAddr)-1 is written -1: no slot has it.   *)
eels_relative_pos(idx) ==
  LET now == slot.write_index
  IN IF idx >= EELS_Len THEN -1
     ELSE IF -idx >= EELS_Len THEN 0
     ELSE eels_index_pos(Slot,
            IF slot.overlaped
            THEN RingIndex(idx + now)
            ELSE IF idx < 0 THEN idx + now ELSE idx)

EELS_ReadIdx(idx) == _EELS_ReadLog(eels_relative_pos(idx))

EELS_ReadLast_here == _EELS_ReadLog(slot.write_position)      \* mutant
EELS_ReadLast == _EELS_ReadLog(eels_pred_pos(Slot, slot.write_position))

EELS_ReadFromHead(idx) ==
  LET pos == eels_relative_pos(idx)
  IN IF pos < 0 THEN _EELS_ReadLog(pos)
     ELSE [ok |-> EELS_ERROR_NOSLOT, data |-> <<>>]

EELS_ReadFromEnd(tail_idx) == EELS_ReadFromHead(-tail_idx)

EELS_PosIdx(idx)   == eels_relative_pos(idx)
EELS_PosNext(from) == eels_next_pos(Slot, from)

(* Where the records are, and the EEPROM cell by cell: what a user needs   *)
(* to look at, or to damage, a record.  EELS_WriteCell is the EEPROM after *)
(* the write; it touches nothing else.                                     *)
EELS_SlotLogSize == Slot.slot_log_length

EELS_ReadCell(position)       == rom[position]
EELS_WriteCell(position, val) == [rom EXCEPT ![position] = val % 256]

(* The positions that the two health counters look at: from record 0 on    *)
(* until eels_next_pos goes back.  They skip record 0 itself; in a slot    *)
(* without pages they add a rest too short for a record, as any byte of    *)
(* the slot is a next position.                                            *)
Walk[p \in Pos0 .. Slot.begining + Slot.length - 1] ==
  LET i == EELS_PosNext(p) IN IF p < i THEN {i} \cup Walk[i] ELSE {}

_EELS_getHealthyLogs ==
  Cardinality({i \in Walk[Pos0] : _EELS_ReadLog(i).ok = EELS_ERROR_OK})

_EELS_getHealthySequence_any ==                               \* mutant
  Cardinality({i \in Walk[Pos0] : ~ HasNone(rom[i])})
_EELS_getHealthySequence ==
  Cardinality({i \in Walk[Pos0] : rom[i] = slot.epoch_counter})

-----------------------------------------------------------------------------
(* What every step keeps.                                                  *)

Calls == [at : Nat, bytes : Seq(Byte), data : Payloads \cup {<<>>}]
Scans == [epoch : Byte, lo : Nat, hi : Nat, xi : Nat, page : Nat]

TypeOK ==
  /\ rom \in [Addr -> Byte]
  /\ slot \in Cursor
  /\ call \in Calls
  /\ scan \in Scans
  /\ pc \in {"off", "idle"} \cup Writing \cup Scanning

(* While the slot is on line its two cursors, the position that is written *)
(* to and the index that is counted, name the same record.                 *)
CursorAgrees ==
  pc \in {"idle"} \cup Writing =>
    slot.write_position = eels_index_pos(Slot, slot.write_index)

(* A write stays within the record under the cursor.                       *)
WriteInRecord ==
  /\ pc \in Writing =>
       /\ slot.write_position <= call.at
       /\ call.at + Len(call.bytes) <= slot.write_position + Slot.slot_log_length
  /\ pc = "insert_data" => call.data \in Payloads
  /\ pc \notin Writing => call.bytes = <<>>

(* The searches of _EELS_FindLastPos stay within the slot.                 *)
IsPage(x) ==
  /\ \E k \in 0 .. Counter_max - 1 : x = Slot.begining + Slot.page_size * k
  /\ x < Slot.begining + Slot.length

ScanInRange ==
  /\ pc \in Scanning => scan.lo <= scan.xi /\ scan.xi <= scan.hi
  /\ pc = "scan_pages" => /\ PagedLayout(Slot)
                          /\ IsPage(scan.lo) /\ IsPage(scan.xi)
                          /\ scan.hi < Slot.begining + Slot.length
  /\ pc = "scan_recs"  => /\ PagedLayout(Slot)
                          /\ IsPage(scan.page)
                          /\ scan.hi < Slot.page_records
  /\ pc = "scan_solid" => UnpagedLayout(Slot) /\ scan.hi < Counter_max

(* These four are inductive together.                                      *)
SlotInv == TypeOK /\ CursorAgrees /\ WriteInRecord /\ ScanInRange

(* Every write in progress is the one its call is to make: EELS_InsertLog  *)
(* completes a record with its header only once the log it belongs to is   *)
(* there, and while EELS_CleanLog ends a lap the slot counts no log.       *)
WriteExact ==
  LET at == slot.write_position
  IN /\ pc \in Writing \ {"clean_head"} => call.data \in Payloads
     /\ pc = "insert_data" =>
          call.at = at + EELS_RECSIZE_HEAD /\ call.bytes = call.data
     /\ pc = "insert_head" =>
          /\ call.at = at /\ call.bytes = Header(call.data)
          /\ "insert_data" \notin Unnoticed => DataAt(at) = call.data
     /\ pc = "insert_rec" =>
          call.at = at /\ call.bytes = Header(call.data) \o call.data
     /\ pc = "clean_head" =>
          /\ EELS_Len = 0 /\ call.at = Pos0
          /\ \E last \in 0 .. EpochNone - 1 :
               call.bytes = CleanHead(last) /\ slot.epoch_counter = next_epoch(last)

(* A step changes no byte of the EEPROM outside the record under the       *)
(* write cursor, hence none outside the slot: eels_pos_ok looks at the     *)
(* record's first byte only, and an interrupted call leaves the cursor     *)
(* where it was.                                                           *)
OnlyCursorRecord ==
  [][\A a \in Addr :
       rom'[a] # rom[a] =>
         /\ a \in slot.write_position .. slot.write_position + Slot.slot_log_length - 1
         /\ eels_pos_ok(Slot, a)]_vars

(* What is left to search: less between the bounds, or, where a probe of   *)
(* the last record has ruled it out, the same bounds and a lower probe.    *)
Narrower(next) ==
  \/ next.hi - next.lo < scan.hi - scan.lo
  \/ next.hi - next.lo = scan.hi - scan.lo /\ next.xi < scan.xi

(* Every probe of a search narrows it, whatever it reads: that the loops   *)
(* of _EELS_FindLastPos end for every number of records rests on it.       *)
SearchNarrows ==
  \A found \in BOOLEAN :
    scan.lo # scan.xi =>
      /\ pc = "scan_pages" => Narrower(PagesHalf(found))
      /\ pc = "scan_recs"  => Narrower(RecsHalf(found))
      /\ pc = "scan_solid" => Narrower(SolidHalf(found))

(* Unless the power keeps being lost, every call returns: the searches of  *)
(* _EELS_FindLastPos end whatever the EEPROM holds and whichever of their  *)
(* reads fail.                                                             *)
EveryCallReturns ==
  <>[][pc' = "off" => pc = "off"]_vars => (pc # "idle" ~> pc = "idle")

=============================================================================
