--------------------------- MODULE EELSSlotProofs ---------------------------
(***************************************************************************)
(* SlotInv is an invariant of EELSSlot, for every layout, every EEPROM and *)
(* every fault the constants allow; with it a slot writes nothing but the  *)
(* record under its cursor, and there what its call is to write.           *)
(***************************************************************************)
EXTENDS EELSSlot, EELSLayoutProofs, SequenceTheorems

(* The facts about the constants that the steps below use.                 *)
LEMMA SlotTypes ==
  /\ SlotLayout(Slot)
  /\ Counter_max \in Nat \ {0} /\ Counter_max = Slot._counter_max
  /\ Slot.begining \in Nat /\ Slot.length \in Nat
  /\ Slot.slot_log_length \in Nat /\ Slot.raw_data_size \in Nat \ {0}
  /\ Slot.slot_log_length = Slot.raw_data_size + 2
  /\ RomSize \in Nat /\ Slot.begining + Slot.length <= RomSize
BY SlotAssumption, LayoutTypes DEF Counter_max

(* The record under a cursor that agrees is inside the slot.               *)
LEMMA RecordBounds ==
  ASSUME NEW i \in 0 .. Counter_max - 1
  PROVE  LET x == eels_index_pos(Slot, i)
         IN /\ x \in Nat
            /\ Slot.begining <= x
            /\ x + Slot.slot_log_length <= Slot.begining + Slot.length
            /\ PosOk(x)
            /\ x \in Addr
<1> DEFINE x == eels_index_pos(Slot, i)
<1>1. /\ x \in Nat
      /\ Slot.begining <= x
      /\ x + Slot.slot_log_length <= Slot.begining + Slot.length
  BY SlotTypes, RecordInside
<1> QED
  BY <1>1, SlotTypes DEF PosOk, eels_pos_ok, Addr

LEMMA PosZero ==
  /\ Pos0 \in Nat /\ PosOk(Pos0) /\ Pos0 \in Addr
  /\ Pos0 = eels_index_pos(Slot, 0)
BY SlotTypes, RecordBounds, 0 \in 0 .. Counter_max - 1 DEF Pos0

LEMMA EpochTypes ==
  /\ EpochNone \in Nat /\ EpochNone > 0
  /\ \A x \in Byte : ~ HasNone(x) => x \in 0 .. EpochNone - 1
  /\ \A x \in Byte : next_epoch(x) \in 0 .. EpochNone - 1
  /\ \A x \in 0 .. EpochNone - 1 : next_epoch(x) \in 0 .. EpochNone - 1
  /\ \A x \in 0 .. EpochNone - 1 : x + EpochNone \in Byte
BY EpochAssumption DEF HasNone, next_epoch, Byte

LEMMA ReadCounterType ==
  ASSUME rom \in [Addr -> Byte], NEW pos \in Addr
  PROVE  _EELS_ReadCounter(pos) \subseteq Byte
<1>1. ASSUME NEW err \in ReadErrors PROVE Misread(err) \in Byte
  <2>1. err \in Int
    BY FaultAssumption
  <2> QED
    BY <2>1 DEF Misread, Byte
<1> QED
  BY <1>1 DEF _EELS_ReadCounter

(* Where eels_write_advance moves a cursor: to the next record of its lap, *)
(* or from the last record to record 0 of the next lap.                    *)
LEMMA AdvanceIs ==
  ASSUME NEW this \in Cursor,
         this.write_position = eels_index_pos(Slot, this.write_index)
  PROVE  \/ /\ this.write_index + 1 < Counter_max
            /\ eels_write_advance(this)
                 = [write_position |-> eels_index_pos(Slot, this.write_index + 1),
                    write_index    |-> this.write_index + 1,
                    epoch_counter  |-> this.epoch_counter,
                    overlaped      |-> this.overlaped]
         \/ /\ this.write_index + 1 = Counter_max
            /\ eels_write_advance(this)
                 = [write_position |-> Pos0, write_index |-> 0,
                    epoch_counter |-> next_epoch(this.epoch_counter),
                    overlaped |-> TRUE]
<1> DEFINE i == this.write_index
           x == this.write_position
           to == eels_next_pos(Slot, x)
           cnt == IF x > to THEN 0 ELSE i + 1
           lap == cnt = 0 \/ cnt >= Counter_max
           next == eels_write_advance(this)
<1>1. i \in 0 .. Counter_max - 1 /\ x \in Nat /\ this.epoch_counter \in 0 .. EpochNone - 1
      /\ this.overlaped \in BOOLEAN
  BY DEF Cursor
<1>2. next = [write_position |-> IF cnt >= Counter_max THEN Pos0 ELSE to,
              write_index    |-> IF lap THEN 0 ELSE cnt,
              epoch_counter  |-> IF lap THEN next_epoch(this.epoch_counter)
                                 ELSE this.epoch_counter,
              overlaped      |-> lap \/ this.overlaped]
  BY DEF eels_write_advance, BeyondTop
<1>3. \/ i + 1 < Counter_max /\ to = eels_index_pos(Slot, i + 1) /\ x <= to
      \/ i + 1 = Counter_max /\ to \in Nat /\ (to < x => to = Pos0)
  BY <1>1, SlotTypes, NextPos DEF Pos0
<1>4. CASE i + 1 < Counter_max /\ to = eels_index_pos(Slot, i + 1) /\ x <= to
  <2>1. i + 1 \in 0 .. Counter_max - 1 /\ Counter_max \in Nat
    BY <1>1, <1>4, SlotTypes
  <2>2. to \in Nat
    BY <1>4, <2>1, RecordBounds
  <2>3. cnt = i + 1
    BY <1>1, <1>4, <2>2
  <2> HIDE DEF cnt
  <2>4. ~ lap /\ ~ (cnt >= Counter_max)
    BY <1>1, <1>4, <2>1, <2>3
  <2>5. (lap \/ this.overlaped) = this.overlaped
    BY <1>1, <2>4
  <2> HIDE DEF lap, to, next
  <2>6. next = [write_position |-> to, write_index |-> cnt,
                epoch_counter |-> this.epoch_counter, overlaped |-> this.overlaped]
    BY <1>2, <2>4, <2>5
  <2> QED
    BY <1>4, <2>3, <2>6 DEF next
<1>5. CASE i + 1 = Counter_max /\ to \in Nat /\ (to < x => to = Pos0)
  <2>1. (cnt = 0 /\ to = Pos0) \/ cnt = Counter_max
    BY <1>1, <1>5, SlotTypes
  <2>2. Counter_max \in Nat /\ Counter_max > 0
    BY SlotTypes
  <2> HIDE DEF cnt, to
  <2>3. lap
    BY <2>1, <2>2
  <2>4. (IF cnt >= Counter_max THEN Pos0 ELSE to) = Pos0
    BY <2>1, <2>2
  <2>5. (lap \/ this.overlaped) = TRUE
    BY <2>3
  <2> HIDE DEF lap, next
  <2>6. next = [write_position |-> Pos0, write_index |-> 0,
                epoch_counter |-> next_epoch(this.epoch_counter),
                overlaped |-> TRUE]
    BY <1>2, <2>3, <2>4, <2>5
  <2> QED
    BY <1>5, <2>6 DEF next
<1> QED
  BY <1>3, <1>4, <1>5

LEMMA AdvanceAgrees ==
  ASSUME NEW this \in Cursor,
         this.write_position = eels_index_pos(Slot, this.write_index)
  PROVE  LET next == eels_write_advance(this)
         IN /\ next \in Cursor
            /\ next.write_position = eels_index_pos(Slot, next.write_index)
<1> DEFINE i == this.write_index
           next == eels_write_advance(this)
<1>1. i \in 0 .. Counter_max - 1 /\ this.epoch_counter \in 0 .. EpochNone - 1
      /\ this.overlaped \in BOOLEAN
  BY DEF Cursor
<1>2. next_epoch(this.epoch_counter) \in 0 .. EpochNone - 1
  BY <1>1, EpochTypes
<1>3. CASE /\ i + 1 < Counter_max
           /\ next = [write_position |-> eels_index_pos(Slot, i + 1),
                      write_index |-> i + 1, epoch_counter |-> this.epoch_counter,
                      overlaped |-> this.overlaped]
  <2>1. i + 1 \in 0 .. Counter_max - 1
    BY <1>1, <1>3, SlotTypes
  <2>2. eels_index_pos(Slot, i + 1) \in Nat
    BY <2>1, RecordBounds
  <2> HIDE DEF next
  <2>3. next \in Cursor /\ next.write_position = eels_index_pos(Slot, next.write_index)
    BY <1>1, <1>3, <2>1, <2>2 DEF Cursor
  <2> QED
    BY <2>3 DEF next
<1>4. CASE next = [write_position |-> Pos0, write_index |-> 0,
                   epoch_counter |-> next_epoch(this.epoch_counter), overlaped |-> TRUE]
  <2>1. 0 \in 0 .. Counter_max - 1
    BY SlotTypes
  <2> HIDE DEF next
  <2>2. next \in Cursor /\ next.write_position = eels_index_pos(Slot, next.write_index)
    BY <1>2, <1>4, <2>1, PosZero DEF Cursor
  <2> QED
    BY <2>2 DEF next
<1> QED
  BY <1>3, <1>4, AdvanceIs

-----------------------------------------------------------------------------
(* What a write leaves in the EEPROM.                                      *)

LEMMA LandedBytes ==
  ASSUME TypeOK, NEW k \in 0 .. Len(call.bytes), Landed(k)
  PROVE  /\ rom' \in [Addr -> Byte]
         /\ \A a \in Addr :
              rom'[a] # rom[a] => a \in call.at .. call.at + Len(call.bytes) - 1
<1> DEFINE bytes == SubSeq(call.bytes, 1, k)
<1>1. call.at \in Nat /\ call.bytes \in Seq(Byte) /\ Len(call.bytes) \in Nat
  BY DEF TypeOK, Calls
<1>2. bytes \in Seq(Byte) /\ Len(bytes) = k /\ k \in Nat
  BY <1>1
<1>3. \A i \in 1 .. k : bytes[i] \in Byte
  BY <1>2
<1>4. rom' = [a \in Addr |-> IF a \in call.at .. call.at + k - 1
                             THEN bytes[a - call.at + 1] ELSE rom[a]]
  BY <1>2 DEF Landed, Program
<1>5. rom \in [Addr -> Byte]
  BY DEF TypeOK
<1>6. \A a \in Addr : a \in call.at .. call.at + k - 1 => a - call.at + 1 \in 1 .. k
  BY <1>1, <1>2
<1> HIDE DEF bytes
<1> QED
  BY <1>1, <1>2, <1>3, <1>4, <1>5, <1>6

-----------------------------------------------------------------------------
(* SlotInv holds at first, and every action keeps it.                      *)

LEMMA SlotInvInit == Init => SlotInv
<1> SUFFICES ASSUME Init PROVE SlotInv
  OBVIOUS
<1>1. TypeOK
  <2>1. rom \in [Addr -> Byte]
    BY DataAssumption DEF Init
  <2>2. slot \in Cursor
    BY SlotTypes, EpochTypes DEF Init, Cleared, Cursor
  <2>3. call \in Calls /\ scan \in Scans
    BY DEF Init, Calls, NoWrite, Scans, NoScan, Byte
  <2> QED
    BY <2>1, <2>2, <2>3 DEF Init, TypeOK
<1>2. CursorAgrees /\ WriteInRecord /\ ScanInRange
  BY DEF Init, CursorAgrees, WriteInRecord, ScanInRange, Writing, Scanning, NoWrite
<1> QED
  BY <1>1, <1>2 DEF SlotInv

(* A call that returns leaves nothing to write and nothing to scan.        *)
LEMMA ReturnKeeps ==
  ASSUME Return, rom' \in [Addr -> Byte], slot' \in Cursor,
         slot'.write_position = eels_index_pos(Slot, slot'.write_index)
  PROVE  SlotInv'
<1>1. TypeOK'
  BY DEF Return, TypeOK, Calls, NoWrite, Scans, NoScan, Byte
<1>2. CursorAgrees'
  BY DEF CursorAgrees
<1>3. WriteInRecord' /\ ScanInRange'
  BY DEF Return, WriteInRecord, ScanInRange, Writing, Scanning, NoWrite
<1> QED
  BY <1>1, <1>2, <1>3 DEF SlotInv

(* A call that goes on to a write within the record under the cursor.      *)
LEMMA WriteKeeps ==
  ASSUME SlotInv, NEW where \in Writing, NEW at \in Nat, NEW bytes \in Seq(Byte),
         NEW d \in Payloads \cup {<<>>}, where = "insert_data" => d \in Payloads,
         Write(where, at, bytes, d), UNCHANGED scan,
         rom' \in [Addr -> Byte], slot' \in Cursor,
         slot'.write_position = eels_index_pos(Slot, slot'.write_index),
         slot'.write_position <= at,
         at + Len(bytes) <= slot'.write_position + Slot.slot_log_length
  PROVE  SlotInv'
<1>1. pc' = where /\ call' = [at |-> at, bytes |-> bytes, data |-> d]
  BY DEF Write
<1>2. TypeOK'
  BY <1>1 DEF SlotInv, TypeOK, Calls
<1>3. CursorAgrees'
  BY DEF CursorAgrees
<1>4. WriteInRecord'
  BY <1>1 DEF WriteInRecord
<1>5. ScanInRange'
  BY <1>1 DEF ScanInRange, Writing, Scanning
<1> QED
  BY <1>2, <1>3, <1>4, <1>5 DEF SlotInv

LEMMA Payload ==
  ASSUME NEW d \in Payloads
  PROVE  /\ d \in Seq(Byte) /\ Len(d) = Slot.raw_data_size
         /\ Crc(d) \in Byte
BY DataAssumption, SlotTypes

LEMMA HeaderType ==
  ASSUME TypeOK, NEW d \in Payloads
  PROVE  Header(d) \in Seq(Byte) /\ Len(Header(d)) = 2
<1>1. slot.epoch_counter \in Byte
  BY EpochAssumption DEF TypeOK, Cursor, Byte
<1>2. Crc(d) \in Byte
  BY Payload
<1> QED
  BY <1>1, <1>2 DEF Header

LEMMA UnwrappedSame ==
  ASSUME TypeOK
  PROVE  Unwrapped(slot) = slot
BY SlotTypes DEF TypeOK, Cursor, Unwrapped

LEMMA InsertLogKeeps ==
  ASSUME SlotInv, NEW d \in Payloads, InsertLog(d)
  PROVE  SlotInv'
<1> DEFINE p == slot.write_position
<1>1. slot' = slot /\ rom' = rom /\ scan' = scan /\ pc = "idle"
  BY UnwrappedSame DEF SlotInv, InsertLog, Insert
<1>2. TypeOK /\ p = eels_index_pos(Slot, slot.write_index)
  BY <1>1 DEF SlotInv, CursorAgrees
<1>3. PosOk(p) /\ p \in Nat
  BY <1>2, RecordBounds DEF TypeOK, Cursor
<1>4. Write("insert_data", p + 2, d, d)
  BY <1>1, <1>2, <1>3, UnwrappedSame DEF InsertLog, Insert, EELS_RECSIZE_HEAD
<1>5. d \in Seq(Byte) /\ Len(d) = Slot.raw_data_size
  BY Payload
<1>6. p <= p + 2 /\ p + 2 + Len(d) <= p + Slot.slot_log_length /\ p + 2 \in Nat
  BY <1>3, <1>5, SlotTypes
<1>7. rom \in [Addr -> Byte] /\ slot \in Cursor
  BY <1>2 DEF TypeOK
<1> QED
  BY <1>1, <1>2, <1>4, <1>5, <1>6, <1>7, WriteKeeps DEF Writing

LEMMA InsertRecKeeps ==
  ASSUME SlotInv, NEW d \in Payloads, InsertRec(d)
  PROVE  SlotInv'
<1> DEFINE p == slot.write_position
           rec == Header(d) \o d
<1>1. slot' = slot /\ rom' = rom /\ scan' = scan /\ pc = "idle"
  BY UnwrappedSame DEF SlotInv, InsertRec, Insert
<1>2. TypeOK /\ p = eels_index_pos(Slot, slot.write_index)
  BY <1>1 DEF SlotInv, CursorAgrees
<1>3. PosOk(p) /\ p \in Nat
  BY <1>2, RecordBounds DEF TypeOK, Cursor
<1>4. Write("insert_rec", p, rec, d)
  BY <1>1, <1>2, <1>3, UnwrappedSame DEF InsertRec, Insert
<1>5. rec \in Seq(Byte) /\ Len(rec) = Slot.slot_log_length
  <2>1. d \in Seq(Byte) /\ Len(d) = Slot.raw_data_size
    BY Payload
  <2>2. Header(d) \in Seq(Byte) /\ Len(Header(d)) = 2
    BY <1>2, HeaderType
  <2>3. rec \in Seq(Byte) /\ Len(rec) = Len(Header(d)) + Len(d)
    BY <2>1, <2>2, ConcatProperties, Zenon
  <2> QED
    BY <2>1, <2>2, <2>3, SlotTypes
<1>6. p <= p /\ p + Len(rec) <= p + Slot.slot_log_length
  BY <1>3, <1>5, SlotTypes
<1>7. rom \in [Addr -> Byte] /\ slot \in Cursor
  BY <1>2 DEF TypeOK
<1> HIDE DEF rec
<1> QED
  BY <1>1, <1>2, <1>3, <1>4, <1>5, <1>6, <1>7, WriteKeeps DEF Writing

LEMMA InsertDataDoneKeeps ==
  ASSUME SlotInv, NEW k \in 0 .. Len(call.bytes), InsertDataDone(k)
  PROVE  SlotInv'
<1> DEFINE p == slot.write_position
           head == Header(call.data)
<1>1. /\ pc = "insert_data" /\ Landed(k)
      /\ Write("insert_head", p, head, call.data)
      /\ slot' = slot /\ scan' = scan
  BY DEF InsertDataDone
<1>2. TypeOK /\ p = eels_index_pos(Slot, slot.write_index) /\ call.data \in Payloads
  BY <1>1 DEF SlotInv, CursorAgrees, WriteInRecord, Writing
<1>3. rom' \in [Addr -> Byte]
  BY <1>1, <1>2, LandedBytes
<1>4. head \in Seq(Byte) /\ Len(head) = 2
  BY <1>2, HeaderType
<1>5. slot \in Cursor /\ p \in Nat
  BY <1>2 DEF TypeOK, Cursor
<1>6. p <= p /\ p + Len(head) <= p + Slot.slot_log_length
  BY <1>4, <1>5, SlotTypes
<1> HIDE DEF head
<1> QED
  BY <1>1, <1>2, <1>3, <1>4, <1>5, <1>6, WriteKeeps DEF Writing

LEMMA InsertDoneKeeps ==
  ASSUME SlotInv, NEW k \in 0 .. Len(call.bytes), InsertDone(k)
  PROVE  SlotInv'
<1>1. /\ pc \in {"insert_head", "insert_rec"} /\ Landed(k)
      /\ slot' = eels_write_advance(slot) /\ Return
  BY DEF InsertDone
<1>2. TypeOK /\ slot.write_position = eels_index_pos(Slot, slot.write_index)
  BY <1>1 DEF SlotInv, CursorAgrees, Writing
<1>3. rom' \in [Addr -> Byte]
  BY <1>1, <1>2, LandedBytes
<1>4. slot \in Cursor
  BY <1>2 DEF TypeOK
<1>5. slot' \in Cursor /\ slot'.write_position = eels_index_pos(Slot, slot'.write_index)
  BY <1>1, <1>2, <1>4, AdvanceAgrees
<1> QED
  BY <1>1, <1>3, <1>5, ReturnKeeps

LEMMA CleanLogKeeps ==
  ASSUME SlotInv, CleanLog
  PROVE  SlotInv'
<1>1. /\ pc = "idle" /\ rom' = rom /\ scan' = scan
      /\ TypeOK /\ slot \in Cursor /\ rom \in [Addr -> Byte]
      /\ slot.write_position = eels_index_pos(Slot, slot.write_index)
  BY DEF CleanLog, SlotInv, TypeOK, CursorAgrees
<1>2. PICK epoch \in _EELS_ReadCounter(Pos0) : CleanEmpty(epoch) \/ CleanStamped(epoch)
  BY DEF CleanLog
<1>3. epoch \in Byte
  BY <1>1, <1>2, PosZero, ReadCounterType
<1>4. 0 \in 0 .. Counter_max - 1 /\ Pos0 \in Nat /\ Pos0 = eels_index_pos(Slot, 0)
  BY SlotTypes, PosZero
<1>5. CASE CleanEmpty(epoch)
  <2>1. slot' = [write_position |-> Pos0, write_index |-> 0,
                 epoch_counter |-> next_epoch(epoch), overlaped |-> FALSE]
        /\ call' = call /\ pc' = pc
    BY <1>5 DEF CleanEmpty
  <2>2. slot' \in Cursor /\ slot'.write_position = eels_index_pos(Slot, slot'.write_index)
    <3>1. next_epoch(epoch) \in 0 .. EpochNone - 1
      BY <1>3, EpochTypes
    <3> QED
      BY <1>4, <2>1, <3>1 DEF Cursor
  <2>3. TypeOK'
    BY <1>1, <2>1, <2>2 DEF TypeOK
  <2>4. WriteInRecord' /\ ScanInRange'
    BY <1>1, <2>1 DEF SlotInv, WriteInRecord, ScanInRange, Writing, Scanning
  <2> QED
    BY <2>2, <2>3, <2>4 DEF SlotInv, CursorAgrees
<1>6. CASE CleanStamped(epoch)
  <2> DEFINE at0  == slot.write_position = Pos0
             last == IF at0 THEN slot.epoch_counter ELSE epoch
             idx  == IF at0 THEN slot.write_index ELSE 0
             bytes == <<last + EpochNone, 255>>
  <2>1. /\ slot' = [write_position |-> Pos0, write_index |-> idx,
                    epoch_counter |-> next_epoch(last), overlaped |-> FALSE]
        /\ Write("clean_head", Pos0, bytes, <<>>)
        /\ ~ HasNone(epoch)
    BY <1>6 DEF CleanStamped, CleanEpoch, CleanHead
  <2>2. last \in 0 .. EpochNone - 1
    BY <1>1, <1>3, <2>1, EpochTypes DEF Cursor
  <2>3. bytes \in Seq(Byte) /\ Len(bytes) = 2
    <3> HIDE DEF last
    <3>1. last + EpochNone \in Byte
      BY <2>2, EpochTypes
    <3>2. 255 \in Byte
      BY DEF Byte
    <3> QED
      BY <3>1, <3>2
  <2>4. slot' \in Cursor
    <3>1. next_epoch(last) \in 0 .. EpochNone - 1
      BY <2>2, EpochTypes
    <3>2. idx \in 0 .. Counter_max - 1
      BY <1>1, <1>4 DEF Cursor
    <3> HIDE DEF last, idx
    <3> QED
      BY <1>4, <2>1, <3>1, <3>2 DEF Cursor
  <2>5. slot'.write_position = Pos0 /\ slot'.write_index = idx
    BY <2>1
  <2>6. Pos0 = eels_index_pos(Slot, idx)
    BY <1>1, <1>4
  <2>7. Pos0 <= Pos0 /\ Pos0 + Len(bytes) <= Pos0 + Slot.slot_log_length
    BY <1>4, <2>3, SlotTypes
  <2> HIDE DEF bytes, idx
  <2> QED
    BY <1>1, <1>4, <2>1, <2>3, <2>4, <2>5, <2>6, <2>7, WriteKeeps DEF Writing
<1> QED
  BY <1>2, <1>5, <1>6

LEMMA CleanDoneKeeps ==
  ASSUME SlotInv, NEW k \in 0 .. Len(call.bytes), CleanDone(k)
  PROVE  SlotInv'
<1>1. pc = "clean_head" /\ Landed(k) /\ Return /\ slot' = slot
  BY DEF CleanDone
<1>2. TypeOK /\ slot \in Cursor
      /\ slot.write_position = eels_index_pos(Slot, slot.write_index)
  BY <1>1 DEF SlotInv, TypeOK, CursorAgrees, Writing
<1>3. rom' \in [Addr -> Byte]
  BY <1>1, <1>2, LandedBytes
<1> QED
  BY <1>1, <1>2, <1>3, ReturnKeeps

LEMMA WriteFailKeeps ==
  ASSUME SlotInv, NEW k \in 0 .. Len(call.bytes), WriteFail(k)
  PROVE  SlotInv'
<1>1. pc \in Writing /\ Landed(k) /\ Return /\ slot' = slot
  BY FaultAssumption DEF WriteFail, Writing
<1>2. TypeOK /\ slot \in Cursor
      /\ slot.write_position = eels_index_pos(Slot, slot.write_index)
  BY <1>1 DEF SlotInv, TypeOK, CursorAgrees
<1>3. rom' \in [Addr -> Byte]
  BY <1>1, <1>2, LandedBytes
<1> QED
  BY <1>1, <1>2, <1>3, ReturnKeeps

LEMMA PowerLossKeeps ==
  ASSUME SlotInv, NEW k \in 0 .. Len(call.bytes), PowerLoss(k)
  PROVE  SlotInv'
<1>1. /\ Landed(k) /\ slot' = Cleared /\ call' = NoWrite /\ scan' = NoScan
      /\ pc' = "off" /\ TypeOK
  BY DEF PowerLoss, SwitchedOff, SlotInv
<1>2. rom' \in [Addr -> Byte]
  BY <1>1, LandedBytes
<1>3. TypeOK'
  <2>1. 0 \in 0 .. Counter_max - 1 /\ 0 \in 0 .. EpochNone - 1
    BY SlotTypes, EpochTypes
  <2>2. slot' \in Cursor
    BY <1>1, <2>1 DEF Cleared, Cursor
  <2> QED
    BY <1>1, <1>2, <2>2 DEF TypeOK, Calls, NoWrite, Scans, NoScan, Byte
<1>4. CursorAgrees' /\ WriteInRecord' /\ ScanInRange'
  BY <1>1 DEF CursorAgrees, WriteInRecord, ScanInRange, Writing, Scanning, NoWrite
<1> QED
  BY <1>3, <1>4 DEF SlotInv

-----------------------------------------------------------------------------
(* The steps of _EELS_FindLastPos.                                         *)

(* A page of a paged slot, by its number.                                  *)
LEMMA PageNumber ==
  ASSUME PagedLayout(Slot), NEW x, IsPage(x)
  PROVE  \E a \in Nat :
           /\ x = Slot.begining + Slot.page_size * a
           /\ \A b \in 0 .. Slot.page_records - 1 :
                /\ Slot.page_records * a + b \in 0 .. Counter_max - 1
                /\ eels_index_pos(Slot, Slot.page_records * a + b)
                     = x + (Slot.page_offs + Slot.slot_log_length * b)
<1> DEFINE P == Slot.page_size
           R == Slot.page_records
           B == Slot.begining
<1>1. PICK a \in 0 .. Counter_max - 1 : x = B + P * a /\ x < B + Slot.length
  BY DEF IsPage
<1>2. PICK pages \in Nat : Slot.length = pages * P /\ Counter_max = pages * R
  BY SlotTypes DEF PagedLayout, Counter_max
<1>3. P \in Nat /\ R \in Nat /\ B \in Nat /\ R > 0
  BY SlotTypes, LayoutTypes DEF PagedLayout
<1>4. a \in Nat /\ P * a \in Nat /\ pages * P = P * pages /\ pages * R = R * pages
  BY <1>1, <1>3, SlotTypes
<1>5. a < pages
  BY <1>1, <1>2, <1>3, <1>4, TimesCancels
<1>6. R * (a + 1) <= R * pages /\ R * (a + 1) = R * a + R /\ R * a \in Nat
  BY <1>3, <1>4, <1>5, a + 1 \in Nat, a + 1 <= pages, TimesMonotone
<1>7. ASSUME NEW b \in 0 .. R - 1
      PROVE  R * a + b \in 0 .. Counter_max - 1
  BY <1>2, <1>3, <1>4, <1>6, <1>7
<1>8. ASSUME NEW b \in 0 .. R - 1
      PROVE  eels_index_pos(Slot, R * a + b)
               = x + (Slot.page_offs + Slot.slot_log_length * b)
  BY <1>1, <1>4, SlotTypes, IndexPosPaged
<1> QED
  BY <1>1, <1>4, <1>7, <1>8

(* The pages of a record, of the first record and of the last one.         *)
LEMMA PageOfRecord ==
  ASSUME PagedLayout(Slot), NEW pages \in Nat,
         Slot.length = pages * Slot.page_size, Counter_max = pages * Slot.page_records,
         NEW i \in 0 .. Counter_max - 1
  PROVE  \E a \in 0 .. pages - 1, b \in 0 .. Slot.page_records - 1 :
           /\ i = Slot.page_records * a + b
           /\ eels_pos_page(Slot, eels_index_pos(Slot, i)) = Slot.begining + Slot.page_size * a
           /\ \A c \in 0 .. Slot.page_records - 1 :
                eels_index_pos(Slot, Slot.page_records * a + c)
                  = Slot.begining + Slot.page_size * a + (Slot.page_offs + Slot.slot_log_length * c)
<1>1. PICK a \in 0 .. pages - 1, b \in 0 .. Slot.page_records - 1 : i = Slot.page_records * a + b
  BY SlotTypes, IndexInPage
<1>2. a \in Nat
  OBVIOUS
<1>3. \A c \in 0 .. Slot.page_records - 1 :
        eels_index_pos(Slot, Slot.page_records * a + c)
          = Slot.begining + Slot.page_size * a + (Slot.page_offs + Slot.slot_log_length * c)
  BY <1>2, SlotTypes, IndexPosPaged
<1> DEFINE o == Slot.page_offs + Slot.slot_log_length * b
<1>4. o \in 0 .. Slot.page_size - 1
  BY SlotTypes, LayoutTypes, SectionFits
<1>5. eels_index_pos(Slot, i) = Slot.begining + Slot.page_size * a + o
  BY <1>1, <1>3
<1> HIDE DEF o
<1>6. eels_pos_page(Slot, eels_index_pos(Slot, i)) = Slot.begining + Slot.page_size * a
  BY <1>2, <1>4, <1>5, SlotTypes, PosPage
<1> QED
  BY <1>1, <1>3, <1>6

LEMMA LastRecordPaged ==
  ASSUME PagedLayout(Slot)
  PROVE  \E pages \in 1 .. Slot.length :
           /\ Slot.length = pages * Slot.page_size
           /\ Counter_max = pages * Slot.page_records
           /\ eels_pos_page(Slot, Pos0) = Slot.begining
           /\ eels_pos_page(Slot, eels_pred_pos(Slot, Pos0))
                = Slot.begining + Slot.page_size * (pages - 1)
           /\ eels_pred_pos(Slot, Pos0) = eels_index_pos(Slot, Counter_max - 1)
<1> DEFINE P == Slot.page_size
           R == Slot.page_records
           B == Slot.begining
           O == Slot.page_offs
           L == Slot.slot_log_length
           pred == eels_pred_pos(Slot, Pos0)
<1>1. /\ P \in Nat /\ R \in Nat /\ R > 0 /\ P > 0 /\ B \in Nat /\ O \in Nat
      /\ L \in Nat /\ L > 0
  BY SlotTypes, LayoutTypes DEF PagedLayout
<1>2. PICK pages \in 1 .. Slot.length :
        Slot.length = pages * P /\ Counter_max = pages * R
  BY DEF PagedLayout, Counter_max
<1>3. pages \in Nat /\ pages - 1 \in Nat /\ pages >= 1
  BY <1>2, SlotTypes
<1>4. /\ P * (pages - 1) = P * pages - P /\ pages * P = P * pages
      /\ P * (pages - 1) \in Nat /\ P * 0 = 0 /\ R * 0 = 0 /\ L * 0 = 0
  BY <1>1, <1>3
<1>5. pages - 1 \in 0 .. Counter_max - 1 /\ 0 \in 0 .. Counter_max - 1
  <2>1. pages * 1 <= pages * R
    BY <1>1, <1>3, TimesMonotone
  <2> QED
    BY <1>2, <1>3, <2>1, SlotTypes
<1>6. Pos0 = B + O
  <2>1. eels_index_pos(Slot, R * 0 + 0) = B + P * 0 + (O + L * 0)
    BY <1>1, SlotTypes, IndexPosPaged
  <2> QED
    BY <1>1, <1>4, <2>1, PosZero
<1>7. O \in 0 .. P - 1
  BY <1>1, <1>4, 0 \in 0 .. R - 1, SlotTypes, SectionFits
<1>8. eels_pos_page(Slot, Pos0) = B /\ eels_pos_ofs(Slot, Pos0) = O
  <2>1. Pos0 = B + P * 0 + O
    BY <1>1, <1>4, <1>6
  <2>2. eels_pos_page(Slot, Pos0) = B + P * 0 /\ eels_pos_ofs(Slot, Pos0) = O
    BY <1>7, <2>1, SlotTypes, PosPage
  <2> QED
    BY <1>1, <1>4, <2>2
<1> DEFINE o == PageLimit(Slot) - L
<1>9. o \in 0 .. P - 1
  <2>1. PageLimit(Slot) = O + R * L /\ PageLimit(Slot) <= P /\ R * L = L * R
    BY <1>1, SlotTypes, LayoutTypes DEF PageLimit, PagedLayout
  <2>2. L * 1 <= L * R
    BY <1>1, TimesMonotone
  <2> QED
    BY <1>1, <2>1, <2>2
<1>10. pred = B + P * (pages - 1) + o
  <2>1. ~ (O > O + L) /\ B < B + P
    BY <1>1
  <2>2. pred = ((B + Slot.length) - P) + o
    <3>1. pred = IF O > O + L THEN B + (O - L)
                 ELSE ((IF B < B + P THEN B + Slot.length ELSE B) - P) + o
      BY <1>1, <1>8 DEF eels_pred_pos
    <3> QED
      BY <2>1, <3>1
  <2>3. Slot.length = P * (pages - 1) + P
    BY <1>1, <1>2, <1>3, <1>4
  <2>4. o \in Int
    BY <1>1, <1>9
  <2> HIDE DEF P, B, o, pred
  <2> QED
    BY <1>1, <1>4, <2>2, <2>3, <2>4
<1>11. eels_pos_page(Slot, pred) = B + P * (pages - 1)
  BY <1>3, <1>9, <1>10, SlotTypes, PosPage
<1>12. eels_index_pos(Slot, Counter_max - 1) = pred
  <2>1. Counter_max - 1 = R * (pages - 1) + (R - 1)
    BY <1>1, <1>2, <1>3
  <2>2. R - 1 \in 0 .. R - 1
    BY <1>1
  <2>3. eels_index_pos(Slot, R * (pages - 1) + (R - 1)) = B + P * (pages - 1) + (O + L * (R - 1))
    BY <1>3, <2>2, SlotTypes, IndexPosPaged
  <2>4. PageLimit(Slot) = O + R * L
    BY <1>1, SlotTypes, LayoutTypes DEF PageLimit, PagedLayout
  <2>5. O + L * (R - 1) = o
    <3> DEFINE l == L
               r == R
    <3>1. l \in Int /\ r \in Int /\ O \in Int
      BY <1>1
    <3>2. PageLimit(Slot) = O + r * l /\ o = PageLimit(Slot) - l
      BY <2>4
    <3> HIDE DEF l, r, o, O
    <3>3. l * (r - 1) = r * l - l /\ r * l \in Int
      BY <3>1
    <3>4. O + l * (r - 1) = o
      BY <3>1, <3>2, <3>3
    <3> QED
      BY <3>4 DEF l, r
  <2> QED
    BY <1>10, <2>1, <2>3, <2>5
<1> QED
  BY <1>1, <1>2, <1>4, <1>8, <1>11, <1>12

LEMMA FirstAndLastPage ==
  ASSUME PagedLayout(Slot)
  PROVE  LET lo == eels_pos_page(Slot, Pos0)
             hi == eels_pos_page(Slot, eels_pred_pos(Slot, Pos0))
         IN IsPage(lo) /\ IsPage(hi) /\ lo <= hi /\ lo \in Nat /\ hi \in Nat
<1> DEFINE P == Slot.page_size
           R == Slot.page_records
           B == Slot.begining
<1>1. P \in Nat /\ R \in Nat /\ R > 0 /\ P > 0 /\ B \in Nat
  BY SlotTypes, LayoutTypes DEF PagedLayout
<1>2. PICK pages \in 1 .. Slot.length :
        /\ Slot.length = pages * P /\ Counter_max = pages * R
        /\ eels_pos_page(Slot, Pos0) = B
        /\ eels_pos_page(Slot, eels_pred_pos(Slot, Pos0)) = B + P * (pages - 1)
  BY LastRecordPaged
<1>3. pages \in Nat /\ pages - 1 \in Nat /\ pages >= 1
  BY <1>2, SlotTypes
<1>4. /\ P * (pages - 1) = P * pages - P /\ pages * P = P * pages
      /\ P * (pages - 1) \in Nat /\ P * 0 = 0
  BY <1>1, <1>3
<1>5. pages - 1 \in 0 .. Counter_max - 1 /\ 0 \in 0 .. Counter_max - 1
  <2>1. pages * 1 <= pages * R
    BY <1>1, <1>3, TimesMonotone
  <2> QED
    BY <1>2, <1>3, <2>1, SlotTypes
<1>6. IsPage(B)
  BY <1>1, <1>2, <1>3, <1>4, <1>5 DEF IsPage
<1>7. IsPage(B + P * (pages - 1))
  BY <1>1, <1>2, <1>3, <1>4, <1>5 DEF IsPage
<1> QED
  BY <1>1, <1>2, <1>4, <1>6, <1>7

(* A step of the search that stays within its range.                       *)
LEMMA ScanKeeps ==
  ASSUME SlotInv, UNCHANGED <<rom, call>>, slot' \in Cursor,
         call.bytes = <<>>, pc' \in Scanning, scan' \in Scans, ScanInRange'
  PROVE  SlotInv'
<1>1. TypeOK'
  BY DEF SlotInv, TypeOK, Scanning, Writing
<1>2. CursorAgrees' /\ WriteInRecord'
  BY DEF CursorAgrees, WriteInRecord, Writing, Scanning
<1> QED
  BY <1>1, <1>2 DEF SlotInv

LEMMA FindLastPosKeeps ==
  ASSUME SlotInv, FindLastPos
  PROVE  SlotInv'
<1>1. /\ rom' = rom /\ TypeOK /\ slot \in Cursor /\ rom \in [Addr -> Byte]
      /\ pc \in {"off", "idle"} /\ call.bytes = <<>>
  BY DEF FindLastPos, SlotInv, TypeOK, WriteInRecord, Writing
<1>2. PICK epoch \in _EELS_ReadCounter(Pos0) : FindEmpty(epoch) \/ FindStart(epoch)
  BY DEF FindLastPos
<1>3. epoch \in Byte
  BY <1>1, <1>2, PosZero, ReadCounterType
<1>4. CASE FindEmpty(epoch)
  <2>1. slot' = [write_position |-> Pos0, write_index |-> 0,
                 epoch_counter |-> next_epoch(epoch), overlaped |-> FALSE]
        /\ Return
    BY <1>4 DEF FindEmpty
  <2>2. /\ next_epoch(epoch) \in 0 .. EpochNone - 1
        /\ 0 \in 0 .. Counter_max - 1 /\ Pos0 \in Nat
    BY <1>3, EpochTypes, SlotTypes, PosZero
  <2>3. slot' \in Cursor /\ slot'.write_position = eels_index_pos(Slot, slot'.write_index)
    BY <2>1, <2>2, PosZero DEF Cursor
  <2> QED
    BY <1>1, <2>1, <2>3, ReturnKeeps
<1>5. CASE FindStart(epoch)
  <2>1. epoch \in 0 .. EpochNone - 1
    BY <1>3, <1>5, EpochTypes DEF FindStart
  <2>2. slot' = [slot EXCEPT !.epoch_counter = epoch] /\ call' = call
    BY <1>5 DEF FindStart
  <2>3. slot' \in Cursor
    BY <1>1, <2>1, <2>2 DEF Cursor
  <2>4. CASE PagedLayout(Slot)
    <3> DEFINE lo == eels_pos_page(Slot, Pos0)
               hi == eels_pos_page(Slot, eels_pred_pos(Slot, Pos0))
    <3>1. IsPage(lo) /\ IsPage(hi) /\ lo <= hi /\ lo \in Nat /\ hi \in Nat
      BY <2>4, FirstAndLastPage
    <3>2. Slot.page_records > 0
      BY <2>4 DEF PagedLayout
    <3>3. /\ scan' = [epoch |-> epoch, lo |-> lo, hi |-> hi, xi |-> hi, page |-> 0]
          /\ pc' = "scan_pages"
      BY <1>5, <3>2 DEF FindStart
    <3> HIDE DEF lo, hi
    <3>4. scan' \in Scans
      BY <1>3, <3>1, <3>3 DEF Scans
    <3>5. ScanInRange'
      BY <2>4, <3>1, <3>3 DEF ScanInRange, IsPage
    <3> QED
      BY <1>1, <2>2, <2>3, <3>3, <3>4, <3>5, ScanKeeps DEF Scanning
  <2>5. CASE UnpagedLayout(Slot)
    <3>1. /\ ~ (Slot.page_records > 0)
          /\ Counter_max - 1 \in Nat /\ Counter_max - 1 < Counter_max
      BY <2>5, SlotTypes DEF UnpagedLayout
    <3>2. /\ scan' = [epoch |-> epoch, lo |-> 0, hi |-> Counter_max - 1,
                      xi |-> Counter_max - 1, page |-> 0]
          /\ pc' = "scan_solid"
      BY <1>5, <3>1 DEF FindStart
    <3>3. scan' \in Scans
      BY <1>3, <3>1, <3>2 DEF Scans
    <3>4. ScanInRange'
      BY <2>5, <3>1, <3>2 DEF ScanInRange
    <3> QED
      BY <1>1, <2>2, <2>3, <3>2, <3>3, <3>4, ScanKeeps DEF Scanning
  <2> QED
    BY <2>4, <2>5, SlotTypes DEF SlotLayout
<1> QED
  BY <1>2, <1>4, <1>5

(* Half of the way from lo to hi.                                          *)
LEMMA Halfway ==
  ASSUME NEW lo \in Nat, NEW hi \in Nat, lo <= hi
  PROVE  /\ lo + ((hi - lo) \div 2) \in Nat
         /\ lo <= lo + ((hi - lo) \div 2)
         /\ lo + ((hi - lo) \div 2) <= hi
OBVIOUS

LEMMA ScanSolidKeeps ==
  ASSUME SlotInv, ScanSolid
  PROVE  SlotInv'
<1>1. /\ pc = "scan_solid" /\ pc' = pc /\ scan.lo # scan.xi
      /\ rom' = rom /\ slot' = slot /\ call' = call
      /\ scan \in Scans /\ slot \in Cursor /\ call.bytes = <<>>
      /\ UnpagedLayout(Slot) /\ scan.hi < Counter_max
      /\ scan.lo <= scan.xi /\ scan.xi <= scan.hi
  BY DEF ScanSolid, SlotInv, TypeOK, WriteInRecord, ScanInRange, Writing, Scanning
<1>2. scan.lo \in Nat /\ scan.hi \in Nat /\ scan.xi \in Nat
  BY <1>1 DEF Scans
<1>3. PICK lo \in {scan.lo, scan.xi}, hi \in {scan.xi, scan.hi} :
        /\ lo <= hi
        /\ scan' = [scan EXCEPT !.lo = lo, !.hi = hi, !.xi = lo + ((hi - lo) \div 2)]
  BY <1>1, <1>2 DEF ScanSolid, SolidHalf
<1>4. lo \in Nat /\ hi \in Nat /\ hi < Counter_max
  BY <1>1, <1>2, SlotTypes
<1> DEFINE xi == lo + ((hi - lo) \div 2)
<1>5. xi \in Nat /\ lo <= xi /\ xi <= hi
  BY <1>3, <1>4, Halfway
<1> HIDE DEF xi
<1>6. scan' = [scan EXCEPT !.lo = lo, !.hi = hi, !.xi = xi]
  BY <1>3 DEF xi
<1>7. scan' \in Scans /\ scan'.lo = lo /\ scan'.hi = hi /\ scan'.xi = xi
  BY <1>1, <1>4, <1>5, <1>6 DEF Scans
<1>8. ScanInRange'
  BY <1>1, <1>4, <1>5, <1>7 DEF ScanInRange
<1> QED
  BY <1>1, <1>7, <1>8, ScanKeeps DEF Scanning

LEMMA PageTypes ==
  ASSUME PagedLayout(Slot)
  PROVE  /\ Slot.page_size \in Nat /\ Slot.page_size > 0
         /\ Slot.page_records \in Nat /\ Slot.page_records > 0
<1>1. SlotLayout(Slot)
  BY SlotTypes
<1> QED
  BY <1>1, LayoutTypes DEF PagedLayout

LEMMA ScanPagesKeeps ==
  ASSUME SlotInv, ScanPages
  PROVE  SlotInv'
<1> DEFINE P == Slot.page_size
           B == Slot.begining
<1>1. /\ pc = "scan_pages" /\ pc' = pc /\ scan.lo # scan.xi
      /\ rom' = rom /\ slot' = slot /\ call' = call
      /\ scan \in Scans /\ slot \in Cursor /\ call.bytes = <<>>
      /\ PagedLayout(Slot) /\ IsPage(scan.lo) /\ IsPage(scan.xi)
      /\ scan.hi < B + Slot.length
      /\ scan.lo <= scan.xi /\ scan.xi <= scan.hi
  BY DEF ScanPages, SlotInv, TypeOK, WriteInRecord, ScanInRange, Writing, Scanning
<1>2. scan.lo \in Nat /\ scan.hi \in Nat /\ scan.xi \in Nat
  BY <1>1 DEF Scans
<1>3. PICK lo \in {scan.lo, scan.xi}, hi \in {scan.xi - 1, scan.hi} :
        /\ lo <= hi
        /\ scan' = [scan EXCEPT !.lo = lo, !.hi = hi,
                      !.xi = IF hi - lo > P
                             THEN lo + eels_pos_page(Slot, (hi - lo) \div 2)
                             ELSE lo]
  <2>1. scan.lo <= scan.xi - 1
    BY <1>1, <1>2
  <2>2. \/ scan' = [scan EXCEPT !.lo = scan.xi, !.hi = scan.hi,
                     !.xi = IF scan.hi - scan.xi > P
                            THEN scan.xi + eels_pos_page(Slot, (scan.hi - scan.xi) \div 2)
                            ELSE scan.xi]
        \/ scan' = [scan EXCEPT !.lo = scan.lo, !.hi = scan.xi - 1,
                     !.xi = IF (scan.xi - 1) - scan.lo > P
                            THEN scan.lo + eels_pos_page(Slot, ((scan.xi - 1) - scan.lo) \div 2)
                            ELSE scan.lo]
    BY Zenon DEF ScanPages, PagesHalf
  <2> QED
    BY <1>1, <2>1, <2>2
<1>4. /\ lo \in Nat /\ hi \in Nat /\ IsPage(lo) /\ hi < B + Slot.length
  <2>1. lo = scan.lo \/ lo = scan.xi
    BY <1>3
  <2>2. hi = scan.xi - 1 \/ hi = scan.hi
    BY <1>3
  <2>3. lo \in Nat /\ IsPage(lo)
    BY <1>1, <1>2, <2>1
  <2>4. hi \in Nat
    <3>1. lo <= hi /\ hi \in Int
      BY <1>2, <1>3, <2>2
    <3> QED
      BY <2>3, <3>1
  <2>5. hi <= scan.hi
    BY <1>1, <1>2, <2>2
  <2>6. B + Slot.length \in Nat
    BY SlotTypes
  <2>7. hi < B + Slot.length
    <3> DEFINE end == B + Slot.length
    <3>1. scan.hi < end /\ end \in Nat
      BY <1>1, <2>6
    <3> HIDE DEF end
    <3>2. hi < end
      BY <1>2, <2>4, <2>5, <3>1
    <3> QED
      BY <3>2 DEF end
  <2> QED
    BY <2>3, <2>4, <2>7
<1>5. P \in Nat /\ P > 0 /\ B \in Nat
  BY <1>1, SlotTypes, PageTypes
<1> DEFINE half == (hi - lo) \div 2
           xi == IF hi - lo > P THEN lo + eels_pos_page(Slot, half) ELSE lo
<1>6. xi \in Nat /\ lo <= xi /\ xi <= hi /\ IsPage(xi)
  <2>1. CASE ~ (hi - lo > P)
    BY <1>3, <1>4, <2>1
  <2>2. CASE hi - lo > P
    <3>1. half \in Nat /\ lo + half <= hi
      BY <1>3, <1>4, Halfway
    <3> HIDE DEF half
    <3>2. PICK q \in Nat, r \in 0 .. P - 1 : half = P * q + r
      <4> HIDE DEF P
      <4>1. P \in Nat \ {0}
        BY <1>5
      <4> QED
        BY <3>1, <4>1, Divided
    <3>3. half % P = r /\ P * q \in Nat
      <4> HIDE DEF P
      <4>1. P \in Nat \ {0}
        BY <1>5
      <4>2. (P * q + r) % P = r
        BY <3>2, <4>1, DivMod
      <4> QED
        BY <3>2, <4>1, <4>2
    <3>4. eels_pos_page(Slot, half) = P * q
      BY <1>5, <3>2, <3>3 DEF eels_pos_page
    <3>5. xi = lo + P * q
      BY <2>2, <3>4
    <3>6. P * q <= half
      BY <1>5, <3>2, <3>3
    <3>7. xi \in Nat /\ lo <= xi /\ xi <= hi
      BY <1>4, <3>1, <3>3, <3>5, <3>6
    <3>8. IsPage(xi)
      <4>1. PICK a \in 0 .. Counter_max - 1 : lo = B + P * a
        BY <1>4 DEF IsPage
      <4>2. xi = B + P * (a + q) /\ P * (a + q) \in Nat
        <5>1. P * (a + q) = P * a + P * q /\ P * a \in Nat /\ a \in Nat
          BY <1>5, <4>1, SlotTypes
        <5> QED
          BY <1>5, <3>3, <3>5, <4>1, <5>1
      <4>3. xi < B + Slot.length
        BY <1>4, <1>5, <3>7, SlotTypes
      <4>4. a + q \in 0 .. Counter_max - 1
        <5>1. PICK pages \in Nat :
                Slot.length = pages * P /\ Counter_max = pages * Slot.page_records
          BY <1>1, SlotTypes DEF PagedLayout, Counter_max
        <5>2. pages * P = P * pages /\ P * (a + q) \in Nat
          BY <1>5, SlotTypes, <4>1
        <5>3. P * (a + q) < P * pages
          BY <1>5, <4>2, <4>3, <5>1, <5>2, SlotTypes
        <5>4. a + q < pages
          BY <1>5, <4>1, <5>3, a + q \in Nat, TimesCancels, SlotTypes
        <5>5. pages * 1 <= pages * Slot.page_records
          <6>1. Slot.page_records \in Nat /\ 1 \in Nat /\ 1 <= Slot.page_records
            BY <1>1, PageTypes
          <6> QED
            BY <5>1, <6>1, TimesMonotone
        <5> QED
          BY <4>1, <5>1, <5>4, <5>5, SlotTypes
      <4> QED
        BY <4>2, <4>3, <4>4 DEF IsPage
    <3> QED
      BY <3>7, <3>8
  <2> QED
    BY <2>1, <2>2
<1>7. scan' = [scan EXCEPT !.lo = lo, !.hi = hi, !.xi = xi]
  BY <1>3
<1> HIDE DEF xi
<1>8. scan' \in Scans /\ scan'.lo = lo /\ scan'.hi = hi /\ scan'.xi = xi
  BY <1>1, <1>4, <1>6, <1>7 DEF Scans
<1>9. ScanInRange'
  BY <1>1, <1>4, <1>6, <1>8 DEF ScanInRange, IsPage
<1> QED
  BY <1>1, <1>8, <1>9, ScanKeeps DEF Scanning

LEMMA ScanPagesEndKeeps ==
  ASSUME SlotInv, ScanPagesEnd
  PROVE  SlotInv'
<1> DEFINE last == Slot.page_records - 1
<1>1. /\ pc = "scan_pages" /\ pc' = "scan_recs"
      /\ rom' = rom /\ slot' = slot /\ call' = call
      /\ scan \in Scans /\ slot \in Cursor /\ call.bytes = <<>>
      /\ PagedLayout(Slot) /\ IsPage(scan.lo)
      /\ scan' = [scan EXCEPT !.page = scan.lo, !.lo = 0, !.hi = last, !.xi = last]
  BY DEF ScanPagesEnd, SlotInv, TypeOK, WriteInRecord, ScanInRange, Writing, Scanning
<1>2. last \in Nat /\ last < Slot.page_records /\ 0 <= last
  BY <1>1, PageTypes
<1> HIDE DEF last
<1>3. /\ scan' \in Scans /\ scan'.page = scan.lo
      /\ scan'.lo = 0 /\ scan'.hi = last /\ scan'.xi = last
  BY <1>1, <1>2 DEF Scans
<1>4. ScanInRange'
  BY <1>1, <1>2, <1>3 DEF ScanInRange, IsPage
<1> QED
  BY <1>1, <1>3, <1>4, ScanKeeps DEF Scanning

LEMMA ScanRecsKeeps ==
  ASSUME SlotInv, ScanRecs
  PROVE  SlotInv'
<1>1. /\ pc = "scan_recs" /\ pc' = pc /\ scan.lo # scan.xi
      /\ rom' = rom /\ slot' = slot /\ call' = call
      /\ scan \in Scans /\ slot \in Cursor /\ call.bytes = <<>>
      /\ PagedLayout(Slot) /\ IsPage(scan.page) /\ scan.hi < Slot.page_records
      /\ scan.lo <= scan.xi /\ scan.xi <= scan.hi
  BY DEF ScanRecs, SlotInv, TypeOK, WriteInRecord, ScanInRange, Writing, Scanning
<1>2. scan.lo \in Nat /\ scan.hi \in Nat /\ scan.xi \in Nat
      /\ Slot.page_records \in Nat
  BY <1>1, SlotTypes, LayoutTypes DEF Scans
<1>3. PICK lo \in {scan.lo, scan.xi}, hi \in {scan.xi - 1, scan.hi} :
        /\ lo <= hi
        /\ scan' = [scan EXCEPT !.lo = lo, !.hi = hi, !.xi = lo + ((hi - lo) \div 2)]
  <2>1. scan.lo <= scan.xi - 1
    BY <1>1, <1>2
  <2>2. \/ scan' = [scan EXCEPT !.lo = scan.xi, !.hi = scan.hi,
                     !.xi = scan.xi + ((scan.hi - scan.xi) \div 2)]
        \/ scan' = [scan EXCEPT !.lo = scan.lo, !.hi = scan.xi - 1,
                     !.xi = scan.lo + (((scan.xi - 1) - scan.lo) \div 2)]
    BY Zenon DEF ScanRecs, RecsHalf
  <2> QED
    BY <1>1, <2>1, <2>2
<1>4. lo \in Nat /\ hi \in Nat /\ hi < Slot.page_records
  BY <1>1, <1>2, <1>3
<1> DEFINE xi == lo + ((hi - lo) \div 2)
<1>5. xi \in Nat /\ lo <= xi /\ xi <= hi
  BY <1>3, <1>4, Halfway
<1> HIDE DEF xi
<1>6. scan' = [scan EXCEPT !.lo = lo, !.hi = hi, !.xi = xi]
  BY <1>3 DEF xi
<1>7. /\ scan' \in Scans /\ scan'.page = scan.page
      /\ scan'.lo = lo /\ scan'.hi = hi /\ scan'.xi = xi
  BY <1>1, <1>4, <1>5, <1>6 DEF Scans
<1>8. ScanInRange'
  BY <1>1, <1>4, <1>5, <1>7 DEF ScanInRange, IsPage
<1> QED
  BY <1>1, <1>7, <1>8, ScanKeeps DEF Scanning

(* The record that a search ends with is one of the slot's.                *)
LEMMA FoundAgrees ==
  ASSUME SlotInv, pc \in {"scan_recs", "scan_solid"}, scan.lo = scan.xi
  PROVE  Found \in Cursor /\ Found.write_position = eels_index_pos(Slot, Found.write_index)
<1>0. /\ pc \in {"scan_recs", "scan_solid"} /\ scan.lo = scan.xi
      /\ scan \in Scans /\ slot \in Cursor
      /\ scan.xi <= scan.hi /\ scan.xi \in Nat /\ scan.hi \in Nat
  BY DEF SlotInv, TypeOK, ScanInRange, Scanning, Scans
<1>1. CASE pc = "scan_solid"
  <2>1. scan.lo \in 0 .. Counter_max - 1
    BY <1>0, <1>1, SlotTypes DEF SlotInv, ScanInRange
  <2>2. eels_index_pos(Slot, scan.lo) \in Nat
    BY <2>1, RecordBounds
  <2>3. Found = [slot EXCEPT !.write_position = eels_index_pos(Slot, scan.lo),
                             !.write_index = scan.lo]
    BY <1>1 DEF Found
  <2> QED
    BY <1>0, <2>1, <2>2, <2>3 DEF Cursor
<1>2. CASE pc = "scan_recs"
  <2>1. PagedLayout(Slot) /\ IsPage(scan.page) /\ scan.hi < Slot.page_records
    BY <1>2 DEF SlotInv, ScanInRange
  <2>2. scan.xi \in 0 .. Slot.page_records - 1
    BY <1>0, <2>1, SlotTypes, LayoutTypes
  <2>3. PICK a \in Nat :
          /\ scan.page = Slot.begining + Slot.page_size * a
          /\ Slot.page_records * a + scan.xi \in 0 .. Counter_max - 1
          /\ eels_index_pos(Slot, Slot.page_records * a + scan.xi) = RecAt(scan.xi)
    BY <2>1, <2>2, PageNumber DEF RecAt
  <2>4. eels_page_idx(Slot, scan.page) = Slot.page_records * a
    <3>1. Slot.page_size \in Nat \ {0} /\ Slot.begining \in Nat
      BY <2>1, SlotTypes, LayoutTypes DEF PagedLayout
    <3>2. scan.page - Slot.begining = Slot.page_size * a + 0
      BY <2>3, <3>1
    <3>3. (Slot.page_size * a + 0) \div Slot.page_size = a
      BY <3>1, DivMod
    <3> QED
      BY <3>2, <3>3 DEF eels_page_idx
  <2> DEFINE i == Slot.page_records * a + scan.xi
  <2>5. Found = [slot EXCEPT !.write_position = eels_index_pos(Slot, i),
                             !.write_index = i]
    BY <1>2, <2>3, <2>4 DEF Found
  <2>6. i \in 0 .. Counter_max - 1
    BY <2>3
  <2> HIDE DEF i
  <2>7. eels_index_pos(Slot, i) \in Nat
    BY <2>6, RecordBounds
  <2> QED
    BY <1>0, <2>5, <2>6, <2>7 DEF Cursor
<1> QED
  BY <1>0, <1>1, <1>2

LEMMA FindEndKeeps ==
  ASSUME SlotInv, FindEnd
  PROVE  SlotInv'
<1>1. /\ pc \in {"scan_recs", "scan_solid"} /\ scan.lo = scan.xi
      /\ rom' = rom /\ Return
      /\ rom \in [Addr -> Byte]
  BY DEF FindEnd, SlotInv, TypeOK
<1>2. Found \in Cursor /\ Found.write_position = eels_index_pos(Slot, Found.write_index)
  BY <1>1, FoundAgrees
<1> DEFINE this == eels_write_advance(Found)
<1>3. this \in Cursor /\ this.write_position = eels_index_pos(Slot, this.write_index)
  BY <1>2, AdvanceAgrees
<1>4. PICK full \in BOOLEAN : slot' = [this EXCEPT !.overlaped = full]
  BY DEF FindEnd, Overlapped, is_next_epoch
<1> HIDE DEF this
<1>5. slot' \in Cursor /\ slot'.write_position = eels_index_pos(Slot, slot'.write_index)
  BY <1>3, <1>4 DEF Cursor
<1> QED
  BY <1>1, <1>5, ReturnKeeps

LEMMA NextKeeps ==
  ASSUME SlotInv, [Next]_vars
  PROVE  SlotInv'
<1>1. ASSUME NEW d \in Payloads, InsertLog(d) PROVE SlotInv'
  BY <1>1, InsertLogKeeps
<1>2. ASSUME NEW d \in Payloads, InsertRec(d) PROVE SlotInv'
  BY <1>2, InsertRecKeeps
<1>3. ASSUME NEW k \in 0 .. Len(call.bytes), InsertDataDone(k) PROVE SlotInv'
  BY <1>3, InsertDataDoneKeeps
<1>4. ASSUME NEW k \in 0 .. Len(call.bytes), InsertDone(k) PROVE SlotInv'
  BY <1>4, InsertDoneKeeps
<1>5. CASE CleanLog
  BY <1>5, CleanLogKeeps
<1>6. ASSUME NEW k \in 0 .. Len(call.bytes), CleanDone(k) PROVE SlotInv'
  BY <1>6, CleanDoneKeeps
<1>7. CASE Scan
  BY <1>7, FindLastPosKeeps, ScanPagesKeeps, ScanPagesEndKeeps, ScanRecsKeeps,
     ScanSolidKeeps, FindEndKeeps DEF Scan
<1>8. ASSUME NEW k \in 0 .. Len(call.bytes), WriteFail(k) PROVE SlotInv'
  BY <1>8, WriteFailKeeps
<1>9. ASSUME NEW k \in 0 .. Len(call.bytes), PowerLoss(k) PROVE SlotInv'
  BY <1>9, PowerLossKeeps
<1>10. CASE UNCHANGED vars
  <2>1. /\ rom' = rom /\ slot' = slot /\ call' = call /\ scan' = scan /\ pc' = pc
    BY <1>10 DEF vars
  <2>2. TypeOK' /\ CursorAgrees'
    BY <2>1 DEF SlotInv, TypeOK, CursorAgrees
  <2>3. WriteInRecord' /\ ScanInRange'
    BY <2>1 DEF SlotInv, WriteInRecord, ScanInRange, IsPage
  <2> QED
    BY <2>2, <2>3 DEF SlotInv
<1> QED
  BY <1>1, <1>2, <1>3, <1>4, <1>5, <1>6, <1>7, <1>8, <1>9, <1>10 DEF Next, WriteDone

(* The inductive invariant: types, the agreement of the two cursors, the   *)
(* bounds of every write and of every step of the search at start-up       *)
(* (EELS_InsertLog, EELS_InsertRec, EELS_CleanLog, _EELS_FindLastPos).     *)
THEOREM SlotInvariant == Spec => []SlotInv
<1>1. Init => SlotInv
  BY SlotInvInit
<1>2. SlotInv /\ [Next]_vars => SlotInv'
  BY NextKeeps
<1> QED
  BY <1>1, <1>2, PTL DEF Spec

(* Every variable of the slot keeps its type: the write index below        *)
(* _counter_max, the epoch below EELS_EPOCH_NONE, every byte of the EEPROM *)
(* and of a write in progress a byte.                                      *)
THEOREM TypeCorrect == Spec => []TypeOK
<1>1. SlotInv => TypeOK
  BY DEF SlotInv
<1> QED
  BY <1>1, SlotInvariant, PTL

(* Outside the start-up the position written to and the index counted name *)
(* the same record, for unpaged and for paged slots: eels_write_advance    *)
(* and eels_next_pos never drift from eels_index_pos.                      *)
THEOREM CursorAgreement == Spec => []CursorAgrees
<1>1. SlotInv => CursorAgrees
  BY DEF SlotInv
<1> QED
  BY <1>1, SlotInvariant, PTL

-----------------------------------------------------------------------------
(* What a step writes.                                                     *)

LEMMA LandedInRecord ==
  ASSUME SlotInv, NEW k \in 0 .. Len(call.bytes), Landed(k),
         NEW a \in Addr, rom'[a] # rom[a]
  PROVE  /\ a \in slot.write_position .. slot.write_position + Slot.slot_log_length - 1
         /\ eels_pos_ok(Slot, a)
<1> DEFINE p == slot.write_position
           L == Slot.slot_log_length
<1>1. TypeOK /\ call.at \in Nat /\ Len(call.bytes) \in Nat /\ p \in Nat /\ a \in Nat
  BY DEF SlotInv, TypeOK, Calls, Cursor, Addr
<1>2. a \in call.at .. call.at + Len(call.bytes) - 1
  BY <1>1, LandedBytes
<1>3. pc \in Writing
  <2>1. CASE pc \notin Writing
    <3>1. call.bytes = <<>>
      BY <2>1 DEF SlotInv, WriteInRecord
    <3> QED
      BY <1>1, <1>2, <3>1
  <2> QED
    BY <2>1
<1>4. p <= call.at /\ call.at + Len(call.bytes) <= p + L
  BY <1>3 DEF SlotInv, WriteInRecord
<1>5. Slot.begining <= p /\ p + L <= Slot.begining + Slot.length
  <2>1. p = eels_index_pos(Slot, slot.write_index)
    BY <1>3 DEF SlotInv, CursorAgrees
  <2>2. slot.write_index \in 0 .. Counter_max - 1
    BY <1>1 DEF TypeOK, Cursor
  <2> QED
    BY <2>1, <2>2, RecordBounds
<1>6. L \in Nat /\ Slot.begining \in Nat /\ Slot.length \in Nat
  BY SlotTypes
<1> HIDE DEF p, L
<1>7. a \in p .. p + L - 1 /\ a >= Slot.begining /\ a < Slot.begining + Slot.length
  BY <1>1, <1>2, <1>4, <1>5, <1>6
<1> QED
  BY <1>7 DEF p, L, eels_pos_ok

LEMMA NextInRecord ==
  ASSUME SlotInv, [Next]_vars, NEW a \in Addr, rom'[a] # rom[a]
  PROVE  /\ a \in slot.write_position .. slot.write_position + Slot.slot_log_length - 1
         /\ eels_pos_ok(Slot, a)
<1>1. \E k \in 0 .. Len(call.bytes) : Landed(k)
  <2>1. ~ (rom' = rom)
    OBVIOUS
  <2> QED
    BY <2>1 DEF Next, WriteDone, InsertLog, InsertRec, Insert, InsertDataDone, InsertDone, CleanLog,
       CleanDone, Scan, FindLastPos, ScanPages, ScanPagesEnd, ScanRecs, ScanSolid,
       FindEnd, WriteFail, PowerLoss, vars
<1> QED
  BY <1>1, LandedInRecord

(* No step of a slot, whatever fails and whenever the power goes, touches  *)
(* a byte outside the record under its cursor: two slots that do not       *)
(* overlap never disturb each other, and neither do two records of one.    *)
THEOREM WritesOnlyCursorRecord == Spec => OnlyCursorRecord
<1> DEFINE InRecord ==
      \A a \in Addr :
        rom'[a] # rom[a] =>
          /\ a \in slot.write_position .. slot.write_position + Slot.slot_log_length - 1
          /\ eels_pos_ok(Slot, a)
<1>1. SlotInv /\ [Next]_vars => [InRecord]_vars
  BY NextInRecord
<1> QED
  BY <1>1, SlotInvariant, PTL DEF Spec, OnlyCursorRecord

-----------------------------------------------------------------------------
(* What a probe does to a search.                                          *)

LEMMA NarrowerBounds ==
  ASSUME scan \in Scans, scan.lo <= scan.xi, scan.xi <= scan.hi, scan.lo # scan.xi,
         NEW lo, NEW hi, NEW xi \in Int,
         \/ lo = scan.xi /\ hi = scan.hi
         \/ lo = scan.lo /\ hi = scan.xi - 1
         \/ lo = scan.lo /\ hi = scan.xi /\ xi < scan.xi
  PROVE  Narrower([scan EXCEPT !.lo = lo, !.hi = hi, !.xi = xi])
<1> DEFINE next == [scan EXCEPT !.lo = lo, !.hi = hi, !.xi = xi]
<1>1. scan.lo \in Nat /\ scan.hi \in Nat /\ scan.xi \in Nat
  BY DEF Scans
<1>2. next.lo = lo /\ next.hi = hi /\ next.xi = xi
  BY DEF Scans
<1> HIDE DEF next
<1>3. Narrower(next)
  BY <1>1, <1>2 DEF Narrower
<1> QED
  BY <1>3 DEF next

(* Every probe of the three searches of _EELS_FindLastPos narrows what is  *)
(* left to search, whatever it reads: no search can run for ever, however  *)
(* many records there are.                                                 *)
THEOREM SearchNarrowing == Spec => []SearchNarrows
<1>1. SlotInv => SearchNarrows
  <2> SUFFICES ASSUME SlotInv, NEW found \in BOOLEAN, scan.lo # scan.xi
               PROVE  /\ pc = "scan_pages" => Narrower(PagesHalf(found))
                      /\ pc = "scan_recs"  => Narrower(RecsHalf(found))
                      /\ pc = "scan_solid" => Narrower(SolidHalf(found))
    BY DEF SearchNarrows
  <2>1. scan \in Scans /\ scan.lo \in Nat /\ scan.hi \in Nat /\ scan.xi \in Nat
    BY DEF SlotInv, TypeOK, Scans
  <2>2. pc \in Scanning => scan.lo <= scan.xi /\ scan.xi <= scan.hi
    BY DEF SlotInv, ScanInRange
  <2>3. ASSUME pc = "scan_solid" PROVE Narrower(SolidHalf(found))
    <3> DEFINE lo == IF found THEN scan.xi ELSE scan.lo
               hi == IF found THEN scan.hi ELSE scan.xi
               xi == lo + ((hi - lo) \div 2)
    <3>1. scan.lo <= scan.xi /\ scan.xi <= scan.hi
      BY <2>2, <2>3 DEF Scanning
    <3>2. \/ lo = scan.xi /\ hi = scan.hi
          \/ lo = scan.lo /\ hi = scan.xi /\ xi < scan.xi
      BY <2>1, <3>1
    <3>3. xi \in Int
      BY <2>1
    <3>4. SolidHalf(found) = [scan EXCEPT !.lo = lo, !.hi = hi, !.xi = xi]
      BY DEF SolidHalf
    <3> HIDE DEF lo, hi, xi
    <3>5. Narrower([scan EXCEPT !.lo = lo, !.hi = hi, !.xi = xi])
      BY <2>1, <3>1, <3>2, <3>3, NarrowerBounds, Zenon
    <3> QED
      BY <3>4, <3>5, Zenon
  <2>4. ASSUME pc = "scan_recs" PROVE Narrower(RecsHalf(found))
    <3> DEFINE lo == IF found THEN scan.xi ELSE scan.lo
               hi == IF found THEN scan.hi ELSE scan.xi - 1
               xi == lo + ((hi - lo) \div 2)
    <3>1. scan.lo <= scan.xi /\ scan.xi <= scan.hi
      BY <2>2, <2>4 DEF Scanning
    <3>2. \/ lo = scan.xi /\ hi = scan.hi
          \/ lo = scan.lo /\ hi = scan.xi - 1
      OBVIOUS
    <3>3. xi \in Int
      BY <2>1
    <3>4. RecsHalf(found) = [scan EXCEPT !.lo = lo, !.hi = hi, !.xi = xi]
      BY DEF RecsHalf
    <3> HIDE DEF lo, hi, xi
    <3>5. Narrower([scan EXCEPT !.lo = lo, !.hi = hi, !.xi = xi])
      BY <2>1, <3>1, <3>2, <3>3, NarrowerBounds, Zenon
    <3> QED
      BY <3>4, <3>5, Zenon
  <2>5. ASSUME pc = "scan_pages" PROVE Narrower(PagesHalf(found))
    <3> DEFINE lo == IF found THEN scan.xi ELSE scan.lo
               hi == IF found THEN scan.hi ELSE scan.xi - 1
               xi == IF hi - lo > Slot.page_size
                     THEN lo + eels_pos_page(Slot, (hi - lo) \div 2)
                     ELSE lo
    <3>1. scan.lo <= scan.xi /\ scan.xi <= scan.hi
      BY <2>2, <2>5 DEF Scanning
    <3>2. \/ lo = scan.xi /\ hi = scan.hi
          \/ lo = scan.lo /\ hi = scan.xi - 1
      OBVIOUS
    <3>3. xi \in Int
      <4>1. lo \in Int /\ hi \in Int /\ (hi - lo) \div 2 \in Int
        BY <2>1
      <4>2. Slot.page_size \in Nat \ {0}
        BY <2>5, SlotTypes, LayoutTypes DEF SlotInv, ScanInRange, PagedLayout
      <4> HIDE DEF lo, hi
      <4> QED
        BY <4>1, <4>2 DEF eels_pos_page
    <3>4. PagesHalf(found) = [scan EXCEPT !.lo = lo, !.hi = hi, !.xi = xi]
      BY DEF PagesHalf
    <3> HIDE DEF lo, hi, xi
    <3>5. Narrower([scan EXCEPT !.lo = lo, !.hi = hi, !.xi = xi])
      BY <2>1, <3>1, <3>2, <3>3, NarrowerBounds, Zenon
    <3> QED
      BY <3>4, <3>5, Zenon
  <2> QED
    BY <2>3, <2>4, <2>5
<1> QED
  BY <1>1, SlotInvariant, PTL

-----------------------------------------------------------------------------
(* What the writes of a slot do to its records: every write is the one its *)
(* call is to make, it changes no record but the one under the cursor, and *)
(* an insertion that ends has completed that one.                          *)

(* No two records of a slot share a byte.                                  *)
LEMMA RecordsDisjoint ==
  ASSUME NEW i \in 0 .. Counter_max - 1, NEW j \in 0 .. Counter_max - 1, i # j,
         NEW m \in 0 .. Slot.slot_log_length - 1
  PROVE  eels_index_pos(Slot, i) + m
           \notin eels_index_pos(Slot, j)
                    .. eels_index_pos(Slot, j) + Slot.slot_log_length - 1
<1>1. /\ eels_index_pos(Slot, i) \in Nat /\ eels_index_pos(Slot, j) \in Nat
      /\ Slot.slot_log_length \in Nat
  BY RecordBounds, SlotTypes
<1>2. \/ eels_index_pos(Slot, i) + Slot.slot_log_length <= eels_index_pos(Slot, j)
      \/ eels_index_pos(Slot, j) + Slot.slot_log_length <= eels_index_pos(Slot, i)
  <2>1. i < j \/ j < i
    BY SlotTypes
  <2> QED
    BY <2>1, SlotTypes, RecordsApart
<1> QED
  BY <1>1, <1>2

(* Two records with the same position are the same.                        *)
LEMMA IndexOfPos ==
  ASSUME NEW i \in 0 .. Counter_max - 1, NEW j \in 0 .. Counter_max - 1,
         eels_index_pos(Slot, i) = eels_index_pos(Slot, j)
  PROVE  i = j
<1> SUFFICES ASSUME i # j PROVE FALSE
  OBVIOUS
<1>1. 0 \in 0 .. Slot.slot_log_length - 1 /\ Slot.slot_log_length \in Nat
  BY SlotTypes
<1>2. eels_index_pos(Slot, i) \in Nat
  BY RecordBounds
<1> QED
  BY <1>1, <1>2, RecordsDisjoint

(* The bytes of a record are bytes of the EEPROM.                          *)
LEMMA BytesOfRecord ==
  ASSUME NEW i \in 0 .. Counter_max - 1, NEW m \in 0 .. Slot.slot_log_length - 1
  PROVE  eels_index_pos(Slot, i) + m \in Addr
<1>1. /\ eels_index_pos(Slot, i) \in Nat
      /\ eels_index_pos(Slot, i) + Slot.slot_log_length <= Slot.begining + Slot.length
  BY RecordBounds
<1> QED
  BY <1>1, SlotTypes DEF Addr

(* The place of byte n of the log in the record at x.                      *)
LEMMA DataOffset ==
  ASSUME NEW x \in Nat, NEW n \in 1 .. Slot.raw_data_size
  PROVE  /\ n \in Nat /\ n + 1 \in 0 .. Slot.slot_log_length - 1
         /\ x + 2 + n - 1 = x + (n + 1)
BY SlotTypes

(* A record that is not under the cursor keeps every byte.                 *)
LEMMA OtherRecordKept ==
  ASSUME SlotInv, pc \in {"idle"} \cup Writing,
         NEW k \in 0 .. Len(call.bytes), Landed(k),
         NEW i \in 0 .. Counter_max - 1, i # slot.write_index,
         NEW m \in 0 .. Slot.slot_log_length - 1
  PROVE  rom'[eels_index_pos(Slot, i) + m] = rom[eels_index_pos(Slot, i) + m]
<1>1. /\ slot.write_index \in 0 .. Counter_max - 1
      /\ slot.write_position = eels_index_pos(Slot, slot.write_index)
  BY DEF SlotInv, TypeOK, Cursor, CursorAgrees
<1>2. eels_index_pos(Slot, i) + m \in Addr
  BY BytesOfRecord
<1>3. eels_index_pos(Slot, i) + m
        \notin slot.write_position .. slot.write_position + Slot.slot_log_length - 1
  BY <1>1, RecordsDisjoint
<1> QED
  BY <1>2, <1>3, LandedInRecord

(* What reading a record depends on.                                       *)
LEMMA ReadingIs ==
  ASSUME NEW i \in 0 .. Counter_max - 1
  PROVE  _EELS_ReadLog(eels_index_pos(Slot, i))
           = [ok   |-> IF Crc(DataAt(eels_index_pos(Slot, i)))
                            = rom[eels_index_pos(Slot, i) + 1]
                       THEN 0 ELSE 1,
              data |-> DataAt(eels_index_pos(Slot, i))]
<1>1. PosOk(eels_index_pos(Slot, i))
  BY RecordBounds
<1> QED
  BY <1>1 DEF _EELS_ReadLog, CrcAt, EELS_RECOFFS_CRC, EELS_ERROR_OK, EELS_ERROR_NOK

(* The same of the record after a step.                                    *)
LEMMA ReadingLater ==
  ASSUME NEW i \in 0 .. Counter_max - 1
  PROVE  _EELS_ReadLog(eels_index_pos(Slot, i))'
           = [ok   |-> IF Crc(DataAt(eels_index_pos(Slot, i))')
                            = rom'[eels_index_pos(Slot, i) + 1]
                       THEN 0 ELSE 1,
              data |-> DataAt(eels_index_pos(Slot, i))']
<1>1. PosOk(eels_index_pos(Slot, i))
  BY RecordBounds
<1> QED
  BY <1>1 DEF _EELS_ReadLog, CrcAt, EELS_RECOFFS_CRC, EELS_ERROR_OK, EELS_ERROR_NOK, PosOk

LEMMA DataType ==
  ASSUME rom \in [Addr -> Byte], NEW i \in 0 .. Counter_max - 1
  PROVE  DataAt(eels_index_pos(Slot, i)) \in [1 .. Slot.raw_data_size -> Byte]
<1> DEFINE x == eels_index_pos(Slot, i)
<1>1. ASSUME NEW n \in 1 .. Slot.raw_data_size PROVE rom[x + 2 + n - 1] \in Byte
  <2>1. n + 1 \in 0 .. Slot.slot_log_length - 1 /\ n \in Nat
    BY SlotTypes
  <2>2. x \in Nat /\ x + (n + 1) \in Addr
    BY <2>1, RecordBounds, BytesOfRecord
  <2> HIDE DEF x
  <2>3. x + 2 + n - 1 = x + (n + 1)
    BY <2>1, <2>2
  <2> QED
    BY <2>2, <2>3
<1> QED
  BY <1>1 DEF DataAt, EELS_RECSIZE_HEAD

LEMMA ReadingType ==
  ASSUME rom \in [Addr -> Byte], NEW i \in 0 .. Counter_max - 1
  PROVE  _EELS_ReadLog(eels_index_pos(Slot, i))
           \in [ok : {0, 1}, data : [1 .. Slot.raw_data_size -> Byte]]
BY DataType, ReadingIs

(* A record that is not under the cursor reads as before.                  *)
LEMMA OtherReadingKept ==
  ASSUME SlotInv, pc \in {"idle"} \cup Writing,
         NEW k \in 0 .. Len(call.bytes), Landed(k),
         NEW i \in 0 .. Counter_max - 1, i # slot.write_index
  PROVE  _EELS_ReadLog(eels_index_pos(Slot, i))' = _EELS_ReadLog(eels_index_pos(Slot, i))
<1> DEFINE x == eels_index_pos(Slot, i)
<1>1. x \in Nat
  BY RecordBounds
<1>2. \A m \in 0 .. Slot.slot_log_length - 1 : rom'[x + m] = rom[x + m]
  BY OtherRecordKept
<1>3. PosOk(x)
  BY RecordBounds
<1> HIDE DEF x
<1>4. rom'[x + 1] = rom[x + 1]
  BY SlotTypes, 1 \in 0 .. Slot.slot_log_length - 1, <1>2
<1>5. DataAt(x)' = DataAt(x)
  <2>1. ASSUME NEW n \in 1 .. Slot.raw_data_size
        PROVE  rom'[x + 2 + n - 1] = rom[x + 2 + n - 1]
    <3>1. n + 1 \in 0 .. Slot.slot_log_length - 1 /\ x + 2 + n - 1 = x + (n + 1)
      BY <1>1, DataOffset
    <3> QED
      BY <1>2, <3>1
  <2> QED
    BY <2>1 DEF DataAt, EELS_RECSIZE_HEAD
<1>6. _EELS_ReadLog(x)' = _EELS_ReadLog(x)
  BY <1>3, <1>4, <1>5 DEF _EELS_ReadLog, CrcAt, EELS_RECOFFS_CRC, PosOk
<1> QED
  BY <1>6 DEF x

-----------------------------------------------------------------------------
(* The bytes of a write that ends.                                         *)

LEMMA LandedWhole ==
  ASSUME TypeOK, Landed(Len(call.bytes))
  PROVE  rom' = Program(call.at, call.bytes)
<1>1. call.bytes \in Seq(Byte)
  BY DEF TypeOK, Calls
<1>2. SubSeq(call.bytes, 1, Len(call.bytes)) = call.bytes
  BY <1>1, SubSeqFull
<1> QED
  BY <1>2 DEF Landed

LEMMA ProgrammedByte ==
  ASSUME NEW at \in Nat, NEW bytes \in Seq(Byte),
         rom' = Program(at, bytes),
         NEW m \in 1 .. Len(bytes), at + m - 1 \in Addr
  PROVE  rom'[at + m - 1] = bytes[m]
<1>1. Len(bytes) \in Nat
  OBVIOUS
<1>2. at + m - 1 \in at .. at + Len(bytes) - 1 /\ (at + m - 1) - at + 1 = m
  BY <1>1
<1> QED
  BY <1>2 DEF Program

(* EELS_InsertLog has written the log: only its header is missing.         *)
LEMMA DataLands ==
  ASSUME SlotInv, WriteExact, pc = "insert_data", Landed(Len(call.bytes)),
         UNCHANGED slot
  PROVE  DataAt(slot.write_position)' = call.data
<1> DEFINE x == slot.write_position
           w == slot.write_index
           d == call.data
<1>1. /\ d \in Payloads /\ call.at = x + 2 /\ call.bytes = d
      /\ w \in 0 .. Counter_max - 1 /\ x = eels_index_pos(Slot, w)
      /\ x \in Nat /\ TypeOK
  BY DEF WriteExact, Writing, EELS_RECSIZE_HEAD, SlotInv, TypeOK, Cursor, CursorAgrees
<1>2. d \in Seq(Byte) /\ Len(d) = Slot.raw_data_size
      /\ d \in [1 .. Slot.raw_data_size -> Byte]
  BY <1>1, Payload, DataAssumption
<1>3. rom' = Program(x + 2, d)
  BY <1>1, LandedWhole
<1>4. ASSUME NEW n \in 1 .. Slot.raw_data_size
      PROVE  rom'[x + 2 + n - 1] = d[n]
  <2>1. n + 1 \in 0 .. Slot.slot_log_length - 1 /\ x + 2 + n - 1 = x + (n + 1)
    BY <1>1, DataOffset
  <2>2. x + (n + 1) \in Addr
    BY <1>1, <2>1, BytesOfRecord
  <2>3. x + 2 \in Nat /\ n \in 1 .. Len(d) /\ (x + 2) + n - 1 \in Addr
    BY <1>1, <1>2, <2>1, <2>2
  <2> HIDE DEF x, d
  <2> QED
    BY <1>2, <1>3, <2>3, ProgrammedByte
<1>5. DataAt(x)' = [n \in 1 .. Slot.raw_data_size |-> rom'[x + 2 + n - 1]]
  BY DEF DataAt, EELS_RECSIZE_HEAD
<1> HIDE DEF x, d
<1>6. DataAt(x)' = d
  BY <1>2, <1>4, <1>5
<1> QED
  BY <1>6 DEF x, d

(* An insertion that ends has stamped the record under the cursor and has  *)
(* made it read as the log inserted.                                       *)
LEMMA InsertLands ==
  ASSUME SlotInv, WriteExact, pc \in {"insert_head", "insert_rec"},
         Landed(Len(call.bytes)), pc = "insert_head" => "insert_data" \notin Unnoticed,
         NEW w, w = slot.write_index
  PROVE  /\ rom'[eels_index_pos(Slot, w)] = slot.epoch_counter
         /\ _EELS_ReadLog(eels_index_pos(Slot, w))' = [ok |-> 0, data |-> call.data]
<1> DEFINE x == eels_index_pos(Slot, w)
           d == call.data
           head == <<slot.epoch_counter, Crc(d)>>
<1>1. /\ d \in Payloads /\ w \in 0 .. Counter_max - 1 /\ slot.write_position = x
      /\ TypeOK /\ call.at = x
      /\ call.bytes = IF pc = "insert_head" THEN head ELSE head \o d
  BY DEF WriteExact, Writing, SlotInv, TypeOK, Cursor, CursorAgrees, Header
<1>2. /\ d \in Seq(Byte) /\ Len(d) = Slot.raw_data_size
      /\ d \in [1 .. Slot.raw_data_size -> Byte]
  BY <1>1, Payload, DataAssumption
<1>3. head \in Seq(Byte) /\ Len(head) = 2
  BY <1>1, HeaderType DEF Header
<1>4. call.bytes \in Seq(Byte) /\ rom' = Program(x, call.bytes)
  BY <1>1, LandedWhole DEF TypeOK, Calls
<1>5. x \in Nat /\ \A m \in 0 .. Slot.slot_log_length - 1 : x + m \in Addr
  BY <1>1, RecordBounds, BytesOfRecord
<1>6. /\ Len(call.bytes) >= 2 /\ Len(call.bytes) \in Nat
      /\ call.bytes[1] = slot.epoch_counter /\ call.bytes[2] = Crc(d)
  <2>1. head[1] = slot.epoch_counter /\ head[2] = Crc(d)
    OBVIOUS
  <2> HIDE DEF head, d
  <2>2. CASE pc = "insert_head"
    <3>1. call.bytes = head
      BY <1>1, <2>2
    <3>2. Len(call.bytes) = 2
      BY <1>3, <3>1
    <3>3. call.bytes[1] = slot.epoch_counter /\ call.bytes[2] = Crc(d)
      BY <2>1, <3>1, Zenon
    <3> QED
      BY <3>2, <3>3
  <2>3. CASE pc = "insert_rec"
    <3>1. /\ Len(head \o d) = Len(head) + Len(d)
          /\ \A i \in 1 .. Len(head) + Len(d) :
               (head \o d)[i] = IF i <= Len(head) THEN head[i] ELSE d[i - Len(head)]
      BY <1>2, <1>3, ConcatProperties, Zenon
    <3> QED
      BY <1>1, <1>2, <1>3, <2>1, <2>3, <3>1, SlotTypes
  <2> QED
    BY <2>2, <2>3
<1>7. rom'[x] = slot.epoch_counter /\ rom'[x + 1] = Crc(d)
  <2>1. x \in Addr /\ x + 1 \in Addr
    <3>1. x + 0 \in Addr /\ x + 1 \in Addr /\ x + 0 = x
      BY <1>5, SlotTypes
    <3> QED
      BY <3>1
  <2> HIDE DEF x, head, d
  <2>2. 1 \in 1 .. Len(call.bytes) /\ 2 \in 1 .. Len(call.bytes)
    BY <1>6
  <2>3. x + 1 - 1 = x /\ x + 2 - 1 = x + 1
    BY <1>5
  <2>4. rom'[x + 1 - 1] = call.bytes[1] /\ rom'[x + 2 - 1] = call.bytes[2]
    BY <1>4, <1>5, <2>1, <2>2, <2>3, ProgrammedByte
  <2> QED
    BY <1>6, <2>3, <2>4
<1>8. ASSUME NEW n \in 1 .. Slot.raw_data_size
      PROVE  rom'[x + 2 + n - 1] = d[n]
  <2>1. n + 1 \in 0 .. Slot.slot_log_length - 1 /\ x + 2 + n - 1 = x + (n + 1)
    BY <1>5, DataOffset
  <2>2. x + 2 + n - 1 \in Addr
    BY <1>5, <2>1
  <2>3. CASE pc = "insert_head"
    <3>1. DataAt(x) = d
      BY <1>1, <2>3 DEF WriteExact
    <3>2. DataAt(x) = [j \in 1 .. Slot.raw_data_size |-> rom[x + 2 + j - 1]]
      BY DEF DataAt, EELS_RECSIZE_HEAD
    <3>3. d[n] = rom[x + 2 + n - 1]
      BY <3>1, <3>2
    <3>4. call.bytes = head
      BY <1>1, <2>3
    <3>5. x + 2 + n - 1 \notin x .. x + Len(call.bytes) - 1
      BY <1>3, <1>5, <3>4
    <3> QED
      BY <1>4, <2>2, <3>3, <3>5 DEF Program
  <2>4. CASE pc = "insert_rec"
    <3>1. call.bytes = head \o d
      BY <1>1, <2>4
    <3> HIDE DEF head, d, x
    <3>2. /\ Len(head \o d) = Len(head) + Len(d)
          /\ \A i \in 1 .. Len(head) + Len(d) :
               (head \o d)[i] = IF i <= Len(head) THEN head[i] ELSE d[i - Len(head)]
      BY <1>2, <1>3, ConcatProperties, Zenon
    <3>3. n + 2 \in 1 .. Len(call.bytes) /\ call.bytes[n + 2] = d[n]
      <4>1. /\ n + 2 \in 1 .. Len(head) + Len(d) /\ ~ (n + 2 <= Len(head))
            /\ (n + 2) - Len(head) = n
        BY <1>2, <1>3, SlotTypes
      <4> QED
        BY <3>1, <3>2, <4>1
    <3>4. x + (n + 2) - 1 = x + 2 + n - 1
      BY <1>5
    <3>5. rom'[x + (n + 2) - 1] = call.bytes[n + 2]
      BY <1>4, <1>5, <2>2, <3>3, <3>4, ProgrammedByte
    <3> QED
      BY <3>3, <3>4, <3>5
  <2> QED
    BY <2>3, <2>4
<1>9. DataAt(x)' = d
  <2>1. DataAt(x)' = [n \in 1 .. Slot.raw_data_size |-> rom'[x + 2 + n - 1]]
    BY DEF DataAt, EELS_RECSIZE_HEAD
  <2> HIDE DEF x, d
  <2> QED
    BY <1>2, <1>8, <2>1
<1> QED
  BY <1>1, <1>7, <1>9, ReadingLater

-----------------------------------------------------------------------------
(* Every write is the one its call is to make.                             *)

LEMMA NotWritingExact ==
  ASSUME pc' \notin Writing
  PROVE  WriteExact'
BY DEF WriteExact, Writing

LEMMA InsertStartsExact ==
  ASSUME SlotInv, NEW d \in Payloads, InsertLog(d) \/ InsertRec(d)
  PROVE  WriteExact'
<1>1. slot' = slot /\ PosOk(slot.write_position)
  <2>1. TypeOK /\ pc = "idle"
    BY DEF SlotInv, InsertLog, InsertRec, Insert
  <2>2. slot.write_position = eels_index_pos(Slot, slot.write_index)
        /\ slot.write_index \in 0 .. Counter_max - 1
    BY <2>1 DEF SlotInv, CursorAgrees, TypeOK, Cursor
  <2> QED
    BY <2>1, <2>2, UnwrappedSame, RecordBounds DEF InsertLog, InsertRec, Insert
<1>2. CASE InsertLog(d)
  <2>1. Write("insert_data", slot.write_position + EELS_RECSIZE_HEAD, d, d)
    BY <1>1, <1>2 DEF InsertLog, Insert
  <2> QED
    BY <1>1, <2>1 DEF Write, WriteExact
<1>3. CASE InsertRec(d)
  <2>1. Write("insert_rec", slot.write_position + 0, Header(d) \o d, d)
    BY <1>1, <1>3 DEF InsertRec, Insert
  <2>2. slot.write_position + 0 = slot.write_position
    BY DEF SlotInv, TypeOK, Cursor
  <2> QED
    BY <1>1, <2>1, <2>2 DEF Write, WriteExact, Header
<1> QED
  BY <1>2, <1>3

LEMMA InsertDataDoneExact ==
  ASSUME SlotInv, WriteExact, NEW k \in 0 .. Len(call.bytes), InsertDataDone(k)
  PROVE  WriteExact'
<1>1. /\ pc = "insert_data" /\ k \in Done /\ Landed(k) /\ slot' = slot
      /\ Write("insert_head", slot.write_position, Header(call.data), call.data)
  BY DEF InsertDataDone
<1>2. /\ call'.data = call.data /\ call'.at = slot.write_position
      /\ call'.bytes = Header(call.data) /\ pc' = "insert_head"
  BY <1>1 DEF Write
<1>3. call.data \in Payloads
  BY <1>1 DEF WriteExact, Writing
<1>4. ASSUME "insert_data" \notin Unnoticed
      PROVE  DataAt(slot.write_position)' = call.data
  <2>1. k = Len(call.bytes)
    BY <1>1, <1>4 DEF Done
  <2> QED
    BY <1>1, <2>1, DataLands
<1>5. Header(call.data)' = Header(call.data)
  BY <1>1, <1>2 DEF Header
<1> QED
  BY <1>1, <1>2, <1>3, <1>4, <1>5 DEF WriteExact

LEMMA CleanLogExact ==
  ASSUME SlotInv, CleanLog
  PROVE  WriteExact'
<1>1. /\ pc = "idle" /\ slot \in Cursor /\ rom \in [Addr -> Byte]
      /\ slot.write_position = eels_index_pos(Slot, slot.write_index)
  BY DEF CleanLog, SlotInv, TypeOK, CursorAgrees
<1>2. PICK epoch \in _EELS_ReadCounter(Pos0) : CleanEmpty(epoch) \/ CleanStamped(epoch)
  BY DEF CleanLog
<1>3. CASE CleanEmpty(epoch)
  <2>1. pc' \notin Writing
    BY <1>1, <1>3 DEF CleanEmpty, Writing
  <2> QED
    BY <2>1, NotWritingExact
<1>4. CASE CleanStamped(epoch)
  <2> DEFINE last == CleanEpoch(epoch)
             idx  == IF slot.write_position = Pos0 THEN slot.write_index ELSE 0
  <2>1. /\ slot' = [write_position |-> Pos0, write_index |-> idx,
                    epoch_counter |-> next_epoch(last), overlaped |-> FALSE]
        /\ pc' = "clean_head"
        /\ call' = [at |-> Pos0, bytes |-> CleanHead(last), data |-> <<>>]
    BY <1>4 DEF CleanStamped, Write
  <2>2. last \in 0 .. EpochNone - 1
    <3>1. epoch \in Byte
      BY <1>1, <1>2, PosZero, ReadCounterType
    <3>2. epoch \in 0 .. EpochNone - 1
      BY <1>4, <3>1, EpochTypes DEF CleanStamped
    <3> QED
      BY <1>1, <3>2 DEF CleanEpoch, Cursor
  <2>3. idx = 0
    <3>1. slot.write_index \in 0 .. Counter_max - 1 /\ 0 \in 0 .. Counter_max - 1
      BY <1>1, SlotTypes DEF Cursor
    <3> QED
      BY <1>1, <3>1, IndexOfPos DEF Pos0
  <2> HIDE DEF last, idx
  <2>4. EELS_Len' = 0
    BY <2>1, <2>3 DEF EELS_Len
  <2>5. call'.at = Pos0 /\ Pos0' = Pos0
    BY <2>1 DEF Pos0
  <2>6. call'.bytes = CleanHead(last) /\ slot'.epoch_counter = next_epoch(last)
    BY <2>1
  <2> QED
    BY <2>1, <2>2, <2>4, <2>5, <2>6 DEF WriteExact, Writing, CleanHead, next_epoch
<1> QED
  BY <1>2, <1>3, <1>4

LEMMA NextExact ==
  ASSUME SlotInv, WriteExact, [Next]_vars
  PROVE  WriteExact'
<1>1. ASSUME NEW d \in Payloads, InsertLog(d) \/ InsertRec(d) PROVE WriteExact'
  BY <1>1, InsertStartsExact
<1>2. CASE CleanLog
  BY <1>2, CleanLogExact
<1>3. CASE Scan
  <2>1. pc' \notin Writing
    BY <1>3 DEF Scan, FindLastPos, FindEmpty, FindStart, Return, ScanPages,
       ScanPagesEnd, ScanRecs, ScanSolid, FindEnd, Writing
  <2> QED
    BY <2>1, NotWritingExact
<1>4. ASSUME NEW k \in 0 .. Len(call.bytes), InsertDataDone(k) PROVE WriteExact'
  BY <1>4, InsertDataDoneExact
<1>5. ASSUME NEW k \in 0 .. Len(call.bytes),
             InsertDone(k) \/ CleanDone(k) \/ WriteFail(k) \/ PowerLoss(k)
      PROVE  WriteExact'
  <2>1. pc' \notin Writing
    BY <1>5 DEF InsertDone, CleanDone, WriteFail, PowerLoss, SwitchedOff, Return, Writing
  <2> QED
    BY <2>1, NotWritingExact
<1>6. CASE UNCHANGED vars
  <2>1. slot' = slot /\ call' = call /\ rom' = rom /\ pc' = pc
    BY <1>6 DEF vars
  <2> QED
    BY <2>1 DEF WriteExact, Header, DataAt, EELS_Len, Pos0, CleanHead, next_epoch
<1> QED
  BY <1>1, <1>2, <1>3, <1>4, <1>5, <1>6 DEF Next, WriteDone

(* Every write in progress is the one its call is to make: EELS_InsertLog  *)
(* writes the header of a record over the log it belongs to, EELS_CleanLog *)
(* breaks the stamp of record 0 with the epoch before the slot's own.      *)
THEOREM WritesExact == Spec => []WriteExact
<1>1. Init => WriteExact
  BY DEF Init, WriteExact, Writing
<1>2. SlotInv /\ WriteExact /\ [Next]_vars => WriteExact'
  BY NextExact
<1> QED
  BY <1>1, <1>2, SlotInvariant, PTL DEF Spec

=============================================================================
