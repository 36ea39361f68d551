-------------------------- MODULE EELSAloneProofs --------------------------
(***************************************************************************)
(* A slot in an EEPROM that others use, too: what it does there is what it *)
(* would do in an EEPROM with its own records and nothing else, and it     *)
(* changes no byte beyond them.                                            *)
(***************************************************************************)
EXTENDS EELSSlotProofs

VARIABLE whole   \* the bytes of the EEPROM; rom has those of the slot's records

Whole == INSTANCE EELSSlot WITH rom <- whole

Own == RecordBytes(Slot)

Masked == rom = [a \in DOMAIN whole |-> IF a \in Own THEN whole[a] ELSE Blank]

(* A slot at work.                                                         *)
AtWork ==
  /\ SlotInv
  /\ whole \in [Addr -> Byte]
  /\ Masked /\ Masked'

(* What a step leaves alone.                                               *)
OthersKept ==
  /\ whole' \in [Addr -> Byte]
  /\ \A a \in Addr \ Own : whole'[a] = whole[a]

LEMMA OwnBytes ==
  ASSUME NEW i \in 0 .. Counter_max - 1, NEW m \in 0 .. Slot.slot_log_length - 1
  PROVE  eels_index_pos(Slot, i) + m \in Own \cap Addr
<1>1. eels_index_pos(Slot, i) \in Nat /\ Slot.slot_log_length \in Nat
  BY RecordBounds, SlotTypes
<1>2. eels_index_pos(Slot, i) + m
        \in eels_index_pos(Slot, i) .. eels_index_pos(Slot, i) + Slot.slot_log_length - 1
  BY <1>1
<1> QED
  BY <1>2, BytesOfRecord DEF Own, RecordBytes, Counter_max

LEMMA OwnStamp ==
  ASSUME NEW i \in 0 .. Counter_max - 1
  PROVE  eels_index_pos(Slot, i) \in Own \cap Addr
<1>1. 0 \in 0 .. Slot.slot_log_length - 1 /\ eels_index_pos(Slot, i) \in Nat
  BY RecordBounds, SlotTypes
<1>2. eels_index_pos(Slot, i) + 0 \in Own \cap Addr
  BY <1>1, OwnBytes
<1> QED
  BY <1>1, <1>2

-----------------------------------------------------------------------------
(* Where a slot reads.                                                     *)

LEMMA SameRead ==
  ASSUME AtWork, NEW x \in Own \cap Addr
  PROVE  Whole!_EELS_ReadCounter(x) = _EELS_ReadCounter(x)
<1>1. rom[x] = whole[x]
  BY DEF AtWork, Masked
<1>2. \A err : Whole!Misread(err) = Misread(err)
  BY DEF Whole!Misread, Misread
<1> QED
  BY <1>1, <1>2 DEF Whole!_EELS_ReadCounter, _EELS_ReadCounter

LEMMA NothingWritten ==
  ASSUME AtWork, whole' = whole
  PROVE  rom' = rom /\ OthersKept
BY DEF AtWork, Masked, OthersKept

(* eels_pred_pos leads from record 0 to the last one.                      *)
LEMMA PredOfFirst == eels_pred_pos(Slot, Pos0) = eels_index_pos(Slot, Counter_max - 1)
<1> DEFINE L == Slot.slot_log_length
           B == Slot.begining
           C == Counter_max
<1>1. L \in Nat \ {0} /\ B \in Nat /\ C \in Nat \ {0} /\ C = Slot._counter_max
  BY SlotTypes
<1>2. CASE UnpagedLayout(Slot)
  <2>1. Slot.page_size = 0 /\ Slot.page_records = 0
    BY <1>2 DEF UnpagedLayout
  <2>2. Pos0 = B + L * 0 /\ eels_index_pos(Slot, C - 1) = B + L * (C - 1)
    BY <2>1 DEF Pos0, eels_index_pos
  <2>3. Pos0 < B + L
    BY <1>1, <2>2
  <2>4. eels_pred_pos(Slot, Pos0) = B + L * C - L
    BY <1>1, <2>1, <2>3 DEF eels_pred_pos
  <2>5. B + L * (C - 1) = B + L * C - L
    BY <1>1
  <2> QED
    BY <2>2, <2>4, <2>5
<1>3. CASE PagedLayout(Slot)
  <2> DEFINE P == Slot.page_size
             R == Slot.page_records
             O == Slot.page_offs
  <2>1. P \in Nat \ {0} /\ R \in Nat \ {0} /\ O \in Nat
    BY <1>3, SlotTypes, LayoutTypes DEF PagedLayout
  <2>2. PICK pages \in 1 .. Slot.length : Slot.length = pages * P /\ C = pages * R
    BY <1>1, <1>3 DEF PagedLayout
  <2>3. pages \in Nat \ {0} /\ pages - 1 \in Nat /\ R - 1 \in 0 .. R - 1
    BY <2>1, <2>2, SlotTypes
  <2>4. C - 1 = R * (pages - 1) + (R - 1)
    BY <2>1, <2>2, <2>3
  <2>5. eels_index_pos(Slot, C - 1) = B + P * (pages - 1) + (O + L * (R - 1))
    BY <1>3, <2>3, <2>4, SlotTypes, IndexPosPaged
  <2>6. Pos0 = B + P * 0 + O
    <3>1. eels_index_pos(Slot, R * 0 + 0) = B + P * 0 + (O + L * 0)
      BY <1>3, <2>1, 0 \in 0 .. R - 1, SlotTypes, IndexPosPaged
    <3>2. R * 0 + 0 = 0 /\ O + L * 0 = O
      BY <1>1, <2>1
    <3> QED
      BY <3>1, <3>2, PosZero
  <2>7. O \in 0 .. P - 1
    <3>1. /\ O + L * 0 < P /\ O + L * 0 = O
      BY <1>1, <1>3, <2>1, 0 \in 0 .. R - 1, SlotTypes, SectionFits
    <3> QED
      BY <2>1, <3>1
  <2>8. eels_pos_page(Slot, Pos0) = B /\ eels_pos_ofs(Slot, Pos0) = O
    <3>1. eels_pos_page(Slot, Pos0) = B + P * 0 /\ eels_pos_ofs(Slot, Pos0) = O
      BY <1>3, <2>6, <2>7, SlotTypes, PosPage
    <3> QED
      BY <1>1, <2>1, <3>1
  <2>9. PageLimit(Slot) = O + R * L
    <3>1. R * L \in Nat \ {0}
      BY <1>1, <2>1
    <3>2. Slot.page_limit = O + R * L
      BY <1>3 DEF PagedLayout
    <3> QED
      BY <2>1, <3>1, <3>2 DEF PageLimit
  <2>10. ~ (O > O + L) /\ B < B + P
    BY <1>1, <2>1
  <2>11. eels_pred_pos(Slot, Pos0) = ((B + Slot.length) - P) + ((O + R * L) - L)
    <3>1. eels_pred_pos(Slot, Pos0)
            = IF O > O + L THEN B + (O - L)
              ELSE ((IF B < B + P THEN B + Slot.length ELSE B) - P) + ((O + R * L) - L)
      BY <2>1, <2>8, <2>9 DEF eels_pred_pos
    <3> QED
      BY <2>10, <3>1
  <2>12. (B + Slot.length) - P = B + P * (pages - 1)
    <3>1. P * (pages - 1) = pages * P - P /\ pages * P \in Nat
      BY <2>1, <2>3
    <3> QED
      BY <1>1, <2>1, <2>2, <3>1
  <2>13. (O + R * L) - L = O + L * (R - 1)
    <3>1. L * (R - 1) = R * L - L /\ R * L \in Nat
      BY <1>1, <2>1
    <3> QED
      BY <1>1, <2>1, <3>1
  <2> QED
    BY <2>5, <2>11, <2>12, <2>13
<1> QED
  BY <1>2, <1>3, SlotTypes DEF SlotLayout

LEMMA FirstAndLastStamp ==
  /\ Pos0 \in Own \cap Addr
  /\ eels_pred_pos(Slot, Pos0) \in Own \cap Addr
BY PredOfFirst, PosZero, OwnStamp, SlotTypes

-----------------------------------------------------------------------------
(* The steps that write nothing.                                           *)

LEMMA SameStart ==
  ASSUME NEW epoch
  PROVE  /\ Whole!FindEmpty(epoch) <=> FindEmpty(epoch)
         /\ Whole!FindStart(epoch) <=> FindStart(epoch)
<1>1. Whole!FindEmpty(epoch) <=> FindEmpty(epoch)
  BY DEF Whole!FindEmpty, FindEmpty, Whole!HasNone, HasNone, Whole!next_epoch, next_epoch,
         Whole!Pos0, Pos0, Whole!eels_index_pos, eels_index_pos, Whole!Return, Return,
         Whole!NoWrite, NoWrite, Whole!NoScan, NoScan
<1>2. Whole!FindStart(epoch) <=> FindStart(epoch)
  BY DEF Whole!FindStart, FindStart, Whole!HasNone, HasNone, Whole!Pos0, Pos0,
         Whole!eels_index_pos, eels_index_pos, Whole!eels_pos_page, eels_pos_page,
         Whole!eels_pred_pos, eels_pred_pos, Whole!eels_pos_ofs, eels_pos_ofs,
         Whole!PageLimit, PageLimit, Whole!Counter_max, Counter_max
<1> QED
  BY <1>1, <1>2

LEMMA SamePos0 == Whole!Pos0 = Pos0 /\ \A x : Whole!PosOk(x) <=> PosOk(x)
BY DEF Whole!Pos0, Pos0, Whole!eels_index_pos, eels_index_pos, Whole!PosOk, PosOk,
       Whole!eels_pos_ok, eels_pos_ok

LEMMA AloneFindLastPos ==
  ASSUME AtWork, Whole!FindLastPos
  PROVE  FindLastPos /\ OthersKept
<1>1. whole' = whole
  BY DEF Whole!FindLastPos
<1>2. rom' = rom /\ OthersKept
  BY <1>1, NothingWritten
<1>3. \E epoch \in _EELS_ReadCounter(Pos0) : FindEmpty(epoch) \/ FindStart(epoch)
  <2>1. PICK epoch \in Whole!_EELS_ReadCounter(Pos0) :
          Whole!FindEmpty(epoch) \/ Whole!FindStart(epoch)
    BY SamePos0 DEF Whole!FindLastPos
  <2>2. epoch \in _EELS_ReadCounter(Pos0)
    BY <2>1, SameRead, FirstAndLastStamp
  <2> QED
    BY <2>1, <2>2, SameStart
<1>4. PosOk(Pos0) /\ (pc = "off" \/ (pc = "idle" /\ Rescans))
  BY SamePos0 DEF Whole!FindLastPos
<1> QED
  BY <1>2, <1>3, <1>4 DEF FindLastPos

LEMMA AloneScanPages ==
  ASSUME AtWork, Whole!ScanPages
  PROVE  ScanPages /\ OthersKept
<1> DEFINE x == scan.xi + Slot.page_offs
<1>1. /\ pc = "scan_pages" /\ scan.lo # scan.xi /\ UNCHANGED <<slot, call, pc>>
      /\ whole' = whole
  BY DEF Whole!ScanPages
<1>2. rom' = rom /\ OthersKept
  BY <1>1, NothingWritten
<1>3. x \in Own \cap Addr
  <2>1. PagedLayout(Slot) /\ IsPage(scan.xi) /\ scan.xi \in Nat
    BY <1>1 DEF AtWork, SlotInv, ScanInRange, TypeOK, Scans
  <2>2. 0 \in 0 .. Slot.page_records - 1 /\ Slot.page_offs \in Nat
    BY <2>1, SlotTypes, LayoutTypes DEF PagedLayout
  <2>3. PICK a \in Nat :
          /\ Slot.page_records * a + 0 \in 0 .. Counter_max - 1
          /\ eels_index_pos(Slot, Slot.page_records * a + 0)
               = scan.xi + (Slot.page_offs + Slot.slot_log_length * 0)
    BY <2>1, <2>2, PageNumber
  <2>4. scan.xi + (Slot.page_offs + Slot.slot_log_length * 0) = x
    BY <2>1, <2>2, SlotTypes
  <2> QED
    BY <2>3, <2>4, OwnStamp
<1>4. Whole!_EELS_ReadCounter(x) = _EELS_ReadCounter(x)
  BY <1>3, SameRead
<1>5. \A found : Whole!PagesHalf(found) = PagesHalf(found)
  BY DEF Whole!PagesHalf, PagesHalf, Whole!eels_pos_page, eels_pos_page
<1> QED
  BY <1>1, <1>2, <1>4, <1>5 DEF Whole!ScanPages, ScanPages

LEMMA AloneScanPagesEnd ==
  ASSUME AtWork, Whole!ScanPagesEnd
  PROVE  ScanPagesEnd /\ OthersKept
BY NothingWritten DEF Whole!ScanPagesEnd, ScanPagesEnd

LEMMA AloneScanRecs ==
  ASSUME AtWork, Whole!ScanRecs
  PROVE  ScanRecs /\ OthersKept
<1> DEFINE x == RecAt(scan.xi)
<1>1. /\ pc = "scan_recs" /\ scan.lo # scan.xi /\ UNCHANGED <<slot, call, pc>>
      /\ whole' = whole
  BY DEF Whole!ScanRecs
<1>2. rom' = rom /\ OthersKept
  BY <1>1, NothingWritten
<1>3. x \in Own \cap Addr
  <2>1. PagedLayout(Slot) /\ IsPage(scan.page) /\ scan.xi \in 0 .. Slot.page_records - 1
    BY <1>1, SlotTypes, LayoutTypes
    DEF AtWork, SlotInv, ScanInRange, TypeOK, Scans, Scanning
  <2>2. PICK a \in Nat :
          /\ Slot.page_records * a + scan.xi \in 0 .. Counter_max - 1
          /\ eels_index_pos(Slot, Slot.page_records * a + scan.xi) = x
    BY <2>1, PageNumber DEF RecAt
  <2> QED
    BY <2>2, OwnStamp
<1>4. Whole!_EELS_ReadCounter(x) = _EELS_ReadCounter(x)
  BY <1>3, SameRead
<1>5. Whole!RecAt(scan.xi) = x /\ \A found : Whole!RecsHalf(found) = RecsHalf(found)
  BY DEF Whole!RecsHalf, RecsHalf, Whole!RecAt, RecAt
<1> QED
  BY <1>1, <1>2, <1>4, <1>5 DEF Whole!ScanRecs, ScanRecs

LEMMA AloneScanSolid ==
  ASSUME AtWork, Whole!ScanSolid
  PROVE  ScanSolid /\ OthersKept
<1> DEFINE x == eels_index_pos(Slot, scan.xi)
<1>1. /\ pc = "scan_solid" /\ scan.lo # scan.xi /\ UNCHANGED <<slot, call, pc>>
      /\ whole' = whole
  BY DEF Whole!ScanSolid
<1>2. rom' = rom /\ OthersKept
  BY <1>1, NothingWritten
<1>3. x \in Own \cap Addr
  <2>1. scan.xi \in 0 .. Counter_max - 1
    BY <1>1, SlotTypes DEF AtWork, SlotInv, ScanInRange, TypeOK, Scans, Scanning
  <2> QED
    BY <2>1, OwnStamp
<1>4. Whole!_EELS_ReadCounter(x) = _EELS_ReadCounter(x)
  BY <1>3, SameRead
<1>5. Whole!eels_index_pos(Slot, scan.xi) = x
  BY DEF Whole!eels_index_pos, eels_index_pos
<1>6. \A found : Whole!SolidHalf(found) = SolidHalf(found)
  BY DEF Whole!SolidHalf, SolidHalf
<1> QED
  BY <1>1, <1>2, <1>4, <1>5, <1>6 DEF Whole!ScanSolid, ScanSolid

LEMMA SameAdvance ==
  ASSUME NEW this
  PROVE  Whole!eels_write_advance(this) = eels_write_advance(this)
BY DEF Whole!eels_write_advance, eels_write_advance, Whole!eels_next_pos, eels_next_pos,
       Whole!eels_pos_page, eels_pos_page, Whole!eels_pos_ofs, eels_pos_ofs,
       Whole!PageLimit, PageLimit, Whole!PastLastPage, PastLastPage,
       Whole!BeyondTop, BeyondTop, Whole!Counter_max, Counter_max, Whole!Pos0, Pos0,
       Whole!eels_index_pos, eels_index_pos, Whole!next_epoch, next_epoch

LEMMA SameFound == Whole!Found = Found
BY DEF Whole!Found, Found, Whole!RecAt, RecAt, Whole!eels_page_idx, eels_page_idx,
       Whole!eels_index_pos, eels_index_pos

LEMMA SameOverlapped ==
  ASSUME NEW hi, NEW last
  PROVE  Whole!Overlapped(hi, last) = Overlapped(hi, last)
BY DEF Whole!Overlapped, Overlapped, Whole!is_next_epoch, is_next_epoch,
       Whole!HasNone, HasNone, Whole!next_epoch, next_epoch

LEMMA AloneFindEnd ==
  ASSUME AtWork, Whole!FindEnd
  PROVE  FindEnd /\ OthersKept
<1> DEFINE this == eels_write_advance(Found)
           pred == eels_pred_pos(Slot, Pos0)
<1>1. /\ pc \in {"scan_recs", "scan_solid"} /\ scan.lo = scan.xi /\ whole' = whole
      /\ Whole!Return
  BY DEF Whole!FindEnd
<1>2. rom' = rom /\ OthersKept
  BY <1>1, NothingWritten
<1>3. Whole!eels_write_advance(Whole!Found) = this
  BY SameFound, SameAdvance
<1>4. Whole!eels_pred_pos(Slot, Whole!Pos0) = pred
  BY DEF Whole!Pos0, Pos0, Whole!eels_index_pos, eels_index_pos, Whole!eels_pos_page,
         eels_pos_page, Whole!eels_pred_pos, eels_pred_pos, Whole!eels_pos_ofs, eels_pos_ofs,
         Whole!PageLimit, PageLimit
<1>5. this.write_position \in Own \cap Addr
  <2>1. Found \in Cursor /\ Found.write_position = eels_index_pos(Slot, Found.write_index)
    BY <1>1, FoundAgrees DEF AtWork
  <2>2. this \in Cursor /\ this.write_position = eels_index_pos(Slot, this.write_index)
    BY <2>1, AdvanceAgrees
  <2>3. this.write_index \in 0 .. Counter_max - 1
    BY <2>2 DEF Cursor
  <2> QED
    BY <2>2, <2>3, OwnStamp
<1> HIDE DEF this, pred
<1>6. PICK hi \in Whole!_EELS_ReadCounter(pred),
           last \in Whole!_EELS_ReadCounter(this.write_position) :
        slot' = [this EXCEPT !.overlaped = Whole!Overlapped(hi, last)]
  BY <1>3, <1>4 DEF Whole!FindEnd
<1>7. hi \in _EELS_ReadCounter(pred) /\ last \in _EELS_ReadCounter(this.write_position)
  BY <1>5, <1>6, SameRead, FirstAndLastStamp DEF pred
<1>8. slot' = [this EXCEPT !.overlaped = Overlapped(hi, last)]
  BY <1>6, SameOverlapped
<1>9. Return
  BY <1>1 DEF Whole!Return, Return, Whole!NoWrite, NoWrite, Whole!NoScan, NoScan
<1> QED
  BY <1>1, <1>2, <1>7, <1>8, <1>9 DEF FindEnd, this, pred

LEMMA AloneScan ==
  ASSUME AtWork, Whole!Scan
  PROVE  Scan /\ OthersKept
BY AloneFindLastPos, AloneScanPages, AloneScanPagesEnd, AloneScanRecs, AloneScanSolid,
   AloneFindEnd DEF Whole!Scan, Scan

-----------------------------------------------------------------------------
(* The calls that begin to write.                                          *)

LEMMA SameInsert ==
  ASSUME AtWork, NEW where, NEW ofs, NEW bytes, NEW d, Whole!Insert(where, ofs, bytes, d)
  PROVE  Insert(where, ofs, bytes, d) /\ OthersKept
<1>1. whole' = whole
  BY DEF Whole!Insert
<1>2. rom' = rom /\ OthersKept
  BY <1>1, NothingWritten
<1>3. Whole!Unwrapped(slot) = Unwrapped(slot)
  BY SamePos0 DEF Whole!Unwrapped, Unwrapped, Whole!Counter_max, Counter_max
<1> QED
  BY <1>2, <1>3, SamePos0 DEF Whole!Insert, Insert, Whole!Write, Write

LEMMA AloneInsert ==
  ASSUME AtWork, NEW d \in Payloads, Whole!InsertLog(d) \/ Whole!InsertRec(d)
  PROVE  (InsertLog(d) \/ InsertRec(d)) /\ OthersKept
<1>1. Whole!Header(d) = Header(d)
  BY DEF Whole!Header, Header
<1> QED
  BY <1>1, SameInsert
  DEF Whole!InsertLog, InsertLog, Whole!InsertRec, InsertRec,
      Whole!EELS_RECSIZE_HEAD, EELS_RECSIZE_HEAD

LEMMA SameClean ==
  ASSUME NEW epoch
  PROVE  /\ Whole!CleanEmpty(epoch) <=> CleanEmpty(epoch)
         /\ Whole!CleanStamped(epoch) <=> CleanStamped(epoch)
<1>1. Whole!CleanEmpty(epoch) <=> CleanEmpty(epoch)
  BY SamePos0 DEF Whole!CleanEmpty, CleanEmpty, Whole!HasNone, HasNone,
     Whole!next_epoch, next_epoch
<1>2. Whole!CleanStamped(epoch) <=> CleanStamped(epoch)
  BY SamePos0 DEF Whole!CleanStamped, CleanStamped, Whole!HasNone, HasNone,
     Whole!next_epoch, next_epoch, Whole!CleanEpoch, CleanEpoch, Whole!CleanHead,
     CleanHead, Whole!Write, Write
<1> QED
  BY <1>1, <1>2

LEMMA AloneCleanLog ==
  ASSUME AtWork, Whole!CleanLog
  PROVE  CleanLog /\ OthersKept
<1>1. pc = "idle" /\ whole' = whole /\ scan' = scan
  BY DEF Whole!CleanLog
<1>2. rom' = rom /\ OthersKept
  BY <1>1, NothingWritten
<1>3. PICK epoch \in Whole!_EELS_ReadCounter(Pos0) :
        Whole!CleanEmpty(epoch) \/ Whole!CleanStamped(epoch)
  BY SamePos0 DEF Whole!CleanLog
<1>4. epoch \in _EELS_ReadCounter(Pos0)
  BY <1>3, SameRead, FirstAndLastStamp
<1> QED
  BY <1>1, <1>2, <1>3, <1>4, SameClean DEF CleanLog

-----------------------------------------------------------------------------
(* The write in progress comes to an end, or to none.                      *)

LEMMA WritesOwn ==
  ASSUME SlotInv, NEW a \in call.at .. call.at + Len(call.bytes) - 1
  PROVE  a \in Own \cap Addr
<1> DEFINE p == slot.write_position
           m == a - p
<1>1. /\ call.at \in Nat /\ Len(call.bytes) \in Nat /\ p \in Nat /\ a \in Nat
      /\ slot.write_index \in 0 .. Counter_max - 1
  BY DEF SlotInv, TypeOK, Calls, Cursor
<1>2. pc \in Writing
  <2>1. CASE pc \notin Writing
    <3>1. call.bytes = <<>>
      BY <2>1 DEF SlotInv, WriteInRecord
    <3> QED
      BY <1>1, <3>1
  <2> QED
    BY <2>1
<1>3. /\ p <= call.at /\ call.at + Len(call.bytes) <= p + Slot.slot_log_length
      /\ p = eels_index_pos(Slot, slot.write_index)
  BY <1>2 DEF SlotInv, WriteInRecord, CursorAgrees
<1>4. m \in 0 .. Slot.slot_log_length - 1 /\ p + m = a
  <2>1. Slot.slot_log_length \in Nat
    BY SlotTypes
  <2>2. call.at <= a /\ a <= call.at + Len(call.bytes) - 1
    BY <1>1
  <2> HIDE DEF p
  <2>3. p <= a /\ a <= p + Slot.slot_log_length - 1
    BY <1>1, <1>3, <2>1, <2>2
  <2> QED
    BY <1>1, <2>1, <2>3
<1> HIDE DEF m, p
<1> QED
  BY <1>1, <1>3, <1>4, OwnBytes

LEMMA AloneLanding ==
  ASSUME AtWork, NEW k \in 0 .. Len(call.bytes), Whole!Landed(k)
  PROVE  Landed(k) /\ OthersKept
<1> DEFINE bytes == SubSeq(call.bytes, 1, k)
           Hit(a) == a \in call.at .. call.at + k - 1
<1>1. call.at \in Nat /\ call.bytes \in Seq(Byte) /\ Len(call.bytes) \in Nat
  BY DEF AtWork, SlotInv, TypeOK, Calls
<1>2. bytes \in Seq(Byte) /\ Len(bytes) = k /\ k \in Nat
  BY <1>1
<1>3. \A i \in 1 .. k : bytes[i] \in Byte
  BY <1>2
<1> HIDE DEF bytes
<1>4. whole' = [a \in Addr |-> IF Hit(a) THEN bytes[a - call.at + 1] ELSE whole[a]]
  BY <1>2 DEF Whole!Landed, Whole!Program, Whole!Addr, Addr, bytes
<1>5. \A a \in Addr : Hit(a) => a \in Own /\ bytes[a - call.at + 1] \in Byte
  <2> SUFFICES ASSUME NEW a \in Addr, Hit(a)
               PROVE  a \in Own /\ bytes[a - call.at + 1] \in Byte
    OBVIOUS
  <2>1. a \in call.at .. call.at + Len(call.bytes) - 1 /\ a - call.at + 1 \in 1 .. k
    BY <1>1, <1>2
  <2> QED
    BY <1>3, <2>1, WritesOwn DEF AtWork
<1> HIDE DEF Hit
<1>6. whole \in [Addr -> Byte]
  BY DEF AtWork
<1>7. whole' \in [Addr -> Byte]
  BY <1>4, <1>5, <1>6
<1>8. \A a \in Addr \ Own : whole'[a] = whole[a]
  BY <1>4, <1>5
<1>9. Landed(k)
  <2>1. rom = [a \in Addr |-> IF a \in Own THEN whole[a] ELSE Blank]
    BY <1>6 DEF AtWork, Masked
  <2>2. rom' = [a \in Addr |-> IF a \in Own THEN whole'[a] ELSE Blank]
    BY <1>7 DEF AtWork, Masked, Own
  <2>3. rom' = [a \in Addr |-> IF Hit(a) THEN bytes[a - call.at + 1] ELSE rom[a]]
    BY <1>4, <1>5, <2>1, <2>2
  <2> QED
    BY <1>2, <2>3 DEF Landed, Program, bytes, Hit
<1> QED
  BY <1>7, <1>8, <1>9 DEF OthersKept

LEMMA SameReturn == Whole!Return <=> Return
BY DEF Whole!Return, Return, Whole!NoWrite, NoWrite, Whole!NoScan, NoScan

LEMMA AloneWriteDone ==
  ASSUME AtWork, NEW k \in 0 .. Len(call.bytes), Whole!WriteDone(k)
  PROVE  WriteDone(k) /\ OthersKept
<1>1. Whole!Landed(k) /\ k \in Whole!Done
  BY DEF Whole!WriteDone, Whole!InsertDataDone, Whole!InsertDone, Whole!CleanDone
<1>2. Landed(k) /\ OthersKept /\ k \in Done
  BY <1>1, AloneLanding DEF Whole!Done, Done
<1>3. CASE Whole!InsertDataDone(k)
  <2>1. InsertDataDone(k)
    BY <1>2, <1>3 DEF Whole!InsertDataDone, InsertDataDone, Whole!Write, Write,
       Whole!Header, Header
  <2> QED
    BY <1>2, <2>1 DEF WriteDone
<1>4. CASE Whole!InsertDone(k)
  <2>1. InsertDone(k)
    BY <1>2, <1>4, SameAdvance, SameReturn DEF Whole!InsertDone, InsertDone
  <2> QED
    BY <1>2, <2>1 DEF WriteDone
<1>5. CASE Whole!CleanDone(k)
  <2>1. CleanDone(k)
    BY <1>2, <1>5, SameReturn DEF Whole!CleanDone, CleanDone
  <2> QED
    BY <1>2, <2>1 DEF WriteDone
<1> QED
  BY <1>3, <1>4, <1>5 DEF Whole!WriteDone

LEMMA AloneWriteFail ==
  ASSUME AtWork, NEW k \in 0 .. Len(call.bytes), Whole!WriteFail(k)
  PROVE  WriteFail(k) /\ OthersKept
BY AloneLanding, SameReturn DEF Whole!WriteFail, WriteFail

LEMMA AlonePowerLoss ==
  ASSUME AtWork, NEW k \in 0 .. Len(call.bytes), Whole!PowerLoss(k)
  PROVE  PowerLoss(k) /\ OthersKept
BY AloneLanding
DEF Whole!PowerLoss, PowerLoss, Whole!SwitchedOff, SwitchedOff, Whole!Cleared, Cleared,
    Whole!NoWrite, NoWrite, Whole!NoScan, NoScan

(* A step of a slot in an EEPROM that others use, whatever fails, is a     *)
(* step it could take in an EEPROM of its own: no operation of EELS.c      *)
(* reads a byte outside the slot's records, and none writes one.           *)
THEOREM AloneNext ==
  ASSUME AtWork, Whole!Next
  PROVE  Next /\ OthersKept
<1>1. CASE \E d \in Payloads : Whole!InsertLog(d) \/ Whole!InsertRec(d)
  BY <1>1, AloneInsert DEF Next
<1>2. CASE Whole!CleanLog
  BY <1>2, AloneCleanLog DEF Next
<1>3. CASE Whole!Scan
  BY <1>3, AloneScan DEF Next
<1>4. CASE \E k \in 0 .. Len(call.bytes) :
             Whole!WriteDone(k) \/ Whole!WriteFail(k) \/ Whole!PowerLoss(k)
  BY <1>4, AloneWriteDone, AloneWriteFail, AlonePowerLoss DEF Next
<1> QED
  BY <1>1, <1>2, <1>3, <1>4 DEF Whole!Next

-----------------------------------------------------------------------------
(* The slot while another one is at work.                                  *)

(* Without power the RAM of the slot is clear.                             *)
OffIsCleared == pc = "off" => slot = Cleared /\ call = NoWrite /\ scan = NoScan

LEMMA OffKeeps ==
  ASSUME OffIsCleared, [Next]_vars
  PROVE  OffIsCleared'
<1>1. CASE UNCHANGED vars
  BY <1>1 DEF OffIsCleared, vars, Cleared, NoWrite, NoScan
<1>2. CASE Next
  <2>1. SUFFICES ASSUME pc' = "off" PROVE SwitchedOff
    BY DEF SwitchedOff, OffIsCleared, Cleared, NoWrite, NoScan
  <2>2. CASE \E d \in Payloads : InsertLog(d) \/ InsertRec(d)
    BY <2>1, <2>2 DEF InsertLog, InsertRec, Insert, Write
  <2>3. CASE CleanLog
    BY <2>1, <2>3 DEF CleanLog, CleanEmpty, CleanStamped, Write
  <2>4. CASE Scan
    BY <2>1, <2>4 DEF Scan, FindLastPos, FindEmpty, FindStart, ScanPages, ScanPagesEnd,
       ScanRecs, ScanSolid, FindEnd, Return
  <2>5. CASE \E k \in 0 .. Len(call.bytes) : WriteDone(k) \/ WriteFail(k) \/ PowerLoss(k)
    BY <2>1, <2>5 DEF WriteDone, InsertDataDone, InsertDone, CleanDone, WriteFail, PowerLoss,
       Write, Return
  <2> QED
    BY <1>2, <2>2, <2>3, <2>4, <2>5 DEF Next
<1> QED
  BY <1>1, <1>2

(* What another slot writes, and a loss of power while it does.            *)
LEMMA OtherWrites ==
  ASSUME SlotInv, OffIsCleared, rom' \in [Addr -> Byte],
         UNCHANGED <<slot, call, scan, pc>> \/ SwitchedOff
  PROVE  SlotInv' /\ OffIsCleared'
<1>1. CASE UNCHANGED <<slot, call, scan, pc>>
  <2>1. TypeOK' /\ CursorAgrees'
    BY <1>1 DEF SlotInv, TypeOK, CursorAgrees
  <2>2. WriteInRecord' /\ ScanInRange' /\ OffIsCleared'
    BY <1>1 DEF SlotInv, WriteInRecord, ScanInRange, IsPage, OffIsCleared, Cleared, NoWrite,
       NoScan
  <2> QED
    BY <2>1, <2>2 DEF SlotInv
<1>2. CASE SwitchedOff
  <2>1. slot' = Cleared /\ call' = NoWrite /\ scan' = NoScan /\ pc' = "off"
    BY <1>2 DEF SwitchedOff
  <2>2. TypeOK'
    <3>1. 0 \in 0 .. Counter_max - 1 /\ 0 \in 0 .. EpochNone - 1
      BY SlotTypes, EpochTypes
    <3>2. slot' \in Cursor
      BY <2>1, <3>1 DEF Cleared, Cursor
    <3> QED
      BY <2>1, <3>2 DEF TypeOK, Calls, NoWrite, Scans, NoScan, Byte
  <2>3. CursorAgrees' /\ WriteInRecord' /\ ScanInRange' /\ OffIsCleared'
    BY <2>1 DEF CursorAgrees, WriteInRecord, ScanInRange, Writing, Scanning, NoWrite,
       OffIsCleared, Cleared, NoScan
  <2> QED
    BY <2>2, <2>3 DEF SlotInv
<1> QED
  BY <1>1, <1>2

(* The power goes while another slot writes.                               *)
LEMMA OffAlone ==
  ASSUME SlotInv, OffIsCleared, PowerLosses, pc \notin Writing, SwitchedOff, rom' = rom
  PROVE  [Next]_vars
<1>1. CASE pc = "off"
  BY <1>1 DEF OffIsCleared, SwitchedOff, vars
<1>2. CASE pc # "off"
  <2>1. /\ call.bytes = <<>> /\ call.at \in Nat
        /\ rom \in [Addr -> Byte]
    BY DEF SlotInv, WriteInRecord, TypeOK, Calls
  <2>2. SubSeq(call.bytes, 1, 0) = <<>> /\ Len(call.bytes) = 0
    BY <2>1
  <2>3. Program(call.at, <<>>) = rom
    BY <2>1 DEF Program, Addr
  <2>4. PowerLoss(0)
    BY <1>2, <2>2, <2>3 DEF PowerLoss, Landed
  <2>5. 0 \in 0 .. Len(call.bytes)
    BY <2>2
  <2> QED
    BY <2>4, <2>5 DEF Next
<1> QED
  BY <1>1, <1>2

=============================================================================
