------------------------ MODULE EELSRefinementProofs ------------------------
(***************************************************************************)
(* A slot implements the log of EELSLog, for every layout, whatever the    *)
(* EEPROM holds, whichever writes fail with a negative code, whichever     *)
(* reads fail, and whenever the power goes.  A write that fails without    *)
(* EELS.c noticing is left out: after it the log shows what was not        *)
(* written, and nothing can be said.                                       *)
(***************************************************************************)
EXTENDS EELSRefinement, EELSSlotProofs

(* The record that log k, counted from the oldest, lies in.                *)
RecordOf(k) == IF slot.overlaped THEN RingIndex(k + slot.write_index) ELSE k

Readings == [ok : {EELS_ERROR_OK, EELS_ERROR_NOK},
             data : [1 .. Slot.raw_data_size -> Byte]]

(* What the slot shows while it is on line.                                *)
Shown == IF Started THEN ReadableLog ELSE <<>>

-----------------------------------------------------------------------------
(* The log read through EELS_Len and EELS_ReadIdx.                         *)

LEMMA RingIs ==
  ASSUME NEW j \in 0 .. Counter_max, NEW w \in 0 .. Counter_max - 1
  PROVE  /\ RingIndex(j + w) = IF j + w >= Counter_max THEN j + w - Counter_max ELSE j + w
         /\ j + w >= Counter_max \/ j < Counter_max => RingIndex(j + w) \in 0 .. Counter_max - 1
BY SlotTypes DEF RingIndex

LEMMA LengthIs ==
  ASSUME slot \in Cursor
  PROVE  /\ EELS_Len \in 0 .. Counter_max /\ EELS_Len \in Nat
         /\ \A k \in 0 .. EELS_Len - 1 : RecordOf(k) \in 0 .. Counter_max - 1
<1>1. slot.write_index \in 0 .. Counter_max - 1 /\ slot.overlaped \in BOOLEAN
  BY DEF Cursor
<1>2. EELS_Len \in 0 .. Counter_max /\ EELS_Len \in Nat
  BY <1>1, SlotTypes DEF EELS_Len
<1>3. ASSUME NEW k \in 0 .. EELS_Len - 1 PROVE RecordOf(k) \in 0 .. Counter_max - 1
  <2>1. CASE slot.overlaped
    <3>1. k \in 0 .. Counter_max - 1 /\ k \in 0 .. Counter_max /\ k < Counter_max
      BY <1>2, <2>1, SlotTypes DEF EELS_Len
    <3> QED
      BY <1>1, <2>1, <3>1, RingIs DEF RecordOf
  <2>2. CASE ~ slot.overlaped
    BY <1>1, <2>2, SlotTypes DEF EELS_Len, RecordOf
  <2> QED
    BY <2>1, <2>2
<1> QED
  BY <1>2, <1>3

LEMMA PositionIs ==
  ASSUME slot \in Cursor, NEW k \in 0 .. EELS_Len - 1
  PROVE  eels_relative_pos(k) = eels_index_pos(Slot, RecordOf(k))
<1>1. EELS_Len \in Nat /\ k \in Nat /\ k < EELS_Len
  BY LengthIs
<1>2. ~ (k >= EELS_Len) /\ ~ (-k >= EELS_Len) /\ ~ (k < 0)
  BY <1>1
<1> QED
  BY <1>2 DEF eels_relative_pos, RecordOf

(* The log shown, entry by entry.                                          *)
ReadsInOrder ==
  /\ ReadableLog \in Seq(Readings) /\ Len(ReadableLog) = EELS_Len
  /\ EELS_Len \in 0 .. Counter_max
  /\ \A k \in 1 .. EELS_Len, i \in 0 .. Counter_max - 1 :
       i = RecordOf(k - 1) => ReadableLog[k] = _EELS_ReadLog(eels_index_pos(Slot, i))

LEMMA ReadableIs == slot \in Cursor /\ rom \in [Addr -> Byte] => ReadsInOrder
<1> SUFFICES ASSUME slot \in Cursor, rom \in [Addr -> Byte] PROVE ReadsInOrder
  OBVIOUS
<1>1. EELS_Len \in Nat /\ EELS_Len \in 0 .. Counter_max
  BY LengthIs
<1>2. ASSUME NEW k \in 1 .. EELS_Len
      PROVE  /\ EELS_ReadIdx(k - 1) = _EELS_ReadLog(eels_index_pos(Slot, RecordOf(k - 1)))
             /\ EELS_ReadIdx(k - 1) \in Readings
  <2>1. k - 1 \in 0 .. EELS_Len - 1
    BY <1>1
  <2>2. EELS_ReadIdx(k - 1) = _EELS_ReadLog(eels_index_pos(Slot, RecordOf(k - 1)))
    BY <2>1, PositionIs DEF EELS_ReadIdx
  <2>3. RecordOf(k - 1) \in 0 .. Counter_max - 1
    BY <2>1, LengthIs
  <2> QED
    BY <2>2, <2>3, ReadingType DEF Readings, EELS_ERROR_OK, EELS_ERROR_NOK
<1>3. ReadableLog \in [1 .. EELS_Len -> Readings]
  BY <1>2 DEF ReadableLog
<1>4. ReadableLog \in Seq(Readings) /\ Len(ReadableLog) = EELS_Len
  BY <1>1, <1>3
<1>5. \A k \in 1 .. EELS_Len : ReadableLog[k] = EELS_ReadIdx(k - 1)
  BY DEF ReadableLog
<1> QED
  BY <1>1, <1>2, <1>4, <1>5 DEF ReadsInOrder

(* The same after a step.                                                  *)
LEMMA ReadableLater ==
  ASSUME slot' \in Cursor, rom' \in [Addr -> Byte]
  PROVE  /\ ReadableLog' \in Seq(Readings) /\ Len(ReadableLog') = EELS_Len'
         /\ EELS_Len' \in 0 .. Counter_max
         /\ \A k \in 1 .. EELS_Len', i \in 0 .. Counter_max - 1 :
              i = (IF slot'.overlaped THEN RingIndex(k - 1 + slot'.write_index) ELSE k - 1)
                => ReadableLog'[k] = _EELS_ReadLog(eels_index_pos(Slot, i))'
<1>1. (slot \in Cursor /\ rom \in [Addr -> Byte] => ReadsInOrder)'
  BY ReadableIs, PTL
<1>2. Readings' = Readings /\ Addr' = Addr /\ Cursor' = Cursor /\ Counter_max' = Counter_max
  BY DEF Readings, Addr, Byte, Cursor, Counter_max
<1>3. ReadsInOrder'
  BY <1>1, <1>2 DEF Addr, Byte, Cursor, Counter_max
<1> QED
  BY <1>3 DEF ReadsInOrder, RecordOf, RingIndex, Counter_max, Readings

-----------------------------------------------------------------------------
(* An insertion that ends.                                                 *)

(* The ring turned by one record.                                          *)
LEMMA RingTurns ==
  ASSUME NEW w \in 0 .. Counter_max - 1, NEW k \in 1 .. Counter_max
  PROVE  /\ w + 1 < Counter_max => RingIndex(k - 1 + (w + 1)) = RingIndex(k + w)
         /\ w + 1 = Counter_max => RingIndex(k - 1 + 0) = RingIndex(k + w)
         /\ RingIndex(k + w) \in 0 .. Counter_max - 1
         /\ RingIndex(k + w) = w <=> k = Counter_max
         /\ RingIndex(k - 1 + 0) = k - 1
BY SlotTypes DEF RingIndex

LEMMA InsertAppends ==
  ASSUME SlotInv, WriteExact, Unnoticed = {}, NEW n \in 0 .. Len(call.bytes), InsertDone(n)
  PROVE  ReadableLog' = Append(IF Len(ReadableLog) = Counter_max THEN Tail(ReadableLog)
                               ELSE ReadableLog, Entry(call.data))
<1> DEFINE N == Counter_max
           e == Entry(call.data)
           L == ReadableLog
<1>1. /\ pc \in {"insert_head", "insert_rec"} /\ n \in Done /\ Landed(n)
      /\ slot' = eels_write_advance(slot)
  BY DEF InsertDone
<1>2. n = Len(call.bytes)
  BY <1>1 DEF Done
<1>3. /\ TypeOK /\ slot \in Cursor /\ rom \in [Addr -> Byte]
      /\ slot.write_position = eels_index_pos(Slot, slot.write_index)
      /\ pc \in {"idle"} \cup Writing
  BY <1>1 DEF SlotInv, TypeOK, CursorAgrees, Writing
<1>4. PICK w \in 0 .. N - 1 : w = slot.write_index
  BY <1>3 DEF Cursor
<1>5. PICK o \in BOOLEAN : o = slot.overlaped
  BY <1>3 DEF Cursor
<1>6. slot' \in Cursor /\ rom' \in [Addr -> Byte]
  BY <1>1, <1>3, AdvanceAgrees, LandedBytes
<1>7. _EELS_ReadLog(eels_index_pos(Slot, w))' = e
  BY <1>1, <1>2, <1>4, InsertLands DEF Entry, EELS_ERROR_OK
<1>8. \A i \in 0 .. N - 1 :
        i # w => _EELS_ReadLog(eels_index_pos(Slot, i))' = _EELS_ReadLog(eels_index_pos(Slot, i))
  BY <1>1, <1>3, <1>4, OtherReadingKept
<1>9. e \in Readings
  <2>1. call.data \in Payloads
    BY <1>1 DEF WriteExact, Writing
  <2> QED
    BY <2>1, DataAssumption DEF Entry, Readings
<1>10. \/ w + 1 < N /\ slot'.write_index = w + 1 /\ slot'.overlaped = o
       \/ w + 1 = N /\ slot'.write_index = 0 /\ slot'.overlaped = TRUE
  BY <1>1, <1>3, <1>4, <1>5, AdvanceIs
<1>11. /\ L \in Seq(Readings) /\ Len(L) = (IF o THEN N ELSE w)
       /\ \A k \in 1 .. Len(L), i \in 0 .. N - 1 :
            i = (IF o THEN RingIndex(k - 1 + w) ELSE k - 1)
              => L[k] = _EELS_ReadLog(eels_index_pos(Slot, i))
  BY <1>3, <1>4, <1>5, ReadableIs DEF ReadsInOrder, RecordOf, EELS_Len
<1>12. /\ L' \in Seq(Readings) /\ Len(L') = (IF slot'.overlaped THEN N ELSE slot'.write_index)
       /\ \A k \in 1 .. Len(L'), i \in 0 .. N - 1 :
            i = (IF slot'.overlaped THEN RingIndex(k - 1 + slot'.write_index) ELSE k - 1)
              => L'[k] = _EELS_ReadLog(eels_index_pos(Slot, i))'
  BY <1>6, ReadableLater DEF EELS_Len, Counter_max
<1>13. N \in Nat /\ N > 0
  BY SlotTypes
<1> HIDE DEF L, e, N
<1>14. CASE ~ o
  <2>1. Len(L) = w /\ Len(L) # N /\ w \in Nat
    BY <1>4, <1>11, <1>13, <1>14
  <2>2. Len(L') = w + 1
    BY <1>10, <1>12, <1>14
  <2>3. ASSUME NEW k \in 1 .. w + 1
        PROVE  L'[k] = _EELS_ReadLog(eels_index_pos(Slot, k - 1))' /\ k - 1 \in 0 .. N - 1
    <3>1. k \in 1 .. N /\ k - 1 \in 0 .. N - 1
      BY <1>4, <1>13
    <3>2. k - 1 = IF slot'.overlaped THEN RingIndex(k - 1 + slot'.write_index) ELSE k - 1
      BY <1>10, <1>14, <3>1, RingTurns DEF N
    <3> QED
      BY <1>12, <2>2, <3>1, <3>2
  <2>4. /\ Append(L, e) \in Seq(Readings) /\ Len(Append(L, e)) = w + 1
        /\ \A k \in 1 .. w : Append(L, e)[k] = L[k]
        /\ Append(L, e)[w + 1] = e
    BY <1>9, <1>11, <2>1, AppendProperties
  <2>5. ASSUME NEW k \in 1 .. w + 1 PROVE L'[k] = Append(L, e)[k]
    <3>1. CASE k = w + 1
      <4>1. k - 1 = w
        BY <2>1, <3>1
      <4> QED
        BY <1>7, <2>3, <2>4, <3>1, <4>1
    <3>2. CASE k # w + 1
      <4>1. k \in 1 .. w /\ k - 1 # w /\ k - 1 \in 0 .. N - 1
        BY <1>4, <1>13, <2>1, <3>2
      <4>2. L[k] = _EELS_ReadLog(eels_index_pos(Slot, k - 1))
        BY <1>11, <1>14, <2>1, <4>1
      <4> QED
        BY <1>8, <2>3, <2>4, <4>1, <4>2
    <3> QED
      BY <3>1, <3>2
  <2>6. L' = Append(L, e)
    BY <1>12, <2>2, <2>4, <2>5, SeqEqual
  <2> QED
    BY <2>1, <2>6 DEF L, e, N
<1>15. CASE o
  <2>1. Len(L) = N /\ L # <<>>
    <3>1. Len(L) = N
      BY <1>11, <1>15
    <3> QED
      BY <1>11, <1>13, <3>1, EmptySeq
  <2>2. Len(L') = N
    BY <1>10, <1>12, <1>15
  <2>3. ASSUME NEW k \in 1 .. N
        PROVE  L'[k] = _EELS_ReadLog(eels_index_pos(Slot, RingIndex(k + w)))'
    <3>1. RingIndex(k + w) \in 0 .. N - 1
      BY <1>4, RingTurns DEF N
    <3>2. RingIndex(k - 1 + slot'.write_index) = RingIndex(k + w) /\ slot'.overlaped
      <4>1. /\ w + 1 < N => RingIndex(k - 1 + (w + 1)) = RingIndex(k + w)
            /\ w + 1 = N => RingIndex(k - 1 + 0) = RingIndex(k + w)
        BY <1>4, RingTurns DEF N
      <4> QED
        BY <1>10, <1>15, <4>1
    <3> QED
      BY <1>12, <2>2, <3>1, <3>2
  <2>4. /\ Tail(L) \in Seq(Readings) /\ Len(Tail(L)) = N - 1
        /\ \A k \in 1 .. N - 1 : Tail(L)[k] = L[k + 1]
    BY <1>11, <2>1, HeadTailProperties
  <2>5. /\ Append(Tail(L), e) \in Seq(Readings) /\ Len(Append(Tail(L), e)) = N
        /\ \A k \in 1 .. N - 1 : Append(Tail(L), e)[k] = L[k + 1]
        /\ Append(Tail(L), e)[N] = e
    <3> DEFINE T == Tail(L)
    <3> HIDE DEF T
    <3>1. /\ T \in Seq(Readings) /\ Len(T) = N - 1
          /\ \A k \in 1 .. N - 1 : T[k] = L[k + 1]
      BY <2>4 DEF T
    <3>2. /\ Append(T, e) \in Seq(Readings) /\ Len(Append(T, e)) = N
          /\ \A k \in 1 .. N - 1 : Append(T, e)[k] = T[k]
          /\ Append(T, e)[N] = e
      BY <1>9, <1>13, <3>1, AppendProperties
    <3> QED
      BY <3>1, <3>2 DEF T
  <2>6. ASSUME NEW k \in 1 .. N PROVE L'[k] = Append(Tail(L), e)[k]
    <3>1. CASE k = N
      <4>1. RingIndex(k + w) = w
        BY <1>4, <3>1, RingTurns DEF N
      <4> QED
        BY <1>7, <2>3, <2>5, <3>1, <4>1
    <3>2. CASE k # N
      <4>1. RingIndex(k + w) \in 0 .. N - 1 /\ RingIndex(k + w) # w
        BY <1>4, <3>2, RingTurns DEF N
      <4>2. k \in 1 .. N - 1 /\ k + 1 \in 1 .. Len(L) /\ k + 1 - 1 + w = k + w
        BY <1>4, <1>13, <2>1, <3>2
      <4>3. L[k + 1] = _EELS_ReadLog(eels_index_pos(Slot, RingIndex(k + w)))
        BY <1>11, <1>15, <4>1, <4>2
      <4> QED
        BY <1>8, <2>3, <2>5, <4>1, <4>2, <4>3
    <3> QED
      BY <3>1, <3>2
  <2>7. L' = Append(Tail(L), e)
    BY <1>12, <2>2, <2>5, <2>6, SeqEqual
  <2> QED
    BY <2>1, <2>7 DEF L, e, N
<1> QED
  BY <1>5, <1>14, <1>15

-----------------------------------------------------------------------------
(* A write that goes on, or breaks off: it spoils the oldest log of a full *)
(* ring, and nothing otherwise.                                            *)

LEMMA WriteSpoils ==
  ASSUME SlotInv, pc \in {"idle"} \cup Writing,
         NEW n \in 0 .. Len(call.bytes), Landed(n), slot' = slot
  PROVE  /\ slot.overlaped =>
              /\ Len(ReadableLog) = Counter_max
              /\ ReadableLog' \in [1 .. Counter_max -> Readings]
              /\ Tail(ReadableLog') = Tail(ReadableLog)
         /\ ~ slot.overlaped => ReadableLog' = ReadableLog
<1> DEFINE N == Counter_max
           L == ReadableLog
<1>1. slot \in Cursor /\ rom \in [Addr -> Byte] /\ TypeOK
  BY DEF SlotInv, TypeOK
<1>2. rom' \in [Addr -> Byte]
  BY <1>1, LandedBytes
<1>3. PICK w \in 0 .. N - 1 : w = slot.write_index
  BY <1>1 DEF Cursor
<1>4. PICK o \in BOOLEAN : o = slot.overlaped
  BY <1>1 DEF Cursor
<1>5. \A i \in 0 .. N - 1 :
        i # w => _EELS_ReadLog(eels_index_pos(Slot, i))' = _EELS_ReadLog(eels_index_pos(Slot, i))
  BY <1>3, OtherReadingKept
<1>6. /\ L \in Seq(Readings) /\ Len(L) = (IF o THEN N ELSE w)
      /\ \A k \in 1 .. Len(L), i \in 0 .. N - 1 :
           i = (IF o THEN RingIndex(k - 1 + w) ELSE k - 1)
             => L[k] = _EELS_ReadLog(eels_index_pos(Slot, i))
  BY <1>1, <1>3, <1>4, ReadableIs DEF ReadsInOrder, RecordOf, EELS_Len
<1>7. /\ L' \in Seq(Readings) /\ Len(L') = (IF o THEN N ELSE w)
      /\ \A k \in 1 .. Len(L'), i \in 0 .. N - 1 :
           i = (IF o THEN RingIndex(k - 1 + w) ELSE k - 1)
             => L'[k] = _EELS_ReadLog(eels_index_pos(Slot, i))'
  BY <1>1, <1>2, <1>3, <1>4, ReadableLater DEF EELS_Len, Counter_max
<1>8. N \in Nat /\ N > 0
  BY SlotTypes
<1> HIDE DEF L, N
<1>9. CASE ~ o
  <2>1. ASSUME NEW k \in 1 .. w PROVE L'[k] = L[k]
    <3>1. k \in 1 .. Len(L) /\ k \in 1 .. Len(L') /\ k - 1 \in 0 .. N - 1 /\ k - 1 # w
      BY <1>3, <1>6, <1>7, <1>8, <1>9
    <3>2. /\ L[k] = _EELS_ReadLog(eels_index_pos(Slot, k - 1))
          /\ L'[k] = _EELS_ReadLog(eels_index_pos(Slot, k - 1))'
      BY <1>6, <1>7, <1>9, <3>1
    <3> QED
      BY <1>5, <3>1, <3>2
  <2>2. Len(L') = Len(L) /\ Len(L) = w
    BY <1>6, <1>7, <1>9
  <2>3. L' = L
    BY <1>6, <1>7, <2>1, <2>2, SeqEqual
  <2> QED
    BY <1>4, <1>9, <2>3 DEF L
<1>10. CASE o
  <2>1. ASSUME NEW k \in 2 .. N PROVE L'[k] = L[k]
    <3>1. k - 1 \in 1 .. N /\ k - 1 # N /\ k \in 1 .. Len(L) /\ k \in 1 .. Len(L')
      BY <1>6, <1>7, <1>8, <1>10
    <3>2. RingIndex(k - 1 + w) \in 0 .. N - 1 /\ RingIndex(k - 1 + w) # w
      BY <1>3, <3>1, RingTurns DEF N
    <3>3. /\ L[k] = _EELS_ReadLog(eels_index_pos(Slot, RingIndex(k - 1 + w)))
          /\ L'[k] = _EELS_ReadLog(eels_index_pos(Slot, RingIndex(k - 1 + w)))'
      BY <1>6, <1>7, <1>10, <3>1, <3>2
    <3> QED
      BY <1>5, <3>2, <3>3
  <2>2. Len(L) = N /\ Len(L') = N
    BY <1>6, <1>7, <1>10
  <2>3. L # <<>> /\ L' # <<>>
    BY <1>6, <1>7, <1>8, <2>2, EmptySeq
  <2>4. /\ Tail(L) \in Seq(Readings) /\ Len(Tail(L)) = N - 1
        /\ \A k \in 1 .. N - 1 : Tail(L)[k] = L[k + 1]
    BY <1>6, <2>2, <2>3, HeadTailProperties
  <2>5. /\ Tail(L') \in Seq(Readings) /\ Len(Tail(L')) = N - 1
        /\ \A k \in 1 .. N - 1 : Tail(L')[k] = L'[k + 1]
    <3> DEFINE K == L'
    <3> HIDE DEF K
    <3>1. K \in Seq(Readings) /\ K # <<>> /\ Len(K) = N
      BY <1>7, <2>2, <2>3 DEF K
    <3>2. /\ Tail(K) \in Seq(Readings) /\ Len(Tail(K)) = N - 1
          /\ \A k \in 1 .. N - 1 : Tail(K)[k] = K[k + 1]
      BY <3>1, HeadTailProperties
    <3> QED
      BY <3>2 DEF K
  <2>6. Tail(L') = Tail(L)
    <3>1. \A k \in 1 .. N - 1 : k + 1 \in 2 .. N
      BY <1>8
    <3>2. \A k \in 1 .. N - 1 : Tail(L')[k] = Tail(L)[k]
      BY <2>1, <2>4, <2>5, <3>1
    <3> DEFINE T == Tail(L)
               U == Tail(L')
    <3> HIDE DEF T, U
    <3>3. /\ T \in Seq(Readings) /\ U \in Seq(Readings) /\ Len(T) = N - 1 /\ Len(U) = N - 1
          /\ \A k \in 1 .. N - 1 : U[k] = T[k]
      BY <2>4, <2>5, <3>2 DEF T, U
    <3>4. U = T
      BY <3>3, SeqEqual
    <3> QED
      BY <3>4 DEF T, U
  <2>7. L' \in [1 .. N -> Readings]
    BY <1>7, <2>2, LenProperties
  <2> QED
    BY <1>4, <1>10, <2>2, <2>6, <2>7 DEF L, N
<1> QED
  BY <1>4, <1>9, <1>10

-----------------------------------------------------------------------------
(* Every step of a slot is a step of the log, or none.                     *)

LogStep == [Log!Next]_<<Started, Shown, PendingEntry>>

(* The steps that only change whether the slot is on line.                 *)
LEMMA NotOnLineSteps ==
  ASSUME ~ Started, ~ Started'
  PROVE  LogStep
<1>1. Shown' = Shown /\ Started' = Started
  BY DEF Shown, Started
<1>2. PendingEntry' = PendingEntry
  BY DEF Started, PendingEntry, Writing
<1> QED
  BY <1>1, <1>2 DEF LogStep

LEMMA StartUpStep ==
  ASSUME ~ Started, pc' = "idle", slot' \in Cursor, rom' \in [Addr -> Byte]
  PROVE  LogStep
<1>1. Started' /\ Shown = <<>> /\ Shown' = ReadableLog'
  BY DEF Started, Shown
<1>2. PendingEntry = {} /\ PendingEntry' = {}
  BY DEF Started, PendingEntry, Writing
<1>3. ReadableLog' \in Seq(Readings) /\ Len(ReadableLog') \in 0 .. Counter_max
  BY ReadableLater
<1>4. \E n \in 0 .. Counter_max : ReadableLog' \in [1 .. n -> Readings]
  <2> DEFINE K == ReadableLog'
  <2> HIDE DEF K
  <2>1. K \in Seq(Readings) /\ Len(K) \in 0 .. Counter_max
    BY <1>3 DEF K
  <2>2. K \in [1 .. Len(K) -> Readings]
    BY <2>1, LenProperties
  <2> QED
    BY <2>1, <2>2 DEF K
<1>5. Log!StartUp
  BY <1>1, <1>2, <1>4 DEF Log!StartUp, Readings, Started, Shown
<1> QED
  BY <1>5 DEF LogStep, Log!Next

LEMMA ShutDownStep ==
  ASSUME Started, ~ Started'
  PROVE  LogStep
<1>1. Shown' = <<>> /\ PendingEntry' = {}
  BY DEF Shown, PendingEntry, Started, Writing
<1>2. Log!ShutDown
  BY <1>1 DEF Log!ShutDown, Shown
<1> QED
  BY <1>2 DEF LogStep, Log!Next

(* A clean, or a start-up that finds an empty slot.                        *)
LEMMA ClearStep ==
  ASSUME pc = "idle", pc' \in {"idle", "clean_head"},
         slot'.write_index = 0, slot'.overlaped = FALSE
  PROVE  LogStep
<1>1. Started /\ Started' /\ PendingEntry = {} /\ PendingEntry' = {}
  BY DEF Started, Writing, PendingEntry
<1>2. EELS_Len' = 0
  BY DEF EELS_Len
<1>3. ReadableLog' = <<>>
  BY <1>2 DEF ReadableLog
<1>4. Log!Clear
  BY <1>1, <1>3 DEF Log!Clear
<1> QED
  BY <1>4 DEF LogStep, Log!Next

LEMMA BeginStep ==
  ASSUME SlotInv, NEW d \in Payloads, InsertLog(d) \/ InsertRec(d)
  PROVE  LogStep
<1>1. pc = "idle" /\ rom' = rom /\ slot' = slot
  BY UnwrappedSame DEF SlotInv, InsertLog, InsertRec, Insert
<1>2. PosOk(slot.write_position)
  <2>1. slot.write_position = eels_index_pos(Slot, slot.write_index)
        /\ slot.write_index \in 0 .. Counter_max - 1
    BY <1>1 DEF SlotInv, CursorAgrees, TypeOK, Cursor
  <2> QED
    BY <2>1, RecordBounds
<1>3. pc' \in {"insert_data", "insert_rec"} /\ call'.data = d
  BY <1>2, UnwrappedSame DEF SlotInv, InsertLog, InsertRec, Insert, Write
<1>4. Started /\ Started' /\ PendingEntry = {}
  BY <1>1, <1>3 DEF Started, Writing, PendingEntry
<1>5. PendingEntry' = {Entry(d)}
  BY <1>3 DEF PendingEntry, Entry
<1>6. ReadableLog' = ReadableLog
  BY <1>1 DEF ReadableLog, EELS_Len, EELS_ReadIdx, eels_relative_pos, _EELS_ReadLog,
     DataAt, CrcAt, RingIndex, PosOk, Counter_max
<1>7. Log!Begin(Entry(d))
  BY <1>4, <1>5, <1>6 DEF Log!Begin
<1> QED
  BY <1>7 DEF LogStep, Log!Next

(* A write of an insertion that goes on or breaks off.                     *)
LEMMA SpoilStep ==
  ASSUME SlotInv, pc \in Writing, Started',
         NEW n \in 0 .. Len(call.bytes), Landed(n), slot' = slot,
         PendingEntry' \in {PendingEntry, {}},
         pc = "clean_head" => ~ slot.overlaped
  PROVE  LogStep
<1>1. Started
  BY DEF Started
<1>2. CASE slot.overlaped
  <2>1. /\ Len(ReadableLog) = Counter_max
        /\ ReadableLog' \in [1 .. Counter_max -> Readings]
        /\ Tail(ReadableLog') = Tail(ReadableLog)
    BY <1>2, WriteSpoils
  <2>2. PendingEntry # {}
    BY <1>2 DEF PendingEntry, Writing
  <2>3. Log!Spoil
    BY <1>1, <2>1, <2>2 DEF Log!Spoil, Readings
  <2> QED
    BY <2>3 DEF LogStep, Log!Next
<1>3. CASE ~ slot.overlaped
  <2>1. ReadableLog' = ReadableLog
    BY <1>3, WriteSpoils
  <2>2. CASE PendingEntry' = PendingEntry
    BY <1>1, <2>1, <2>2 DEF LogStep, Shown
  <2>3. CASE PendingEntry # {} /\ PendingEntry' = {}
    <3>1. Log!Fail
      BY <1>1, <2>1, <2>3 DEF Log!Fail
    <3> QED
      BY <3>1 DEF LogStep, Log!Next
  <2> QED
    BY <2>2, <2>3
<1> QED
  BY <1>2, <1>3

LEMMA InsertStep ==
  ASSUME SlotInv, WriteExact, Unnoticed = {}, NEW n \in 0 .. Len(call.bytes), InsertDone(n)
  PROVE  LogStep
<1>1. pc \in {"insert_head", "insert_rec"} /\ pc' = "idle"
  BY DEF InsertDone, Return
<1>2. call.data \in Payloads
  BY <1>1 DEF WriteExact, Writing
<1>3. Started /\ Started' /\ PendingEntry = {Entry(call.data)} /\ PendingEntry' = {}
  BY <1>1 DEF Started, Writing, PendingEntry
<1>4. Log!Insert(Entry(call.data))
  BY <1>3, InsertAppends DEF Log!Insert
<1> QED
  BY <1>2, <1>4 DEF LogStep, Log!Next

LEMMA NextSteps ==
  ASSUME SlotInv, SlotInv', WriteExact, Unnoticed = {}, [Next]_vars
  PROVE  LogStep
<1>1. /\ slot \in Cursor /\ slot' \in Cursor /\ rom' \in [Addr -> Byte]
  <2>1. TypeOK /\ TypeOK' /\ Cursor' = Cursor /\ [Addr -> Byte]' = [Addr -> Byte]
    BY DEF SlotInv, Cursor, Counter_max, Addr, Byte
  <2> QED
    BY <2>1 DEF TypeOK
<1>2. ASSUME NEW d \in Payloads, InsertLog(d) \/ InsertRec(d) PROVE LogStep
  BY <1>2, BeginStep
<1>3. CASE CleanLog
  <2>1. pc = "idle"
    BY <1>3 DEF CleanLog
  <2>2. CASE \E epoch : CleanEmpty(epoch)
    BY <2>1, <2>2, ClearStep DEF CleanEmpty
  <2>3. CASE \E epoch : CleanStamped(epoch)
    <3>1. pc' = "clean_head" /\ slot'.overlaped = FALSE
      BY <2>3 DEF CleanStamped, Write
    <3>2. EELS_Len' = 0
      BY <1>3, <3>1, CleanLogExact DEF WriteExact
    <3>3. slot'.write_index = 0
      BY <3>1, <3>2 DEF EELS_Len
    <3> QED
      BY <2>1, <3>1, <3>3, ClearStep
  <2> QED
    BY <1>3, <2>2, <2>3 DEF CleanLog
<1>4. CASE FindLastPos
  <2>1. pc \in {"off", "idle"}
    BY <1>4 DEF FindLastPos
  <2>2. PICK epoch : FindEmpty(epoch) \/ FindStart(epoch)
    BY <1>4 DEF FindLastPos
  <2>3. CASE FindEmpty(epoch)
    <3>1. pc' = "idle" /\ slot'.write_index = 0 /\ slot'.overlaped = FALSE
      BY <2>3 DEF FindEmpty, Return
    <3>2. CASE pc = "off"
      BY <1>1, <3>1, <3>2, StartUpStep DEF Started, Writing
    <3>3. CASE pc = "idle"
      BY <3>1, <3>3, ClearStep
    <3> QED
      BY <2>1, <3>2, <3>3
  <2>4. CASE FindStart(epoch)
    <3>1. ~ Started'
      BY <2>4 DEF FindStart, Started, Writing
    <3> QED
      BY <3>1, ShutDownStep, NotOnLineSteps
  <2> QED
    BY <2>2, <2>3, <2>4
<1>5. CASE ScanPages \/ ScanPagesEnd \/ ScanRecs \/ ScanSolid
  <2>1. ~ Started /\ ~ Started'
    BY <1>5 DEF ScanPages, ScanPagesEnd, ScanRecs, ScanSolid, Started, Writing
  <2> QED
    BY <2>1, NotOnLineSteps
<1>6. CASE FindEnd
  <2>1. ~ Started /\ pc' = "idle"
    BY <1>6 DEF FindEnd, Return, Started, Writing
  <2> QED
    BY <1>1, <2>1, StartUpStep
<1>7. ASSUME NEW n \in 0 .. Len(call.bytes), InsertDataDone(n) PROVE LogStep
  <2>1. /\ pc = "insert_data" /\ pc' = "insert_head" /\ call'.data = call.data
        /\ Landed(n) /\ slot' = slot
    BY <1>7 DEF InsertDataDone, Write
  <2>2. PendingEntry' = PendingEntry /\ Started' /\ pc \in Writing
    BY <2>1 DEF PendingEntry, Entry, Started, Writing
  <2> QED
    BY <2>1, <2>2, SpoilStep
<1>8. ASSUME NEW n \in 0 .. Len(call.bytes), InsertDone(n) PROVE LogStep
  BY <1>8, InsertStep
<1>9. ASSUME NEW n \in 0 .. Len(call.bytes), CleanDone(n) \/ WriteFail(n) PROVE LogStep
  <2>1. pc \in Writing /\ pc' = "idle" /\ Landed(n) /\ slot' = slot
    BY <1>9, FaultAssumption DEF CleanDone, WriteFail, Return, Writing
  <2>2. PendingEntry' = {} /\ Started'
    BY <2>1 DEF PendingEntry, Started
  <2>3. pc = "clean_head" => ~ slot.overlaped
    BY <1>1, SlotTypes DEF WriteExact, EELS_Len
  <2> QED
    BY <2>1, <2>2, <2>3, SpoilStep
<1>10. ASSUME NEW n \in 0 .. Len(call.bytes), PowerLoss(n) PROVE LogStep
  <2>1. ~ Started'
    BY <1>10 DEF PowerLoss, SwitchedOff, Started, Writing
  <2> QED
    BY <2>1, ShutDownStep, NotOnLineSteps
<1>11. CASE UNCHANGED vars
  <2>1. rom' = rom /\ slot' = slot /\ call' = call /\ pc' = pc
    BY <1>11 DEF vars
  <2>2. ReadableLog' = ReadableLog
    BY <2>1 DEF ReadableLog, EELS_Len, EELS_ReadIdx, eels_relative_pos, _EELS_ReadLog,
       DataAt, CrcAt, RingIndex, PosOk, Counter_max
  <2>3. Started' = Started /\ PendingEntry' = PendingEntry
    BY <2>1 DEF Started, PendingEntry, Entry
  <2> QED
    BY <2>2, <2>3 DEF LogStep, Shown
<1> QED
  BY <1>2, <1>3, <1>4, <1>5, <1>6, <1>7, <1>8, <1>9, <1>10, <1>11
     DEF Next, Scan, WriteDone

(* The slot is, to whoever reads it, a log of its Counter_max newest       *)
(* entries: EELS_InsertLog and EELS_InsertRec append one and drop the      *)
(* oldest of a full ring, EELS_CleanLog empties it, a write that fails     *)
(* leaves it alone but for the oldest entry of a full ring.                *)
THEOREM Implementation ==
  ASSUME Unnoticed = {}
  PROVE  Spec => ImplementsLog
<1>1. Init => Log!Init
  BY DEF Init, Log!Init, Started, Writing, PendingEntry
<1>2. SlotInv /\ SlotInv' /\ WriteExact /\ [Next]_vars
        => [Log!Next]_<<Started, IF Started THEN ReadableLog ELSE <<>>, PendingEntry>>
  BY NextSteps DEF LogStep, Shown
<1> QED
  BY <1>1, <1>2, SlotInvariant, WritesExact, PTL DEF Spec, ImplementsLog, Log!Spec

=============================================================================
