-------------------------- MODULE EELSSystemProofs --------------------------
(***************************************************************************)
(* Two slots in one EEPROM: each behaves as if it were alone there, for    *)
(* every pair of layouts whose records have no byte in common; and the     *)
(* driver programs what the slots take for written.                        *)
(*                                                                         *)
(* EELSAloneProofs knows one slot in an EEPROM that others use.  GA and GB *)
(* are that module for the two slots: `rom' there is the EEPROM with the   *)
(* records of one slot only, `whole' is all of it.                         *)
(***************************************************************************)
EXTENDS EELSSystem, SequenceTheorems, TLAPS

GA == INSTANCE EELSAloneProofs
  WITH Slot <- SlotA, rom <- [a \in DOMAIN rom |-> IF a \in OwnA THEN rom[a] ELSE Blank],
       slot <- slotA, call <- callA, scan <- scanA, pc <- pcA, whole <- rom
GB == INSTANCE EELSAloneProofs
  WITH Slot <- SlotB, rom <- [a \in DOMAIN rom |-> IF a \in OwnB THEN rom[a] ELSE Blank],
       slot <- slotB, call <- callB, scan <- scanB, pc <- pcB, whole <- rom

(* What every step keeps, whether or not the slots overlap.                *)
SystemInv ==
  /\ rom \in [0 .. RomSize - 1 -> 0 .. 255]
  /\ sent \in Nat
  /\ GA!SlotInv /\ GA!OffIsCleared
  /\ GB!SlotInv /\ GB!OffIsCleared

LEMMA AssumptionsA ==
  GA!SlotAssumption /\ GA!DataAssumption /\ GA!EpochAssumption /\ GA!FaultAssumption
BY SystemAssumption
DEF A!SlotAssumption, A!DataAssumption, A!EpochAssumption, A!FaultAssumption,
    GA!SlotAssumption, GA!DataAssumption, GA!EpochAssumption, GA!FaultAssumption,
    A!Byte, GA!Byte, A!SlotLayout, GA!SlotLayout, A!UnpagedLayout, GA!UnpagedLayout,
    A!PagedLayout, GA!PagedLayout, A!EELS_RECSIZE_HEAD, GA!EELS_RECSIZE_HEAD

LEMMA AssumptionsB ==
  GB!SlotAssumption /\ GB!DataAssumption /\ GB!EpochAssumption /\ GB!FaultAssumption
<1>1. GB!SlotAssumption
  BY SystemAssumption
  DEF B!SlotAssumption, GB!SlotAssumption, B!SlotLayout, GB!SlotLayout, B!UnpagedLayout,
      GB!UnpagedLayout, B!PagedLayout, GB!PagedLayout, B!EELS_RECSIZE_HEAD,
      GB!EELS_RECSIZE_HEAD
<1>2. GB!DataAssumption
  BY SystemAssumption DEF B!DataAssumption, GB!DataAssumption, B!Byte, GB!Byte
<1>3. GB!EpochAssumption /\ GB!FaultAssumption
  BY SystemAssumption
  DEF A!EpochAssumption, A!FaultAssumption, GB!EpochAssumption, GB!FaultAssumption
<1> QED
  BY <1>1, <1>2, <1>3

-----------------------------------------------------------------------------
(* The steps of a slot as EELSSystem, EELSAloneProofs and the abstractions *)
(* AloneA and AloneB name them: with every definition expanded, the same.  *)

LEMMA SameNextA == A!Next <=> GA!Whole!Next
BY DEF A!Next, GA!Whole!Next, A!InsertLog, GA!Whole!InsertLog, A!Insert, GA!Whole!Insert,
    A!Unwrapped, GA!Whole!Unwrapped, A!Counter_max, GA!Whole!Counter_max, A!Pos0,
    GA!Whole!Pos0, A!eels_index_pos, GA!Whole!eels_index_pos, A!PosOk, GA!Whole!PosOk,
    A!eels_pos_ok, GA!Whole!eels_pos_ok, A!Write, GA!Whole!Write, A!EELS_RECSIZE_HEAD,
    GA!Whole!EELS_RECSIZE_HEAD, A!InsertRec, GA!Whole!InsertRec, A!Header,
    GA!Whole!Header, A!CleanLog, GA!Whole!CleanLog, A!_EELS_ReadCounter,
    GA!Whole!_EELS_ReadCounter, A!Misread, GA!Whole!Misread, A!CleanEmpty,
    GA!Whole!CleanEmpty, A!HasNone, GA!Whole!HasNone, A!next_epoch,
    GA!Whole!next_epoch, A!CleanStamped, GA!Whole!CleanStamped, A!CleanEpoch,
    GA!Whole!CleanEpoch, A!CleanHead, GA!Whole!CleanHead, A!Scan, GA!Whole!Scan,
    A!FindLastPos, GA!Whole!FindLastPos, A!FindEmpty, GA!Whole!FindEmpty, A!Return,
    GA!Whole!Return, A!NoWrite, GA!Whole!NoWrite, A!NoScan, GA!Whole!NoScan,
    A!FindStart, GA!Whole!FindStart, A!eels_pos_page, GA!Whole!eels_pos_page,
    A!eels_pred_pos, GA!Whole!eels_pred_pos, A!eels_pos_ofs, GA!Whole!eels_pos_ofs,
    A!PageLimit, GA!Whole!PageLimit, A!ScanPages, GA!Whole!ScanPages, A!PagesHalf,
    GA!Whole!PagesHalf, A!ScanPagesEnd, GA!Whole!ScanPagesEnd, A!ScanRecs,
    GA!Whole!ScanRecs, A!RecAt, GA!Whole!RecAt, A!RecsHalf, GA!Whole!RecsHalf,
    A!ScanSolid, GA!Whole!ScanSolid, A!SolidHalf, GA!Whole!SolidHalf, A!FindEnd,
    GA!Whole!FindEnd, A!eels_write_advance, GA!Whole!eels_write_advance,
    A!eels_next_pos, GA!Whole!eels_next_pos, A!PastLastPage, GA!Whole!PastLastPage,
    A!BeyondTop, GA!Whole!BeyondTop, A!Found, GA!Whole!Found, A!eels_page_idx,
    GA!Whole!eels_page_idx, A!Overlapped, GA!Whole!Overlapped, A!is_next_epoch,
    GA!Whole!is_next_epoch, A!WriteDone, GA!Whole!WriteDone, A!InsertDataDone,
    GA!Whole!InsertDataDone, A!Done, GA!Whole!Done, A!Landed, GA!Whole!Landed,
    A!Program, GA!Whole!Program, A!Addr, GA!Whole!Addr, A!InsertDone,
    GA!Whole!InsertDone, A!CleanDone, GA!Whole!CleanDone, A!WriteFail,
    GA!Whole!WriteFail, A!PowerLoss, GA!Whole!PowerLoss, A!SwitchedOff,
    GA!Whole!SwitchedOff, A!Cleared, GA!Whole!Cleared

LEMMA SameNextB == B!Next <=> GB!Whole!Next
BY DEF B!Next, GB!Whole!Next, B!InsertLog, GB!Whole!InsertLog, B!Insert, GB!Whole!Insert,
    B!Unwrapped, GB!Whole!Unwrapped, B!Counter_max, GB!Whole!Counter_max, B!Pos0,
    GB!Whole!Pos0, B!eels_index_pos, GB!Whole!eels_index_pos, B!PosOk, GB!Whole!PosOk,
    B!eels_pos_ok, GB!Whole!eels_pos_ok, B!Write, GB!Whole!Write, B!EELS_RECSIZE_HEAD,
    GB!Whole!EELS_RECSIZE_HEAD, B!InsertRec, GB!Whole!InsertRec, B!Header,
    GB!Whole!Header, B!CleanLog, GB!Whole!CleanLog, B!_EELS_ReadCounter,
    GB!Whole!_EELS_ReadCounter, B!Misread, GB!Whole!Misread, B!CleanEmpty,
    GB!Whole!CleanEmpty, B!HasNone, GB!Whole!HasNone, B!next_epoch,
    GB!Whole!next_epoch, B!CleanStamped, GB!Whole!CleanStamped, B!CleanEpoch,
    GB!Whole!CleanEpoch, B!CleanHead, GB!Whole!CleanHead, B!Scan, GB!Whole!Scan,
    B!FindLastPos, GB!Whole!FindLastPos, B!FindEmpty, GB!Whole!FindEmpty, B!Return,
    GB!Whole!Return, B!NoWrite, GB!Whole!NoWrite, B!NoScan, GB!Whole!NoScan,
    B!FindStart, GB!Whole!FindStart, B!eels_pos_page, GB!Whole!eels_pos_page,
    B!eels_pred_pos, GB!Whole!eels_pred_pos, B!eels_pos_ofs, GB!Whole!eels_pos_ofs,
    B!PageLimit, GB!Whole!PageLimit, B!ScanPages, GB!Whole!ScanPages, B!PagesHalf,
    GB!Whole!PagesHalf, B!ScanPagesEnd, GB!Whole!ScanPagesEnd, B!ScanRecs,
    GB!Whole!ScanRecs, B!RecAt, GB!Whole!RecAt, B!RecsHalf, GB!Whole!RecsHalf,
    B!ScanSolid, GB!Whole!ScanSolid, B!SolidHalf, GB!Whole!SolidHalf, B!FindEnd,
    GB!Whole!FindEnd, B!eels_write_advance, GB!Whole!eels_write_advance,
    B!eels_next_pos, GB!Whole!eels_next_pos, B!PastLastPage, GB!Whole!PastLastPage,
    B!BeyondTop, GB!Whole!BeyondTop, B!Found, GB!Whole!Found, B!eels_page_idx,
    GB!Whole!eels_page_idx, B!Overlapped, GB!Whole!Overlapped, B!is_next_epoch,
    GB!Whole!is_next_epoch, B!WriteDone, GB!Whole!WriteDone, B!InsertDataDone,
    GB!Whole!InsertDataDone, B!Done, GB!Whole!Done, B!Landed, GB!Whole!Landed,
    B!Program, GB!Whole!Program, B!Addr, GB!Whole!Addr, B!InsertDone,
    GB!Whole!InsertDone, B!CleanDone, GB!Whole!CleanDone, B!WriteFail,
    GB!Whole!WriteFail, B!PowerLoss, GB!Whole!PowerLoss, B!SwitchedOff,
    GB!Whole!SwitchedOff, B!Cleared, GB!Whole!Cleared

LEMMA SameAloneA ==
  /\ GA!Init <=> AloneA!Init
  /\ GA!Next <=> AloneA!Next
<1>1. GA!Init <=> AloneA!Init
  BY DEF GA!Init, AloneA!Init, GA!Addr, AloneA!Addr, GA!Cleared, AloneA!Cleared,
      GA!NoWrite, AloneA!NoWrite, GA!NoScan, AloneA!NoScan
<1>2. GA!Next <=> AloneA!Next
  BY DEF GA!Next, AloneA!Next, GA!InsertLog, AloneA!InsertLog, GA!Insert, AloneA!Insert,
      GA!Unwrapped, AloneA!Unwrapped, GA!Counter_max, AloneA!Counter_max, GA!Pos0,
      AloneA!Pos0, GA!eels_index_pos, AloneA!eels_index_pos, GA!PosOk, AloneA!PosOk,
      GA!eels_pos_ok, AloneA!eels_pos_ok, GA!Write, AloneA!Write, GA!EELS_RECSIZE_HEAD,
      AloneA!EELS_RECSIZE_HEAD, GA!InsertRec, AloneA!InsertRec, GA!Header,
      AloneA!Header, GA!CleanLog, AloneA!CleanLog, GA!_EELS_ReadCounter,
      AloneA!_EELS_ReadCounter, GA!Misread, AloneA!Misread, GA!CleanEmpty,
      AloneA!CleanEmpty, GA!HasNone, AloneA!HasNone, GA!next_epoch, AloneA!next_epoch,
      GA!CleanStamped, AloneA!CleanStamped, GA!CleanEpoch, AloneA!CleanEpoch,
      GA!CleanHead, AloneA!CleanHead, GA!Scan, AloneA!Scan, GA!FindLastPos,
      AloneA!FindLastPos, GA!FindEmpty, AloneA!FindEmpty, GA!Return, AloneA!Return,
      GA!NoWrite, AloneA!NoWrite, GA!NoScan, AloneA!NoScan, GA!FindStart,
      AloneA!FindStart, GA!eels_pos_page, AloneA!eels_pos_page, GA!eels_pred_pos,
      AloneA!eels_pred_pos, GA!eels_pos_ofs, AloneA!eels_pos_ofs, GA!PageLimit,
      AloneA!PageLimit, GA!ScanPages, AloneA!ScanPages, GA!PagesHalf, AloneA!PagesHalf,
      GA!ScanPagesEnd, AloneA!ScanPagesEnd, GA!ScanRecs, AloneA!ScanRecs, GA!RecAt,
      AloneA!RecAt, GA!RecsHalf, AloneA!RecsHalf, GA!ScanSolid, AloneA!ScanSolid,
      GA!SolidHalf, AloneA!SolidHalf, GA!FindEnd, AloneA!FindEnd,
      GA!eels_write_advance, AloneA!eels_write_advance, GA!eels_next_pos,
      AloneA!eels_next_pos, GA!PastLastPage, AloneA!PastLastPage, GA!BeyondTop,
      AloneA!BeyondTop, GA!Found, AloneA!Found, GA!eels_page_idx, AloneA!eels_page_idx,
      GA!Overlapped, AloneA!Overlapped, GA!is_next_epoch, AloneA!is_next_epoch,
      GA!WriteDone, AloneA!WriteDone, GA!InsertDataDone, AloneA!InsertDataDone,
      GA!Done, AloneA!Done, GA!Landed, AloneA!Landed, GA!Program, AloneA!Program,
      GA!Addr, AloneA!Addr, GA!InsertDone, AloneA!InsertDone, GA!CleanDone,
      AloneA!CleanDone, GA!WriteFail, AloneA!WriteFail, GA!PowerLoss, AloneA!PowerLoss,
      GA!SwitchedOff, AloneA!SwitchedOff, GA!Cleared, AloneA!Cleared
<1> QED
  BY <1>1, <1>2

LEMMA SameAloneB ==
  /\ GB!Init <=> AloneB!Init
  /\ GB!Next <=> AloneB!Next
<1>1. GB!Init <=> AloneB!Init
  BY DEF GB!Init, AloneB!Init, GB!Addr, AloneB!Addr, GB!Cleared, AloneB!Cleared,
      GB!NoWrite, AloneB!NoWrite, GB!NoScan, AloneB!NoScan
<1>2. GB!Next <=> AloneB!Next
  BY DEF GB!Next, AloneB!Next, GB!InsertLog, AloneB!InsertLog, GB!Insert, AloneB!Insert,
      GB!Unwrapped, AloneB!Unwrapped, GB!Counter_max, AloneB!Counter_max, GB!Pos0,
      AloneB!Pos0, GB!eels_index_pos, AloneB!eels_index_pos, GB!PosOk, AloneB!PosOk,
      GB!eels_pos_ok, AloneB!eels_pos_ok, GB!Write, AloneB!Write, GB!EELS_RECSIZE_HEAD,
      AloneB!EELS_RECSIZE_HEAD, GB!InsertRec, AloneB!InsertRec, GB!Header,
      AloneB!Header, GB!CleanLog, AloneB!CleanLog, GB!_EELS_ReadCounter,
      AloneB!_EELS_ReadCounter, GB!Misread, AloneB!Misread, GB!CleanEmpty,
      AloneB!CleanEmpty, GB!HasNone, AloneB!HasNone, GB!next_epoch, AloneB!next_epoch,
      GB!CleanStamped, AloneB!CleanStamped, GB!CleanEpoch, AloneB!CleanEpoch,
      GB!CleanHead, AloneB!CleanHead, GB!Scan, AloneB!Scan, GB!FindLastPos,
      AloneB!FindLastPos, GB!FindEmpty, AloneB!FindEmpty, GB!Return, AloneB!Return,
      GB!NoWrite, AloneB!NoWrite, GB!NoScan, AloneB!NoScan, GB!FindStart,
      AloneB!FindStart, GB!eels_pos_page, AloneB!eels_pos_page, GB!eels_pred_pos,
      AloneB!eels_pred_pos, GB!eels_pos_ofs, AloneB!eels_pos_ofs, GB!PageLimit,
      AloneB!PageLimit, GB!ScanPages, AloneB!ScanPages, GB!PagesHalf, AloneB!PagesHalf,
      GB!ScanPagesEnd, AloneB!ScanPagesEnd, GB!ScanRecs, AloneB!ScanRecs, GB!RecAt,
      AloneB!RecAt, GB!RecsHalf, AloneB!RecsHalf, GB!ScanSolid, AloneB!ScanSolid,
      GB!SolidHalf, AloneB!SolidHalf, GB!FindEnd, AloneB!FindEnd,
      GB!eels_write_advance, AloneB!eels_write_advance, GB!eels_next_pos,
      AloneB!eels_next_pos, GB!PastLastPage, AloneB!PastLastPage, GB!BeyondTop,
      AloneB!BeyondTop, GB!Found, AloneB!Found, GB!eels_page_idx, AloneB!eels_page_idx,
      GB!Overlapped, AloneB!Overlapped, GB!is_next_epoch, AloneB!is_next_epoch,
      GB!WriteDone, AloneB!WriteDone, GB!InsertDataDone, AloneB!InsertDataDone,
      GB!Done, AloneB!Done, GB!Landed, AloneB!Landed, GB!Program, AloneB!Program,
      GB!Addr, AloneB!Addr, GB!InsertDone, AloneB!InsertDone, GB!CleanDone,
      AloneB!CleanDone, GB!WriteFail, AloneB!WriteFail, GB!PowerLoss, AloneB!PowerLoss,
      GB!SwitchedOff, AloneB!SwitchedOff, GB!Cleared, AloneB!Cleared
<1> QED
  BY <1>1, <1>2

-----------------------------------------------------------------------------
(* A step of one slot.  The other one stands still, or loses the power.    *)

LossOfA == PowerLosses /\ pcA \notin A!Writing /\ A!SwitchedOff
LossOfB == PowerLosses /\ pcB \notin B!Writing /\ B!SwitchedOff

ActsA == A!Next /\ (UNCHANGED varsB \/ LossOfB)
ActsB == B!Next /\ (UNCHANGED varsA \/ LossOfA)

LEMMA StepA ==
  ASSUME SystemInv, A!Next
  PROVE  /\ GA!Next
         /\ rom' \in [0 .. RomSize - 1 -> 0 .. 255]
         /\ \A a \in (0 .. RomSize - 1) \ OwnA : rom'[a] = rom[a]
<1>1. GA!Own = OwnA
  BY DEF GA!Own, OwnA, RecordBytes, GA!RecordBytes, eels_index_pos, GA!eels_index_pos
<1>2. GA!AtWork
  BY <1>1 DEF SystemInv, GA!AtWork, GA!Masked, GA!Addr, GA!Byte
<1>3. GA!Next /\ GA!OthersKept
  BY <1>2, SameNextA, GA!AloneNext, AssumptionsA
<1> QED
  BY <1>1, <1>3 DEF GA!OthersKept, GA!Addr, GA!Byte

LEMMA OffA == LossOfA => PowerLosses /\ pcA \notin GA!Writing /\ GA!SwitchedOff
BY DEF LossOfA, A!Writing, GA!Writing, A!SwitchedOff, GA!SwitchedOff, A!Cleared,
       GA!Cleared, A!NoWrite, GA!NoWrite, A!NoScan, GA!NoScan

LEMMA StepB ==
  ASSUME SystemInv, B!Next
  PROVE  /\ GB!Next
         /\ rom' \in [0 .. RomSize - 1 -> 0 .. 255]
         /\ \A a \in (0 .. RomSize - 1) \ OwnB : rom'[a] = rom[a]
<1>1. GB!Own = OwnB
  BY DEF GB!Own, OwnB, RecordBytes, GB!RecordBytes, eels_index_pos, GB!eels_index_pos
<1>2. GB!AtWork
  BY <1>1 DEF SystemInv, GB!AtWork, GB!Masked, GB!Addr, GB!Byte
<1>3. GB!Next /\ GB!OthersKept
  BY <1>2, SameNextB, GB!AloneNext, AssumptionsB
<1> QED
  BY <1>1, <1>3 DEF GB!OthersKept, GB!Addr, GB!Byte

LEMMA OffB == LossOfB => PowerLosses /\ pcB \notin GB!Writing /\ GB!SwitchedOff
BY DEF LossOfB, B!Writing, GB!Writing, B!SwitchedOff, GB!SwitchedOff, B!Cleared,
       GB!Cleared, B!NoWrite, GB!NoWrite, B!NoScan, GB!NoScan

LEMMA ActsAKeeps ==
  ASSUME SystemInv, ActsA, sent' \in Nat
  PROVE  SystemInv'
<1>1. rom' \in [0 .. RomSize - 1 -> 0 .. 255] /\ GA!Next
  BY StepA DEF ActsA
<1>2. GA!SlotInv' /\ GA!OffIsCleared'
  BY <1>1, GA!NextKeeps, GA!OffKeeps, AssumptionsA DEF SystemInv
<1>3. UNCHANGED <<slotB, callB, scanB, pcB>> \/ GB!SwitchedOff
  BY OffB DEF ActsA, varsB
<1>4. [a \in DOMAIN rom |-> IF a \in OwnB THEN rom[a] ELSE Blank]'
        \in [GB!Addr -> GB!Byte]
  BY <1>1, AssumptionsB DEF GB!DataAssumption, GB!Addr, GB!Byte
<1>5. GB!SlotInv' /\ GB!OffIsCleared'
  BY <1>3, <1>4, GB!OtherWrites, AssumptionsB DEF SystemInv
<1> QED
  BY <1>1, <1>2, <1>5 DEF SystemInv

LEMMA ActsBKeeps ==
  ASSUME SystemInv, ActsB, sent' \in Nat
  PROVE  SystemInv'
<1>1. rom' \in [0 .. RomSize - 1 -> 0 .. 255] /\ GB!Next
  BY StepB DEF ActsB
<1>2. GB!SlotInv' /\ GB!OffIsCleared'
  BY <1>1, GB!NextKeeps, GB!OffKeeps, AssumptionsB DEF SystemInv
<1>3. UNCHANGED <<slotA, callA, scanA, pcA>> \/ GA!SwitchedOff
  BY OffA DEF ActsB, varsA
<1>4. [a \in DOMAIN rom |-> IF a \in OwnA THEN rom[a] ELSE Blank]'
        \in [GA!Addr -> GA!Byte]
  BY <1>1, AssumptionsA DEF GA!DataAssumption, GA!Addr, GA!Byte
<1>5. GA!SlotInv' /\ GA!OffIsCleared'
  BY <1>3, <1>4, GA!OtherWrites, AssumptionsA DEF SystemInv
<1> QED
  BY <1>1, <1>2, <1>5 DEF SystemInv

-----------------------------------------------------------------------------
(* The driver.                                                             *)

(* What a page write takes of a write: not more than is left of it, nor of *)
(* the page.                                                               *)
LEMMA TrimmedBounds ==
  ASSUME NEW address \in Nat, NEW length \in Nat
  PROVE  /\ address % ChipPage \in 0 .. ChipPage - 1
         /\ Trimmed(address, length) \in 0 .. length
         /\ Trimmed(address, length) <= SentLength(address)
         /\ SentLength(address) \in Nat
         /\ \/ Trimmed(address, length) = length
            \/ Trimmed(address, length) = SentLength(address)
<1> DEFINE head == address % ChipPage
<1>1. ChipPage \in Nat \ {0}
  BY ChipAssumption
<1>2. head \in 0 .. ChipPage - 1
  BY <1>1
<1>3. SentLength(address) = ChipPage - head
      /\ Trimmed(address, length) = IF head + length > ChipPage THEN ChipPage - head ELSE length
  BY DEF SentLength, Trimmed
<1> HIDE DEF head
<1>4. ChipPage - head \in Nat
  BY <1>1, <1>2
<1>5. CASE head + length > ChipPage
  <2>1. Trimmed(address, length) = ChipPage - head /\ ChipPage - head <= length
    BY <1>1, <1>2, <1>3, <1>5
  <2> QED
    BY <1>2, <1>3, <1>4, <2>1 DEF head
<1>6. CASE ~ (head + length > ChipPage)
  <2>1. Trimmed(address, length) = length /\ length <= ChipPage - head
    BY <1>1, <1>2, <1>3, <1>6
  <2> QED
    BY <1>2, <1>3, <1>4, <2>1 DEF head
<1> QED
  BY <1>5, <1>6

LEMMA PieceIs ==
  ASSUME sent \in Nat, NEW at \in Nat, NEW bytes \in Seq(0 .. 255)
  PROVE  /\ Piece(at, bytes) \in Seq(0 .. 255)
         /\ Len(Piece(at, bytes)) = Trimmed(at + sent, Len(bytes) - Sent(bytes))
         /\ Sent(bytes) \in 0 .. Len(bytes)
         /\ Len(Piece(at, bytes)) \in 0 .. Len(bytes) - Sent(bytes)
         /\ \A j \in 1 .. Len(Piece(at, bytes)) :
              Piece(at, bytes)[j] = bytes[Sent(bytes) + j]
<1> DEFINE n == Sent(bytes)
           t == Trimmed(at + sent, Len(bytes) - n)
<1>1. Len(bytes) \in Nat /\ n \in 0 .. Len(bytes)
  BY DEF Sent
<1>2. Len(bytes) - n \in Nat /\ at + sent \in Nat
  BY <1>1
<1>3. t \in 0 .. Len(bytes) - n
  BY <1>2, TrimmedBounds
<1>4. Piece(at, bytes) = SubSeq(bytes, n + 1, n + t)
  BY DEF Piece
<1> HIDE DEF n, t
<1>5. n + 1 \in 1 .. Len(bytes) + 1 /\ n + t \in n .. Len(bytes)
  BY <1>1, <1>3
<1>6. /\ SubSeq(bytes, n + 1, n + t) \in Seq(0 .. 255)
      /\ Len(SubSeq(bytes, n + 1, n + t)) = t
      /\ \A j \in 1 .. t : SubSeq(bytes, n + 1, n + t)[j] = bytes[n + j]
  <2>1. n \in Nat /\ t \in Nat /\ n + 1 \in Int /\ n + t \in Int
    BY <1>1, <1>3
  <2>2. \A i \in n + 1 .. n + t : bytes[i] \in 0 .. 255
    <3>1. \A i \in n + 1 .. n + t : i \in 1 .. Len(bytes)
      BY <1>1, <1>3, <2>1
    <3>2. \A i \in 1 .. Len(bytes) : bytes[i] \in 0 .. 255
      BY ElementOfSeq
    <3> QED
      BY <3>1, <3>2
  <2>3. /\ SubSeq(bytes, n + 1, n + t) \in Seq(0 .. 255)
        /\ Len(SubSeq(bytes, n + 1, n + t))
             = IF n + 1 <= n + t THEN (n + t) - (n + 1) + 1 ELSE 0
        /\ \A j \in 1 .. (n + t) - (n + 1) + 1 :
             SubSeq(bytes, n + 1, n + t)[j] = bytes[(n + 1) + j - 1]
    BY <2>1, <2>2, SubSeqProperties
  <2>4. (n + t) - (n + 1) + 1 = t /\ \A j \in 1 .. t : (n + 1) + j - 1 = n + j
    BY <2>1
  <2> QED
    BY <2>1, <2>3, <2>4
<1> QED
  BY <1>1, <1>3, <1>4, <1>6 DEF n, t

(* A page write that is broken off leaves no more than the write's bytes.  *)
LEMMA SentBounds ==
  ASSUME sent \in Nat, NEW at \in Nat, NEW bytes \in Seq(0 .. 255), NEW k \in Nat,
         BrokenOff(at, bytes, k)
  PROVE  Sent(bytes) + k \in 0 .. Len(bytes)
<1> DEFINE n == Sent(bytes)
           t == Len(Piece(at, bytes))
<1>1. n \in 0 .. Len(bytes) /\ t \in 0 .. Len(bytes) - n /\ Len(bytes) \in Nat
  BY PieceIs
<1>2. k <= t
  BY DEF BrokenOff
<1> HIDE DEF n, t
<1>3. n + k \in 0 .. Len(bytes)
  BY <1>1, <1>2
<1> QED
  BY <1>3 DEF n

LEMMA CallA ==
  ASSUME SystemInv
  PROVE  callA.at \in Nat /\ callA.bytes \in Seq(0 .. 255)
BY DEF SystemInv, GA!SlotInv, GA!TypeOK, GA!Calls, GA!Byte

LEMMA CallB ==
  ASSUME SystemInv
  PROVE  callB.at \in Nat /\ callB.bytes \in Seq(0 .. 255)
BY DEF SystemInv, GB!SlotInv, GB!TypeOK, GB!Calls, GB!Byte

-----------------------------------------------------------------------------
(* The steps of the two slots and of the driver.                           *)

LEMMA CallsAActs ==
  ASSUME SystemInv, CallsA
  PROVE  ActsA /\ sent' \in Nat
BY DEF CallsA, A!Next, ActsA, SystemInv

LEMMA PageAIdle ==
  ASSUME SystemInv, PageA
  PROVE  UNCHANGED <<rom, varsA, varsB>> /\ sent' \in Nat
<1>1. UNCHANGED <<rom, varsA, varsB>> /\ sent' = sent + SentLength(callA.at + sent)
  BY DEF PageA, PageWrite
<1>2. sent \in Nat /\ callA.at + sent \in Nat /\ 0 \in Nat
  BY CallA DEF SystemInv
<1>3. SentLength(callA.at + sent) \in Nat
  BY <1>2, TrimmedBounds
<1> QED
  BY <1>1, <1>2, <1>3

LEMMA WrittenAActs ==
  ASSUME SystemInv, WrittenA
  PROVE  ActsA /\ sent' \in Nat
<1>1. Len(callA.bytes) \in 0 .. Len(callA.bytes)
  BY CallA
<1> QED
  BY <1>1 DEF WrittenA, WriteSent, A!Next, ActsA

LEMMA FailsAActs ==
  ASSUME SystemInv, NEW k \in 0 .. Len(callA.bytes), FailsA(k)
  PROVE  ActsA /\ sent' \in Nat
<1>1. Sent(callA.bytes) + k \in 0 .. Len(callA.bytes)
  <2>1. k \in Nat /\ sent \in Nat /\ BrokenOff(callA.at, callA.bytes, k)
    BY CallA DEF SystemInv, FailsA
  <2> QED
    BY <2>1, CallA, SentBounds
<1> QED
  BY <1>1 DEF FailsA, BrokenOff, A!Next, ActsA

LEMMA PowerLossAActs ==
  ASSUME SystemInv, NEW k \in 0 .. Len(callA.bytes), PowerLossA(k)
  PROVE  ActsA /\ sent' \in Nat
<1>1. Sent(callA.bytes) + k \in 0 .. Len(callA.bytes)
  <2>1. k \in Nat /\ sent \in Nat /\ BrokenOff(callA.at, callA.bytes, k)
    BY CallA DEF SystemInv, PowerLossA
  <2> QED
    BY <2>1, CallA, SentBounds
<1>2. A!PowerLoss(Sent(callA.bytes) + k) /\ sent' = 0
      /\ pcB \notin B!Writing /\ B!SwitchedOff
  BY DEF PowerLossA, BrokenOff
<1>3. A!Next /\ PowerLosses
  BY <1>1, <1>2 DEF A!PowerLoss, A!Next
<1> QED
  BY <1>2, <1>3 DEF ActsA, LossOfB

LEMMA CallsBActs ==
  ASSUME SystemInv, CallsB
  PROVE  ActsB /\ sent' \in Nat
BY DEF CallsB, B!Next, ActsB, SystemInv

LEMMA PageBIdle ==
  ASSUME SystemInv, PageB
  PROVE  UNCHANGED <<rom, varsA, varsB>> /\ sent' \in Nat
<1>1. UNCHANGED <<rom, varsA, varsB>> /\ sent' = sent + SentLength(callB.at + sent)
  BY DEF PageB, PageWrite
<1>2. sent \in Nat /\ callB.at + sent \in Nat /\ 0 \in Nat
  BY CallB DEF SystemInv
<1>3. SentLength(callB.at + sent) \in Nat
  BY <1>2, TrimmedBounds
<1> QED
  BY <1>1, <1>2, <1>3

LEMMA WrittenBActs ==
  ASSUME SystemInv, WrittenB
  PROVE  ActsB /\ sent' \in Nat
<1>1. Len(callB.bytes) \in 0 .. Len(callB.bytes)
  BY CallB
<1> QED
  BY <1>1 DEF WrittenB, WriteSent, B!Next, ActsB

LEMMA FailsBActs ==
  ASSUME SystemInv, NEW k \in 0 .. Len(callB.bytes), FailsB(k)
  PROVE  ActsB /\ sent' \in Nat
<1>1. Sent(callB.bytes) + k \in 0 .. Len(callB.bytes)
  <2>1. k \in Nat /\ sent \in Nat /\ BrokenOff(callB.at, callB.bytes, k)
    BY CallB DEF SystemInv, FailsB
  <2> QED
    BY <2>1, CallB, SentBounds
<1> QED
  BY <1>1 DEF FailsB, BrokenOff, B!Next, ActsB

LEMMA PowerLossBActs ==
  ASSUME SystemInv, NEW k \in 0 .. Len(callB.bytes), PowerLossB(k)
  PROVE  ActsB /\ sent' \in Nat
<1>1. Sent(callB.bytes) + k \in 0 .. Len(callB.bytes)
  <2>1. k \in Nat /\ sent \in Nat /\ BrokenOff(callB.at, callB.bytes, k)
    BY CallB DEF SystemInv, PowerLossB
  <2> QED
    BY <2>1, CallB, SentBounds
<1>2. B!PowerLoss(Sent(callB.bytes) + k) /\ sent' = 0
      /\ pcA \notin A!Writing /\ A!SwitchedOff
  BY DEF PowerLossB, BrokenOff
<1>3. B!Next /\ PowerLosses
  BY <1>1, <1>2 DEF B!PowerLoss, B!Next
<1> QED
  BY <1>2, <1>3 DEF ActsB, LossOfA

LEMMA WhoActs ==
  ASSUME SystemInv, [Next]_sysVars
  PROVE  (ActsA \/ ActsB \/ UNCHANGED <<rom, varsA, varsB>>) /\ sent' \in Nat
<1>1. CASE CallsA \/ PageA \/ WrittenA
  BY <1>1, CallsAActs, PageAIdle, WrittenAActs
<1>2. CASE CallsB \/ PageB \/ WrittenB
  BY <1>2, CallsBActs, PageBIdle, WrittenBActs
<1>3. ASSUME NEW k \in 0 .. Len(callA.bytes), FailsA(k) \/ PowerLossA(k)
      PROVE  ActsA /\ sent' \in Nat
  BY <1>3, FailsAActs, PowerLossAActs
<1>4. ASSUME NEW k \in 0 .. Len(callB.bytes), FailsB(k) \/ PowerLossB(k)
      PROVE  ActsB /\ sent' \in Nat
  BY <1>4, FailsBActs, PowerLossBActs
<1>5. CASE UNCHANGED sysVars
  BY <1>5 DEF sysVars, SystemInv
<1> QED
  BY <1>1, <1>2, <1>3, <1>4, <1>5 DEF Next

LEMMA SystemInit ==
  ASSUME Init
  PROVE  GA!Init /\ GB!Init /\ SystemInv
<1>1. rom = [a \in 0 .. RomSize - 1 |-> Blank] /\ sent = 0 /\ Blank \in 0 .. 255
  BY AssumptionsA DEF Init, ChipInit, A!Init, A!Addr, GA!DataAssumption, GA!Byte
<1>2. GA!Init
  BY <1>1 DEF Init, A!Init, GA!Init, GA!Addr, A!Cleared, GA!Cleared, A!NoWrite, GA!NoWrite,
     A!NoScan, GA!NoScan
<1>3. GB!Init
  BY <1>1 DEF Init, B!Init, GB!Init, GB!Addr, B!Cleared, GB!Cleared, B!NoWrite, GB!NoWrite,
     B!NoScan, GB!NoScan
<1>4. GA!SlotInv /\ GA!OffIsCleared
  BY <1>2, GA!SlotInvInit, AssumptionsA DEF GA!Init, GA!OffIsCleared
<1>5. GB!SlotInv /\ GB!OffIsCleared
  BY <1>3, GB!SlotInvInit, AssumptionsB DEF GB!Init, GB!OffIsCleared
<1> QED
  BY <1>1, <1>2, <1>3, <1>4, <1>5 DEF SystemInv

LEMMA SystemKeeps ==
  ASSUME SystemInv, [Next]_sysVars
  PROVE  SystemInv'
<1>1. CASE ActsA \/ ActsB
  BY <1>1, WhoActs, ActsAKeeps, ActsBKeeps
<1>2. CASE UNCHANGED <<rom, varsA, varsB>>
  <2>1. GA!SlotInv' /\ GA!OffIsCleared'
    BY <1>2, GA!NextKeeps, GA!OffKeeps, AssumptionsA DEF SystemInv, GA!vars, varsA
  <2>2. GB!SlotInv' /\ GB!OffIsCleared'
    BY <1>2, GB!NextKeeps, GB!OffKeeps, AssumptionsB DEF SystemInv, GB!vars, varsB
  <2> QED
    BY <1>2, <2>1, <2>2, WhoActs DEF SystemInv
<1> QED
  BY <1>1, <1>2, WhoActs

-----------------------------------------------------------------------------
(* What one slot does, seen from the other: nothing, or a loss of power.   *)

Disjoint == OwnA \cap OwnB = {}

Alone == [GA!Next]_GA!vars /\ [GB!Next]_GB!vars

LEMMA ActsAAlone ==
  ASSUME SystemInv, Disjoint, ActsA
  PROVE  Alone
<1> DEFINE Mask == [a \in DOMAIN rom |-> IF a \in OwnB THEN rom[a] ELSE Blank]
<1>1. /\ GA!Next
      /\ rom' \in [0 .. RomSize - 1 -> 0 .. 255]
      /\ \A a \in (0 .. RomSize - 1) \ OwnA : rom'[a] = rom[a]
  BY StepA DEF ActsA
<1>2. Mask' = Mask
  BY <1>1 DEF Disjoint, OwnB, SystemInv
<1>3. CASE UNCHANGED varsB
  BY <1>1, <1>2, <1>3 DEF Alone, GB!vars, varsB
<1>4. CASE LossOfB
  <2>1. GB!SlotInv /\ GB!OffIsCleared
    BY DEF SystemInv
  <2>2. [GB!Next]_GB!vars
    BY <1>2, <1>4, <2>1, OffB, GB!OffAlone, AssumptionsB
  <2> QED
    BY <1>1, <2>2 DEF Alone
<1> QED
  BY <1>3, <1>4 DEF ActsA

LEMMA ActsBAlone ==
  ASSUME SystemInv, Disjoint, ActsB
  PROVE  Alone
<1> DEFINE Mask == [a \in DOMAIN rom |-> IF a \in OwnA THEN rom[a] ELSE Blank]
<1>1. /\ GB!Next
      /\ rom' \in [0 .. RomSize - 1 -> 0 .. 255]
      /\ \A a \in (0 .. RomSize - 1) \ OwnB : rom'[a] = rom[a]
  BY StepB DEF ActsB
<1>2. Mask' = Mask
  BY <1>1 DEF Disjoint, OwnA, SystemInv
<1>3. CASE UNCHANGED varsA
  BY <1>1, <1>2, <1>3 DEF Alone, GA!vars, varsA
<1>4. CASE LossOfA
  <2>1. GA!SlotInv /\ GA!OffIsCleared
    BY DEF SystemInv
  <2>2. [GA!Next]_GA!vars
    BY <1>2, <1>4, <2>1, OffA, GA!OffAlone, AssumptionsA
  <2> QED
    BY <1>1, <2>2 DEF Alone
<1> QED
  BY <1>3, <1>4 DEF ActsB

(* Each of two slots whose records share no byte behaves as EELSSlot does  *)
(* alone in its EEPROM, whatever calls of the other come in between, fail  *)
(* or lose the power: nothing that EELslot_arr keeps, no page they share   *)
(* and no eeprom_write of the driver lets one slot show in the other.      *)
THEOREM EachAlone ==
  ASSUME Disjoint
  PROVE  Spec => SlotsAlone
<1>1. Init => SystemInv /\ AloneA!Init /\ AloneB!Init
  BY SystemInit, SameAloneA, SameAloneB
<1>2. SystemInv /\ [Next]_sysVars => SystemInv'
  BY SystemKeeps
<1>3. SystemInv /\ [Next]_sysVars => Alone
  <2>1. UNCHANGED <<rom, varsA, varsB>> => Alone
    BY DEF Alone, GA!vars, GB!vars, varsA, varsB
  <2> QED
    BY <2>1, WhoActs, ActsAAlone, ActsBAlone
<1>4. Alone => [AloneA!Next]_AloneA!vars /\ [AloneB!Next]_AloneB!vars
  BY SameAloneA, SameAloneB DEF Alone, GA!vars, AloneA!vars, GB!vars, AloneB!vars
<1> QED
  BY <1>1, <1>2, <1>3, <1>4, PTL DEF Spec, SlotsAlone, AloneA!Spec, AloneB!Spec

-----------------------------------------------------------------------------
(* What a page write programs: the bytes of the piece, at the address.     *)

LEMMA ModSmall ==
  ASSUME NEW n \in Nat \ {0}, NEW d \in Int
  PROVE  /\ 0 <= d /\ d < n => d % n = d /\ d \div n = 0
         /\ -n <= d /\ d < 0 => d % n = d + n
OBVIOUS

LEMMA LatchedIs ==
  ASSUME DOMAIN chip = 0 .. RomSize - 1, NEW address \in Nat, NEW p \in Seq(0 .. 255),
         Len(p) <= SentLength(address)
  PROVE  Latched(address, p) =
           [a \in DOMAIN chip |-> IF a \in address .. address + Len(p) - 1
                                  THEN p[a - address + 1] ELSE chip[a]]
<1> DEFINE head == address % ChipPage
           page == address - head
           first(a) == 1 + ((a - address) % ChipPage)
           last(a) == first(a) + ChipPage * ((Len(p) - first(a)) \div ChipPage)
           Latches(a) == a \in page .. page + ChipPage - 1 /\ first(a) <= Len(p)
           Hit(a) == a \in address .. address + Len(p) - 1
<1>1. ChipPage \in Nat \ {0} /\ Len(p) \in Nat
  BY ChipAssumption
<1>2. head \in 0 .. ChipPage - 1 /\ Len(p) <= ChipPage - head
  BY <1>1 DEF SentLength
<1> HIDE DEF head
<1>3. ASSUME NEW a \in Nat PROVE Latches(a) <=> Hit(a)
  <2>1. CASE a \in page .. page + ChipPage - 1 /\ a >= address
    <3>1. 0 <= a - address /\ a - address < ChipPage /\ a - address \in Int
      BY <1>1, <1>2, <2>1
    <3>2. first(a) = 1 + (a - address)
      BY <1>1, <3>1, ModSmall
    <3> HIDE DEF first
    <3>3. Latches(a) <=> 1 + (a - address) <= Len(p)
      BY <2>1, <3>2
    <3>4. Hit(a) <=> 1 + (a - address) <= Len(p)
      BY <1>1, <2>1
    <3> QED
      BY <3>3, <3>4
  <2>2. CASE a \in page .. page + ChipPage - 1 /\ a < address
    <3>1. -ChipPage <= a - address /\ a - address < 0 /\ a - address \in Int
      BY <1>1, <1>2, <2>2
    <3>2. first(a) = 1 + ((a - address) + ChipPage)
      BY <1>1, <3>1, ModSmall
    <3> HIDE DEF first
    <3>3. a - address >= -head
      BY <1>1, <1>2, <2>2
    <3>4. ~ (first(a) <= Len(p))
      BY <1>1, <1>2, <2>2, <3>2, <3>3
    <3>5. ~ Hit(a)
      BY <1>1, <2>2
    <3> QED
      BY <3>4, <3>5
  <2>3. CASE a \notin page .. page + ChipPage - 1
    BY <1>1, <1>2, <2>3
  <2> QED
    BY <1>1, <1>2, <2>1, <2>2, <2>3
<1>4. ASSUME NEW a \in Nat, Hit(a) PROVE last(a) = a - address + 1
  <2>1. 0 <= a - address /\ a - address < ChipPage /\ a - address \in Int
    BY <1>1, <1>2, <1>4
  <2>2. first(a) = 1 + (a - address)
    BY <1>1, <2>1, ModSmall
  <2> HIDE DEF first
  <2>3. 0 <= Len(p) - first(a) /\ Len(p) - first(a) < ChipPage /\ Len(p) - first(a) \in Int
    BY <1>1, <1>2, <1>4, <2>1, <2>2
  <2>4. (Len(p) - first(a)) \div ChipPage = 0
    BY <1>1, <2>3, ModSmall
  <2> QED
    BY <1>1, <2>1, <2>2, <2>4
<1>5. Latched(address, p) = [a \in DOMAIN chip |-> IF Latches(a) THEN p[last(a)] ELSE chip[a]]
  BY DEF Latched, head
<1> HIDE DEF Latches, Hit, last
<1>6. Latched(address, p)
        = [a \in DOMAIN chip |-> IF Hit(a) THEN p[a - address + 1] ELSE chip[a]]
  BY <1>3, <1>4, <1>5
<1> QED
  BY <1>6 DEF Hit

(* The chip once n bytes of a write are programmed.                        *)
Taken(at, bytes, n) ==
  [a \in DOMAIN chip |-> IF a \in at .. at + n - 1 THEN bytes[a - at + 1] ELSE chip[a]]

Sends(at, bytes) ==
  \A a \in DOMAIN chip : a \in at .. at + Sent(bytes) - 1 => chip[a] = bytes[a - at + 1]

LEMMA PieceTaken ==
  ASSUME DOMAIN chip = 0 .. RomSize - 1, sent \in Nat, NEW at \in Nat,
         NEW bytes \in Seq(0 .. 255), Sends(at, bytes),
         NEW p \in Seq(0 .. 255), Len(p) <= Len(Piece(at, bytes)),
         \A j \in 1 .. Len(p) : p[j] = Piece(at, bytes)[j]
  PROVE  Latched(at + sent, p) = Taken(at, bytes, Sent(bytes) + Len(p))
<1> DEFINE n == Sent(bytes)
           k == Len(p)
           adr == at + sent
<1>1. /\ n \in 0 .. Len(bytes) /\ Len(bytes) \in Nat /\ k \in Nat
      /\ Len(Piece(at, bytes)) \in 0 .. Len(bytes) - n
      /\ Len(Piece(at, bytes)) = Trimmed(adr, Len(bytes) - n)
      /\ \A j \in 1 .. Len(Piece(at, bytes)) : Piece(at, bytes)[j] = bytes[n + j]
      /\ adr \in Nat
  <2>1. Len(bytes) \in Nat /\ k \in Nat /\ adr \in Nat
    OBVIOUS
  <2> QED
    BY <2>1, PieceIs
<1>2. n = sent \/ k = 0
  BY <1>1 DEF Sent
<1>3. k <= SentLength(adr)
  <2>1. Len(bytes) - n \in Nat
    BY <1>1
  <2>2. Trimmed(adr, Len(bytes) - n) <= SentLength(adr) /\ SentLength(adr) \in Nat
        /\ Trimmed(adr, Len(bytes) - n) \in 0 .. Len(bytes) - n
    BY <1>1, <2>1, TrimmedBounds
  <2> QED
    BY <1>1, <2>1, <2>2
<1>4. Latched(adr, p) =
        [a \in DOMAIN chip |-> IF a \in adr .. adr + k - 1 THEN p[a - adr + 1] ELSE chip[a]]
  BY <1>1, <1>3, LatchedIs
<1>5. \A j \in 1 .. k : p[j] = bytes[n + j]
  BY <1>1
<1> HIDE DEF n, k, adr
<1>6. ASSUME NEW a \in DOMAIN chip
      PROVE  (IF a \in adr .. adr + k - 1 THEN p[a - adr + 1] ELSE chip[a])
               = (IF a \in at .. at + (n + k) - 1 THEN bytes[a - at + 1] ELSE chip[a])
  <2>1. a \in Int /\ n \in Nat
    BY <1>1
  <2>2. CASE a \in at .. at + n - 1
    <3>1. chip[a] = bytes[a - at + 1]
      BY <2>2 DEF Sends, n
    <3>2. a \notin adr .. adr + k - 1
      BY <1>1, <1>2, <2>1, <2>2 DEF adr
    <3> QED
      BY <1>1, <2>1, <2>2, <3>1, <3>2
  <2>3. CASE k # 0 /\ a \in at + n .. at + (n + k) - 1
    <3>0. adr = at + n
      BY <1>2, <2>3 DEF adr
    <3>1. a \in adr .. adr + k - 1 /\ a - adr + 1 \in 1 .. k
      BY <1>1, <2>1, <2>3, <3>0
    <3>2. p[a - adr + 1] = bytes[a - at + 1]
      <4>1. p[a - adr + 1] = bytes[n + (a - adr + 1)]
        BY ONLY <1>5, <3>1
      <4>2. at \in Int /\ adr \in Int
        BY <1>1, <3>0
      <4>3. n + (a - adr + 1) = a - at + 1
        BY ONLY <2>1, <3>0, <4>2
      <4> QED
        BY ONLY <4>1, <4>3
    <3>3. a \in at .. at + (n + k) - 1
      BY <1>1, <2>1, <2>3
    <3> QED
      BY <3>1, <3>2, <3>3
  <2>4. CASE a \notin at .. at + (n + k) - 1
    <3>1. a \notin adr .. adr + k - 1
      BY <1>1, <1>2, <2>1, <2>4 DEF adr
    <3> QED
      BY <2>4, <3>1
  <2> QED
    BY <1>1, <2>1, <2>2, <2>3, <2>4
<1> QED
  BY <1>4, <1>6 DEF Taken, n, k, adr

(* eeprom_write once more round its loop, and once too often.              *)
LEMMA PageTaken ==
  ASSUME DOMAIN chip = 0 .. RomSize - 1, sent \in Nat, NEW at \in Nat,
         NEW bytes \in Seq(0 .. 255), Sends(at, bytes), PageWrite(at, bytes)
  PROVE  /\ Sent(bytes)' \in 0 .. Len(bytes)
         /\ chip' = Taken(at, bytes, Sent(bytes)')
<1> DEFINE n == Sent(bytes)
           p == Piece(at, bytes)
           t == Trimmed(at + sent, Len(bytes) - n)
           g == SentLength(at + sent)
<1>1. /\ n = sent /\ sent < Len(bytes) /\ sent' = sent + g /\ Len(bytes) \in Nat
      /\ chip' = Latched(at + sent, p)
  BY DEF PageWrite, Sent
<1>2. p \in Seq(0 .. 255) /\ Len(p) = t
  BY PieceIs
<1>3. chip' = Taken(at, bytes, n + t)
  BY <1>1, <1>2, PieceTaken
<1>4. /\ t \in 0 .. Len(bytes) - n /\ t <= g /\ g \in Nat
      /\ t = Len(bytes) - n \/ t = g
  <2>1. at + sent \in Nat /\ Len(bytes) - n \in Nat
    BY <1>1
  <2> QED
    BY <2>1, TrimmedBounds
<1> HIDE DEF n, t, g, p
<1>5. Sent(bytes)' = n + t
  <2>1. Sent(bytes)' = IF sent' < Len(bytes) THEN sent' ELSE Len(bytes)
    BY DEF Sent
  <2>2. sent' = n + g /\ n \in Nat
    BY <1>1
  <2> QED
    BY <1>1, <1>4, <2>1, <2>2
<1>6. n + t \in 0 .. Len(bytes)
  BY <1>1, <1>4
<1> QED
  BY <1>3, <1>5, <1>6

LEMMA BrokenTaken ==
  ASSUME DOMAIN chip = 0 .. RomSize - 1, sent \in Nat, NEW at \in Nat,
         NEW bytes \in Seq(0 .. 255), Sends(at, bytes), NEW k \in Nat,
         BrokenOff(at, bytes, k)
  PROVE  chip' = Taken(at, bytes, Sent(bytes) + k)
<1> DEFINE piece == Piece(at, bytes)
           p == SubSeq(piece, 1, k)
<1>1. piece \in Seq(0 .. 255) /\ Len(piece) \in Nat
  BY PieceIs
<1>2. k <= Len(piece) /\ chip' = Latched(at + sent, p)
  BY DEF BrokenOff
<1>3. p \in Seq(0 .. 255) /\ Len(p) = k /\ \A j \in 1 .. k : p[j] = piece[j]
  <2> HIDE DEF piece
  <2>1. \A i \in 1 .. k : piece[i] \in 0 .. 255
    <3>1. \A i \in 1 .. k : i \in 1 .. Len(piece)
      BY <1>1, <1>2
    <3> QED
      BY <1>1, <3>1, ElementOfSeq
  <2>2. /\ SubSeq(piece, 1, k) \in Seq(0 .. 255)
        /\ Len(SubSeq(piece, 1, k)) = IF 1 <= k THEN k - 1 + 1 ELSE 0
        /\ \A j \in 1 .. k - 1 + 1 : SubSeq(piece, 1, k)[j] = piece[1 + j - 1]
    BY <2>1, SubSeqProperties
  <2>3. k - 1 + 1 = k /\ \A j \in 1 .. k : 1 + j - 1 = j
    OBVIOUS
  <2> QED
    BY <2>2, <2>3
<1> HIDE DEF p
<1> QED
  BY <1>2, <1>3, PieceTaken

-----------------------------------------------------------------------------
(* What the driver has programmed.                                         *)

Resting == {"off", "idle"}

ChipInv ==
  /\ DOMAIN chip = 0 .. RomSize - 1
  /\ pcA \in Resting \/ pcB \in Resting
  /\ pcA \notin A!Writing /\ pcB \notin B!Writing => sent = 0
  /\ ChipIsRom

(* Without a byte to send nothing is programmed of a call.                 *)
LEMMA NothingSent ==
  ASSUME NEW n \in Nat, NEW at \in Nat, NEW len \in Nat, n = 0 \/ len = 0
  PROVE  at .. at + (IF n < len THEN n ELSE len) - 1 = {}
OBVIOUS

LEMMA QuietA ==
  ASSUME SystemInv
  PROVE  /\ sent = 0 => Programmed(callA) = {}
         /\ pcA \notin A!Writing => callA.bytes = <<>> /\ Programmed(callA) = {}
<1>1. callA.at \in Nat /\ Len(callA.bytes) \in Nat /\ sent \in Nat
  BY CallA DEF SystemInv
<1>2. sent = 0 => Programmed(callA) = {}
  BY <1>1, NothingSent DEF Programmed, Sent
<1>3. pcA \notin A!Writing => callA.bytes = <<>>
  BY DEF SystemInv, GA!SlotInv, GA!WriteInRecord, GA!Writing, A!Writing
<1>4. callA.bytes = <<>> => Programmed(callA) = {}
  BY <1>1, NothingSent DEF Programmed, Sent
<1> QED
  BY <1>2, <1>3, <1>4

LEMMA QuietB ==
  ASSUME SystemInv
  PROVE  /\ sent = 0 => Programmed(callB) = {}
         /\ pcB \notin B!Writing => callB.bytes = <<>> /\ Programmed(callB) = {}
<1>1. callB.at \in Nat /\ Len(callB.bytes) \in Nat /\ sent \in Nat
  BY CallB DEF SystemInv
<1>2. sent = 0 => Programmed(callB) = {}
  BY <1>1, NothingSent DEF Programmed, Sent
<1>3. pcB \notin B!Writing => callB.bytes = <<>>
  BY DEF SystemInv, GB!SlotInv, GB!WriteInRecord, GB!Writing, B!Writing
<1>4. callB.bytes = <<>> => Programmed(callB) = {}
  BY <1>1, NothingSent DEF Programmed, Sent
<1> QED
  BY <1>2, <1>3, <1>4

(* No write in progress: the chip is the EEPROM.                           *)
LEMMA ChipSettles ==
  ASSUME SystemInv', sent' = 0, DOMAIN chip' = 0 .. RomSize - 1,
         \A a \in DOMAIN chip' : chip'[a] = rom'[a]
  PROVE  ChipIsRom'
<1>1. /\ callA'.at \in Nat /\ callA'.bytes \in Seq(0 .. 255)
      /\ callB'.at \in Nat /\ callB'.bytes \in Seq(0 .. 255)
  BY DEF SystemInv, GA!SlotInv, GA!TypeOK, GA!Calls, GA!Byte,
         GB!SlotInv, GB!TypeOK, GB!Calls, GB!Byte
<1>2. Len(callA'.bytes) \in Nat /\ Len(callB'.bytes) \in Nat
  BY <1>1
<1>3. Programmed(callA)' = {} /\ Programmed(callB)' = {}
  BY <1>1, <1>2, NothingSent DEF Programmed, Sent
<1> QED
  BY <1>3 DEF ChipIsRom

LEMMA SendsA ==
  ASSUME SystemInv, ChipInv, pcB \notin B!Writing
  PROVE  /\ Sends(callA.at, callA.bytes)
         /\ \A a \in DOMAIN chip : a \notin Programmed(callA) => chip[a] = rom[a]
<1>1. Programmed(callB) = {}
  BY QuietB
<1> QED
  BY <1>1 DEF Sends, Programmed, ChipInv, ChipIsRom

(* The bytes that the chip has are those that the slot takes for written.  *)
LEMMA LandingA ==
  ASSUME SystemInv, SystemInv', ChipInv, pcB \notin B!Writing,
         NEW n \in 0 .. Len(callA.bytes), Sent(callA.bytes) <= n,
         DOMAIN chip' = DOMAIN chip,
         \A a \in DOMAIN chip : chip'[a] = Taken(callA.at, callA.bytes, n)[a],
         sent' = 0, A!Landed(n)
  PROVE  DOMAIN chip' = 0 .. RomSize - 1 /\ ChipIsRom'
<1> DEFINE at == callA.at
           bytes == callA.bytes
<1>1. /\ at \in Nat /\ bytes \in Seq(0 .. 255) /\ Len(bytes) \in Nat /\ n \in Nat
      /\ DOMAIN chip = 0 .. RomSize - 1
  BY CallA DEF ChipInv
<1>2. Sent(bytes) \in 0 .. Len(bytes)
  BY <1>1 DEF Sent, SystemInv
<1>3. \A a \in 0 .. RomSize - 1 :
        chip'[a] = IF a \in at .. at + n - 1 THEN bytes[a - at + 1] ELSE chip[a]
  BY <1>1 DEF Taken
<1>4. Len(SubSeq(bytes, 1, n)) = n /\ \A j \in 1 .. n : SubSeq(bytes, 1, n)[j] = bytes[j]
  BY <1>1
<1>5. rom' = [a \in 0 .. RomSize - 1 |-> IF a \in at .. at + n - 1
                                          THEN SubSeq(bytes, 1, n)[a - at + 1] ELSE rom[a]]
  BY <1>4 DEF A!Landed, A!Program, A!Addr
<1>6. \A a \in 0 .. RomSize - 1 : chip'[a] = rom'[a]
  <2> SUFFICES ASSUME NEW a \in 0 .. RomSize - 1 PROVE chip'[a] = rom'[a]
    OBVIOUS
  <2>1. CASE a \in at .. at + n - 1
    <3>1. a - at + 1 \in 1 .. n
      BY <1>1, <2>1
    <3>2. SubSeq(bytes, 1, n)[a - at + 1] = bytes[a - at + 1]
      BY <1>4, <3>1
    <3> HIDE DEF bytes, at
    <3> QED
      BY <1>3, <1>5, <2>1, <3>2
  <2>2. CASE a \notin at .. at + n - 1
    <3>1. a \notin Programmed(callA)
      BY <1>1, <1>2, <2>2 DEF Programmed
    <3>2. chip[a] = rom[a]
      BY <1>1, <3>1, SendsA
    <3> HIDE DEF bytes, at
    <3> QED
      BY <1>3, <1>5, <2>2, <3>2
  <2> QED
    BY <2>1, <2>2
<1> QED
  BY <1>1, <1>6, ChipSettles

LEMMA SendsB ==
  ASSUME SystemInv, ChipInv, pcA \notin A!Writing
  PROVE  /\ Sends(callB.at, callB.bytes)
         /\ \A a \in DOMAIN chip : a \notin Programmed(callB) => chip[a] = rom[a]
<1>1. Programmed(callA) = {}
  BY QuietA
<1> QED
  BY <1>1 DEF Sends, Programmed, ChipInv, ChipIsRom

(* The bytes that the chip has are those that the slot takes for written.  *)
LEMMA LandingB ==
  ASSUME SystemInv, SystemInv', ChipInv, pcA \notin A!Writing,
         NEW n \in 0 .. Len(callB.bytes), Sent(callB.bytes) <= n,
         DOMAIN chip' = DOMAIN chip,
         \A a \in DOMAIN chip : chip'[a] = Taken(callB.at, callB.bytes, n)[a],
         sent' = 0, B!Landed(n)
  PROVE  DOMAIN chip' = 0 .. RomSize - 1 /\ ChipIsRom'
<1> DEFINE at == callB.at
           bytes == callB.bytes
<1>1. /\ at \in Nat /\ bytes \in Seq(0 .. 255) /\ Len(bytes) \in Nat /\ n \in Nat
      /\ DOMAIN chip = 0 .. RomSize - 1
  BY CallB DEF ChipInv
<1>2. Sent(bytes) \in 0 .. Len(bytes)
  BY <1>1 DEF Sent, SystemInv
<1>3. \A a \in 0 .. RomSize - 1 :
        chip'[a] = IF a \in at .. at + n - 1 THEN bytes[a - at + 1] ELSE chip[a]
  BY <1>1 DEF Taken
<1>4. Len(SubSeq(bytes, 1, n)) = n /\ \A j \in 1 .. n : SubSeq(bytes, 1, n)[j] = bytes[j]
  BY <1>1
<1>5. rom' = [a \in 0 .. RomSize - 1 |-> IF a \in at .. at + n - 1
                                          THEN SubSeq(bytes, 1, n)[a - at + 1] ELSE rom[a]]
  BY <1>4 DEF B!Landed, B!Program, B!Addr
<1>6. \A a \in 0 .. RomSize - 1 : chip'[a] = rom'[a]
  <2> SUFFICES ASSUME NEW a \in 0 .. RomSize - 1 PROVE chip'[a] = rom'[a]
    OBVIOUS
  <2>1. CASE a \in at .. at + n - 1
    <3>1. a - at + 1 \in 1 .. n
      BY <1>1, <2>1
    <3>2. SubSeq(bytes, 1, n)[a - at + 1] = bytes[a - at + 1]
      BY <1>4, <3>1
    <3> HIDE DEF bytes, at
    <3> QED
      BY <1>3, <1>5, <2>1, <3>2
  <2>2. CASE a \notin at .. at + n - 1
    <3>1. a \notin Programmed(callB)
      BY <1>1, <1>2, <2>2 DEF Programmed
    <3>2. chip[a] = rom[a]
      BY <1>1, <3>1, SendsB
    <3> HIDE DEF bytes, at
    <3> QED
      BY <1>3, <1>5, <2>2, <3>2
  <2> QED
    BY <2>1, <2>2
<1> QED
  BY <1>1, <1>6, ChipSettles

-----------------------------------------------------------------------------
(* Every step keeps ChipInv.                                               *)

LEMMA CallsAChip ==
  ASSUME SystemInv, SystemInv', ChipInv, CallsA
  PROVE  ChipInv'
<1>1. pcA \notin A!Writing
  BY DEF CallsA, A!Scan, A!FindLastPos, A!ScanPages, A!ScanPagesEnd, A!ScanRecs, A!ScanSolid,
     A!FindEnd, A!CleanLog, A!InsertLog, A!InsertRec, A!Insert, A!Writing
<1>2. rom' = rom
  BY DEF CallsA, A!Scan, A!FindLastPos, A!ScanPages, A!ScanPagesEnd, A!ScanRecs, A!ScanSolid,
     A!FindEnd, A!CleanLog, A!InsertLog, A!InsertRec, A!Insert
<1>3. chip' = chip /\ sent' = sent /\ pcB' = pcB /\ pcB \in Resting
  BY DEF CallsA, varsB, HasTurn, Resting
<1>4. pcB \notin B!Writing
  BY <1>3 DEF Resting, B!Writing
<1>5. sent = 0
  BY <1>1, <1>4 DEF ChipInv
<1>6. \A a \in DOMAIN chip : chip[a] = rom[a]
  BY <1>1, <1>4, QuietA, QuietB DEF ChipInv, ChipIsRom
<1>7. ChipIsRom' /\ DOMAIN chip' = 0 .. RomSize - 1
  BY <1>2, <1>3, <1>5, <1>6, ChipSettles DEF ChipInv
<1> QED
  BY <1>3, <1>5, <1>7 DEF ChipInv

LEMMA PageAChip ==
  ASSUME SystemInv, ChipInv, PageA
  PROVE  ChipInv'
<1> DEFINE at == callA.at
           bytes == callA.bytes
<1>1. /\ PageWrite(at, bytes) /\ rom' = rom /\ callA' = callA /\ pcA' = pcA
      /\ callB' = callB /\ pcB' = pcB
  BY DEF PageA, varsA, varsB
<1>2. /\ at \in Nat /\ bytes \in Seq(0 .. 255) /\ Len(bytes) \in Nat
      /\ DOMAIN chip = 0 .. RomSize - 1 /\ sent \in Nat
  <2>1. at \in Nat /\ bytes \in Seq(0 .. 255)
    BY CallA
  <2>2. Len(bytes) \in Nat
    <3> HIDE DEF bytes
    <3> QED
      BY <2>1
  <2> QED
    BY <2>1, <2>2 DEF ChipInv, SystemInv
<1>3. pcA \in A!Writing
  <2>1. CASE bytes = <<>>
    BY <1>1, <1>2, <2>1 DEF PageWrite
  <2> QED
    BY <2>1, QuietA
<1>4. pcB \notin B!Writing
  BY <1>3 DEF ChipInv, Resting, A!Writing, B!Writing
<1>5. Sends(at, bytes) /\ \A a \in DOMAIN chip : a \notin Programmed(callA) => chip[a] = rom[a]
  BY <1>4, SendsA
<1>6. PICK n \in 0 .. Len(bytes) : n = Sent(bytes)' /\ chip' = Taken(at, bytes, n)
  BY <1>1, <1>2, <1>5, PageTaken
<1>7. Sent(bytes) = sent /\ sent <= n
  <2>1. Sent(bytes) = sent /\ sent < Len(bytes) /\ sent' = sent + SentLength(at + sent)
    BY <1>1 DEF PageWrite, Sent
  <2>2. SentLength(at + sent) \in Nat
    <3>1. at + sent \in Nat /\ 0 \in Nat
      BY <1>2
    <3> QED
      BY <3>1, TrimmedBounds
  <2>3. n = IF sent' < Len(bytes) THEN sent' ELSE Len(bytes)
    BY <1>1, <1>6 DEF Sent
  <2> HIDE DEF bytes, at
  <2> QED
    BY <1>2, <2>1, <2>2, <2>3
<1>8. Programmed(callA)' = at .. at + n - 1 /\ Programmed(callA) = at .. at + sent - 1
  BY <1>1, <1>6, <1>7 DEF Programmed
<1>9. Programmed(callB)' = {}
  <2>1. callB.at \in Nat /\ callB.bytes = <<>>
    BY <1>4, CallB, QuietB
  <2>2. Len(callB.bytes) = 0 /\ sent' \in Nat
    BY <1>1, <2>1, PageAIdle
  <2> QED
    BY <1>1, <2>1, <2>2, NothingSent DEF Programmed, Sent
<1>10. DOMAIN chip' = DOMAIN chip /\ \A a \in DOMAIN chip :
         chip'[a] = IF a \in at .. at + n - 1 THEN bytes[a - at + 1] ELSE rom[a]
  <2>1. \A a \in DOMAIN chip : a \notin at .. at + n - 1 => chip[a] = rom[a]
    <3>1. \A a \in DOMAIN chip : a \notin at .. at + n - 1 => a \notin at .. at + sent - 1
      <4>1. n \in Nat
        BY <1>2
      <4> HIDE DEF at, bytes
      <4> QED
        BY <1>2, <1>7, <4>1
    <3> QED
      BY <1>5, <1>8, <3>1
  <2> HIDE DEF at, bytes
  <2> QED
    BY <1>6, <2>1 DEF Taken
<1>11. ChipIsRom'
  BY <1>1, <1>8, <1>9, <1>10 DEF ChipIsRom
<1> QED
  BY <1>1, <1>2, <1>3, <1>10, <1>11 DEF ChipInv, A!Writing, B!Writing

LEMMA WrittenAChip ==
  ASSUME SystemInv, SystemInv', ChipInv, WrittenA
  PROVE  ChipInv'
<1> DEFINE bytes == callA.bytes
<1>1. /\ sent >= Len(bytes) /\ sent' = 0 /\ chip' = chip
      /\ A!WriteDone(Len(bytes)) /\ pcB' = pcB
  BY DEF WrittenA, WriteSent, varsB
<1>2. pcA \in A!Writing /\ A!Landed(Len(bytes))
  BY <1>1 DEF A!WriteDone, A!InsertDataDone, A!InsertDone, A!CleanDone, A!Writing
<1>3. pcB \in Resting /\ pcB \notin B!Writing
  BY <1>2 DEF ChipInv, Resting, A!Writing, B!Writing
<1>4. Len(bytes) \in 0 .. Len(bytes) /\ Len(bytes) \in Nat /\ sent \in Nat
  <2>1. bytes \in Seq(0 .. 255) /\ sent \in Nat
    BY CallA DEF SystemInv
  <2> HIDE DEF bytes
  <2> QED
    BY <2>1
<1>5. Sent(bytes) = Len(bytes) /\ Sent(bytes) <= Len(bytes)
  BY <1>1, <1>4 DEF Sent
<1>6. \A a \in DOMAIN chip : chip'[a] = Taken(callA.at, bytes, Len(bytes))[a]
  <2>1. Sends(callA.at, bytes)
    BY <1>3, SendsA
  <2> QED
    BY <1>1, <1>5, <2>1 DEF Taken, Sends
<1>7. DOMAIN chip' = 0 .. RomSize - 1 /\ ChipIsRom'
  BY <1>1, <1>2, <1>3, <1>4, <1>5, <1>6, LandingA
<1> QED
  BY <1>1, <1>3, <1>7 DEF ChipInv

LEMMA FailsAChip ==
  ASSUME SystemInv, SystemInv', ChipInv,
         NEW k \in 0 .. Len(callA.bytes), FailsA(k)
  PROVE  ChipInv'
<1> DEFINE n == Sent(callA.bytes) + k
<1>1. /\ BrokenOff(callA.at, callA.bytes, k) /\ sent' = 0 /\ A!WriteDone(n) /\ pcB' = pcB
  BY DEF FailsA, BrokenOff, varsB
<1>2. pcA \in A!Writing /\ A!Landed(n)
  BY <1>1 DEF A!WriteDone, A!InsertDataDone, A!InsertDone, A!CleanDone, A!Writing
<1>3. pcB \in Resting /\ pcB \notin B!Writing
  BY <1>2 DEF ChipInv, Resting, A!Writing, B!Writing
<1>4. k \in Nat /\ sent \in Nat /\ DOMAIN chip = 0 .. RomSize - 1
  BY CallA DEF SystemInv, ChipInv
<1>5. chip' = Taken(callA.at, callA.bytes, n) /\ n \in 0 .. Len(callA.bytes)
  BY <1>1, <1>3, <1>4, CallA, SendsA, BrokenTaken, SentBounds
<1>6. Sent(callA.bytes) <= n
  <2>1. Sent(callA.bytes) \in Nat
    BY <1>4, CallA DEF Sent
  <2> QED
    BY <1>4, <2>1
<1>7. DOMAIN chip' = 0 .. RomSize - 1 /\ ChipIsRom'
  <2>1. DOMAIN chip' = DOMAIN chip
    BY <1>5 DEF Taken
  <2> QED
    BY <1>1, <1>2, <1>3, <1>5, <1>6, <2>1, LandingA
<1> QED
  BY <1>1, <1>3, <1>7 DEF ChipInv

LEMMA PowerLossAChip ==
  ASSUME SystemInv, SystemInv', ChipInv,
         NEW k \in 0 .. Len(callA.bytes), PowerLossA(k)
  PROVE  ChipInv'
<1> DEFINE n == Sent(callA.bytes) + k
<1>1. /\ BrokenOff(callA.at, callA.bytes, k) /\ sent' = 0 /\ A!Landed(n)
      /\ pcB \notin B!Writing /\ pcA' = "off"
  BY DEF PowerLossA, BrokenOff, A!PowerLoss, A!SwitchedOff, B!SwitchedOff
<1>2. k \in Nat /\ sent \in Nat /\ DOMAIN chip = 0 .. RomSize - 1
  BY CallA DEF SystemInv, ChipInv
<1>3. chip' = Taken(callA.at, callA.bytes, n) /\ n \in 0 .. Len(callA.bytes)
  BY <1>1, <1>2, CallA, SendsA, BrokenTaken, SentBounds
<1>4. Sent(callA.bytes) <= n
  <2>1. Sent(callA.bytes) \in Nat
    BY <1>2, CallA DEF Sent
  <2> QED
    BY <1>2, <2>1
<1>5. DOMAIN chip' = 0 .. RomSize - 1 /\ ChipIsRom'
  <2>1. DOMAIN chip' = DOMAIN chip
    BY <1>3 DEF Taken
  <2> QED
    BY <1>1, <1>3, <1>4, <2>1, LandingA
<1> QED
  BY <1>1, <1>5 DEF ChipInv, Resting

LEMMA CallsBChip ==
  ASSUME SystemInv, SystemInv', ChipInv, CallsB
  PROVE  ChipInv'
<1>1. pcB \notin B!Writing
  BY DEF CallsB, B!Scan, B!FindLastPos, B!ScanPages, B!ScanPagesEnd, B!ScanRecs, B!ScanSolid,
     B!FindEnd, B!CleanLog, B!InsertLog, B!InsertRec, B!Insert, B!Writing
<1>2. rom' = rom
  BY DEF CallsB, B!Scan, B!FindLastPos, B!ScanPages, B!ScanPagesEnd, B!ScanRecs, B!ScanSolid,
     B!FindEnd, B!CleanLog, B!InsertLog, B!InsertRec, B!Insert
<1>3. chip' = chip /\ sent' = sent /\ pcA' = pcA /\ pcA \in Resting
  BY DEF CallsB, varsA, HasTurn, Resting
<1>4. pcA \notin A!Writing
  BY <1>3 DEF Resting, A!Writing
<1>5. sent = 0
  BY <1>1, <1>4 DEF ChipInv
<1>6. \A a \in DOMAIN chip : chip[a] = rom[a]
  BY <1>1, <1>4, QuietA, QuietB DEF ChipInv, ChipIsRom
<1>7. ChipIsRom' /\ DOMAIN chip' = 0 .. RomSize - 1
  BY <1>2, <1>3, <1>5, <1>6, ChipSettles DEF ChipInv
<1> QED
  BY <1>3, <1>5, <1>7 DEF ChipInv

LEMMA PageBChip ==
  ASSUME SystemInv, ChipInv, PageB
  PROVE  ChipInv'
<1> DEFINE at == callB.at
           bytes == callB.bytes
<1>1. /\ PageWrite(at, bytes) /\ rom' = rom /\ callB' = callB /\ pcB' = pcB
      /\ callA' = callA /\ pcA' = pcA
  BY DEF PageB, varsA, varsB
<1>2. /\ at \in Nat /\ bytes \in Seq(0 .. 255) /\ Len(bytes) \in Nat
      /\ DOMAIN chip = 0 .. RomSize - 1 /\ sent \in Nat
  <2>1. at \in Nat /\ bytes \in Seq(0 .. 255)
    BY CallB
  <2>2. Len(bytes) \in Nat
    <3> HIDE DEF bytes
    <3> QED
      BY <2>1
  <2> QED
    BY <2>1, <2>2 DEF ChipInv, SystemInv
<1>3. pcB \in B!Writing
  <2>1. CASE bytes = <<>>
    BY <1>1, <1>2, <2>1 DEF PageWrite
  <2> QED
    BY <2>1, QuietB
<1>4. pcA \notin A!Writing
  BY <1>3 DEF ChipInv, Resting, A!Writing, B!Writing
<1>5. Sends(at, bytes) /\ \A a \in DOMAIN chip : a \notin Programmed(callB) => chip[a] = rom[a]
  BY <1>4, SendsB
<1>6. PICK n \in 0 .. Len(bytes) : n = Sent(bytes)' /\ chip' = Taken(at, bytes, n)
  BY <1>1, <1>2, <1>5, PageTaken
<1>7. Sent(bytes) = sent /\ sent <= n
  <2>1. Sent(bytes) = sent /\ sent < Len(bytes) /\ sent' = sent + SentLength(at + sent)
    BY <1>1 DEF PageWrite, Sent
  <2>2. SentLength(at + sent) \in Nat
    <3>1. at + sent \in Nat /\ 0 \in Nat
      BY <1>2
    <3> QED
      BY <3>1, TrimmedBounds
  <2>3. n = IF sent' < Len(bytes) THEN sent' ELSE Len(bytes)
    BY <1>1, <1>6 DEF Sent
  <2> HIDE DEF bytes, at
  <2> QED
    BY <1>2, <2>1, <2>2, <2>3
<1>8. Programmed(callB)' = at .. at + n - 1 /\ Programmed(callB) = at .. at + sent - 1
  BY <1>1, <1>6, <1>7 DEF Programmed
<1>9. Programmed(callA)' = {}
  <2>1. callA.at \in Nat /\ callA.bytes = <<>>
    BY <1>4, CallA, QuietA
  <2>2. Len(callA.bytes) = 0 /\ sent' \in Nat
    BY <1>1, <2>1, PageBIdle
  <2> QED
    BY <1>1, <2>1, <2>2, NothingSent DEF Programmed, Sent
<1>10. DOMAIN chip' = DOMAIN chip /\ \A a \in DOMAIN chip :
         chip'[a] = IF a \in at .. at + n - 1 THEN bytes[a - at + 1] ELSE rom[a]
  <2>1. \A a \in DOMAIN chip : a \notin at .. at + n - 1 => chip[a] = rom[a]
    <3>1. \A a \in DOMAIN chip : a \notin at .. at + n - 1 => a \notin at .. at + sent - 1
      <4>1. n \in Nat
        BY <1>2
      <4> HIDE DEF at, bytes
      <4> QED
        BY <1>2, <1>7, <4>1
    <3> QED
      BY <1>5, <1>8, <3>1
  <2> HIDE DEF at, bytes
  <2> QED
    BY <1>6, <2>1 DEF Taken
<1>11. ChipIsRom'
  BY <1>1, <1>8, <1>9, <1>10 DEF ChipIsRom
<1> QED
  BY <1>1, <1>2, <1>3, <1>10, <1>11 DEF ChipInv, A!Writing, B!Writing

LEMMA WrittenBChip ==
  ASSUME SystemInv, SystemInv', ChipInv, WrittenB
  PROVE  ChipInv'
<1> DEFINE bytes == callB.bytes
<1>1. /\ sent >= Len(bytes) /\ sent' = 0 /\ chip' = chip
      /\ B!WriteDone(Len(bytes)) /\ pcA' = pcA
  BY DEF WrittenB, WriteSent, varsA
<1>2. pcB \in B!Writing /\ B!Landed(Len(bytes))
  BY <1>1 DEF B!WriteDone, B!InsertDataDone, B!InsertDone, B!CleanDone, B!Writing
<1>3. pcA \in Resting /\ pcA \notin A!Writing
  BY <1>2 DEF ChipInv, Resting, A!Writing, B!Writing
<1>4. Len(bytes) \in 0 .. Len(bytes) /\ Len(bytes) \in Nat /\ sent \in Nat
  <2>1. bytes \in Seq(0 .. 255) /\ sent \in Nat
    BY CallB DEF SystemInv
  <2> HIDE DEF bytes
  <2> QED
    BY <2>1
<1>5. Sent(bytes) = Len(bytes) /\ Sent(bytes) <= Len(bytes)
  BY <1>1, <1>4 DEF Sent
<1>6. \A a \in DOMAIN chip : chip'[a] = Taken(callB.at, bytes, Len(bytes))[a]
  <2>1. Sends(callB.at, bytes)
    BY <1>3, SendsB
  <2> QED
    BY <1>1, <1>5, <2>1 DEF Taken, Sends
<1>7. DOMAIN chip' = 0 .. RomSize - 1 /\ ChipIsRom'
  BY <1>1, <1>2, <1>3, <1>4, <1>5, <1>6, LandingB
<1> QED
  BY <1>1, <1>3, <1>7 DEF ChipInv

LEMMA FailsBChip ==
  ASSUME SystemInv, SystemInv', ChipInv,
         NEW k \in 0 .. Len(callB.bytes), FailsB(k)
  PROVE  ChipInv'
<1> DEFINE n == Sent(callB.bytes) + k
<1>1. /\ BrokenOff(callB.at, callB.bytes, k) /\ sent' = 0 /\ B!WriteDone(n) /\ pcA' = pcA
  BY DEF FailsB, BrokenOff, varsA
<1>2. pcB \in B!Writing /\ B!Landed(n)
  BY <1>1 DEF B!WriteDone, B!InsertDataDone, B!InsertDone, B!CleanDone, B!Writing
<1>3. pcA \in Resting /\ pcA \notin A!Writing
  BY <1>2 DEF ChipInv, Resting, A!Writing, B!Writing
<1>4. k \in Nat /\ sent \in Nat /\ DOMAIN chip = 0 .. RomSize - 1
  BY CallB DEF SystemInv, ChipInv
<1>5. chip' = Taken(callB.at, callB.bytes, n) /\ n \in 0 .. Len(callB.bytes)
  BY <1>1, <1>3, <1>4, CallB, SendsB, BrokenTaken, SentBounds
<1>6. Sent(callB.bytes) <= n
  <2>1. Sent(callB.bytes) \in Nat
    BY <1>4, CallB DEF Sent
  <2> QED
    BY <1>4, <2>1
<1>7. DOMAIN chip' = 0 .. RomSize - 1 /\ ChipIsRom'
  <2>1. DOMAIN chip' = DOMAIN chip
    BY <1>5 DEF Taken
  <2> QED
    BY <1>1, <1>2, <1>3, <1>5, <1>6, <2>1, LandingB
<1> QED
  BY <1>1, <1>3, <1>7 DEF ChipInv

LEMMA PowerLossBChip ==
  ASSUME SystemInv, SystemInv', ChipInv,
         NEW k \in 0 .. Len(callB.bytes), PowerLossB(k)
  PROVE  ChipInv'
<1> DEFINE n == Sent(callB.bytes) + k
<1>1. /\ BrokenOff(callB.at, callB.bytes, k) /\ sent' = 0 /\ B!Landed(n)
      /\ pcA \notin A!Writing /\ pcA' = "off"
  BY DEF PowerLossB, BrokenOff, B!PowerLoss, A!SwitchedOff, B!SwitchedOff
<1>2. k \in Nat /\ sent \in Nat /\ DOMAIN chip = 0 .. RomSize - 1
  BY CallB DEF SystemInv, ChipInv
<1>3. chip' = Taken(callB.at, callB.bytes, n) /\ n \in 0 .. Len(callB.bytes)
  BY <1>1, <1>2, CallB, SendsB, BrokenTaken, SentBounds
<1>4. Sent(callB.bytes) <= n
  <2>1. Sent(callB.bytes) \in Nat
    BY <1>2, CallB DEF Sent
  <2> QED
    BY <1>2, <2>1
<1>5. DOMAIN chip' = 0 .. RomSize - 1 /\ ChipIsRom'
  <2>1. DOMAIN chip' = DOMAIN chip
    BY <1>3 DEF Taken
  <2> QED
    BY <1>1, <1>3, <1>4, <2>1, LandingB
<1> QED
  BY <1>1, <1>5 DEF ChipInv, Resting

LEMMA ChipKeeps ==
  ASSUME SystemInv, SystemInv', ChipInv, [Next]_sysVars
  PROVE  ChipInv'
<1>1. CASE CallsA \/ PageA \/ WrittenA
  BY <1>1, CallsAChip, PageAChip, WrittenAChip
<1>2. CASE CallsB \/ PageB \/ WrittenB
  BY <1>2, CallsBChip, PageBChip, WrittenBChip
<1>3. ASSUME NEW k \in 0 .. Len(callA.bytes), FailsA(k) \/ PowerLossA(k)
      PROVE  ChipInv'
  BY <1>3, FailsAChip, PowerLossAChip
<1>4. ASSUME NEW k \in 0 .. Len(callB.bytes), FailsB(k) \/ PowerLossB(k)
      PROVE  ChipInv'
  BY <1>4, FailsBChip, PowerLossBChip
<1>5. CASE UNCHANGED sysVars
  <2>1. UNCHANGED <<chip, sent, rom, callA, pcA, callB, pcB>>
    BY <1>5 DEF sysVars, varsA, varsB
  <2> QED
    BY <2>1 DEF ChipInv, ChipIsRom, Programmed, Sent
<1> QED
  BY <1>1, <1>2, <1>3, <1>4, <1>5 DEF Next

(* The driver puts every byte where EELS wants it, for every page size of  *)
(* the chip and every write: eeprom_write's loop over _PageWrite sends no  *)
(* byte twice and none over the end of a page, where the chip would put it *)
(* to the page's first bytes.  The slots may even overlap.                 *)
THEOREM ChipWritten == Spec => []ChipIsRom
<1>1. Init => SystemInv /\ ChipInv
  <2> SUFFICES ASSUME Init PROVE SystemInv /\ ChipInv
    OBVIOUS
  <2>1. SystemInv
    BY SystemInit
  <2>2. /\ chip = [a \in 0 .. RomSize - 1 |-> Blank] /\ sent = 0 /\ pcA = "off"
        /\ rom = [a \in 0 .. RomSize - 1 |-> Blank]
    BY DEF Init, ChipInit, A!Init, A!Addr
  <2>3. ChipIsRom
    BY <2>1, <2>2, QuietA, QuietB DEF ChipIsRom
  <2> QED
    BY <2>1, <2>2, <2>3 DEF ChipInv, Resting
<1>2. SystemInv /\ ChipInv /\ [Next]_sysVars => SystemInv' /\ ChipInv'
  BY SystemKeeps, ChipKeeps
<1>3. ChipInv => ChipIsRom
  BY DEF ChipInv
<1> QED
  BY <1>1, <1>2, <1>3, PTL DEF Spec

=============================================================================
