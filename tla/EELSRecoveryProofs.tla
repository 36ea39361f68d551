-------------------------- MODULE EELSRecoveryProofs --------------------------
(***************************************************************************)
(* What interrupted a slot does not matter: the stamps alone tell where    *)
(* its log ends, and a start-up puts the cursor there.  For every unpaged  *)
(* slot and the slots with pages whose search works (SearchFinds), every   *)
(* log and every CRC; for writes that fail with a negative code and a      *)
(* power that goes within any write; from an erased EEPROM, with fewer     *)
(* cleans in one lap than there are epochs.                                *)
(***************************************************************************)
EXTENDS EELSHistory, EELSSlotProofs

(* The slots whose cursor a start-up finds: those without pages, and those *)
(* with at most two pages of at most two records, as the search over pages *)
(* never probes a third page, nor the one within a page a third record     *)
(* (EELS.c:949-985).  Any slot will do that is started up only once.       *)
SearchFinds ==
  \/ UnpagedLayout(Slot)
  \/ /\ PagedLayout(Slot)
     /\ Slot.length <= 2 * Slot.page_size /\ Slot.page_records <= 2
  \/ ~ PowerLosses /\ ~ Rescans

(* What the theorems on recovery assume.  An erased byte must read as the  *)
(* epoch before the first one: 0xFF does when EELS_EPOCH_NONE is 0x80.     *)
Recoverable ==
  /\ SearchFinds
  /\ Unnoticed = {} /\ ReadErrors = {}
  /\ HasNone(Blank) /\ next_epoch(Blank) = 0
  /\ MaxCleans <= EpochNone - 2

Epochs == 0 .. EpochNone - 1
Marks  == [index : Records, epoch : Epochs]

-----------------------------------------------------------------------------
(* Epochs.                                                                 *)

LEMMA EpochMod ==
  ASSUME NEW r \in Epochs
  PROVE  r % EpochNone = r /\ (r + EpochNone) % EpochNone = r
<1>1. EpochNone \in Nat \ {0}
  BY EpochAssumption
<1>2. (EpochNone * 0 + r) % EpochNone = r /\ (EpochNone * 1 + r) % EpochNone = r
  BY <1>1, DivMod DEF Epochs
<1>3. EpochNone * 0 + r = r /\ EpochNone * 1 + r = r + EpochNone
  BY <1>1 DEF Epochs
<1> QED
  BY <1>2, <1>3

LEMMA LaterIs ==
  ASSUME NEW x \in Epochs, NEW k \in Epochs
  PROVE  /\ Later(x, k) = IF x + k < EpochNone THEN x + k ELSE x + k - EpochNone
         /\ Later(x, k) \in Epochs
<1>1. EpochNone \in Nat \ {0} /\ x \in Int /\ k \in Int
  BY EpochAssumption DEF Epochs
<1>2. CASE x + k < EpochNone
  <2>1. x + k \in Epochs
    BY <1>1, <1>2 DEF Epochs
  <2> QED
    BY <1>2, <2>1, EpochMod DEF Later
<1>3. CASE ~ (x + k < EpochNone)
  <2>1. x + k - EpochNone \in Epochs /\ (x + k - EpochNone) + EpochNone = x + k
    BY <1>1, <1>3 DEF Epochs
  <2>2. (x + k) % EpochNone = x + k - EpochNone
    BY <2>1, EpochMod
  <2> QED
    BY <1>3, <2>1, <2>2 DEF Later
<1> QED
  BY <1>2, <1>3

LEMMA NextIsLater ==
  ASSUME NEW x
  PROVE  next_epoch(x) = Later(x, 1)
BY DEF next_epoch, Later

LEMMA OneEpoch == 1 \in Epochs /\ 0 \in Epochs /\ EpochNone \in Nat /\ EpochNone >= 4
BY EpochAssumption DEF Epochs

(* Laps add up, and fewer than EpochNone of them are told apart.           *)
LEMMA LaterAdds ==
  ASSUME NEW x \in Epochs, NEW j \in Nat, NEW k \in Nat, j + k < EpochNone
  PROVE  /\ Later(Later(x, j), k) = Later(x, j + k)
         /\ Later(x, 0) = x
         /\ j > 0 => Later(x, j) # x
         /\ k # 1 => Later(x, k) # Later(x, 1)
<1>1. EpochNone \in Nat /\ EpochNone >= 4
  BY OneEpoch
<1>2. j \in Epochs /\ k \in Epochs /\ j + k \in Epochs /\ 0 \in Epochs /\ 1 \in Epochs
  BY <1>1 DEF Epochs
<1>3. Later(x, j) = IF x + j < EpochNone THEN x + j ELSE x + j - EpochNone
  BY <1>2, LaterIs
<1>4. Later(x, k) = IF x + k < EpochNone THEN x + k ELSE x + k - EpochNone
  BY <1>2, LaterIs
<1>5. Later(x, j + k) = IF x + (j + k) < EpochNone THEN x + (j + k)
                        ELSE x + (j + k) - EpochNone
  BY <1>2, LaterIs
<1>6. Later(x, j) \in Epochs
  BY <1>2, LaterIs
<1>7. Later(Later(x, j), k) = IF Later(x, j) + k < EpochNone THEN Later(x, j) + k
                              ELSE Later(x, j) + k - EpochNone
  BY <1>2, <1>6, LaterIs
<1>8. Later(x, 0) = (IF x + 0 < EpochNone THEN x + 0 ELSE x + 0 - EpochNone)
      /\ Later(x, 1) = (IF x + 1 < EpochNone THEN x + 1 ELSE x + 1 - EpochNone)
  BY <1>2, LaterIs
<1>9. x \in Nat /\ x < EpochNone
  BY <1>1 DEF Epochs
<1> QED
  BY <1>1, <1>3, <1>4, <1>5, <1>7, <1>8, <1>9

(* The stamp that a clean leaves: empty, but it still tells its epoch.     *)
LEMMA CleanedStamp ==
  ASSUME NEW last \in Epochs
  PROVE  /\ HasNone(last + EpochNone)
         /\ next_epoch(last + EpochNone) = next_epoch(last)
<1>1. EpochNone \in Nat /\ last \in Nat /\ EpochNone \in Nat \ {0}
  BY OneEpoch DEF Epochs
<1>2. CASE last + 1 < EpochNone
  <2>1. last + 1 \in Epochs /\ (last + 1) + EpochNone = (last + EpochNone) + 1
    BY <1>1, <1>2 DEF Epochs
  <2> QED
    BY <1>1, <2>1, EpochMod DEF HasNone, next_epoch
<1>3. CASE last + 1 = EpochNone
  <2>1. /\ (last + EpochNone) + 1 = EpochNone * 2 + 0
        /\ last + 1 = EpochNone * 1 + 0 /\ 0 \in 0 .. EpochNone - 1
    BY <1>1, <1>3
  <2>2. (EpochNone * 2 + 0) % EpochNone = 0 /\ (EpochNone * 1 + 0) % EpochNone = 0
    BY <1>1, <2>1, DivMod
  <2> QED
    BY <1>1, <2>1, <2>2 DEF HasNone, next_epoch
<1> QED
  BY <1>1, <1>2, <1>3 DEF Epochs

-----------------------------------------------------------------------------
(* What a new stamp does to the ages of the others.                        *)

LEMMA StampType ==
  ASSUME NEW s \in [Records -> Byte], NEW i \in Records, ~ HasNone(s[i])
  PROVE  s[i] \in Epochs
BY EpochTypes DEF Epochs

LEMMA LapsMore ==
  ASSUME NEW x \in Epochs, NEW e, NEW j \in Nat, NEW k \in Nat, j + k < EpochNone,
         Laps(x, j, e)
  PROVE  /\ Laps(x, j + k, Later(e, k)) /\ j + k \in Nat
         /\ j + k # 1 => ~ Laps(x, 1, Later(e, k))
<1>1. e = Later(x, j) /\ ~ HasNone(x)
  BY DEF Laps
<1>2. Later(e, k) = Later(x, j + k)
  BY <1>1, LaterAdds
<1>3. j + k # 1 => Later(x, j + k) # Later(x, 1)
  <2>1. 0 + (j + k) < EpochNone /\ j + k \in Nat /\ 0 \in Nat
    OBVIOUS
  <2> DEFINE n == j + k
  <2> HIDE DEF n
  <2>2. n \in Nat /\ 0 + n < EpochNone
    BY <2>1 DEF n
  <2>3. n # 1 => Later(x, n) # Later(x, 1)
    BY <2>2, LaterAdds
  <2> QED
    BY <2>3 DEF n
<1> QED
  BY <1>1, <1>2, <1>3 DEF Laps

LEMMA AgedLonger ==
  ASSUME NEW s, NEW at, NEW m \in Int, NEW n \in Int, m <= n, StampsAged(s, at, m)
  PROVE  StampsAged(s, at, n)
BY DEF StampsAged

LEMMA LapBeforeAged ==
  ASSUME NEW s, NEW at \in Marks, at.index = 0, LapBefore(s, at), NEW m \in Nat, m > 0
  PROVE  StampsAged(s, at, m) /\ LapBegins(s, at)
BY DEF LapBefore, StampsAged, LapBegins, Records, Marks

(* The next record of the current lap is stamped.                          *)
LEMMA StampNext ==
  ASSUME NEW s \in [Records -> Byte], NEW t \in [Records -> Byte], NEW at \in Marks,
         NEW m \in Nat, StampsAged(s, at, m),
         t[at.index] = at.epoch, \A i \in Records : i # at.index => t[i] = s[i],
         NEW to \in Marks
  PROVE  /\ to.index = at.index + 1 /\ to.epoch = at.epoch => StampsAged(t, to, m)
         /\ at.index + 1 = Counter_max /\ to = [index |-> 0, epoch |-> next_epoch(at.epoch)]
              => LapBefore(t, to)
<1>1. at.index \in Records /\ at.epoch \in Epochs
  BY DEF Marks
<1>2. ASSUME to.index = at.index + 1, to.epoch = at.epoch PROVE StampsAged(t, to, m)
  <2> SUFFICES ASSUME NEW i \in Records
               PROVE  IF i < to.index THEN t[i] = to.epoch
                      ELSE HasNone(t[i]) \/ \E j \in 1 .. m : Laps(t[i], j, to.epoch)
    BY DEF StampsAged
  <2>1. CASE i = at.index
    BY <1>1, <1>2, <2>1 DEF Records
  <2>2. CASE i # at.index
    <3>1. t[i] = s[i] /\ (i < to.index <=> i < at.index)
      BY <1>1, <1>2, <2>2 DEF Records
    <3> QED
      BY <1>2, <3>1 DEF StampsAged
  <2> QED
    BY <2>1, <2>2
<1>3. ASSUME at.index + 1 = Counter_max, to = [index |-> 0, epoch |-> next_epoch(at.epoch)]
      PROVE  LapBefore(t, to)
  <2>1. ASSUME NEW i \in Records PROVE t[i] = at.epoch
    <3>1. i = at.index \/ i < at.index
      BY <1>1, <1>3, SlotTypes DEF Records
    <3>2. i < at.index => s[i] = at.epoch /\ i # at.index
      BY <1>1 DEF StampsAged, Records
    <3> QED
      BY <3>1, <3>2
  <2>2. Laps(at.epoch, 1, next_epoch(at.epoch))
    BY <1>1, OneEpoch, NextIsLater DEF Laps, HasNone, Epochs
  <2> QED
    BY <1>3, <2>1, <2>2 DEF LapBefore
<1> QED
  BY <1>2, <1>3

(* Record 0 is stamped k laps ahead, or its stamp is broken by a clean.    *)
LEMMA StampAhead ==
  ASSUME NEW s \in [Records -> Byte], NEW t \in [Records -> Byte], NEW at \in Marks,
         NEW m \in Nat, NEW k \in Nat, m > 0, m + k < EpochNone, StampsAged(s, at, m),
         \A i \in Records : i # 0 => t[i] = s[i],
         k = 0 => at.index = 0,
         NEW to \in Marks, to.epoch = Later(at.epoch, k),
         \/ to.index = 0 /\ HasNone(t[0])
         \/ to.index = 1 /\ t[0] = to.epoch
  PROVE  /\ StampsAged(t, to, m + k)
         /\ k > 0 => ~ Laps(t[Counter_max - 1], 1, to.epoch)
<1>1. /\ at.index \in Records /\ at.epoch \in Epochs /\ Counter_max \in Nat /\ Counter_max > 0
      /\ EpochNone \in Nat
  BY SlotTypes, OneEpoch DEF Marks
<1>2. ASSUME NEW i \in Records, i # 0
      PROVE  /\ HasNone(t[i]) \/ \E j \in 1 .. m + k : Laps(t[i], j, to.epoch)
             /\ k > 0 /\ i >= at.index => ~ Laps(t[i], 1, to.epoch)
  <2>1. t[i] = s[i]
    BY <1>2
  <2>2. CASE i < at.index
    <3>1. s[i] = at.epoch /\ k > 0 /\ ~ HasNone(at.epoch) /\ ~ (i >= at.index)
      BY <1>1, <1>2, <2>2 DEF StampsAged, HasNone, Epochs, Records
    <3>2. k \in 1 .. m + k
      BY <3>1
    <3> QED
      BY <2>1, <3>1, <3>2 DEF Laps
  <2>3. CASE i >= at.index /\ HasNone(s[i])
    BY <2>1, <2>3 DEF Laps
  <2>4. CASE i >= at.index /\ ~ HasNone(s[i])
    <3>1. PICK j \in 1 .. m : Laps(s[i], j, at.epoch)
      BY <1>1, <2>4 DEF StampsAged, Records
    <3>2. s[i] \in Epochs /\ j \in Nat /\ j + k < EpochNone
      BY <1>1, <2>4, StampType
    <3>3. Laps(s[i], j + k, to.epoch) /\ (j + k # 1 => ~ Laps(s[i], 1, to.epoch))
      BY <3>1, <3>2, LapsMore
    <3>4. j + k \in 1 .. m + k /\ (k > 0 => j + k # 1)
      OBVIOUS
    <3> QED
      BY <2>1, <3>3, <3>4
  <2> QED
    BY <1>1, <2>2, <2>3, <2>4 DEF Records
<1>3. StampsAged(t, to, m + k)
  <2> SUFFICES ASSUME NEW i \in Records
               PROVE  IF i < to.index THEN t[i] = to.epoch
                      ELSE HasNone(t[i]) \/ \E j \in 1 .. m + k : Laps(t[i], j, to.epoch)
    BY DEF StampsAged
  <2>1. CASE i = 0
    BY <2>1
  <2>2. CASE i # 0
    BY <1>2, <2>2 DEF Records
  <2> QED
    BY <2>1, <2>2
<1>4. ASSUME k > 0 PROVE ~ Laps(t[Counter_max - 1], 1, to.epoch)
  <2>1. Counter_max - 1 \in Records /\ Counter_max - 1 >= at.index
    BY <1>1 DEF Records
  <2>2. CASE Counter_max - 1 # 0
    BY <1>2, <1>4, <2>1, <2>2
  <2>3. CASE Counter_max - 1 = 0
    <3>1. HasNone(t[0])
      BY <1>1, <2>3 DEF Marks, Records
    <3> QED
      BY <2>3, <3>1 DEF Laps
  <2> QED
    BY <2>2, <2>3
<1> QED
  BY <1>3, <1>4

-----------------------------------------------------------------------------
(* The history only watches the slot.                                      *)

LEMMA HistoryWatches ==
  ASSUME [HNext]_allVars
  PROVE  [Next]_vars
<1>1. HNext => Next
  BY DEF HNext, BoundedClean, Next
<1>2. UNCHANGED allVars => UNCHANGED vars
  BY DEF allVars, vars
<1> QED
  BY <1>1, <1>2

(* What EELSHistory records restricts the slot in nothing but the number   *)
(* of calls of EELS_CleanLog: every theorem on EELSSlot holds there, too.  *)
THEOREM HistoryKeepsSlot == HSpec => Spec
<1>1. HInit => Init
  BY DEF HInit
<1>2. [HNext]_allVars => [Next]_vars
  BY HistoryWatches
<1> QED
  BY <1>1, <1>2, PTL DEF HSpec, Spec

LEMMA PlaceType ==
  ASSUME NEW this \in Cursor
  PROVE  Place(this) \in Marks /\ Place(this).index = this.write_index
         /\ Place(this).epoch = this.epoch_counter
BY DEF Cursor, Place, Marks, Records, Epochs

LEMMA HTypeIs ==
  HTypeOK <=> /\ log \in Seq(Payloads \cup {Lost}) /\ Len(log) <= Counter_max
              /\ want \in Marks /\ cleans \in 0 .. MaxCleans
BY DEF HTypeOK, Marks, Records, Epochs

(* The cursor while a write is in progress.                                *)
LEMMA WritingCursor ==
  ASSUME SlotInv, pc \in {"idle"} \cup Writing
  PROVE  /\ slot \in Cursor /\ slot.write_index \in Records
         /\ slot.write_position = eels_index_pos(Slot, slot.write_index)
         /\ eels_write_advance(slot) \in Cursor
<1>1. /\ slot \in Cursor /\ slot.write_index \in Records
      /\ slot.write_position = eels_index_pos(Slot, slot.write_index)
  BY DEF SlotInv, TypeOK, CursorAgrees, Cursor, Records
<1> QED
  BY <1>1, AdvanceAgrees

LEMMA SpoilType ==
  ASSUME HTypeOK, slot \in Cursor, Spoil
  PROVE  HTypeOK' /\ Len(log') = Len(log)
<1> DEFINE k == Age(slot.write_index)
<1>1. want' = want /\ cleans' = cleans
  BY DEF Spoil
<1>2. k \in Nat
  <2>1. slot.write_index \in Int /\ want.index \in Int /\ Counter_max \in Nat \ {0}
    BY SlotTypes DEF HTypeOK, Cursor
  <2> QED
    BY <2>1 DEF Age
<1>3. log' = IF k < Len(log) THEN [log EXCEPT ![Len(log) - k] = Lost] ELSE log
  BY DEF Spoil
<1>4. log \in Seq(Payloads \cup {Lost}) /\ Len(log) \in Nat
  BY DEF HTypeOK
<1> HIDE DEF k
<1>5. log' \in Seq(Payloads \cup {Lost}) /\ Len(log') = Len(log)
  <2>1. CASE k < Len(log)
    <3>1. Len(log) - k \in 1 .. Len(log)
      BY <1>2, <1>4, <2>1
    <3>2. Lost \in Payloads \cup {Lost}
      OBVIOUS
    <3> QED
      BY <1>3, <1>4, <2>1, <3>1, <3>2, ExceptSeq
  <2>2. CASE ~ (k < Len(log))
    BY <1>3, <1>4, <2>2
  <2> QED
    BY <2>1, <2>2
<1> QED
  BY <1>1, <1>5 DEF HTypeOK, Counter_max

(* A commit, by where the cursor is.                                       *)
LEMMA CommitType ==
  ASSUME HTypeOK, SlotInv, pc \in Writing, NEW d \in Payloads \cup {Lost}, Commit(d)
  PROVE  /\ HTypeOK'
         /\ Aligned => Len(log') = IF Len(log) = Counter_max THEN Len(log) ELSE Len(log) + 1
         /\ ~ Aligned /\ Stamped => Len(log') = Len(log)
         /\ ~ Aligned /\ ~ Stamped => Len(log') = 1
<1> DEFINE L == Payloads \cup {Lost}
<1>1. log \in Seq(L) /\ Len(log) \in Nat /\ Len(log) <= Counter_max
      /\ Counter_max \in Nat /\ Counter_max > 0
  BY SlotTypes DEF HTypeOK
<1>2. /\ want' \in [index : 0 .. Counter_max - 1, epoch : 0 .. EpochNone - 1]
      /\ cleans' \in 0 .. MaxCleans
  <2>1. Place(eels_write_advance(slot)) \in Marks
    BY WritingCursor, PlaceType
  <2>2. 0 \in 0 .. MaxCleans /\ cleans \in 0 .. MaxCleans
    BY HistoryAssumption DEF HTypeOK
  <2> QED
    BY <2>1, <2>2 DEF Commit, Marks, Records, Epochs
<1>3. CASE Aligned
  <2> DEFINE base == IF Len(log) = Counter_max THEN Tail(log) ELSE log
  <2>1. log' = Append(base, d)
    BY <1>3 DEF Commit
  <2>2. base \in Seq(L)
        /\ Len(base) = IF Len(log) = Counter_max THEN Len(log) - 1 ELSE Len(log)
    <3>1. CASE Len(log) = Counter_max
      <4>1. log # <<>>
        BY <1>1, <3>1, EmptySeq
      <4> QED
        BY <1>1, <3>1, <4>1, HeadTailProperties
    <3> QED
      BY <1>1, <3>1
  <2> HIDE DEF base, L
  <2>3. d \in L
    BY DEF L
  <2>4. log' \in Seq(L) /\ Len(log') = Len(base) + 1
    BY <2>1, <2>2, <2>3, AppendProperties
  <2>5. Len(log') = IF Len(log) = Counter_max THEN Len(log) ELSE Len(log) + 1
    BY <1>1, <2>2, <2>4
  <2>6. Len(log') <= Counter_max
    BY <1>1, <2>5
  <2> QED
    BY <1>2, <1>3, <2>4, <2>5, <2>6 DEF HTypeOK, Counter_max, L
<1>4. CASE ~ Aligned /\ Stamped
  <2>1. log' = [log EXCEPT ![Len(log)] = d]
    BY <1>4 DEF Commit
  <2>2. log' \in Seq(L) /\ Len(log') = Len(log)
    <3>1. CASE Len(log) = 0
      <4>1. log = <<>>
        BY <1>1, <3>1, EmptySeq
      <4>2. log' = log
        BY <2>1, <4>1
      <4> QED
        BY <1>1, <4>2
    <3>2. CASE Len(log) # 0
      <4>1. Len(log) \in 1 .. Len(log)
        BY <1>1, <3>2
      <4> QED
        BY <1>1, <2>1, <4>1, ExceptSeq
    <3> QED
      BY <3>1, <3>2
  <2> QED
    BY <1>1, <1>2, <1>4, <2>2 DEF HTypeOK, Counter_max
<1>5. CASE ~ Aligned /\ ~ Stamped
  <2>1. log' = <<d>>
    BY <1>5 DEF Commit
  <2>2. log' \in Seq(L) /\ Len(log') = 1
    BY <2>1
  <2> QED
    BY <1>1, <1>2, <1>5, <2>2 DEF HTypeOK, Counter_max
<1> QED
  BY <1>3, <1>4, <1>5

LEMMA EmptiedType ==
  ASSUME HTypeOK, slot \in Cursor, Emptied
  PROVE  HTypeOK' /\ Len(log') = 0
<1>1. log' = <<>> /\ want' = Place(slot) /\ cleans' = cleans
  BY DEF Emptied
<1>2. want' \in [index : 0 .. Counter_max - 1, epoch : 0 .. EpochNone - 1]
  BY <1>1, PlaceType DEF Marks, Records, Epochs
<1>3. log' \in Seq(Payloads \cup {Lost}) /\ Len(log') = 0
  BY <1>1
<1>4. Counter_max \in Nat
  BY SlotTypes
<1> QED
  BY <1>1, <1>2, <1>3, <1>4 DEF HTypeOK, Counter_max

LEMMA QuietType ==
  ASSUME HTypeOK, UNCHANGED history
  PROVE  HTypeOK' /\ Len(log') = Len(log)
BY DEF HTypeOK, history, Counter_max

(* The log and the place of the next one keep their types.                 *)
LEMMA HTypeKept ==
  ASSUME HTypeOK, SlotInv, WriteExact, [HNext]_allVars
  PROVE  HTypeOK'
<1>1. CASE UNCHANGED history
  BY <1>1, QuietType
<1>2. CASE BoundedClean
  <2>1. /\ log' = log /\ want' = want /\ cleans' = cleans + 1 /\ cleans < MaxCleans
        /\ MaxCleans \in Nat
    BY <1>2, HistoryAssumption DEF BoundedClean
  <2> QED
    BY <2>1 DEF HTypeOK, Counter_max
<1>3. ASSUME NEW k \in 0 .. Len(call.bytes), Programmed(k) PROVE HTypeOK'
  <2>1. CASE k = 0 \/ pc \notin Writing
    BY <1>1, <1>3, <2>1 DEF Programmed
  <2>2. CASE k # 0 /\ pc \in Writing
    <3>1. slot \in Cursor
      BY DEF SlotInv, TypeOK
    <3>2. CASE pc = "insert_data"
      BY <1>3, <2>2, <3>1, <3>2, SpoilType DEF Programmed
    <3>3. CASE pc \in {"insert_head", "insert_rec"}
      <4> DEFINE d == IF k = Len(call.bytes) THEN call.data ELSE Lost
      <4>1. Commit(d)
        BY <1>3, <2>2, <3>3 DEF Programmed
      <4>2. d \in Payloads \cup {Lost}
        BY <2>2, <3>3 DEF WriteExact
      <4> QED
        BY <2>2, <4>1, <4>2, CommitType
    <3>4. CASE pc = "clean_head"
      BY <1>3, <2>2, <3>1, <3>4, EmptiedType DEF Programmed
    <3> QED
      BY <2>2, <3>2, <3>3, <3>4 DEF Writing
  <2> QED
    BY <2>1, <2>2
<1> QED
  BY <1>1, <1>2, <1>3 DEF HNext, allVars, history

(* The log never holds more logs than the ring has records, and the next   *)
(* one belongs to a record of the ring, whatever fails or is interrupted.  *)
LEMMA HistoryTypes == HSpec => []HTypeOK
<1>1. HInit => HTypeOK
  BY SlotTypes, EpochTypes, HistoryAssumption DEF HInit, HTypeOK
<1>2. HTypeOK /\ SlotInv /\ WriteExact /\ [HNext]_allVars => HTypeOK'
  BY HTypeKept
<1> QED
  BY <1>1, <1>2, HistoryKeepsSlot, SlotInvariant, WritesExact, PTL DEF HSpec

-----------------------------------------------------------------------------
(* The stamps, and what a write does to them.                              *)

LEMMA StampIs ==
  ASSUME NEW i \in Records
  PROVE  /\ Stamps[i] = rom[eels_index_pos(Slot, i)]
         /\ Stamps'[i] = rom'[eels_index_pos(Slot, i)]
         /\ eels_index_pos(Slot, i) \in Addr
BY RecordBounds DEF Stamps, Records, Counter_max

LEMMA StampsType ==
  /\ rom \in [Addr -> Byte] => Stamps \in [Records -> Byte]
  /\ rom' \in [Addr -> Byte] => Stamps' \in [Records -> Byte]
  /\ rom' = rom => Stamps' = Stamps
<1>1. \A i \in Records : eels_index_pos(Slot, i) \in Addr
  BY StampIs
<1> QED
  BY <1>1 DEF Stamps, Records, Counter_max

(* The first byte of the write under the cursor is a stamp.                *)
LEMMA FirstByte ==
  ASSUME SlotInv, NEW k \in 1 .. Len(call.bytes), Landed(k),
         NEW w \in Records, call.at = eels_index_pos(Slot, w)
  PROVE  Stamps'[w] = call.bytes[1]
<1> DEFINE bytes == SubSeq(call.bytes, 1, k)
<1>1. call.at \in Nat /\ call.bytes \in Seq(Byte) /\ Len(call.bytes) \in Nat
  BY DEF SlotInv, TypeOK, Calls
<1>2. bytes \in Seq(Byte) /\ Len(bytes) = k /\ bytes[1] = call.bytes[1]
  BY <1>1
<1>3. rom' = Program(call.at, bytes)
  BY DEF Landed
<1>4. 1 \in 1 .. Len(bytes) /\ call.at + 1 - 1 = call.at /\ call.at \in Addr
  BY <1>1, <1>2, StampIs
<1> HIDE DEF bytes
<1>5. rom'[call.at + 1 - 1] = bytes[1]
  BY <1>1, <1>2, <1>3, <1>4, ProgrammedByte
<1> QED
  BY <1>2, <1>4, <1>5, StampIs

LEMMA StampLands ==
  ASSUME SlotInv, WriteExact, pc \in Writing,
         NEW k \in 0 .. Len(call.bytes), Landed(k),
         NEW w, w = slot.write_index
  PROVE  /\ w \in Records
         /\ Stamps \in [Records -> Byte] /\ Stamps' \in [Records -> Byte]
         /\ \A i \in Records : i # w => Stamps'[i] = Stamps[i]
         /\ k = 0 \/ pc = "insert_data" => Stamps' = Stamps
         /\ k > 0 /\ pc \in {"insert_head", "insert_rec"}
              => Stamps'[w] = slot.epoch_counter
         /\ k > 0 /\ pc = "clean_head"
              => w = 0 /\ HasNone(Stamps'[0]) /\ next_epoch(Stamps'[0]) = slot.epoch_counter
<1> DEFINE x == eels_index_pos(Slot, w)
<1>1. /\ TypeOK /\ call.at \in Nat /\ call.bytes \in Seq(Byte) /\ Len(call.bytes) \in Nat
      /\ rom \in [Addr -> Byte]
  BY DEF SlotInv, TypeOK, Calls
<1>2. w \in Records /\ slot.write_position = x /\ slot.epoch_counter \in Epochs
  BY WritingCursor DEF Cursor, Epochs
<1>3. rom' \in [Addr -> Byte]
  BY <1>1, LandedBytes
<1>4. Stamps \in [Records -> Byte] /\ Stamps' \in [Records -> Byte]
  BY <1>1, <1>3, StampsType
<1>5. ASSUME NEW i \in Records, i # w PROVE Stamps'[i] = Stamps[i]
  <2>1. 0 \in 0 .. Slot.slot_log_length - 1
    BY SlotTypes
  <2>2. rom'[eels_index_pos(Slot, i) + 0] = rom[eels_index_pos(Slot, i) + 0]
    BY <1>5, <2>1, OtherRecordKept DEF Records
  <2>3. eels_index_pos(Slot, i) + 0 = eels_index_pos(Slot, i)
    BY RecordBounds DEF Records
  <2> QED
    BY <2>2, <2>3, StampIs
<1>6. ASSUME k = 0 \/ pc = "insert_data" PROVE Stamps' = Stamps
  <2>1. x \notin call.at .. call.at + k - 1
    <3>1. CASE k = 0
      BY <1>1, <3>1
    <3>2. CASE pc = "insert_data"
      <4>1. call.at = x + 2
        BY <1>2, <3>2 DEF WriteExact, EELS_RECSIZE_HEAD
      <4>2. x \in Nat
        BY <1>2, RecordBounds DEF Records
      <4> HIDE DEF x
      <4> QED
        BY <4>1, <4>2
    <3> QED
      BY <1>6, <3>1, <3>2
  <2>2. Len(SubSeq(call.bytes, 1, k)) = k
    BY <1>1
  <2>3. rom'[x] = rom[x]
    <3>1. x \in Addr
      BY <1>2, StampIs
    <3> HIDE DEF x
    <3> QED
      BY <2>1, <2>2, <3>1 DEF Landed, Program
  <2>4. Stamps'[w] = Stamps[w]
    BY <1>2, <2>3, StampIs
  <2> QED
    BY <1>4, <1>5, <2>4
<1>7. ASSUME k > 0, pc \in {"insert_head", "insert_rec"} PROVE Stamps'[w] = slot.epoch_counter
  <2>1. /\ call.at = x /\ call.data \in Payloads
        /\ call.bytes = IF pc = "insert_head" THEN Header(call.data)
                        ELSE Header(call.data) \o call.data
    BY <1>2, <1>7 DEF WriteExact, Writing
  <2>2. /\ Header(call.data) \in Seq(Byte) /\ Len(Header(call.data)) = 2
        /\ Header(call.data)[1] = slot.epoch_counter /\ call.data \in Seq(Byte)
    BY <1>1, <2>1, HeaderType, Payload DEF Header
  <2>3. (Header(call.data) \o call.data)[1] = slot.epoch_counter
    <3>1. 1 \in 1 .. Len(Header(call.data)) + Len(call.data) /\ 1 <= Len(Header(call.data))
      BY <2>2
    <3> QED
      BY <2>2, <3>1, ConcatProperties
  <2>4. call.bytes[1] = slot.epoch_counter
    BY <2>1, <2>2, <2>3
  <2>5. k \in 1 .. Len(call.bytes)
    BY <1>7
  <2> QED
    BY <1>2, <2>1, <2>4, <2>5, FirstByte
<1>8. ASSUME k > 0, pc = "clean_head"
      PROVE  w = 0 /\ HasNone(Stamps'[0]) /\ next_epoch(Stamps'[0]) = slot.epoch_counter
  <2>1. PICK last \in Epochs : /\ call.bytes = CleanHead(last)
                               /\ slot.epoch_counter = next_epoch(last)
    BY <1>8 DEF WriteExact, Epochs
  <2>2. EELS_Len = 0 /\ call.at = Pos0
    BY <1>8 DEF WriteExact
  <2>3. w = 0
    BY <2>2, SlotTypes DEF EELS_Len
  <2>4. k \in 1 .. Len(call.bytes) /\ call.at = x
    BY <1>8, <2>2, <2>3 DEF Pos0
  <2>5. Stamps'[0] = last + EpochNone
    BY <1>2, <2>1, <2>3, <2>4, FirstByte DEF CleanHead
  <2> QED
    BY <2>1, <2>3, <2>5, CleanedStamp
<1> QED
  BY <1>2, <1>4, <1>5, <1>6, <1>7, <1>8

-----------------------------------------------------------------------------
(* What the stamps tell of the length of the log, and the place after one. *)

LengthFits(s, at, len) ==
  \/ len = Counter_max /\ LapBefore(s, at)
  \/ len = at.index /\ ~ Laps(s[Counter_max - 1], 1, at.epoch)

Onward(at) ==
  IF at.index + 1 < Counter_max
  THEN [index |-> at.index + 1, epoch |-> at.epoch]
  ELSE [index |-> 0, epoch |-> next_epoch(at.epoch)]

LEMMA OnwardType ==
  ASSUME NEW at \in Marks
  PROVE  /\ Onward(at) \in Marks
         /\ \/ at.index + 1 < Counter_max /\ Onward(at).index = at.index + 1
               /\ Onward(at).epoch = at.epoch
            \/ at.index + 1 = Counter_max /\ Onward(at).index = 0
               /\ Onward(at).epoch = Later(at.epoch, 1)
               /\ Onward(at) = [index |-> 0, epoch |-> next_epoch(at.epoch)]
         /\ Onward(at) # at
<1>1. at.index \in 0 .. Counter_max - 1 /\ at.epoch \in Epochs /\ Counter_max \in Nat
  BY SlotTypes DEF Marks, Records
<1>2. /\ next_epoch(at.epoch) = Later(at.epoch, 1) /\ Later(at.epoch, 1) \in Epochs
      /\ Later(at.epoch, 1) # at.epoch
  <2>1. 0 \in Nat /\ 1 \in Nat /\ 1 + 0 < EpochNone
    BY OneEpoch
  <2> QED
    BY <1>1, <2>1, OneEpoch, NextIsLater, LaterIs, LaterAdds
<1>3. CASE at.index + 1 < Counter_max
  <2>1. Onward(at) = [index |-> at.index + 1, epoch |-> at.epoch]
    BY <1>3 DEF Onward
  <2> QED
    BY <1>1, <1>3, <2>1 DEF Marks, Records
<1>4. CASE at.index + 1 = Counter_max
  <2>1. Onward(at) = [index |-> 0, epoch |-> next_epoch(at.epoch)]
    BY <1>1, <1>4 DEF Onward
  <2>2. 0 \in Records
    BY <1>1, <1>4 DEF Records
  <2> QED
    BY <1>1, <1>2, <1>4, <2>1, <2>2 DEF Marks
<1> QED
  BY <1>1, <1>3, <1>4

LEMMA AdvanceOnward ==
  ASSUME SlotInv, pc \in {"idle"} \cup Writing
  PROVE  /\ Place(slot) \in Marks
         /\ Place(eels_write_advance(slot)) = Onward(Place(slot))
<1>1. slot \in Cursor /\ slot.write_position = eels_index_pos(Slot, slot.write_index)
  BY WritingCursor
<1> DEFINE here == Place(slot)
           next == eels_write_advance(slot)
<1>2. here \in Marks /\ here.index = slot.write_index /\ here.epoch = slot.epoch_counter
  BY <1>1, PlaceType
<1>3. \/ /\ slot.write_index + 1 < Counter_max
         /\ next.write_index = slot.write_index + 1 /\ next.epoch_counter = slot.epoch_counter
      \/ /\ ~ (slot.write_index + 1 < Counter_max)
         /\ next.write_index = 0 /\ next.epoch_counter = next_epoch(slot.epoch_counter)
  <2>1. slot.write_index + 1 = Counter_max => ~ (slot.write_index + 1 < Counter_max)
    BY SlotTypes
  <2> QED
    BY <1>1, <2>1, AdvanceIs
<1> HIDE DEF here, next
<1>4. Place(next) = Onward(here)
  BY <1>2, <1>3 DEF Place, Onward
<1> QED
  BY <1>2, <1>4 DEF here, next

(* A commit where the EEPROM expects it.                                   *)
LEMMA CommitHere ==
  ASSUME NEW s \in [Records -> Byte], NEW t \in [Records -> Byte], NEW at \in Marks,
         NEW m \in Nat, m > 0, StampsAged(s, at, m),
         t[at.index] = at.epoch, \A i \in Records : i # at.index => t[i] = s[i],
         NEW to, to = Onward(at)
  PROVE  /\ StampsAged(t, to, IF to.index = 0 THEN 1 ELSE m)
         /\ LapBegins(t, to)
         /\ \A len \in Nat :
              LengthFits(s, at, len) =>
                LengthFits(t, to, IF len = Counter_max THEN len ELSE len + 1)
         /\ \A i \in 0 .. at.index : t[i] = at.epoch
<1>1. to \in Marks /\ at.index \in 0 .. Counter_max - 1 /\ Counter_max \in Nat
  BY OnwardType, SlotTypes DEF Marks, Records
<1>2. \A i \in 0 .. at.index : t[i] = at.epoch
  <2> SUFFICES ASSUME NEW i \in 0 .. at.index PROVE t[i] = at.epoch
    OBVIOUS
  <2>1. i \in Records /\ (i = at.index \/ (i < at.index /\ i # at.index))
    BY <1>1 DEF Records
  <2> QED
    BY <2>1 DEF StampsAged
<1>3. CASE at.index + 1 < Counter_max
  <2>1. to.index = at.index + 1 /\ to.epoch = at.epoch /\ to.index # 0
    BY <1>1, <1>3, OnwardType
  <2>2. StampsAged(t, to, m)
    BY <1>1, <2>1, StampNext
  <2>3. LapBegins(t, to)
    BY <2>1 DEF LapBegins
  <2>4. LapBefore(s, at) => LapBefore(t, to)
    <3> SUFFICES ASSUME LapBefore(s, at), NEW i \in Records, i >= to.index
                 PROVE  Laps(t[i], 1, to.epoch)
      BY DEF LapBefore
    <3>1. i # at.index /\ i >= at.index
      BY <1>1, <2>1 DEF Records
    <3> QED
      BY <2>1, <3>1 DEF LapBefore
  <2>5. Counter_max - 1 \in Records /\ Counter_max - 1 # at.index
    BY <1>1, <1>3 DEF Records
  <2>6. ASSUME NEW len \in Nat, LengthFits(s, at, len)
        PROVE  LengthFits(t, to, IF len = Counter_max THEN len ELSE len + 1)
    <3>1. CASE len = Counter_max /\ LapBefore(s, at)
      BY <2>4, <3>1 DEF LengthFits
    <3>2. CASE len = at.index /\ ~ Laps(s[Counter_max - 1], 1, at.epoch)
      <4>1. len # Counter_max /\ len + 1 = to.index
        BY <1>1, <2>1, <3>2
      <4> QED
        BY <2>1, <2>5, <3>2, <4>1 DEF LengthFits
    <3> QED
      BY <2>6, <3>1, <3>2 DEF LengthFits
  <2> QED
    BY <1>2, <2>1, <2>2, <2>3, <2>6
<1>4. CASE at.index + 1 = Counter_max
  <2>1. /\ to = [index |-> 0, epoch |-> next_epoch(at.epoch)] /\ to.index = 0
    BY <1>1, <1>4, OnwardType
  <2>2. LapBefore(t, to)
    BY <1>1, <1>4, <2>1, StampNext
  <2>3. StampsAged(t, to, 1) /\ LapBegins(t, to)
    BY <1>1, <2>1, <2>2, LapBeforeAged
  <2>4. ASSUME NEW len \in Nat, LengthFits(s, at, len)
        PROVE  (IF len = Counter_max THEN len ELSE len + 1) = Counter_max
    BY <1>1, <1>4, <2>4 DEF LengthFits
  <2> QED
    BY <1>2, <2>1, <2>2, <2>3, <2>4 DEF LengthFits
<1> QED
  BY <1>1, <1>3, <1>4

(* A commit of a record that has got its stamp already.                    *)
LEMMA CommitAgain ==
  ASSUME NEW s \in [Records -> Byte], NEW t \in [Records -> Byte], NEW here \in Marks,
         \A i \in 0 .. here.index : s[i] = here.epoch,
         t[here.index] = here.epoch, \A i \in Records : i # here.index => t[i] = s[i],
         NEW at, at = Onward(here), NEW m \in Nat, StampsAged(s, at, m)
  PROVE  /\ t = s
         /\ StampsAged(t, at, IF at.index = 0 THEN 1 ELSE m)
         /\ LapBegins(t, at)
<1>1. at \in Marks /\ here.index \in Records /\ here.epoch \in Epochs /\ Counter_max \in Nat
  BY OnwardType, SlotTypes DEF Marks
<1>2. t = s
  <2>1. here.index \in 0 .. here.index
    BY <1>1 DEF Records
  <2>2. \A i \in Records : t[i] = s[i]
    BY <2>1
  <2> QED
    BY <2>2
<1>3. CASE here.index + 1 < Counter_max
  <2>1. at.index # 0
    BY <1>1, <1>3, OnwardType DEF Records
  <2> QED
    BY <1>2, <2>1 DEF LapBegins
<1>4. CASE here.index + 1 = Counter_max
  <2>1. at.index = 0 /\ at.epoch = Later(here.epoch, 1)
    BY <1>1, <1>4, OnwardType
  <2>2. LapBefore(s, at)
    <3> SUFFICES ASSUME NEW i \in Records PROVE Laps(s[i], 1, at.epoch)
      BY DEF LapBefore
    <3>1. s[i] = here.epoch
      BY <1>1, <1>4 DEF Records
    <3> QED
      BY <1>1, <2>1, <3>1, OneEpoch DEF Laps, HasNone, Epochs
  <2> QED
    BY <1>1, <1>2, <2>1, <2>2, LapBeforeAged
<1> QED
  BY <1>1, <1>3, <1>4 DEF Records

(* A commit of a cursor that cleans have moved k laps ahead.               *)
LEMMA CommitAhead ==
  ASSUME NEW s \in [Records -> Byte], NEW t \in [Records -> Byte], NEW at \in Marks,
         NEW m \in Nat, NEW k \in Nat, k > 0, m > 0, m + k < EpochNone,
         StampsAged(s, at, m),
         NEW here \in Marks, here.index = 0, here.epoch = Later(at.epoch, k),
         t[0] = here.epoch, \A i \in Records : i # 0 => t[i] = s[i],
         NEW to, to = Onward(here)
  PROVE  /\ StampsAged(t, to, IF to.index = 0 THEN 1 ELSE m + k)
         /\ LapBegins(t, to) /\ LengthFits(t, to, 1)
         /\ here # at /\ to # at
<1>1. /\ to \in Marks /\ at.epoch \in Epochs /\ here.epoch \in Epochs
      /\ Counter_max \in Nat /\ Counter_max > 0
  BY OnwardType, SlotTypes DEF Marks
<1>2. here.epoch # at.epoch /\ Later(here.epoch, 1) # at.epoch
  <2>1. k + 1 < EpochNone /\ k + 0 < EpochNone /\ k + 1 \in Nat /\ 0 \in Nat /\ 1 \in Nat
        /\ k + 1 > 0 /\ (k + 1) + 0 < EpochNone
    BY OneEpoch
  <2>2. Later(here.epoch, 1) = Later(at.epoch, k + 1) /\ Later(at.epoch, k) # at.epoch
    BY <1>1, <2>1, LaterAdds
  <2>3. Later(at.epoch, k + 1) # at.epoch
    BY <1>1, <2>1, LaterAdds
  <2> QED
    BY <2>2, <2>3
<1>3. CASE 1 < Counter_max
  <2>1. to.index = 1 /\ to.epoch = here.epoch
    BY <1>3, OnwardType
  <2>2. /\ StampsAged(t, to, m + k)
        /\ ~ Laps(t[Counter_max - 1], 1, to.epoch)
    BY <1>1, <2>1, StampAhead
  <2> QED
    BY <1>2, <2>1, <2>2 DEF LapBegins, LengthFits
<1>4. CASE Counter_max = 1
  <2>1. to.index = 0 /\ to.epoch = Later(here.epoch, 1)
    BY <1>4, OnwardType
  <2>2. LapBefore(t, to)
    <3> SUFFICES ASSUME NEW i \in Records PROVE Laps(t[i], 1, to.epoch)
      BY DEF LapBefore
    <3>1. i = 0
      BY <1>4 DEF Records
    <3> QED
      BY <1>1, <2>1, <3>1, OneEpoch DEF Laps, HasNone, Epochs
  <2>3. StampsAged(t, to, 1) /\ LapBegins(t, to)
    BY <1>1, <2>1, <2>2, LapBeforeAged
  <2> QED
    BY <1>2, <1>4, <2>1, <2>2, <2>3 DEF LengthFits
<1> QED
  BY <1>1, <1>3, <1>4

-----------------------------------------------------------------------------
(* HistoryInv before a step and after it.                                  *)

LEMMA Known0 ==
  ASSUME Recoverable, SlotInv, HistoryInv
  PROVE  /\ want \in Marks /\ want.index \in Records /\ want.epoch \in Epochs
         /\ Stamps \in [Records -> Byte]
         /\ Len(log) \in Nat /\ cleans \in Nat /\ cleans <= MaxCleans
         /\ MaxCleans \in Nat /\ MaxCleans + 1 < EpochNone
         /\ Counter_max \in Nat /\ Counter_max > 0
<1>1. want \in Marks /\ log \in Seq(Payloads \cup {Lost}) /\ cleans \in 0 .. MaxCleans
  BY HTypeIs DEF HistoryInv
<1>2. rom \in [Addr -> Byte]
  BY DEF SlotInv, TypeOK
<1>3. MaxCleans \in Nat /\ MaxCleans + 1 < EpochNone
  BY HistoryAssumption, OneEpoch DEF Recoverable
<1> QED
  BY <1>1, <1>2, <1>3, StampsType, SlotTypes DEF Marks

LEMMA LengthKnownIs ==
  LengthKnown <=> \/ MayLag /\ MaxCleans > 0
                  \/ LengthFits(Stamps, want, Len(log))
BY DEF LengthKnown, LengthFits

LEMMA LengthKnownLater ==
  LengthKnown' <=> \/ MayLag /\ MaxCleans > 0
                   \/ LengthFits(Stamps', want', Len(log'))
BY DEF LengthKnown, LengthFits, MayLag, LapBefore, Records, Counter_max, Laps, HasNone, Later

(* A step after which the cursor is where the EEPROM says, or behind it.   *)
LEMMA Settled ==
  ASSUME cleans' \in Nat, StampsAged(Stamps', want', cleans' + 1),
         pc' \in {"idle"} \cup Writing =>
           \/ Aligned' /\ (pc' = "clean_head" => MayLag /\ cleans' > 0)
           \/ Behind' /\ pc' # "clean_head" /\ MayLag
  PROVE  CursorKnown'
<1>1. 0 \in 0 .. cleans' /\ cleans' + 1 - 0 = cleans' + 1
  OBVIOUS
<1>2. StampsAged(Stamps', want', cleans' + 1 - 0)
  BY <1>1
<1> QED
  BY <1>1, <1>2
  DEF CursorKnown, StampsAged, MayLag, Records, Counter_max, HasNone, Laps, Later, Writing

(* A commit, wherever the cursor is.                                       *)
LEMMA Committed ==
  ASSUME Recoverable, SlotInv, WriteExact, HistoryInv,
         pc \in {"insert_head", "insert_rec"},
         NEW n \in 1 .. Len(call.bytes), Landed(n),
         NEW d \in Payloads \cup {Lost}, Commit(d),
         NEW t, t = Stamps', NEW to, to = want'
  PROVE  /\ cleans' \in Nat /\ StampsAged(t, to, cleans' + 1)
         /\ LapBegins(t, to) /\ LengthKnown'
         /\ to = Place(eels_write_advance(slot))
         /\ \A i \in 0 .. slot.write_index : t[i] = slot.epoch_counter
<1> DEFINE s == Stamps
           at == want
           here == Place(slot)
<1>1. /\ at \in Marks /\ s \in [Records -> Byte] /\ cleans \in Nat
      /\ cleans + 1 < EpochNone /\ Len(log) \in Nat /\ Counter_max \in Nat
  BY Known0, OneEpoch
<1>2. /\ here \in Marks /\ here.index = slot.write_index /\ here.epoch = slot.epoch_counter
      /\ to = Onward(here) /\ to = Place(eels_write_advance(slot))
  BY WritingCursor, AdvanceOnward, PlaceType DEF Commit, Writing
<1>3. /\ t \in [Records -> Byte] /\ t[here.index] = here.epoch
      /\ \A i \in Records : i # here.index => t[i] = s[i]
  <2>1. n \in 0 .. Len(call.bytes) /\ n > 0 /\ pc \in Writing
    BY DEF Writing
  <2> QED
    BY <1>2, <2>1, StampLands
<1>4. cleans' = (IF to.index = 0 THEN 0 ELSE cleans) /\ cleans' \in Nat
  BY <1>1 DEF Commit
<1>5. /\ Aligned => Len(log') = IF Len(log) = Counter_max THEN Len(log) ELSE Len(log) + 1
      /\ ~ Aligned /\ Stamped => Len(log') = Len(log)
      /\ ~ Aligned /\ ~ Stamped => Len(log') = 1
  BY CommitType DEF HistoryInv, Writing
<1>6. /\ Aligned <=> at = here
      /\ Stamped <=> at = to
  BY <1>2 DEF Aligned, Stamped
<1>7. LengthKnown' <=> (MayLag /\ MaxCleans > 0) \/ LengthFits(t, to, Len(log'))
  BY LengthKnownLater
<1>8. LengthKnown <=> (MayLag /\ MaxCleans > 0) \/ LengthFits(s, at, Len(log))
  BY LengthKnownIs
<1>9. LengthKnown
  BY DEF HistoryInv
<1>10. PICK k \in 0 .. cleans :
        /\ StampsAged(s, at, cleans + 1 - k)
        /\ \/ k > 0 /\ here.index = 0 /\ here.epoch = Later(at.epoch, k)
           \/ k = 0 /\ at = here
           \/ k = 0 /\ at = to /\ \A i \in 0 .. here.index : s[i] = here.epoch
  BY <1>2, <1>6 DEF HistoryInv, CursorKnown, Behind, AheadBy, Writing
<1> DEFINE m == cleans + 1 - k
<1>11. m \in Nat /\ m > 0 /\ m + k = cleans + 1 /\ m + k < EpochNone /\ k \in Nat
  BY <1>1
<1> HIDE DEF s, at, here, m
<1>12. CASE k = 0 /\ at = here
  <2>1. m = cleans + 1 /\ StampsAged(s, at, m)
    BY <1>10, <1>11, <1>12 DEF m
  <2>2. /\ StampsAged(t, to, IF to.index = 0 THEN 1 ELSE m)
        /\ LapBegins(t, to)
        /\ LengthFits(s, at, Len(log)) =>
             LengthFits(t, to, IF Len(log) = Counter_max THEN Len(log) ELSE Len(log) + 1)
        /\ \A i \in 0 .. at.index : t[i] = at.epoch
    <3>1. at \in Marks /\ s \in [Records -> Byte] /\ t \in [Records -> Byte]
      BY <1>1, <1>3
    <3>2. t[at.index] = at.epoch /\ (\A i \in Records : i # at.index => t[i] = s[i])
      BY <1>3, <1>12
    <3>3. to = Onward(at) /\ m \in Nat /\ m > 0
      BY <1>2, <1>11, <1>12
    <3>4. StampsAged(t, to, IF to.index = 0 THEN 1 ELSE m)
      BY <2>1, <3>1, <3>2, <3>3, CommitHere
    <3>5. LapBegins(t, to)
      BY <2>1, <3>1, <3>2, <3>3, CommitHere
    <3>6. \A i \in 0 .. at.index : t[i] = at.epoch
      BY <2>1, <3>1, <3>2, <3>3, CommitHere
    <3>7. LengthFits(s, at, Len(log)) =>
             LengthFits(t, to, IF Len(log) = Counter_max THEN Len(log) ELSE Len(log) + 1)
      BY <1>1, <2>1, <3>1, <3>2, <3>3, CommitHere
    <3> QED
      BY <3>4, <3>5, <3>6, <3>7
  <2> QED
    BY <1>1, <1>2, <1>4, <1>5, <1>6, <1>7, <1>8, <1>9, <1>12, <2>1, <2>2
<1>13. CASE k = 0 /\ at = to /\ \A i \in 0 .. here.index : s[i] = here.epoch
  <2>1. m = cleans + 1 /\ StampsAged(s, at, m)
    BY <1>10, <1>11, <1>13 DEF m
  <2>2. /\ t = s /\ LapBegins(t, to)
        /\ StampsAged(t, to, IF to.index = 0 THEN 1 ELSE m)
    <3>1. StampsAged(s, to, m) /\ here \in Marks /\ to = Onward(here) /\ m \in Nat
      BY <1>2, <1>11, <1>13, <2>1
    <3>2. s \in [Records -> Byte] /\ t \in [Records -> Byte] /\ t[here.index] = here.epoch
      BY <1>1, <1>3
    <3> QED
      BY <1>3, <1>13, <3>1, <3>2, CommitAgain
  <2>3. at # here
    BY <1>2, <1>13, OnwardType
  <2>4. Len(log') = Len(log)
    BY <1>5, <1>6, <1>13, <2>3
  <2> QED
    BY <1>1, <1>2, <1>4, <1>7, <1>8, <1>9, <1>13, <2>1, <2>2, <2>4
<1>14. CASE k > 0 /\ here.index = 0 /\ here.epoch = Later(at.epoch, k)
  <2>1. StampsAged(s, at, m)
    BY <1>10 DEF m
  <2>2. /\ StampsAged(t, to, IF to.index = 0 THEN 1 ELSE m + k)
        /\ LapBegins(t, to) /\ LengthFits(t, to, 1) /\ here # at /\ to # at
    <3>1. /\ at \in Marks /\ here \in Marks /\ to = Onward(here)
          /\ t[0] = here.epoch /\ \A i \in Records : i # 0 => t[i] = s[i]
      BY <1>1, <1>2, <1>3, <1>14
    <3>2. s \in [Records -> Byte] /\ t \in [Records -> Byte] /\ k \in Nat /\ m \in Nat
      BY <1>1, <1>3, <1>11
    <3>3. StampsAged(t, to, IF to.index = 0 THEN 1 ELSE m + k)
      <4>1. k > 0 /\ m > 0 /\ m + k < EpochNone /\ StampsAged(s, at, m)
        BY <1>11, <1>14, <2>1
      <4>2. here.index = 0 /\ here.epoch = Later(at.epoch, k)
        BY <1>14
      <4> QED
        BY <3>1, <3>2, <4>1, <4>2, CommitAhead
    <3>4. LapBegins(t, to) /\ LengthFits(t, to, 1)
      BY <1>11, <1>14, <2>1, <3>1, <3>2, CommitAhead
    <3>5. here # at /\ to # at
      BY <1>11, <1>14, <2>1, <3>1, <3>2, CommitAhead
    <3> QED
      BY <3>3, <3>4, <3>5
  <2>3. Len(log') = 1
    BY <1>5, <1>6, <2>2
  <2>4. \A i \in 0 .. slot.write_index : t[i] = slot.epoch_counter
    BY <1>2, <1>3, <1>14
  <2> QED
    BY <1>1, <1>2, <1>4, <1>7, <1>11, <2>2, <2>3, <2>4
<1> QED
  BY <1>10, <1>12, <1>13, <1>14

-----------------------------------------------------------------------------
(* Every step keeps HistoryInv.                                            *)

LEMMA NotSearching ==
  ASSUME pc' \notin Scanning, pc' = "off" => PowerLosses
  PROVE  SearchNears'
BY DEF SearchNears, Scanning

(* A step that changes neither a stamp nor the history, nor the cursor     *)
(* unless the call has ended with the slot off line.                       *)
LEMMA QuietKept ==
  ASSUME SlotInv, HistoryInv, HTypeOK', Stamps' = Stamps, want' = want,
         cleans' = cleans, Len(log') = Len(log), SearchNears',
         pc' \in {"idle"} \cup Writing =>
           slot' = slot /\ pc \in {"idle"} \cup Writing /\ (pc' = "clean_head" => pc' = pc)
  PROVE  HistoryInv'
<1>1. LapBegins(Stamps, want)'
  <2>1. LapBegins(Stamps', want')
    BY DEF HistoryInv
  <2> QED
    BY <2>1 DEF LapBegins, LapBefore, Records, Counter_max, HasNone, Laps, Later, next_epoch
<1>2. LengthKnown'
  BY LengthKnownIs, LengthKnownLater DEF HistoryInv
<1>3. CursorKnown'
  <2>1. PICK k \in 0 .. cleans :
          /\ StampsAged(Stamps, want, cleans + 1 - k)
          /\ pc \in {"idle"} \cup Writing =>
               \/ k > 0 /\ AheadBy(k)
               \/ k = 0 /\ Aligned /\ (pc = "clean_head" => MayLag /\ cleans > 0)
               \/ k = 0 /\ Behind /\ pc # "clean_head" /\ MayLag
    BY DEF HistoryInv, CursorKnown
  <2>2. slot' = slot => /\ AheadBy(k) => AheadBy(k)'
                        /\ Aligned => Aligned' /\ (Stamped => Stamped')
                        /\ Behind => Behind'
    BY DEF AheadBy, Aligned, Stamped, Behind, Place, eels_write_advance, BeyondTop,
       Later, next_epoch, Counter_max, Pos0
  <2>3. StampsAged(Stamps', want', cleans' + 1 - k) /\ k \in 0 .. cleans'
    BY <2>1
  <2>4. pc' \in {"idle"} \cup Writing =>
          \/ k > 0 /\ AheadBy(k)'
          \/ k = 0 /\ Aligned' /\ (pc' = "clean_head" => MayLag /\ cleans' > 0)
          \/ k = 0 /\ Behind' /\ pc' # "clean_head" /\ MayLag
    BY <2>1, <2>2
  <2> QED
    BY <2>3, <2>4
    DEF CursorKnown, StampsAged, MayLag, Records, Counter_max, HasNone, Laps, Later, Writing
<1> QED
  BY <1>1, <1>2, <1>3 DEF HistoryInv

(* The header of a record is written: an insertion ends, or breaks off.    *)
LEMMA CommitKept ==
  ASSUME Recoverable, SlotInv, WriteExact, HistoryInv, HTypeOK',
         pc \in {"insert_head", "insert_rec"},
         NEW n \in 0 .. Len(call.bytes), n # 0,
         WriteDone(n) \/ WriteFail(n) \/ PowerLoss(n), Programmed(n)
  PROVE  HistoryInv'
<1>1. PICK d \in Payloads \cup {Lost} : Commit(d)
  <2>1. call.data \in Payloads
    BY DEF WriteExact, Writing
  <2> QED
    BY <2>1 DEF Programmed, Writing
<1>2. Landed(n) /\ n \in 1 .. Len(call.bytes)
  BY DEF WriteDone, InsertDataDone, InsertDone, CleanDone, WriteFail, PowerLoss
<1>3. /\ cleans' \in Nat /\ StampsAged(Stamps', want', cleans' + 1)
      /\ LapBegins(Stamps', want') /\ LengthKnown'
      /\ want' = Place(eels_write_advance(slot))
      /\ \A i \in 0 .. slot.write_index : Stamps'[i] = slot.epoch_counter
  BY <1>1, <1>2, Committed
<1>4. SearchNears'
  <2>1. pc' \notin Scanning /\ (pc' = "off" => PowerLosses)
    BY DEF Scanning, WriteDone, InsertDataDone, InsertDone, CleanDone, WriteFail,
       PowerLoss, SwitchedOff, Return, Write
  <2> QED
    BY <2>1, NotSearching
<1>5. CASE InsertDone(n)
  <2>1. slot' = eels_write_advance(slot) /\ pc' = "idle"
    BY <1>5 DEF InsertDone, Return
  <2>2. Aligned'
    BY <1>3, <2>1 DEF Aligned, Place
  <2> QED
    BY <1>3, <2>1, <2>2, <1>4, Settled
    DEF HistoryInv, LapBegins, LapBefore, Records, Counter_max, HasNone, Laps, Later, next_epoch
<1>6. CASE WriteFail(n)
  <2>1. slot' = slot /\ pc' = "idle" /\ pc \in WriteErrors
    BY <1>6 DEF WriteFail, Return
  <2>2. Behind' /\ MayLag
    BY <1>3, <2>1 DEF Behind, Stamped, Place, eels_write_advance, BeyondTop, next_epoch,
       Counter_max, Pos0, MayLag
  <2> QED
    BY <1>3, <2>1, <2>2, <1>4, Settled
    DEF HistoryInv, LapBegins, LapBefore, Records, Counter_max, HasNone, Laps, Later, next_epoch
<1>7. CASE PowerLoss(n)
  <2>1. pc' = "off"
    BY <1>7 DEF PowerLoss, SwitchedOff
  <2>2. CursorKnown'
    BY <1>3, <2>1, Settled DEF Writing
  <2> QED
    BY <1>3, <2>1, <1>4, <2>2
    DEF HistoryInv, LapBegins, LapBefore, Records, Counter_max, HasNone, Laps, Later, next_epoch
<1> QED
  BY <1>5, <1>6, <1>7 DEF WriteDone, InsertDataDone, CleanDone

(* EELS_CleanLog breaks the stamp of record 0, or is broken off.           *)
LEMMA EmptiedKept ==
  ASSUME Recoverable, SlotInv, WriteExact, HistoryInv, HTypeOK', pc = "clean_head",
         NEW n \in 0 .. Len(call.bytes), n # 0,
         WriteDone(n) \/ WriteFail(n) \/ PowerLoss(n), Programmed(n),
         NEW s, s = Stamps, NEW t, t = Stamps', NEW at, at = want, NEW to, to = want'
  PROVE  HistoryInv'
<1>1. to = Place(slot) /\ cleans' = cleans /\ Len(log') = 0
  BY EmptiedType DEF Programmed, Writing, Emptied, HistoryInv, SlotInv, TypeOK
<1>2. Landed(n) /\ n > 0
  BY DEF WriteDone, InsertDataDone, InsertDone, CleanDone, WriteFail, PowerLoss
<1>3. /\ slot.write_index = 0
      /\ s \in [Records -> Byte] /\ t \in [Records -> Byte]
      /\ HasNone(t[0]) /\ next_epoch(t[0]) = slot.epoch_counter
      /\ \A i \in Records : i # 0 => t[i] = s[i]
  BY <1>2, StampLands DEF Writing
<1>4. /\ at \in Marks /\ at.epoch \in Epochs /\ cleans \in Nat /\ cleans <= MaxCleans
      /\ cleans + 1 < EpochNone /\ Counter_max \in Nat
  BY Known0, OneEpoch
<1>5. to \in Marks /\ to.index = 0 /\ to.epoch = slot.epoch_counter
  BY <1>1, <1>3, PlaceType, WritingCursor DEF Writing
<1>6. PICK k \in 0 .. cleans :
        /\ StampsAged(s, at, cleans + 1 - k)
        /\ \/ k > 0 /\ to.epoch = Later(at.epoch, k)
           \/ k = 0 /\ at = to /\ MayLag /\ cleans > 0
  BY <1>1, <1>5 DEF HistoryInv, CursorKnown, AheadBy, Aligned, Writing
<1> DEFINE m == cleans + 1 - k
<1>7. m \in Nat /\ m > 0 /\ k \in Nat /\ m + k < EpochNone /\ m + k = cleans + 1
  BY <1>4
<1>8. to.epoch = Later(at.epoch, k) /\ (k = 0 => at.index = 0)
  <2>1. 0 \in Nat /\ 0 + 0 < EpochNone
    BY OneEpoch
  <2>2. Later(at.epoch, 0) = at.epoch
    BY <1>4, <2>1, LaterAdds
  <2> QED
    BY <1>5, <1>6, <2>2
<1>9. /\ StampsAged(t, to, m + k)
      /\ k > 0 => ~ Laps(t[Counter_max - 1], 1, to.epoch)
  <2>1. StampsAged(s, at, m) /\ m \in Nat /\ m > 0 /\ k \in Nat /\ m + k < EpochNone
    BY <1>6, <1>7
  <2> HIDE DEF m
  <2>2. StampsAged(t, to, m + k)
    BY <1>3, <1>4, <1>5, <1>8, <2>1, StampAhead
  <2>3. k > 0 => ~ Laps(t[Counter_max - 1], 1, to.epoch)
    BY <1>3, <1>4, <1>5, <1>8, <2>1, StampAhead
  <2> QED
    BY <2>2, <2>3
<1>10. StampsAged(t, to, cleans' + 1)
  BY <1>1, <1>7, <1>9
<1>11. LapBegins(t, to)
  BY <1>3, <1>5 DEF LapBegins
<1>12. LengthKnown'
  <2>1. (MayLag /\ MaxCleans > 0) \/ LengthFits(t, to, 0)
    <3>1. CASE k > 0
      BY <1>5, <1>9, <3>1 DEF LengthFits
    <3>2. CASE k = 0
      BY <1>4, <1>6, <3>2, HistoryAssumption
    <3> QED
      BY <1>7, <3>1, <3>2
  <2> QED
    BY <1>1, <2>1, LengthKnownLater
<1>13. /\ pc' \in {"off", "idle"}
       /\ pc' = "idle" => Aligned'
  BY <1>1 DEF WriteDone, InsertDataDone, InsertDone, CleanDone, WriteFail, PowerLoss,
     SwitchedOff, Return, Aligned, Place
<1>14. CursorKnown'
  BY <1>1, <1>4, <1>10, <1>13, Settled DEF Writing
<1>15. SearchNears'
  <2>1. pc' \notin Scanning /\ (pc' = "off" => PowerLosses)
    BY <1>13 DEF Scanning, WriteDone, InsertDataDone, InsertDone, CleanDone, WriteFail,
       PowerLoss, Return, Write
  <2> QED
    BY <2>1, NotSearching
<1> QED
  BY <1>11, <1>12, <1>14, <1>15
  DEF HistoryInv, LapBegins, LapBefore, Records, Counter_max, HasNone, Laps, Later, next_epoch

(* An empty stamp in record 0 tells where the next log belongs.            *)
LEMMA EmptyTells ==
  ASSUME Recoverable, SlotInv, HistoryInv, HasNone(Stamps[0])
  PROVE  want = [index |-> 0, epoch |-> next_epoch(Stamps[0])]
<1>1. want \in Marks /\ 0 \in Records
  BY Known0 DEF Records
<1>2. want.index = 0
  <2>1. CASE want.index # 0
    <3>1. PICK k \in 0 .. cleans : StampsAged(Stamps, want, cleans + 1 - k)
      BY DEF HistoryInv, CursorKnown
    <3>2. Stamps[0] = want.epoch
      BY <1>1, <2>1, <3>1 DEF StampsAged, Marks, Records
    <3> QED
      BY <1>1, <3>2, OneEpoch DEF HasNone, Marks, Epochs
  <2> QED
    BY <2>1
<1>3. next_epoch(Stamps[0]) = want.epoch
  BY <1>1, <1>2 DEF HistoryInv, LapBegins, LapBefore, Laps
<1> QED
  BY <1>1, <1>2, <1>3 DEF Marks

(* The ages of the stamps, when no clean has moved the cursor ahead.       *)
LEMMA AgedAtMost ==
  ASSUME Recoverable, SlotInv, HistoryInv
  PROVE  StampsAged(Stamps, want, cleans + 1)
<1>1. PICK k \in 0 .. cleans : StampsAged(Stamps, want, cleans + 1 - k)
  BY DEF HistoryInv, CursorKnown
<1>2. cleans + 1 - k \in Int /\ cleans + 1 \in Int /\ cleans + 1 - k <= cleans + 1
  BY Known0
<1> QED
  BY <1>1, <1>2, AgedLonger

LEMMA CounterRead ==
  ASSUME Recoverable, NEW i \in Records
  PROVE  _EELS_ReadCounter(eels_index_pos(Slot, i)) = {Stamps[i]}
BY StampIs DEF Recoverable, _EELS_ReadCounter

(* The slot on line with its cursor at record 0, and the rest of a clean.  *)
LEMMA CleanKept ==
  ASSUME Recoverable, SlotInv, WriteExact, HistoryInv, HTypeOK', BoundedClean,
         NEW s, s = Stamps, NEW at, at = want, NEW here, here = Place(slot)
  PROVE  HistoryInv'
<1>1. /\ pc = "idle" /\ rom' = rom /\ log' = log /\ want' = want /\ cleans' = cleans + 1
      /\ cleans < MaxCleans /\ 0 \in Records
  BY Known0 DEF BoundedClean, CleanLog, Records
<1>2. /\ at \in Marks /\ at.epoch \in Epochs /\ at.index \in Records /\ s \in [Records -> Byte]
      /\ cleans \in Nat /\ cleans + 2 < EpochNone /\ Counter_max \in Nat
  BY <1>1, Known0, OneEpoch
<1>3. Stamps' = s
  BY <1>1, StampsType
<1>4. CleanEmpty(s[0]) \/ CleanStamped(s[0])
  BY <1>1, CounterRead, PosZero DEF BoundedClean, CleanLog
<1>5. /\ here \in Marks /\ here.index = slot.write_index /\ here.epoch = slot.epoch_counter
      /\ slot.write_position = Pos0 <=> here.index = 0
  <2>1. slot \in Cursor /\ slot.write_index \in Records
        /\ slot.write_position = eels_index_pos(Slot, slot.write_index)
    BY <1>1, WritingCursor
  <2>2. slot.write_index # 0 => eels_index_pos(Slot, slot.write_index) # Pos0
    BY <1>1, <2>1, IndexOfPos, PosZero DEF Records
  <2> QED
    BY <2>1, <2>2, PlaceType, PosZero
<1>6. /\ LapBegins(s, at)
      /\ LengthKnown'
  BY <1>1, <1>3, LengthKnownIs, LengthKnownLater DEF HistoryInv
<1>7. LapBegins(Stamps, want)' /\ SearchNears'
  <2>1. pc' \notin Scanning /\ pc' # "off"
    BY <1>1, <1>4 DEF CleanEmpty, CleanStamped, Write, Scanning
  <2> QED
    BY <1>1, <1>3, <1>6, <2>1, NotSearching
    DEF LapBegins, LapBefore, Records, Counter_max, HasNone, Laps, Later, next_epoch
<1>8. SUFFICES CursorKnown'
  BY <1>6, <1>7 DEF HistoryInv
<1>9. StampsAged(s, at, cleans + 1) /\ StampsAged(s, at, cleans + 2)
  <2>1. cleans + 1 \in Int /\ cleans + 2 \in Int /\ cleans + 1 <= cleans + 2
    BY <1>2
  <2> QED
    BY <2>1, AgedAtMost, AgedLonger
<1>10. ASSUME slot'.write_index = at.index, slot'.epoch_counter = at.epoch,
              pc' = "idle" \/ (pc' = "clean_head" /\ MayLag)
       PROVE  CursorKnown'
  <2>1. Aligned'
    BY <1>1, <1>2, <1>10 DEF Aligned, Place, Marks
  <2>2. cleans' + 1 = cleans + 2 /\ cleans' \in Nat /\ cleans' > 0
    BY <1>1, <1>2
  <2> QED
    BY <1>1, <1>3, <1>9, <1>10, <2>1, <2>2, Settled
<1>11. ASSUME NEW k \in 1 .. cleans + 1, StampsAged(s, at, cleans + 2 - k),
              slot'.write_index = 0, slot'.epoch_counter = Later(at.epoch, k)
       PROVE  CursorKnown'
  <2>1. k \in 0 .. cleans' /\ k > 0 /\ cleans' + 1 - k = cleans + 2 - k
    BY <1>1, <1>2
  <2>2. StampsAged(Stamps', want', cleans' + 1 - k)
    BY <1>1, <1>3, <1>11, <2>1
  <2>3. AheadBy(k)'
    BY <1>1, <1>11 DEF AheadBy, Later
  <2> QED
    BY <2>1, <2>2, <2>3
    DEF CursorKnown, StampsAged, MayLag, Records, Counter_max, HasNone, Laps, Later, Writing
<1>12. CASE CleanEmpty(s[0])
  <2>1. slot'.write_index = 0 /\ slot'.epoch_counter = next_epoch(s[0]) /\ pc' = pc
        /\ HasNone(s[0])
    BY <1>12 DEF CleanEmpty
  <2> QED
    BY <1>1, <1>10, <2>1, EmptyTells
<1>13. CASE CleanStamped(s[0])
  <2> DEFINE last == CleanEpoch(s[0])
  <2>1. /\ slot'.write_index = 0 /\ slot'.epoch_counter = next_epoch(last)
        /\ pc' = "clean_head"
        /\ last = IF here.index = 0 THEN here.epoch ELSE s[0]
    BY <1>5, <1>13 DEF CleanStamped, Write, CleanEpoch
  <2> HIDE DEF last
  <2>2. next_epoch(last) = Later(last, 1)
    BY NextIsLater
  <2>3. PICK k \in 0 .. cleans :
          /\ StampsAged(s, at, cleans + 1 - k)
          /\ \/ k > 0 /\ here.index = 0 /\ here.epoch = Later(at.epoch, k)
             \/ k = 0 /\ at = here
             \/ k = 0 /\ Behind /\ MayLag
    BY <1>1, <1>5 DEF HistoryInv, CursorKnown, AheadBy, Aligned
  <2>4. CASE k > 0 /\ here.index = 0 /\ here.epoch = Later(at.epoch, k)
    <3>1. k \in Nat /\ 1 \in Nat /\ k + 1 < EpochNone /\ k + 1 \in 1 .. cleans + 1
          /\ cleans + 2 - (k + 1) = cleans + 1 - k
      BY <1>2, OneEpoch
    <3>2. Later(Later(at.epoch, k), 1) = Later(at.epoch, k + 1)
      BY <1>2, <3>1, LaterAdds
    <3>3. slot'.epoch_counter = Later(at.epoch, k + 1)
      BY <2>1, <2>2, <2>4, <3>2
    <3>4. StampsAged(s, at, cleans + 2 - (k + 1))
      BY <2>3, <3>1
    <3> QED
      BY <1>11, <2>1, <3>1, <3>3, <3>4
  <2>5. ASSUME last = at.epoch PROVE CursorKnown'
    <3>1. 1 \in 1 .. cleans + 1 /\ cleans + 2 - 1 = cleans + 1
      BY <1>2
    <3>2. StampsAged(s, at, cleans + 2 - 1)
      BY <1>9, <3>1
    <3> QED
      BY <1>11, <2>1, <2>2, <2>5, <3>1, <3>2
  <2>6. CASE k = 0 /\ at = here
    <3>1. here.index # 0 => s[0] = at.epoch
      BY <1>1, <1>2, <1>9, <2>6 DEF StampsAged, Records
    <3> QED
      BY <2>1, <2>5, <2>6, <3>1
  <2>7. CASE k = 0 /\ Behind /\ MayLag
    <3>1. /\ at = Onward(here)
          /\ s[0] = here.epoch
      <4>1. here.index \in Records /\ 0 \in 0 .. here.index
        BY <1>5 DEF Marks, Records
      <4>2. at = Place(eels_write_advance(slot)) /\ s[0] = slot.epoch_counter
        BY <1>5, <2>7, <4>1 DEF Behind, Stamped
      <4> QED
        BY <1>1, <1>5, <4>2, AdvanceOnward
    <3>2. last = here.epoch
      BY <2>1, <3>1
    <3>3. CASE at.epoch = here.epoch
      BY <2>5, <3>2, <3>3
    <3>4. CASE at.index = 0 /\ at.epoch = Later(here.epoch, 1)
      BY <1>10, <2>1, <2>2, <2>7, <3>2, <3>4
    <3> QED
      BY <1>5, <3>1, <3>3, <3>4, OnwardType
  <2> QED
    BY <2>3, <2>4, <2>6, <2>7
<1> QED
  BY <1>4, <1>12, <1>13

-----------------------------------------------------------------------------
(* The search at start-up.                                                 *)

LEMMA OneLapBefore ==
  ASSUME NEW x \in Epochs, NEW y \in Epochs, Later(x, 1) = Later(y, 1)
  PROVE  x = y
<1>1. /\ Later(x, 1) = IF x + 1 < EpochNone THEN x + 1 ELSE x + 1 - EpochNone
      /\ Later(y, 1) = IF y + 1 < EpochNone THEN y + 1 ELSE y + 1 - EpochNone
  BY OneEpoch, LaterIs
<1>2. x \in Nat /\ y \in Nat /\ x < EpochNone /\ y < EpochNone /\ EpochNone \in Nat
  BY OneEpoch DEF Epochs
<1> QED
  BY <1>1, <1>2

(* The records of the current lap, and no others, carry its stamp.         *)
LEMMA StampsOfLap ==
  ASSUME Recoverable, SlotInv, HistoryInv, NEW i \in Records
  PROVE  Stamps[i] = want.epoch <=> i < want.index
<1> DEFINE s == Stamps
<1>1. /\ want.index \in Records /\ want.epoch \in Epochs /\ s \in [Records -> Byte]
      /\ cleans + 1 < EpochNone /\ cleans \in Nat /\ EpochNone \in Nat
  BY Known0, OneEpoch
<1>2. StampsAged(s, want, cleans + 1)
  BY AgedAtMost
<1> HIDE DEF s
<1>3. CASE i < want.index
  BY <1>2, <1>3 DEF StampsAged, s
<1>4. CASE ~ (i < want.index) /\ HasNone(s[i])
  BY <1>1, <1>4 DEF HasNone, Epochs, s
<1>5. CASE ~ (i < want.index) /\ ~ HasNone(s[i])
  <2>1. PICK j \in 1 .. cleans + 1 : Laps(s[i], j, want.epoch)
    BY <1>2, <1>5 DEF StampsAged
  <2>2. s[i] \in Epochs /\ j \in Nat /\ j > 0 /\ j + 0 < EpochNone /\ 0 \in Nat
    BY <1>1, <1>5, StampType
  <2>3. Later(s[i], j) # s[i]
    BY <2>2, LaterAdds
  <2> QED
    BY <1>5, <2>1, <2>3 DEF Laps, s
<1> QED
  BY <1>3, <1>4, <1>5

LEMMA TellsTheEnd ==
  ASSUME Recoverable, SlotInv, HistoryInv
  PROVE  StampsTellTheEnd
<1> DEFINE s == Stamps
<1>1. /\ want.index \in Records /\ want.epoch \in Epochs /\ s \in [Records -> Byte]
      /\ cleans + 1 < EpochNone /\ cleans \in Nat /\ EpochNone \in Nat
  BY Known0, OneEpoch
<1>2. \A i \in 0 .. Counter_max - 1 : rom[eels_index_pos(Slot, i)] = s[i]
  BY StampIs DEF Records
<1>3. StampsAged(s, want, cleans + 1) /\ LapBegins(s, want)
  BY AgedAtMost DEF HistoryInv
<1> HIDE DEF s
<1>4. CASE want.index > 0
  BY <1>2, <1>4, StampsOfLap DEF StampsTellTheEnd, Records, s
<1>5. CASE want.index = 0
  <2>1. LapBefore(s, want) => \A i \in Records : is_next_epoch(s[i], want.epoch)
    <3> SUFFICES ASSUME LapBefore(s, want), NEW i \in Records
                 PROVE  is_next_epoch(s[i], want.epoch)
      OBVIOUS
    <3>1. Laps(s[i], 1, want.epoch)
      BY <1>5 DEF LapBefore, Records
    <3>2. ~ HasNone(want.epoch)
      BY <1>1 DEF HasNone, Epochs
    <3> QED
      BY <3>1, <3>2, NextIsLater DEF Laps, is_next_epoch
  <2>2. 0 \in Records
    BY SlotTypes DEF Records
  <2> QED
    BY <1>2, <1>3, <1>5, <2>1, <2>2 DEF StampsTellTheEnd, LapBegins, Records
<1> QED
  BY <1>1, <1>4, <1>5 DEF Records

(* Where the records of the current lap end, as the search sees it.        *)
Top == IF want.index > 0 THEN want.index ELSE Counter_max

LEMMA ProbeTells ==
  ASSUME Recoverable, SlotInv, HistoryInv, ~ HasNone(Stamps[0]), NEW x \in Records
  PROVE  /\ Top \in Nat /\ 0 < Top /\ Top <= Counter_max
         /\ Stamps[x] = Stamps[0] <=> x < Top
<1>1. /\ want.index \in Records /\ want.epoch \in Epochs /\ Stamps \in [Records -> Byte]
      /\ Counter_max \in Nat /\ Counter_max > 0 /\ 0 \in Records
  BY Known0 DEF Records
<1>2. \A i \in Records : rom[eels_index_pos(Slot, i)] = Stamps[i]
  BY StampIs
<1>3. StampsTellTheEnd
  BY TellsTheEnd
<1>4. CASE want.index > 0
  <2>1. \A i \in Records : Stamps[i] = want.epoch <=> i < want.index
    BY <1>2, <1>3, <1>4 DEF StampsTellTheEnd, Records
  <2>2. Stamps[0] = want.epoch
    BY <1>1, <1>4, <2>1
  <2> QED
    BY <1>1, <1>4, <2>1, <2>2 DEF Top, Records
<1>5. CASE want.index = 0
  <2>1. \A i \in Records : is_next_epoch(Stamps[i], want.epoch)
    BY <1>1, <1>2, <1>3, <1>5 DEF StampsTellTheEnd, Records
  <2>2. \A i \in Records : Stamps[i] \in Epochs /\ Later(Stamps[i], 1) = want.epoch
    BY <1>1, <2>1, StampType, NextIsLater DEF is_next_epoch
  <2>3. Stamps[x] = Stamps[0]
    BY <1>1, <2>2, OneLapBefore
  <2> QED
    BY <1>1, <1>5, <2>3 DEF Top, Records
<1> QED
  BY <1>1, <1>4, <1>5 DEF Records

LastStamped == eels_index_pos(Slot, Top - 1)

LEMMA TopLater ==
  ASSUME want' = want, Stamps' = Stamps
  PROVE  SearchNears' <=>
           /\ pc' \in Scanning =>
                scan'.epoch = Stamps[0] /\ slot'.epoch_counter = Stamps[0] /\ ~ HasNone(Stamps[0])
           /\ pc' = "scan_pages" => eels_pos_page(Slot, LastStamped) \in {scan'.lo, scan'.xi}
           /\ pc' = "scan_recs" =>
                /\ scan'.page = eels_pos_page(Slot, LastStamped)
                /\ LastStamped \in
                     {scan'.page + (Slot.page_offs + Slot.slot_log_length * scan'.lo),
                      scan'.page + (Slot.page_offs + Slot.slot_log_length * scan'.xi)}
           /\ pc' = "scan_solid" =>
                /\ scan'.lo < Top
                /\ \/ Top <= scan'.hi /\ scan'.xi = scan'.lo + ((scan'.hi - scan'.lo) \div 2)
                   \/ scan'.xi = scan'.hi /\ scan'.hi = Counter_max - 1
           /\ ~ PowerLosses /\ ~ Rescans =>
                pc' \notin Scanning /\ (pc' = "off" => HasNone(Stamps[0]))
BY DEF SearchNears, Top, LastStamped, RecAt, Counter_max, HasNone, Scanning

(* A step of the search, or its beginning or end, on a settled slot.       *)
LEMMA SearchKept ==
  ASSUME Recoverable, SlotInv, HistoryInv, HTypeOK', rom' = rom, UNCHANGED history,
         SearchNears', pc' \in {"idle"} \cup Scanning, pc' = "idle" => Aligned'
  PROVE  HistoryInv'
<1>1. Stamps' = Stamps /\ want' = want /\ cleans' = cleans /\ Len(log') = Len(log)
      /\ cleans' \in Nat
  BY StampsType, Known0 DEF history
<1>2. LapBegins(Stamps, want)'
  <2>1. LapBegins(Stamps', want')
    BY <1>1 DEF HistoryInv
  <2> QED
    BY <2>1 DEF LapBegins, LapBefore, Records, Counter_max, HasNone, Laps, Later, next_epoch
<1>3. LengthKnown'
  BY <1>1, LengthKnownIs, LengthKnownLater DEF HistoryInv
<1>4. CursorKnown'
  BY <1>1, AgedAtMost, Settled DEF Writing, Scanning
<1> QED
  BY <1>2, <1>3, <1>4 DEF HistoryInv

(* A search that goes on: the slot is one whose search finds the cursor.   *)
LEMMA Searched ==
  ASSUME Recoverable, PowerLosses \/ Rescans
  PROVE  UnpagedLayout(Slot) \/ (/\ PagedLayout(Slot)
                                 /\ Slot.length <= 2 * Slot.page_size /\ Slot.page_records <= 2)
BY DEF Recoverable, SearchFinds

LEMMA AtMostTwoPages ==
  ASSUME PagedLayout(Slot), Slot.length <= 2 * Slot.page_size
  PROVE  \E pages \in 1 .. 2 :
           /\ Slot.length = pages * Slot.page_size
           /\ Counter_max = pages * Slot.page_records
           /\ eels_pos_page(Slot, Pos0) = Slot.begining
           /\ eels_pos_page(Slot, eels_pred_pos(Slot, Pos0))
                = Slot.begining + Slot.page_size * (pages - 1)
<1>1. PICK pages \in 1 .. Slot.length :
        /\ Slot.length = pages * Slot.page_size
        /\ Counter_max = pages * Slot.page_records
        /\ eels_pos_page(Slot, Pos0) = Slot.begining
        /\ eels_pos_page(Slot, eels_pred_pos(Slot, Pos0))
             = Slot.begining + Slot.page_size * (pages - 1)
  BY LastRecordPaged
<1> DEFINE P == Slot.page_size
<1>2. P \in Nat /\ P > 0 /\ pages \in Nat
  BY SlotTypes, LayoutTypes DEF PagedLayout
<1>3. P * pages <= P * 2
  BY <1>1, <1>2
<1> HIDE DEF P
<1>4. P * pages < P * 3
  BY <1>2, <1>3
<1>5. pages < 3
  BY <1>2, <1>4, TimesCancels
<1> QED
  BY <1>1, <1>2, <1>5

LEMMA FindLastPosFinds ==
  ASSUME Recoverable, SlotInv, HistoryInv, FindLastPos, want' = want
  PROVE  /\ rom' = rom /\ SearchNears'
         /\ pc' \in {"idle"} \cup Scanning
         /\ pc' = "idle" => /\ Aligned' /\ want.index = 0
                            /\ slot'.overlaped = FALSE /\ slot'.write_index = 0
<1>1. rom' = rom /\ want' = want /\ Stamps' = Stamps
  BY StampsType DEF FindLastPos
<1>2. 0 \in Records /\ Counter_max \in Nat /\ Counter_max > 0 /\ want \in Marks
  BY Known0 DEF Records
<1>3. FindEmpty(Stamps[0]) \/ FindStart(Stamps[0])
  BY <1>2, CounterRead, PosZero DEF FindLastPos
<1>4. CASE FindEmpty(Stamps[0])
  <2>1. /\ HasNone(Stamps[0]) /\ pc' = "idle"
        /\ slot' = [write_position |-> Pos0, write_index |-> 0,
                    epoch_counter |-> next_epoch(Stamps[0]), overlaped |-> FALSE]
    BY <1>4 DEF FindEmpty, Return
  <2>2. want = [index |-> 0, epoch |-> next_epoch(Stamps[0])]
    BY <2>1, EmptyTells
  <2>3. Aligned'
    BY <1>1, <2>1, <2>2 DEF Aligned, Place
  <2> QED
    BY <1>1, <2>1, <2>2, <2>3, NotSearching DEF Scanning
<1>5. CASE FindStart(Stamps[0])
  <2>1. ~ HasNone(Stamps[0]) /\ slot'.epoch_counter = Stamps[0] /\ scan'.epoch = Stamps[0]
    <3>1. slot \in Cursor
      BY DEF SlotInv, TypeOK
    <3> QED
      BY <1>5, <3>1 DEF FindStart, Cursor
  <2>2. /\ Top \in Nat /\ 0 < Top /\ Top <= Counter_max
    BY <1>2, <2>1, ProbeTells
  <2>3. PowerLosses \/ Rescans
    BY <2>1 DEF FindLastPos, HistoryInv, SearchNears
  <2>4. CASE UnpagedLayout(Slot)
    <3>1. /\ pc' = "scan_solid" /\ scan'.lo = 0
          /\ scan'.hi = Counter_max - 1 /\ scan'.xi = Counter_max - 1
      BY <1>5, <2>4 DEF FindStart, UnpagedLayout
    <3> QED
      BY <1>1, <2>1, <2>2, <2>3, <3>1, TopLater DEF Scanning
  <2>5. CASE /\ PagedLayout(Slot)
             /\ Slot.length <= 2 * Slot.page_size /\ Slot.page_records <= 2
    <3>1. /\ pc' = "scan_pages" /\ scan'.lo = eels_pos_page(Slot, Pos0)
          /\ scan'.xi = eels_pos_page(Slot, eels_pred_pos(Slot, Pos0))
      BY <1>5, <2>5, SlotTypes, LayoutTypes DEF FindStart, PagedLayout
    <3>2. PICK pages \in 1 .. 2 :
            /\ Slot.length = pages * Slot.page_size
            /\ Counter_max = pages * Slot.page_records
            /\ eels_pos_page(Slot, Pos0) = Slot.begining
            /\ eels_pos_page(Slot, eels_pred_pos(Slot, Pos0))
                 = Slot.begining + Slot.page_size * (pages - 1)
      BY <2>5, AtMostTwoPages
    <3>3. Top - 1 \in 0 .. Counter_max - 1
      BY <1>2, <2>2
    <3>4. PICK a \in 0 .. pages - 1 :
            eels_pos_page(Slot, LastStamped) = Slot.begining + Slot.page_size * a
      BY <2>5, <3>2, <3>3, PageOfRecord DEF LastStamped
    <3>5. a = 0 \/ a = pages - 1
      BY <3>2, <3>4
    <3>6. Slot.begining + Slot.page_size * 0 = Slot.begining
      BY SlotTypes, LayoutTypes
    <3> QED
      BY <1>1, <2>1, <2>3, <3>1, <3>2, <3>4, <3>5, <3>6, TopLater DEF Scanning
  <2> QED
    BY <2>3, <2>4, <2>5, Searched
<1> QED
  BY <1>3, <1>4, <1>5

LEMMA ScanSolidFinds ==
  ASSUME Recoverable, SlotInv, HistoryInv, ScanSolid, want' = want
  PROVE  rom' = rom /\ SearchNears' /\ pc' \in Scanning
<1>1. /\ rom' = rom /\ want' = want /\ Stamps' = Stamps /\ slot' = slot /\ pc' = pc
      /\ pc = "scan_solid" /\ scan.lo # scan.xi
  BY StampsType DEF ScanSolid
<1>2. /\ scan \in Scans /\ scan.lo \in Nat /\ scan.hi \in Nat /\ scan.xi \in Nat
      /\ scan.lo <= scan.xi /\ scan.xi <= scan.hi /\ scan.hi < Counter_max
      /\ scan.xi \in Records /\ Counter_max \in Nat
  BY <1>1, Known0 DEF SlotInv, TypeOK, Scans, ScanInRange, Scanning, Records
<1>3. /\ scan.epoch = Stamps[0] /\ slot.epoch_counter = Stamps[0] /\ ~ HasNone(Stamps[0])
      /\ scan.lo < Top
      /\ \/ Top <= scan.hi
         \/ scan.xi = scan.hi /\ scan.hi = Counter_max - 1
  BY <1>1 DEF HistoryInv, SearchNears, Top, Scanning
<1>4. /\ Top \in Nat /\ Top <= Counter_max
      /\ Stamps[scan.xi] = Stamps[0] <=> scan.xi < Top
  BY <1>2, <1>3, ProbeTells
<1> DEFINE found == scan.xi < Top
           lo == IF found THEN scan.xi ELSE scan.lo
           hi == IF found THEN scan.hi ELSE scan.xi
           xi == lo + ((hi - lo) \div 2)
<1>5. scan' = [scan EXCEPT !.lo = lo, !.hi = hi, !.xi = xi]
  <2>1. scan' = SolidHalf(Stamps[scan.xi] = scan.epoch)
    BY <1>2, CounterRead DEF ScanSolid
  <2>2. (Stamps[scan.xi] = scan.epoch) <=> found
    BY <1>3, <1>4
  <2> QED
    BY <2>1, <2>2 DEF SolidHalf
<1> HIDE DEF lo, hi, xi, found
<1>6. scan'.lo = lo /\ scan'.hi = hi /\ scan'.xi = xi /\ scan'.epoch = scan.epoch
  BY <1>2, <1>5 DEF Scans
<1>7. lo \in Nat /\ hi \in Nat /\ lo < Top /\ lo <= hi
  BY <1>2, <1>3, <1>4 DEF lo, hi, found
<1>8. Top <= hi \/ (hi = Counter_max - 1 /\ lo = hi)
  BY <1>2, <1>3, <1>4 DEF lo, hi, found
<1>9. PowerLosses \/ Rescans
  BY <1>1 DEF HistoryInv, SearchNears, Scanning
<1>10. lo = hi => xi = hi
  BY <1>7 DEF xi
<1> QED
  BY <1>1, <1>3, <1>6, <1>7, <1>8, <1>10, <1>9, TopLater DEF xi, Scanning

(* What holds while a slot with pages is searched: its pages are two, and  *)
(* the last record stamped is the b-th one of page a.                      *)
LEMMA SearchedPages ==
  ASSUME Recoverable, SlotInv, HistoryInv, pc \in {"scan_pages", "scan_recs"}
  PROVE  /\ PowerLosses \/ Rescans
         /\ PagedLayout(Slot) /\ Slot.length <= 2 * Slot.page_size /\ Slot.page_records <= 2
         /\ Slot.page_size \in Nat /\ Slot.page_size > 0 /\ Slot.page_records \in Nat
         /\ Slot.page_records > 0 /\ Slot.begining \in Nat /\ Slot.page_offs \in Nat
         /\ scan.epoch = Stamps[0] /\ slot.epoch_counter = Stamps[0] /\ ~ HasNone(Stamps[0])
         /\ scan \in Scans /\ scan.lo \in Nat /\ scan.hi \in Nat /\ scan.xi \in Nat
         /\ scan.lo <= scan.xi /\ scan.xi <= scan.hi
         /\ Top \in Nat /\ 0 < Top /\ Top <= Counter_max
         /\ \E a \in 0 .. 1, b \in 0 .. Slot.page_records - 1 :
              /\ Top - 1 = Slot.page_records * a + b
              /\ eels_pos_page(Slot, LastStamped) = Slot.begining + Slot.page_size * a
              /\ \A c \in 0 .. Slot.page_records - 1 :
                   /\ Slot.page_records * a + c \in Records
                   /\ eels_index_pos(Slot, Slot.page_records * a + c)
                        = Slot.begining + Slot.page_size * a
                            + (Slot.page_offs + Slot.slot_log_length * c)
<1> DEFINE P == Slot.page_size
           R == Slot.page_records
<1>1. PowerLosses \/ Rescans
  BY DEF HistoryInv, SearchNears, Scanning
<1>2. PagedLayout(Slot) /\ Slot.length <= 2 * P /\ R <= 2
  <2>1. PagedLayout(Slot)
    BY DEF SlotInv, ScanInRange
  <2> QED
    BY <1>1, <2>1, Searched DEF UnpagedLayout, PagedLayout
<1>3. P \in Nat /\ P > 0 /\ R \in Nat /\ R > 0 /\ Slot.begining \in Nat /\ Slot.page_offs \in Nat
  BY <1>2, SlotTypes, LayoutTypes DEF PagedLayout
<1>4. scan.epoch = Stamps[0] /\ slot.epoch_counter = Stamps[0] /\ ~ HasNone(Stamps[0])
  BY DEF HistoryInv, SearchNears, Scanning
<1>5. /\ scan \in Scans /\ scan.lo \in Nat /\ scan.hi \in Nat /\ scan.xi \in Nat
      /\ scan.lo <= scan.xi /\ scan.xi <= scan.hi
  BY DEF SlotInv, TypeOK, Scans, ScanInRange, Scanning
<1>6. Top \in Nat /\ 0 < Top /\ Top <= Counter_max
  BY <1>4, ProbeTells, SlotTypes, 0 \in Records DEF Records
<1>7. PICK pages \in 1 .. 2 : Slot.length = pages * P /\ Counter_max = pages * R
  BY <1>2, AtMostTwoPages
<1>8. Top - 1 \in 0 .. Counter_max - 1 /\ pages \in Nat /\ Counter_max \in Nat
  BY <1>6, SlotTypes
<1>9. PICK a \in 0 .. pages - 1, b \in 0 .. R - 1 :
        /\ Top - 1 = R * a + b
        /\ eels_pos_page(Slot, LastStamped) = Slot.begining + P * a
        /\ \A c \in 0 .. R - 1 :
             eels_index_pos(Slot, R * a + c)
               = Slot.begining + P * a + (Slot.page_offs + Slot.slot_log_length * c)
  BY <1>2, <1>7, <1>8, PageOfRecord DEF LastStamped
<1>10. \A c \in 0 .. R - 1 : R * a + c \in Records
  <2>1. a + 1 <= pages /\ a + 1 \in Nat /\ a \in Nat
    BY <1>8
  <2>2. R * (a + 1) <= R * pages
    BY <1>3, <1>8, <2>1, TimesMonotone
  <2>3. R * (a + 1) = R * a + R /\ R * pages = Counter_max /\ R * a \in Nat
    BY <1>3, <1>7, <1>8, <2>1
  <2> HIDE DEF R
  <2> QED
    BY <1>3, <1>8, <2>2, <2>3 DEF Records
<1>11. a \in 0 .. 1
  BY <1>7
<1> QED
  BY <1>1, <1>2, <1>3, <1>4, <1>5, <1>6, <1>9, <1>10, <1>11

LEMMA ScanPagesFinds ==
  ASSUME Recoverable, SlotInv, HistoryInv, ScanPages, want' = want
  PROVE  rom' = rom /\ SearchNears' /\ pc' \in Scanning
<1> DEFINE P == Slot.page_size
           R == Slot.page_records
           B == Slot.begining
<1>1. /\ rom' = rom /\ want' = want /\ Stamps' = Stamps /\ slot' = slot /\ pc' = pc
      /\ pc = "scan_pages" /\ scan.lo # scan.xi
  BY StampsType DEF ScanPages
<1>2. /\ PowerLosses \/ Rescans
      /\ PagedLayout(Slot) /\ Slot.length <= 2 * P /\ R <= 2
      /\ P \in Nat /\ P > 0 /\ R \in Nat /\ R > 0 /\ B \in Nat /\ Slot.page_offs \in Nat
      /\ scan.epoch = Stamps[0] /\ slot.epoch_counter = Stamps[0] /\ ~ HasNone(Stamps[0])
      /\ scan \in Scans /\ scan.lo \in Nat /\ scan.xi \in Nat /\ scan.lo <= scan.xi
      /\ Top \in Nat
  BY <1>1, SearchedPages
<1>3. PICK a \in 0 .. 1, b \in 0 .. R - 1 :
        Top - 1 = R * a + b /\ eels_pos_page(Slot, LastStamped) = B + P * a
  BY <1>1, SearchedPages
<1>4. scan.lo = B /\ scan.xi = B + P
  <2>1. ASSUME NEW x, IsPage(x)
        PROVE  x = B \/ x = B + P
    <3>1. PICK k \in 0 .. Counter_max - 1 : x = B + P * k /\ x < B + Slot.length
      BY <2>1 DEF IsPage
    <3>2. k \in Nat /\ P * k < P * 2
      BY <1>2, <3>1, SlotTypes
    <3>3. k < 2
      BY <1>2, <3>2, TimesCancels
    <3> QED
      BY <1>2, <3>1, <3>2, <3>3
  <2>2. IsPage(scan.lo) /\ IsPage(scan.xi)
    BY <1>1 DEF SlotInv, ScanInRange
  <2> QED
    BY <1>1, <1>2, <2>1, <2>2
<1>5. R \in Records /\ eels_index_pos(Slot, R) = scan.xi + Slot.page_offs
  <2>1. IsPage(scan.xi) /\ 0 \in 0 .. R - 1
    BY <1>1, <1>2 DEF SlotInv, ScanInRange
  <2>2. PICK c \in Nat :
          /\ scan.xi = B + P * c
          /\ R * c + 0 \in Records
          /\ eels_index_pos(Slot, R * c + 0) = scan.xi + (Slot.page_offs + Slot.slot_log_length * 0)
    BY <1>2, <2>1, PageNumber DEF Records
  <2>3. c = 1
    BY <1>2, <1>4, <2>2
  <2>4. R * 1 + 0 = R /\ Slot.slot_log_length * 0 = 0
    BY <1>2, SlotTypes
  <2> QED
    BY <1>2, <2>2, <2>3, <2>4
<1>6. Stamps[R] = Stamps[0] <=> R < Top
  BY <1>2, <1>5, ProbeTells
<1>7. scan' = PagesHalf(R < Top)
  <2>1. scan' = PagesHalf(Stamps[R] = scan.epoch)
    BY <1>5, CounterRead DEF ScanPages
  <2> QED
    BY <1>2, <1>6, <2>1 DEF PagesHalf
<1>8. scan'.epoch = scan.epoch /\ scan'.lo = IF R < Top THEN scan.xi ELSE scan.lo
  BY <1>2, <1>7 DEF PagesHalf, Scans
<1>9. eels_pos_page(Slot, LastStamped) = scan'.lo
  <2>1. P * 0 = 0 /\ P * 1 = P /\ R * 0 = 0 /\ R * 1 = R
    BY <1>2
  <2>2. CASE a = 0
    <3>1. ~ (R < Top)
      BY <1>2, <1>3, <2>1, <2>2
    <3> QED
      BY <1>2, <1>3, <1>4, <1>8, <2>1, <2>2, <3>1
  <2>3. CASE a = 1
    <3>1. R < Top
      BY <1>2, <1>3, <2>1, <2>3
    <3> QED
      BY <1>2, <1>3, <1>4, <1>8, <2>1, <2>3, <3>1
  <2> QED
    BY <2>2, <2>3
<1> QED
  BY <1>1, <1>2, <1>8, <1>9, TopLater DEF Scanning

LEMMA ScanPagesEndFinds ==
  ASSUME Recoverable, SlotInv, HistoryInv, ScanPagesEnd, want' = want
  PROVE  rom' = rom /\ SearchNears' /\ pc' \in Scanning
<1> DEFINE R == Slot.page_records
<1>1. /\ rom' = rom /\ want' = want /\ Stamps' = Stamps /\ slot' = slot
      /\ pc = "scan_pages" /\ pc' = "scan_recs" /\ scan.lo = scan.xi
      /\ scan' = [scan EXCEPT !.page = scan.lo, !.lo = 0, !.hi = R - 1, !.xi = R - 1]
  BY StampsType DEF ScanPagesEnd
<1>2. /\ PowerLosses \/ Rescans
      /\ R \in Nat /\ R > 0 /\ R <= 2 /\ Top \in Nat
      /\ scan.epoch = Stamps[0] /\ slot.epoch_counter = Stamps[0] /\ ~ HasNone(Stamps[0])
      /\ scan \in Scans
  BY <1>1, SearchedPages
<1>3. scan'.epoch = scan.epoch /\ scan'.page = scan.lo /\ scan'.lo = 0 /\ scan'.xi = R - 1
  BY <1>1, <1>2 DEF Scans
<1>4. eels_pos_page(Slot, LastStamped) = scan'.page
  BY <1>1, <1>3 DEF HistoryInv, SearchNears, LastStamped, Top
<1>5. PICK b \in 0 .. R - 1 :
        LastStamped = eels_pos_page(Slot, LastStamped)
                        + (Slot.page_offs + Slot.slot_log_length * b)
  BY <1>1, SearchedPages DEF LastStamped
<1>6. b = 0 \/ b = R - 1
  BY <1>2
<1> QED
  BY <1>1, <1>2, <1>3, <1>4, <1>5, <1>6, TopLater DEF Scanning

LEMMA ScanRecsFinds ==
  ASSUME Recoverable, SlotInv, HistoryInv, ScanRecs, want' = want
  PROVE  rom' = rom /\ SearchNears' /\ pc' \in Scanning
<1> DEFINE R == Slot.page_records
<1>1. /\ rom' = rom /\ want' = want /\ Stamps' = Stamps /\ slot' = slot /\ pc' = pc
      /\ pc = "scan_recs" /\ scan.lo # scan.xi
  BY StampsType DEF ScanRecs
<1>2. /\ PowerLosses \/ Rescans
      /\ R \in Nat /\ R > 0 /\ R <= 2 /\ Top \in Nat
      /\ scan.epoch = Stamps[0] /\ slot.epoch_counter = Stamps[0] /\ ~ HasNone(Stamps[0])
      /\ scan \in Scans /\ scan.lo \in Nat /\ scan.xi \in Nat /\ scan.hi \in Nat
      /\ scan.lo <= scan.xi /\ scan.xi <= scan.hi
  BY <1>1, SearchedPages
<1>3. scan.lo = 0 /\ scan.xi = 1 /\ R = 2
  <2>1. scan.hi < R
    BY <1>1 DEF SlotInv, ScanInRange
  <2> QED
    BY <1>1, <1>2, <2>1
<1>4. scan.page = eels_pos_page(Slot, LastStamped)
  BY <1>1 DEF HistoryInv, SearchNears, LastStamped, Top
<1>5. PICK a \in 0 .. 1, b \in 0 .. R - 1 :
        /\ Top - 1 = R * a + b
        /\ eels_pos_page(Slot, LastStamped) = Slot.begining + Slot.page_size * a
        /\ \A c \in 0 .. R - 1 :
             /\ R * a + c \in Records
             /\ eels_index_pos(Slot, R * a + c)
                  = Slot.begining + Slot.page_size * a + (Slot.page_offs + Slot.slot_log_length * c)
  BY <1>1, SearchedPages
<1>6. \A c \in 0 .. R - 1 : R * a + c \in Records /\ eels_index_pos(Slot, R * a + c) = RecAt(c)
  BY <1>4, <1>5 DEF RecAt
<1>7. LastStamped = RecAt(b)
  BY <1>5, <1>6 DEF LastStamped
<1>8. scan' = RecsHalf(b = 1)
  <2>1. 1 \in 0 .. R - 1
    BY <1>3
  <2>2. scan' = RecsHalf(Stamps[R * a + 1] = scan.epoch)
    BY <1>3, <1>6, <2>1, CounterRead DEF ScanRecs
  <2>3. Stamps[R * a + 1] = Stamps[0] <=> R * a + 1 < Top
    BY <1>2, <1>6, <2>1, ProbeTells
  <2>4. R * a + 1 < Top <=> b = 1
    BY <1>2, <1>3, <1>5
  <2> QED
    BY <1>2, <2>2, <2>3, <2>4 DEF RecsHalf
<1>9. /\ scan'.epoch = scan.epoch /\ scan'.page = scan.page
      /\ scan'.lo = IF b = 1 THEN scan.xi ELSE scan.lo
  BY <1>2, <1>8 DEF RecsHalf, Scans
<1>10. scan'.lo = b
  BY <1>3, <1>5, <1>9
<1> QED
  BY <1>1, <1>2, <1>4, <1>7, <1>9, <1>10, TopLater DEF Scanning, RecAt

LEMMA NoFurther ==
  ASSUME NEW lo \in Nat, NEW hi \in Nat, lo <= hi, lo = lo + ((hi - lo) \div 2)
  PROVE  hi \in lo .. lo + 1
<1> DEFINE q == (hi - lo) \div 2
<1>1. q \in Int /\ hi - lo <= 2 * q + 1
  OBVIOUS
<1> HIDE DEF q
<1>2. lo = lo + q
  BY DEF q
<1> QED
  BY <1>1, <1>2

(* A search ends with the last record of the current lap.                  *)
LEMMA FoundIsLast ==
  ASSUME Recoverable, SlotInv, HistoryInv,
         pc \in {"scan_recs", "scan_solid"}, scan.lo = scan.xi
  PROVE  /\ scan.epoch = Stamps[0] /\ ~ HasNone(Stamps[0])
         /\ Found \in Cursor /\ Found.epoch_counter = Stamps[0]
         /\ Found.write_position = eels_index_pos(Slot, Found.write_index)
         /\ Found.write_index \in Records /\ Top = Found.write_index + 1
<1>1. /\ Found \in Cursor
      /\ Found.write_position = eels_index_pos(Slot, Found.write_index)
  BY FoundAgrees
<1>2. slot \in Cursor /\ Found.epoch_counter = slot.epoch_counter
  BY DEF SlotInv, TypeOK, Found, Cursor
<1>3. scan.epoch = Stamps[0] /\ slot.epoch_counter = Stamps[0] /\ ~ HasNone(Stamps[0])
  BY DEF HistoryInv, SearchNears, Scanning
<1>4. Found.write_index \in Records /\ Counter_max \in Nat
  BY <1>1, SlotTypes DEF Cursor, Records
<1>5. Top \in Nat /\ 0 < Top /\ Top <= Counter_max
  BY <1>3, <1>4, ProbeTells
<1>6. CASE pc = "scan_solid"
  <2>1. /\ scan.lo \in Nat /\ scan.hi \in Nat /\ scan.lo <= scan.hi /\ scan.hi < Counter_max
    BY <1>6 DEF SlotInv, TypeOK, Scans, ScanInRange, Scanning
  <2>2. /\ scan.lo < Top
        /\ \/ Top <= scan.hi /\ scan.lo = scan.lo + ((scan.hi - scan.lo) \div 2)
           \/ scan.lo = scan.hi /\ scan.hi = Counter_max - 1
    BY <1>6 DEF HistoryInv, SearchNears, Top
  <2>3. Top = scan.lo + 1
    <3>1. CASE Top <= scan.hi /\ scan.lo = scan.lo + ((scan.hi - scan.lo) \div 2)
      <4>1. scan.hi \in scan.lo .. scan.lo + 1
        BY <2>1, <3>1, NoFurther
      <4>2. scan.lo < Top /\ Top <= scan.hi
        BY <2>2, <3>1
      <4> QED
        BY <1>5, <2>1, <4>1, <4>2
    <3>2. CASE scan.lo = scan.hi /\ scan.hi = Counter_max - 1
      BY <1>4, <1>5, <2>1, <2>2, <3>2
    <3> QED
      BY <2>2, <3>1, <3>2
  <2>4. Found.write_index = scan.lo
    BY <1>2, <1>6 DEF Found, Cursor
  <2> QED
    BY <1>1, <1>2, <1>3, <1>4, <2>3, <2>4
<1>7. CASE pc = "scan_recs"
  <2>1. LastStamped = RecAt(scan.xi)
    BY <1>7 DEF HistoryInv, SearchNears, LastStamped, Top
  <2>2. Found.write_position = RecAt(scan.xi)
    BY <1>2, <1>7 DEF Found, Cursor
  <2>3. Top - 1 \in 0 .. Counter_max - 1
    BY <1>4, <1>5
  <2>4. Found.write_index = Top - 1
    BY <1>1, <1>4, <2>1, <2>2, <2>3, IndexOfPos DEF LastStamped, Records
  <2> QED
    BY <1>1, <1>2, <1>3, <1>4, <1>5, <2>4
<1> QED
  BY <1>6, <1>7

LEMMA PredOfFirst == eels_pred_pos(Slot, Pos0) = eels_index_pos(Slot, Counter_max - 1)
<1>1. CASE UnpagedLayout(Slot)
  <2>1. Slot.page_size = 0 /\ Slot.page_records = 0
    BY <1>1 DEF UnpagedLayout
  <2>2. Pos0 = Slot.begining
    <3>1. Pos0 = Slot.begining + Slot.slot_log_length * 0
      BY <2>1 DEF Pos0, eels_index_pos
    <3> QED
      BY <3>1, SlotTypes
  <2>3. Pos0 < Slot.begining + Slot.slot_log_length
    BY <2>2, SlotTypes
  <2> DEFINE L == Slot.slot_log_length
             c == Counter_max
  <2>4. eels_pred_pos(Slot, Pos0) = Slot.begining + L * c - L
    BY <2>1, <2>3, SlotTypes DEF eels_pred_pos
  <2>5. eels_index_pos(Slot, c - 1) = Slot.begining + L * (c - 1)
    BY <2>1 DEF eels_index_pos
  <2>6. L \in Int /\ c \in Int /\ Slot.begining \in Int
    BY SlotTypes
  <2> HIDE DEF L, c
  <2>7. L * (c - 1) = L * c - L
    BY <2>6
  <2>8. L * c \in Int
    BY <2>6
  <2>9. eels_pred_pos(Slot, Pos0) = eels_index_pos(Slot, c - 1)
    BY <2>4, <2>5, <2>6, <2>7, <2>8
  <2> QED
    BY <2>9 DEF c
<1>2. CASE PagedLayout(Slot)
  BY <1>2, LastRecordPaged
<1> QED
  BY <1>1, <1>2, SlotTypes DEF SlotLayout

(* The cursor goes behind the last record of the current lap.              *)
LEMMA FindEndFinds ==
  ASSUME Recoverable, SlotInv, HistoryInv, FindEnd, want' = want
  PROVE  /\ rom' = rom /\ pc' = "idle" /\ Aligned'
         /\ ~ HasNone(Stamps[0])
         /\ slot'.write_index = want.index
         /\ slot'.overlaped = /\ Stamps[Counter_max - 1] = Stamps[want.index]
                              /\ is_next_epoch(Stamps[Counter_max - 1], Stamps[0])
<1> DEFINE s == Stamps
           last == Found.write_index
           this == eels_write_advance(Found)
<1>1. /\ pc \in {"scan_recs", "scan_solid"} /\ scan.lo = scan.xi
      /\ pc' = "idle" /\ rom' = rom /\ want' = want
  BY DEF FindEnd, Return
<1>2. /\ Counter_max \in Nat /\ Counter_max > 0 /\ want \in Marks
      /\ want.index \in Records /\ want.epoch \in Epochs /\ s \in [Records -> Byte]
  BY <1>1, Known0
<1>3. scan.epoch = s[0] /\ ~ HasNone(s[0])
  BY <1>1, FoundIsLast
<1>4. last \in Records /\ 0 \in Records /\ Counter_max - 1 \in Records
  BY <1>1, <1>2, FoundIsLast DEF Records
<1>5. Top = last + 1
  BY <1>1, FoundIsLast
<1> DEFINE here == [index |-> last, epoch |-> s[0]]
<1>6. s[0] \in Epochs /\ here \in Marks
  BY <1>2, <1>3, <1>4, StampType DEF Marks
<1>7. want = Onward(here)
  <2>1. here.index = last /\ here.epoch = s[0]
    OBVIOUS
  <2> HIDE DEF here, s
  <2>2. CASE want.index > 0
    <3>1. want.index = last + 1 /\ want.index < Counter_max
      BY <1>2, <1>5, <2>2 DEF Top, Records
    <3>2. s[0] = want.epoch
      BY <1>4, <2>2, AgedAtMost DEF StampsAged, s
    <3> QED
      BY <1>2, <1>6, <2>1, <3>1, <3>2, OnwardType DEF Marks, Onward
  <2>3. CASE want.index = 0
    <3>1. last + 1 = Counter_max
      BY <1>5, <2>3 DEF Top
    <3>2. Laps(s[0], 1, want.epoch)
      BY <1>3, <1>4, <2>3 DEF HistoryInv, LapBegins, LapBefore, s
    <3>3. Onward(here) = [index |-> 0, epoch |-> next_epoch(s[0])]
      BY <1>2, <2>1, <3>1 DEF Onward
    <3>4. next_epoch(s[0]) = want.epoch
      BY <3>2, NextIsLater DEF Laps
    <3> QED
      BY <1>2, <2>3, <3>3, <3>4 DEF Marks
  <2> QED
    BY <1>2, <2>2, <2>3 DEF Records
<1>8. /\ Found \in Cursor /\ Found.epoch_counter = s[0]
       /\ Found.write_position = eels_index_pos(Slot, Found.write_index)
  BY <1>1, FoundIsLast
<1>9. /\ this \in Cursor /\ this.write_index = want.index /\ this.epoch_counter = want.epoch
       /\ this.write_position = eels_index_pos(Slot, want.index)
  <2>1. /\ this \in Cursor
        /\ this.write_position = eels_index_pos(Slot, this.write_index)
    BY <1>8, AdvanceAgrees
  <2>2. \/ /\ last + 1 < Counter_max
           /\ this.write_index = last + 1 /\ this.epoch_counter = s[0]
        \/ /\ ~ (last + 1 < Counter_max)
           /\ this.write_index = 0 /\ this.epoch_counter = next_epoch(s[0])
    <3>1. last + 1 = Counter_max => ~ (last + 1 < Counter_max)
      BY <1>2
    <3> HIDE DEF s
    <3> QED
      BY <1>8, <3>1, AdvanceIs
  <2> HIDE DEF this, s
  <2>3. want = IF last + 1 < Counter_max THEN [index |-> last + 1, epoch |-> s[0]]
               ELSE [index |-> 0, epoch |-> next_epoch(s[0])]
    BY <1>7 DEF Onward
  <2> QED
    BY <2>1, <2>2, <2>3
<1>10. slot' = [this EXCEPT !.overlaped = Overlapped(s[Counter_max - 1], s[want.index])]
  <2>1. eels_pred_pos(Slot, Pos0) = eels_index_pos(Slot, Counter_max - 1)
    BY PredOfFirst
  <2>2. /\ _EELS_ReadCounter(eels_pred_pos(Slot, Pos0)) = {s[Counter_max - 1]}
        /\ _EELS_ReadCounter(this.write_position) = {s[want.index]}
    BY <1>2, <1>4, <1>9, <2>1, CounterRead
  <2> HIDE DEF this, s
  <2> QED
    BY <2>2 DEF FindEnd, this
<1> HIDE DEF this, s, here, last
<1>11. /\ slot'.write_index = want.index /\ slot'.epoch_counter = want.epoch
       /\ slot'.overlaped = Overlapped(s[Counter_max - 1], s[want.index])
  BY <1>9, <1>10 DEF Cursor
<1>12. Aligned'
  BY <1>1, <1>2, <1>11 DEF Aligned, Place, Marks
<1>13. Overlapped(s[Counter_max - 1], s[want.index])
         = (s[Counter_max - 1] = s[want.index] /\ is_next_epoch(s[Counter_max - 1], s[0]))
  BY <1>3 DEF Overlapped
<1> QED
  BY <1>1, <1>3, <1>11, <1>12, <1>13 DEF s

-----------------------------------------------------------------------------

(* A write is never of no byte: one that is done has programmed some.      *)
LEMMA SomeBytes ==
  ASSUME SlotInv, WriteExact, pc \in Writing
  PROVE  Len(call.bytes) # 0
<1>1. call.data \in Payloads => /\ Header(call.data) \in Seq(Byte)
                                /\ Len(Header(call.data)) = 2
                                /\ call.data \in Seq(Byte)
                                /\ Len(call.data) = Slot.raw_data_size
  BY HeaderType, Payload DEF SlotInv
<1>2. CASE pc = "insert_data"
  BY <1>1, <1>2, SlotTypes DEF WriteExact, Writing
<1>3. CASE pc = "insert_head"
  BY <1>1, <1>3 DEF WriteExact, Writing
<1>4. CASE pc = "insert_rec"
  <2>1. call.bytes = Header(call.data) \o call.data /\ call.data \in Payloads
    BY <1>4 DEF WriteExact, Writing
  <2>2. Len(Header(call.data) \o call.data) = Len(Header(call.data)) + Len(call.data)
    BY <1>1, <2>1, ConcatProperties
  <2>3. Len(call.bytes) = 2 + Slot.raw_data_size
    BY <1>1, <2>1, <2>2
  <2> QED
    BY <2>3, SlotTypes
<1>5. CASE pc = "clean_head"
  <2>1. PICK last \in 0 .. EpochNone - 1 : call.bytes = <<last + EpochNone, 255>>
    BY <1>5 DEF WriteExact, CleanHead
  <2> QED
    BY <2>1
<1> QED
  BY <1>2, <1>3, <1>4, <1>5 DEF Writing

(* A write that goes on, ends, fails or is interrupted.                    *)
LEMMA ProgrammedKept ==
  ASSUME Recoverable, SlotInv, WriteExact, HistoryInv, HTypeOK',
         NEW n \in 0 .. Len(call.bytes),
         WriteDone(n) \/ WriteFail(n) \/ PowerLoss(n), Programmed(n)
  PROVE  HistoryInv'
<1>1. Landed(n)
  BY DEF WriteDone, InsertDataDone, InsertDone, CleanDone, WriteFail, PowerLoss
<1>2. pc' \notin Scanning /\ (pc' = "off" => PowerLosses)
  BY DEF Scanning, WriteDone, InsertDataDone, InsertDone, CleanDone, WriteFail, PowerLoss,
     SwitchedOff, Return, Write
<1>3. CASE pc \notin Writing
  <2>1. UNCHANGED history /\ Len(log') = Len(log)
    BY <1>3 DEF Programmed, history
  <2>2. PowerLoss(n)
    BY <1>3, FaultAssumption
    DEF WriteDone, InsertDataDone, InsertDone, CleanDone, WriteFail, Writing
  <2>3. rom' = rom
    <3>1. TypeOK /\ call.bytes = <<>>
      BY <1>3 DEF SlotInv, WriteInRecord
    <3>2. \A a \in Addr : rom'[a] = rom[a]
      <4>1. Len(call.bytes) = 0 /\ call.at \in Nat
        BY <3>1 DEF TypeOK, Calls
      <4>2. \A a \in Addr : a \notin call.at .. call.at + Len(call.bytes) - 1
        BY <4>1
      <4> QED
        BY <1>1, <3>1, <4>2, LandedBytes
    <3>3. rom \in [Addr -> Byte] /\ rom' \in [Addr -> Byte]
      BY <1>1, <3>1, LandedBytes DEF TypeOK
    <3> QED
      BY <3>2, <3>3
  <2>4. Stamps' = Stamps
    BY <2>3, StampsType
  <2>5. pc' = "off"
    BY <2>2 DEF PowerLoss, SwitchedOff
  <2> QED
    BY <1>2, <2>1, <2>4, <2>5, NotSearching, QuietKept DEF history, Writing
<1>4. CASE pc \in Writing /\ (n = 0 \/ pc = "insert_data")
  <2>1. Stamps' = Stamps
    BY <1>1, <1>4, StampLands
  <2>2. want' = want /\ cleans' = cleans /\ Len(log') = Len(log)
    <3>1. CASE n = 0
      BY <3>1 DEF Programmed, history
    <3>2. CASE n # 0
      <4>1. Spoil
        BY <1>4, <3>2 DEF Programmed
      <4> QED
        BY <4>1, SpoilType DEF HistoryInv, SlotInv, TypeOK, Spoil
    <3> QED
      BY <3>1, <3>2
  <2>3. pc' \in {"idle"} \cup Writing => slot' = slot /\ pc' # "clean_head"
    <3>1. ~ InsertDone(n)
      BY <1>4, SomeBytes DEF InsertDone, Done, Recoverable, Writing
    <3> QED
      BY <3>1 DEF WriteDone, InsertDataDone, CleanDone, WriteFail, PowerLoss, SwitchedOff,
         Return, Write, Writing
  <2> QED
    BY <1>2, <1>4, <2>1, <2>2, <2>3, NotSearching, QuietKept
<1>5. CASE pc \in {"insert_head", "insert_rec"} /\ n # 0
  BY <1>5, CommitKept
<1>6. CASE pc = "clean_head" /\ n # 0
  BY <1>6, EmptiedKept
<1> QED
  BY <1>3, <1>4, <1>5, <1>6 DEF Writing

LEMMA HistoryKept ==
  ASSUME Recoverable, SlotInv, WriteExact, HistoryInv, [HNext]_allVars
  PROVE  HistoryInv'
<1>1. HTypeOK'
  BY HTypeKept DEF HistoryInv
<1>2. ASSUME NEW d \in Payloads, InsertLog(d) \/ InsertRec(d), UNCHANGED history
      PROVE  HistoryInv'
  <2>1. /\ rom' = rom /\ pc = "idle" /\ pc' \in {"idle", "insert_data", "insert_rec"}
        /\ slot' = slot
    BY <1>2, UnwrappedSame DEF InsertLog, InsertRec, Insert, Write, SlotInv
  <2>2. Stamps' = Stamps
    BY <2>1, StampsType
  <2> QED
    BY <1>1, <1>2, <2>1, <2>2, NotSearching, QuietKept DEF history, Writing, Scanning
<1>3. CASE BoundedClean
  BY <1>1, <1>3, CleanKept
<1>4. CASE Scan /\ UNCHANGED history
  <2>1. CASE ScanPages \/ ScanPagesEnd \/ ScanRecs
    <3>1. pc' \in Scanning
      BY <2>1 DEF ScanPages, ScanPagesEnd, ScanRecs, Scanning
    <3> QED
      BY <1>1, <1>4, <2>1, <3>1, ScanPagesFinds, ScanPagesEndFinds, ScanRecsFinds, SearchKept
      DEF history, Scanning
  <2>2. CASE FindLastPos
    BY <1>1, <1>4, <2>2, FindLastPosFinds, SearchKept DEF history
  <2>3. CASE ScanSolid
    BY <1>1, <1>4, <2>3, ScanSolidFinds, SearchKept DEF history, Scanning
  <2>4. CASE FindEnd
    BY <1>1, <1>4, <2>4, FindEndFinds, SearchKept, NotSearching DEF history, Scanning
  <2> QED
    BY <1>4, <2>1, <2>2, <2>3, <2>4 DEF Scan
<1>5. ASSUME NEW n \in 0 .. Len(call.bytes),
             WriteDone(n) \/ WriteFail(n) \/ PowerLoss(n), Programmed(n)
      PROVE  HistoryInv'
  BY <1>1, <1>5, ProgrammedKept
<1>6. CASE UNCHANGED allVars
  <2>1. rom' = rom /\ slot' = slot /\ scan' = scan /\ pc' = pc /\ UNCHANGED history
    BY <1>6 DEF allVars, history
  <2>2. Stamps' = Stamps
    BY <2>1, StampsType
  <2>3. SearchNears'
    <3>1. SearchNears
      BY DEF HistoryInv
    <3>2. want' = want /\ scan' = scan /\ slot' = slot /\ pc' = pc
      BY <2>1 DEF history
    <3> QED
      BY <2>2, <3>1, <3>2 DEF SearchNears, RecAt, Counter_max, HasNone, Scanning
  <2> QED
    BY <1>1, <2>1, <2>2, <2>3, QuietKept DEF history
<1> QED
  BY <1>2, <1>3, <1>4, <1>5, <1>6 DEF HNext

LEMMA HistoryInit ==
  ASSUME Recoverable, HInit
  PROVE  HistoryInv
<1>1. /\ Counter_max \in Nat /\ Counter_max > 0 /\ log = <<>> /\ Len(log) = 0
      /\ want = [index |-> 0, epoch |-> 0] /\ cleans = 0 /\ pc = "off"
      /\ rom = [a \in Addr |-> Blank]
  BY SlotTypes DEF HInit, Init
<1>2. \A i \in Records : Stamps[i] = Blank
  BY <1>1, StampIs
<1>3. HTypeOK
  BY <1>1, EpochTypes, HistoryAssumption DEF HTypeOK
<1>4. HasNone(Blank) /\ next_epoch(Blank) = 0 /\ 0 \in Records /\ Counter_max - 1 \in Records
  BY <1>1 DEF Recoverable, Records
<1>5. LapBegins(Stamps, want)
  BY <1>1, <1>2, <1>4 DEF LapBegins
<1>6. CursorKnown
  <2>1. StampsAged(Stamps, want, cleans + 1 - 0)
    BY <1>1, <1>2, <1>4 DEF StampsAged, Records
  <2>2. 0 \in 0 .. cleans
    BY <1>1
  <2> QED
    BY <1>1, <2>1, <2>2 DEF CursorKnown, Writing
<1>7. LengthFits(Stamps, want, Len(log))
  BY <1>1, <1>2, <1>4 DEF LengthFits, Laps
<1>8. SearchNears
  BY <1>1, <1>2, <1>4 DEF SearchNears, Scanning
<1> QED
  BY <1>3, <1>5, <1>6, <1>7, <1>8, LengthKnownIs DEF HistoryInv

(* The inductive invariant of recovery: how old the stamps behind the      *)
(* cursor are, where the cursor in RAM can be after calls that failed, and *)
(* how far the search at start-up (EELS.c:987-1001) has got.               *)
THEOREM HistoryInvariant ==
  ASSUME Recoverable
  PROVE  HSpec => []HistoryInv
<1>1. HInit => HistoryInv
  BY HistoryInit
<1>2. SlotInv /\ WriteExact /\ HistoryInv /\ [HNext]_allVars => HistoryInv'
  BY HistoryKept
<1> QED
  BY <1>1, <1>2, HistoryKeepsSlot, SlotInvariant, WritesExact, PTL DEF HSpec

(* Whatever broke off, the records of the current lap, and no others, carry *)
(* the stamp of record 0, which is all _EELS_FindLastPos has to go by: for  *)
(* any number of records, and as many cleans in a lap as EELS_EPOCH_NONE    *)
(* leaves room for; in a slot with pages, where the search works.           *)
THEOREM StampsTell ==
  ASSUME Recoverable
  PROVE  HSpec => []StampsTellTheEnd
<1>1. SlotInv /\ HistoryInv => StampsTellTheEnd
  BY TellsTheEnd
<1> QED
  BY <1>1, HistoryInvariant, HistoryKeepsSlot, SlotInvariant, PTL

(* The log does not change while the slot finds where it ends.             *)
LEMMA StartUpWatched ==
  ASSUME [HNext]_allVars, FindLastPos \/ FindEnd, pc' = "idle"
  PROVE  want' = want /\ log' = log
<1>1. pc \in {"off", "idle", "scan_recs", "scan_solid"}
  BY DEF FindLastPos, FindEnd
<1>2. ASSUME NEW k \in 0 .. Len(call.bytes)
      PROVE  ~ WriteDone(k) /\ ~ WriteFail(k) /\ ~ PowerLoss(k)
  BY <1>1, FaultAssumption
  DEF WriteDone, InsertDataDone, InsertDone, CleanDone, WriteFail, PowerLoss, SwitchedOff
<1> QED
  BY <1>2 DEF HNext, BoundedClean, history, allVars

(* A start-up leaves the cursor behind the last record stamped, whichever  *)
(* call was interrupted before, and in the middle of which byte: by the    *)
(* search over all records, or over pages and then within one.             *)
THEOREM CursorRecovery ==
  ASSUME Recoverable
  PROVE  HSpec => RecoversCursor
<1>1. SlotInv /\ HistoryInv /\ [HNext]_allVars =>
        [(FindLastPos \/ FindEnd) /\ pc' = "idle" => Aligned']_allVars
  BY StartUpWatched, FindLastPosFinds, FindEndFinds
<1> QED
  BY <1>1, HistoryInvariant, HistoryKeepsSlot, SlotInvariant, PTL DEF HSpec, RecoversCursor

LEMMA LengthFound ==
  ASSUME Recoverable, ~ MayLag \/ MaxCleans = 0,
         SlotInv, HistoryInv, [HNext]_allVars, FindLastPos \/ FindEnd, pc' = "idle",
         want.index > 0 \/ Len(log) < Counter_max
  PROVE  EELS_Len' = Len(log)
<1> DEFINE s == Stamps
           last == Counter_max - 1
<1>1. want' = want /\ log' = log
  BY StartUpWatched
<1>2. /\ want.index \in Records /\ want.epoch \in Epochs /\ s \in [Records -> Byte]
      /\ Counter_max \in Nat /\ Counter_max > 0 /\ 0 \in Records /\ last \in Records
      /\ Len(log) \in Nat
  BY Known0 DEF Records
<1>3. \/ Len(log) = Counter_max /\ LapBefore(s, want)
      \/ Len(log) = want.index /\ ~ Laps(s[last], 1, want.epoch)
  BY LengthKnownIs, HistoryAssumption DEF HistoryInv, LengthFits
<1>4. EELS_Len' = IF slot'.overlaped THEN Counter_max ELSE slot'.write_index
  BY DEF EELS_Len, Counter_max
<1>5. CASE FindLastPos
  <2>1. want.index = 0 /\ slot'.overlaped = FALSE /\ slot'.write_index = 0
    BY <1>1, <1>5, FindLastPosFinds
  <2> QED
    BY <1>2, <1>3, <1>4, <2>1
<1>6. CASE FindEnd
  <2>1. /\ ~ HasNone(s[0]) /\ slot'.write_index = want.index
        /\ slot'.overlaped = (s[last] = s[want.index] /\ is_next_epoch(s[last], s[0]))
    BY <1>1, <1>6, FindEndFinds
  <2> HIDE DEF s, last
  <2>2. CASE want.index > 0
    <3>1. s[0] = want.epoch
      BY <1>2, <2>2, AgedAtMost DEF StampsAged, s
    <3>2. is_next_epoch(s[last], s[0]) <=> Laps(s[last], 1, want.epoch)
      BY <2>1, <3>1, NextIsLater DEF is_next_epoch, Laps
    <3>3. LapBefore(s, want) => s[last] = s[want.index] /\ Laps(s[last], 1, want.epoch)
      <4> SUFFICES ASSUME LapBefore(s, want)
                   PROVE  s[last] = s[want.index] /\ Laps(s[last], 1, want.epoch)
        OBVIOUS
      <4>1. last >= want.index
        BY <1>2 DEF last, Records
      <4>2. Laps(s[last], 1, want.epoch) /\ Laps(s[want.index], 1, want.epoch)
        BY <1>2, <4>1 DEF LapBefore, Records
      <4>3. s[last] \in Epochs /\ s[want.index] \in Epochs
        BY <1>2, <4>2, StampType DEF Laps
      <4> QED
        BY <4>2, <4>3, OneLapBefore DEF Laps
    <3> QED
      BY <1>3, <1>4, <2>1, <3>2, <3>3
  <2>3. CASE want.index = 0
    <3>1. ~ (s[last] = s[0] /\ is_next_epoch(s[last], s[0]))
      <4>1. s[0] \in Epochs
        BY <1>2, <2>1, StampType
      <4>2. 0 \in Nat /\ 1 \in Nat /\ 1 + 0 < EpochNone /\ 1 > 0
        BY OneEpoch
      <4>3. Later(s[0], 1) # s[0]
        BY <4>1, <4>2, LaterAdds
      <4> QED
        BY <4>3, NextIsLater DEF is_next_epoch
    <3>2. slot'.overlaped = FALSE
      BY <2>1, <2>3, <3>1, Zenon
    <3>3. Len(log) = want.index
      BY <1>2, <1>3, <2>3
    <3> QED
      BY <1>4, <2>1, <3>2, <3>3
  <2> QED
    BY <1>2, <2>2, <2>3 DEF Records
<1> QED
  BY <1>5, <1>6

(* A start-up also finds how many logs there are, unless the ring is full  *)
(* and the cursor is at record 0.  Where an insertion may report an error  *)
(* after it has stamped its record and the log may be cleaned too, it does *)
(* not: a record of the log that was cleaned can be counted again.         *)
THEOREM LengthRecovery ==
  ASSUME Recoverable, ~ MayLag \/ MaxCleans = 0
  PROVE  HSpec => RecoversLength
<1>1. SlotInv /\ HistoryInv /\ [HNext]_allVars =>
        [(FindLastPos \/ FindEnd) /\ pc' = "idle"
           /\ (want.index > 0 \/ Len(log) < Counter_max) => EELS_Len' = Len(log)]_allVars
  BY LengthFound
<1> QED
  BY <1>1, HistoryInvariant, HistoryKeepsSlot, SlotInvariant, PTL DEF HSpec, RecoversLength

=============================================================================
