-------------------------- MODULE EELSReadingProofs --------------------------
(***************************************************************************)
(* What the application inserted is what it reads: the records of a slot   *)
(* hold its log whatever breaks off, and the reading calls find each log   *)
(* they count.  No mixture of logs passes for one, the health counters     *)
(* count what is there, and damage shows, where the CRC tells the logs     *)
(* that the application inserts from what could become of them.            *)
(***************************************************************************)
EXTENDS EELSRecoveryProofs, WellFoundedInduction, FiniteSetTheorems

-----------------------------------------------------------------------------
(* The record of the k-th log back from the one that comes next, for a     *)
(* next record v of the ring; and what the records read as.                *)

Back(v, k) == (v - 1 - k) % Counter_max

Whole(d) == [ok |-> 0, data |-> d]

Holds(r, l, v) ==
  \A k \in 0 .. Len(l) - 1 :
    l[Len(l) - k] # Lost => r[Back(v, k)] = Whole(l[Len(l) - k])

LEMMA BackIs ==
  ASSUME NEW v \in Records, NEW k \in Records
  PROVE  /\ Back(v, k) = IF k < v THEN v - 1 - k ELSE v - 1 - k + Counter_max
         /\ Back(v, k) \in Records
<1>1. Counter_max \in Nat \ {0} /\ v \in Int /\ k \in Int
  BY SlotTypes DEF Records
<1> DEFINE C == Counter_max
<1>2. CASE k < v
  <2>1. v - 1 - k \in 0 .. C - 1 /\ C * 0 + (v - 1 - k) = v - 1 - k
    BY <1>1, <1>2 DEF Records
  <2>2. (C * 0 + (v - 1 - k)) % C = v - 1 - k
    BY <1>1, <2>1, DivMod
  <2> QED
    BY <1>2, <2>1, <2>2 DEF Back, Records
<1>3. CASE ~ (k < v)
  <2> DEFINE x == v - 1 - k + C
  <2>1. x \in 0 .. C - 1 /\ C * (-1) + x = v - 1 - k
    BY <1>1, <1>3 DEF Records
  <2>2. (C * (-1) + x) % C = x
    BY <1>1, <2>1
  <2> QED
    BY <1>3, <2>1, <2>2 DEF Back, Records
<1> QED
  BY <1>2, <1>3

LEMMA BackApart ==
  ASSUME NEW v \in Records, NEW j \in Records, NEW k \in Records
  PROVE  /\ Back(v, j) = Back(v, k) => j = k
         /\ Back(v, Back(v, k)) = k
<1>1. Counter_max \in Nat /\ v \in Nat /\ j \in Nat /\ k \in Nat
      /\ v < Counter_max /\ j < Counter_max /\ k < Counter_max
  BY SlotTypes DEF Records
<1>2. Back(v, j) = Back(v, k) => j = k
  BY <1>1, BackIs
<1>3. Back(v, Back(v, k)) = k
  BY <1>1, BackIs
<1> QED
  BY <1>2, <1>3

(* The places when the ring turns by one record.                           *)
LEMMA BackTurns ==
  ASSUME NEW v \in Records, NEW to \in Records,
         to = v + 1 \/ (v + 1 = Counter_max /\ to = 0)
  PROVE  /\ Back(to, 0) = v
         /\ \A k \in Records : k # 0 =>
              k - 1 \in Records /\ Back(to, k) = Back(v, k - 1) /\ Back(to, k) # v
<1>1. Counter_max \in Nat /\ v \in Nat /\ to \in Nat
      /\ v < Counter_max /\ to < Counter_max /\ 0 \in Records
  BY SlotTypes DEF Records
<1>2. Back(to, 0) = v
  BY <1>1, BackIs
<1>3. ASSUME NEW k \in Records, k # 0
      PROVE  k - 1 \in Records /\ Back(to, k) = Back(v, k - 1) /\ Back(to, k) # v
  <2>1. k - 1 \in Records /\ k \in Nat /\ k < Counter_max
    BY <1>1, <1>3 DEF Records
  <2>2. Back(to, k) = Back(v, k - 1)
    BY <1>1, <1>3, <2>1, BackIs
  <2>3. Back(to, k) # v
    BY <1>1, <1>3, <2>1, BackIs
  <2> QED
    BY <2>1, <2>2, <2>3
<1> QED
  BY <1>2, <1>3

-----------------------------------------------------------------------------
(* What the steps do to a ring of records r that holds a log l.            *)

Logs == Seq(Payloads \cup {Lost})

LEMMA HoldsSpoil ==
  ASSUME NEW l \in Logs, Len(l) <= Counter_max, NEW v \in Records, NEW w \in Records,
         NEW r, NEW q, Holds(r, l, v), \A i \in Records : i # w => q[i] = r[i],
         NEW m, m = IF Back(v, w) < Len(l) THEN [l EXCEPT ![Len(l) - Back(v, w)] = Lost]
                    ELSE l
  PROVE  Holds(q, m, v)
<1> DEFINE a == Back(v, w)
<1>1. a \in Records /\ a \in Nat /\ Back(v, a) = w /\ Len(l) \in Nat /\ Counter_max \in Nat
  BY BackIs, BackApart, SlotTypes DEF Records, Logs
<1>2. /\ Len(m) = Len(l)
      /\ \A k \in 0 .. Len(l) - 1 : m[Len(l) - k] = IF k = a THEN Lost ELSE l[Len(l) - k]
  <2> HIDE DEF a
  <2>1. CASE a < Len(l)
    <3>1. m = [l EXCEPT ![Len(l) - a] = Lost] /\ Len(l) - a \in 1 .. Len(l)
      BY <1>1, <2>1 DEF a
    <3> QED
      BY <1>1, <2>1, <3>1 DEF Logs
  <2>2. CASE ~ (a < Len(l))
    BY <1>1, <2>2 DEF a
  <2> QED
    BY <2>1, <2>2
<1> SUFFICES ASSUME NEW k \in 0 .. Len(l) - 1, m[Len(l) - k] # Lost
             PROVE  q[Back(v, k)] = Whole(m[Len(l) - k])
  BY <1>2 DEF Holds
<1>3. k # a /\ m[Len(l) - k] = l[Len(l) - k] /\ k \in Records
  BY <1>1, <1>2 DEF Records
<1>4. Back(v, k) \in Records /\ Back(v, k) # w
  BY <1>1, <1>3, BackIs, BackApart
<1> QED
  BY <1>3, <1>4 DEF Holds

(* The log that makes room for one more.                                   *)
LEMMA TailAtEnd ==
  ASSUME NEW l, NEW t, NEW a \in Nat, NEW b \in Nat, b = a - 1,
         \A i \in 1 .. b : t[i] = l[i + 1]
  PROVE  \A k \in 0 .. b - 1 : t[b - k] = l[a - k]
<1> SUFFICES ASSUME NEW k \in 0 .. b - 1
             PROVE  t[b - k] = l[a - k]
  OBVIOUS
<1>1. b - k \in 1 .. b /\ (b - k) + 1 = a - k
  OBVIOUS
<1> QED
  BY <1>1

LEMMA BaseIs ==
  ASSUME NEW L, NEW l \in Seq(L), Len(l) <= Counter_max
  PROVE  LET base == IF Len(l) = Counter_max THEN Tail(l) ELSE l
         IN /\ base \in Seq(L) /\ Len(base) \in Nat /\ Len(base) < Counter_max
            /\ Len(base) <= Len(l)
            /\ \A k \in 0 .. Len(base) - 1 : base[Len(base) - k] = l[Len(l) - k]
<1>1. Counter_max \in Nat /\ Counter_max > 0
  BY SlotTypes
<1>2. Len(l) \in Nat
  OBVIOUS
<1>3. CASE Len(l) = Counter_max
  <2>1. l # <<>>
    <3>1. Len(<<>>) = 0
      OBVIOUS
    <3> QED
      BY <1>1, <1>3, <3>1
  <2>2. Tail(l) \in Seq(L) /\ Len(Tail(l)) = Len(l) - 1
    BY <2>1, HeadTailProperties
  <2>3. \A i \in 1 .. Len(Tail(l)) : Tail(l)[i] = l[i + 1]
    BY <2>1, HeadTailProperties
  <2>4. Len(Tail(l)) \in Nat
    BY <2>2
  <2>5. \A k \in 0 .. Len(Tail(l)) - 1 : Tail(l)[Len(Tail(l)) - k] = l[Len(l) - k]
    BY <1>2, <2>2, <2>3, <2>4, TailAtEnd
  <2>6. Len(Tail(l)) < Counter_max /\ Len(Tail(l)) <= Len(l)
    BY <1>1, <1>2, <1>3, <2>2
  <2> QED
    BY <1>3, <2>2, <2>4, <2>5, <2>6, Zenon
<1>4. CASE Len(l) # Counter_max
  <2>1. Len(l) < Counter_max /\ Len(l) <= Len(l)
    BY <1>1, <1>2, <1>4
  <2>2. \A k \in 0 .. Len(l) - 1 : l[Len(l) - k] = l[Len(l) - k]
    OBVIOUS
  <2> QED
    BY <1>2, <1>4, <2>1, <2>2, Zenon
<1> QED
  BY <1>3, <1>4

LEMMA HoldsAppend ==
  ASSUME NEW l \in Logs, Len(l) <= Counter_max, NEW v \in Records, NEW to \in Records,
         to = v + 1 \/ (v + 1 = Counter_max /\ to = 0),
         NEW r, NEW q, Holds(r, l, v), \A i \in Records : i # v => q[i] = r[i],
         NEW d \in Payloads \cup {Lost}, d # Lost => q[v] = Whole(d),
         NEW m, m = Append(IF Len(l) = Counter_max THEN Tail(l) ELSE l, d)
  PROVE  Holds(q, m, to)
<1> DEFINE L == Payloads \cup {Lost}
           base == IF Len(l) = Counter_max THEN Tail(l) ELSE l
<1>1. l \in Seq(L) /\ Len(l) \in Nat /\ Counter_max \in Nat /\ Counter_max > 0
  BY SlotTypes DEF Logs
<1>2. /\ base \in Seq(L) /\ Len(base) \in Nat /\ Len(base) < Counter_max
      /\ Len(base) <= Len(l)
      /\ \A k \in 0 .. Len(base) - 1 : base[Len(base) - k] = l[Len(l) - k]
  <2> HIDE DEF L
  <2> QED
    BY <1>1, BaseIs, Zenon
<1>7. m = Append(base, d)
  OBVIOUS
<1> HIDE DEF base, L
<1>3. /\ Len(m) = Len(base) + 1
      /\ m[Len(base) + 1] = d
      /\ \A i \in 1 .. Len(base) : m[i] = base[i]
  <2>1. d \in L
    BY DEF L
  <2> QED
    BY <1>2, <1>7, <2>1, AppendProperties
<1> SUFFICES ASSUME NEW k \in 0 .. Len(base), m[Len(base) + 1 - k] # Lost
             PROVE  q[Back(to, k)] = Whole(m[Len(base) + 1 - k])
  <2>1. Len(m) - 1 = Len(base)
    BY <1>2, <1>3
  <2> QED
    BY <1>3, <2>1 DEF Holds
<1>4. k \in Records
  BY <1>1, <1>2 DEF Records
<1>5. CASE k = 0
  <2>1. Len(base) + 1 - k = Len(base) + 1 /\ Back(to, k) = v
    BY <1>2, <1>5, BackTurns
  <2> QED
    BY <1>3, <2>1
<1>6. CASE k # 0
  <2>1. /\ Len(base) + 1 - k \in 1 .. Len(base)
        /\ Len(base) + 1 - k = Len(base) - (k - 1)
        /\ k - 1 \in 0 .. Len(base) - 1 /\ k - 1 \in 0 .. Len(l) - 1
    BY <1>1, <1>2, <1>6
  <2>2. m[Len(base) + 1 - k] = l[Len(l) - (k - 1)]
    BY <1>2, <1>3, <2>1
  <2>3. Back(to, k) = Back(v, k - 1) /\ Back(to, k) # v /\ Back(to, k) \in Records
    BY <1>4, <1>6, BackTurns, BackIs
  <2>4. r[Back(v, k - 1)] = Whole(l[Len(l) - (k - 1)])
    BY <2>1, <2>2 DEF Holds
  <2> QED
    BY <2>2, <2>3, <2>4
<1> QED
  BY <1>5, <1>6

LEMMA HoldsAgain ==
  ASSUME NEW l \in Logs, Len(l) <= Counter_max, NEW w \in Records, NEW to \in Records,
         to = w + 1 \/ (w + 1 = Counter_max /\ to = 0),
         NEW r, NEW q, Holds(r, l, to), \A i \in Records : i # w => q[i] = r[i],
         NEW d, d # Lost => q[w] = Whole(d),
         NEW m, m = [l EXCEPT ![Len(l)] = d]
  PROVE  Holds(q, m, to)
<1>1. /\ Len(l) \in Nat /\ Len(m) = Len(l) /\ Counter_max \in Nat
      /\ \A i \in 1 .. Len(l) : m[i] = IF i = Len(l) THEN d ELSE l[i]
  BY SlotTypes DEF Logs
<1> SUFFICES ASSUME NEW k \in 0 .. Len(l) - 1, m[Len(l) - k] # Lost
             PROVE  q[Back(to, k)] = Whole(m[Len(l) - k])
  BY <1>1 DEF Holds
<1>2. k \in Records /\ Len(l) - k \in 1 .. Len(l)
  BY <1>1 DEF Records
<1>3. CASE k = 0
  <2>1. Back(to, k) = w /\ m[Len(l) - k] = d
    BY <1>1, <1>2, <1>3, BackTurns
  <2> QED
    BY <2>1
<1>4. CASE k # 0
  <2>1. m[Len(l) - k] = l[Len(l) - k]
    BY <1>1, <1>2, <1>4
  <2>2. Back(to, k) \in Records /\ Back(to, k) # w
    BY <1>2, <1>4, BackTurns, BackIs
  <2> QED
    BY <2>1, <2>2 DEF Holds
<1> QED
  BY <1>3, <1>4

LEMMA HoldsFirst ==
  ASSUME NEW w \in Records, NEW to \in Records,
         to = w + 1 \/ (w + 1 = Counter_max /\ to = 0),
         NEW q, NEW d, d # Lost => q[w] = Whole(d)
  PROVE  Holds(q, <<d>>, to)
<1> SUFFICES ASSUME NEW k \in 0 .. 0, d # Lost PROVE q[Back(to, k)] = Whole(d)
  BY DEF Holds
<1>1. Back(to, k) = w
  BY BackTurns
<1> QED
  BY <1>1

-----------------------------------------------------------------------------
(* HeldInRom in these terms, before and after a step.                      *)

Readings == [i \in Records |-> _EELS_ReadLog(eels_index_pos(Slot, i))]

LEMMA LogTypes ==
  /\ HTypeOK => /\ log \in Logs /\ Len(log) \in Nat /\ Len(log) <= Counter_max
                /\ want \in Marks /\ want.index \in Records
  /\ HTypeOK' => /\ log' \in Logs /\ Len(log') \in Nat /\ Len(log') <= Counter_max
                 /\ want' \in Marks /\ want'.index \in Records
BY SlotTypes DEF HTypeOK, Logs, Marks, Records, Epochs, Counter_max

LEMMA HeldIs ==
  ASSUME HTypeOK
  PROVE  HeldInRom <=> Holds(Readings, log, want.index)
<1>1. log \in Logs /\ Len(log) \in Nat /\ Len(log) <= Counter_max /\ want.index \in Records
      /\ Counter_max \in Nat
  BY LogTypes, SlotTypes
<1>2. ASSUME NEW k \in 0 .. Len(log) - 1
      PROVE  Readings[Back(want.index, k)] = _EELS_ReadLog(eels_index_pos(Slot, RecordOf(k)))
  <2>1. k \in Records
    BY <1>1 DEF Records
  <2>2. Back(want.index, k) \in Records /\ RecordOf(k) = Back(want.index, k)
    BY <1>1, <2>1, BackIs DEF RecordOf, Back
  <2> QED
    BY <2>2 DEF Readings
<1> QED
  BY <1>2 DEF HeldInRom, Holds, Newer, Whole, EELS_ERROR_OK

LEMMA HeldLater ==
  ASSUME HTypeOK'
  PROVE  HeldInRom' <=> Holds(Readings', log', want'.index)
<1>1. log' \in Logs /\ Len(log') \in Nat /\ Len(log') <= Counter_max /\ want'.index \in Records
      /\ Counter_max \in Nat
  BY LogTypes, SlotTypes
<1>2. ASSUME NEW k \in 0 .. Len(log') - 1
      PROVE  /\ RecordOf(k)' = Back(want'.index, k)
             /\ Readings'[RecordOf(k)'] = _EELS_ReadLog(eels_index_pos(Slot, RecordOf(k)))'
  <2>1. k \in Records
    BY <1>1 DEF Records
  <2>2. Back(want'.index, k) \in Records /\ RecordOf(k)' = Back(want'.index, k)
    BY <1>1, <2>1, BackIs DEF RecordOf, Back, Counter_max
  <2> QED
    BY <2>2 DEF Readings, Records, Counter_max
<1> QED
  BY <1>2 DEF HeldInRom, Holds, Newer, Whole, EELS_ERROR_OK

LEMMA NothingLands ==
  ASSUME TypeOK, Landed(0)
  PROVE  rom' = rom
<1>1. SubSeq(call.bytes, 1, 0) = <<>>
  BY DEF TypeOK, Calls
<1>2. rom' = [a \in Addr |-> rom[a]]
  <2>1. call.at .. call.at + 0 - 1 = {} /\ Len(<<>>) = 0
    BY DEF TypeOK, Calls
  <2> QED
    BY <1>1, <2>1 DEF Landed, Program
<1> QED
  BY <1>2 DEF TypeOK

LEMMA ReadingOf ==
  ASSUME NEW i \in Records
  PROVE  /\ Readings[i] = _EELS_ReadLog(eels_index_pos(Slot, i))
         /\ Readings'[i] = _EELS_ReadLog(eels_index_pos(Slot, i))'
BY DEF Readings, Records, Counter_max

LEMMA ReadingsQuiet ==
  ASSUME rom' = rom
  PROVE  Readings' = Readings
BY DEF Readings, Records, Counter_max, _EELS_ReadLog, PosOk, DataAt, CrcAt

LEMMA ReadingsLand ==
  ASSUME SlotInv, pc \in {"idle"} \cup Writing, NEW k \in 0 .. Len(call.bytes), Landed(k)
  PROVE  \A i \in Records : i # slot.write_index => Readings'[i] = Readings[i]
<1> SUFFICES ASSUME NEW i \in Records, i # slot.write_index
             PROVE  Readings'[i] = Readings[i]
  OBVIOUS
<1>1. _EELS_ReadLog(eels_index_pos(Slot, i))' = _EELS_ReadLog(eels_index_pos(Slot, i))
  BY OtherReadingKept DEF Records
<1> QED
  BY <1>1 DEF Readings, Records, Counter_max

-----------------------------------------------------------------------------
(* The records hold the log, step by step.                                 *)

LEMMA NothingHeldLost ==
  ASSUME HTypeOK, HTypeOK', HeldInRom, rom' = rom, log' = log, want' = want
  PROVE  HeldInRom'
<1>1. Readings' = Readings
  BY ReadingsQuiet
<1> QED
  BY <1>1, HeldIs, HeldLater

LEMMA SpoilHeld ==
  ASSUME SlotInv, HTypeOK, HTypeOK', HeldInRom, pc \in Writing,
         NEW n \in 0 .. Len(call.bytes), Landed(n), Spoil
  PROVE  HeldInRom'
<1> DEFINE v == want.index
           w == slot.write_index
<1>1. /\ log \in Logs /\ Len(log) <= Counter_max /\ v \in Records /\ w \in Records
      /\ want' = want
  BY LogTypes, WritingCursor DEF Spoil
<1>2. Holds(Readings, log, v)
  BY HeldIs
<1>3. \A i \in Records : i # w => Readings'[i] = Readings[i]
  BY ReadingsLand
<1>4. log' = IF Back(v, w) < Len(log) THEN [log EXCEPT ![Len(log) - Back(v, w)] = Lost]
             ELSE log
  BY DEF Spoil, Age, Back
<1> HIDE DEF v, w
<1>5. Holds(Readings', log', v)
  BY <1>1, <1>2, <1>3, <1>4, HoldsSpoil
<1> QED
  BY <1>1, <1>5, HeldLater DEF v

(* What Commit makes of a log l whose next record is v, by the record w     *)
(* under the cursor and the one after it.                                  *)
Commits(l, v, w, to, d, m) ==
  \/ v = w /\ m = Append(IF Len(l) = Counter_max THEN Tail(l) ELSE l, d)
  \/ v = to /\ m = [l EXCEPT ![Len(l)] = d]
  \/ m = <<d>>

Turns(w, to)      == to = w + 1 \/ (w + 1 = Counter_max /\ to = 0)
OthersKeep(w, r, q) == \A i \in Records : i # w => q[i] = r[i]

LEMMA CommitHolds ==
  ASSUME NEW l \in Logs, Len(l) <= Counter_max,
         NEW v \in Records, NEW w \in Records, NEW to \in Records, Turns(w, to),
         NEW r, NEW q, Holds(r, l, v), OthersKeep(w, r, q),
         NEW d \in Payloads \cup {Lost}, d # Lost => q[w] = Whole(d),
         NEW m, Commits(l, v, w, to, d, m)
  PROVE  Holds(q, m, to)
<1>0. /\ to = w + 1 \/ (w + 1 = Counter_max /\ to = 0)
      /\ \A i \in Records : i # w => q[i] = r[i]
  BY DEF Turns, OthersKeep
<1>1. CASE v = w /\ m = Append(IF Len(l) = Counter_max THEN Tail(l) ELSE l, d)
  <2>1. Holds(r, l, w)
    BY <1>1
  <2>2. m = Append(IF Len(l) = Counter_max THEN Tail(l) ELSE l, d)
    BY <1>1
  <2> QED
    BY <1>0, <2>1, <2>2, HoldsAppend
<1>2. CASE v = to /\ m = [l EXCEPT ![Len(l)] = d]
  <2>1. Holds(r, l, to)
    BY <1>2
  <2>2. m = [l EXCEPT ![Len(l)] = d]
    BY <1>2
  <2> QED
    BY <1>0, <2>1, <2>2, HoldsAgain
<1>3. CASE m = <<d>>
  BY <1>0, <1>3, HoldsFirst
<1> QED
  BY <1>1, <1>2, <1>3 DEF Commits

LEMMA CommitHeld ==
  ASSUME Unnoticed = {}, SlotInv, WriteExact, HTypeOK, HTypeOK', HeldInRom,
         pc \in {"insert_head", "insert_rec"},
         NEW n \in 0 .. Len(call.bytes), Landed(n),
         NEW d \in Payloads \cup {Lost}, Commit(d),
         d # Lost => n = Len(call.bytes) /\ d = call.data,
         NEW v, v = want.index, NEW w, w = slot.write_index, NEW to, to = want'.index,
         NEW l, l = log, NEW m, m = log', NEW r, r = Readings, NEW q, q = Readings'
  PROVE  HeldInRom'
<1>1. /\ l \in Logs /\ Len(l) <= Counter_max /\ v \in Records /\ w \in Records
      /\ to \in Records
  BY LogTypes, WritingCursor DEF Writing
<1>2. Holds(r, l, v)
  BY HeldIs
<1>3. OthersKeep(w, r, q)
  BY ReadingsLand DEF Writing, OthersKeep
<1>4. d # Lost => q[w] = Whole(d)
  <2>1. SUFFICES ASSUME d # Lost PROVE q[w] = Whole(d)
    OBVIOUS
  <2>2. Landed(Len(call.bytes)) /\ "insert_data" \notin Unnoticed
    BY <2>1
  <2>3. _EELS_ReadLog(eels_index_pos(Slot, w))' = [ok |-> 0, data |-> call.data]
    BY <2>2, InsertLands
  <2>4. Readings'[w] = _EELS_ReadLog(eels_index_pos(Slot, w))'
    BY <1>1, ReadingOf
  <2> QED
    BY <2>1, <2>3, <2>4 DEF Whole
<1>5. Turns(w, to)
  <2>1. /\ Place(slot) \in Marks /\ Place(slot).index = w
        /\ want' = Onward(Place(slot))
    BY AdvanceOnward, PlaceType DEF Commit, Writing, Place
  <2> QED
    BY <2>1, OnwardType DEF Turns
<1>6. Commits(l, v, w, to, d, m)
  <2>1. CASE Aligned
    BY <2>1 DEF Commit, Aligned, Place, Commits
  <2>2. CASE ~ Aligned /\ Stamped
    BY <2>2 DEF Commit, Stamped, Commits
  <2>3. CASE ~ Aligned /\ ~ Stamped
    BY <2>3 DEF Commit, Commits
  <2> QED
    BY <2>1, <2>2, <2>3
<1>7. Holds(q, m, to)
  BY <1>1, <1>2, <1>3, <1>4, <1>5, <1>6, CommitHolds, Zenon
<1> QED
  BY <1>7, HeldLater

LEMMA ProgrammedHeld ==
  ASSUME Unnoticed = {}, SlotInv, WriteExact, HTypeOK, HTypeOK', HeldInRom,
         NEW n \in 0 .. Len(call.bytes),
         WriteDone(n) \/ WriteFail(n) \/ PowerLoss(n), Programmed(n)
  PROVE  HeldInRom'
<1>1. Landed(n)
  BY DEF WriteDone, InsertDataDone, InsertDone, CleanDone, WriteFail, PowerLoss
<1>2. CASE n = 0 \/ pc \notin Writing
  <2>1. n = 0
    <3>1. pc \notin Writing => call.bytes = <<>>
      BY DEF SlotInv, WriteInRecord
    <3>2. Len(<<>>) = 0
      OBVIOUS
    <3> QED
      BY <1>2, <3>1, <3>2
  <2>2. rom' = rom
    BY <1>1, <2>1, NothingLands DEF SlotInv
  <2>3. UNCHANGED history
    BY <1>2 DEF Programmed
  <2> QED
    BY <2>2, <2>3, NothingHeldLost DEF history
<1>3. CASE n # 0 /\ pc = "insert_data"
  <2>1. Spoil
    BY <1>3 DEF Programmed, Writing
  <2> QED
    BY <1>1, <1>3, <2>1, SpoilHeld DEF Writing
<1>4. CASE n # 0 /\ pc \in {"insert_head", "insert_rec"}
  <2> DEFINE d == IF n = Len(call.bytes) THEN call.data ELSE Lost
  <2>1. Commit(d)
    BY <1>4 DEF Programmed, Writing
  <2>2. d \in Payloads \cup {Lost}
    BY <1>4 DEF WriteExact, Writing
  <2>3. d # Lost => n = Len(call.bytes) /\ d = call.data
    OBVIOUS
  <2> HIDE DEF d
  <2> QED
    BY <1>1, <1>4, <2>1, <2>2, <2>3, CommitHeld
<1>5. CASE n # 0 /\ pc = "clean_head"
  <2>1. log' = <<>>
    BY <1>5 DEF Programmed, Writing, Emptied
  <2>2. Len(log') = 0
    BY <2>1
  <2>3. \A k \in 0 .. Len(log') - 1 : FALSE
    BY <2>2
  <2>4. Holds(Readings', log', want'.index)
    BY <2>3 DEF Holds
  <2> QED
    BY <2>4, HeldLater
<1> QED
  BY <1>2, <1>3, <1>4, <1>5 DEF Writing

LEMMA HeldKept ==
  ASSUME Unnoticed = {}, SlotInv, WriteExact, HTypeOK, HeldInRom, [HNext]_allVars
  PROVE  HeldInRom'
<1>1. HTypeOK'
  BY HTypeKept
<1>2. ASSUME NEW d \in Payloads, InsertLog(d) \/ InsertRec(d), UNCHANGED history
      PROVE  HeldInRom'
  BY <1>1, <1>2, NothingHeldLost DEF InsertLog, InsertRec, Insert, history
<1>3. CASE BoundedClean
  BY <1>1, <1>3, NothingHeldLost DEF BoundedClean, CleanLog
<1>4. CASE Scan /\ UNCHANGED history
  BY <1>1, <1>4, NothingHeldLost
  DEF Scan, FindLastPos, ScanPages, ScanPagesEnd, ScanRecs, ScanSolid, FindEnd, history
<1>5. ASSUME NEW n \in 0 .. Len(call.bytes),
             WriteDone(n) \/ WriteFail(n) \/ PowerLoss(n), Programmed(n)
      PROVE  HeldInRom'
  BY <1>1, <1>5, ProgrammedHeld
<1>6. CASE UNCHANGED allVars
  BY <1>1, <1>6, NothingHeldLost DEF allVars
<1> QED
  BY <1>2, <1>3, <1>4, <1>5, <1>6 DEF HNext

(* The EEPROM holds the log: whatever breaks off between two bytes, the     *)
(* record each log is to be in reads as that log, in a slot with pages and  *)
(* in one without, whether or not its reads fail.                           *)
THEOREM RecordsHold ==
  ASSUME Unnoticed = {}
  PROVE  HSpec => []HeldInRom
<1>1. HInit => HeldInRom
  <2> SUFFICES ASSUME HInit PROVE HeldInRom
    OBVIOUS
  <2>1. log = <<>>
    BY DEF HInit
  <2>2. Len(log) = 0
    BY <2>1
  <2>3. \A k \in 0 .. Len(log) - 1 : FALSE
    BY <2>2
  <2> QED
    BY <2>3 DEF HeldInRom
<1>2. SlotInv /\ WriteExact /\ HTypeOK /\ HeldInRom /\ [HNext]_allVars => HeldInRom'
  BY HeldKept
<1> QED
  BY <1>1, <1>2, HistoryKeepsSlot, HistoryTypes, SlotInvariant, WritesExact, PTL DEF HSpec

-----------------------------------------------------------------------------
(* The logs that are counted are in the log.                               *)

CursorLen(this) == IF this.overlaped THEN Counter_max ELSE this.write_index

LEMMA AdvanceLater ==
  eels_write_advance(slot)' = eels_write_advance(slot')
BY DEF eels_write_advance, BeyondTop, next_epoch, Counter_max, Pos0

(* CountedOnly after a step.                                               *)
LEMMA CountedLater ==
  CountedOnly' <=>
    (pc' \in {"idle"} \cup Writing =>
       /\ CursorLen(slot') <= Len(log')
       /\ CursorLen(slot') > 0 =>
            Aligned' \/ want' = Place(eels_write_advance(slot'))
       /\ want' = Place(eels_write_advance(slot')) =>
            CursorLen(eels_write_advance(slot')) <= Len(log'))
<1>1. Stamped' <=> want' = Place(eels_write_advance(slot'))
  BY AdvanceLater DEF Stamped, Place
<1>2. EELS_Len' = CursorLen(slot')
  BY DEF EELS_Len, CursorLen, Counter_max
<1> QED
  BY <1>1, <1>2, AdvanceLater DEF CountedOnly, CursorLen, Counter_max, Writing

LEMMA CountedNow ==
  CountedOnly <=>
    (pc \in {"idle"} \cup Writing =>
       /\ CursorLen(slot) <= Len(log)
       /\ CursorLen(slot) > 0 => Aligned \/ Stamped
       /\ Stamped => CursorLen(eels_write_advance(slot)) <= Len(log))
BY DEF CountedOnly, CursorLen, EELS_Len

LEMMA CursorLenAdvances ==
  ASSUME SlotInv, pc \in {"idle"} \cup Writing
  PROVE  /\ CursorLen(slot) \in 0 .. Counter_max
         /\ CursorLen(eels_write_advance(slot))
              = IF CursorLen(slot) = Counter_max THEN Counter_max
                ELSE CursorLen(slot) + 1
<1>1. /\ slot \in Cursor /\ slot.write_index \in Records
      /\ slot.write_position = eels_index_pos(Slot, slot.write_index)
      /\ Counter_max \in Nat /\ Counter_max > 0
  BY SlotTypes, WritingCursor
<1>2. \/ /\ slot.write_index + 1 < Counter_max
         /\ eels_write_advance(slot).write_index = slot.write_index + 1
         /\ eels_write_advance(slot).overlaped = slot.overlaped
      \/ /\ slot.write_index + 1 = Counter_max
         /\ eels_write_advance(slot).overlaped = TRUE
  BY <1>1, AdvanceIs
<1>3. slot.overlaped \in BOOLEAN
  BY <1>1 DEF Cursor
<1> QED
  BY <1>1, <1>2, <1>3 DEF CursorLen, Records

(* The place of a cursor is not the one behind it.                         *)
LEMMA OnwardFrom ==
  ASSUME NEW this \in Cursor,
         this.write_position = eels_index_pos(Slot, this.write_index)
  PROVE  /\ Place(this) \in Marks
         /\ Place(eels_write_advance(this)) = Onward(Place(this))
         /\ Place(eels_write_advance(this)) # Place(this)
<1>1. /\ Place(this) \in Marks /\ Place(this).index = this.write_index
      /\ Place(this).epoch = this.epoch_counter
  BY PlaceType
<1>2. Place(eels_write_advance(this)) = Onward(Place(this))
  <2>1. \/ /\ this.write_index + 1 < Counter_max
           /\ eels_write_advance(this)
                = [write_position |-> eels_index_pos(Slot, this.write_index + 1),
                   write_index    |-> this.write_index + 1,
                   epoch_counter  |-> this.epoch_counter,
                   overlaped      |-> this.overlaped]
        \/ /\ this.write_index + 1 = Counter_max
           /\ eels_write_advance(this)
                = [write_position |-> Pos0, write_index |-> 0,
                   epoch_counter |-> next_epoch(this.epoch_counter),
                   overlaped |-> TRUE]
    BY AdvanceIs
  <2>2. this.write_index \in Int /\ Counter_max \in Int
    BY SlotTypes DEF Cursor
  <2> QED
    BY <2>1, <2>2 DEF Place, Onward
<1> QED
  BY <1>1, <1>2, OnwardType

(* A quiet step: the cursor stays where it was, or is not looked at.       *)
LEMMA CountedQuiet ==
  ASSUME CountedOnly, Len(log') = Len(log), want' = want,
         pc' \in {"idle"} \cup Writing =>
           slot' = slot /\ pc \in {"idle"} \cup Writing
  PROVE  CountedOnly'
BY CountedNow, CountedLater DEF Aligned, Stamped, Place

LEMMA CountedCommit ==
  ASSUME SlotInv, HTypeOK, CountedOnly, pc \in {"insert_head", "insert_rec"},
         NEW d \in Payloads \cup {Lost}, Commit(d)
  PROVE  /\ CursorLen(slot) <= Len(log')
         /\ CursorLen(eels_write_advance(slot)) <= Len(log')
<1>1. /\ Aligned => Len(log') = IF Len(log) = Counter_max THEN Len(log) ELSE Len(log) + 1
      /\ ~ Aligned /\ Stamped => Len(log') = Len(log)
      /\ ~ Aligned /\ ~ Stamped => Len(log') = 1
  BY CommitType DEF Writing
<1>2. /\ CursorLen(slot) <= Len(log)
      /\ CursorLen(slot) > 0 => Aligned \/ Stamped
      /\ Stamped => CursorLen(eels_write_advance(slot)) <= Len(log)
  BY CountedNow DEF Writing
<1>3. /\ CursorLen(slot) \in 0 .. Counter_max
      /\ CursorLen(eels_write_advance(slot))
           = IF CursorLen(slot) = Counter_max THEN Counter_max
             ELSE CursorLen(slot) + 1
  BY CursorLenAdvances DEF Writing
<1>4. Len(log) \in Nat /\ Len(log) <= Counter_max /\ Counter_max \in Nat /\ Counter_max > 0
  BY LogTypes, SlotTypes
<1>5. CASE Aligned
  BY <1>1, <1>2, <1>3, <1>4, <1>5
<1>6. CASE ~ Aligned /\ Stamped
  BY <1>1, <1>2, <1>3, <1>4, <1>6
<1>7. CASE ~ Aligned /\ ~ Stamped
  BY <1>1, <1>2, <1>3, <1>4, <1>7
<1> QED
  BY <1>5, <1>6, <1>7

(* A clean counts no log, and leaves no cursor one record behind the end   *)
(* of an empty log.                                                        *)
LEMMA CleanStamps ==
  ASSUME Recoverable, ~ MayLag, SlotInv', HistoryInv', slot'.write_index = 0,
         pc' \in {"idle"} \cup Writing,
         NEW at, at = want', at = Place(eels_write_advance(slot)')
  PROVE  Len(log') > 0
<1>1. /\ Len(log') \in Nat /\ Counter_max \in Nat /\ Counter_max > 0
      /\ at \in Marks /\ at.epoch \in Epochs /\ 0 \in Records
  BY LogTypes, SlotTypes DEF HistoryInv, Marks, Records
<1>2. /\ slot' \in Cursor
      /\ slot'.write_position = eels_index_pos(Slot, slot'.write_index)
  BY DEF SlotInv, TypeOK, CursorAgrees, Cursor, Counter_max, Writing
<1> DEFINE here == Place(slot')
<1>3. /\ here \in Marks /\ here.index = 0 /\ here.epoch = slot'.epoch_counter
      /\ here.epoch \in Epochs
  BY <1>2, PlaceType DEF Marks
<1>4. at = Onward(here)
  BY <1>2, OnwardFrom, AdvanceLater
<1> HIDE DEF here
<1>5. LengthFits(Stamps', at, Len(log'))
  BY LengthKnownLater DEF HistoryInv
<1> SUFFICES ASSUME Len(log') = 0 PROVE FALSE
  BY <1>1
<1>6. at.index = 0 /\ ~ Laps(Stamps'[Counter_max - 1], 1, at.epoch)
  BY <1>1, <1>5 DEF LengthFits
<1>7. Counter_max = 1 /\ at.epoch = Later(here.epoch, 1)
  BY <1>1, <1>3, <1>4, <1>6, OnwardType
<1>8. PICK k \in 0 .. cleans' :
        \/ k > 0 /\ slot'.epoch_counter = Later(at.epoch, k)
        \/ Aligned'
  BY DEF HistoryInv, CursorKnown, AheadBy, Later, Writing, MayLag
<1>9. CASE k > 0 /\ here.epoch = Later(at.epoch, k)
  <2>1. /\ k \in Nat /\ 1 \in Nat /\ k + 1 < EpochNone /\ k + 1 > 0 /\ k + 1 \in Nat
        /\ 0 \in Nat
    <3>1. cleans' \in 0 .. MaxCleans /\ MaxCleans <= EpochNone - 2 /\ MaxCleans \in Nat
      BY HistoryAssumption DEF HistoryInv, HTypeOK, Recoverable
    <3> QED
      BY <1>9, <3>1, EpochTypes
  <2>2. Later(Later(at.epoch, k), 1) = Later(at.epoch, k + 1)
    BY <1>1, <2>1, LaterAdds
  <2>3. Later(at.epoch, k + 1) # at.epoch
    <3>1. (k + 1) + 0 < EpochNone
      BY <2>1
    <3> QED
      BY <1>1, <2>1, <3>1, LaterAdds
  <2> QED
    BY <1>7, <1>9, <2>2, <2>3
<1>10. CASE Aligned'
  <2>1. at = here
    BY <1>10 DEF Aligned, Place, here
  <2> QED
    BY <1>3, <1>4, <2>1, OnwardType
<1> QED
  BY <1>3, <1>8, <1>9, <1>10

LEMMA CountedClean ==
  ASSUME Recoverable, ~ MayLag \/ MaxCleans = 0,
         SlotInv, SlotInv', HistoryInv, HistoryInv', BoundedClean
  PROVE  CountedOnly'
<1>1. pc = "idle" /\ log' = log /\ want' = want /\ cleans < MaxCleans
      /\ cleans' = cleans + 1
  BY DEF BoundedClean, CleanLog
<1>2. ~ MayLag
  BY <1>1, HistoryAssumption DEF HistoryInv, HTypeOK
<1>3. slot'.overlaped = FALSE /\ slot'.write_index = 0 /\ pc' \in {"idle"} \cup Writing
  <2>1. PICK epoch \in _EELS_ReadCounter(Pos0) : CleanEmpty(epoch) \/ CleanStamped(epoch)
    BY DEF BoundedClean, CleanLog
  <2>2. slot.write_position = Pos0 => slot.write_index = 0
    BY <1>1, WritingCursor, PosZero, IndexOfPos, SlotTypes DEF Records
  <2> QED
    BY <1>1, <2>1, <2>2 DEF CleanEmpty, CleanStamped, Write, Writing
<1>4. Len(log') \in Nat /\ Counter_max \in Nat /\ Counter_max > 0
  BY LogTypes, SlotTypes DEF HistoryInv
<1>5. CursorLen(slot') = 0
  BY <1>3 DEF CursorLen
<1>6. ASSUME want' = Place(eels_write_advance(slot'))
      PROVE  CursorLen(eels_write_advance(slot')) <= Len(log')
  <2>1. Len(log') > 0
    BY <1>2, <1>3, <1>6, CleanStamps, AdvanceLater
  <2>2. CursorLen(eels_write_advance(slot')) = 1
    <3>1. /\ slot' \in Cursor
          /\ slot'.write_position = eels_index_pos(Slot, slot'.write_index)
      BY <1>3 DEF SlotInv, TypeOK, CursorAgrees, Cursor, Counter_max, Writing
    <3> QED
      BY <1>3, <1>4, <3>1, AdvanceIs DEF CursorLen
  <2> QED
    BY <1>4, <2>1, <2>2
<1> QED
  BY <1>4, <1>5, <1>6, CountedLater

LEMMA CountedProgrammed ==
  ASSUME Unnoticed = {}, SlotInv, WriteExact, HTypeOK, HTypeOK', CountedOnly,
         NEW n \in 0 .. Len(call.bytes),
         WriteDone(n) \/ WriteFail(n) \/ PowerLoss(n), Programmed(n)
  PROVE  CountedOnly'
<1>1. CASE PowerLoss(n)
  BY <1>1, CountedLater DEF PowerLoss, SwitchedOff, Writing
<1>2. CASE WriteDone(n) \/ WriteFail(n)
  <2>1. pc \in Writing
    BY <1>2, FaultAssumption
    DEF WriteDone, InsertDataDone, InsertDone, CleanDone, WriteFail, Writing
  <2>2. pc \notin {"insert_head", "insert_rec"} \/ WriteFail(n) => slot' = slot
    BY <1>2 DEF WriteDone, InsertDataDone, InsertDone, CleanDone, WriteFail
  <2>3. CASE n = 0
    <3>1. WriteFail(n)
      <4>1. WriteDone(n) => n = Len(call.bytes)
        BY DEF WriteDone, InsertDataDone, InsertDone, CleanDone, Done
      <4>2. Len(call.bytes) # 0
        BY <2>1, SomeBytes
      <4> QED
        BY <1>2, <2>3, <4>1, <4>2
    <3>2. UNCHANGED history
      BY <2>3 DEF Programmed
    <3> QED
      BY <2>1, <2>2, <3>1, <3>2, CountedQuiet DEF history
  <2>4. CASE n # 0 /\ pc = "insert_data"
    <3>1. Spoil
      BY <2>1, <2>4 DEF Programmed
    <3>2. Len(log') = Len(log) /\ want' = want
      BY <3>1, SpoilType DEF Spoil, SlotInv, TypeOK
    <3> QED
      BY <2>1, <2>2, <2>4, <3>2, CountedQuiet
  <2>5. CASE n # 0 /\ pc \in {"insert_head", "insert_rec"}
    <3>1. PICK d \in Payloads \cup {Lost} : Commit(d)
      BY <2>1, <2>5 DEF Programmed, WriteExact, Writing
    <3>2. /\ CursorLen(slot) <= Len(log')
          /\ CursorLen(eels_write_advance(slot)) <= Len(log')
          /\ want' = Place(eels_write_advance(slot))
      BY <2>5, <3>1, CountedCommit DEF Commit
    <3>3. CASE WriteFail(n)
      BY <2>2, <3>2, <3>3, CountedLater
    <3>4. CASE WriteDone(n)
      <4>1. slot' = eels_write_advance(slot) /\ pc' = "idle"
        BY <2>5, <3>4 DEF WriteDone, InsertDataDone, InsertDone, CleanDone, Return
      <4>2. Aligned'
        BY <3>2, <4>1 DEF Aligned, Place
      <4>3. want' # Place(eels_write_advance(slot'))
        <5>1. SlotInv'
          BY <1>2, NextKeeps DEF Next
        <5>2. /\ slot' \in Cursor
              /\ slot'.write_position = eels_index_pos(Slot, slot'.write_index)
          BY <4>1, <5>1 DEF SlotInv, TypeOK, CursorAgrees, Cursor, Counter_max
        <5> QED
          BY <4>2, <5>2, OnwardFrom DEF Aligned, Place
      <4> QED
        BY <3>2, <4>1, <4>2, <4>3, CountedLater
    <3> QED
      BY <1>2, <3>3, <3>4
  <2>6. CASE n # 0 /\ pc = "clean_head"
    <3>1. log' = <<>> /\ want' = Place(slot)
      BY <2>1, <2>6 DEF Programmed, Emptied
    <3>2. slot' = slot /\ Len(log') = 0
      BY <2>2, <2>6, <3>1
    <3>3. CursorLen(slot') = 0
      BY <2>6, <3>2 DEF WriteExact, EELS_Len, CursorLen
    <3>4. want' # Place(eels_write_advance(slot'))
      <4>1. /\ slot \in Cursor
            /\ slot.write_position = eels_index_pos(Slot, slot.write_index)
        BY <2>1, WritingCursor
      <4> QED
        BY <3>1, <3>2, <4>1, OnwardFrom
    <3> QED
      BY <3>2, <3>3, <3>4, CountedLater
  <2> QED
    BY <2>1, <2>3, <2>4, <2>5, <2>6 DEF Writing
<1> QED
  BY <1>1, <1>2

LEMMA CountedFound ==
  ASSUME Recoverable, ~ MayLag \/ MaxCleans = 0,
         SlotInv, SlotInv', HistoryInv, CountedOnly, [HNext]_allVars, Scan, UNCHANGED history
  PROVE  CountedOnly'
<1>1. CASE pc' # "idle"
  <2>1. pc' \notin Writing
    BY DEF Scan, FindLastPos, FindEmpty, FindStart, Return, ScanPages, ScanPagesEnd,
       ScanRecs, ScanSolid, FindEnd, Writing
  <2> QED
    BY <1>1, <2>1, CountedLater
<1>2. CASE pc' = "idle"
  <2>1. FindLastPos \/ FindEnd
    BY <1>2 DEF Scan, ScanPages, ScanPagesEnd, ScanRecs, ScanSolid
  <2>2. /\ want' = want /\ log' = log /\ Aligned'
        /\ Len(log) \in Nat /\ Len(log) <= Counter_max /\ Counter_max \in Nat
    BY <1>2, <2>1, FindLastPosFinds, FindEndFinds, LogTypes, SlotTypes
    DEF history, HistoryInv
  <2>3. /\ slot' \in Cursor
        /\ slot'.write_position = eels_index_pos(Slot, slot'.write_index)
    BY <1>2 DEF SlotInv, TypeOK, CursorAgrees, Cursor, Counter_max
  <2>4. CursorLen(slot') <= Len(log')
    <3>1. CursorLen(slot') <= Counter_max
      BY <2>2, <2>3 DEF CursorLen, Cursor
    <3>2. EELS_Len' = CursorLen(slot')
      BY DEF EELS_Len, CursorLen, Counter_max
    <3>3. want.index > 0 \/ Len(log) < Counter_max => CursorLen(slot') = Len(log)
      BY <1>2, <2>1, <3>2, LengthFound
    <3>4. CASE Len(log) < Counter_max
      BY <2>2, <3>3, <3>4
    <3>5. CASE Len(log) = Counter_max
      BY <2>2, <3>1, <3>5
    <3> QED
      BY <2>2, <3>4, <3>5
  <2>5. want' # Place(eels_write_advance(slot'))
    BY <2>2, <2>3, OnwardFrom DEF Aligned, Place
  <2> QED
    BY <2>2, <2>4, <2>5, CountedLater
<1> QED
  BY <1>1, <1>2

LEMMA CountedKept ==
  ASSUME Recoverable, ~ MayLag \/ MaxCleans = 0,
         SlotInv, WriteExact, HistoryInv, CountedOnly, [HNext]_allVars
  PROVE  CountedOnly'
<1>1. SlotInv' /\ HistoryInv' /\ HTypeOK /\ HTypeOK'
  BY HistoryKept, HistoryWatches, NextKeeps, HTypeKept DEF HistoryInv
<1>2. ASSUME NEW d \in Payloads, InsertLog(d) \/ InsertRec(d), UNCHANGED history
      PROVE  CountedOnly'
  <2>1. slot' = slot /\ pc = "idle"
    BY <1>2, UnwrappedSame DEF InsertLog, InsertRec, Insert, SlotInv
  <2> QED
    BY <1>2, <2>1, CountedQuiet DEF history
<1>3. CASE BoundedClean
  BY <1>1, <1>3, CountedClean
<1>4. CASE Scan /\ UNCHANGED history
  BY <1>1, <1>4, CountedFound
<1>5. ASSUME NEW n \in 0 .. Len(call.bytes),
             WriteDone(n) \/ WriteFail(n) \/ PowerLoss(n), Programmed(n)
      PROVE  CountedOnly'
  BY <1>1, <1>5, CountedProgrammed DEF Recoverable
<1>6. CASE UNCHANGED allVars
  <2>1. slot' = slot /\ pc' = pc /\ log' = log /\ want' = want
    BY <1>6 DEF allVars
  <2> QED
    BY <2>1, CountedQuiet
<1> QED
  BY <1>2, <1>3, <1>4, <1>5, <1>6 DEF HNext

(* What the slot counts is what the EEPROM holds: the records hold the log, *)
(* and no more logs are counted than that, where the cursor agrees with the *)
(* EEPROM, and where an insertion that failed late or a clean that failed   *)
(* has left them to disagree.                                               *)
THEOREM LogHeld ==
  ASSUME Recoverable, ~ MayLag \/ MaxCleans = 0
  PROVE  HSpec => []LogInv
<1>1. HInit => CountedOnly
  BY DEF HInit, Init, CountedOnly, Writing
<1>2. SlotInv /\ WriteExact /\ HistoryInv /\ CountedOnly /\ [HNext]_allVars => CountedOnly'
  BY CountedKept
<1>3. HSpec => []HeldInRom
  BY RecordsHold DEF Recoverable
<1>4. HeldInRom /\ CountedOnly => LogInv
  BY DEF LogInv
<1> QED
  BY <1>1, <1>2, <1>3, <1>4, HistoryInvariant, HistoryKeepsSlot, SlotInvariant, WritesExact,
     PTL DEF HSpec

-----------------------------------------------------------------------------
(* Reading by number.                                                      *)

LEMMA RingIndexBack ==
  ASSUME NEW v \in Records, NEW k \in Records
  PROVE  RingIndex(Counter_max - 1 - k + v) = Back(v, k)
<1>1. /\ Counter_max \in Nat /\ v \in Nat /\ k \in Nat
      /\ v < Counter_max /\ k < Counter_max
  BY SlotTypes DEF Records
<1>2. CASE k < v
  <2>1. /\ Counter_max - 1 - k + v >= Counter_max
        /\ Counter_max - 1 - k + v - Counter_max = v - 1 - k
    BY <1>1, <1>2
  <2>2. Back(v, k) = v - 1 - k
    BY <1>2, BackIs
  <2>3. RingIndex(Counter_max - 1 - k + v) = (Counter_max - 1 - k + v) - Counter_max
    BY <2>1 DEF RingIndex
  <2> QED
    BY <1>1, <2>2, <2>3
<1>3. CASE ~ (k < v)
  <2>1. /\ ~ (Counter_max - 1 - k + v >= Counter_max)
        /\ ~ (Counter_max - 1 - k + v < 0)
        /\ Counter_max - 1 - k + v = v - 1 - k + Counter_max
    BY <1>1, <1>3
  <2> QED
    BY <1>3, <2>1, BackIs DEF RingIndex
<1> QED
  BY <1>2, <1>3

(* The position of a log that is counted, k logs back from the newest one. *)
LEMMA PositionBack ==
  ASSUME SlotInv, pc = "idle", NEW k \in 0 .. EELS_Len - 1
  PROVE  /\ k \in Records
         /\ eels_relative_pos(EELS_Len - 1 - k)
              = eels_index_pos(Slot, Back(slot.write_index, k))
<1> DEFINE C   == Counter_max
           now == slot.write_index
           n   == EELS_Len
           idx == n - 1 - k
<1>1. /\ slot \in Cursor /\ now \in Records /\ now \in Nat /\ now < C
      /\ C \in Nat /\ C > 0 /\ slot.overlaped \in BOOLEAN
  BY SlotTypes, WritingCursor DEF Records, Cursor
<1>2. n = IF slot.overlaped THEN C ELSE now
  BY DEF EELS_Len
<1>3. n \in Nat /\ n <= C /\ k \in Nat /\ k < n
  BY <1>1, <1>2
<1>4. k \in Records
  BY <1>1, <1>3 DEF Records
<1>5. Back(now, k) = IF k < now THEN now - 1 - k ELSE now - 1 - k + C
  BY <1>1, <1>4, BackIs
<1>6. idx \in Nat /\ ~ (idx >= n) /\ ~ (-idx >= n) /\ ~ (idx < 0)
  BY <1>3
<1>7. eels_relative_pos(idx)
        = eels_index_pos(Slot, IF slot.overlaped THEN RingIndex(idx + now) ELSE idx)
  <2> HIDE DEF idx
  <2> QED
    BY <1>6 DEF eels_relative_pos
<1>8. (IF slot.overlaped THEN RingIndex(idx + now) ELSE idx) = Back(now, k)
  <2>1. CASE slot.overlaped
    <3>1. n = C /\ idx + now = C - 1 - k + now
      BY <1>1, <1>2, <1>3, <2>1
    <3>2. RingIndex(C - 1 - k + now) = Back(now, k)
      BY <1>1, <1>4, RingIndexBack
    <3> QED
      BY <2>1, <3>1, <3>2
  <2>2. CASE ~ slot.overlaped
    BY <1>1, <1>2, <1>3, <1>5, <2>2
  <2> QED
    BY <2>1, <2>2
<1> QED
  BY <1>4, <1>7, <1>8

LEMMA CountedReadsBack ==
  ASSUME SlotInv, HTypeOK, LogInv
  PROVE  ReadsBack
<1> SUFFICES ASSUME pc = "idle"
             PROVE  /\ EELS_Len <= Len(log)
                    /\ \A k \in Known :
                         EELS_ReadIdx(EELS_Len - 1 - k)
                           = [ok |-> EELS_ERROR_OK, data |-> Newer(k + Ahead)]
  BY DEF ReadsBack
<1>1. /\ EELS_Len <= Len(log)
      /\ EELS_Len > 0 => Aligned \/ Stamped
  BY DEF LogInv, CountedOnly
<1>2. /\ Len(log) \in Nat /\ Len(log) <= Counter_max /\ Counter_max \in Nat
      /\ want.index \in Records /\ EELS_Len \in Int
      /\ slot \in Cursor /\ slot.write_index \in Records
  BY LogTypes, SlotTypes, WritingCursor DEF EELS_Len, Cursor, Records
<1> SUFFICES ASSUME NEW k \in Known
             PROVE  EELS_ReadIdx(EELS_Len - 1 - k)
                      = [ok |-> EELS_ERROR_OK, data |-> Newer(k + Ahead)]
  BY <1>1
<1>3. /\ k \in 0 .. EELS_Len - 1 /\ k + Ahead < Len(log) /\ Newer(k + Ahead) # Lost
      /\ k \in Nat
  BY DEF Known
<1>4. k \in Records /\ EELS_ReadIdx(EELS_Len - 1 - k)
                         = _EELS_ReadLog(eels_index_pos(Slot, Back(slot.write_index, k)))
  BY <1>3, PositionBack DEF EELS_ReadIdx
<1>5. RecordOf(k + Ahead) = Back(slot.write_index, k)
  <2>1. CASE Aligned
    <3>1. Ahead = 0 /\ want.index = slot.write_index /\ k + 0 = k
      BY <1>3, <2>1 DEF Ahead, Aligned, Place
    <3> QED
      BY <3>1 DEF RecordOf, Back
  <2>2. CASE ~ Aligned
    <3>1. Stamped /\ Ahead = 1
      <4>1. EELS_Len > 0
        BY <1>2, <1>3
      <4> QED
        BY <1>1, <2>2, <4>1 DEF Ahead
    <3>2. want = Onward(Place(slot)) /\ Place(slot) \in Marks
          /\ Place(slot).index = slot.write_index
      BY <1>2, <3>1, AdvanceOnward, PlaceType DEF Stamped
    <3>3. \/ want.index = slot.write_index + 1
          \/ slot.write_index + 1 = Counter_max /\ want.index = 0
      BY <3>2, OnwardType
    <3>4. k + 1 \in Records /\ k + 1 # 0 /\ (k + 1) - 1 = k
      BY <1>2, <1>3, <3>1 DEF Records
    <3>5. Back(want.index, k + 1) = Back(slot.write_index, (k + 1) - 1)
      BY <1>2, <3>3, <3>4, BackTurns
    <3> QED
      BY <3>1, <3>4, <3>5 DEF RecordOf, Back
  <2> QED
    BY <2>1, <2>2
<1>6. k + Ahead \in 0 .. Len(log) - 1
  BY <1>2, <1>3 DEF Ahead
<1> QED
  BY <1>3, <1>4, <1>5, <1>6 DEF LogInv, HeldInRom

(* Every log that is counted reads back, in the order of insertion.         *)
THEOREM CountedRead ==
  ASSUME Recoverable, ~ MayLag \/ MaxCleans = 0
  PROVE  HSpec => []ReadsBack
<1>1. SlotInv /\ HTypeOK /\ LogInv => ReadsBack
  BY CountedReadsBack
<1> QED
  BY <1>1, LogHeld, HistoryTypes, HistoryKeepsSlot, SlotInvariant, PTL

-----------------------------------------------------------------------------
(* EELS_ReadLast and EELS_PosNext.                                         *)

LEMMA PredPosUnpaged ==
  ASSUME UnpagedLayout(Slot), NEW i \in Records
  PROVE  eels_pred_pos(Slot, eels_index_pos(Slot, i)) = eels_index_pos(Slot, Back(i, 0))
<1> DEFINE L == Slot.slot_log_length
           B == Slot.begining
           C == Counter_max
<1>1. /\ L \in Nat /\ L > 0 /\ B \in Nat /\ C \in Nat /\ C > 0 /\ i \in Nat /\ i < C
      /\ C = Slot._counter_max /\ 0 \in Records
  BY SlotTypes DEF Records
<1>2. \A j \in Nat : eels_index_pos(Slot, j) = B + L * j
  BY DEF eels_index_pos, UnpagedLayout
<1>3. eels_pred_pos(Slot, B + L * i)
        = IF B + L * i < B + L THEN B + L * C - L ELSE B + L * i - L
  BY <1>1 DEF eels_pred_pos, UnpagedLayout
<1>4. Back(i, 0) = (IF 0 < i THEN i - 1 ELSE C - 1) /\ Back(i, 0) \in Nat
  <2>1. Back(i, 0) \in Records /\ Back(i, 0) = IF 0 < i THEN i - 1 - 0 ELSE i - 1 - 0 + C
    BY <1>1, BackIs
  <2> QED
    BY <1>1, <2>1 DEF Records
<1> HIDE DEF L, B, C
<1>5. L * (C - 1) = L * C - L /\ L * C \in Nat
  BY <1>1
<1>6. CASE i = 0
  <2>1. L * i = 0
    BY <1>1, <1>6
  <2>2. eels_pred_pos(Slot, B + L * i) = B + L * C - L
    BY <1>1, <1>3, <2>1
  <2>3. Back(i, 0) = C - 1
    BY <1>4, <1>6
  <2> QED
    BY <1>1, <1>2, <1>4, <1>5, <2>2, <2>3
<1>7. CASE i > 0
  <2>1. /\ L * i = L * (i - 1) + L /\ L * (i - 1) \in Nat /\ L * i \in Nat
    <3>1. i - 1 \in Nat
      BY <1>1, <1>7
    <3> QED
      BY <1>1, <1>7, <3>1
  <2>2. eels_pred_pos(Slot, B + L * i) = B + L * (i - 1)
    BY <1>1, <1>3, <2>1
  <2>3. Back(i, 0) = i - 1
    BY <1>1, <1>4, <1>7
  <2> QED
    BY <1>1, <1>2, <1>4, <2>2, <2>3
<1> QED
  BY <1>1, <1>6, <1>7

LEMMA PredPosColumn ==
  ASSUME PagedLayout(Slot), Slot.page_records = 1, NEW i \in Records
  PROVE  eels_pred_pos(Slot, eels_index_pos(Slot, i)) = eels_index_pos(Slot, Back(i, 0))
<1> DEFINE L == Slot.slot_log_length
           B == Slot.begining
           C == Counter_max
           P == Slot.page_size
           O == Slot.page_offs
<1>1. /\ L \in Nat /\ L > 0 /\ B \in Nat /\ C \in Nat /\ C > 0 /\ i \in Nat /\ i < C
      /\ P \in Nat /\ P > 0 /\ O \in Nat /\ 0 \in Records
  BY SlotTypes, LayoutTypes DEF Records, PagedLayout
<1>2. Back(i, 0) = (IF 0 < i THEN i - 1 ELSE C - 1) /\ Back(i, 0) \in Nat
  <2>1. Back(i, 0) \in Records /\ Back(i, 0) = IF 0 < i THEN i - 1 - 0 ELSE i - 1 - 0 + C
    BY <1>1, BackIs
  <2> QED
    BY <1>1, <2>1 DEF Records
<1>3. CASE i = 0
  BY <1>1, <1>2, <1>3, PredOfFirst DEF Pos0
<1>4. CASE i > 0
  <2>1. \A j \in Nat : eels_index_pos(Slot, j) = B + P * j + O
    <3> SUFFICES ASSUME NEW j \in Nat PROVE eels_index_pos(Slot, j) = B + P * j + O
      OBVIOUS
    <3>1. eels_index_pos(Slot, 1 * j + 0) = B + P * j + (O + L * 0)
      BY SlotTypes, IndexPosPaged, 0 \in 0 .. Slot.page_records - 1
    <3>2. 1 * j + 0 = j /\ L * 0 = 0 /\ O + 0 = O
      BY <1>1
    <3> QED
      BY <3>1, <3>2
  <2>2. O \in 0 .. P - 1 /\ PageLimit(Slot) - L = O
    <3>1. Slot.page_limit = O + 1 * L /\ Slot.page_limit <= P
      BY DEF PagedLayout
    <3>2. Slot.page_limit = O + L
      BY <1>1, <3>1
    <3>3. PageLimit(Slot) = O + L
      BY <1>1, <3>2 DEF PageLimit
    <3> HIDE DEF L, O, P
    <3> QED
      BY <1>1, <3>1, <3>2, <3>3
  <2> DEFINE x == B + P * i + O
  <2>3. eels_pos_page(Slot, x) = B + P * i /\ eels_pos_ofs(Slot, x) = O
    BY <1>1, <2>2, SlotTypes, PosPage
  <2>4. P * i = P * (i - 1) + P /\ P * (i - 1) \in Nat /\ P * i \in Nat
    <3> HIDE DEF P
    <3>1. i - 1 \in Nat
      BY <1>1, <1>4
    <3> QED
      BY <1>1, <3>1
  <2>5. ~ (O > O + L) /\ ~ (B + P * i < B + P)
    <3> HIDE DEF P, B, O, L
    <3> QED
      BY <1>1, <2>4
  <2>6. eels_pred_pos(Slot, x) = (B + P * i - P) + (PageLimit(Slot) - L)
    BY <1>1, <2>3, <2>5 DEF eels_pred_pos
  <2>7. B + P * i - P + O = B + P * (i - 1) + O
    <3> HIDE DEF P, B, O
    <3> QED
      BY <1>1, <2>4
  <2>8. Back(i, 0) = i - 1 /\ i - 1 \in Nat
    BY <1>1, <1>2, <1>4
  <2>9. eels_index_pos(Slot, i) = x /\ eels_index_pos(Slot, i - 1) = B + P * (i - 1) + O
    BY <1>1, <2>1, <2>8
  <2> HIDE DEF B, P, O, L, x
  <2> QED
    BY <2>2, <2>6, <2>7, <2>8, <2>9
<1> QED
  BY <1>1, <1>3, <1>4

(* Where EELS_ReadLast steps back to the record before: a slot without     *)
(* pages, or with one record in each page.                                 *)
StepsBack == UnpagedLayout(Slot) \/ (PagedLayout(Slot) /\ Slot.page_records = 1)

LEMMA PredPos ==
  ASSUME StepsBack, NEW i \in Records
  PROVE  eels_pred_pos(Slot, eels_index_pos(Slot, i)) = eels_index_pos(Slot, Back(i, 0))
BY PredPosUnpaged, PredPosColumn DEF StepsBack

(* EELS_ReadLast gives the log inserted last, in a slot without pages and   *)
(* in one whose pages hold one record each.                                 *)
THEOREM LastRead ==
  ASSUME StepsBack, Unnoticed = {}
  PROVE  HSpec => []ReadLastIsNewest
<1>1. SlotInv /\ HTypeOK /\ HeldInRom => ReadLastIsNewest
  <2> SUFFICES ASSUME SlotInv, HTypeOK, HeldInRom,
                      pc = "idle", Aligned, log # <<>>, Newer(0) # Lost
               PROVE  EELS_ReadLast = [ok |-> EELS_ERROR_OK, data |-> Newer(0)]
    BY DEF ReadLastIsNewest
  <2>1. /\ slot.write_index \in Records
        /\ slot.write_position = eels_index_pos(Slot, slot.write_index)
    BY WritingCursor
  <2>2. 0 \in 0 .. Len(log) - 1
    <3>1. log \in Logs /\ Len(log) \in Nat
      BY LogTypes
    <3>2. Len(log) # 0
      BY <3>1, EmptySeq DEF Logs
    <3> QED
      BY <3>1, <3>2
  <2>3. RecordOf(0) = Back(slot.write_index, 0)
    BY DEF RecordOf, Back, Aligned, Place
  <2>4. EELS_ReadLast = _EELS_ReadLog(eels_index_pos(Slot, RecordOf(0)))
    BY <2>1, <2>3, PredPos DEF EELS_ReadLast
  <2> QED
    BY <2>2, <2>4 DEF HeldInRom
<1> QED
  BY <1>1, RecordsHold, HistoryTypes, HistoryKeepsSlot, SlotInvariant, PTL

(* A slot in which no rest too short for a record follows the last one.     *)
NoRest == PagedLayout(Slot) \/ Slot.slot_log_length * Counter_max = Slot.length

LEMMA NextPosWraps ==
  ASSUME NoRest, NEW i \in Records, i + 1 = Counter_max
  PROVE  eels_next_pos(Slot, eels_index_pos(Slot, i)) = eels_index_pos(Slot, 0)
<1> DEFINE next == eels_next_pos(Slot, eels_index_pos(Slot, i))
<1>1. CASE PagedLayout(Slot)
  <2>1. i \in 0 .. Slot._counter_max - 1 /\ ~ (i + 1 < Slot._counter_max)
    BY SlotTypes DEF Records
  <2> QED
    BY <1>1, <2>1, SlotTypes, NextPosPaged
<1>2. CASE ~ PagedLayout(Slot)
  <2> DEFINE L == Slot.slot_log_length
             B == Slot.begining
             N == Counter_max
  <2>1. /\ UnpagedLayout(Slot) /\ L * N = Slot.length
        /\ L \in Nat /\ B \in Nat /\ i \in Nat /\ N \in Nat
    BY <1>2, SlotTypes DEF NoRest, SlotLayout, Records
  <2>2. \A j \in Nat : eels_index_pos(Slot, j) = B + L * j
    BY <2>1 DEF eels_index_pos, UnpagedLayout
  <2>3. L * i + L = L * N /\ L * 0 = 0 /\ L * i \in Nat
    <3> HIDE DEF L
    <3>1. i + 1 = N /\ L * (i + 1) = L * i + L
      BY <2>1
    <3> QED
      BY <2>1, <3>1
  <2>4. next = IF (B + L * i) + L >= B + Slot.length THEN B ELSE (B + L * i) + L
    BY <2>1, <2>2 DEF eels_next_pos, UnpagedLayout
  <2>5. eels_index_pos(Slot, 0) = B + L * 0
    BY <2>2
  <2> HIDE DEF L, B, N, next
  <2>6. next = B
    BY <2>1, <2>3, <2>4
  <2>7. next = eels_index_pos(Slot, 0)
    BY <2>1, <2>3, <2>5, <2>6
  <2> QED
    BY <2>7 DEF next
<1> QED
  BY <1>1, <1>2

LEMMA BackOnward ==
  ASSUME NEW v \in Records, NEW j \in Records, j # 0
  PROVE  /\ j - 1 \in Records
         /\ \/ Back(v, j) + 1 < Counter_max /\ Back(v, j - 1) = Back(v, j) + 1
            \/ Back(v, j) + 1 = Counter_max /\ Back(v, j - 1) = 0
<1>1. /\ Counter_max \in Nat /\ v \in Nat /\ j \in Nat
      /\ v < Counter_max /\ j < Counter_max
  BY SlotTypes DEF Records
<1>2. j - 1 \in Records
  BY <1>1 DEF Records
<1>3. Back(v, j) = IF j < v THEN v - 1 - j ELSE v - 1 - j + Counter_max
  BY BackIs
<1>4. Back(v, j - 1) = IF j - 1 < v THEN v - 1 - (j - 1) ELSE v - 1 - (j - 1) + Counter_max
  BY <1>2, BackIs
<1> QED
  BY <1>1, <1>2, <1>3, <1>4

(* EELS_PosNext leads from each log counted to the next newer one, across   *)
(* the ends of the pages and of the ring, in every slot with pages and in   *)
(* every other one whose area the records fill.                             *)
THEOREM PosNextThrough ==
  ASSUME NoRest
  PROVE  HSpec => []PosNextWalks
<1>1. SlotInv => PosNextWalks
  <2> SUFFICES ASSUME SlotInv, pc = "idle", NEW k \in 0 .. EELS_Len - 2
               PROVE  EELS_PosNext(EELS_PosIdx(k)) = EELS_PosIdx(k + 1)
    BY DEF PosNextWalks
  <2> DEFINE v == slot.write_index
             j == EELS_Len - 1 - k
  <2>1. v \in Records /\ EELS_Len \in Nat
    BY WritingCursor, SlotTypes DEF EELS_Len, Records
  <2>2. /\ j \in 0 .. EELS_Len - 1 /\ j - 1 \in 0 .. EELS_Len - 1 /\ j # 0
        /\ k = EELS_Len - 1 - j /\ k + 1 = EELS_Len - 1 - (j - 1)
    BY <2>1
  <2> HIDE DEF j
  <2>3. /\ j \in Records
        /\ EELS_PosIdx(k) = eels_index_pos(Slot, Back(v, j))
        /\ EELS_PosIdx(k + 1) = eels_index_pos(Slot, Back(v, j - 1))
    BY <2>2, PositionBack DEF EELS_PosIdx
  <2> HIDE DEF v
  <2>4. Back(v, j) \in Records
    BY <2>1, <2>3, BackIs
  <2>5. CASE Back(v, j) + 1 < Counter_max /\ Back(v, j - 1) = Back(v, j) + 1
    <3>1. eels_next_pos(Slot, eels_index_pos(Slot, Back(v, j)))
            = eels_index_pos(Slot, Back(v, j) + 1)
      <4>1. Back(v, j) \in 0 .. Slot._counter_max - 1 /\ Counter_max = Slot._counter_max
            /\ ~ (Back(v, j) + 1 = Slot._counter_max)
        BY <2>4, <2>5, SlotTypes DEF Records
      <4> QED
        BY <4>1, SlotTypes, NextPos
    <3> QED
      BY <2>3, <2>5, <3>1 DEF EELS_PosNext
  <2>6. CASE Back(v, j) + 1 = Counter_max /\ Back(v, j - 1) = 0
    BY <2>3, <2>4, <2>6, NextPosWraps DEF EELS_PosNext
  <2> QED
    BY <2>1, <2>2, <2>3, <2>5, <2>6, BackOnward
<1> QED
  BY <1>1, HistoryKeepsSlot, SlotInvariant, PTL

-----------------------------------------------------------------------------
(* No record holds but bytes of logs, whatever fails: a write puts into    *)
(* the record under the cursor bytes of its own log at their own places.   *)

MixedRecord(i) ==
  /\ Mixture(DataAt(eels_index_pos(Slot, i)))
  /\ CrcAt(eels_index_pos(Slot, i)) \in Checks

(* What a write that may have broken off leaves at an address.             *)
LEMMA ByteLands ==
  ASSUME SlotInv, NEW k \in 0 .. Len(call.bytes), Landed(k),
         NEW a \in Addr, rom'[a] # rom[a]
  PROVE  /\ a - call.at + 1 \in 1 .. Len(call.bytes)
         /\ rom'[a] = call.bytes[a - call.at + 1]
         /\ pc \in Writing
<1>1. call.at \in Nat /\ call.bytes \in Seq(Byte) /\ Len(call.bytes) \in Nat /\ a \in Nat
  BY DEF SlotInv, TypeOK, Calls, Addr
<1>2. k \in Nat /\ k <= Len(call.bytes)
  BY <1>1
<1>3. /\ Len(SubSeq(call.bytes, 1, k)) = k
      /\ \A i \in 1 .. k : SubSeq(call.bytes, 1, k)[i] = call.bytes[i]
  BY <1>1, <1>2
<1>4. rom' = [x \in Addr |-> IF x \in call.at .. call.at + k - 1
                             THEN SubSeq(call.bytes, 1, k)[x - call.at + 1] ELSE rom[x]]
  BY <1>3 DEF Landed, Program
<1> DEFINE written == SubSeq(call.bytes, 1, k)
<1> HIDE DEF written
<1>5. a \in call.at .. call.at + k - 1 /\ rom'[a] = written[a - call.at + 1]
  BY <1>4 DEF written
<1>6. a - call.at + 1 \in 1 .. k
  BY <1>1, <1>2, <1>5
<1>7. pc \in Writing
  <2> SUFFICES ASSUME pc \notin Writing PROVE FALSE
    OBVIOUS
  <2>1. call.bytes = <<>>
    BY DEF SlotInv, WriteInRecord
  <2> QED
    BY <1>2, <1>6, <2>1
<1> QED
  BY <1>1, <1>2, <1>3, <1>5, <1>6, <1>7 DEF written

(* All that broken writes leave in the records.                            *)
OnlyMixtures ==
  \A i \in Records :
    LET pos == eels_index_pos(Slot, i) IN Mixture(DataAt(pos)) /\ CrcAt(pos) \in Checks

(* Byte m of the record under the cursor, when the write changes it.       *)
LEMMA MixedByte ==
  ASSUME SlotInv, WriteExact, NEW k \in 0 .. Len(call.bytes), Landed(k),
         NEW i \in Records, NEW m \in 0 .. Slot.slot_log_length - 1,
         NEW x, x = eels_index_pos(Slot, i), NEW a, a = x + m, rom'[a] # rom[a]
  PROVE  /\ m = 1 => rom'[a] \in Checks
         /\ m >= 2 => \E d \in Payloads : rom'[a] = d[m - 1]
<1> DEFINE p == slot.write_position
           b == call.bytes
           n == a - call.at + 1
           d == call.data
<1>1. x \in Nat /\ m \in Nat /\ a \in Addr /\ Pos0 \in Nat /\ a \in Nat
  <2>1. x \in Nat /\ Pos0 \in Nat /\ m \in Nat
    BY RecordBounds, SlotTypes, PosZero DEF Records
  <2>2. a \in Addr
    BY BytesOfRecord DEF Records
  <2> QED
    BY <2>1, <2>2
<1>2. n \in 1 .. Len(b) /\ rom'[a] = b[n] /\ pc \in Writing
  BY <1>1, ByteLands
<1>3. CASE pc = "clean_head"
  <2>1. PICK last \in 0 .. EpochNone - 1 : b = <<last + EpochNone, 255>>
    BY <1>3 DEF WriteExact, CleanHead
  <2>2. call.at = Pos0 /\ Len(b) = 2 /\ b[2] = 255
    BY <1>3, <2>1 DEF WriteExact
  <2>3. a = Pos0 \/ a = Pos0 + 1
    BY <1>1, <1>2, <2>2
  <2>4. i = 0
    <3> SUFFICES ASSUME i # 0 PROVE FALSE
      OBVIOUS
    <3>1. i \in 0 .. Counter_max - 1 /\ 0 \in 0 .. Counter_max - 1
      BY SlotTypes DEF Records
    <3>2. a \notin Pos0 .. Pos0 + Slot.slot_log_length - 1
      BY <3>1, RecordsDisjoint DEF Pos0
    <3>3. Slot.slot_log_length \in Nat /\ Slot.slot_log_length >= 3
      BY SlotTypes
    <3> HIDE DEF p, b, n, d
    <3> QED
      BY <1>1, <2>3, <3>2, <3>3
  <2>5. m = 0 \/ (m = 1 /\ n = 2)
    BY <1>1, <2>2, <2>3, <2>4 DEF Pos0
  <2> QED
    BY <1>2, <2>2, <2>5 DEF Checks
<1>4. CASE pc # "clean_head"
  <2>1. /\ p \in Nat /\ p = eels_index_pos(Slot, slot.write_index)
        /\ slot.write_index \in Records /\ d \in Payloads
    BY <1>2, <1>4 DEF SlotInv, TypeOK, Cursor, CursorAgrees, Writing, WriteExact, Records
  <2>2. x = p
    BY <1>2, <2>1, OtherRecordKept DEF Records
  <2>3. d \in Seq(Byte) /\ Len(d) = Slot.raw_data_size /\ Slot.raw_data_size \in Nat
    BY <2>1, Payload, SlotTypes
  <2>4. Header(d) = <<slot.epoch_counter, Crc(d)>> /\ Crc(d) \in Checks
    BY <2>1 DEF Header, Checks
  <2>5. CASE pc = "insert_data"
    <3>1. call.at = p + 2 /\ b = d
      BY <2>5 DEF WriteExact, EELS_RECSIZE_HEAD
    <3>2. m >= 2 /\ n = m - 1
      BY <1>1, <1>2, <2>1, <2>2, <3>1
    <3> QED
      BY <1>2, <2>1, <3>1, <3>2
  <2>6. CASE pc = "insert_head"
    <3>1. call.at = p /\ b = <<slot.epoch_counter, Crc(d)>>
      BY <2>4, <2>6 DEF WriteExact
    <3>2. n = m + 1 /\ m < 2
      BY <1>1, <1>2, <2>1, <2>2, <3>1
    <3> QED
      BY <1>2, <2>4, <3>1, <3>2
  <2>7. CASE pc = "insert_rec"
    <3>1. call.at = p /\ b = <<slot.epoch_counter, Crc(d)>> \o d
      BY <2>4, <2>7 DEF WriteExact
    <3> DEFINE head == <<slot.epoch_counter, Crc(d)>>
    <3>2. n = m + 1
      BY <1>1, <1>2, <2>1, <2>2, <3>1
    <3>3. head \in Seq(Byte) /\ Len(head) = 2 /\ head[2] = Crc(d)
      BY <2>1, <2>4, HeaderType DEF SlotInv
    <3> HIDE DEF head, d
    <3>4. /\ Len(head \o d) = Len(head) + Len(d)
          /\ \A j \in 1 .. Len(head) + Len(d) :
               (head \o d)[j] = IF j <= Len(head) THEN head[j] ELSE d[j - Len(head)]
      BY <2>3, <3>3, ConcatProperties, Zenon
    <3>5. n \in 1 .. Len(head) + Len(d) /\ b = head \o d
      BY <1>2, <3>1, <3>4 DEF head
    <3>6. m = 1 => b[n] = Crc(d)
      BY <3>2, <3>3, <3>4, <3>5
    <3>7. m >= 2 => b[n] = d[m - 1]
      <4>1. m >= 2 => ~ (n <= Len(head)) /\ n - Len(head) = m - 1
        BY <1>1, <3>2, <3>3
      <4> QED
        BY <3>4, <3>5, <4>1
    <3> QED
      BY <1>2, <2>1, <2>4, <3>6, <3>7 DEF d
  <2> QED
    BY <1>2, <1>4, <2>5, <2>6, <2>7 DEF Writing
<1> QED
  BY <1>3, <1>4

LEMMA MixtureLands ==
  ASSUME SlotInv, WriteExact, OnlyMixtures,
         NEW k \in 0 .. Len(call.bytes), Landed(k), NEW i \in Records
  PROVE  MixedRecord(i)'
<1> DEFINE x == eels_index_pos(Slot, i)
<1>1. x \in Nat /\ 1 \in 0 .. Slot.slot_log_length - 1
  BY RecordBounds, SlotTypes DEF Records
<1>2. Mixture(DataAt(x)) /\ rom[x + 1] \in Checks
  BY DEF OnlyMixtures, CrcAt, EELS_RECOFFS_CRC
<1>3. rom'[x + 1] \in Checks
  BY <1>1, <1>2, MixedByte
<1>4. ASSUME NEW n \in 1 .. Slot.raw_data_size
      PROVE  rom'[x + 2 + n - 1] = Blank \/ \E d \in Payloads : rom'[x + 2 + n - 1] = d[n]
  <2>1. n + 1 \in 0 .. Slot.slot_log_length - 1 /\ x + 2 + n - 1 = x + (n + 1) /\ n \in Nat
    BY <1>1, DataOffset
  <2>2. rom[x + (n + 1)] = Blank \/ \E d \in Payloads : rom[x + (n + 1)] = d[n]
    BY <1>2, <2>1 DEF Mixture, DataAt, EELS_RECSIZE_HEAD
  <2>3. CASE rom'[x + (n + 1)] = rom[x + (n + 1)]
    BY <2>1, <2>2, <2>3
  <2>4. CASE rom'[x + (n + 1)] # rom[x + (n + 1)]
    <3>1. n + 1 >= 2 /\ (n + 1) - 1 = n
      BY <2>1
    <3>2. \E d \in Payloads : rom'[x + (n + 1)] = d[(n + 1) - 1]
      BY <2>1, <2>4, <3>1, MixedByte
    <3> QED
      BY <2>1, <3>1, <3>2
  <2> QED
    BY <2>3, <2>4
<1>5. DataAt(x)' = [n \in 1 .. Slot.raw_data_size |-> rom'[x + 2 + n - 1]]
  BY DEF DataAt, EELS_RECSIZE_HEAD
<1> HIDE DEF x
<1>6. Mixture(DataAt(x)')
  BY <1>4, <1>5 DEF Mixture
<1>7. CrcAt(x)' \in Checks
  BY <1>3 DEF CrcAt, EELS_RECOFFS_CRC
<1> QED
  BY <1>6, <1>7 DEF x, MixedRecord, Mixture, Checks

LEMMA OnlyMixturesKept ==
  ASSUME SlotInv, WriteExact, OnlyMixtures, [Next]_vars
  PROVE  OnlyMixtures'
<1>1. CASE rom' = rom
  <2>1. ASSUME NEW i \in Records PROVE MixedRecord(i)'
    <3>1. MixedRecord(i)
      BY DEF OnlyMixtures, MixedRecord
    <3>2. DataAt(eels_index_pos(Slot, i))' = DataAt(eels_index_pos(Slot, i))
      BY <1>1 DEF DataAt
    <3> QED
      BY <1>1, <3>1, <3>2 DEF MixedRecord, Mixture, Checks, CrcAt
  <2> QED
    BY <2>1 DEF OnlyMixtures, MixedRecord, Records
<1>2. CASE rom' # rom
  <2>1. PICK k \in 0 .. Len(call.bytes) : Landed(k)
    BY <1>2 DEF Next, WriteDone, InsertLog, InsertRec, Insert, InsertDataDone, InsertDone,
       CleanLog, CleanDone, Scan, FindLastPos, ScanPages, ScanPagesEnd, ScanRecs,
       ScanSolid, FindEnd, WriteFail, PowerLoss, vars
  <2>2. \A i \in Records : MixedRecord(i)'
    BY <2>1, MixtureLands
  <2> QED
    BY <2>2 DEF OnlyMixtures, MixedRecord, Records
<1> QED
  BY <1>1, <1>2

LEMMA OnlyMixturesInit == Init => OnlyMixtures
<1> SUFFICES ASSUME Init, NEW i \in Records
             PROVE  MixedRecord(i)
  BY DEF OnlyMixtures, MixedRecord
<1> DEFINE x == eels_index_pos(Slot, i)
<1>1. x \in Nat /\ \A m \in 0 .. Slot.slot_log_length - 1 : x + m \in Addr
  BY RecordBounds, BytesOfRecord DEF Records
<1>2. \A m \in 0 .. Slot.slot_log_length - 1 : rom[x + m] = Blank
  BY <1>1 DEF Init
<1>3. rom[x + 1] = Blank
  BY <1>2, SlotTypes, 1 \in 0 .. Slot.slot_log_length - 1
<1>4. ASSUME NEW n \in 1 .. Slot.raw_data_size PROVE rom[x + 2 + n - 1] = Blank
  BY <1>1, <1>2, DataOffset
<1> HIDE DEF x
<1>5. Mixture(DataAt(x))
  BY <1>4 DEF Mixture, DataAt, EELS_RECSIZE_HEAD
<1> QED
  BY <1>3, <1>5 DEF x, MixedRecord, CrcAt, EELS_RECOFFS_CRC, Checks

LEMMA MixturesFail ==
  ASSUME MixturesTold, SlotInv, OnlyMixtures
  PROVE  NoMixedLog
<1> SUFFICES ASSUME pc = "idle", NEW k \in 0 .. EELS_Len - 1,
                    EELS_ReadIdx(k).ok = EELS_ERROR_OK
             PROVE  EELS_ReadIdx(k).data \in Payloads
  BY DEF NoMixedLog
<1>1. EELS_Len \in Nat /\ k \in Nat /\ rom \in [Addr -> Byte]
  BY SlotTypes DEF SlotInv, TypeOK, Cursor, EELS_Len
<1> DEFINE j == EELS_Len - 1 - k
           i == Back(slot.write_index, j)
           x == eels_index_pos(Slot, i)
<1>2. j \in 0 .. EELS_Len - 1 /\ EELS_Len - 1 - j = k
  BY <1>1
<1>3. i \in Records /\ eels_relative_pos(k) = x
  <2>1. j \in Records /\ eels_relative_pos(EELS_Len - 1 - j) = x
    BY <1>2, PositionBack
  <2>2. slot.write_index \in Records
    BY DEF SlotInv, TypeOK, Cursor, Records
  <2> QED
    BY <1>2, <2>1, <2>2, BackIs
<1> HIDE DEF i, x
<1>4. /\ EELS_ReadIdx(k).data = DataAt(x)
      /\ EELS_ReadIdx(k).ok = IF Crc(DataAt(x)) = rom[x + 1] THEN 0 ELSE 1
  BY <1>3, ReadingIs DEF EELS_ReadIdx, Records, x
<1>5. DataAt(x) \in [1 .. Slot.raw_data_size -> Byte]
  BY <1>1, <1>3, DataType DEF Records, x
<1>6. Mixture(DataAt(x)) /\ rom[x + 1] \in Checks
  BY <1>3 DEF OnlyMixtures, x, CrcAt, EELS_RECOFFS_CRC
<1> QED
  BY <1>4, <1>5, <1>6 DEF MixturesTold, EELS_ERROR_OK

(* Where the CRC tells every mixture of the logs that are inserted, a log  *)
(* that is counted and passes its CRC is one of them, whatever breaks off  *)
(* and however often the same record is written again.                     *)
THEOREM MixturesNeverPass ==
  ASSUME MixturesTold
  PROVE  Spec => []NoMixedLog
<1>1. SlotInv /\ WriteExact /\ OnlyMixtures /\ [Next]_vars => OnlyMixtures'
  BY OnlyMixturesKept
<1>2. SlotInv /\ OnlyMixtures => NoMixedLog
  BY MixturesFail
<1> QED
  BY <1>1, <1>2, OnlyMixturesInit, SlotInvariant, WritesExact, PTL DEF Spec

-----------------------------------------------------------------------------
(* The walk of the health counters.  A non-empty set of naturals has a     *)
(* least element: what the proofs below use for induction.                 *)

LEMMA LeastNat ==
  ASSUME NEW T \in SUBSET Nat, T # {}
  PROVE  \E n \in T : \A m \in T : n <= m
<1> DEFINE R == {ss \in Nat \X Nat : ss[1] < ss[2]}
<1>1. IsWellFoundedOn(R, Nat)
  BY NatLessThanWellFounded DEF OpToRel
<1>2. PICK n \in T : \A m \in T : ~ (<<m, n>> \in R)
  BY <1>1, WFMin
<1>3. ASSUME NEW m \in T PROVE n <= m
  <2>1. <<m, n>> \in Nat \X Nat /\ <<m, n>>[1] = m /\ <<m, n>>[2] = n
    OBVIOUS
  <2>2. ~ (m < n)
    BY <1>2, <2>1
  <2> QED
    BY <2>2
<1> QED
  BY <1>3

(* The addresses the walk is defined on, and where it goes from p.         *)
Walked == Pos0 .. Slot.begining + Slot.length - 1

StepFrom(f, p) ==
  LET i == EELS_PosNext(p) IN IF p < i THEN {i} \cup f[i] ELSE {}

InSolid(p, q) == \E j \in Nat : q = p + Slot.slot_log_length + Slot.slot_log_length * j

InPage(p, q) ==
  InSolid(p, q) /\ q + Slot.slot_log_length <= eels_pos_page(Slot, p) + Slot.page_limit

InLaterPage(p, q) ==
  \E n \in Nat, j \in 0 .. Slot.page_records - 1 :
    q = eels_pos_page(Slot, p) + Slot.page_size + Slot.page_size * n
          + (Slot.page_offs + Slot.slot_log_length * j)

After(p) ==
  {q \in Walked : IF Slot.page_size = 0 THEN InSolid(p, q)
                  ELSE InPage(p, q) \/ InLaterPage(p, q)}

LEMMA PosSolid ==
  ASSUME UnpagedLayout(Slot), NEW i \in Records
  PROVE  eels_index_pos(Slot, i) = Slot.begining + Slot.slot_log_length * i
BY SlotTypes DEF eels_index_pos, UnpagedLayout

LEMMA InSolidNext ==
  ASSUME NEW p \in Nat, NEW q \in Nat
  PROVE  InSolid(p, q) <=> \/ q = p + Slot.slot_log_length
                           \/ InSolid(p + Slot.slot_log_length, q)
<1> DEFINE L == Slot.slot_log_length
<1>1. L \in Nat
  BY SlotTypes
<1> HIDE DEF L
<1>2. ASSUME NEW j \in Nat, q = p + L + L * j
      PROVE  q = p + L \/ \E n \in Nat : q = (p + L) + L + L * n
  <2>1. CASE j = 0
    BY <1>1, <1>2, <2>1
  <2>2. CASE j # 0
    <3>1. j - 1 \in Nat /\ L * j = L * (j - 1) + L /\ L * (j - 1) \in Nat
      BY <1>1, <2>2
    <3>2. q = (p + L) + L + L * (j - 1)
      BY <1>1, <1>2, <3>1
    <3> QED
      BY <3>1, <3>2
  <2> QED
    BY <2>1, <2>2
<1>3. ASSUME q = p + L PROVE \E j \in Nat : q = p + L + L * j
  <2>1. q = p + L + L * 0
    BY <1>1, <1>3
  <2> QED
    BY <2>1
<1>4. ASSUME NEW n \in Nat, q = (p + L) + L + L * n
      PROVE  \E j \in Nat : q = p + L + L * j
  <2>1. n + 1 \in Nat /\ L * (n + 1) = L * n + L /\ L * n \in Nat
    BY <1>1
  <2>2. q = p + L + L * (n + 1)
    BY <1>1, <1>4, <2>1
  <2> QED
    BY <2>1, <2>2
<1> QED
  BY <1>2, <1>3, <1>4 DEF InSolid, L

LEMMA InSolidBeyond ==
  ASSUME NEW p \in Nat, NEW q \in Nat, InSolid(p, q)
  PROVE  q >= p + Slot.slot_log_length /\ q > p
<1>1. Slot.slot_log_length \in Nat /\ Slot.slot_log_length > 0
  BY SlotTypes
<1>2. PICK j \in Nat : q = p + Slot.slot_log_length + Slot.slot_log_length * j
  BY DEF InSolid
<1>3. Slot.slot_log_length * j \in Nat
  BY <1>1
<1> QED
  BY <1>1, <1>2, <1>3

(* An unpaged slot.                                                        *)
LEMMA WalkSolid ==
  ASSUME UnpagedLayout(Slot), NEW p \in Walked
  PROVE  /\ EELS_PosNext(p) \in Walked
         /\ After(p) = IF p < EELS_PosNext(p)
                       THEN {EELS_PosNext(p)} \cup After(EELS_PosNext(p)) ELSE {}
<1> DEFINE L   == Slot.slot_log_length
           end == Slot.begining + Slot.length
           nx  == EELS_PosNext(p)
<1>1. /\ L \in Nat /\ L > 0 /\ Slot.begining \in Nat /\ Slot.length \in Nat
      /\ Pos0 = Slot.begining /\ Slot.page_size = 0
  <2>1. 0 \in Records /\ Slot.slot_log_length * 0 = 0
    BY SlotTypes DEF Records
  <2>2. Pos0 = Slot.begining
    BY <2>1, PosSolid, SlotTypes DEF Pos0
  <2> QED
    BY <2>2, SlotTypes DEF UnpagedLayout
<1>2. p \in Nat /\ p >= Slot.begining /\ p < end /\ Walked \subseteq Nat
  BY <1>1 DEF Walked
<1>3. nx = IF p + L >= end THEN Slot.begining ELSE p + L
  BY <1>1 DEF EELS_PosNext, eels_next_pos
<1>4. nx \in Walked
  BY <1>1, <1>2, <1>3 DEF Walked
<1>5. \A x : After(x) = {q \in Walked : InSolid(x, q)}
  BY <1>1 DEF After
<1> HIDE DEF nx
<1>6. CASE p + L >= end
  <2>1. ASSUME NEW q \in Walked PROVE ~ InSolid(p, q)
    <3>1. q \in Nat /\ q < end
      BY <1>1, <1>2 DEF Walked
    <3> QED
      BY <1>1, <1>2, <1>6, <3>1, InSolidBeyond
  <2>2. After(p) = {}
    BY <1>5, <2>1
  <2>3. ~ (p < nx)
    BY <1>1, <1>2, <1>3, <1>6
  <2> QED
    BY <1>4, <2>2, <2>3 DEF nx
<1>7. CASE ~ (p + L >= end)
  <2>1. nx = p + L /\ p < nx
    BY <1>1, <1>2, <1>3, <1>7
  <2>2. ASSUME NEW q \in Walked
        PROVE  InSolid(p, q) <=> q = nx \/ InSolid(nx, q)
    BY <1>2, <2>1, InSolidNext
  <2>3. After(p) = {nx} \cup After(nx)
    BY <1>4, <1>5, <2>2
  <2> QED
    BY <1>4, <2>1, <2>3 DEF nx
<1> QED
  BY <1>6, <1>7

(* A paged slot: the first record of the slot, and the page of an address. *)
LEMMA PagedFirst ==
  ASSUME PagedLayout(Slot)
  PROVE  Pos0 = Slot.begining + Slot.page_offs
<1>1. /\ 0 \in 0 .. Slot.page_records - 1 /\ Slot.page_records * 0 + 0 = 0
      /\ Slot.page_size * 0 = 0 /\ Slot.slot_log_length * 0 = 0
      /\ Slot.begining \in Nat /\ Slot.page_offs \in Nat
  BY SlotTypes, LayoutTypes DEF PagedLayout
<1>2. eels_index_pos(Slot, Slot.page_records * 0 + 0)
        = Slot.begining + Slot.page_size * 0 + (Slot.page_offs + Slot.slot_log_length * 0)
  BY <1>1, SlotTypes, IndexPosPaged
<1> QED
  BY <1>1, <1>2 DEF Pos0

LEMMA PagedPlace ==
  ASSUME PagedLayout(Slot), NEW x \in Slot.begining .. Slot.begining + Slot.length - 1
  PROVE  \E pages \in Nat, a \in Nat, o \in 0 .. Slot.page_size - 1 :
           /\ Slot.length = Slot.page_size * pages /\ a < pages
           /\ Counter_max = Slot.page_records * pages
           /\ x = Slot.begining + Slot.page_size * a + o
           /\ eels_pos_page(Slot, x) = Slot.begining + Slot.page_size * a
           /\ eels_pos_ofs(Slot, x) = o
<1> DEFINE P == Slot.page_size
           B == Slot.begining
<1>1. P \in Nat \ {0} /\ B \in Nat /\ Slot.page_records \in Nat
  BY SlotTypes, LayoutTypes DEF PagedLayout
<1>2. PICK pages \in Nat : Slot.length = pages * P /\ Counter_max = pages * Slot.page_records
  BY SlotTypes DEF PagedLayout, Counter_max
<1>3. x - B \in Nat
  BY <1>1, SlotTypes
<1>4. PICK a \in Nat, o \in 0 .. P - 1 : x - B = P * a + o
  BY <1>1, <1>3, Divided
<1>5. P * a \in Nat /\ pages * P = P * pages /\ P * pages \in Nat
      /\ pages * Slot.page_records = Slot.page_records * pages
  BY <1>1
<1>6. x = B + P * a + o /\ x \in Nat
  <2>1. x \in Int /\ o \in Nat
    BY <1>1, SlotTypes
  <2> HIDE DEF P, B
  <2> QED
    BY <1>1, <1>3, <1>4, <1>5, <2>1
<1>7. P * a < P * pages
  BY <1>1, <1>2, <1>4, <1>5, <1>6, SlotTypes
<1>8. a < pages
  BY <1>1, <1>7, TimesCancels
<1>9. eels_pos_page(Slot, x) = B + P * a /\ eels_pos_ofs(Slot, x) = o
  BY <1>6, SlotTypes, PosPage
<1> QED
  BY <1>2, <1>5, <1>6, <1>8, <1>9

(* The walk goes on within the page of p.                                  *)
LEMMA WalkWithinPage ==
  ASSUME PagedLayout(Slot), NEW p \in Walked,
         eels_pos_ofs(Slot, p) + Slot.slot_log_length + Slot.slot_log_length
           <= Slot.page_limit
  PROVE  /\ EELS_PosNext(p) \in Walked
         /\ After(p) = IF p < EELS_PosNext(p)
                       THEN {EELS_PosNext(p)} \cup After(EELS_PosNext(p)) ELSE {}
<1> DEFINE L  == Slot.slot_log_length
           P  == Slot.page_size
           B  == Slot.begining
           nx == EELS_PosNext(p)
<1>1. /\ L \in Nat /\ L > 0 /\ P \in Nat /\ P > 0 /\ B \in Nat /\ Slot.length \in Nat
      /\ Slot.page_offs \in Nat /\ Slot.page_limit \in Nat /\ Slot.page_limit <= P
      /\ Pos0 = B + Slot.page_offs /\ Slot.page_size # 0
  BY SlotTypes, LayoutTypes, PagedFirst DEF PagedLayout
<1>2. p \in B .. B + Slot.length - 1 /\ p \in Nat /\ p >= Pos0 /\ Walked \subseteq Nat
  BY <1>1 DEF Walked
<1>3. PICK pages \in Nat, a \in Nat, o \in 0 .. P - 1 :
        /\ Slot.length = P * pages /\ a < pages
        /\ p = B + P * a + o
        /\ eels_pos_page(Slot, p) = B + P * a /\ eels_pos_ofs(Slot, p) = o
  BY <1>2, PagedPlace
<1>4. P * a \in Nat /\ P * (a + 1) = P * a + P /\ P * (a + 1) <= P * pages
      /\ P * pages \in Nat
  <2>1. a + 1 \in Nat /\ a + 1 <= pages
    BY <1>3
  <2>2. P * (a + 1) <= P * pages
    BY <1>1, <2>1, TimesMonotone
  <2> HIDE DEF P
  <2> QED
    BY <1>1, <2>2
<1>5. PageLimit(Slot) = Slot.page_limit
  BY <1>1, <1>3 DEF PageLimit
<1>6. nx = p + L /\ o + L \in 0 .. P - 1
  <2>1. nx = B + P * a + (o + L)
    BY <1>1, <1>3, <1>5 DEF EELS_PosNext, eels_next_pos
  <2>2. o + L \in 0 .. P - 1
    BY <1>1, <1>3
  <2> HIDE DEF nx
  <2> QED
    BY <1>1, <1>3, <1>4, <2>1, <2>2
<1>7. nx = B + P * a + (o + L) /\ nx \in Nat /\ p < nx
  BY <1>1, <1>3, <1>4, <1>6
<1>8. eels_pos_page(Slot, nx) = B + P * a
  BY <1>3, <1>6, <1>7, SlotTypes, PosPage
<1>9. nx \in Walked
  BY <1>1, <1>2, <1>3, <1>4, <1>6, <1>7 DEF Walked
<1>10. \A x : After(x) = {q \in Walked : InPage(x, q) \/ InLaterPage(x, q)}
  BY <1>1 DEF After
<1> HIDE DEF nx
<1>11. ASSUME NEW q \in Walked
       PROVE  InPage(p, q) \/ InLaterPage(p, q)
                <=> q = nx \/ InPage(nx, q) \/ InLaterPage(nx, q)
  <2>1. InSolid(p, q) <=> q = nx \/ InSolid(nx, q)
    BY <1>2, <1>6, InSolidNext
  <2>2. InLaterPage(p, q) <=> InLaterPage(nx, q)
    BY <1>3, <1>8 DEF InLaterPage
  <2>3. nx + L <= B + P * a + Slot.page_limit
    BY <1>1, <1>3, <1>4, <1>7
  <2> QED
    BY <1>3, <1>8, <2>1, <2>2, <2>3 DEF InPage
<1>12. After(p) = {nx} \cup After(nx)
  BY <1>9, <1>10, <1>11
<1> QED
  BY <1>7, <1>9, <1>12 DEF nx

(* The walk goes on in the page behind p's, or ends.                       *)
LEMMA WalkToNextPage ==
  ASSUME PagedLayout(Slot), NEW p \in Walked,
         ~ (eels_pos_ofs(Slot, p) + Slot.slot_log_length + Slot.slot_log_length
              <= Slot.page_limit)
  PROVE  /\ EELS_PosNext(p) \in Walked
         /\ After(p) = IF p < EELS_PosNext(p)
                       THEN {EELS_PosNext(p)} \cup After(EELS_PosNext(p)) ELSE {}
<1> DEFINE L  == Slot.slot_log_length
           P  == Slot.page_size
           B  == Slot.begining
           O  == Slot.page_offs
           R  == Slot.page_records
           nx == EELS_PosNext(p)
<1>1. /\ L \in Nat /\ L > 0 /\ P \in Nat /\ P > 0 /\ B \in Nat /\ Slot.length \in Nat
      /\ O \in Nat /\ Slot.page_limit \in Nat /\ Slot.page_limit <= P
      /\ R \in Nat /\ R > 0 /\ Slot.page_limit = O + L * R
      /\ Pos0 = B + O /\ Slot.page_size # 0
  <2>1. R * L = L * R
    BY SlotTypes, LayoutTypes
  <2> QED
    BY <2>1, SlotTypes, LayoutTypes, PagedFirst DEF PagedLayout
<1>2. p \in B .. B + Slot.length - 1 /\ p \in Nat /\ p >= Pos0 /\ Walked \subseteq Nat
  BY <1>1 DEF Walked
<1>3. PICK pages \in Nat, a \in Nat, o \in 0 .. P - 1 :
        /\ Slot.length = P * pages /\ a < pages
        /\ p = B + P * a + o
        /\ eels_pos_page(Slot, p) = B + P * a /\ eels_pos_ofs(Slot, p) = o
  BY <1>2, PagedPlace
<1>4. P * a \in Nat /\ P * (a + 1) = P * a + P /\ P * (a + 1) <= P * pages
      /\ P * pages \in Nat /\ P * (a + 2) = P * a + P + P
  <2>1. a + 1 \in Nat /\ a + 1 <= pages
    BY <1>3
  <2>2. P * (a + 1) <= P * pages
    BY <1>1, <2>1, TimesMonotone
  <2> HIDE DEF P
  <2> QED
    BY <1>1, <2>2
<1>5. PageLimit(Slot) = Slot.page_limit
  <2>1. L * 1 <= L * R
    BY <1>1, TimesMonotone
  <2> QED
    BY <1>1, <2>1 DEF PageLimit
<1>6. nx = IF B + P * a + P + P > B + P * pages THEN B + O ELSE B + P * a + P + O
  BY <1>1, <1>3, <1>5 DEF EELS_PosNext, eels_next_pos, PastLastPage
<1>7. O \in 0 .. P - 1 /\ O + L <= P
  <2>1. L * 1 <= L * R
    BY <1>1, TimesMonotone
  <2> QED
    BY <1>1, <2>1
<1>8. nx \in Walked
  <2>1. P * pages >= P
    BY <1>1, <1>3, <1>4
  <2> QED
    BY <1>1, <1>3, <1>4, <1>6, <1>7, <2>1 DEF Walked
<1>9. \A x : After(x) = {q \in Walked : InPage(x, q) \/ InLaterPage(x, q)}
  BY <1>1 DEF After
<1>10. ASSUME NEW q \in Walked PROVE ~ InPage(p, q)
  <2>1. q \in Nat
    BY <1>2
  <2>2. InSolid(p, q) => q >= p + L
    BY <1>2, <2>1, InSolidBeyond
  <2> QED
    BY <1>1, <1>2, <1>3, <1>4, <2>1, <2>2 DEF InPage
<1> HIDE DEF nx
<1>11. CASE B + P * a + P + P > B + P * pages
  <2>1. nx = B + O /\ ~ (p < nx)
    BY <1>1, <1>2, <1>6, <1>11
  <2>2. ASSUME NEW q \in Walked, InLaterPage(p, q) PROVE FALSE
    <3>1. PICK n \in Nat, j \in 0 .. R - 1 : q = B + P * a + P + P * n + (O + L * j)
      BY <1>3, <2>2 DEF InLaterPage
    <3>2. P * n \in Nat /\ L * j \in Nat
      BY <1>1
    <3>3. a + 1 \in Nat /\ pages <= a + 1
      <4> SUFFICES ASSUME a + 2 <= pages PROVE FALSE
        BY <1>3
      <4>1. P * (a + 2) <= P * pages
        BY <1>1, a + 2 \in Nat, TimesMonotone
      <4> QED
        BY <1>1, <1>4, <1>11, <4>1
    <3>4. P * pages <= P * (a + 1)
      BY <1>1, <3>3, TimesMonotone
    <3>5. q < B + P * pages /\ q \in Nat
      BY <1>1, <1>2, <1>3 DEF Walked
    <3> QED
      BY <1>1, <1>4, <3>1, <3>2, <3>4, <3>5
  <2>3. After(p) = {}
    BY <1>9, <1>10, <2>2
  <2> QED
    BY <1>8, <2>1, <2>3 DEF nx
<1>12. CASE ~ (B + P * a + P + P > B + P * pages)
  <2>1. nx = B + P * (a + 1) + O /\ nx \in Nat /\ p < nx
    BY <1>1, <1>3, <1>4, <1>6, <1>12
  <2>2. eels_pos_page(Slot, nx) = B + P * (a + 1)
    BY <1>7, <2>1, a + 1 \in Nat, SlotTypes, PosPage
  <2> HIDE DEF P, L, B, O, R
  <2>3. ASSUME NEW q \in Walked, InLaterPage(p, q)
        PROVE  q = nx \/ InPage(nx, q) \/ InLaterPage(nx, q)
    <3>1. PICK n \in Nat, j \in 0 .. R - 1 : q = B + P * a + P + P * n + (O + L * j)
      BY <1>3, <2>3 DEF InLaterPage, P, L, B, O, R
    <3>2. P * n \in Nat /\ L * j \in Nat /\ q \in Nat
      BY <1>1, <1>2
    <3>3. CASE n = 0 /\ j = 0
      <4>1. P * n = 0 /\ L * j = 0
        BY <1>1, <3>3
      <4> QED
        BY <1>1, <1>4, <2>1, <3>1, <4>1
    <3>4. CASE n = 0 /\ j # 0
      <4>1. P * n = 0 /\ j - 1 \in Nat /\ L * j = L * (j - 1) + L /\ L * (j - 1) \in Nat
        BY <1>1, <3>4
      <4>2. q = nx + L + L * (j - 1)
        BY <1>1, <1>4, <2>1, <3>1, <4>1
      <4>3. O + L * j + L <= Slot.page_limit
        BY SlotTypes, SectionFits DEF L, O, R
      <4>4. q + L <= B + P * (a + 1) + Slot.page_limit
        BY <1>1, <1>4, <3>1, <3>2, <4>1, <4>3
      <4> QED
        BY <2>2, <4>1, <4>2, <4>4 DEF InPage, InSolid, L, P, B
    <3>5. CASE n # 0
      <4>1. n - 1 \in Nat /\ P * n = P * (n - 1) + P /\ P * (n - 1) \in Nat
        BY <1>1, <3>5
      <4>2. q = B + P * (a + 1) + P + P * (n - 1) + (O + L * j)
        BY <1>1, <1>4, <3>1, <3>2, <4>1
      <4> QED
        BY <2>2, <4>1, <4>2 DEF InLaterPage, P, L, B, O, R
    <3> QED
      BY <3>3, <3>4, <3>5
  <2>4. InLaterPage(p, nx)
    <3>1. P * 0 = 0 /\ L * 0 = 0 /\ 0 \in Nat /\ 0 \in 0 .. R - 1
      BY <1>1
    <3>2. nx = B + P * a + P + P * 0 + (O + L * 0)
      BY <1>1, <1>4, <2>1, <3>1
    <3> QED
      BY <1>3, <3>1, <3>2 DEF InLaterPage, P, L, B, O, R
  <2>5. ASSUME NEW q \in Walked, InPage(nx, q)
        PROVE  InLaterPage(p, q)
    <3>1. PICK j \in Nat : q = nx + L + L * j
      BY <2>5 DEF InPage, InSolid, L
    <3>2. q + L <= B + P * (a + 1) + Slot.page_limit
      BY <2>2, <2>5 DEF InPage, L, P, B
    <3>3. /\ L * (j + 1) = L * j + L /\ L * (j + 2) = L * j + L + L /\ L * j \in Nat
          /\ L * R \in Nat
      BY <1>1
    <3>4. L * (j + 1) < L * R
      BY <1>1, <1>4, <2>1, <3>1, <3>2, <3>3
    <3>5. j + 1 < R
      BY <1>1, <3>4, j + 1 \in Nat, TimesCancels
    <3>6. P * 0 = 0 /\ j + 1 \in 0 .. R - 1
      BY <1>1, <3>5
    <3>7. q = B + P * a + P + P * 0 + (O + L * (j + 1))
      BY <1>1, <1>4, <2>1, <3>1, <3>3, <3>6
    <3> QED
      BY <1>3, <3>6, <3>7 DEF InLaterPage, P, L, B, O, R
  <2>6. ASSUME NEW q \in Walked, InLaterPage(nx, q)
        PROVE  InLaterPage(p, q)
    <3>1. PICK n \in Nat, j \in 0 .. R - 1 :
            q = B + P * (a + 1) + P + P * n + (O + L * j)
      BY <2>2, <2>6 DEF InLaterPage, P, L, B, O, R
    <3>2. n + 1 \in Nat /\ P * (n + 1) = P * n + P /\ P * n \in Nat /\ L * j \in Nat
      BY <1>1
    <3>3. q = B + P * a + P + P * (n + 1) + (O + L * j)
      BY <1>1, <1>4, <3>1, <3>2
    <3> QED
      BY <1>3, <3>2, <3>3 DEF InLaterPage, P, L, B, O, R
  <2>7. After(p) = {nx} \cup After(nx)
    BY <1>8, <1>9, <1>10, <2>3, <2>4, <2>5, <2>6
  <2> QED
    BY <1>8, <2>1, <2>7 DEF nx
<1> QED
  BY <1>11, <1>12

(* The function that the recursion of Walk defines, and no other.          *)
AfterAll == [p \in Walked |-> After(p)]

LEMMA WalkStep ==
  ASSUME NEW p \in Walked
  PROVE  EELS_PosNext(p) \in Walked /\ AfterAll[p] = StepFrom(AfterAll, p)
<1>1. /\ EELS_PosNext(p) \in Walked
      /\ After(p) = IF p < EELS_PosNext(p)
                    THEN {EELS_PosNext(p)} \cup After(EELS_PosNext(p)) ELSE {}
  <2>1. CASE UnpagedLayout(Slot)
    BY <2>1, WalkSolid
  <2>2. CASE PagedLayout(Slot)
    BY <2>2, WalkWithinPage, WalkToNextPage
  <2> QED
    BY <2>1, <2>2, SlotTypes DEF SlotLayout
<1> QED
  BY <1>1 DEF AfterAll, StepFrom

LEMMA WalkDefined == Walk = [p \in Walked |-> StepFrom(Walk, p)]
<1>1. AfterAll = [p \in Walked |-> StepFrom(AfterAll, p)]
  BY WalkStep, Zenon DEF AfterAll
<1>2. AfterAll = [p \in Pos0 .. Slot.begining + Slot.length - 1 |->
                    LET i == EELS_PosNext(p)
                    IN IF p < i THEN {i} \cup AfterAll[i] ELSE {}]
  BY <1>1, Zenon DEF StepFrom, Walked
<1> HIDE DEF AfterAll
<1> QED
  BY <1>2 DEF Walk, StepFrom, Walked

LEMMA WalkIs ==
  ASSUME NEW p \in Walked
  PROVE  Walk[p] = After(p)
<1> DEFINE end  == Slot.begining + Slot.length
           T    == {n \in Nat : end - n \in Walked /\ Walk[end - n] # AfterAll[end - n]}
<1>1. end \in Nat /\ Pos0 \in Nat /\ \A x \in Walked : end - x \in Nat /\ end - (end - x) = x
  BY SlotTypes, PosZero DEF Walked
<1> HIDE DEF end
<1>2. SUFFICES ASSUME T # {} PROVE FALSE
  <2>1. end - p \in Nat /\ end - (end - p) = p
    BY <1>1
  <2>2. T = {} => Walk[p] = AfterAll[p]
    BY <2>1
  <2> QED
    BY <1>2, <2>2 DEF AfterAll
<1>3. PICK n \in T : \A m \in T : n <= m
  BY <1>2, LeastNat
<1> DEFINE q  == end - n
           nx == EELS_PosNext(q)
<1>4. q \in Walked /\ nx \in Walked /\ Walk[q] # AfterAll[q]
  BY <1>3, WalkStep
<1>5. Walk[q] = StepFrom(Walk, q) /\ AfterAll[q] = StepFrom(AfterAll, q)
  BY <1>4, WalkDefined, WalkStep, Zenon
<1>6. ASSUME q < nx PROVE Walk[nx] = AfterAll[nx]
  <2>1. end - nx \in Nat /\ end - (end - nx) = nx
    BY <1>1, <1>4
  <2>2. end - nx < n
    <3>1. q \in Int /\ nx \in Int /\ n \in Nat
      BY <1>1, <1>3, <1>4 DEF Walked
    <3> HIDE DEF nx
    <3> QED
      BY <1>1, <1>6, <3>1
  <2>3. end - nx \notin T
    BY <1>3, <2>1, <2>2
  <2> QED
    BY <1>4, <2>1, <2>3
<1> QED
  BY <1>4, <1>5, <1>6 DEF StepFrom

(* The walk from record 0 visits every other record, and besides those     *)
(* only, in a slot without pages, what lies behind the last one.           *)
BeyondLast(q) ==
  UnpagedLayout(Slot) /\ q >= Slot.begining + Slot.slot_log_length * Counter_max

LEMMA RecordsWalked ==
  ASSUME NEW i \in Records
  PROVE  /\ eels_index_pos(Slot, i) \in Walked
         /\ i > 0 => eels_index_pos(Slot, i) > Pos0
<1>1. /\ eels_index_pos(Slot, i) \in Nat
      /\ eels_index_pos(Slot, i) + Slot.slot_log_length <= Slot.begining + Slot.length
  BY RecordBounds DEF Records
<1>2. i > 0 => Pos0 + Slot.slot_log_length <= eels_index_pos(Slot, i)
  <2>1. ASSUME i > 0 PROVE Pos0 + Slot.slot_log_length <= eels_index_pos(Slot, i)
    <3>1. /\ 0 \in 0 .. Slot._counter_max - 1 /\ i \in 0 .. Slot._counter_max - 1 /\ 0 < i
      BY <2>1, SlotTypes DEF Records
    <3> QED
      BY <3>1, RecordsApart, SlotTypes DEF Pos0
  <2> QED
    BY <2>1
<1>3. i = 0 => eels_index_pos(Slot, i) = Pos0
  BY DEF Pos0
<1>4. i \in Nat /\ Pos0 \in Nat /\ Slot.slot_log_length \in Nat /\ Slot.slot_log_length > 0
      /\ Slot.begining + Slot.length \in Nat
  BY SlotTypes, PosZero DEF Records
<1> HIDE DEF Walked
<1>5. eels_index_pos(Slot, i) >= Pos0
  BY <1>1, <1>2, <1>3, <1>4
<1>6. eels_index_pos(Slot, i) < Slot.begining + Slot.length
  BY <1>1, <1>4
<1>7. eels_index_pos(Slot, i) \in Walked
  <2> DEFINE x   == eels_index_pos(Slot, i)
             end == Slot.begining + Slot.length
  <2>1. x \in Nat /\ end \in Nat /\ x >= Pos0 /\ x < end
    BY <1>1, <1>4, <1>5, <1>6
  <2> HIDE DEF x, end
  <2>2. x \in Pos0 .. end - 1
    BY <1>4, <2>1
  <2>3. Walked = Pos0 .. end - 1
    BY SlotTypes DEF Walked, end
  <2>4. x \in Walked
    BY <2>2, <2>3
  <2> QED
    BY <2>4 DEF x
<1>8. i > 0 => eels_index_pos(Slot, i) > Pos0
  BY <1>1, <1>2, <1>4
<1> QED
  BY <1>7, <1>8

LEMMA FirstWalked == Pos0 \in Walked /\ Pos0 = eels_index_pos(Slot, 0) /\ 0 \in Records
<1>1. 0 \in Records
  BY SlotTypes DEF Records
<1> QED
  BY <1>1, RecordsWalked DEF Pos0

LEMMA WalkSolidRecords ==
  ASSUME UnpagedLayout(Slot)
  PROVE  /\ \A i \in Records : i > 0 => eels_index_pos(Slot, i) \in Walk[Pos0]
         /\ \A q \in Walk[Pos0] :
              q \in Walked /\ q > Pos0
              /\ ((\E i \in Records : q = eels_index_pos(Slot, i)) \/ BeyondLast(q))
<1> DEFINE L == Slot.slot_log_length
           B == Slot.begining
<1>1. /\ L \in Nat /\ L > 0 /\ B \in Nat /\ Pos0 = B + L * 0 /\ Counter_max \in Nat
      /\ \A i \in Records : eels_index_pos(Slot, i) = B + L * i
  BY SlotTypes, FirstWalked, PosSolid
<1>2. Walk[Pos0] = {q \in Walked : InSolid(Pos0, q)}
  BY FirstWalked, WalkIs DEF After, UnpagedLayout
<1> HIDE DEF L, B
<1>3. Pos0 = B /\ L * 0 = 0
  BY <1>1
<1>4. ASSUME NEW i \in Records, i > 0
      PROVE  InSolid(Pos0, eels_index_pos(Slot, i))
  <2>1. i - 1 \in Nat /\ i \in Nat
    BY <1>1, <1>4 DEF Records
  <2>2. L * i = L * (i - 1) + L /\ L * (i - 1) \in Nat
    BY <1>1, <2>1
  <2>3. eels_index_pos(Slot, i) = Pos0 + L + L * (i - 1)
    BY <1>1, <1>3, <2>2
  <2> QED
    BY <2>1, <2>3 DEF InSolid, L
<1>5. ASSUME NEW q \in Walked, InSolid(Pos0, q)
      PROVE  q > Pos0 /\ ((\E i \in Records : q = eels_index_pos(Slot, i)) \/ BeyondLast(q))
  <2>1. PICK j \in Nat : q = Pos0 + L + L * j
    BY <1>5 DEF InSolid, L
  <2>2. L * (j + 1) = L * j + L /\ L * j \in Nat /\ j + 1 \in Nat
    BY <1>1
  <2>3. q = B + L * (j + 1) /\ q > Pos0
    BY <1>1, <1>3, <2>1, <2>2
  <2>4. CASE j + 1 < Counter_max
    <3>1. j + 1 \in Records
      BY <1>1, <2>2, <2>4 DEF Records
    <3>2. q = eels_index_pos(Slot, j + 1)
      BY <1>1, <2>3, <3>1
    <3> QED
      BY <2>3, <3>1, <3>2
  <2>5. CASE ~ (j + 1 < Counter_max)
    <3>1. L * Counter_max <= L * (j + 1)
      BY <1>1, <2>2, <2>5, TimesMonotone
    <3>2. q >= B + L * Counter_max
      BY <1>1, <2>2, <2>3, <3>1
    <3> QED
      BY <2>3, <3>2 DEF BeyondLast, L, B
  <2> QED
    BY <2>4, <2>5
<1> QED
  BY <1>2, <1>4, <1>5, RecordsWalked

LEMMA WalkPagedRecords ==
  ASSUME PagedLayout(Slot)
  PROVE  /\ \A i \in Records : i > 0 => eels_index_pos(Slot, i) \in Walk[Pos0]
         /\ \A q \in Walk[Pos0] :
              q \in Walked /\ q > Pos0 /\ \E i \in Records : q = eels_index_pos(Slot, i)
<1> DEFINE L == Slot.slot_log_length
           P == Slot.page_size
           B == Slot.begining
           O == Slot.page_offs
           R == Slot.page_records
<1>1. /\ L \in Nat /\ L > 0 /\ P \in Nat /\ P > 0 /\ B \in Nat
      /\ O \in Nat /\ R \in Nat /\ R > 0 /\ Slot.page_limit = O + L * R
      /\ Pos0 = B + O /\ Slot.page_size # 0 /\ Counter_max \in Nat
  <2>1. R * L = L * R
    BY SlotTypes, LayoutTypes
  <2> QED
    BY <2>1, SlotTypes, LayoutTypes, PagedFirst DEF PagedLayout
<1>2. PICK pages \in Nat : Slot.length = P * pages /\ Counter_max = R * pages
  <2>1. PICK pages \in Nat : Slot.length = pages * P /\ Counter_max = pages * R
    BY SlotTypes DEF PagedLayout, Counter_max
  <2>2. pages * P = P * pages /\ pages * R = R * pages
    BY <1>1
  <2> QED
    BY <2>1, <2>2
<1>3. eels_pos_page(Slot, Pos0) = B
  <2>1. O \in 0 .. P - 1
    BY <1>1, SlotTypes, SectionFits, 0 \in 0 .. R - 1, L * 0 = 0
  <2>2. Pos0 = B + P * 0 + O /\ P * 0 = 0
    BY <1>1
  <2>3. eels_pos_page(Slot, Pos0) = B + P * 0
    BY <2>1, <2>2, SlotTypes, PosPage
  <2> QED
    BY <1>1, <2>2, <2>3
<1>4. Walk[Pos0] = {q \in Walked : InPage(Pos0, q) \/ InLaterPage(Pos0, q)}
  BY <1>1, FirstWalked, WalkIs DEF After
<1>5. \A a \in Nat, b \in 0 .. R - 1 :
        eels_index_pos(Slot, R * a + b) = B + P * a + (O + L * b)
  BY SlotTypes, IndexPosPaged
<1>6. \A b \in 0 .. R - 1 : O + L * b + L <= Slot.page_limit
  BY SlotTypes, SectionFits
<1> HIDE DEF L, P, B, O, R
<1>7. ASSUME NEW i \in Records, i > 0
      PROVE  LET q == eels_index_pos(Slot, i) IN InPage(Pos0, q) \/ InLaterPage(Pos0, q)
  <2> DEFINE q == eels_index_pos(Slot, i)
  <2>1. PICK a \in Nat, b \in 0 .. R - 1 : i = R * a + b
    <3>1. R \in Nat \ {0} /\ i \in Nat
      BY <1>1, SlotTypes DEF Records
    <3> QED
      BY <3>1, Divided
  <2>2. q = B + P * a + (O + L * b)
    BY <1>5, <2>1
  <2> HIDE DEF q
  <2>3. CASE a = 0
    <3>1. R * a = 0 /\ P * a = 0 /\ b - 1 \in Nat
      BY <1>1, <1>7, <2>1, <2>3
    <3>2. L * b = L * (b - 1) + L /\ L * (b - 1) \in Nat
      BY <1>1, <3>1
    <3>3. q = Pos0 + L + L * (b - 1)
      BY <1>1, <2>2, <3>1, <3>2
    <3>4. q + L <= B + Slot.page_limit
      <4>1. O + L * b + L <= Slot.page_limit
        BY <1>6
      <4> QED
        BY <1>1, <2>2, <3>1, <3>2, <4>1
    <3>5. InPage(Pos0, q)
      BY <1>3, <3>1, <3>3, <3>4 DEF InPage, InSolid, L
    <3> QED
      BY <3>5 DEF q
  <2>4. CASE a # 0
    <3>1. a - 1 \in Nat /\ P * a = P * (a - 1) + P /\ P * (a - 1) \in Nat /\ L * b \in Nat
      BY <1>1, <2>4
    <3>2. q = B + P + P * (a - 1) + (O + L * b)
      BY <1>1, <2>2, <3>1
    <3>3. InLaterPage(Pos0, q)
      BY <1>3, <3>1, <3>2 DEF InLaterPage, P, O, L, R
    <3> QED
      BY <3>3 DEF q
  <2> QED
    BY <2>3, <2>4
<1>8. ASSUME NEW q \in Walked, InPage(Pos0, q)
      PROVE  q > Pos0 /\ \E i \in Records : q = eels_index_pos(Slot, i)
  <2>1. PICK j \in Nat : q = Pos0 + L + L * j
    BY <1>8 DEF InPage, InSolid, L
  <2>2. q + L <= B + (O + L * R)
    BY <1>1, <1>3, <1>8 DEF InPage, L
  <2>3. L * (j + 1) = L * j + L /\ L * j \in Nat /\ j + 1 \in Nat /\ L * R \in Nat
    BY <1>1
  <2>4. L * (j + 1) < L * R
    BY <1>1, <2>1, <2>2, <2>3
  <2>5. j + 1 < R
    BY <1>1, <2>3, <2>4, TimesCancels
  <2>6. j + 1 \in 0 .. R - 1 /\ R * 0 + (j + 1) = j + 1 /\ P * 0 = 0 /\ 0 \in Nat
    BY <1>1, <2>3, <2>5
  <2>7. eels_index_pos(Slot, j + 1) = B + P * 0 + (O + L * (j + 1))
    BY <1>5, <2>6
  <2>8. q = eels_index_pos(Slot, j + 1) /\ q > Pos0
    BY <1>1, <2>1, <2>3, <2>6, <2>7
  <2>9. j + 1 \in Records
    <3>1. 1 <= pages
      <4> SUFFICES ASSUME pages = 0 PROVE FALSE
        BY <1>2
      <4>1. R * pages = 0
        BY <1>1
      <4> QED
        BY <1>2, <4>1, SlotTypes
    <3>2. R * 1 <= R * pages /\ R * 1 = R
      BY <1>1, <1>2, <3>1, TimesMonotone
    <3> QED
      BY <1>1, <1>2, <2>3, <2>5, <3>2 DEF Records
  <2> QED
    BY <2>8, <2>9
<1>9. ASSUME NEW q \in Walked, InLaterPage(Pos0, q)
      PROVE  q > Pos0 /\ \E i \in Records : q = eels_index_pos(Slot, i)
  <2>1. PICK n \in Nat, j \in 0 .. R - 1 : q = B + P + P * n + (O + L * j)
    BY <1>3, <1>9 DEF InLaterPage, P, O, L, R
  <2>2. n + 1 \in Nat /\ P * (n + 1) = P * n + P /\ P * n \in Nat /\ L * j \in Nat /\ j \in Nat
        /\ P * pages \in Nat
    BY <1>1
  <2>3. q = B + P * (n + 1) + (O + L * j) /\ q > Pos0
    BY <1>1, <2>1, <2>2
  <2>4. q = eels_index_pos(Slot, R * (n + 1) + j)
    BY <1>5, <2>2, <2>3
  <2>5. q \in Nat /\ q < B + P * pages
    BY <1>1, <1>2, SlotTypes, PosZero DEF Walked, B
  <2>6. P * (n + 1) < P * pages
    BY <1>1, <2>2, <2>3, <2>5
  <2>7. n + 1 < pages
    BY <1>1, <1>2, <2>2, <2>6, TimesCancels
  <2>8. R * (n + 2) <= R * pages
    BY <1>1, <1>2, <2>7, n + 2 \in Nat, TimesMonotone
  <2>9. R * (n + 2) = R * (n + 1) + R /\ R * (n + 1) \in Nat /\ R * pages \in Nat
    BY <1>1
  <2>10. R * (n + 1) + j \in Records
    BY <1>1, <1>2, <2>2, <2>8, <2>9 DEF Records
  <2> QED
    BY <2>3, <2>4, <2>10
<1> QED
  BY <1>4, <1>7, <1>8, <1>9, RecordsWalked

LEMMA WalkRecords ==
  /\ \A i \in Records : eels_index_pos(Slot, i) \in Walk[Pos0] <=> i > 0
  /\ \A q \in Walk[Pos0] :
       q \in Walked /\ ((\E i \in Records : q = eels_index_pos(Slot, i)) \/ BeyondLast(q))
<1>1. /\ \A i \in Records : i > 0 => eels_index_pos(Slot, i) \in Walk[Pos0]
      /\ \A q \in Walk[Pos0] :
           q \in Walked /\ q > Pos0
           /\ ((\E i \in Records : q = eels_index_pos(Slot, i)) \/ BeyondLast(q))
  <2>1. CASE UnpagedLayout(Slot)
    BY <2>1, WalkSolidRecords
  <2>2. CASE PagedLayout(Slot)
    BY <2>2, WalkPagedRecords
  <2> QED
    BY <2>1, <2>2, SlotTypes DEF SlotLayout
<1>2. Pos0 \notin Walk[Pos0]
  BY <1>1, PosZero
<1>3. ASSUME NEW i \in Records, ~ (i > 0) PROVE eels_index_pos(Slot, i) = Pos0
  <2>1. i = 0
    BY <1>3, SlotTypes DEF Records
  <2> QED
    BY <2>1 DEF Pos0
<1> QED
  BY <1>1, <1>2, <1>3

(* Counting, by a function f from S to T.                                  *)
LEMMA SameCount ==
  ASSUME NEW S, NEW T, IsFiniteSet(S), NEW f \in [S -> T],
         \A a, b \in S : f[a] = f[b] => a = b, \A t \in T : \E s \in S : f[s] = t
  PROVE  IsFiniteSet(T) /\ Cardinality(T) = Cardinality(S)
<1>1. f \in Bijection(S, T)
  BY DEF Bijection, Injection, Surjection, IsInjective
<1> QED
  BY <1>1, FS_Bijection DEF ExistsBijection

LEMMA NoMore ==
  ASSUME NEW S, NEW T, IsFiniteSet(T), NEW f \in [S -> T],
         \A a, b \in S : f[a] = f[b] => a = b
  PROVE  Cardinality(S) <= Cardinality(T)
<1>1. f \in Injection(S, T)
  BY DEF Injection, IsInjective
<1> QED
  BY <1>1, FS_Injection

LEMMA WalkFinite ==
  /\ IsFiniteSet(Walk[Pos0])
  /\ \A S \in SUBSET Walk[Pos0] : IsFiniteSet(S) /\ Cardinality(S) \in Nat
<1>1. Walk[Pos0] \subseteq Walked
  BY WalkRecords
<1>2. IsFiniteSet(Walked)
  <2>1. Pos0 \in Int /\ Slot.begining + Slot.length - 1 \in Int
    BY PosZero, SlotTypes
  <2> QED
    BY <2>1, FS_Interval DEF Walked
<1>3. IsFiniteSet(Walk[Pos0])
  BY <1>1, <1>2, FS_Subset
<1> QED
  BY <1>3, FS_Subset, FS_CardinalityType

(* The bytes of the EEPROM that belong to no record stay as they were when  *)
(* the chip was new.                                                       *)
RestBlank == \A a \in Addr \ RecordBytes(Slot) : rom[a] = Blank

LEMMA RestKept ==
  ASSUME SlotInv, RestBlank, [Next]_vars
  PROVE  RestBlank'
<1> SUFFICES ASSUME NEW a \in Addr, a \notin RecordBytes(Slot), rom'[a] # rom[a]
             PROVE  FALSE
  BY DEF RestBlank
<1>1. PICK k \in 0 .. Len(call.bytes) : Landed(k)
  <2>1. ~ (rom' = rom)
    OBVIOUS
  <2> QED
    BY <2>1 DEF Next, WriteDone, InsertLog, InsertRec, Insert, InsertDataDone, InsertDone,
       CleanLog, CleanDone, Scan, FindLastPos, ScanPages, ScanPagesEnd, ScanRecs,
       ScanSolid, FindEnd, WriteFail, PowerLoss, vars
<1>2. pc \in Writing
  BY <1>1, ByteLands
<1>3. a \in slot.write_position .. slot.write_position + Slot.slot_log_length - 1
  BY NextInRecord
<1>4. /\ slot.write_index \in 0 .. Slot._counter_max - 1
      /\ slot.write_position = eels_index_pos(Slot, slot.write_index)
  BY <1>2, WritingCursor, SlotTypes DEF Records
<1> QED
  BY <1>3, <1>4 DEF RecordBytes

LEMMA RestInit == Init => RestBlank
BY DEF Init, RestBlank

(* A byte that is in no record of the slot stays as blank as it was,        *)
(* whatever the slot writes and whatever breaks off: the health counters,  *)
(* which look at such bytes at the end of an unpaged slot, see no stamp in *)
(* them.                                                                   *)
THEOREM RestUntouched == Spec => []RestBlank
<1> QED
  BY RestInit, RestKept, SlotInvariant, PTL DEF Spec

(* What the walk reads behind the last record is no stamp.                 *)
LEMMA BeyondBlank ==
  ASSUME RestBlank, NEW q \in Walked, BeyondLast(q)
  PROVE  q \in Addr /\ rom[q] = Blank
<1> DEFINE L == Slot.slot_log_length
           B == Slot.begining
<1>1. /\ L \in Nat /\ L > 0 /\ B \in Nat /\ Counter_max \in Nat /\ Pos0 \in Nat
      /\ \A i \in Records : eels_index_pos(Slot, i) = B + L * i
  BY SlotTypes, PosZero, PosSolid DEF BeyondLast
<1>2. q \in Nat /\ q < B + Slot.length /\ q \in Addr
  BY <1>1, SlotTypes DEF Walked, Addr
<1>3. q \notin RecordBytes(Slot)
  <2> SUFFICES ASSUME NEW i \in Records,
                      q \in eels_index_pos(Slot, i) .. eels_index_pos(Slot, i) + L - 1
               PROVE  FALSE
    BY SlotTypes DEF RecordBytes, Records
  <2> HIDE DEF L, B
  <2>1. q < B + L * i + L /\ i \in Nat /\ i + 1 <= Counter_max /\ L * i \in Nat
    BY <1>1, <1>2 DEF Records
  <2>2. L * (i + 1) <= L * Counter_max /\ L * (i + 1) = L * i + L /\ L * Counter_max \in Nat
    BY <1>1, <2>1, TimesMonotone
  <2>3. q >= B + L * Counter_max
    BY DEF BeyondLast, L, B
  <2> QED
    BY <1>1, <1>2, <2>1, <2>2, <2>3
<1> QED
  BY <1>2, <1>3 DEF RestBlank
(* The walk meets the stamp of the current lap in its records but the      *)
(* first, and nowhere else.                                                *)
LEMMA SequenceCounted ==
  ASSUME Recoverable, SlotInv, HistoryInv, RestBlank, pc = "idle", Aligned
  PROVE  _EELS_getHealthySequence = IF want.index > 0 THEN want.index - 1 ELSE 0
<1> DEFINE last == want.index - 1
           T    == {q \in Walk[Pos0] : rom[q] = slot.epoch_counter}
           f    == [i \in 1 .. last |-> eels_index_pos(Slot, i)]
<1>1. /\ want.index \in Records /\ want.index \in Nat /\ Counter_max \in Nat
      /\ want.index < Counter_max /\ want.epoch \in Epochs
      /\ slot.epoch_counter = want.epoch /\ last \in Int
  BY Known0 DEF Aligned, Place, Records
<1>2. \A i \in Records : rom[eels_index_pos(Slot, i)] = want.epoch <=> i < want.index
  BY StampsOfLap, StampIs
<1>3. \A i \in 1 .. last : i \in Records /\ i > 0 /\ i < want.index
  BY <1>1 DEF Records
<1>4. f \in [1 .. last -> T]
  BY <1>1, <1>2, <1>3, WalkRecords
<1>5. \A a, b \in 1 .. last : f[a] = f[b] => a = b
  BY <1>3, IndexOfPos DEF Records
<1>6. ASSUME NEW t \in T PROVE \E i \in 1 .. last : f[i] = t
  <2>1. t \in Walk[Pos0] /\ rom[t] = want.epoch
    BY <1>1
  <2>2. ~ BeyondLast(t)
    <3> SUFFICES ASSUME BeyondLast(t) PROVE FALSE
      OBVIOUS
    <3>1. rom[t] = Blank
      BY <2>1, BeyondBlank, WalkRecords
    <3> QED
      BY <1>1, <2>1, <3>1, EpochTypes DEF Recoverable, HasNone, Epochs
  <2>3. PICK i \in Records : t = eels_index_pos(Slot, i)
    BY <2>1, <2>2, WalkRecords
  <2>4. i > 0 /\ i < want.index
    BY <1>2, <2>1, <2>3, WalkRecords
  <2>5. i \in 1 .. last
    BY <1>1, <2>4 DEF Records
  <2> QED
    BY <2>3, <2>5
<1>7. IsFiniteSet(1 .. last) /\ Cardinality(1 .. last) = IF 1 > last THEN 0 ELSE last - 1 + 1
  <2>1. 1 \in Int /\ last \in Int
    BY <1>1
  <2> HIDE DEF last
  <2> QED
    BY <2>1, FS_Interval
<1>8. Cardinality(T) = Cardinality(1 .. last)
  <2> HIDE DEF T, f, last
  <2> QED
    BY <1>4, <1>5, <1>6, <1>7, SameCount, Zenon
<1>9. _EELS_getHealthySequence = Cardinality(T)
  BY DEF _EELS_getHealthySequence
<1> QED
  BY <1>1, <1>7, <1>8, <1>9

(* The walk finds every log healthy that is still there, but the one in    *)
(* record 0.                                                               *)
LEMMA LogsCounted ==
  ASSUME SlotInv, ReadsBack, pc = "idle"
  PROVE  _EELS_getHealthyLogs
           >= Cardinality({k \in Known : EELS_PosIdx(EELS_Len - 1 - k) # Pos0})
<1> DEFINE S == {k \in Known : EELS_PosIdx(EELS_Len - 1 - k) # Pos0}
           T == {q \in Walk[Pos0] : _EELS_ReadLog(q).ok = EELS_ERROR_OK}
           f == [k \in S |-> EELS_PosIdx(EELS_Len - 1 - k)]
<1>1. slot.write_index \in Records
  BY WritingCursor
<1>2. ASSUME NEW k \in S
      PROVE  /\ k \in Records /\ Back(slot.write_index, k) \in Records
             /\ f[k] = eels_index_pos(Slot, Back(slot.write_index, k))
             /\ f[k] \in T
  <2>1. k \in Known /\ k \in 0 .. EELS_Len - 1 /\ f[k] # Pos0
        /\ f[k] = eels_relative_pos(EELS_Len - 1 - k)
    BY DEF Known, EELS_PosIdx
  <2>2. k \in Records /\ f[k] = eels_index_pos(Slot, Back(slot.write_index, k))
    BY <2>1, PositionBack
  <2>3. Back(slot.write_index, k) \in Records
    BY <1>1, <2>2, BackIs
  <2>4. Back(slot.write_index, k) > 0
    <3>1. Back(slot.write_index, k) # 0
      BY <2>1, <2>2 DEF Pos0
    <3> QED
      BY <2>3, <3>1, SlotTypes DEF Records
  <2>5. _EELS_ReadLog(f[k]).ok = EELS_ERROR_OK
    <3>1. EELS_ReadIdx(EELS_Len - 1 - k) = _EELS_ReadLog(f[k])
      BY <2>1 DEF EELS_ReadIdx
    <3>2. EELS_ReadIdx(EELS_Len - 1 - k).ok = EELS_ERROR_OK
      <4>1. EELS_ReadIdx(EELS_Len - 1 - k)
              = [ok |-> EELS_ERROR_OK, data |-> Newer(k + Ahead)]
        BY <2>1, Zenon DEF ReadsBack
      <4> QED
        BY <4>1
    <3> HIDE DEF f
    <3> QED
      BY <3>1, <3>2
  <2> HIDE DEF f
  <2> QED
    BY <2>2, <2>3, <2>4, <2>5, WalkRecords
<1>3. f \in [S -> T]
  <2>1. f = [k \in S |-> f[k]]
    OBVIOUS
  <2> HIDE DEF f, S, T
  <2> QED
    BY <1>2, <2>1
<1>4. ASSUME NEW a \in S, NEW b \in S, f[a] = f[b] PROVE a = b
  <2> HIDE DEF f, S, T
  <2>1. Back(slot.write_index, a) = Back(slot.write_index, b)
    BY <1>2, <1>4, IndexOfPos DEF Records
  <2> QED
    BY <1>1, <1>2, <2>1, BackApart
<1>5. IsFiniteSet(T) /\ Cardinality(T) \in Nat
  BY WalkFinite
<1>6. Cardinality(S) <= Cardinality(T)
  <2> HIDE DEF f, S, T
  <2> QED
    BY <1>3, <1>4, <1>5, NoMore
<1>7. IsFiniteSet(S) /\ Cardinality(S) \in Nat
  <2>1. EELS_Len \in Int /\ S \subseteq 0 .. EELS_Len - 1
    BY <1>1, SlotTypes DEF EELS_Len, Records, Known
  <2>2. IsFiniteSet(0 .. EELS_Len - 1)
    BY <2>1, FS_Interval
  <2> HIDE DEF S
  <2> QED
    BY <2>1, <2>2, FS_Subset, FS_CardinalityType
<1> QED
  BY <1>5, <1>6, <1>7 DEF _EELS_getHealthyLogs

(* EELS_ReadFromEnd finds no log, whatever the slot holds: the position it *)
(* asks for is never the negative one that EELS_ReadFromHead reads at      *)
(* (EELS.c:791).                                                           *)
NothingFromEnd ==
  pc = "idle" /\ EELS_Len > 0 =>
    \A n \in Nat : EELS_ReadFromEnd(n).ok = EELS_ERROR_NOSLOT

LEMMA EndPosition ==
  ASSUME SlotInv, pc = "idle", EELS_Len > 0, NEW n \in Nat
  PROVE  eels_relative_pos(-n) \in Nat
<1> DEFINE now == slot.write_index
<1>1. /\ now \in 0 .. Counter_max - 1 /\ Counter_max \in Nat /\ Counter_max > 0
      /\ slot.overlaped \in BOOLEAN
  BY SlotTypes, WritingCursor DEF Records, Cursor
<1>2. /\ EELS_Len = IF slot.overlaped THEN Counter_max ELSE now
      /\ ~ (-n >= EELS_Len)
  BY <1>1 DEF EELS_Len
<1>3. CASE n >= EELS_Len
  <2>1. -(-n) >= EELS_Len
    BY <1>1, <1>2, <1>3
  <2> QED
    BY <1>2, <2>1 DEF eels_relative_pos
<1>4. CASE n < EELS_Len
  <2> DEFINE i == IF slot.overlaped THEN RingIndex(-n + now)
                  ELSE IF -n < 0 THEN -n + now ELSE -n
  <2>1. ~ (-(-n) >= EELS_Len)
    BY <1>1, <1>2, <1>4
  <2>2. i \in 0 .. Counter_max - 1
    BY <1>1, <1>2, <1>4 DEF RingIndex
  <2>3. eels_relative_pos(-n) = eels_index_pos(Slot, i)
    BY <1>2, <2>1 DEF eels_relative_pos
  <2> HIDE DEF i
  <2> QED
    BY <2>2, <2>3, RecordBounds
<1> QED
  BY <1>1, <1>2, <1>3, <1>4

(* No log is ever read with EELS_ReadFromEnd, in any slot with logs and    *)
(* whatever fails, though unit test/main.c:146 reads the newest one so.    *)
THEOREM NothingReadFromEnd == Spec => []NothingFromEnd
<1>1. SlotInv => NothingFromEnd
  <2> SUFFICES ASSUME SlotInv, pc = "idle", EELS_Len > 0, NEW n \in Nat
               PROVE  EELS_ReadFromEnd(n).ok = EELS_ERROR_NOSLOT
    BY DEF NothingFromEnd
  <2>1. ~ (eels_relative_pos(-n) < 0)
    BY EndPosition
  <2> QED
    BY <2>1 DEF EELS_ReadFromEnd, EELS_ReadFromHead
<1> QED
  BY <1>1, SlotInvariant, PTL

(* The health counters count the records of the current lap, and find      *)
(* every log that is still there, but what is in record 0.                 *)
THEOREM HealthIsCounted ==
  ASSUME Recoverable, ~ MayLag \/ MaxCleans = 0
  PROVE  HSpec => []HealthCounted
<1>1. SlotInv /\ HistoryInv /\ RestBlank /\ ReadsBack => HealthCounted
  BY SequenceCounted, LogsCounted DEF HealthCounted
<1> QED
  BY <1>1, CountedRead, RestUntouched, HistoryInvariant, HistoryKeepsSlot, SlotInvariant, PTL

(* What the reading calls make of the EEPROM's bytes.                      *)
DataOf(bytes, x) == [i \in 1 .. Slot.raw_data_size |-> bytes[x + 2 + i - 1]]

ReadOf(bytes, x) ==
  IF ~ PosOk(x) THEN [ok |-> -3, data |-> <<>>]
  ELSE [ok |-> IF Crc(DataOf(bytes, x)) = bytes[x + 1] THEN 0 ELSE 1,
        data |-> DataOf(bytes, x)]

HealthyIn(bytes) == {q \in Walk[Pos0] : ReadOf(bytes, q).ok = 0}

LEMMA ReadingIsRead ==
  ASSUME NEW bytes, NEW x
  PROVE  /\ Reading(bytes)!_EELS_ReadLog(x) = ReadOf(bytes, x)
         /\ _EELS_ReadLog(x) = ReadOf(rom, x)
<1>1. Reading(bytes)!_EELS_ReadLog(x) = ReadOf(bytes, x)
  BY DEF Reading!_EELS_ReadLog, Reading!PosOk, Reading!eels_pos_ok, Reading!DataAt, Reading!CrcAt,
     Reading!EELS_RECSIZE_HEAD, Reading!EELS_RECOFFS_CRC, Reading!EELS_ERROR_OK,
     Reading!EELS_ERROR_NOK, Reading!EELS_ERROR_OUTOFSLOT, ReadOf, DataOf, PosOk, eels_pos_ok
<1>2. _EELS_ReadLog(x) = ReadOf(rom, x)
  BY DEF _EELS_ReadLog, DataAt, CrcAt, EELS_RECSIZE_HEAD, EELS_RECOFFS_CRC, EELS_ERROR_OK,
     EELS_ERROR_NOK, EELS_ERROR_OUTOFSLOT, ReadOf, DataOf
<1> QED
  BY <1>1, <1>2

LEMMA ReadingSamePlace ==
  ASSUME NEW bytes, NEW n
  PROVE  Reading(bytes)!EELS_ReadIdx(n) = ReadOf(bytes, eels_relative_pos(n))
<1>1. Reading(bytes)!eels_relative_pos(n) = eels_relative_pos(n)
  BY DEF Reading!eels_relative_pos, Reading!EELS_Len, Reading!Counter_max, Reading!RingIndex,
     Reading!eels_index_pos, eels_relative_pos, EELS_Len, Counter_max, RingIndex, eels_index_pos
<1> QED
  BY <1>1, ReadingIsRead DEF Reading!EELS_ReadIdx

LEMMA ReadingHealthy ==
  ASSUME NEW bytes
  PROVE  /\ Reading(bytes)!_EELS_getHealthyLogs = Cardinality(HealthyIn(bytes))
         /\ _EELS_getHealthyLogs = Cardinality(HealthyIn(rom))
<1>1. Reading(bytes)!Walk = Walk /\ Reading(bytes)!Pos0 = Pos0
  BY DEF Reading!Walk, Reading!Pos0, Reading!EELS_PosNext, Reading!eels_next_pos,
     Reading!eels_pos_page, Reading!eels_pos_ofs, Reading!PageLimit, Reading!PastLastPage,
     Reading!eels_index_pos,
     Walk, Pos0, EELS_PosNext, eels_next_pos, eels_pos_page, eels_pos_ofs, PageLimit,
     PastLastPage, eels_index_pos
<1>2. \A S : Reading(bytes)!Cardinality(S) = Cardinality(S)
  BY DEF Reading!Cardinality, Cardinality
<1>3. Reading(bytes)!_EELS_getHealthyLogs
        = Cardinality({q \in Walk[Pos0] : Reading(bytes)!_EELS_ReadLog(q).ok = 0})
  BY <1>1, <1>2 DEF Reading!_EELS_getHealthyLogs, Reading!EELS_ERROR_OK
<1>4. {q \in Walk[Pos0] : Reading(bytes)!_EELS_ReadLog(q).ok = 0} = HealthyIn(bytes)
  BY ReadingIsRead DEF HealthyIn
<1>5. {q \in Walk[Pos0] : _EELS_ReadLog(q).ok = 0} = HealthyIn(rom)
  BY ReadingIsRead DEF HealthyIn
<1> QED
  BY <1>3, <1>4, <1>5 DEF _EELS_getHealthyLogs, EELS_ERROR_OK
LEMMA DamagedRecord ==
  ASSUME rom \in [Addr -> Byte], NEW r \in Records, NEW n \in 1 .. Slot.raw_data_size,
         NEW v \in Byte, NEW x, x = eels_index_pos(Slot, r),
         NEW bytes, bytes = [rom EXCEPT ![x + (n + 1)] = v]
  PROVE  /\ DataOf(bytes, x) = [DataOf(rom, x) EXCEPT ![n] = v]
         /\ bytes[x + 1] = rom[x + 1]
         /\ \A i \in Records : i # r =>
              ReadOf(bytes, eels_index_pos(Slot, i)) = ReadOf(rom, eels_index_pos(Slot, i))
<1>1. /\ x \in Nat /\ n \in Nat /\ n >= 1 /\ Slot.slot_log_length \in Nat
      /\ n + 1 \in 0 .. Slot.slot_log_length - 1 /\ 1 \in 0 .. Slot.slot_log_length - 1
      /\ Slot.raw_data_size \in Nat
  BY RecordBounds, DataOffset, SlotTypes DEF Records
<1>2. x + 1 \in Addr /\ x + (n + 1) \in Addr
  BY <1>1, BytesOfRecord DEF Records
<1>3. \A a \in Addr : bytes[a] = IF a = x + (n + 1) THEN v ELSE rom[a]
  BY <1>2
<1>4. bytes[x + 1] = rom[x + 1]
  BY <1>1, <1>2, <1>3
<1>5. ASSUME NEW m \in 1 .. Slot.raw_data_size
      PROVE  bytes[x + 2 + m - 1] = IF m = n THEN v ELSE rom[x + 2 + m - 1]
  <2>1. m \in Nat /\ m + 1 \in 0 .. Slot.slot_log_length - 1 /\ x + 2 + m - 1 = x + (m + 1)
    BY <1>1, DataOffset
  <2>2. x + (m + 1) \in Addr
    BY <2>1, BytesOfRecord DEF Records
  <2> QED
    BY <1>1, <1>3, <2>1, <2>2
<1>6. DataOf(bytes, x) = [DataOf(rom, x) EXCEPT ![n] = v]
  BY <1>5 DEF DataOf
<1>7. ASSUME NEW i \in Records, i # r
      PROVE  ReadOf(bytes, eels_index_pos(Slot, i)) = ReadOf(rom, eels_index_pos(Slot, i))
  <2> DEFINE y == eels_index_pos(Slot, i)
  <2>1. \A m \in 0 .. Slot.slot_log_length - 1 : bytes[y + m] = rom[y + m]
    <3> SUFFICES ASSUME NEW m \in 0 .. Slot.slot_log_length - 1
                 PROVE  bytes[y + m] = rom[y + m]
      OBVIOUS
    <3>1. y + m \in Addr
      BY BytesOfRecord DEF Records
    <3>2. y + m \notin x .. x + Slot.slot_log_length - 1
      BY <1>7, RecordsDisjoint DEF Records
    <3>3. y + m # x + (n + 1)
      <4>1. x + (n + 1) \in x .. x + Slot.slot_log_length - 1
        BY <1>1
      <4> QED
        BY <3>2, <4>1
    <3> QED
      BY <1>3, <3>1, <3>3
  <2>2. y \in Nat
    BY RecordBounds DEF Records
  <2>3. ASSUME NEW m \in 1 .. Slot.raw_data_size
        PROVE  bytes[y + 2 + m - 1] = rom[y + 2 + m - 1]
    <3>1. m + 1 \in 0 .. Slot.slot_log_length - 1 /\ y + 2 + m - 1 = y + (m + 1)
      BY <2>2, DataOffset
    <3> QED
      BY <2>1, <3>1
  <2>4. bytes[y + 1] = rom[y + 1]
    BY <1>1, <2>1
  <2>5. DataOf(bytes, y) = DataOf(rom, y)
    BY <2>3 DEF DataOf
  <2> QED
    BY <2>4, <2>5 DEF ReadOf
<1> QED
  BY <1>4, <1>6, <1>7

(* The walk of the health counters stays within the EEPROM, also where it  *)
(* reads a record that begins in a rest too short for one.                 *)
WalkInRom == \A q \in Walk[Pos0] : q + Slot.slot_log_length <= RomSize

(* It does in every slot with pages, and in the others if no rest follows  *)
(* their last record, or enough of the EEPROM follows them.                *)
LEMMA WalkStays ==
  ASSUME NoRest \/ Slot.begining + Slot.length + Slot.slot_log_length <= RomSize + 1
  PROVE  WalkInRom
<1> SUFFICES ASSUME NEW q \in Walk[Pos0]
             PROVE  q + Slot.slot_log_length <= RomSize
  BY DEF WalkInRom
<1> DEFINE L == Slot.slot_log_length
           B == Slot.begining
<1>1. /\ L \in Nat /\ B \in Nat /\ Slot.length \in Nat /\ RomSize \in Nat
      /\ B + Slot.length <= RomSize /\ Pos0 \in Nat /\ Counter_max \in Nat
  BY SlotTypes, PosZero
<1>2. /\ q \in Walked
      /\ (\E i \in Records : q = eels_index_pos(Slot, i)) \/ BeyondLast(q)
  BY WalkRecords
<1>3. q \in Nat /\ q < B + Slot.length
  BY <1>1, <1>2 DEF Walked
<1>4. CASE \E i \in Records : q = eels_index_pos(Slot, i)
  BY <1>1, <1>4, RecordBounds DEF Records
<1>5. CASE BeyondLast(q) /\ ~ NoRest
  BY <1>1, <1>3, <1>5
<1>6. CASE BeyondLast(q) /\ NoRest
  <2>1. L * Counter_max = Slot.length /\ q >= B + L * Counter_max
    BY <1>6, SlotTypes, LayoutTypes DEF BeyondLast, NoRest, UnpagedLayout, PagedLayout
  <2> QED
    BY <1>1, <1>3, <2>1
<1> QED
  BY <1>2, <1>4, <1>5, <1>6

LEMMA DamagedBeyond ==
  ASSUME WalkInRom, rom \in [Addr -> Byte], NEW r \in Records,
         NEW n \in 1 .. Slot.raw_data_size, NEW v,
         NEW x, x = eels_index_pos(Slot, r),
         NEW bytes, bytes = [rom EXCEPT ![x + (n + 1)] = v],
         NEW q \in Walk[Pos0], BeyondLast(q)
  PROVE  ReadOf(bytes, q) = ReadOf(rom, q)
<1> DEFINE L == Slot.slot_log_length
           B == Slot.begining
           C == Counter_max
           cell == x + (n + 1)
<1>1. /\ L \in Nat /\ L > 0 /\ B \in Nat /\ C \in Nat /\ Pos0 \in Nat
      /\ x = B + L * r /\ r \in Nat /\ r < C /\ RomSize \in Nat
      /\ n \in Nat /\ n + 1 < L /\ Slot.raw_data_size = L - 2 /\ Slot.raw_data_size \in Nat
  BY SlotTypes, PosZero, PosSolid, DataOffset DEF BeyondLast, Records
<1>2. q \in Nat /\ q >= B + L * C
  BY <1>1, WalkRecords DEF Walked, BeyondLast
<1>4. q + L <= RomSize
  BY DEF WalkInRom
<1> HIDE DEF L, B, C
<1>5. cell < q /\ cell \in Nat
  <2>1. r + 1 \in Nat /\ r + 1 <= C
    BY <1>1
  <2>2. L * (r + 1) <= L * C /\ L * (r + 1) = L * r + L /\ L * r \in Nat /\ L * C \in Nat
    BY <1>1, <2>1, TimesMonotone
  <2> QED
    BY <1>1, <1>2, <2>2
<1>6. \A m \in Nat : m < L => q + m \in Addr /\ bytes[q + m] = rom[q + m]
  <2> SUFFICES ASSUME NEW m \in Nat, m < L
               PROVE  q + m \in Addr /\ bytes[q + m] = rom[q + m]
    OBVIOUS
  <2>1. q + m \in Addr
    BY <1>1, <1>2, <1>4 DEF Addr
  <2>2. q + m # cell
    BY <1>2, <1>5
  <2> HIDE DEF cell
  <2> QED
    BY <2>1, <2>2 DEF cell
<1>7. bytes[q + 1] = rom[q + 1]
  <2>1. 1 \in Nat /\ 1 < L
    BY <1>1
  <2> QED
    BY <1>6, <2>1
<1>8. \A m \in 1 .. Slot.raw_data_size : bytes[q + 2 + m - 1] = rom[q + 2 + m - 1]
  <2> SUFFICES ASSUME NEW m \in 1 .. Slot.raw_data_size
               PROVE  bytes[q + 2 + m - 1] = rom[q + 2 + m - 1]
    OBVIOUS
  <2>1. m + 1 \in Nat /\ m + 1 < L /\ q + 2 + m - 1 = q + (m + 1)
    BY <1>1, <1>2
  <2> QED
    BY <1>6, <2>1
<1>9. DataOf(bytes, q) = DataOf(rom, q)
  BY <1>8 DEF DataOf
<1> QED
  BY <1>7, <1>9 DEF ReadOf
(* A healthy record that no longer passes its CRC, and nothing else, makes *)
(* one log less healthy.                                                   *)
LEMMA OneLessHealthy ==
  ASSUME NEW r \in Records, NEW x, x = eels_index_pos(Slot, r), NEW bytes,
         ReadOf(rom, x).ok = 0, ReadOf(bytes, x).ok # 0,
         \A i \in Records : i # r =>
           ReadOf(bytes, eels_index_pos(Slot, i)) = ReadOf(rom, eels_index_pos(Slot, i)),
         \A q \in Walk[Pos0] : BeyondLast(q) => ReadOf(bytes, q) = ReadOf(rom, q)
  PROVE  Cardinality(HealthyIn(bytes))
           = Cardinality(HealthyIn(rom)) - (IF x = Pos0 THEN 0 ELSE 1)
<1>1. ASSUME NEW q \in Walk[Pos0], q # x
      PROVE  ReadOf(bytes, q) = ReadOf(rom, q)
  <2>1. CASE BeyondLast(q)
    BY <2>1
  <2>2. CASE ~ BeyondLast(q)
    <3>1. PICK i \in Records : q = eels_index_pos(Slot, i)
      BY <2>2, WalkRecords
    <3> QED
      BY <1>1, <3>1
  <2> QED
    BY <2>1, <2>2
<1>2. HealthyIn(bytes) = HealthyIn(rom) \ {x}
  BY <1>1 DEF HealthyIn
<1>3. x \in HealthyIn(rom) <=> x # Pos0
  <2>1. x \in Walk[Pos0] <=> r > 0
    BY WalkRecords
  <2>2. x = Pos0 <=> r = 0
    <3>1. r \in 0 .. Counter_max - 1 /\ 0 \in 0 .. Counter_max - 1
      BY FirstWalked DEF Records
    <3> QED
      BY <3>1, IndexOfPos DEF Pos0
  <2>3. r > 0 <=> r # 0
    BY SlotTypes DEF Records
  <2> QED
    BY <2>1, <2>2, <2>3 DEF HealthyIn
<1>4. IsFiniteSet(HealthyIn(rom)) /\ Cardinality(HealthyIn(rom)) \in Nat
  BY WalkFinite DEF HealthyIn
<1>5. Cardinality(HealthyIn(rom) \ {x})
        = IF x \in HealthyIn(rom) THEN Cardinality(HealthyIn(rom)) - 1
          ELSE Cardinality(HealthyIn(rom))
  BY <1>4, FS_RemoveElement
<1> QED
  BY <1>2, <1>3, <1>4, <1>5

(* Where the log lies that is counted k logs back from the newest one.     *)
LEMMA KnownPlace ==
  ASSUME SlotInv, HTypeOK, ReadsBack, pc = "idle", NEW k \in Known
  PROVE  \E r \in Records :
           /\ EELS_PosIdx(EELS_Len - 1 - k) = eels_index_pos(Slot, r)
           /\ DataAt(eels_index_pos(Slot, r)) \in Payloads
           /\ Crc(DataAt(eels_index_pos(Slot, r))) = rom[eels_index_pos(Slot, r) + 1]
           /\ \A n \in 0 .. EELS_Len - 1 : n # EELS_Len - 1 - k =>
                \E i \in Records : i # r /\ eels_relative_pos(n) = eels_index_pos(Slot, i)
<1> DEFINE r == Back(slot.write_index, k)
           x == eels_index_pos(Slot, r)
<1>1. /\ slot.write_index \in Records /\ EELS_Len \in Nat /\ Len(log) \in Nat
      /\ log \in Logs
  BY WritingCursor, SlotTypes, LogTypes DEF EELS_Len, Records
<1>2. k \in 0 .. EELS_Len - 1 /\ k + Ahead < Len(log) /\ Newer(k + Ahead) # Lost
      /\ k + Ahead \in Nat
  BY DEF Known, Ahead
<1>3. k \in Records /\ eels_relative_pos(EELS_Len - 1 - k) = x
  BY <1>2, PositionBack
<1>4. r \in Records
  BY <1>1, <1>3, BackIs
<1>5. EELS_ReadIdx(EELS_Len - 1 - k) = [ok |-> EELS_ERROR_OK, data |-> Newer(k + Ahead)]
  BY Zenon DEF ReadsBack
<1>6. Newer(k + Ahead) \in Payloads
  <2>1. Len(log) - (k + Ahead) \in 1 .. Len(log)
    BY <1>1, <1>2
  <2>2. log[Len(log) - (k + Ahead)] \in Payloads \cup {Lost}
    BY <1>1, <2>1 DEF Logs
  <2> QED
    BY <1>2, <2>2 DEF Newer
<1> HIDE DEF r
<1>7. EELS_ReadIdx(EELS_Len - 1 - k)
        = [ok |-> IF Crc(DataAt(x)) = rom[x + 1] THEN 0 ELSE 1, data |-> DataAt(x)]
  BY <1>3, <1>4, ReadingIs DEF EELS_ReadIdx, Records
<1> HIDE DEF x
<1>8. DataAt(x) \in Payloads /\ Crc(DataAt(x)) = rom[x + 1]
  BY <1>5, <1>6, <1>7 DEF EELS_ERROR_OK
<1>9. ASSUME NEW n \in 0 .. EELS_Len - 1, n # EELS_Len - 1 - k
      PROVE  \E i \in Records : i # r /\ eels_relative_pos(n) = eels_index_pos(Slot, i)
  <2> DEFINE j == EELS_Len - 1 - n
  <2>1. j \in 0 .. EELS_Len - 1 /\ EELS_Len - 1 - j = n /\ j # k
    BY <1>1, <1>2, <1>9
  <2>2. j \in Records /\ eels_relative_pos(EELS_Len - 1 - j)
                           = eels_index_pos(Slot, Back(slot.write_index, j))
    BY <2>1, PositionBack
  <2>3. Back(slot.write_index, j) \in Records /\ Back(slot.write_index, j) # r
    <3> HIDE DEF j
    <3>1. Back(slot.write_index, j) \in Records
      BY <1>1, <2>2, BackIs
    <3>2. Back(slot.write_index, j) = Back(slot.write_index, k) => j = k
      BY <1>1, <1>3, <2>2, BackApart
    <3> QED
      BY <2>1, <3>1, <3>2 DEF r
  <2> QED
    BY <2>1, <2>2, <2>3
<1> QED
  BY <1>3, <1>4, <1>8, <1>9 DEF x, EELS_PosIdx
LEMMA ByteTold ==
  ASSUME DamageTold, NEW d \in Payloads, NEW m \in 1 .. Slot.raw_data_size,
         NEW step \in {-1, 1}, NEW v, v = (d[m] + step) % 256,
         NEW data, data = [d EXCEPT ![m] = v]
  PROVE  Crc(data) # Crc(d)
<1>1. \A i \in 1 .. Slot.raw_data_size, t \in {-1, 1} :
        Crc([d EXCEPT ![i] = (d[i] + t) % 256]) # Crc(d)
  BY DEF DamageTold
<1>2. Crc([d EXCEPT ![m] = (d[m] + step) % 256]) # Crc(d)
  BY ONLY <1>1, m \in 1 .. Slot.raw_data_size, step \in {-1, 1}
<1> QED
  BY ONLY <1>2, v = (d[m] + step) % 256, data = [d EXCEPT ![m] = v]

LEMMA DamageSeen ==
  ASSUME DamageTold, WalkInRom,
         SlotInv, HTypeOK, ReadsBack, pc = "idle",
         NEW k \in Known, NEW i \in 1 .. Slot.raw_data_size, NEW step \in {-1, 1},
         NEW idx, idx = EELS_Len - 1 - k, NEW pos, pos = EELS_PosIdx(idx),
         NEW cell, cell = pos + EELS_SlotLogSize - i,
         NEW bytes, bytes = EELS_WriteCell(cell, EELS_ReadCell(cell) + step)
  PROVE  /\ Reading(bytes)!_EELS_getHealthyLogs
              = _EELS_getHealthyLogs - (IF pos = Pos0 THEN 0 ELSE 1)
         /\ \A n \in 0 .. EELS_Len - 1 :
              LET read == Reading(bytes)!EELS_ReadIdx(n)
              IN IF n = idx THEN read.ok = EELS_ERROR_NOK ELSE read = EELS_ReadIdx(n)
<1>1. PICK r \in Records :
        /\ pos = eels_index_pos(Slot, r)
        /\ DataAt(eels_index_pos(Slot, r)) \in Payloads
        /\ Crc(DataAt(eels_index_pos(Slot, r))) = rom[eels_index_pos(Slot, r) + 1]
        /\ \A n \in 0 .. EELS_Len - 1 : n # idx =>
             \E j \in Records : j # r /\ eels_relative_pos(n) = eels_index_pos(Slot, j)
  BY KnownPlace
<1> DEFINE n == Slot.raw_data_size + 1 - i
           d == DataAt(pos)
           v == (d[n] + step) % 256
<1>2. /\ n \in 1 .. Slot.raw_data_size /\ pos \in Nat /\ n \in Nat
      /\ cell = pos + (n + 1) /\ PosOk(pos)
  <2>1. pos \in Nat /\ PosOk(pos)
    BY <1>1, RecordBounds DEF Records
  <2>2. cell = pos + Slot.slot_log_length - i
    BY DEF EELS_SlotLogSize
  <2> QED
    BY <2>1, <2>2, SlotTypes
<1>3. d \in Payloads /\ Crc(d) = rom[pos + 1] /\ d = DataOf(rom, pos)
      /\ \A m \in 1 .. Slot.raw_data_size : d[m] = rom[pos + 2 + m - 1] /\ d[m] \in Byte
  <2>1. d \in Payloads /\ Crc(d) = rom[pos + 1]
    BY <1>1
  <2>2. d \in [1 .. Slot.raw_data_size -> Byte]
    BY <2>1, DataAssumption
  <2> QED
    BY <2>1, <2>2 DEF DataAt, DataOf, EELS_RECSIZE_HEAD
<1>4. rom[cell] = d[n] /\ v \in Byte
  <2>1. pos + 2 + n - 1 = pos + (n + 1)
    BY <1>2
  <2>2. d[n] \in Byte /\ rom[cell] = d[n]
    <3> HIDE DEF n, d
    <3> QED
      BY <1>2, <1>3, <2>1
  <2> HIDE DEF d, n
  <2>3. d[n] + step \in Int /\ 256 \in Nat \ {0}
    BY <2>2 DEF Byte
  <2> QED
    BY <2>2, <2>3 DEF Byte
<1>5. bytes = [rom EXCEPT ![pos + (n + 1)] = v]
  BY <1>2, <1>4 DEF EELS_WriteCell, EELS_ReadCell
<1> HIDE DEF n, v
<1>6. /\ DataOf(bytes, pos) = [d EXCEPT ![n] = v] /\ bytes[pos + 1] = rom[pos + 1]
      /\ \A j \in Records : j # r =>
           ReadOf(bytes, eels_index_pos(Slot, j)) = ReadOf(rom, eels_index_pos(Slot, j))
  <2>1. rom \in [Addr -> Byte]
    BY DEF SlotInv, TypeOK
  <2> HIDE DEF d
  <2> QED
    BY <1>1, <1>2, <1>3, <1>4, <1>5, <2>1, DamagedRecord
<1>7. Crc(DataOf(bytes, pos)) # Crc(d)
  <2>1. v = (d[n] + step) % 256 /\ d \in Payloads /\ n \in 1 .. Slot.raw_data_size
    BY <1>2, <1>3 DEF v
  <2>2. DataOf(bytes, pos) = [d EXCEPT ![n] = v]
    BY <1>6
  <2> HIDE DEF d
  <2> QED
    BY <2>1, <2>2, ByteTold
<1>8. ReadOf(rom, pos).ok = 0 /\ ReadOf(bytes, pos).ok = 1
  <2> HIDE DEF d
  <2> QED
    BY <1>2, <1>3, <1>6, <1>7 DEF ReadOf
<1>9. \A q \in Walk[Pos0] : BeyondLast(q) => ReadOf(bytes, q) = ReadOf(rom, q)
  <2>1. rom \in [Addr -> Byte]
    BY DEF SlotInv, TypeOK
  <2> QED
    BY <1>1, <1>2, <1>5, <2>1, DamagedBeyond
<1>10. Cardinality(HealthyIn(bytes))
         = Cardinality(HealthyIn(rom)) - (IF pos = Pos0 THEN 0 ELSE 1)
  <2>1. ReadOf(rom, pos).ok = 0 /\ ReadOf(bytes, pos).ok # 0
    BY <1>8
  <2> HIDE DEF d
  <2> QED
    BY <1>1, <1>6, <1>9, <2>1, OneLessHealthy
<1>11. Reading(bytes)!_EELS_getHealthyLogs
         = _EELS_getHealthyLogs - (IF pos = Pos0 THEN 0 ELSE 1)
  BY <1>10, ReadingHealthy
<1>12. ASSUME NEW m \in 0 .. EELS_Len - 1
       PROVE  LET read == Reading(bytes)!EELS_ReadIdx(m)
              IN IF m = idx THEN read.ok = EELS_ERROR_NOK ELSE read = EELS_ReadIdx(m)
  <2>1. /\ Reading(bytes)!EELS_ReadIdx(m) = ReadOf(bytes, eels_relative_pos(m))
        /\ EELS_ReadIdx(m) = ReadOf(rom, eels_relative_pos(m))
    BY ReadingSamePlace, ReadingIsRead DEF EELS_ReadIdx
  <2>2. CASE m = idx
    <3>1. eels_relative_pos(m) = pos
      BY <2>2 DEF EELS_PosIdx
    <3> QED
      BY <1>8, <2>1, <2>2, <3>1 DEF EELS_ERROR_NOK
  <2>3. CASE m # idx
    <3>1. PICK j \in Records : j # r /\ eels_relative_pos(m) = eels_index_pos(Slot, j)
      BY <1>1, <2>3
    <3> QED
      BY <1>6, <2>1, <2>3, <3>1
  <2> QED
    BY <2>2, <2>3
<1> QED
  BY <1>11, <1>12

(* A log that is counted and damaged in the EEPROM fails its CRC, no other *)
(* log is taken for damaged, and the health counter misses just that one.  *)
THEOREM DamageIsSeen ==
  ASSUME DamageTold, WalkInRom, Recoverable, ~ MayLag \/ MaxCleans = 0
  PROVE  HSpec => []DamageShows
<1>1. SlotInv /\ HTypeOK /\ ReadsBack => DamageShows
  <2> SUFFICES ASSUME SlotInv, HTypeOK, ReadsBack, pc = "idle", NEW k \in Known
               PROVE  LET idx  == EELS_Len - 1 - k
                          pos  == EELS_PosIdx(idx)
                          data == DataAt(pos)
                      IN /\ \A i \in 1 .. Slot.raw_data_size, step \in {-1, 1} :
                              LET cell == pos + EELS_SlotLogSize - i
                                  bytes == EELS_WriteCell(cell, EELS_ReadCell(cell) + step)
                              IN /\ Reading(bytes)!_EELS_getHealthyLogs
                                      = _EELS_getHealthyLogs
                                          - (IF pos = Pos0 THEN 0 ELSE 1)
                                 /\ \A n \in 0 .. EELS_Len - 1 :
                                      LET read == Reading(bytes)!EELS_ReadIdx(n)
                                      IN IF n = idx THEN read.ok = EELS_ERROR_NOK
                                                    ELSE read = EELS_ReadIdx(n)
                         /\ \A i \in 2 .. Len(data) :
                              data[i] # data[i - 1] =>
                                Crc([data EXCEPT ![i - 1] = data[i], ![i] = data[i - 1]])
                                  # CrcAt(pos)
    BY DEF DamageShows
  <2> DEFINE pos == EELS_PosIdx(EELS_Len - 1 - k)
             d   == DataAt(pos)
  <2>1. ASSUME NEW i \in 2 .. Len(d), d[i] # d[i - 1]
        PROVE  Crc([d EXCEPT ![i - 1] = d[i], ![i] = d[i - 1]]) # CrcAt(pos)
    <3>1. d \in Payloads /\ Crc(d) = rom[pos + 1]
      BY KnownPlace
    <3> HIDE DEF d
    <3>2. Len(d) = Slot.raw_data_size
      BY <3>1, Payload
    <3>3. CrcAt(pos) = rom[pos + 1]
      BY DEF CrcAt, EELS_RECOFFS_CRC
    <3> QED
      BY <2>1, <3>1, <3>2, <3>3 DEF DamageTold
  <2> HIDE DEF pos, d
  <2> QED
    BY <2>1, DamageSeen DEF pos, d
<1> QED
  BY <1>1, CountedRead, HistoryTypes, HistoryKeepsSlot, SlotInvariant, PTL
=============================================================================
