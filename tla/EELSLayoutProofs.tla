-------------------------- MODULE EELSLayoutProofs --------------------------
(***************************************************************************)
(* What the position arithmetic of EELSLayout computes, for every layout   *)
(* that EELS_SetSlot can leave.                                            *)
(***************************************************************************)
EXTENDS EELSLayout, TLAPS

(* A product grows with its factor.                                        *)
LEMMA TimesMonotone ==
  ASSUME NEW a \in Nat, NEW b \in Nat, NEW c \in Nat, a <= b
  PROVE  c * a <= c * b
<1>1. PICK d \in Nat : b = a + d
  BY b = a + (b - a), b - a \in Nat
<1>2. c * b = c * a + c * d
  BY <1>1
<1>3. c * d \in Nat /\ c * a \in Nat
  OBVIOUS
<1> QED
  BY <1>2, <1>3

LEMMA TimesCancels ==
  ASSUME NEW a \in Nat, NEW b \in Nat, NEW c \in Nat, c * a < c * b
  PROVE  a < b
<1>1. SUFFICES ASSUME b <= a PROVE FALSE
  OBVIOUS
<1>2. c * b <= c * a
  BY <1>1, TimesMonotone
<1>3. c * b \in Nat /\ c * a \in Nat
  OBVIOUS
<1> QED
  BY <1>2, <1>3

(* The quotient and the remainder of a number written with a divisor n.    *)
LEMMA DivMod ==
  ASSUME NEW n \in Nat \ {0}, NEW q \in Nat, NEW r \in 0 .. n - 1
  PROVE  (n * q + r) \div n = q /\ (n * q + r) % n = r
OBVIOUS

LEMMA Divided ==
  ASSUME NEW n \in Nat \ {0}, NEW x \in Nat
  PROVE  \E q \in Nat, r \in 0 .. n - 1 : x = n * q + r
<1>1. x \div n \in Nat /\ x % n \in 0 .. n - 1 /\ x = n * (x \div n) + (x % n)
  OBVIOUS
<1> QED
  BY <1>1

-----------------------------------------------------------------------------
(* The types of a layout, and the number of its pages.                     *)

LEMMA LayoutTypes ==
  ASSUME NEW this, SlotLayout(this)
  PROVE  /\ this.begining \in Nat /\ this.length \in Nat
         /\ this._counter_max \in Nat \ {0}
         /\ this.raw_data_size \in Nat \ {0}
         /\ this.slot_log_length \in Nat
         /\ this.slot_log_length = this.raw_data_size + 2
         /\ this.page_size \in Nat /\ this.page_records \in Nat
         /\ this.page_offs \in Nat /\ this.page_limit \in Nat
BY DEF SlotLayout, EELS_RECSIZE_HEAD

(* A paged layout: where the records of a page begin and end.              *)
LEMMA SectionFits ==
  ASSUME NEW this, SlotLayout(this), PagedLayout(this),
         NEW b \in 0 .. this.page_records - 1
  PROVE  /\ this.page_offs + this.slot_log_length * b \in Nat
         /\ this.page_offs + this.slot_log_length * b + this.slot_log_length
              <= this.page_limit
         /\ this.page_offs + this.slot_log_length * b < this.page_size
<1> USE LayoutTypes
<1> DEFINE L == this.slot_log_length
           R == this.page_records
<1>1. L \in Nat /\ L > 0 /\ R \in Nat
  OBVIOUS
<1>2. L * (b + 1) <= L * R
  BY <1>1, b + 1 \in Nat, b + 1 <= R, TimesMonotone
<1>3. L * (b + 1) = L * b + L /\ L * R = R * L /\ L * b \in Nat
  BY <1>1
<1> QED
  BY <1>1, <1>2, <1>3 DEF PagedLayout

(* In a paged layout record R * a + b is the b-th one of page a.           *)
LEMMA IndexPosPaged ==
  ASSUME NEW this, SlotLayout(this), PagedLayout(this),
         NEW a \in Nat, NEW b \in 0 .. this.page_records - 1
  PROVE  eels_index_pos(this, this.page_records * a + b)
           = this.begining + this.page_size * a
               + (this.page_offs + this.slot_log_length * b)
<1> DEFINE R == this.page_records
<1>1. R \in Nat \ {0}
  BY LayoutTypes DEF PagedLayout
<1>2. (R * a + b) \div R = a
  BY <1>1, DivMod
<1>3. (R * a + b) - a * R = b
  BY <1>1
<1> QED
  BY <1>1, <1>2, <1>3 DEF eels_index_pos

(* Every index of a paged layout lies in one of its pages.                 *)
LEMMA IndexInPage ==
  ASSUME NEW this, SlotLayout(this), PagedLayout(this),
         NEW pages \in Nat, this._counter_max = pages * this.page_records,
         NEW i \in 0 .. this._counter_max - 1
  PROVE  \E a \in 0 .. pages - 1, b \in 0 .. this.page_records - 1 :
            i = this.page_records * a + b
<1> DEFINE R == this.page_records
<1>1. R \in Nat \ {0} /\ i \in Nat
  BY LayoutTypes DEF PagedLayout
<1>2. PICK a \in Nat, b \in 0 .. R - 1 : i = R * a + b
  BY <1>1, Divided
<1>3. R * a < R * pages
  <2>1. R * a \in Nat /\ R * pages = pages * R
    BY <1>1
  <2> QED
    BY <1>1, <1>2, <2>1, LayoutTypes
<1>4. a < pages
  BY <1>1, <1>3, TimesCancels
<1> QED
  BY <1>2, <1>4

(* Every record lies inside its slot.                                      *)
LEMMA RecordInside ==
  ASSUME NEW this, SlotLayout(this), NEW i \in 0 .. this._counter_max - 1
  PROVE  /\ eels_index_pos(this, i) \in Nat
         /\ this.begining <= eels_index_pos(this, i)
         /\ eels_index_pos(this, i) + this.slot_log_length
              <= this.begining + this.length
<1> DEFINE L == this.slot_log_length
           P == this.page_size
           N == this._counter_max
           B == this.begining
<1>1. L \in Nat /\ P \in Nat /\ N \in Nat /\ B \in Nat /\ this.length \in Nat
  BY LayoutTypes
<1>2. CASE UnpagedLayout(this)
  <2>1. L * (i + 1) <= L * N
    BY <1>1, i + 1 \in Nat, i + 1 <= N, TimesMonotone
  <2>2. L * (i + 1) = L * i + L /\ L * i \in Nat
    BY <1>1
  <2>3. eels_index_pos(this, i) = B + L * i
    BY <1>2 DEF eels_index_pos, UnpagedLayout
  <2>4. L * N <= this.length
    BY <1>2 DEF UnpagedLayout
  <2> HIDE DEF L, N, B
  <2> QED
    BY <1>1, <2>1, <2>2, <2>3, <2>4 DEF B, L
<1>3. CASE PagedLayout(this)
  <2>1. PICK pages \in Nat : this.length = pages * P /\ N = pages * this.page_records
    BY <1>1, <1>3 DEF PagedLayout
  <2>2. PICK a \in 0 .. pages - 1, b \in 0 .. this.page_records - 1 :
           i = this.page_records * a + b
    BY <1>3, <2>1, IndexInPage
  <2>3. eels_index_pos(this, i)
          = B + P * a + (this.page_offs + L * b)
    BY <1>3, <2>2, IndexPosPaged
  <2>4. this.page_offs + L * b \in Nat /\ this.page_offs + L * b + L <= P
    BY <1>1, <1>3, <2>2, SectionFits, LayoutTypes DEF PagedLayout
  <2>5. P * (a + 1) <= P * pages
    BY <1>1, a + 1 \in Nat, a + 1 <= pages, TimesMonotone
  <2>6. P * (a + 1) = P * a + P /\ P * pages = pages * P /\ P * a \in Nat
    BY <1>1
  <2> QED
    BY <1>1, <2>1, <2>3, <2>4, <2>5, <2>6
<1> QED
  BY <1>2, <1>3 DEF SlotLayout

(* The page and the offset of a position that is inside a page.            *)
LEMMA PosPage ==
  ASSUME NEW this, SlotLayout(this), PagedLayout(this),
         NEW a \in Nat, NEW o \in 0 .. this.page_size - 1
  PROVE  LET x == this.begining + this.page_size * a + o
         IN /\ eels_pos_page(this, x) = this.begining + this.page_size * a
            /\ eels_pos_ofs(this, x) = o
<1> DEFINE P == this.page_size
           x == this.begining + P * a + o
<1>1. P \in Nat \ {0} /\ this.begining \in Nat
  BY LayoutTypes DEF PagedLayout
<1>2. PICK q \in Nat : this.begining = P * q
  <2>1. PICK q \in Nat, r \in 0 .. P - 1 : this.begining = P * q + r
    BY <1>1, Divided
  <2>2. r = 0
    <3>1. this.begining % P = 0
      BY DEF PagedLayout
    <3>2. (P * q + r) % P = r
      BY <1>1, DivMod
    <3> QED
      BY <2>1, <3>1, <3>2
  <2> QED
    BY <1>1, <2>1, <2>2
<1>3. x = P * (q + a) + o
  BY <1>1, <1>2
<1>4. x % P = o
  BY <1>1, <1>3, q + a \in Nat, DivMod
<1>5. P * a \in Nat
  BY <1>1
<1> QED
  BY <1>1, <1>4, <1>5 DEF eels_pos_page, eels_pos_ofs

-----------------------------------------------------------------------------
(* eels_next_pos leads from record i to record i + 1, and from the last    *)
(* record to record 0 -- or, in an unpaged slot, to bytes at the end that  *)
(* are too few for a record, which eels_write_advance does not accept.     *)
LEMMA NextPosSolid ==
  ASSUME NEW this, SlotLayout(this), UnpagedLayout(this),
         NEW i \in 0 .. this._counter_max - 1
  PROVE  LET x    == eels_index_pos(this, i)
             next == eels_next_pos(this, x)
         IN \/ /\ i + 1 < this._counter_max
               /\ next = eels_index_pos(this, i + 1)
               /\ x <= next
            \/ /\ i + 1 = this._counter_max
               /\ next \in Nat
               /\ next < x => next = eels_index_pos(this, 0)
<1> DEFINE L == this.slot_log_length
           N == this._counter_max
           B == this.begining
           E == B + this.length
           x == eels_index_pos(this, i)
           next == eels_next_pos(this, x)
<1>1. L \in Nat /\ N \in Nat /\ B \in Nat /\ this.length \in Nat
  BY LayoutTypes
<1>2. \A j \in Nat : eels_index_pos(this, j) = B + L * j
  BY DEF eels_index_pos, UnpagedLayout
<1>3. /\ L * i \in Nat
      /\ L * (i + 1) = L * i + L
      /\ L * 0 = 0
  BY <1>1
<1>4. x = B + L * i /\ eels_index_pos(this, i + 1) = x + L
      /\ eels_index_pos(this, 0) = B
  BY <1>1, <1>2, <1>3
<1>5. next = IF x + L >= E THEN B ELSE x + L
  BY DEF eels_next_pos, UnpagedLayout
<1>6. L * N <= this.length
  BY DEF UnpagedLayout
<1>7. CASE i + 1 = N
  BY <1>1, <1>3, <1>4, <1>5, <1>7
<1>8. CASE i + 1 < N
  <2>1. L * (i + 2) <= L * N
    BY <1>1, <1>8, i + 2 \in Nat, i + 2 <= N, TimesMonotone
  <2>2. L * (i + 2) = L * i + L + L /\ L > 0
    BY <1>1, LayoutTypes
  <2>3. x + L < E
    <3> HIDE DEF x, L, N, B
    <3> QED
      BY <1>1, <1>3, <1>4, <1>6, <2>1, <2>2 DEF E
  <2> QED
    BY <1>1, <1>3, <1>4, <1>5, <1>8, <2>3
<1> QED
  BY <1>1, <1>7, <1>8

LEMMA NextPosPaged ==
  ASSUME NEW this, SlotLayout(this), PagedLayout(this),
         NEW i \in 0 .. this._counter_max - 1
  PROVE  LET x    == eels_index_pos(this, i)
             next == eels_next_pos(this, x)
         IN \/ /\ i + 1 < this._counter_max
               /\ next = eels_index_pos(this, i + 1)
               /\ x <= next
            \/ /\ i + 1 = this._counter_max
               /\ next \in Nat
               /\ next = eels_index_pos(this, 0)
<1> DEFINE L == this.slot_log_length
           P == this.page_size
           R == this.page_records
           O == this.page_offs
           B == this.begining
           x == eels_index_pos(this, i)
           next == eels_next_pos(this, x)
<1>1. /\ L \in Nat /\ L > 0 /\ P \in Nat /\ P > 0 /\ R \in Nat /\ R > 0
      /\ O \in Nat /\ B \in Nat /\ this._counter_max \in Nat
  BY LayoutTypes DEF PagedLayout
<1>2. PICK pages \in Nat : this.length = pages * P /\ this._counter_max = pages * R
  BY <1>1 DEF PagedLayout
<1>3. PICK a \in 0 .. pages - 1, b \in 0 .. R - 1 : i = R * a + b
  BY <1>2, IndexInPage
<1> DEFINE o == O + L * b
<1>4. /\ L * b \in Nat /\ P * a \in Nat /\ R * a \in Nat
      /\ L * (b + 1) = L * b + L
      /\ L * (b + 2) = L * b + L + L
      /\ P * (a + 1) = P * a + P
      /\ P * (a + 2) = P * a + P + P
      /\ R * (a + 1) = R * a + R
      /\ L * 0 = 0 /\ P * 0 = 0 /\ R * 0 = 0
      /\ pages * P = P * pages /\ pages * R = R * pages
  <2> HIDE DEF L, P, R
  <2>1. L * b \in Nat /\ L * (b + 1) = L * b + L /\ L * (b + 2) = L * b + L + L
    BY <1>1
  <2>2. P * a \in Nat /\ P * (a + 1) = P * a + P /\ P * (a + 2) = P * a + P + P
    BY <1>1
  <2>3. R * a \in Nat /\ R * (a + 1) = R * a + R
    BY <1>1
  <2>4. L * 0 = 0 /\ P * 0 = 0 /\ R * 0 = 0
    BY <1>1
  <2>5. pages * P = P * pages /\ pages * R = R * pages
    BY <1>1
  <2> QED
    BY <2>1, <2>2, <2>3, <2>4, <2>5
<1>5. o \in 0 .. P - 1
  BY <1>1, <1>4, SectionFits
<1>6. x = B + P * a + o
  BY <1>3, IndexPosPaged
<1>7. eels_pos_page(this, x) = B + P * a /\ eels_pos_ofs(this, x) = o
  BY <1>5, <1>6, PosPage
<1>8. eels_index_pos(this, 0) = B + O
  <2>1. eels_index_pos(this, R * 0 + 0) = B + P * 0 + (O + L * 0)
    BY <1>1, IndexPosPaged
  <2> QED
    BY <1>1, <1>4, <2>1
<1>9. PageLimit(this) = O + R * L /\ R * L = L * R
  BY <1>1 DEF PageLimit, PagedLayout
<1>10. next = IF o + L + L <= O + L * R
              THEN B + P * a + (o + L)
              ELSE IF B + P * a + P + P > B + P * pages
                   THEN B + O
                   ELSE B + P * a + P + O
  BY <1>1, <1>2, <1>4, <1>7, <1>9 DEF eels_next_pos, PastLastPage
<1>11. CASE b + 1 < R
  <2>1. L * (b + 2) <= L * R
    BY <1>1, <1>11, b + 2 \in Nat, b + 2 <= R, TimesMonotone
  <2>2. next = B + P * a + (O + L * (b + 1))
    <3>1. o + L + L <= O + L * R
      <4> HIDE DEF L, R, O
      <4> QED
        BY <1>1, <1>4, <2>1
    <3> QED
      BY <1>1, <1>4, <1>10, <3>1
  <2>3. eels_index_pos(this, R * a + (b + 1)) = B + P * a + (O + L * (b + 1))
    BY <1>11, <1>1, b + 1 \in 0 .. R - 1, IndexPosPaged
  <2>4. R * a + (b + 1) = i + 1
    BY <1>1, <1>3, <1>4
  <2>5. i + 1 < this._counter_max
    <3>1. R * (a + 1) <= R * pages
      BY <1>1, a + 1 \in Nat, a + 1 <= pages, TimesMonotone
    <3> QED
      BY <1>1, <1>2, <1>3, <1>4, <1>11, <3>1
  <2>6. x <= next
    BY <1>1, <1>4, <1>6, <2>2
  <2> QED
    BY <2>2, <2>3, <2>4, <2>5, <2>6
<1>12. CASE b + 1 = R
  <2>1. L * (b + 1) = L * R
    BY <1>12
  <2>2. ~ (o + L + L <= O + L * R)
    BY <1>1, <1>4, <2>1
  <2>3. R * (a + 1) = i + 1
    BY <1>1, <1>3, <1>4, <1>12
  <2>4. CASE a + 1 = pages
    <3>1. i + 1 = this._counter_max
      BY <1>2, <1>4, <2>3, <2>4
    <3>2. P * (a + 1) = P * pages
      BY <2>4
    <3>3. next = B + O
      BY <1>1, <1>4, <1>10, <2>2, <3>2
    <3> QED
      BY <1>1, <1>8, <3>1, <3>3
  <2>5. CASE a + 1 < pages
    <3>1. P * (a + 2) <= P * pages
      BY <1>1, <2>5, a + 2 \in Nat, a + 2 <= pages, TimesMonotone
    <3>2. next = B + P * (a + 1) + O
      BY <1>1, <1>4, <1>10, <2>2, <3>1
    <3>3. eels_index_pos(this, R * (a + 1) + 0) = B + P * (a + 1) + (O + L * 0)
      BY <1>1, a + 1 \in Nat, IndexPosPaged
    <3>4. next = eels_index_pos(this, i + 1)
      BY <1>1, <1>3, <1>4, <2>3, <3>2, <3>3
    <3>5. x <= next
      BY <1>1, <1>4, <1>5, <1>6, <3>2
    <3>6. R * (a + 2) <= R * pages /\ R * (a + 2) = R * (a + 1) + R
      BY <1>1, <2>5, a + 2 \in Nat, a + 2 <= pages, TimesMonotone
    <3>7. i + 1 < this._counter_max
      BY <1>1, <1>2, <1>4, <2>3, <3>6
    <3> QED
      BY <3>4, <3>5, <3>7
  <2> QED
    BY <2>4, <2>5
<1> QED
  BY <1>1, <1>11, <1>12

LEMMA NextPos ==
  ASSUME NEW this, SlotLayout(this), NEW i \in 0 .. this._counter_max - 1
  PROVE  LET x    == eels_index_pos(this, i)
             next == eels_next_pos(this, x)
         IN \/ /\ i + 1 < this._counter_max
               /\ next = eels_index_pos(this, i + 1)
               /\ x <= next
            \/ /\ i + 1 = this._counter_max
               /\ next \in Nat
               /\ next < x => next = eels_index_pos(this, 0)
BY NextPosSolid, NextPosPaged DEF SlotLayout

(* The records of a slot lie one behind the other: no byte of the EEPROM   *)
(* belongs to two of them.                                                 *)
THEOREM RecordsApart ==
  ASSUME NEW this, SlotLayout(this),
         NEW i \in 0 .. this._counter_max - 1,
         NEW j \in 0 .. this._counter_max - 1, i < j
  PROVE  eels_index_pos(this, i) + this.slot_log_length <= eels_index_pos(this, j)
<1> DEFINE L == this.slot_log_length
           P == this.page_size
           R == this.page_records
           O == this.page_offs
           B == this.begining
<1>1. /\ L \in Nat /\ P \in Nat /\ R \in Nat /\ O \in Nat /\ B \in Nat
      /\ this._counter_max \in Nat
  BY LayoutTypes
<1>2. CASE UnpagedLayout(this)
  <2>1. L * (i + 1) <= L * j
    BY <1>1, i + 1 \in Nat, i + 1 <= j, TimesMonotone
  <2>2. L * (i + 1) = L * i + L /\ L * i \in Nat /\ L * j \in Nat
    BY <1>1
  <2>3. eels_index_pos(this, i) = B + L * i /\ eels_index_pos(this, j) = B + L * j
    BY <1>2 DEF eels_index_pos, UnpagedLayout
  <2> QED
    BY <1>1, <2>1, <2>2, <2>3
<1>3. CASE PagedLayout(this)
  <2>1. PICK pages \in Nat : this._counter_max = pages * R
    BY <1>1, <1>3 DEF PagedLayout
  <2>2. PICK a \in 0 .. pages - 1, b \in 0 .. R - 1 : i = R * a + b
    BY <1>3, <2>1, IndexInPage
  <2>3. PICK c \in 0 .. pages - 1, d \in 0 .. R - 1 : j = R * c + d
    BY <1>3, <2>1, IndexInPage
  <2>4. /\ eels_index_pos(this, i) = B + P * a + (O + L * b)
        /\ eels_index_pos(this, j) = B + P * c + (O + L * d)
    BY <1>3, <2>2, <2>3, IndexPosPaged
  <2>5. /\ L * b \in Nat /\ L * d \in Nat /\ P * a \in Nat /\ P * c \in Nat
        /\ R * a \in Nat /\ R * c \in Nat
    BY <1>1
  <2>6. O + L * b + L <= P
    BY <1>1, <1>3, <2>5, SectionFits DEF PagedLayout
  <2>7. CASE a = c
    <3>1. L * (b + 1) <= L * d
      BY <1>1, <2>2, <2>3, <2>7, <2>5, b + 1 \in Nat, b + 1 <= d, TimesMonotone
    <3>2. L * (b + 1) = L * b + L
      BY <1>1
    <3> QED
      BY <1>1, <2>4, <2>5, <2>7, <3>1, <3>2
  <2>8. CASE a < c
    <3>1. P * (a + 1) <= P * c /\ P * (a + 1) = P * a + P
      BY <1>1, <2>8, a + 1 \in Nat, a + 1 <= c, TimesMonotone
    <3> QED
      BY <1>1, <2>4, <2>5, <2>6, <3>1
  <2>9. CASE c < a
    <3>1. R * (c + 1) <= R * a /\ R * (c + 1) = R * c + R
      BY <1>1, <2>9, c + 1 \in Nat, c + 1 <= a, TimesMonotone
    <3> QED
      BY <1>1, <2>2, <2>3, <2>5, <3>1
  <2> QED
    BY <2>7, <2>8, <2>9
<1> QED
  BY <1>2, <1>3 DEF SlotLayout

=============================================================================
