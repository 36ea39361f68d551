-------------------------- MODULE EELSConfigProofs --------------------------
(***************************************************************************)
(* The slots that EELS_SetSlot accepts are laid out as EELSSlot assumes,   *)
(* for any number of slots, any integer widths, and whatever was called    *)
(* for a slot before.                                                      *)
(***************************************************************************)
EXTENDS EELSConfig, EELSLayoutProofs

USE DEF EELS_RECSIZE_HEAD, EELS_ERROR_OK, EELS_ERROR_SMALLPAGE

(* The integer types, and the widths.                                      *)
LEMMA Widths ==
  /\ ByteSize \in Nat \ {0} /\ LenSize \in Nat \ {0} /\ AddrSize \in Nat \ {0}
  /\ 2 < ByteSize
BY WidthAssumption

LEMMA Casts ==
  /\ \A x \in Int : u8(x)  \in 0 .. ByteSize - 1
  /\ \A x \in Int : u16(x) \in 0 .. LenSize - 1
  /\ \A x \in Int : u32(x) \in 0 .. AddrSize - 1
  /\ \A x \in 0 .. ByteSize - 1 : u8(x) = x
  /\ \A x \in 0 .. LenSize - 1  : u16(x) = x
  /\ \A x \in 0 .. AddrSize - 1 : u32(x) = x
BY Widths DEF u8, u16, u32

LEMMA Zeros == 0 \in 0 .. ByteSize - 1 /\ 0 \in 0 .. LenSize - 1 /\ 0 \in 0 .. AddrSize - 1
BY Widths

LEMMA CastsDown == \A x \in Nat : u16(x) <= x
BY Widths DEF u16

-----------------------------------------------------------------------------
(* What the steps of EELS_SetSlot make of a slot.                          *)

LEMMA SizedType ==
  ASSUME NEW this \in Fields, NEW data \in 0 .. ByteSize - 1
  PROVE  /\ Sized(this, data) \in Fields
         /\ Sized(this, data).page_size = this.page_size
         /\ Sized(this, data).page_offs = this.page_offs
         /\ Sized(this, data).page_limit = this.page_limit
         /\ Sized(this, data).raw_data_size = data
         /\ Sized(this, data).slot_log_length = u8(data + 2)
<1>1. u8(data + 2) \in 0 .. ByteSize - 1
  BY Casts, Widths
<1> QED
  BY <1>1 DEF Sized, Fields

LEMMA PagedOffset ==
  ASSUME NEW this \in Fields, this.page_size > 0, NEW begin \in 0 .. AddrSize - 1
  PROVE  /\ eels_pos_ofs(this, begin) \in 0 .. this.page_size - 1
         /\ eels_pos_ofs(this, begin) <= begin
         /\ eels_pos_page(this, begin) = begin - eels_pos_ofs(this, begin)
BY Widths DEF Fields, eels_pos_ofs, eels_pos_page

LEMMA FromPageType ==
  ASSUME NEW this \in Fields, this.page_size > 0,
         NEW begin \in 0 .. AddrSize - 1, NEW length \in 0 .. AddrSize - 1
  PROVE  LET that == FromPage(this, begin, length)
             ofs  == eels_pos_ofs(this, begin)
             skip == IF ofs > this.page_offs THEN this.page_size ELSE 0
         IN /\ that \in Fields
            /\ that.begining = u32(eels_pos_page(this, begin) + skip)
            /\ that.length = u32(length + ofs - skip)
            /\ that.page_size = this.page_size
            /\ that.page_offs = this.page_offs
            /\ that.page_limit = this.page_limit
            /\ that.raw_data_size = this.raw_data_size
            /\ that.slot_log_length = this.slot_log_length
<1> DEFINE ofs  == eels_pos_ofs(this, begin)
           skip == IF ofs > this.page_offs THEN this.page_size ELSE 0
<1>1. ofs \in Int /\ skip \in Int /\ eels_pos_page(this, begin) \in Int
  BY PagedOffset, Widths DEF Fields
<1>2. /\ u32(eels_pos_page(this, begin) + skip) \in 0 .. AddrSize - 1
      /\ u32(length + ofs - skip) \in 0 .. AddrSize - 1
  <2>1. length + ofs - skip \in Int /\ eels_pos_page(this, begin) + skip \in Int
    BY <1>1, Widths
  <2> QED
    BY <2>1, Casts
<1>3. FromPage(this, begin, length)
        = [this EXCEPT !.begining = u32(eels_pos_page(this, begin) + skip),
                       !.length = u32(length + ofs - skip)]
  BY DEF FromPage
<1> HIDE DEF ofs, skip
<1>4. /\ FromPage(this, begin, length) \in Fields
      /\ FromPage(this, begin, length).begining = u32(eels_pos_page(this, begin) + skip)
      /\ FromPage(this, begin, length).length = u32(length + ofs - skip)
      /\ FromPage(this, begin, length).page_size = this.page_size
      /\ FromPage(this, begin, length).page_offs = this.page_offs
      /\ FromPage(this, begin, length).page_limit = this.page_limit
      /\ FromPage(this, begin, length).raw_data_size = this.raw_data_size
      /\ FromPage(this, begin, length).slot_log_length = this.slot_log_length
  BY <1>2, <1>3 DEF Fields
<1> QED
  BY <1>4 DEF ofs, skip

LEMMA PagesType ==
  ASSUME NEW this \in Fields, this.page_size > 0, NEW limit \in 0 .. ByteSize - 1
  PROVE  /\ Pages(this, limit) \in Nat
         /\ 0 < limit =>
              Pages(this, limit) * this.page_size < this.length + this.page_size
         /\ limit <= this.page_size =>
              (Pages(this, limit) - 1) * this.page_size + limit <= this.length
<1> DEFINE S == this.page_size
           q == this.length \div S
           r == this.length % S
<1>1. /\ this.length \in Nat /\ S \in Nat \ {0} /\ limit \in Nat
  BY Widths DEF Fields
<1>2. q \in Nat /\ r \in 0 .. S - 1 /\ this.length = S * q + r
  BY <1>1
<1>3. Pages(this, limit) = q + (IF r >= limit THEN 1 ELSE 0)
  BY DEF Pages
<1> HIDE DEF q, r, S
<1>4. Pages(this, limit) \in Nat
  BY <1>2, <1>3
<1>5. CASE r >= limit
  <2>1. Pages(this, limit) * S = S * q + S
    BY <1>1, <1>2, <1>3, <1>5
  <2>2. S * q \in Nat
    BY <1>1, <1>2
  <2>3. (Pages(this, limit) - 1) * S = S * q
    BY <1>1, <1>2, <1>3, <1>5
  <2> QED
    BY <1>1, <1>2, <1>3, <1>4, <1>5, <2>1, <2>2, <2>3 DEF S
<1>6. CASE ~ r >= limit
  <2>1. Pages(this, limit) * S = S * q
    BY <1>1, <1>2, <1>3, <1>6
  <2>2. S * q \in Nat
    BY <1>1, <1>2
  <2>3. (Pages(this, limit) - 1) * S = S * q - S
    BY <1>1, <1>2, <1>3, <1>6
  <2> QED
    BY <1>1, <1>2, <1>3, <1>4, <1>6, <2>1, <2>2, <2>3 DEF S
<1> QED
  BY <1>5, <1>6

(* A section of records of the same size: where the records end.           *)
LEMMA SectionRecords ==
  ASSUME NEW size \in Nat \ {0}, NEW rec \in Nat \ {0}, size >= rec
  PROVE  /\ size \div rec \in Nat \ {0}
         /\ (size \div rec) * rec \in 1 .. size
<1>1. PICK q \in Nat, r \in 0 .. rec - 1 : size = rec * q + r
  BY Divided
<1>2. size \div rec = q
  BY <1>1, DivMod
<1>3. q # 0
  BY <1>1
<1>4. q * rec = rec * q /\ rec * q \in Nat
  BY <1>1
<1>5. rec * 1 <= rec * q
  BY <1>1, <1>3, TimesMonotone
<1> QED
  BY <1>1, <1>2, <1>3, <1>4, <1>5

LEMMA QuotientType ==
  ASSUME NEW a \in Nat, NEW b \in Nat
  PROVE  Quotient(a, b) \subseteq Nat
<1>1. CASE b = 0
  BY <1>1, Widths DEF Quotient
<1>2. CASE b # 0
  <2>1. a \div b \in Nat
    BY <1>2
  <2> QED
    BY <1>2, <2>1 DEF Quotient
<1> QED
  BY <1>1, <1>2

LEMMA SectionSizeType ==
  ASSUME NEW this \in Fields
  PROVE  /\ SectionSize(this) \in Nat
         /\ this.page_limit > this.page_offs =>
              SectionSize(this) = this.page_limit - this.page_offs
BY Widths DEF SectionSize, Fields

LEMMA InPagesType ==
  ASSUME NEW this \in Fields, this.page_size > 0, NEW records \in Nat
  PROVE  LET limit == RecordsLimit(this, records)
             that  == InPages(this, records)
         IN /\ limit \in 0 .. ByteSize - 1
            /\ that \in Fields
            /\ that.begining = this.begining
            /\ that.page_limit = limit
            /\ that.length = u32(Pages(this, limit) * this.page_size)
            /\ that._counter_max = u16(Pages(this, limit) * records)
            /\ that.page_records = u8(records)
            /\ that.page_size = this.page_size
            /\ that.page_offs = this.page_offs
            /\ that.raw_data_size = this.raw_data_size
            /\ that.slot_log_length = this.slot_log_length
<1> DEFINE limit == RecordsLimit(this, records)
           pages == Pages(this, limit)
<1>1. limit \in 0 .. ByteSize - 1
  <2>1. this.page_offs + records * this.slot_log_length \in Int
    <3>1. this.page_offs \in Nat /\ this.slot_log_length \in Nat
      BY Widths DEF Fields
    <3> QED
      BY <3>1
  <2> QED
    BY <2>1, Casts DEF RecordsLimit
<1>2. pages \in Nat /\ this.page_size \in Nat
  BY <1>1, PagesType, Widths DEF Fields
<1>3. /\ u32(pages * this.page_size) \in 0 .. AddrSize - 1
      /\ u16(pages * records) \in 0 .. LenSize - 1
      /\ u8(records) \in 0 .. ByteSize - 1
  <2>1. pages * this.page_size \in Int /\ pages * records \in Int
    BY <1>2
  <2> QED
    BY <2>1, Casts
<1>4. InPages(this, records)
        = [this EXCEPT !.page_limit = limit, !.length = u32(pages * this.page_size),
                       !._counter_max = u16(pages * records), !.page_records = u8(records)]
  BY DEF InPages
<1> HIDE DEF limit, pages
<1>5. /\ InPages(this, records) \in Fields
      /\ InPages(this, records).begining = this.begining
      /\ InPages(this, records).page_limit = limit
      /\ InPages(this, records).length = u32(pages * this.page_size)
      /\ InPages(this, records)._counter_max = u16(pages * records)
      /\ InPages(this, records).page_records = u8(records)
      /\ InPages(this, records).page_size = this.page_size
      /\ InPages(this, records).page_offs = this.page_offs
      /\ InPages(this, records).raw_data_size = this.raw_data_size
      /\ InPages(this, records).slot_log_length = this.slot_log_length
  BY <1>1, <1>3, <1>4 DEF Fields
<1> QED
  BY <1>1, <1>5 DEF limit, pages

(* Whatever the arguments are, a slot keeps the types of its fields, its   *)
(* page size and the start of its section.                                 *)
LEMMA SetType ==
  ASSUME NEW this \in Fields, NEW begin \in 0 .. AddrSize - 1,
         NEW length \in 0 .. AddrSize - 1, NEW data \in 0 .. ByteSize - 1,
         NEW done \in Set(this, begin, length, data)
  PROVE  /\ done.slot \in Fields
         /\ done.slot.page_size = this.page_size
         /\ done.slot.page_offs = this.page_offs
         /\ done.ret # EELS_ERROR_OK => done.slot.page_limit = this.page_limit
<1> DEFINE sized == Sized(this, data)
           that  == FromPage(sized, begin, length)
           rec   == sized.slot_log_length
<1>1. /\ sized \in Fields /\ sized.page_size = this.page_size
      /\ sized.page_offs = this.page_offs /\ sized.page_limit = this.page_limit
  BY SizedType
<1>2. rec \in Nat /\ SectionSize(sized) \in Nat
  BY <1>1, SectionSizeType, Widths DEF Fields
<1> HIDE DEF sized
<1>3. CASE sized.page_size > 0
  <2>1. done \in Paged(sized, begin, length)
    BY <1>3 DEF Set, sized
  <2>2. /\ that \in Fields /\ that.page_size = this.page_size
        /\ that.page_offs = this.page_offs /\ that.page_limit = this.page_limit
    BY <1>1, <1>3, FromPageType
  <2> HIDE DEF that
  <2>3. CASE done = [ret |-> EELS_ERROR_SMALLPAGE, slot |-> that]
    BY <2>2, <2>3
  <2>4. ASSUME NEW records \in Quotient(SectionSize(sized), rec),
               done = [ret |-> EELS_ERROR_OK, slot |-> InPages(that, records)]
        PROVE  /\ done.slot \in Fields
               /\ done.slot.page_size = this.page_size
               /\ done.slot.page_offs = this.page_offs
               /\ done.ret = EELS_ERROR_OK
    <3>1. records \in Nat
      BY <1>2, QuotientType
    <3> QED
      BY <1>1, <1>3, <2>2, <2>4, <3>1, InPagesType
  <2> QED
    BY <2>1, <2>3, <2>4 DEF Paged, that
<1>4. CASE ~ sized.page_size > 0
  <2>1. PICK records \in Quotient(length, rec) :
          done = [ret  |-> EELS_ERROR_OK,
                  slot |-> [sized EXCEPT !.begining = begin, !.length = length,
                                         !._counter_max = u16(records), !.page_records = 0]]
    BY <1>4 DEF Set, Solid, sized
  <2>2. records \in Nat
    BY <1>2, QuotientType, Widths
  <2>3. u16(records) \in 0 .. LenSize - 1 /\ 0 \in 0 .. ByteSize - 1
    BY <2>2, Casts, Widths
  <2> QED
    BY <1>1, <2>1, <2>3 DEF Fields
<1> QED
  BY <1>3, <1>4

-----------------------------------------------------------------------------
(* A call that is accepted, when what was asked for fits the integers.     *)

(* The section that the slot was left with by the calls before.            *)
Section(this, ask) ==
  this.page_size > 0 =>
    /\ this.page_offs = ask.lo
    /\ this.page_limit <= ask.hi /\ ask.hi <= this.page_size
    /\ ask.lo < ask.hi => ask.lo < this.page_limit

(* Where the slot lies in the area that was asked for: no record begins    *)
(* before it, and the last page's section ends in it; nor does it wrap.     *)
Placed(this, ask) ==
  /\ this.begining + this.length < AddrSize
  /\ IF this.page_size = 0
     THEN this.begining = ask.begin /\ this.length = ask.length
     ELSE \E pages \in Nat \ {0} :
            /\ this.length = pages * this.page_size
            /\ ask.begin <= this.begining + this.page_offs
            /\ this.begining + (pages - 1) * this.page_size + this.page_limit
                 <= ask.begin + ask.length

LEMMA AcceptedSolid ==
  ASSUME NEW this \in Fields, NEW ask \in Asks, this.page_size = 0, Fits(this, ask),
         NEW done \in Set(this, ask.begin, ask.length, ask.data), Holds(done.slot)
  PROVE  SlotLayout(done.slot) /\ Placed(done.slot, ask)
<1> DEFINE sized == Sized(this, ask.data)
           rec   == ask.data + 2
<1>1. /\ ask.begin \in 0 .. AddrSize - 1 /\ ask.length \in 0 .. AddrSize - 1
      /\ ask.data \in 0 .. ByteSize - 1 /\ rec \in Nat \ {0} /\ rec < ByteSize
  BY Widths DEF Asks, Fits
<1>2. u8(ask.data + 2) = rec
  BY <1>1, Widths, Casts
<1>3. /\ sized \in Fields /\ sized.page_size = 0 /\ sized.raw_data_size = ask.data
      /\ sized.slot_log_length = rec
  BY <1>1, <1>2, SizedType
<1> HIDE DEF sized, rec
<1>4. Set(this, ask.begin, ask.length, ask.data) = Solid(sized, ask.begin, ask.length)
  BY <1>3 DEF Set, sized
<1>5. Quotient(ask.length, rec) = {ask.length \div rec}
  BY <1>1 DEF Quotient
<1>6. done \in Solid(sized, ask.begin, ask.length)
  BY <1>4
<1>7. done.slot = [sized EXCEPT !.begining = ask.begin, !.length = ask.length,
                                !._counter_max = u16(ask.length \div rec),
                                !.page_records = 0]
  <2>1. PICK records \in Quotient(ask.length, rec) :
          done = [ret  |-> EELS_ERROR_OK,
                  slot |-> [sized EXCEPT !.begining = ask.begin, !.length = ask.length,
                                         !._counter_max = u16(records), !.page_records = 0]]
    BY <1>3, <1>6 DEF Solid
  <2>2. records = ask.length \div rec
    BY <1>5, <2>1
  <2> QED
    BY <2>1, <2>2
<1>8. PICK q \in Nat, r \in 0 .. rec - 1 : ask.length = rec * q + r
  <2>1. ask.length \in Nat
    BY <1>1, Widths
  <2> QED
    BY <1>1, <2>1, Divided
<1>9. ask.length \div rec = q
  BY <1>1, <1>8, DivMod
<1>10. u16(q) <= q /\ u16(q) \in Nat
  BY <1>8, Casts, CastsDown, Widths
<1>11. rec * u16(q) <= rec * q
  BY <1>1, <1>8, <1>10, TimesMonotone
<1>12. rec * q \in Nat
  BY <1>1, <1>8
<1>13. rec * u16(q) <= ask.length
  BY <1>1, <1>8, <1>10, <1>11, <1>12
<1>14. /\ done.slot \in Fields
       /\ done.slot.begining = ask.begin /\ done.slot.length = ask.length
       /\ done.slot._counter_max = u16(q) /\ done.slot.page_records = 0
       /\ done.slot.page_size = 0 /\ done.slot.raw_data_size = ask.data
       /\ done.slot.slot_log_length = rec
  BY <1>1, <1>3, <1>7, <1>9, SetType DEF Fields
<1>15. done.slot.page_offs \in Nat /\ done.slot.page_limit \in Nat
  BY <1>14, Widths DEF Fields
<1>16. ask.data > 0 /\ u16(q) > 0
  BY <1>14 DEF Holds, EELS_SlotOnline
<1>17. SlotLayout(done.slot)
  BY <1>1, <1>10, <1>13, <1>14, <1>15, <1>16, Widths DEF SlotLayout, UnpagedLayout, rec
<1>18. ask.begin + ask.length < AddrSize
  BY <1>1 DEF Fits
<1> QED
  BY <1>14, <1>17, <1>18 DEF Placed

(* What a call makes of a paged slot.                                      *)
LEMMA AcceptedFields ==
  ASSUME NEW this \in Fields, NEW ask \in Asks, this.page_size > 0, Fits(this, ask),
         Section(this, ask), NEW done \in Set(this, ask.begin, ask.length, ask.data),
         done.ret = EELS_ERROR_OK
  PROVE  LET rec     == ask.data + 2
             records == (this.page_limit - this.page_offs) \div rec
             limit   == this.page_offs + records * rec
         IN /\ rec \in Nat \ {0}
            /\ records \in Nat \ {0}
            /\ records * rec \in 1 .. this.page_limit - this.page_offs
            /\ \E that \in Fields :
                 /\ that = FromPage(Sized(this, ask.data), ask.begin, ask.length)
                 /\ done.slot = InPages(that, records)
                 /\ RecordsLimit(that, records) = limit
                 /\ that.page_size = this.page_size
                 /\ that.page_offs = this.page_offs
                 /\ that.raw_data_size = ask.data
                 /\ that.slot_log_length = rec
<1> DEFINE sized == Sized(this, ask.data)
           rec   == ask.data + 2
           that  == FromPage(sized, ask.begin, ask.length)
           size  == this.page_limit - this.page_offs
           records == size \div rec
<1>1. /\ ask.begin \in 0 .. AddrSize - 1 /\ ask.length \in 0 .. AddrSize - 1
      /\ ask.data \in 0 .. ByteSize - 1 /\ rec \in Nat \ {0} /\ rec < ByteSize
      /\ ask.lo < ask.hi
  BY Widths DEF Asks, Fits
<1>2. u8(ask.data + 2) = rec
  BY <1>1, Widths, Casts
<1>3. /\ sized \in Fields /\ sized.page_size = this.page_size
      /\ sized.page_offs = this.page_offs /\ sized.page_limit = this.page_limit
      /\ sized.raw_data_size = ask.data /\ sized.slot_log_length = rec
  BY <1>1, <1>2, SizedType
<1>4. /\ this.page_limit > this.page_offs /\ size \in Nat \ {0}
      /\ this.page_limit \in 0 .. ByteSize - 1 /\ this.page_offs \in 0 .. ByteSize - 1
  BY <1>1, Widths DEF Section, Fields, Asks
<1>5. SectionSize(sized) = size
  BY <1>3, <1>4, SectionSizeType
<1> HIDE DEF sized
<1>6. /\ that \in Fields /\ that.page_size = this.page_size
      /\ that.page_offs = this.page_offs /\ that.raw_data_size = ask.data
      /\ that.slot_log_length = rec
  BY <1>1, <1>3, FromPageType
<1>7. done \in Paged(sized, ask.begin, ask.length)
  BY <1>3 DEF Set, sized
<1> HIDE DEF that
<1>8. Quotient(size, rec) = {records}
  BY <1>1 DEF Quotient
<1> HIDE DEF size, records
<1>9. size >= rec /\ done.slot = InPages(that, records)
  <2>1. CASE size < rec
    BY <1>3, <1>5, <1>7, <2>1 DEF Paged, that
  <2>2. CASE ~ size < rec
    BY <1>1, <1>3, <1>4, <1>5, <1>7, <1>8, <2>2 DEF Paged, that
  <2> QED
    BY <2>1, <2>2
<1>10. records \in Nat \ {0} /\ records * rec \in 1 .. size
  BY <1>1, <1>4, <1>9, SectionRecords DEF records
<1>11. RecordsLimit(that, records) = this.page_offs + records * rec
  <2>1. this.page_offs + records * rec \in 0 .. ByteSize - 1
    BY <1>4, <1>10, Widths DEF size
  <2> QED
    BY <1>6, <2>1, Casts DEF RecordsLimit
<1> QED
  BY <1>1, <1>6, <1>9, <1>10, <1>11 DEF that, sized, size, records

(* The slot begins at a page, and no sum or difference wraps.              *)
LEMMA FromPageExact ==
  ASSUME NEW this \in Fields, this.page_size > 0,
         NEW begin \in 0 .. AddrSize - 1, NEW length \in 0 .. AddrSize - 1,
         begin + length + this.page_size < AddrSize,
         eels_pos_ofs(this, begin) > this.page_offs =>
           length + eels_pos_ofs(this, begin) >= this.page_size
  PROVE  LET that == FromPage(this, begin, length)
         IN /\ that.begining % this.page_size = 0
            /\ that.length \in Nat
            /\ that.length < length + this.page_size
            /\ that.length <= length + begin
            /\ that.begining + that.length = begin + length
            /\ begin <= that.begining + this.page_offs
<1> DEFINE S    == this.page_size
           ofs  == eels_pos_ofs(this, begin)
           page == eels_pos_page(this, begin)
           skip == IF ofs > this.page_offs THEN S ELSE 0
<1>1. /\ S \in Nat \ {0} /\ begin \in Nat /\ length \in Nat
      /\ ofs \in 0 .. S - 1 /\ ofs <= begin /\ page = begin - ofs
  BY PagedOffset, Widths DEF Fields
<1>2. /\ FromPage(this, begin, length).begining = u32(page + skip)
      /\ FromPage(this, begin, length).length = u32(length + ofs - skip)
  BY FromPageType
<1>3. PICK q \in Nat, r \in 0 .. S - 1 : begin = S * q + r
  <2> HIDE DEF S
  <2> QED
    BY <1>1, Divided
<1>4. ofs = r
  <2>1. (S * q + r) % S = r
    <3> HIDE DEF S
    <3> QED
      BY <1>1, <1>3, DivMod
  <2> QED
    BY <1>3, <2>1 DEF eels_pos_ofs
<1>5. page % S = 0 /\ (page + S) % S = 0
  <2> HIDE DEF S, page, ofs
  <2>1. page = S * q + 0 /\ page + S = S * (q + 1) + 0
    BY <1>1, <1>3, <1>4
  <2>2. (S * q + 0) % S = 0
    BY <1>1, 0 \in 0 .. S - 1, DivMod
  <2>3. (S * (q + 1) + 0) % S = 0
    BY <1>1, 0 \in 0 .. S - 1, q + 1 \in Nat, DivMod
  <2> QED
    BY <2>1, <2>2, <2>3
<1> HIDE DEF ofs, page
<1>6. /\ page + skip \in 0 .. AddrSize - 1 /\ length + ofs - skip \in 0 .. AddrSize - 1
      /\ length + ofs - skip < length + S /\ length + ofs - skip <= length + begin
      /\ begin <= page + skip + this.page_offs
      /\ (page + skip) + (length + ofs - skip) = begin + length
  BY <1>1, Widths DEF ofs, Fields
<1>7. u32(page + skip) = page + skip /\ u32(length + ofs - skip) = length + ofs - skip
  BY <1>6, Casts
<1>8. (page + skip) % S = 0
  BY <1>1, <1>5
<1> QED
  BY <1>2, <1>6, <1>7, <1>8, Widths

(* The number of records fits _counter_max.                                *)
LEMMA CounterFits ==
  ASSUME NEW S \in Nat \ {0}, NEW rec \in Nat \ {0}, NEW N \in Nat, NEW length \in Nat,
         NEW pages \in Nat, NEW records \in Nat, NEW section \in Nat \ {0},
         pages * S < length + 2 * S, records * rec <= section,
         (length + 2 * S) * section <= N * rec * S
  PROVE  pages * records < N
<1> DEFINE P == pages * S
           R == records * rec
           W == length + 2 * S
<1>1. P \in Nat /\ R \in Nat /\ W \in Nat
  OBVIOUS
<1>2. P * R <= P * section
  BY <1>1, TimesMonotone
<1>3. P * section < W * section
  <2> HIDE DEF P, W
  <2>1. section * (P + 1) <= section * W
    BY <1>1, TimesMonotone DEF P, W
  <2>2. section * (P + 1) = section * P + section /\ section * P \in Nat
    BY <1>1
  <2>3. section * W \in Nat /\ section * W = W * section /\ section * P = P * section
    BY <1>1
  <2> QED
    BY <2>1, <2>2, <2>3
<1>4. P * R = (pages * records) * (rec * S)
  <2>1. P * R = ((pages * S) * records) * rec
    OBVIOUS
  <2>2. (pages * S) * records = (pages * records) * S
    OBVIOUS
  <2> QED
    BY <2>1, <2>2
<1>5. N * rec * S = N * (rec * S)
  OBVIOUS
<1> DEFINE a == pages * records
           c == rec * S
<1>6. a \in Nat /\ c \in Nat /\ P * R \in Nat /\ P * section \in Nat /\ W * section \in Nat
      /\ N * c \in Nat
  BY <1>1
<1>7. a * c < N * c
  <2> HIDE DEF P, R, W, a, c
  <2> QED
    BY <1>2, <1>3, <1>4, <1>5, <1>6 DEF a, c, W
<1>8. c * a < c * N
  <2> HIDE DEF a, c
  <2> QED
    BY <1>6, <1>7
<1> HIDE DEF a, c
<1>9. a < N
  BY <1>6, <1>8, TimesCancels
<1> QED
  BY <1>9 DEF a

LEMMA AcceptedPaged ==
  ASSUME NEW this \in Fields, NEW ask \in Asks, this.page_size > 0, Fits(this, ask),
         Section(this, ask), NEW done \in Set(this, ask.begin, ask.length, ask.data),
         done.ret = EELS_ERROR_OK
  PROVE  /\ Holds(done.slot) => SlotLayout(done.slot) /\ Placed(done.slot, ask)
         /\ Section(done.slot, ask)
<1> DEFINE S       == this.page_size
           rec     == ask.data + 2
           records == (this.page_limit - this.page_offs) \div rec
           limit   == this.page_offs + records * rec
           begin   == ask.begin
           length  == ask.length
           sized   == Sized(this, ask.data)
           ofs     == eels_pos_ofs(this, begin)
<1>1. /\ rec \in Nat \ {0} /\ records \in Nat \ {0}
      /\ records * rec \in 1 .. this.page_limit - this.page_offs
  BY AcceptedFields
<1>2. PICK that \in Fields :
        /\ that = FromPage(sized, begin, length)
        /\ done.slot = InPages(that, records)
        /\ RecordsLimit(that, records) = limit
        /\ that.page_size = S
        /\ that.page_offs = this.page_offs
        /\ that.raw_data_size = ask.data
        /\ that.slot_log_length = rec
  BY AcceptedFields
<1> HIDE DEF records, limit
<1>3. /\ begin \in 0 .. AddrSize - 1 /\ length \in 0 .. AddrSize - 1
      /\ ask.data \in 0 .. ByteSize - 1
      /\ begin + length + S < AddrSize
      /\ ask.lo \in Nat /\ ask.hi \in Nat /\ ask.lo < ask.hi
      /\ ofs > ask.lo => length + ofs >= S
      /\ (length + 2 * S) * (ask.hi - ask.lo) <= LenSize * rec * S
  BY Widths DEF Asks, Fits
<1>4. /\ S \in 1 .. ByteSize - 1 /\ this.page_offs = ask.lo
      /\ this.page_limit <= ask.hi /\ ask.hi <= S /\ this.page_limit \in Nat
  BY Widths DEF Section, Fields
<1>5. /\ records * rec <= ask.hi - ask.lo /\ limit = ask.lo + records * rec
      /\ limit <= this.page_limit /\ ask.lo < limit
  BY <1>1, <1>3, <1>4 DEF limit
<1>6. /\ that.begining % S = 0 /\ that.length \in Nat
      /\ that.length < length + S /\ that.length <= length + begin
      /\ that.begining + that.length = begin + length
      /\ begin <= that.begining + ask.lo
  <2>1. sized \in Fields /\ sized.page_size = S /\ sized.page_offs = this.page_offs
    BY <1>3, SizedType
  <2>2. eels_pos_ofs(sized, begin) = ofs
    BY <2>1 DEF eels_pos_ofs
  <2> HIDE DEF sized, ofs
  <2> QED
    BY <1>2, <1>3, <1>4, <2>1, <2>2, FromPageExact
<1> DEFINE pages == Pages(that, limit)
<1>7. /\ done.slot \in Fields /\ done.slot.begining = that.begining
      /\ done.slot.page_limit = limit
      /\ done.slot.length = u32(pages * S)
      /\ done.slot._counter_max = u16(pages * records)
      /\ done.slot.page_records = u8(records)
      /\ done.slot.page_size = S /\ done.slot.page_offs = ask.lo
      /\ done.slot.raw_data_size = ask.data /\ done.slot.slot_log_length = rec
      /\ limit \in 0 .. ByteSize - 1
  BY <1>1, <1>2, <1>4, InPagesType
<1>8. /\ pages \in Nat /\ pages * S < that.length + S
      /\ (pages - 1) * S + limit <= that.length
  BY <1>2, <1>3, <1>4, <1>5, <1>7, PagesType
<1> HIDE DEF pages
<1>9. records <= records * rec
  <2>1. records * 1 <= records * rec
    BY <1>1, TimesMonotone
  <2> QED
    BY <1>1, <2>1
<1>10. u8(records) = records
  <2>1. records \in 0 .. ByteSize - 1
    BY <1>1, <1>3, <1>4, <1>5, <1>9, Widths
  <2> QED
    BY <2>1, Casts
<1>11. u32(pages * S) = pages * S
  <2>1. pages * S \in Nat
    BY <1>4, <1>8
  <2>2. pages * S \in 0 .. AddrSize - 1
    BY <1>3, <1>4, <1>6, <1>8, <2>1, Widths
  <2> QED
    BY <2>2, Casts
<1>12. u16(pages * records) = pages * records
  <2>1. pages * S \in Nat /\ pages * S < length + 2 * S
    BY <1>3, <1>4, <1>6, <1>8, Widths
  <2>2. pages * records < LenSize
    <3>1. S \in Nat \ {0} /\ length \in Nat /\ ask.hi - ask.lo \in Nat \ {0} /\ LenSize \in Nat
      BY <1>3, <1>4, Widths
    <3> HIDE DEF S, rec, length
    <3> QED
      BY <1>1, <1>3, <1>5, <1>8, <2>1, <3>1, CounterFits
  <2>3. pages * records \in Nat
    BY <1>1, <1>8
  <2>4. pages * records \in 0 .. LenSize - 1
    BY <2>2, <2>3, Widths
  <2> QED
    BY <2>4, Casts
<1>13. Section(done.slot, ask)
  BY <1>3, <1>4, <1>5, <1>7 DEF Section
<1>14. ASSUME Holds(done.slot) PROVE SlotLayout(done.slot) /\ Placed(done.slot, ask)
  <2>1. ask.data > 0 /\ pages * records > 0
    BY <1>7, <1>12, <1>14 DEF Holds, EELS_SlotOnline
  <2>2. pages # 0
    BY <1>1, <2>1
  <2>3. S * 1 <= S * pages /\ pages * 1 <= pages * S /\ S * pages = pages * S
    <3>1. S \in Nat /\ pages \in Nat /\ 1 <= S /\ 1 <= pages
      BY <1>4, <1>8, <2>2, Widths
    <3> HIDE DEF S
    <3>2. S * 1 <= S * pages
      BY <3>1, TimesMonotone
    <3>3. pages * 1 <= pages * S
      BY <3>1, TimesMonotone
    <3> QED
      BY <3>1, <3>2, <3>3
  <2>4. pages \in 1 .. done.slot.length
    BY <1>4, <1>7, <1>8, <1>11, <2>2, <2>3
  <2>5. PagedLayout(done.slot)
    <3>1. /\ done.slot.page_size > 0 /\ done.slot.page_limit <= done.slot.page_size
      <4>1. S > 0 /\ limit <= S
        <5> HIDE DEF S, rec
        <5> QED
          BY <1>3, <1>4, <1>5, <1>7, Widths
      <4> QED
        BY <1>7, <4>1
    <3>2. done.slot.page_records > 0 /\ done.slot.begining % done.slot.page_size = 0
      BY <1>1, <1>6, <1>7, <1>10
    <3>3. done.slot.page_limit
            = done.slot.page_offs + done.slot.page_records * done.slot.slot_log_length
      BY <1>5, <1>7, <1>10
    <3>4. /\ done.slot.length = pages * done.slot.page_size
          /\ done.slot._counter_max = pages * done.slot.page_records
      BY <1>7, <1>10, <1>11, <1>12
    <3> QED
      BY <2>4, <3>1, <3>2, <3>3, <3>4 DEF PagedLayout
  <2>6. /\ done.slot.begining \in Nat /\ done.slot.length \in Nat
        /\ done.slot._counter_max \in Nat /\ done.slot.page_size \in Nat
        /\ done.slot.page_records \in Nat /\ done.slot.page_offs \in Nat
        /\ done.slot.page_limit \in Nat
    BY <1>7, Widths DEF Fields
  <2>7. SlotLayout(done.slot)
    BY <1>3, <1>7, <1>14, <2>1, <2>5, <2>6, Widths DEF SlotLayout, Holds
  <2>8. Placed(done.slot, ask)
    <3>1. that.begining \in Nat
      BY Widths DEF Fields
    <3>2. that.begining + (pages - 1) * S + limit <= begin + length
      <4>1. (pages - 1) * S \in Int
        BY <1>4, <1>8
      <4> HIDE DEF S
      <4> QED
        BY <1>3, <1>6, <1>7, <1>8, <3>1, <4>1
    <3>3. done.slot.length = pages * S /\ pages \in Nat \ {0} /\ S > 0
      BY <1>4, <1>7, <1>8, <1>11, <2>2
    <3>4. done.slot.begining + done.slot.length < AddrSize
      <4>1. pages * S \in Nat
        BY <1>4, <1>8
      <4> HIDE DEF S
      <4> QED
        BY <1>3, <1>4, <1>6, <1>7, <1>8, <3>1, <3>3, <4>1, Widths
    <3> HIDE DEF S
    <3> QED
      BY <1>6, <1>7, <3>2, <3>3, <3>4 DEF Placed
  <2> QED
    BY <2>7, <2>8
<1> QED
  BY <1>13, <1>14

-----------------------------------------------------------------------------
(* The inductive invariant: what was accepted before leaves the section    *)
(* that the next EELS_SetSlot reads.                                       *)
SlotsPlaced ==
  \A h \in Handles : Settled(h) /\ Holds(arr[h]) => Placed(arr[h], asked[h])

ConfigInv == ConfigTypeOK /\ SectionAsAsked /\ AcceptedLayout /\ SlotsPlaced

LEMMA InitConfig == Init => ConfigInv
<1> SUFFICES ASSUME Init PROVE ConfigInv
  OBVIOUS
<1>1. Zeroed \in Fields
  BY Zeros DEF Zeroed, Fields
<1>2. NotAsked \in Asks
  BY Zeros DEF NotAsked, Asks
<1>3. \A h \in Handles : arr[h] = Zeroed /\ asked[h] = NotAsked
  BY DEF Init
<1>4. ConfigTypeOK
  BY <1>1, <1>2 DEF Init, ConfigTypeOK
<1>5. SectionAsAsked
  BY <1>3 DEF SectionAsAsked, Zeroed
<1>6. AcceptedLayout /\ SlotsPlaced
  BY <1>3 DEF AcceptedLayout, SlotsPlaced, Settled, NotAsked
<1> QED
  BY <1>4, <1>5, <1>6 DEF ConfigInv

(* What a call that changes one slot has to keep of it.                    *)
SlotKept(this, ask) ==
  /\ this \in Fields
  /\ ask \in Asks
  /\ ask.fits => Section(this, ask)
  /\ ask.ok /\ ask.fits /\ Holds(this) => SlotLayout(this) /\ Placed(this, ask)

LEMMA KeptSlots ==
  ConfigInv <=> /\ arr = [h \in Handles |-> arr[h]]
                /\ asked = [h \in Handles |-> asked[h]]
                /\ \A h \in Handles : SlotKept(arr[h], asked[h])
BY DEF ConfigInv, ConfigTypeOK, SectionAsAsked, AcceptedLayout, SlotsPlaced, SlotKept,
       Section, Settled

LEMMA KeptSlotsNext ==
  ConfigInv' <=> /\ arr' = [h \in Handles |-> arr'[h]]
                 /\ asked' = [h \in Handles |-> asked'[h]]
                 /\ \A h \in Handles : SlotKept(arr'[h], asked'[h])
BY DEF ConfigInv, ConfigTypeOK, SectionAsAsked, AcceptedLayout, SlotsPlaced, SlotKept,
       Section, Settled

(* A step that makes of a slot what keeps its part of the invariant.       *)
LEMMA OneSlotKeeps ==
  ASSUME ConfigInv, NEW h \in Handles, NEW this, NEW ask, SlotKept(this, ask),
         arr' = [arr EXCEPT ![h] = this], asked' = [asked EXCEPT ![h] = ask]
  PROVE  ConfigInv'
<1>1. \A g \in Handles : /\ arr'[g] = IF g = h THEN this ELSE arr[g]
                         /\ asked'[g] = IF g = h THEN ask ELSE asked[g]
  BY DEF ConfigInv, ConfigTypeOK
<1>2. arr' = [g \in Handles |-> arr'[g]] /\ asked' = [g \in Handles |-> asked'[g]]
  BY DEF ConfigInv, ConfigTypeOK
<1>3. \A g \in Handles : SlotKept(arr'[g], asked'[g])
  BY <1>1, KeptSlots
<1> QED
  BY <1>2, <1>3, KeptSlotsNext

(* A slot that is told to have pages, or none, and asks for no area yet.   *)
LEMMA FreshKept ==
  ASSUME NEW this \in Fields, NEW ask \in Asks, ~ ask.ok, Section(this, ask)
  PROVE  SlotKept(this, ask)
BY DEF SlotKept

LEMMA InitKeeps == ConfigInv /\ EELS_Init => ConfigInv'
<1> SUFFICES ASSUME ConfigInv, EELS_Init PROVE ConfigInv'
  OBVIOUS
<1>1. ASSUME NEW h \in Handles PROVE SlotKept(arr'[h], asked'[h])
  <2>1. arr[h] \in Fields /\ arr'[h] = Cleared(arr[h]) /\ asked'[h] = NotAsked
    BY DEF EELS_Init, ConfigInv, ConfigTypeOK
  <2>2. Cleared(arr[h]) \in Fields /\ Cleared(arr[h]).page_size = 0
    BY <2>1, Zeros DEF Cleared, Fields
  <2>3. NotAsked \in Asks /\ ~ NotAsked.ok
    BY Zeros DEF NotAsked, Asks
  <2> QED
    BY <2>1, <2>2, <2>3, FreshKept DEF Section
<1>2. arr' = [h \in Handles |-> arr'[h]] /\ asked' = [h \in Handles |-> asked'[h]]
  BY DEF EELS_Init
<1> QED
  BY <1>1, <1>2, KeptSlotsNext

LEMMA PageAlignKeeps ==
  ASSUME ConfigInv, NEW h \in Handles, NEW size \in PageSizes, EELS_PageAlign(h, size)
  PROVE  ConfigInv'
<1>1. arr[h] \in Fields /\ size \in 0 .. ByteSize - 1
  BY ArgumentAssumption DEF ConfigInv, ConfigTypeOK
<1>2. /\ Aligned(arr[h], size) \in Fields
      /\ Aligned(arr[h], size).page_offs = 0
      /\ Aligned(arr[h], size).page_limit = size
      /\ Aligned(arr[h], size).page_size = size
  BY <1>1, Zeros DEF Aligned, Fields
<1> DEFINE ask == [NotAsked EXCEPT !.hi = size]
<1>3. ask \in Asks /\ ~ ask.ok /\ ask.lo = 0 /\ ask.hi = size
  BY <1>1, Zeros DEF NotAsked, Asks
<1>4. arr' = [arr EXCEPT ![h] = Aligned(arr[h], size)] /\ asked' = [asked EXCEPT ![h] = ask]
  BY DEF EELS_PageAlign
<1> HIDE DEF ask
<1>5. Section(Aligned(arr[h], size), ask)
  BY <1>1, <1>2, <1>3, Widths DEF Section
<1>6. SlotKept(Aligned(arr[h], size), ask)
  BY <1>2, <1>3, <1>5, FreshKept
<1> QED
  BY <1>4, <1>6, OneSlotKeeps

LEMMA PageSectionKeeps ==
  ASSUME ConfigInv, NEW h \in Handles, NEW offs \in 0 .. ByteSize - 1,
         NEW size \in 0 .. ByteSize - 1, EELS_PageSection(h, offs, size)
  PROVE  ConfigInv'
<1> DEFINE this == [arr[h] EXCEPT !.page_offs = offs, !.page_limit = offs + size]
           ask  == [NotAsked EXCEPT !.lo = offs, !.hi = offs + size]
<1>1. arr[h] \in Fields /\ offs + size <= arr[h].page_size /\ offs + size \in 0 .. ByteSize - 1
  BY Widths DEF ConfigInv, ConfigTypeOK, EELS_PageSection, Fields
<1>2. /\ this \in Fields
      /\ this.page_offs = offs /\ this.page_limit = offs + size
      /\ this.page_size = arr[h].page_size
  BY <1>1 DEF Fields
<1>3. ask \in Asks /\ ~ ask.ok /\ ask.lo = offs /\ ask.hi = offs + size
  BY <1>1, Zeros DEF NotAsked, Asks
<1>4. arr' = [arr EXCEPT ![h] = this] /\ asked' = [asked EXCEPT ![h] = ask]
  BY DEF EELS_PageSection, ConfigInv, ConfigTypeOK
<1> HIDE DEF this, ask
<1>5. Section(this, ask)
  BY <1>1, <1>2, <1>3, Widths DEF Section, Fields
<1>6. SlotKept(this, ask)
  BY <1>2, <1>3, <1>5, FreshKept
<1> QED
  BY <1>4, <1>6, OneSlotKeeps

LEMMA SetSlotKeeps ==
  ASSUME ConfigInv, NEW h \in Handles, NEW begin \in 0 .. AddrSize - 1,
         NEW length \in 0 .. AddrSize - 1, NEW data \in 0 .. ByteSize - 1,
         EELS_SetSlot(h, begin, length, data)
  PROVE  ConfigInv'
<1> DEFINE this == arr[h]
           ask(done) == [asked[h] EXCEPT !.begin = begin, !.length = length,
                                         !.data = data, !.ok = (done.ret = EELS_ERROR_OK)]
<1>1. PICK done \in Set(this, begin, length, data) :
        /\ arr' = [arr EXCEPT ![h] = done.slot]
        /\ asked' = [asked EXCEPT ![h] =
                       [ask(done) EXCEPT !.fits = @ /\ Fits(this, ask(done))]]
  BY DEF EELS_SetSlot
<1> DEFINE made == [ask(done) EXCEPT !.fits = asked[h].fits /\ Fits(this, ask(done))]
<1>2. this \in Fields /\ asked[h] \in Asks /\ SlotKept(this, asked[h])
  BY KeptSlots DEF ConfigInv, ConfigTypeOK
<1>3. /\ ask(done) \in Asks /\ ask(done).lo = asked[h].lo /\ ask(done).hi = asked[h].hi
      /\ ask(done).begin = begin /\ ask(done).length = length /\ ask(done).data = data
      /\ ask(done).ok = (done.ret = EELS_ERROR_OK) /\ ask(done).fits = asked[h].fits
  BY <1>2 DEF Asks
<1> HIDE DEF ask
<1>4. asked' = [asked EXCEPT ![h] = made]
  BY <1>1, <1>3
<1>5. /\ made \in Asks /\ made.lo = asked[h].lo /\ made.hi = asked[h].hi
      /\ made.begin = begin /\ made.length = length
      /\ made.ok = (done.ret = EELS_ERROR_OK)
      /\ made.fits = (asked[h].fits /\ Fits(this, ask(done)))
  BY <1>2, <1>3, Zenon DEF Asks
<1> HIDE DEF made
<1>6. /\ done.slot \in Fields /\ done.slot.page_size = this.page_size
      /\ done.slot.page_offs = this.page_offs
      /\ done.ret # EELS_ERROR_OK => done.slot.page_limit = this.page_limit
  BY <1>2, SetType
<1>7. ASSUME made.fits, done.ret = EELS_ERROR_OK, this.page_size > 0
      PROVE  /\ Section(done.slot, made)
             /\ Holds(done.slot) => SlotLayout(done.slot) /\ Placed(done.slot, made)
  <2>1. asked[h].fits /\ Fits(this, ask(done))
    BY <1>5, <1>7
  <2>2. Section(this, ask(done))
    BY <1>2, <1>3, <2>1 DEF SlotKept, Section
  <2>3. /\ Section(done.slot, ask(done))
        /\ Holds(done.slot) => SlotLayout(done.slot) /\ Placed(done.slot, ask(done))
    BY <1>2, <1>3, <1>7, <2>1, <2>2, AcceptedPaged
  <2> QED
    BY <1>3, <1>5, <2>3 DEF Section, Placed
<1>8. ASSUME made.fits, done.ret = EELS_ERROR_OK, ~ this.page_size > 0
      PROVE  /\ Section(done.slot, made)
             /\ Holds(done.slot) => SlotLayout(done.slot) /\ Placed(done.slot, made)
  <2>1. this.page_size = 0
    BY <1>2, <1>8, Widths DEF Fields
  <2>2. Fits(this, ask(done))
    BY <1>5, <1>8
  <2>3. Holds(done.slot) => SlotLayout(done.slot) /\ Placed(done.slot, ask(done))
    BY <1>2, <1>3, <2>1, <2>2, AcceptedSolid
  <2> QED
    BY <1>3, <1>5, <1>6, <2>1, <2>3 DEF Section, Placed
<1>9. ASSUME made.fits, done.ret # EELS_ERROR_OK PROVE Section(done.slot, made)
  BY <1>2, <1>5, <1>6, <1>9 DEF SlotKept, Section
<1>10. SlotKept(done.slot, made)
  BY <1>5, <1>6, <1>7, <1>8, <1>9 DEF SlotKept
<1> QED
  BY <1>1, <1>4, <1>10, OneSlotKeeps

LEMMA ResetKeeps == ConfigInv /\ Reset => ConfigInv'
<1> SUFFICES ASSUME ConfigInv, Reset PROVE ConfigInv'
  OBVIOUS
<1>1. \A h \in Handles : arr'[h] = Zeroed /\ asked'[h] = NotAsked
  BY DEF Reset
<1>2. Zeroed \in Fields /\ Zeroed.page_size = 0
  BY Zeros DEF Zeroed, Fields
<1>3. NotAsked \in Asks /\ ~ NotAsked.ok
  BY Zeros DEF NotAsked, Asks
<1>4. SlotKept(Zeroed, NotAsked)
  BY <1>2, <1>3, FreshKept DEF Section
<1>5. arr' = [h \in Handles |-> arr'[h]] /\ asked' = [h \in Handles |-> asked'[h]]
  BY DEF Reset
<1> QED
  BY <1>1, <1>4, <1>5, KeptSlotsNext

(* Every slot that EELS_SetSlot accepts is laid out as the theorems about  *)
(* a slot assume, if what was asked for fits the integers of the code.     *)
LEMMA ConfigInvariant == Spec => []ConfigInv
<1>1. Init => ConfigInv
  BY InitConfig
<1>2. ConfigInv /\ [Next]_cvars => ConfigInv'
  <2> SUFFICES ASSUME ConfigInv, [Next]_cvars PROVE ConfigInv'
    OBVIOUS
  <2>1. CASE EELS_Init
    BY <2>1, InitKeeps
  <2>2. ASSUME NEW h \in Handles, NEW size \in PageSizes, EELS_PageAlign(h, size)
        PROVE  ConfigInv'
    BY <2>2, PageAlignKeeps
  <2>3. ASSUME NEW h \in Handles, NEW section \in Sections(h),
               EELS_PageSection(h, section[1], section[2])
        PROVE  ConfigInv'
    <3>1. section[1] \in 0 .. ByteSize - 1 /\ section[2] \in 0 .. ByteSize - 1
      BY ArgumentAssumption
    <3> QED
      BY <2>3, <3>1, PageSectionKeeps
  <2>4. ASSUME NEW h \in Handles, NEW area \in Areas(h),
               EELS_SetSlot(h, area.begin, area.length, area.data)
        PROVE  ConfigInv'
    <3>1. /\ area.begin \in 0 .. AddrSize - 1 /\ area.length \in 0 .. AddrSize - 1
          /\ area.data \in 0 .. ByteSize - 1
      BY ArgumentAssumption
    <3> QED
      BY <2>4, <3>1, SetSlotKeeps
  <2>5. CASE Reset
    BY <2>5, ResetKeeps
  <2>6. CASE UNCHANGED cvars
    BY <2>6 DEF cvars, ConfigInv, ConfigTypeOK, SectionAsAsked, AcceptedLayout,
                 SlotsPlaced, Settled
  <2> QED
    BY <2>1, <2>2, <2>3, <2>4, <2>5, <2>6 DEF Next
<1> QED
  BY <1>1, <1>2, PTL DEF Spec

(* The fields of a slot keep the widths of EELSlot_t, whatever is called   *)
(* with whatever arguments, the calls whose integers wrap included.        *)
THEOREM ConfigTypes == Spec => []ConfigTypeOK
BY ConfigInvariant, PTL DEF ConfigInv

(* Every slot that EELS_SetSlot accepts, that is on line and has a record, *)
(* satisfies SlotLayout, on which the theorems of EELSSlotProofs rest,     *)
(* provided that what was asked for fits the integers of the code.         *)
THEOREM AcceptedSlots == Spec => []AcceptedLayout
BY ConfigInvariant, PTL DEF ConfigInv

(* EELS_SetSlot shrinks the section it reads itself, and never loses it.   *)
THEOREM SectionsKept == Spec => []SectionAsAsked
BY ConfigInvariant, PTL DEF ConfigInv

-----------------------------------------------------------------------------
(* The same call again.                                                    *)

Again(this, ask) ==
  Set(this, ask.begin, ask.length, ask.data) = {[ret |-> EELS_ERROR_OK, slot |-> this]}

LEMMA SameSlot ==
  ASSUME NEW a \in Fields, NEW b \in Fields,
         a.begining = b.begining, a.length = b.length,
         a._counter_max = b._counter_max, a.raw_data_size = b.raw_data_size,
         a.slot_log_length = b.slot_log_length, a.page_size = b.page_size,
         a.page_records = b.page_records, a.page_offs = b.page_offs,
         a.page_limit = b.page_limit
  PROVE  a = b
BY DEF Fields

LEMMA SizedAgain ==
  ASSUME NEW this \in Fields, NEW data \in 0 .. ByteSize - 1, this.raw_data_size = data,
         this.slot_log_length = u8(data + 2)
  PROVE  Sized(this, data) = this
BY DEF Sized, Fields

LEMMA SolidAgain ==
  ASSUME NEW this \in Fields, NEW ask \in Asks, this.page_size = 0, Fits(this, ask),
         NEW done \in Set(this, ask.begin, ask.length, ask.data)
  PROVE  Again(done.slot, ask)
<1> DEFINE rec     == ask.data + 2
           records == ask.length \div rec
           that    == done.slot
           made    == [that EXCEPT !.begining = ask.begin, !.length = ask.length,
                                   !._counter_max = u16(records), !.page_records = 0]
<1>1. /\ ask.begin \in 0 .. AddrSize - 1 /\ ask.length \in 0 .. AddrSize - 1
      /\ ask.data \in 0 .. ByteSize - 1 /\ rec \in Nat \ {0} /\ rec < ByteSize
  BY Widths DEF Asks, Fits
<1>2. u8(ask.data + 2) = rec
  BY <1>1, Widths, Casts
<1>3. Quotient(ask.length, rec) = {records}
  BY <1>1 DEF Quotient
<1> HIDE DEF records
<1>4. /\ that \in Fields /\ that.page_size = 0 /\ that.raw_data_size = ask.data
      /\ that.slot_log_length = rec /\ that.begining = ask.begin
      /\ that.length = ask.length /\ that._counter_max = u16(records)
      /\ that.page_records = 0
  <2> DEFINE sized == Sized(this, ask.data)
  <2>1. /\ sized \in Fields /\ sized.page_size = 0 /\ sized.raw_data_size = ask.data
        /\ sized.slot_log_length = rec
    BY <1>1, <1>2, SizedType
  <2>2. done \in Solid(sized, ask.begin, ask.length)
    BY <2>1 DEF Set
  <2> HIDE DEF sized, rec
  <2>3. that = [sized EXCEPT !.begining = ask.begin, !.length = ask.length,
                             !._counter_max = u16(records), !.page_records = 0]
    <3>1. PICK n \in Quotient(ask.length, rec) :
            done = [ret  |-> EELS_ERROR_OK,
                    slot |-> [sized EXCEPT !.begining = ask.begin, !.length = ask.length,
                                           !._counter_max = u16(n), !.page_records = 0]]
      BY <2>1, <2>2 DEF Solid
    <3>2. n = records
      BY <1>3, <3>1
    <3> QED
      BY <3>1, <3>2
  <2>4. that \in Fields
    BY <1>1, SetType
  <2> QED
    BY <2>1, <2>3, <2>4 DEF Fields
<1> HIDE DEF that, rec
<1>5. Sized(that, ask.data) = that
  BY <1>1, <1>2, <1>4, SizedAgain
<1>6. Set(that, ask.begin, ask.length, ask.data) = Solid(that, ask.begin, ask.length)
  BY <1>4, <1>5 DEF Set
<1>7. Solid(that, ask.begin, ask.length) = {[ret |-> EELS_ERROR_OK, slot |-> made]}
  BY <1>3, <1>4 DEF Solid
<1>8. made = that
  BY <1>4 DEF Fields
<1> QED
  BY <1>6, <1>7, <1>8 DEF Again, that

LEMMA PagedAgain ==
  ASSUME NEW this \in Fields, NEW ask \in Asks, this.page_size > 0, Fits(this, ask),
         Section(this, ask), NEW done \in Set(this, ask.begin, ask.length, ask.data),
         done.ret = EELS_ERROR_OK
  PROVE  Again(done.slot, ask)
<1> DEFINE rec     == ask.data + 2
           records == (this.page_limit - this.page_offs) \div rec
           limit   == this.page_offs + records * rec
           sized   == Sized(this, ask.data)
           made    == done.slot
           from    == FromPage(made, ask.begin, ask.length)
           again   == InPages(from, records)
<1>1. /\ rec \in Nat \ {0} /\ records \in Nat \ {0}
      /\ records * rec \in 1 .. this.page_limit - this.page_offs
  BY AcceptedFields
<1>2. PICK that \in Fields :
        /\ that = FromPage(sized, ask.begin, ask.length)
        /\ made = InPages(that, records)
        /\ RecordsLimit(that, records) = limit
        /\ that.page_size = this.page_size
        /\ that.page_offs = this.page_offs
        /\ that.raw_data_size = ask.data
        /\ that.slot_log_length = rec
  BY AcceptedFields
<1>3. /\ ask.begin \in 0 .. AddrSize - 1 /\ ask.length \in 0 .. AddrSize - 1
      /\ ask.data \in 0 .. ByteSize - 1 /\ rec < ByteSize
      /\ this.page_size \in Nat /\ this.page_offs \in Nat /\ this.page_limit \in Nat
  BY Widths DEF Asks, Fits, Fields
<1>4. u8(ask.data + 2) = rec
  BY <1>1, <1>3, Widths, Casts
<1>5. /\ sized \in Fields /\ sized.page_size = this.page_size
      /\ sized.page_offs = this.page_offs
  BY <1>3, SizedType
<1> HIDE DEF records, limit, rec, sized, made
<1>6. /\ made \in Fields /\ made.begining = that.begining
      /\ made.page_limit = limit
      /\ made.length = u32(Pages(that, limit) * that.page_size)
      /\ made._counter_max = u16(Pages(that, limit) * records)
      /\ made.page_records = u8(records)
      /\ made.page_size = this.page_size /\ made.page_offs = this.page_offs
      /\ made.raw_data_size = ask.data /\ made.slot_log_length = rec
  BY <1>1, <1>2, InPagesType
<1>7. Sized(made, ask.data) = made
  BY <1>3, <1>4, <1>6, SizedAgain
<1>8. /\ from \in Fields
      /\ from.begining = that.begining /\ from.length = that.length
      /\ from.page_size = this.page_size /\ from.page_offs = this.page_offs
      /\ from.raw_data_size = ask.data /\ from.slot_log_length = rec
  <2>1. /\ eels_pos_ofs(made, ask.begin) = eels_pos_ofs(sized, ask.begin)
        /\ eels_pos_page(made, ask.begin) = eels_pos_page(sized, ask.begin)
    BY <1>5, <1>6 DEF eels_pos_ofs, eels_pos_page
  <2> QED
    BY <1>2, <1>3, <1>5, <1>6, <2>1, FromPageType
<1> HIDE DEF from
<1>9. SectionSize(made) = records * rec
  BY <1>1, <1>3, <1>6 DEF SectionSize, limit
<1>10. Quotient(records * rec, rec) = {records}
  <2>1. records * rec = rec * records + 0 /\ 0 \in 0 .. rec - 1
    BY <1>1
  <2>2. (rec * records + 0) \div rec = records
    BY <1>1, <2>1, DivMod
  <2> QED
    BY <1>1, <2>1, <2>2 DEF Quotient
<1>11. ~ records * rec < rec
  <2>1. rec * 1 <= rec * records
    BY <1>1, TimesMonotone
  <2> QED
    BY <1>1, <2>1
<1>12. RecordsLimit(from, records) = limit /\ Pages(from, limit) = Pages(that, limit)
  BY <1>2, <1>8 DEF RecordsLimit, Pages
<1>13. again = made
  <2>1. /\ again \in Fields /\ again.begining = from.begining
        /\ again.page_limit = limit
        /\ again.length = u32(Pages(that, limit) * this.page_size)
        /\ again._counter_max = u16(Pages(that, limit) * records)
        /\ again.page_records = u8(records)
        /\ again.page_size = this.page_size /\ again.page_offs = this.page_offs
        /\ again.raw_data_size = ask.data /\ again.slot_log_length = rec
    BY <1>1, <1>8, <1>12, InPagesType
  <2> HIDE DEF again
  <2> QED
    BY <1>2, <1>6, <1>8, <2>1, SameSlot
<1>14. Set(made, ask.begin, ask.length, ask.data) = Paged(made, ask.begin, ask.length)
  BY <1>6, <1>7 DEF Set
<1>15. Paged(made, ask.begin, ask.length) = {[ret |-> EELS_ERROR_OK, slot |-> again]}
  BY <1>6, <1>9, <1>10, <1>11 DEF Paged, from
<1> QED
  BY <1>13, <1>14, <1>15 DEF Again, made

(* A step that changes one slot, or asks for no area yet.                  *)
LEMMA OneSlotSettles ==
  ASSUME ConfigInv, SettlesOnce, NEW h \in Handles, NEW this, NEW ask,
         ask.ok /\ ask.fits => Again(this, ask),
         arr' = [arr EXCEPT ![h] = this], asked' = [asked EXCEPT ![h] = ask]
  PROVE  SettlesOnce'
<1>1. \A g \in Handles : /\ arr'[g] = IF g = h THEN this ELSE arr[g]
                         /\ asked'[g] = IF g = h THEN ask ELSE asked[g]
  BY DEF ConfigInv, ConfigTypeOK
<1>2. ASSUME NEW g \in Handles, asked'[g].ok, asked'[g].fits
      PROVE  Again(arr'[g], asked'[g])
  BY <1>1, <1>2 DEF SettlesOnce, Settled, Again
<1> QED
  BY <1>2 DEF SettlesOnce, Settled, Again

LEMMA NoneSettled ==
  ASSUME \A h \in Handles : asked'[h] = NotAsked
  PROVE  SettlesOnce'
BY DEF SettlesOnce, Settled, NotAsked

LEMMA SetSlotSettles ==
  ASSUME ConfigInv, SettlesOnce, NEW h \in Handles, NEW begin \in 0 .. AddrSize - 1,
         NEW length \in 0 .. AddrSize - 1, NEW data \in 0 .. ByteSize - 1,
         EELS_SetSlot(h, begin, length, data)
  PROVE  SettlesOnce'
<1> DEFINE this == arr[h]
           ask(done) == [asked[h] EXCEPT !.begin = begin, !.length = length,
                                         !.data = data, !.ok = (done.ret = EELS_ERROR_OK)]
<1>1. PICK done \in Set(this, begin, length, data) :
        /\ arr' = [arr EXCEPT ![h] = done.slot]
        /\ asked' = [asked EXCEPT ![h] =
                       [ask(done) EXCEPT !.fits = @ /\ Fits(this, ask(done))]]
  BY DEF EELS_SetSlot
<1> DEFINE made == [ask(done) EXCEPT !.fits = asked[h].fits /\ Fits(this, ask(done))]
<1>2. this \in Fields /\ asked[h] \in Asks /\ SlotKept(this, asked[h])
  BY KeptSlots DEF ConfigInv, ConfigTypeOK
<1>3. /\ ask(done) \in Asks /\ ask(done).lo = asked[h].lo /\ ask(done).hi = asked[h].hi
      /\ ask(done).begin = begin /\ ask(done).length = length /\ ask(done).data = data
      /\ ask(done).ok = (done.ret = EELS_ERROR_OK) /\ ask(done).fits = asked[h].fits
  BY <1>2 DEF Asks
<1> HIDE DEF ask
<1>4. asked' = [asked EXCEPT ![h] = made]
  BY <1>1, <1>3
<1>5. /\ made.begin = begin /\ made.length = length /\ made.data = data
      /\ made.ok = (done.ret = EELS_ERROR_OK)
      /\ made.fits = (asked[h].fits /\ Fits(this, ask(done)))
  BY <1>2, <1>3, Zenon DEF Asks
<1> HIDE DEF made
<1>6. ASSUME made.ok, made.fits PROVE Again(done.slot, made)
  <2>1. asked[h].fits /\ Fits(this, ask(done)) /\ done.ret = EELS_ERROR_OK
    BY <1>5, <1>6
  <2>2. Section(this, ask(done))
    BY <1>2, <1>3, <2>1 DEF SlotKept, Section
  <2>3. done \in Set(this, ask(done).begin, ask(done).length, ask(done).data)
    BY <1>3
  <2>4. Again(done.slot, ask(done))
    <3>1. CASE this.page_size > 0
      BY <1>2, <1>3, <2>1, <2>2, <2>3, <3>1, PagedAgain
    <3>2. CASE this.page_size = 0
      BY <1>2, <1>3, <2>1, <2>3, <3>2, SolidAgain
    <3> QED
      BY <1>2, <3>1, <3>2, Widths DEF Fields
  <2> QED
    BY <1>3, <1>5, <2>4 DEF Again
<1> QED
  BY <1>1, <1>4, <1>6, OneSlotSettles

(* EELS_SetSlot called again with the same arguments leaves the slot as it *)
(* is, though it reads the section that the call before has shrunk, if     *)
(* what was asked for fits the integers of the code.                       *)
THEOREM SettledSlots == Spec => []SettlesOnce
<1>1. Init => SettlesOnce
  BY DEF Init, SettlesOnce, Settled, NotAsked
<1>2. ConfigInv /\ SettlesOnce /\ [Next]_cvars => SettlesOnce'
  <2> SUFFICES ASSUME ConfigInv, SettlesOnce, [Next]_cvars PROVE SettlesOnce'
    OBVIOUS
  <2>1. CASE EELS_Init \/ Reset
    BY <2>1, NoneSettled DEF EELS_Init, Reset
  <2>2. ASSUME NEW h \in Handles, NEW size \in PageSizes, EELS_PageAlign(h, size)
        PROVE  SettlesOnce'
    <3>1. ~ [NotAsked EXCEPT !.hi = size].ok
      BY DEF NotAsked
    <3> QED
      BY <2>2, <3>1, OneSlotSettles DEF EELS_PageAlign
  <2>3. ASSUME NEW h \in Handles, NEW section \in Sections(h),
               EELS_PageSection(h, section[1], section[2])
        PROVE  SettlesOnce'
    <3> DEFINE this == [arr[h] EXCEPT !.page_offs = section[1],
                                      !.page_limit = section[1] + section[2]]
               ask  == [NotAsked EXCEPT !.lo = section[1], !.hi = section[1] + section[2]]
    <3>1. ~ ask.ok
      BY DEF NotAsked
    <3>2. arr' = [arr EXCEPT ![h] = this] /\ asked' = [asked EXCEPT ![h] = ask]
      BY <2>3 DEF EELS_PageSection, ConfigInv, ConfigTypeOK
    <3> HIDE DEF this, ask
    <3> QED
      BY <3>1, <3>2, OneSlotSettles
  <2>4. ASSUME NEW h \in Handles, NEW area \in Areas(h),
               EELS_SetSlot(h, area.begin, area.length, area.data)
        PROVE  SettlesOnce'
    <3>1. /\ area.begin \in 0 .. AddrSize - 1 /\ area.length \in 0 .. AddrSize - 1
          /\ area.data \in 0 .. ByteSize - 1
      BY ArgumentAssumption
    <3> QED
      BY <2>4, <3>1, SetSlotSettles
  <2>5. CASE UNCHANGED cvars
    BY <2>5 DEF cvars, SettlesOnce, Settled
  <2> QED
    BY <2>1, <2>2, <2>3, <2>4, <2>5 DEF Next
<1> QED
  BY <1>1, <1>2, ConfigInvariant, PTL DEF Spec

-----------------------------------------------------------------------------
(* Where the records lie.                                                  *)

(* Every byte of a record lies in the section of one of the slot's pages.  *)
LEMMA ByteInSection ==
  ASSUME NEW this, SlotLayout(this), PagedLayout(this), NEW pages \in Nat,
         this._counter_max = pages * this.page_records,
         NEW i \in 0 .. this._counter_max - 1, NEW x \in Bytes(this, i)
  PROVE  \E a \in 0 .. pages - 1 :
           /\ this.begining + this.page_size * a + this.page_offs <= x
           /\ x < this.begining + this.page_size * a + this.page_limit
           /\ this.page_offs <= x % this.page_size
           /\ x % this.page_size < this.page_limit
<1> DEFINE S   == this.page_size
           rec == this.slot_log_length
           B   == this.begining
<1>1. /\ S \in Nat \ {0} /\ rec \in Nat /\ B \in Nat
      /\ this.page_offs \in Nat /\ this.page_limit \in Nat
      /\ B % S = 0 /\ this.page_limit <= S
  BY LayoutTypes DEF PagedLayout
<1>2. PICK a \in 0 .. pages - 1, b \in 0 .. this.page_records - 1 :
        i = this.page_records * a + b
  BY IndexInPage
<1> DEFINE ofs == this.page_offs + rec * b
<1>3. eels_index_pos(this, i) = B + S * a + ofs
  BY <1>2, IndexPosPaged
<1>4. ofs \in Nat /\ this.page_offs <= ofs /\ ofs + rec <= this.page_limit
  <2>1. rec * b \in Nat
    BY <1>1, <1>2
  <2> QED
    BY <1>1, <1>2, <2>1, SectionFits
<1>5. S * a \in Nat
  BY <1>1, <1>2
<1> HIDE DEF ofs
<1>6. PICK k \in Nat : x = B + S * a + (ofs + k) /\ k < rec
  <2>1. x \in Nat /\ B + S * a + ofs <= x /\ x < B + S * a + ofs + rec
    BY <1>1, <1>3, <1>4, <1>5 DEF Bytes
  <2>2. x - (B + S * a + ofs) \in Nat /\ x - (B + S * a + ofs) < rec
    BY <1>1, <1>4, <1>5, <2>1
  <2>3. x = B + S * a + (ofs + (x - (B + S * a + ofs)))
    BY <1>1, <1>4, <1>5, <2>1
  <2> QED
    BY <2>2, <2>3
<1>7. x % S = ofs + k
  <2>1. PICK q \in Nat, r \in 0 .. S - 1 : B = S * q + r
    <3>1. B \in Nat /\ S \in Nat \ {0}
      BY <1>1
    <3> HIDE DEF S, B
    <3> QED
      BY <3>1, Divided
  <2>2. r = 0
    <3>1. (S * q + r) % S = r
      BY <1>1, DivMod
    <3> QED
      BY <1>1, <2>1, <3>1
  <2>3. x = S * (q + a) + (ofs + k) /\ q + a \in Nat
    BY <1>1, <1>2, <1>4, <1>6, <2>1, <2>2
  <2>4. ofs + k \in 0 .. S - 1
    BY <1>1, <1>4, <1>6
  <2> HIDE DEF S
  <2> QED
    BY <1>1, <2>3, <2>4, DivMod
<1> HIDE DEF S
<1>8. /\ B + S * a + this.page_offs <= x /\ x < B + S * a + this.page_limit
      /\ this.page_offs <= x % S /\ x % S < this.page_limit
  BY <1>1, <1>4, <1>5, <1>6, <1>7
<1> QED
  BY <1>2, <1>8 DEF S

LEMMA RecordPlaced ==
  ASSUME NEW this \in Fields, NEW ask \in Asks, SlotLayout(this), Placed(this, ask),
         Section(this, ask), NEW i \in 0 .. this._counter_max - 1, NEW x \in Bytes(this, i)
  PROVE  /\ ask.begin <= x /\ x < ask.begin + ask.length
         /\ this.page_size > 0 =>
              ask.lo <= x % this.page_size /\ x % this.page_size < ask.hi
<1> DEFINE S == this.page_size
           B == this.begining
<1>1. /\ S \in Nat /\ B \in Nat /\ this.length \in Nat
      /\ this.page_offs \in Nat /\ this.page_limit \in Nat
      /\ ask.begin \in Nat /\ ask.length \in Nat /\ ask.lo \in Nat /\ ask.hi \in Nat
  BY LayoutTypes, Widths DEF Asks
<1>2. x \in Nat /\ B <= x /\ x < B + this.length
  BY RecordInside, LayoutTypes DEF Bytes
<1>3. CASE UnpagedLayout(this)
  <2>1. S = 0 /\ B = ask.begin /\ this.length = ask.length
    BY <1>3 DEF UnpagedLayout, Placed
  <2> QED
    BY <1>1, <1>2, <2>1
<1>4. CASE PagedLayout(this)
  <2>1. S \in Nat \ {0}
    BY <1>1, <1>4 DEF PagedLayout
  <2>2. PICK pages \in Nat \ {0} :
          /\ this.length = pages * S
          /\ ask.begin <= B + this.page_offs
          /\ B + (pages - 1) * S + this.page_limit <= ask.begin + ask.length
    BY <2>1 DEF Placed
  <2>3. this._counter_max = pages * this.page_records
    <3>1. PICK n \in 1 .. this.length :
            this.length = n * S /\ this._counter_max = n * this.page_records
      BY <1>4 DEF PagedLayout
    <3>2. n \in Nat /\ S * n = S * pages
      <4>1. n \in Nat
        BY <1>1, <3>1
      <4> QED
        BY <2>1, <2>2, <3>1, <4>1
    <3>3. n = pages
      <4> HIDE DEF S
      <4>1. (S * n + 0) \div S = n
        BY <2>1, <3>2, 0 \in 0 .. S - 1, DivMod
      <4>2. (S * pages + 0) \div S = pages
        BY <2>1, <2>2, 0 \in 0 .. S - 1, DivMod
      <4>3. S * n + 0 = S * pages + 0
        BY <3>2
      <4> QED
        BY <4>1, <4>2, <4>3
    <3> QED
      BY <3>1, <3>3
  <2>4. PICK a \in 0 .. pages - 1 :
          /\ B + S * a + this.page_offs <= x /\ x < B + S * a + this.page_limit
          /\ this.page_offs <= x % S /\ x % S < this.page_limit
    BY <1>4, <2>2, <2>3, ByteInSection
  <2>5. S * a \in Nat /\ S * a <= (pages - 1) * S
    <3>1. S * a <= S * (pages - 1)
      BY <1>1, <2>2, <2>4, pages - 1 \in Nat, TimesMonotone
    <3> QED
      BY <1>1, <2>2, <2>4, <3>1
  <2>6. ask.begin <= x /\ x < ask.begin + ask.length
    <3>1. (pages - 1) * S \in Int
      BY <1>1, <2>2
    <3> HIDE DEF S
    <3> QED
      BY <1>1, <1>2, <2>2, <2>4, <2>5, <3>1
  <2>7. ask.lo <= x % S /\ x % S < ask.hi
    <3>1. x % S \in Nat /\ this.page_offs = ask.lo /\ this.page_limit <= ask.hi
      BY <1>2, <2>1 DEF Section
    <3> HIDE DEF S
    <3> QED
      BY <1>1, <2>4, <3>1
  <2> QED
    BY <2>6, <2>7
<1> QED
  BY <1>3, <1>4 DEF SlotLayout

(* Each record of a slot that was accepted lies in the bytes, and in the   *)
(* part of every page, that the application gave to the slot: with         *)
(* WritesOnlyCursorRecord of EELSSlotProofs, a slot writes nowhere else.   *)
THEOREM RecordsPlaced == Spec => []RecordsWhereAsked
<1>1. ConfigInv => RecordsWhereAsked
  <2> SUFFICES ASSUME ConfigInv, NEW h \in Handles, Settled(h), Holds(arr[h]),
                      NEW i \in 0 .. arr[h]._counter_max - 1, NEW x \in Bytes(arr[h], i)
               PROVE  /\ asked[h].begin <= x /\ x < asked[h].begin + asked[h].length
                      /\ arr[h].page_size > 0 =>
                           /\ asked[h].lo <= x % arr[h].page_size
                           /\ x % arr[h].page_size < asked[h].hi
    BY DEF RecordsWhereAsked
  <2>1. SlotKept(arr[h], asked[h]) /\ asked[h].ok /\ asked[h].fits
    BY KeptSlots DEF Settled
  <2> QED
    BY <2>1, RecordPlaced DEF SlotKept
<1> QED
  BY <1>1, ConfigInvariant, PTL

-----------------------------------------------------------------------------
(* The overlap check.                                                      *)

(* Pages of one size, and sections apart: no byte is in both.              *)
LEMMA SectionsHoldApart ==
  ASSUME NEW a \in Fields, NEW b \in Fields, SlotLayout(a), SlotLayout(b),
         a.page_records > 0, b.page_records > 0, a.page_size = b.page_size,
         SectionsApart(a, b),
         NEW i \in 0 .. a._counter_max - 1, NEW j \in 0 .. b._counter_max - 1,
         NEW x \in Bytes(a, i)
  PROVE  x \notin Bytes(b, j)
<1> SUFFICES ASSUME x \in Bytes(b, j) PROVE FALSE
  OBVIOUS
<1>1. ASSUME NEW this \in Fields, SlotLayout(this), this.page_records > 0,
             NEW k \in 0 .. this._counter_max - 1, x \in Bytes(this, k)
      PROVE  /\ this.page_offs <= x % this.page_size
             /\ x % this.page_size < this.page_limit
  <2>1. PagedLayout(this)
    BY <1>1 DEF SlotLayout, UnpagedLayout
  <2>2. PICK pages \in 1 .. this.length : this._counter_max = pages * this.page_records
    BY <2>1 DEF PagedLayout
  <2>3. pages \in Nat
    BY <1>1, LayoutTypes
  <2> QED
    BY <1>1, <2>1, <2>2, <2>3, ByteInSection
<1> DEFINE ofs == x % a.page_size
<1>2. /\ a.page_offs <= ofs /\ ofs < a.page_limit
      /\ b.page_offs <= ofs /\ ofs < b.page_limit
  BY <1>1
<1>3. ofs \in Int
  <2>1. PagedLayout(a)
    BY DEF SlotLayout, UnpagedLayout
  <2>2. a.page_size \in Nat \ {0} /\ x \in Int
    BY <2>1, LayoutTypes, RecordInside DEF Bytes, PagedLayout
  <2> QED
    BY <2>2
<1> HIDE DEF ofs
<1>4. /\ a.page_offs \in Nat /\ a.page_limit \in Nat
      /\ b.page_offs \in Nat /\ b.page_limit \in Nat
  BY LayoutTypes
<1>5. PageLimit(a) = a.page_limit /\ PageLimit(b) = b.page_limit
  BY <1>2, <1>3, <1>4 DEF PageLimit
<1> QED
  BY <1>2, <1>3, <1>4, <1>5 DEF SectionsApart

LEMMA AreasHoldApart ==
  ASSUME NEW a \in Fields, NEW b \in Fields, SlotLayout(a), SlotLayout(b),
         a.begining + a.length < AddrSize, b.begining + b.length < AddrSize,
         AreasApart(a, b),
         NEW i \in 0 .. a._counter_max - 1, NEW j \in 0 .. b._counter_max - 1,
         NEW x \in Bytes(a, i)
  PROVE  x \notin Bytes(b, j)
<1>1. /\ a.begining \in Nat /\ a.length \in Nat /\ a.slot_log_length \in Nat
      /\ b.begining \in Nat /\ b.length \in Nat /\ b.slot_log_length \in Nat
  BY LayoutTypes
<1>2. /\ u32(a.begining + a.length) = a.begining + a.length
      /\ u32(b.begining + b.length) = b.begining + b.length
  BY <1>1, Casts, Widths
<1>3. a.begining <= x /\ x < a.begining + a.length
  BY <1>1, RecordInside DEF Bytes
<1>4. \A y \in Bytes(b, j) : b.begining <= y /\ y < b.begining + b.length
  BY <1>1, RecordInside DEF Bytes
<1>5. x \in Int
  BY <1>1, RecordInside DEF Bytes
<1> QED
  BY <1>1, <1>2, <1>3, <1>4, <1>5 DEF AreasApart

(* Slots that EELS_validate_intersects lets pass have no byte in common:   *)
(* with WritesOnlyCursorRecord, neither slot writes into the other.        *)
THEOREM ValidatedSlotsApart == Spec => []ValidatedApart
<1>1. ConfigInv => ValidatedApart
  <2> SUFFICES ASSUME ConfigInv, EELS_validate_intersects,
                      NEW g \in Handles, NEW h \in Handles, g # h,
                      Settled(g), Holds(arr[g]), Settled(h), Holds(arr[h]),
                      \/ 0 \in {arr[g].page_size, arr[h].page_size}
                      \/ arr[g].page_size = arr[h].page_size,
                      NEW i \in 0 .. arr[g]._counter_max - 1,
                      NEW j \in 0 .. arr[h]._counter_max - 1,
                      NEW x \in Bytes(arr[g], i), x \in Bytes(arr[h], j)
               PROVE  FALSE
    BY DEF ValidatedApart
  <2>1. SlotKept(arr[g], asked[g]) /\ SlotKept(arr[h], asked[h])
    BY KeptSlots
  <2>2. /\ arr[g] \in Fields /\ SlotLayout(arr[g])
        /\ arr[g].begining + arr[g].length < AddrSize
        /\ arr[h] \in Fields /\ SlotLayout(arr[h])
        /\ arr[h].begining + arr[h].length < AddrSize
    BY <2>1 DEF SlotKept, Settled, Placed
  <2>3. EELS_SlotOnline(arr[g]) /\ EELS_SlotOnline(arr[h])
    BY DEF Holds
  <2>4. ASSUME NEW a \in Handles, NEW b \in Handles, a < b,
               EELS_SlotOnline(arr[a]), EELS_SlotOnline(arr[b])
        PROVE  \/ AreasApart(arr[a], arr[b])
               \/ /\ arr[a].page_records > 0 /\ arr[b].page_records > 0
                  /\ SectionsApart(arr[a], arr[b])
    BY <2>4 DEF EELS_validate_intersects
  <2>5. \/ AreasApart(arr[g], arr[h])
        \/ /\ arr[g].page_records > 0 /\ arr[h].page_records > 0
           /\ SectionsApart(arr[g], arr[h])
    <3>1. g < h \/ h < g
      BY WidthAssumption DEF Handles
    <3>2. CASE g < h
      BY <2>3, <2>4, <3>2
    <3>3. CASE h < g
      BY <2>3, <2>4, <3>3 DEF AreasApart, SectionsApart
    <3> QED
      BY <3>1, <3>2, <3>3
  <2>6. CASE AreasApart(arr[g], arr[h])
    BY <2>2, <2>6, AreasHoldApart
  <2>7. CASE /\ arr[g].page_records > 0 /\ arr[h].page_records > 0
             /\ SectionsApart(arr[g], arr[h])
    <3>1. arr[g].page_size > 0 /\ arr[h].page_size > 0
      BY <2>2, <2>7 DEF SlotLayout, UnpagedLayout, PagedLayout
    <3>2. arr[g].page_size = arr[h].page_size
      BY <2>2, <3>1, LayoutTypes
    <3> QED
      BY <2>2, <2>7, <3>2, SectionsHoldApart
  <2> QED
    BY <2>5, <2>6, <2>7
<1> QED
  BY <1>1, ConfigInvariant, PTL

-----------------------------------------------------------------------------
(* Two slots that were accepted and found apart are a SlotA and a SlotB of *)
(* EELSSystem: each is laid out as SystemAssumption has it, in an EEPROM   *)
(* of AddrSize bytes, and their records are Disjoint.                      *)
ForSystem(this, other) ==
  /\ SlotLayout(this) /\ this.begining + this.length < AddrSize
  /\ SlotLayout(other) /\ other.begining + other.length < AddrSize
  /\ RecordBytes(this) \cap RecordBytes(other) = {}

MakeSystem ==
  EELS_validate_intersects =>
    \A g, h \in Handles :
      /\ g # h
      /\ Settled(g) /\ Holds(arr[g]) /\ Settled(h) /\ Holds(arr[h])
      /\ 0 \in {arr[g].page_size, arr[h].page_size} \/ arr[g].page_size = arr[h].page_size
      => ForSystem(arr[g], arr[h])

(* Whatever the application asked for, and in whichever order: slots that  *)
(* EELS_SetSlot accepted and EELS_validate_intersects lets pass are what   *)
(* the theorems on two slots in one EEPROM assume.                         *)
THEOREM ConfiguredForSystem == Spec => []MakeSystem
<1>1. ConfigInv /\ ValidatedApart => MakeSystem
  <2> SUFFICES ASSUME ConfigInv, ValidatedApart, EELS_validate_intersects,
                      NEW g \in Handles, NEW h \in Handles, g # h,
                      Settled(g), Holds(arr[g]), Settled(h), Holds(arr[h]),
                      \/ 0 \in {arr[g].page_size, arr[h].page_size}
                      \/ arr[g].page_size = arr[h].page_size
               PROVE  ForSystem(arr[g], arr[h])
    BY DEF MakeSystem
  <2>1. /\ SlotLayout(arr[g]) /\ arr[g].begining + arr[g].length < AddrSize
        /\ SlotLayout(arr[h]) /\ arr[h].begining + arr[h].length < AddrSize
    <3>1. SlotKept(arr[g], asked[g]) /\ SlotKept(arr[h], asked[h])
      BY KeptSlots
    <3> QED
      BY <3>1 DEF SlotKept, Settled, Placed
  <2>2. ASSUME NEW x \in RecordBytes(arr[g]), x \in RecordBytes(arr[h])
        PROVE  FALSE
    <3>1. PICK i \in 0 .. arr[g]._counter_max - 1 : x \in Bytes(arr[g], i)
      BY <2>2 DEF RecordBytes, Bytes
    <3>2. PICK j \in 0 .. arr[h]._counter_max - 1 : x \in Bytes(arr[h], j)
      BY <2>2 DEF RecordBytes, Bytes
    <3> QED
      BY <3>1, <3>2 DEF ValidatedApart
  <2> QED
    BY <2>1, <2>2 DEF ForSystem
<1> QED
  BY <1>1, ConfigInvariant, ValidatedSlotsApart, PTL

=============================================================================
