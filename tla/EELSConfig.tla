----------------------------- MODULE EELSConfig -----------------------------
(***************************************************************************)
(* How the slots get their layout: EELS_Init, EELS_PageAlign,              *)
(* EELS_PageSection and EELS_SetSlot of src/EELS.c, in any order, with the *)
(* integers as narrow as EELSlot_t has them; and the two checks an         *)
(* application has, EELS_SlotOnline and EELS_validate_intersects.          *)
(*                                                                         *)
(* _EELS_FindLastPos, which EELS_SetSlot calls at its end, changes no      *)
(* layout: it is an action of EELSSlot, whose assumption SlotLayout is     *)
(* what AcceptedLayout below says of the calls that are accepted.  A call  *)
(* with a handle of EELS_APP_SLOTS or more changes nothing and is left     *)
(* out; so is one with a negative handle, which the code does not refuse   *)
(* and which reaches outside EELslot_arr.                                  *)
(***************************************************************************)
EXTENDS EELSLayout

CONSTANTS
  EELS_APP_SLOTS,  \* the number of slots
  ByteSize,        \* 256: the values of an EELSDataLen, an EELSPageLen
  LenSize,         \* 65536: the values of an EELSlotLen
  AddrSize,        \* 2^32: the values of an EELSAddr, an EELSlotSize
  PageSizes,       \* the arguments of EELS_PageAlign
  Sections(_),     \* the arguments of EELS_PageSection for a slot
  Areas(_)         \* the arguments of EELS_SetSlot for a slot

Handles == 0 .. EELS_APP_SLOTS - 1

ASSUME WidthAssumption ==
  /\ {EELS_APP_SLOTS, ByteSize, LenSize, AddrSize} \subseteq Nat \ {0}
  /\ EELS_RECSIZE_HEAD < ByteSize

(* Page sizes are powers of two, as EELS.h:31-36 demands of a fixed one.   *)
ASSUME ArgumentAssumption ==
  /\ \A size \in PageSizes : size = 0 \/ \E k \in 0 .. size : size = 2^k
  /\ PageSizes \subseteq 0 .. ByteSize - 1
  /\ \A h \in Handles :
       /\ Sections(h) \subseteq (0 .. ByteSize - 1) \X (0 .. ByteSize - 1)
       /\ Areas(h) \subseteq [begin  : 0 .. AddrSize - 1, length : 0 .. AddrSize - 1,
                              data   : 0 .. ByteSize - 1]

VARIABLES
  arr,    \* EELslot_arr: the layout of every slot
  asked   \* what the application asked for, whether it was accepted, and
          \* whether all it asked since it chose the section fits the integers

cvars == <<arr, asked>>

u8(x)  == x % ByteSize
u16(x) == x % LenSize
u32(x) == x % AddrSize

EELS_ERROR_OK        == 0
EELS_ERROR_SMALLPAGE == -2

(* Static storage.                                                         *)
Zeroed ==
  [begining |-> 0, length |-> 0, _counter_max |-> 0, raw_data_size |-> 0,
   slot_log_length |-> 0, page_size |-> 0, page_records |-> 0,
   page_offs |-> 0, page_limit |-> 0]

NotAsked == [lo |-> 0, hi |-> 0, begin |-> 0, length |-> 0, data |-> 0,
             ok |-> FALSE, fits |-> TRUE]

Init ==
  /\ arr = [h \in Handles |-> Zeroed]
  /\ asked = [h \in Handles |-> NotAsked]

-----------------------------------------------------------------------------
Cleared(this) ==
  [this EXCEPT !.length = 0, !._counter_max = 0, !.slot_log_length = 0,
               !.page_size = 0, !.page_offs = 0, !.page_limit = 0]

EELS_Init ==
  /\ arr' = [h \in Handles |-> Cleared(arr[h])]
  /\ asked' = [h \in Handles |-> NotAsked]

Aligned(this, size) ==
  [this EXCEPT !.page_size = size, !.page_offs = 0, !.page_limit = size]

EELS_PageAlign(h, size) ==
  /\ arr' = [arr EXCEPT ![h] = Aligned(@, size)]
  /\ asked' = [asked EXCEPT ![h] = [NotAsked EXCEPT !.hi = size]]

EELS_PageSection(h, offs, size) ==
  /\ offs + size <= arr[h].page_size
  /\ arr' = [arr EXCEPT ![h].page_offs = offs, ![h].page_limit = offs + size]
  /\ asked' = [asked EXCEPT ![h] = [NotAsked EXCEPT !.lo = offs, !.hi = offs + size]]

-----------------------------------------------------------------------------
(* EELS_SetSlot.                                                           *)

Sized_wide(this, data) ==                                     \* mutant
  [this EXCEPT !.raw_data_size = data, !.slot_log_length = data + EELS_RECSIZE_HEAD]

Sized(this, data) ==
  [this EXCEPT !.raw_data_size = data, !.slot_log_length = u8(data + EELS_RECSIZE_HEAD)]

(* From the first page on whose section lies behind begin.                 *)
FromPage(this, begin, length) ==
  LET ofs  == eels_pos_ofs(this, begin)
      skip == IF ofs > this.page_offs THEN this.page_size ELSE 0
  IN [this EXCEPT !.begining = u32(eels_pos_page(this, begin) + skip),
                  !.length   = u32(length + ofs - skip)]

SectionSize(this) ==
  IF this.page_limit > this.page_offs THEN this.page_limit - this.page_offs
                                      ELSE this.page_size

(* The section ends with its last record.                                  *)
RecordsLimit_size(this, records) == u8(records * this.slot_log_length)  \* mutant
RecordsLimit_page(this, records) == this.page_limit           \* mutant
RecordsLimit(this, records) == u8(this.page_offs + records * this.slot_log_length)

(* The last page counts if the slot's part of it reaches to that end.      *)
Pages_begun(this, limit) ==                                   \* mutant
  (this.length + this.page_size - 1) \div this.page_size
Pages(this, limit) ==
  this.length \div this.page_size
    + (IF this.length % this.page_size >= limit THEN 1 ELSE 0)

InPages(this, records) ==
  LET limit == RecordsLimit(this, records)
      pages == Pages(this, limit)
  IN [this EXCEPT !.page_limit   = limit,
                  !.length       = u32(pages * this.page_size),
                  !._counter_max = u16(pages * records),
                  !.page_records = u8(records)]

(* Division by zero, if it does not trap, leaves 0 or all bits set.        *)
Quotient(a, b) == IF b = 0 THEN {0, AddrSize - 1} ELSE {a \div b}

Paged(this, begin, length) ==
  LET that == FromPage(this, begin, length)
      size == SectionSize(this)
  IN IF size < this.slot_log_length
     THEN {[ret |-> EELS_ERROR_SMALLPAGE, slot |-> that]}
     ELSE {[ret |-> EELS_ERROR_OK, slot |-> InPages(that, records)] :
             records \in Quotient(size, this.slot_log_length)}

Solid(this, begin, length) ==
  {[ret  |-> EELS_ERROR_OK,
    slot |-> [this EXCEPT !.begining = begin, !.length = length,
                          !._counter_max = u16(records), !.page_records = 0]] :
     records \in Quotient(length, this.slot_log_length)}

(* What EELS_SetSlot may return and make of a slot.                        *)
Set(this, begin, length, data) ==
  LET sized == Sized(this, data)
  IN IF sized.page_size > 0 THEN Paged(sized, begin, length)
                            ELSE Solid(sized, begin, length)

(* The integers are wide enough for what was asked: none of the sums and   *)
(* differences in EELS_SetSlot leaves its type, and a section is not empty.*)
Fits(this, ask) ==
  /\ ask.data + EELS_RECSIZE_HEAD < ByteSize
  /\ ask.begin + ask.length + this.page_size < AddrSize
  /\ this.page_size = 0 =>
       ask.length < LenSize * (ask.data + EELS_RECSIZE_HEAD)
  /\ this.page_size > 0 =>
       /\ ask.lo < ask.hi
       /\ eels_pos_ofs(this, ask.begin) > ask.lo =>
            ask.length + eels_pos_ofs(this, ask.begin) >= this.page_size
       /\ (ask.length + 2 * this.page_size) * (ask.hi - ask.lo)
            <= LenSize * (ask.data + EELS_RECSIZE_HEAD) * this.page_size

EELS_SetSlot(h, begin, length, data) ==
  \E done \in Set(arr[h], begin, length, data) :
    LET ask == [asked[h] EXCEPT !.begin = begin, !.length = length, !.data = data,
                                !.ok = (done.ret = EELS_ERROR_OK)]
    IN /\ arr' = [arr EXCEPT ![h] = done.slot]
       /\ asked' = [asked EXCEPT ![h] = [ask EXCEPT !.fits = @ /\ Fits(arr[h], ask)]]

(* The power goes, or a division by zero traps.                            *)
Reset ==
  /\ arr' = [h \in Handles |-> Zeroed]
  /\ asked' = [h \in Handles |-> NotAsked]

Next ==
  \/ EELS_Init
  \/ \E h \in Handles :
       \/ \E size \in PageSizes : EELS_PageAlign(h, size)
       \/ \E section \in Sections(h) : EELS_PageSection(h, section[1], section[2])
       \/ \E area \in Areas(h) : EELS_SetSlot(h, area.begin, area.length, area.data)
  \/ Reset

Spec == Init /\ [][Next]_cvars

-----------------------------------------------------------------------------
(* The checks the application has.                                         *)

EELS_SlotOnline(this) ==
  /\ this.begining > 0
  /\ this.length > 0
  /\ this.raw_data_size > 0
  /\ this.slot_log_length > 0

AreasApart(a, b) ==
  \/ b.begining >= u32(a.begining + a.length)
  \/ a.begining >= u32(b.begining + b.length)

SectionsApart_start(a, b) == a.page_offs # b.page_offs        \* mutant
SectionsApart(a, b) ==
  \/ b.page_offs >= a.page_offs + PageLimit(a)
  \/ a.page_offs >= b.page_offs + PageLimit(b)

(* No slot without pages may share its area, no slots a part of a page.    *)
EELS_validate_intersects ==
  \A i, j \in {h \in Handles : EELS_SlotOnline(arr[h])} :
    i < j => \/ AreasApart(arr[i], arr[j])
             \/ /\ arr[i].page_records > 0 /\ arr[j].page_records > 0
                /\ SectionsApart(arr[i], arr[j])

-----------------------------------------------------------------------------
(* Properties.                                                             *)

Fields ==
  [begining : 0 .. AddrSize - 1, length : 0 .. AddrSize - 1,
   _counter_max : 0 .. LenSize - 1, raw_data_size : 0 .. ByteSize - 1,
   slot_log_length : 0 .. ByteSize - 1, page_size : 0 .. ByteSize - 1,
   page_records : 0 .. ByteSize - 1, page_offs : 0 .. ByteSize - 1,
   page_limit : 0 .. ByteSize - 1]

Asks ==
  [lo : 0 .. ByteSize - 1, hi : 0 .. ByteSize - 1, begin : 0 .. AddrSize - 1,
   length : 0 .. AddrSize - 1, data : 0 .. ByteSize - 1, ok : BOOLEAN, fits : BOOLEAN]

ConfigTypeOK ==
  /\ arr \in [Handles -> Fields]
  /\ asked \in [Handles -> Asks]

(* The section of a slot begins where it was asked to and, though it       *)
(* shrinks to its records at every EELS_SetSlot, never grows again and     *)
(* never vanishes: an empty one would make the slot take whole pages.      *)
SectionAsAsked ==
  \A h \in Handles : arr[h].page_size > 0 /\ asked[h].fits =>
    /\ arr[h].page_offs = asked[h].lo
    /\ arr[h].page_limit <= asked[h].hi /\ asked[h].hi <= arr[h].page_size
    /\ asked[h].lo < asked[h].hi => asked[h].lo < arr[h].page_limit

Settled(h) == asked[h].ok /\ asked[h].fits

Holds(this) == EELS_SlotOnline(this) /\ this._counter_max > 0

Bytes(this, i) ==
  eels_index_pos(this, i) .. eels_index_pos(this, i) + this.slot_log_length - 1

(* A slot that EELS_SetSlot accepted, that is on line and has a record, is *)
(* laid out as EELSSlot assumes, whatever was called for it before.        *)
AcceptedLayout ==
  \A h \in Handles : Settled(h) /\ Holds(arr[h]) => SlotLayout(arr[h])

(* Each of its records lies in the bytes that the application gave to the  *)
(* slot, and of every page in the section it gave: though pages are taken  *)
(* whole, and a section shrinks to its records at every EELS_SetSlot.      *)
RecordsWhereAsked ==
  \A h \in Handles : Settled(h) /\ Holds(arr[h]) =>
    LET ask == asked[h]
    IN \A i \in 0 .. arr[h]._counter_max - 1 : \A a \in Bytes(arr[h], i) :
         /\ ask.begin <= a /\ a < ask.begin + ask.length
         /\ arr[h].page_size > 0 =>
              ask.lo <= a % arr[h].page_size /\ a % arr[h].page_size < ask.hi

(* Two slots that EELS_validate_intersects lets pass have no byte in       *)
(* common, unless they divide the EEPROM into pages of different sizes.    *)
ValidatedApart ==
  EELS_validate_intersects =>
    \A g, h \in Handles :
      /\ g # h
      /\ Settled(g) /\ Holds(arr[g]) /\ Settled(h) /\ Holds(arr[h])
      /\ 0 \in {arr[g].page_size, arr[h].page_size} \/ arr[g].page_size = arr[h].page_size
      => \A i \in 0 .. arr[g]._counter_max - 1, j \in 0 .. arr[h]._counter_max - 1 :
           Bytes(arr[g], i) \cap Bytes(arr[h], j) = {}

(* EELS_SetSlot reads the section it shrank itself: called again with the  *)
(* same arguments, it must come to the same layout.                        *)
SettlesOnce ==
  \A h \in Handles : Settled(h) =>
    Set(arr[h], asked[h].begin, asked[h].length, asked[h].data)
      = {[ret |-> EELS_ERROR_OK, slot |-> arr[h]]}

=============================================================================
