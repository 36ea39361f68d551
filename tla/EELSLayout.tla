----------------------------- MODULE EELSLayout -----------------------------
(***************************************************************************)
(* Where the records of a slot lie in the EEPROM: the position arithmetic  *)
(* of src/EELS.c.  A slot's layout is a record `this' with the fields of   *)
(* EELSlot_t that EELS_SetSlot computes and no other operation changes.    *)
(*                                                                         *)
(* An unpaged slot (page_size = 0) packs its records from `begining' on.   *)
(* A paged slot puts page_records records into the section                 *)
(* [page_offs, page_limit) of each of its pages.                           *)
(*                                                                         *)
(* Addresses are naturals: no sum below leaves 32 bits for a slot inside   *)
(* the address range of a real chip.  The masks of the source are div and  *)
(* mod, a page size being a power of two (EELS.h:31-36).                   *)
(*                                                                         *)
(* A definition marked `mutant' is a plausible mistake in the definition   *)
(* of the same name without the suffix (see EELSSlot).                     *)
(***************************************************************************)
EXTENDS Integers

EELS_RECOFFS_CRC  == 1    \* the epoch byte comes first, then the CRC byte,
EELS_RECSIZE_HEAD == 2    \* then the user's data

(* What a successful EELS_SetSlot leaves: a slot with room for a record.   *)
(* SlotLayout is the precondition of everything proved about a slot.       *)
UnpagedLayout(this) ==
  /\ this.page_size = 0
  /\ this.page_records = 0
  /\ this.slot_log_length * this._counter_max <= this.length

PagedLayout(this) ==
  /\ this.page_size > 0
  /\ this.page_records > 0
  /\ this.begining % this.page_size = 0
  /\ this.page_limit = this.page_offs + this.page_records * this.slot_log_length
  /\ this.page_limit <= this.page_size
  /\ \E pages \in 1 .. this.length :
        /\ this.length = pages * this.page_size
        /\ this._counter_max = pages * this.page_records

SlotLayout(this) ==
  /\ this.begining \in Nat
  /\ this.length \in Nat
  /\ this._counter_max \in Nat \ {0}
  /\ this.raw_data_size \in Nat \ {0}
  /\ this.slot_log_length = this.raw_data_size + EELS_RECSIZE_HEAD
  /\ this.page_size \in Nat
  /\ this.page_records \in Nat
  /\ this.page_offs \in Nat
  /\ this.page_limit \in Nat
  /\ UnpagedLayout(this) \/ PagedLayout(this)

-----------------------------------------------------------------------------

eels_pos_ok(this, x) ==
  x >= this.begining /\ x < this.begining + this.length

eels_pos_page(this, x) == x - (x % this.page_size)

eels_pos_ofs(this, x) == x % this.page_size

eels_page_idx_pages(this, page) ==                            \* mutant
  (page - this.begining) \div this.page_size
eels_page_idx(this, page) ==
  this.page_records * ((page - this.begining) \div this.page_size)

eels_index_pos(this, idx) ==
  IF this.page_records = 0
  THEN this.begining + this.slot_log_length * idx
  ELSE LET pages == idx \div this.page_records
           pidx  == idx - pages * this.page_records
       IN this.begining + this.page_size * pages
            + (this.page_offs + this.slot_log_length * pidx)

(* The section bound used by the two walks below: a slot that was never    *)
(* given a section uses its whole page.                                    *)
PageLimit(this) == IF this.page_limit > 0 THEN this.page_limit ELSE this.page_size

PastLastPage_early(this, page) ==                             \* mutant
  page + this.page_size >= this.begining + this.length
PastLastPage(this, page) ==
  page + this.page_size > this.begining + this.length

eels_next_pos(this, x) ==
  IF this.page_size = 0
  THEN LET next == x + this.slot_log_length
       IN IF next >= this.begining + this.length THEN this.begining ELSE next
  ELSE LET page == eels_pos_page(this, x)
           ofs  == eels_pos_ofs(this, x) + this.slot_log_length
           succ == page + this.page_size
       IN IF ofs + this.slot_log_length <= PageLimit(this)
          THEN page + ofs
          ELSE IF PastLastPage(this, succ)
               THEN this.begining + this.page_offs
               ELSE succ + this.page_offs

eels_pred_pos(this, x) ==
  IF this.page_size = 0
  THEN IF x < this.begining + this.slot_log_length
       THEN this.begining + this.slot_log_length * this._counter_max
              - this.slot_log_length
       ELSE x - this.slot_log_length
  ELSE LET page == eels_pos_page(this, x)
           ofs  == eels_pos_ofs(this, x)
           from == IF page < this.begining + this.page_size
                   THEN this.begining + this.length ELSE page
       IN IF ofs > this.page_offs + this.slot_log_length
          THEN page + (ofs - this.slot_log_length)
          ELSE (from - this.page_size) + (PageLimit(this) - this.slot_log_length)

(* The bytes of a slot's records.                                          *)
RecordBytes(this) ==
  UNION {eels_index_pos(this, i) .. eels_index_pos(this, i) + this.slot_log_length - 1 :
           i \in 0 .. this._counter_max - 1}

=============================================================================
