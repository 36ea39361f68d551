------------------------------ MODULE MCSystem ------------------------------
(***************************************************************************)
(* Two slots that share a page by sections, with no byte between them: two *)
(* pages of one record, and a single record.  A record takes two pages of  *)
(* the chip.                                                               *)
(***************************************************************************)
EXTENDS EELSSystem

SectionOf(pages, offs) ==
  [begining |-> 8, length |-> 8 * pages, _counter_max |-> pages, raw_data_size |-> 1,
   slot_log_length |-> 3, page_size |-> 8, page_records |-> 1,
   page_offs |-> offs, page_limit |-> offs + 3]

MCSlotA == SectionOf(2, 1)
MCSlotB == SectionOf(1, 4)

(* A log and a CRC of the value of blank bytes: only the stamps vary.      *)
MCBlank    == {<<255>>}
MCNoCrc(d) == 255

=============================================================================
