------------------------------ MODULE MCPaged ------------------------------
(***************************************************************************)
(* Slots aligned to pages for TLC.  Each page has a byte before and a byte *)
(* after the slot's section.                                               *)
(***************************************************************************)
EXTENDS EELSHistory, EELSCrc

PagesOf(pages, records, size) ==
  [begining |-> size, length |-> size * pages, _counter_max |-> pages * records,
   raw_data_size |-> 1, slot_log_length |-> 3, page_size |-> size,
   page_records |-> records, page_offs |-> 1, page_limit |-> 1 + 3 * records]

MCSlot   == PagesOf(2, 2, 8)
MCColumn == PagesOf(3, 1, 8)     \* three pages of one record
MCPayloads == {<<1>>, <<2>>}
MCSingle   == {<<1>>}

=============================================================================
