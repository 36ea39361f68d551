------------------------------ MODULE MCFaults ------------------------------
(***************************************************************************)
(* Slots for the runs that need no history.                                *)
(***************************************************************************)
EXTENDS EELSRefinement

MCPaged ==
  [begining |-> 8, length |-> 16, _counter_max |-> 4, raw_data_size |-> 1,
   slot_log_length |-> 3, page_size |-> 8, page_records |-> 2,
   page_offs |-> 1, page_limit |-> 7]

MCSolid ==
  [begining |-> 1, length |-> 10, _counter_max |-> 3, raw_data_size |-> 1,
   slot_log_length |-> 3, page_size |-> 0, page_records |-> 0,
   page_offs |-> 0, page_limit |-> 0]

MCPayloads == {<<1>>, <<2>>}
MCErrors   == {-1, 1}

(* A log and a CRC of the value of blank bytes: only the stamps vary.      *)
MCBlank    == {<<255>>}
MCNoCrc(d) == 255

=============================================================================
