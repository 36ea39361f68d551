------------------------------ MODULE MCConfig ------------------------------
(***************************************************************************)
(* Two slots, configured in any order, with integers so narrow that each   *)
(* of them can overflow.  The application asks more of slot 0.             *)
(***************************************************************************)
EXTENDS EELSConfig

(* Either half of a page, a part in the middle and an empty one.           *)
MCSections(h) == IF h = 0 THEN {<<0, 4>>, <<4, 4>>, <<1, 6>>, <<3, 0>>} ELSE {<<4, 4>>}

MCAreas(h) ==
  IF h = 0 THEN [begin : {1, 6}, length : {2, 30}, data : {1, 2, 14}]
           ELSE [begin : {8}, length : {9, 30}, data : {1, 3}]

=============================================================================
