------------------------------ MODULE EELSLog ------------------------------
(***************************************************************************)
(* What a slot promises to its user from one start-up to the next: a log   *)
(* that keeps the newest Capacity entries.  Once it is full, inserting has *)
(* to overwrite the oldest entry, so an insertion may spoil that one, and  *)
(* only that one, before it ends or fails.  Which log a start-up shows is  *)
(* left open here; EELSHistory says what it is.                            *)
(***************************************************************************)
EXTENDS Integers, Sequences

CONSTANTS
  Capacity,   \* the number of entries a full log keeps
  Entries,    \* what reading an entry may return
  Inserted    \* the entries that have been inserted as a whole

VARIABLES
  online,   \* whether the slot has started up
  log,      \* the entries, oldest first; none while it is not on line
  pending   \* the entry of the insertion in progress: a set of at most one

Init == online = FALSE /\ log = <<>> /\ pending = {}

StartUp ==
  /\ ~ online /\ online' = TRUE
  /\ \E n \in 0 .. Capacity : log' \in [1 .. n -> Entries]
  /\ UNCHANGED pending

(* The power goes, or the start-up is begun anew.                          *)
ShutDown ==
  /\ online /\ online' = FALSE
  /\ log' = <<>> /\ pending' = {}

Begin(e) ==
  /\ online /\ pending = {} /\ pending' = {e}
  /\ UNCHANGED <<online, log>>

Insert(e) ==
  /\ e \in pending /\ pending' = {}
  /\ log' = Append(IF Len(log) = Capacity THEN Tail(log) ELSE log, e)
  /\ UNCHANGED online

Spoil ==
  /\ pending # {} /\ pending' \in {pending, {}}
  /\ Len(log) = Capacity
  /\ log' \in [1 .. Capacity -> Entries]
  /\ Tail(log') = Tail(log)
  /\ UNCHANGED online

Fail ==
  /\ pending # {} /\ pending' = {}
  /\ UNCHANGED <<online, log>>

Clear ==
  /\ online /\ pending = {} /\ log' = <<>>
  /\ UNCHANGED <<online, pending>>

Next ==
  \/ StartUp \/ ShutDown
  \/ \E e \in Inserted : Begin(e) \/ Insert(e)
  \/ Spoil \/ Fail
  \/ Clear

Spec == Init /\ [][Next]_<<online, log, pending>>

=============================================================================
