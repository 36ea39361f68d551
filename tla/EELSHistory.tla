---------------------------- MODULE EELSHistory ----------------------------
(***************************************************************************)
(* What the application did to a slot, next to what the slot holds: the    *)
(* history that the properties of EELSSlot are about.  The history says    *)
(* nothing of its own on what the code may do; it only counts calls of     *)
(* EELS_CleanLog, to bound them.                                           *)
(***************************************************************************)
EXTENDS EELSSlot

CONSTANTS
  Lost,       \* a log whose record was being written when a write broke off
  MaxCleans   \* bound: calls of EELS_CleanLog in one lap round the ring

ASSUME HistoryAssumption == MaxCleans \in Nat /\ Lost \notin Payloads

VARIABLES
  log,    \* the logs the EEPROM holds, oldest first, since the last clean
  want,   \* where the next log belongs: its index, and the stamp of its lap
  cleans  \* calls of EELS_CleanLog since the ring was last gone round

history == <<log, want, cleans>>
allVars == <<rom, slot, call, scan, pc, log, want, cleans>>

Place(this) == [index |-> this.write_index, epoch |-> this.epoch_counter]

(* The cursor in RAM is where the EEPROM says it is; or the EEPROM is one  *)
(* record ahead, because a write reported an error after it had stamped it.*)
Aligned == want = Place(slot)
Stamped == want = Place(eels_write_advance(slot))

(* How many logs are newer than the one in record i; the log that is so.   *)
Age(i)   == (want.index - 1 - i) % Counter_max
Newer(k) == log[Len(log) - k]

(* The logs counted, the newest one first, whose records are whole.        *)
Ahead == IF Stamped /\ ~ Aligned THEN 1 ELSE 0
Known == {k \in 0 .. EELS_Len - 1 :
            k + Ahead < Len(log) /\ Newer(k + Ahead) # Lost}

HInit ==
  /\ Init
  /\ log = <<>>
  /\ want = [index |-> 0, epoch |-> 0]
  /\ cleans = 0

-----------------------------------------------------------------------------
(* The data of the record under the cursor is being overwritten.           *)
Spoil ==
  /\ log' = LET k == Age(slot.write_index)
            IN IF k < Len(log) THEN [log EXCEPT ![Len(log) - k] = Lost] ELSE log
  /\ UNCHANGED <<want, cleans>>

(* The record under the cursor has got the stamp of the current lap.  A    *)
(* cursor that disagrees with the EEPROM was moved by a clean that failed: *)
(* the stamp ends the log that clean was meant to end.                     *)
Commit(d) ==
  /\ log' = IF Aligned
            THEN Append(IF Len(log) = Counter_max THEN Tail(log) ELSE log, d)
            ELSE IF Stamped THEN [log EXCEPT ![Len(log)] = d]
            ELSE <<d>>
  /\ want' = Place(eels_write_advance(slot))
  /\ cleans' = IF want'.index = 0 THEN 0 ELSE cleans

Emptied ==
  /\ log' = <<>>
  /\ want' = Place(slot)
  /\ UNCHANGED cleans

(* What k bytes of the write in progress do to the log.                    *)
Programmed(k) ==
  IF k = 0 \/ pc \notin Writing THEN UNCHANGED history
  ELSE CASE pc = "insert_data" -> Spoil
         [] pc \in {"insert_head", "insert_rec"} ->
              Commit(IF k = Len(call.bytes) THEN call.data ELSE Lost)
         [] pc = "clean_head" -> Emptied

BoundedClean ==
  /\ cleans < MaxCleans
  /\ CleanLog
  /\ cleans' = cleans + 1
  /\ UNCHANGED <<log, want>>

HNext ==
  \/ \E d \in Payloads : (InsertLog(d) \/ InsertRec(d)) /\ UNCHANGED history
  \/ BoundedClean
  \/ Scan /\ UNCHANGED history
  \/ \E k \in 0 .. Len(call.bytes) :
       /\ WriteDone(k) \/ WriteFail(k) \/ PowerLoss(k)
       /\ Programmed(k)

HSpec == HInit /\ [][HNext]_allVars

-----------------------------------------------------------------------------

HTypeOK ==
  /\ log \in Seq(Payloads \cup {Lost}) /\ Len(log) <= Counter_max
  /\ want \in [index : 0 .. Counter_max - 1, epoch : 0 .. EpochNone - 1]
  /\ cleans \in 0 .. MaxCleans

(* The stamps alone tell where the log ends: the records of the current    *)
(* lap, and no other record, carry the stamp of record 0.  Torn writes,    *)
(* cleans and stamps used again after EELS_EPOCH_NONE laps must not break  *)
(* that, for it is all _EELS_FindLastPos has to go by.                     *)
StampsTellTheEnd ==
  LET stamp(i) == rom[eels_index_pos(Slot, i)]
  IN IF want.index > 0
     THEN \A i \in 0 .. Counter_max - 1 : (stamp(i) = want.epoch) <=> (i < want.index)
     ELSE \/ HasNone(stamp(0)) /\ next_epoch(stamp(0)) = want.epoch
          \/ \A i \in 0 .. Counter_max - 1 : is_next_epoch(stamp(i), want.epoch)

(* Whatever interrupted the slot before, _EELS_FindLastPos puts the cursor *)
(* behind the last record that was stamped, with the stamp of its lap.     *)
RecoversCursor ==
  [][(FindLastPos \/ FindEnd) /\ pc' = "idle" => Aligned']_allVars

(* A start-up also finds out how many logs there are: whether the records  *)
(* behind the cursor are the log's oldest or belong to it no more.  But    *)
(* see CountsEveryLog for a full ring whose cursor is at record 0.         *)
RecoversLength ==
  [][(FindLastPos \/ FindEnd) /\ pc' = "idle"
       /\ (want.index > 0 \/ Len(log) < Counter_max)
       => EELS_Len' = Len(log)]_allVars

(* What the three above rest on, inductive for a slot whose reads succeed  *)
(* and whose search probes every page and record there is.  A record       *)
(* behind the cursor was stamped some laps before; the cursor in RAM is    *)
(* where the EEPROM says it is, or one record behind it, or ahead of it by *)
(* cleans that have not written; and every clean brings the stamps one lap *)
(* nearer to where EELS_EPOCH_NONE makes them current.                     *)
Records == 0 .. Counter_max - 1
Stamps  == [i \in Records |-> rom[eels_index_pos(Slot, i)]]

Later(x, j)       == (x + j) % EpochNone
Laps(x, j, epoch) == ~ HasNone(x) /\ Later(x, j) = epoch

StampsAged(stamps, at, most) ==
  \A i \in Records :
    IF i < at.index THEN stamps[i] = at.epoch
    ELSE HasNone(stamps[i]) \/ \E j \in 1 .. most : Laps(stamps[i], j, at.epoch)

LapBefore(stamps, at) ==
  \A i \in Records : i >= at.index => Laps(stamps[i], 1, at.epoch)

LapBegins(stamps, at) ==
  at.index = 0 => \/ HasNone(stamps[0]) /\ next_epoch(stamps[0]) = at.epoch
                  \/ LapBefore(stamps, at)

(* Whether a write that reports an error may have stamped a record.        *)
MayLag     == {"insert_head", "insert_rec"} \cap WriteErrors # {}
Behind     == Stamped /\ \A i \in 0 .. slot.write_index : Stamps[i] = slot.epoch_counter
AheadBy(k) == slot.write_index = 0 /\ slot.epoch_counter = Later(want.epoch, k)

CursorKnown ==
  \E k \in 0 .. cleans :
    /\ StampsAged(Stamps, want, cleans + 1 - k)
    /\ pc \in {"idle"} \cup Writing =>
         \/ k > 0 /\ AheadBy(k)
         \/ k = 0 /\ Aligned /\ (pc = "clean_head" => MayLag /\ cleans > 0)
         \/ k = 0 /\ Behind /\ pc # "clean_head" /\ MayLag

(* A clean that follows a write that reported an error may leave records   *)
(* of the log it ends to be counted again when the next lap has begun.     *)
LengthKnown ==
  \/ MayLag /\ MaxCleans > 0
  \/ Len(log) = Counter_max /\ LapBefore(Stamps, want)
  \/ Len(log) = want.index /\ ~ Laps(Stamps[Counter_max - 1], 1, want.epoch)

(* The last record with the current stamp lies between the bounds of the   *)
(* search; with pages it is on one of the two pages, and one of the two    *)
(* records, that the search can still end at.                              *)
SearchNears ==
  LET top  == IF want.index > 0 THEN want.index ELSE Counter_max
      last == eels_index_pos(Slot, top - 1)
  IN /\ pc \in Scanning =>
          scan.epoch = Stamps[0] /\ slot.epoch_counter = Stamps[0] /\ ~ HasNone(Stamps[0])
     /\ pc = "scan_pages" => eels_pos_page(Slot, last) \in {scan.lo, scan.xi}
     /\ pc = "scan_recs" =>
          scan.page = eels_pos_page(Slot, last) /\ last \in {RecAt(scan.lo), RecAt(scan.xi)}
     /\ pc = "scan_solid" =>
          /\ scan.lo < top
          /\ \/ top <= scan.hi /\ scan.xi = scan.lo + ((scan.hi - scan.lo) \div 2)
             \/ scan.xi = scan.hi /\ scan.hi = Counter_max - 1
     /\ ~ PowerLosses /\ ~ Rescans =>
          pc \notin Scanning /\ (pc = "off" => HasNone(Stamps[0]))

HistoryInv ==
  HTypeOK /\ LapBegins(Stamps, want) /\ CursorKnown /\ LengthKnown /\ SearchNears

(* The EEPROM holds the log: the record each log is to be in reads as that *)
(* log, unless it was being written when a write broke off; and the slot   *)
(* counts no more than that, where the cursor in RAM and the EEPROM agree  *)
(* and where they do not.  With HistoryInv these are inductive.            *)
RecordOf(k) == (want.index - 1 - k) % Counter_max

HeldInRom ==
  \A k \in 0 .. Len(log) - 1 :
    Newer(k) # Lost => _EELS_ReadLog(eels_index_pos(Slot, RecordOf(k)))
                         = [ok |-> EELS_ERROR_OK, data |-> Newer(k)]

CountedOnly ==
  LET next == eels_write_advance(slot)
  IN pc \in {"idle"} \cup Writing =>
       /\ EELS_Len <= Len(log)
       /\ EELS_Len > 0 => Aligned \/ Stamped
       /\ Stamped => (IF next.overlaped THEN Counter_max ELSE next.write_index) <= Len(log)

LogInv == HeldInRom /\ CountedOnly

(* Every log the slot still counts reads back, in the order of insertion:  *)
(* log EELS_Len-1-k is the k-th newest one inserted, unless its record was *)
(* being written when a write broke off.                                   *)
ReadsBack ==
  pc = "idle" =>
    /\ EELS_Len <= Len(log)
    /\ \A k \in Known : EELS_ReadIdx(EELS_Len - 1 - k)
                           = [ok |-> EELS_ERROR_OK, data |-> Newer(k + Ahead)]

(* The health counters look at every record but record 0: they count the   *)
(* records of the current lap by their stamps, and find every log healthy  *)
(* that is still there, however the ring was gone round and cleaned.  The  *)
(* test of the repository expects more: see HealthAsTested.                *)
HealthCounted ==
  pc = "idle" /\ Aligned =>
    /\ _EELS_getHealthySequence = IF want.index > 0 THEN want.index - 1 ELSE 0
    /\ _EELS_getHealthyLogs
         >= Cardinality({k \in Known : EELS_PosIdx(EELS_Len - 1 - k) # Pos0})

(* EELS_PosNext leads from each log counted to the next newer one, across  *)
(* the ends of pages and of the ring.                                      *)
PosNextWalks ==
  pc = "idle" => \A k \in 0 .. EELS_Len - 2 :
                   EELS_PosNext(EELS_PosIdx(k)) = EELS_PosIdx(k + 1)

(* EELS_ReadLast gives the log inserted last.                              *)
ReadLastIsNewest ==
  pc = "idle" /\ Aligned /\ log # <<>> /\ Newer(0) # Lost =>
    EELS_ReadLast = [ok |-> EELS_ERROR_OK, data |-> Newer(0)]

(* A write that broke off leaves a record with some bytes of each log that *)
(* was written to it and some blank ones, and with the check byte of a log *)
(* or a blank one or that of a clean.  MixturesTold is what this asks of   *)
(* the CRC and of the logs the application inserts.                        *)
Mixture(data) ==
  \A i \in 1 .. Slot.raw_data_size :
    data[i] = Blank \/ \E d \in Payloads : data[i] = d[i]
Checks == {Crc(d) : d \in Payloads} \cup {Blank, 255}

MixturesTold ==
  \A data \in [1 .. Slot.raw_data_size -> Byte] :
    Mixture(data) /\ Crc(data) \in Checks => data \in Payloads

(* Whatever broke off, a log that is counted and passes its CRC is one the *)
(* application inserted, never a mixture of two.                           *)
NoMixedLog ==
  pc = "idle" =>
    \A k \in 0 .. EELS_Len - 1 :
      EELS_ReadIdx(k).ok = EELS_ERROR_OK => EELS_ReadIdx(k).data \in Payloads

(* The slot as its reading calls show it with other bytes in the EEPROM.   *)
Reading(bytes) == INSTANCE EELSSlot WITH rom <- bytes

(* What DamageShows asks of the CRC for the logs the application inserts.  *)
DamageTold ==
  \A d \in Payloads :
    /\ \A i \in 1 .. Slot.raw_data_size, step \in {-1, 1} :
         Crc([d EXCEPT ![i] = (d[i] + step) % 256]) # Crc(d)
    /\ \A i \in 2 .. Slot.raw_data_size :
         d[i] # d[i - 1] => Crc([d EXCEPT ![i - 1] = d[i], ![i] = d[i - 1]]) # Crc(d)

(* A log that is damaged in the EEPROM fails its CRC and is missed by the  *)
(* health counter, and no other log is: one of its bytes has changed by    *)
(* one, written by EELS_WriteCell as in unit test/main.c:176.  Nor can two *)
(* bytes that differ, next to each other, change places unnoticed.         *)
DamageShows ==
  pc = "idle" =>
    \A k \in Known :
      LET idx  == EELS_Len - 1 - k
          pos  == EELS_PosIdx(idx)
          data == DataAt(pos)
      IN /\ \A i \in 1 .. Slot.raw_data_size, step \in {-1, 1} :
              LET cell == pos + EELS_SlotLogSize - i
                  bytes == EELS_WriteCell(cell, EELS_ReadCell(cell) + step)
              IN /\ Reading(bytes)!_EELS_getHealthyLogs
                      = _EELS_getHealthyLogs - (IF pos = Pos0 THEN 0 ELSE 1)
                 /\ \A n \in 0 .. EELS_Len - 1 :
                      LET read == Reading(bytes)!EELS_ReadIdx(n)
                      IN IF n = idx THEN read.ok = EELS_ERROR_NOK
                                    ELSE read = EELS_ReadIdx(n)
         /\ \A i \in 2 .. Len(data) :
              data[i] # data[i - 1] =>
                Crc([data EXCEPT ![i - 1] = data[i], ![i] = data[i - 1]]) # CrcAt(pos)

-----------------------------------------------------------------------------
(* What the comments, the documents and the tests say, and the code does   *)
(* not do.                                                                 *)

(* EELS.c:1024: a ring found with the previous epoch at its top counts as  *)
(* overlapped.  It does not when the cursor is at record 0: all records    *)
(* then carry the same epoch, and a full ring counts as empty.             *)
CountsEveryLog ==
  pc = "idle" /\ Aligned => EELS_Len = Len(log)

(* unit test/main.c:164-165: of a ring of logs none of which is damaged,   *)
(* _EELS_getHealthyLogs counts as many as fit into the slot.  But its walk *)
(* starts behind record 0 (EELS.c:1043).                                   *)
HealthAsTested ==
  pc = "idle" /\ Aligned /\ Len(log) = Counter_max =>
    _EELS_getHealthyLogs = Slot.length \div Slot.slot_log_length

(* README.md:33: the CRC restores the last correct data.  A record that    *)
(* EELS_InsertRec left torn is either not changed, or fails its CRC, or is *)
(* complete: it does not come back as the log it was to replace.           *)
TornRecFails ==
  [][pc = "insert_rec" /\ pc' = "off" /\ rom' # rom =>
       \A i \in 0 .. Counter_max - 1 :
         LET torn == _EELS_ReadLog(eels_index_pos(Slot, i))
         IN i = slot.write_index /\ (torn').ok = EELS_ERROR_OK =>
              (torn').data = call.data]_allVars

=============================================================================
