# A verification of Endurance_EEPROM (EELS)

EELS keeps logs in an EEPROM: the user divides the memory into *slots*, and
each slot is a ring of records in which the newest log overwrites the oldest.
No pointer is stored. At start-up the library finds its write cursor again
from the *stamps* of the records: every lap round the ring stamps its records
with the next epoch, so the cursor is where the stamp changes.

That is what this project is about: a distributed-systems kind of question in a
thousand lines of C. The EEPROM survives, the RAM does not, a write is a
sequence of bytes that can break off after any of them, and what is left has to
be read back by a search that looks at a few bytes only.

Paths are relative to the repository: `EELS.c` is `src/EELS.c`.

## 1. The system

| component | state | operations | in this project |
|---|---|---|---|
| slot operations, `EELS.c` | per slot `write_position`, `write_index`, `epoch_counter`, `overlaped`; the EEPROM | `EELS_InsertLog`, `EELS_InsertRec`, `EELS_CleanLog`, `_EELS_FindLastPos`; reading: `EELS_Len`, `EELS_ReadIdx`, `EELS_ReadLast`, `EELS_ReadFromHead/End`, `EELS_PosIdx`, `EELS_PosNext` | `EELSSlot` |
| record layout, `EELS.c` 334-505 | none: functions of the slot's layout | `eels_pos_*`, `eels_index_pos`, `eels_next_pos`, `eels_pred_pos` | `EELSLayout` |
| check byte | none | `EELS_crc8` | `EELSCrc` |
| configuration | the layout fields of a slot | `EELS_Init`, `EELS_PageAlign`, `EELS_PageSection`, `EELS_SetSlot`, `EELS_SlotOnline` | `EELSConfig` |
| overlap check | none | `EELS_validate_intersects` | `EELSConfig` |
| cell access | none | `EELS_ReadCell`, `EELS_WriteCell`, `EELS_SlotLogSize` | `EELSSlot`, `EELSHistory` |
| health counters | none | `_EELS_getHealthyLogs`, `_EELS_getHealthySequence` | `EELSSlot` |
| several slots in one EEPROM | `EELslot_arr` | all of the above | `EELSSystem` |
| E24LC64 driver | the chip, the write in progress | `eeprom_write`, `_PageWrite` | `E24LC64` |
| proto-thread build, unit test, Windows simulation, Unity | - | - | see "Not modelled" |

A record is `[epoch][crc][data...]`. `EELS_InsertLog` writes the data first and
then the two header bytes, which complete the record; `EELS_InsertRec` writes all
of it in one call. `EELS_CleanLog` only breaks the stamp of record 0.
Everything goes through `EELS_EEPROM_READ` and `EELS_EEPROM_WRITE`, macros the
application supplies; both may fail. In the repository's own application they
lead to a driver that cuts a write into pages of the chip, and whose error codes
are positive: `EELS.c` tests `ok < 0` and takes them for success.

What is hard here, and what makes it correct:

* **A write that breaks off** must neither hide the logs before it nor let its
  own half-written record pass as a log (`RecoversCursor`, `RecoversLength`,
  `ReadsBack`, `NoMixedLog`, `DamageShows`).
* **The stamps are the only truth after a restart.** Torn headers, cleans,
  failed cleans and epochs that come round again must leave exactly one change
  of stamp, at the cursor (`StampsTellTheEnd`).
* **Three binary searches** with hand-made bounds: they must end
  (`SearchNarrows`, `EveryCallReturns`), stay inside the slot (`ScanInRange`, part
  of `SlotInv`) and find the change of stamp (`RecoversCursor`).
* **Two cursors**, an address and an index, that wrap on different conditions
  (`CursorAgrees`), and walks over the records that must follow the same order
  (`PosNextWalks`, `HealthCounted`).
* **Errors reported late, or not at all**: a write that failed after it had done
  its work leaves the EEPROM a record ahead of the RAM (`StampsTellTheEnd`,
  `ReadsBack`); one whose error passes for success leaves it anything
  (`SlotInv`, `OnlyCursorRecord`, `SlotsAlone`).
* **Neighbours**: a slot must write nothing outside itself (`OnlyCursorRecord`),
  must lie where the application wanted it (`RecordsWhereAsked`), and what two
  slots do must not show in each other (`ValidatedApart`, `SlotsAlone`).
* **Configuration by side effect**: `EELS_SetSlot` shrinks the section it reads on
  its next call, changes fields before it refuses, and keeps lengths in bytes
  (`AcceptedLayout`, `SectionAsAsked`, `SettlesOnce`).

The full list, line by line, is `hazards` in `PROJECT.json`.

## 2. The modules

```
EELSLayout            position arithmetic, the assumption SlotLayout
  EELSSlot            the state machine of one slot; SlotInv, OnlyCursorRecord, SearchNarrows,
                      EveryCallReturns
    EELSHistory       + what the application inserted; the recovery properties
      MCSolid, MCPaged    instances, with the CRC of EELSCrc
    EELSRefinement    the slot implements EELSLog (INSTANCE), the abstract bounded log
      MCFaults            instances without history
  EELSConfig          how slots get their layout, with narrow integers
      MCConfig            two slots
  EELSSystem          two instances of EELSSlot over one EEPROM, behind
    E24LC64           the driver and its chip
      MCSystem            two slots that share a page
  EELSLayoutProofs    theorems about the layout
    EELSSlotProofs    about every slot, whatever fails
      EELSRefinementProofs  that it implements EELSLog
      EELSRecoveryProofs    about the history, and what a start-up finds
      EELSReadingProofs     about what the reading calls give back
      EELSAloneProofs       about a slot in an EEPROM that others use
        EELSSystemProofs    about two slots and the driver
    EELSConfigProofs  about the configuration
```

`EELSSlot` has the variables `rom` (the bytes), `slot` (the four fields above),
`call` (the write in progress), `scan` (the locals of `_EELS_FindLastPos`) and
`pc` (which EEPROM access comes next). Every C function is cut at its EEPROM
accesses, since that is where it can fail or lose the power; between two accesses
it is one step.

| action | code |
|---|---|
| `InsertLog`, `InsertDataDone`, `InsertDone` | `__EELS_InsertLog`: up to the data write, between the two writes, after the header write with `eels_write_advance` |
| `InsertRec`, `InsertDone` | the same with one write |
| `CleanLog` (`CleanEmpty`, `CleanStamped`), `CleanDone` | `EELS_CleanLog` |
| `FindLastPos` (`FindEmpty`, `FindStart`), `ScanPages`, `ScanPagesEnd`, `ScanRecs`, `ScanSolid`, `FindEnd` | `_EELS_FindLastPos`, one step per probe of its loops; `PagesHalf`, `RecsHalf`, `SolidHalf` are what a probe makes of the bounds |
| `WriteDone(k)` | a write that returned without a negative error; it programmed all its bytes, or the first `k` of them if its error is one that EELS does not notice (`Unnoticed`) |
| `WriteFail(k)` | a write that programmed its first `k` bytes and returned a negative error (also after all of them) |
| `PowerLoss(k)` | the same without returning: the RAM is cleared, `pc = "off"` until the next `FindLastPos` |

`WriteFail` may happen at the writes named in `WriteErrors`, an unnoticed failure
at those in `Unnoticed`; a read of a stamp may return any error in `ReadErrors`,
which the code casts to a byte. Byte order within one write is that of the
addresses. `pc = "off"` stands for everything before `EELS_SetSlot`.

`EELSHistory` adds `log` (what the EEPROM ought to hold), `want` (where the next
record belongs, and its stamp) and `cleans`. It guards nothing but `CleanLog`, by
the bound `MaxCleans`. A record whose stamp landed is in the log; it is `Lost` if
it broke off before its last byte.

`DamageShows` asks what the reading calls would answer after a damage: `Reading(bytes)`
is `EELSSlot` with other bytes for `rom`, and `EELS_WriteCell` gives the bytes, as the
test of the health counters does.

`EELSLog` is the promise to the user: a sequence of at most `Capacity` entries;
an insertion in progress may spoil the oldest entry of a full log, and nothing
else, before it appends its own. It holds from one start-up to the next: which log
a start-up shows is left open there, and is the subject of `EELSHistory`.
`EELSRefinement` maps it to what `EELS_Len` and `EELS_ReadIdx` return while the
slot is on line.

`EELSConfig` has the array of slots `arr` and, next to it, `asked`: the section and
the area the application asked for, whether the last `EELS_SetSlot` accepted it
(`ok`), and whether every sum and difference of the calls since the section was
chosen stayed inside its C type (`fits`). Each of the four calls is an action, the
early return of `EELS_SetSlot` included, and the result of every assignment is cut
to the width of its field (`u8`, `u16`, `u32`). Where the code divides by zero, the
action may do what a build may do: trap (`Reset`) or go on with either result.
Its properties speak of slots that were accepted and fit. They are what
`EELSSlot` assumes: `AcceptedLayout` ends in its `SlotLayout`.

`EELSSystem` takes two copies of the actions of `EELSSlot`. A call of one slot runs
to its end before the other's next call begins; both are set up before one of them
is used, in either order, as the simulation's `main` does. The step "the write
returns" of a slot is the end of the loop in `eeprom_write`: the bytes reach `chip`
page by page (`PageA`, `PageB`), any page may fail after some of its bytes and is
taken for success (`FailsA`, `FailsB`), and the power goes for both slots at once.
`SlotsAlone` then instantiates `EELSSlot` a second time, with an EEPROM that has
only the slot's own records, and states that its whole specification holds.

Definitions marked `mutant` are plausible mistakes in the definition of the same
name; each property was seen to fail with one of them.

## 3. The runs

The slot runs use `EpochNone = 4` in place of 128: the code only counts modulo
`EELS_EPOCH_NONE`, tests its bit and compares for equality, and with four epochs
the laps come round again within the bound. Erased bytes are 255.

| run | instance | shows |
|---|---|---|
| `Solid_power` | 4 records, one log value, power losses, failing cleans, re-scans, 2 cleans a lap; 1.1 M states | types, `StampsTellTheEnd`, `ReadsBack`, `SearchNarrows`, `RecoversCursor`, `RecoversLength`, and the inductive invariants `HistoryInv` and `LogInv` of their proofs |
| `Solid_errors` | 2 records, two logs of 2 bytes, failing insertions and power losses; 85 k states | the same with two values, so that order and mixtures show: `ReadsBack`, `ReadLastIsNewest`, `NoMixedLog`, `DamageShows`, `HistoryInv`, `LogInv`, ... |
| `Paged_power` | 2 pages of 2 records inside a section, one log value, power losses, re-scans, 2 cleans a lap; 0.9 M states | `CursorAgrees`, `PosNextWalks`, `HealthCounted`, the recovery properties, `HistoryInv` and `LogInv` for pages |
| `Refinement` | 3 unpaged records, two values, failing reads and writes, power losses, re-scans; 378 k states | `ImplementsLog`, `WriteExact` |
| `Faults` | 2 pages of 2 records; every read and every write may fail, noticed or not, at any byte; 257 k states | `SlotInv`, `SearchNarrows`, `OnlyCursorRecord`, and under fairness `EveryCallReturns` |
| `System` | two slots in the sections of shared pages, chip pages of 2 bytes, so that a record takes two or three page writes; power losses, 2 unnoticed failures | `ChipIsRom`, `SlotsAlone`, and under fairness `CallsReturn` |
| `Config` | two slots, bytes of 4 bits, 8 counts, 64 addresses, any order and number of calls; 122 k states | `AcceptedLayout`, `SectionAsAsked`, `RecordsWhereAsked`, `ValidatedApart`, `SettlesOnce` |
| `Claim_*` | see section 4 | violated |

Why the bounds are enough. Four records give the unpaged search probes that go up
and down and a middle that is neither bound; two records a page and two pages make
every branch of the paged arithmetic happen (next record, next page, wrap, unused
bytes before, between and behind). The ring is gone round any number of times:
nothing bounds insertions, since the epochs wrap and old logs are forgotten. The
narrow integers of `Config` (`ByteSize = 16`, `LenSize = 8`, `AddrSize = 64`) let
each of the widths overflow within a few calls: a data length of 14 makes the
record length 0, areas of 30 bytes have more records than the counter holds, and a
short slot that begins behind its section gets a negative length. Pages of 8 bytes
are halved, cut in the middle, and given an empty section. `Solid_power` and
`Paged_power` have one log value, or they would have some sixteen times as many states:
in them `ReadsBack` shows that each log is there and whole, not that the logs are in
order. The order shows where there are two values, in `Solid_errors` and `Refinement`,
and `CountedRead` proves it for all, on pages, too. All constants but
`MaxCleans` and `MaxFails` are parameters of the system, not bounds on behaviours.

**Bound `MaxCleans`.** A clean uses up an epoch without going round the ring. With
`EpochNone - 2` cleans in one lap the recovery properties hold. With one more
(`MaxCleans = 3` in `Solid_power`; 127 in the product), each followed by an
insertion, an old record carries the current stamp again and `RecoversCursor`
fails: a limit of the design, not a bound chosen to hide it.

**Bound `MaxFails`.** `System` lets two page writes fail: two in one call, one in
each slot, or one in each of two calls. `Faults` has no such bound.

**Insertion errors and cleans are kept apart.** If the header write of the last
record reports an error although it landed, and the log is then cleaned, the RAM
has not noticed the end of the lap and the clean ends the wrong epoch; records
cleaned can come back (`ReadsBack` fails; the theorems have the same hypothesis).
So `WriteErrors` of `Solid_power` has only the cleans, and `Solid_errors`
has no cleans. `ImplementsLog` and `SlotInv` hold with both, for they claim nothing of
what a start-up finds. No run claims what a log holds after an unnoticed failure: the
record is lost, and a header that did not land hides the logs behind it.

**Fairness.** `FairSpec` of `EELSSlot` has weak fairness of `RunsOn`: a call that was
made goes on (the code is straight-line between accesses, and a driver call
returns), and an application that starts calls `EELS_SetSlot`. `FairSpec` of
`EELSSystem` has the same for both slots and the driver: its loop runs on, too.
Nothing obliges anyone to insert, to clean, or not to lose the power:
`EveryCallReturns` and `CallsReturn` speak of behaviours in which the power is
eventually no longer lost. That the calls of one slot do not starve the other's
needs no more: a call of the other slot begins only when none is under way.

## 4. What the code does not do

Each is a run that expects its property to be violated; `findings` in
`PROJECT.json` quotes the line it contradicts.

| run | what TLC finds |
|---|---|
| `Claim_full` | fill a ring of N exactly, restart: `EELS_Len` is 0 (`EELS.c:1025`) |
| `Claim_health` | a full ring of N whole logs has N-1 healthy ones: the walk starts behind record 0 (`EELS.c:1043`), where `unit test/main.c:164` expects N |
| `Claim_pages` | three pages: the search never probes the middle one, and the start-up goes behind the wrong log (`EELS.c:957`) |
| `Claim_last` | `EELS_ReadLast` at the second record of a page reads another page (`EELS.c:485`) |
| `Claim_torn` | `EELS_InsertRec` torn after one byte brings an old log back as the newest, with a valid CRC (`EELS.c:610`) |

Met on the way, without a run of their own:

* `EELS_ReadFromEnd` never reads a log: the test in `EELS_ReadFromHead` is the wrong
  way round (`EELS.c:791`), though `EELS.h:171` says "log_num >= 0 - index from tail"
  and `unit test/main.c:146` reads the newest log with it. This one is proved, for every
  slot with logs in it and every index (`NothingReadFromEnd`).
* The search within a page skips an index when a page has three records or more
  (`EELS.c:982-984`): `Slot <- PagesOf(1, 3, 16)` in `Paged_power` violates
  `RecoversCursor`. The passing paged runs, and the theorems on what a start-up
  finds (section 5, `SearchFinds`), are therefore about slots with at most two pages
  and two records a page; the other theorems hold for all.
* The comment `EELS.c:1017` promises to check the last record's validity; no code
  does. The start-up goes behind a torn record as behind any other.
* After `EELS_CleanLog`, `EELS_ReadLast` still reads an old record and says OK.
* `eels_relative_pos` answers 0 for `idx = -EELS_Len` (`EELS.c:412`, `431`).
* A failed read of record 0 in `_EELS_FindLastPos` or `EELS_CleanLog` counts as an
  empty slot, since the error code has the top bit set.
* An EEPROM of zeros looks like one full lap of epoch 0.
* `_EELS_getHealthySequence` counts the records of the current lap, without record 0
  (`HealthCounted`). `unit test/main.c:184` asserts that it is 2 after the tests before
  it. With the 192 records of the test's slot that is so only if the cursor happens to
  be at record 3: from an EEPROM file of zeros, the 15000 insertions of the tests
  before it leave the cursor at record 24 and the count at 23. No doc says what the
  number is to be, so the model follows the code.
* On an unpaged slot with unused bytes at its end the health counters, and `EELS_PosNext`,
  go once into those bytes before they come back to record 0.
* The driver's errors are positive (`E24LC64.h`, the TWI codes) and `EELS.c` tests
  `ok < 0`: through `_eeprom_obj_write` no failed write of the chip is ever noticed.
* A slot shorter than one record is accepted and on line, though `EELS.h:127` says a
  slot on line "can contain some records": `_counter_max` is 0, the start-up searches from
  index 65535, and insertions run past the slot.
* A data length of 254 or 255 is accepted: the record length becomes 0 or 1.
  A section then shrinks to nothing, and the next `EELS_SetSlot` takes whole pages.
* A slot that begins at address 0, as slot 0 of the simulation does, is never on
  line for `EELS_SlotOnline` (`EELS.c:212`), so the overlap check leaves it out.
* The overlap check adds `page_offs` to `page_limit`, which already contains it
  (`EELS.c:1149`): it refuses sections that merely touch. For slots with pages of
  different sizes it compares offsets that have nothing to do with each other and
  may let an overlap pass.
* `EELS_PageAlign` never returns `EELS_ERROR_SMALLPAGE`, which `EELS.h:119` announces,
  and cuts a page size of 256 down to 0.
* Handles are signed and only compared with `EELS_APP_SLOTS`: a negative one is not
  refused.

## 5. What is proved

The proofs hold for every value of the constants that satisfies the named
assumptions: `SlotAssumption` (a layout that `EELS_SetSlot` leaves, inside the EEPROM),
`DataAssumption`, `EpochAssumption` (4 to 128 epochs) and `FaultAssumption` (errors are
integers, of either sign) for a slot; `HistoryAssumption` for its history;
`SystemAssumption` and `ChipAssumption` (the same for two slots, and a page of the chip
is at least a byte); `WidthAssumption` and `ArgumentAssumption` (arguments are values of
their C types) for the configuration. Hypotheses that a theorem has beyond these are
its ASSUME, and stand in the third column:

| theorem | states | if |
|---|---|---|
| `RecordsApart` | record i ends before record j begins, for i < j | |
| `SlotInvariant`, `TypeCorrect`, `CursorAgreement` | `Spec => []SlotInv`, `[]TypeOK`, `[]CursorAgrees` | |
| `WritesExact` | `Spec => []WriteExact` | |
| `WritesOnlyCursorRecord` | `Spec => OnlyCursorRecord` | |
| `SearchNarrowing` | `Spec => []SearchNarrows` | |
| `Implementation` | `Spec => ImplementsLog` | no failure passes unnoticed |
| `HistoryKeepsSlot` | `HSpec => Spec` | |
| `HistoryInvariant`, `StampsTell` | `HSpec => []HistoryInv`, `[]StampsTellTheEnd` | `Recoverable` |
| `CursorRecovery` | `HSpec => RecoversCursor` | `Recoverable` |
| `LengthRecovery` | `HSpec => RecoversLength` | `Recoverable`, errors or cleans |
| `RecordsHold` | `HSpec => []HeldInRom` | no failure passes unnoticed |
| `LogHeld`, `CountedRead` | `HSpec => []LogInv`, `[]ReadsBack` | `Recoverable`, errors or cleans |
| `LastRead` | `HSpec => []ReadLastIsNewest` | `StepsBack`, no failure unnoticed |
| `PosNextThrough` | `HSpec => []PosNextWalks` | `NoRest` |
| `MixturesNeverPass` | `Spec => []NoMixedLog` | `MixturesTold` |
| `RestUntouched` | `Spec`: the bytes in no record stay blank | |
| `NothingReadFromEnd` | `Spec => []NothingFromEnd`: `EELS_ReadFromEnd` reads no log | |
| `HealthIsCounted` | `HSpec => []HealthCounted` | `Recoverable`, errors or cleans |
| `DamageIsSeen` | `HSpec => []DamageShows` | as `HealthIsCounted`, `DamageTold`, `WalkInRom` |
| `AloneNext` | a step of a slot in a shared EEPROM is one it can take alone | |
| `EachAlone` | `Spec => SlotsAlone` (of `EELSSystem`) | `Disjoint` |
| `ChipWritten` | `Spec => []ChipIsRom` | |
| `ConfigTypes` | `Spec => []ConfigTypeOK` (of `EELSConfig`) | |
| `AcceptedSlots`, `SectionsKept` | `Spec => []AcceptedLayout`, `[]SectionAsAsked` | |
| `SettledSlots` | `Spec => []SettlesOnce` | |
| `RecordsPlaced`, `ValidatedSlotsApart` | `Spec => []RecordsWhereAsked`, `[]ValidatedApart` | |
| `ConfiguredForSystem` | two slots accepted and validated are laid out as `EELSSystem` assumes, and `Disjoint` | pages, where both have them, of one size |

Where a theorem says less than the run, or needs more, the code is the reason:

* `Recoverable`: the search finds the cursor (`SearchFinds`); no failed write
  passes for success and no read of a stamp fails; the EEPROM starts erased (a blank
  byte has no epoch, and 0 is the next one, as of 255); and there are at most
  `EpochNone - 2` cleans in a lap, a bound that is exact (section 3): 126 in the
  product. The size of the records, the logs, the CRC and the number of epochs are any.
* `SearchFinds`: the slot has no pages, and any number of records; or it has at most
  two pages of at most two records, for of three pages, and of three records in a
  page, the search may pass over the one that matters (section 4); or it is started
  up only once, when there is nothing to find. Three pages of one record is what
  `Claim_pages` refutes.
* *errors or cleans*: `~ MayLag \/ MaxCleans = 0`. An insertion that reports an error
  after it stamped its record, followed by a clean, is what section 3 describes.
* `StepsBack`: the slot has no pages, or a record in each of them, since `eels_pred_pos`
  is wrong from the second record of a page on (`Claim_last`).
* `MixturesTold`: no sequence of bytes, each a blank one or the byte that some log of
  the application has at that place, has the check byte of a log, a blank byte or
  255 (what a clean leaves there), unless it is a log itself. `DamageTold`: the CRC of
  no log stays the same when a byte of it changes by one, or two neighbours that
  differ change places. Both are what the code hopes of `EELS_crc8`, whose eight bits
  cannot tell everything: they are hypotheses about the logs of an application, and
  TLC checks them for the logs of `Solid_errors` (`MCLogsTold`). That a changed byte
  is told holds for every log (`MCByteTold`, which TLC evaluates: the table of
  `EELS_crc8` has no value twice); two neighbours that differ by 0xEF, and only those,
  change places unnoticed.
* `WalkInRom`: the walk of the health counters stays in the EEPROM. `WalkStays` gives it
  for slots with `NoRest`, and for the others if a record that begins at the last byte of
  their area would end inside the EEPROM; else the code may read past it.
* `NoRest`: a slot with pages, or one whose records fill its area: in the others
  `eels_next_pos` goes once into the unused bytes at the end (section 4).
* `Disjoint`: no record of one slot shares a byte with a record of the other, which is
  what `ConfiguredForSystem` concludes.

**A slot.** `OnlyCursorRecord` is not inductive: that a write stays in the record
under the cursor needs that the record lies inside the slot, hence that
`write_position` is the position of `write_index` (`CursorAgrees`), hence that
`eels_next_pos` leads from record i to record i+1 and from the last one to the
first (`NextPos`, by `IndexPosPaged` and `PosPage`: division and remainder by
the page size), and, as the cursor also comes out of a start-up, that the
searches end inside the slot, at the first byte of a page or at an index below
`_counter_max` (`ScanInRange`). `SlotInv` is the conjunction: `TypeOK`,
`CursorAgrees`, `WriteInRecord`, `ScanInRange`. One lemma per action shows that it
is kept (`InsertLogKeeps` ... `PowerLossKeeps`); `LandedInRecord` then bounds what
a step can write. `SearchNarrows` follows from `ScanInRange`: the distance of the
bounds, or the probe, gets smaller, so a search ends for every number of records.

These proofs cover failing reads at every probe, failing writes noticed or not, power
losses at every byte and slots of every size, also those whose search finds the
wrong record: what a wrong start-up can never do is write outside the slot, let
the two cursors disagree, or search for ever.

`WriteExact` says what a write under way is for, not only where: its bytes are the
data, the header or the mark of the call, and the header of `EELS_InsertLog` is only
written over its own data. All that follows rests on it.

**The abstract log.** `EELSRefinementProofs` has one lemma per action of the slot: it
maps to a step of `EELSLog` or to a stutter. What an insertion appends is the record
just completed (`WriteExact`); the others keep their bytes, as records do not overlap,
and their numbers, as `EELS_ReadIdx` counts back from the cursor; in a full ring the
record under the cursor is the oldest entry, the only one `EELSLog` lets an insertion
spoil.

**Recovery.** Neither `StampsTellTheEnd` nor `RecoversCursor` is inductive: that the
stamps behind the cursor differ from the current one depends on when they were
written. `HistoryInv` says so, in five parts. *StampsAged*, inside `CursorKnown`: a
record before the cursor has the current stamp, and one behind it was stamped 1 to
c + 1 laps before, c the cleans of this lap; with c + 1 < `EpochNone` the stamps of
two different laps cannot be equal. *CursorKnown*: the cursor in RAM is where the
EEPROM says, or one record behind it after an insertion that failed late, or some
epochs ahead of it after cleans that failed. *LapBegins*: with the cursor at record 0
either a clean has marked that record or all records are of the lap before, the two
ways in which the code begins a lap. *LengthKnown*: the log is a whole ring, all
stamped one lap before, or ends at record 0 and the last record is not of the lap
before: the single comparison with which `_EELS_FindLastPos` decides `overlaped`.
*SearchNears*: the last record with the current stamp lies between the bounds of the
search over all records; with pages, it is on one of the two pages, and then one of
the two records, that the bounds name, which is where three of either break the
proof as they break the code. `HistoryKept` collects the lemmas on the actions;
`StampsTell` and the two action properties follow from it, each in one step of
`FindLastPos` or `FindEnd`. TLC checks `HistoryInv` in three runs; `StampsTellTheEnd`, which
follows from it (`TellsTheEnd`), is listed in the first.

**Reading.** `LogInv` joins to that what the bytes hold. *HeldInRom*: every log not
overwritten, cleaned or torn is whole in its record; this part needs neither a
working search nor successful reads, and holds for pages, too. *CountedOnly*: the
slot counts no more logs than that, now and after the insertion under way. From both,
`ReadsBack`, by the lemma that `EELS_ReadIdx` and the history number the records
alike (`Back`, `BackIs`).

**Mixtures and damage.** `NoMixedLog` follows from an invariant of the bytes alone,
`OnlyMixtures`: every data byte of a record is blank or a byte of some log at that
place, every check byte one of a log, of a clean, or blank. Any write of any call,
broken off anywhere and reported or not, keeps it (`MixedByte`, from `WriteExact`), so
the theorem needs no working search and no noticed errors: only the CRC is in
question, and `MixturesTold` says what is asked of it. `DamageIsSeen` compares the slot
with itself over other bytes (`Reading(bytes)`): the damaged record reads as an error
by `DamageTold`, the others as before since records do not overlap, and the walk of
the counter is the same, as it reads no byte of the EEPROM.

**The health counters** walk by `eels_next_pos` and add up. `Walk` is a recursive function
over the positions, and induction over it is out of reach; but a function so defined
is one that satisfies its equation (`Walk` unfolded by a witness), and what it visits is
found by the least record that a counterexample could begin at: `WalkRecords` shows
that the walk is the positions of records 1 to N - 1 and perhaps one in the rest of an
unpaged slot. That one has no stamp, for nothing ever writes there (`RestUntouched`).
The counts are then cardinalities of sets of positions, carried over to records and
to the log by bijections (`SequenceCounted`, `LogsCounted`).

**Two slots.** A slot has the EEPROM to itself in `EELSSlot`, and shares it in
`EELSSystem`. `EELSAloneProofs` instantiates a slot twice, with the whole EEPROM
and with one in which all bytes but those of its own records are blank, and shows,
action by action, that a step of the first is a step of the second (`AloneNext`):
every byte that a call reads is the stamp of one of its own records, and every byte
that it writes is in one. A step of the other slot is then a stutter
(`OtherWrites`), and a loss of power of both is, for the one that was idle, a loss of
power before any byte (`OffAlone`). `SystemInv`, which is `SlotInv` of each of the two
masked slots, is inductive without `Disjoint`; only the last step needs that.

**The driver.** `ChipInv` adds to `ChipIsRom` that one slot at a time writes, and that
nothing is sent between writes. `_PageWrite` is then shown to send a piece that
does not pass the end of its page of the chip (`PieceIs`, `TrimmedBounds`), on which the
chip's page latch, which would wrap round, is a plain write (`LatchedIs`); so that
each turn of the loop extends the prefix of the call that the chip has
(`PieceTaken`), until it is all of it (`PageTaken`), or a failure leaves a shorter one
(`BrokenTaken`), which is what the slot's step takes it for.

**The configuration.** `AcceptedLayout` is not inductive either: what `EELS_SetSlot`
makes of a paged slot depends on the section that the call before has left.
`ConfigInv` adds `ConfigTypeOK`, `SectionAsAsked` (the section left lies in the one
asked for and is not empty) and `SlotsPlaced` (a paged slot is a number of pages, the
first of which begins its section in the area asked for and the last of which ends
it there; the end does not wrap). `SetType` shows what holds for all arguments,
overflows included; `AcceptedPaged` and `AcceptedSolid` what holds for a call that
is accepted and fits, from exact values of every field: `FromPageExact` (no sum
wraps), `SectionRecords`, `PagesType` and `CounterFits` (`_counter_max` has room, by
the product of pages and records). `RecordsPlaced` and `ValidatedSlotsApart` follow
with `ByteInSection`: a byte of a record lies in its page's section, found by its
remainder. `SettledSlots` goes through `EELS_SetSlot` once more: the shrunk section holds
as many records as the one it was cut from and nothing else, so first page, pages and
counter come out the same.

**Together**: a slot that was accepted and fits satisfies the assumption of
`EELSSlotProofs`; it writes only into its records (`WritesOnlyCursorRecord`); these
lie where the application asked (`RecordsPlaced`), and apart from those of every
other slot if the overlap check passed (`ValidatedSlotsApart`); so that two of them are
what `EELSSystem` assumes (`ConfiguredForSystem`) and each behaves as if it were alone
(`EachAlone`). As long as no failure passes unnoticed it then keeps its logs
(`RecordsHold`) and, where the search works, finds them (`CursorRecovery`,
`LengthRecovery`), reads them again (`CountedRead`), and counts what is left of them
(`HealthIsCounted`); and what a broken write or a damage made of a log it does not take
for one, as far as the check byte tells (`MixturesNeverPass`, `DamageIsSeen`).

**Only model-checked.** `EveryCallReturns` and `CallsReturn`, since liveness and ENABLED
are beyond the prover; `SearchNarrowing` is the part of the argument that could be
proved: every probe leaves less to search. And that the CRC tells the mixtures and
damages of given logs (`MCLogsTold`, `MCByteTold`): `EELS_crc8` folds over bits. Every
other property of the passing runs is the statement of a theorem.

## 6. Abstractions

* A call runs to its end before the next one begins: `EELS_Conf.h` switches the
  proto-threads off.
* `EELS_EEPROM_WAIT` is `EELS_ERROR_OK`, its default (`EELS.c:81`).
* Addresses of a slot are naturals; masks and shifts by a page size are `div` and
  `mod`, as page sizes are powers of two (`EELS.h:31-36`). Narrow fields do not overflow
  under `SlotLayout`; when they do in `EELS_SetSlot` is `EELSConfig`'s subject.
* Reading is modelled for accesses that succeed; a failing read returns its error
  and changes nothing. `this->head`, scratch space, is left out: every write sets it.
* In `EELSSystem` the slots read `rom`, not `chip`: they read only when no write is
  under way, and then the two are equal (`ChipIsRom`).
* The driver's addresses have 16 bits, enough for the chip's 8 KB; the 8-bit length
  of `_PageWrite` cuts nothing, as no write of EELS is longer than 255 bytes.
* `EELSConfig` leaves out the start-up at the end of `EELS_SetSlot`, which changes no
  layout: it is `FindLastPos` of `EELSSlot`. That a slot is laid out anew over records
  of another layout is not modelled: the EEPROM starts erased (`Blank`), and the
  recovery properties are about slots whose previous content was written by the
  library with the same layout, or never written.

## 7. Not modelled

* **The proto-thread build** (`EELS_PT_DECL`, `EELS_WAIT`, `EELS_Ready`). It is switched
  off in `EELS_Conf.h:32` and in both other configurations, needs the `pt.h` of
  Contiki, which the repository does not have, and its default `EELS_SCHEDULE`
  (`EELS.h:103`) waits while the status is *not* `EELS_ERROR_WAIT`. A model would be of
  macros whose meaning the repository does not settle.
* **Cells written while a slot is in use.** `EELS_WriteCell` goes past every
  bookkeeping and only the tests call it, to damage records: `DamageShows` reads the
  slot again from the EEPROM after such a write, and no action makes one.
* **Page sizes that are no power of two, negative handles, slots without room for a
  record**: accepted or not refused by the code, and left out by `ArgumentAssumption`,
  `Handles` and `Holds`; section 4 says what happens to them.
* **The driver's reads, single-byte calls and delays**: one transfer each, without
  state; the delays only make the next transfer wait for the chip.
* **The unit test's EEPROM file** (`ROM_Init`, `ROM_Commit`): loads and saves an array.
  `ROM_Write` is the memory that `Program` writes.
* **The Windows simulation** but for its calls of EELS: a console, and a wrapper class
  that forwards.
* **Unity**, the vendored test framework: 3599 of the repository's 6217 lines.
  What `PROJECT.json` maps is therefore a smaller part of all lines than of the
  repository's own.

## 8. Plan

What is left to do:

1. The configuration and the slots in one specification, in which `EELS_SetSlot` of a
   running system may move a slot. Today the two meet in `ConfiguredForSystem`, which
   proves of configured slots what `EachAlone` assumes; how a slot behaves over the
   records of an earlier layout is not modelled.
2. `SearchFinds` for more pages and records, once the searches of `EELS.c:949-985` are
   mended: only `SearchNears` and the lemmas `ScanPagesFinds`, `ScanPagesEndFinds` and
   `ScanRecsFinds` depend on it.
