----------------------------- MODULE EELSSystem -----------------------------
(***************************************************************************)
(* Two slots in one EEPROM behind its driver: an application that sets     *)
(* both up, as Test_simulation/testcpp.cpp:35-51 does, and then calls the  *)
(* one or the other.  The actions of a slot are those of EELSSlot; the     *)
(* bytes it writes reach the chip through E24LC64, page by page.           *)
(*                                                                         *)
(* rom is the EEPROM as the slots know it: a write changes it when it      *)
(* returns.  chip is what the driver has programmed so far.                *)
(***************************************************************************)
EXTENDS E24LC64, EELSLayout

CONSTANTS
  SlotA, SlotB,   \* the layouts of the two slots
  Payloads,       \* see EELSSlot
  Crc(_), EpochNone, Blank, ReadErrors, PowerLosses, Rescans,
  MaxFails        \* bound: page writes that fail

VARIABLES
  rom,
  fails,          \* page writes that failed
  slotA, callA, scanA, pcA,
  slotB, callB, scanB, pcB

(* Error codes of the driver are those of the TWI bus, all of them > 0:    *)
(* EELS takes every failed write for done.                                 *)
WriteErrors == {}
Unnoticed   == {"insert_data", "insert_head", "insert_rec", "clean_head"}

A == INSTANCE EELSSlot
       WITH Slot <- SlotA, slot <- slotA, call <- callA, scan <- scanA, pc <- pcA
B == INSTANCE EELSSlot
       WITH Slot <- SlotB, slot <- slotB, call <- callB, scan <- scanB, pc <- pcB

ASSUME SystemAssumption ==
  /\ A!SlotAssumption /\ A!DataAssumption /\ A!EpochAssumption /\ A!FaultAssumption
  /\ B!SlotAssumption /\ B!DataAssumption
  /\ MaxFails \in Nat

varsA   == <<slotA, callA, scanA, pcA>>
varsB   == <<slotB, callB, scanB, pcB>>
sysVars == <<chip, sent, rom, fails, varsA, varsB>>

Init ==
  /\ ChipInit(Blank)
  /\ A!Init
  /\ B!Init
  /\ fails = 0

-----------------------------------------------------------------------------
(* A slot whose pc is `mine' may take a step: a call runs to its end before *)
(* the next one starts, and both slots are set up before one is used.      *)
HasTurn(mine, other) == other = "idle" \/ (other = "off" /\ mine # "idle")

CallsA ==
  /\ HasTurn(pcA, pcB)
  /\ A!Scan \/ A!CleanLog \/ \E d \in Payloads : A!InsertLog(d) \/ A!InsertRec(d)
  /\ UNCHANGED <<chip, sent, fails, varsB>>

CallsB ==
  /\ HasTurn(pcB, pcA)
  /\ B!Scan \/ B!CleanLog \/ \E d \in Payloads : B!InsertLog(d) \/ B!InsertRec(d)
  /\ UNCHANGED <<chip, sent, fails, varsA>>

(* The driver at work for one of the slots.                                *)
PageA ==
  /\ PageWrite(callA.at, callA.bytes)
  /\ UNCHANGED <<rom, fails, varsA, varsB>>

PageB ==
  /\ PageWrite(callB.at, callB.bytes)
  /\ UNCHANGED <<rom, fails, varsA, varsB>>

WrittenA ==
  /\ WriteSent(callA.bytes)
  /\ A!WriteDone(Len(callA.bytes))
  /\ UNCHANGED <<fails, varsB>>

WrittenB ==
  /\ WriteSent(callB.bytes)
  /\ B!WriteDone(Len(callB.bytes))
  /\ UNCHANGED <<fails, varsA>>

FailsA(k) ==
  /\ fails < MaxFails /\ fails' = fails + 1
  /\ BrokenOff(callA.at, callA.bytes, k)
  /\ A!WriteDone(Sent(callA.bytes) + k)
  /\ UNCHANGED varsB

FailsB(k) ==
  /\ fails < MaxFails /\ fails' = fails + 1
  /\ BrokenOff(callB.at, callB.bytes, k)
  /\ B!WriteDone(Sent(callB.bytes) + k)
  /\ UNCHANGED varsA

(* The power goes for both slots, whichever is writing.                    *)
PowerLossA(k) ==
  /\ BrokenOff(callA.at, callA.bytes, k)
  /\ A!PowerLoss(Sent(callA.bytes) + k)
  /\ pcB \notin B!Writing
  /\ B!SwitchedOff
  /\ UNCHANGED fails

PowerLossB(k) ==
  /\ BrokenOff(callB.at, callB.bytes, k)
  /\ B!PowerLoss(Sent(callB.bytes) + k)
  /\ pcA \notin A!Writing
  /\ A!SwitchedOff
  /\ UNCHANGED fails

Next ==
  \/ CallsA \/ PageA \/ WrittenA
  \/ CallsB \/ PageB \/ WrittenB
  \/ \E k \in 0 .. Len(callA.bytes) : FailsA(k) \/ PowerLossA(k)
  \/ \E k \in 0 .. Len(callB.bytes) : FailsB(k) \/ PowerLossB(k)

Spec == Init /\ [][Next]_sysVars

(* A call that was made runs on, and the driver with it; an application    *)
(* that starts sets its slots up.  One of these steps at a time is enabled *)
(* but for the choice of the slot set up first.                            *)
RunsOn ==
  \/ pcA # "idle" /\ HasTurn(pcA, pcB) /\ A!StartsUp /\ UNCHANGED <<chip, sent, fails, varsB>>
  \/ pcB # "idle" /\ HasTurn(pcB, pcA) /\ B!StartsUp /\ UNCHANGED <<chip, sent, fails, varsA>>
  \/ PageA \/ WrittenA
  \/ PageB \/ WrittenB

FairSpec == Spec /\ WF_sysVars(RunsOn)

-----------------------------------------------------------------------------
(* The driver puts every byte where EELS wants it: the chip is the EEPROM  *)
(* the slots know, but for the first bytes of the write in progress.       *)
Programmed(call) == call.at .. call.at + Sent(call.bytes) - 1

ChipIsRom ==
  \A a \in DOMAIN chip :
    chip[a] = IF a \in Programmed(callA) THEN callA.bytes[a - callA.at + 1]
              ELSE IF a \in Programmed(callB) THEN callB.bytes[a - callB.at + 1]
              ELSE rom[a]

(* The EEPROM as a slot alone in it would have it.                         *)
OwnA == RecordBytes(SlotA)
OwnB == RecordBytes(SlotB)

AloneA == INSTANCE EELSSlot
  WITH Slot <- SlotA, rom <- [a \in DOMAIN rom |-> IF a \in OwnA THEN rom[a] ELSE Blank],
       slot <- slotA, call <- callA, scan <- scanA, pc <- pcA
AloneB == INSTANCE EELSSlot
  WITH Slot <- SlotB, rom <- [a \in DOMAIN rom |-> IF a \in OwnB THEN rom[a] ELSE Blank],
       slot <- slotB, call <- callB, scan <- scanB, pc <- pcB

(* Each slot behaves as EELSSlot does alone in its EEPROM: what the other  *)
(* one does, and fails to do, never shows in it, though they share pages,  *)
(* the driver and the power.                                               *)
SlotsAlone == AloneA!Spec /\ AloneB!Spec

(* Unless the power keeps being lost, every call of both slots returns,    *)
(* however often the other one is called; and both are started up.         *)
CallsReturn ==
  <>[][~ (pcA' = "off" /\ pcB' = "off")]_sysVars =>
    /\ pcA # "idle" ~> pcA = "idle"
    /\ pcB # "idle" ~> pcB = "idle"

=============================================================================
