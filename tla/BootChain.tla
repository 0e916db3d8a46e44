----------------------------- MODULE BootChain -----------------------------
(***************************************************************************)
(* How a program gets into the OBC and is started: the boot table in the   *)
(* program flash (libs/drivers/program_flash), the bootloader (boot/), the *)
(* boot settings (libs/boot_settings), the safe mode program (safe_mode/), *)
(* the scrubber of program slots (libs/scrubber/program.cpp), the upload   *)
(* and boot slot telecommands and the experiment that copies slots.        *)
(*                                                                         *)
(* An entry of the boot table is the set of its programmed bits: erasing a *)
(* sector empties it, programming only adds bits, and the bitwise vote of  *)
(* three copies is made of intersections and unions.  A mask of boot slots *)
(* is the set of its one bits.  Every erase, program and FRAM write is a   *)
(* step of its own, and a reset may come between any two of them.          *)
(***************************************************************************)
EXTENDS Naturals, FiniteSets

CONSTANTS
    UnconfirmedBoots,   \* 10: unconfirmed boots before the failsafe slots
    BootCounterTop,     \* 0xFFFF
    MaskPairs,          \* pairs of masks the telecommand SetBootSlots may carry
    SectorOf,           \* the sector of each bit of an entry
    Programs,           \* programs of the two groups when the mission begins
    UploadTargets,      \* groups the ground uploads to
    Broken,             \* sets of programs that may fail before the confirmation
    MaxResets, MaxFaults, MaxCommands

Slots == 0 .. 5
SafeModeBootSlot == {6}
UpperBootSlot == {7}
DefaultBootSlot == {0, 1, 2}
DefaultFailsafeBootSlot == {3, 4, 5}
Groups == {DefaultBootSlot, DefaultFailsafeBootSlot}

Bits == DOMAIN SectorOf         \* "valid" stands for the marker 0xAA
Pages == Bits \ {"valid"}
Sectors == {SectorOf[b] : b \in Bits}
BitsOf(sector) == {b \in Bits : SectorOf[b] = sector}
None == {"none"}

ASSUME BootAssumption ==
    /\ UnconfirmedBoots \in Nat \ {0} /\ BootCounterTop \in Nat
    /\ MaskPairs \subseteq (SUBSET (0 .. 7)) \X (SUBSET (0 .. 7))
    /\ "valid" \in Bits /\ "none" \notin Bits
    /\ Sectors \subseteq Nat /\ SectorOf["valid"] = 0
    /\ Programs \in [Groups -> SUBSET Pages] /\ UploadTargets \subseteq Groups
    /\ \A bad \in Broken : {} \in bad /\ bad \subseteq SUBSET Pages

VARIABLES
    flash,          \* programmed bits of every entry
    settings,       \* boot settings in FRAM
    mcu,            \* application area of the internal flash
    phase,          \* what the processor is executing
    index,          \* boot::Index
    lock,           \* holder of the lock of the boot table
    scrub,          \* ScrubSlots in progress: voted bits, slots to rewrite
    offset,         \* next sector, for each of the two scrubbers
    cmd,            \* the telecommand or experiment being executed
    sent,           \* telecommands sent so far: each is sent once (bound)
    broken,         \* programs that fail before the confirmation
    installed,      \* history: the entry each group should hold, or None
    session,        \* history: slots erased for an upload, pages written since
    attempts,       \* history: boot attempts since the last confirmation (up to the limit)
    resets, faults  \* bounded counters

vars == <<flash, settings, mcu, phase, index, lock, scrub, offset, cmd, sent, broken,
          installed, session, attempts, resets, faults>>

hist == <<installed, session, attempts>>
budget == <<broken, resets, faults>>
memory == <<flash, settings, mcu>>
ram == <<lock, scrub, offset, cmd>>

-----------------------------------------------------------------------------
(* Redundancy, masks and entries *)

(* redundancy::Correct on the entries of a mask: (a & b) | (b & c) | (a & c) *)
Vote(mask) == {b \in Bits : \E s, t \in mask : s < t /\ b \in flash[s] \cap flash[t]}

(* What the telecommand accepts, and what the bootloader does. *)
IsValidBootSlot(mask) ==
    \/ mask \in {UpperBootSlot, SafeModeBootSlot}
    \/ Cardinality(mask \cap Slots) = 3

IsBootSlotsValid(mask) ==
    /\ Cardinality(mask) = 3
    /\ "valid" \in Vote(mask)

First(slots) == CHOOSE s \in slots : \A t \in slots : s <= t

Scrubbers == {"primary", "secondary"}
Idle == [which |-> "none", buffer |-> {}, todo |-> {}, erased |-> FALSE]
NoSession == [slots |-> {}, done |-> {}]
NoCommand == [op |-> "none", slots |-> {}, sectors |-> {}, data |-> {}, source |-> {}, ok |-> TRUE]

-----------------------------------------------------------------------------
(* The bootloader *)

(* BootSlots, FailsafeBootSlots, BootCounter: defaults without the magic   *)
(* number.                                                                 *)
BootSlots == IF settings.magic THEN settings.slots ELSE DefaultBootSlot
FailsafeBootSlots == IF settings.magic THEN settings.failsafe ELSE DefaultFailsafeBootSlot
BootCounter == IF settings.magic THEN settings.counter ELSE 0

(* counter - lastConfirmed of unsigned integers. *)
Unconfirmed ==
    IF settings.counter >= settings.confirmed
    THEN settings.counter - settings.confirmed
    ELSE 2 ^ 30     \* a number near 2^32

(* Faulty variant: the counter of the last confirmed boot is not looked at. *)
ResolveFailedBoot_CountsAll ==
    /\ phase = "resolve" /\ phase' = "select"
    /\ LET fails == settings.magic /\ BootSlots \notin {SafeModeBootSlot, UpperBootSlot}
                    /\ settings.counter >= UnconfirmedBoots
       IN  settings' = IF ~fails THEN settings
                       ELSE [settings EXCEPT !.slots = IF FailsafeBootSlots # BootSlots
                                                       THEN FailsafeBootSlots
                                                       ELSE SafeModeBootSlot]
    /\ UNCHANGED <<flash, mcu, index, ram, sent, hist, budget>>

(* Too many unconfirmed boots lead to the failsafe slots, and from there   *)
(* to the safe mode.                                                       *)
ResolveFailedBoot ==
    /\ phase = "resolve" /\ phase' = "select"
    /\ LET fails == settings.magic /\ BootSlots \notin {SafeModeBootSlot, UpperBootSlot}
                    /\ Unconfirmed >= UnconfirmedBoots
       IN  settings' = IF ~fails THEN settings
                       ELSE [settings EXCEPT !.slots = IF FailsafeBootSlots # BootSlots
                                                       THEN FailsafeBootSlots
                                                       ELSE SafeModeBootSlot]
    /\ UNCHANGED <<flash, mcu, index, ram, sent, hist, budget>>

(* CountBootAttempts.  Past the top the value does not matter: saturated. *)
CountBootAttempts ==
    settings' = [settings EXCEPT !.counter = IF @ <= BootCounterTop THEN @ + 1 ELSE @]

(* The slots to boot, and the one write to the settings that goes with them. *)
Boots(mask) == index' = mask /\ phase' = IF mask = SafeModeBootSlot THEN "safe"
                                         ELSE IF mask = UpperBootSlot THEN "app" ELSE "load"
StoreAndBoot(mask) == settings' = [settings EXCEPT !.slots = mask] /\ Boots(mask)

ProceedWithBooting ==
    /\ phase = "select"
    /\ LET mask == IF settings.magic THEN BootSlots ELSE SafeModeBootSlot
           application == mask \notin {SafeModeBootSlot, UpperBootSlot}
       IN  \/ mask = SafeModeBootSlot /\ Boots(mask) /\ UNCHANGED settings
           \/ mask = UpperBootSlot /\ Boots(mask) /\ CountBootAttempts
           \/ /\ application /\ ~IsBootSlotsValid(mask)
              /\ StoreAndBoot(IF IsBootSlotsValid(FailsafeBootSlots)
                              THEN FailsafeBootSlots ELSE SafeModeBootSlot)
           \/ /\ application /\ IsBootSlotsValid(mask)
              /\ IF BootCounter >= BootCounterTop
                 THEN StoreAndBoot(SafeModeBootSlot)
                 ELSE Boots(mask) /\ CountBootAttempts
    /\ attempts' = IF phase' \in {"app", "load"} /\ attempts < UnconfirmedBoots THEN attempts + 1 ELSE attempts
    /\ UNCHANGED <<flash, mcu, ram, sent, installed, session, budget>>

(* LoadApplicationTMR: every page of the internal flash that differs from  *)
(* the vote is erased and written.  Nothing restarts what a reset cut off  *)
(* but the next boot.                                                      *)
LoadPage ==
    /\ phase = "load"
    /\ \E page \in Pages :
           /\ (page \in Vote(index)) # (page \in mcu)
           /\ mcu' = IF page \in mcu THEN mcu \ {page} ELSE mcu \cup {page}
    /\ UNCHANGED <<flash, settings, phase, index, ram, sent, hist, budget>>

(* Faulty variant: an application area that is not blank is started. *)
BootToAddress_Unchecked ==
    /\ phase = "load" /\ mcu # {}
    /\ phase' = "app"
    /\ UNCHANGED <<memory, index, ram, sent, hist, budget>>

(* BootToAddress *)
BootToAddress ==
    /\ phase = "load"
    /\ \A page \in Pages : (page \in Vote(index)) = (page \in mcu)
    /\ phase' = "app"
    /\ UNCHANGED <<memory, index, ram, sent, hist, budget>>

-----------------------------------------------------------------------------
(* The application up to the end of runlevel 1, and resets *)

(* ConfirmBoot at the end of runlevel 1; a broken program never gets there. *)
ConfirmBoot ==
    /\ phase = "app" /\ mcu \notin broken
    /\ phase' = "confirmed"
    /\ settings' = [settings EXCEPT !.confirmed = BootCounter]
    /\ attempts' = 0
    /\ UNCHANGED <<flash, mcu, index, ram, sent, installed, session, budget>>

(* A reset: memory stays, all else starts again in the bootloader.         *)
Restart ==
    /\ phase' = "resolve"
    /\ lock' = "free" /\ scrub' = Idle /\ cmd' = NoCommand
    /\ offset' = [w \in Scrubbers |-> 0]
    /\ session' = NoSession
    /\ UNCHANGED <<memory, index, sent, installed>>

SafeModePhases == {"safe", "safe secondary", "erase n25q", "revert slots", "revert failsafe",
                   "revert counter", "revert confirmed", "revert magic", "reboot"}

(* The watchdog, about 16 seconds, that the bootloader starts with every   *)
(* program: it resets a program that hangs, and at any step the safe mode  *)
(* program, which does not feed it.                                        *)
WatchdogReset ==
    /\ (phase = "app" /\ mcu \in broken) \/ phase \in SafeModePhases
    /\ Restart /\ UNCHANGED <<attempts, budget>>

(* Any other reset, at any point. *)
Reset ==
    /\ resets < MaxResets /\ resets' = resets + 1
    /\ Restart /\ UNCHANGED <<attempts, broken, faults>>

(* A bit of one copy flips while the other two copies of the group are     *)
(* whole: the fault the redundancy is for.                                 *)
Upset ==
    /\ faults < MaxFaults /\ faults' = faults + 1
    /\ \E g \in Groups : \E s \in g, b \in Bits :
           /\ installed[g] # None /\ \A t \in g \ {s} : flash[t] = installed[g]
           /\ flash' = [flash EXCEPT ![s] = IF b \in @ THEN @ \ {b} ELSE @ \cup {b}]
    /\ UNCHANGED <<settings, mcu, phase, index, ram, sent, hist, broken, resets>>

-----------------------------------------------------------------------------
(* ProgramScrubber::ScrubSlots and its two users *)

(* OBCScrubbing scrubs the booted slots and the others; the safe mode      *)
(* program the default slots and the default failsafe slots.               *)
SlotsOf(which) ==
    LET primary == IF phase = "confirmed" THEN index ELSE DefaultBootSlot
    IN  IF which = "primary" THEN primary ELSE Slots \ primary

(* Faulty variants: the same sector again; no end of the entry. *)
SectorDone_Again(which, sector) ==
    /\ UNCHANGED offset
    /\ phase' = IF phase = "confirmed" THEN phase
                ELSE IF which = "primary" THEN "safe secondary" ELSE "erase n25q"

SectorDone_PastEnd(which, sector) ==
    /\ offset' = [offset EXCEPT ![which] = sector + 1]
    /\ phase' = IF phase = "confirmed" THEN phase
                ELSE IF which = "primary" THEN "safe secondary" ELSE "erase n25q"

(* One sector is done.  In the safe mode program the end of a group leads  *)
(* to the next recovery step.                                              *)
SectorDone(which, sector) ==
    LET next == IF sector + 1 \in Sectors THEN sector + 1 ELSE 0
    IN  /\ offset' = [offset EXCEPT ![which] = next]
        /\ phase' = IF phase = "confirmed" \/ next # 0 THEN phase
                    ELSE IF which = "primary" THEN "safe secondary" ELSE "erase n25q"

(* When the scrubber runs: not after a boot to the upper half; in the safe *)
(* mode program each group in turn.                                        *)
Scrubs(which) ==
    \/ phase = "confirmed" /\ index # UpperBootSlot
    \/ phase = "safe" /\ which = "primary"
    \/ phase = "safe secondary" /\ which = "secondary"

(* The lock, the vote, and the copies that differ from it.  A boot table   *)
(* that is locked is left for the next time.                               *)
ScrubSlots(which) ==
    /\ Scrubs(which) /\ lock = "free"
    /\ LET sector == offset[which]
           buffer == Vote(SlotsOf(which)) \cap BitsOf(sector)
           todo == {s \in SlotsOf(which) : flash[s] \cap BitsOf(sector) # buffer}
       IN  IF todo = {}
           THEN SectorDone(which, sector) /\ UNCHANGED <<lock, scrub>>
           ELSE /\ scrub' = [which |-> which, buffer |-> buffer, todo |-> todo, erased |-> FALSE]
                /\ lock' = "scrub" /\ UNCHANGED <<offset, phase>>
    /\ UNCHANGED <<memory, index, cmd, sent, hist, budget>>

(* Faulty variant: all the copies are erased before one is written. *)
ScrubErase_AllCopies ==
    /\ scrub.todo # {} /\ ~scrub.erased
    /\ scrub' = [scrub EXCEPT !.erased = TRUE, !.todo = SlotsOf(scrub.which)]
    /\ flash' = [s \in Slots |-> IF s \in SlotsOf(scrub.which)
                                 THEN flash[s] \ BitsOf(offset[scrub.which]) ELSE flash[s]]
    /\ UNCHANGED <<settings, mcu, phase, index, lock, offset, cmd, sent, hist, budget>>

(* EraseSector and Program of one copy; their results are not looked at. *)
ScrubErase ==
    /\ scrub.todo # {} /\ ~scrub.erased
    /\ scrub' = [scrub EXCEPT !.erased = TRUE]
    /\ \/ /\ flash' = [flash EXCEPT ![First(scrub.todo)] = @ \ BitsOf(offset[scrub.which])]
          /\ UNCHANGED faults
       \/ faults < MaxFaults /\ faults' = faults + 1 /\ UNCHANGED flash
    /\ UNCHANGED <<settings, mcu, phase, index, lock, offset, cmd, sent, broken, hist, resets>>

ScrubProgram ==
    /\ scrub.todo # {} /\ scrub.erased
    /\ \/ flash' = [flash EXCEPT ![First(scrub.todo)] = @ \cup scrub.buffer] /\ UNCHANGED faults
       \/ faults < MaxFaults /\ faults' = faults + 1 /\ UNCHANGED flash
    /\ LET left == scrub.todo \ {First(scrub.todo)}
       IN  IF left = {}
           THEN scrub' = Idle /\ lock' = "free" /\ SectorDone(scrub.which, offset[scrub.which])
           ELSE /\ scrub' = [scrub EXCEPT !.todo = left, !.erased = FALSE]
                /\ UNCHANGED <<lock, offset, phase>>
    /\ UNCHANGED <<settings, mcu, index, cmd, sent, broken, hist, resets>>

-----------------------------------------------------------------------------
(* The rest of the safe mode program: EraseN25QStep, RevertBootSlots,      *)
(* RebootStep                                                              *)

(* Faulty variant: a chip that cannot be erased ends the recovery. *)
EraseN25QStep_GivesUp ==
    /\ phase = "erase n25q" /\ phase' \in {"revert slots", "reboot"}
    /\ UNCHANGED <<memory, index, ram, sent, hist, budget>>

(* Three chips are erased and waited for, whatever comes of it.  The wait  *)
(* has no end of its own: System::GetUptime of the safe mode program is    *)
(* always zero, so that only the chips or the watchdog end it.             *)
EraseN25QStep ==
    /\ phase = "erase n25q" /\ phase' = "revert slots"
    /\ UNCHANGED <<memory, index, ram, sent, hist, budget>>

Revert(here, there, new) ==
    /\ phase = here /\ phase' = there /\ settings' = new
    /\ attempts' = IF there = "revert magic" THEN 0 ELSE attempts
    /\ UNCHANGED <<flash, mcu, index, ram, sent, installed, session, budget>>

(* Faulty variant: the settings are marked valid first. *)
RevertBootSlots_MagicFirst ==
    \/ Revert("revert slots", "revert failsafe", [settings EXCEPT !.magic = TRUE])
    \/ Revert("revert failsafe", "revert counter", [settings EXCEPT !.slots = DefaultBootSlot])
    \/ Revert("revert counter", "revert confirmed", [settings EXCEPT !.counter = 0])
    \/ Revert("revert confirmed", "revert magic", [settings EXCEPT !.confirmed = BootCounter])
    \/ Revert("revert magic", "reboot", [settings EXCEPT !.failsafe = DefaultFailsafeBootSlot])

RevertBootSlots ==
    \/ Revert("revert slots", "revert failsafe", [settings EXCEPT !.slots = DefaultBootSlot])
    \/ Revert("revert failsafe", "revert counter", [settings EXCEPT !.failsafe = DefaultFailsafeBootSlot])
    \/ Revert("revert counter", "revert confirmed", [settings EXCEPT !.counter = 0])
    \/ Revert("revert confirmed", "revert magic", [settings EXCEPT !.confirmed = BootCounter])
    \/ Revert("revert magic", "reboot", [settings EXCEPT !.magic = TRUE])

Reboot == phase = "reboot" /\ Restart /\ UNCHANGED <<attempts, budget>>

-----------------------------------------------------------------------------
(* Telecommands and the copy of boot slots *)

(* A command that writes to the flash waits for the lock and keeps it. *)
Begin(name, command) ==
    /\ phase = "confirmed" /\ cmd = NoCommand /\ name \notin sent /\ Cardinality(sent) < MaxCommands
    /\ sent' = sent \cup {name}
    /\ cmd' = command
    /\ UNCHANGED <<memory, phase, index, scrub, offset, budget, attempts>>
BeginFlash(name, command) == lock = "free" /\ lock' = "cmd" /\ Begin(name, command)

Touches(g, slots) == g \cap slots # {}
Untrusted(slots) == [g \in Groups |-> IF Touches(g, slots) THEN None ELSE installed[g]]

EraseBootTableEntry(g) ==
    /\ BeginFlash("erase", [NoCommand EXCEPT !.op = "erase", !.slots = g, !.sectors = Sectors])
    /\ installed' = Untrusted(g) /\ session' = NoSession

WriteProgramPart(g, page) ==
    /\ BeginFlash(page, [NoCommand EXCEPT !.op = "write", !.slots = g, !.data = {page}])
    /\ installed' = Untrusted(g) /\ UNCHANGED session

FinalizeProgramEntry(g) ==
    /\ BeginFlash("finalize", [NoCommand EXCEPT !.op = "finalize", !.slots = g])
    /\ installed' = Untrusted(g) /\ UNCHANGED session

CopyBootSlots(source, g) ==
    /\ BeginFlash("copy", [NoCommand EXCEPT !.op = "copy erase", !.slots = g,
                                            !.sectors = Sectors, !.source = source])
    /\ installed' = Untrusted(g) /\ session' = NoSession

SetBootSlots(primary, failsafe) ==
    /\ IsValidBootSlot(primary) /\ IsValidBootSlot(failsafe)
    /\ Begin("slots", [NoCommand EXCEPT !.op = "set slots", !.slots = primary, !.source = failsafe])
    /\ UNCHANGED <<lock, installed, session>>

(* An upload begins with an erase; parts and the end come in any order. *)
SendCommand ==
    \/ \E g \in UploadTargets :
           \/ EraseBootTableEntry(g)
           \/ "erase" \in sent /\ FinalizeProgramEntry(g)
           \/ "erase" \in sent /\ \E page \in Pages : WriteProgramPart(g, page)
           \/ CopyBootSlots(Slots \ g, g)
    \/ \E m \in MaskPairs : SetBootSlots(m[1], m[2])

Finish(good) ==
    /\ cmd' = NoCommand /\ lock' = "free"
    /\ session' = good
    /\ UNCHANGED <<settings, mcu, phase, index, scrub, offset, sent, broken, attempts, resets>>
Continue(command) ==
    /\ cmd' = command
    /\ UNCHANGED <<settings, mcu, phase, index, lock, scrub, offset, sent, broken, attempts, resets,
                   session, installed>>
FlashFails ==
    /\ faults < MaxFaults /\ faults' = faults + 1 /\ UNCHANGED flash

(* ProgramEntry::Erase, sector by sector, slot by slot; the first failure  *)
(* ends the command.                                                       *)
EraseSector ==
    /\ cmd.op \in {"erase", "copy erase"}
    /\ LET slot == First(cmd.slots)
           sector == First(cmd.sectors)
           more == cmd.sectors \ {sector}
           last == more = {} /\ cmd.slots = {slot}
           target == IF slot \in DefaultBootSlot THEN DefaultBootSlot ELSE DefaultFailsafeBootSlot
       IN  \/ /\ flash' = [flash EXCEPT ![slot] = @ \ BitsOf(sector)] /\ UNCHANGED faults
              /\ \/ ~last /\ Continue(IF more # {} THEN [cmd EXCEPT !.sectors = more]
                                      ELSE [cmd EXCEPT !.slots = @ \ {slot}, !.sectors = Sectors])
                 \/ last /\ cmd.op = "erase" /\ Finish([slots |-> target, done |-> {}]) /\ UNCHANGED installed
                 \/ /\ last /\ cmd.op = "copy erase"
                    /\ Continue([cmd EXCEPT !.op = "copy", !.slots = Slots \ cmd.source,
                                            !.sectors = Sectors])
           \/ FlashFails /\ Finish(NoSession) /\ UNCHANGED installed

(* Faulty variant: only the first entry selected is written. *)
WriteContent_FirstOnly ==
    /\ cmd.op = "write"
    /\ flash' = [flash EXCEPT ![First(cmd.slots)] = @ \cup cmd.data] /\ UNCHANGED <<faults, installed>>
    /\ Finish(IF First(cmd.slots) \in session.slots THEN [session EXCEPT !.done = @ \cup cmd.data]
              ELSE NoSession)

(* WriteProgramPart: the same part to every entry selected. *)
WriteContent ==
    /\ cmd.op = "write"
    /\ LET slot == First(cmd.slots)
       IN  \/ /\ flash' = [flash EXCEPT ![slot] = @ \cup cmd.data] /\ UNCHANGED faults
              /\ IF cmd.slots = {slot}
                 THEN /\ Finish(IF slot \in session.slots THEN [session EXCEPT !.done = @ \cup cmd.data]
                             ELSE NoSession)
                      /\ UNCHANGED installed
                 ELSE Continue([cmd EXCEPT !.slots = @ \ {slot}])
           \/ FlashFails /\ Finish(NoSession) /\ UNCHANGED installed

(* FinalizeProgramEntry: CRC, length and description, which an entry of the *)
(* model does not hold, then the valid marker, which is written even if one *)
(* of the three was not.  A write that failed, and after them a CRC that   *)
(* does not match, ends the command, and the entry stays marked.           *)
FinalizeEntry ==
    /\ cmd.op = "finalize"
    /\ LET slot == First(cmd.slots)
           matches == flash[slot] \ {"valid"} = Pages
           marked == [flash EXCEPT ![slot] = @ \cup {"valid"}]
       IN  \/ /\ flash' = marked /\ UNCHANGED faults
              /\ IF ~matches THEN Finish(NoSession) /\ UNCHANGED installed
                 ELSE IF cmd.slots = {slot}
                 THEN /\ Finish(NoSession)
                      /\ installed' = [g \in Groups |-> IF slot \in g THEN Bits ELSE installed[g]]
                 ELSE Continue([cmd EXCEPT !.slots = @ \ {slot}])
           \/ /\ faults < MaxFaults /\ faults' = faults + 1 /\ flash' \in {flash, marked}
              /\ Finish(NoSession) /\ UNCHANGED installed

(* CopyBootSlotsExperiment: the vote on the sources, part by part, to each *)
(* target; a part that cannot be written is only reported.                 *)
CopyPart ==
    /\ cmd.op = "copy"
    /\ LET slot == First(cmd.slots)
           sector == First(cmd.sectors)
           more == cmd.slots \ {slot}
           targets == Slots \ cmd.source
           last == more = {} /\ cmd.sectors = {sector}
           part == Vote(cmd.source) \cap BitsOf(sector)
           good(ok) == [g \in Groups |-> IF g = targets /\ ok THEN installed[Slots \ g] ELSE installed[g]]
           next == IF more # {} THEN [cmd EXCEPT !.slots = more]
                   ELSE [cmd EXCEPT !.slots = targets, !.sectors = @ \ {sector}]
       IN  \/ /\ flash' = [flash EXCEPT ![slot] = @ \cup part] /\ UNCHANGED faults
              /\ IF last THEN Finish(NoSession) /\ installed' = good(cmd.ok) ELSE Continue(next)
           \/ /\ FlashFails
              /\ IF last THEN Finish(NoSession) /\ UNCHANGED installed
                 ELSE Continue([next EXCEPT !.ok = FALSE])

(* SetBootSlots: the two masks, then the magic number. *)
WriteSettings ==
    /\ \/ /\ cmd.op = "set slots" /\ settings' = [settings EXCEPT !.slots = cmd.slots]
          /\ cmd' = [cmd EXCEPT !.op = "set failsafe"]
       \/ /\ cmd.op = "set failsafe" /\ settings' = [settings EXCEPT !.failsafe = cmd.source]
          /\ cmd' = [cmd EXCEPT !.op = "set magic"]
       \/ /\ cmd.op = "set magic" /\ settings' = [settings EXCEPT !.magic = TRUE]
          /\ cmd' = NoCommand
    /\ UNCHANGED <<flash, mcu, phase, index, lock, scrub, offset, sent, hist, budget>>

ExecuteCommand == EraseSector \/ WriteContent \/ FinalizeEntry \/ CopyPart \/ WriteSettings

-----------------------------------------------------------------------------

(* A programmed flash, one program in each group; FRAM blank or set up. *)
Init ==
    /\ installed = [g \in Groups |-> {"valid"} \cup Programs[g]]
    /\ flash = [s \in Slots |-> IF s \in DefaultBootSlot THEN installed[DefaultBootSlot]
                                ELSE installed[DefaultFailsafeBootSlot]]
    /\ settings \in {[magic |-> FALSE, slots |-> 0 .. 7, failsafe |-> 0 .. 7,
                      counter |-> BootCounterTop + 1, confirmed |-> BootCounterTop + 1],
                     [magic |-> TRUE, slots |-> DefaultBootSlot, failsafe |-> DefaultFailsafeBootSlot,
                      counter |-> 0, confirmed |-> 0]}
    /\ mcu = {} /\ phase = "resolve" /\ index = DefaultBootSlot
    /\ lock = "free" /\ scrub = Idle /\ cmd = NoCommand /\ sent = {}
    /\ offset = [w \in Scrubbers |-> 0]
    /\ broken \in Broken
    /\ session = NoSession /\ attempts = 0 /\ resets = 0 /\ faults = 0

Bootloader == ResolveFailedBoot \/ ProceedWithBooting \/ LoadPage \/ BootToAddress
Application == ConfirmBoot \/ WatchdogReset
Scrubber == (\E which \in Scrubbers : ScrubSlots(which)) \/ ScrubErase \/ ScrubProgram
SafeMode == EraseN25QStep \/ RevertBootSlots \/ Reboot

Next ==
    \/ Bootloader \/ Application \/ Scrubber \/ SafeMode
    \/ SendCommand \/ ExecuteCommand
    \/ Reset \/ Upset

Spec == Init /\ [][Next]_vars

(* The processor goes on, telecommands are executed, and the periods of    *)
(* both scrubbers end again and again.                                     *)
Fairness ==
    /\ WF_vars(Bootloader \/ Application \/ SafeMode) /\ WF_vars(ExecuteCommand)
    /\ WF_vars(ScrubErase \/ ScrubProgram)
    /\ \A which \in Scrubbers : WF_vars(ScrubSlots(which))
FairSpec == Spec /\ Fairness

-----------------------------------------------------------------------------
(* Properties *)

TypeOK ==
    /\ flash \in [Slots -> SUBSET Bits]
    /\ settings \in [magic : BOOLEAN, slots : SUBSET (0 .. 7), failsafe : SUBSET (0 .. 7),
                     counter : 0 .. BootCounterTop + 1, confirmed : 0 .. BootCounterTop + 1]
    /\ mcu \subseteq Pages /\ index \subseteq 0 .. 7
    /\ phase \in {"resolve", "select", "load", "app", "confirmed"} \cup SafeModePhases
    /\ lock \in {"free", "scrub", "cmd"}
    /\ offset \in [Scrubbers -> Sectors]
    /\ scrub.todo \subseteq Slots /\ cmd.slots \subseteq 0 .. 7

(* Settings marked valid name slots: no reset between two writes of the    *)
(* telecommand, of the safe mode program or of the bootloader leaves the   *)
(* magic number beside masks nobody chose (settings.cpp:127,               *)
(* telecommands/boot_settings.cpp:53-55, revert_boot_slots/step.cpp).      *)
SettingsWellFormed ==
    settings.magic => IsValidBootSlot(settings.slots) /\ IsValidBootSlot(settings.failsafe)

(* The vote on a group is the program it should hold, whatever copy is     *)
(* damaged and wherever a reset cuts off the scrubber (erase and program   *)
(* of scrubber/program.cpp:91-103).                                        *)
VoteIntact == \A g \in Groups : installed[g] # None => Vote(g) = installed[g]

(* All parts of an upload are in all entries once they have been written   *)
(* without an error, although the scrubber runs between the telecommands   *)
(* (the lock of the boot table, program_upload.cpp:150-186).               *)
UploadIntact ==
    session.done = Pages /\ faults = 0 => \A s \in session.slots : Pages \subseteq flash[s]

(* What is started from a group is what the group should hold, even if the *)
(* last boot was cut off half way through the pages (boot.cpp:84-140).     *)
RunsInstalledProgram ==
    phase = "app" /\ index \in Groups /\ installed[index] # None =>
        mcu = installed[index] \ {"valid"}

(* The bootloader leaves valid slots for others only after UnconfirmedBoots *)
(* starts without a confirmation, after a revert of the safe mode program  *)
(* that was cut off, or at the end of the counter (boot.cpp:177-216).      *)
MayLeaveSlots ==
    \/ attempts >= UnconfirmedBoots
    \/ settings.confirmed > settings.counter
    \/ settings.counter >= BootCounterTop
    \/ ~IsBootSlotsValid(settings.slots)
SlotsKept ==
    [][(phase \in {"resolve", "select"} /\ settings'.slots # settings.slots) => MayLeaveSlots]_vars

Sound(g) == "valid" \in Vote(g) /\ Vote(g) \ {"valid"} \notin broken
NoUpper == UpperBootSlot \notin {settings.slots, settings.failsafe}

(* As long as one of the default groups holds a sound program, and nobody  *)
(* chose the upper half, the OBC gets to run a program to its              *)
(* confirmation, again and again: through the failsafe slots, the safe     *)
(* mode program and the settings it reverts (boot.cpp, safe_mode/steps).   *)
(* Only the watchdog that cuts off the safe mode program again and again   *)
(* keeps it from that (boot.cpp:39-44, safe_mode/main.cpp:49-54).          *)
CutOff == phase \in SafeModePhases \ {"reboot"} /\ WatchdogReset
Recovers ==
    [](NoUpper /\ \E g \in Groups : Sound(g)) =>
        []<>(phase = "confirmed") \/ []<><<CutOff>>_vars

(* The erasure of the file system flash, begun again and again, ends at     *)
(* some time: "All write-related operations can fail or timeout"           *)
(* (n25q.h:180), and whatever the result the step goes on to the boot      *)
(* slots (erase_n25q/step.cpp:5-23).                                       *)
EraseEnds == []<>(phase = "erase n25q") => []<>(phase = "revert slots")

(* A damaged copy of a group is repaired while the application runs        *)
(* (obc/scrubbing/scrubbing.cpp:57-97).                                    *)
Damaged == \E g \in Groups : installed[g] # None /\ \E s \in g : flash[s] # installed[g]
DamageRepaired == []<>(~Damaged \/ phase # "confirmed" \/ index = UpperBootSlot)

(* What a reset or a fault between any two accesses leaves behind: settings *)
(* and program slots that the next boot can use (boot_settings/settings.cpp, *)
(* scrubber/program.cpp:49-117, program_upload.cpp:139-272).                *)
MemorySound == TypeOK /\ SettingsWellFormed /\ VoteIntact /\ UploadIntact
=============================================================================
