------------------------- MODULE BootChain_proof -------------------------
(***************************************************************************)
(* Proofs about BootChain: settings marked valid name boot slots, valid    *)
(* slots are left only after the failures the bootloader counts, and one   *)
(* fault never reaches the vote on an installed program.                   *)
(***************************************************************************)
EXTENDS BootChain, WellFoundedInduction, FiniteSetTheorems, TLAPS

-----------------------------------------------------------------------------
(* Constants, masks and groups *)

(* The least of a set of numbers is one of them.                            *)
LEMMA FirstOfNumbers ==
    ASSUME NEW S, S \subseteq Nat, S # {}
    PROVE  First(S) \in S /\ \A t \in S : First(S) <= t
<1> DEFINE Less == {p \in Nat \X Nat : p[1] < p[2]}
<1>1. OpToRel(<, Nat) = Less
  BY DEF OpToRel
<1>2. \E x \in S : \A y \in S : ~(<<y, x>> \in Less)
  BY <1>1, NatLessThanWellFounded, WFMin
<1>3. PICK x \in S : \A y \in S : ~(<<y, x>> \in Less)
  BY <1>2
<1>4. ASSUME NEW y \in S PROVE x <= y
  <2>1. ~(<<y, x>> \in Less) /\ x \in Nat /\ y \in Nat
    BY <1>3, <1>4
  <2>2. y < x => <<y, x>> \in Less
    BY <2>1
  <2> QED
    BY <2>1, <2>2
<1> QED
  BY <1>3, <1>4, Zenon DEF First

(* What the assumption on the constants says of each of them.               *)
LEMMA BootConstants ==
    /\ UnconfirmedBoots \in Nat \ {0} /\ BootCounterTop \in Nat
    /\ MaskPairs \subseteq (SUBSET (0 .. 7)) \X (SUBSET (0 .. 7))
    /\ Sectors \subseteq Nat /\ 0 \in Sectors
    /\ Pages \subseteq Bits /\ UploadTargets \subseteq Groups
    /\ \A g \in Groups : Programs[g] \subseteq Pages
<1>1. "valid" \in Bits /\ SectorOf["valid"] = 0
  BY Zenon, BootAssumption
<1>2. 0 \in Sectors
  BY <1>1, Zenon DEF Sectors
<1>3. Programs \in [Groups -> SUBSET Pages]
  BY Zenon, BootAssumption
<1>4. \A g \in Groups : Programs[g] \subseteq Pages
  BY <1>3
<1>5. Pages \subseteq Bits
  BY Zenon DEF Pages
<1>6. UnconfirmedBoots \in Nat \ {0} /\ BootCounterTop \in Nat
  BY Zenon, BootAssumption
<1>7. MaskPairs \subseteq (SUBSET (0 .. 7)) \X (SUBSET (0 .. 7)) /\ Sectors \subseteq Nat
      /\ UploadTargets \subseteq Groups
  BY Zenon, BootAssumption
<1> QED
  BY <1>2, <1>4, <1>5, <1>6, <1>7, Zenon

(* A group is three of the six slots.                                       *)
LEMMA GroupsAreThree ==
    \A g \in Groups : g \subseteq Slots /\ Cardinality(g) = 3 /\ Slots \ g \in Groups
                      /\ g # UpperBootSlot /\ g # SafeModeBootSlot
<1>1. \A a, b, c : a # b /\ a # c /\ b # c =>
         IsFiniteSet({a, b, c}) /\ Cardinality({a, b, c}) = 3
  <2> TAKE a, b, c
  <2> HAVE a # b /\ a # c /\ b # c
  <2>1. IsFiniteSet({a}) /\ Cardinality({a}) = 1
    BY FS_Singleton
  <2>2. {a, b} = {a} \cup {b} /\ b \notin {a} /\ {a, b, c} = {a, b} \cup {c} /\ c \notin {a, b}
    OBVIOUS
  <2>3. IsFiniteSet({a, b}) /\ Cardinality({a, b}) = 2
    BY <2>1, <2>2, FS_AddElement
  <2>4. IsFiniteSet({a, b, c}) /\ Cardinality({a, b, c}) = 3
    BY <2>2, <2>3, FS_AddElement
  <2> QED
    BY <2>4
<1>2. Cardinality({0, 1, 2}) = 3 /\ Cardinality({3, 4, 5}) = 3
  <2>1. 0 # 1 /\ 0 # 2 /\ 1 # 2 /\ 3 # 4 /\ 3 # 5 /\ 4 # 5
    OBVIOUS
  <2> QED
    BY <1>1, <2>1, Zenon
<1>3. Slots \ {0, 1, 2} = {3, 4, 5} /\ Slots \ {3, 4, 5} = {0, 1, 2}
  BY DEF Slots
<1>4. {0, 1, 2} \subseteq Slots /\ {3, 4, 5} \subseteq Slots
  BY DEF Slots
<1>5. 0 \in {0, 1, 2} /\ 3 \in {3, 4, 5} /\ 0 \notin {6} /\ 0 \notin {7} /\ 3 \notin {6} /\ 3 \notin {7}
  OBVIOUS
<1> QED
  BY <1>2, <1>3, <1>4, <1>5, Zenon DEF Groups, DefaultBootSlot, DefaultFailsafeBootSlot, UpperBootSlot,
                            SafeModeBootSlot

(* Masks that name the slots of one group, the upper half or the safe mode. *)
(* A mask like {0, 1, 3} is accepted as well: what is then scrubbed is not  *)
(* a group.                                                                 *)
WholeGroup(mask) == mask \in {UpperBootSlot, SafeModeBootSlot} \/ mask \cap Slots \in Groups
WholeGroups == \A m \in MaskPairs : \A i \in {1, 2} : IsValidBootSlot(m[i]) => WholeGroup(m[i])

Accepted(mask) == IsValidBootSlot(mask) /\ (WholeGroups => WholeGroup(mask))
Loadable(mask) == mask \subseteq Slots /\ Cardinality(mask) = 3 /\ (WholeGroups => mask \in Groups)

(* The masks the bootloader falls back to are ones the telecommand accepts. *)
LEMMA DefaultsAreValid ==
    /\ Accepted(DefaultBootSlot) /\ Accepted(DefaultFailsafeBootSlot)
    /\ Accepted(SafeModeBootSlot) /\ Accepted(UpperBootSlot)
    /\ DefaultBootSlot \subseteq 0 .. 7 /\ DefaultFailsafeBootSlot \subseteq 0 .. 7
    /\ SafeModeBootSlot \subseteq 0 .. 7 /\ UpperBootSlot \subseteq 0 .. 7
    /\ Slots \subseteq 0 .. 7
<1>1. \A g \in Groups : Accepted(g)
  <2> TAKE g \in Groups
  <2>1. g \cap Slots = g
    BY GroupsAreThree
  <2> QED
    BY <2>1, GroupsAreThree DEF Accepted, IsValidBootSlot, WholeGroup
<1>2. DefaultBootSlot \in Groups /\ DefaultFailsafeBootSlot \in Groups
  BY DEF Groups
<1>3. DefaultBootSlot \subseteq 0 .. 7 /\ DefaultFailsafeBootSlot \subseteq 0 .. 7
      /\ SafeModeBootSlot \subseteq 0 .. 7 /\ UpperBootSlot \subseteq 0 .. 7 /\ Slots \subseteq 0 .. 7
  BY DEF DefaultBootSlot, DefaultFailsafeBootSlot, UpperBootSlot, SafeModeBootSlot, Slots
<1>4. Accepted(SafeModeBootSlot) /\ Accepted(UpperBootSlot)
  BY Zenon DEF Accepted, IsValidBootSlot, WholeGroup
<1> QED
  BY <1>1, <1>2, <1>3, <1>4

(* An accepted mask of three bits names three slots.                        *)
LEMMA ThreeBitsAreSlots ==
    ASSUME NEW mask \in SUBSET (0 .. 7), Accepted(mask), Cardinality(mask) = 3,
           mask # SafeModeBootSlot, mask # UpperBootSlot
    PROVE  Loadable(mask)
<1>1. IsFiniteSet(0 .. 7)
  <2>1. 0 \in Int /\ 7 \in Int
    OBVIOUS
  <2> QED
    BY <2>1, FS_Interval, Zenon
<1>2. IsFiniteSet(mask)
  BY <1>1, FS_Subset, Zenon
<1>3. Cardinality(mask \cap Slots) = 3
  BY DEF Accepted, IsValidBootSlot
<1>4. mask \cap Slots \subseteq mask
  OBVIOUS
<1>5. mask \cap Slots = mask
  <2> SUFFICES ASSUME mask \cap Slots # mask PROVE FALSE
    OBVIOUS
  <2>1. mask \cap Slots \in SUBSET mask /\ Cardinality(mask) = Cardinality(mask \cap Slots)
    BY <1>3, <1>4
  <2> QED
    BY <1>2, <2>1, FS_Subset, Zenon
<1> QED
  BY <1>5 DEF Loadable, Accepted, WholeGroup

-----------------------------------------------------------------------------
(* The settings: what holds of them between any two writes *)

Phases == {"resolve", "select", "load", "app", "confirmed", "safe", "safe secondary", "erase n25q",
           "revert slots", "revert failsafe", "revert counter", "revert confirmed",
           "revert magic", "reboot"}
Reverting == {"revert failsafe", "revert counter", "revert confirmed", "revert magic", "reboot"}
FlashOps == {"erase", "write", "finalize", "copy erase", "copy"}
SettingsOps == {"set slots", "set failsafe", "set magic"}
CommandRecord == [op : FlashOps \cup SettingsOps \cup {"none"}, slots : SUBSET (0 .. 7),
                  sectors : SUBSET Sectors, data : SUBSET Pages, source : SUBSET (0 .. 7),
                  ok : BOOLEAN]

(* A program that was loaded came from three slots, ... *)
PlaceOK ==
    /\ phase \in Phases /\ mcu \subseteq Pages /\ index \subseteq 0 .. 7
    /\ phase = "load" => Loadable(index)
    /\ phase \in {"app", "confirmed"} => index = UpperBootSlot \/ Loadable(index)

(* ... the settings are valid when they are marked so, and no one runs      *)
(* without that mark but the safe mode program, which gives them their      *)
(* defaults before it marks them, ...                                       *)
SettingsAccepted == settings.magic => Accepted(settings.slots) /\ Accepted(settings.failsafe)
SettingsOK ==
    /\ settings \in [magic : BOOLEAN, slots : SUBSET (0 .. 7), failsafe : SUBSET (0 .. 7),
                     counter : 0 .. BootCounterTop + 1, confirmed : 0 .. BootCounterTop + 1]
    /\ attempts \in Nat
    /\ SettingsAccepted
    /\ phase \in {"load", "app", "confirmed"} => settings.magic
    /\ phase \in Reverting => Accepted(settings.slots)
    /\ phase \in Reverting \ {"revert failsafe"} => Accepted(settings.failsafe)

(* ... a scrubber rewrites copies only in the program that has it, ... *)
ScrubOK ==
    /\ flash \in [Slots -> SUBSET Bits]
    /\ lock \in {"free", "scrub", "cmd"} /\ offset \in [Scrubbers -> Sectors]
    /\ scrub \in [which : Scrubbers \cup {"none"}, buffer : SUBSET Bits, todo : SUBSET Slots,
                  erased : BOOLEAN]
    /\ scrub.todo # {} => phase \in {"confirmed", "safe", "safe secondary"}
                          /\ scrub.which \in Scrubbers

(* ... and a telecommand carries masks that were accepted. *)
CommandOK ==
    /\ cmd \in CommandRecord
    /\ cmd.op = "none" => cmd = NoCommand
    /\ cmd.op # "none" => phase = "confirmed"
    /\ cmd.op \in SettingsOps => Accepted(cmd.slots) /\ Accepted(cmd.source)

(* The lock of the boot table is held by the one who writes to it.          *)
LockHeld ==
    /\ lock = "scrub" <=> scrub.todo # {}
    /\ lock = "cmd" <=> cmd.op \in FlashOps

SettingsInv == PlaceOK /\ SettingsOK /\ ScrubOK /\ CommandOK /\ LockHeld

(* The invariant says that settings marked valid name slots.                *)
LEMMA SettingsInvIsTyped == SettingsInv => TypeOK /\ SettingsWellFormed
<1> SUFFICES ASSUME SettingsInv PROVE TypeOK /\ SettingsWellFormed
  OBVIOUS
<1>1. scrub.todo \subseteq Slots /\ cmd.slots \subseteq 0 .. 7
  BY DEF SettingsInv, ScrubOK, CommandOK, CommandRecord
<1>2. /\ mcu \subseteq Pages /\ index \subseteq 0 .. 7
      /\ phase \in {"resolve", "select", "load", "app", "confirmed"} \cup SafeModePhases
  BY DEF SettingsInv, PlaceOK, Phases, SafeModePhases
<1> QED
  BY <1>1, <1>2, Zenon DEF SettingsInv, SettingsOK, SettingsAccepted, Accepted, SettingsWellFormed,
                          ScrubOK, TypeOK

(* The values between two commands and between two sectors.                 *)
LEMMA NoCommandTyped ==
    /\ NoCommand \in CommandRecord
    /\ NoCommand.op = "none" /\ NoCommand.slots = {}
    /\ Idle \in [which : Scrubbers \cup {"none"}, buffer : SUBSET Bits, todo : SUBSET Slots,
                 erased : BOOLEAN]
    /\ Idle.todo = {}
BY DEF NoCommand, Idle, CommandRecord

(* A blank FRAM carries no mark, a set up one names the default slots.      *)
LEMMA SettingsInit == Init => SettingsInv
<1> SUFFICES ASSUME Init PROVE SettingsInv
  OBVIOUS
<1>1. PlaceOK
  BY DefaultsAreValid DEF Init, PlaceOK, Phases
<1>2. SettingsOK
  <2>1. attempts \in Nat /\ phase = "resolve"
    BY DEF Init
  <2>2. 0 .. 7 \in SUBSET (0 .. 7) /\ 0 \in 0 .. BootCounterTop + 1
        /\ BootCounterTop + 1 \in 0 .. BootCounterTop + 1
    BY BootConstants
  <2>3. CASE settings = [magic |-> FALSE, slots |-> 0 .. 7, failsafe |-> 0 .. 7,
                         counter |-> BootCounterTop + 1, confirmed |-> BootCounterTop + 1]
    BY <2>1, <2>2, <2>3 DEF SettingsOK, SettingsAccepted, Reverting
  <2>4. CASE settings = [magic |-> TRUE, slots |-> DefaultBootSlot,
                         failsafe |-> DefaultFailsafeBootSlot, counter |-> 0, confirmed |-> 0]
    BY <2>1, <2>2, <2>4, DefaultsAreValid DEF SettingsOK, SettingsAccepted, Reverting
  <2> QED
    BY <2>3, <2>4 DEF Init
<1>3. ScrubOK
  <2>1. \A g \in Groups : installed[g] = {"valid"} \cup Programs[g]
    BY DEF Init
  <2>2. \A g \in Groups : installed[g] \subseteq Bits
    <3>1. "valid" \in Bits
      BY Zenon, BootAssumption
    <3> QED
      BY <2>1, <3>1, BootConstants
  <2>3. DefaultBootSlot \in Groups /\ DefaultFailsafeBootSlot \in Groups
    BY DEF Groups
  <2>4. flash \in [Slots -> SUBSET Bits]
    BY <2>2, <2>3 DEF Init
  <2> QED
    BY <2>4, NoCommandTyped, BootConstants DEF Init, ScrubOK
<1>4. CommandOK
  BY NoCommandTyped DEF Init, CommandOK, SettingsOps
<1>5. LockHeld
  BY NoCommandTyped DEF Init, LockHeld, FlashOps
<1> QED
  BY <1>1, <1>2, <1>3, <1>4, <1>5 DEF SettingsInv

SettingsRecord == [magic : BOOLEAN, slots : SUBSET (0 .. 7), failsafe : SUBSET (0 .. 7),
                   counter : 0 .. BootCounterTop + 1, confirmed : 0 .. BootCounterTop + 1]

(* One write to the settings leaves the others as they are.                 *)
LEMMA SettingsWrite ==
    ASSUME NEW s \in SettingsRecord, NEW m \in SUBSET (0 .. 7), NEW n \in 0 .. BootCounterTop + 1
    PROVE  /\ [s EXCEPT !.slots = m] \in SettingsRecord
           /\ [s EXCEPT !.failsafe = m] \in SettingsRecord
           /\ [s EXCEPT !.counter = n] \in SettingsRecord
           /\ [s EXCEPT !.confirmed = n] \in SettingsRecord
           /\ [s EXCEPT !.magic = TRUE] \in SettingsRecord
           /\ [s EXCEPT !.magic = TRUE].magic
           /\ LET a == [s EXCEPT !.slots = m]
                  b == [s EXCEPT !.failsafe = m]
                  c == [s EXCEPT !.counter = n]
                  d == [s EXCEPT !.confirmed = n]
                  e == [s EXCEPT !.magic = TRUE]
              IN  /\ a.slots = m /\ a.failsafe = s.failsafe /\ a.counter = s.counter
                  /\ a.confirmed = s.confirmed /\ a.magic = s.magic
                  /\ b.slots = s.slots /\ b.failsafe = m /\ b.counter = s.counter
                  /\ b.confirmed = s.confirmed /\ b.magic = s.magic
                  /\ c.slots = s.slots /\ c.failsafe = s.failsafe /\ c.counter = n
                  /\ c.confirmed = s.confirmed /\ c.magic = s.magic
                  /\ d.slots = s.slots /\ d.failsafe = s.failsafe /\ d.counter = s.counter
                  /\ d.confirmed = n /\ d.magic = s.magic
                  /\ e.slots = s.slots /\ e.failsafe = s.failsafe /\ e.counter = s.counter
                  /\ e.confirmed = s.confirmed
<1>1. [s EXCEPT !.magic = TRUE] \in SettingsRecord /\ [s EXCEPT !.magic = TRUE].magic
  BY Zenon DEF SettingsRecord
<1> QED
  BY <1>1 DEF SettingsRecord

(* What the settings are, whatever else is known of the state.              *)
LEMMA SettingsValues ==
    ASSUME SettingsInv
    PROVE  /\ settings \in SettingsRecord
           /\ settings.slots \in SUBSET (0 .. 7) /\ settings.failsafe \in SUBSET (0 .. 7)
           /\ settings.counter \in 0 .. BootCounterTop + 1 /\ settings.confirmed \in 0 .. BootCounterTop + 1
           /\ settings.magic \in BOOLEAN /\ attempts \in Nat
           /\ settings.magic => Accepted(settings.slots) /\ Accepted(settings.failsafe)
           /\ phase \in {"load", "app", "confirmed"} => settings.magic
           /\ phase \in Reverting => Accepted(settings.slots)
           /\ phase \in Reverting \ {"revert failsafe"} => Accepted(settings.failsafe)
           /\ BootCounter \in 0 .. BootCounterTop + 1
<1>1. 0 \in 0 .. BootCounterTop + 1
  BY BootConstants
<1> QED
  BY <1>1 DEF SettingsInv, SettingsOK, SettingsRecord, SettingsAccepted, BootCounter

(* The parts of the invariant that a step leaves alone.                     *)
LEMMA ScrubKept ==
    ASSUME SettingsInv, UNCHANGED <<flash, lock, offset, scrub>>,
           phase \in {"confirmed", "safe", "safe secondary"} => UNCHANGED phase
    PROVE  ScrubOK'
BY DEF SettingsInv, ScrubOK

(* A step that leaves the command alone ...                                 *)
LEMMA CommandKept ==
    ASSUME SettingsInv, UNCHANGED cmd, phase = "confirmed" => UNCHANGED phase
    PROVE  CommandOK'
BY DEF SettingsInv, CommandOK

(* ... the lock, the scrubber and the command, ...                          *)
LEMMA LockKept ==
    ASSUME SettingsInv, UNCHANGED <<lock, scrub, cmd>>
    PROVE  LockHeld'
BY DEF SettingsInv, LockHeld

(* ... or the settings, keeps what is said of them.                         *)
LEMMA SettingsKept ==
    ASSUME SettingsInv, UNCHANGED <<settings, attempts>>,
           phase' \in {"load", "app", "confirmed"} => phase \in {"load", "app", "confirmed"},
           phase' \in Reverting => phase' = phase
    PROVE  SettingsOK'
BY DEF SettingsInv, SettingsOK, SettingsAccepted, Reverting

(* The failsafe slots and the safe mode are masks that may be booted.       *)
LEMMA ResolveKeeps == SettingsInv /\ ResolveFailedBoot => SettingsInv'
<1> SUFFICES ASSUME SettingsInv, ResolveFailedBoot PROVE SettingsInv'
  OBVIOUS
<1>1. /\ phase = "resolve" /\ phase' = "select"
      /\ UNCHANGED <<flash, mcu, index, lock, scrub, offset, cmd, attempts>>
  BY DEF ResolveFailedBoot, ram, hist
<1>2. UNCHANGED settings \/ \E mask \in {settings.failsafe, SafeModeBootSlot} :
                               settings.magic /\ settings' = [settings EXCEPT !.slots = mask]
  BY DEF ResolveFailedBoot, FailsafeBootSlots
<1>3. PlaceOK'
  BY <1>1 DEF SettingsInv, PlaceOK, Phases
<1>4. SettingsOK'
  <2>1. CASE UNCHANGED settings
    BY <1>1, <2>1, SettingsKept DEF Reverting
  <2>2. CASE \E mask \in {settings.failsafe, SafeModeBootSlot} :
                settings.magic /\ settings' = [settings EXCEPT !.slots = mask]
    <3>1. PICK mask \in {settings.failsafe, SafeModeBootSlot} :
             settings.magic /\ settings' = [settings EXCEPT !.slots = mask]
      BY <2>2
    <3>2. mask \in SUBSET (0 .. 7) /\ Accepted(mask)
      BY <3>1, SettingsValues, DefaultsAreValid
    <3>3. settings' \in SettingsRecord /\ settings'.slots = mask
          /\ settings'.failsafe = settings.failsafe
      BY <3>1, <3>2, SettingsValues, SettingsWrite
    <3>4. SettingsAccepted'
      BY <3>1, <3>2, <3>3, SettingsValues DEF SettingsAccepted
    <3> QED
      BY <1>1, <3>3, <3>4, SettingsValues DEF SettingsOK, SettingsRecord, Reverting
  <2> QED
    BY <1>2, <2>1, <2>2
<1> QED
  BY <1>1, <1>3, <1>4, ScrubKept, CommandKept, LockKept DEF SettingsInv

(* What the bootloader stores and what it loads is accepted; only settings  *)
(* that are marked valid lead to the application.                           *)
LEMMA ProceedKeeps == SettingsInv /\ ProceedWithBooting => SettingsInv'
<1> SUFFICES ASSUME SettingsInv, ProceedWithBooting PROVE SettingsInv'
  OBVIOUS
<1> DEFINE mask == IF settings.magic THEN settings.slots ELSE SafeModeBootSlot
           counted == [settings EXCEPT !.counter = IF @ <= BootCounterTop THEN @ + 1 ELSE @]
<1>1. /\ phase = "select" /\ UNCHANGED <<flash, mcu, lock, scrub, offset, cmd>>
      /\ attempts' = IF phase' \in {"app", "load"} /\ attempts < UnconfirmedBoots
                     THEN attempts + 1 ELSE attempts
  BY DEF ProceedWithBooting, ram
<1>2. mask \in SUBSET (0 .. 7) /\ Accepted(mask)
  BY SettingsValues, DefaultsAreValid
<1>3. \/ mask = SafeModeBootSlot /\ Boots(mask) /\ UNCHANGED settings
      \/ mask = UpperBootSlot /\ Boots(mask) /\ settings' = counted
      \/ /\ mask # SafeModeBootSlot
         /\ \E m \in {FailsafeBootSlots, SafeModeBootSlot} :
               /\ m # SafeModeBootSlot => IsBootSlotsValid(m)
               /\ StoreAndBoot(m)
      \/ /\ mask \notin {SafeModeBootSlot, UpperBootSlot} /\ IsBootSlotsValid(mask)
         /\ Boots(mask) /\ settings' = counted
  BY DEF ProceedWithBooting, BootSlots, CountBootAttempts
<1>4. counted \in SettingsRecord /\ counted.slots = settings.slots
      /\ counted.failsafe = settings.failsafe /\ counted.magic = settings.magic
  <2> DEFINE n == IF settings.counter <= BootCounterTop THEN settings.counter + 1 ELSE settings.counter
  <2>0. settings.counter \in 0 .. BootCounterTop + 1 /\ settings \in SettingsRecord
    BY SettingsValues
  <2>1. n \in 0 .. BootCounterTop + 1
    BY <2>0, BootConstants
  <2>2. counted = [settings EXCEPT !.counter = n]
    BY SettingsValues DEF SettingsRecord
  <2> HIDE DEF n, counted
  <2>3. DefaultBootSlot \in SUBSET (0 .. 7)
    BY DefaultsAreValid
  <2> QED
    BY <2>0, <2>1, <2>2, <2>3, SettingsWrite, Zenon
<1> HIDE DEF mask, counted
<1>5. ASSUME NEW m \in SUBSET (0 .. 7), Accepted(m), Boots(m),
             m \notin {SafeModeBootSlot, UpperBootSlot} => IsBootSlotsValid(m)
      PROVE  /\ PlaceOK'
             /\ phase' \in {"safe", "app", "load"} /\ (phase' # "safe" => m # SafeModeBootSlot)
  <2>1. m \notin {SafeModeBootSlot, UpperBootSlot} => Loadable(m)
    BY <1>5, ThreeBitsAreSlots DEF IsBootSlotsValid
  <2>2. index' = m /\ phase' \in {"safe", "app", "load"}
        /\ (phase' # "safe" => m # SafeModeBootSlot)
        /\ (phase' = "app" => m = UpperBootSlot)
        /\ (phase' = "load" => m \notin {SafeModeBootSlot, UpperBootSlot})
    BY <1>5 DEF Boots
  <2> QED
    BY <1>1, <2>1, <2>2 DEF SettingsInv, PlaceOK, Phases
<1>6. attempts' \in Nat
  BY <1>1, SettingsValues
<1>7. PlaceOK' /\ SettingsOK' /\ phase' \in {"safe", "app", "load"}
  <2>1. CASE mask = SafeModeBootSlot /\ Boots(mask) /\ UNCHANGED settings
    <3>1. phase' = "safe"
      BY <2>1 DEF Boots
    <3> QED
      BY <1>2, <1>5, <1>6, <2>1, <3>1, SettingsValues
      DEF SettingsOK, SettingsRecord, SettingsAccepted, Reverting
  <2>2. CASE /\ mask \notin {SafeModeBootSlot} /\ Boots(mask) /\ settings' = counted
             /\ mask # UpperBootSlot => IsBootSlotsValid(mask)
    <3>1. settings.magic
      BY <2>2, SettingsValues DEF mask
    <3>2. PlaceOK' /\ phase' \in {"safe", "app", "load"}
      BY <1>2, <1>5, <2>2
    <3> QED
      BY <1>4, <1>6, <2>2, <3>1, <3>2, SettingsValues
      DEF SettingsOK, SettingsRecord, SettingsAccepted, Reverting
  <2>3. CASE /\ mask # SafeModeBootSlot
             /\ \E m \in {FailsafeBootSlots, SafeModeBootSlot} :
                   (m # SafeModeBootSlot => IsBootSlotsValid(m)) /\ StoreAndBoot(m)
    <3>1. PICK m \in {FailsafeBootSlots, SafeModeBootSlot} :
             (m # SafeModeBootSlot => IsBootSlotsValid(m)) /\ StoreAndBoot(m)
      BY <2>3
    <3>2. settings.magic
      BY <2>3, SettingsValues DEF mask
    <3>3. m \in SUBSET (0 .. 7) /\ Accepted(m)
      BY <3>1, <3>2, SettingsValues, DefaultsAreValid DEF FailsafeBootSlots
    <3>4. PlaceOK' /\ phase' \in {"safe", "app", "load"}
      BY <1>5, <3>1, <3>3 DEF StoreAndBoot
    <3>5. settings' \in SettingsRecord /\ settings'.slots = m
          /\ settings'.failsafe = settings.failsafe /\ settings'.magic = settings.magic
      <4>1. settings \in SettingsRecord /\ settings.counter \in 0 .. BootCounterTop + 1
        BY SettingsValues, Zenon
      <4>2. settings' = [settings EXCEPT !.slots = m]
        BY <3>1 DEF StoreAndBoot
      <4> QED
        BY <3>3, <4>1, <4>2, SettingsWrite, Zenon
    <3> QED
      BY <1>6, <3>2, <3>3, <3>4, <3>5, SettingsValues
      DEF SettingsOK, SettingsRecord, SettingsAccepted, Reverting
  <2>4. UpperBootSlot # SafeModeBootSlot
    BY DEF UpperBootSlot, SafeModeBootSlot
  <2> QED
    BY <1>3, <2>1, <2>2, <2>3, <2>4, Zenon
<1> QED
  BY <1>1, <1>7, ScrubKept, CommandKept, LockKept DEF SettingsInv

(* Loading changes the application area only.                               *)
LEMMA LoadKeeps == SettingsInv /\ (LoadPage \/ BootToAddress) => SettingsInv'
<1> SUFFICES ASSUME SettingsInv, LoadPage \/ BootToAddress PROVE SettingsInv'
  OBVIOUS
<1>1. /\ phase = "load" /\ phase' \in {"load", "app"}
      /\ UNCHANGED <<flash, settings, index, lock, scrub, offset, cmd, attempts>>
  BY DEF LoadPage, BootToAddress, ram, hist, memory
<1>2. mcu' \subseteq Pages
  BY DEF LoadPage, BootToAddress, memory, SettingsInv, PlaceOK
<1>3. PlaceOK'
  BY <1>1, <1>2 DEF SettingsInv, PlaceOK, Phases
<1>4. SettingsOK'
  BY <1>1, SettingsKept DEF Reverting
<1> QED
  BY <1>1, <1>3, <1>4, ScrubKept, CommandKept, LockKept DEF SettingsInv

(* The confirmation writes a counter, not a mask.                           *)
LEMMA ConfirmKeeps == SettingsInv /\ ConfirmBoot => SettingsInv'
<1> SUFFICES ASSUME SettingsInv, ConfirmBoot PROVE SettingsInv'
  OBVIOUS
<1>1. /\ phase = "app" /\ phase' = "confirmed" /\ attempts' = 0
      /\ UNCHANGED <<flash, mcu, index, lock, scrub, offset, cmd>>
      /\ settings' = [settings EXCEPT !.confirmed = BootCounter]
  BY DEF ConfirmBoot, ram
<1>2. PlaceOK'
  BY <1>1 DEF SettingsInv, PlaceOK, Phases
<1>3. settings \in SettingsRecord /\ BootCounter \in 0 .. BootCounterTop + 1
      /\ settings.slots \in SUBSET (0 .. 7)
  BY SettingsValues, Zenon
<1>4. settings' \in SettingsRecord /\ settings'.slots = settings.slots
      /\ settings'.failsafe = settings.failsafe /\ settings'.magic = settings.magic
  BY <1>1, <1>3, SettingsWrite, Zenon
<1>5. SettingsOK'
  BY <1>1, <1>4, SettingsValues DEF SettingsOK, SettingsRecord, SettingsAccepted, Reverting
<1>6. CommandOK'
  BY <1>1 DEF SettingsInv, CommandOK
<1> QED
  BY <1>1, <1>2, <1>5, <1>6, ScrubKept, LockKept DEF SettingsInv

(* A reset leaves the settings as they are, whatever is written by then.    *)
LEMMA RestartKeeps ==
    ASSUME SettingsInv, Restart, UNCHANGED attempts
    PROVE  SettingsInv'
<1>1. /\ phase' = "resolve" /\ lock' = "free" /\ scrub' = Idle /\ cmd' = NoCommand
      /\ offset' = [w \in Scrubbers |-> 0]
      /\ UNCHANGED <<flash, settings, mcu, index, attempts>>
  BY DEF Restart, memory
<1>2. PlaceOK'
  BY <1>1 DEF SettingsInv, PlaceOK, Phases
<1>3. SettingsOK'
  BY <1>1, SettingsKept DEF Reverting
<1>4. ScrubOK'
  BY <1>1, NoCommandTyped, BootConstants DEF SettingsInv, ScrubOK
<1>5. CommandOK'
  BY <1>1, NoCommandTyped DEF CommandOK, SettingsOps
<1>6. LockHeld'
  BY <1>1, NoCommandTyped DEF LockHeld, FlashOps
<1> QED
  BY <1>2, <1>3, <1>4, <1>5, <1>6 DEF SettingsInv

(* One write of the safe mode program, with what the next ones rely on.     *)
LEMMA RevertWrite ==
    ASSUME SettingsInv, NEW here, NEW there, NEW new, Revert(here, there, new),
           there \in Reverting, here \in Reverting \cup {"revert slots"}, new \in SettingsRecord,
           Accepted(new.slots),
           there = "revert failsafe" => ~new.magic \/ Accepted(new.failsafe),
           there # "revert failsafe" => Accepted(new.failsafe)
    PROVE  SettingsInv'
<1>1. /\ phase = here /\ phase' = there /\ settings' = new
      /\ attempts' = (IF there = "revert magic" THEN 0 ELSE attempts)
      /\ UNCHANGED <<flash, mcu, index, lock, scrub, offset, cmd>>
  BY DEF Revert, ram
<1>2. PlaceOK'
  BY <1>1 DEF SettingsInv, PlaceOK, Phases, Reverting
<1>3. attempts' \in Nat
  <2>1. attempts \in Nat
    BY SettingsValues, Zenon
  <2> QED
    BY <1>1, <2>1
<1>4. SettingsAccepted'
  BY <1>1, Zenon DEF SettingsAccepted
<1>5. SettingsOK'
  BY <1>1, <1>3, <1>4 DEF SettingsOK, SettingsRecord, Reverting
<1>6. ScrubOK' /\ CommandOK'
  BY <1>1 DEF SettingsInv, ScrubOK, CommandOK, Reverting
<1> QED
  BY <1>1, <1>2, <1>5, <1>6, LockKept DEF SettingsInv

(* The mark is written last, after both masks have their defaults.          *)
LEMMA RevertKeeps == SettingsInv /\ RevertBootSlots => SettingsInv'
<1> SUFFICES ASSUME SettingsInv, RevertBootSlots PROVE SettingsInv'
  OBVIOUS
<1>1. /\ settings \in SettingsRecord /\ BootCounter \in 0 .. BootCounterTop + 1
      /\ settings.slots \in SUBSET (0 .. 7) /\ settings.counter \in 0 .. BootCounterTop + 1
      /\ settings.magic => Accepted(settings.slots) /\ Accepted(settings.failsafe)
  BY SettingsValues, Zenon
<1>2. 0 \in 0 .. BootCounterTop + 1
  BY BootConstants
<1>3. /\ DefaultBootSlot \in SUBSET (0 .. 7) /\ DefaultFailsafeBootSlot \in SUBSET (0 .. 7)
      /\ Accepted(DefaultBootSlot) /\ Accepted(DefaultFailsafeBootSlot)
  BY DefaultsAreValid
<1>4. CASE Revert("revert slots", "revert failsafe", [settings EXCEPT !.slots = DefaultBootSlot])
  <2> DEFINE new == [settings EXCEPT !.slots = DefaultBootSlot]
  <2>1. new \in SettingsRecord /\ new.slots = DefaultBootSlot /\ new.failsafe = settings.failsafe
        /\ new.magic = settings.magic
    BY <1>1, <1>2, <1>3, SettingsWrite, Zenon
  <2>2. ~new.magic \/ Accepted(new.failsafe)
    BY <1>1, <2>1, Zenon
  <2>3. Revert("revert slots", "revert failsafe", new)
    BY <1>4, Zenon
  <2>4. "revert failsafe" \in Reverting /\ "revert slots" \in Reverting \cup {"revert slots"}
    BY DEF Reverting
  <2> HIDE DEF new
  <2> QED
    BY <1>3, <2>1, <2>2, <2>3, <2>4, RevertWrite, Zenon
<1>5. CASE Revert("revert failsafe", "revert counter",
                  [settings EXCEPT !.failsafe = DefaultFailsafeBootSlot])
  <2> DEFINE new == [settings EXCEPT !.failsafe = DefaultFailsafeBootSlot]
  <2>1. new \in SettingsRecord /\ new.slots = settings.slots
        /\ new.failsafe = DefaultFailsafeBootSlot
    BY <1>1, <1>2, <1>3, SettingsWrite, Zenon
  <2>2. Accepted(settings.slots)
    BY <1>5, SettingsValues DEF Revert, Reverting
  <2>3. Revert("revert failsafe", "revert counter", new)
    BY <1>5, Zenon
  <2>4. "revert counter" \in Reverting /\ "revert failsafe" \in Reverting \cup {"revert slots"}
    BY DEF Reverting
  <2> HIDE DEF new
  <2> QED
    BY <1>3, <2>1, <2>2, <2>3, <2>4, RevertWrite, Zenon
<1>6. CASE Revert("revert counter", "revert confirmed", [settings EXCEPT !.counter = 0])
  <2> DEFINE new == [settings EXCEPT !.counter = 0]
  <2>1. new \in SettingsRecord /\ new.slots = settings.slots /\ new.failsafe = settings.failsafe
    BY <1>1, <1>2, <1>3, SettingsWrite, Zenon
  <2>2. Accepted(settings.slots) /\ Accepted(settings.failsafe)
    BY <1>6, SettingsValues DEF Revert, Reverting
  <2>3. Revert("revert counter", "revert confirmed", new)
    BY <1>6, Zenon
  <2>4. "revert confirmed" \in Reverting /\ "revert counter" \in Reverting \cup {"revert slots"}
    BY DEF Reverting
  <2> HIDE DEF new
  <2> QED
    BY <2>1, <2>2, <2>3, <2>4, RevertWrite, Zenon
<1>7. CASE Revert("revert confirmed", "revert magic", [settings EXCEPT !.confirmed = BootCounter])
  <2> DEFINE new == [settings EXCEPT !.confirmed = BootCounter]
  <2>1. new \in SettingsRecord /\ new.slots = settings.slots /\ new.failsafe = settings.failsafe
    BY <1>1, <1>2, <1>3, SettingsWrite, Zenon
  <2>2. Accepted(settings.slots) /\ Accepted(settings.failsafe)
    BY <1>7, SettingsValues DEF Revert, Reverting
  <2>3. Revert("revert confirmed", "revert magic", new)
    BY <1>7, Zenon
  <2>4. "revert magic" \in Reverting /\ "revert confirmed" \in Reverting \cup {"revert slots"}
    BY DEF Reverting
  <2> HIDE DEF new
  <2> QED
    BY <2>1, <2>2, <2>3, <2>4, RevertWrite, Zenon
<1>8. CASE Revert("revert magic", "reboot", [settings EXCEPT !.magic = TRUE])
  <2> DEFINE new == [settings EXCEPT !.magic = TRUE]
  <2>1. new \in SettingsRecord /\ new.slots = settings.slots /\ new.failsafe = settings.failsafe
    BY <1>1, <1>2, <1>3, SettingsWrite, Zenon
  <2>2. Accepted(settings.slots) /\ Accepted(settings.failsafe)
    BY <1>8, SettingsValues DEF Revert, Reverting
  <2>3. Revert("revert magic", "reboot", new)
    BY <1>8, Zenon
  <2>4. "reboot" \in Reverting /\ "revert magic" \in Reverting \cup {"revert slots"}
    BY DEF Reverting
  <2> HIDE DEF new
  <2> QED
    BY <2>1, <2>2, <2>3, <2>4, RevertWrite, Zenon
<1> QED
  BY <1>4, <1>5, <1>6, <1>7, <1>8, Zenon DEF RevertBootSlots

(* What a scrubber knows of its slots while it rewrites them.               *)
LEMMA ScrubValues ==
    ASSUME SettingsInv
    PROVE  /\ flash \in [Slots -> SUBSET Bits] /\ lock \in {"free", "scrub", "cmd"}
           /\ offset \in [Scrubbers -> Sectors]
           /\ scrub.which \in Scrubbers \cup {"none"} /\ scrub.buffer \in SUBSET Bits
           /\ scrub.todo \in SUBSET Slots /\ scrub.erased \in BOOLEAN
           /\ scrub.todo # {} => phase \in {"confirmed", "safe", "safe secondary"}
                                 /\ scrub.which \in Scrubbers /\ First(scrub.todo) \in scrub.todo
<1>1. scrub.todo # {} => First(scrub.todo) \in scrub.todo
  <2>0. scrub.todo \subseteq Slots
    BY DEF SettingsInv, ScrubOK
  <2>1. scrub.todo \subseteq Nat
    BY <2>0 DEF Slots
  <2> QED
    BY <2>1, FirstOfNumbers
<1> QED
  BY <1>1 DEF SettingsInv, ScrubOK

(* A step that changes copies and leaves the settings alone.                *)
LEMMA CopiesChange ==
    ASSUME SettingsInv, flash' \in [Slots -> SUBSET Bits],
           UNCHANGED <<settings, attempts, mcu, index, cmd>>
    PROVE  /\ UNCHANGED <<phase, lock, scrub, offset>> => SettingsInv'
           /\ UNCHANGED phase => PlaceOK' /\ SettingsOK' /\ CommandOK'
<1>1. UNCHANGED phase => PlaceOK' /\ SettingsOK' /\ CommandOK'
  BY DEF SettingsInv, PlaceOK, SettingsOK, SettingsAccepted, CommandOK
<1>2. UNCHANGED <<phase, lock, scrub, offset>> => ScrubOK'
  BY DEF SettingsInv, ScrubOK
<1> QED
  BY <1>1, <1>2, LockKept DEF SettingsInv

(* A flipped bit of a copy is no setting.                                   *)
LEMMA UpsetKeeps == SettingsInv /\ Upset => SettingsInv'
<1> SUFFICES ASSUME SettingsInv, Upset PROVE SettingsInv'
  OBVIOUS
<1>1. UNCHANGED <<settings, attempts, mcu, index, cmd, phase, lock, scrub, offset>>
  BY DEF Upset, ram, hist
<1>2. flash \in [Slots -> SUBSET Bits]
  BY ScrubValues
<1>3. PICK s \in UNION Groups, b \in Bits :
         flash' = [flash EXCEPT ![s] = IF b \in @ THEN @ \ {b} ELSE @ \cup {b}]
  BY DEF Upset
<1>4. flash' \in [Slots -> SUBSET Bits]
  BY <1>2, <1>3
<1> QED
  BY <1>1, <1>4, CopiesChange

(* The end of a sector: the next one, or the next step of the recovery.     *)
LEMMA SectorDoneStep ==
    ASSUME SettingsInv, NEW which \in Scrubbers, NEW sector \in Sectors, SectorDone(which, sector),
           phase \in {"confirmed", "safe", "safe secondary"}
    PROVE  /\ offset' \in [Scrubbers -> Sectors]
           /\ phase' \in {phase, "safe secondary", "erase n25q"}
           /\ phase = "confirmed" => phase' = "confirmed"
<1>1. offset \in [Scrubbers -> Sectors]
  BY ScrubValues
<1> QED
  BY <1>1, BootConstants DEF SectorDone

(* The end of a sector leaves the settings alone and starts no revert before*)
(* both groups are done.                                                    *)
LEMMA ScrubPhaseStep ==
    ASSUME SettingsInv, phase \in {"confirmed", "safe", "safe secondary"},
           phase' \in {phase, "safe secondary", "erase n25q"},
           phase = "confirmed" => phase' = "confirmed",
           UNCHANGED <<settings, attempts, mcu, index, cmd>>
    PROVE  PlaceOK' /\ SettingsOK' /\ CommandOK'
<1>1. PlaceOK'
  BY DEF SettingsInv, PlaceOK, Phases
<1>2. SettingsOK'
  BY SettingsKept DEF Reverting
<1>3. CommandOK'
  BY CommandKept
<1> QED
  BY <1>1, <1>2, <1>3

(* The scrubber takes the lock when it begins to rewrite, ...               *)
LEMMA ScrubSlotsKeeps ==
    ASSUME SettingsInv, NEW which \in Scrubbers, ScrubSlots(which)
    PROVE  SettingsInv'
<1> DEFINE sector == offset[which]
           buffer == Vote(SlotsOf(which)) \cap BitsOf(sector)
           todo == {s \in SlotsOf(which) : flash[s] \cap BitsOf(sector) # buffer}
<1>1. /\ phase \in {"confirmed", "safe", "safe secondary"}
      /\ phase = "confirmed" => index # UpperBootSlot
      /\ UNCHANGED <<flash, settings, mcu, index, cmd, attempts>>
  BY DEF ScrubSlots, Scrubs, memory, hist
<1>2. \/ SectorDone(which, sector) /\ UNCHANGED <<lock, scrub>>
      \/ /\ scrub' = [which |-> which, buffer |-> buffer, todo |-> todo, erased |-> FALSE]
         /\ lock' = "scrub" /\ todo # {} /\ UNCHANGED <<offset, phase>>
  BY DEF ScrubSlots
<1>3. sector \in Sectors
  BY ScrubValues
<1>4. buffer \in SUBSET Bits
  BY DEF BitsOf
<1>5. SlotsOf(which) \subseteq Slots
  <2>1. phase = "confirmed" => index \subseteq Slots
    BY <1>1 DEF SettingsInv, PlaceOK, Loadable
  <2>2. DefaultBootSlot \subseteq Slots
    BY GroupsAreThree DEF Groups
  <2> QED
    BY <2>1, <2>2 DEF SlotsOf
<1> HIDE DEF sector, buffer
<1>6. CASE SectorDone(which, sector) /\ UNCHANGED <<lock, scrub>>
  <2>1. /\ offset' \in [Scrubbers -> Sectors]
        /\ phase' \in {phase, "safe secondary", "erase n25q"}
        /\ phase = "confirmed" => phase' = "confirmed"
    BY <1>1, <1>3, <1>6, SectorDoneStep
  <2>2. scrub.todo = {}
    BY DEF ScrubSlots, SettingsInv, LockHeld
  <2>3. ScrubOK'
    BY <1>1, <1>6, <2>1, <2>2, ScrubValues DEF SettingsInv, ScrubOK
  <2>4. PlaceOK' /\ SettingsOK' /\ CommandOK'
    BY <1>1, <2>1, ScrubPhaseStep
  <2> QED
    BY <1>1, <1>6, <2>3, <2>4, LockKept DEF SettingsInv
<1>7. CASE /\ scrub' = [which |-> which, buffer |-> buffer, todo |-> todo, erased |-> FALSE]
           /\ lock' = "scrub" /\ todo # {} /\ UNCHANGED <<offset, phase>>
  <2>1. ScrubOK'
    BY <1>1, <1>4, <1>5, <1>7, ScrubValues DEF ScrubOK
  <2>2. LockHeld'
    <3>1. cmd.op \notin FlashOps
      BY DEF ScrubSlots, SettingsInv, LockHeld
    <3> QED
      BY <1>1, <1>7, <3>1 DEF LockHeld
  <2>3. PlaceOK' /\ SettingsOK' /\ CommandOK'
    BY <1>1, <1>7, CopiesChange, ScrubValues
  <2> QED
    BY <1>1, <1>7, <2>1, <2>2, <2>3 DEF SettingsInv
<1> QED
  BY <1>2, <1>6, <1>7

(* ... keeps it between erase and program ...                               *)
LEMMA ScrubEraseKeeps == SettingsInv /\ ScrubErase => SettingsInv'
<1> SUFFICES ASSUME SettingsInv, ScrubErase PROVE SettingsInv'
  OBVIOUS
<1>1. /\ scrub.todo # {} /\ scrub' = [scrub EXCEPT !.erased = TRUE]
      /\ UNCHANGED <<settings, mcu, phase, index, lock, offset, cmd, attempts>>
      /\ \/ flash' = [flash EXCEPT ![First(scrub.todo)] = @ \ BitsOf(offset[scrub.which])]
         \/ UNCHANGED flash
  BY DEF ScrubErase, hist
<1>2. flash' \in [Slots -> SUBSET Bits]
  BY <1>1, ScrubValues
<1>3. scrub' \in [which : Scrubbers \cup {"none"}, buffer : SUBSET Bits, todo : SUBSET Slots,
                  erased : BOOLEAN]
      /\ scrub'.todo = scrub.todo /\ scrub'.which = scrub.which
  <2>1. scrub \in [which : Scrubbers \cup {"none"}, buffer : SUBSET Bits, todo : SUBSET Slots,
                   erased : BOOLEAN]
    BY DEF SettingsInv, ScrubOK
  <2> QED
    BY <1>1, <2>1
<1>4. ScrubOK'
  BY <1>1, <1>2, <1>3, ScrubValues DEF ScrubOK
<1>5. LockHeld'
  BY <1>1, <1>3 DEF SettingsInv, LockHeld
<1> QED
  BY <1>1, <1>2, <1>4, <1>5, CopiesChange DEF SettingsInv

(* ... and gives it back after the last copy.                               *)
LEMMA ScrubProgramKeeps == SettingsInv /\ ScrubProgram => SettingsInv'
<1> SUFFICES ASSUME SettingsInv, ScrubProgram PROVE SettingsInv'
  OBVIOUS
<1> DEFINE left == scrub.todo \ {First(scrub.todo)}
<1>1. /\ scrub.todo # {}
      /\ UNCHANGED <<settings, mcu, index, cmd, attempts>>
      /\ \/ flash' = [flash EXCEPT ![First(scrub.todo)] = @ \cup scrub.buffer]
         \/ UNCHANGED flash
  BY DEF ScrubProgram, hist
<1>2. \/ left = {} /\ scrub' = Idle /\ lock' = "free" /\ SectorDone(scrub.which, offset[scrub.which])
      \/ left # {} /\ scrub' = [scrub EXCEPT !.todo = left, !.erased = FALSE]
         /\ UNCHANGED <<lock, offset, phase>>
  BY DEF ScrubProgram
<1>3. flash' \in [Slots -> SUBSET Bits]
  BY <1>1, ScrubValues
<1>4. /\ phase \in {"confirmed", "safe", "safe secondary"} /\ scrub.which \in Scrubbers
      /\ left \in SUBSET Slots /\ lock = "scrub" /\ cmd.op \notin FlashOps
      /\ offset[scrub.which] \in Sectors
  <2>1. phase \in {"confirmed", "safe", "safe secondary"} /\ scrub.which \in Scrubbers
        /\ left \in SUBSET Slots
    BY <1>1, ScrubValues
  <2>2. lock = "scrub" /\ cmd.op \notin FlashOps
    BY <1>1 DEF SettingsInv, LockHeld
  <2> QED
    BY <2>1, <2>2, ScrubValues
<1> HIDE DEF left
<1>5. CASE left = {} /\ scrub' = Idle /\ lock' = "free" /\ SectorDone(scrub.which, offset[scrub.which])
  <2>1. /\ offset' \in [Scrubbers -> Sectors]
        /\ phase' \in {phase, "safe secondary", "erase n25q"}
        /\ phase = "confirmed" => phase' = "confirmed"
    BY <1>4, <1>5, SectorDoneStep
  <2>2. ScrubOK'
    BY <1>3, <1>5, <2>1, NoCommandTyped DEF ScrubOK
  <2>3. PlaceOK' /\ SettingsOK' /\ CommandOK'
    BY <1>1, <1>4, <2>1, ScrubPhaseStep
  <2>4. LockHeld'
    BY <1>1, <1>4, <1>5, NoCommandTyped DEF LockHeld
  <2> QED
    BY <2>2, <2>3, <2>4 DEF SettingsInv
<1>6. CASE left # {} /\ scrub' = [scrub EXCEPT !.todo = left, !.erased = FALSE]
           /\ UNCHANGED <<lock, offset, phase>>
  <2>1. scrub' \in [which : Scrubbers \cup {"none"}, buffer : SUBSET Bits, todo : SUBSET Slots,
                    erased : BOOLEAN]
        /\ scrub'.todo = left /\ scrub'.which = scrub.which
    <3>1. scrub \in [which : Scrubbers \cup {"none"}, buffer : SUBSET Bits, todo : SUBSET Slots,
                     erased : BOOLEAN]
      BY DEF SettingsInv, ScrubOK
    <3> QED
      BY <1>4, <1>6, <3>1
  <2>2. ScrubOK'
    BY <1>3, <1>4, <1>6, <2>1, ScrubValues DEF ScrubOK
  <2>3. LockHeld'
    BY <1>1, <1>4, <1>6, <2>1 DEF LockHeld
  <2> QED
    BY <1>1, <1>3, <1>6, <2>2, <2>3, CopiesChange DEF SettingsInv
<1> QED
  BY <1>2, <1>5, <1>6

(* The commands that are sent, and how far one of them has come.            *)
LEMMA CommandsSent ==
    ASSUME NEW g \in SUBSET (0 .. 7), NEW h \in SUBSET (0 .. 7)
    PROVE  /\ [NoCommand EXCEPT !.op = "erase", !.slots = g, !.sectors = Sectors] \in CommandRecord
           /\ \A page \in Pages :
                 [NoCommand EXCEPT !.op = "write", !.slots = g, !.data = {page}] \in CommandRecord
           /\ [NoCommand EXCEPT !.op = "finalize", !.slots = g] \in CommandRecord
           /\ [NoCommand EXCEPT !.op = "copy erase", !.slots = g, !.sectors = Sectors,
                                !.source = h] \in CommandRecord
           /\ [NoCommand EXCEPT !.op = "set slots", !.slots = g, !.source = h] \in CommandRecord
BY DEF NoCommand, CommandRecord, FlashOps, SettingsOps

(* A telecommand is taken when no other one is executed, and a mask only    *)
(* when it is accepted.                                                     *)
LEMMA SendKeeps == SettingsInv /\ SendCommand => SettingsInv'
<1> SUFFICES ASSUME SettingsInv, SendCommand PROVE SettingsInv'
  OBVIOUS
<1>1. ASSUME NEW name, NEW command \in CommandRecord, Begin(name, command), command.op # "none",
             command.op \in SettingsOps => Accepted(command.slots) /\ Accepted(command.source),
             lock = "free" /\ lock' = "cmd" <=> command.op \in FlashOps,
             command.op \notin FlashOps => UNCHANGED lock
      PROVE  SettingsInv'
  <2>1. /\ phase = "confirmed" /\ cmd = NoCommand /\ cmd' = command
        /\ UNCHANGED <<flash, settings, mcu, phase, index, scrub, offset, attempts>>
    BY <1>1 DEF Begin, memory
  <2>2. PlaceOK' /\ SettingsOK'
    BY <2>1 DEF SettingsInv, PlaceOK, SettingsOK, SettingsAccepted
  <2>3. ScrubOK'
    BY <1>1, <2>1 DEF SettingsInv, ScrubOK
  <2>4. CommandOK'
    BY <1>1, <2>1 DEF CommandOK
  <2>5. LockHeld'
    <3>1. cmd.op \notin FlashOps
      BY <2>1, NoCommandTyped DEF FlashOps
    <3> QED
      BY <1>1, <2>1, <3>1 DEF SettingsInv, LockHeld
  <2> QED
    BY <2>2, <2>3, <2>4, <2>5 DEF SettingsInv
<1>2. \A g \in UploadTargets : g \in SUBSET (0 .. 7) /\ Slots \ g \in SUBSET (0 .. 7)
  BY BootConstants, GroupsAreThree, DefaultsAreValid
<1>3. ASSUME NEW name, NEW command \in CommandRecord, BeginFlash(name, command),
             command.op \in FlashOps
      PROVE  SettingsInv'
  <2>1. lock = "free" /\ lock' = "cmd" /\ Begin(name, command)
    BY <1>3 DEF BeginFlash
  <2>2. command.op # "none" /\ command.op \notin SettingsOps
    BY <1>3 DEF FlashOps, SettingsOps
  <2> QED
    BY <1>1, <1>3, <2>1, <2>2
<1>4. ASSUME NEW g \in UploadTargets, EraseBootTableEntry(g) PROVE SettingsInv'
  <2> DEFINE command == [NoCommand EXCEPT !.op = "erase", !.slots = g, !.sectors = Sectors]
  <2>1. BeginFlash("erase", command) /\ command.op \in FlashOps
    BY <1>4 DEF EraseBootTableEntry, NoCommand, FlashOps
  <2>2. command \in CommandRecord
    BY <1>2, <1>4, CommandsSent
  <2> HIDE DEF command
  <2> QED
    BY <1>3, <2>1, <2>2, Zenon
<1>5. ASSUME NEW g \in UploadTargets, FinalizeProgramEntry(g) PROVE SettingsInv'
  <2> DEFINE command == [NoCommand EXCEPT !.op = "finalize", !.slots = g]
  <2>1. BeginFlash("finalize", command) /\ command.op \in FlashOps
    BY <1>5 DEF FinalizeProgramEntry, NoCommand, FlashOps
  <2>2. command \in CommandRecord
    BY <1>2, <1>5, CommandsSent
  <2> HIDE DEF command
  <2> QED
    BY <1>3, <2>1, <2>2, Zenon
<1>6. ASSUME NEW g \in UploadTargets, NEW page \in Pages, WriteProgramPart(g, page) PROVE SettingsInv'
  <2> DEFINE command == [NoCommand EXCEPT !.op = "write", !.slots = g, !.data = {page}]
  <2>1. BeginFlash(page, command) /\ command.op \in FlashOps
    BY <1>6 DEF WriteProgramPart, NoCommand, FlashOps
  <2>2. command \in CommandRecord
    BY <1>2, <1>6, CommandsSent
  <2> HIDE DEF command
  <2> QED
    BY <1>3, <2>1, <2>2, Zenon
<1>7. ASSUME NEW g \in UploadTargets, CopyBootSlots(Slots \ g, g) PROVE SettingsInv'
  <2> DEFINE command == [NoCommand EXCEPT !.op = "copy erase", !.slots = g, !.sectors = Sectors,
                                          !.source = Slots \ g]
  <2>1. BeginFlash("copy", command) /\ command.op \in FlashOps
    BY <1>7 DEF CopyBootSlots, NoCommand, FlashOps
  <2>2. command \in CommandRecord
    BY <1>2, <1>7, CommandsSent
  <2> HIDE DEF command
  <2> QED
    BY <1>3, <2>1, <2>2, Zenon
<1>8. ASSUME NEW m \in MaskPairs, SetBootSlots(m[1], m[2]) PROVE SettingsInv'
  <2> DEFINE command == [NoCommand EXCEPT !.op = "set slots", !.slots = m[1], !.source = m[2]]
  <2>1. m[1] \in SUBSET (0 .. 7) /\ m[2] \in SUBSET (0 .. 7)
    BY <1>8, BootConstants
  <2>2. command \in CommandRecord
    BY <2>1, CommandsSent
  <2>3. /\ Accepted(m[1]) /\ Accepted(m[2]) /\ Begin("slots", command)
        /\ UNCHANGED lock
    BY <1>8 DEF SetBootSlots, Accepted, WholeGroups
  <2>4. command.op = "set slots" /\ command.slots = m[1] /\ command.source = m[2]
    BY DEF NoCommand
  <2> HIDE DEF command
  <2> QED
    BY <1>1, <2>2, <2>3, <2>4 DEF FlashOps, SettingsOps
<1> QED
  BY <1>4, <1>5, <1>6, <1>7, <1>8, Zenon DEF SendCommand

(* A command that writes to the flash goes on or ends.                      *)
LEMMA CommandStep ==
    ASSUME SettingsInv, cmd.op \in FlashOps, flash' \in [Slots -> SUBSET Bits],
           UNCHANGED <<settings, mcu, phase, index, scrub, offset, attempts>>,
           \/ cmd' = NoCommand /\ lock' = "free"
           \/ cmd' \in CommandRecord /\ cmd'.op \in FlashOps /\ UNCHANGED lock
    PROVE  SettingsInv'
<1>1. PlaceOK' /\ SettingsOK'
  BY DEF SettingsInv, PlaceOK, SettingsOK, SettingsAccepted
<1>2. ScrubOK'
  BY DEF SettingsInv, ScrubOK
<1>3. phase = "confirmed" /\ lock = "cmd"
  BY DEF SettingsInv, CommandOK, LockHeld, FlashOps
<1>4. CommandOK'
  BY <1>3, NoCommandTyped DEF CommandOK, FlashOps, SettingsOps
<1>5. LockHeld'
  BY <1>3, NoCommandTyped DEF SettingsInv, LockHeld, FlashOps
<1> QED
  BY <1>1, <1>2, <1>4, <1>5 DEF SettingsInv

(* The fields of the command and the flash have their types.                *)
LEMMA CommandValues ==
    ASSUME SettingsInv
    PROVE  /\ cmd \in CommandRecord /\ cmd.slots \in SUBSET (0 .. 7) /\ cmd.sectors \in SUBSET Sectors
           /\ cmd.data \in SUBSET Pages /\ cmd.source \in SUBSET (0 .. 7) /\ cmd.ok \in BOOLEAN
           /\ flash \in [Slots -> SUBSET Bits]
BY DEF SettingsInv, CommandOK, CommandRecord, ScrubOK

(* A command that writes to the flash keeps the lock until it ends.         *)
LEMMA ExecuteFlashKeeps ==
    ASSUME SettingsInv, EraseSector \/ WriteContent \/ FinalizeEntry \/ CopyPart
    PROVE  SettingsInv'
<1> DEFINE slot == First(cmd.slots)
           sector == First(cmd.sectors)
           Goes(c) == cmd' = c /\ UNCHANGED <<settings, mcu, phase, index, lock, scrub, offset, attempts>>
           Ended == /\ cmd' = NoCommand /\ lock' = "free"
                    /\ UNCHANGED <<settings, mcu, phase, index, scrub, offset, attempts>>
<1>0. /\ \A c : Continue(c) => Goes(c)
      /\ \A s : Finish(s) => Ended
  BY Zenon DEF Continue, Finish
<1>1. Slots \ cmd.source \in SUBSET (0 .. 7)
  BY DefaultsAreValid
<1>2. CASE EraseSector
  <2>1. cmd.op \in FlashOps
    BY <1>2 DEF EraseSector, FlashOps
  <2>2. \/ flash' = [flash EXCEPT ![slot] = @ \ BitsOf(sector)]
        \/ UNCHANGED flash
    BY <1>2 DEF EraseSector, FlashFails
  <2>3. \/ Ended
        \/ Goes([cmd EXCEPT !.sectors = @ \ {sector}])
        \/ Goes([cmd EXCEPT !.slots = @ \ {slot}, !.sectors = Sectors])
        \/ Goes([cmd EXCEPT !.op = "copy", !.slots = Slots \ cmd.source, !.sectors = Sectors])
    BY <1>2, <1>0 DEF EraseSector
  <2>4. flash' \in [Slots -> SUBSET Bits]
    BY <2>2, CommandValues
  <2>5. ASSUME NEW c \in CommandRecord, c.op \in FlashOps, Goes(c) PROVE SettingsInv'
    BY <2>1, <2>4, <2>5, CommandStep
  <2>6. ASSUME Ended PROVE SettingsInv'
    BY <2>1, <2>4, <2>6, CommandStep
  <2>7. /\ cmd \in CommandRecord /\ cmd.slots \ {slot} \in SUBSET (0 .. 7)
        /\ cmd.sectors \ {sector} \in SUBSET Sectors /\ Sectors \in SUBSET Sectors
    BY CommandValues
  <2>8. /\ [cmd EXCEPT !.sectors = @ \ {sector}] \in CommandRecord
        /\ [cmd EXCEPT !.sectors = @ \ {sector}].op = cmd.op
    BY <2>7 DEF CommandRecord
  <2>9. /\ [cmd EXCEPT !.slots = @ \ {slot}, !.sectors = Sectors] \in CommandRecord
        /\ [cmd EXCEPT !.slots = @ \ {slot}, !.sectors = Sectors].op = cmd.op
    BY <2>7 DEF CommandRecord
  <2>10. LET c == [cmd EXCEPT !.op = "copy", !.slots = Slots \ cmd.source, !.sectors = Sectors]
         IN  c \in CommandRecord /\ c.op \in FlashOps
    BY <1>1, <2>7 DEF CommandRecord, FlashOps
  <2> HIDE DEF Goes, Ended, slot, sector
  <2> QED
    BY <2>1, <2>3, <2>5, <2>6, <2>8, <2>9, <2>10
<1>3. CASE WriteContent \/ FinalizeEntry
  <2>1. cmd.op \in FlashOps
    BY <1>3 DEF WriteContent, FinalizeEntry, FlashOps
  <2>2. \/ flash' = [flash EXCEPT ![slot] = @ \cup cmd.data]
        \/ flash' = [flash EXCEPT ![slot] = @ \cup {"valid"}]
        \/ UNCHANGED flash
    BY <1>3 DEF WriteContent, FinalizeEntry, FlashFails
  <2>3. Ended \/ Goes([cmd EXCEPT !.slots = @ \ {slot}])
    BY <1>3, <1>0 DEF WriteContent, FinalizeEntry
  <2>4. flash' \in [Slots -> SUBSET Bits]
    <3>1. "valid" \in Bits
      BY Zenon, BootAssumption
    <3>2. cmd.data \subseteq Bits
      BY CommandValues, BootConstants
    <3> QED
      BY <2>2, <3>1, <3>2, CommandValues
  <2>5. /\ [cmd EXCEPT !.slots = @ \ {slot}] \in CommandRecord
        /\ [cmd EXCEPT !.slots = @ \ {slot}].op = cmd.op
    BY CommandValues DEF CommandRecord
  <2>6. CASE Ended
    BY <2>1, <2>4, <2>6, CommandStep
  <2>7. CASE Goes([cmd EXCEPT !.slots = @ \ {slot}])
    <3> DEFINE c == [cmd EXCEPT !.slots = @ \ {slot}]
    <3>1. c \in CommandRecord /\ c.op \in FlashOps /\ Goes(c)
      BY <2>1, <2>5, <2>7
    <3> HIDE DEF c
    <3> QED
      BY <2>1, <2>4, <3>1, CommandStep
  <2> QED
    BY <2>3, <2>6, <2>7, Zenon
<1>4. CASE CopyPart
  <2> DEFINE part == Vote(cmd.source) \cap BitsOf(sector)
             next == IF cmd.slots \ {slot} # {} THEN [cmd EXCEPT !.slots = @ \ {slot}]
                     ELSE [cmd EXCEPT !.slots = Slots \ cmd.source, !.sectors = @ \ {sector}]
  <2>1. cmd.op \in FlashOps
    BY <1>4 DEF CopyPart, FlashOps
  <2>2. flash' = [flash EXCEPT ![slot] = @ \cup part] \/ UNCHANGED flash
    BY <1>4 DEF CopyPart, FlashFails
  <2>3. Ended \/ Goes(next) \/ Goes([next EXCEPT !.ok = FALSE])
    BY <1>4, <1>0 DEF CopyPart
  <2>4. flash' \in [Slots -> SUBSET Bits]
    <3>1. part \subseteq Bits
      BY DEF BitsOf
    <3> HIDE DEF part
    <3> QED
      BY <2>2, <3>1, CommandValues
  <2>5. next \in CommandRecord /\ next.op = cmd.op
    <3>1. [cmd EXCEPT !.slots = @ \ {slot}] \in CommandRecord
          /\ [cmd EXCEPT !.slots = @ \ {slot}].op = cmd.op
      BY CommandValues DEF CommandRecord
    <3>2. LET c == [cmd EXCEPT !.slots = Slots \ cmd.source, !.sectors = @ \ {sector}]
          IN  c \in CommandRecord /\ c.op = cmd.op
      BY <1>1, CommandValues DEF CommandRecord
    <3> QED
      BY <3>1, <3>2
  <2> HIDE DEF next
  <2>6. [next EXCEPT !.ok = FALSE] \in CommandRecord /\ [next EXCEPT !.ok = FALSE].op = cmd.op
    BY <2>5, Zenon DEF CommandRecord
  <2>7. ASSUME NEW c \in CommandRecord, c.op = cmd.op, Goes(c) PROVE SettingsInv'
    BY <2>1, <2>4, <2>7, CommandStep
  <2>8. CASE Ended
    BY <2>1, <2>4, <2>8, CommandStep
  <2> HIDE DEF Goes, Ended
  <2> QED
    BY <2>3, <2>5, <2>6, <2>7, <2>8, Zenon
<1> QED
  BY <1>2, <1>3, <1>4

(* The telecommand writes two accepted masks before the mark.               *)
LEMMA WriteSettingsKeeps == SettingsInv /\ WriteSettings => SettingsInv'
<1> SUFFICES ASSUME SettingsInv, WriteSettings PROVE SettingsInv'
  OBVIOUS
<1>1. /\ UNCHANGED <<flash, mcu, phase, index, lock, scrub, offset, attempts>>
      /\ cmd.op \in SettingsOps /\ cmd.op \notin FlashOps
  BY DEF WriteSettings, hist, SettingsOps, FlashOps
<1>2. phase = "confirmed" /\ settings.magic
      /\ Accepted(cmd.slots) /\ Accepted(cmd.source)
  BY <1>1, SettingsValues DEF SettingsInv, CommandOK, SettingsOps
<1>3. /\ settings \in SettingsRecord /\ BootCounter \in 0 .. BootCounterTop + 1
      /\ Accepted(settings.slots) /\ Accepted(settings.failsafe)
  BY <1>2, SettingsValues, Zenon
<1>4. cmd.slots \in SUBSET (0 .. 7) /\ cmd.source \in SUBSET (0 .. 7) /\ cmd \in CommandRecord
  BY CommandValues, Zenon
<1>5. /\ settings' \in SettingsRecord /\ settings'.magic
      /\ Accepted(settings'.slots) /\ Accepted(settings'.failsafe)
  <2>1. CASE settings' = [settings EXCEPT !.slots = cmd.slots]
    <3>1. settings' \in SettingsRecord /\ settings'.magic = settings.magic
          /\ settings'.slots = cmd.slots /\ settings'.failsafe = settings.failsafe
      BY <1>3, <1>4, <2>1, SettingsWrite, Zenon
    <3>2. settings'.magic
      BY <1>2, <3>1, Zenon
    <3> QED
      BY <1>2, <1>3, <3>1, <3>2
  <2>2. CASE settings' = [settings EXCEPT !.failsafe = cmd.source]
    <3>1. settings' \in SettingsRecord /\ settings'.magic = settings.magic
          /\ settings'.slots = settings.slots /\ settings'.failsafe = cmd.source
      BY <1>3, <1>4, <2>2, SettingsWrite, Zenon
    <3>2. settings'.magic
      BY <1>2, <3>1, Zenon
    <3> QED
      BY <1>2, <1>3, <3>1, <3>2
  <2>3. CASE settings' = [settings EXCEPT !.magic = TRUE]
    BY <1>2, <1>3, <1>4, <2>3, SettingsWrite, Zenon
  <2> QED
    BY <2>1, <2>2, <2>3 DEF WriteSettings
<1>6. SettingsOK'
  <2>1. attempts' \in Nat
    BY <1>1, SettingsValues
  <2> QED
    BY <1>1, <1>2, <1>5, <2>1 DEF SettingsOK, SettingsRecord, SettingsAccepted, Reverting
<1>7. /\ cmd' \in CommandRecord /\ cmd'.op \notin FlashOps /\ (cmd'.op = "none" => cmd' = NoCommand)
      /\ cmd'.op \in SettingsOps => cmd'.slots = cmd.slots /\ cmd'.source = cmd.source
  <2>1. CASE cmd' = [cmd EXCEPT !.op = "set failsafe"]
    BY <1>4, <2>1 DEF CommandRecord, SettingsOps, FlashOps
  <2>2. CASE cmd' = [cmd EXCEPT !.op = "set magic"]
    BY <1>4, <2>2 DEF CommandRecord, SettingsOps, FlashOps
  <2>3. CASE cmd' = NoCommand
    BY <2>3, NoCommandTyped DEF SettingsOps, FlashOps
  <2> QED
    BY <2>1, <2>2, <2>3 DEF WriteSettings
<1>8. CommandOK'
  BY <1>1, <1>2, <1>7 DEF CommandOK
<1>9. PlaceOK' /\ ScrubOK'
  BY <1>1 DEF SettingsInv, PlaceOK, ScrubOK
<1>10. LockHeld'
  BY <1>1, <1>7 DEF SettingsInv, LockHeld
<1> QED
  BY <1>6, <1>8, <1>9, <1>10 DEF SettingsInv

(* The erasure of the file system flash leads to the revert and leaves the  *)
(* settings and the copies alone.                                           *)
LEMMA EraseN25QKeeps == SettingsInv /\ EraseN25QStep => SettingsInv'
<1> SUFFICES ASSUME SettingsInv, EraseN25QStep PROVE SettingsInv'
  OBVIOUS
<1>1. /\ phase = "erase n25q" /\ phase' = "revert slots"
      /\ UNCHANGED <<flash, settings, mcu, index, lock, scrub, offset, cmd, attempts>>
  BY DEF EraseN25QStep, memory, ram, hist
<1>2. PlaceOK'
  BY <1>1 DEF SettingsInv, PlaceOK, Phases
<1>3. SettingsOK'
  BY <1>1, SettingsKept DEF Reverting
<1>4. ScrubOK' /\ CommandOK'
  BY <1>1 DEF SettingsInv, ScrubOK, CommandOK
<1> QED
  BY <1>1, <1>2, <1>3, <1>4, LockKept DEF SettingsInv

(* Every step keeps the invariant.                                          *)
LEMMA SettingsInvStep == SettingsInv /\ [Next]_vars => SettingsInv'
<1> SUFFICES ASSUME SettingsInv, [Next]_vars PROVE SettingsInv'
  OBVIOUS
<1>1. CASE Bootloader
  BY <1>1, ResolveKeeps, ProceedKeeps, LoadKeeps, Zenon DEF Bootloader
<1>2. CASE Application
  BY <1>2, ConfirmKeeps, RestartKeeps, Zenon DEF Application, WatchdogReset
<1>3. CASE Scrubber
  BY <1>3, ScrubSlotsKeeps, ScrubEraseKeeps, ScrubProgramKeeps, Zenon DEF Scrubber
<1>4. CASE SafeMode
  BY <1>4, EraseN25QKeeps, RevertKeeps, RestartKeeps, Zenon DEF SafeMode, Reboot
<1>5. CASE SendCommand
  BY <1>5, SendKeeps
<1>6. CASE ExecuteCommand
  BY <1>6, ExecuteFlashKeeps, WriteSettingsKeeps, Zenon DEF ExecuteCommand
<1>7. CASE Reset
  BY <1>7, RestartKeeps, Zenon DEF Reset
<1>8. CASE Upset
  BY <1>8, UpsetKeeps
<1>9. CASE UNCHANGED vars
  BY <1>9, ScrubKept, CommandKept, LockKept, SettingsKept
  DEF vars, SettingsInv, PlaceOK, SettingsOK, SettingsAccepted
<1> QED
  BY <1>1, <1>2, <1>3, <1>4, <1>5, <1>6, <1>7, <1>8, <1>9, Zenon DEF Next

(* Settings that are marked valid name boot slots the telecommand accepts,  *)
(* wherever a reset cuts off the bootloader, the telecommand or the safe    *)
(* mode program (settings.cpp:127, revert_boot_slots/step.cpp).             *)
THEOREM SettingsAreSound == Spec => [](TypeOK /\ SettingsWellFormed)
<1> QED
  BY SettingsInit, SettingsInvStep, SettingsInvIsTyped, PTL DEF Spec

-----------------------------------------------------------------------------
(* The boot slots are left only for a reason *)

(* The counter is ahead of the last confirmation by no more than the boots  *)
(* since, unless one of the two was reset alone or the counter has come to  *)
(* its end; the revert resets both before it marks the settings valid.      *)
Counted ==
    \/ attempts >= UnconfirmedBoots
    \/ settings.confirmed > settings.counter
    \/ settings.counter >= BootCounterTop
    \/ settings.counter - settings.confirmed <= attempts
AttemptsCounted ==
    /\ settings.magic => Counted
    /\ phase \in {"revert confirmed", "revert magic"} => settings.counter = 0
    /\ phase = "revert magic" => settings.confirmed = 0

(* A blank FRAM and a set up one begin with no attempt.                     *)
LEMMA AttemptsInit == Init => AttemptsCounted
<1> SUFFICES ASSUME Init PROVE AttemptsCounted
  OBVIOUS
<1>1. attempts = 0 /\ phase = "resolve"
  BY DEF Init
<1>2. ~settings.magic \/ (settings.counter = 0 /\ settings.confirmed = 0)
  <2>1. settings \in {[magic |-> FALSE, slots |-> 0 .. 7, failsafe |-> 0 .. 7,
                       counter |-> BootCounterTop + 1, confirmed |-> BootCounterTop + 1],
                      [magic |-> TRUE, slots |-> DefaultBootSlot, failsafe |-> DefaultFailsafeBootSlot,
                       counter |-> 0, confirmed |-> 0]}
    BY Zenon DEF Init
  <2>2. CASE settings = [magic |-> FALSE, slots |-> 0 .. 7, failsafe |-> 0 .. 7,
                         counter |-> BootCounterTop + 1, confirmed |-> BootCounterTop + 1]
    BY <2>2, Zenon
  <2>3. CASE settings = [magic |-> TRUE, slots |-> DefaultBootSlot,
                         failsafe |-> DefaultFailsafeBootSlot, counter |-> 0, confirmed |-> 0]
    BY <2>3
  <2> QED
    BY <2>1, <2>2, <2>3, Zenon
<1> QED
  BY <1>1, <1>2 DEF AttemptsCounted, Counted

(* Counts that are equal agree with any number of boots.                    *)
LEMMA CountedWhenEqual ==
    ASSUME NEW n \in Nat, settings'.counter = n, settings'.confirmed = n, attempts' \in Nat
    PROVE  Counted'
<1>1. settings'.counter - settings'.confirmed = 0
  OBVIOUS
<1> QED
  BY <1>1 DEF Counted

(* A step that leaves the counts as they are.                               *)
LEMMA AttemptsKept ==
    ASSUME AttemptsCounted, UNCHANGED attempts,
           settings'.counter = settings.counter, settings'.confirmed = settings.confirmed,
           settings'.magic => settings.magic,
           phase' \in {"revert confirmed", "revert magic"} => phase' = phase
    PROVE  AttemptsCounted'
BY DEF AttemptsCounted, Counted

(* The boots that were not confirmed are counted in the settings as well.   *)
LEMMA AttemptsStep == SettingsInv /\ AttemptsCounted /\ [Next]_vars => AttemptsCounted'
<1> SUFFICES ASSUME SettingsInv, AttemptsCounted, [Next]_vars PROVE AttemptsCounted'
  OBVIOUS
<1>0. /\ settings \in SettingsRecord /\ settings.slots \in SUBSET (0 .. 7)
      /\ settings.counter \in 0 .. BootCounterTop + 1 /\ settings.confirmed \in 0 .. BootCounterTop + 1
      /\ BootCounter \in 0 .. BootCounterTop + 1
  BY SettingsValues, Zenon
<1>1. CASE ResolveFailedBoot
  <2>1. UNCHANGED attempts /\ phase' = "select"
    BY <1>1 DEF ResolveFailedBoot, hist
  <2>2. settings'.counter = settings.counter /\ settings'.confirmed = settings.confirmed
        /\ settings'.magic = settings.magic
    BY <1>0, <1>1 DEF ResolveFailedBoot, SettingsRecord
  <2> QED
    BY <2>1, <2>2, AttemptsKept
<1>2. CASE ProceedWithBooting
  <2> DEFINE n == IF settings.counter <= BootCounterTop THEN settings.counter + 1 ELSE settings.counter
  <2>1. /\ attempts' = IF phase' \in {"app", "load"} /\ attempts < UnconfirmedBoots
                       THEN attempts + 1 ELSE attempts
        /\ phase' \in {"safe", "app", "load"}
    BY <1>2 DEF ProceedWithBooting, Boots, StoreAndBoot
  <2>2. settings'.magic = settings.magic /\ settings'.confirmed = settings.confirmed
    BY <1>0, <1>2 DEF ProceedWithBooting, StoreAndBoot, CountBootAttempts, SettingsRecord
  <2>3. \/ settings'.counter = settings.counter
        \/ settings'.counter = n /\ phase' \in {"app", "load"}
    BY <1>0, <1>2 DEF ProceedWithBooting, StoreAndBoot, Boots, CountBootAttempts, SettingsRecord,
                      UpperBootSlot, SafeModeBootSlot
  <2>4. attempts \in Nat
    BY SettingsValues, Zenon
  <2>5. settings.magic => Counted'
    <3>1. settings.magic => Counted
      BY DEF AttemptsCounted
    <3> QED
      BY <1>0, <2>1, <2>2, <2>3, <2>4, <3>1, BootConstants DEF Counted
  <2> QED
    BY <2>1, <2>2, <2>5 DEF AttemptsCounted
<1>3. CASE LoadPage \/ BootToAddress \/ EraseN25QStep
  BY <1>3, AttemptsKept DEF LoadPage, BootToAddress, EraseN25QStep, memory, hist
<1>4. CASE ConfirmBoot
  <2>1. attempts' = 0 /\ phase' = "confirmed" /\ settings' = [settings EXCEPT !.confirmed = BootCounter]
        /\ phase = "app"
    BY <1>4 DEF ConfirmBoot
  <2>2. BootCounter = settings.counter
    BY <2>1, SettingsValues DEF BootCounter
  <2>3. settings'.counter = settings.counter /\ settings'.confirmed = settings.counter
    BY <1>0, <2>1, <2>2 DEF SettingsRecord
  <2> QED
    BY <1>0, <2>1, <2>3 DEF AttemptsCounted, Counted
<1>5. CASE Restart /\ UNCHANGED attempts
  BY <1>5, AttemptsKept DEF Restart, memory
<1>6. CASE Scrubber
  <2>1. UNCHANGED <<settings, attempts>>
    BY <1>6 DEF Scrubber, ScrubSlots, ScrubErase, ScrubProgram, memory, hist
  <2>2. phase' \in {"revert confirmed", "revert magic"} => phase' = phase
    BY <1>6 DEF Scrubber, ScrubSlots, ScrubErase, ScrubProgram, SectorDone
  <2> QED
    BY <2>1, <2>2, AttemptsKept
<1>7. CASE RevertBootSlots
  <2>1. CASE Revert("revert slots", "revert failsafe", [settings EXCEPT !.slots = DefaultBootSlot])
             \/ Revert("revert failsafe", "revert counter",
                       [settings EXCEPT !.failsafe = DefaultFailsafeBootSlot])
    <3>1. UNCHANGED attempts /\ phase' \in {"revert failsafe", "revert counter"}
      BY <2>1 DEF Revert
    <3>2. settings'.counter = settings.counter /\ settings'.confirmed = settings.confirmed
          /\ settings'.magic = settings.magic
      BY <1>0, <2>1 DEF Revert, SettingsRecord
    <3> QED
      BY <3>1, <3>2, AttemptsKept
  <2>2. CASE Revert("revert counter", "revert confirmed", [settings EXCEPT !.counter = 0])
    <3>1. UNCHANGED attempts /\ phase' = "revert confirmed"
      BY <2>2 DEF Revert
    <3>2. settings'.counter = 0 /\ settings'.confirmed = settings.confirmed
      BY <1>0, <2>2 DEF Revert, SettingsRecord
    <3>3. attempts \in Nat
      BY SettingsValues, Zenon
    <3> QED
      <4>1. CASE settings.confirmed = 0
        <5>1. Counted'
          BY <3>1, <3>2, <3>3, <4>1, CountedWhenEqual
        <5> QED
          BY <3>1, <3>2, <5>1 DEF AttemptsCounted
      <4>2. CASE settings.confirmed > 0
        <5>1. Counted'
          BY <3>2, <4>2 DEF Counted
        <5> QED
          BY <3>1, <3>2, <5>1 DEF AttemptsCounted
      <4> QED
        BY <1>0, <4>1, <4>2
  <2>3. CASE Revert("revert confirmed", "revert magic", [settings EXCEPT !.confirmed = BootCounter])
    <3>1. attempts' = 0 /\ phase' = "revert magic" /\ phase = "revert confirmed"
      BY <2>3 DEF Revert
    <3>2. BootCounter = 0 /\ settings.counter = 0
      BY <3>1 DEF AttemptsCounted, BootCounter
    <3>3. settings'.counter = 0 /\ settings'.confirmed = 0
      BY <1>0, <2>3, <3>2 DEF Revert, SettingsRecord
    <3> QED
      <4>1. Counted'
        BY <3>1, <3>3, CountedWhenEqual
      <4> QED
        BY <3>1, <3>3, <4>1 DEF AttemptsCounted
  <2>4. CASE Revert("revert magic", "reboot", [settings EXCEPT !.magic = TRUE])
    <3>1. UNCHANGED attempts /\ phase' = "reboot" /\ phase = "revert magic"
      BY <2>4 DEF Revert
    <3>2. settings'.counter = 0 /\ settings'.confirmed = 0
      BY <1>0, <2>4, <3>1 DEF Revert, SettingsRecord, AttemptsCounted
    <3>3. attempts \in Nat
      BY SettingsValues, Zenon
    <3> QED
      <4>1. Counted'
        BY <3>1, <3>2, <3>3, CountedWhenEqual
      <4> QED
        BY <3>1, <4>1 DEF AttemptsCounted
  <2> QED
    BY <1>7, <2>1, <2>2, <2>3, <2>4, Zenon DEF RevertBootSlots
<1>8. CASE SendCommand
  <2>1. UNCHANGED <<settings, attempts, phase>>
    BY <1>8 DEF SendCommand, EraseBootTableEntry, FinalizeProgramEntry, WriteProgramPart, CopyBootSlots,
                SetBootSlots, BeginFlash, Begin, memory
  <2> QED
    BY <2>1, AttemptsKept
<1>9. CASE EraseSector \/ WriteContent \/ FinalizeEntry \/ CopyPart
  <2>1. UNCHANGED <<settings, attempts, phase>>
    BY <1>9 DEF EraseSector, WriteContent, FinalizeEntry, CopyPart, Finish, Continue
  <2> QED
    BY <2>1, AttemptsKept
<1>10. CASE WriteSettings
  <2>1. UNCHANGED <<attempts, phase>>
    BY <1>10 DEF WriteSettings, hist
  <2>2. settings.magic
    BY <1>10, SettingsValues DEF WriteSettings, SettingsInv, CommandOK
  <2>3. settings'.counter = settings.counter /\ settings'.confirmed = settings.confirmed
    BY <1>0, <1>10 DEF WriteSettings, SettingsRecord
  <2> QED
    BY <2>1, <2>2, <2>3, AttemptsKept
<1>11. CASE Upset
  BY <1>11, AttemptsKept DEF Upset, hist
<1>12. CASE UNCHANGED vars
  BY <1>12, AttemptsKept DEF vars
<1> QED
  BY <1>1, <1>2, <1>3, <1>4, <1>5, <1>6, <1>7, <1>8, <1>9, <1>10, <1>11, <1>12
  DEF Next, Bootloader, Application, SafeMode, ExecuteCommand, WatchdogReset, Reset, Reboot

(* The bootloader leaves valid slots for others only after UnconfirmedBoots *)
(* starts without a confirmation, after a revert of the safe mode program   *)
(* that was cut off, or at the end of the counter (boot.cpp:177-216).       *)
THEOREM SlotsAreKept == Spec => SlotsKept
<1>1. ASSUME SettingsInv, AttemptsCounted, [Next]_vars,
             phase \in {"resolve", "select"}, settings'.slots # settings.slots
      PROVE  MayLeaveSlots
  <2>0. /\ settings \in SettingsRecord
        /\ settings.counter \in 0 .. BootCounterTop + 1 /\ settings.confirmed \in 0 .. BootCounterTop + 1
        /\ attempts \in Nat
    BY <1>1, SettingsValues, Zenon
  <2>1. ~RevertBootSlots /\ ~WriteSettings
    <3>1. ~RevertBootSlots
      BY <1>1 DEF RevertBootSlots, Revert
    <3>2. ~WriteSettings
      BY <1>1 DEF WriteSettings, SettingsInv, CommandOK
    <3> QED
      BY <3>1, <3>2
  <2>2. ResolveFailedBoot \/ ProceedWithBooting
    <3>1. ConfirmBoot => settings'.slots = settings.slots
      BY <2>0 DEF ConfirmBoot, SettingsRecord
    <3>2. LoadPage \/ BootToAddress \/ EraseN25QStep \/ Restart \/ Upset \/ Scrubber \/ SendCommand
            => UNCHANGED settings
      BY DEF LoadPage, BootToAddress, EraseN25QStep, Restart, Upset, Scrubber, ScrubSlots, ScrubErase, ScrubProgram,
             SendCommand, EraseBootTableEntry, FinalizeProgramEntry, WriteProgramPart, CopyBootSlots,
             SetBootSlots, BeginFlash, Begin, memory
    <3>3. EraseSector \/ WriteContent \/ FinalizeEntry \/ CopyPart => UNCHANGED settings
      BY DEF EraseSector, WriteContent, FinalizeEntry, CopyPart, Finish, Continue
    <3>4. UNCHANGED vars => UNCHANGED settings
      BY DEF vars
    <3> QED
      BY <1>1, <2>1, <3>1, <3>2, <3>3, <3>4, Zenon
      DEF Next, Bootloader, Application, SafeMode, ExecuteCommand, WatchdogReset, Reset, Reboot
  <2>3. CASE ResolveFailedBoot
    <3>1. settings.magic /\ Unconfirmed >= UnconfirmedBoots
      BY <1>1, <2>3 DEF ResolveFailedBoot
    <3>2. Counted
      BY <1>1, <3>1 DEF AttemptsCounted
    <3> QED
      BY <2>0, <3>1, <3>2, BootConstants DEF Counted, MayLeaveSlots, Unconfirmed
  <2>4. CASE ProceedWithBooting
    <3>1. settings.magic
      <4> SUFFICES ASSUME ~settings.magic PROVE UNCHANGED settings
        BY <1>1
      <4>1. UpperBootSlot # SafeModeBootSlot
        BY DEF UpperBootSlot, SafeModeBootSlot
      <4> QED
        BY <2>4, <4>1 DEF ProceedWithBooting
    <3>2. settings' # [settings EXCEPT !.counter = IF @ <= BootCounterTop THEN @ + 1 ELSE @]
      BY <1>1, <2>0 DEF SettingsRecord
    <3>3. ~IsBootSlotsValid(settings.slots) \/ settings.counter >= BootCounterTop
      BY <1>1, <2>4, <3>1, <3>2 DEF ProceedWithBooting, CountBootAttempts, BootSlots, BootCounter
    <3> QED
      BY <3>3 DEF MayLeaveSlots
  <2> QED
    BY <2>2, <2>3, <2>4
<1>2. SettingsInv /\ AttemptsCounted /\ [Next]_vars =>
         [(phase \in {"resolve", "select"} /\ settings'.slots # settings.slots) => MayLeaveSlots]_vars
  BY <1>1
<1> QED
  BY <1>2, SettingsInit, SettingsInvStep, AttemptsInit, AttemptsStep, PTL DEF Spec, SlotsKept

-----------------------------------------------------------------------------
(* The copies of a program: one of a group may be damaged *)

(* Every slot is in one group.                                              *)
LEMMA GroupsPartition ==
    /\ \A g, h \in Groups : g # h => g \cap h = {} /\ h = Slots \ g
    /\ \A g \in Groups : g # {} /\ Slots \ g # g
    /\ \A s \in Slots : \E g \in Groups : s \in g
    /\ DefaultBootSlot # DefaultFailsafeBootSlot
<1>1. DefaultBootSlot \cap DefaultFailsafeBootSlot = {} /\ DefaultBootSlot # {}
      /\ DefaultFailsafeBootSlot # {}
  BY DEF DefaultBootSlot, DefaultFailsafeBootSlot
<1>2. Slots \ DefaultBootSlot = DefaultFailsafeBootSlot /\ Slots \ DefaultFailsafeBootSlot = DefaultBootSlot
  BY DEF DefaultBootSlot, DefaultFailsafeBootSlot, Slots
<1>3. \A s \in Slots : s \in DefaultBootSlot \/ s \in DefaultFailsafeBootSlot
  BY DEF DefaultBootSlot, DefaultFailsafeBootSlot, Slots
<1>4. DefaultBootSlot # DefaultFailsafeBootSlot
  BY <1>1
<1> QED
  BY <1>1, <1>2, <1>3, <1>4, Zenon DEF Groups

Whole(s, g) == flash[s] = installed[g]
Installed == {g \in Groups : installed[g] # None}

HistoryOK ==
    /\ installed \in [Groups -> (SUBSET Bits) \cup {None}]
    /\ session \in [slots : Groups \cup {{}}, done : SUBSET Pages]
    /\ faults \in Nat

(* The redundancy is used up by one copy at most, and it is that copy a     *)
(* scrubber of the group is about to rewrite.                               *)
OneDamaged ==
    \A g \in Installed :
        /\ \E s \in g : \A t \in g \ {s} : Whole(t, g)
        /\ faults = 0 => \A s \in g : Whole(s, g)
        /\ scrub.todo \cap g # {} =>
              faults > 0 /\ \E s \in g : scrub.todo = {s} /\ \A t \in g \ {s} : Whole(t, g)

(* How far an erase, an upload or a copy has come.                          *)
Erasing == cmd.op \in {"erase", "copy erase"}
SlotsErased(g) ==
    Erasing => /\ \A s \in g \ cmd.slots : flash[s] = {}
               /\ \A c \in Sectors \ cmd.sectors : flash[First(cmd.slots)] \cap BitsOf(c) = {}
SlotsFinalized(g) == cmd.op = "finalize" => \A s \in g \ cmd.slots : flash[s] = Bits
PartCopied(s, c) == c \notin cmd.sectors \/ (c = First(cmd.sectors) /\ s \notin cmd.slots)
PartsCopied(g) ==
    cmd.op = "copy" => \A s \in g, c \in Sectors :
        /\ ~PartCopied(s, c) => flash[s] \cap BitsOf(c) = {}
        /\ PartCopied(s, c) /\ cmd.ok /\ installed[cmd.source] # None =>
              flash[s] \cap BitsOf(c) = installed[cmd.source] \cap BitsOf(c)
CommandOf(g) ==
    /\ cmd.slots \subseteq g /\ cmd.slots # {} /\ installed[g] = None
    /\ cmd.op \in {"erase", "copy erase", "copy"} => cmd.sectors # {} /\ session = NoSession
    /\ cmd.op \in {"copy erase", "copy"} => cmd.source = Slots \ g
    /\ SlotsErased(g) /\ SlotsFinalized(g) /\ PartsCopied(g)
CommandUnderWay == cmd.op \in FlashOps => \E g \in Groups : CommandOf(g)

(* All copies of an upload are alike, but for the part that is being        *)
(* written, and hold what was written before.                               *)
Adds == IF cmd.op = "write" THEN cmd.data ELSE {"valid"}
Added(s) == IF cmd.op \in {"write", "finalize"} /\ cmd.slots \cap session.slots # {} /\ s \notin cmd.slots
            THEN Adds ELSE {}
CopiesAlike(content) ==
    session.done \subseteq content /\ \A s \in session.slots : flash[s] = content \cup Added(s)
UploadUnderWay ==
    /\ session.slots # {} => installed[session.slots] = None
    /\ faults = 0 => scrub.todo \cap session.slots = {} /\ \E content \in SUBSET Bits : CopiesAlike(content)

CopiesInv ==
    /\ HistoryOK
    /\ OneDamaged
    /\ CommandUnderWay
    /\ UploadUnderWay
    /\ RunsInstalledProgram

(* Two copies that agree are the vote.                                      *)
LEMMA VoteOfTwo ==
    ASSUME NEW g \in Groups, NEW s \in g, NEW v \in SUBSET Bits,
           \A t \in g \ {s} : flash[t] = v
    PROVE  Vote(g) = v
<1>1. \E a, b \in g \ {s} : a < b
  <2>1. CASE g = DefaultBootSlot
    BY <2>1 DEF DefaultBootSlot
  <2>2. CASE g = DefaultFailsafeBootSlot
    BY <2>2 DEF DefaultFailsafeBootSlot
  <2> QED
    BY <2>1, <2>2 DEF Groups
<1>2. \A a, b \in g : a < b => a # s \/ b # s
  <2>1. g \subseteq Nat
    <3>1. g \subseteq Slots
      BY GroupsAreThree
    <3> QED
      BY <3>1 DEF Slots
  <2> QED
    BY <2>1
<1>3. v \subseteq Vote(g)
  BY <1>1 DEF Vote
<1>4. Vote(g) \subseteq v
  BY <1>2 DEF Vote
<1> QED
  BY <1>3, <1>4

(* One damaged copy does not change the vote.                               *)
LEMMA VotesAreIntact == CopiesInv => \A g \in Installed : Vote(g) = installed[g]
<1> SUFFICES ASSUME CopiesInv, NEW g \in Installed PROVE Vote(g) = installed[g]
  OBVIOUS
<1>1. g \in Groups /\ installed[g] \in SUBSET Bits
  BY DEF CopiesInv, HistoryOK, Installed
<1>2. PICK s \in g : \A t \in g \ {s} : flash[t] = installed[g]
  BY DEF CopiesInv, OneDamaged, Whole
<1> QED
  BY <1>1, <1>2, VoteOfTwo

(* The invariants say what the run checks of the memory.                    *)
LEMMA CopiesAreSound == SettingsInv /\ CopiesInv => MemorySound
<1> SUFFICES ASSUME SettingsInv, CopiesInv PROVE MemorySound
  OBVIOUS
<1>1. TypeOK /\ SettingsWellFormed
  BY SettingsInvIsTyped
<1>2. VoteIntact
  BY VotesAreIntact DEF VoteIntact, Installed
<1>3. UploadIntact
  <2> SUFFICES ASSUME session.done = Pages, faults = 0, NEW s \in session.slots
               PROVE  Pages \subseteq flash[s]
    BY DEF UploadIntact
  <2>1. PICK content : CopiesAlike(content)
    BY DEF CopiesInv, UploadUnderWay
  <2> QED
    BY <2>1 DEF CopiesAlike
<1> QED
  BY <1>1, <1>2, <1>3 DEF MemorySound

(* A programmed flash holds the same entry three times.                     *)
LEMMA CopiesInit == Init => CopiesInv
<1> SUFFICES ASSUME Init PROVE CopiesInv
  OBVIOUS
<1>0. "valid" \in Bits
  BY Zenon, BootAssumption
<1>1. /\ installed = [g \in Groups |-> {"valid"} \cup Programs[g]]
      /\ flash = [s \in Slots |-> IF s \in DefaultBootSlot THEN installed[DefaultBootSlot]
                                  ELSE installed[DefaultFailsafeBootSlot]]
      /\ session = NoSession /\ faults = 0 /\ scrub = Idle /\ cmd = NoCommand /\ phase = "resolve"
  BY DEF Init
<1>2. HistoryOK
  <2>1. \A g \in Groups : {"valid"} \cup Programs[g] \in SUBSET Bits
    BY <1>0, BootConstants
  <2> QED
    BY <1>1, <2>1 DEF HistoryOK, NoSession
<1>3. \A g \in Groups : g # {} /\ \A s \in g : Whole(s, g)
  <2>1. \A g \in Groups : g # {} /\ g \subseteq Slots
    BY GroupsPartition, GroupsAreThree
  <2>2. \A s \in DefaultBootSlot : flash[s] = installed[DefaultBootSlot]
    BY <1>1, <2>1 DEF Groups
  <2>3. \A s \in DefaultFailsafeBootSlot : flash[s] = installed[DefaultFailsafeBootSlot]
    BY <1>1, <2>1, GroupsPartition DEF Groups
  <2> QED
    BY <2>1, <2>2, <2>3 DEF Groups, Whole
<1>4. OneDamaged
  BY <1>1, <1>3, NoCommandTyped DEF OneDamaged, Installed
<1>5. CommandUnderWay
  BY <1>1, NoCommandTyped DEF CommandUnderWay, FlashOps
<1>6. UploadUnderWay
  BY <1>1, NoCommandTyped DEF UploadUnderWay, CopiesAlike, NoSession
<1>7. RunsInstalledProgram
  BY <1>1 DEF RunsInstalledProgram
<1> QED
  BY <1>2, <1>4, <1>5, <1>6, <1>7 DEF CopiesInv

-----------------------------------------------------------------------------
(* Commands that write to the flash *)

(* Every bit is in one sector.                                              *)
LEMMA SectorsPartition ==
    /\ \A b \in Bits : \E c \in Sectors : b \in BitsOf(c)
    /\ \A c, d : c # d => BitsOf(c) \cap BitsOf(d) = {}
    /\ \A c : BitsOf(c) \subseteq Bits
BY DEF Sectors, BitsOf

(* What changes in one group only leaves the other as it was.               *)
LEMMA DamageElsewhere ==
    ASSUME OneDamaged, NEW h \in Groups, faults \in Nat, faults' \in Nat, faults' >= faults,
           \A g \in Groups \ {h} : /\ installed'[g] = installed[g] \/ installed'[g] = None
                                   /\ \A s \in g : flash'[s] = flash[s],
           installed'[h] = None \/ (scrub'.todo = {} /\ \A s \in h : flash'[s] = installed'[h]),
           scrub'.todo = {} \/ scrub'.todo = scrub.todo
    PROVE  OneDamaged'
<1> SUFFICES ASSUME NEW g \in Groups, installed'[g] # None
             PROVE  /\ \E s \in g : \A t \in g \ {s} : flash'[t] = installed'[g]
                    /\ faults' = 0 => \A s \in g : flash'[s] = installed'[g]
                    /\ scrub'.todo \cap g # {} =>
                          /\ faults' > 0
                          /\ \E s \in g : /\ scrub'.todo = {s}
                                          /\ \A t \in g \ {s} : flash'[t] = installed'[g]
  BY DEF OneDamaged, Installed, Whole
<1>1. CASE g = h
  BY <1>1, GroupsPartition
<1>2. CASE g # h
  <2>1. installed'[g] = installed[g] /\ g \in Installed /\ \A s \in g : flash'[s] = flash[s]
    BY <1>2 DEF Installed
  <2> QED
    BY <2>1 DEF OneDamaged, Whole
<1> QED
  BY <1>1, <1>2

(* Nothing is said of an upload when there is none.                         *)
LEMMA NoUpload ==
    ASSUME session' = NoSession
    PROVE  UploadUnderWay'
<1>1. session'.slots = {} /\ session'.done = {}
  BY DEF NoSession
<1>2. CopiesAlike({})'
  BY <1>1 DEF CopiesAlike
<1> QED
  BY <1>1, <1>2 DEF UploadUnderWay

(* The end of a command.                                                    *)
LEMMA CommandOver ==
    ASSUME HistoryOK, NEW s, Finish(s), faults' \in Nat,
           installed' \in [Groups -> (SUBSET Bits) \cup {None}],
           s \in [slots : Groups \cup {{}}, done : SUBSET Pages]
    PROVE  HistoryOK' /\ CommandUnderWay' /\ session' = s
BY NoCommandTyped DEF HistoryOK, CommandUnderWay, Finish, FlashOps

(* No upload under way is a session as well.                                *)
LEMMA NoSessionTyped == NoSession \in [slots : Groups \cup {{}}, done : SUBSET Pages]
BY DEF NoSession

(* What is known while a command writes to the flash.                       *)
LEMMA CommandRuns ==
    ASSUME SettingsInv, CopiesInv, cmd.op \in FlashOps
    PROVE  /\ phase = "confirmed" /\ scrub.todo = {} /\ lock = "cmd"
           /\ \E g \in Groups : CommandOf(g) /\ First(cmd.slots) \in cmd.slots /\ First(cmd.slots) \in g
                                /\ g \subseteq Slots
           /\ cmd.op \in {"erase", "copy erase", "copy"} => First(cmd.sectors) \in cmd.sectors
<1>1. phase = "confirmed" /\ scrub.todo = {} /\ lock = "cmd"
  BY DEF SettingsInv, LockHeld, CommandOK, FlashOps
<1>2. PICK g \in Groups : CommandOf(g)
  BY DEF CopiesInv, CommandUnderWay
<1>3. cmd.slots \subseteq Nat /\ cmd.sectors \subseteq Nat
  <2>1. cmd.slots \subseteq 0 .. 7 /\ cmd.sectors \subseteq Sectors
    BY CommandValues
  <2>2. cmd.slots \subseteq Nat
    BY <2>1
  <2>3. cmd.sectors \subseteq Nat
    BY <2>1, BootConstants
  <2> QED
    BY <2>2, <2>3
<1>4. First(cmd.slots) \in cmd.slots
  BY <1>2, <1>3, FirstOfNumbers, Zenon DEF CommandOf
<1>5. cmd.op \in {"erase", "copy erase", "copy"} => First(cmd.sectors) \in cmd.sectors
  BY <1>2, <1>3, FirstOfNumbers, Zenon DEF CommandOf
<1>6. First(cmd.slots) \in g /\ g \subseteq Slots
  BY <1>2, <1>4, GroupsAreThree DEF CommandOf
<1> QED
  BY <1>1, <1>2, <1>4, <1>5, <1>6

(* A step of a command: its group is not installed, the other keeps what it *)
(* holds.                                                                   *)
LEMMA CommandDamages ==
    ASSUME SettingsInv, CopiesInv, cmd.op \in FlashOps, NEW g \in Groups, CommandOf(g),
           NEW s \in g, NEW v, flash' = [flash EXCEPT ![s] = v] \/ UNCHANGED flash,
           UNCHANGED <<scrub, phase>>, faults' \in {faults, faults + 1},
           installed' \in [Groups -> (SUBSET Bits) \cup {None}],
           \A h \in Groups \ {g} : installed'[h] = installed[h],
           installed'[g] = None \/ \A t \in g : flash'[t] = installed'[g]
    PROVE  OneDamaged' /\ RunsInstalledProgram' /\ faults' \in Nat
<1>1. phase = "confirmed" /\ scrub.todo = {}
  BY CommandRuns
<1>2. \A h \in Groups \ {g} : \A t \in h : flash'[t] = flash[t]
  <2>1. flash \in [Slots -> SUBSET Bits]
    BY CommandValues
  <2>2. \A h \in Groups \ {g} : \A t \in h : t # s /\ t \in Slots
    BY GroupsPartition, GroupsAreThree
  <2> QED
    BY <2>1, <2>2
<1>3. faults \in Nat /\ OneDamaged
  BY DEF CopiesInv, HistoryOK
<1>4. faults' \in Nat /\ faults' >= faults
  BY <1>3
<1>5. OneDamaged'
  BY <1>1, <1>2, <1>3, <1>4, DamageElsewhere
<1> QED
  BY <1>1, <1>4, <1>5 DEF RunsInstalledProgram

(* Erase goes sector by sector, slot by slot, and starts an upload or a copy*)
(* when all of a group is erased.                                           *)
LEMMA EraseKeepsCopies == SettingsInv /\ CopiesInv /\ EraseSector => CopiesInv'
<1> SUFFICES ASSUME SettingsInv, CopiesInv, EraseSector PROVE CopiesInv'
  OBVIOUS
<1> DEFINE slot == First(cmd.slots)
           sector == First(cmd.sectors)
           more == cmd.sectors \ {sector}
           last == more = {} /\ cmd.slots = {slot}
           target == IF slot \in DefaultBootSlot THEN DefaultBootSlot ELSE DefaultFailsafeBootSlot
           erased == flash' = [flash EXCEPT ![slot] = flash[slot] \ BitsOf(sector)] /\ UNCHANGED faults
<1>1. cmd.op \in FlashOps /\ cmd.op \in {"erase", "copy erase"} /\ UNCHANGED <<scrub, phase, installed>>
  BY DEF EraseSector, FlashOps, Finish, Continue
<1>2. \/ erased /\ ~last /\ more # {} /\ Continue([cmd EXCEPT !.sectors = more])
      \/ erased /\ ~last /\ more = {} /\ Continue([cmd EXCEPT !.slots = @ \ {slot}, !.sectors = Sectors])
      \/ erased /\ last /\ cmd.op = "erase" /\ Finish([slots |-> target, done |-> {}])
      \/ erased /\ last /\ cmd.op = "copy erase"
         /\ Continue([cmd EXCEPT !.op = "copy", !.slots = Slots \ cmd.source, !.sectors = Sectors])
      \/ FlashFails /\ Finish(NoSession)
  BY DEF EraseSector
<1>3. PICK g \in Groups : CommandOf(g) /\ slot \in cmd.slots /\ slot \in g /\ g \subseteq Slots
  BY <1>1, CommandRuns
<1>4. sector \in cmd.sectors /\ cmd.sectors \subseteq Sectors /\ cmd \in CommandRecord
      /\ flash \in [Slots -> SUBSET Bits]
  BY <1>1, CommandRuns, CommandValues
<1>5. /\ cmd.slots \subseteq g /\ installed[g] = None /\ session = NoSession
      /\ cmd.op = "copy erase" => cmd.source = Slots \ g
      /\ \A s \in g \ cmd.slots : flash[s] = {}
      /\ \A c \in Sectors \ cmd.sectors : flash[slot] \cap BitsOf(c) = {}
  BY <1>1, <1>3 DEF CommandOf, SlotsErased, Erasing
<1>6. faults' \in {faults, faults + 1} /\ (UNCHANGED flash \/ erased)
  BY <1>2 DEF FlashFails
<1>7. HistoryOK /\ installed' \in [Groups -> (SUBSET Bits) \cup {None}]
  BY <1>1 DEF CopiesInv, HistoryOK
<1>8. OneDamaged' /\ RunsInstalledProgram' /\ faults' \in Nat
  <2>1. /\ \A h \in Groups \ {g} : installed'[h] = installed[h]
        /\ installed'[g] = None
    BY <1>1, <1>5
  <2>2. flash' = [flash EXCEPT ![slot] = flash[slot] \ BitsOf(sector)] \/ UNCHANGED flash
    BY <1>6
  <2> HIDE DEF slot, sector
  <2> QED
    BY <1>1, <1>3, <1>6, <1>7, <2>1, <2>2, CommandDamages
<1>9. erased => /\ flash'[slot] = flash[slot] \ BitsOf(sector)
                /\ \A s \in Slots \ {slot} : flash'[s] = flash[s]
                /\ \A c \in Sectors \ more : flash'[slot] \cap BitsOf(c) = {}
                /\ \A s \in g \ cmd.slots : flash'[s] = {}
                /\ more = {} => flash'[slot] = {}
  <2> SUFFICES ASSUME erased
               PROVE  /\ flash'[slot] = flash[slot] \ BitsOf(sector)
                      /\ \A s \in Slots \ {slot} : flash'[s] = flash[s]
                      /\ \A c \in Sectors \ more : flash'[slot] \cap BitsOf(c) = {}
                      /\ \A s \in g \ cmd.slots : flash'[s] = {}
                      /\ more = {} => flash'[slot] = {}
    OBVIOUS
  <2>1. flash'[slot] = flash[slot] \ BitsOf(sector) /\ \A s \in Slots \ {slot} : flash'[s] = flash[s]
    BY <1>3, <1>4
  <2>2. \A c \in Sectors \ more : flash'[slot] \cap BitsOf(c) = {}
    BY <1>5, <2>1
  <2>3. \A s \in g \ cmd.slots : flash'[s] = {}
    BY <1>3, <1>5, <2>1
  <2>4. flash[slot] \subseteq Bits
    BY <1>3, <1>4
  <2>5. more = {} => flash'[slot] = {}
    <3> SUFFICES ASSUME more = {}, NEW b \in flash'[slot] PROVE FALSE
      OBVIOUS
    <3>1. b \in Bits
      BY <2>1, <2>4
    <3>2. PICK c \in Sectors : b \in BitsOf(c)
      BY <3>1, SectorsPartition
    <3> QED
      BY <2>2, <3>2
  <2> QED
    BY <2>1, <2>2, <2>3, <2>5
<1> HIDE DEF erased, slot, sector, more, target
<1>10. CASE erased /\ ~last /\ more # {} /\ Continue([cmd EXCEPT !.sectors = more])
  <2>1. cmd'.op = cmd.op /\ cmd'.slots = cmd.slots /\ cmd'.sectors = more /\ cmd'.source = cmd.source
        /\ UNCHANGED <<session, installed>>
    BY <1>4, <1>10 DEF Continue, CommandRecord
  <2>2. First(cmd'.slots) = slot
    BY <2>1 DEF slot
  <2>3. CommandOf(g)'
    BY <1>1, <1>3, <1>5, <1>9, <1>10, <2>1, <2>2
    DEF CommandOf, SlotsErased, SlotsFinalized, PartsCopied, Erasing
  <2>4. session' = NoSession
    BY <1>5, <2>1
  <2> QED
    BY <1>7, <1>8, <2>1, <2>3, <2>4, NoUpload DEF CopiesInv, HistoryOK, CommandUnderWay
<1>11. CASE erased /\ ~last /\ more = {}
            /\ Continue([cmd EXCEPT !.slots = @ \ {slot}, !.sectors = Sectors])
  <2>1. cmd'.op = cmd.op /\ cmd'.slots = cmd.slots \ {slot} /\ cmd'.sectors = Sectors
        /\ cmd'.source = cmd.source /\ UNCHANGED <<session, installed>>
    BY <1>4, <1>11 DEF Continue, CommandRecord
  <2>2. cmd'.slots # {} /\ Sectors # {}
    <3>1. cmd.slots # {slot} /\ slot \in cmd.slots
      BY <1>3, <1>11
    <3>2. cmd.slots \ {slot} # {}
      BY <3>1
    <3> QED
      BY <2>1, <3>2, BootConstants
  <2>3. \A s \in g \ cmd'.slots : flash'[s] = {}
    BY <1>9, <1>11, <2>1
  <2>4. CommandOf(g)'
    BY <1>1, <1>3, <1>5, <2>1, <2>2, <2>3
    DEF CommandOf, SlotsErased, SlotsFinalized, PartsCopied, Erasing
  <2>5. session' = NoSession
    BY <1>5, <2>1
  <2> QED
    BY <1>7, <1>8, <2>1, <2>4, <2>5, NoUpload DEF CopiesInv, HistoryOK, CommandUnderWay
<1>12. CASE erased /\ last /\ cmd.op = "erase" /\ Finish([slots |-> target, done |-> {}])
  <2> DEFINE new == [slots |-> target, done |-> {}]
  <2>1. target = g
    BY <1>3, GroupsPartition DEF target, Groups
  <2>2. new \in [slots : Groups \cup {{}}, done : SUBSET Pages] /\ new.slots = g /\ new.done = {}
    BY <2>1
  <2>3. \A s \in g : flash'[s] = {}
    BY <1>5, <1>9, <1>12
  <2>4. HistoryOK' /\ CommandUnderWay' /\ session' = new
    <3>1. Finish(new)
      BY <1>12
    <3> HIDE DEF new
    <3> QED
      BY <1>7, <1>8, <2>2, <3>1, CommandOver
  <2>5. cmd'.op = "none" /\ scrub'.todo = {}
    BY <1>1, <1>12, NoCommandTyped, CommandRuns DEF Finish
  <2>6. CopiesAlike({})'
    BY <2>2, <2>3, <2>4, <2>5 DEF CopiesAlike, Added
  <2>7. UploadUnderWay'
    <3>1. installed'[g] = None
      BY <1>1, <1>5
    <3> HIDE DEF new
    <3> QED
      BY <2>2, <2>4, <2>5, <2>6, <3>1 DEF UploadUnderWay
  <2> QED
    BY <1>8, <2>4, <2>7 DEF CopiesInv
<1>13. CASE erased /\ last /\ cmd.op = "copy erase"
            /\ Continue([cmd EXCEPT !.op = "copy", !.slots = Slots \ cmd.source, !.sectors = Sectors])
  <2>1. cmd'.op = "copy" /\ cmd'.slots = Slots \ cmd.source /\ cmd'.sectors = Sectors
        /\ cmd'.source = cmd.source /\ UNCHANGED <<session, installed>>
    BY <1>4, <1>13 DEF Continue, CommandRecord
  <2>2. cmd.source = Slots \ g /\ cmd'.slots = g /\ g # {}
    <3>1. Slots \ (Slots \ g) = g
      BY <1>3
    <3>2. cmd.source = Slots \ g
      BY <1>5, <1>13
    <3> QED
      BY <1>3, <2>1, <3>1, <3>2
  <2>3. \A s \in g : flash'[s] = {}
    BY <1>5, <1>9, <1>13
  <2>4. Sectors # {}
    BY BootConstants
  <2>5. PartsCopied(g)'
    BY <2>1, <2>2, <2>3 DEF PartsCopied, PartCopied
  <2>6. CommandOf(g)'
    BY <1>1, <1>5, <2>1, <2>2, <2>4, <2>5 DEF CommandOf, SlotsErased, SlotsFinalized, Erasing
  <2>7. session' = NoSession
    BY <1>5, <2>1
  <2> QED
    BY <1>7, <1>8, <2>1, <2>6, <2>7, NoUpload DEF CopiesInv, HistoryOK, CommandUnderWay
<1>14. CASE FlashFails /\ Finish(NoSession)
  <2>1. HistoryOK' /\ CommandUnderWay' /\ session' = NoSession
    BY <1>7, <1>8, <1>14, CommandOver, NoSessionTyped
  <2> QED
    BY <1>8, <2>1, NoUpload DEF CopiesInv
<1> QED
  BY <1>2, <1>10, <1>11, <1>12, <1>13, <1>14

(* What the copies of an upload gain when a command adds to one of them.    *)
LEMMA UploadGoesOn ==
    ASSUME SettingsInv, CopiesInv, cmd.op \in {"write", "finalize"}, NEW g \in Groups, CommandOf(g),
           NEW slot \in cmd.slots, slot \in g, flash' = [flash EXCEPT ![slot] = flash[slot] \cup Adds],
           UNCHANGED <<faults, scrub, session, installed>>,
           cmd'.op = cmd.op, cmd'.data = cmd.data, cmd'.slots = cmd.slots \ {slot}, cmd'.slots # {}
    PROVE  UploadUnderWay'
<1>1. UploadUnderWay /\ cmd.slots \subseteq g /\ flash \in [Slots -> SUBSET Bits]
      /\ session.slots \in Groups \cup {{}} /\ g \subseteq Slots /\ Adds' = Adds
  BY CommandValues, GroupsAreThree DEF CopiesInv, CommandOf, HistoryOK, Adds
<1>2. SUFFICES ASSUME faults = 0, NEW content \in SUBSET Bits, CopiesAlike(content)
               PROVE  CopiesAlike(content)'
  BY <1>1 DEF UploadUnderWay
<1>3. ASSUME NEW s \in session.slots PROVE flash'[s] = content \cup Added(s)'
  <2>1. flash[s] = content \cup Added(s) /\ s \in Slots
    BY <1>1, <1>2, <1>3, GroupsAreThree DEF CopiesAlike
  <2>2. CASE session.slots = g
    <3>1. cmd.slots \cap g # {} /\ cmd'.slots \cap g # {}
      BY <1>1
    <3>2. CASE s = slot
      <4>1. Added(s) = {} /\ Added(s)' = Adds
        BY <1>1, <2>2, <3>1, <3>2 DEF Added
      <4> QED
        BY <1>1, <2>1, <3>2, <4>1
    <3>3. CASE s # slot
      <4>1. Added(s)' = Added(s)
        BY <1>1, <2>2, <3>1, <3>3 DEF Added
      <4> QED
        BY <1>1, <2>1, <3>3, <4>1
    <3> QED
      BY <3>2, <3>3
  <2>3. CASE session.slots # g
    <3>1. session.slots \cap g = {}
      BY <1>1, <1>3, <2>3, GroupsPartition
    <3>2. cmd.slots \cap session.slots = {} /\ cmd'.slots \cap session.slots = {} /\ s # slot
      BY <1>1, <1>3, <3>1
    <3>3. Added(s)' = {} /\ Added(s) = {}
      BY <3>2 DEF Added
    <3> QED
      BY <1>1, <2>1, <3>2, <3>3
  <2> QED
    BY <2>2, <2>3
<1> QED
  BY <1>2, <1>3 DEF CopiesAlike

(* A part is in all copies when the last of them is written.                *)
LEMMA WriteKeepsCopies == SettingsInv /\ CopiesInv /\ WriteContent => CopiesInv'
<1> SUFFICES ASSUME SettingsInv, CopiesInv, WriteContent PROVE CopiesInv'
  OBVIOUS
<1> DEFINE slot == First(cmd.slots)
           added == flash' = [flash EXCEPT ![slot] = flash[slot] \cup cmd.data] /\ UNCHANGED faults
           whole == [session EXCEPT !.done = @ \cup cmd.data]
<1>1. cmd.op = "write" /\ cmd.op \in FlashOps /\ UNCHANGED <<scrub, phase, installed>>
  BY DEF WriteContent, FlashOps, Finish, Continue
<1>2. \/ added /\ cmd.slots = {slot} /\ Finish(IF slot \in session.slots THEN whole ELSE NoSession)
      \/ added /\ cmd.slots # {slot} /\ Continue([cmd EXCEPT !.slots = @ \ {slot}])
      \/ FlashFails /\ Finish(NoSession)
  BY DEF WriteContent
<1>3. PICK g \in Groups : CommandOf(g) /\ slot \in cmd.slots /\ slot \in g /\ g \subseteq Slots
  BY <1>1, CommandRuns
<1>4. /\ cmd \in CommandRecord /\ flash \in [Slots -> SUBSET Bits] /\ cmd.slots \subseteq g
      /\ installed[g] = None /\ cmd.data \subseteq Pages /\ Pages \subseteq Bits
  BY <1>3, CommandValues, BootConstants DEF CommandOf
<1>5. faults' \in {faults, faults + 1}
      /\ (UNCHANGED flash \/ flash' = [flash EXCEPT ![slot] = flash[slot] \cup cmd.data])
  BY <1>2 DEF FlashFails
<1>6. /\ HistoryOK /\ installed' \in [Groups -> (SUBSET Bits) \cup {None}]
      /\ session \in [slots : Groups \cup {{}}, done : SUBSET Pages]
  BY <1>1 DEF CopiesInv, HistoryOK
<1> HIDE DEF slot
<1>7. OneDamaged' /\ RunsInstalledProgram' /\ faults' \in Nat
  <2>1. /\ \A h \in Groups \ {g} : installed'[h] = installed[h]
        /\ installed'[g] = None
    BY <1>1, <1>4
  <2> QED
    BY <1>1, <1>3, <1>5, <1>6, <2>1, CommandDamages
<1>8. CASE added /\ cmd.slots = {slot} /\ Finish(IF slot \in session.slots THEN whole ELSE NoSession)
  <2>1. CASE slot \in session.slots
    <3>1. whole \in [slots : Groups \cup {{}}, done : SUBSET Pages] /\ whole.slots = session.slots
          /\ whole.done = session.done \cup cmd.data
      BY <1>4, <1>6
    <3> HIDE DEF whole
    <3>2. HistoryOK' /\ CommandUnderWay' /\ session' = whole
      BY <1>6, <1>7, <1>8, <2>1, <3>1, CommandOver
    <3>3. session.slots = g
      BY <1>3, <1>6, <2>1, GroupsPartition
    <3>4. cmd'.op = "none" /\ scrub'.todo = {} /\ UNCHANGED faults
      BY <1>1, <1>8, NoCommandTyped, CommandRuns DEF Finish
    <3>5. ASSUME NEW content \in SUBSET Bits, CopiesAlike(content),
                 NEW total, total = content \cup cmd.data
          PROVE  CopiesAlike(total)'
      <4>1. session.done \subseteq content /\ \A s \in g : flash[s] = content \cup Added(s)
        BY <3>3, <3>5 DEF CopiesAlike
      <4>2. \A s \in g \ {slot} : Added(s) = cmd.data
        BY <1>1, <1>3, <1>8, <3>3 DEF Added, Adds
      <4>3. Added(slot) = {}
        BY <1>3 DEF Added
      <4>4. \A s \in g : flash'[s] = content \cup cmd.data
        BY <1>3, <1>4, <1>8, <4>1, <4>2, <4>3
      <4>5. \A s : Added(s)' = {}
        BY <3>4 DEF Added
      <4> QED
        BY <3>1, <3>2, <3>3, <3>5, <4>1, <4>4, <4>5 DEF CopiesAlike
    <3>6. faults = 0 => \E content \in SUBSET Bits : CopiesAlike(content)'
      <4> SUFFICES ASSUME faults = 0 PROVE \E content \in SUBSET Bits : CopiesAlike(content)'
        OBVIOUS
      <4>1. PICK content \in SUBSET Bits : CopiesAlike(content)
        BY DEF CopiesInv, UploadUnderWay
      <4>2. content \cup cmd.data \in SUBSET Bits
        BY <1>4
      <4> QED
        BY <3>5, <4>1, <4>2
    <3>7. UploadUnderWay'
      BY <1>1, <1>4, <3>1, <3>2, <3>3, <3>4, <3>6 DEF UploadUnderWay
    <3> QED
      BY <1>7, <3>2, <3>7 DEF CopiesInv
  <2>2. CASE slot \notin session.slots
    <3>1. HistoryOK' /\ CommandUnderWay' /\ session' = NoSession
      BY <1>6, <1>7, <1>8, <2>2, CommandOver, NoSessionTyped
    <3> QED
      BY <1>7, <3>1, NoUpload DEF CopiesInv
  <2> QED
    BY <2>1, <2>2
<1>9. CASE added /\ cmd.slots # {slot} /\ Continue([cmd EXCEPT !.slots = @ \ {slot}])
  <2>1. cmd'.op = cmd.op /\ cmd'.slots = cmd.slots \ {slot} /\ cmd'.data = cmd.data
        /\ UNCHANGED <<session, installed>>
    BY <1>4, <1>9 DEF Continue, CommandRecord
  <2>2. cmd'.slots # {}
    BY <1>3, <1>9, <2>1
  <2>3. CommandOf(g)'
    BY <1>1, <1>4, <2>1, <2>2 DEF CommandOf, SlotsErased, SlotsFinalized, PartsCopied, Erasing
  <2>4. UploadUnderWay'
    <3>1. flash' = [flash EXCEPT ![slot] = flash[slot] \cup Adds]
      BY <1>1, <1>9 DEF Adds
    <3> QED
      BY <1>1, <1>3, <1>9, <2>1, <2>2, <3>1, UploadGoesOn
  <2> QED
    BY <1>6, <1>7, <2>1, <2>3, <2>4 DEF CopiesInv, HistoryOK, CommandUnderWay
<1>10. CASE FlashFails /\ Finish(NoSession)
  <2>1. HistoryOK' /\ CommandUnderWay' /\ session' = NoSession
    BY <1>6, <1>7, <1>10, CommandOver, NoSessionTyped
  <2> QED
    BY <1>7, <2>1, NoUpload DEF CopiesInv
<1> QED
  BY <1>2, <1>8, <1>9, <1>10

(* A group is installed when each of its copies matches and is marked.      *)
LEMMA FinalizeKeepsCopies == SettingsInv /\ CopiesInv /\ FinalizeEntry => CopiesInv'
<1> SUFFICES ASSUME SettingsInv, CopiesInv, FinalizeEntry PROVE CopiesInv'
  OBVIOUS
<1> DEFINE slot == First(cmd.slots)
           matches == flash[slot] \ {"valid"} = Pages
           added == flash' = [flash EXCEPT ![slot] = flash[slot] \cup {"valid"}] /\ UNCHANGED faults
           failed == /\ faults' = faults + 1
                     /\ flash' \in {flash, [flash EXCEPT ![slot] = flash[slot] \cup {"valid"}]}
<1>1. cmd.op = "finalize" /\ cmd.op \in FlashOps /\ UNCHANGED <<scrub, phase>>
  BY DEF FinalizeEntry, FlashOps, Finish, Continue
<1>2. \/ added /\ ~matches /\ Finish(NoSession) /\ UNCHANGED installed
      \/ added /\ matches /\ cmd.slots = {slot} /\ Finish(NoSession)
         /\ installed' = [h \in Groups |-> IF slot \in h THEN Bits ELSE installed[h]]
      \/ added /\ matches /\ cmd.slots # {slot} /\ Continue([cmd EXCEPT !.slots = @ \ {slot}])
      \/ failed /\ Finish(NoSession) /\ UNCHANGED installed
  BY DEF FinalizeEntry
<1>3. PICK g \in Groups : CommandOf(g) /\ slot \in cmd.slots /\ slot \in g /\ g \subseteq Slots
  BY <1>1, CommandRuns
<1>4. /\ cmd \in CommandRecord /\ flash \in [Slots -> SUBSET Bits] /\ cmd.slots \subseteq g
      /\ installed[g] = None /\ \A s \in g \ cmd.slots : flash[s] = Bits
  BY <1>1, <1>3, CommandValues DEF CommandOf, SlotsFinalized
<1>5. faults' \in {faults, faults + 1}
      /\ (UNCHANGED flash \/ flash' = [flash EXCEPT ![slot] = flash[slot] \cup {"valid"}])
  BY <1>2
<1>6. HistoryOK /\ installed \in [Groups -> (SUBSET Bits) \cup {None}]
  BY DEF CopiesInv, HistoryOK
<1>7. Bits = Pages \cup {"valid"}
  <2>1. "valid" \in Bits
    BY Zenon, BootAssumption
  <2> QED
    BY <2>1 DEF Pages
<1> HIDE DEF slot
<1>8. added /\ matches => \A s \in g \ (cmd.slots \ {slot}) : flash'[s] = Bits
  BY <1>3, <1>4, <1>7
<1>9. ASSUME Finish(NoSession),
             UNCHANGED installed \/
                (/\ installed' = [h \in Groups |-> IF slot \in h THEN Bits ELSE installed[h]]
                 /\ \A s \in g : flash'[s] = Bits)
      PROVE  CopiesInv'
  <2>1. /\ \A h \in Groups \ {g} : installed'[h] = installed[h]
        /\ installed'[g] = None \/ \A s \in g : flash'[s] = installed'[g]
        /\ installed' \in [Groups -> (SUBSET Bits) \cup {None}]
    <3>1. \A h \in Groups \ {g} : slot \notin h
      BY <1>3, GroupsPartition
    <3> QED
      BY <1>3, <1>4, <1>6, <1>9, <3>1
  <2>2. OneDamaged' /\ RunsInstalledProgram' /\ faults' \in Nat
    BY <1>1, <1>3, <1>5, <2>1, CommandDamages
  <2>3. HistoryOK' /\ CommandUnderWay' /\ session' = NoSession
    BY <1>6, <1>9, <2>1, <2>2, CommandOver, NoSessionTyped
  <2> QED
    BY <2>2, <2>3, NoUpload DEF CopiesInv
<1>10. CASE added /\ matches /\ cmd.slots # {slot} /\ Continue([cmd EXCEPT !.slots = @ \ {slot}])
  <2>1. cmd'.op = cmd.op /\ cmd'.slots = cmd.slots \ {slot} /\ cmd'.data = cmd.data
        /\ UNCHANGED <<session, installed>>
    BY <1>4, <1>10 DEF Continue, CommandRecord
  <2>2. cmd'.slots # {}
    BY <1>3, <1>10, <2>1
  <2>3. CommandOf(g)'
    BY <1>1, <1>4, <1>8, <1>10, <2>1, <2>2
    DEF CommandOf, SlotsErased, SlotsFinalized, PartsCopied, Erasing
  <2>4. UploadUnderWay'
    <3>1. flash' = [flash EXCEPT ![slot] = flash[slot] \cup Adds]
      BY <1>1, <1>10 DEF Adds
    <3> QED
      BY <1>1, <1>3, <1>10, <2>1, <2>2, <3>1, UploadGoesOn
  <2>5. OneDamaged' /\ RunsInstalledProgram' /\ faults' \in Nat
    <3>1. /\ \A h \in Groups \ {g} : installed'[h] = installed[h]
          /\ installed'[g] = None /\ installed' \in [Groups -> (SUBSET Bits) \cup {None}]
      BY <1>4, <1>6, <2>1
    <3> QED
      BY <1>1, <1>3, <1>5, <3>1, CommandDamages
  <2> QED
    BY <1>6, <2>1, <2>3, <2>4, <2>5 DEF CopiesInv, HistoryOK, CommandUnderWay
<1>11. added /\ matches /\ cmd.slots = {slot} => \A s \in g : flash'[s] = Bits
  BY <1>8
<1> HIDE DEF added, failed, matches
<1> QED
  BY <1>2, <1>9, <1>10, <1>11

(* A copied group is installed when each part came from an intact vote and  *)
(* no write failed.                                                         *)
LEMMA CopyKeepsCopies == SettingsInv /\ CopiesInv /\ CopyPart => CopiesInv'
<1> SUFFICES ASSUME SettingsInv, CopiesInv, CopyPart PROVE CopiesInv'
  OBVIOUS
<1> DEFINE slot == First(cmd.slots)
           sector == First(cmd.sectors)
           more == cmd.slots \ {slot}
           targets == Slots \ cmd.source
           last == more = {} /\ cmd.sectors = {sector}
           part == Vote(cmd.source) \cap BitsOf(sector)
           good(ok) == [h \in Groups |-> IF h = targets /\ ok THEN installed[Slots \ h] ELSE installed[h]]
           next == IF more # {} THEN [cmd EXCEPT !.slots = more]
                   ELSE [cmd EXCEPT !.slots = targets, !.sectors = @ \ {sector}]
           added == flash' = [flash EXCEPT ![slot] = flash[slot] \cup part] /\ UNCHANGED faults
<1>1. cmd.op = "copy" /\ cmd.op \in FlashOps /\ UNCHANGED <<scrub, phase>>
  BY DEF CopyPart, FlashOps, Finish, Continue
<1>2. \/ added /\ last /\ Finish(NoSession) /\ installed' = good(cmd.ok)
      \/ added /\ ~last /\ Continue(next)
      \/ FlashFails /\ last /\ Finish(NoSession) /\ UNCHANGED installed
      \/ FlashFails /\ ~last /\ Continue([next EXCEPT !.ok = FALSE])
  BY DEF CopyPart
<1>3. PICK g \in Groups : CommandOf(g) /\ slot \in cmd.slots /\ slot \in g /\ g \subseteq Slots
  BY <1>1, CommandRuns
<1>4. /\ cmd \in CommandRecord /\ flash \in [Slots -> SUBSET Bits] /\ cmd.slots \subseteq g
      /\ installed[g] = None /\ cmd.source = Slots \ g /\ session = NoSession
      /\ sector \in cmd.sectors /\ cmd.sectors \subseteq Sectors
  BY <1>1, <1>3, CommandValues, CommandRuns DEF CommandOf
<1>5. targets = g /\ cmd.source \in Groups /\ cmd.source # g
  BY <1>3, <1>4, GroupsAreThree, GroupsPartition
<1>6. HistoryOK /\ installed \in [Groups -> (SUBSET Bits) \cup {None}]
  BY DEF CopiesInv, HistoryOK
<1>7. installed[cmd.source] # None => part = installed[cmd.source] \cap BitsOf(sector)
  BY <1>5, VotesAreIntact DEF Installed
<1>8. faults' \in {faults, faults + 1}
      /\ (UNCHANGED flash \/ flash' = [flash EXCEPT ![slot] = flash[slot] \cup part])
  BY <1>2 DEF FlashFails
<1>9. part \subseteq BitsOf(sector)
  OBVIOUS
<1>10. \A s \in g, c \in Sectors :
          /\ ~PartCopied(s, c) => flash[s] \cap BitsOf(c) = {}
          /\ PartCopied(s, c) /\ cmd.ok /\ installed[cmd.source] # None =>
                flash[s] \cap BitsOf(c) = installed[cmd.source] \cap BitsOf(c)
  BY <1>1, <1>3 DEF CommandOf, PartsCopied
<1> HIDE DEF slot, sector, part
(* One more part of one copy. *)
<1> DEFINE Copied(s, c) == PartCopied(s, c) \/ (s = slot /\ c = sector)
<1>11. ~PartCopied(slot, sector)
  BY <1>3, <1>4 DEF PartCopied
<1>12. ASSUME NEW s \in g, NEW c \in Sectors
       PROVE  /\ ~Copied(s, c) => flash'[s] \cap BitsOf(c) = {}
              /\ Copied(s, c) /\ cmd.ok /\ installed[cmd.source] # None /\ added =>
                    flash'[s] \cap BitsOf(c) = installed[cmd.source] \cap BitsOf(c)
  <2>1. s \in Slots /\ slot \in Slots
    BY <1>3, <1>12
  <2>2. CASE s = slot /\ c = sector
    <3>1. flash[slot] \cap BitsOf(sector) = {}
      BY <1>3, <1>4, <1>10, <1>11
    <3>2. added => flash'[slot] = flash[slot] \cup part
      BY <1>4, <2>1
    <3> QED
      BY <1>7, <2>2, <3>1, <3>2
  <2>3. CASE ~(s = slot /\ c = sector)
    <3>1. flash'[s] = flash[s] \/ (s = slot /\ c # sector /\ flash'[s] = flash[s] \cup part)
      BY <1>4, <1>8, <2>1, <2>3
    <3>2. c # sector => part \cap BitsOf(c) = {}
      BY <1>9, SectorsPartition
    <3>3. flash'[s] \cap BitsOf(c) = flash[s] \cap BitsOf(c)
      BY <3>1, <3>2
    <3> QED
      BY <1>10, <1>12, <2>3, <3>3
  <2> QED
    BY <2>2, <2>3
<1> HIDE DEF added
<1>13. CASE last /\ Finish(NoSession) /\ ((added /\ installed' = good(cmd.ok)) \/ UNCHANGED installed)
  <2>1. CASE UNCHANGED installed
    <3>1. OneDamaged' /\ RunsInstalledProgram' /\ faults' \in Nat
      BY <1>1, <1>3, <1>4, <1>6, <1>8, <2>1, CommandDamages
    <3>2. HistoryOK' /\ CommandUnderWay' /\ session' = NoSession
      BY <1>6, <1>13, <2>1, <3>1, CommandOver, NoSessionTyped
    <3> QED
      BY <3>1, <3>2, NoUpload DEF CopiesInv
  <2>2. CASE added /\ installed' = good(cmd.ok)
    <3>1. /\ \A h \in Groups \ {g} : installed'[h] = installed[h]
          /\ installed'[g] = IF cmd.ok THEN installed[cmd.source] ELSE None
      BY <1>4, <1>5, <2>2
    <3>2. installed' \in [Groups -> (SUBSET Bits) \cup {None}]
      BY <1>5, <1>6, <2>2, GroupsAreThree
    <3>3. installed'[g] # None => \A s \in g : flash'[s] = installed'[g]
      <4> SUFFICES ASSUME installed'[g] # None, NEW s \in g PROVE flash'[s] = installed[cmd.source]
        BY <3>1
      <4>1. cmd.ok /\ installed[cmd.source] # None
        BY <3>1
      <4>2. \A c \in Sectors : Copied(s, c)
        <5>1. cmd.sectors = {sector} /\ First(cmd.sectors) = sector /\ cmd.slots \ {slot} = {}
          BY <1>13 DEF sector
        <5>2. s # slot => s \notin cmd.slots
          BY <5>1
        <5> QED
          BY <5>1, <5>2 DEF PartCopied
      <4>3. \A c \in Sectors : flash'[s] \cap BitsOf(c) = installed[cmd.source] \cap BitsOf(c)
        BY <1>12, <2>2, <4>1, <4>2
      <4>4. flash'[s] \subseteq Bits /\ installed[cmd.source] \subseteq Bits
        <5>1. part \subseteq Bits
          BY <1>9, SectorsPartition
        <5>2. s \in Slots
          BY <1>3
        <5> QED
          BY <1>4, <1>5, <1>6, <1>8, <4>1, <5>1, <5>2
      <4>5. ASSUME NEW b \in Bits PROVE b \in flash'[s] <=> b \in installed[cmd.source]
        <5>1. PICK c \in Sectors : b \in BitsOf(c)
          BY SectorsPartition
        <5>2. flash'[s] \cap BitsOf(c) = installed[cmd.source] \cap BitsOf(c)
          BY <4>3
        <5> QED
          BY <5>1, <5>2
      <4> QED
        BY <4>4, <4>5
    <3>4. OneDamaged' /\ RunsInstalledProgram' /\ faults' \in Nat
      BY <1>1, <1>3, <1>8, <3>1, <3>2, <3>3, CommandDamages
    <3>5. HistoryOK' /\ CommandUnderWay' /\ session' = NoSession
      BY <1>6, <1>13, <3>2, <3>4, CommandOver, NoSessionTyped
    <3> QED
      BY <3>4, <3>5, NoUpload DEF CopiesInv
  <2> QED
    BY <1>13, <2>1, <2>2
<1>14. ASSUME ~last, NEW c, Continue(c), (c = next /\ added) \/ c = [next EXCEPT !.ok = FALSE]
       PROVE  CopiesInv'
  <2>1. UNCHANGED <<session, installed>> /\ cmd' = c
    BY <1>14 DEF Continue
  <2>2. more # {} => /\ next.op = "copy" /\ next.source = cmd.source /\ next.ok = cmd.ok
                     /\ next.slots = more /\ next.sectors = cmd.sectors /\ next \in CommandRecord
    <3>1. more \in SUBSET (0 .. 7)
      BY CommandValues
    <3> QED
      BY <1>1, <1>4, <3>1 DEF CommandRecord
  <2>3. more = {} => /\ next.op = "copy" /\ next.source = cmd.source /\ next.ok = cmd.ok
                     /\ next.slots = g /\ next.sectors = cmd.sectors \ {sector} /\ next \in CommandRecord
    <3>1. targets \in SUBSET (0 .. 7)
      BY DefaultsAreValid
    <3>2. cmd.sectors \ {sector} \in SUBSET Sectors
      BY <1>4
    <3> QED
      BY <1>1, <1>4, <1>5, <3>1, <3>2 DEF CommandRecord
  <2> HIDE DEF next
  <2>4. /\ cmd'.op = "copy" /\ cmd'.source = cmd.source /\ (cmd'.ok => cmd.ok /\ added)
        /\ cmd'.slots = next.slots /\ cmd'.sectors = next.sectors
    BY <1>14, <2>1, <2>2, <2>3 DEF CommandRecord
  <2>5. ASSUME NEW s \in g, NEW d \in Sectors PROVE PartCopied(s, d)' <=> Copied(s, d)
    <3>1. CASE more # {}
      <4>1. cmd'.slots = cmd.slots \ {slot} /\ cmd'.sectors = cmd.sectors
            /\ First(cmd'.sectors) = sector /\ First(cmd.sectors) = sector
        BY <2>2, <2>4, <3>1 DEF sector
      <4> QED
        BY <1>3, <4>1 DEF PartCopied
    <3>2. CASE more = {}
      <4>1. cmd'.slots = g /\ cmd'.sectors = cmd.sectors \ {sector} /\ First(cmd.sectors) = sector
        BY <2>3, <2>4, <3>2 DEF sector
      <4>2. s # slot => s \notin cmd.slots
        BY <3>2
      <4> QED
        BY <2>5, <4>1, <4>2 DEF PartCopied
    <3> QED
      BY <3>1, <3>2
  <2>6. PartsCopied(g)'
    <3> SUFFICES ASSUME NEW s \in g, NEW d \in Sectors
                 PROVE  /\ ~PartCopied(s, d)' => flash'[s] \cap BitsOf(d) = {}
                        /\ PartCopied(s, d)' /\ cmd'.ok /\ installed'[cmd'.source] # None =>
                              flash'[s] \cap BitsOf(d) = installed'[cmd'.source] \cap BitsOf(d)
      BY DEF PartsCopied
    <3>1. installed'[cmd'.source] = installed[cmd.source]
      BY <2>1, <2>4
    <3> QED
      BY <1>12, <2>4, <2>5, <3>1
  <2>7. cmd'.slots \subseteq g /\ cmd'.slots # {} /\ cmd'.sectors # {}
    <3>1. CASE more # {}
      BY <1>4, <2>2, <2>4, <3>1
    <3>2. CASE more = {}
      <4>1. cmd.sectors # {sector}
        BY <1>14, <3>2
      <4>2. cmd.sectors \ {sector} # {}
        BY <1>4, <4>1
      <4> QED
        BY <1>3, <2>3, <2>4, <3>2, <4>2
    <3> QED
      BY <3>1, <3>2
  <2>8. CommandOf(g)'
    BY <1>4, <2>1, <2>4, <2>6, <2>7 DEF CommandOf, SlotsErased, SlotsFinalized, Erasing
  <2>9. OneDamaged' /\ RunsInstalledProgram' /\ faults' \in Nat
    <3>1. /\ \A h \in Groups \ {g} : installed'[h] = installed[h]
          /\ installed'[g] = None /\ installed' \in [Groups -> (SUBSET Bits) \cup {None}]
      BY <1>4, <1>6, <2>1
    <3> QED
      BY <1>1, <1>3, <1>8, <3>1, CommandDamages
  <2>10. session' = NoSession
    BY <1>4, <2>1
  <2> QED
    BY <1>6, <2>1, <2>8, <2>9, <2>10, NoUpload DEF CopiesInv, HistoryOK, CommandUnderWay
<1>15. \/ last /\ Finish(NoSession) /\ ((added /\ installed' = good(cmd.ok)) \/ UNCHANGED installed)
       \/ ~last /\ added /\ Continue(next)
       \/ ~last /\ Continue([next EXCEPT !.ok = FALSE])
  BY <1>2
<1> HIDE DEF last, next, good
<1> QED
  BY <1>13, <1>14, <1>15

-----------------------------------------------------------------------------
(* What leaves the copies alone *)

(* A step that touches no copy of a program, and starts no command that     *)
(* does.                                                                    *)
LEMMA QuietStep ==
    ASSUME CopiesInv, UNCHANGED <<flash, installed, faults>>, scrub'.todo \in {scrub.todo, {}},
           \/ session' = NoSession
           \/ session' = session /\ (cmd' = cmd \/ (cmd.op \notin FlashOps /\ cmd'.op \notin FlashOps)),
           cmd'.op \in FlashOps => cmd' = cmd,
           RunsInstalledProgram'
    PROVE  CopiesInv'
<1>1. HistoryOK'
  BY NoSessionTyped DEF CopiesInv, HistoryOK
<1>2. OneDamaged'
  BY DEF CopiesInv, OneDamaged, Installed, Whole
<1>3. CommandUnderWay'
  <2> SUFFICES ASSUME cmd'.op \in FlashOps PROVE \E g \in Groups : CommandOf(g)'
    BY DEF CommandUnderWay
  <2>1. cmd' = cmd /\ cmd.op \in FlashOps
    OBVIOUS
  <2>2. PICK g \in Groups : CommandOf(g)
    BY <2>1 DEF CopiesInv, CommandUnderWay
  <2>3. SlotsErased(g)' /\ SlotsFinalized(g)' /\ PartsCopied(g)'
    BY <2>1, <2>2 DEF CommandOf, SlotsErased, SlotsFinalized, PartsCopied, PartCopied, Erasing
  <2>4. session = NoSession => session' = NoSession
    OBVIOUS
  <2> QED
    BY <2>1, <2>2, <2>3, <2>4 DEF CommandOf
<1>4. UploadUnderWay'
  <2>1. CASE session' = NoSession
    BY <2>1, NoUpload
  <2>2. CASE session' = session /\ (cmd' = cmd \/ (cmd.op \notin FlashOps /\ cmd'.op \notin FlashOps))
    <3>1. \A s : Added(s)' = Added(s)
      BY <2>2 DEF Added, Adds, FlashOps
    <3>2. ASSUME NEW content, CopiesAlike(content) PROVE CopiesAlike(content)'
      BY <2>2, <3>1, <3>2 DEF CopiesAlike
    <3> QED
      BY <2>2, <3>2 DEF CopiesInv, UploadUnderWay
  <2> QED
    BY <2>1, <2>2
<1> QED
  BY <1>1, <1>2, <1>3, <1>4 DEF CopiesInv

(* A command that writes to a group begins: from now on nobody trusts it.   *)
LEMMA CommandBegins ==
    ASSUME SettingsInv, CopiesInv, NEW g \in Groups, NEW name, NEW command, BeginFlash(name, command),
           command.slots = g, command.op \in {"erase", "copy erase", "write", "finalize"},
           installed' = Untrusted(g), session' = NoSession \/ session' = session,
           command.op \in {"erase", "copy erase"} => command.sectors = Sectors /\ session' = NoSession,
           command.op = "copy erase" => command.source = Slots \ g
    PROVE  CopiesInv'
<1>1. /\ phase = "confirmed" /\ lock = "free" /\ cmd = NoCommand /\ cmd' = command
      /\ UNCHANGED <<flash, phase, scrub, faults>>
  BY DEF BeginFlash, Begin, memory, budget
<1>2. cmd.op = "none" /\ scrub.todo = {}
  BY <1>1, NoCommandTyped DEF SettingsInv, LockHeld
<1>3. installed'[g] = None /\ \A h \in Groups \ {g} : installed'[h] = installed[h]
  <2>1. g \cap g # {}
    <3>1. g # {}
      BY GroupsPartition
    <3> QED
      BY <3>1
  <2>2. \A h \in Groups \ {g} : h \cap g = {}
    BY GroupsPartition
  <2> QED
    BY <2>1, <2>2 DEF Untrusted, Touches
<1>4. HistoryOK'
  BY <1>1, NoSessionTyped DEF CopiesInv, HistoryOK, Untrusted
<1>5. OneDamaged'
  <2>1. faults \in Nat /\ OneDamaged
    BY DEF CopiesInv, HistoryOK
  <2>2. /\ faults' \in Nat /\ faults' >= faults /\ scrub'.todo = {}
        /\ \A h \in Groups \ {g} : installed'[h] = installed[h] /\ \A s \in h : flash'[s] = flash[s]
    <3>1. faults' \in Nat /\ faults' >= faults
      <4>1. faults' = faults /\ faults \in Nat
        BY <1>1, <2>1
      <4> QED
        BY ONLY <4>1
    <3>2. flash' = flash /\ scrub'.todo = {}
      BY <1>1, <1>2
    <3> QED
      BY <1>3, <3>1, <3>2
  <2> QED
    BY <1>3, <2>1, <2>2, DamageElsewhere
<1>6. CommandOf(g)'
  <2>1. Sectors # {} /\ g # {}
    BY BootConstants, GroupsPartition
  <2> QED
    BY <1>1, <1>3, <2>1 DEF CommandOf, SlotsErased, SlotsFinalized, PartsCopied, Erasing
<1>7. UploadUnderWay'
  <2>1. CASE session' = NoSession
    BY <2>1, NoUpload
  <2>2. CASE session' = session
    <3>1. session.slots \in Groups \cup {{}} /\ UploadUnderWay
      BY DEF CopiesInv, HistoryOK
    <3>2. session'.slots # {} => installed'[session'.slots] = None
      BY <1>3, <2>2, <3>1 DEF UploadUnderWay
    <3>3. ASSUME NEW s \in session.slots PROVE Added(s) = {} /\ Added(s)' = {}
      <4>1. session.slots = g \/ session.slots \cap g = {}
        BY <3>1, GroupsPartition
      <4> QED
        BY <1>1, <1>2, <2>2, <3>3, <4>1 DEF Added
    <3>4. ASSUME NEW content, CopiesAlike(content) PROVE CopiesAlike(content)'
      BY <1>1, <2>2, <3>3, <3>4 DEF CopiesAlike
    <3> QED
      BY <1>1, <1>2, <2>2, <3>1, <3>2, <3>4 DEF UploadUnderWay
  <2> QED
    BY <2>1, <2>2
<1>8. RunsInstalledProgram'
  BY <1>1 DEF RunsInstalledProgram
<1> QED
  BY <1>4, <1>5, <1>6, <1>7, <1>8 DEF CopiesInv, CommandUnderWay

(* What a command is going to write is not installed any more when it       *)
(* begins.                                                                  *)
LEMMA SendKeepsCopies == SettingsInv /\ CopiesInv /\ SendCommand => CopiesInv'
<1> SUFFICES ASSUME SettingsInv, CopiesInv, SendCommand PROVE CopiesInv'
  OBVIOUS
<1>1. UploadTargets \subseteq Groups
  BY BootConstants
<1>2. ASSUME NEW g \in UploadTargets, EraseBootTableEntry(g) PROVE CopiesInv'
  <2> DEFINE command == [NoCommand EXCEPT !.op = "erase", !.slots = g, !.sectors = Sectors]
  <2>1. /\ BeginFlash("erase", command) /\ installed' = Untrusted(g) /\ session' = NoSession
    BY <1>2 DEF EraseBootTableEntry
  <2>2. command.slots = g /\ command.op = "erase" /\ command.sectors = Sectors /\ g \in Groups
    BY <1>1, <1>2 DEF NoCommand
  <2> HIDE DEF command
  <2> QED
    BY <2>1, <2>2, CommandBegins
<1>3. ASSUME NEW g \in UploadTargets, FinalizeProgramEntry(g) PROVE CopiesInv'
  <2> DEFINE command == [NoCommand EXCEPT !.op = "finalize", !.slots = g]
  <2>1. /\ BeginFlash("finalize", command) /\ installed' = Untrusted(g) /\ session' = session
    BY <1>3 DEF FinalizeProgramEntry
  <2>2. command.slots = g /\ command.op = "finalize" /\ g \in Groups
    BY <1>1, <1>3 DEF NoCommand
  <2> HIDE DEF command
  <2> QED
    BY <2>1, <2>2, CommandBegins
<1>4. ASSUME NEW g \in UploadTargets, NEW page \in Pages, WriteProgramPart(g, page) PROVE CopiesInv'
  <2> DEFINE command == [NoCommand EXCEPT !.op = "write", !.slots = g, !.data = {page}]
  <2>1. /\ BeginFlash(page, command) /\ installed' = Untrusted(g) /\ session' = session
    BY <1>4 DEF WriteProgramPart
  <2>2. command.slots = g /\ command.op = "write" /\ g \in Groups
    BY <1>1, <1>4 DEF NoCommand
  <2> HIDE DEF command
  <2> QED
    BY <2>1, <2>2, CommandBegins
<1>5. ASSUME NEW g \in UploadTargets, CopyBootSlots(Slots \ g, g) PROVE CopiesInv'
  <2> DEFINE command == [NoCommand EXCEPT !.op = "copy erase", !.slots = g, !.sectors = Sectors,
                                          !.source = Slots \ g]
  <2>1. /\ BeginFlash("copy", command) /\ installed' = Untrusted(g) /\ session' = NoSession
    BY <1>5 DEF CopyBootSlots
  <2>2. command.slots = g /\ command.op = "copy erase" /\ command.sectors = Sectors
        /\ command.source = Slots \ g /\ g \in Groups
    BY <1>1, <1>5 DEF NoCommand
  <2> HIDE DEF command
  <2> QED
    BY <2>1, <2>2, CommandBegins
<1>6. ASSUME NEW m \in MaskPairs, SetBootSlots(m[1], m[2]) PROVE CopiesInv'
  <2>1. /\ cmd.op = "none" /\ cmd'.op = "set slots" /\ phase' = "confirmed"
        /\ UNCHANGED <<flash, installed, session, faults, scrub>>
    BY <1>6 DEF SetBootSlots, Begin, memory, budget, NoCommand
  <2>2. RunsInstalledProgram'
    BY <2>1 DEF RunsInstalledProgram
  <2> QED
    BY <2>1, <2>2, QuietStep DEF FlashOps
<1> QED
  BY <1>2, <1>3, <1>4, <1>5, <1>6, Zenon DEF SendCommand

(* The masks and their mark are in FRAM.                                    *)
LEMMA SettingsKeepCopies == SettingsInv /\ CopiesInv /\ WriteSettings => CopiesInv'
<1> SUFFICES ASSUME SettingsInv, CopiesInv, WriteSettings PROVE CopiesInv'
  OBVIOUS
<1>1. /\ cmd.op \in SettingsOps /\ cmd.op \notin FlashOps
      /\ UNCHANGED <<flash, mcu, phase, index, installed, session, faults, scrub>>
  BY DEF WriteSettings, hist, budget, SettingsOps, FlashOps
<1>2. cmd'.op \notin FlashOps
  <2>1. cmd \in CommandRecord
    BY CommandValues
  <2> QED
    BY <2>1, NoCommandTyped DEF WriteSettings, CommandRecord, FlashOps
<1>3. RunsInstalledProgram'
  BY <1>1 DEF CopiesInv, RunsInstalledProgram
<1> QED
  BY <1>1, <1>2, <1>3, QuietStep

(* A reset leaves the copies and forgets the command and the upload.        *)
LEMMA RestartKeepsCopies ==
    ASSUME CopiesInv, Restart, UNCHANGED faults
    PROVE  CopiesInv'
<1>1. /\ phase' = "resolve" /\ scrub' = Idle /\ cmd' = NoCommand /\ session' = NoSession
      /\ UNCHANGED <<flash, installed>>
  BY DEF Restart, memory
<1>2. RunsInstalledProgram'
  BY <1>1 DEF RunsInstalledProgram
<1>3. scrub'.todo = {} /\ cmd'.op = "none"
  BY <1>1, NoCommandTyped
<1> QED
  BY <1>1, <1>2, <1>3, QuietStep DEF FlashOps

(* The bootloader, the confirmation and the safe mode program after its     *)
(* scrubbing leave the copies alone.  The program that is started is the    *)
(* vote on its group, page by page.                                         *)
LEMMA BootKeepsCopies ==
    ASSUME SettingsInv, CopiesInv, Bootloader \/ ConfirmBoot \/ EraseN25QStep \/ RevertBootSlots
    PROVE  CopiesInv'
<1>1. UNCHANGED <<flash, installed, session, faults, scrub, cmd>>
  BY DEF Bootloader, ResolveFailedBoot, ProceedWithBooting, LoadPage, BootToAddress, ConfirmBoot,
         EraseN25QStep, RevertBootSlots, Revert, memory, ram, hist, budget
<1>2. RunsInstalledProgram'
  <2>1. CASE BootToAddress
    <3>1. UNCHANGED <<mcu, index, installed>> /\ \A page \in Pages : (page \in Vote(index)) = (page \in mcu)
      BY <2>1 DEF BootToAddress, memory, hist
    <3> SUFFICES ASSUME index \in Groups, installed[index] # None
                 PROVE  mcu = installed[index] \ {"valid"}
      BY <3>1 DEF RunsInstalledProgram
    <3>2. Vote(index) = installed[index]
      BY VotesAreIntact DEF Installed
    <3>3. mcu \subseteq Pages /\ installed[index] \subseteq Bits
      BY DEF SettingsInv, PlaceOK, CopiesInv, HistoryOK
    <3>4. \A page \in Pages : page \in installed[index] <=> page \in mcu
      BY <3>1, <3>2
    <3> QED
      BY <3>3, <3>4 DEF Pages
  <2>2. CASE ProceedWithBooting
    <3>1. phase' = "app" => index' = UpperBootSlot
      BY <2>2 DEF ProceedWithBooting, Boots, StoreAndBoot
    <3>2. UpperBootSlot \notin Groups
      BY GroupsAreThree
    <3> QED
      BY <3>1, <3>2 DEF RunsInstalledProgram
  <2>3. CASE ResolveFailedBoot \/ LoadPage \/ ConfirmBoot \/ EraseN25QStep \/ RevertBootSlots
    <3>1. phase' # "app"
      BY <2>3 DEF ResolveFailedBoot, LoadPage, ConfirmBoot, EraseN25QStep, RevertBootSlots, Revert
    <3> QED
      BY <3>1 DEF RunsInstalledProgram
  <2> QED
    BY <2>1, <2>2, <2>3 DEF Bootloader
<1> QED
  BY <1>1, <1>2, QuietStep

-----------------------------------------------------------------------------
(* The scrubber, a fault, and the theorems *)

(* A group has another slot than any one.                                   *)
LEMMA GroupsHaveMore == \A g \in Groups : \A s : \E t \in g : t # s
BY DEF Groups, DefaultBootSlot, DefaultFailsafeBootSlot

(* What the scrubber rewrites is a group.                                   *)
LEMMA ScrubbedGroups ==
    ASSUME SettingsInv, WholeGroups, NEW which \in Scrubbers, Scrubs(which)
    PROVE  SlotsOf(which) \in Groups
<1>1. phase = "confirmed" => index \in Groups
  BY DEF Scrubs, SettingsInv, PlaceOK, Loadable
<1>2. DefaultBootSlot \in Groups
  BY DEF Groups
<1> QED
  BY <1>1, <1>2, GroupsAreThree DEF SlotsOf

(* When the voted bits are the content of two copies, no other copy than    *)
(* the third is rewritten.                                                  *)
LEMMA ScrubStartKeepsCopies ==
    ASSUME SettingsInv, CopiesInv, WholeGroups, NEW which \in Scrubbers, ScrubSlots(which)
    PROVE  CopiesInv'
<1> DEFINE sector == offset[which]
           m == SlotsOf(which)
           buffer == Vote(m) \cap BitsOf(sector)
           todo == {s \in m : flash[s] \cap BitsOf(sector) # buffer}
<1>1. /\ phase \in {"confirmed", "safe", "safe secondary"} /\ Scrubs(which) /\ lock = "free"
      /\ UNCHANGED <<flash, index, cmd, installed, session, faults, mcu>>
  BY DEF ScrubSlots, Scrubs, memory, hist, budget
<1>2. \/ SectorDone(which, sector) /\ UNCHANGED scrub
      \/ scrub'.todo = todo /\ UNCHANGED phase
  BY DEF ScrubSlots
<1>3. cmd.op \notin FlashOps /\ scrub.todo = {}
  BY <1>1 DEF SettingsInv, LockHeld
<1>4. m \in Groups /\ m \subseteq Slots
  BY <1>1, ScrubbedGroups, GroupsAreThree
<1>5. RunsInstalledProgram'
  <2>1. phase' # "app"
    BY <1>1, <1>2 DEF SectorDone
  <2> QED
    BY <2>1 DEF RunsInstalledProgram
<1>6. ASSUME NEW v \in SUBSET Bits, NEW s \in m, \A t \in m \ {s} : flash[t] = v
      PROVE  todo \subseteq {s}
  <2>1. Vote(m) = v
    BY <1>4, <1>6, VoteOfTwo
  <2> QED
    BY <1>6, <2>1
<1> HIDE DEF todo, m, sector
<1>7. CASE SectorDone(which, sector) /\ UNCHANGED scrub
  BY <1>1, <1>5, <1>7, QuietStep
<1>8. CASE scrub'.todo = todo /\ UNCHANGED phase
  <2>1. HistoryOK'
    BY <1>1 DEF CopiesInv, HistoryOK
  <2>2. todo \subseteq m
    BY DEF todo
  <2>3. OneDamaged'
    <3> SUFFICES ASSUME NEW g \in Groups, installed[g] # None
                 PROVE  /\ \E s \in g : \A t \in g \ {s} : flash[t] = installed[g]
                        /\ faults = 0 => \A s \in g : flash[s] = installed[g]
                        /\ todo \cap g # {} =>
                              faults > 0 /\ \E s \in g : todo = {s} /\ \A t \in g \ {s} : flash[t] = installed[g]
      BY <1>1, <1>8 DEF OneDamaged, Installed, Whole
    <3>1. /\ \E s \in g : \A t \in g \ {s} : flash[t] = installed[g]
          /\ faults = 0 => \A s \in g : flash[s] = installed[g]
          /\ installed[g] \in SUBSET Bits /\ faults \in Nat
      BY DEF CopiesInv, HistoryOK, OneDamaged, Installed, Whole
    <3>2. ASSUME todo \cap g # {}
          PROVE  faults > 0 /\ \E s \in g : todo = {s} /\ \A t \in g \ {s} : flash[t] = installed[g]
      <4>1. g = m
        BY <1>4, <2>2, <3>2, GroupsPartition
      <4>2. PICK s \in m : \A t \in m \ {s} : flash[t] = installed[g]
        BY <3>1, <4>1
      <4>3. todo = {s}
        <5>1. todo \subseteq {s}
          BY <1>6, <3>1, <4>2
        <5>2. todo # {}
          BY <3>2
        <5> QED
          BY <5>1, <5>2
      <4>4. PICK t \in m : t # s
        BY <1>4, <4>2, GroupsHaveMore
      <4>5. faults = 0 => todo \subseteq {t}
        <5> SUFFICES ASSUME faults = 0 PROVE todo \subseteq {t}
          OBVIOUS
        <5>1. \A u \in m \ {t} : flash[u] = installed[g]
          BY <3>1, <4>1
        <5> QED
          BY <1>6, <3>1, <4>4, <5>1
      <4>6. faults # 0
        BY <4>3, <4>4, <4>5
      <4> QED
        BY <3>1, <4>1, <4>2, <4>3, <4>6
    <3> QED
      BY <3>1, <3>2
  <2>4. CommandUnderWay'
    BY <1>1, <1>3 DEF CommandUnderWay
  <2>5. UploadUnderWay'
    <3>1. UploadUnderWay /\ session.slots \in Groups \cup {{}}
      BY DEF CopiesInv, HistoryOK
    <3>2. ASSUME NEW content, CopiesAlike(content) PROVE CopiesAlike(content)'
      <4>1. \A s : Added(s)' = Added(s)
        BY <1>1 DEF Added, Adds
      <4> QED
        BY <1>1, <3>2, <4>1 DEF CopiesAlike
    <3>3. ASSUME faults = 0, todo \cap session.slots # {} PROVE FALSE
      <4>1. session.slots = m
        BY <1>4, <2>2, <3>1, <3>3, GroupsPartition
      <4>2. PICK content \in SUBSET Bits : CopiesAlike(content)
        BY <3>1, <3>3 DEF UploadUnderWay
      <4>3. \A s \in m : flash[s] = content
        <5>1. \A s : Added(s) = {}
          BY <1>3 DEF Added, FlashOps
        <5> QED
          BY <4>1, <4>2, <5>1 DEF CopiesAlike
      <4>4. PICK s \in m : TRUE
        BY <1>4, GroupsPartition
      <4>5. PICK t \in m : t # s
        BY <1>4, <4>4, GroupsHaveMore
      <4>6. todo \subseteq {s} /\ todo \subseteq {t}
        BY <1>6, <4>2, <4>3
      <4> QED
        BY <3>3, <4>5, <4>6
    <3> QED
      BY <1>1, <1>8, <3>1, <3>2, <3>3 DEF UploadUnderWay
  <2> QED
    BY <1>5, <2>1, <2>3, <2>4, <2>5 DEF CopiesInv
<1> QED
  BY <1>2, <1>7, <1>8

(* A step of the scrubber changes the one copy that is to be rewritten.     *)
LEMMA ScrubDamages ==
    ASSUME SettingsInv, CopiesInv, NEW s \in scrub.todo, NEW v,
           flash' = [flash EXCEPT ![s] = v] \/ UNCHANGED flash,
           UNCHANGED <<installed, session, cmd>>, faults' \in {faults, faults + 1},
           scrub'.todo \subseteq scrub.todo, phase' # "app"
    PROVE  CopiesInv'
<1>1. cmd.op \notin FlashOps /\ HistoryOK /\ s \in Slots
  BY ScrubValues DEF SettingsInv, LockHeld, CopiesInv
<1>2. faults' \in Nat /\ faults' >= faults /\ (faults' = 0 => faults = 0) /\ (faults > 0 => faults' > 0)
  <2>1. faults \in Nat
    BY <1>1 DEF HistoryOK
  <2> QED
    BY <2>1
<1>3. HistoryOK'
  BY <1>1, <1>2 DEF HistoryOK
<1>4. \A t \in Slots \ {s} : flash'[t] = flash[t]
  BY ScrubValues
<1>5. OneDamaged'
  <2> SUFFICES ASSUME NEW g \in Groups, installed[g] # None
               PROVE  /\ \E a \in g : \A t \in g \ {a} : flash'[t] = installed[g]
                      /\ faults' = 0 => \A t \in g : flash'[t] = installed[g]
                      /\ scrub'.todo \cap g # {} =>
                            /\ faults' > 0
                            /\ \E a \in g : /\ scrub'.todo = {a}
                                            /\ \A t \in g \ {a} : flash'[t] = installed[g]
    BY DEF OneDamaged, Installed, Whole
  <2>1. /\ \E a \in g : \A t \in g \ {a} : flash[t] = installed[g]
        /\ faults = 0 => \A t \in g : flash[t] = installed[g]
        /\ scrub.todo \cap g # {} =>
              faults > 0 /\ \E a \in g : scrub.todo = {a} /\ \A t \in g \ {a} : flash[t] = installed[g]
        /\ g \subseteq Slots
    BY GroupsAreThree DEF CopiesInv, OneDamaged, Installed, Whole
  <2>2. CASE s \in g
    <3>1. scrub.todo = {s} /\ faults > 0 /\ \A t \in g \ {s} : flash[t] = installed[g]
      BY <2>1, <2>2
    <3>2. \A t \in g \ {s} : flash'[t] = installed[g]
      BY <1>4, <2>1, <3>1
    <3>3. scrub'.todo \cap g # {} => scrub'.todo = {s}
      BY <3>1
    <3>4. faults' > 0 /\ faults' # 0
      BY <1>2, <3>1
    <3> QED
      BY <2>2, <3>2, <3>3, <3>4
  <2>3. CASE s \notin g
    <3>1. scrub.todo \cap g = {}
      BY <2>1, <2>3
    <3>2. scrub'.todo \cap g = {}
      BY <3>1
    <3>3. \A t \in g : flash'[t] = flash[t]
      BY <1>4, <2>1, <2>3
    <3> QED
      BY <1>2, <2>1, <3>2, <3>3
  <2> QED
    BY <2>2, <2>3
<1>6. CommandUnderWay'
  BY <1>1 DEF CommandUnderWay
<1>7. UploadUnderWay'
  <2>1. UploadUnderWay /\ session.slots \in Groups \cup {{}}
    BY <1>1 DEF CopiesInv, HistoryOK
  <2> SUFFICES ASSUME faults = 0
               PROVE  scrub'.todo \cap session.slots = {} /\ \E content \in SUBSET Bits : CopiesAlike(content)'
    BY <1>2, <2>1 DEF UploadUnderWay
  <2>2. scrub.todo \cap session.slots = {} /\ session.slots \subseteq Slots
    BY <2>1, GroupsAreThree DEF UploadUnderWay
  <2>3. \A t \in session.slots : flash'[t] = flash[t]
    BY <1>4, <2>2
  <2>4. ASSUME NEW content, CopiesAlike(content) PROVE CopiesAlike(content)'
    <3>1. \A t : Added(t)' = Added(t)
      BY DEF Added, Adds
    <3> QED
      BY <2>3, <2>4, <3>1 DEF CopiesAlike
  <2> QED
    BY <2>1, <2>2, <2>4 DEF UploadUnderWay
<1>8. RunsInstalledProgram'
  BY DEF RunsInstalledProgram
<1> QED
  BY <1>3, <1>5, <1>6, <1>7, <1>8 DEF CopiesInv

(* A sector of one damaged copy is erased, then programmed; either may fail.*)
LEMMA ScrubKeepsCopies == SettingsInv /\ CopiesInv /\ (ScrubErase \/ ScrubProgram) => CopiesInv'
<1> SUFFICES ASSUME SettingsInv, CopiesInv, ScrubErase \/ ScrubProgram PROVE CopiesInv'
  OBVIOUS
<1> DEFINE slot == First(scrub.todo)
<1>1. scrub.todo # {} /\ slot \in scrub.todo /\ phase \in {"confirmed", "safe", "safe secondary"}
  BY ScrubValues DEF ScrubErase, ScrubProgram
<1>2. UNCHANGED <<installed, session, cmd>> /\ faults' \in {faults, faults + 1}
  BY DEF ScrubErase, ScrubProgram, hist
<1>3. scrub'.todo \subseteq scrub.todo
  <2>1. scrub \in [which : Scrubbers \cup {"none"}, buffer : SUBSET Bits, todo : SUBSET Slots,
                   erased : BOOLEAN]
    BY DEF SettingsInv, ScrubOK
  <2>2. CASE ScrubErase
    BY <2>1, <2>2 DEF ScrubErase
  <2>3. CASE ScrubProgram
    BY <2>1, <2>3, NoCommandTyped DEF ScrubProgram
  <2> QED
    BY <2>2, <2>3
<1>4. phase' # "app"
  BY <1>1 DEF ScrubErase, ScrubProgram, SectorDone
<1>5. \/ flash' = [flash EXCEPT ![slot] = flash[slot] \ BitsOf(offset[scrub.which])]
      \/ flash' = [flash EXCEPT ![slot] = flash[slot] \cup scrub.buffer]
      \/ UNCHANGED flash
  BY DEF ScrubErase, ScrubProgram
<1> HIDE DEF slot
<1> QED
  BY <1>1, <1>2, <1>3, <1>4, <1>5, ScrubDamages

(* The one fault: no copy was damaged and none is being rewritten.          *)
LEMMA UpsetKeepsCopies ==
    ASSUME SettingsInv, CopiesInv, faults' <= 1, Upset
    PROVE  CopiesInv'
<1>1. /\ faults' = faults + 1
      /\ UNCHANGED <<mcu, phase, index, scrub, cmd, installed, session>>
  BY DEF Upset, ram, hist
<1>2. HistoryOK /\ faults = 0 /\ faults' = 1
  <2>1. HistoryOK /\ faults \in Nat
    BY DEF CopiesInv, HistoryOK
  <2> QED
    BY <1>1, <2>1
<1>3. HistoryOK'
  BY <1>1, <1>2 DEF HistoryOK
<1>4. PICK g \in Groups : installed[g] # None /\ \E s \in g : \E v : flash' = [flash EXCEPT ![s] = v]
  BY DEF Upset
<1>5. PICK s \in g : \E v : flash' = [flash EXCEPT ![s] = v]
  BY <1>4
<1>6. \A t \in Slots \ {s} : flash'[t] = flash[t]
  BY <1>5, ScrubValues
<1>7. \A h \in Groups : h \subseteq Slots /\ \A t \in h : h # g \/ t # s => flash'[t] = flash[t]
  <2>1. \A h \in Groups : h \subseteq Slots /\ (h # g => h \cap g = {})
    BY GroupsAreThree, GroupsPartition
  <2>2. s \in g
    BY <1>6
  <2>3. ASSUME NEW h \in Groups, NEW t \in h, h # g \/ t # s PROVE flash'[t] = flash[t]
    <3>1. t \in Slots /\ t # s
      BY <2>1, <2>2, <2>3
    <3> QED
      BY <1>6, <3>1
  <2> QED
    BY <2>1, <2>3
<1>8. OneDamaged'
  <2> SUFFICES ASSUME NEW h \in Groups, installed[h] # None
               PROVE  /\ \E a \in h : \A t \in h \ {a} : flash'[t] = installed[h]
                      /\ scrub.todo \cap h = {}
    BY <1>1, <1>2 DEF OneDamaged, Installed, Whole
  <2>1. (\A t \in h : flash[t] = installed[h]) /\ scrub.todo \cap h = {} /\ h # {}
    <3>1. h # {}
      BY GroupsPartition
    <3> QED
      BY <1>2, <3>1 DEF CopiesInv, OneDamaged, Installed, Whole
  <2>2. CASE h = g
    BY <1>7, <2>1, <2>2
  <2>3. CASE h # g
    BY <1>7, <2>1, <2>3
  <2> QED
    BY <2>1, <2>2, <2>3
<1>9. CommandUnderWay'
  <2> SUFFICES ASSUME cmd.op \in FlashOps PROVE \E h \in Groups : CommandOf(h)'
    BY <1>1 DEF CommandUnderWay
  <2>1. PICK h \in Groups : CommandOf(h) /\ First(cmd.slots) \in h
    BY CommandRuns
  <2>2. h # g
    BY <1>4, <2>1 DEF CommandOf
  <2>3. \A t \in h : flash'[t] = flash[t]
    BY <1>7, <2>2
  <2>4. SlotsErased(h)' /\ SlotsFinalized(h)' /\ PartsCopied(h)'
    BY <1>1, <2>1, <2>3
    DEF CommandOf, SlotsErased, SlotsFinalized, PartsCopied, PartCopied, Erasing
  <2> QED
    BY <1>1, <2>1, <2>4 DEF CommandOf
<1>10. UploadUnderWay'
  BY <1>1, <1>2 DEF CopiesInv, UploadUnderWay
<1>11. RunsInstalledProgram'
  BY <1>1 DEF CopiesInv, RunsInstalledProgram
<1> QED
  BY <1>3, <1>8, <1>9, <1>10, <1>11 DEF CopiesInv

(* The bound says how many faults there may be; these are the states with   *)
(* one at most.                                                             *)
OneFaultInv == faults \in Nat /\ (faults <= 1 => CopiesInv)

(* Faults are counted up, one by one.                                       *)
LEMMA FaultsGrow == faults \in Nat /\ [Next]_vars => faults' \in Nat /\ faults' >= faults
<1> SUFFICES ASSUME faults \in Nat, [Next]_vars PROVE faults' \in {faults, faults + 1}
  OBVIOUS
<1>1. CASE Bootloader \/ Application \/ SafeMode \/ SendCommand \/ Reset
  BY <1>1 DEF Bootloader, ResolveFailedBoot, ProceedWithBooting, LoadPage, BootToAddress, Application,
     ConfirmBoot, WatchdogReset, SafeMode, EraseN25QStep, RevertBootSlots, Revert, Reboot, Reset, SendCommand,
     EraseBootTableEntry, FinalizeProgramEntry, WriteProgramPart, CopyBootSlots, SetBootSlots,
     BeginFlash, Begin, budget
<1>2. CASE Scrubber
  BY <1>2 DEF Scrubber, ScrubSlots, ScrubErase, ScrubProgram, budget
<1>3. CASE ExecuteCommand
  BY <1>3 DEF ExecuteCommand, EraseSector, WriteContent, FinalizeEntry, CopyPart, WriteSettings,
     FlashFails, budget
<1>4. CASE Upset
  BY <1>4 DEF Upset
<1>5. CASE UNCHANGED vars
  BY <1>5 DEF vars
<1> QED
  BY <1>1, <1>2, <1>3, <1>4, <1>5, Zenon DEF Next

(* With one fault at most every step keeps the copies sound: the second     *)
(* fault is the first that may reach the vote.                              *)
LEMMA OneFaultStep == WholeGroups /\ SettingsInv /\ OneFaultInv /\ [Next]_vars => OneFaultInv'
<1> SUFFICES ASSUME WholeGroups, SettingsInv, OneFaultInv, [Next]_vars, faults' <= 1 PROVE CopiesInv'
  BY FaultsGrow DEF OneFaultInv
<1>0. CopiesInv
  <2>1. faults \in Nat /\ faults' \in Nat /\ faults' >= faults
    BY FaultsGrow DEF OneFaultInv
  <2> QED
    BY <2>1 DEF OneFaultInv
<1>1. CASE Bootloader \/ ConfirmBoot \/ EraseN25QStep \/ RevertBootSlots
  BY <1>0, <1>1, BootKeepsCopies
<1>2. CASE WatchdogReset \/ Reboot \/ Reset
  <2>1. Restart /\ UNCHANGED faults
    BY <1>2 DEF WatchdogReset, Reboot, Reset, budget
  <2> QED
    BY <1>0, <2>1, RestartKeepsCopies
<1>3. CASE Scrubber
  BY <1>0, <1>3, ScrubStartKeepsCopies, ScrubKeepsCopies DEF Scrubber
<1>4. CASE SendCommand
  BY <1>0, <1>4, SendKeepsCopies
<1>5. CASE ExecuteCommand
  BY <1>0, <1>5, EraseKeepsCopies, WriteKeepsCopies, FinalizeKeepsCopies, CopyKeepsCopies,
     SettingsKeepCopies
  DEF ExecuteCommand
<1>6. CASE Upset
  BY <1>0, <1>6, UpsetKeepsCopies
<1>7. CASE UNCHANGED vars
  <2>1. UNCHANGED <<flash, installed, faults, scrub, session, cmd, phase, index, mcu>>
    BY <1>7 DEF vars
  <2>2. RunsInstalledProgram'
    BY <1>0, <2>1 DEF CopiesInv, RunsInstalledProgram
  <2> QED
    BY <1>0, <2>1, <2>2, QuietStep
<1> QED
  BY <1>1, <1>2, <1>3, <1>4, <1>5, <1>6, <1>7, Zenon DEF Next, Application, SafeMode

(* The mission begins without a fault.                                      *)
LEMMA OneFaultInit == Init => SettingsInv /\ OneFaultInv
BY SettingsInit, CopiesInit DEF OneFaultInv, CopiesInv, HistoryOK

(* As long as at most one fault happened, and the masks the ground sends    *)
(* name whole groups, the vote on each group is the program it should hold  *)
(* and the copies of a finished upload are complete, whatever step a reset  *)
(* cuts off (scrubber/program.cpp:49-117, program_upload.cpp:139-272).      *)
THEOREM MemoryIsSound == WholeGroups => (Spec => [](faults <= 1 => MemorySound))
<1> SUFFICES ASSUME WholeGroups PROVE Spec => [](faults <= 1 => MemorySound)
  OBVIOUS
<1>1. SettingsInv /\ OneFaultInv /\ [Next]_vars => (SettingsInv /\ OneFaultInv)'
  BY SettingsInvStep, OneFaultStep
<1>2. SettingsInv /\ OneFaultInv => (faults <= 1 => MemorySound)
  BY CopiesAreSound DEF OneFaultInv
<1> QED
  BY OneFaultInit, <1>1, <1>2, PTL DEF Spec

(* The program started from a group is the one installed there, also when   *)
(* the boot before was cut off half way through the pages (boot.cpp:84-140).*)
THEOREM InstalledProgramRuns == WholeGroups => (Spec => [](faults <= 1 => RunsInstalledProgram))
<1> SUFFICES ASSUME WholeGroups PROVE Spec => [](faults <= 1 => RunsInstalledProgram)
  OBVIOUS
<1>1. SettingsInv /\ OneFaultInv /\ [Next]_vars => (SettingsInv /\ OneFaultInv)'
  BY SettingsInvStep, OneFaultStep
<1>2. OneFaultInv => (faults <= 1 => RunsInstalledProgram)
  BY DEF OneFaultInv, CopiesInv
<1> QED
  BY OneFaultInit, <1>1, <1>2, PTL DEF Spec

=============================================================================
