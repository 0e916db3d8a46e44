---------------------------- MODULE StateStorage ----------------------------
(***************************************************************************)
(* The persistent state (libs/state), its save by the mission loop         *)
(* (libs/mission/state, libs/obc/state), and the three FRAM chips that     *)
(* keep its image (libs/drivers/fm25w), with resets between any two bytes  *)
(* and upsets of the memory.                                               *)
(*                                                                         *)
(* A cell stands for a byte or a run of bytes of the serialized image; its *)
(* value is the set of its bits that are one, so that the bitwise majority *)
(* of libs/base/redundancy is a union of intersections.                    *)
(***************************************************************************)
EXTENDS Integers, Sequences, FiniteSets

CONSTANTS
    Layout,         \* sequence of part names: the part each cell belongs to
    Bits,           \* bits of a cell
    Signature,      \* value of the first and the last cell, a set of bits
    Default,        \* value of every cell of the default state
    UpsetChips,     \* chips whose memory may be upset
    MaxUpsets,
    MaxResets,
    MaxSets         \* bound on changes of the state by other tasks

SignaturePart == "signature"

ASSUME LayoutAssumption ==
    /\ Layout \in Seq(STRING) /\ Len(Layout) >= 2
    /\ \A k \in 1 .. Len(Layout) : Layout[k] = SignaturePart <=> k \in {1, Len(Layout)}
    /\ Signature \in SUBSET Bits /\ Default \in SUBSET Bits
    /\ UpsetChips \subseteq 1 .. 3

VARIABLES
    ram,            \* the parts of the persistent state, as cells of its image
    modified,       \* StateTrackingPolicy::isModified
    chips,          \* contents of the three FRAM chips
    image,          \* local buffer of WritePersistentState
    pc,             \* place of the mission loop, or of the boot before it
    booting,        \* run level 1: no other task runs yet
    chip, at,       \* chip and cell to be written next
    saved,          \* history: the cells written to the first chip
    upsets, resets, sets

bounds == <<upsets, resets, sets>>
vars == <<ram, modified, chips, image, pc, booting, chip, at, saved, bounds>>

-----------------------------------------------------------------------------
(* Images *)

Size == Len(Layout)
Cells == 1 .. Size
CellValue == SUBSET Bits
Images == [Cells -> CellValue]
Parts == {Layout[k] : k \in 2 .. Size - 1}

(* The image of the default constructed state: two signatures around it. *)
DefaultImage == [k \in Cells |-> IF k \in {1, Size} THEN Signature ELSE Default]

(* Sizes in bytes of the serialized parts, in the order of the image. *)
PartSizes == <<1, 16, 4, 1, 14 * 4, 1, 202>>
TotalImageSize ==
    PartSizes[1] + PartSizes[2] + PartSizes[3] + PartSizes[4] + PartSizes[5]
    + PartSizes[6] + PartSizes[7] + 2 * 4

(* redundancy::Correct on each bit of each cell. *)
Correct(a, b, c) == (a \cap b) \cup (b \cap c) \cup (a \cap c)

(* CorrectBuffer leaves the first buffer as it is when its length is not a *)
(* multiple of four; RedundantFM25WDriver::Read does not look at its       *)
(* result.  (The buffer of the persistent state is aligned.)               *)
CorrectBuffer(a, b, c) ==
    IF TotalImageSize % 4 # 0 THEN a ELSE [k \in Cells |-> Correct(a[k], b[k], c[k])]

(* Faulty variant: what the second chip holds is returned. *)
Read_Second(m) == IF m[1] = m[2] THEN m[1] ELSE CorrectBuffer(m[2], m[1], m[3])

(* RedundantFM25WDriver::Read of the whole image, which is below 1 KB. *)
Read(m) == IF m[1] = m[2] THEN m[1] ELSE CorrectBuffer(m[1], m[2], m[3])

(* ReadPersistentState looks at the two signatures and at nothing else. *)
Valid(i) == i[1] = Signature /\ i[Size] = Signature

-----------------------------------------------------------------------------
(* The container *)

(* LockablePersistentState::Set of one part, under the lock. *)
SetPart(p) ==
    /\ ram' \in {v \in Images : \A k \in Cells : Layout[k] # p => v[k] = ram[k]}
    /\ modified' = TRUE

(* A telecommand or another task sets a part. *)
SetByTask ==
    /\ ~booting /\ sets < MaxSets
    /\ \E p \in Parts : SetPart(p)
    /\ sets' = sets + 1
    /\ UNCHANGED <<chips, image, pc, booting, chip, at, saved, upsets, resets>>

-----------------------------------------------------------------------------
(* The mission loop *)

(* SaveErrorCountersConfig::Update sets the part of the error counters,    *)
(* changed or not.  A change of their configuration comes with SetByTask.  *)
SaveErrorCountersConfig ==
    /\ pc = "update"
    /\ modified' = TRUE
    /\ pc' = "determine"
    /\ UNCHANGED <<ram, chips, image, booting, chip, at, saved, bounds>>

(* Faulty variant: the condition is negated. *)
SaveStateCondition_Negated ==
    /\ pc = "determine"
    /\ pc' = IF ~modified THEN "save" ELSE "update"
    /\ UNCHANGED <<ram, modified, chips, image, booting, chip, at, saved, bounds>>

SaveStateCondition ==
    /\ pc = "determine"
    /\ pc' = IF modified THEN "save" ELSE "update"
    /\ UNCHANGED <<ram, modified, chips, image, booting, chip, at, saved, bounds>>

(* WritePersistentState up to the write: the capture under the lock, which *)
(* also clears the modified flag, between two signatures.                  *)
Capture == image' = ram /\ chip' = 1 /\ at' = 1 /\ pc' = "write" /\ modified' = FALSE

SaveState ==
    /\ pc = "save" /\ Capture
    /\ UNCHANGED <<ram, chips, booting, saved, bounds>>

(* The next cell, the next chip, or the end of the write. *)
Advance ==
    /\ at' = IF at < Size THEN at + 1 ELSE 1
    /\ chip' = IF at < Size THEN chip ELSE IF chip < 3 THEN chip + 1 ELSE 1
    /\ pc' = IF at = Size /\ chip = 3 THEN "update" ELSE "write"
    /\ booting' = (booting /\ pc' = "write")

(* Faulty variant: the modified flag is cleared when the write is over. *)
WriteCell_NotifiesSaved ==
    /\ pc = "write" /\ Advance
    /\ chips' = [chips EXCEPT ![chip][at] = image[at]]
    /\ saved' = IF chip = 1 THEN [saved EXCEPT ![at] = image[at]] ELSE saved
    /\ modified' = (modified /\ pc' = "write")
    /\ UNCHANGED <<ram, image, bounds>>

(* RedundantFM25WDriver::Write: one chip after the other, byte by byte. *)
WriteCell ==
    /\ pc = "write" /\ Advance
    /\ chips' = [chips EXCEPT ![chip][at] = image[at]]
    /\ saved' = IF chip = 1 THEN [saved EXCEPT ![at] = image[at]] ELSE saved
    /\ UNCHANGED <<ram, modified, image, bounds>>

-----------------------------------------------------------------------------
(* Boot *)

(* A reset loses everything but the chips; the state is constructed anew. *)
ResetOBC ==
    /\ resets < MaxResets /\ resets' = resets + 1
    /\ ram' = DefaultImage /\ modified' = FALSE /\ image' = Read(chips)
    /\ pc' = "boot" /\ booting' = TRUE /\ chip' = 1 /\ at' = 1
    /\ UNCHANGED <<chips, saved, upsets, sets>>

(* ProcessState, ReadPersistentState: the image is loaded, with an         *)
(* unmodified state, or, if a signature is wrong, the defaults stay.       *)
ReadPersistentState ==
    /\ pc = "boot"
    /\ ram' = IF Valid(Read(chips)) THEN Read(chips) ELSE ram
    /\ modified' = FALSE
    /\ pc' = "update" /\ booting' = FALSE
    /\ UNCHANGED <<chips, image, chip, at, saved, bounds>>

(* ProcessState with ClearStateOnStartup: the defaults are saved. *)
ClearState ==
    /\ pc = "boot" /\ Capture
    /\ UNCHANGED <<ram, chips, booting, saved, bounds>>

(* The memory of a chip changes by itself. *)
Upset ==
    /\ upsets < MaxUpsets /\ upsets' = upsets + 1
    /\ \E c \in UpsetChips, k \in Cells, v \in CellValue :
           chips' = [chips EXCEPT ![c][k] = v]
    /\ UNCHANGED <<ram, modified, image, pc, booting, chip, at, saved, resets, sets>>

MissionLoop == SaveErrorCountersConfig \/ SaveStateCondition \/ SaveState \/ WriteCell
Boot == ReadPersistentState \/ ClearState

(* The chips come blank or hold the image of an earlier mission phase. *)
Init ==
    /\ \E i \in {DefaultImage, [k \in Cells |-> {}]} :
           chips = [c \in 1 .. 3 |-> i] /\ image = i /\ saved = i
    /\ ram = DefaultImage /\ modified = FALSE
    /\ pc = "boot" /\ booting = TRUE /\ chip = 1 /\ at = 1
    /\ upsets = 0 /\ resets = 0 /\ sets = 0

Next == SetByTask \/ MissionLoop \/ Boot \/ ResetOBC \/ Upset

Spec == Init /\ [][Next]_vars

(* The boot comes to its end and the mission loop iterates. *)
Fairness == WF_vars(MissionLoop) /\ WF_vars(Boot)
FairSpec == Spec /\ Fairness

-----------------------------------------------------------------------------
(* Properties *)

TypeOK ==
    /\ ram \in Images /\ image \in Images /\ saved \in Images
    /\ chips \in [1 .. 3 -> Images]
    /\ modified \in BOOLEAN /\ booting \in BOOLEAN
    /\ pc \in {"boot", "update", "determine", "save", "write"}
    /\ chip \in 1 .. 3 /\ at \in Cells

(* What a reset at this moment would give. *)
Restored == IF Valid(Read(chips)) THEN Read(chips) ELSE DefaultImage

(* The modified flag covers the difference between the state and its       *)
(* image: while it is down, a reset loses nothing once the write is over,  *)
(* and a write under way is one of the present state (libs/state: Set      *)
(* raises the flag under the lock, Capture clears it under the same lock). *)
ModifiedCoversState ==
    ~modified /\ ~booting => IF pc = "write" THEN image = ram ELSE Restored = ram

(* The cells stored so far of the image being saved, as StableState counts *)
(* them: what is read back changes while the first chip is written.        *)
Done == IF pc = "write" /\ chip = 1 THEN at - 1 ELSE Size

Stable == INSTANCE StableState WITH stable <- Read(chips), done <- Done

(* The three chips, the save and the boot behave as one memory in which a  *)
(* reset leaves a prefix of the new image before the rest of the old one.  *)
(* Upsets of the second and the third chip do not show.                    *)
ImplementsStableState == Stable!Spec

(* A change of the state reaches the memory or is overtaken by another     *)
(* change or a reset, in spite of resets between the clearing of the       *)
(* modified flag and the end of the write.                                 *)
ChangesReachMemory ==
    \A k \in Cells, v \in CellValue :
        []<>(Read(chips)[k] = v \/ ram[k] # v \/ booting)

(* RedundantFM25WDriver::Read: as long as two chips hold the image written *)
(* last, it is read back.                                                  *)
SingleChipTolerated ==
    \A c \in 1 .. 3 : (\A d \in 1 .. 3 \ {c} : chips[d] = saved) => Read(chips) = saved
=============================================================================
