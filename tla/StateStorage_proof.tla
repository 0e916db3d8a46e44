------------------------- MODULE StateStorage_proof -------------------------
(***************************************************************************)
(* Proofs about StateStorage: its types, that the modified flag covers the *)
(* state, and that the three chips implement the one memory of StableState *)
(* as long as the first chip is not upset.                                 *)
(***************************************************************************)
EXTENDS StateStorage, TLAPS

LEMMA SizeType == Size \in Nat /\ Size >= 2 /\ Cells = 1 .. Size /\ 1 \in Cells /\ 1 \in 1 .. 3
BY LayoutAssumption DEF Size, Cells

(* The length of the image is not a multiple of four, so that no vote      *)
(* takes place: the first chip is what is read.                            *)
LEMMA ReadsFirst == ASSUME NEW m \in [1 .. 3 -> Images] PROVE Read(m) = m[1]
<1>1. TotalImageSize = 289
  BY DEF TotalImageSize, PartSizes
<1>2. TotalImageSize % 4 # 0
  BY <1>1
<1> QED
  BY <1>2 DEF Read, CorrectBuffer

LEMMA DefaultType == DefaultImage \in Images
BY LayoutAssumption DEF DefaultImage, Images, CellValue, Cells, Size

(* Every state has the types of the variables: the container's cells, the  *)
(* chips, the place of the mission loop.                                   *)
LEMMA TypeStep == TypeOK /\ [Next]_vars => TypeOK'
<1> SUFFICES ASSUME TypeOK, [Next]_vars PROVE TypeOK'
  OBVIOUS
<1> USE SizeType DEF TypeOK
<1>0. CASE UNCHANGED vars
  BY <1>0 DEF vars, bounds
<1>1. CASE SetByTask
  BY <1>1 DEF SetByTask, SetPart
<1>2. CASE SaveErrorCountersConfig
  BY <1>2 DEF SaveErrorCountersConfig
<1>3. CASE SaveStateCondition
  BY <1>3 DEF SaveStateCondition
<1>4. CASE SaveState \/ ClearState
  <2>1. image' = ram /\ chip' = 1 /\ at' = 1 /\ pc' = "write" /\ modified' = FALSE
        /\ UNCHANGED <<ram, chips, booting, saved>>
    BY <1>4 DEF SaveState, ClearState, Capture
  <2> QED
    BY <2>1, Zenon
<1>5. CASE WriteCell
  <2>1. chips' \in [1 .. 3 -> Images] /\ saved' \in Images
    BY <1>5 DEF WriteCell, Images
  <2>2. at' \in Cells /\ chip' \in 1 .. 3
    BY <1>5 DEF WriteCell, Advance
  <2>3. pc' \in {"update", "write"} /\ booting' \in BOOLEAN
    BY <1>5 DEF WriteCell, Advance
  <2> QED
    BY <1>5, <2>1, <2>2, <2>3 DEF WriteCell
<1>6. CASE ReadPersistentState
  <2>1. ram' \in Images
    BY <1>6, ReadsFirst DEF ReadPersistentState
  <2> QED
    BY <1>6, <2>1, Zenon DEF ReadPersistentState
<1>7. CASE ResetOBC
  <2>1. ram' \in Images /\ image' \in Images
    BY <1>7, ReadsFirst, DefaultType DEF ResetOBC
  <2> QED
    BY <1>7, <2>1, Zenon DEF ResetOBC
<1>8. CASE Upset
  <2>1. chips' \in [1 .. 3 -> Images]
    <3>1. PICK c \in UpsetChips, k \in Cells, v \in CellValue :
             chips' = [chips EXCEPT ![c][k] = v]
      BY <1>8 DEF Upset
    <3>2. c \in 1 .. 3 /\ [chips[c] EXCEPT ![k] = v] \in Images
      BY <3>1, LayoutAssumption DEF Images
    <3> QED
      BY <3>1, <3>2
  <2> QED
    BY <1>8, <2>1 DEF Upset
<1> QED
  BY <1>0, <1>1, <1>2, <1>3, <1>4, <1>5, <1>6, <1>7, <1>8 DEF Next, MissionLoop, Boot

LEMMA TypeInit == Init => TypeOK
<1> SUFFICES ASSUME Init PROVE TypeOK
  OBVIOUS
<1>1. PICK i \in {DefaultImage, [k \in Cells |-> {}]} :
         chips = [c \in 1 .. 3 |-> i] /\ image = i /\ saved = i
  BY DEF Init
<1>2. i \in Images
  <2>1. [k \in Cells |-> {}] \in Images
    BY DEF Images, CellValue
  <2> QED
    BY <1>1, <2>1, DefaultType
<1>3. chips \in [1 .. 3 -> Images] /\ image \in Images /\ saved \in Images
  BY <1>1, <1>2
<1> QED
  BY <1>3, DefaultType, SizeType, Zenon DEF Init, TypeOK

THEOREM TypeCorrect == Spec => []TypeOK
BY TypeInit, TypeStep, PTL DEF Spec

-----------------------------------------------------------------------------
(* The first chip is never upset. *)

FirstChipSound == UpsetChips \subseteq {2, 3}

LEMMA UpsetSpares == ASSUME TypeOK, FirstChipSound, Upset PROVE chips'[1] = chips[1]
<1>1. PICK c \in UpsetChips, k \in Cells, v \in CellValue :
         chips' = [chips EXCEPT ![c][k] = v]
  BY DEF Upset
<1>2. c # 1 /\ c \in 1 .. 3
  BY <1>1 DEF FirstChipSound
<1> QED
  BY <1>1, <1>2 DEF TypeOK

(* Every step of the storage is a step of the one memory or changes        *)
(* nothing there.                                                          *)
LEMMA RefinementStep ==
    ASSUME FirstChipSound, TypeOK, TypeOK', [Next]_vars
    PROVE  [Stable!Next]_<<ram, image, Done, Read(chips)>>
<1> USE SizeType
<1>r. Read(chips) = chips[1] /\ Read(chips') = chips'[1]
  BY ReadsFirst DEF TypeOK
<1> DEFINE Same == UNCHANGED <<ram, image, Done, Read(chips)>>
<1>0. CASE UNCHANGED vars
  <2>1. Same
    BY <1>0 DEF vars, Done
  <2> QED
    BY <2>1
<1>1. CASE SetByTask
  <2>1. Stable!Set
    BY <1>1 DEF SetByTask, Stable!Set, Done, TypeOK, Images, Stable!Images, Cells
  <2> QED
    BY <2>1 DEF Stable!Next
<1>2. CASE SaveErrorCountersConfig \/ SaveStateCondition
  <2>1. Same
    BY <1>2 DEF SaveErrorCountersConfig, SaveStateCondition, Done
  <2> QED
    BY <2>1
<1>4. CASE SaveState \/ ClearState
  <2>1. Stable!Capture
    BY <1>4 DEF SaveState, ClearState, Capture, Stable!Capture, Done
  <2> QED
    BY <2>1 DEF Stable!Next
<1>5. CASE WriteCell
  <2> USE <1>5 DEF TypeOK
  <2>1. CASE chip = 1
    <3>1. chips'[1] = [chips[1] EXCEPT ![at] = image[at]]
      BY <2>1 DEF WriteCell
    <3>2. Done = at - 1 /\ Done' = at
      BY <2>1 DEF WriteCell, Advance, Done
    <3>3. Stable!Persist
      BY <1>r, <3>1, <3>2 DEF WriteCell, Stable!Persist
    <3> QED
      BY <3>3 DEF Stable!Next
  <2>2. CASE chip # 1
    <3>1. chips'[1] = chips[1]
      BY <2>2 DEF WriteCell
    <3>2. Done = Size /\ Done' = Size
      BY <2>2 DEF WriteCell, Advance, Done
    <3>3. Same
      BY <1>r, <3>1, <3>2 DEF WriteCell
    <3> QED
      BY <3>3
  <2> QED
    BY <2>1, <2>2
<1>6. CASE ReadPersistentState
  <2>1. CASE Valid(Read(chips))
    <3>1. Stable!Restore
      BY <1>6, <2>1 DEF ReadPersistentState, Stable!Restore, Done
    <3> QED
      BY <3>1 DEF Stable!Next
  <2>2. CASE ~Valid(Read(chips))
    <3>1. Same
      BY <1>6, <2>2 DEF ReadPersistentState, Done
    <3> QED
      BY <3>1
  <2> QED
    BY <2>1, <2>2
<1>7. CASE ResetOBC
  <2>1. Stable!Restart
    BY <1>7 DEF ResetOBC, Stable!Restart, Done
  <2> QED
    BY <2>1 DEF Stable!Next
<1>8. CASE Upset
  <2>1. Same
    BY <1>8, <1>r, UpsetSpares DEF Upset, Done
  <2> QED
    BY <2>1
<1> QED
  BY <1>0, <1>1, <1>2, <1>4, <1>5, <1>6, <1>7, <1>8 DEF Next, MissionLoop, Boot

LEMMA RefinementInit == Init => Stable!Init
<1> SUFFICES ASSUME Init PROVE Stable!Init
  OBVIOUS
<1>1. Read(chips) = chips[1] /\ chips[1] \in Images
  BY TypeInit, ReadsFirst DEF TypeOK
<1>2. image = chips[1]
  BY DEF Init
<1>3. Done = Size
  BY DEF Init, Done
<1> QED
  BY <1>1, <1>2, <1>3 DEF Init, Stable!Init, Stable!Images, Images, Cells

(* The chips, the save and the boot implement the one memory of            *)
(* StableState for any layout of the image and any number of resets, and   *)
(* of upsets of the second and the third chip.                             *)
THEOREM StorageRefinesStableState ==
    ASSUME FirstChipSound PROVE Spec => ImplementsStableState
<1>1. Init => Stable!Init
  BY RefinementInit
<1>2. TypeOK /\ TypeOK' /\ [Next]_vars => [Stable!Next]_<<ram, image, Done, Read(chips)>>
  BY RefinementStep
<1> QED
  BY <1>1, <1>2, TypeCorrect, PTL DEF Spec, ImplementsStableState, Stable!Spec

-----------------------------------------------------------------------------
(* The modified flag *)

(* The signatures stay in their places, the defaults stay until the boot   *)
(* has read the image, and the first chip holds what was written of it.    *)
ImageInv ==
    /\ Valid(ram) /\ (pc = "write" => Valid(image))
    /\ pc = "boot" => ram = DefaultImage /\ booting
    /\ pc = "write" =>
          IF chip = 1 THEN \A k \in 1 .. at - 1 : chips[1][k] = image[k]
                      ELSE chips[1] = image

(* ModifiedCoversState, also for the writes and the reads of the boot. *)
FlagInv ==
    /\ pc = "write" /\ ~modified => image = ram
    /\ pc \notin {"write", "boot"} /\ ~modified => Restored = ram

StorageInv == TypeOK /\ ImageInv /\ FlagInv

LEMMA DefaultValid == Valid(DefaultImage)
BY SizeType DEF Valid, DefaultImage

LEMMA SetKeepsValid == ASSUME TypeOK, Valid(ram), SetByTask PROVE Valid(ram')
<1>1. PICK p \in Parts : SetPart(p)
  BY DEF SetByTask
<1>2. PICK j \in 2 .. Size - 1 : p = Layout[j]
  BY <1>1 DEF Parts
<1>3. Layout[1] # p /\ Layout[Size] # p
  BY <1>2, LayoutAssumption, SizeType DEF Size
<1>4. ram'[1] = ram[1] /\ ram'[Size] = ram[Size]
  BY <1>1, <1>3, SizeType DEF SetPart
<1> QED
  BY <1>4 DEF Valid

LEMMA StorageStep == FirstChipSound /\ StorageInv /\ [Next]_vars => StorageInv'
<1> SUFFICES ASSUME FirstChipSound, StorageInv, [Next]_vars PROVE StorageInv'
  OBVIOUS
<1>t. TypeOK /\ TypeOK' /\ ImageInv /\ FlagInv
  BY TypeStep DEF StorageInv
<1>r. Read(chips) = chips[1] /\ Read(chips') = chips'[1]
  BY <1>t, ReadsFirst DEF TypeOK
<1> SUFFICES ImageInv' /\ FlagInv'
  BY <1>t DEF StorageInv
<1> USE SizeType
<1>0. CASE UNCHANGED vars
  BY <1>0, <1>t DEF vars, ImageInv, FlagInv, Restored
<1>1. CASE SetByTask
  <2>1. Valid(ram')
    BY <1>1, <1>t, SetKeepsValid DEF ImageInv
  <2>2. modified' /\ ~booting /\ UNCHANGED <<chips, image, pc, booting, chip, at>>
    BY <1>1 DEF SetByTask, SetPart
  <2> QED
    BY <2>1, <2>2, <1>t DEF ImageInv, FlagInv
<1>2. CASE SaveErrorCountersConfig
  BY <1>2, <1>t DEF SaveErrorCountersConfig, ImageInv, FlagInv
<1>3. CASE SaveStateCondition
  <2>1. /\ pc' \in {"save", "update"} /\ pc = "determine"
        /\ UNCHANGED <<ram, modified, chips, image, booting, chip, at>>
    BY <1>3 DEF SaveStateCondition
  <2>2. Restored' = Restored
    BY <2>1 DEF Restored
  <2> QED
    BY <2>1, <2>2, <1>t DEF ImageInv, FlagInv
<1>4. CASE SaveState \/ ClearState
  <2>1. /\ image' = ram /\ chip' = 1 /\ at' = 1 /\ pc' = "write"
        /\ UNCHANGED <<ram, chips, booting>>
    BY <1>4 DEF SaveState, ClearState, Capture
  <2> QED
    BY <2>1, <1>t DEF ImageInv, FlagInv
<1>5. CASE WriteCell
  <2>1. /\ pc = "write" /\ UNCHANGED <<ram, modified, image>>
        /\ Valid(image) /\ Valid(ram)
    BY <1>5, <1>t DEF WriteCell, ImageInv
  <2>2. chips'[1] = IF chip = 1 THEN [chips[1] EXCEPT ![at] = image[at]] ELSE chips[1]
    BY <1>5, <1>t DEF WriteCell, TypeOK
  <2>3. chips[1] \in Images /\ image \in Images /\ at \in Cells /\ chip \in 1 .. 3
    BY <1>t DEF TypeOK
  <2>4. /\ pc' \in {"write", "update"}
        /\ pc' = "update" => at = Size /\ chip = 3
        /\ chip' = 1 /\ pc' = "write" => chip = 1 /\ at' = at + 1 /\ at < Size
        /\ chip' # 1 => chip # 1 \/ at = Size
    BY <1>5, <2>3 DEF WriteCell, Advance
  <2>5. chip # 1 => chips[1] = image
    BY <2>1, <1>t DEF ImageInv
  <2>6. chip = 1 => \A k \in 1 .. at : chips'[1][k] = image[k]
    BY <2>1, <2>2, <2>3, <1>t DEF ImageInv, Images
  <2>7. chip = 1 /\ at = Size => chips'[1] = image
    BY <2>2, <2>3, <2>6 DEF Images
  <2>8. ImageInv'
    BY <2>1, <2>2, <2>3, <2>4, <2>5, <2>6, <2>7 DEF ImageInv, Valid
  <2>9. FlagInv'
    <3>1. pc' = "update" => Read(chips') = image
      BY <1>r, <2>2, <2>4, <2>5
    <3>2. pc' = "update" => Restored' = image
      BY <3>1, <2>1 DEF Restored
    <3>3. ~modified => image = ram
      BY <2>1, <1>t DEF FlagInv
    <3> QED
      BY <3>2, <3>3, <2>1, <2>4 DEF FlagInv
  <2> QED
    BY <2>8, <2>9
<1>6. CASE ReadPersistentState
  <2>1. /\ pc = "boot" /\ pc' = "update" /\ UNCHANGED <<chips, image>>
        /\ ram' = IF Valid(Read(chips)) THEN Read(chips) ELSE ram
    BY <1>6 DEF ReadPersistentState
  <2>2. ram = DefaultImage /\ Valid(ram)
    BY <2>1, <1>t DEF ImageInv
  <2>3. Restored' = ram'
    BY <2>1, <2>2 DEF Restored
  <2>4. Valid(ram')
    BY <2>1, <2>2
  <2> QED
    BY <2>1, <2>3, <2>4 DEF ImageInv, FlagInv
<1>7. CASE ResetOBC
  BY <1>7, DefaultValid DEF ResetOBC, ImageInv, FlagInv
<1>8. CASE Upset
  <2>1. chips'[1] = chips[1]
    BY <1>8, <1>t, UpsetSpares
  <2>2. UNCHANGED <<ram, modified, image, pc, booting, chip, at>>
    BY <1>8 DEF Upset
  <2>3. Restored' = Restored
    BY <2>1, <1>r DEF Restored
  <2> QED
    BY <2>1, <2>2, <2>3, <1>t DEF ImageInv, FlagInv
<1> QED
  BY <1>0, <1>1, <1>2, <1>3, <1>4, <1>5, <1>6, <1>7, <1>8 DEF Next, MissionLoop, Boot

(* The modified flag covers the difference between the persistent state    *)
(* and its image, for any layout and any number of tasks that set parts,   *)
(* resets, and upsets of the second and the third chip.                    *)
THEOREM FlagCoversState ==
    ASSUME FirstChipSound PROVE Spec => []ModifiedCoversState
<1>1. Init => StorageInv
  <2> SUFFICES ASSUME Init PROVE StorageInv
    OBVIOUS
  <2>1. pc = "boot" /\ ram = DefaultImage /\ booting
    BY DEF Init
  <2> QED
    BY <2>1, TypeInit, DefaultValid DEF StorageInv, ImageInv, FlagInv
<1>2. StorageInv /\ [Next]_vars => StorageInv'
  BY StorageStep
<1>3. StorageInv => ModifiedCoversState
  BY DEF StorageInv, ImageInv, FlagInv, ModifiedCoversState
<1> QED
  BY <1>1, <1>2, <1>3, PTL DEF Spec
=============================================================================
