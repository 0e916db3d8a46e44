---------------------------- MODULE StableState ----------------------------
(***************************************************************************)
(* What the persistent state promises its users: one memory that holds a   *)
(* serialized image of the state.  A save takes the whole state at one     *)
(* moment and puts it into the memory from its first cell to its last; a   *)
(* restart keeps what the memory holds, which is a prefix of the image     *)
(* that was being saved followed by the rest of the image before it.       *)
(*                                                                         *)
(* There are no chips, no votes and no modified flag here: StateStorage    *)
(* has them and implements this specification.                             *)
(***************************************************************************)
EXTENDS Integers

CONSTANTS
    Size,           \* number of cells of the image
    CellValue,      \* what a cell may hold
    DefaultImage,   \* image of the default constructed state
    Valid(_)        \* can the image be loaded?

VARIABLES
    ram,            \* the state in memory, as the image it would give
    image,          \* the image of the last save
    done,           \* number of its cells that are stored
    stable          \* what a restart would find

Images == [1 .. Size -> CellValue]

Init ==
    /\ stable \in Images
    /\ ram = DefaultImage
    /\ image = stable
    /\ done = Size

(* Users change parts of the state at any time. *)
Set == ram' \in Images /\ UNCHANGED <<image, done, stable>>

(* A save begins when the one before it is over. *)
Capture == done = Size /\ image' = ram /\ done' = 0 /\ UNCHANGED <<ram, stable>>

(* The next cell of the image is stored. *)
Persist ==
    /\ done < Size
    /\ stable' = [stable EXCEPT ![done + 1] = image[done + 1]]
    /\ done' = done + 1
    /\ UNCHANGED <<ram, image>>

(* A reset, at any moment: the image under way is forgotten and the state  *)
(* begins with its defaults.                                               *)
Restart == ram' = DefaultImage /\ image' = stable /\ done' = Size /\ UNCHANGED stable

(* The state found in the memory is loaded if it is valid. *)
Restore == Valid(stable) /\ ram' = stable /\ UNCHANGED <<image, done, stable>>

Next == Set \/ Capture \/ Persist \/ Restart \/ Restore

Spec == Init /\ [][Next]_<<ram, image, done, stable>>
=============================================================================
