--------------------------- MODULE RedundantFlash ---------------------------
(***************************************************************************)
(* The three N25Q flash chips below the file system                        *)
(* (libs/drivers/n25q/n25q.cpp) and the driver that uses them as one        *)
(* (redundant_n25q.cpp): every operation is begun on all three chips, and   *)
(* their results are voted upon; a read compares two chips and asks the     *)
(* third one only if these differ.                                         *)
(*                                                                         *)
(* The content of a page is the set of bits that are programmed, which only *)
(* an erase takes back.  One subsector is modelled; the erasure of a sector *)
(* and of the chip are the same with another command.                      *)
(***************************************************************************)
EXTENDS Integers, FiniteSets

CONSTANTS
    FlashPages,         \* number of pages of a write
    FlashBits,          \* bits of a page
    Contents,           \* contents that are written
    MaxFlashOps, MaxFlashFaults

ASSUME FlashAssumption ==
    /\ FlashPages \in Nat \ {0} /\ Contents \subseteq SUBSET FlashBits
    /\ "unknown" \notin FlashBits

VARIABLES
    cells,          \* what is programmed on each chip, by page
    errorFlag,      \* chips whose flag register shows an error
    flashPc,        \* the page to write next, or Ready
    writing,        \* content that is being written
    flashResult,    \* of the last operation
    expected,       \* history: what every page should hold, if that is known
    disturbed,      \* history: chips that something has happened to
    trusted,        \* history: since an erase, nothing has happened to any chip
    flashOps, flashFaults   \* bounded counters

flashVars == <<cells, errorFlag, flashPc, writing, flashResult, expected, disturbed, trusted,
               flashOps, flashFaults>>

Chips == 1 .. 3
PageNumbers == 1 .. FlashPages
Ready == 0
Unknown == {"unknown"}

(* What may happen to a command: it is executed; the chip does not get it;  *)
(* the chip fails; or it takes too long.                                   *)
Outcomes == {"good", "lost", "broken", "slow"}

(* The outcomes of one operation on the chips, within the bound. *)
Disturbs(outcome) ==
    LET bad == {c \in Chips : outcome[c] # "good"} IN
    /\ flashFaults + Cardinality(bad) <= MaxFlashFaults
    /\ flashFaults' = flashFaults + Cardinality(bad)
    /\ disturbed' = disturbed \cup bad

(* WaitForOperation, with the error flag as the operation leaves it. *)
WaitForOperation(outcome, flags, c) ==
    IF outcome[c] = "slow" THEN "Timeout" ELSE IF c \in flags THEN "Failure" ELSE "Success"

Majority(a, b, c) == IF a = b \/ a = c THEN a ELSE IF b = c THEN b ELSE "Failure"
Voted(outcome, flags) ==
    Majority(WaitForOperation(outcome, flags, 1), WaitForOperation(outcome, flags, 2),
             WaitForOperation(outcome, flags, 3))

NewOp == flashOps < MaxFlashOps /\ flashOps' = flashOps + 1

-----------------------------------------------------------------------------

(* WriteMemory: the pages one after the other. *)
WriteMemory(content) ==
    /\ flashPc = Ready /\ NewOp
    /\ flashPc' = 1 /\ writing' = content /\ flashResult' = "pending"
    /\ UNCHANGED <<cells, errorFlag, expected, disturbed, trusted, flashFaults>>

(* One page: BeginWritePage on the chips, which does not clear the flags,   *)
(* Wait for each, and the vote.  The rest is not written after a failure.   *)
WritePage(outcome, broken) ==
    LET flags == errorFlag \cup {c \in Chips : outcome[c] = "broken"}
        result == Voted(outcome, flags)
        written(c) == CASE outcome[c] = "lost" -> {} [] outcome[c] = "broken" -> broken
                        [] OTHER -> writing
    IN
    /\ flashPc \in PageNumbers /\ Disturbs(outcome) /\ broken \subseteq writing
    /\ cells' = [c \in Chips |-> [cells[c] EXCEPT ![flashPc] = @ \cup written(c)]]
    /\ errorFlag' = flags
    /\ trusted' = (trusted /\ \A c \in Chips : outcome[c] = "good")
    /\ expected' = [expected EXCEPT ![flashPc] =
          IF result = "Success" /\ @ # Unknown THEN @ \cup writing ELSE Unknown]
    /\ \/ result = "Success" /\ flashPc < FlashPages /\ flashPc' = flashPc + 1 /\ UNCHANGED flashResult
       \/ result = "Success" /\ flashPc = FlashPages /\ flashPc' = Ready /\ flashResult' = result
       \/ result # "Success" /\ flashPc' = Ready /\ flashResult' = result
    /\ UNCHANGED <<writing, flashOps>>

(* Faulty variant: the flags are not cleared first. *)
EraseSubSector_KeepsFlags(outcome, broken) ==
    LET flags == errorFlag \cup {c \in Chips : outcome[c] = "broken"}
        result == Voted(outcome, flags)
        left(c, p) == CASE outcome[c] = "lost" -> cells[c][p]
                        [] outcome[c] = "broken" -> cells[c][p] \cap broken [] OTHER -> {}
    IN
    /\ flashPc = Ready /\ NewOp /\ Disturbs(outcome)
    /\ cells' = [c \in Chips |-> [p \in PageNumbers |-> left(c, p)]]
    /\ errorFlag' = flags /\ flashResult' = result
    /\ trusted' = \A c \in Chips : outcome[c] = "good"
    /\ expected' = [p \in PageNumbers |-> IF result = "Success" THEN {} ELSE Unknown]
    /\ UNCHANGED <<flashPc, writing>>

EraseSubSector(outcome, broken) ==
    LET flags == {c \in Chips : outcome[c] = "broken"}
        result == Voted(outcome, flags)
        left(c, p) == CASE outcome[c] = "lost" -> cells[c][p]
                        [] outcome[c] = "broken" -> cells[c][p] \cap broken [] OTHER -> {}
    IN
    /\ flashPc = Ready /\ NewOp /\ Disturbs(outcome)
    /\ cells' = [c \in Chips |-> [p \in PageNumbers |-> left(c, p)]]
    /\ errorFlag' = flags /\ flashResult' = result
    /\ trusted' = \A c \in Chips : outcome[c] = "good"
    /\ expected' = [p \in PageNumbers |-> IF result = "Success" THEN {} ELSE Unknown]
    /\ UNCHANGED <<flashPc, writing>>

(* A bit of a chip changes by itself. *)
FlashUpset(c, p, bit) ==
    /\ flashFaults < MaxFlashFaults /\ flashFaults' = flashFaults + 1
    /\ cells' = [cells EXCEPT ![c][p] = IF bit \in @ THEN @ \ {bit} ELSE @ \cup {bit}]
    /\ disturbed' = disturbed \cup {c} /\ trusted' = FALSE
    /\ UNCHANGED <<errorFlag, flashPc, writing, flashResult, expected, flashOps>>

(* CorrectBuffer on buffers of whole words. *)
CorrectBits(a, b, c) == (a \cap b) \cup (a \cap c) \cup (b \cap c)

(* Faulty variant: the chips are compared, nothing is corrected. *)
ReadMemory_First(p) == cells[1][p]
(* What a read that succeeds returns. *)
ReadMemory(p) ==
    IF cells[1][p] = cells[2][p] THEN cells[1][p]
    ELSE CorrectBits(cells[1][p], cells[2][p], cells[3][p])

-----------------------------------------------------------------------------

FlashInit ==
    /\ cells = [c \in Chips |-> [p \in PageNumbers |-> {}]]
    /\ errorFlag = {} /\ flashPc = Ready /\ writing = {} /\ flashResult = "Success"
    /\ expected = [p \in PageNumbers |-> {}] /\ disturbed = {} /\ trusted = TRUE
    /\ flashOps = 0 /\ flashFaults = 0

FlashRests ==
    flashPc = Ready /\ flashOps = MaxFlashOps /\ UNCHANGED flashVars

FlashNext ==
    \/ \E content \in Contents : WriteMemory(content)
    \/ \E outcome \in [Chips -> Outcomes], broken \in SUBSET FlashBits :
          WritePage(outcome, broken) \/ EraseSubSector(outcome, broken)
    \/ \E c \in Chips, p \in PageNumbers, bit \in FlashBits : FlashUpset(c, p, bit)
    \/ FlashRests

FlashSpec == FlashInit /\ [][FlashNext]_flashVars

-----------------------------------------------------------------------------

(* SingleChipMasked: as long as one chip alone was disturbed, by whatever   *)
(* and however often, every operation succeeds and every page reads as it   *)
(* was written (Vote, ReadMemory).                                         *)
SingleChipMasked ==
    Cardinality(disturbed) <= 1 =>
        /\ flashResult \in {"Success", "pending"}
        /\ \A p \in PageNumbers : expected[p] # Unknown /\ ReadMemory(p) = expected[p]

(* EraseHeals: after an erase that reached all chips, and nothing since, an *)
(* operation succeeds and reads back, whatever happened to the chips        *)
(* before: errors they have shown are not held against them (ClearFlags).   *)
EraseHeals ==
    trusted =>
        /\ flashResult \in {"Success", "pending"}
        /\ \A p \in PageNumbers : expected[p] # Unknown /\ ReadMemory(p) = expected[p]

(* One chip that fails shows neither in what is read nor, once the sector   *)
(* has been erased, in later operations (redundant_n25q.cpp).              *)
FlashSound == SingleChipMasked /\ EraseHeals
=============================================================================
