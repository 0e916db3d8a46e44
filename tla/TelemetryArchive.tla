-------------------------- MODULE TelemetryArchive --------------------------
(***************************************************************************)
(* The telemetry loop: it serializes what was acquired into a shared buffer *)
(* (libs/telemetry/serialization), appends that to a file which is archived *)
(* when it is full, and two other tasks send the buffer as a beacon         *)
(* (libs/beacon, libs/telecommunication/beacon.cpp).                        *)
(*                                                                         *)
(* A cell stands for a part of an entry; its value is the number of the     *)
(* acquisition it is from.  An entry has two cells, so that it can be torn. *)
(* Only the time since the last save matters, not the time itself: delta.   *)
(***************************************************************************)
EXTENDS Integers, Sequences, FiniteSets

CONSTANTS
    AlignFileEntriesTo,     \* cells an entry takes in the file (230 bytes)
    MaxFileSize,
    SaveDelay,              \* in iterations of the loop
    Jumps,                  \* values of delta after the time was set
    MaxAcquisitions, MaxBeacons, MaxArchiveFaults

ASSUME ArchiveAssumption ==
    /\ AlignFileEntriesTo \in Nat /\ AlignFileEntriesTo >= 2
    /\ MaxFileSize \in Nat \ {0} /\ SaveDelay \in Nat \ {0} /\ Jumps \subseteq Int

VARIABLES
    currentFile, previousFile,
    serialized,     \* TelemetryState::lastSerializedTelemetry
    bufferLock,     \* its holder
    delta,          \* time of the last acquisition less lastTelemetrySave
    acquired,       \* number of the last acquisition
    archive,        \* the loop: where it is, and the copy Save has made
    beacon,         \* what each sender is doing, its copy and its frame
    slots,          \* history: what became of every place used in the files
    quiet,          \* history: iterations since a save was due or time was set
    beacons, archiveFaults  \* bounded counters

archiveVars == <<currentFile, previousFile, serialized, bufferLock, delta, acquired,
                 archive, beacon, slots, quiet, beacons, archiveFaults>>
files == <<currentFile, previousFile, slots>>

BeaconSenders == {"telecommand", "beacon"}
NoBeacon == [pc |-> "idle", copy |-> <<0, 0>>, frame |-> <<0, 0>>]
EntryCells == 2
Hole == 0
Torn == 0

ArchiveFault == archiveFaults < MaxArchiveFaults /\ archiveFaults' = archiveFaults + 1
ArchiveOk == UNCHANGED archiveFaults
LoopAt(here, there) == archive.pc = here /\ archive' = [archive EXCEPT !.pc = there]
NextIteration == archive' = [archive EXCEPT !.pc = "acquire"]

-----------------------------------------------------------------------------

(* The updates of the loop, the one of the internal time among them: it has *)
(* moved on, was set meanwhile, or is not available.                       *)
Acquire ==
    /\ LoopAt("acquire", "serialize") /\ acquired < MaxAcquisitions
    /\ acquired' = acquired + 1
    /\ \/ delta < SaveDelay /\ delta' = delta + 1 /\ quiet' = quiet + 1 /\ ArchiveOk
       \/ delta >= SaveDelay /\ quiet' = quiet + 1 /\ UNCHANGED delta /\ ArchiveOk
       \/ delta' \in Jumps /\ quiet' = 0 /\ ArchiveFault
       \/ UNCHANGED <<delta, quiet>> /\ ArchiveFault
    /\ UNCHANGED <<files, serialized, bufferLock, beacon, beacons>>

(* TelemetrySerialization::SaveTelemetry: the copy under the lock.  The     *)
(* update succeeds even if the lock was not obtained.                      *)
SaveTelemetryLock ==
    /\ \/ /\ bufferLock = "none" /\ LoopAt("serialize", "copying")
          /\ bufferLock' = "loop" /\ serialized' = [serialized EXCEPT ![1] = acquired]
       \/ /\ bufferLock # "none" /\ LoopAt("serialize", "condition")
          /\ UNCHANGED <<bufferLock, serialized>>
    /\ UNCHANGED <<files, delta, acquired, beacon, quiet, beacons, archiveFaults>>

SaveTelemetryCopied ==
    /\ LoopAt("copying", "condition")
    /\ serialized' = [serialized EXCEPT ![2] = acquired] /\ bufferLock' = "none"
    /\ UNCHANGED <<files, delta, acquired, beacon, quiet, beacons, archiveFaults>>

(* Faulty variant: a time that was put back is not noticed. *)
SaveCondition_ForwardOnly == delta >= SaveDelay
SaveCondition == delta < 0 \/ delta >= SaveDelay

(* The condition and the beginning of Save, which gives up if the lock is   *)
(* not to be had.                                                          *)
Save ==
    /\ archive.pc = "condition"
    /\ \/ ~SaveCondition /\ NextIteration /\ UNCHANGED quiet
       \/ /\ SaveCondition /\ quiet' = 0
          /\ \/ bufferLock # "none" /\ NextIteration
             \/ bufferLock = "none" /\ archive' = [pc |-> "open", content |-> serialized]
    /\ UNCHANGED <<files, serialized, bufferLock, delta, acquired, beacon, beacons, archiveFaults>>

FileKept == UNCHANGED <<serialized, bufferLock, delta, acquired, beacon, quiet, beacons>>

(* SaveToFile: OpenAlways and the look at the size. *)
OpenFile ==
    /\ archive.pc = "open"
    /\ \/ ArchiveFault /\ NextIteration
       \/ ArchiveOk /\ Len(currentFile) >= MaxFileSize /\ LoopAt("open", "move")
       \/ ArchiveOk /\ Len(currentFile) < MaxFileSize /\ LoopAt("open", "write")
    /\ UNCHANGED files /\ FileKept

(* Faulty variant: the file is created anew though it was not moved. *)
MoveFile_GoesOn ==
    /\ LoopAt("move", "create")
    /\ \/ ArchiveFault /\ UNCHANGED <<currentFile, previousFile>>
       \/ ArchiveOk /\ previousFile' = currentFile /\ currentFile' = <<>>
    /\ UNCHANGED slots /\ FileKept

(* yaffs_rename replaces the previous file. *)
MoveFile ==
    /\ archive.pc = "move"
    /\ \/ ArchiveFault /\ NextIteration /\ UNCHANGED <<currentFile, previousFile>>
       \/ /\ ArchiveOk /\ LoopAt("move", "create")
          /\ previousFile' = currentFile /\ currentFile' = <<>>
    /\ UNCHANGED slots /\ FileKept

(* CreateAlways empties a file that is there. *)
CreateFile ==
    /\ archive.pc = "create"
    /\ \/ ArchiveFault /\ NextIteration /\ UNCHANGED currentFile
       \/ ArchiveOk /\ LoopAt("create", "write") /\ currentFile' = <<>>
    /\ UNCHANGED <<previousFile, slots>> /\ FileKept

CalculateBestOffset(size) ==
    size + ((AlignFileEntriesTo - (size % AlignFileEntriesTo)) % AlignFileEntriesTo)

(* The file with this much of the content written at the offset. *)
Written(content, cells) ==
    LET gap == CalculateBestOffset(Len(currentFile)) - Len(currentFile) IN
    currentFile \o [k \in 1 .. gap |-> Hole] \o SubSeq(content, 1, cells)

(* Write, and Close by the destructor.  A write that is short because there *)
(* is no more space counts as good, one that fails does not.               *)
WriteFile ==
    /\ LoopAt("write", "acquire")
    /\ \/ /\ ArchiveOk /\ delta' = 0
          /\ currentFile' = Written(archive.content, EntryCells)
          /\ slots' = Append(slots, archive.content[1])
       \/ /\ ArchiveFault /\ delta' = 0
          /\ currentFile' = Written(archive.content, 1) /\ slots' = Append(slots, Torn)
       \/ ArchiveFault /\ UNCHANGED <<currentFile, slots, delta>>
    /\ UNCHANGED <<previousFile, serialized, bufferLock, acquired, beacon, quiet, beacons>>

(* The OBC restarts: the files are all that is left.  lastTelemetrySave is  *)
(* zero then, and the time anything.                                       *)
ArchiveReset ==
    /\ ArchiveFault /\ delta' \in 0 .. SaveDelay /\ quiet' = 0
    /\ archive' = [pc |-> "acquire", content |-> <<0, 0>>]
    /\ serialized' = <<0, 0>> /\ bufferLock' = "none"
    /\ beacon' = [b \in BeaconSenders |-> NoBeacon]
    /\ UNCHANGED <<files, acquired, beacons>>

-----------------------------------------------------------------------------
(* The senders *)

Others == UNCHANGED <<files, serialized, delta, acquired, archive, quiet, archiveFaults>>
NewBeacon == beacons < MaxBeacons /\ beacons' = beacons + 1

(* BeaconSender::RunOnce: the state is copied, without the lock. *)
CopyState ==
    /\ \/ /\ beacon["beacon"].pc = "idle" /\ NewBeacon
          /\ beacon' = [beacon EXCEPT !["beacon"].pc = "copied half",
                                      !["beacon"].copy[1] = serialized[1]]
       \/ /\ beacon["beacon"].pc = "copied half"
          /\ UNCHANGED beacons
          /\ beacon' = [beacon EXCEPT !["beacon"].pc = "start",
                                      !["beacon"].copy[2] = serialized[2]]
    /\ UNCHANGED bufferLock /\ Others

SendBeacon ==
    /\ beacon["telecommand"].pc = "idle" /\ NewBeacon
    /\ beacon' = [beacon EXCEPT !["telecommand"].pc = "start"]
    /\ UNCHANGED bufferLock /\ Others

(* What is sent: the buffer, or the copy the beacon task has made of it. *)
Payload(b) == IF b = "beacon" THEN beacon[b].copy ELSE serialized

(* Faulty variant: the lock is tested, not taken. *)
WriteBeaconLock_NotTaken(b) ==
    /\ bufferLock = "none" /\ beacon[b].pc = "start"
    /\ beacon' = [beacon EXCEPT ![b].pc = "writing", ![b].frame[1] = Payload(b)[1]]
    /\ UNCHANGED <<bufferLock, beacons>> /\ Others

(* WriteBeaconPayload: up to the first part of the array, or no beacon. *)
WriteBeaconLock(b) ==
    /\ \/ /\ bufferLock = "none" /\ bufferLock' = b /\ beacon[b].pc = "start"
          /\ beacon' = [beacon EXCEPT ![b].pc = "writing", ![b].frame[1] = Payload(b)[1]]
       \/ /\ bufferLock # "none" /\ beacon[b].pc = "start" /\ UNCHANGED bufferLock
          /\ beacon' = [beacon EXCEPT ![b] = NoBeacon]
    /\ UNCHANGED beacons /\ Others

WriteBeaconPayload(b) ==
    /\ beacon[b].pc = "writing" /\ bufferLock' = "none"
    /\ beacon' = [beacon EXCEPT ![b].pc = "send", ![b].frame[2] = Payload(b)[2]]
    /\ UNCHANGED beacons /\ Others

(* SendFrame; what was sent is of no use any more. *)
SendFrame(b) ==
    /\ beacon[b].pc = "send" /\ beacon' = [beacon EXCEPT ![b] = NoBeacon]
    /\ UNCHANGED <<bufferLock, beacons>> /\ Others

-----------------------------------------------------------------------------

ArchiveInit ==
    /\ currentFile = <<>> /\ previousFile = <<>> /\ slots = <<>>
    /\ serialized = <<0, 0>> /\ bufferLock = "none"
    /\ delta \in 0 .. SaveDelay /\ acquired = 0 /\ quiet = 0 /\ beacons = 0 /\ archiveFaults = 0
    /\ archive = [pc |-> "acquire", content |-> <<0, 0>>]
    /\ beacon = [b \in BeaconSenders |-> NoBeacon]

TelemetryLoop ==
    \/ Acquire \/ SaveTelemetryLock \/ SaveTelemetryCopied \/ Save
    \/ OpenFile \/ MoveFile \/ CreateFile \/ WriteFile

Beacons ==
    \/ CopyState \/ SendBeacon
    \/ \E b \in BeaconSenders : WriteBeaconLock(b) \/ WriteBeaconPayload(b) \/ SendFrame(b)

(* The bound on acquisitions is reached. *)
ArchiveRests ==
    /\ acquired = MaxAcquisitions /\ archive.pc = "acquire"
    /\ \A b \in BeaconSenders : beacon[b].pc = "idle"
    /\ UNCHANGED archiveVars

ArchiveNext == TelemetryLoop \/ Beacons \/ ArchiveReset \/ ArchiveRests

ArchiveSpec == ArchiveInit /\ [][ArchiveNext]_archiveVars

-----------------------------------------------------------------------------

(* What the ground finds in a file: at each multiple of the size of a place *)
(* an entry that is complete.                                              *)
EntriesOf(file) ==
    {file[k] : k \in {j \in 1 .. Len(file) - 1 :
        (j - 1) % AlignFileEntriesTo = 0 /\ file[j] = file[j + 1]}}

(* Places a file has before it is archived. *)
Capacity == 1 + (IF MaxFileSize <= EntryCells THEN 0
                 ELSE (MaxFileSize - EntryCells + AlignFileEntriesTo - 1) \div AlignFileEntriesTo)

(* RecentKept: of the places that were used last, as many as one file has,  *)
(* every entry that was saved is found in one of the two files: whatever    *)
(* fails or is cut off while they change places (SaveToFile).              *)
RecentKept ==
    \A k \in 1 .. Len(slots) :
        (k > Len(slots) - Capacity /\ slots[k] # Torn)
            => slots[k] \in EntriesOf(currentFile) \cup EntriesOf(previousFile)

(* NotOverdue: no more iterations than make up the delay pass without an    *)
(* attempt to save, though the time may be put back or forth and a save     *)
(* that was due may have failed (SaveCondition).                           *)
NotOverdue == archive.pc = "acquire" => quiet <= SaveDelay

(* CommandedBeaconWhole: the beacon a telecommand asks for is from one      *)
(* acquisition (WriteBeaconPayload and SaveTelemetry exclude each other).   *)
CommandedBeaconWhole ==
    beacon["telecommand"].pc = "send" =>
        beacon["telecommand"].frame[1] = beacon["telecommand"].frame[2]

(* Telemetry is saved in time, kept when the files change places, and sent  *)
(* whole when the ground asks for it (telemetry/serialization).            *)
ArchiveSound == RecentKept /\ NotOverdue /\ CommandedBeaconWhole
=============================================================================
