--------------------------- MODULE ExperimentFile ---------------------------
(***************************************************************************)
(* The data file of an experiment (libs/experiments/fs/ExperimentFile.cpp): *)
(* records are packed into frames of one size, each frame is written when   *)
(* it is full, and a record that does not fit an empty frame is continued   *)
(* in the next.  A write to the file may fail, or take a part of the frame  *)
(* only, which the file system reports as success.                         *)
(*                                                                         *)
(* A byte is a tuple: its meaning, and for data the record and the place    *)
(* in it.  A timestamp counts as one byte.                                  *)
(***************************************************************************)
EXTENDS Integers, Sequences, SequencesExt

CONSTANTS
    FrameSize,
    DataSizes,          \* sizes of the records
    ShortWrites,        \* how much of a frame a short write may take
    MaxRecords, MaxFileFaults

ASSUME FileAssumption ==
    /\ FrameSize \in Nat /\ FrameSize >= 5 /\ DataSizes \subseteq Nat
    /\ ShortWrites \subseteq 1 .. FrameSize - 1

VARIABLES
    disk,           \* what the file took of each frame written to it
    dropped,        \* history: the rest of each of them
    frame,          \* _writer: what is in _buffer so far
    hasPayload,     \* _hasPayloadInFrame
    filePc,         \* between two calls, inside of a long record, or closed
    rest,           \* what WriteDataBiggerThanFrame has yet to write
    records,        \* records written so far
    accepted,       \* history: data of the writes that reported success
    cut,            \* history: a long record was given up, and success reported
    fileFaults      \* bounded counter

fileVars == <<disk, dropped, frame, hasPayload, filePc, rest, records, accepted, cut, fileFaults>>

Sync == <<"Synchronization">>
Timestamp == <<"Timestamp">>
Padding == <<"Padding">>
Continuation == <<"Continuation">>
Pid(r) == <<"PID", r>>
DataOf(r, size) == [i \in 1 .. size |-> <<"data", r, i>>]

RemainingSize(f) == FrameSize - Len(f)

-----------------------------------------------------------------------------

(* A new frame; the time may not be available. *)
InitializePacket(f) == f \in {<<Sync>>, <<Sync, Timestamp>>}

(* Faulty variant: only the mark is written. *)
FillBufferWithPadding_MarkOnly(f) == IF RemainingSize(f) < 1 THEN f ELSE Append(f, Padding)
FillBufferWithPadding(f) == f \o [i \in 1 .. RemainingSize(f) |-> Padding]

FileOk == UNCHANGED fileFaults
FileFault == fileFaults < MaxFileFaults /\ fileFaults' = fileFaults + 1
FlushWorks(f) ==
    /\ FileOk
    /\ disk' = Append(disk, FillBufferWithPadding(f)) /\ dropped' = Append(dropped, <<>>)

(* The device is full in the middle of the frame: YaffsFileSystem::Write   *)
(* reports success and how much was written, and FlushInternal looks at the *)
(* status.  A write of nothing at all fails.                               *)
FlushShort(f) ==
    LET packet == FillBufferWithPadding(f) IN
    /\ FileFault
    /\ \E n \in ShortWrites :
          /\ disk' = Append(disk, SubSeq(packet, 1, n))
          /\ dropped' = Append(dropped, SubSeq(packet, n + 1, Len(packet)))

FlushSucceeds(f) == FlushWorks(f) \/ FlushShort(f)

(* Faulty variant: the frame is begun anew though it could not be written. *)
FlushFails_Restarts(f) ==
    /\ FileFault /\ UNCHANGED <<disk, dropped>>
    /\ InitializePacket(frame') /\ hasPayload' = FALSE


(* Faulty variant: a write that is short counts as failed.  The frame is    *)
(* kept, and written a second time.                                        *)
FlushFails_Twice(f) ==
    FlushShort(f) /\ frame' = FillBufferWithPadding(f) /\ hasPayload' = TRUE

FlushFails(f) ==
    /\ FileFault /\ UNCHANGED <<disk, dropped>>
    /\ frame' = FillBufferWithPadding(f) /\ hasPayload' = TRUE

(* Write: the record fits; it does not, and the frame is flushed first if   *)
(* there is something in it; or that flush fails.                          *)
WriteRecord(size) ==
    LET r == records + 1 data == DataOf(r, size) IN
    /\ filePc = "ready" /\ records < MaxRecords /\ records' = r
    /\ \/ /\ size + 1 <= RemainingSize(frame)
          /\ frame' = Append(frame, Pid(r)) \o data /\ hasPayload' = TRUE
          /\ accepted' = accepted \o data
          /\ UNCHANGED <<disk, dropped, filePc, rest, fileFaults>>
       \/ /\ size + 1 > RemainingSize(frame) /\ hasPayload
          /\ FlushSucceeds(frame) /\ InitializePacket(frame') /\ hasPayload' = FALSE
          /\ filePc' = "long" /\ rest' = data /\ accepted' = accepted \o data
       \/ /\ size + 1 > RemainingSize(frame) /\ hasPayload
          /\ FlushFails(frame)
          /\ UNCHANGED <<filePc, rest, accepted>>
       \/ /\ size + 1 > RemainingSize(frame) /\ ~hasPayload
          /\ filePc' = "long" /\ rest' = data /\ accepted' = accepted \o data
          /\ UNCHANGED <<disk, dropped, frame, hasPayload, fileFaults>>
    /\ UNCHANGED cut

(* One turn of WriteDataBiggerThanFrame.  Write does not look at what it    *)
(* returns.                                                                *)
WriteDataBiggerThanFrame ==
    LET room == RemainingSize(frame) - 1
        length == IF Len(rest) < room THEN Len(rest) ELSE room
        filled == Append(frame, Pid(records)) \o SubSeq(rest, 1, length)
        left == SubSeq(rest, length + 1, Len(rest))
    IN
    /\ filePc = "long"
    /\ \/ /\ rest = <<>> /\ filePc' = "ready"
          /\ UNCHANGED <<disk, dropped, frame, hasPayload, rest, cut, fileFaults>>
       \/ /\ rest # <<>> /\ RemainingSize(filled) > 0
          /\ frame' = filled /\ hasPayload' = TRUE
          /\ rest' = left
          /\ UNCHANGED <<disk, dropped, filePc, cut, fileFaults>>
       \/ /\ rest # <<>> /\ RemainingSize(filled) = 0
          /\ FlushSucceeds(filled)
          /\ \E f \in {<<Sync>>, <<Sync, Timestamp>>} : frame' = Append(f, Continuation)
          /\ hasPayload' = FALSE
          /\ rest' = left
          /\ UNCHANGED <<filePc, cut>>
       \/ /\ rest # <<>> /\ RemainingSize(filled) = 0
          /\ FlushFails(filled) /\ cut' = TRUE
          /\ filePc' = "ready" /\ rest' = <<>>
    /\ UNCHANGED <<records, accepted>>

(* Close: a flush that fails leaves the file open. *)
CloseFile ==
    /\ filePc = "ready"
    /\ \/ ~hasPayload /\ filePc' = "closed" /\ UNCHANGED <<disk, dropped, frame, hasPayload, fileFaults>>
       \/ /\ hasPayload /\ FlushSucceeds(frame) /\ filePc' = "closed"
          /\ frame' = FillBufferWithPadding(frame) /\ UNCHANGED hasPayload
       \/ hasPayload /\ FlushFails(frame) /\ UNCHANGED filePc
    /\ UNCHANGED <<rest, records, accepted, cut>>

-----------------------------------------------------------------------------

(* After Open. *)
FileInit ==
    /\ InitializePacket(frame) /\ hasPayload = FALSE /\ disk = <<>> /\ dropped = <<>>
    /\ filePc = "ready" /\ rest = <<>> /\ records = 0 /\ accepted = <<>> /\ cut = FALSE
    /\ fileFaults = 0

FileRests == filePc = "closed" /\ UNCHANGED fileVars
FileNext ==
    (\E size \in DataSizes : WriteRecord(size)) \/ WriteDataBiggerThanFrame \/ CloseFile \/ FileRests

FileSpec == FileInit /\ [][FileNext]_fileVars

-----------------------------------------------------------------------------
(* Properties *)

OnlyData(b) == IF b[1] = "data" THEN <<b>> ELSE <<>>
DataIn(bytes) == FlattenSeq([i \in 1 .. Len(bytes) |-> OnlyData(bytes[i])])

(* The frames as they were written, whatever the file took of them. *)
Handed == [k \in 1 .. Len(disk) |-> disk[k] \o dropped[k]]
Passed == DataIn(FlattenSeq(Handed))

(* Every byte that was accepted is in a frame that was written, still in    *)
(* the buffer or about to be put there, once and in its place, however the  *)
(* sizes of the records fall on the frames and whichever write to the file  *)
(* fails or is short; when Close has succeeded no byte is left behind.  The *)
(* one exception is a long record that a failed flush ends early            *)
(* (ExperimentFile.cpp:60-126, 179-191).                                   *)
NothingLost ==
    \/ cut
    \/ filePc = "long" /\ accepted = Passed \o DataIn(frame) \o rest
    \/ filePc = "ready" /\ accepted = Passed \o DataIn(frame)
    \/ filePc = "closed" /\ accepted = Passed

(* Of a frame that was written the file has all, or its beginning with the  *)
(* mark if the write was short: no other part of it is ever missing, and    *)
(* none while no write is short, so that a reader finds the frames behind   *)
(* it by their marks; and the buffer is never overrun                       *)
(* (ExperimentFile.cpp:125-154, yaffs.cpp:112-119).                        *)
FramesMarked ==
    /\ Len(dropped) = Len(disk) /\ Len(frame) <= FrameSize
    /\ \A k \in 1 .. Len(disk) :
          /\ Len(disk[k]) + Len(dropped[k]) = FrameSize
          /\ Len(disk[k]) >= 1 /\ disk[k][1] = Sync
          /\ fileFaults = 0 => dropped[k] = <<>>

(* A failing write costs no record that was accepted and breaks no frame; a *)
(* short one costs the end of its own frame and nothing else                *)
(* (ExperimentFile.cpp:60-191, yaffs.cpp:112-119).                         *)
FileSound == NothingLost /\ FramesMarked
=============================================================================
