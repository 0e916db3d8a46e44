---------------------------- MODULE PhotoService ----------------------------
(***************************************************************************)
(* The photo service (libs/photo/photo_service.cpp): a task that executes   *)
(* the commands of a queue, and its clients: the sail, SADS and camera      *)
(* experiments, and the telecommands TakePhoto and PurgePhoto.              *)
(*                                                                         *)
(* The task has a higher priority than its clients.  A client makes a step  *)
(* only while the task is blocked: on the empty queue, in a sleep, or on    *)
(* the camera, the power switch or the file system.  The sleeps around the  *)
(* cameras, of seconds, outlast the calls a client makes in a row, and a    *)
(* transfer over a bus outlasts the one call that follows a push.           *)
(***************************************************************************)
EXTENDS Integers, Sequences

CONSTANTS
    PhotoQueueSize,
    PhotoSpace,             \* size of PhotoBuffer
    PhotoSizes,             \* sizes of a photo
    PhotoPrograms,          \* programs of the experiments that are run
    PhotoCameras,           \* cameras the telecommand may name
    MaxPhotoCommands, MaxPowerFaults

Cameras == {"Nadir", "Wing"}
PhotoClients == {"experiment", "comm"}
PhotoBuffers == 0 .. 2
Junk == 3

VARIABLES
    commandQueue,   \* _commandQueue, each command with the client it is from
    photoTask,      \* the task: where it is, its command, and the clients that
                    \* were calling (in a row, in one call) when it blocked
    idleFlag, breakSleepFlag,   \* bits of _flags
    bufferInfos, freeSpace,     \* _bufferInfos and _freeSpace
    photoBuffer,    \* PhotoBuffer: the buffer for which a cell was last written
    camerasOn,      \* cameras that are powered
    calls,          \* calls each client has yet to make
    calling,        \* how far a client is in its call
    offFailed,      \* history: a camera could not be switched off
    overtaken,      \* history: the flag was cleared of a service that is idle
    photoCommands, powerFaults  \* bounded counters

photoVars == <<commandQueue, photoTask, idleFlag, breakSleepFlag, bufferInfos, freeSpace,
               photoBuffer, camerasOn, calls, calling, offFailed, overtaken, photoCommands,
               powerFaults>>

-----------------------------------------------------------------------------
(* Commands, and the programs of the clients *)

Cmd(op, camera, buffer) == [op |-> op, camera |-> camera, buffer |-> buffer]
EnableCmd(c) == Cmd("EnableCamera", c, 0)
DisableCmd(c) == Cmd("DisableCamera", c, 0)
TakeCmd(c) == Cmd("TakePhoto", c, 0)
DownloadCmd(c, b) == Cmd("DownloadPhoto", c, b)
SaveCmd(b) == Cmd("SavePhoto", "Nadir", b)
SaveUnlessEmpty(b) == Cmd("SaveUnlessEmpty", "Nadir", b)
ResetCmd == Cmd("Reset", "Nadir", 0)
SleepCmd == Cmd("Sleep", "Nadir", 0)
BreakCmd == Cmd("Break", "Nadir", 0)
WaitCall == Cmd("WaitForFinish", "Nadir", 0)
PurgeCall == Cmd("PurgePendingCommands", "Nadir", 0)

SailStart == <<ResetCmd, EnableCmd("Nadir"), EnableCmd("Wing"), WaitCall>>
SailPhoto == <<TakeCmd("Nadir"), DownloadCmd("Nadir", 0)>>
SailFinalize(photoNumber) ==
    <<PurgeCall, TakeCmd("Wing"), DownloadCmd("Wing", photoNumber), TakeCmd("Nadir"),
      DownloadCmd("Nadir", photoNumber + 1), WaitCall>>
SailStopPhotos(photoNumber) ==
    <<DisableCmd("Nadir"), DisableCmd("Wing")>>
        \o [i \in 1 .. photoNumber |-> SaveUnlessEmpty(i - 1)] \o <<ResetCmd, WaitCall>>
SadsFinalize ==
    <<ResetCmd, EnableCmd("Wing"), TakeCmd("Wing"), DownloadCmd("Wing", 0), SaveCmd(0), WaitCall>>
SadsStop == <<DisableCmd("Wing"), ResetCmd, WaitCall>>
PerformPhotoTest ==
    <<EnableCmd("Nadir"), EnableCmd("Wing"), TakeCmd("Nadir"), DownloadCmd("Nadir", 0),
      TakeCmd("Wing"), DownloadCmd("Wing", 1), DisableCmd("Nadir"), DisableCmd("Wing"), WaitCall,
      SaveUnlessEmpty(0), SaveUnlessEmpty(1), ResetCmd, WaitCall>>

(* An experiment that is run to its end (without a photo on the way when    *)
(* the time could not be read), that is aborted, or that fails to start.   *)
ExperimentPrograms ==
    [sail |-> SailStart \o SailPhoto \o SailFinalize(1) \o SailStopPhotos(3),
     sailNoTime |-> SailStart \o SailFinalize(0) \o SailStopPhotos(2),
     sailAborted |-> SailStart \o SailPhoto \o SailStopPhotos(1),
     sailNotStarted |-> SailStopPhotos(0),
     sads |-> SadsFinalize \o SadsStop,
     sadsAborted |-> SadsStop,
     camera |-> PerformPhotoTest]

ASSUME PhotoAssumption ==
    /\ PhotoQueueSize \in Nat \ {0} /\ PhotoSpace \in Nat /\ PhotoSizes \subseteq Nat \ {0}
    /\ PhotoPrograms \subseteq DOMAIN ExperimentPrograms /\ PhotoCameras \subseteq Cameras

(* One camera, and one photo of it. *)
TakePhotoTelecommands ==
    {<<ResetCmd, SleepCmd, EnableCmd(c), TakeCmd(c), DownloadCmd(c, 0), SaveCmd(0), ResetCmd,
       DisableCmd(c), ResetCmd>> : c \in PhotoCameras}
(* Faulty variant: the cameras are left as they are. *)
PurgePhotoTelecommand_KeepsCameras == <<PurgeCall, ResetCmd>>
PurgePhotoTelecommand == <<PurgeCall, DisableCmd("Nadir"), DisableCmd("Wing"), ResetCmd>>

-----------------------------------------------------------------------------
(* The task *)

Calls(c) == calls[c] # <<>> /\ ~(Head(calls[c]) = WaitCall)
Resting == photoTask.at = "queue"
Blocked == photoTask.at # "pop" /\ ~(Resting /\ commandQueue # <<>>)
Blocks(where, command) ==
    photoTask' = [at |-> where, command |-> command, row |-> {c \in PhotoClients : Calls(c)},
                  clear |-> {c \in PhotoClients : calling[c] = "clear"}]
NextCommand ==
    photoTask' = [at |-> "pop", command |-> [from |-> "comm", do |-> BreakCmd], row |-> {}, clear |-> {}]
PhotoRequests == <<calls, calling, photoCommands, overtaken>>
EmptyBuffer == [status |-> "Empty", at |-> 0, size |-> 0]

(* Faulty variant: the buffers stay marked as occupied. *)
Reset_KeepsInfos == freeSpace' = 0 /\ UNCHANGED bufferInfos
Reset == freeSpace' = 0 /\ bufferInfos' = [b \in PhotoBuffers |-> EmptyBuffer]

(* Reset and Break are executed at once, and so is a Sleep that is broken   *)
(* or of no length; the others block.                                      *)
Invoke(command) ==
    \/ /\ command.do.op = "Reset" /\ Reset /\ NextCommand /\ UNCHANGED breakSleepFlag
    \/ /\ command.do.op \in {"Break", "Sleep"} /\ breakSleepFlag' = FALSE /\ NextCommand
       /\ UNCHANGED <<freeSpace, bufferInfos>>
    \/ /\ command.do.op = "Sleep" /\ ~breakSleepFlag /\ Blocks("sleep", command)
       /\ UNCHANGED <<breakSleepFlag, freeSpace, bufferInfos>>
    \/ /\ command.do.op = "DownloadPhoto" /\ Blocks("device", command)
       /\ bufferInfos' = [bufferInfos EXCEPT ![command.do.buffer] =
                                                 [EmptyBuffer EXCEPT !.status = "Downloading"]]
       /\ UNCHANGED <<breakSleepFlag, freeSpace>>
    \/ /\ command.do.op \in {"EnableCamera", "DisableCamera", "TakePhoto", "SavePhoto"}
       /\ Blocks("device", command)
       /\ UNCHANGED <<breakSleepFlag, freeSpace, bufferInfos>>

(* Faulty variant: the service is idle once the last command is taken. *)
TakesCommand_ReportsLast ==
    /\ photoTask.at = "pop" \/ Resting
    /\ commandQueue # <<>> /\ commandQueue' = Tail(commandQueue)
    /\ idleFlag' = (Len(commandQueue) = 1)
    /\ Invoke(Head(commandQueue))
    /\ UNCHANGED <<photoBuffer, camerasOn, offFailed, powerFaults, PhotoRequests>>

(* Pop: the next command, or the report that there is none. *)
TakesCommand ==
    /\ photoTask.at = "pop" \/ Resting
    /\ commandQueue # <<>> /\ commandQueue' = Tail(commandQueue)
    /\ idleFlag' = FALSE
    /\ Invoke(Head(commandQueue))
    /\ UNCHANGED <<photoBuffer, camerasOn, offFailed, powerFaults, PhotoRequests>>

GoesIdleWith(flag) ==
    /\ photoTask.at = "pop" /\ commandQueue = <<>>
    /\ idleFlag' = flag /\ overtaken' = FALSE /\ photoTask' = [photoTask EXCEPT !.at = "queue"]
    /\ UNCHANGED <<commandQueue, breakSleepFlag, bufferInfos, freeSpace, photoBuffer, camerasOn,
                   offFailed, powerFaults, calls, calling, photoCommands>>

(* Faulty variant: the task waits without a report. *)
GoesIdle_Silent == GoesIdleWith(idleFlag)
GoesIdle == GoesIdleWith(TRUE)

SleepEnds ==
    /\ photoTask.at = "sleep" /\ breakSleepFlag' = FALSE /\ NextCommand
    /\ UNCHANGED <<commandQueue, idleFlag, bufferInfos, freeSpace, photoBuffer, camerasOn,
                   offFailed, powerFaults, PhotoRequests>>

(* The end of a transfer, and of a sleep of seconds. *)
StuckOnQueue(c) == calling[c] \in {"call", "break"} /\ Len(commandQueue) = PhotoQueueSize
TransferOver(op) ==
    photoTask.at = "device" /\ photoTask.command.do.op = op /\ photoTask.clear = {} /\ NextCommand
SecondsOver(op) == TransferOver(op) /\ \A c \in photoTask.row : StuckOnQueue(c)
PowerOk == UNCHANGED powerFaults
PowerFault == powerFaults < MaxPowerFaults /\ powerFaults' = powerFaults + 1
QueueKept == UNCHANGED <<commandQueue, idleFlag, breakSleepFlag, PhotoRequests>>
PhotosKept == UNCHANGED <<bufferInfos, freeSpace, photoBuffer>>

EnableCamera ==
    LET camera == photoTask.command.do.camera IN
    /\ \/ SecondsOver("EnableCamera") /\ PowerOk /\ camerasOn' = camerasOn \cup {camera}
       \/ TransferOver("EnableCamera") /\ PowerFault /\ UNCHANGED camerasOn
    /\ UNCHANGED offFailed /\ QueueKept /\ PhotosKept

DisableCamera ==
    LET camera == photoTask.command.do.camera IN
    /\ SecondsOver("DisableCamera")
    /\ \/ PowerOk /\ camerasOn' = camerasOn \ {camera} /\ UNCHANGED offFailed
       \/ PowerFault /\ offFailed' = TRUE /\ UNCHANGED camerasOn
    /\ QueueKept /\ PhotosKept

(* The camera answers, or it is switched off and on again after each of     *)
(* three failures.                                                         *)
TakePhoto ==
    LET camera == photoTask.command.do.camera IN
    /\ TransferOver("TakePhoto")
    /\ \/ PowerOk /\ camera \in camerasOn /\ UNCHANGED camerasOn
       \/ PowerOk /\ camerasOn' = camerasOn \cup {camera}
       \/ PowerFault /\ camerasOn' \in {camerasOn, camerasOn \ {camera}}
    /\ UNCHANGED offFailed /\ QueueKept /\ PhotosKept

(* Written behind the photos there are; three failed attempts leave what    *)
(* came through of the last.                                               *)
DownloadPhoto ==
    LET command == photoTask.command.do IN
    /\ TransferOver("DownloadPhoto")
    /\ \/ \E size \in PhotoSizes :
              /\ command.camera \in camerasOn /\ freeSpace + size <= PhotoSpace
              /\ freeSpace' = freeSpace + size
              /\ photoBuffer' = [i \in 1 .. PhotoSpace |->
                                    IF i \in freeSpace + 1 .. freeSpace' THEN command.buffer ELSE photoBuffer[i]]
              /\ bufferInfos' = [bufferInfos EXCEPT ![command.buffer] =
                                    [status |-> "Occupied", at |-> freeSpace, size |-> size]]
       \/ /\ bufferInfos' = [bufferInfos EXCEPT ![command.buffer] = [EmptyBuffer EXCEPT !.status = "Failed"]]
          /\ photoBuffer' = [i \in 1 .. PhotoSpace |-> IF i > freeSpace THEN Junk ELSE photoBuffer[i]]
          /\ UNCHANGED <<freeSpace>>
    /\ UNCHANGED <<camerasOn, offFailed, powerFaults>> /\ QueueKept

SavePhoto ==
    /\ TransferOver("SavePhoto")
    /\ UNCHANGED <<camerasOn, offFailed, powerFaults>> /\ QueueKept /\ PhotosKept

-----------------------------------------------------------------------------
(* The calls of the clients *)

ServiceKept == UNCHANGED <<bufferInfos, freeSpace, photoBuffer, camerasOn, offFailed,
                           powerFaults, photoCommands>>
(* The call is over: if it was the last of a row, the task may go on. *)
CallReturns(c) ==
    /\ calls' = [calls EXCEPT ![c] = Tail(@)] /\ calling' = [calling EXCEPT ![c] = "call"]
    /\ photoTask' = [photoTask EXCEPT !.clear = @ \ {c},
                         !.row = IF Len(calls[c]) > 1 /\ calls[c][2] # WaitCall THEN @ ELSE @ \ {c}]
MakesCall(c, call) == Blocked /\ calling[c] = "call" /\ calls[c] # <<>> /\ Head(calls[c]).op = call
Push(c, command, there) ==
    /\ Len(commandQueue) < PhotoQueueSize
    /\ commandQueue' = Append(commandQueue, [from |-> c, do |-> command])
    /\ calling' = [calling EXCEPT ![c] = there]
QueueCommands == {"EnableCamera", "DisableCamera", "TakePhoto", "DownloadPhoto", "SavePhoto", "Reset", "Sleep"}

(* A request method: Push, then Clear of the idle flag. *)
Request(c) ==
    /\ \E op \in QueueCommands : MakesCall(c, op)
    /\ Push(c, Head(calls[c]), "clear")
    /\ UNCHANGED <<photoTask, idleFlag, breakSleepFlag, calls, overtaken>> /\ ServiceKept

ClearIdle(c) ==
    /\ Blocked /\ calling[c] = "clear" /\ idleFlag' = FALSE /\ CallReturns(c)
    /\ overtaken' = (overtaken \/ (Resting /\ idleFlag))
    /\ UNCHANGED <<commandQueue, breakSleepFlag>> /\ ServiceKept

SavePhotos(c) ==
    LET buffer == Head(calls[c]).buffer IN
    /\ MakesCall(c, "SaveUnlessEmpty")
    /\ \/ /\ bufferInfos[buffer].status = "Empty" /\ CallReturns(c) /\ UNCHANGED commandQueue
       \/ /\ bufferInfos[buffer].status # "Empty" /\ Push(c, SaveCmd(buffer), "clear")
          /\ UNCHANGED <<calls, photoTask>>
    /\ UNCHANGED <<idleFlag, breakSleepFlag, overtaken>> /\ ServiceKept

WaitForFinish(c) ==
    /\ MakesCall(c, "WaitForFinish") /\ idleFlag /\ CallReturns(c)
    /\ UNCHANGED <<commandQueue, idleFlag, breakSleepFlag, overtaken>> /\ ServiceKept

PurgePendingCommands(c) ==
    \/ /\ MakesCall(c, "PurgePendingCommands")
       /\ commandQueue' = <<>> /\ calling' = [calling EXCEPT ![c] = "break"]
       /\ UNCHANGED <<photoTask, idleFlag, breakSleepFlag, calls, overtaken>> /\ ServiceKept
    \/ /\ Blocked /\ calling[c] = "break" /\ Push(c, BreakCmd, "set")
       /\ UNCHANGED <<photoTask, idleFlag, breakSleepFlag, calls, overtaken>> /\ ServiceKept
    \/ /\ Blocked /\ calling[c] = "set"
       /\ breakSleepFlag' = TRUE /\ calling' = [calling EXCEPT ![c] = "clear"]
       /\ UNCHANGED <<commandQueue, photoTask, idleFlag, calls, overtaken>> /\ ServiceKept

PhotoTelecommand ==
    /\ Blocked /\ calls["comm"] = <<>>
    /\ photoCommands < MaxPhotoCommands /\ photoCommands' = photoCommands + 1
    /\ \E program \in TakePhotoTelecommands \cup {PurgePhotoTelecommand} :
           calls' = [calls EXCEPT !["comm"] = program]
    /\ UNCHANGED <<commandQueue, photoTask, idleFlag, breakSleepFlag, bufferInfos, freeSpace,
                   photoBuffer, camerasOn, calling, offFailed, overtaken, powerFaults>>

-----------------------------------------------------------------------------

(* The service has been idle for long when the experiment begins. *)
PhotoInit ==
    /\ commandQueue = <<>> /\ idleFlag = TRUE /\ breakSleepFlag = FALSE
    /\ photoTask = [at |-> "queue", command |-> [from |-> "comm", do |-> BreakCmd], row |-> {}, clear |-> {}]
    /\ bufferInfos = [b \in PhotoBuffers |-> EmptyBuffer] /\ freeSpace = 0
    /\ photoBuffer = [i \in 1 .. PhotoSpace |-> Junk] /\ camerasOn = {}
    /\ \E p \in PhotoPrograms : calls = [experiment |-> ExperimentPrograms[p], comm |-> <<>>]
    /\ calling = [c \in PhotoClients |-> "call"]
    /\ offFailed = FALSE /\ overtaken = FALSE /\ photoCommands = 0 /\ powerFaults = 0

TaskProc ==
    TakesCommand \/ GoesIdle \/ SleepEnds \/ EnableCamera \/ DisableCamera \/ TakePhoto
        \/ DownloadPhoto \/ SavePhoto
PhotoClient(c) == Request(c) \/ ClearIdle(c) \/ SavePhotos(c) \/ WaitForFinish(c) \/ PurgePendingCommands(c)
(* Nothing is left to be done, or the experiment waits for good. *)
PhotoRests ==
    /\ Resting /\ commandQueue = <<>> /\ calls["comm"] = <<>>
    /\ ~Calls("experiment") /\ UNCHANGED photoVars

PhotoNext == TaskProc \/ (\E c \in PhotoClients : PhotoClient(c)) \/ PhotoTelecommand \/ PhotoRests

PhotoFairness == WF_photoVars(TaskProc) /\ \A c \in PhotoClients : WF_photoVars(PhotoClient(c))

PhotoSpec == PhotoInit /\ [][PhotoNext]_photoVars /\ PhotoFairness

-----------------------------------------------------------------------------
(* Properties *)

(* WaitForFinish does not return before the commands that its caller has    *)
(* queued are done or purged, however the task, the other client and the    *)
(* two writers of the idle flag interleave (photo_service.cpp:359-392).     *)
NotFinishedEarly ==
    [][\A c \in PhotoClients :
          MakesCall(c, "WaitForFinish") /\ calls'[c] # calls[c] =>
              /\ \A i \in 1 .. Len(commandQueue) : commandQueue[i].from # c
              /\ Resting]_photoVars

(* A photo that a buffer holds is not overwritten by a later one, whoever   *)
(* resets the service meanwhile (photo_service.cpp:145-195).               *)
PhotoIntact ==
    \A b \in PhotoBuffers : bufferInfos[b].status = "Occupied" =>
        \A i \in bufferInfos[b].at + 1 .. bufferInfos[b].at + bufferInfos[b].size :
            photoBuffer[i] = b

(* When everybody is done no camera is left on, whatever was purged, unless *)
(* switching one off has failed.                                           *)
CamerasOffWhenDone ==
    (\A c \in PhotoClients : calls[c] = <<>>) /\ Resting /\ commandQueue = <<>>
        => camerasOn = {} \/ offFailed

(* What Reset and purge leave of the photos and of the cameras' power       *)
(* (photo_service.cpp:145-195, 359-392).                                   *)
PhotosSafe == PhotoIntact /\ CamerasOffWhenDone
=============================================================================
