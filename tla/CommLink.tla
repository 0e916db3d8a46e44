------------------------------ MODULE CommLink ------------------------------
(***************************************************************************)
(* The uplink: the task of the comm driver, which takes frames out of the  *)
(* receiver and hands them to the telecommands (libs/drivers/comm,          *)
(* libs/telecommunication), and the mission loop as far as it depends on    *)
(* it: the idle state of the transmitter (CommTask), the kick of the EPS    *)
(* watchdog and the wait for the driver's ping (CommWdogTask).              *)
(*                                                                         *)
(* A step is one transaction on the bus, one operation on a semaphore or    *)
(* event flag, or one access to a variable both tasks use.  The time at     *)
(* which the idle state ends is kept relative to mission time.              *)
(***************************************************************************)
EXTENDS Integers, Sequences, FiniteSets, SequencesExt

CONSTANTS
    RetryCount,         \* attempts at reading a frame (3)
    ReceiverBufferSize,
    Durations,          \* of the idle state, in ticks
    MaxFrames,
    MaxTroubles         \* failures on the bus, resets, corrections of time

ASSUME CommAssumption ==
    /\ RetryCount \in Nat \ {0} /\ ReceiverBufferSize \in Nat \ {0}
    /\ Durations \subseteq Nat /\ \E longest \in Durations : \A d \in Durations : d <= longest
    /\ MaxFrames \in Nat /\ MaxTroubles \in Nat

VARIABLES
    rx,             \* frames in the receiver (external)
    stuck,          \* the receiver refuses to remove frames (external)
    hwIdle,         \* transmitter stays on when idle (external)
    comm,           \* the comm task: where it is and its local variables
    ping,           \* TaskFlagPing
    mission,        \* the mission loop: where it is and its local variables
    idleLock,       \* holder of _transmitterStateWhenIdleSem
    idleState,      \* CommTask::_idleState
    turnOff,        \* CommTask::_idleStateTurnOffTime, relative to now
    arrived, troubles,      \* bounded counters
    readable,       \* history: frames that arrived undamaged
    handled,        \* history: frames whose handler was called
    repeated,       \* history: frames whose handler was called again
    removeFailed,   \* history: frames that could not be removed once
    flushed,        \* history: frames that went with a reset of the receiver
    readFailures,   \* history: transactions that failed to read a frame
    restartFailed   \* history: a boot could not restart the radio

hardware == <<rx, stuck, hwIdle>>
idleVars == <<idleLock, idleState, turnOff>>
counters == <<arrived, troubles>>
history == <<readable, handled, repeated, removeFailed, flushed, readFailures, restartFailed>>
commVars == <<hardware, comm, ping, mission, idleVars, counters, history>>

(* A frame carries a telecommand, is damaged for good, or holds one that    *)
(* has no effect here.                                                      *)
Kinds == {"enterIdle", "resetTransmitter", "other", "damaged"}
Frames == [id : 1 .. MaxFrames, kind : Kinds]
Floor == -1
Bounded(t) == IF t < Floor THEN Floor ELSE t
Longest == CHOOSE d \in Durations : \A e \in Durations : e <= d

CommStart == [pc |-> "count", left |-> 0, tries |-> 0, anyFrame |-> FALSE, off |-> Floor]
MissionStart == [pc |-> "determine", due |-> FALSE, shift |-> 0, off |-> Floor]

-----------------------------------------------------------------------------
(* The hardware and its faults *)

(* A transaction on the bus fails. *)
Trouble == troubles < MaxTroubles /\ troubles' = troubles + 1
BusFault == Trouble
BusOk == UNCHANGED troubles

FrameArrives ==
    /\ arrived < MaxFrames /\ arrived' = arrived + 1
    /\ Len(rx) < ReceiverBufferSize
    /\ \E k \in Kinds :
           /\ rx' = Append(rx, [id |-> arrived + 1, kind |-> k])
           /\ readable' = IF k = "damaged" THEN readable ELSE readable \cup {arrived + 1}
    /\ UNCHANGED <<stuck, hwIdle, comm, ping, mission, idleVars, troubles,
                   handled, repeated, removeFailed, flushed, readFailures, restartFailed>>

(* The receiver stops accepting the command that removes a frame. *)
ReceiverSticks ==
    /\ ~stuck /\ stuck' = TRUE /\ Trouble
    /\ UNCHANGED <<rx, hwIdle, comm, ping, mission, idleVars, arrived, history>>

(* Mission time passes. *)
Tick ==
    /\ turnOff > Floor \/ comm.off > Floor \/ mission.off > Floor
    /\ turnOff' = Bounded(turnOff - 1)
    /\ comm' = [comm EXCEPT !.off = Bounded(@ - 1)]
    /\ mission' = [mission EXCEPT !.off = Bounded(@ - 1)]
    /\ UNCHANGED <<hardware, ping, idleLock, idleState, counters, history>>

-----------------------------------------------------------------------------
(* The comm task *)

CommGoes(there) == comm' = [comm EXCEPT !.pc = there]

(* GetFrameCount: the loop takes as many frames as there were now. *)
GetFrameCount ==
    /\ comm.pc = "count"
    /\ \/ BusOk /\ comm' = [comm EXCEPT !.left = Len(rx), !.anyFrame = rx # <<>>, !.tries = RetryCount,
                                        !.pc = IF rx = <<>> THEN "kick" ELSE "get"]
       \/ BusFault /\ comm' = [comm EXCEPT !.left = 0, !.anyFrame = FALSE, !.pc = "kick"]
    /\ UNCHANGED <<hardware, ping, mission, idleVars, arrived, history>>

(* Faulty variant: a frame is read only once. *)
GetFrame_Once ==
    /\ comm.pc = "get"
    /\ \/ BusOk /\ UNCHANGED readFailures
          /\ CommGoes(IF rx # <<>> /\ Head(rx).kind # "damaged" THEN "handle" ELSE "remove")
       \/ BusFault /\ readFailures' = readFailures + 1 /\ CommGoes("remove")
    /\ UNCHANGED <<hardware, ping, mission, idleVars, arrived, readable, handled, repeated,
                   removeFailed, flushed, restartFailed>>

(* One attempt of GetFrame, ReceiveFrame and Verify; a receiver emptied in  *)
(* the meantime has no valid frame to give.                                *)
GetFrame ==
    LET retry == comm' = [comm EXCEPT !.tries = @ - 1,
                                      !.pc = IF comm.tries > 1 THEN "get" ELSE "remove"]
    IN  /\ comm.pc = "get"
        /\ \/ BusOk /\ UNCHANGED readFailures
              /\ IF rx # <<>> /\ Head(rx).kind # "damaged" THEN CommGoes("handle") ELSE retry
           \/ BusFault /\ readFailures' = readFailures + 1 /\ retry
        /\ UNCHANGED <<hardware, ping, mission, idleVars, arrived, readable, handled, repeated,
                       removeFailed, flushed, restartFailed>>

(* HandleFrame decodes and dispatches.  The transmitter's soft reset ends   *)
(* its idle state; EnterIdle computes when it is to end from the time now.  *)
HandleFrame ==
    LET f == Head(rx) IN
    /\ comm.pc = "handle" /\ rx # <<>>
    /\ handled' = handled \cup {f.id}
    /\ repeated' = IF f.id \in handled THEN repeated \cup {f.id} ELSE repeated
    /\ \/ f.kind = "other" /\ CommGoes("remove") /\ UNCHANGED <<hwIdle, troubles>>
       \/ f.kind = "resetTransmitter" /\ CommGoes("remove")
          /\ ((BusOk /\ hwIdle' = FALSE) \/ (BusFault /\ UNCHANGED hwIdle))
       \/ f.kind = "enterIdle" /\ UNCHANGED <<hwIdle, troubles>>
          /\ \E d \in Durations : comm' = [comm EXCEPT !.pc = "enter", !.off = d]
    /\ UNCHANGED <<rx, stuck, ping, mission, idleVars, arrived, readable, removeFailed,
                   flushed, readFailures, restartFailed>>

(* EnterTransmitterStateWhenIdle: the lock, *)
EnterIdleLock ==
    /\ comm.pc = "enter" /\ idleLock = "free"
    /\ idleLock' = "comm" /\ CommGoes("enter hw")
    /\ UNCHANGED <<hardware, ping, mission, idleState, turnOff, counters, history>>

(* the transmitter, *)
EnterIdleHardware ==
    /\ comm.pc = "enter hw"
    /\ \/ BusOk /\ hwIdle' = TRUE /\ CommGoes("enter flag") /\ UNCHANGED idleLock
       \/ BusFault /\ CommGoes("remove") /\ idleLock' = "free" /\ UNCHANGED hwIdle
    /\ UNCHANGED <<rx, stuck, ping, mission, idleState, turnOff, arrived, history>>

(* the flag and then the time at which to leave. *)
EnterIdleFlag ==
    /\ comm.pc = "enter flag"
    /\ idleState' = TRUE /\ CommGoes("enter time")
    /\ UNCHANGED <<hardware, ping, mission, idleLock, turnOff, counters, history>>

EnterIdleTime ==
    /\ comm.pc = "enter time"
    /\ turnOff' = comm.off /\ idleLock' = "free"
    /\ comm' = [comm EXCEPT !.pc = "remove", !.off = Floor]
    /\ UNCHANGED <<hardware, ping, mission, idleState, counters, history>>

(* Faulty variant: only a frame that was handled is removed. *)
RemoveFrame_HandledOnly ==
    /\ comm.pc = "remove"
    /\ IF rx # <<>> /\ Head(rx).kind # "damaged" /\ ~stuck
       THEN rx' = Tail(rx) /\ UNCHANGED removeFailed
       ELSE removeFailed' = removeFailed \cup {f.id : f \in ToSet(SubSeq(rx, 1, 1))} /\ UNCHANGED rx
    /\ comm' = [comm EXCEPT !.left = @ - 1, !.tries = RetryCount,
                            !.pc = IF comm.left > 1 THEN "get" ELSE "kick"]
    /\ UNCHANGED <<stuck, hwIdle, ping, mission, idleVars, counters, readable, handled, repeated, flushed,
                   readFailures, restartFailed>>

(* Faulty variant: a loop over one frame too many. *)
RemoveFrame_OneMore ==
    /\ comm.pc = "remove"
    /\ rx' = IF rx = <<>> THEN rx ELSE Tail(rx)
    /\ comm' = [comm EXCEPT !.left = @ - 1, !.tries = RetryCount,
                            !.pc = IF comm.left >= 0 THEN "get" ELSE "kick"]
    /\ UNCHANGED <<stuck, hwIdle, ping, mission, idleVars, counters, readable, handled, repeated, flushed,
                   readFailures, restartFailed, removeFailed>>

(* Faulty variant: frames are removed at the end of the batch only. *)
RemoveFrame_AtEnd ==
    /\ comm.pc = "remove"
    /\ rx' = IF rx # <<>> /\ comm.left = 1 THEN Tail(rx) ELSE rx
    /\ comm' = [comm EXCEPT !.left = @ - 1, !.tries = RetryCount,
                            !.pc = IF comm.left > 1 THEN "get" ELSE "kick"]
    /\ UNCHANGED <<stuck, hwIdle, ping, mission, idleVars, counters, readable, handled, repeated, flushed,
                   readFailures, restartFailed, removeFailed>>

(* The end of ProcessSingleFrame: handled or not, the frame is removed; a   *)
(* failure is logged and the loop goes on to its next turn.                *)
RemoveFrame ==
    /\ comm.pc = "remove"
    /\ \/ ~stuck /\ BusOk /\ rx' = (IF rx = <<>> THEN rx ELSE Tail(rx)) /\ UNCHANGED removeFailed
       \/ ((stuck /\ BusOk) \/ (~stuck /\ BusFault)) /\ UNCHANGED rx
          /\ removeFailed' = removeFailed \cup {f.id : f \in ToSet(SubSeq(rx, 1, 1))}
    /\ comm' = [comm EXCEPT !.left = @ - 1, !.tries = RetryCount,
                            !.pc = IF comm.left > 1 THEN "get" ELSE "kick"]
    /\ UNCHANGED <<stuck, hwIdle, ping, mission, idleVars, arrived, readable, handled, repeated,
                   flushed, readFailures, restartFailed>>

(* Faulty variant: the task polls again and again. *)
EndOfPoll_Endless ==
    /\ comm.pc = "kick"
    /\ comm' = CommStart
    /\ UNCHANGED <<hardware, ping, mission, idleVars, counters, history>>

(* The end of PollHardware: the watchdogs of the radio are kicked, and      *)
(* CommTask polls again at once if there was a frame.  Otherwise it sets    *)
(* the ping and waits for a second.                                        *)
EndOfPoll ==
    /\ comm.pc = "kick"
    /\ IF comm.anyFrame
       THEN comm' = CommStart /\ UNCHANGED ping
       ELSE CommGoes("wait") /\ ping' = TRUE
    /\ UNCHANGED <<hardware, mission, idleVars, counters, history>>

WaitTimesOut ==
    /\ comm.pc = "wait" /\ comm' = CommStart
    /\ UNCHANGED <<hardware, ping, mission, idleVars, counters, history>>

-----------------------------------------------------------------------------
(* The mission loop *)

MissionGoes(there) == mission' = [mission EXCEPT !.pc = there]

(* Faulty variant: the time at which to leave must be met exactly. *)
Determine_Exact ==
    /\ mission.pc = "determine"
    /\ mission' = [mission EXCEPT !.pc = "time", !.due = idleState /\ turnOff = 0]
    /\ UNCHANGED <<hardware, comm, ping, idleVars, counters, history>>

(* CanLeaveTransmitterStateWhenIdle is evaluated with the other conditions. *)
Determine ==
    /\ mission.pc = "determine"
    /\ mission' = [mission EXCEPT !.pc = "time", !.due = idleState /\ turnOff <= 0]
    /\ UNCHANGED <<hardware, comm, ping, idleVars, counters, history>>

(* TimeTask may correct mission time ... *)
CorrectTime ==
    /\ mission.pc = "time"
    /\ \/ MissionGoes("comm") /\ UNCHANGED <<troubles, turnOff, comm>>
       \/ /\ Trouble
          /\ \E d \in {-1, 1} :
                /\ mission' = [mission EXCEPT !.pc = "changed", !.shift = d]
                /\ turnOff' = Bounded(turnOff - d)
                /\ comm' = [comm EXCEPT !.off = Bounded(@ - d)]
    /\ UNCHANGED <<hardware, ping, idleLock, idleState, arrived, history>>

(* ... and notify CommTask, whose TimeChanged adds without the lock: a      *)
(* reading and a writing.                                                  *)
TimeChangedRead ==
    /\ mission.pc = "changed"
    /\ mission' = [mission EXCEPT !.pc = "shift", !.off = Bounded(turnOff + mission.shift)]
    /\ UNCHANGED <<hardware, comm, ping, idleVars, counters, history>>

TimeChangedWrite ==
    /\ mission.pc = "shift"
    /\ turnOff' = mission.off
    /\ mission' = [mission EXCEPT !.pc = "comm", !.shift = 0, !.off = Floor]
    /\ UNCHANGED <<hardware, comm, ping, idleLock, idleState, counters, history>>

(* ActionProc, if the condition held: LeaveTransmitterStateWhenIdle. *)
LeaveIdleLock ==
    /\ mission.pc = "comm"
    /\ \/ ~mission.due /\ MissionGoes("eps") /\ UNCHANGED idleLock
       \/ mission.due /\ idleLock = "free" /\ idleLock' = "mission" /\ MissionGoes("leave hw")
    /\ UNCHANGED <<hardware, comm, ping, idleState, turnOff, counters, history>>

(* Faulty variant: the answer of the transmitter is not looked at. *)
LeaveIdle_Unchecked ==
    /\ mission.pc = "leave hw"
    /\ ((BusOk /\ hwIdle' = FALSE) \/ (BusFault /\ UNCHANGED hwIdle))
    /\ idleState' = FALSE /\ idleLock' = "free" /\ MissionGoes("eps")
    /\ UNCHANGED <<rx, stuck, comm, ping, turnOff, arrived, history>>

LeaveIdle ==
    /\ mission.pc = "leave hw"
    /\ \/ BusOk /\ hwIdle' = FALSE /\ idleState' = FALSE
       \/ BusFault /\ UNCHANGED <<hwIdle, idleState>>
    /\ idleLock' = "free" /\ MissionGoes("eps")
    /\ UNCHANGED <<rx, stuck, comm, ping, turnOff, arrived, history>>

(* WatchdogTask kicks the EPS; CommWdogTask then waits for the ping, without *)
(* a timeout, and takes it.                                                *)
KickEps ==
    /\ mission.pc = "eps" /\ MissionGoes("wait ping")
    /\ UNCHANGED <<hardware, comm, ping, idleVars, counters, history>>

WaitForComLoop ==
    /\ mission.pc = "wait ping" /\ ping /\ ping' = FALSE
    /\ mission' = MissionStart
    /\ UNCHANGED <<hardware, comm, idleVars, counters, history>>

-----------------------------------------------------------------------------
(* Resets *)

(* A boot: the tasks start afresh and the radio is restarted. *)
Boot(restarted) ==
    /\ comm' = CommStart /\ mission' = MissionStart /\ ping' = FALSE
    /\ idleLock' = "free" /\ idleState' = FALSE /\ turnOff' = Floor
    /\ IF restarted
       THEN /\ rx' = <<>> /\ hwIdle' = FALSE
            /\ flushed' = flushed \cup {f.id : f \in ToSet(rx)} /\ UNCHANGED restartFailed
       ELSE restartFailed' = TRUE /\ UNCHANGED <<rx, hwIdle, flushed>>
    /\ UNCHANGED <<arrived, readable, handled, repeated, removeFailed, readFailures>>

(* The watchdogs of the OBC reset it alone, and the command that restarts   *)
(* the radio may fail.                                                     *)
ObcReset ==
    /\ Trouble /\ UNCHANGED stuck
    /\ \E restarted \in BOOLEAN : Boot(restarted)

(* The watchdog of the EPS expires while the mission loop waits for a ping  *)
(* that does not come (external): everything loses power.                  *)
EpsExpires ==
    /\ mission.pc = "wait ping" /\ ~ping
    /\ IF stuck THEN UNCHANGED troubles ELSE Trouble
    /\ stuck' = FALSE
    /\ Boot(TRUE)

-----------------------------------------------------------------------------

CommInit ==
    /\ rx = <<>> /\ stuck = FALSE /\ hwIdle = FALSE
    /\ comm = CommStart /\ ping = FALSE /\ mission = MissionStart
    /\ idleLock = "free" /\ idleState = FALSE /\ turnOff = Floor
    /\ arrived = 0 /\ troubles = 0
    /\ readable = {} /\ handled = {} /\ repeated = {} /\ removeFailed = {} /\ flushed = {}
    /\ readFailures = 0 /\ restartFailed = FALSE

EnterIdle == EnterIdleLock \/ EnterIdleHardware \/ EnterIdleFlag \/ EnterIdleTime
CommTask ==
    GetFrameCount \/ GetFrame \/ HandleFrame \/ EnterIdle \/ RemoveFrame \/ EndOfPoll \/ WaitTimesOut
MissionLoop ==
    \/ Determine \/ CorrectTime \/ TimeChangedRead \/ TimeChangedWrite
    \/ LeaveIdleLock \/ LeaveIdle \/ KickEps \/ WaitForComLoop

CommNext == FrameArrives \/ ReceiverSticks \/ Tick \/ CommTask \/ MissionLoop \/ ObcReset \/ EpsExpires

CommSpec == CommInit /\ [][CommNext]_commVars

(* The scheduler runs both tasks, time passes and the EPS does its part.    *)
(* The comm task waits for the bus between giving the semaphore back and    *)
(* taking it again, and a mission loop that waits for it gets it then.      *)
CommFairSpec ==
    CommSpec /\ WF_commVars(CommTask) /\ WF_commVars(MissionLoop) /\ WF_commVars(Tick)
             /\ WF_commVars(EpsExpires) /\ SF_commVars(LeaveIdleLock)

-----------------------------------------------------------------------------
(* Properties *)

CommTypeOK ==
    /\ rx \in Seq(Frames) /\ Len(rx) <= ReceiverBufferSize
    /\ stuck \in BOOLEAN /\ hwIdle \in BOOLEAN /\ ping \in BOOLEAN
    /\ comm.left \in 0 .. ReceiverBufferSize /\ comm.tries \in 0 .. RetryCount
    /\ idleLock \in {"free", "comm", "mission"} /\ idleState \in BOOLEAN
    /\ turnOff \in Floor .. Longest + MaxTroubles

(* A frame that can be read is not lost: it reaches its handler unless the  *)
(* receiver was reset, or every one of RetryCount attempts at reading it    *)
(* failed on the bus (libs/drivers/comm/comm.cpp:750-795).                 *)
NoFrameLost ==
    LET waiting == {f.id : f \in ToSet(rx)}
        lost == readable \ (handled \cup waiting \cup flushed)
    IN  RetryCount * Cardinality(lost) <= readFailures

(* The handler of a frame is called again only if the frame could not be    *)
(* removed after the first time (comm.cpp:791), or if the OBC was reset in   *)
(* between and could not restart the radio.                                *)
RepeatedOnlyIfKept == restartFailed \/ repeated \subseteq removeFailed

(* The transmitter is never on when idle without CommTask knowing that it   *)
(* has to switch it off, unless a boot failed to restart the radio          *)
(* (libs/mission/comm/comm.cpp:26-66).                                     *)
IdleOwned == hwIdle /\ idleLock = "free" => idleState \/ restartFailed

(* The receiver is emptied, of damaged frames too, whatever fails (comm.cpp: *)
(* 723-829).                                                               *)
ReceiverEmptied == rx # <<>> ~> rx = <<>>

(* The mission loop never waits forever for the comm task: the ping comes,  *)
(* or the EPS switches the power off (libs/mission/comm/comm_wdog.cpp:27,   *)
(* doc/watchdogs.md).                                                      *)
MissionLoopGoesOn == mission.pc = "wait ping" ~> mission.pc = "determine"

(* The idle state ends, whatever telecommands and corrections of time come  *)
(* in between (libs/mission/comm/comm.cpp:68-86).                          *)
IdleEnds == hwIdle ~> (~hwIdle \/ restartFailed)

(* What the comm task and the mission loop leave in the radio, whatever     *)
(* fails: no frame dropped unhandled or handled twice without need, and no  *)
(* transmitter left on by itself (drivers/comm/comm.cpp:750-795,           *)
(* mission/comm/comm.cpp:26-66).                                           *)
UplinkSafe == CommTypeOK /\ NoFrameLost /\ RepeatedOnlyIfKept /\ IdleOwned

(* The comm task empties the receiver and still comes back often enough for *)
(* the mission loop, which waits for it, and the idle state ends           *)
(* (drivers/comm/comm.cpp:723-829, mission/comm/comm.cpp:68-86).            *)
RadioGoesOn == ReceiverEmptied /\ MissionLoopGoesOn /\ IdleEnds
=============================================================================
