---------------------------- MODULE LoopControl ----------------------------
(***************************************************************************)
(* The task of the mission loop (MissionLoop::TaskLoop, libs/mission/       *)
(* Include/mission/main.hpp) and the commands that suspend it, resume it    *)
(* and ask for a single iteration (src/commands/mission.cpp).  The task of  *)
(* the terminal has the highest priority, but the operator behind it is     *)
(* slow: a command never meets a loop that is about to suspend itself, and  *)
(* nobody suspends a loop that is suspended.                                *)
(***************************************************************************)
EXTENDS Integers

CONSTANTS MaxLoopCommands

VARIABLES
    loopFlags,      \* bits of the event group
    loop,           \* the task: where it is, and the bits it was woken with
    terminal,       \* where the command of the terminal is
    paused,         \* history: what the operator asked for last
    runs,           \* history: iterations begun since the request for one
    returned,       \* history: what runs was when the request returned
    loopCommands    \* bounded counter

loopVars == <<loopFlags, loop, terminal, paused, runs, returned, loopCommands>>

PauseRequest == "PauseRequestFlag"
PauseAck == "PauseAckFlag"
RunOnceRequest == "RunOnceRequestFlag"
RunOnceFinished == "RunOnceFinishedFlag"

-----------------------------------------------------------------------------
(* The task *)

(* The terminal preempts the task as soon as it can go on. *)
Preempted ==
    \/ terminal = "resume"
    \/ terminal = "wait ack" /\ PauseAck \in loopFlags
    \/ terminal = "wait both" /\ {RunOnceFinished, PauseAck} \subseteq loopFlags
LoopGoes(there) == ~Preempted /\ loop' = [loop EXCEPT !.pc = there]

(* Faulty variant: only the request for an iteration is looked at. *)
LoopWaits_OnlyOnce ==
    /\ loop.pc = "wait" /\ ~Preempted
    /\ loop' = [result |-> loopFlags,
                pc |-> IF RunOnceRequest \in loopFlags THEN "run once"
                       ELSE IF loopFlags = {} THEN "run" ELSE "wait"]
    /\ runs' = IF runs < 2 /\ (RunOnceRequest \in loopFlags \/ loopFlags = {}) THEN runs + 1 ELSE runs
    /\ UNCHANGED <<loopFlags, terminal, paused, returned, loopCommands>>

(* EventGroupWaitForBits: a request wakes the task, or the period passes;   *)
(* either way the result is the whole event group.                         *)
LoopWaits ==
    /\ loop.pc = "wait"
    /\ ~Preempted
    /\ loop' = [result |-> loopFlags,
                pc |-> IF RunOnceRequest \in loopFlags THEN "run once"
                       ELSE IF PauseRequest \in loopFlags THEN "pause"
                       ELSE IF loopFlags = {} THEN "run" ELSE "wait"]
    /\ runs' = IF runs < 2 /\ (RunOnceRequest \in loopFlags \/ loopFlags = {}) THEN runs + 1 ELSE runs
    /\ UNCHANGED <<loopFlags, terminal, paused, returned, loopCommands>>

RunOnce ==
    /\ loop.pc \in {"run", "run once"}
    /\ LoopGoes(IF loop.pc = "run" THEN "ran" ELSE "ran once")
    /\ UNCHANGED <<loopFlags, terminal, paused, runs, returned, loopCommands>>

(* Back to the wait, or the end of the iteration that was asked for. *)
IterationEnds ==
    \/ /\ loop.pc = "ran" /\ LoopGoes("wait") /\ UNCHANGED loopFlags
       /\ UNCHANGED <<terminal, paused, runs, returned, loopCommands>>
    \/ /\ loop.pc = "ran once" /\ LoopGoes("finish")
       /\ loopFlags' = loopFlags \ {RunOnceRequest}
       /\ UNCHANGED <<terminal, paused, runs, returned, loopCommands>>

FinishIteration ==
    /\ loop.pc = "finish"
    /\ loopFlags' = loopFlags \cup {RunOnceFinished}
    /\ LoopGoes(IF PauseRequest \in loop.result THEN "pause" ELSE "wait")
    /\ UNCHANGED <<terminal, paused, runs, returned, loopCommands>>

PauseLoop ==
    \/ /\ loop.pc = "pause" /\ LoopGoes("ack")
       /\ loopFlags' = loopFlags \ {PauseRequest}
       /\ UNCHANGED <<terminal, paused, runs, returned, loopCommands>>
    \/ /\ loop.pc = "ack" /\ LoopGoes("suspend")
       /\ loopFlags' = loopFlags \cup {PauseAck}
       /\ UNCHANGED <<terminal, paused, runs, returned, loopCommands>>
    \/ /\ loop.pc = "suspend" /\ LoopGoes("suspended") /\ UNCHANGED loopFlags
       /\ UNCHANGED <<terminal, paused, runs, returned, loopCommands>>

-----------------------------------------------------------------------------
(* The commands *)

(* System::ResumeTask: the task goes on after SuspendTask, that is, round   *)
(* the loop again, if it is suspended.                                     *)
ResumeTask == loop' = IF loop.pc = "suspended" THEN [loop EXCEPT !.pc = "wait"] ELSE loop

NewCommand ==
    /\ terminal = "idle" /\ loop.pc # "suspend"
    /\ loopCommands < MaxLoopCommands /\ loopCommands' = loopCommands + 1

SuspendMission ==
    /\ NewCommand /\ ~paused
    /\ loopFlags' = loopFlags \cup {PauseRequest}
    /\ terminal' = "wait ack" /\ paused' = TRUE
    /\ UNCHANGED <<loop, runs, returned>>

SuspendReturns ==
    /\ terminal = "wait ack" /\ PauseAck \in loopFlags
    /\ loopFlags' = loopFlags \ {PauseAck}
    /\ terminal' = "idle"
    /\ UNCHANGED <<loop, paused, runs, returned, loopCommands>>

ResumeMission ==
    /\ NewCommand /\ ResumeTask /\ paused' = FALSE
    /\ UNCHANGED <<loopFlags, terminal, runs, returned>>

(* RequestSingleIteration: both requests, then Resume and a wait of a       *)
(* second, again and again until the iteration and the pause are reported.  *)
RunMission ==
    /\ NewCommand
    /\ loopFlags' = loopFlags \cup {RunOnceRequest, PauseRequest}
    /\ terminal' = "resume" /\ paused' = TRUE /\ runs' = 0
    /\ UNCHANGED <<loop, returned>>

RunMissionResumes ==
    /\ terminal = "resume" /\ terminal' = "wait both" /\ ResumeTask
    /\ UNCHANGED <<loopFlags, paused, runs, returned, loopCommands>>

(* Faulty variant: one of the two answers is enough. *)
RunMissionWaits_Any ==
    /\ terminal = "wait both"
    /\ \/ /\ loopFlags \cap {RunOnceFinished, PauseAck} # {}
          /\ loopFlags' = loopFlags \ {RunOnceFinished, PauseAck}
          /\ terminal' = "idle" /\ returned' = runs
       \/ terminal' = "resume" /\ UNCHANGED <<loopFlags, returned>>
    /\ UNCHANGED <<loop, paused, runs, loopCommands>>

(* Faulty variant: the report of the iteration is left in the event group. *)
RunMissionWaits_KeepsFlag ==
    /\ terminal = "wait both"
    /\ \/ /\ {RunOnceFinished, PauseAck} \subseteq loopFlags
          /\ loopFlags' = loopFlags \ {PauseAck}
          /\ terminal' = "idle" /\ returned' = runs
       \/ /\ ~({RunOnceFinished, PauseAck} \subseteq loopFlags)
          /\ terminal' = "resume" /\ UNCHANGED <<loopFlags, returned>>
    /\ UNCHANGED <<loop, paused, runs, loopCommands>>

RunMissionWaits ==
    /\ terminal = "wait both"
    /\ \/ /\ {RunOnceFinished, PauseAck} \subseteq loopFlags
          /\ loopFlags' = loopFlags \ {RunOnceFinished, PauseAck}
          /\ IF loopFlags = {RunOnceFinished, PauseAck}
             THEN terminal' = "idle" /\ returned' = runs
             ELSE terminal' = "resume" /\ UNCHANGED returned
       \/ /\ ~({RunOnceFinished, PauseAck} \subseteq loopFlags)
          /\ terminal' = "resume" /\ UNCHANGED <<loopFlags, returned>>
    /\ UNCHANGED <<loop, paused, runs, loopCommands>>

-----------------------------------------------------------------------------

(* After Initialize and the Resume of InitializeRunlevel2. *)
LoopInit ==
    /\ loopFlags = {} /\ loop = [pc |-> "wait", result |-> {}] /\ terminal = "idle"
    /\ paused = FALSE /\ runs = 0 /\ returned = 1 /\ loopCommands = 0

TaskLoop == LoopWaits \/ RunOnce \/ IterationEnds \/ FinishIteration \/ PauseLoop
Terminal == SuspendReturns \/ RunMissionResumes \/ RunMissionWaits
LoopRests ==
    terminal = "idle" /\ loop.pc = "suspended" /\ loopCommands = MaxLoopCommands /\ UNCHANGED loopVars

LoopNext == TaskLoop \/ Terminal \/ SuspendMission \/ ResumeMission \/ RunMission \/ LoopRests

LoopSpec == LoopInit /\ [][LoopNext]_loopVars

(* The terminal waits for a second at a time, in which the task runs. *)
LoopFairness == SF_loopVars(TaskLoop) /\ WF_loopVars(Terminal)

-----------------------------------------------------------------------------
(* Properties *)

(* RequestSingleIteration returns after one iteration begun after the       *)
(* request, neither none nor two (main.hpp:469-522), and the loop that has  *)
(* served it has stopped for good until somebody resumes it.               *)
OneIterationAskedFor ==
    /\ returned = 1
    /\ paused /\ terminal = "idle" => loop.pc \in {"suspend", "suspended"}

(* No flag a command leaves behind keeps the resumed loop from its periodic *)
(* iterations, which need an event group without a bit (main.hpp:517), and  *)
(* every command returns.                                                  *)
LoopGoesOn == ~paused ~> (paused \/ loop.pc = "ran")
CommandReturns == terminal # "idle" ~> terminal = "idle"
=============================================================================
