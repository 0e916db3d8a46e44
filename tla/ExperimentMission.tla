--------------------------- MODULE ExperimentMission ---------------------------
(***************************************************************************)
(* The mission tasks that use the experiment controller, composed with it: *)
(*   - LEOPTask (libs/mission/leop/leop.cpp) requests the launch and early *)
(*     orbit experiment by itself, in a window of mission time;            *)
(*   - PeriodicPowerCycleTask (libs/mission/power/power_cycle.cpp) cycles  *)
(*     the power of the satellite some time after boot, which loses every  *)
(*     variable in RAM;                                                    *)
(*   - the scrubber task (libs/obc/scrubbing/scrubbing.cpp) repairs        *)
(*     program memory in the background.                                   *)
(* One iteration of the mission loop evaluates the conditions of all tasks *)
(* first (SystemDetermineActions) and runs the actions chosen afterwards   *)
(* (SystemDispatchActions), in task order: Experiment, LEOP, power cycle   *)
(* (src/mission.h:52-71).  What a condition saw may no longer hold when    *)
(* its action runs.                                                        *)
(*                                                                         *)
(* Mission time is a small number that advances between iterations, an     *)
(* iteration being short against the time unit.                            *)
(***************************************************************************)
EXTENDS ExperimentController, Naturals

CONSTANTS
    LeopCode,               \* code of the LEOP experiment
    ExperimentStartDelay,   \* LEOP is requested at this mission time ...
    ExperimentTimeStop,     \* ... and before this one
    PowerCycleTime,         \* time since boot that calls for a power cycle
    NoTime,                 \* "no value" of Option<milliseconds>
    ActiveScrubbers,        \* the scrubbers that run (a bound)
    MaxTime                 \* bound on mission time in the model

ASSUME MissionAssumption ==
    /\ LeopCode \in Experiments
    /\ {ExperimentStartDelay, ExperimentTimeStop,
        PowerCycleTime, MaxTime} \subseteq Nat
    /\ NoTime \notin Nat

\* The scrubbers that set an in-progress flag; one scrubber task runs them.
Scrubbers == {"primary", "failsafe", "bootloader", "safeMode"}
NotScrubbing == "none"
ASSUME ScrubbersAssumption == ActiveScrubbers \subseteq Scrubbers

VARIABLES
    time,               \* mission time
    bootTime,           \* PeriodicPowerCycleTask::_bootTime
    isStartAllowed,     \* LEOPTask::_isStartAllowed
    runlevel3,          \* InitializeRunlevel3 has run
    scrubbing,          \* the scrubber at work
    runnable,           \* actions chosen by SystemDetermineActions
    startedSince,       \* history: an experiment became current since the
                        \* power cycle condition looked at the experiments
    leopAccepted        \* history: LEOPTask's request accepted since boot

missionVars == <<time, bootTime, isStartAllowed, runlevel3, scrubbing,
                 runnable, startedSince, leopAccepted>>
allVars == <<vars, missionVars>>

\* The labels of the mission loop inside and outside the Experiment component.
MissionLabels == LoopLabels \cup {"BootTime", "Scrubbing", "Experiments",
                                  "LeopAccept", "PowerCycle"}

MissionTypeOK ==
    /\ loopPc \in MissionLabels
    /\ time \in 0..MaxTime
    /\ bootTime \in 0..MaxTime \cup {NoTime}
    /\ isStartAllowed \in BOOLEAN
    /\ runlevel3 \in BOOLEAN
    /\ scrubbing \in Scrubbers \cup {NotScrubbing}
    /\ runnable \subseteq {"LEOP", "PowerCycle"}
    /\ startedSince \in BOOLEAN
    /\ leopAccepted \in BOOLEAN

MissionInit ==
    /\ Init
    /\ time = 0
    /\ bootTime = NoTime
    /\ isStartAllowed = FALSE
    /\ runlevel3 = FALSE
    /\ scrubbing = NotScrubbing
    /\ runnable = {}
    /\ startedSince = FALSE
    /\ leopAccepted = FALSE

-----------------------------------------------------------------------------
(* Reset: everything in RAM is back to its initial value, mission time     *)
(* falls back to the one saved last in persistent memory.                  *)

ControllerReset ==
    /\ events' = {}
    /\ requested' = NoExperiment
    /\ current' = NoExperiment
    /\ lastStart' = None
    /\ lastIteration' = None
    /\ queue' = NoExperiment
    /\ bgPc' = "Pop"
    /\ bgExp' = NoExperiment
    /\ reqPc' = [r \in Requesters |-> "idle"]
    /\ reqExp' = [r \in Requesters |-> NoExperiment]
    /\ loopPc' = "Idle"
    /\ abortSincePop' = FALSE /\ aborted' = FALSE
    /\ cycleReached' = FALSE

Reset ==
    /\ ControllerReset
    /\ bootTime' = NoTime
    /\ isStartAllowed' = FALSE
    /\ runlevel3' = FALSE
    /\ scrubbing' = NotScrubbing
    /\ runnable' = {}
    /\ startedSince' = FALSE
    /\ leopAccepted' = FALSE
    /\ time' \in 0..time

InitializeRunlevel3 ==
    /\ ~runlevel3
    /\ runlevel3' = TRUE
    /\ isStartAllowed' = TRUE
    /\ UNCHANGED <<vars, time, bootTime, scrubbing, runnable, startedSince,
                   leopAccepted>>

Tick ==
    /\ loopPc = "Idle"
    /\ time < MaxTime
    /\ time' = time + 1
    /\ UNCHANGED <<vars, bootTime, isStartAllowed, runlevel3, scrubbing,
                   runnable, startedSince, leopAccepted>>

BeginScrubbing ==
    /\ scrubbing = NotScrubbing
    /\ scrubbing' \in ActiveScrubbers
    /\ UNCHANGED <<vars, time, bootTime, isStartAllowed, runlevel3, runnable,
                   startedSince, leopAccepted>>

EndScrubbing ==
    /\ scrubbing # NotScrubbing
    /\ scrubbing' = NotScrubbing
    /\ UNCHANGED <<vars, time, bootTime, isStartAllowed, runlevel3, runnable,
                   startedSince, leopAccepted>>

-----------------------------------------------------------------------------
(* The conditions, evaluated before any action.                            *)

LeopCondition ==
    /\ isStartAllowed
    /\ ExperimentStartDelay <= time /\ time < ExperimentTimeStop

DetermineLeop ==
    /\ LoopGoto("Idle", "BootTime")
    /\ runnable' = {a \in {"LEOP"} : LeopCondition}
    /\ UNCHANGED <<events, fields, queue, bgVars, reqVars, history, time,
                   bootTime, isStartAllowed, runlevel3, scrubbing,
                   startedSince, leopAccepted>>

\* Faulty variant: the time of the next power cycle is stored instead.
DetermineBootTime_StoresDueTime ==
    /\ LoopGoto("BootTime",
                IF bootTime # NoTime /\ time >= bootTime
                THEN "Scrubbing" ELSE "Kick")
    /\ bootTime' = IF bootTime = NoTime THEN time + PowerCycleTime ELSE bootTime
    /\ UNCHANGED <<events, fields, queue, bgVars, reqVars, history, time,
                   isStartAllowed, runlevel3, scrubbing, runnable,
                   startedSince, leopAccepted>>

\* The first evaluation after boot only records the boot time.
DetermineBootTime ==
    /\ LoopGoto("BootTime",
                IF bootTime # NoTime /\ time >= bootTime + PowerCycleTime
                THEN "Scrubbing" ELSE "Kick")
    /\ bootTime' = IF bootTime = NoTime THEN time ELSE bootTime
    /\ UNCHANGED <<events, fields, queue, bgVars, reqVars, history, time,
                   isStartAllowed, runlevel3, scrubbing, runnable,
                   startedSince, leopAccepted>>

\* IScrubbingStatus as OBCScrubbing implements it: SafeModeInProgress asks
\* the scrubber of the failsafe slots (scrubbing.cpp:121-124).
BootloaderInProgress == scrubbing = "bootloader"
PrimarySlotsInProgress == scrubbing = "primary"
FailsafeSlotsInProgress == scrubbing = "failsafe"
SafeModeInProgress == scrubbing = "failsafe"

DetermineScrubbing ==
    /\ LoopGoto("Scrubbing",
                IF \/ BootloaderInProgress
                   \/ PrimarySlotsInProgress
                   \/ FailsafeSlotsInProgress
                   \/ SafeModeInProgress
                THEN "Kick" ELSE "Experiments")
    /\ UNCHANGED <<events, fields, queue, bgVars, reqVars, history,
                   missionVars>>

\* Faulty variant: the experiment in progress is not looked at.
DetermineExperiments_Unchecked ==
    /\ LoopGoto("Experiments", "Kick")
    /\ runnable' = runnable \cup {"PowerCycle"}
    /\ startedSince' = FALSE
    /\ UNCHANGED <<events, fields, queue, bgVars, reqVars, history, time,
                   bootTime, isStartAllowed, runlevel3, scrubbing,
                   leopAccepted>>

DetermineExperiments ==
    /\ LoopGoto("Experiments", "Kick")
    /\ runnable' = runnable \cup
                     {a \in {"PowerCycle"} : current = NoExperiment}
    /\ startedSince' = FALSE
    /\ UNCHANGED <<events, fields, queue, bgVars, reqVars, history, time,
                   bootTime, isStartAllowed, runlevel3, scrubbing,
                   leopAccepted>>

-----------------------------------------------------------------------------
(* The actions that follow the Experiment component.                       *)

\* LEOPTask::Action calls RequestExperiment, ignores its result and never
\* tries again: this is the call that is denied ...
LeopDenied ==
    /\ "LEOP" \in runnable
    /\ InProgress \in events
    /\ LoopGoto("Done", "PowerCycle")
    /\ isStartAllowed' = FALSE
    /\ UNCHANGED <<events, fields, queue, bgVars, reqVars, history, time,
                   bootTime, runlevel3, scrubbing, runnable, startedSince,
                   leopAccepted>>

\* ... and this one passes the check and goes on to the locked write.
LeopCheck ==
    /\ "LEOP" \in runnable
    /\ InProgress \notin events
    /\ LoopGoto("Done", "LeopAccept")
    /\ UNCHANGED <<events, fields, queue, bgVars, reqVars, history,
                   missionVars>>

\* Faulty variant: the task may start the experiment again.
LeopAccept_StaysAllowed ==
    /\ LoopGoto("LeopAccept", "PowerCycle")
    /\ requested' = LeopCode
    /\ leopAccepted' = TRUE
    /\ UNCHANGED <<events, current, lastStart, lastIteration, queue, bgVars,
                   reqVars, history, time, bootTime, isStartAllowed, runlevel3,
                   scrubbing, runnable, startedSince>>

LeopAccept ==
    /\ LoopGoto("LeopAccept", "PowerCycle")
    /\ requested' = LeopCode
    /\ isStartAllowed' = FALSE
    /\ leopAccepted' = TRUE
    /\ UNCHANGED <<events, current, lastStart, lastIteration, queue, bgVars,
                   reqVars, history, time, bootTime, runlevel3, scrubbing,
                   runnable, startedSince>>

LeopNotRun ==
    /\ "LEOP" \notin runnable
    /\ LoopGoto("Done", "PowerCycle")
    /\ UNCHANGED <<events, fields, queue, bgVars, reqVars, history,
                   missionVars>>

\* Every power rail of the satellite goes down.
PowerCycle ==
    /\ loopPc = "PowerCycle"
    /\ "PowerCycle" \in runnable
    /\ Reset

PowerCycleNotRun ==
    /\ LoopGoto("PowerCycle", "Idle")
    /\ "PowerCycle" \notin runnable
    /\ runnable' = {}
    /\ startedSince' = FALSE
    /\ UNCHANGED <<events, fields, queue, bgVars, reqVars, history, time,
                   bootTime, isStartAllowed, runlevel3, scrubbing,
                   leopAccepted>>

-----------------------------------------------------------------------------
\* Bound of the exploration: one abort between two resets.
AbortOnce(r) == ~aborted /\ AbortExperiment(r)

\* The steps of the controller leave the mission tasks alone, except that
\* the history records when an experiment becomes current.
ControllerStep ==
    /\ \/ BackgroundTask
       \/ ExperimentComponent
       \/ \E r \in Requesters : Request(r) \/ AbortOnce(r)
    /\ startedSince' = (startedSince \/ (current = NoExperiment /\ current' # current))
    /\ UNCHANGED <<time, bootTime, isStartAllowed, runlevel3, scrubbing,
                   runnable, leopAccepted>>

MissionNext ==
    \/ ControllerStep
    \/ InitializeRunlevel3 \/ Tick \/ BeginScrubbing \/ EndScrubbing
    \/ DetermineLeop \/ DetermineBootTime
    \/ DetermineScrubbing \/ DetermineExperiments
    \/ LeopDenied \/ LeopCheck \/ LeopAccept \/ LeopNotRun
    \/ PowerCycle \/ PowerCycleNotRun
    \/ Reset

MissionSpec == MissionInit /\ [][MissionNext]_allVars

-----------------------------------------------------------------------------
(* Properties.                                                             *)

PowerCycleRuns ==
    loopPc = "PowerCycle" /\ "PowerCycle" \in runnable /\ loopPc' = "Idle"

\* The window in which a power cycle may still hit an experiment is one
\* iteration: the experiment became current after the power cycle's condition
\* was evaluated (power_cycle.cpp:66-71), so a long-running one is safe.
OnlyNewExperimentsInterrupted ==
    [][PowerCycleRuns /\ current # NoExperiment => startedSince]_allVars

\* LEOPTask starts the experiment at most once between two resets, even if
\* the ground aborts it within the window (leop.cpp:54-60).
LeopOncePerBoot ==
    [][loopPc = "LeopAccept" /\ loopPc' = "PowerCycle"
         => ~leopAccepted]_allVars

=============================================================================
