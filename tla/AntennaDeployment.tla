------------------------- MODULE AntennaDeployment --------------------------
(***************************************************************************)
(* Antenna deployment (libs/mission/antenna/antenna.cpp) with the beacon   *)
(* that waits for it (libs/mission/beacon/BeaconUpdate.cpp), the save of   *)
(* its persistent "disabled" flag and the telecommand that sets the flag.  *)
(* Unlike the other tasks with a clock of their own, AntennaTask is not    *)
(* told when mission time is corrected.                                    *)
(* Time is counted in minutes; the mission loop runs at least once in each *)
(* minute.  The antenna controllers and the power system are external: a   *)
(* command may fail, a deploy command burns for its burn time unless the   *)
(* controller is disarmed, reset or switched off before.                   *)
(***************************************************************************)
EXTENDS Integers, Sequences, FiniteSets

CONSTANTS
    Antennas,       \* arguments of the deploy command on a channel, in order
    AutoId,           \* the one that deploys all antennas one after the other
    SilentPeriod,   \* SilentPeriodThreshold
    CorrectionPeriod, \* TimeTask::TimeCorrectionPeriod
    Corrections,    \* values by which a correction can move mission time
    PowerCycledResets, \* subset of BOOLEAN: whether a reset cuts the power
    MaxTime,        \* bounds of the exploration: mission time ...
    LatestReset,    \* ... the mission time of the last reset
    MaxFailures,    \* ... failed commands
    MaxMasks,       \* ... telecommands
    MaxCorrections, \* ... corrections that move mission time
    MaxResets       \* ... resets of the OBC

ASSUME AntennasAssumption ==
    /\ Antennas \in Seq(STRING) /\ Antennas # <<>>
    /\ {SilentPeriod, MaxTime, LatestReset, CorrectionPeriod} \subseteq Nat
    /\ Corrections \subseteq Int
    /\ PowerCycledResets \subseteq BOOLEAN
    /\ {MaxFailures, MaxMasks, MaxCorrections, MaxResets} \subseteq Nat

Channels == {"Primary", "Backup"}

\* Faulty variant: the controller is left on.
FullSequence_NotOff == <<"PowerOn", "Reset", "Arm", "Deploy", "Disarm">>

FullSequence == <<"PowerOn", "Reset", "Arm", "Deploy", "Disarm", "PowerOff">>
PerChannel == Len(FullSequence) * Len(Antennas)
StepCount == 2 * PerChannel

BurnTime(antenna) == IF antenna = AutoId THEN 2 ELSE 1

\* Faulty variant: the wait of a manual deploy is used for all.
DeployWait_Manual(antenna) == 1

DeployWait(antenna) == IF antenna = AutoId THEN 3 ELSE 1

\* The table AntennaTask::Steps: all sequences of the primary channel, then
\* those of the backup channel.
Steps ==
    [i \in 1..StepCount |->
        LET command == FullSequence[1 + ((i - 1) % Len(FullSequence))]
            antenna == Antennas[1 + (((i - 1) \div Len(FullSequence)) % Len(Antennas))]
        IN  [command |-> command,
             channel |-> IF i <= PerChannel THEN "Primary" ELSE "Backup",
             antenna |-> antenna,
             wait |-> CASE command \in {"Reset", "Arm"} -> 1
                        [] command = "Deploy" -> DeployWait(antenna)
                        [] command = "PowerOff" -> 2
                        [] OTHER -> 0]]

StepRetries == 3

VARIABLES
    time,           \* mission time
    stateTime,      \* SystemState::Time, its copy of this iteration
    disabled,       \* AntennaConfiguration in the persistent state
    lastMissionTime, \* TimeState::LastMissionTime in the persistent state
    saved,          \* the image of the persistent state in the FRAM
    deployed,       \* AntennaState of the system state
    step, nextStepAt, retryCounter, \* fields of AntennaTask
    beacon,         \* isBeaconEnabled
    loopPc,         \* where the mission loop is in its iteration
    runnable,       \* actions whose condition held in this iteration
    power,          \* EPS: whether the controller of a channel is powered
    burning,        \* controllers: minutes left of a burn
    skipped,        \* history: a step was given up since the last reset
    forward,        \* history: how many of them corrections forward took
    cutShort,       \* history: Disarm or PowerOff cost a burn more than that
    used            \* history: how much of each bound is used up

persistent == <<disabled, lastMissionTime>>
task == <<step, nextStepAt, retryCounter>>
hardware == <<power, burning, forward>>
history == <<skipped, cutShort>>
vars == <<time, stateTime, persistent, saved, deployed, task, beacon,
          loopPc, runnable, hardware, history, used>>

Bounds == [failure |-> MaxFailures, mask |-> MaxMasks,
           correction |-> MaxCorrections, reset |-> MaxResets]
Use(what) == /\ used[what] < Bounds[what]
             /\ used' = [used EXCEPT ![what] = @ + 1]

Actions == {"CorrectTime", "Antenna", "Beacon"}  \* those with a condition
LoopLabels == {"Idle", "Update", "Determine", "Save"} \cup Actions

TypeOK ==
    /\ {time, stateTime, lastMissionTime, nextStepAt} \subseteq 0..(MaxTime + 3)
    /\ {disabled, deployed, beacon, cutShort} \subseteq BOOLEAN
    /\ saved \in [disabled : BOOLEAN, time : 0..MaxTime]
    /\ step \in 0..StepCount
    /\ retryCounter \in 1..StepRetries
    /\ loopPc \in LoopLabels
    /\ runnable \subseteq Actions
    /\ power \in [Channels -> BOOLEAN]
    /\ burning \in [Channels -> 0..BurnTime(AutoId)]
    /\ forward \in [Channels -> 0..BurnTime(AutoId)]
    /\ skipped \in BOOLEAN
    /\ \A what \in DOMAIN Bounds : used[what] \in 0..Bounds[what]

Init ==
    /\ time = 0 /\ stateTime = 0
    /\ disabled = FALSE /\ lastMissionTime = 0
    /\ saved = [disabled |-> FALSE, time |-> 0]
    /\ deployed = FALSE
    /\ step = 0 /\ nextStepAt = 0 /\ retryCounter = StepRetries
    /\ beacon = FALSE
    /\ loopPc = "Idle" /\ runnable = {}
    /\ power = [c \in Channels |-> FALSE]
    /\ burning = [c \in Channels |-> 0]
    /\ forward = [c \in Channels |-> 0]
    /\ skipped = FALSE /\ cutShort = FALSE
    /\ used = [what \in DOMAIN Bounds |-> 0]

-----------------------------------------------------------------------------
(* One iteration of the mission loop.                                      *)

Goto(from, to) == loopPc = from /\ loopPc' = to

UpdateTime ==
    /\ Goto("Idle", "Update")
    /\ stateTime' = time
    /\ UNCHANGED <<time, persistent, saved, deployed, task, beacon,
                   runnable, hardware, history, used>>

\* The antenna telemetry read here is left out.
Update ==
    /\ Goto("Update", "Determine")
    /\ deployed' = (deployed \/ disabled)
    /\ UNCHANGED <<time, stateTime, persistent, saved, task, beacon,
                   runnable, hardware, history, used>>

\* Faulty variant: a step is due in one minute only.
Condition_DueOnce(action) ==
    CASE action = "CorrectTime" ->
            stateTime - lastMissionTime >= CorrectionPeriod
      [] action = "Antenna" ->
            /\ stateTime > SilentPeriod
            /\ step < StepCount
            /\ stateTime = nextStepAt
            /\ ~disabled
      [] action = "Beacon" -> deployed /\ ~beacon

Condition(action) ==
    CASE action = "CorrectTime" ->
            stateTime - lastMissionTime >= CorrectionPeriod
      [] action = "Antenna" ->
            /\ stateTime > SilentPeriod
            /\ step < StepCount
            /\ stateTime >= nextStepAt
            /\ ~disabled
      [] action = "Beacon" -> deployed /\ ~beacon

DetermineActions ==
    /\ Goto("Determine", "CorrectTime")
    /\ runnable' = {action \in Actions : Condition(action)}
    /\ UNCHANGED <<time, stateTime, persistent, saved, deployed, task,
                   beacon, hardware, history, used>>

AtMost(limit, n) == IF n > limit THEN limit ELSE n

\* TimeTask::CorrectTime moves mission time; AntennaTask keeps its own.
CorrectTime ==
    /\ Goto("CorrectTime", "Antenna")
    /\ "CorrectTime" \in runnable
    /\ \/ time' = time /\ UNCHANGED used
       \/ /\ Use("correction")
          /\ \E correction \in Corrections : time' = time + correction
          /\ time' \in lastMissionTime..MaxTime
    /\ stateTime' = time'
    /\ lastMissionTime' = time'
    /\ forward' = [c \in Channels |-> IF time' > time
                                     THEN AtMost(burning[c], forward[c] + (time' - time))
                                     ELSE forward[c]]
    /\ UNCHANGED <<disabled, saved, deployed, task, beacon, runnable, power, burning,
                   history>>

\* What the hardware makes of the command of step s.
Obeyed(s) ==
    LET c == s.channel IN
    /\ power' = CASE s.command = "PowerOn" -> [power EXCEPT ![c] = TRUE]
                  [] s.command = "PowerOff" -> [power EXCEPT ![c] = FALSE]
                  [] OTHER -> power
    /\ burning' =
          CASE s.command = "Deploy" -> [burning EXCEPT ![c] = BurnTime(s.antenna)]
            [] s.command \in {"Reset", "Disarm", "PowerOff"} -> [burning EXCEPT ![c] = 0]
            [] OTHER -> burning
    /\ forward' = IF s.command \in {"Deploy", "Reset", "Disarm", "PowerOff"}
                  THEN [forward EXCEPT ![c] = 0] ELSE forward
    /\ cutShort' = (cutShort \/ /\ s.command \in {"Disarm", "PowerOff"}
                                /\ burning[c] > forward[c])

\* Faulty variants: one attempt more, one less.
Retries_OneMore == retryCounter > 0
Retries_OneLess == retryCounter > 2

Retries == retryCounter > 1

\* One step of the deployment.
PerformStep ==
    /\ Goto("Antenna", "Beacon")
    /\ "Antenna" \in runnable
    /\ \E success \in BOOLEAN :
          /\ IF success
             THEN /\ Obeyed(Steps[step + 1])
                  /\ UNCHANGED used
             ELSE /\ Use("failure")
                  /\ UNCHANGED <<hardware, cutShort>>
          /\ IF ~success /\ Retries
             THEN /\ retryCounter' = retryCounter - 1
                  /\ UNCHANGED <<step, nextStepAt, deployed, skipped>>
             ELSE /\ step' = step + 1
                  /\ nextStepAt' = stateTime + Steps[step + 1].wait
                  /\ retryCounter' = StepRetries
                  /\ deployed' = (deployed \/ step' = StepCount)
                  /\ skipped' = (skipped \/ ~success)
    /\ UNCHANGED <<time, stateTime, persistent, saved, beacon, runnable>>

\* Resumes the task that sends the beacon.
BeaconUpdate ==
    /\ Goto("Beacon", "Save")
    /\ "Beacon" \in runnable
    /\ beacon' = TRUE
    /\ UNCHANGED <<time, stateTime, persistent, saved, deployed, task,
                   runnable, hardware, history, used>>

\* The persistent state is saved in every iteration, because the update of the
\* task SaveErrorCountersConfig modifies it each time (mission/fdir).
SaveState ==
    /\ Goto("Save", "Idle")
    /\ saved' = [disabled |-> disabled, time |-> lastMissionTime]
    /\ runnable' = {}
    /\ UNCHANGED <<time, stateTime, persistent, deployed, task, beacon, hardware,
                   history, used>>

SkipAction ==
    /\ \/ Goto("CorrectTime", "Antenna") /\ "CorrectTime" \notin runnable
       \/ Goto("Antenna", "Beacon") /\ "Antenna" \notin runnable
       \/ Goto("Beacon", "Save") /\ "Beacon" \notin runnable
    /\ UNCHANGED <<time, stateTime, persistent, saved, deployed, task,
                   beacon, runnable, hardware, history, used>>

MissionLoop ==
    \/ UpdateTime \/ Update \/ DetermineActions
    \/ CorrectTime \/ PerformStep \/ BeaconUpdate \/ SaveState \/ SkipAction

-----------------------------------------------------------------------------
(* Ground, time and resets.                                                *)

SetAntennaDeploymentMask(value) ==
    /\ Use("mask")
    /\ disabled' = value
    /\ UNCHANGED <<time, stateTime, lastMissionTime, saved, deployed, task,
                   beacon, loopPc, runnable, hardware, history>>

Tick ==
    /\ loopPc = "Idle"
    /\ stateTime = time
    /\ time < MaxTime
    /\ time' = time + 1
    /\ burning' = [c \in Channels |-> IF burning[c] > 0 THEN burning[c] - 1 ELSE 0]
    /\ forward' = [c \in Channels |-> AtMost(burning'[c], forward[c])]
    /\ UNCHANGED <<stateTime, persistent, saved, deployed, task, beacon, loopPc,
                   runnable, power, history, used>>

Reset(powerCycled) ==
    /\ time <= LatestReset
    /\ Use("reset")
    /\ time' = saved.time /\ stateTime' = 0
    /\ disabled' = saved.disabled
    /\ lastMissionTime' = saved.time
    /\ deployed' = FALSE
    /\ step' = 0 /\ nextStepAt' = 0 /\ retryCounter' = StepRetries
    /\ beacon' = FALSE
    /\ loopPc' = "Idle" /\ runnable' = {}
    /\ IF powerCycled THEN /\ power' = [c \in Channels |-> FALSE]
                           /\ burning' = [c \in Channels |-> 0]
                           /\ forward' = [c \in Channels |-> 0]
       ELSE UNCHANGED hardware
    /\ skipped' = FALSE
    /\ UNCHANGED <<saved, cutShort>>

Next ==
    \/ MissionLoop
    \/ \E value \in BOOLEAN : SetAntennaDeploymentMask(value)
    \/ Tick
    \/ \E powerCycled \in PowerCycledResets : Reset(powerCycled)

Spec == Init /\ [][Next]_vars

\* The mission loop runs on, and time passes whenever it rests.
FairSpec == Spec /\ WF_vars(MissionLoop) /\ SF_vars(Tick)

-----------------------------------------------------------------------------
(* Properties.                                                             *)

\* No step is left behind without its command carried out: a step is given up
\* only after StepRetries failed commands, so that fewer of them never cost an
\* antenna, wherever they fall (antenna.cpp:139-148).
NothingSkipped == skipped => used["failure"] >= StepRetries

\* Every burn lasts its burn time before the controller is disarmed or
\* switched off, less the minutes by which corrections put mission time forward
\* while it burned: the waits of the table are counted in mission time, and
\* AntennaTask is not told of a correction (antenna.cpp:43-61, 147;
\* mission/time/time.cpp).
BurnNotCut == ~cutShort

\* After a deployment without a step given up neither controller stays powered,
\* although the sequence may have been suspended, repeated or restarted in
\* between (antenna.cpp:64-69, 258-277).
ControllersOffAtEnd ==
    step = StepCount /\ ~skipped => \A c \in Channels : ~power[c]

\* The beacon is switched on in the end, and again after each reset, whatever
\* commands fail and whether the deployment was disabled or not: AntennaState
\* gates it (antenna.cpp:150-153, 170-173; BeaconUpdate.cpp:27-38).
BeaconEventually == <>[]beacon

\* Every burn of the table comes to its end, but for what corrections forward
\* take from it, and every controller is switched off behind it
\* (antenna.cpp:37-81).
BurnsSafe == TypeOK /\ BurnNotCut /\ ControllersOffAtEnd
=============================================================================
