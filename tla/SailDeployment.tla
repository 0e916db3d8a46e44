--------------------------- MODULE SailDeployment ---------------------------
(***************************************************************************)
(* The tasks of the mission loop that burn the thermal knives, and what    *)
(* they share:                                                             *)
(*   - "Sail: Control" / "Sail: Open" (libs/mission/sail/sail.cpp), driven *)
(*     by mission time, by the persistent sail state and by telecommands;  *)
(*   - "SADS: Control" / "SADS: Deploy" (libs/mission/sads/sads.cpp), the  *)
(*     solar array deployment, which burns with the same two knives;       *)
(*   - the time correction and the persistent state save, which run        *)
(*     between them in the dispatch order of src/src/mission.h.            *)
(* Telecommand handlers run in another task of the same priority, so they  *)
(* interleave with every step below.  A step is one access to shared       *)
(* state or one command to the power system.  The 100 ms delays between    *)
(* two commands of a sequence are left out; an iteration of the mission    *)
(* loop is short against one unit of mission time.                         *)
(* The power system (EPS) is external: a command may be lost, and an OBC   *)
(* reset leaves its outputs as they are unless the power is cycled too.    *)
(***************************************************************************)
EXTENDS Integers, Sequences, FiniteSets

CONSTANTS
    OpenTime,       \* mission time at which the sail opens by itself (40 days)
    WaitTime,       \* how long a knife burns (2 minutes)
    CorrectionPeriod, \* TimeTask::TimeCorrectionPeriod
    SetTimes,       \* arguments of the SetTime telecommand
    PowerCycledResets, \* subset of BOOLEAN: whether a reset cuts the EPS outputs
    MaxTime,        \* bounds of the exploration: mission time ...
    LatestReset,    \* ... the mission time of the last reset
    MaxOpens, MaxStops, MaxSads, MaxSetTimes, \* ... telecommands of each kind
    MaxFailures,    \* ... lost commands to the power system
    MaxCorrections, \* ... corrections that move the mission time
    MaxResets       \* ... resets of the OBC

ASSUME TimesAssumption ==
    /\ {OpenTime, MaxTime, LatestReset} \subseteq Nat
    /\ {WaitTime, CorrectionPeriod} \subseteq Nat \ {0}
    /\ SetTimes \subseteq 0..MaxTime
ASSUME BoundsAssumption ==
    /\ {MaxOpens, MaxStops, MaxSads, MaxSetTimes, MaxFailures,
        MaxCorrections, MaxResets} \subseteq Nat
    /\ PowerCycledResets \subseteq BOOLEAN

Tasks == {"sail", "sads"}
Knives == {"Main", "Redundant"}
SailStates == {"Waiting", "Opening", "OpeningStopped"}

Ignore == [do |-> "IgnoreOverheat"]
Wait == [do |-> "Wait"]
On(k) == [do |-> "On", knife |-> k]
Burn(k) == [do |-> "Burn", knife |-> k]
Off(k) == [do |-> "Off", knife |-> k]

\* Faulty variants: every command is given once; the knives burn together.
BurnWith_Once(k) == <<On(k), Burn(k), Wait, Off(k)>>
BurnWith_NotOff(k) ==
    IF k = "Main" THEN <<On(k), On(k), Burn(k), Burn(k), Wait>>
    ELSE <<On(k), On(k), Burn(k), Burn(k), Wait, Off("Main"), Off(k), Off(k)>>

BurnWith(k) == <<On(k), On(k), Burn(k), Burn(k), Wait, Off(k), Off(k)>>

\* OpenSailTask::Steps and DeploySolarArrayTask::Steps.
BothKnives == BurnWith("Main") \o BurnWith("Redundant")
Steps == [sail |-> <<Ignore>> \o BothKnives, sads |-> BothKnives]

VARIABLES
    time,           \* the mission time kept by the time provider
    stateTime,      \* SystemState::Time, its copy of this iteration
    sailState,      \* SailState in the persistent state
    lastMissionTime, \* TimeState::LastMissionTime in the persistent state
    saved,          \* the image of the persistent state in the FRAM
    step,           \* _step: number of steps of the task done so far
    nextStepAfter,  \* _nextStepAfter
    openOnNextMissionLoop, ignoreOverheat, \* fields of OpenSailTask
    deployOnNextMissionLoop, isDeploying,  \* fields of DeploySolarArrayTask
    power,          \* EPS: whether the output of a knife is on
    burning,        \* EPS: the loads its burn switches were enabled for
    loopPc, at,     \* where the mission loop is in its iteration, and at
                    \* which action of the dispatch order
    currentState,   \* local of OpenSailTask::Update
    runnable,       \* actions whose condition held in this iteration
    tcArg,          \* {argument} of an OpenSail between its two writes, or {}
    burned,         \* history: time the sail has been burned by a knife
                    \* since the sequence began
    stopped,        \* history: last sail telecommand was an acknowledged stop
    overheatOrder,  \* history: argument of the last OpenSail handled
    used            \* history: how much of each bound is used up

persistent == <<sailState, lastMissionTime>>
eps == <<power, burning>>
sailFlags == <<openOnNextMissionLoop, ignoreOverheat, tcArg>>
sadsFlags == <<deployOnNextMissionLoop, isDeploying>>
sequence == <<step, nextStepAfter>>
loop == <<loopPc, at, currentState, runnable>>
orders == <<stopped, overheatOrder>>
vars == <<time, stateTime, persistent, saved, sequence, sailFlags, sadsFlags,
          eps, loop, burned, orders, used>>

Bounds == [open |-> MaxOpens, stop |-> MaxStops, sads |-> MaxSads,
           setTime |-> MaxSetTimes, failure |-> MaxFailures,
           correction |-> MaxCorrections, reset |-> MaxResets]
Use(what) == /\ used[what] < Bounds[what]
             /\ used' = [used EXCEPT ![what] = @ + 1]

Actions == <<"CorrectTime", "sail", "Save", "sads">>  \* in dispatch order
LoopLabels == {"Idle", "SailGet", "SailExchange", "SailOpen", "SadsUpdate",
               "Determine", "Dispatch"}
Done(t) == step[t] = Len(Steps[t])

TypeOK ==
    /\ {time, stateTime, lastMissionTime} \subseteq 0..MaxTime
    /\ {sailState, currentState} \subseteq SailStates
    /\ saved \in [sail : SailStates, missionTime : 0..MaxTime]
    /\ step \in [Tasks -> 0..Len(Steps["sail"])]
    /\ \A t \in Tasks : step[t] <= Len(Steps[t])
    /\ nextStepAfter \in [Tasks -> Int]
    /\ {openOnNextMissionLoop, ignoreOverheat, deployOnNextMissionLoop,
        isDeploying, stopped, overheatOrder} \subseteq BOOLEAN
    /\ power \in [Knives -> BOOLEAN]
    /\ burning \in [Knives -> SUBSET Tasks]
    /\ loopPc \in LoopLabels
    /\ at \in DOMAIN Actions
    /\ runnable \subseteq {Actions[i] : i \in DOMAIN Actions}
    /\ tcArg \subseteq BOOLEAN
    /\ burned \in [Knives -> 0..WaitTime]
    /\ \A what \in DOMAIN Bounds : used[what] \in 0..Bounds[what]

Init ==
    /\ time = 0 /\ stateTime = 0
    /\ sailState = "Waiting" /\ lastMissionTime = 0
    /\ saved = [sail |-> "Waiting", missionTime |-> 0]
    /\ step = [t \in Tasks |-> 0]
    /\ nextStepAfter = [t \in Tasks |-> 0]
    /\ openOnNextMissionLoop = FALSE /\ ignoreOverheat = TRUE /\ tcArg = {}
    /\ deployOnNextMissionLoop = FALSE /\ isDeploying = FALSE
    /\ power = [k \in Knives |-> FALSE]
    /\ burning = [k \in Knives |-> {}]
    /\ loopPc = "Idle" /\ at = 1
    /\ currentState = "Waiting" /\ runnable = {}
    /\ burned = [k \in Knives |-> 0]
    /\ stopped = FALSE /\ overheatOrder = TRUE
    /\ used = [what \in DOMAIN Bounds |-> 0]

-----------------------------------------------------------------------------
(* The updates of one iteration.                                           *)

Goto(from, to) == loopPc = from /\ loopPc' = to

\* TimeTask::UpdateProc opens the iteration.
UpdateTime ==
    /\ Goto("Idle", "SailGet")
    /\ stateTime' = time
    /\ UNCHANGED <<time, persistent, saved, sequence, sailFlags, sadsFlags, eps,
                   at, currentState, runnable, burned, orders, used>>

SailGet ==
    /\ Goto("SailGet", "SailExchange")
    /\ currentState' = sailState
    /\ UNCHANGED <<time, stateTime, persistent, saved, sequence, sailFlags,
                   sadsFlags, eps, at, runnable, burned, orders, used>>

Opens(state, explicit) ==
    \/ state = "Opening" /\ explicit /\ Done("sail")
    \/ state = "OpeningStopped" /\ explicit
    \/ state = "Waiting" /\ (explicit \/ stateTime >= OpenTime)

SailExchange ==
    /\ Goto("SailExchange", IF Opens(currentState, openOnNextMissionLoop)
                            THEN "SailOpen" ELSE "SadsUpdate")
    /\ openOnNextMissionLoop' = FALSE
    /\ currentState' = "Waiting"  \* dead from here on
    /\ UNCHANGED <<time, stateTime, persistent, saved, sequence, ignoreOverheat,
                   tcArg, sadsFlags, eps, at, runnable, burned, orders, used>>

\* Faulty variant: the sequence goes on where the last one ended.
SailOpen_KeepsStep ==
    /\ Goto("SailOpen", "SadsUpdate")
    /\ sailState' = "Opening"
    /\ burned' = [k \in Knives |-> 0]
    /\ UNCHANGED <<time, stateTime, lastMissionTime, saved, sequence, sailFlags,
                   sadsFlags, eps, at, currentState, runnable, orders, used>>

SailOpen ==
    /\ Goto("SailOpen", "SadsUpdate")
    /\ sailState' = "Opening"
    /\ step' = [step EXCEPT !["sail"] = 0]
    /\ nextStepAfter' = [nextStepAfter EXCEPT !["sail"] = 0]
    /\ burned' = [k \in Knives |-> 0]
    /\ UNCHANGED <<time, stateTime, lastMissionTime, saved, sailFlags,
                   sadsFlags, eps, at, currentState, runnable, orders, used>>

SadsUpdate ==
    LET deploying == isDeploying /\ ~Done("sads")
        start == deployOnNextMissionLoop /\ ~deploying
    IN  /\ Goto("SadsUpdate", "Determine")
        /\ deployOnNextMissionLoop' = FALSE
        /\ isDeploying' = (deploying \/ start)
        /\ step' = IF start THEN [step EXCEPT !["sads"] = 0] ELSE step
        /\ nextStepAfter' = IF start THEN [nextStepAfter EXCEPT !["sads"] = 0]
                            ELSE nextStepAfter
        /\ UNCHANGED <<time, stateTime, persistent, saved, sailFlags, eps, at,
                       currentState, runnable, burned, orders, used>>

-----------------------------------------------------------------------------
(* Conditions and actions.  All conditions are evaluated before the first  *)
(* action is dispatched.  The persistent state is saved every time: the    *)
(* condition is that it was modified, and the update of the task           *)
(* SaveErrorCountersConfig modifies it in each iteration (mission/fdir).   *)

Due(t) == stateTime >= nextStepAfter[t] /\ ~Done(t)

Condition(a) ==
    CASE a = "CorrectTime" -> stateTime - lastMissionTime >= CorrectionPeriod
      [] a = "sail" -> sailState = "Opening" /\ Due("sail")
      [] a = "Save" -> TRUE
      [] a = "sads" -> isDeploying /\ Due("sads")

\* Faulty variant: the list is left one turn too late.
Advance_PastEnd(to) ==
    IF at > Len(Actions) THEN loopPc' = to /\ at' = 1
    ELSE at' = at + 1 /\ UNCHANGED loopPc

\* On to the next action of the list, or from its end to label `to`.
Advance(to) ==
    IF at = Len(Actions) THEN loopPc' = to /\ at' = 1
    ELSE at' = at + 1 /\ UNCHANGED loopPc

EvaluateCondition ==
    /\ loopPc = "Determine"
    /\ runnable' = IF Condition(Actions[at]) THEN runnable \cup {Actions[at]}
                   ELSE runnable
    /\ Advance("Dispatch")
    /\ UNCHANGED <<time, stateTime, persistent, saved, sequence, sailFlags,
                   sadsFlags, eps, currentState, burned, orders, used>>

Dispatched(a) == loopPc = "Dispatch" /\ Actions[at] = a /\ a \in runnable
ActionOver(a) == Advance("Idle") /\ runnable' = runnable \ {a}

SkipAction ==
    /\ loopPc = "Dispatch"
    /\ Actions[at] \notin runnable
    /\ Advance("Idle")
    /\ UNCHANGED <<time, stateTime, persistent, saved, sequence, sailFlags,
                   sadsFlags, eps, currentState, runnable, burned, orders, used>>

\* Faulty variant: the tasks are not told that mission time changed.
NotifyTimeChanged_Forgotten(correction) == UNCHANGED nextStepAfter

\* MissionLoop::NotifyTimeChanged: TimeChanged of both tasks.
NotifyTimeChanged(correction) ==
    nextStepAfter' = [t \in Tasks |-> nextStepAfter[t] + correction]

\* The value of the correction is any that PerformTimeCorrection can return:
\* not before the last synchronization, not far off.
CorrectTime ==
    /\ Dispatched("CorrectTime")
    /\ \E correction \in -1..1 :
          /\ IF correction = 0 THEN UNCHANGED used
             ELSE /\ Use("correction")
                  /\ time + correction \in lastMissionTime..MaxTime
          /\ time' = time + correction
          /\ stateTime' = time'
          /\ lastMissionTime' = time'
          /\ NotifyTimeChanged(correction)
    /\ ActionOver("CorrectTime")
    /\ UNCHANGED <<sailState, saved, step, sailFlags, sadsFlags, eps,
                   currentState, burned, orders>>

\* The external clock cannot be read: only the synchronization time moves.
CorrectTimeFailed ==
    /\ Dispatched("CorrectTime")
    /\ lastMissionTime' = time
    /\ ActionOver("CorrectTime")
    /\ UNCHANGED <<time, stateTime, sailState, saved, sequence, sailFlags,
                   sadsFlags, eps, currentState, burned, orders, used>>

\* The image is captured under the lock of the state; its write is atomic here.
SaveState ==
    /\ Dispatched("Save")
    /\ saved' = [sail |-> sailState, missionTime |-> lastMissionTime]
    /\ ActionOver("Save")
    /\ UNCHANGED <<time, stateTime, sailState, lastMissionTime, sequence,
                   sailFlags, sadsFlags, eps, currentState, burned, orders, used>>

\* What the power system does with a command of task t.
Obeyed(t, command) ==
    CASE command.do = "On" ->
            /\ power' = [power EXCEPT ![command.knife] = TRUE]
            /\ UNCHANGED burning
      [] command.do = "Burn" ->
            /\ burning' = [burning EXCEPT ![command.knife] = @ \cup {t}]
            /\ UNCHANGED power
      [] command.do = "Off" ->
            /\ power' = [power EXCEPT ![command.knife] = FALSE]
            /\ burning' = [burning EXCEPT ![command.knife] = {}]
      [] OTHER -> UNCHANGED eps

\* One turn of the loop in Action: the next step is taken whatever becomes of
\* its command, and the loop ends behind a wait or the last step.
PerformStep(t) ==
    LET command == Steps[t][step[t] + 1] IN
    /\ Dispatched(t)
    /\ step' = [step EXCEPT ![t] = @ + 1]
    /\ nextStepAfter' =
          [nextStepAfter EXCEPT
             ![t] = stateTime + IF command = Wait THEN WaitTime ELSE 0]
    /\ \/ Obeyed(t, command) /\ UNCHANGED used
       \/ command # Wait /\ Use("failure") /\ UNCHANGED eps
    /\ IF command = Wait \/ Done(t)' THEN ActionOver(t)
       ELSE UNCHANGED <<loopPc, at, runnable>>
    /\ UNCHANGED <<time, stateTime, persistent, saved, sailFlags, sadsFlags,
                   currentState, burned, orders>>

MissionLoop ==
    \/ UpdateTime \/ SailGet \/ SailExchange \/ SailOpen \/ SadsUpdate
    \/ EvaluateCondition \/ SkipAction
    \/ CorrectTime \/ CorrectTimeFailed \/ SaveState
    \/ \E t \in Tasks : PerformStep(t)

-----------------------------------------------------------------------------
(* Telecommands, experiments, the passage of time and resets.              *)

\* OpenSail(ignoreOverheat) writes two atomics one after the other.
OpenSail(argument) ==
    /\ tcArg = {}
    /\ Use("open")
    /\ openOnNextMissionLoop' = TRUE
    /\ tcArg' = {argument}
    /\ overheatOrder' = argument
    /\ stopped' = FALSE
    /\ UNCHANGED <<time, stateTime, persistent, saved, sequence, ignoreOverheat,
                   sadsFlags, eps, loop, burned>>

OpenSailOverheat ==
    /\ ignoreOverheat' \in tcArg
    /\ tcArg' = {}
    /\ UNCHANGED <<time, stateTime, persistent, saved, sequence,
                   openOnNextMissionLoop, sadsFlags, eps, loop, burned, orders,
                   used>>

StopSailDeployment ==
    /\ tcArg = {}
    /\ Use("stop")
    /\ sailState' = "OpeningStopped"
    /\ stopped' = TRUE
    /\ UNCHANGED <<time, stateTime, lastMissionTime, saved, sequence, sailFlags,
                   sadsFlags, eps, loop, burned, overheatOrder>>

\* SetTimeTelecommand holds the lock CorrectTime takes.
SetTime(target) ==
    /\ tcArg = {}
    /\ Use("setTime")
    /\ time' = target
    /\ lastMissionTime' = target
    /\ UNCHANGED <<stateTime, sailState, saved, sequence, sailFlags, sadsFlags,
                   eps, loop, burned, orders>>

\* Called by the SADS experiment.
DeploySolarArray ==
    /\ Use("sads")
    /\ deployOnNextMissionLoop' = TRUE
    /\ UNCHANGED <<time, stateTime, persistent, saved, sequence, sailFlags,
                   isDeploying, eps, loop, burned, orders>>

\* The period of the mission loop is shorter than a unit of time: at least one
\* iteration runs between two ticks.
Tick ==
    /\ loopPc = "Idle"
    /\ stateTime = time
    /\ time < MaxTime
    /\ time' = time + 1
    /\ burned' = [k \in Knives |->
                    IF power[k] /\ "sail" \in burning[k] /\ burned[k] < WaitTime
                    THEN burned[k] + 1 ELSE burned[k]]
    /\ UNCHANGED <<stateTime, persistent, saved, sequence, sailFlags, sadsFlags,
                   eps, loop, orders, used>>

\* A reset of the OBC: the tasks start anew on the saved persistent state.
Reset(powerCycled) ==
    /\ time <= LatestReset
    /\ Use("reset")
    /\ time' = saved.missionTime /\ stateTime' = 0
    /\ sailState' = saved.sail
    /\ lastMissionTime' = saved.missionTime
    /\ step' = [t \in Tasks |-> 0]
    /\ nextStepAfter' = [t \in Tasks |-> 0]
    /\ openOnNextMissionLoop' = FALSE /\ ignoreOverheat' = TRUE /\ tcArg' = {}
    /\ deployOnNextMissionLoop' = FALSE /\ isDeploying' = FALSE
    /\ loopPc' = "Idle" /\ at' = 1 /\ currentState' = "Waiting" /\ runnable' = {}
    /\ IF powerCycled THEN /\ power' = [k \in Knives |-> FALSE]
                           /\ burning' = [k \in Knives |-> {}]
       ELSE UNCHANGED eps
    /\ burned' = [k \in Knives |-> 0]
    /\ overheatOrder' = TRUE
    /\ UNCHANGED <<saved, stopped>>

Ground ==
    \/ \E argument \in BOOLEAN : OpenSail(argument)
    \/ OpenSailOverheat \/ StopSailDeployment
    \/ \E target \in SetTimes : SetTime(target)

Next ==
    \/ MissionLoop
    \/ Ground
    \/ DeploySolarArray
    \/ Tick
    \/ \E powerCycled \in PowerCycledResets : Reset(powerCycled)

Spec == Init /\ [][Next]_vars

\* The mission loop waits a period between two iterations, so it runs on and
\* time passes again and again while it is idle (a tick may find the loop
\* busy, hence strong fairness).
FairSpec == Spec /\ WF_vars(MissionLoop) /\ SF_vars(Tick)

-----------------------------------------------------------------------------
(* Safety.                                                                 *)

\* When the sequence switches a knife off, that knife has burned the sail for
\* the whole wait, whatever corrections of mission time, restarts and
\* re-opened sequences came between, and although one command to the power
\* system may be lost and no result is looked at (sail.cpp:9-40, 170-190,
\* 240-243).
FullBurn ==
    \A k \in Knives :
        (\E i \in 1..step["sail"] : Steps["sail"][i] = Off(k))
            => burned[k] = WaitTime

\* The same while no solar array deployment was ordered, whose sequence switches
\* the same knives off (sads.cpp:20-22), and mission time was not set.
FullBurnUnlessShared == used["sads"] = 0 /\ used["setTime"] = 0 => FullBurn

\* With the sail sequence done and no solar array deployment on the way no
\* knife is left powered, however the two sequences interleaved, were stopped,
\* repeated or restarted (sail.cpp:37-39, sads.cpp:34-36, 77-91).
KnivesOffWhenDone ==
    Done("sail") /\ (step["sads"] = 0 \/ Done("sads"))
        => \A k \in Knives : ~power[k]

\* The sail alone, left to run, never draws both knives at once (the burn
\* order of sail.cpp:23-29), even if a reset with power cycle restarts it.
OneKnifeAtATime == ~(power["Main"] /\ power["Redundant"])

\* "... until overrided by telecommand" (sail.hpp:42-43): an acknowledged stop
\* that no later OpenSail revoked leaves the deployment stopped.
StopIsRespected ==
    stopped /\ loopPc = "Idle" => sailState = "OpeningStopped"

(* Action properties.                                                      *)

\* The overheat protection is switched off only if the last OpenSail asked
\* for it (test ShouldNotIgnoreOverheatIfOrderedTo, OpenSailTest.cpp:270).
\* The code does not keep this between the two writes of OpenSail (README,
\* "Observed, not among the runs").
OverheatOrderRespected ==
    [][step["sail"] = 0 /\ step'["sail"] = 1 /\ ignoreOverheat
          => overheatOrder]_vars

(* Liveness.                                                               *)

\* "Mission loop running (so sail will eventually open)" (watchdogs.md:9):
\* nobody has to order the opening, and each knife gets its full burn in spite
\* of a reset, a lost command and corrections of mission time.
SailEventuallyOpens ==
    <>(Done("sail") /\ \A k \in Knives : burned[k] = WaitTime)

\* An OpenSail is never swallowed: it leads to a sequence under way, from
\* every state of the deployment (sail.cpp:95-136).
OpenNotLost ==
    openOnNextMissionLoop ~> (sailState = "Opening" /\ ~Done("sail"))

\* The sail opens, by itself in its time and whenever it is ordered to
\* (sail.cpp:95-136, 190-247).
SailGoesOn == SailEventuallyOpens /\ OpenNotLost

\* The two sequences together on the knives they share: each of the sail's
\* burns is full, and none is left on (sail.cpp:9-40, sads.cpp:9-37).
KnivesSafe == TypeOK /\ FullBurnUnlessShared /\ KnivesOffWhenDone

\* The sail's sequence by itself: one full burn after the other, whatever
\* happens to mission time (sail.cpp:9-40, 240-247).
BurnsInTurn == FullBurn /\ OneKnifeAtATime
=============================================================================
