------------------------ MODULE ExperimentMission_proof -----------------------
(***************************************************************************)
(* Proofs about the mission tasks around the experiment controller, for    *)
(* any codes, requesters, scrubbers, delays and bound on mission time.     *)
(***************************************************************************)
EXTENDS ExperimentMission, ExperimentController_proof

\* Where the mission loop is inside the Experiment component.
Component == {"Kick", "Notify", "SetIterationStarted", "CheckInProgress",
              "CheckRequested", "StartExperiment"}

\* LEOP runs only after run level 3, and nothing is left of it once accepted.
LeopInv ==
    /\ isStartAllowed \/ "LEOP" \in runnable => runlevel3
    /\ loopPc = "LeopAccept" => "LEOP" \in runnable
    /\ leopAccepted =>
          /\ runlevel3 /\ ~isStartAllowed
          /\ loopPc # "LeopAccept"
          /\ "LEOP" \in runnable => loopPc = "PowerCycle"

\* A power cycle is on its way only once its condition saw no experiment.
PowerCycleInv ==
    /\ "PowerCycle" \in runnable /\ current # NoExperiment => startedSince
    /\ loopPc \in {"BootTime", "Scrubbing", "Experiments"}
          => "PowerCycle" \notin runnable

USE DEF Component, BgGoto, LoopGoto, fields, bgVars, reqVars, history, vars,
        missionVars, allVars

\* The controller's steps move the mission loop inside the component only.
LEMMA ControllerKeeps ==
    ControllerStep =>
        /\ UNCHANGED <<isStartAllowed, runlevel3, runnable, leopAccepted>>
        /\ \/ UNCHANGED loopPc
           \/ loopPc \in Component /\ loopPc' \in Component \cup {"Done"}
<1> SUFFICES ASSUME ControllerStep
    PROVE  \/ UNCHANGED loopPc
           \/ loopPc \in Component /\ loopPc' \in Component \cup {"Done"}
  BY DEF ControllerStep
<1>1. CASE BackgroundTask
  BY <1>1 DEF BackgroundTask, BgPop, BgClearAbort, BgSetInProgress,
          BgSetCurrent, BgStart, BgCheckAbort, BgClearIterationStarted,
          BgIteration, BgRequestNotification, BgWait, BgStop, BgClearCurrent,
          BgClearInProgress
<1>2. CASE ExperimentComponent
  BY <1>2 DEF ExperimentComponent, ShouldKickExperiment,
          NotifyLoopIterationStart, SetIterationStarted,
          ShouldStartCheckInProgress, ShouldStartCheckRequested,
          StartExperiment
<1>3. CASE \E r \in Requesters : Request(r) \/ AbortOnce(r)
  BY <1>3 DEF Request, RequestCheck, RequestAccept, AbortOnce, AbortExperiment
<1> QED
  BY <1>1, <1>2, <1>3 DEF ControllerStep

\* After boot LEOP is not allowed to start yet.
LEMMA InitLeop == MissionInit => LeopInv
BY DEF MissionInit, Init, LeopInv

LEMMA LeopStep == LeopInv /\ [MissionNext]_allVars => LeopInv'
<1> SUFFICES ASSUME LeopInv, [MissionNext]_allVars PROVE LeopInv'
  OBVIOUS
<1> USE DEF LeopInv
<1>1. CASE ControllerStep
  BY <1>1, ControllerKeeps
<1>2. CASE InitializeRunlevel3
  BY <1>2 DEF InitializeRunlevel3
<1>3. CASE Tick \/ BeginScrubbing \/ EndScrubbing
  BY <1>3 DEF Tick, BeginScrubbing, EndScrubbing
<1>4. CASE DetermineLeop
  BY <1>4 DEF DetermineLeop, LeopCondition
<1>5. CASE DetermineBootTime \/ DetermineScrubbing
  BY <1>5 DEF DetermineBootTime, DetermineScrubbing
<1>6. CASE DetermineExperiments
  BY <1>6 DEF DetermineExperiments
<1>7. CASE LeopDenied \/ LeopCheck \/ LeopNotRun
  BY <1>7 DEF LeopDenied, LeopCheck, LeopNotRun
<1>8. CASE LeopAccept
  BY <1>8 DEF LeopAccept
<1>9. CASE PowerCycle \/ Reset
  BY <1>9 DEF PowerCycle, Reset, ControllerReset
<1>10. CASE PowerCycleNotRun
  BY <1>10 DEF PowerCycleNotRun
<1>11. CASE UNCHANGED allVars
  BY <1>11
<1> QED
  BY <1>1, <1>2, <1>3, <1>4, <1>5, <1>6, <1>7, <1>8, <1>9, <1>10, <1>11
  DEF MissionNext

\* After boot no power cycle is on its way.
LEMMA InitPowerCycle == MissionInit => PowerCycleInv
BY DEF MissionInit, PowerCycleInv

LEMMA PowerCycleStep ==
    PowerCycleInv /\ [MissionNext]_allVars => PowerCycleInv'
<1> SUFFICES ASSUME PowerCycleInv, [MissionNext]_allVars PROVE PowerCycleInv'
  OBVIOUS
<1> USE DEF PowerCycleInv
<1>1. CASE ControllerStep
  BY <1>1, ControllerKeeps DEF ControllerStep
<1>2. CASE InitializeRunlevel3 \/ Tick \/ BeginScrubbing \/ EndScrubbing
  BY <1>2 DEF InitializeRunlevel3, Tick, BeginScrubbing, EndScrubbing
<1>3. CASE DetermineLeop
  <2>1. "PowerCycle" \notin runnable'
    BY <1>3 DEF DetermineLeop
  <2> QED
    BY <2>1
<1>4. CASE DetermineBootTime \/ DetermineScrubbing
  BY <1>4 DEF DetermineBootTime, DetermineScrubbing
<1>5. CASE DetermineExperiments
  BY <1>5 DEF DetermineExperiments
<1>6. CASE LeopDenied \/ LeopCheck \/ LeopAccept \/ LeopNotRun
  BY <1>6 DEF LeopDenied, LeopCheck, LeopAccept, LeopNotRun
<1>7. CASE PowerCycle \/ Reset
  BY <1>7 DEF PowerCycle, Reset, ControllerReset
<1>8. CASE PowerCycleNotRun
  BY <1>8 DEF PowerCycleNotRun
<1>9. CASE UNCHANGED allVars
  BY <1>9
<1> QED
  BY <1>1, <1>2, <1>3, <1>4, <1>5, <1>6, <1>7, <1>8, <1>9 DEF MissionNext

\* One label of the mission loop leads to the next.
LEMMA MissionTypeStep == MissionTypeOK /\ [MissionNext]_allVars => MissionTypeOK'
<1> SUFFICES ASSUME MissionTypeOK, [MissionNext]_allVars PROVE MissionTypeOK'
  OBVIOUS
<1> USE MissionAssumption, ScrubbersAssumption
    DEF MissionTypeOK, MissionLabels, LoopLabels, MissionAssumption,
        ScrubbersAssumption, Scrubbers, NotScrubbing
<1>1. CASE ControllerStep
  <2>1. startedSince' \in BOOLEAN
    BY <1>1, Zenon DEF ControllerStep
  <2>2. UNCHANGED <<time, bootTime, scrubbing>>
    BY <1>1 DEF ControllerStep
  <2> QED
    BY <1>1, <2>1, <2>2, ControllerKeeps
<1>2. CASE InitializeRunlevel3
  BY <1>2 DEF InitializeRunlevel3
<1>3. CASE Tick \/ BeginScrubbing \/ EndScrubbing
  <2>1. CASE Tick
    BY <1>3, <2>1 DEF Tick
  <2>2. CASE BeginScrubbing
    BY <1>3, <2>2 DEF BeginScrubbing
  <2>3. CASE EndScrubbing
    BY <1>3, <2>3 DEF EndScrubbing
  <2> QED
    BY <1>3, <2>1, <2>2, <2>3
<1>4. CASE DetermineLeop
  BY <1>4 DEF DetermineLeop
<1>5. CASE DetermineBootTime \/ DetermineScrubbing
  BY <1>5 DEF DetermineBootTime, DetermineScrubbing
<1>6. CASE DetermineExperiments
  BY <1>6 DEF DetermineExperiments
<1>7. CASE LeopDenied \/ LeopCheck \/ LeopNotRun
  BY <1>7 DEF LeopDenied, LeopCheck, LeopNotRun
<1>8. CASE LeopAccept
  BY <1>8 DEF LeopAccept
<1>9. CASE PowerCycle \/ Reset
  <2>1. Reset
    BY <1>9 DEF PowerCycle
  <2>2. time' \in 0..MaxTime
    BY <2>1 DEF Reset
  <2>3. loopPc' = "Idle" /\ runnable' = {}
    BY <2>1 DEF Reset, ControllerReset
  <2> QED
    BY <2>1, <2>2, <2>3 DEF Reset
<1>10. CASE PowerCycleNotRun
  BY <1>10 DEF PowerCycleNotRun
<1>11. CASE UNCHANGED allVars
  BY <1>11
<1> QED
  BY <1>1, <1>2, <1>3, <1>4, <1>5, <1>6, <1>7, <1>8, <1>9, <1>10, <1>11
  DEF MissionNext

\* The mission tasks' variables keep their types, for any times and scrubbers.
THEOREM MissionTypeCorrect == MissionSpec => []MissionTypeOK
<1>1. ASSUME MissionInit PROVE MissionTypeOK
  <2>1. loopPc \in MissionLabels /\ time \in 0..MaxTime
    BY <1>1, MissionAssumption DEF MissionInit, Init, MissionLabels, LoopLabels
  <2> QED
    BY <1>1, <2>1 DEF MissionInit, MissionTypeOK, NotScrubbing
<1> QED
  BY <1>1, MissionTypeStep, PTL DEF MissionSpec

\* LEOPTask starts its experiment at most once between two resets, however many
\* iterations its window lasts and whatever the ground aborts
\* (leop.cpp:54-60).
THEOREM LeopStartsOnce == MissionSpec => LeopOncePerBoot
<1> DEFINE Once ==
      loopPc = "LeopAccept" /\ loopPc' = "PowerCycle" => ~leopAccepted
<1>1. MissionSpec => []LeopInv
  BY InitLeop, LeopStep, PTL DEF MissionSpec
<1>2. LeopInv /\ [MissionNext]_allVars => [Once]_allVars
  BY DEF LeopInv
<1>3. MissionSpec => [][Once]_allVars
  BY <1>1, <1>2, PTL DEF MissionSpec
<1> QED
  BY <1>3 DEF LeopOncePerBoot

\* A power cycle interrupts no experiment that was current when the condition
\* of the power cycle looked (power_cycle.cpp:66-76).
THEOREM LongRunningSpared == MissionSpec => OnlyNewExperimentsInterrupted
<1> DEFINE Spared ==
      PowerCycleRuns /\ current # NoExperiment => startedSince
<1>1. MissionSpec => []PowerCycleInv
  BY InitPowerCycle, PowerCycleStep, PTL DEF MissionSpec
<1>2. PowerCycleInv /\ [MissionNext]_allVars => [Spared]_allVars
  BY DEF PowerCycleInv, PowerCycleRuns
<1>3. MissionSpec => [][Spared]_allVars
  BY <1>1, <1>2, PTL DEF MissionSpec
<1> QED
  BY <1>3 DEF OnlyNewExperimentsInterrupted

-----------------------------------------------------------------------------
(* One experiment at a time, with the mission tasks and resets around the  *)
(* controller: the same abstract specification, and the lemmas about the   *)
(* steps of its tasks.                                                     *)

\* Codes are in their places after boot.
LEMMA InitCodes == Init => CodesInPlace
BY DEF Init, CodesInPlace, RequestInv, StartHasRequest, BgLabels

\* The LEOP task puts a code where requests belong, a reset empties the places.
LEMMA MissionCodes == CodesInPlace /\ [MissionNext]_allVars => CodesInPlace'
<1> SUFFICES ASSUME CodesInPlace, [MissionNext]_allVars PROVE CodesInPlace'
  OBVIOUS
<1> USE CodesAssumption DEF CodesInPlace, RequestInv, StartHasRequest
<1>1. CASE ControllerStep
  <2>1. CASE BackgroundTask
    <3> USE <2>1
        DEF BackgroundTask, BgPop, BgClearAbort, BgSetInProgress, BgSetCurrent, BgStart,
              BgCheckAbort, BgClearIterationStarted, BgIteration,
              BgRequestNotification, BgWait, BgStop, BgClearCurrent,
              BgClearInProgress
    <3>1. UNCHANGED <<requested, reqPc, reqExp, loopPc>>
      OBVIOUS
    <3>2. queue' \in {queue, NoExperiment}
      OBVIOUS
    <3>3. bgPc' \in BgLabels
      BY DEF AfterIteration, IterationResults, BgLabels
    <3> QED
      BY <3>1, <3>2, <3>3
  <2>2. CASE ExperimentComponent
    BY <2>2 DEF ExperimentComponent, ShouldKickExperiment,
            NotifyLoopIterationStart, SetIterationStarted,
            ShouldStartCheckInProgress, ShouldStartCheckRequested,
            StartExperiment
  <2>3. ASSUME NEW r \in Requesters, Request(r) \/ AbortOnce(r) PROVE CodesInPlace'
    BY <2>3 DEF Request, RequestAccept, RequestCheck, AbortOnce, AbortExperiment
  <2> QED
    BY <1>1, <2>1, <2>2, <2>3 DEF ControllerStep
<1>2. CASE InitializeRunlevel3 \/ Tick \/ BeginScrubbing \/ EndScrubbing
  BY <1>2 DEF InitializeRunlevel3, Tick, BeginScrubbing, EndScrubbing
<1>3. CASE DetermineLeop \/ DetermineBootTime \/ DetermineScrubbing \/ DetermineExperiments
  BY <1>3 DEF DetermineLeop, DetermineBootTime, DetermineScrubbing, DetermineExperiments
<1>4. CASE LeopDenied \/ LeopCheck \/ LeopNotRun \/ PowerCycleNotRun
  BY <1>4 DEF LeopDenied, LeopCheck, LeopNotRun, PowerCycleNotRun
<1>5. CASE LeopAccept
  BY <1>5, MissionAssumption DEF LeopAccept
<1>6. CASE PowerCycle \/ Reset
  BY <1>6 DEF PowerCycle, Reset, ControllerReset, BgLabels
<1>7. CASE UNCHANGED allVars
  BY <1>7
<1> QED
  BY <1>1, <1>2, <1>3, <1>4, <1>5, <1>6, <1>7 DEF MissionNext

\* LEOP asks like any other requester, a reset forgets everything, the other
\* mission tasks are unseen.
LEMMA MissionIsSerial == CodesInPlace /\ [MissionNext]_allVars => SerialStep
<1> SUFFICES ASSUME CodesInPlace, [MissionNext]_allVars PROVE SerialStep
  OBVIOUS
<1>1. CASE ControllerStep
  <2>1. CASE BackgroundTask
    BY <2>1, BackgroundIsSerial
  <2>2. CASE ExperimentComponent
    BY <2>2, ComponentIsSerial
  <2>3. ASSUME NEW r \in Requesters, Request(r) \/ AbortOnce(r) PROVE SerialStep
    BY <2>3, RequestIsSerial DEF AbortOnce
  <2> QED
    BY <1>1, <2>1, <2>2, <2>3 DEF ControllerStep
<1>2. CASE InitializeRunlevel3 \/ Tick \/ BeginScrubbing \/ EndScrubbing
  BY <1>2, SerialStutter DEF InitializeRunlevel3, Tick, BeginScrubbing, EndScrubbing, Phase
<1>3. CASE DetermineLeop \/ DetermineBootTime \/ DetermineScrubbing \/ DetermineExperiments
  BY <1>3, SerialStutter
  DEF DetermineLeop, DetermineBootTime, DetermineScrubbing, DetermineExperiments, Phase
<1>4. CASE LeopDenied \/ LeopCheck \/ LeopNotRun \/ PowerCycleNotRun
  BY <1>4, SerialStutter DEF LeopDenied, LeopCheck, LeopNotRun, PowerCycleNotRun, Phase
<1>5. CASE LeopAccept
  <2>1. Serial!Accept
    BY <1>5, MissionAssumption, CodesAssumption DEF LeopAccept, Serial!Accept, RunningCode, Phase
  <2> QED
    BY <2>1 DEF SerialStep, Serial!Next
<1>6. CASE PowerCycle \/ Reset
  <2>1. Serial!Restart
    BY <1>6 DEF PowerCycle, Reset, ControllerReset, Serial!Restart, RunningCode, Phase
  <2> QED
    BY <2>1 DEF SerialStep, Serial!Next
<1>7. CASE UNCHANGED allVars
  BY <1>7, SerialStutter DEF Phase
<1> QED
  BY <1>1, <1>2, <1>3, <1>4, <1>5, <1>6, <1>7 DEF MissionNext

\* Experiments run one at a time beside LEOP, power cycles and resets at any
\* moment: none is handed over twice, and none survives a reset
\* (leop.cpp:54-60, power_cycle.cpp:66-76, experiments.cpp:50-186).
THEOREM MissionIsSerialExperiments == MissionSpec => ImplementsSerialExperiments
<1>1. MissionInit => CodesInPlace /\ Serial!Init
  BY InitCodes, InitSerial DEF MissionInit
<1>2. CodesInPlace /\ [MissionNext]_allVars
        => [Serial!Next]_<<requested, queue, RunningCode, Phase, AbortRequest \in events>>
  BY MissionIsSerial, Zenon DEF SerialStep
<1> HIDE DEF allVars
<1> QED
  BY <1>1, <1>2, MissionCodes, PTL
  DEF MissionSpec, ImplementsSerialExperiments, Serial!Spec, Serial!runner
=============================================================================
