--------------------- MODULE ExperimentController_proof ---------------------
(***************************************************************************)
(* Proofs about the experiment controller, for any set of codes, of        *)
(* registered experiments and of requesters.                               *)
(***************************************************************************)
EXTENDS ExperimentController, TLAPS

\* The labels between the two writes of InProgress, and of _currentExperiment.
Running == {"Start", "CheckAbort", "ClearIterationStarted", "Iteration",
            "RequestNotification", "Wait", "Stop", "ClearCurrent"}
InLoop == {"CheckAbort", "ClearIterationStarted", "Iteration",
           "RequestNotification", "Wait", "Stop"}

\* A popped code has an experiment; the fields follow the program counter.
BracketInv ==
    /\ bgPc # "Pop" => bgExp \in Experiments
    /\ InProgress \in events <=> bgPc \in Running \cup {"SetCurrent",
                                                        "ClearInProgress"}
    /\ current # NoExperiment => bgPc \in Running

\* What has been recorded about the experiment that is running.
ReportInv ==
    /\ bgPc \in InLoop => lastStart = "Success"
    /\ bgPc = "Start" => lastIteration = None
    /\ ReportCoherent

\* Nobody but StartExperiment empties the request.
RequestInv ==
    /\ \A r \in Requesters : reqPc[r] = "checked" => reqExp[r] \in Codes
    /\ StartHasRequest

IInv ==
    /\ TypeOK
    /\ BracketInv
    /\ ReportInv
    /\ RequestInv
    /\ NoLostWakeUp
    /\ AbortNotStale

\* The vocabulary of the model: labels, bits and the grouping of variables.
USE DEF InProgress, AbortRequest, MissionLoopIterationStarted,
        MissionLoopNotificationReqested, Events, WakeUpEvents,
        StartResults, IterationResults, None, BgLabels, LoopLabels,
        Running, InLoop, BgGoto, LoopGoto,
        fields, bgVars, reqVars, history, vars

\* Nothing is requested, current or in progress after boot.
LEMMA InitIInv == Init => IInv
BY CodesAssumption
   DEF Init, IInv, TypeOK, BracketInv, ReportInv, RequestInv, ReportCoherent,
       StartHasRequest, NoLostWakeUp, AbortNotStale

\* Types; BgSetCurrent stores a code that BgPop found an experiment for.
LEMMA TypeStep == TypeOK /\ BracketInv /\ [Next]_vars => TypeOK'
<1> SUFFICES ASSUME TypeOK /\ BracketInv, [Next]_vars PROVE TypeOK'
  OBVIOUS
<1> USE CodesAssumption DEF TypeOK, BracketInv
<1>1. CASE BackgroundTask
  <2>1. CASE BgPop
    BY <2>1 DEF BgPop
  <2>2. CASE BgClearAbort
    BY <2>2 DEF BgClearAbort
  <2>3. CASE BgSetInProgress
    BY <2>3 DEF BgSetInProgress
  <2>4. CASE BgSetCurrent
    BY <2>4 DEF BgSetCurrent
  <2>5. CASE BgStart
    BY <2>5 DEF BgStart
  <2>6. CASE BgCheckAbort
    BY <2>6 DEF BgCheckAbort
  <2>7. CASE BgClearIterationStarted
    BY <2>7 DEF BgClearIterationStarted
  <2>8. CASE BgIteration
    BY <2>8 DEF BgIteration, AfterIteration
  <2>9. CASE BgRequestNotification
    BY <2>9 DEF BgRequestNotification
  <2>10. CASE BgWait
    BY <2>10 DEF BgWait
  <2>11. CASE BgStop
    BY <2>11 DEF BgStop
  <2>12. CASE BgClearCurrent
    BY <2>12 DEF BgClearCurrent
  <2>13. CASE BgClearInProgress
    BY <2>13 DEF BgClearInProgress
  <2> QED
    BY <1>1, <2>1, <2>2, <2>3, <2>4, <2>5, <2>6, <2>7,
       <2>8, <2>9, <2>10, <2>11, <2>12, <2>13 DEF BackgroundTask
<1>2. CASE MissionLoop
  <2>1. CASE BeginIteration
    BY <2>1 DEF BeginIteration
  <2>2. CASE ShouldKickExperiment
    BY <2>2 DEF ShouldKickExperiment
  <2>3. CASE NotifyLoopIterationStart
    BY <2>3 DEF NotifyLoopIterationStart
  <2>4. CASE SetIterationStarted
    BY <2>4 DEF SetIterationStarted
  <2>5. CASE ShouldStartCheckInProgress
    BY <2>5 DEF ShouldStartCheckInProgress
  <2>6. CASE ShouldStartCheckRequested
    BY <2>6 DEF ShouldStartCheckRequested
  <2>7. CASE StartExperiment
    BY <2>7 DEF StartExperiment
  <2>8. CASE EndIteration
    BY <2>8 DEF EndIteration
  <2> QED
    BY <1>2, <2>1, <2>2, <2>3, <2>4, <2>5, <2>6, <2>7, <2>8
    DEF MissionLoop, ExperimentComponent
<1>3. ASSUME NEW r \in Requesters, Request(r) \/ AbortExperiment(r)
      PROVE  TypeOK'
  <2>1. ASSUME NEW e \in Codes, RequestCheck(r, e) PROVE TypeOK'
    BY <2>1 DEF RequestCheck
  <2>2. CASE RequestAccept(r)
    BY <2>2 DEF RequestAccept
  <2>3. CASE AbortExperiment(r)
    BY <2>3 DEF AbortExperiment
  <2> QED
    BY <1>3, <2>1, <2>2, <2>3 DEF Request
<1>4. CASE UNCHANGED vars
  BY <1>4
<1> QED
  BY <1>1, <1>2, <1>3, <1>4 DEF Next

\* Only the background task writes InProgress and _currentExperiment.
LEMMA BracketStep == TypeOK /\ BracketInv /\ [Next]_vars => BracketInv'
<1> SUFFICES ASSUME TypeOK /\ BracketInv, [Next]_vars PROVE BracketInv'
  OBVIOUS
<1> USE CodesAssumption DEF TypeOK, BracketInv
<1>1. CASE BackgroundTask
  BY <1>1 DEF BackgroundTask, BgPop, BgClearAbort, BgSetInProgress, BgSetCurrent, BgStart,
          BgCheckAbort, BgClearIterationStarted, BgIteration,
          BgRequestNotification, BgWait, BgStop, BgClearCurrent,
          BgClearInProgress, AfterIteration
<1>2. CASE MissionLoop
  BY <1>2 DEF MissionLoop, ExperimentComponent, BeginIteration, ShouldKickExperiment,
          NotifyLoopIterationStart, SetIterationStarted,
          ShouldStartCheckInProgress, ShouldStartCheckRequested,
          StartExperiment, EndIteration
<1>3. CASE \E r \in Requesters : Request(r) \/ AbortExperiment(r)
  BY <1>3 DEF Request, RequestAccept, RequestCheck, AbortExperiment
<1>4. CASE UNCHANGED vars
  BY <1>4
<1> QED
  BY <1>1, <1>2, <1>3, <1>4 DEF Next

\* The results recorded follow the do-loop.
LEMMA ReportStep == TypeOK /\ ReportInv /\ [Next]_vars => ReportInv'
<1> SUFFICES ASSUME TypeOK /\ ReportInv, [Next]_vars PROVE ReportInv'
  OBVIOUS
<1> USE CodesAssumption DEF TypeOK, ReportInv, ReportCoherent
<1>1. CASE BackgroundTask
  BY <1>1 DEF BackgroundTask, BgPop, BgClearAbort, BgSetInProgress, BgSetCurrent, BgStart,
          BgCheckAbort, BgClearIterationStarted, BgIteration,
          BgRequestNotification, BgWait, BgStop, BgClearCurrent,
          BgClearInProgress, AfterIteration
<1>2. CASE MissionLoop
  BY <1>2 DEF MissionLoop, ExperimentComponent, BeginIteration, ShouldKickExperiment,
          NotifyLoopIterationStart, SetIterationStarted,
          ShouldStartCheckInProgress, ShouldStartCheckRequested,
          StartExperiment, EndIteration
<1>3. CASE \E r \in Requesters : Request(r) \/ AbortExperiment(r)
  BY <1>3 DEF Request, RequestAccept, RequestCheck, AbortExperiment
<1>4. CASE UNCHANGED vars
  BY <1>4
<1> QED
  BY <1>1, <1>2, <1>3, <1>4 DEF Next

\* Between CheckRequested and StartExperiment the request can only be replaced.
LEMMA RequestStep == TypeOK /\ RequestInv /\ [Next]_vars => RequestInv'
<1> SUFFICES ASSUME TypeOK /\ RequestInv, [Next]_vars PROVE RequestInv'
  OBVIOUS
<1> USE CodesAssumption DEF TypeOK, RequestInv, StartHasRequest
<1>1. CASE BackgroundTask
  BY <1>1 DEF BackgroundTask, BgPop, BgClearAbort, BgSetInProgress, BgSetCurrent, BgStart,
          BgCheckAbort, BgClearIterationStarted, BgIteration,
          BgRequestNotification, BgWait, BgStop, BgClearCurrent,
          BgClearInProgress, AfterIteration
<1>2. CASE MissionLoop
  BY <1>2 DEF MissionLoop, ExperimentComponent, BeginIteration, ShouldKickExperiment,
          NotifyLoopIterationStart, SetIterationStarted,
          ShouldStartCheckInProgress, ShouldStartCheckRequested,
          StartExperiment, EndIteration
<1>3. CASE \E r \in Requesters : Request(r) \/ AbortExperiment(r)
  BY <1>3 DEF Request, RequestAccept, RequestCheck, AbortExperiment
<1>4. CASE UNCHANGED vars
  BY <1>4
<1> QED
  BY <1>1, <1>2, <1>3, <1>4 DEF Next

\* The background task clears wake-up bits only while it does not wait.
LEMMA WakeUpStep == TypeOK /\ NoLostWakeUp /\ [Next]_vars => NoLostWakeUp'
<1> SUFFICES ASSUME TypeOK /\ NoLostWakeUp, [Next]_vars PROVE NoLostWakeUp'
  OBVIOUS
<1> USE CodesAssumption DEF TypeOK, NoLostWakeUp
<1>1. CASE BackgroundTask
  BY <1>1 DEF BackgroundTask, BgPop, BgClearAbort, BgSetInProgress, BgSetCurrent, BgStart,
          BgCheckAbort, BgClearIterationStarted, BgIteration,
          BgRequestNotification, BgWait, BgStop, BgClearCurrent,
          BgClearInProgress, AfterIteration
<1>2. CASE MissionLoop
  BY <1>2 DEF MissionLoop, ExperimentComponent, BeginIteration, ShouldKickExperiment,
          NotifyLoopIterationStart, SetIterationStarted,
          ShouldStartCheckInProgress, ShouldStartCheckRequested,
          StartExperiment, EndIteration
<1>3. CASE \E r \in Requesters : Request(r) \/ AbortExperiment(r)
  BY <1>3 DEF Request, RequestAccept, RequestCheck, AbortExperiment
<1>4. CASE UNCHANGED vars
  BY <1>4
<1> QED
  BY <1>1, <1>2, <1>3, <1>4 DEF Next

\* BgClearAbort removes what was set before the experiment was set up.
LEMMA AbortStep == TypeOK /\ AbortNotStale /\ [Next]_vars => AbortNotStale'
<1> SUFFICES ASSUME TypeOK /\ AbortNotStale, [Next]_vars PROVE AbortNotStale'
  OBVIOUS
<1> USE CodesAssumption DEF TypeOK, AbortNotStale
<1>1. CASE BackgroundTask
  BY <1>1 DEF BackgroundTask, BgPop, BgClearAbort, BgSetInProgress, BgSetCurrent, BgStart,
          BgCheckAbort, BgClearIterationStarted, BgIteration,
          BgRequestNotification, BgWait, BgStop, BgClearCurrent,
          BgClearInProgress, AfterIteration
<1>2. CASE MissionLoop
  BY <1>2 DEF MissionLoop, ExperimentComponent, BeginIteration, ShouldKickExperiment,
          NotifyLoopIterationStart, SetIterationStarted,
          ShouldStartCheckInProgress, ShouldStartCheckRequested,
          StartExperiment, EndIteration
<1>3. CASE \E r \in Requesters : Request(r) \/ AbortExperiment(r)
  BY <1>3 DEF Request, RequestAccept, RequestCheck, AbortExperiment
<1>4. CASE UNCHANGED vars
  BY <1>4
<1> QED
  BY <1>1, <1>2, <1>3, <1>4 DEF Next

THEOREM Invariance == Spec => []IInv
<1>1. IInv /\ [Next]_vars => IInv'
  BY TypeStep, BracketStep, ReportStep, RequestStep, WakeUpStep, AbortStep
  DEF IInv
<1> QED
  BY InitIInv, <1>1, PTL DEF Spec

\* Every variable keeps its type.
THEOREM TypeCorrect == Spec => []TypeOK
<1>1. IInv => TypeOK
  BY DEF IInv
<1> QED
  BY Invariance, <1>1, PTL

\* An experiment shown as current always has the InProgress bit set.
THEOREM CurrentIsInProgress == Spec => []CurrentImpliesInProgress
<1>1. IInv => CurrentImpliesInProgress
  BY DEF IInv, BracketInv, CurrentImpliesInProgress
<1> QED
  BY Invariance, <1>1, PTL

\* The snapshot's results belong to one experiment.
THEOREM ReportIsCoherent == Spec => []ReportCoherent
<1>1. IInv => ReportCoherent
  BY DEF IInv, ReportInv
<1> QED
  BY Invariance, <1>1, PTL

\* StartExperiment never takes the value of an empty option.
THEOREM StartAlwaysHasRequest == Spec => []StartHasRequest
<1>1. IInv => StartHasRequest
  BY DEF IInv, RequestInv
<1> QED
  BY Invariance, <1>1, PTL

\* The wake-up of a waiting experiment is never lost.
THEOREM WakeUpNeverLost == Spec => []NoLostWakeUp
<1>1. IInv => NoLostWakeUp
  BY DEF IInv
<1> QED
  BY Invariance, <1>1, PTL

\* An abort never reaches an experiment set up after it.
THEOREM AbortIsNeverStale == Spec => []AbortNotStale
<1>1. IInv => AbortNotStale
  BY DEF IInv
<1> QED
  BY Invariance, <1>1, PTL

\* The flags the mission loop and requests look at and the fields the power
\* cycle task and telemetry look at agree at every moment
\* (experiments.cpp:31-41, 58-94, 159-186).
THEOREM ControllerIsCoherent == Spec => []ControllerCoherent
BY TypeCorrect, CurrentIsInProgress, ReportIsCoherent, StartAlwaysHasRequest,
   PTL DEF ControllerCoherent

-----------------------------------------------------------------------------
(* Without aborts, "wait for the next cycle" means what it says.  An abort *)
(* breaks the argument: it leaves MissionLoopNotificationReqested set when *)
(* the background task is not waiting any more, against the second clause. *)

CycleInv ==
    ~aborted =>
      /\ AbortRequest \notin events
      /\ MissionLoopNotificationReqested \in events
            => bgPc = "Wait" /\ MissionLoopIterationStarted \notin events
      /\ loopPc = "SetIterationStarted"
            => /\ bgPc = "Wait" /\ cycleReached
               /\ MissionLoopNotificationReqested \notin events
               /\ MissionLoopIterationStarted \notin events
      /\ MissionLoopIterationStarted \in events
            => bgPc \notin {"Iteration", "RequestNotification"}
      /\ MissionLoopIterationStarted \in events /\ bgPc = "Wait"
            => cycleReached
      /\ lastIteration = "WaitForNextCycle"
            /\ bgPc \in {"CheckAbort", "ClearIterationStarted"}
            => cycleReached

\* No bit of the event group is set after boot.
LEMMA InitCycleInv == Init => CycleInv
BY DEF Init, CycleInv

\* Each clause is handed on: request, notification, wake-up, next iteration.
LEMMA CycleStep ==
    ASSUME TypeOK, ReportInv, CycleInv, [Next]_vars
    PROVE  CycleInv'
<1> USE DEF CycleInv, ReportInv, TypeOK
<1>1. CASE BackgroundTask
  <2>1. CASE BgPop
    BY <2>1 DEF BgPop
  <2>2. CASE BgClearAbort
    BY <2>2 DEF BgClearAbort
  <2>3. CASE BgSetInProgress
    BY <2>3 DEF BgSetInProgress
  <2>4. CASE BgSetCurrent
    BY <2>4 DEF BgSetCurrent
  <2>5. CASE BgStart
    BY <2>5 DEF BgStart
  <2>6. CASE BgCheckAbort
    BY <2>6 DEF BgCheckAbort
  <2>7. CASE BgClearIterationStarted
    BY <2>7 DEF BgClearIterationStarted
  <2>8. CASE BgIteration
    BY <2>8 DEF BgIteration, AfterIteration
  <2>9. CASE BgRequestNotification
    BY <2>9 DEF BgRequestNotification
  <2>10. CASE BgWait
    BY <2>10 DEF BgWait
  <2>11. CASE BgStop
    BY <2>11 DEF BgStop
  <2>12. CASE BgClearCurrent
    BY <2>12 DEF BgClearCurrent
  <2>13. CASE BgClearInProgress
    BY <2>13 DEF BgClearInProgress
  <2> QED
    BY <1>1, <2>1, <2>2, <2>3, <2>4, <2>5, <2>6, <2>7,
       <2>8, <2>9, <2>10, <2>11, <2>12, <2>13 DEF BackgroundTask
<1>2. CASE MissionLoop
  <2>1. CASE BeginIteration
    BY <2>1 DEF BeginIteration
  <2>2. CASE ShouldKickExperiment
    BY <2>2 DEF ShouldKickExperiment
  <2>3. CASE NotifyLoopIterationStart
    BY <2>3 DEF NotifyLoopIterationStart
  <2>4. CASE SetIterationStarted
    BY <2>4 DEF SetIterationStarted
  <2>5. CASE ShouldStartCheckInProgress
    BY <2>5 DEF ShouldStartCheckInProgress
  <2>6. CASE ShouldStartCheckRequested
    BY <2>6 DEF ShouldStartCheckRequested
  <2>7. CASE StartExperiment
    BY <2>7 DEF StartExperiment
  <2>8. CASE EndIteration
    BY <2>8 DEF EndIteration
  <2> QED
    BY <1>2, <2>1, <2>2, <2>3, <2>4, <2>5, <2>6, <2>7, <2>8
    DEF MissionLoop, ExperimentComponent
<1>3. CASE \E r \in Requesters : Request(r) \/ AbortExperiment(r)
  BY <1>3 DEF Request, RequestAccept, RequestCheck, AbortExperiment
<1>4. CASE UNCHANGED vars
  BY <1>4
<1> QED
  BY <1>1, <1>2, <1>3, <1>4 DEF Next

\* After WaitForNextCycle the next iteration waits for the mission loop, as long
\* as no experiment was aborted.
THEOREM CycleRespected == Spec => NextCycleRespectedUnlessAborted
<1> DEFINE Respected ==
      bgPc = "ClearIterationStarted" /\ bgPc' = "Iteration"
        /\ lastIteration = "WaitForNextCycle" /\ ~aborted => cycleReached
<1>1. Spec => []CycleInv
  <2>1. IInv /\ CycleInv /\ [Next]_vars => CycleInv'
    BY CycleStep DEF IInv
  <2> QED
    BY Invariance, InitCycleInv, <2>1, PTL DEF Spec
<1>2. CycleInv /\ [Next]_vars => [Respected]_vars
  BY DEF CycleInv
<1> QED
  BY <1>1, <1>2, PTL DEF Spec, NextCycleRespectedUnlessAborted

-----------------------------------------------------------------------------
(* One experiment at a time: the controller implements SerialExperiments.  *)
(* The lemmas are about the steps of the tasks, whoever composes them.     *)

\* Codes are where codes belong, and a request is there when it is handed over.
CodesInPlace ==
    /\ requested \in Codes \cup {NoExperiment}
    /\ queue \in Codes \cup {NoExperiment}
    /\ bgPc \in BgLabels
    /\ reqPc \in [Requesters -> {"idle", "checked"}]
    /\ reqExp \in [Requesters -> Codes \cup {NoExperiment}]
    /\ RequestInv

SerialStep == [Serial!Next]_<<requested, queue, RunningCode, Phase, AbortRequest \in events>>

\* A step that leaves alone what SerialExperiments sees.
LEMMA SerialStutter ==
    ASSUME UNCHANGED <<requested, queue, bgExp>>, Phase' = Phase,
           bgPc = "Pop" <=> bgPc' = "Pop",
           (AbortRequest \in events)' <=> AbortRequest \in events
    PROVE  SerialStep
BY DEF SerialStep, RunningCode

\* A step that only moves the experiment on.
LEMMA SerialAdvance ==
    ASSUME UNCHANGED <<requested, queue, bgExp>>,
           bgPc # "Pop", bgPc' # "Pop",
           (AbortRequest \in events)' <=> AbortRequest \in events,
           \/ Phase = "begun" /\ Phase' = "between"
           \/ Phase = "begun" /\ Phase' = "over"
           \/ Phase = "between" /\ Phase' = "turn" /\ AbortRequest \notin events
           \/ Phase = "turn" /\ Phase' = "between"
           \/ Phase = "turn" /\ Phase' = "ending"
           \/ Phase = "ending" /\ Phase' = "over"
    PROVE  SerialStep
<1>1. Serial!Advance
  BY DEF Serial!Advance, Serial!PhaseGoes, RunningCode
<1> QED
  BY <1>1 DEF SerialStep, Serial!Next

\* The background task: the code is taken, begun, advanced and put aside.
LEMMA BackgroundIsSerial ==
    ASSUME CodesInPlace, BackgroundTask PROVE SerialStep
<1>1. CASE BgPop
  <2>1. CASE queue \in Experiments
    <3>1. Serial!Take
      BY <1>1, <2>1 DEF BgPop, Serial!Take, Serial!PhaseGoes, RunningCode, Phase
    <3> QED
      BY <3>1 DEF SerialStep, Serial!Next
  <2>2. CASE queue \notin Experiments
    <3>1. Serial!Drop
      BY <1>1, <2>2 DEF BgPop, Serial!Drop, RunningCode, Phase, CodesInPlace
    <3> QED
      BY <3>1 DEF SerialStep, Serial!Next
  <2> QED
    BY <2>1, <2>2
<1>2. CASE BgClearAbort
  <2>1. Serial!Begin
    BY <1>2 DEF BgClearAbort, Serial!Begin, Serial!PhaseGoes, RunningCode, Phase
  <2> QED
    BY <2>1 DEF SerialStep, Serial!Next
<1>3. CASE BgSetInProgress
  BY <1>3, SerialStutter DEF BgSetInProgress, Phase
<1>4. CASE BgSetCurrent
  BY <1>4, SerialStutter DEF BgSetCurrent, Phase
<1>5. CASE BgStart
  BY <1>5, SerialAdvance DEF BgStart, Phase
<1>6. CASE BgCheckAbort
  <2>1. CASE AbortRequest \in events
    <3>1. Serial!CutShort
      BY <1>6, <2>1 DEF BgCheckAbort, Serial!CutShort, Serial!PhaseGoes, RunningCode, Phase
    <3> QED
      BY <3>1 DEF SerialStep, Serial!Next
  <2>2. CASE AbortRequest \notin events
    BY <1>6, <2>2, SerialAdvance DEF BgCheckAbort, Phase
  <2> QED
    BY <2>1, <2>2
<1>7. CASE BgClearIterationStarted
  BY <1>7, SerialStutter DEF BgClearIterationStarted, Phase
<1>8. CASE BgIteration
  BY <1>8, SerialAdvance DEF BgIteration, AfterIteration, Phase
<1>9. CASE BgRequestNotification
  BY <1>9, SerialStutter DEF BgRequestNotification, Phase
<1>10. CASE BgWait
  BY <1>10, SerialStutter DEF BgWait, Phase
<1>11. CASE BgStop
  BY <1>11, SerialAdvance DEF BgStop, Phase
<1>12. CASE BgClearCurrent
  BY <1>12, SerialStutter DEF BgClearCurrent, Phase
<1>13. CASE BgClearInProgress
  <2>1. Serial!End
    BY <1>13 DEF BgClearInProgress, Serial!End, Serial!PhaseGoes, RunningCode, Phase
  <2> QED
    BY <2>1 DEF SerialStep, Serial!Next
<1> QED
  BY <1>1, <1>2, <1>3, <1>4, <1>5, <1>6, <1>7, <1>8, <1>9, <1>10, <1>11, <1>12, <1>13
  DEF BackgroundTask

\* The mission loop: StartExperiment hands the request over, the rest is unseen.
LEMMA ComponentIsSerial ==
    ASSUME CodesInPlace, ExperimentComponent PROVE SerialStep
<1>1. CASE StartExperiment
  <2>1. requested # NoExperiment
    BY <1>1 DEF StartExperiment, CodesInPlace, RequestInv, StartHasRequest
  <2>2. Serial!HandOver
    BY <1>1, <2>1 DEF StartExperiment, Serial!HandOver, RunningCode, Phase
  <2> QED
    BY <2>2 DEF SerialStep, Serial!Next
<1>2. CASE ShouldKickExperiment \/ NotifyLoopIterationStart \/ SetIterationStarted
           \/ ShouldStartCheckInProgress \/ ShouldStartCheckRequested
  BY <1>2, SerialStutter
  DEF ShouldKickExperiment, NotifyLoopIterationStart, SetIterationStarted,
      ShouldStartCheckInProgress, ShouldStartCheckRequested, Phase
<1> QED
  BY <1>1, <1>2 DEF ExperimentComponent

\* Requests and aborts are accepted at any time.
LEMMA RequestIsSerial ==
    ASSUME CodesInPlace, NEW r \in Requesters, Request(r) \/ AbortExperiment(r)
    PROVE  SerialStep
<1>1. CASE RequestAccept(r)
  <2>1. Serial!Accept
    BY <1>1 DEF RequestAccept, CodesInPlace, RequestInv, Serial!Accept, RunningCode, Phase
  <2> QED
    BY <2>1 DEF SerialStep, Serial!Next
<1>2. ASSUME NEW e \in Codes, RequestCheck(r, e) PROVE SerialStep
  BY <1>2, SerialStutter DEF RequestCheck, Phase
<1>3. CASE AbortExperiment(r)
  <2>1. Serial!Abort
    BY <1>3 DEF AbortExperiment, Serial!Abort, RunningCode, Phase
  <2> QED
    BY <2>1 DEF SerialStep, Serial!Next
<1> QED
  BY <1>1, <1>2, <1>3 DEF Request

\* Nothing is wanted or runs after boot.
LEMMA InitSerial == Init => Serial!Init
BY DEF Init, Serial!Init, RunningCode, Phase

\* Every step of the three kinds of task is a step of SerialExperiments.
LEMMA NextIsSerial == IInv /\ [Next]_vars => SerialStep
<1> SUFFICES ASSUME IInv, [Next]_vars PROVE SerialStep
  OBVIOUS
<1>1. CodesInPlace
  BY DEF IInv, TypeOK, CodesInPlace
<1>2. CASE BackgroundTask
  BY <1>1, <1>2, BackgroundIsSerial
<1>3. CASE MissionLoop
  <2>1. CASE BeginIteration \/ EndIteration
    BY <2>1, SerialStutter DEF BeginIteration, EndIteration, Phase
  <2> QED
    BY <1>1, <1>3, <2>1, ComponentIsSerial DEF MissionLoop
<1>4. CASE \E r \in Requesters : Request(r) \/ AbortExperiment(r)
  BY <1>1, <1>4, RequestIsSerial
<1>5. CASE UNCHANGED vars
  BY <1>5, SerialStutter DEF Phase
<1> QED
  BY <1>2, <1>3, <1>4, <1>5 DEF Next

\* However the tasks interleave, experiments run one at a time: requests are
\* handed over and run at most once, and Stop follows a Start that succeeded.
THEOREM ControllerIsSerial == Spec => ImplementsSerialExperiments
<1>1. IInv /\ [Next]_vars
        => [Serial!Next]_<<requested, queue, RunningCode, Phase, AbortRequest \in events>>
  BY NextIsSerial, Zenon DEF SerialStep
<1> HIDE DEF vars, AbortRequest
<1> QED
  BY <1>1, Invariance, InitSerial, PTL
  DEF Spec, ImplementsSerialExperiments, Serial!Spec, Serial!runner
=============================================================================
