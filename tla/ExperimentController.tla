------------------------ MODULE ExperimentController ------------------------
(***************************************************************************)
(* The experiment controller (libs/experiments/experiments.cpp) with the   *)
(* two kinds of task that drive it:                                        *)
(*   - its own background task, which runs one experiment at a time;       *)
(*   - the mission loop, whose "Experiment" component kicks the running    *)
(*     experiment and starts the requested one                             *)
(*     (libs/mission/experiments/experiments.cpp);                         *)
(*   - requesters: telecommand handlers and the terminal, which request    *)
(*     and abort experiments.                                              *)
(* All of them are preemptive FreeRTOS tasks that talk through an event    *)
(* group, a one-place queue and fields guarded by a mutex.  A step is one  *)
(* access to shared state: an event group call, a queue call or a whole    *)
(* mutex-guarded block.  Start(), Iteration() and Stop() of an experiment  *)
(* are black boxes that may return any of the results experiments return   *)
(* (IterationResult::None is only the value before the first iteration).   *)
(* The iteration counter of the controller only feeds telemetry and is     *)
(* left out.                                                               *)
(***************************************************************************)
EXTENDS FiniteSets

CONSTANTS
    Codes,          \* experiment codes that can be requested
    Experiments,    \* codes for which an experiment object is registered
    NoExperiment,   \* "no value" of the Option<ExperimentCode> fields
    Requesters      \* tasks that call RequestExperiment / AbortExperiment

ASSUME CodesAssumption ==
    /\ Experiments \subseteq Codes
    /\ NoExperiment \notin Codes

\* Bits of the event group.
InProgress == "InProgress"
AbortRequest == "AbortRequest"
MissionLoopIterationStarted == "MissionLoopIterationStarted"
MissionLoopNotificationReqested == "MissionLoopNotificationReqested"
Events == {InProgress, AbortRequest,
           MissionLoopIterationStarted, MissionLoopNotificationReqested}

StartResults == {"Success", "Failure"}
IterationResults ==
    {"Finished", "LoopImmediately", "WaitForNextCycle", "Failure"}
None == "None"

VARIABLES
    events,         \* bits set in the event group
    requested,      \* _requestedExperiment
    current,        \* _currentExperiment
    lastStart,      \* _lastStartResult
    lastIteration,  \* _lastIterationResult
    queue,          \* the one-place queue: its element or NoExperiment
    bgPc,           \* where the background task is
    bgExp,          \* experimentType, the code it popped last
    reqPc,          \* reqPc[r]: where requester r is in RequestExperiment
    reqExp,         \* reqExp[r]: the argument of r's request
    loopPc,         \* where the mission loop is in the Experiment component
    abortSincePop,  \* history: AbortExperiment called since the last Pop
    aborted,        \* history: AbortExperiment called since boot
    cycleReached    \* history: the mission loop came to kick the experiment
                    \* since an iteration returned WaitForNextCycle

fields == <<requested, current, lastStart, lastIteration>>
bgVars == <<bgPc, bgExp>>
reqVars == <<reqPc, reqExp>>
history == <<abortSincePop, aborted, cycleReached>>
vars == <<events, fields, queue, bgVars, reqVars, loopPc, history>>

BgLabels == {"Pop", "ClearAbort", "SetInProgress", "SetCurrent", "Start",
             "CheckAbort", "ClearIterationStarted", "Iteration",
             "RequestNotification", "Wait", "Stop", "ClearCurrent",
             "ClearInProgress"}
LoopLabels == {"Idle", "Kick", "Notify", "SetIterationStarted",
               "CheckInProgress", "CheckRequested", "StartExperiment", "Done"}

TypeOK ==
    /\ events \subseteq Events
    /\ requested \in Codes \cup {NoExperiment}
    /\ current \in Experiments \cup {NoExperiment}
    /\ lastStart \in StartResults \cup {None}
    /\ lastIteration \in IterationResults \cup {None}
    /\ queue \in Codes \cup {NoExperiment}
    /\ bgPc \in BgLabels
    /\ bgExp \in Codes \cup {NoExperiment}
    /\ reqPc \in [Requesters -> {"idle", "checked"}]
    /\ reqExp \in [Requesters -> Codes \cup {NoExperiment}]
    /\ loopPc \in LoopLabels
    /\ {abortSincePop, aborted} \subseteq BOOLEAN
    /\ cycleReached \in BOOLEAN

Init ==
    /\ events = {}
    /\ requested = NoExperiment
    /\ current = NoExperiment
    /\ lastStart = None
    /\ lastIteration = None
    /\ queue = NoExperiment
    /\ bgPc = "Pop"
    /\ bgExp = NoExperiment
    /\ reqPc = [r \in Requesters |-> "idle"]
    /\ reqExp = [r \in Requesters |-> NoExperiment]
    /\ loopPc = "Idle"
    /\ abortSincePop = FALSE /\ aborted = FALSE
    /\ cycleReached = FALSE

-----------------------------------------------------------------------------
(* The background task.                                                    *)

BgGoto(from, to) == bgPc = from /\ bgPc' = to

\* Faulty variant: no experiment object is looked up for the code.
BgPop_Unchecked ==
    /\ queue # NoExperiment
    /\ BgGoto("Pop", "ClearAbort")
    /\ bgExp' = queue
    /\ queue' = NoExperiment
    /\ abortSincePop' = FALSE
    /\ UNCHANGED <<events, fields, reqVars, loopPc, aborted, cycleReached>>

\* Faulty variant: the code is looked at and stays in the queue.
BgPop_LeavesCode ==
    /\ queue # NoExperiment
    /\ BgGoto("Pop", IF queue \in Experiments THEN "ClearAbort" ELSE "Pop")
    /\ bgExp' = queue
    /\ abortSincePop' = FALSE
    /\ UNCHANGED <<events, fields, queue, reqVars, loopPc, aborted, cycleReached>>

\* Takes a code off the queue; one nobody handles is logged and dropped.
BgPop ==
    /\ queue # NoExperiment
    /\ BgGoto("Pop", IF queue \in Experiments THEN "ClearAbort" ELSE "Pop")
    /\ bgExp' = queue
    /\ queue' = NoExperiment
    /\ abortSincePop' = FALSE
    /\ UNCHANGED <<events, fields, reqVars, loopPc, aborted, cycleReached>>

\* Faulty variant: an abort that came too late for the last experiment stays.
BgClearAbort_KeepsRequest ==
    /\ BgGoto("ClearAbort", "SetInProgress")
    /\ UNCHANGED <<events, fields, queue, bgExp, reqVars, loopPc, history>>

BgClearAbort ==
    /\ BgGoto("ClearAbort", "SetInProgress")
    /\ events' = events \ {AbortRequest}
    /\ UNCHANGED <<fields, queue, bgExp, reqVars, loopPc, history>>

BgSetInProgress ==
    /\ BgGoto("SetInProgress", "SetCurrent")
    /\ events' = events \cup {InProgress}
    /\ UNCHANGED <<fields, queue, bgExp, reqVars, loopPc, history>>

\* Faulty variant: the result of the previous experiment is not reset.
BgSetCurrent_KeepsLastIteration ==
    /\ BgGoto("SetCurrent", "Start")
    /\ current' = bgExp
    /\ lastStart' = None
    /\ UNCHANGED <<events, requested, lastIteration, queue, bgExp, reqVars,
                   loopPc, history>>

BgSetCurrent ==
    /\ BgGoto("SetCurrent", "Start")
    /\ current' = bgExp
    /\ lastIteration' = None
    /\ lastStart' = None
    /\ UNCHANGED <<events, requested, queue, bgExp, reqVars, loopPc, history>>

BgStart ==
    \E result \in StartResults :
        /\ BgGoto("Start",
                  IF result = "Success" THEN "CheckAbort" ELSE "ClearCurrent")
        /\ lastStart' = result
        /\ UNCHANGED <<events, requested, current, lastIteration, queue,
                       bgExp, reqVars, loopPc, history>>

\* Faulty variant: the abort path already reports the experiment as over.
BgCheckAbort_ClearsInProgress ==
    /\ BgGoto("CheckAbort", IF AbortRequest \in events
                            THEN "Stop" ELSE "ClearIterationStarted")
    /\ events' = IF AbortRequest \in events
                 THEN events \ {AbortRequest, InProgress} ELSE events
    /\ UNCHANGED <<fields, queue, bgExp, reqVars, loopPc, history>>

\* The top of the do-loop: WaitAny with a zero timeout, clearing the bit.
BgCheckAbort ==
    /\ BgGoto("CheckAbort", IF AbortRequest \in events
                            THEN "Stop" ELSE "ClearIterationStarted")
    /\ events' = events \ {AbortRequest}
    /\ UNCHANGED <<fields, queue, bgExp, reqVars, loopPc, history>>

\* Faulty variant: the notification of the cycle before is left in place.
BgClearIterationStarted_Keeps ==
    /\ BgGoto("ClearIterationStarted", "Iteration")
    /\ UNCHANGED <<events, fields, queue, bgExp, reqVars, loopPc, history>>

BgClearIterationStarted ==
    /\ BgGoto("ClearIterationStarted", "Iteration")
    /\ events' = events \ {MissionLoopIterationStarted}
    /\ UNCHANGED <<fields, queue, bgExp, reqVars, loopPc, history>>

AfterIteration(result) ==
    CASE result \in {"Finished", "Failure"} -> "Stop"
      [] result = "WaitForNextCycle" -> "RequestNotification"
      [] result = "LoopImmediately" -> "CheckAbort"

BgIteration ==
    \E result \in IterationResults :
        /\ BgGoto("Iteration", AfterIteration(result))
        /\ lastIteration' = result
        /\ cycleReached' = (cycleReached /\ result # "WaitForNextCycle")
        /\ UNCHANGED <<events, requested, current, lastStart, queue, bgExp,
                       reqVars, loopPc, abortSincePop, aborted>>

\* Faulty variant: the mission loop is not asked for a notification.
BgRequestNotification_Forgotten ==
    /\ BgGoto("RequestNotification", "Wait")
    /\ UNCHANGED <<events, fields, queue, bgExp, reqVars, loopPc, history>>

BgRequestNotification ==
    /\ BgGoto("RequestNotification", "Wait")
    /\ events' = events \cup {MissionLoopNotificationReqested}
    /\ UNCHANGED <<fields, queue, bgExp, reqVars, loopPc, history>>

\* Faulty variant: an abort does not wake the waiting task.
WakeUpEvents_CycleOnly == {MissionLoopIterationStarted}

WakeUpEvents == {MissionLoopIterationStarted, AbortRequest}

\* WaitAny without clearing: the bits are looked at again by the do-loop.
BgWait ==
    /\ events \cap WakeUpEvents # {}
    /\ BgGoto("Wait", "CheckAbort")
    /\ UNCHANGED <<events, fields, queue, bgExp, reqVars, loopPc, history>>

BgStop ==
    /\ BgGoto("Stop", "ClearCurrent")
    /\ UNCHANGED <<events, fields, queue, bgExp, reqVars, loopPc, history>>

BgClearCurrent ==
    /\ BgGoto("ClearCurrent", "ClearInProgress")
    /\ current' = NoExperiment
    /\ UNCHANGED <<events, requested, lastStart, lastIteration, queue, bgExp,
                   reqVars, loopPc, history>>

\* Faulty variant: the bit is not cleared when the experiment is over.
BgClearInProgress_Forgotten ==
    /\ BgGoto("ClearInProgress", "Pop")
    /\ UNCHANGED <<events, fields, queue, bgExp, reqVars, loopPc, history>>

BgClearInProgress ==
    /\ BgGoto("ClearInProgress", "Pop")
    /\ events' = events \ {InProgress}
    /\ UNCHANGED <<fields, queue, bgExp, reqVars, loopPc, history>>

BackgroundTask ==
    \/ BgPop \/ BgClearAbort \/ BgSetInProgress \/ BgSetCurrent \/ BgStart
    \/ BgCheckAbort \/ BgClearIterationStarted \/ BgIteration
    \/ BgRequestNotification \/ BgWait \/ BgStop
    \/ BgClearCurrent \/ BgClearInProgress

-----------------------------------------------------------------------------
(* RequestExperiment and AbortExperiment, called by the requesters.        *)

\* The unlocked look at the event group.  A call that sees the bit returns
\* false and changes nothing.
RequestCheck(r, e) ==
    /\ reqPc[r] = "idle"
    /\ InProgress \notin events
    /\ reqPc' = [reqPc EXCEPT ![r] = "checked"]
    /\ reqExp' = [reqExp EXCEPT ![r] = e]
    /\ UNCHANGED <<events, fields, queue, bgVars, loopPc, history>>

\* The locked write; the call returns true.
RequestAccept(r) ==
    /\ reqPc[r] = "checked"
    /\ requested' = reqExp[r]
    /\ reqPc' = [reqPc EXCEPT ![r] = "idle"]
    /\ reqExp' = [reqExp EXCEPT ![r] = NoExperiment]
    /\ UNCHANGED <<events, current, lastStart, lastIteration, queue, bgVars,
                   loopPc, history>>

AbortExperiment(r) ==
    /\ reqPc[r] = "idle"
    /\ events' = events \cup {AbortRequest}
    /\ abortSincePop' = TRUE /\ aborted' = TRUE
    /\ UNCHANGED <<fields, queue, bgVars, reqVars, loopPc, cycleReached>>

Request(r) == RequestAccept(r) \/ \E e \in Codes : RequestCheck(r, e)

-----------------------------------------------------------------------------
(* The Experiment component of the mission loop: a composite action whose  *)
(* parts, KickExp and StartExp, each evaluate their condition right before *)
(* they run.                                                               *)

LoopGoto(from, to) == loopPc = from /\ loopPc' = to

BeginIteration ==
    /\ LoopGoto("Idle", "Kick")
    /\ UNCHANGED <<events, fields, queue, bgVars, reqVars, history>>

ShouldKickExperiment ==
    /\ LoopGoto("Kick",
                IF InProgress \in events THEN "Notify" ELSE "CheckInProgress")
    /\ UNCHANGED <<events, fields, queue, bgVars, reqVars, history>>

\* NotifyLoopIterationStart tests and clears the request, then sets the bit.
NotifyLoopIterationStart ==
    /\ LoopGoto("Notify", IF MissionLoopNotificationReqested \in events
                          THEN "SetIterationStarted" ELSE "CheckInProgress")
    /\ events' = events \ {MissionLoopNotificationReqested}
    /\ cycleReached' = TRUE
    /\ UNCHANGED <<fields, queue, bgVars, reqVars, abortSincePop, aborted>>

SetIterationStarted ==
    /\ LoopGoto("SetIterationStarted", "CheckInProgress")
    /\ events' = events \cup {MissionLoopIterationStarted}
    /\ UNCHANGED <<fields, queue, bgVars, reqVars, history>>

ShouldStartCheckInProgress ==
    /\ LoopGoto("CheckInProgress",
                IF InProgress \in events THEN "Done" ELSE "CheckRequested")
    /\ UNCHANGED <<events, fields, queue, bgVars, reqVars, history>>

\* Faulty variant: the experiment is started without looking for a request.
ShouldStartCheckRequested_Skipped ==
    /\ LoopGoto("CheckRequested", "StartExperiment")
    /\ UNCHANGED <<events, fields, queue, bgVars, reqVars, history>>

ShouldStartCheckRequested ==
    /\ LoopGoto("CheckRequested",
                IF requested # NoExperiment THEN "StartExperiment" ELSE "Done")
    /\ UNCHANGED <<events, fields, queue, bgVars, reqVars, history>>

\* Faulty variant: the request is not taken away.
StartExperiment_KeepsRequest ==
    /\ LoopGoto("StartExperiment", "Done")
    /\ queue' = requested
    /\ UNCHANGED <<events, fields, bgVars, reqVars, history>>

StartExperiment ==
    /\ LoopGoto("StartExperiment", "Done")
    /\ queue' = requested
    /\ requested' = NoExperiment
    /\ UNCHANGED <<events, current, lastStart, lastIteration, bgVars, reqVars,
                   history>>

EndIteration ==
    /\ LoopGoto("Done", "Idle")
    /\ UNCHANGED <<events, fields, queue, bgVars, reqVars, history>>

ExperimentComponent ==
    \/ ShouldKickExperiment \/ NotifyLoopIterationStart \/ SetIterationStarted
    \/ ShouldStartCheckInProgress \/ ShouldStartCheckRequested
    \/ StartExperiment

MissionLoop == BeginIteration \/ ExperimentComponent \/ EndIteration

-----------------------------------------------------------------------------
Next ==
    \/ BackgroundTask
    \/ MissionLoop
    \/ \E r \in Requesters : Request(r) \/ AbortExperiment(r)

Spec == Init /\ [][Next]_vars

\* Equal-priority tasks are time-sliced, and the handlers of an experiment
\* return, so a background task that can take a step takes one.
BackgroundFairness == WF_vars(BackgroundTask)

\* The mission loop runs again after every period, unless it is suspended: the
\* properties that need it name this fairness themselves.
MissionFairness == WF_vars(MissionLoop)

FairSpec == Spec /\ BackgroundFairness

-----------------------------------------------------------------------------
(* Safety.                                                                 *)

\* Whoever sees a current experiment in the telemetry snapshot (the power
\* cycle task does) must also see the InProgress bit that RequestExperiment
\* and the mission loop look at, although the two are written by different
\* statements (experiments.cpp:76-80, 88-93).
CurrentImpliesInProgress == current # NoExperiment => InProgress \in events

\* The last results in the snapshot belong to one experiment: there is an
\* iteration result only if that experiment started (experiments.cpp:78-84).
ReportCoherent == lastIteration # None => lastStart = "Success"

\* StartExperiment never dequeues the value of an empty option
\* (experiments.cpp:180-184 only warns): between the mission loop's look at
\* the request and its use nobody takes the request away.
StartHasRequest == loopPc = "StartExperiment" => requested # NoExperiment

\* An experiment waiting for the next cycle is never forgotten: its request
\* is still there, or its wake-up is there or about to be there, although
\* test and set are separate steps on both sides (experiments.cpp:127-151,
\* 190-194).
NoLostWakeUp ==
    bgPc = "Wait" => \/ events \cap WakeUpEvents # {}
                     \/ MissionLoopNotificationReqested \in events
                     \/ loopPc = "SetIterationStarted"

\* Once an experiment is set up, a pending abort was meant for it: the one
\* that arrived too late for the previous experiment is gone
\* (experiments.cpp:75).
AbortNotStale ==
    AbortRequest \in events /\ bgPc \notin {"Pop", "ClearAbort"}
        => abortSincePop

(* Action properties.                                                      *)

\* WaitForNextCycle means "Run next iteration when next mission loop cycle
\* begins" (experiments.h:37): after an iteration that answered so the next one
\* of that experiment begins only after the mission loop came by, as long as no
\* experiment was aborted.  Neither the notification of an earlier cycle nor
\* one that comes while the iteration still runs is taken for the next cycle
\* (experiments.cpp:127, 149-151).
NextCycleRespectedUnlessAborted ==
    [][bgPc = "ClearIterationStarted" /\ bgPc' = "Iteration"
         /\ lastIteration = "WaitForNextCycle" /\ ~aborted
            => cycleReached]_vars

\* "false: Experiment request was denied (other experiment is in progress)"
\* (experiments.h:97): a request is accepted only while none is in progress.
\* The code does not keep this: InProgress may be set between the check and the
\* write (README, "Observed, not among the runs").
DeniedWhileInProgress ==
    [][\A r \in Requesters :
         reqPc[r] = "checked" /\ reqPc'[r] = "idle"
            => InProgress \notin events]_vars

(* The abstract specification.                                             *)

\* How far the experiment is, as SerialExperiments counts.
Phase ==
    CASE bgPc = "Pop" -> "none"
      [] bgPc = "ClearAbort" -> "taken"
      [] bgPc \in {"SetInProgress", "SetCurrent", "Start"} -> "begun"
      [] bgPc \in {"CheckAbort", "RequestNotification", "Wait"} -> "between"
      [] bgPc \in {"ClearIterationStarted", "Iteration"} -> "turn"
      [] bgPc = "Stop" -> "ending"
      [] bgPc \in {"ClearCurrent", "ClearInProgress"} -> "over"

RunningCode == IF bgPc = "Pop" THEN NoExperiment ELSE bgExp

Serial == INSTANCE SerialExperiments
              WITH wanted <- requested, handed <- queue, running <- RunningCode,
                   phase <- Phase, abort <- AbortRequest \in events

\* However the three kinds of task interleave, experiments run one at a time:
\* a request is handed over and run at most once, Stop follows a successful
\* Start once, no iteration begins with an abort pending and no abort is kept
\* for the next experiment (experiments.cpp:50-155, 176-186).
ImplementsSerialExperiments == Serial!Spec

(* Liveness.                                                               *)

\* An abort stops the current experiment with no help from the mission loop,
\* however it loops or waits (experiments.cpp:119, 151).
AbortStops ==
    (AbortRequest \in events /\ current # NoExperiment)
        ~> current = NoExperiment

\* An experiment waiting for the next cycle gets to run, if the mission loop
\* does (experiments.cpp:151, 190-194).
WaiterResumes == MissionFairness => (bgPc = "Wait" ~> bgPc # "Wait")

\* A request accepted while the background task is idle is handed to it: the
\* InProgress bit of an earlier experiment never blocks the mission loop for
\* good (experiments.cpp:93, mission/experiments.cpp:70).
RequestServed ==
    MissionFairness => (requested # NoExperiment /\ bgPc = "Pop"
                          ~> queue # NoExperiment \/ bgPc # "Pop")

\* What the tasks that read the controller's flags and fields rely on, all at
\* once: the power cycle task and telemetry read the fields, requests and the
\* mission loop the flags (experiments.cpp:31-41, 58-94, 159-186).
ControllerCoherent ==
    TypeOK /\ CurrentImpliesInProgress /\ ReportCoherent /\ StartHasRequest

\* Whoever waits for the controller is served: an experiment for its next
\* cycle, a requester for its experiment, an operator for the end of what he
\* aborts (experiments.cpp:50-155).
ControllerProgress == WaiterResumes /\ RequestServed /\ AbortStops
=============================================================================
