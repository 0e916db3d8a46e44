---------------------------- MODULE AdcsControl ----------------------------
(***************************************************************************)
(* The ADCS coordinator (libs/adcs/AdcsCoordinator.cpp) and those who send  *)
(* it requests: the mission loop, which starts the built-in detumbling and  *)
(* stops it after four hours (libs/mission/adcs), the telecommands that set *)
(* the mode and the block mask, and the sail and SADS experiments, which    *)
(* disable the ADCS while they run.                                         *)
(***************************************************************************)
EXTENDS Integers, Sequences, FiniteSets

CONSTANTS
    AdcsQueueSize,
    RequestedModes,     \* modes the telecommand asks for
    MaxModeCommands, MaxAdcsFaults

Processors == {"BuiltinDetumbling", "ExperimentalDetumbling", "ExperimentalSunpointing"}
AdcsModes == Processors \cup {"Stopped", "Disabled"}

(* The telecommand handles no other mode (telecommands/adcs.cpp:67-91).     *)
ASSUME AdcsAssumption == AdcsQueueSize \in Nat \ {0} /\ RequestedModes \subseteq AdcsModes

VARIABLES
    adcsQueue,          \* AdcsCoordinator::_queue
    currentMode,
    adcsMasks,          \* modes that are blocked
    coordinator,        \* where the task is, request, and mode of Loop
    enabled,            \* processors that are enabled
    primary,            \* AdcsPrimaryTask: state, and the actions to dispatch
    late,               \* mission time is beyond four hours
    adcsExperiment,     \* an experiment: before, during or after its run
    modeCommands, adcsFaults,   \* bounded counters
    gate,               \* history: last Disabled or Stopped that was taken up
    disableFailed       \* history: a processor could not be disabled

adcsVars == <<adcsQueue, currentMode, adcsMasks, coordinator, enabled, primary, late,
              adcsExperiment, modeCommands, adcsFaults, gate, disableFailed>>

-----------------------------------------------------------------------------
(* The coordinator *)

CoordinatorFault == adcsFaults < MaxAdcsFaults /\ adcsFaults' = adcsFaults + 1
CoordinatorOk == UNCHANGED adcsFaults
(* SwitchMode returns, and Loop goes on with the mode it returned. *)
Returns(mode) == coordinator' = [coordinator EXCEPT !.pc = "pop", !.mode = mode]
AdcsRequests == <<adcsMasks, primary, late, adcsExperiment, modeCommands>>

(* Faulty variant: the ADCS that is disabled takes any request. *)
SwitchMode_NoGate ==
    LET requested == Head(adcsQueue) IN
    /\ coordinator.pc = "pop" /\ adcsQueue # <<>>
    /\ adcsQueue' = Tail(adcsQueue)
    /\ gate' = IF requested \in {"Stopped", "Disabled"} THEN requested ELSE gate
    /\ \/ /\ currentMode = requested
          /\ Returns(requested) /\ UNCHANGED currentMode
       \/ /\ currentMode # requested /\ currentMode \in Processors
          /\ currentMode' = "Stopped"
          /\ coordinator' = [pc |-> "disable", request |-> requested, previous |-> currentMode,
                             mode |-> coordinator.mode]
       \/ /\ currentMode # requested /\ currentMode \notin Processors
          /\ coordinator' = [coordinator EXCEPT !.pc = "start", !.request = requested]
          /\ UNCHANGED currentMode
    /\ UNCHANGED <<enabled, adcsFaults, disableFailed, AdcsRequests>>

(* Pop, and what SwitchMode does with the mode there was. *)
SwitchMode ==
    LET requested == Head(adcsQueue) IN
    /\ coordinator.pc = "pop" /\ adcsQueue # <<>>
    /\ adcsQueue' = Tail(adcsQueue)
    /\ gate' = IF requested \in {"Stopped", "Disabled"} THEN requested ELSE gate
    /\ \/ /\ currentMode = requested
          /\ Returns(requested) /\ UNCHANGED currentMode
       \/ /\ currentMode # requested /\ currentMode \in Processors
          /\ currentMode' = "Stopped"
          /\ coordinator' = [pc |-> "disable", request |-> requested, previous |-> currentMode,
                             mode |-> coordinator.mode]
       \/ /\ currentMode # requested /\ currentMode = "Disabled" /\ requested # "Stopped"
          /\ Returns(currentMode) /\ UNCHANGED currentMode
       \/ /\ currentMode # requested
          /\ \/ currentMode = "Stopped"
             \/ currentMode = "Disabled" /\ requested = "Stopped"
          /\ coordinator' = [coordinator EXCEPT !.pc = "start", !.request = requested]
          /\ UNCHANGED currentMode
    /\ UNCHANGED <<enabled, adcsFaults, disableFailed, AdcsRequests>>

(* Faulty variant: the old processor is left to itself. *)
DisablePrevious_Kept ==
    /\ coordinator.pc = "disable"
    /\ CoordinatorOk /\ coordinator' = [coordinator EXCEPT !.pc = "start"]
    /\ UNCHANGED <<enabled, disableFailed, adcsQueue, currentMode, gate, AdcsRequests>>

(* The processor of the previous mode is disabled; if that fails the        *)
(* request is given up.                                                    *)
DisablePrevious ==
    /\ coordinator.pc = "disable"
    /\ \/ /\ CoordinatorOk /\ enabled' = enabled \ {coordinator.previous}
          /\ coordinator' = [coordinator EXCEPT !.pc = "start"] /\ UNCHANGED disableFailed
       \/ /\ CoordinatorFault /\ disableFailed' = TRUE
          /\ Returns("Stopped") /\ UNCHANGED enabled
    /\ UNCHANGED <<adcsQueue, currentMode, gate, AdcsRequests>>

(* Faulty variant: Loop goes on with the mode that was asked for. *)
StartRequested_Claimed ==
    LET requested == coordinator.request IN
    /\ coordinator.pc = "start"
    /\ \/ /\ requested \notin Processors /\ CoordinatorOk
          /\ currentMode' = requested /\ UNCHANGED enabled
       \/ /\ requested \in Processors \ adcsMasks /\ CoordinatorOk
          /\ currentMode' = requested /\ enabled' = enabled \cup {requested}
       \/ /\ requested \in Processors
          /\ (requested \in adcsMasks /\ CoordinatorOk) \/ CoordinatorFault
          /\ UNCHANGED <<currentMode, enabled>>
    /\ Returns(requested)
    /\ UNCHANGED <<adcsQueue, gate, disableFailed, AdcsRequests>>

(* The requested mode is entered unless it is blocked or cannot be enabled. *)
StartRequested ==
    LET requested == coordinator.request IN
    /\ coordinator.pc = "start"
    /\ \/ /\ requested \notin Processors /\ CoordinatorOk
          /\ currentMode' = requested /\ Returns(requested) /\ UNCHANGED enabled
       \/ /\ requested \in Processors \ adcsMasks /\ CoordinatorOk
          /\ currentMode' = requested /\ enabled' = enabled \cup {requested} /\ Returns(requested)
       \/ /\ requested \in Processors \ adcsMasks /\ CoordinatorFault
          /\ Returns(currentMode) /\ UNCHANGED <<currentMode, enabled>>
       \/ /\ requested \in Processors \cap adcsMasks /\ CoordinatorOk
          /\ Returns(currentMode) /\ UNCHANGED <<currentMode, enabled>>
    /\ UNCHANGED <<adcsQueue, gate, disableFailed, AdcsRequests>>

-----------------------------------------------------------------------------
(* The requests.  RequestMode fails when the queue stays full. *)

RequestMode(mode) == Len(adcsQueue) < AdcsQueueSize /\ adcsQueue' = Append(adcsQueue, mode)
QueueFull == Len(adcsQueue) = AdcsQueueSize /\ UNCHANGED adcsQueue
Coordination == <<currentMode, coordinator, enabled, adcsFaults, gate, disableFailed>>

(* The conditions of AdcsPrimaryTask, evaluated together, after the silent  *)
(* period and with the antennas deployed.  The persistent block that        *)
(* IsDetumblingDisabled reads is set together with the block mask.         *)
DetermineAdcs ==
    /\ primary.actions = {}
    /\ \/ /\ primary.state = "WaitingForStart" /\ ~late /\ currentMode = "Stopped"
          /\ "BuiltinDetumbling" \notin adcsMasks
          /\ primary' = [primary EXCEPT !.actions = {"start"}]
       \/ /\ primary.state = "Detumbling" /\ late
          /\ primary' = [primary EXCEPT !.actions = {"stop"}]
    /\ UNCHANGED <<adcsQueue, adcsMasks, late, adcsExperiment, modeCommands, Coordination>>

(* Faulty variant: the task is done whether its request was taken or not. *)
DispatchAdcs_Unchecked ==
    /\ primary.actions # {}
    /\ LET start == "start" \in primary.actions IN
       /\ RequestMode(IF start THEN "BuiltinDetumbling" ELSE "Stopped") \/ QueueFull
       /\ primary' = [actions |-> {}, state |-> IF start THEN "Detumbling" ELSE "Stopped"]
    /\ UNCHANGED <<adcsMasks, late, adcsExperiment, modeCommands, Coordination>>

(* Start and Stop: a request that is refused is made again later. *)
DispatchAdcs ==
    /\ primary.actions # {}
    /\ LET start == "start" \in primary.actions IN
       \/ /\ RequestMode(IF start THEN "BuiltinDetumbling" ELSE "Stopped")
          /\ primary' = [actions |-> {}, state |-> IF start THEN "Detumbling" ELSE "Stopped"]
       \/ QueueFull /\ primary' = [primary EXCEPT !.actions = {}]
    /\ UNCHANGED <<adcsMasks, late, adcsExperiment, modeCommands, Coordination>>

FourHoursPass ==
    /\ ~late /\ late' = TRUE
    /\ UNCHANGED <<adcsQueue, adcsMasks, primary, adcsExperiment, modeCommands, Coordination>>

NewModeCommand == modeCommands < MaxModeCommands /\ modeCommands' = modeCommands + 1

SetAdcsMode ==
    /\ NewModeCommand
    /\ \E m \in RequestedModes : RequestMode(m) \/ QueueFull
    /\ UNCHANGED <<adcsMasks, primary, late, adcsExperiment, Coordination>>

SetBuiltinDetumblingBlockMask ==
    /\ NewModeCommand
    /\ \E block \in BOOLEAN :
           adcsMasks' = IF block THEN adcsMasks \cup {"BuiltinDetumbling"}
                        ELSE adcsMasks \ {"BuiltinDetumbling"}
    /\ UNCHANGED <<adcsQueue, primary, late, adcsExperiment, Coordination>>

(* Start of the sail or SADS experiment, which gives up if the request is   *)
(* refused, and Stop, which does not look at the answer.                   *)
ExperimentAdcs ==
    /\ \/ adcsExperiment = "before" /\ RequestMode("Disabled") /\ adcsExperiment' = "during"
       \/ adcsExperiment = "before" /\ QueueFull /\ adcsExperiment' = "during"
       \/ adcsExperiment = "during" /\ (RequestMode("Stopped") \/ QueueFull) /\ adcsExperiment' = "after"
    /\ UNCHANGED <<adcsMasks, primary, late, modeCommands, Coordination>>

-----------------------------------------------------------------------------

AdcsInit ==
    /\ adcsQueue = <<>> /\ currentMode = "Stopped" /\ adcsMasks = {} /\ enabled = {}
    /\ coordinator = [pc |-> "pop", request |-> "Stopped", previous |-> "Stopped", mode |-> "Stopped"]
    /\ primary = [state |-> "WaitingForStart", actions |-> {}] /\ late = FALSE
    /\ adcsExperiment = "before" /\ modeCommands = 0 /\ adcsFaults = 0
    /\ gate = "Stopped" /\ disableFailed = FALSE

AdcsTask == SwitchMode \/ DisablePrevious \/ StartRequested
AdcsPrimaryTask == DetermineAdcs \/ DispatchAdcs
AdcsTelecommands == SetAdcsMode \/ SetBuiltinDetumblingBlockMask
AdcsRests ==
    /\ late /\ primary.state # "Detumbling" /\ primary.actions = {} /\ adcsQueue = <<>>
    /\ adcsExperiment = "after" /\ UNCHANGED adcsVars

AdcsNext ==
    AdcsTask \/ AdcsPrimaryTask \/ FourHoursPass \/ AdcsTelecommands \/ ExperimentAdcs \/ AdcsRests

AdcsSpec == AdcsInit /\ [][AdcsNext]_adcsVars
AdcsFairness == WF_adcsVars(AdcsTask) /\ WF_adcsVars(AdcsPrimaryTask) /\ WF_adcsVars(FourHoursPass)

-----------------------------------------------------------------------------
(* Properties *)

(* Two algorithms never drive the magnetorquers at once, unless one of them *)
(* could not be switched off (AdcsCoordinator.cpp:96-161).                 *)
OneProcessor == Cardinality(enabled) <= 1 \/ disableFailed

(* Loop runs only a processor that is enabled, and CurrentMode is its mode, *)
(* whichever step of SwitchMode failed.                                    *)
RunsWhatIsEnabled ==
    coordinator.pc = "pop" =>
        coordinator.mode = currentMode /\ (currentMode \in Processors => currentMode \in enabled)

(* Between the Disabled of an experiment and the next Stopped the ADCS is   *)
(* off, whatever else was requested and in whatever order, unless a         *)
(* processor could not be switched off.                                    *)
QuietWhileDisabled ==
    gate = "Disabled" /\ coordinator.pc = "pop" => enabled = {} \/ disableFailed

(* The detumbling the mission loop has started is over some time after the  *)
(* four hours, even if the queue was full (libs/mission/adcs/adcs.cpp:105). *)
DetumblingEnds ==
    primary.state = "Detumbling" ~>
        (("BuiltinDetumbling" \notin enabled /\ late) \/ disableFailed)

(* Who drives the coils: at most one processor, the one of the mode, and    *)
(* none while the ADCS is disabled (AdcsCoordinator.cpp:94-200).            *)
CoilsSafe == OneProcessor /\ RunsWhatIsEnabled /\ QuietWhileDisabled
=============================================================================
