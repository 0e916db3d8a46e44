----------------------- MODULE AntennaDeployment_proof ------------------------
(***************************************************************************)
(* Proofs about the antenna deployment, for any list of antennas, any      *)
(* periods and any bounds of the exploration.                              *)
(***************************************************************************)
EXTENDS AntennaDeployment, TLAPS

Bounded == {"failure", "mask", "correction", "reset"}

\* What NothingSkipped needs of the types.
CountersOK ==
    /\ used \in [Bounded -> Nat]
    /\ retryCounter \in 1..StepRetries
    /\ skipped \in BOOLEAN

\* Every attempt the current step has used up was a failed command, and a step
\* that was given up used up all of them.
RetryInv ==
    /\ CountersOK
    /\ used["failure"] >= StepRetries - retryCounter
    /\ NothingSkipped

USE DEF Bounded, CountersOK, RetryInv, NothingSkipped, StepRetries

\* No attempt is used up after boot.
LEMMA InitRetryInv == Init => RetryInv
<1>1. DOMAIN Bounds = Bounded
  BY DEF Bounds
<1> QED
  <2> SUFFICES ASSUME Init PROVE RetryInv
    OBVIOUS
  <2>1. used = [what \in Bounded |-> 0]
    BY <1>1 DEF Init
  <2>2. retryCounter = 3
    BY DEF Init
  <2>3. skipped \in BOOLEAN /\ ~skipped
    BY Zenon DEF Init
  <2>4. used \in [Bounded -> Nat] /\ used["failure"] = 0
    BY <2>1
  <2> QED
    BY <2>2, <2>3, <2>4

\* A telecommand, a correction and a reset are counted apart from failures.
LEMMA UseOther ==
    ASSUME RetryInv, NEW what \in Bounded \ {"failure"}, Use(what)
    PROVE  used' \in [Bounded -> Nat] /\ used'["failure"] = used["failure"]
BY DEF Use

\* The step that can give a step of the table up.
LEMMA PerformStepKeeps == RetryInv /\ PerformStep => RetryInv'
<1> SUFFICES ASSUME RetryInv, PerformStep PROVE RetryInv'
  OBVIOUS
<1>1. PICK success \in BOOLEAN :
          /\ IF success THEN UNCHANGED used ELSE Use("failure")
          /\ IF ~success /\ Retries
             THEN /\ retryCounter' = retryCounter - 1
                  /\ UNCHANGED skipped
             ELSE /\ retryCounter' = StepRetries
                  /\ skipped' = (skipped \/ ~success)
  BY DEF PerformStep
<1>2. CASE success
  BY <1>1, <1>2
<1>3. CASE ~success
  <2>1. /\ used' \in [Bounded -> Nat]
        /\ used'["failure"] = used["failure"] + 1
    BY <1>1, <1>3 DEF Use
  <2>2. CASE Retries
    BY <1>1, <1>3, <2>1, <2>2 DEF Retries
  <2>3. CASE ~Retries
    \* The last attempt: two failures before it, and this one.
    BY <1>1, <1>3, <2>1, <2>3 DEF Retries
  <2> QED
    BY <2>2, <2>3
<1> QED
  BY <1>2, <1>3

\* One step per action of the model.
LEMMA RetryStep == RetryInv /\ [Next]_vars => RetryInv'
<1> SUFFICES ASSUME RetryInv, [Next]_vars PROVE RetryInv'
  OBVIOUS
<1> USE DEF task, history
<1>1. CASE MissionLoop
  <2>1. CASE UpdateTime
    BY <2>1 DEF UpdateTime
  <2>2. CASE Update
    BY <2>2 DEF Update
  <2>3. CASE DetermineActions
    BY <2>3 DEF DetermineActions
  <2>4. CASE CorrectTime
    <3>1. UNCHANGED used \/ Use("correction")
      BY <2>4 DEF CorrectTime
    <3>2. UNCHANGED <<retryCounter, skipped>>
      BY <2>4 DEF CorrectTime
    <3> QED
      BY <3>1, <3>2, UseOther
  <2>5. CASE PerformStep
    BY <2>5, PerformStepKeeps
  <2>6. CASE BeaconUpdate
    BY <2>6 DEF BeaconUpdate
  <2>7. CASE SaveState
    BY <2>7 DEF SaveState
  <2>8. CASE SkipAction
    BY <2>8 DEF SkipAction
  <2> QED
    BY <1>1, <2>1, <2>2, <2>3, <2>4, <2>5, <2>6, <2>7, <2>8 DEF MissionLoop
<1>2. ASSUME NEW value \in BOOLEAN, SetAntennaDeploymentMask(value)
      PROVE  RetryInv'
  BY <1>2, UseOther DEF SetAntennaDeploymentMask
<1>3. CASE Tick
  BY <1>3 DEF Tick
<1>4. ASSUME NEW powerCycled \in PowerCycledResets, Reset(powerCycled)
      PROVE  RetryInv'
  <2>1. retryCounter' = 3
    BY <1>4 DEF Reset
  <2>2. skipped' \in BOOLEAN /\ ~skipped'
    BY <1>4, Zenon DEF Reset
  <2>3. Use("reset")
    BY <1>4 DEF Reset
  <2>4. used' \in [Bounded -> Nat] /\ used'["failure"] = used["failure"]
    BY <2>3, UseOther
  <2> QED
    BY <2>1, <2>2, <2>4
<1>5. CASE UNCHANGED vars
  BY <1>5 DEF vars
<1> QED
  BY <1>1, <1>2, <1>3, <1>4, <1>5 DEF Next

\* However long the table and however many resets, telecommands and
\* corrections come between: fewer than StepRetries failed commands give up no
\* step of the deployment (antenna.cpp:125-148).
THEOREM NeverSkipped == Spec => []NothingSkipped
<1>1. RetryInv => NothingSkipped
  OBVIOUS
<1> QED
  BY InitRetryInv, RetryStep, <1>1, PTL DEF Spec

-----------------------------------------------------------------------------

\* The types, with the bounds of mission time that keep them.
AntennaTypeOK ==
    /\ TypeOK
    /\ {time, stateTime, lastMissionTime} \subseteq 0..MaxTime
    /\ used \in [DOMAIN Bounds -> Nat]

\* A step that the iteration has found to be due is one of the table.
StepDue == loopPc \in {"CorrectTime", "Antenna"} /\ "Antenna" \in runnable => step < StepCount

\* Where the next step is in the sequence of its antenna.
Place == step % Len(FullSequence)
NextStep == Steps[step + 1]

\* A channel whose steps are all done is off.
DoneIsOff ==
    ~skipped =>
        /\ step >= PerChannel => ~power["Primary"]
        /\ step = StepCount => ~power["Backup"]

\* Minutes of a burn that corrections forward have not taken from it.
Owed == [c \in Channels |-> IF burning[c] > forward[c] THEN burning[c] - forward[c] ELSE 0]

\* Those of them that the waits ahead of the next Disarm or PowerOff, apart from
\* the one that runs, do not cover by themselves.
Uncovered ==
    IF step = StepCount \/ Place \in {0, 1, 2} THEN 0
    ELSE LET left == Owed[NextStep.channel] - (IF Place = 3 THEN NextStep.wait ELSE 0)
         IN  IF left > 0 THEN left ELSE 0

\* An iteration looks at one time only, the wait that runs covers what is owed
\* of a burn, and an action that is due needs no wait.
BurnsCovered ==
    /\ loopPc # "Idle" => stateTime = time
    /\ Uncovered = 0 \/ time + Uncovered <= nextStepAt
    /\ loopPc \in {"CorrectTime", "Antenna"} /\ "Antenna" \in runnable => Uncovered = 0

(* What the assumptions on the constants say of each of them.               *)
LEMMA AntennaConstants ==
    /\ Len(Antennas) \in Nat \ {0} /\ Len(FullSequence) = 6
    /\ PerChannel = 6 * Len(Antennas) /\ StepCount = 12 * Len(Antennas)
    /\ PerChannel \in Nat \ {0} /\ StepCount \in Nat \ {0}
    /\ MaxTime \in Nat /\ SilentPeriod \in Nat /\ CorrectionPeriod \in Nat
    /\ Corrections \subseteq Int
    /\ DOMAIN Bounds = {"failure", "mask", "correction", "reset"}
    /\ \A what \in DOMAIN Bounds : Bounds[what] \in Nat
<1>1. Len(Antennas) \in Nat \ {0}
  BY AntennasAssumption
<1>2. Len(FullSequence) = 6
  BY DEF FullSequence
<1>3. DOMAIN Bounds = {"failure", "mask", "correction", "reset"}
  BY DEF Bounds
<1>4. {MaxFailures, MaxMasks, MaxCorrections, MaxResets} \subseteq Nat
  BY Zenon, AntennasAssumption
<1>5. \A what \in DOMAIN Bounds : Bounds[what] \in Nat
  BY <1>4 DEF Bounds
<1>6. {SilentPeriod, MaxTime, LatestReset, CorrectionPeriod} \subseteq Nat /\ Corrections \subseteq Int
  BY Zenon, AntennasAssumption
<1> QED
  BY <1>1, <1>2, <1>3, <1>5, <1>6 DEF PerChannel, StepCount

\* The table of the steps: six to an antenna, in order, on one channel.
LEMMA StepTable ==
    ASSUME NEW s \in 0..(StepCount - 1)
    PROVE  /\ s % 6 \in 0..5 /\ s + 1 \in 1..StepCount
           /\ s % 6 = 0 => Steps[s + 1].command = "PowerOn" /\ Steps[s + 1].wait = 0
           /\ s % 6 = 1 => Steps[s + 1].command = "Reset" /\ Steps[s + 1].wait = 1
           /\ s % 6 = 2 => Steps[s + 1].command = "Arm" /\ Steps[s + 1].wait = 1
           /\ s % 6 = 3 => Steps[s + 1].command = "Deploy"
                           /\ Steps[s + 1].wait = DeployWait(Steps[s + 1].antenna)
           /\ s % 6 = 4 => Steps[s + 1].command = "Disarm" /\ Steps[s + 1].wait = 0
           /\ s % 6 = 5 => Steps[s + 1].command = "PowerOff" /\ Steps[s + 1].wait = 2
           /\ Steps[s + 1].channel = IF s < PerChannel THEN "Primary" ELSE "Backup"
           /\ Steps[s + 1].wait \in 0..3
<1>1. StepCount \in Nat
  BY AntennaConstants
<1>2. s % 6 \in 0..5 /\ s + 1 \in 1..StepCount /\ (s + 1) - 1 = s
  BY <1>1
<1> DEFINE command == FullSequence[1 + (s % 6)]
           antenna == Antennas[1 + ((s \div 6) % Len(Antennas))]
<1>3. Steps[s + 1] =
        [command |-> command, channel |-> IF s + 1 <= PerChannel THEN "Primary" ELSE "Backup",
         antenna |-> antenna,
         wait |-> CASE command \in {"Reset", "Arm"} -> 1
                    [] command = "Deploy" -> DeployWait(antenna)
                    [] command = "PowerOff" -> 2
                    [] OTHER -> 0]
  BY <1>2, AntennaConstants, Zenon DEF Steps
<1>4. /\ s % 6 = 0 => command = "PowerOn"
      /\ s % 6 = 1 => command = "Reset"
      /\ s % 6 = 2 => command = "Arm"
      /\ s % 6 = 3 => command = "Deploy"
      /\ s % 6 = 4 => command = "Disarm"
      /\ s % 6 = 5 => command = "PowerOff"
  BY <1>2 DEF FullSequence
<1>5. s + 1 <= PerChannel <=> s < PerChannel
  BY AntennaConstants
<1> HIDE DEF command, antenna
<1> DEFINE t == Steps[s + 1]
<1>6. /\ t.command = command /\ t.antenna = antenna
      /\ t.channel = IF s < PerChannel THEN "Primary" ELSE "Backup"
      /\ command \in {"Reset", "Arm"} => t.wait = 1
      /\ command = "Deploy" => t.wait = DeployWait(antenna)
      /\ command = "PowerOff" => t.wait = 2
      /\ command \in {"PowerOn", "Disarm"} => t.wait = 0
  BY <1>3, <1>5
<1>7. DeployWait(antenna) \in 0..3
  BY DEF DeployWait
<1> HIDE DEF t
<1>8. t.wait \in 0..3
  BY <1>2, <1>4, <1>6, <1>7
<1> QED
  BY <1>2, <1>4, <1>6, <1>8 DEF t

\* The step after the next is in the same sequence, or begins a new one.
LEMMA PlaceMoves ==
    ASSUME NEW s \in Nat
    PROVE  (s + 1) % 6 = IF s % 6 = 5 THEN 0 ELSE (s % 6) + 1
OBVIOUS

\* A channel changes only where a sequence begins.
LEMMA ChannelKept ==
    ASSUME NEW s \in 0..(StepCount - 1)
    PROVE  /\ s % 6 # 5 => s + 1 < StepCount /\ (s + 1 < PerChannel <=> s < PerChannel)
           /\ s + 1 = PerChannel \/ s + 1 = StepCount => s % 6 = 5
           /\ PerChannel < StepCount
<1>1. PICK n \in Nat \ {0} : PerChannel = 6 * n /\ StepCount = 12 * n
  BY AntennaConstants
<1> QED
  BY <1>1

\* A counter that is used stays a counter within its bound.
LEMMA UseCounts ==
    ASSUME AntennaTypeOK, NEW what \in DOMAIN Bounds, Use(what)
    PROVE  used' \in [DOMAIN Bounds -> Nat] /\ \A w \in DOMAIN Bounds : used'[w] \in 0..Bounds[w]
<1>1. Bounds[what] \in Nat /\ used[what] \in Nat /\ used[what] < Bounds[what]
  BY AntennaConstants DEF AntennaTypeOK, Use
<1>2. used' = [used EXCEPT ![what] = @ + 1] /\ used \in [DOMAIN Bounds -> Nat]
      /\ \A w \in DOMAIN Bounds : used[w] \in 0..Bounds[w]
  BY DEF AntennaTypeOK, TypeOK, Use
<1>3. \A w \in DOMAIN Bounds : Bounds[w] \in Nat
  BY AntennaConstants
<1> HIDE DEF Bounds
<1> QED
  BY <1>1, <1>2, <1>3

(* The types hold when the task starts.                                     *)
LEMMA AntennaTypeInit == Init => AntennaTypeOK
<1> SUFFICES ASSUME Init PROVE AntennaTypeOK
  OBVIOUS
<1>1. MaxTime \in Nat /\ StepCount \in Nat /\ \A what \in DOMAIN Bounds : Bounds[what] \in Nat
  BY AntennaConstants
<1>2. disabled \in BOOLEAN /\ deployed \in BOOLEAN /\ beacon \in BOOLEAN /\ cutShort \in BOOLEAN
      /\ skipped \in BOOLEAN
  BY Zenon DEF Init
<1>3. saved \in [disabled : BOOLEAN, time : 0..MaxTime]
  <2>1. saved = [disabled |-> FALSE, time |-> 0] /\ 0 \in 0..MaxTime
    BY <1>1 DEF Init
  <2> QED
    BY <2>1, Zenon
<1>4. power \in [Channels -> BOOLEAN]
  BY Zenon DEF Init
<1>5. burning \in [Channels -> 0..BurnTime(AutoId)] /\ forward \in [Channels -> 0..BurnTime(AutoId)]
  BY DEF Init, BurnTime
<1>6. used \in [DOMAIN Bounds -> Nat] /\ \A what \in DOMAIN Bounds : used[what] \in 0..Bounds[what]
  <2>1. used = [what \in DOMAIN Bounds |-> 0]
    BY DEF Init
  <2> HIDE DEF Bounds
  <2> QED
    BY <1>1, <2>1
<1>7. /\ time = 0 /\ stateTime = 0 /\ lastMissionTime = 0 /\ nextStepAt = 0 /\ step = 0
      /\ retryCounter = 3 /\ loopPc = "Idle" /\ runnable = {}
  BY DEF Init, StepRetries
<1>8. {disabled, deployed, beacon, cutShort} \subseteq BOOLEAN
  BY <1>2, Zenon
<1> QED
  BY <1>1, <1>2, <1>3, <1>4, <1>5, <1>6, <1>7, <1>8
  DEF AntennaTypeOK, TypeOK, LoopLabels, StepRetries

\* What an action that is neither a step of the deployment nor a correction
\* leaves of the types is one of these.
LEMMA AntennaTypeKept ==
    ASSUME AntennaTypeOK,
           {time', stateTime', lastMissionTime'} \subseteq 0..MaxTime,
           disabled' \in BOOLEAN, deployed' \in BOOLEAN, beacon' \in BOOLEAN, cutShort' \in BOOLEAN,
           skipped' \in BOOLEAN,
           saved' \in [disabled : BOOLEAN, time : 0..MaxTime],
           step' \in 0..StepCount, nextStepAt' \in 0..(MaxTime + 3), retryCounter' \in 1..StepRetries,
           loopPc' \in LoopLabels, runnable' \subseteq Actions,
           power' \in [Channels -> BOOLEAN], burning' \in [Channels -> 0..BurnTime(AutoId)],
           forward' \in [Channels -> 0..BurnTime(AutoId)],
           used' \in [DOMAIN Bounds -> Nat], \A what \in DOMAIN Bounds : used'[what] \in 0..Bounds[what]
    PROVE  AntennaTypeOK'
<1>1. {disabled', deployed', beacon', cutShort'} \subseteq BOOLEAN
  BY Zenon
<1>2. {time', stateTime', lastMissionTime', nextStepAt'} \subseteq 0..(MaxTime + 3)
  <2>1. \A t \in 0..MaxTime : t \in 0..(MaxTime + 3)
    BY AntennaConstants
  <2> QED
    BY <2>1, Zenon
<1> HIDE DEF Bounds
<1> QED
  BY <1>1, <1>2, Zenon DEF AntennaTypeOK, TypeOK

(* What the type invariant says of each variable.                           *)
LEMMA AntennaTypes ==
    ASSUME AntennaTypeOK
    PROVE  /\ {time, stateTime, lastMissionTime} \subseteq 0..MaxTime
           /\ disabled \in BOOLEAN /\ deployed \in BOOLEAN /\ beacon \in BOOLEAN
           /\ cutShort \in BOOLEAN /\ skipped \in BOOLEAN
           /\ saved \in [disabled : BOOLEAN, time : 0..MaxTime]
           /\ step \in 0..StepCount /\ nextStepAt \in 0..(MaxTime + 3)
           /\ retryCounter \in 1..StepRetries
           /\ loopPc \in LoopLabels /\ runnable \subseteq Actions
           /\ power \in [Channels -> BOOLEAN] /\ burning \in [Channels -> 0..BurnTime(AutoId)]
           /\ forward \in [Channels -> 0..BurnTime(AutoId)]
           /\ used \in [DOMAIN Bounds -> Nat]
           /\ \A what \in DOMAIN Bounds : used[what] \in 0..Bounds[what]
<1>1. {disabled, deployed, beacon, cutShort} \subseteq BOOLEAN
      /\ {time, stateTime, lastMissionTime, nextStepAt} \subseteq 0..(MaxTime + 3)
  BY Zenon DEF AntennaTypeOK, TypeOK
<1> QED
  BY <1>1, Zenon DEF AntennaTypeOK, TypeOK

(* A step that was found to be due is there when it is taken.               *)
LEMMA StepDueStep == StepDue /\ [Next]_vars => StepDue'
<1> SUFFICES ASSUME StepDue, [Next]_vars PROVE StepDue'
  OBVIOUS
<1>1. CASE loopPc' \notin {"CorrectTime", "Antenna"}
  BY <1>1 DEF StepDue
<1>2. CASE DetermineActions
  BY <1>2, Zenon DEF DetermineActions, StepDue, Condition, task
<1>3. CASE UNCHANGED step /\ UNCHANGED runnable /\ loopPc \in {"CorrectTime", "Antenna"}
  BY <1>3 DEF StepDue
<1>4. CASE CorrectTime
  BY <1>4, <1>3 DEF CorrectTime, Goto, task
<1>5. CASE SkipAction
  BY <1>5, <1>1, <1>3 DEF SkipAction, Goto, task
<1>6. ASSUME NEW value \in BOOLEAN, SetAntennaDeploymentMask(value)
      PROVE  StepDue'
  BY <1>6 DEF SetAntennaDeploymentMask, task, StepDue
<1>7. CASE UNCHANGED vars
  BY <1>7 DEF vars, task, StepDue
<1>8. CASE Tick
  BY <1>8, <1>1 DEF Tick
<1>9. ASSUME NEW powerCycled \in PowerCycledResets, Reset(powerCycled)
      PROVE  StepDue'
  BY <1>9, <1>1 DEF Reset
<1>10. CASE UpdateTime \/ Update \/ PerformStep \/ BeaconUpdate \/ SaveState
  BY <1>10, <1>1 DEF UpdateTime, Update, PerformStep, BeaconUpdate, SaveState, Goto
<1> QED
  BY <1>2, <1>4, <1>5, <1>6, <1>7, <1>8, <1>9, <1>10 DEF Next, MissionLoop

\* What the hardware makes of a command is power on or off, and a burn time.
LEMMA ObeyedTypes ==
    ASSUME AntennaTypeOK, step < StepCount, Obeyed(NextStep)
    PROVE  /\ power' \in [Channels -> BOOLEAN] /\ burning' \in [Channels -> 0..BurnTime(AutoId)]
           /\ forward' \in [Channels -> 0..BurnTime(AutoId)]
           /\ cutShort' \in BOOLEAN
<1> DEFINE c == NextStep.channel
           command == NextStep.command
<1>1. step \in 0..(StepCount - 1)
  <2>1. step \in 0..StepCount
    BY AntennaTypes
  <2>2. StepCount \in Nat
    BY AntennaConstants
  <2> QED
    BY <2>1, <2>2
<1>2. c \in Channels
  BY <1>1, StepTable DEF NextStep, Channels
<1>3. power \in [Channels -> BOOLEAN] /\ burning \in [Channels -> 0..BurnTime(AutoId)]
      /\ forward \in [Channels -> 0..BurnTime(AutoId)]
  BY AntennaTypes
<1>4. BurnTime(NextStep.antenna) \in 0..BurnTime(AutoId) /\ 0 \in 0..BurnTime(AutoId)
  BY DEF BurnTime
<1>5. power' = power \/ power' = [power EXCEPT ![c] = TRUE] \/ power' = [power EXCEPT ![c] = FALSE]
  BY Zenon DEF Obeyed
<1>6. \/ burning' = burning \/ burning' = [burning EXCEPT ![c] = 0]
      \/ burning' = [burning EXCEPT ![c] = BurnTime(NextStep.antenna)]
  BY Zenon DEF Obeyed
<1>7. cutShort' \in BOOLEAN
  <2>1. cutShort' = (cutShort \/ (command \in {"Disarm", "PowerOff"} /\ burning[c] > forward[c]))
    BY Zenon DEF Obeyed
  <2> HIDE DEF c, command
  <2> QED
    BY <2>1, Zenon
<1> HIDE DEF c
<1>8. power' \in [Channels -> BOOLEAN]
  BY <1>2, <1>3, <1>5, Zenon
<1>9. burning' \in [Channels -> 0..BurnTime(AutoId)]
  BY <1>2, <1>3, <1>4, <1>6
<1>10. forward' \in [Channels -> 0..BurnTime(AutoId)]
  <2>1. forward' = forward \/ forward' = [forward EXCEPT ![c] = 0]
    BY Zenon DEF Obeyed, c
  <2> QED
    BY <1>2, <1>3, <1>4, <2>1
<1> QED
  BY <1>7, <1>8, <1>9, <1>10

\* What corrections take from a burn never exceeds its burn time ...
LEMMA ForwardCorrected ==
    ASSUME AntennaTypeOK, CorrectTime
    PROVE  forward' \in [Channels -> 0..BurnTime(AutoId)]
<1>1. /\ time \in Int /\ time' \in Int
      /\ burning \in [Channels -> 0..2] /\ forward \in [Channels -> 0..2] /\ BurnTime(AutoId) = 2
  <2>1. BurnTime(AutoId) = 2
    BY DEF BurnTime
  <2>2. time \in 0..MaxTime /\ lastMissionTime \in 0..MaxTime
    BY AntennaTypes, Zenon
  <2>3. time' = time \/ time' \in lastMissionTime..MaxTime
    BY DEF CorrectTime
  <2>4. burning \in [Channels -> 0..2] /\ forward \in [Channels -> 0..2]
    BY <2>1, AntennaTypes, Zenon
  <2>5. time \in Int /\ time' \in Int
    BY <2>2, <2>3, AntennaConstants
  <2> QED
    BY <2>1, <2>4, <2>5
<1>2. forward' = [c \in Channels |-> IF time' > time
                                    THEN AtMost(burning[c], forward[c] + (time' - time))
                                    ELSE forward[c]]
  BY DEF CorrectTime
<1> DEFINE t == time'
<1>3. ASSUME NEW c \in Channels
      PROVE  (IF t > time THEN AtMost(burning[c], forward[c] + (t - time)) ELSE forward[c]) \in 0..2
  <2>1. burning[c] \in 0..2 /\ forward[c] \in 0..2 /\ t \in Int
    BY <1>1
  <2> HIDE DEF t
  <2> QED
    BY <1>1, <2>1 DEF AtMost
<1> QED
  BY <1>1, <1>2, <1>3

\* ... and is no longer counted when the minutes have passed.
LEMMA ForwardTicked ==
    ASSUME AntennaTypeOK, Tick
    PROVE  forward' \in [Channels -> 0..BurnTime(AutoId)]
<1>1. burning \in [Channels -> 0..2] /\ forward \in [Channels -> 0..2] /\ BurnTime(AutoId) = 2
  BY AntennaTypes DEF BurnTime
<1>2. burning' = [c \in Channels |-> IF burning[c] > 0 THEN burning[c] - 1 ELSE 0]
      /\ forward' = [c \in Channels |-> AtMost(burning'[c], forward[c])]
  BY DEF Tick
<1>3. burning' \in [Channels -> 0..2]
  BY <1>1, <1>2
<1>4. ASSUME NEW c \in Channels
      PROVE  AtMost(burning'[c], forward[c]) \in 0..2
  BY <1>1, <1>3 DEF AtMost
<1> QED
  BY <1>1, <1>2, <1>4

(* The types are kept by every step.                                        *)
LEMMA AntennaTypeStep == AntennaTypeOK /\ StepDue /\ [Next]_vars => AntennaTypeOK'
<1> SUFFICES ASSUME AntennaTypeOK, StepDue, [Next]_vars PROVE AntennaTypeOK'
  OBVIOUS
<1>0. MaxTime \in Nat /\ StepCount \in Nat /\ 0 \in 0..MaxTime
  BY AntennaConstants
<1>1. CASE UpdateTime
  BY <1>1, AntennaTypes, AntennaTypeKept, Zenon
  DEF UpdateTime, Goto, LoopLabels, persistent, task, hardware, history
<1>2. CASE Update
  BY <1>2, AntennaTypes, AntennaTypeKept, Zenon
  DEF Update, Goto, LoopLabels, persistent, task, hardware, history
<1>3. CASE DetermineActions
  BY <1>3, AntennaTypes, AntennaTypeKept, Zenon
  DEF DetermineActions, Goto, LoopLabels, Actions, persistent, task, hardware, history
<1>4. CASE CorrectTime
  <2>1. /\ loopPc' \in LoopLabels
        /\ UNCHANGED <<disabled, saved, deployed, task, beacon, runnable, power, burning, history>>
        /\ stateTime' = time' /\ lastMissionTime' = time'
    BY <1>4 DEF CorrectTime, Goto, LoopLabels, Actions
  <2>2. used' = used \/ Use("correction")
    BY <1>4 DEF CorrectTime
  <2>3. time' \in 0..MaxTime
    <3>1. time \in 0..MaxTime /\ lastMissionTime \in 0..MaxTime
      BY AntennaTypes, Zenon
    <3>2. time' = time \/ time' \in lastMissionTime..MaxTime
      BY <1>4 DEF CorrectTime
    <3> QED
      BY <1>0, <3>1, <3>2
  <2>4. used' \in [DOMAIN Bounds -> Nat] /\ \A what \in DOMAIN Bounds : used'[what] \in 0..Bounds[what]
    BY <2>2, AntennaTypes, UseCounts, AntennaConstants, Zenon
  <2>5. forward' \in [Channels -> 0..BurnTime(AutoId)]
    BY <1>4, ForwardCorrected
  <2> QED
    BY <2>1, <2>3, <2>4, <2>5, AntennaTypes, AntennaTypeKept, Zenon DEF task, history
<1>5. CASE PerformStep
  <2>1. PICK success \in BOOLEAN :
          /\ IF success THEN Obeyed(NextStep) /\ UNCHANGED used
             ELSE Use("failure") /\ UNCHANGED <<hardware, cutShort>>
          /\ IF ~success /\ Retries
             THEN /\ retryCounter' = retryCounter - 1
                  /\ UNCHANGED <<step, nextStepAt, deployed, skipped>>
             ELSE /\ step' = step + 1
                  /\ nextStepAt' = stateTime + NextStep.wait
                  /\ retryCounter' = StepRetries
                  /\ deployed' = (deployed \/ step' = StepCount)
                  /\ skipped' = (skipped \/ ~success)
    BY <1>5, Zenon DEF PerformStep, NextStep
  <2>2. /\ loopPc' \in LoopLabels
        /\ UNCHANGED <<time, stateTime, persistent, saved, beacon, runnable>>
        /\ "Antenna" \in runnable
    BY <1>5 DEF PerformStep, Goto, LoopLabels, Actions
  <2>3. step < StepCount => /\ step + 1 \in 0..StepCount /\ stateTime + NextStep.wait \in 0..(MaxTime + 3)
    <3>1. step \in 0..StepCount /\ stateTime \in 0..MaxTime
      BY AntennaTypes, Zenon
    <3>2. step < StepCount => step \in 0..(StepCount - 1)
      BY <1>0, <3>1
    <3>3. step < StepCount => NextStep.wait \in 0..3
      BY <3>2, StepTable DEF NextStep
    <3> QED
      BY <1>0, <3>1, <3>3
  <2>4. step < StepCount
    BY <1>5, <2>2, Zenon DEF StepDue, PerformStep, Goto
  <2>5. /\ used' \in [DOMAIN Bounds -> Nat]
        /\ \A what \in DOMAIN Bounds : used'[what] \in 0..Bounds[what]
    <3>1. "failure" \in DOMAIN Bounds
      BY AntennaConstants
    <3>2. used' = used \/ Use("failure")
      BY <2>1
    <3> QED
      BY <3>1, <3>2, AntennaTypes, UseCounts, Zenon
  <2>6. /\ power' \in [Channels -> BOOLEAN] /\ burning' \in [Channels -> 0..BurnTime(AutoId)]
        /\ forward' \in [Channels -> 0..BurnTime(AutoId)]
        /\ cutShort' \in BOOLEAN
    <3>1. CASE success
      BY <2>1, <2>4, <3>1, ObeyedTypes
    <3>2. CASE ~success
      BY <2>1, <3>2, AntennaTypes, Zenon DEF hardware
    <3> QED
      BY <3>1, <3>2
  <2>7. retryCounter' \in 1..StepRetries
    BY <2>1, AntennaTypes DEF StepRetries, Retries
  <2>8. step' \in 0..StepCount /\ nextStepAt' \in 0..(MaxTime + 3)
    BY <2>1, <2>3, <2>4, AntennaTypes, Zenon
  <2>9. deployed' \in BOOLEAN /\ skipped' \in BOOLEAN
    <3>1. deployed' = deployed \/ deployed' = (deployed \/ step' = StepCount)
      BY <2>1, Zenon
    <3>2. skipped' = skipped \/ skipped' = (skipped \/ ~success)
      BY <2>1, Zenon
    <3> QED
      BY <3>1, <3>2, AntennaTypes, Zenon
  <2> QED
    BY <2>2, <2>5, <2>6, <2>7, <2>8, <2>9, AntennaTypes, AntennaTypeKept, Zenon DEF persistent
<1>6. CASE BeaconUpdate
  BY <1>6, AntennaTypes, AntennaTypeKept, Zenon
  DEF BeaconUpdate, Goto, LoopLabels, persistent, task, hardware, history
<1>7. CASE SaveState
  <2>1. saved' \in [disabled : BOOLEAN, time : 0..MaxTime]
    BY <1>7, AntennaTypes, Zenon DEF SaveState
  <2> QED
    BY <1>7, <2>1, AntennaTypes, AntennaTypeKept, Zenon
    DEF SaveState, Goto, LoopLabels, persistent, task, hardware, history
<1>8. CASE SkipAction
  BY <1>8, AntennaTypes, AntennaTypeKept, Zenon
  DEF SkipAction, Goto, LoopLabels, Actions, persistent, task, hardware, history
<1>9. ASSUME NEW value \in BOOLEAN, SetAntennaDeploymentMask(value)
      PROVE  AntennaTypeOK'
  <2>1. used' \in [DOMAIN Bounds -> Nat] /\ \A what \in DOMAIN Bounds : used'[what] \in 0..Bounds[what]
    BY <1>9, UseCounts, AntennaConstants, Zenon DEF SetAntennaDeploymentMask
  <2> QED
    BY <1>9, <2>1, AntennaTypes, AntennaTypeKept, Zenon
    DEF SetAntennaDeploymentMask, task, hardware, history
<1>10. CASE Tick
  <2>1. time' \in 0..MaxTime
    <3>1. time \in 0..MaxTime /\ time < MaxTime /\ time' = time + 1
      BY <1>10, AntennaTypes, Zenon DEF Tick
    <3> QED
      BY <1>0, <3>1
  <2>2. burning' \in [Channels -> 0..BurnTime(AutoId)]
    <3>1. burning \in [Channels -> 0..2] /\ BurnTime(AutoId) = 2
      BY AntennaTypes DEF BurnTime
    <3>2. burning' = [c \in Channels |-> IF burning[c] > 0 THEN burning[c] - 1 ELSE 0]
      BY <1>10 DEF Tick
    <3> QED
      BY <3>1, <3>2
  <2>3. forward' \in [Channels -> 0..BurnTime(AutoId)]
    BY <1>10, ForwardTicked
  <2> QED
    BY <1>10, <2>1, <2>2, <2>3, AntennaTypes, AntennaTypeKept, Zenon
    DEF Tick, persistent, task, history
<1>11. ASSUME NEW powerCycled \in PowerCycledResets, Reset(powerCycled)
       PROVE  AntennaTypeOK'
  <2>1. used' \in [DOMAIN Bounds -> Nat] /\ \A what \in DOMAIN Bounds : used'[what] \in 0..Bounds[what]
    BY <1>11, UseCounts, AntennaConstants, Zenon DEF Reset
  <2>2. power' \in [Channels -> BOOLEAN] /\ burning' \in [Channels -> 0..BurnTime(AutoId)]
        /\ forward' \in [Channels -> 0..BurnTime(AutoId)]
    <3>1. /\ power \in [Channels -> BOOLEAN] /\ burning \in [Channels -> 0..BurnTime(AutoId)]
          /\ forward \in [Channels -> 0..BurnTime(AutoId)]
          /\ 0 \in 0..BurnTime(AutoId)
      BY AntennaTypes DEF BurnTime
    <3>2. \/ power' = [c \in Channels |-> FALSE] /\ burning' = [c \in Channels |-> 0]
             /\ forward' = [c \in Channels |-> 0]
          \/ power' = power /\ burning' = burning /\ forward' = forward
      BY <1>11 DEF Reset, hardware
    <3> QED
      BY <3>1, <3>2, Zenon
  <2>3. /\ saved.time \in 0..MaxTime /\ saved.disabled \in BOOLEAN
        /\ 0 \in 0..StepCount /\ 0 \in 0..(MaxTime + 3) /\ StepRetries \in 1..StepRetries
    BY <1>0, AntennaTypes DEF StepRetries
  <2>4. /\ time' = saved.time /\ lastMissionTime' = saved.time /\ stateTime' = 0
        /\ disabled' = saved.disabled /\ deployed' = FALSE /\ beacon' = FALSE /\ skipped' = FALSE
        /\ step' = 0 /\ nextStepAt' = 0 /\ retryCounter' = StepRetries
        /\ loopPc' = "Idle" /\ runnable' = {} /\ UNCHANGED <<saved, cutShort>>
    BY <1>11 DEF Reset
  <2> QED
    BY <1>0, <2>1, <2>2, <2>3, <2>4, AntennaTypes, AntennaTypeKept, Zenon DEF LoopLabels
<1>12. CASE UNCHANGED vars
  BY <1>12, AntennaTypes, AntennaTypeKept, Zenon DEF vars, persistent, task, hardware, history
<1> QED
  BY <1>1, <1>2, <1>3, <1>4, <1>5, <1>6, <1>7, <1>8, <1>9, <1>10, <1>11, <1>12, Zenon
  DEF Next, MissionLoop

\* What a step of the deployment that is carried out, tried again or given up
\* does to the fields of the task.
LEMMA StepPerformed ==
    ASSUME AntennaTypeOK, StepDue, PerformStep
    PROVE  /\ step \in 0..(StepCount - 1) /\ loopPc = "Antenna" /\ "Antenna" \in runnable
           /\ loopPc' = "Beacon" /\ UNCHANGED <<time, stateTime, runnable>>
           /\ \/ Obeyed(NextStep) /\ step' = step + 1 /\ nextStepAt' = stateTime + NextStep.wait
                 /\ (skipped' <=> skipped)
              \/ UNCHANGED <<power, burning, forward, cutShort>> /\ UNCHANGED <<step, nextStepAt, skipped>>
              \/ UNCHANGED <<power, burning, forward, cutShort>> /\ step' = step + 1
                 /\ nextStepAt' = stateTime + NextStep.wait /\ skipped'
<1>1. PICK success \in BOOLEAN :
        /\ IF success THEN Obeyed(NextStep) ELSE UNCHANGED <<hardware, cutShort>>
        /\ IF ~success /\ Retries
           THEN UNCHANGED <<step, nextStepAt, deployed, skipped>>
           ELSE /\ step' = step + 1
                /\ nextStepAt' = stateTime + NextStep.wait
                /\ skipped' = (skipped \/ ~success)
  BY Zenon DEF PerformStep, NextStep
<1>2. loopPc = "Antenna" /\ "Antenna" \in runnable /\ loopPc' = "Beacon"
      /\ UNCHANGED <<time, stateTime, runnable>>
  BY DEF PerformStep, Goto
<1>3. step \in 0..(StepCount - 1)
  <2>1. step \in 0..StepCount /\ StepCount \in Nat
    BY AntennaTypes, AntennaConstants, Zenon
  <2>2. step < StepCount
    BY <1>2 DEF StepDue
  <2> QED
    BY <2>1, <2>2
<1>4. CASE success
  BY <1>1, <1>2, <1>3, <1>4, Zenon
<1>5. CASE ~success /\ Retries
  BY <1>1, <1>2, <1>3, <1>5, Zenon DEF hardware
<1>6. CASE ~success /\ ~Retries
  BY <1>1, <1>2, <1>3, <1>6, Zenon DEF hardware
<1> QED
  BY <1>4, <1>5, <1>6

(* A channel whose steps are done stays off.                                *)
LEMMA DoneIsOffStep == AntennaTypeOK /\ StepDue /\ DoneIsOff /\ [Next]_vars => DoneIsOff'
<1> SUFFICES ASSUME AntennaTypeOK, StepDue, DoneIsOff, [Next]_vars PROVE DoneIsOff'
  OBVIOUS
<1>1. CASE UNCHANGED <<step, skipped, power>>
  BY <1>1, Zenon DEF DoneIsOff, PerChannel, StepCount
<1>2. CASE PerformStep
  <2>1. CASE UNCHANGED <<step, skipped, power>>
    BY <1>1, <2>1
  <2>2. CASE skipped'
    BY <2>2, Zenon DEF DoneIsOff
  <2>3. CASE Obeyed(NextStep) /\ step' = step + 1 /\ (skipped' <=> skipped)
    <3>1. step \in 0..(StepCount - 1) /\ power \in [Channels -> BOOLEAN]
          /\ PerChannel \in Nat /\ StepCount \in Nat
      BY <1>2, StepPerformed, AntennaTypes, AntennaConstants
    <3>2. /\ NextStep.channel = IF step < PerChannel THEN "Primary" ELSE "Backup"
          /\ step % 6 = 5 => NextStep.command = "PowerOff"
          /\ step + 1 = PerChannel \/ step + 1 = StepCount => step % 6 = 5
          /\ PerChannel < StepCount
      BY <3>1, StepTable, ChannelKept DEF NextStep
    <3>3. power' = power \/ \E on \in BOOLEAN : power' = [power EXCEPT ![NextStep.channel] = on]
      BY <2>3, Zenon DEF Obeyed
    <3>4. NextStep.command = "PowerOff" => power' = [power EXCEPT ![NextStep.channel] = FALSE]
      BY <2>3 DEF Obeyed
    <3> DEFINE channel == NextStep.channel
               command == NextStep.command
    <3> HIDE DEF channel, command
    <3>5. \A c \in Channels : c # channel => power'[c] = power[c]
      BY <3>1, <3>3, Zenon DEF channel
    <3>6. command = "PowerOff" /\ channel \in Channels => ~power'[channel]
      BY <3>1, <3>4, Zenon DEF channel, command
    <3>7. ASSUME ~skipped', step' >= PerChannel
          PROVE  ~power'["Primary"]
      <4>1. CASE step >= PerChannel
        <5>1. channel = "Backup" /\ ~power["Primary"]
          BY <2>3, <3>1, <3>2, <3>7, <4>1 DEF DoneIsOff, channel
        <5> QED
          BY <3>5, <5>1, Zenon DEF Channels
      <4>2. CASE step < PerChannel
        <5>1. channel = "Primary" /\ command = "PowerOff"
          BY <2>3, <3>1, <3>2, <3>7, <4>2 DEF channel, command
        <5> QED
          BY <3>6, <5>1, Zenon DEF Channels
      <4> QED
        BY <3>1, <4>1, <4>2
    <3>8. ASSUME step' = StepCount
          PROVE  ~power'["Backup"]
      <4>1. channel = "Backup" /\ command = "PowerOff"
        BY <2>3, <3>1, <3>2, <3>8 DEF channel, command
      <4> QED
        BY <3>6, <4>1, Zenon DEF Channels
    <3> QED
      BY <3>7, <3>8 DEF DoneIsOff, PerChannel, StepCount
  <2> QED
    BY <1>2, <2>1, <2>2, <2>3, StepPerformed
<1>3. ASSUME NEW powerCycled \in PowerCycledResets, Reset(powerCycled)
      PROVE  DoneIsOff'
  <2>1. step' = 0
    BY <1>3 DEF Reset
  <2>2. ~(0 >= PerChannel) /\ 0 # StepCount
    BY AntennaConstants
  <2> QED
    BY <2>1, <2>2 DEF DoneIsOff, PerChannel, StepCount
<1>4. CASE UpdateTime \/ Update \/ DetermineActions \/ CorrectTime \/ BeaconUpdate \/ SaveState \/ SkipAction
  BY <1>1, <1>4, Zenon DEF UpdateTime, Update, DetermineActions, CorrectTime, BeaconUpdate, SaveState,
                    SkipAction, task, hardware, history
<1>5. ASSUME NEW value \in BOOLEAN, SetAntennaDeploymentMask(value)
      PROVE  DoneIsOff'
  BY <1>1, <1>5, Zenon DEF SetAntennaDeploymentMask, task, hardware, history
<1>6. CASE Tick \/ UNCHANGED vars
  BY <1>1, <1>6, Zenon DEF Tick, vars, task, hardware, history
<1> QED
  BY <1>2, <1>3, <1>4, <1>5, <1>6, Zenon DEF Next, MissionLoop

\* What is owed is at most the burn time of the automatic deployment.
LEMMA OwedType ==
    ASSUME AntennaTypeOK
    PROVE  Owed \in [Channels -> 0..2]
<1>1. burning \in [Channels -> 0..2] /\ forward \in [Channels -> 0..2]
  BY AntennaTypes DEF BurnTime
<1> QED
  BY <1>1 DEF Owed

\* What a command that is carried out does to what is owed on its channel.
LEMMA OwedObeyed ==
    ASSUME AntennaTypeOK, NextStep.channel \in Channels, BurnTime(NextStep.antenna) \in 0..2,
           Obeyed(NextStep)
    PROVE  LET c == NextStep.channel
               command == NextStep.command
           IN  /\ Owed' = CASE command = "Deploy" -> [Owed EXCEPT ![c] = BurnTime(NextStep.antenna)]
                            [] command \in {"Reset", "Disarm", "PowerOff"} -> [Owed EXCEPT ![c] = 0]
                            [] OTHER -> Owed
               /\ cutShort' = (cutShort \/ (command \in {"Disarm", "PowerOff"} /\ Owed[c] > 0))
<1> DEFINE c == NextStep.channel
           command == NextStep.command
           n == BurnTime(NextStep.antenna)
<1>1. burning \in [Channels -> 0..2] /\ forward \in [Channels -> 0..2]
  BY AntennaTypes DEF BurnTime
<1>2. /\ burning' = CASE command = "Deploy" -> [burning EXCEPT ![c] = n]
                      [] command \in {"Reset", "Disarm", "PowerOff"} -> [burning EXCEPT ![c] = 0]
                      [] OTHER -> burning
      /\ forward' = IF command \in {"Deploy", "Reset", "Disarm", "PowerOff"}
                    THEN [forward EXCEPT ![c] = 0] ELSE forward
      /\ cutShort' = (cutShort \/ (command \in {"Disarm", "PowerOff"} /\ burning[c] > forward[c]))
  BY Zenon DEF Obeyed
<1>3. c \in Channels /\ n \in 0..2
  OBVIOUS
<1>4. Owed' = [k \in Channels |-> IF burning'[k] > forward'[k] THEN burning'[k] - forward'[k] ELSE 0]
  BY DEF Owed
<1> HIDE DEF c, command, n
<1>5. Owed[c] > 0 <=> burning[c] > forward[c]
  BY <1>1, <1>3 DEF Owed
<1>6. Owed' = CASE command = "Deploy" -> [Owed EXCEPT ![c] = n]
                [] command \in {"Reset", "Disarm", "PowerOff"} -> [Owed EXCEPT ![c] = 0]
                [] OTHER -> Owed
  <2>1. /\ command = "Deploy" => Owed' = [Owed EXCEPT ![c] = n]
        /\ command \in {"Reset", "Disarm", "PowerOff"} => Owed' = [Owed EXCEPT ![c] = 0]
        /\ command \notin {"Deploy", "Reset", "Disarm", "PowerOff"} => Owed' = Owed
    <3>1. ASSUME command = "Deploy"
          PROVE  Owed' = [Owed EXCEPT ![c] = n]
      <4>1. Owed' = [k \in Channels |-> IF k = c THEN n ELSE Owed[k]]
        <5>1. burning' = [burning EXCEPT ![c] = n] /\ forward' = [forward EXCEPT ![c] = 0]
          BY <1>2, <3>1
        <5> QED
          BY <1>1, <1>3, <1>4, <5>1 DEF Owed
      <4>2. Owed \in [Channels -> 0..2]
        BY OwedType
      <4> QED
        BY <4>1, <4>2
    <3>2. ASSUME command \in {"Reset", "Disarm", "PowerOff"}
          PROVE  Owed' = [Owed EXCEPT ![c] = 0]
      <4>1. Owed' = [k \in Channels |-> IF k = c THEN 0 ELSE Owed[k]]
        <5>1. burning' = [burning EXCEPT ![c] = 0] /\ forward' = [forward EXCEPT ![c] = 0]
          BY <1>2, <3>2
        <5> QED
          BY <1>1, <1>3, <1>4, <5>1 DEF Owed
      <4>2. Owed \in [Channels -> 0..2]
        BY OwedType
      <4> QED
        BY <4>1, <4>2
    <3>3. ASSUME command \notin {"Deploy", "Reset", "Disarm", "PowerOff"}
          PROVE  Owed' = Owed
      <4>1. burning' = burning /\ forward' = forward
        BY <1>2, <3>3
      <4> QED
        BY <1>4, <4>1 DEF Owed
    <3> QED
      BY <3>1, <3>2, <3>3
  <2> QED
    BY <2>1
<1> QED
  BY <1>2, <1>5, <1>6 DEF c, command, n

\* A minute that passes is a minute less that is owed.
LEMMA OwedTicked ==
    ASSUME AntennaTypeOK, Tick
    PROVE  Owed' = [c \in Channels |-> IF Owed[c] > 0 THEN Owed[c] - 1 ELSE 0]
<1>1. burning \in [Channels -> 0..2] /\ forward \in [Channels -> 0..2]
  BY AntennaTypes DEF BurnTime
<1>2. /\ burning' = [c \in Channels |-> IF burning[c] > 0 THEN burning[c] - 1 ELSE 0]
      /\ forward' = [c \in Channels |-> AtMost(burning'[c], forward[c])]
  BY DEF Tick
<1>3. Owed' = [c \in Channels |-> IF burning'[c] > forward'[c] THEN burning'[c] - forward'[c] ELSE 0]
  BY DEF Owed
<1>4. ASSUME NEW c \in Channels
      PROVE  Owed'[c] = IF Owed[c] > 0 THEN Owed[c] - 1 ELSE 0
  <2> DEFINE b == burning[c]
             f == forward[c]
             bb == burning'[c]
             ff == forward'[c]
  <2>1. b \in 0..2 /\ f \in 0..2 /\ bb = (IF b > 0 THEN b - 1 ELSE 0) /\ ff = AtMost(bb, f)
    BY <1>1, <1>2
  <2>2. Owed'[c] = (IF bb > ff THEN bb - ff ELSE 0) /\ Owed[c] = (IF b > f THEN b - f ELSE 0)
    BY <1>3 DEF Owed
  <2> HIDE DEF b, f, bb, ff
  <2> QED
    BY <2>1, <2>2 DEF AtMost
<1> QED
  BY <1>3, <1>4

\* A correction forward takes its minutes from what is owed, one back takes none.
LEMMA OwedCorrected ==
    ASSUME AntennaTypeOK, CorrectTime
    PROVE  /\ time' \in Int /\ Owed' \in [Channels -> 0..2]
           /\ time' <= time => Owed' = Owed
           /\ \A c \in Channels : /\ Owed'[c] <= Owed[c]
                                  /\ time' > time => \/ Owed'[c] = 0
                                                     \/ Owed'[c] + (time' - time) <= Owed[c]
<1>1. time \in Int /\ time' \in Int
  <2>1. time \in 0..MaxTime /\ lastMissionTime \in 0..MaxTime
    BY AntennaTypes, Zenon
  <2>2. time' = time \/ time' \in lastMissionTime..MaxTime
    BY DEF CorrectTime
  <2> QED
    BY <2>1, <2>2, AntennaConstants
<1>2. burning \in [Channels -> 0..2] /\ forward \in [Channels -> 0..2]
  BY AntennaTypes DEF BurnTime
<1>3. /\ burning' = burning
      /\ forward' = [c \in Channels |-> IF time' > time
                                       THEN AtMost(burning[c], forward[c] + (time' - time))
                                       ELSE forward[c]]
  BY DEF CorrectTime
<1>4. Owed' = [c \in Channels |-> IF burning'[c] > forward'[c] THEN burning'[c] - forward'[c] ELSE 0]
  BY DEF Owed
<1> DEFINE t == time'
<1>5. ASSUME NEW c \in Channels
      PROVE  /\ Owed'[c] \in 0..2 /\ Owed'[c] <= Owed[c]
             /\ t <= time => Owed'[c] = Owed[c]
             /\ t > time => Owed'[c] = 0 \/ Owed'[c] + (t - time) <= Owed[c]
  <2> DEFINE b == burning[c]
             f == forward[c]
             ff == forward'[c]
  <2>1. b \in 0..2 /\ f \in 0..2 /\ t \in Int
        /\ ff = IF t > time THEN AtMost(b, f + (t - time)) ELSE f
    BY <1>1, <1>2, <1>3
  <2>2. Owed'[c] = (IF b > ff THEN b - ff ELSE 0) /\ Owed[c] = (IF b > f THEN b - f ELSE 0)
    BY <1>3, <1>4 DEF Owed
  <2> HIDE DEF b, f, ff, t
  <2> QED
    BY <1>1, <2>1, <2>2 DEF AtMost
<1>6. Owed \in [Channels -> 0..2]
  BY OwedType
<1>7. Owed' \in [Channels -> 0..2]
  BY <1>4, <1>5
<1>8. t <= time => Owed' = Owed
  BY <1>5, <1>6, <1>7
<1> QED
  BY <1>1, <1>5, <1>7, <1>8

\* What is left of burns that are not covered yet is minutes.
LEMMA UncoveredType ==
    ASSUME AntennaTypeOK
    PROVE  Uncovered \in 0..2 /\ time \in Nat /\ stateTime \in Nat /\ nextStepAt \in Nat
<1>1. time \in 0..MaxTime /\ stateTime \in 0..MaxTime /\ nextStepAt \in 0..(MaxTime + 3)
      /\ MaxTime \in Nat /\ StepCount \in Nat /\ step \in 0..StepCount
      /\ Owed \in [Channels -> 0..2]
  BY OwedType, AntennaTypes, AntennaConstants, Zenon
<1>2. CASE step = StepCount \/ Place \in {0, 1, 2}
  BY <1>1, <1>2 DEF Uncovered
<1>3. CASE step # StepCount /\ Place \notin {0, 1, 2}
  <2>1. step \in 0..(StepCount - 1)
    BY <1>1, <1>3
  <2>2. NextStep.channel \in Channels /\ NextStep.wait \in 0..3
    BY <2>1, StepTable DEF NextStep, Channels
  <2>3. Owed[NextStep.channel] \in 0..2
    BY <1>1, <2>2
  <2> DEFINE b == Owed[NextStep.channel]
             w == NextStep.wait
  <2> HIDE DEF b, w
  <2>4. Uncovered = LET left == b - (IF Place = 3 THEN w ELSE 0) IN IF left > 0 THEN left ELSE 0
    BY <1>3, Zenon DEF Uncovered, b, w
  <2>5. b \in 0..2 /\ w \in 0..3
    BY <2>2, <2>3 DEF b, w
  <2> QED
    BY <1>1, <2>4, <2>5
<1> QED
  BY <1>2, <1>3

\* A step that is due finds nothing left of a burn that it would cut short, and
\* the wait behind it covers what is left then.
LEMMA CoveredByStep ==
    ASSUME AntennaTypeOK, StepDue, BurnsCovered, BurnNotCut, PerformStep
    PROVE  BurnsCovered' /\ BurnNotCut'
<1>1. /\ step \in 0..(StepCount - 1) /\ loopPc = "Antenna" /\ "Antenna" \in runnable
      /\ loopPc' = "Beacon" /\ UNCHANGED <<time, stateTime, runnable>>
      /\ stateTime = time /\ Uncovered = 0
      /\ StepCount \in Nat /\ time \in Nat
  BY StepPerformed, UncoveredType, AntennaConstants DEF BurnsCovered
<1>2. Owed \in [Channels -> 0..2] /\ cutShort \in BOOLEAN
  BY OwedType, AntennaTypes, Zenon
<1> DEFINE t == NextStep
           c == t.channel
           b == Owed[c]
           p == step % 6
<1>3. /\ p \in 0..5 /\ c \in Channels /\ t.wait \in 0..3
      /\ p = 0 => t.command = "PowerOn" /\ t.wait = 0
      /\ p = 1 => t.command = "Reset" /\ t.wait = 1
      /\ p = 2 => t.command = "Arm" /\ t.wait = 1
      /\ p = 3 => t.command = "Deploy" /\ t.wait = DeployWait(t.antenna)
      /\ p = 4 => t.command = "Disarm" /\ t.wait = 0
      /\ p = 5 => t.command = "PowerOff" /\ t.wait = 2
  BY <1>1, StepTable DEF NextStep, Channels
<1>4. BurnTime(t.antenna) <= DeployWait(t.antenna) /\ BurnTime(t.antenna) \in 0..2
      /\ DeployWait(t.antenna) \in 1..3
  BY DEF BurnTime, DeployWait
<1>5. Place = p /\ Len(FullSequence) = 6
  BY AntennaConstants DEF Place
<1>6. b \in 0..2
  BY <1>2, <1>3
<1>7. /\ p = 3 => b <= t.wait
      /\ p \in {4, 5} => b = 0
  BY <1>1, <1>3, <1>5, <1>6 DEF Uncovered, NextStep
<1>8. ASSUME UNCHANGED <<step, nextStepAt, Owed, cutShort>>
      PROVE  BurnsCovered' /\ BurnNotCut'
  <2>1. Uncovered' = Uncovered
    BY <1>8, Zenon DEF Uncovered, Place, NextStep
  <2> QED
    BY <1>1, <1>8, <2>1 DEF BurnsCovered, BurnNotCut
<1> DEFINE next == Steps[step + 2]
           q == (step + 1) % 6
<1>9. ASSUME step' = step + 1
      PROVE  /\ step + 1 = StepCount \/ q \in {0, 1, 2} => Uncovered' = 0
             /\ ~(step + 1 = StepCount \/ q \in {0, 1, 2}) =>
                   Uncovered' = LET left == Owed'[next.channel] - (IF q = 3 THEN next.wait ELSE 0)
                                IN  IF left > 0 THEN left ELSE 0
  <2>1. step' % Len(FullSequence) = q /\ step' + 1 = step + 2
    BY <1>1, <1>5, <1>9
  <2> QED
    BY <1>9, <2>1, Zenon DEF Uncovered, Place, NextStep
<1>10. p # 5 => /\ q = p + 1 /\ step + 1 < StepCount
                /\ next.channel = c
                /\ q = 3 => next.wait = DeployWait(next.antenna)
  <2>1. ASSUME p # 5
        PROVE  step + 1 \in 0..(StepCount - 1) /\ q = p + 1 /\ step + 1 < StepCount
               /\ (step + 1 < PerChannel <=> step < PerChannel)
    BY <1>1, <2>1, PlaceMoves, ChannelKept
  <2>2. (step + 1) + 1 = step + 2
    BY <1>1
  <2>3. ASSUME p # 5
        PROVE  next.channel = c /\ (q = 3 => next.wait = DeployWait(next.antenna))
    BY <1>1, <2>1, <2>2, <2>3, StepTable DEF NextStep
  <2> QED
    BY <2>1, <2>3
<1>11. p = 5 => q = 0
  BY <1>1, PlaceMoves
<1>12. DeployWait(next.antenna) \in 1..3
  BY DEF DeployWait
<1> HIDE DEF t, c, b, p, next, q
<1>13. ASSUME step' = step + 1, nextStepAt' = stateTime + t.wait, Owed' \in [Channels -> 0..2],
              p = 3 => Owed'[c] <= t.wait, p = 4 => Owed'[c] = 0, ~cutShort'
       PROVE  BurnsCovered' /\ BurnNotCut'
  <2>1. Uncovered' \in 0..2 /\ (Uncovered' = 0 \/ Uncovered' <= t.wait)
    <3>1. Owed'[c] \in 0..2
      BY <1>3, <1>13
    <3> DEFINE bb == Owed'[c]
               u == Uncovered'
    <3>2. bb \in 0..2 /\ (p = 3 => bb <= t.wait) /\ (p = 4 => bb = 0)
      BY <1>13, <3>1
    <3>3. /\ step + 1 = StepCount \/ q \in {0, 1, 2} => u = 0
          /\ ~(step + 1 = StepCount \/ q \in {0, 1, 2}) /\ p # 5 =>
                u = LET left == bb - (IF q = 3 THEN next.wait ELSE 0) IN IF left > 0 THEN left ELSE 0
      BY <1>9, <1>10, <1>13
    <3> HIDE DEF bb, u
    <3>4. CASE p \in {0, 1, 5}
      BY <1>10, <1>11, <3>3, <3>4 DEF u
    <3>5. CASE p = 2
      <4>1. q = 3 /\ next.wait \in 1..3 /\ t.wait = 1
        BY <1>3, <1>10, <1>12, <3>5
      <4>2. u \in 0..2 /\ u <= 1
        BY <1>10, <3>2, <3>3, <3>5, <4>1
      <4> QED
        BY <4>1, <4>2 DEF u
    <3>6. CASE p \in {3, 4}
      <4>1. q \in {4, 5}
        BY <1>10, <3>6
      <4>2. u = 0 \/ u = bb
        BY <1>10, <3>2, <3>3, <3>6, <4>1
      <4>3. u \in 0..2 /\ (u = 0 \/ u <= t.wait)
        BY <3>2, <3>6, <4>2
      <4> QED
        BY <4>3 DEF u
    <3> QED
      BY <1>3, <3>4, <3>5, <3>6
  <2>2. Uncovered' = 0 \/ time' + Uncovered' <= nextStepAt'
    <3> DEFINE u == Uncovered'
    <3>1. u \in 0..2 /\ (u = 0 \/ u <= t.wait)
      BY <2>1
    <3> HIDE DEF u
    <3>3. u = 0 \/ time + u <= time + t.wait
      BY <1>1, <1>3, <3>1
    <3>4. time' = time /\ nextStepAt' = time + t.wait
      BY <1>1, <1>13
    <3> QED
      BY <3>3, <3>4, Zenon DEF u
  <2> QED
    BY <1>1, <1>13, <2>2 DEF BurnsCovered, BurnNotCut
<1>14. ASSUME Obeyed(t)
       PROVE  /\ Owed' \in [Channels -> 0..2] /\ ~cutShort'
              /\ p = 3 => Owed'[c] <= t.wait
              /\ p = 4 => Owed'[c] = 0
  <2>1. /\ Owed' = CASE t.command = "Deploy" -> [Owed EXCEPT ![c] = BurnTime(t.antenna)]
                     [] t.command \in {"Reset", "Disarm", "PowerOff"} -> [Owed EXCEPT ![c] = 0]
                     [] OTHER -> Owed
        /\ cutShort' = (cutShort \/ (t.command \in {"Disarm", "PowerOff"} /\ Owed[c] > 0))
    BY <1>3, <1>4, <1>14, OwedObeyed, Zenon DEF t, c
  <2>2. \/ Owed' = Owed
        \/ Owed' = [Owed EXCEPT ![c] = 0]
        \/ Owed' = [Owed EXCEPT ![c] = BurnTime(t.antenna)]
    BY <2>1, Zenon
  <2>3. Owed' \in [Channels -> 0..2]
    BY <1>2, <1>3, <1>4, <2>2
  <2>4. p = 3 => Owed'[c] <= t.wait
    BY <1>2, <1>3, <1>4, <2>1
  <2>5. p = 4 => Owed'[c] = 0
    BY <1>2, <1>3, <2>1
  <2>6. ~(t.command \in {"Disarm", "PowerOff"} /\ Owed[c] > 0)
    <3>1. t.command \in {"Disarm", "PowerOff"} => p \in {4, 5}
      BY <1>3
    <3>2. p \in {4, 5} => Owed[c] = 0
      BY <1>7 DEF b
    <3> QED
      BY <3>1, <3>2
  <2>7. ~cutShort'
    BY <2>1, <2>6, Zenon DEF BurnNotCut
  <2> QED
    BY <2>3, <2>4, <2>5, <2>7
<1>15. ASSUME UNCHANGED <<Owed, cutShort>>
       PROVE  /\ Owed' \in [Channels -> 0..2] /\ ~cutShort'
              /\ p = 3 => Owed'[c] <= t.wait
              /\ p = 4 => Owed'[c] = 0
  BY <1>2, <1>7, <1>15, Zenon DEF BurnNotCut, b
<1>19. UNCHANGED <<burning, forward>> => Owed' = Owed
  BY Zenon DEF Owed
<1>16. t = NextStep
  BY DEF t
<1>17. CASE Obeyed(NextStep) /\ step' = step + 1 /\ nextStepAt' = stateTime + NextStep.wait
  BY <1>13, <1>14, <1>16, <1>17
<1>18. CASE UNCHANGED <<power, burning, forward, cutShort>> /\ step' = step + 1
            /\ nextStepAt' = stateTime + NextStep.wait
  BY <1>13, <1>15, <1>16, <1>18, <1>19
<1> QED
  BY <1>8, <1>17, <1>18, <1>19, StepPerformed

\* A minute less of the wait is a minute less of the burn.
LEMMA CoveredByTick ==
    ASSUME AntennaTypeOK, BurnsCovered, Tick
    PROVE  BurnsCovered'
<1>1. loopPc = "Idle" /\ loopPc' = "Idle" /\ time' = time + 1 /\ UNCHANGED <<step, nextStepAt, runnable>>
      /\ Owed' = [c \in Channels |-> IF Owed[c] > 0 THEN Owed[c] - 1 ELSE 0]
  BY OwedTicked DEF Tick, task
<1>2. Uncovered \in 0..2 /\ time \in Nat /\ nextStepAt \in Nat
  BY UncoveredType
<1>3. Owed \in [Channels -> 0..2] /\ step \in 0..StepCount /\ StepCount \in Nat
  BY OwedType, AntennaTypes, AntennaConstants, Zenon
<1> DEFINE u == Uncovered'
<1>4. u = 0 \/ (u \in 0..2 /\ u + 1 = Uncovered)
  <2>1. CASE step = StepCount \/ Place \in {0, 1, 2}
    BY <1>1, <2>1, Zenon DEF Uncovered, Place
  <2>2. CASE step # StepCount /\ Place \notin {0, 1, 2}
    <3> DEFINE c == NextStep.channel
               w == IF Place = 3 THEN NextStep.wait ELSE 0
               b == Owed[c]
               bb == Owed'[c]
    <3>1. step \in 0..(StepCount - 1)
      BY <1>3, <2>2
    <3>2. c \in Channels /\ w \in 0..3
      BY <3>1, StepTable DEF NextStep, Channels
    <3>3. b \in 0..2 /\ bb = IF b > 0 THEN b - 1 ELSE 0
      BY <1>1, <1>3, <3>2
    <3>4. Uncovered = IF b - w > 0 THEN b - w ELSE 0
      BY <2>2, Zenon DEF Uncovered
    <3>5. u = IF bb - w > 0 THEN bb - w ELSE 0
      <4>1. u = IF step' = StepCount \/ Place' \in {0, 1, 2} THEN 0
                ELSE LET left == Owed'[NextStep'.channel]
                                   - (IF Place' = 3 THEN NextStep'.wait ELSE 0)
                     IN  IF left > 0 THEN left ELSE 0
        BY Zenon DEF Uncovered
      <4>2. step' = step /\ Place' = Place /\ NextStep' = NextStep
        BY <1>1, Zenon DEF Place, NextStep
      <4> QED
        BY <2>2, <4>1, <4>2, Zenon
    <3> HIDE DEF c, w, b, bb, u
    <3> QED
      BY <3>2, <3>3, <3>4, <3>5
  <2> QED
    BY <2>1, <2>2
<1>5. Uncovered = 0 \/ time + Uncovered <= nextStepAt
  BY DEF BurnsCovered
<1> HIDE DEF u
<1>6. u = 0 \/ (time + 1) + u <= nextStepAt
  BY <1>2, <1>4, <1>5
<1>7. Uncovered' = 0 \/ time' + Uncovered' <= nextStepAt'
  BY <1>1, <1>6, Zenon DEF u
<1> QED
  BY <1>1, <1>7 DEF BurnsCovered

\* A correction forward takes no more from a wait than from what is owed, and one
\* back makes the wait longer.
LEMMA CoveredByCorrection ==
    ASSUME AntennaTypeOK, BurnsCovered, CorrectTime
    PROVE  BurnsCovered'
<1>1. loopPc = "CorrectTime" /\ loopPc' = "Antenna" /\ stateTime' = time'
      /\ UNCHANGED <<step, nextStepAt, runnable>>
  BY DEF CorrectTime, Goto, task
<1>2. Uncovered \in 0..2 /\ time \in Nat /\ nextStepAt \in Nat /\ time' \in Int
  BY UncoveredType, OwedCorrected
<1>3. Owed \in [Channels -> 0..2] /\ step \in 0..StepCount /\ StepCount \in Nat
  BY OwedType, AntennaTypes, AntennaConstants, Zenon
<1> DEFINE u == Uncovered'
           t == time'
<1>4. /\ u \in 0..2 /\ u <= Uncovered
      /\ t <= time => u = Uncovered
      /\ t > time => u = 0 \/ u + (t - time) <= Uncovered
  <2>1. step' = step /\ Place' = Place /\ NextStep' = NextStep
    BY <1>1, Zenon DEF Place, NextStep
  <2>2. CASE step = StepCount \/ Place \in {0, 1, 2}
    <3>1. u = 0 /\ Uncovered = 0
      BY <2>1, <2>2, Zenon DEF Uncovered
    <3> HIDE DEF u, t
    <3> QED
      BY <3>1
  <2>3. CASE step # StepCount /\ Place \notin {0, 1, 2}
    <3> DEFINE c == NextStep.channel
               w == IF Place = 3 THEN NextStep.wait ELSE 0
               b == Owed[c]
               bb == Owed'[c]
    <3>1. step \in 0..(StepCount - 1)
      BY <1>3, <2>3
    <3>2. c \in Channels /\ w \in 0..3
      BY <3>1, StepTable DEF NextStep, Channels
    <3>3. b \in 0..2 /\ bb \in 0..2 /\ bb <= b
          /\ (t <= time => bb = b)
          /\ (t > time => bb = 0 \/ bb + (t - time) <= b)
      <4>1. /\ Owed' \in [Channels -> 0..2] /\ (t <= time => Owed' = Owed)
            /\ \A k \in Channels : /\ Owed'[k] <= Owed[k]
                                   /\ t > time => Owed'[k] = 0 \/ Owed'[k] + (t - time) <= Owed[k]
        BY OwedCorrected
      <4>2. b \in 0..2 /\ bb \in 0..2
        BY <1>3, <3>2, <4>1
      <4>3. t <= time => bb = b
        BY <4>1
      <4>4. bb <= b /\ (t > time => bb = 0 \/ bb + (t - time) <= b)
        BY <3>2, <4>1, Zenon
      <4> QED
        BY <4>2, <4>3, <4>4
    <3>4. Uncovered = IF b - w > 0 THEN b - w ELSE 0
      BY <2>3, Zenon DEF Uncovered
    <3>5. u = IF bb - w > 0 THEN bb - w ELSE 0
      BY <2>1, <2>3, Zenon DEF Uncovered
    <3> HIDE DEF c, w, b, bb, u, t
    <3>6. t \in Int
      BY <1>2 DEF t
    <3> QED
      BY <1>2, <3>2, <3>3, <3>4, <3>5, <3>6
  <2> QED
    BY <2>2, <2>3
<1>5. Uncovered = 0 \/ time + Uncovered <= nextStepAt
  BY DEF BurnsCovered
<1>6. t \in Int
  BY <1>2
<1>7. u = 0 \/ t + u <= nextStepAt
  <2> HIDE DEF u, t
  <2> QED
    BY <1>2, <1>4, <1>5, <1>6
<1>8. "Antenna" \in runnable => u = 0
  <2>1. "Antenna" \in runnable => Uncovered = 0
    BY <1>1 DEF BurnsCovered
  <2> HIDE DEF u, t
  <2> QED
    BY <1>4, <2>1
<1> QED
  BY <1>1, <1>7, <1>8, Zenon DEF BurnsCovered

\* The first place of the table covers any burn that a reset has left.
LEMMA CoveredAtStart ==
    ASSUME step' = 0, loopPc' = "Idle"
    PROVE  BurnsCovered'
<1>1. Place' = 0
  BY AntennaConstants DEF Place
<1> QED
  BY <1>1 DEF BurnsCovered, Uncovered

(* The waits that are left still cover every burn.                          *)
LEMMA CoveredStep ==
    ASSUME AntennaTypeOK, StepDue, BurnsCovered, BurnNotCut, [Next]_vars
    PROVE  BurnsCovered' /\ BurnNotCut'
<1>1. Uncovered \in 0..2 /\ time \in Nat /\ stateTime \in Nat /\ nextStepAt \in Nat
  BY UncoveredType
<1>2. ASSUME UNCHANGED <<step, burning, forward>>
      PROVE  Uncovered' = Uncovered
  <2>1. Owed' = Owed /\ step' = step /\ Place' = Place /\ NextStep' = NextStep
    BY <1>2, Zenon DEF Owed, Place, NextStep
  <2> QED
    BY <2>1, Zenon DEF Uncovered
<1>3. CASE UpdateTime
  BY <1>2, <1>3 DEF UpdateTime, Goto, task, hardware, history, BurnsCovered, BurnNotCut
<1>4. CASE Update
  BY <1>2, <1>4 DEF Update, Goto, task, hardware, history, BurnsCovered, BurnNotCut
<1>5. CASE DetermineActions
  <2>1. loopPc = "Determine"
        /\ UNCHANGED <<time, stateTime, step, nextStepAt, burning, forward, cutShort>>
        /\ ("Antenna" \in runnable' => stateTime >= nextStepAt)
    BY <1>5, Zenon DEF DetermineActions, Goto, Condition, task, hardware, history
  <2>2. stateTime = time /\ (Uncovered = 0 \/ time + Uncovered <= nextStepAt)
    BY <2>1 DEF BurnsCovered
  <2>3. "Antenna" \in runnable' => Uncovered = 0
    BY <1>1, <2>1, <2>2
  <2> QED
    BY <1>2, <2>1, <2>2, <2>3 DEF BurnsCovered, BurnNotCut
<1>6. CASE CorrectTime
  BY <1>6, CoveredByCorrection DEF CorrectTime, history, BurnNotCut
<1>7. CASE PerformStep
  BY <1>7, CoveredByStep
<1>8. CASE BeaconUpdate
  BY <1>2, <1>8 DEF BeaconUpdate, Goto, task, hardware, history, BurnsCovered, BurnNotCut
<1>9. CASE SaveState
  BY <1>2, <1>9 DEF SaveState, Goto, task, hardware, history, BurnsCovered, BurnNotCut
<1>10. CASE SkipAction
  BY <1>2, <1>10 DEF SkipAction, Goto, task, hardware, history, BurnsCovered, BurnNotCut
<1>11. ASSUME NEW value \in BOOLEAN, SetAntennaDeploymentMask(value)
       PROVE  BurnsCovered' /\ BurnNotCut'
  BY <1>2, <1>11 DEF SetAntennaDeploymentMask, task, hardware, history, BurnsCovered, BurnNotCut
<1>12. CASE Tick
  BY <1>12, CoveredByTick DEF Tick, history, BurnNotCut
<1>13. ASSUME NEW powerCycled \in PowerCycledResets, Reset(powerCycled)
       PROVE  BurnsCovered' /\ BurnNotCut'
  BY <1>13, CoveredAtStart DEF Reset, BurnNotCut
<1>14. CASE UNCHANGED vars
  BY <1>2, <1>14 DEF vars, task, hardware, history, BurnsCovered, BurnNotCut
<1> QED
  BY <1>3, <1>4, <1>5, <1>6, <1>7, <1>8, <1>9, <1>10, <1>11, <1>12, <1>13, <1>14
  DEF Next, MissionLoop

(* The invariant holds when the task starts.                                *)
LEMMA AntennaInit ==
    ASSUME Init
    PROVE  AntennaTypeOK /\ StepDue /\ DoneIsOff /\ BurnsCovered /\ BurnNotCut
<1>1. step = 0 /\ loopPc = "Idle" /\ ~cutShort
  BY Zenon DEF Init
<1>2. AntennaTypeOK
  BY AntennaTypeInit
<1>3. StepDue
  BY <1>1 DEF StepDue
<1>4. DoneIsOff
  <2>1. ~(0 >= PerChannel) /\ 0 # StepCount
    BY AntennaConstants
  <2> QED
    BY <1>1, <2>1 DEF DoneIsOff
<1>5. BurnsCovered
  <2>1. Place = 0
    BY <1>1, AntennaConstants DEF Place
  <2> QED
    BY <1>1, <2>1 DEF BurnsCovered, Uncovered
<1> QED
  BY <1>1, <1>2, <1>3, <1>4, <1>5 DEF BurnNotCut

\* ControllersAreOff: whatever resets, corrections of mission time, telecommands
\* and failures come between, after a deployment without a step given up both
\* controllers are off (antenna.cpp:64-69, 258-277).
THEOREM ControllersAreOff == Spec => [](TypeOK /\ ControllersOffAtEnd)
<1> DEFINE Inv == AntennaTypeOK /\ StepDue /\ DoneIsOff
<1>1. Init => Inv
  BY AntennaInit
<1>2. Inv /\ [Next]_vars => Inv'
  BY AntennaTypeStep, StepDueStep, DoneIsOffStep
<1>3. Inv => TypeOK /\ ControllersOffAtEnd
  <2> SUFFICES ASSUME Inv PROVE TypeOK /\ ControllersOffAtEnd
    OBVIOUS
  <2>1. StepCount >= PerChannel
    BY AntennaConstants
  <2> QED
    BY <2>1 DEF AntennaTypeOK, DoneIsOff, ControllersOffAtEnd, Channels
<1> HIDE DEF Inv
<1> QED
  BY <1>1, <1>2, <1>3, PTL DEF Spec

\* BurnsAreSafe: no burn of the table is ended before its time, but for the
\* minutes by which corrections put mission time forward while it burned,
\* wherever resets with and without a loss of power, failures, suspensions and
\* corrections in either direction fall (antenna.cpp:37-81, 125-148).
THEOREM BurnsAreSafe == Spec => []BurnsSafe
<1> DEFINE Inv == AntennaTypeOK /\ StepDue /\ BurnsCovered /\ BurnNotCut
<1>1. Init => Inv
  BY AntennaInit
<1>2. Inv /\ [Next]_vars => Inv'
  BY AntennaTypeStep, StepDueStep, CoveredStep
<1>3. Inv => BurnNotCut
  OBVIOUS
<1>4. TypeOK /\ ControllersOffAtEnd /\ BurnNotCut => BurnsSafe
  BY DEF BurnsSafe
<1> HIDE DEF Inv
<1> QED
  BY <1>1, <1>2, <1>3, <1>4, ControllersAreOff, PTL DEF Spec
=============================================================================
