------------------------ MODULE SailDeployment_proof ------------------------
(***************************************************************************)
(* What SailDeployment promises of the thermal knives, for every length of *)
(* a burn, every period of the corrections, every number of orders, stops  *)
(* and resets: that a knife switched off by the sail has burned in full,   *)
(* that none is left on, and that the sail alone burns with one after the  *)
(* other.  All of it while at most one command to the power system is lost.*)
(***************************************************************************)
EXTENDS SailDeployment, TLAPS

(* Of the commands to the power system one may be lost, no more: every      *)
(* command is given twice, and two lost ones may be the two of a pair.      *)
OneLoss == MaxFailures <= 1

(* The sail by itself: no solar array deployment, no stop of the sequence,  *)
(* mission time is never set, and a reset cuts the outputs.                 *)
SailAlone ==
    /\ MaxSads = 0 /\ MaxStops = 0 /\ MaxSetTimes = 0
    /\ PowerCycledResets \subseteq {TRUE}

(* Where the two switch-ons of a knife end, and its last switch-off is.     *)
FirstOn(k) == IF k = "Main" THEN 2 ELSE 9
LastOff(t, k) == FirstOn(k) + (IF t = "sail" THEN 6 ELSE 5)

(* A task has both switch-offs of a knife ahead of it, or at least one.     *)
BothOffsAhead(t, k) == step[t] < LastOff(t, k) - 1 /\ (t = "sads" => step[t] > 0)
OffAhead(t, k) == step[t] < LastOff(t, k) /\ (t = "sads" => step[t] > 0)

-----------------------------------------------------------------------------
(* The inductive invariant.                                                *)

\* The types, of the counters of the bounds too.
SailTypeOK == TypeOK /\ used \in [DOMAIN Bounds -> Nat]

\* Outside the evaluation and the dispatch of the actions none is runnable, and
\* those behind the dispatch are not.
LoopPlace ==
    /\ loopPc \notin {"Determine", "Dispatch"} => at = 1 /\ runnable = {}
    /\ loopPc = "Dispatch" => \A i \in DOMAIN Actions : i < at => Actions[i] \notin runnable

\* A task that is to run has a step left.
StepLeft == \A t \in Tasks : t \in runnable => ~Done(t)

\* A knife is powered only while a task has the commands ahead that switch it
\* off: both of a pair, unless a command was lost already.
PowerAnswered ==
    \A k \in Knives : power[k] =>
        \/ \E t \in Tasks : BothOffsAhead(t, k)
        \/ used["failure"] > 0 /\ \E t \in Tasks : OffAhead(t, k)

\* Without an order of a solar array deployment its task rests.
SadsRests ==
    used["sads"] = 0 =>
        /\ ~deployOnNextMissionLoop /\ ~isDeploying
        /\ "sads" \notin runnable /\ step["sads"] = 0

\* A solar array deployment is carried out only under way, and a deployment
\* that is not under way was not begun or has ended.
SadsPlace ==
    /\ "sads" \in runnable => isDeploying
    /\ ~isDeploying => step["sads"] = 0 \/ Done("sads")

\* An iteration looks at one time only, and a task that is to run is due.
OneTime ==
    used["setTime"] = 0 =>
        /\ loopPc # "Idle" => stateTime = time
        /\ \A t \in Tasks : t \in runnable => stateTime >= nextStepAfter[t]

\* How far the sail's sequence has come with a knife.
KnifeBurns(k) ==
    LET done == step["sail"]
        on == FirstOn(k)
    IN  /\ done = on => power[k] \/ used["failure"] > 0
        /\ done \in (on + 1)..(on + 4) => power[k]
        /\ done = on + 2 => "sail" \in burning[k] \/ used["failure"] > 0
        /\ done \in (on + 3)..(on + 4) => "sail" \in burning[k]
        /\ done = on + 4 =>
              burned[k] = WaitTime \/ burned[k] + nextStepAfter["sail"] >= WaitTime + time
        /\ done >= on + 5 => burned[k] = WaitTime

Burns == used["sads"] = 0 /\ used["setTime"] = 0 => \A k \in Knives : KnifeBurns(k)

\* The sail alone begins its sequence only once in a life, or anew when the
\* last one is over, so that the second knife is on only after the first.
InOrder ==
    /\ "OpeningStopped" \notin {sailState, currentState, saved.sail}
    /\ loopPc = "SailExchange" => currentState = sailState
    /\ sailState = "Waiting" => step["sail"] = 0
    /\ loopPc = "SailOpen" => step["sail"] = 0 \/ Done("sail")
    /\ "sail" \in runnable => sailState = "Opening"
    /\ power["Redundant"] => step["sail"] >= 9

SailInv == SailTypeOK /\ LoopPlace /\ StepLeft /\ PowerAnswered /\ SadsRests /\ SadsPlace /\ OneTime /\ Burns

-----------------------------------------------------------------------------
(* The constants and the table of the steps.                               *)

\* What the assumptions on the constants say, one by one.
LEMMA SailConstants ==
    /\ OpenTime \in Nat /\ MaxTime \in Nat /\ LatestReset \in Nat
    /\ WaitTime \in Nat \ {0} /\ CorrectionPeriod \in Nat \ {0}
    /\ SetTimes \subseteq 0..MaxTime /\ PowerCycledResets \subseteq BOOLEAN
    /\ DOMAIN Bounds = {"open", "stop", "sads", "setTime", "failure", "correction", "reset"}
    /\ \A what \in DOMAIN Bounds : Bounds[what] \in Nat
    /\ Bounds["failure"] = MaxFailures /\ Bounds["sads"] = MaxSads
    /\ Bounds["stop"] = MaxStops /\ Bounds["setTime"] = MaxSetTimes
<1>1. /\ {OpenTime, MaxTime, LatestReset} \subseteq Nat
      /\ {WaitTime, CorrectionPeriod} \subseteq Nat \ {0}
      /\ SetTimes \subseteq 0..MaxTime
  BY Zenon, TimesAssumption
<1>2. /\ {MaxOpens, MaxStops, MaxSads, MaxSetTimes, MaxFailures,
          MaxCorrections, MaxResets} \subseteq Nat
      /\ PowerCycledResets \subseteq BOOLEAN
  BY Zenon, BoundsAssumption
<1>3. DOMAIN Bounds = {"open", "stop", "sads", "setTime", "failure", "correction", "reset"}
  BY DEF Bounds
<1>4. \A what \in DOMAIN Bounds : Bounds[what] \in Nat
  BY <1>2 DEF Bounds
<1>5. Bounds["failure"] = MaxFailures /\ Bounds["sads"] = MaxSads
      /\ Bounds["stop"] = MaxStops /\ Bounds["setTime"] = MaxSetTimes
  BY DEF Bounds
<1> QED
  BY <1>1, <1>2, <1>3, <1>4, <1>5

\* The number of the step in front of which the commands of a knife begin.
Begin(t, k) == LastOff(t, k) - 6

\* The table of the steps (sail.cpp:9-40, sads.cpp:9-37): on, on, burn, burn,
\* wait, off, off, of one knife and then of the other.
LEMMA StepTable ==
    ASSUME NEW t \in Tasks, NEW i \in 1..Len(Steps[t])
    PROVE  LET command == Steps[t][i] IN
           /\ command.do \in {"IgnoreOverheat", "On", "Burn", "Wait", "Off"}
           /\ command.do = "Wait" <=> command = Wait
           /\ \A k \in Knives :
                 /\ i \in {Begin(t, k), Begin(t, k) + 1} <=> command = On(k)
                 /\ i \in {Begin(t, k) + 2, Begin(t, k) + 3} <=> command = Burn(k)
                 /\ i = Begin(t, k) + 4 => command = Wait
                 /\ i \in {Begin(t, k) + 5, Begin(t, k) + 6} <=> command = Off(k)
           /\ command.do \in {"On", "Burn", "Off"} => command.knife \in Knives
           /\ command.do = "On" => command = On(command.knife)
           /\ command.do = "Burn" => command = Burn(command.knife)
           /\ command.do = "Off" => command = Off(command.knife)
<1>1. Len(Steps["sail"]) = 15 /\ Len(Steps["sads"]) = 14
  BY DEF Steps, BothKnives, BurnWith
<1>2. /\ Steps["sail"][1] = Ignore
      /\ Steps["sail"][2] = On("Main") /\ Steps["sail"][3] = On("Main")
      /\ Steps["sail"][4] = Burn("Main") /\ Steps["sail"][5] = Burn("Main")
      /\ Steps["sail"][6] = Wait
      /\ Steps["sail"][7] = Off("Main") /\ Steps["sail"][8] = Off("Main")
      /\ Steps["sail"][9] = On("Redundant") /\ Steps["sail"][10] = On("Redundant")
      /\ Steps["sail"][11] = Burn("Redundant") /\ Steps["sail"][12] = Burn("Redundant")
      /\ Steps["sail"][13] = Wait
      /\ Steps["sail"][14] = Off("Redundant") /\ Steps["sail"][15] = Off("Redundant")
  BY DEF Steps, BothKnives, BurnWith
<1>3. /\ Steps["sads"][1] = On("Main") /\ Steps["sads"][2] = On("Main")
      /\ Steps["sads"][3] = Burn("Main") /\ Steps["sads"][4] = Burn("Main")
      /\ Steps["sads"][5] = Wait
      /\ Steps["sads"][6] = Off("Main") /\ Steps["sads"][7] = Off("Main")
      /\ Steps["sads"][8] = On("Redundant") /\ Steps["sads"][9] = On("Redundant")
      /\ Steps["sads"][10] = Burn("Redundant") /\ Steps["sads"][11] = Burn("Redundant")
      /\ Steps["sads"][12] = Wait
      /\ Steps["sads"][13] = Off("Redundant") /\ Steps["sads"][14] = Off("Redundant")
  BY DEF Steps, BothKnives, BurnWith
<1>4. /\ Begin("sail", "Main") = 2 /\ Begin("sail", "Redundant") = 9
      /\ Begin("sads", "Main") = 1 /\ Begin("sads", "Redundant") = 8
  BY DEF Begin, LastOff, FirstOn
<1>5. /\ Ignore.do = "IgnoreOverheat" /\ Wait.do = "Wait"
      /\ \A k \in Knives : On(k).do = "On" /\ On(k).knife = k
      /\ \A k \in Knives : Burn(k).do = "Burn" /\ Burn(k).knife = k
      /\ \A k \in Knives : Off(k).do = "Off" /\ Off(k).knife = k
  BY DEF On, Burn, Wait, Off, Ignore
<1>6. \A k \in Knives : k = "Main" \/ k = "Redundant"
  BY DEF Knives
<1>7. "Main" \in Knives /\ "Redundant" \in Knives
  BY DEF Knives
<1>8. CASE t = "sail"
  <2>0. Len(Steps[t]) = 15
    BY <1>1, <1>8, Zenon
  <2>1. \/ i = 1 \/ i = 2 \/ i = 3 \/ i = 4 \/ i = 5 \/ i = 6 \/ i = 7 \/ i = 8 \/ i = 9
        \/ i = 10 \/ i = 11 \/ i = 12 \/ i = 13 \/ i = 14 \/ i = 15
    BY <2>0
  <2> DEFINE command == Steps["sail"][i]
  <2>2. /\ i = 1 => command = Ignore
        /\ i = 2 \/ i = 3 => command = On("Main")
        /\ i = 4 \/ i = 5 => command = Burn("Main")
        /\ i = 6 \/ i = 13 => command = Wait
        /\ i = 7 \/ i = 8 => command = Off("Main")
        /\ i = 9 \/ i = 10 => command = On("Redundant")
        /\ i = 11 \/ i = 12 => command = Burn("Redundant")
        /\ i = 14 \/ i = 15 => command = Off("Redundant")
    BY <1>2, Zenon
  <2> HIDE DEF command
  <2>3. /\ command.do \in {"IgnoreOverheat", "On", "Burn", "Wait", "Off"}
        /\ command.do = "Wait" <=> command = Wait
        /\ command.do \in {"On", "Burn", "Off"} => command.knife \in Knives
        /\ command.do = "On" => command = On(command.knife)
        /\ command.do = "Burn" => command = Burn(command.knife)
        /\ command.do = "Off" => command = Off(command.knife)
    BY <2>1, <2>2, <1>5, <1>7
  <2>4. ASSUME NEW k \in Knives
        PROVE  /\ i \in {Begin(t, k), Begin(t, k) + 1} <=> command = On(k)
               /\ i \in {Begin(t, k) + 2, Begin(t, k) + 3} <=> command = Burn(k)
               /\ i = Begin(t, k) + 4 => command = Wait
               /\ i \in {Begin(t, k) + 5, Begin(t, k) + 6} <=> command = Off(k)
    BY <2>1, <2>2, <1>4, <1>8, <1>5, <1>6, <1>7
  <2> QED
    BY <2>3, <2>4, <1>8 DEF command
<1>9. CASE t = "sads"
  <2>0. Len(Steps[t]) = 14
    BY <1>1, <1>9, Zenon
  <2>1. \/ i = 1 \/ i = 2 \/ i = 3 \/ i = 4 \/ i = 5 \/ i = 6 \/ i = 7 \/ i = 8 \/ i = 9
        \/ i = 10 \/ i = 11 \/ i = 12 \/ i = 13 \/ i = 14
    BY <2>0
  <2> DEFINE command == Steps["sads"][i]
  <2>2. /\ i = 1 \/ i = 2 => command = On("Main")
        /\ i = 3 \/ i = 4 => command = Burn("Main")
        /\ i = 5 \/ i = 12 => command = Wait
        /\ i = 6 \/ i = 7 => command = Off("Main")
        /\ i = 8 \/ i = 9 => command = On("Redundant")
        /\ i = 10 \/ i = 11 => command = Burn("Redundant")
        /\ i = 13 \/ i = 14 => command = Off("Redundant")
    BY <1>3, Zenon
  <2> HIDE DEF command
  <2>3. /\ command.do \in {"IgnoreOverheat", "On", "Burn", "Wait", "Off"}
        /\ command.do = "Wait" <=> command = Wait
        /\ command.do \in {"On", "Burn", "Off"} => command.knife \in Knives
        /\ command.do = "On" => command = On(command.knife)
        /\ command.do = "Burn" => command = Burn(command.knife)
        /\ command.do = "Off" => command = Off(command.knife)
    BY <2>1, <2>2, <1>5, <1>7
  <2>4. ASSUME NEW k \in Knives
        PROVE  /\ i \in {Begin(t, k), Begin(t, k) + 1} <=> command = On(k)
               /\ i \in {Begin(t, k) + 2, Begin(t, k) + 3} <=> command = Burn(k)
               /\ i = Begin(t, k) + 4 => command = Wait
               /\ i \in {Begin(t, k) + 5, Begin(t, k) + 6} <=> command = Off(k)
    BY <2>1, <2>2, <1>4, <1>9, <1>5, <1>6, <1>7
  <2> QED
    BY <2>3, <2>4, <1>9 DEF command
<1> QED
  BY <1>8, <1>9 DEF Tasks

\* How long the two sequences are, and where each pair of commands is in them.
LEMMA StepPlaces ==
    /\ Len(Steps["sail"]) = 15 /\ Len(Steps["sads"]) = 14
    /\ FirstOn("Main") = 2 /\ FirstOn("Redundant") = 9
    /\ \A k \in Knives : FirstOn(k) \in {2, 9}
    /\ \A k \in Knives : LastOff("sail", k) = FirstOn(k) + 6 /\ LastOff("sads", k) = FirstOn(k) + 5
    /\ \A t \in Tasks, k \in Knives : Begin(t, k) \in {1, 2, 8, 9} /\ LastOff(t, k) = Begin(t, k) + 6
    /\ \A k \in Knives : Begin("sail", k) = FirstOn(k)
    /\ \A t \in Tasks : t = "sail" \/ t = "sads"
    /\ \A t \in Tasks : Len(Steps[t]) \in {14, 15}
<1>1. Len(Steps["sail"]) = 15 /\ Len(Steps["sads"]) = 14
  BY DEF Steps, BothKnives, BurnWith
<1> QED
  BY <1>1 DEF FirstOn, LastOff, Begin, Knives, Tasks

-----------------------------------------------------------------------------
(* Types.                                                                  *)

\* The types of the variables, one by one.
LEMMA SailTypes ==
    ASSUME SailTypeOK
    PROVE  /\ time \in 0..MaxTime /\ stateTime \in 0..MaxTime /\ lastMissionTime \in 0..MaxTime
           /\ sailState \in SailStates /\ currentState \in SailStates
           /\ saved \in [sail : SailStates, missionTime : 0..MaxTime]
           /\ step \in [Tasks -> 0..Len(Steps["sail"])]
           /\ \A t \in Tasks : step[t] <= Len(Steps[t])
           /\ nextStepAfter \in [Tasks -> Int]
           /\ openOnNextMissionLoop \in BOOLEAN /\ ignoreOverheat \in BOOLEAN
           /\ deployOnNextMissionLoop \in BOOLEAN /\ isDeploying \in BOOLEAN
           /\ stopped \in BOOLEAN /\ overheatOrder \in BOOLEAN
           /\ power \in [Knives -> BOOLEAN] /\ burning \in [Knives -> SUBSET Tasks]
           /\ loopPc \in LoopLabels /\ at \in DOMAIN Actions
           /\ runnable \subseteq {Actions[i] : i \in DOMAIN Actions}
           /\ tcArg \subseteq BOOLEAN
           /\ burned \in [Knives -> 0..WaitTime]
           /\ used \in [DOMAIN Bounds -> Nat]
           /\ \A what \in DOMAIN Bounds : used[what] \in 0..Bounds[what]
  BY Zenon DEF SailTypeOK, TypeOK

\* The types hold again when each variable has its own.
LEMMA SailTypeKept ==
    ASSUME time' \in 0..MaxTime, stateTime' \in 0..MaxTime, lastMissionTime' \in 0..MaxTime,
           sailState' \in SailStates, currentState' \in SailStates,
           saved' \in [sail : SailStates, missionTime : 0..MaxTime],
           step' \in [Tasks -> 0..Len(Steps["sail"])],
           \A t \in Tasks : step'[t] <= Len(Steps[t]),
           nextStepAfter' \in [Tasks -> Int],
           openOnNextMissionLoop' \in BOOLEAN, ignoreOverheat' \in BOOLEAN,
           deployOnNextMissionLoop' \in BOOLEAN, isDeploying' \in BOOLEAN,
           stopped' \in BOOLEAN, overheatOrder' \in BOOLEAN,
           power' \in [Knives -> BOOLEAN], burning' \in [Knives -> SUBSET Tasks],
           loopPc' \in LoopLabels, at' \in DOMAIN Actions,
           runnable' \subseteq {Actions[i] : i \in DOMAIN Actions},
           tcArg' \subseteq BOOLEAN,
           burned' \in [Knives -> 0..WaitTime],
           used' \in [DOMAIN Bounds -> Nat],
           \A what \in DOMAIN Bounds : used'[what] \in 0..Bounds[what]
    PROVE  SailTypeOK'
<1>1. {time, stateTime, lastMissionTime}' \subseteq 0..MaxTime
  BY Zenon
<1>2. {sailState, currentState}' \subseteq SailStates
  BY Zenon
<1>3. {openOnNextMissionLoop, ignoreOverheat, deployOnNextMissionLoop,
        isDeploying, stopped, overheatOrder}' \subseteq BOOLEAN
  BY Zenon
<1> QED
  BY <1>1, <1>2, <1>3, Zenon DEF SailTypeOK, TypeOK

\* A counter that is used stays a counter within its bound, and goes up.
LEMMA UseCounts ==
    ASSUME SailTypeOK, NEW what \in DOMAIN Bounds, Use(what)
    PROVE  /\ used' \in [DOMAIN Bounds -> Nat] /\ \A w \in DOMAIN Bounds : used'[w] \in 0..Bounds[w]
           /\ used'[what] = used[what] + 1 /\ used[what] < Bounds[what]
           /\ \A w \in DOMAIN Bounds : w # what => used'[w] = used[w]
<1>1. /\ used \in [DOMAIN Bounds -> Nat] /\ \A w \in DOMAIN Bounds : used[w] \in 0..Bounds[w]
  BY SailTypes
<1>2. used[what] < Bounds[what] /\ used' = [used EXCEPT ![what] = @ + 1]
  BY DEF Use
<1>3. \A w \in DOMAIN Bounds : Bounds[w] \in Nat
  BY SailConstants
<1> HIDE DEF Bounds
<1> QED
  BY <1>1, <1>2, <1>3

\* The types hold at the start.
LEMMA SailTypeInit == Init => SailTypeOK
<1> SUFFICES ASSUME Init PROVE SailTypeOK
  OBVIOUS
<1>1. MaxTime \in Nat /\ WaitTime \in Nat /\ \A what \in DOMAIN Bounds : Bounds[what] \in Nat
  BY SailConstants
<1>2. /\ {time, stateTime, lastMissionTime} \subseteq 0..MaxTime
      /\ {sailState, currentState} \subseteq SailStates
  BY <1>1 DEF Init, SailStates
<1>3. {openOnNextMissionLoop, ignoreOverheat, deployOnNextMissionLoop,
        isDeploying, stopped, overheatOrder} \subseteq BOOLEAN
  BY Zenon DEF Init
<1>4. saved \in [sail : SailStates, missionTime : 0..MaxTime]
  BY <1>1 DEF Init, SailStates
<1>5. /\ step \in [Tasks -> 0..Len(Steps["sail"])] /\ \A t \in Tasks : step[t] <= Len(Steps[t])
      /\ nextStepAfter \in [Tasks -> Int]
  BY StepPlaces DEF Init
<1>6. power \in [Knives -> BOOLEAN]
  BY Zenon DEF Init
<1>7. burning \in [Knives -> SUBSET Tasks] /\ burned \in [Knives -> 0..WaitTime]
  BY <1>1 DEF Init
<1>8. loopPc \in LoopLabels /\ at \in DOMAIN Actions /\ runnable = {} /\ tcArg = {}
  BY DEF Init, LoopLabels, Actions
<1>9. used \in [DOMAIN Bounds -> Nat] /\ \A what \in DOMAIN Bounds : used[what] \in 0..Bounds[what]
  <2>1. used = [what \in DOMAIN Bounds |-> 0]
    BY DEF Init
  <2> HIDE DEF Bounds
  <2> QED
    BY <1>1, <2>1
<1> QED
  BY <1>2, <1>3, <1>4, <1>5, <1>6, <1>7, <1>8, <1>9, Zenon DEF SailTypeOK, TypeOK

\* What becomes of a knife in a step of a task: the commands of the table, or
\* nothing when the command is lost.
LEMMA StepOutcome ==
    ASSUME SailTypeOK, StepLeft, NEW t \in Tasks, PerformStep(t)
    PROVE  /\ step[t] \in Nat /\ step[t] < Len(Steps[t])
           /\ power' \in [Knives -> BOOLEAN] /\ burning' \in [Knives -> SUBSET Tasks]
           /\ \/ /\ used' = used
                 /\ \A k \in Knives :
                       /\ step[t] + 1 \in {Begin(t, k), Begin(t, k) + 1} => power'[k]
                       /\ step[t] + 1 \in {Begin(t, k) + 5, Begin(t, k) + 6} => ~power'[k]
                       /\ step[t] + 1 \notin {Begin(t, k), Begin(t, k) + 1, Begin(t, k) + 5, Begin(t, k) + 6}
                             => (power'[k] <=> power[k])
                       /\ step[t] + 1 \in {Begin(t, k) + 2, Begin(t, k) + 3} => t \in burning'[k]
                       /\ step[t] + 1 \notin {Begin(t, k) + 5, Begin(t, k) + 6}
                             => burning[k] \subseteq burning'[k]
              \/ /\ Use("failure")
                 /\ power' = power /\ burning' = burning
<1>1. /\ step \in [Tasks -> 0..Len(Steps["sail"])] /\ step[t] <= Len(Steps[t])
      /\ power \in [Knives -> BOOLEAN] /\ burning \in [Knives -> SUBSET Tasks]
  BY SailTypes
<1>2. t \in runnable /\ ~Done(t)
  BY DEF PerformStep, Dispatched, StepLeft
<1>3. step[t] \in Nat /\ step[t] < Len(Steps[t])
  BY <1>1, <1>2, StepPlaces DEF Done
<1> DEFINE i == step[t] + 1
           command == Steps[t][i]
<1>4. i \in 1..Len(Steps[t])
  BY <1>3, StepPlaces
<1>5. \/ Obeyed(t, command) /\ UNCHANGED used
      \/ Use("failure") /\ UNCHANGED eps
  BY DEF PerformStep
<1>6. /\ command.do \in {"IgnoreOverheat", "On", "Burn", "Wait", "Off"}
      /\ command.do \in {"On", "Burn", "Off"} => command.knife \in Knives
      /\ command.do = "On" => command = On(command.knife)
      /\ command.do = "Burn" => command = Burn(command.knife)
      /\ command.do = "Off" => command = Off(command.knife)
  BY <1>4, StepTable
<1>7. \A k \in Knives :
         /\ i \in {Begin(t, k), Begin(t, k) + 1} <=> command = On(k)
         /\ i \in {Begin(t, k) + 2, Begin(t, k) + 3} <=> command = Burn(k)
         /\ i \in {Begin(t, k) + 5, Begin(t, k) + 6} <=> command = Off(k)
  BY <1>4, StepTable
<1>8. \A k \in Knives : On(k).do = "On" /\ On(k).knife = k /\ Burn(k).do = "Burn" /\ Burn(k).knife = k
                        /\ Off(k).do = "Off" /\ Off(k).knife = k
  BY DEF On, Burn, Off
<1> HIDE DEF i, command
<1>9. CASE Obeyed(t, command) /\ UNCHANGED used
  <2>1. /\ command.do = "On" => power' = [power EXCEPT ![command.knife] = TRUE] /\ burning' = burning
        /\ command.do = "Burn" =>
              power' = power /\ burning' = [burning EXCEPT ![command.knife] = @ \cup {t}]
        /\ command.do = "Off" => /\ power' = [power EXCEPT ![command.knife] = FALSE]
                                 /\ burning' = [burning EXCEPT ![command.knife] = {}]
        /\ command.do \in {"IgnoreOverheat", "Wait"} => power' = power /\ burning' = burning
    BY <1>9, Zenon DEF Obeyed, eps
  <2>2. power' \in [Knives -> BOOLEAN]
    BY <1>1, <1>6, <2>1, Zenon
  <2>3. burning' \in [Knives -> SUBSET Tasks]
    BY <1>1, <1>6, <2>1
  <2>4. ASSUME NEW k \in Knives
        PROVE  /\ command = On(k) => power'[k]
               /\ command = Off(k) => ~power'[k]
               /\ command \notin {On(k), Off(k)} => (power'[k] <=> power[k])
    <3>1. /\ command = On(k) => command.do = "On" /\ command.knife = k
          /\ command = Off(k) => command.do = "Off" /\ command.knife = k
      BY <1>8
    <3>2. command \notin {On(k), Off(k)} /\ command.do \in {"On", "Off"} => command.knife # k
      BY <1>6
    <3>3. command \notin {On(k), Off(k)} => power'[k] = power[k]
      BY <1>1, <1>6, <2>1, <3>2, Zenon
    <3>4. command = On(k) => power'[k]
      BY <1>1, <2>1, <3>1, Zenon
    <3>5. command = Off(k) => ~power'[k]
      BY <1>1, <2>1, <3>1, Zenon
    <3> QED
      BY <3>3, <3>4, <3>5, Zenon
  <2>5. ASSUME NEW k \in Knives
        PROVE  /\ command = Burn(k) => t \in burning'[k]
               /\ command # Off(k) => burning[k] \subseteq burning'[k]
    BY <1>1, <1>6, <1>8, <2>1
  <2>6. ASSUME NEW k \in Knives
        PROVE  /\ i \in {Begin(t, k), Begin(t, k) + 1} => power'[k]
               /\ i \in {Begin(t, k) + 5, Begin(t, k) + 6} => ~power'[k]
               /\ i \notin {Begin(t, k), Begin(t, k) + 1, Begin(t, k) + 5, Begin(t, k) + 6}
                     => (power'[k] <=> power[k])
               /\ i \in {Begin(t, k) + 2, Begin(t, k) + 3} => t \in burning'[k]
               /\ i \notin {Begin(t, k) + 5, Begin(t, k) + 6} => burning[k] \subseteq burning'[k]
    BY <1>7, <2>4, <2>5, Zenon
  <2> QED
    BY <1>3, <1>9, <2>2, <2>3, <2>6, Zenon DEF i
<1>10. CASE Use("failure") /\ UNCHANGED eps
  BY <1>1, <1>3, <1>10, Zenon DEF eps
<1> QED
  BY <1>5, <1>9, <1>10

\* A task may be put at any of its steps, and next moments are integers.
LEMMA StepSet ==
    ASSUME SailTypeOK, NEW t \in Tasks, NEW n \in Nat, n <= Len(Steps[t])
    PROVE  /\ [step EXCEPT ![t] = n] \in [Tasks -> 0..Len(Steps["sail"])]
           /\ \A u \in Tasks : [step EXCEPT ![t] = n][u] <= Len(Steps[u])
           /\ [nextStepAfter EXCEPT ![t] = 0] \in [Tasks -> Int]
<1> DEFINE length(u) == Len(Steps[u])
<1>1. Len(Steps["sail"]) = 15 /\ \A u \in Tasks : length(u) \in {14, 15}
  BY StepPlaces
<1>2. /\ step \in [Tasks -> 0..Len(Steps["sail"])] /\ \A u \in Tasks : step[u] <= length(u)
      /\ nextStepAfter \in [Tasks -> Int]
  BY SailTypes
<1>3. n <= length(t)
  OBVIOUS
<1> HIDE DEF length
<1>4. n \in 0..15
  BY <1>1, <1>3
<1>5. [step EXCEPT ![t] = n] \in [Tasks -> 0..15]
  BY <1>1, <1>2, <1>4, Zenon
<1>6. \A u \in Tasks : [step EXCEPT ![t] = n][u] <= length(u)
  BY <1>2, <1>3, Zenon
<1>7. [nextStepAfter EXCEPT ![t] = 0] \in [Tasks -> Int]
  BY <1>2
<1> QED
  BY <1>1, <1>5, <1>6, <1>7, Zenon DEF length

\* A step counts one further for its task, and for no other.
LEMMA StepCounts ==
    ASSUME SailTypeOK, StepLeft, NEW t \in Tasks, PerformStep(t)
    PROVE  /\ step' \in [Tasks -> 0..Len(Steps["sail"])] /\ \A u \in Tasks : step'[u] <= Len(Steps[u])
           /\ step'[t] = step[t] + 1 /\ \A u \in Tasks : u # t => step'[u] = step[u]
           /\ nextStepAfter' \in [Tasks -> Int]
           /\ \A u \in Tasks : u # t => nextStepAfter'[u] = nextStepAfter[u]
           /\ Steps[t][step[t] + 1] # Wait => nextStepAfter'[t] = stateTime
           /\ Steps[t][step[t] + 1] = Wait => nextStepAfter'[t] = stateTime + WaitTime
           /\ Steps[t][step[t] + 1] = Wait \/ Done(t)' => ActionOver(t)
           /\ ~(Steps[t][step[t] + 1] = Wait \/ Done(t)') => UNCHANGED <<loopPc, at, runnable>>
           /\ UNCHANGED <<time, stateTime, persistent, saved, sailFlags, sadsFlags,
                          currentState, burned, orders>>
<1>1. /\ step \in [Tasks -> 0..Len(Steps["sail"])] /\ \A u \in Tasks : step[u] <= Len(Steps[u])
      /\ nextStepAfter \in [Tasks -> Int] /\ stateTime \in 0..MaxTime
  BY SailTypes
<1>2. step[t] \in Nat /\ step[t] < Len(Steps[t])
  BY StepOutcome
<1>3. step' = [step EXCEPT ![t] = @ + 1]
  BY DEF PerformStep
<1>4. step' \in [Tasks -> 0..Len(Steps["sail"])] /\ \A u \in Tasks : step'[u] <= Len(Steps[u])
  <2>1. step[t] + 1 \in Nat /\ step[t] + 1 <= Len(Steps[t])
    BY <1>2, StepPlaces
  <2>2. step' = [step EXCEPT ![t] = step[t] + 1]
    BY <1>3, Zenon
  <2> QED
    BY <2>1, <2>2, StepSet, Zenon
<1>5. step'[t] = step[t] + 1 /\ \A u \in Tasks : u # t => step'[u] = step[u]
  BY <1>1, <1>3
<1> DEFINE wait == IF Steps[t][step[t] + 1] = Wait THEN WaitTime ELSE 0
<1>6. nextStepAfter' = [nextStepAfter EXCEPT ![t] = stateTime + wait]
  BY Zenon DEF PerformStep
<1>7. stateTime + wait \in Int
  BY <1>1, SailConstants
<1>8. stateTime + 0 = stateTime
  BY <1>1, SailConstants
<1>9. /\ nextStepAfter' \in [Tasks -> Int] /\ nextStepAfter'[t] = stateTime + wait
      /\ \A u \in Tasks : u # t => nextStepAfter'[u] = nextStepAfter[u]
  BY <1>1, <1>6, <1>7, Zenon
<1>10. /\ Steps[t][step[t] + 1] = Wait \/ Done(t)' => ActionOver(t)
       /\ ~(Steps[t][step[t] + 1] = Wait \/ Done(t)') => UNCHANGED <<loopPc, at, runnable>>
       /\ UNCHANGED <<time, stateTime, persistent, saved, sailFlags, sadsFlags,
                      currentState, burned, orders>>
  BY Zenon DEF PerformStep
<1> QED
  BY <1>4, <1>5, <1>8, <1>9, <1>10, Zenon

\* An action leaves the loop at one of its labels and one of the actions.
LEMMA AdvanceTypes ==
    ASSUME SailTypeOK, NEW to \in LoopLabels, Advance(to)
    PROVE  /\ loopPc' \in LoopLabels /\ at' \in DOMAIN Actions
           /\ \/ loopPc' = to /\ at' = 1 /\ at = 4
              \/ loopPc' = loopPc /\ at' = at + 1 /\ at < 4
<1>1. DOMAIN Actions = 1..4 /\ Len(Actions) = 4
  BY DEF Actions
<1>2. loopPc \in LoopLabels /\ at \in 1..4
  BY <1>1, SailTypes
<1> QED
  BY <1>1, <1>2 DEF Advance

(* The types are kept by every step.                                        *)
LEMMA SailTypeStep == SailTypeOK /\ StepLeft /\ [Next]_vars => SailTypeOK'
<1> SUFFICES ASSUME SailTypeOK, StepLeft, [Next]_vars PROVE SailTypeOK'
  OBVIOUS
<1>0. 0 \in 0..MaxTime /\ {"Idle", "SailGet", "SailExchange", "SailOpen", "SadsUpdate", "Determine", "Dispatch"} \subseteq LoopLabels
      /\ {"Waiting", "Opening", "OpeningStopped"} \subseteq SailStates
  BY SailConstants DEF LoopLabels, SailStates
<1>l. \A what \in {"open", "stop", "sads", "setTime", "failure", "correction", "reset"} : what \in DOMAIN Bounds
  BY SailConstants
<1>z. 0 \in Nat /\ "sail" \in Tasks /\ "sads" \in Tasks /\ \A t \in Tasks : 0 <= Len(Steps[t])
  BY StepPlaces DEF Tasks
<1>1. CASE UpdateTime
  BY <1>0, <1>1, SailTypes, SailTypeKept, Zenon
  DEF UpdateTime, Goto, persistent, sequence, sailFlags, sadsFlags, eps, orders
<1>2. CASE SailGet
  BY <1>0, <1>2, SailTypes, SailTypeKept, Zenon
  DEF SailGet, Goto, persistent, sequence, sailFlags, sadsFlags, eps, orders
<1>3. CASE SailExchange
  <2>1. openOnNextMissionLoop' \in BOOLEAN /\ loopPc' \in LoopLabels /\ currentState' \in SailStates
    BY <1>0, <1>3, Zenon DEF SailExchange, Goto
  <2> QED
    BY <1>3, <2>1, SailTypes, SailTypeKept, Zenon
    DEF SailExchange, persistent, sequence, sailFlags, sadsFlags, eps, orders
<1>4. CASE SailOpen
  <2>1. /\ step' \in [Tasks -> 0..Len(Steps["sail"])] /\ \A u \in Tasks : step'[u] <= Len(Steps[u])
        /\ nextStepAfter' \in [Tasks -> Int]
    BY <1>4, <1>z, StepSet, Zenon DEF SailOpen
  <2>2. burned' \in [Knives -> 0..WaitTime]
    BY <1>4, SailConstants DEF SailOpen
  <2>3. loopPc' \in LoopLabels /\ sailState' \in SailStates
    BY <1>0, <1>4, Zenon DEF SailOpen, Goto
  <2> QED
    BY <1>4, <2>1, <2>2, <2>3, SailTypes, SailTypeKept, Zenon DEF SailOpen, sailFlags, sadsFlags, eps, orders
<1>5. CASE SadsUpdate
  <2> DEFINE start == deployOnNextMissionLoop /\ ~(isDeploying /\ ~Done("sads"))
  <2>1. /\ step' = step \/ step' = [step EXCEPT !["sads"] = 0]
        /\ nextStepAfter' = nextStepAfter \/ nextStepAfter' = [nextStepAfter EXCEPT !["sads"] = 0]
    BY <1>5, Zenon DEF SadsUpdate
  <2>2. /\ step' \in [Tasks -> 0..Len(Steps["sail"])] /\ \A u \in Tasks : step'[u] <= Len(Steps[u])
        /\ nextStepAfter' \in [Tasks -> Int]
    <3>1. /\ [step EXCEPT !["sads"] = 0] \in [Tasks -> 0..Len(Steps["sail"])]
          /\ \A u \in Tasks : [step EXCEPT !["sads"] = 0][u] <= Len(Steps[u])
          /\ [nextStepAfter EXCEPT !["sads"] = 0] \in [Tasks -> Int]
      BY <1>z, StepSet, Zenon
    <3>2. step' \in [Tasks -> 0..Len(Steps["sail"])] /\ \A u \in Tasks : step'[u] <= Len(Steps[u])
      BY <2>1, <3>1, SailTypes, Zenon
    <3>3. nextStepAfter' \in [Tasks -> Int]
      BY <2>1, <3>1, SailTypes, Zenon
    <3> QED
      BY <3>2, <3>3, Zenon
  <2>3. deployOnNextMissionLoop' \in BOOLEAN /\ isDeploying' \in BOOLEAN
    BY <1>5, Zenon DEF SadsUpdate
  <2>4. loopPc' \in LoopLabels
    BY <1>0, <1>5, Zenon DEF SadsUpdate, Goto
  <2> QED
    BY <1>5, <2>2, <2>3, <2>4, SailTypes, SailTypeKept, Zenon
    DEF SadsUpdate, persistent, sailFlags, eps, orders
<1>6. CASE EvaluateCondition
  <2>1. runnable' \subseteq {Actions[i] : i \in DOMAIN Actions}
    BY <1>6, SailTypes, Zenon DEF EvaluateCondition
  <2>2. loopPc' \in LoopLabels /\ at' \in DOMAIN Actions
    BY <1>0, <1>6, AdvanceTypes DEF EvaluateCondition
  <2> QED
    BY <1>6, <2>1, <2>2, SailTypes, SailTypeKept, Zenon
    DEF EvaluateCondition, persistent, sequence, sailFlags, sadsFlags, eps, orders
<1>7. CASE SkipAction
  <2>1. loopPc' \in LoopLabels /\ at' \in DOMAIN Actions
    BY <1>0, <1>7, AdvanceTypes DEF SkipAction
  <2> QED
    BY <1>7, <2>1, SailTypes, SailTypeKept, Zenon
    DEF SkipAction, persistent, sequence, sailFlags, sadsFlags, eps, orders
<1>8. ASSUME NEW a, ActionOver(a)
      PROVE  loopPc' \in LoopLabels /\ at' \in DOMAIN Actions /\ runnable' \subseteq {Actions[i] : i \in DOMAIN Actions}
  <2>1. loopPc' \in LoopLabels /\ at' \in DOMAIN Actions
    BY <1>0, <1>8, AdvanceTypes DEF ActionOver
  <2>2. runnable' \subseteq {Actions[i] : i \in DOMAIN Actions}
    BY <1>8, SailTypes, Zenon DEF ActionOver
  <2> QED
    BY <2>1, <2>2
<1>9. CASE CorrectTime
  <2>1. PICK correction \in -1..1 :
           /\ IF correction = 0 THEN UNCHANGED used
              ELSE /\ Use("correction")
                   /\ time + correction \in lastMissionTime..MaxTime
           /\ time' = time + correction
           /\ stateTime' = time' /\ lastMissionTime' = time'
           /\ nextStepAfter' = [t \in Tasks |-> nextStepAfter[t] + correction]
    BY <1>9, Zenon DEF CorrectTime, NotifyTimeChanged
  <2>2. time \in 0..MaxTime /\ lastMissionTime \in 0..MaxTime /\ nextStepAfter \in [Tasks -> Int]
    BY SailTypes
  <2>3. time' \in 0..MaxTime
    BY <2>1, <2>2, SailConstants
  <2>4. nextStepAfter' \in [Tasks -> Int]
    BY <2>1, <2>2
  <2>5. used' \in [DOMAIN Bounds -> Nat] /\ \A w \in DOMAIN Bounds : used'[w] \in 0..Bounds[w]
    BY <2>1, <1>l, UseCounts, SailTypes, Zenon
  <2>6. stateTime' \in 0..MaxTime /\ lastMissionTime' \in 0..MaxTime
    BY <2>1, <2>3, Zenon
  <2> QED
    BY <1>9, <1>8, <2>3, <2>4, <2>5, <2>6, SailTypes, SailTypeKept, Zenon
    DEF CorrectTime, sailFlags, sadsFlags, eps, orders
<1>10. CASE CorrectTimeFailed
  BY <1>8, <1>10, SailTypes, SailTypeKept, Zenon
  DEF CorrectTimeFailed, sequence, sailFlags, sadsFlags, eps, orders
<1>11. CASE SaveState
  <2>1. saved' \in [sail : SailStates, missionTime : 0..MaxTime]
    BY <1>11, SailTypes DEF SaveState
  <2> QED
    BY <1>8, <1>11, <2>1, SailTypes, SailTypeKept, Zenon
    DEF SaveState, sequence, sailFlags, sadsFlags, eps, orders
<1>12. ASSUME NEW t \in Tasks, PerformStep(t)
       PROVE  SailTypeOK'
  <2>1. /\ step' \in [Tasks -> 0..Len(Steps["sail"])] /\ \A u \in Tasks : step'[u] <= Len(Steps[u])
        /\ nextStepAfter' \in [Tasks -> Int]
        /\ UNCHANGED <<time, stateTime, persistent, saved, sailFlags, sadsFlags,
                       currentState, burned, orders>>
    BY <1>12, StepCounts, Zenon
  <2>2. ActionOver(t) \/ UNCHANGED <<loopPc, at, runnable>>
    BY <1>12, StepCounts, Zenon
  <2>3. /\ power' \in [Knives -> BOOLEAN] /\ burning' \in [Knives -> SUBSET Tasks]
        /\ used' = used \/ Use("failure")
    BY <1>12, StepOutcome, Zenon
  <2>4. used' \in [DOMAIN Bounds -> Nat] /\ \A w \in DOMAIN Bounds : used'[w] \in 0..Bounds[w]
    BY <2>3, <1>l, UseCounts, SailTypes, Zenon
  <2>5. loopPc' \in LoopLabels /\ at' \in DOMAIN Actions /\ runnable' \subseteq {Actions[i] : i \in DOMAIN Actions}
    BY <2>2, <1>8, SailTypes, Zenon
  <2> QED
    BY <2>1, <2>3, <2>4, <2>5, SailTypes, SailTypeKept, Zenon DEF persistent, sailFlags, sadsFlags, orders
<1>13. ASSUME NEW argument \in BOOLEAN, OpenSail(argument)
       PROVE  SailTypeOK'
  <2>1. /\ openOnNextMissionLoop' \in BOOLEAN /\ tcArg' \subseteq BOOLEAN /\ overheatOrder' \in BOOLEAN
        /\ stopped' \in BOOLEAN
    BY <1>13, Zenon DEF OpenSail
  <2>2. used' \in [DOMAIN Bounds -> Nat] /\ \A w \in DOMAIN Bounds : used'[w] \in 0..Bounds[w]
    BY <1>13, <1>l, UseCounts, Zenon DEF OpenSail
  <2> QED
    BY <1>13, <2>1, <2>2, SailTypes, SailTypeKept, Zenon
    DEF OpenSail, persistent, sequence, sadsFlags, eps, loop
<1>14. CASE OpenSailOverheat
  <2>1. ignoreOverheat' \in BOOLEAN /\ tcArg' \subseteq BOOLEAN
    BY <1>14, SailTypes, Zenon DEF OpenSailOverheat
  <2> QED
    BY <1>14, <2>1, SailTypes, SailTypeKept, Zenon
    DEF OpenSailOverheat, persistent, sequence, sadsFlags, eps, loop, orders
<1>15. CASE StopSailDeployment
  <2>1. sailState' \in SailStates /\ stopped' \in BOOLEAN
    BY <1>0, <1>15, Zenon DEF StopSailDeployment
  <2>2. used' \in [DOMAIN Bounds -> Nat] /\ \A w \in DOMAIN Bounds : used'[w] \in 0..Bounds[w]
    BY <1>15, <1>l, UseCounts, Zenon DEF StopSailDeployment
  <2> QED
    BY <1>15, <2>1, <2>2, SailTypes, SailTypeKept, Zenon
    DEF StopSailDeployment, sequence, sailFlags, sadsFlags, eps, loop
<1>16. ASSUME NEW target \in SetTimes, SetTime(target)
       PROVE  SailTypeOK'
  <2>1. time' \in 0..MaxTime /\ lastMissionTime' \in 0..MaxTime
    BY <1>16, SailConstants, Zenon DEF SetTime
  <2>2. used' \in [DOMAIN Bounds -> Nat] /\ \A w \in DOMAIN Bounds : used'[w] \in 0..Bounds[w]
    BY <1>16, <1>l, UseCounts, Zenon DEF SetTime
  <2> QED
    BY <1>16, <2>1, <2>2, SailTypes, SailTypeKept, Zenon
    DEF SetTime, sequence, sailFlags, sadsFlags, eps, loop, orders
<1>17. CASE DeploySolarArray
  <2>1. deployOnNextMissionLoop' \in BOOLEAN
    BY <1>17, Zenon DEF DeploySolarArray
  <2>2. used' \in [DOMAIN Bounds -> Nat] /\ \A w \in DOMAIN Bounds : used'[w] \in 0..Bounds[w]
    BY <1>17, <1>l, UseCounts, Zenon DEF DeploySolarArray
  <2> QED
    BY <1>17, <2>1, <2>2, SailTypes, SailTypeKept, Zenon
    DEF DeploySolarArray, persistent, sequence, sailFlags, eps, loop, orders
<1>18. CASE Tick
  <2>1. time' \in 0..MaxTime
    BY <1>18, SailTypes, SailConstants DEF Tick
  <2>2. burned' \in [Knives -> 0..WaitTime]
    <3>1. burned \in [Knives -> 0..WaitTime] /\ WaitTime \in Nat
      BY SailTypes, SailConstants
    <3> QED
      BY <1>18, <3>1 DEF Tick
  <2> QED
    BY <1>18, <2>1, <2>2, SailTypes, SailTypeKept, Zenon
    DEF Tick, persistent, sequence, sailFlags, sadsFlags, eps, loop, orders
<1>19. ASSUME NEW powerCycled \in PowerCycledResets, Reset(powerCycled)
       PROVE  SailTypeOK'
  <2>1. saved.missionTime \in 0..MaxTime /\ saved.sail \in SailStates
    BY SailTypes
  <2>2. /\ time' \in 0..MaxTime /\ stateTime' \in 0..MaxTime /\ lastMissionTime' \in 0..MaxTime
        /\ sailState' \in SailStates /\ currentState' \in SailStates
        /\ loopPc' \in LoopLabels /\ runnable' \subseteq {Actions[i] : i \in DOMAIN Actions}
        /\ tcArg' \subseteq BOOLEAN /\ saved' = saved
    BY <1>0, <1>19, <2>1, Zenon DEF Reset
  <2>3. /\ step' \in [Tasks -> 0..Len(Steps["sail"])] /\ \A u \in Tasks : step'[u] <= Len(Steps[u])
        /\ nextStepAfter' \in [Tasks -> Int]
    BY <1>19, StepPlaces DEF Reset
  <2>4. at' \in DOMAIN Actions
    BY <1>19 DEF Reset, Actions
  <2>5. /\ openOnNextMissionLoop' \in BOOLEAN /\ ignoreOverheat' \in BOOLEAN
        /\ deployOnNextMissionLoop' \in BOOLEAN /\ isDeploying' \in BOOLEAN
        /\ stopped' \in BOOLEAN /\ overheatOrder' \in BOOLEAN
    BY <1>19, SailTypes, Zenon DEF Reset
  <2>6. power' \in [Knives -> BOOLEAN]
    <3>1. power' = power \/ power' = [k \in Knives |-> FALSE]
      BY <1>19, Zenon DEF Reset, eps
    <3> QED
      BY <3>1, SailTypes, Zenon
  <2>7. burning' \in [Knives -> SUBSET Tasks]
    <3>1. burning' = burning \/ burning' = [k \in Knives |-> {}]
      BY <1>19, Zenon DEF Reset, eps
    <3> QED
      BY <3>1, SailTypes
  <2>8. burned' \in [Knives -> 0..WaitTime]
    BY <1>19, SailConstants DEF Reset
  <2>9. used' \in [DOMAIN Bounds -> Nat] /\ \A w \in DOMAIN Bounds : used'[w] \in 0..Bounds[w]
    BY <1>19, <1>l, UseCounts, Zenon DEF Reset
  <2> QED
    BY <2>2, <2>3, <2>4, <2>5, <2>6, <2>7, <2>8, <2>9, SailTypes, SailTypeKept, Zenon
<1>20. CASE UNCHANGED vars
  BY <1>20, SailTypes, SailTypeKept, Zenon
  DEF vars, persistent, sequence, sailFlags, sadsFlags, eps, loop, orders
<1> QED
  BY <1>1, <1>2, <1>3, <1>4, <1>5, <1>6, <1>7, <1>9, <1>10, <1>11, <1>12, <1>13, <1>14, <1>15,
     <1>16, <1>17, <1>18, <1>19, <1>20, Zenon DEF Next, MissionLoop, Ground

-----------------------------------------------------------------------------
(* The mission loop and its list of runnable actions.                      *)

\* The invariants of the list hold again after an action is over or skipped.
LEMMA ActionBehind ==
    ASSUME SailTypeOK, LoopPlace, loopPc = "Dispatch", Advance("Idle"),
           runnable' = runnable \ {Actions[at]}
    PROVE  LoopPlace'
<1>1. DOMAIN Actions = 1..4
  BY DEF Actions
<1>2. /\ at \in 1..4 /\ runnable \subseteq {Actions[i] : i \in 1..4}
      /\ \A i \in 1..4 : i < at => Actions[i] \notin runnable
  BY <1>1, SailTypes DEF LoopPlace
<1>3. CASE at = 4 /\ loopPc' = "Idle" /\ at' = 1
  <2>1. runnable' = {}
    BY <1>2, <1>3
  <2> QED
    BY <1>3, <2>1 DEF LoopPlace
<1>4. CASE at < 4 /\ loopPc' = loopPc /\ at' = at + 1
  <2>1. ASSUME NEW i \in 1..4, i < at + 1
        PROVE  Actions[i] \notin runnable'
    <3>1. i = at \/ i < at
      BY <2>1, <1>2
    <3> QED
      BY <3>1, <1>2
  <2>2. \A i \in DOMAIN Actions : i < at' => Actions[i] \notin runnable'
    BY <2>1, <1>1, <1>4
  <2> QED
    BY <1>4, <2>2 DEF LoopPlace
<1> QED
  BY <1>3, <1>4, AdvanceTypes DEF LoopLabels

\* The list is kept by every step.
LEMMA LoopPlaceStep == SailTypeOK /\ StepLeft /\ LoopPlace /\ [Next]_vars => LoopPlace'
<1> SUFFICES ASSUME SailTypeOK, StepLeft, LoopPlace, [Next]_vars PROVE LoopPlace'
  OBVIOUS
<1>1. CASE UNCHANGED <<loopPc, at, runnable>>
  BY <1>1 DEF LoopPlace
<1>2. CASE UNCHANGED <<at, runnable>> /\ loopPc \notin {"Determine", "Dispatch"} /\ loopPc' # "Dispatch"
  BY <1>2 DEF LoopPlace
<1>3. CASE UpdateTime \/ SailGet \/ SailExchange \/ SailOpen \/ SadsUpdate
  BY <1>2, <1>3 DEF UpdateTime, SailGet, SailExchange, SailOpen, SadsUpdate, Goto
<1>4. CASE EvaluateCondition
  <2>1. loopPc = "Determine" /\ Advance("Dispatch")
    BY <1>4, Zenon DEF EvaluateCondition
  <2>2. loopPc' = "Determine" \/ (loopPc' = "Dispatch" /\ at' = 1)
    BY <2>1, AdvanceTypes DEF LoopLabels
  <2>3. \A i \in DOMAIN Actions : ~(i < 1)
    BY DEF Actions
  <2> QED
    BY <2>2, <2>3 DEF LoopPlace
<1>5. CASE SkipAction
  <2>1. /\ loopPc = "Dispatch" /\ Advance("Idle") /\ Actions[at] \notin runnable
        /\ runnable' = runnable
    BY <1>5, Zenon DEF SkipAction
  <2>2. runnable' = runnable \ {Actions[at]}
    BY <2>1
  <2> QED
    BY <2>1, <2>2, ActionBehind
<1>6. ASSUME NEW a, Dispatched(a), ActionOver(a)
      PROVE  LoopPlace'
  BY <1>6, ActionBehind DEF Dispatched, ActionOver
<1>7. CASE CorrectTime \/ CorrectTimeFailed \/ SaveState
  BY <1>6, <1>7, Zenon DEF CorrectTime, CorrectTimeFailed, SaveState
<1>8. ASSUME NEW t \in Tasks, PerformStep(t)
      PROVE  LoopPlace'
  <2>1. Dispatched(t)
    BY <1>8, Zenon DEF PerformStep
  <2>2. ActionOver(t) \/ UNCHANGED <<loopPc, at, runnable>>
    BY <1>8, StepCounts, Zenon
  <2> QED
    BY <1>1, <1>6, <2>1, <2>2, Zenon
<1>9. CASE Ground \/ DeploySolarArray \/ Tick \/ UNCHANGED vars
  BY <1>1, <1>9, Zenon
  DEF Ground, OpenSail, OpenSailOverheat, StopSailDeployment, SetTime, DeploySolarArray, Tick, vars, loop
<1>10. ASSUME NEW powerCycled \in PowerCycledResets, Reset(powerCycled)
       PROVE  LoopPlace'
  BY <1>10 DEF Reset, LoopPlace
<1> QED
  BY <1>3, <1>4, <1>5, <1>7, <1>8, <1>9, <1>10, Zenon DEF Next, MissionLoop

\* What else changes when the list is cut or stays and the places do not.
LEMMA StepLeftStep == SailTypeOK /\ StepLeft /\ LoopPlace /\ [Next]_vars => StepLeft'
<1> SUFFICES ASSUME SailTypeOK, StepLeft, LoopPlace, [Next]_vars PROVE StepLeft'
  OBVIOUS
<1>1. CASE UNCHANGED step /\ runnable' \subseteq runnable
  BY <1>1, Zenon DEF StepLeft, Done
<1>2. CASE UNCHANGED runnable /\ runnable = {}
  BY <1>2, Zenon DEF StepLeft
<1>3. CASE UpdateTime \/ SailGet \/ SailExchange \/ SkipAction
  BY <1>1, <1>3, Zenon DEF UpdateTime, SailGet, SailExchange, SkipAction, sequence
<1>4. CASE SailOpen \/ SadsUpdate
  <2>1. loopPc \in {"SailOpen", "SadsUpdate"} /\ UNCHANGED runnable
    BY <1>4, Zenon DEF SailOpen, SadsUpdate, Goto
  <2> QED
    BY <1>2, <2>1 DEF LoopPlace
<1>5. CASE EvaluateCondition
  <2>1. UNCHANGED step /\ runnable' \subseteq runnable \cup {Actions[at]}
    BY <1>5, Zenon DEF EvaluateCondition, sequence
  <2>2. Actions[at] \in runnable' => Actions[at] \in runnable \/ Condition(Actions[at])
    BY <1>5, Zenon DEF EvaluateCondition
  <2>3. \A t \in Tasks : Condition(t) => ~Done(t)
    <3>1. \A t \in Tasks : t = "sail" \/ t = "sads"
      BY StepPlaces
    <3>2. (Condition("sail") => ~Done("sail")) /\ (Condition("sads") => ~Done("sads"))
      BY Zenon DEF Condition, Due
    <3> QED
      BY <3>1, <3>2, Zenon
  <2> QED
    BY <2>1, <2>2, <2>3, Zenon DEF StepLeft, Done
<1>6. CASE CorrectTime \/ CorrectTimeFailed \/ SaveState
  BY <1>1, <1>6, Zenon DEF CorrectTime, CorrectTimeFailed, SaveState, ActionOver, sequence
<1>7. ASSUME NEW t \in Tasks, PerformStep(t)
      PROVE  StepLeft'
  <2>1. /\ \A u \in Tasks : u # t => step'[u] = step[u]
        /\ ActionOver(t) \/ (UNCHANGED runnable /\ ~Done(t)')
    BY <1>7, StepCounts, Zenon
  <2>2. ASSUME NEW u \in Tasks, u \in runnable', u # t
        PROVE  ~Done(u)'
    BY <2>1, <2>2, Zenon DEF StepLeft, Done, ActionOver
  <2>3. t \in runnable' => ~Done(t)'
    BY <2>1, Zenon DEF ActionOver
  <2> QED
    BY <2>2, <2>3, Zenon DEF StepLeft
<1>8. CASE Ground \/ DeploySolarArray \/ Tick \/ UNCHANGED vars
  BY <1>1, <1>8, Zenon
  DEF Ground, OpenSail, OpenSailOverheat, StopSailDeployment, SetTime, DeploySolarArray, Tick,
      vars, loop, sequence
<1>9. ASSUME NEW powerCycled \in PowerCycledResets, Reset(powerCycled)
      PROVE  StepLeft'
  BY <1>9, Zenon DEF Reset, StepLeft
<1> QED
  BY <1>3, <1>4, <1>5, <1>6, <1>7, <1>8, <1>9, Zenon DEF Next, MissionLoop

\* The solar array task is carried out only under way.
LEMMA SadsPlaceStep == SailTypeOK /\ StepLeft /\ LoopPlace /\ SadsPlace /\ [Next]_vars => SadsPlace'
<1> SUFFICES ASSUME SailTypeOK, StepLeft, LoopPlace, SadsPlace, [Next]_vars PROVE SadsPlace'
  OBVIOUS
<1>1. CASE UNCHANGED isDeploying /\ step'["sads"] = step["sads"] /\ runnable' \subseteq runnable
  BY <1>1, Zenon DEF SadsPlace, Done
<1>3. CASE UpdateTime \/ SailGet \/ SailExchange \/ SkipAction
  BY <1>1, <1>3, Zenon DEF UpdateTime, SailGet, SailExchange, SkipAction, sequence, sadsFlags
<1>4. CASE SailOpen
  <2>1. step'["sads"] = step["sads"]
    BY <1>4, SailTypes DEF SailOpen
  <2> QED
    BY <1>1, <1>4, <2>1, Zenon DEF SailOpen, sadsFlags
<1>5. CASE SadsUpdate
  <2>1. runnable' = {}
    BY <1>5 DEF SadsUpdate, Goto, LoopPlace
  <2>2. ~isDeploying' => step' = step /\ ~(isDeploying /\ ~Done("sads"))
    BY <1>5, Zenon DEF SadsUpdate
  <2> QED
    BY <2>1, <2>2, Zenon DEF SadsPlace, Done
<1>6. CASE EvaluateCondition
  <2>1. UNCHANGED step /\ UNCHANGED isDeploying /\ runnable' \subseteq runnable \cup {Actions[at]}
    BY <1>6, Zenon DEF EvaluateCondition, sequence, sadsFlags
  <2>2. Actions[at] \in runnable' => Actions[at] \in runnable \/ Condition(Actions[at])
    BY <1>6, Zenon DEF EvaluateCondition
  <2>3. Condition("sads") => isDeploying
    BY Zenon DEF Condition
  <2> QED
    BY <2>1, <2>2, <2>3, Zenon DEF SadsPlace, Done
<1>7. CASE CorrectTime \/ CorrectTimeFailed \/ SaveState
  BY <1>1, <1>7, Zenon DEF CorrectTime, CorrectTimeFailed, SaveState, ActionOver, sequence, sadsFlags
<1>8. ASSUME NEW t \in Tasks, PerformStep(t)
      PROVE  SadsPlace'
  <2>1. UNCHANGED isDeploying /\ runnable' \subseteq runnable
    BY <1>8, StepCounts, Zenon DEF ActionOver, sadsFlags
  <2>2. CASE t = "sail"
    BY <1>1, <1>8, <2>1, <2>2, StepCounts DEF Tasks
  <2>3. CASE t = "sads"
    BY <1>8, <2>1, <2>3, Zenon DEF PerformStep, Dispatched, SadsPlace
  <2> QED
    BY <2>2, <2>3, StepPlaces
<1>9. CASE Ground \/ DeploySolarArray \/ Tick \/ UNCHANGED vars
  BY <1>1, <1>9, Zenon
  DEF Ground, OpenSail, OpenSailOverheat, StopSailDeployment, SetTime, DeploySolarArray, Tick,
      vars, loop, sequence, sadsFlags
<1>10. ASSUME NEW powerCycled \in PowerCycledResets, Reset(powerCycled)
       PROVE  SadsPlace'
  <2>1. runnable' = {} /\ step'["sads"] = 0
    BY <1>10 DEF Reset, Tasks
  <2> QED
    BY <2>1, Zenon DEF SadsPlace
<1> QED
  BY <1>3, <1>4, <1>5, <1>6, <1>7, <1>8, <1>9, <1>10, Zenon DEF Next, MissionLoop

-----------------------------------------------------------------------------
(* The knives.                                                             *)

\* The count of lost commands never goes down, but for a reset it is kept too.
LEMMA LossesCounted ==
    ASSUME SailTypeOK, NEW what \in DOMAIN Bounds, Use(what) \/ UNCHANGED used
    PROVE  used["failure"] > 0 => used'["failure"] > 0
<1>1. used["failure"] \in Nat /\ "failure" \in DOMAIN Bounds
  BY SailTypes, SailConstants
<1>2. CASE UNCHANGED used
  BY <1>2
<1>3. CASE Use(what)
  BY <1>1, <1>3, UseCounts
<1> QED
  BY <1>2, <1>3

\* A step of a sequence keeps a knife answered for.
LEMMA PowerByStep ==
    ASSUME OneLoss, SailTypeOK, StepLeft, PowerAnswered, NEW t \in Tasks, PerformStep(t),
           NEW k \in Knives, power'[k]
    PROVE  \/ \E u \in Tasks : BothOffsAhead(u, k)'
           \/ used'["failure"] > 0 /\ \E u \in Tasks : OffAhead(u, k)'
<1> DEFINE b == Begin(t, k)
           i == step[t] + 1
<1>1. /\ step[t] \in Nat /\ step'[t] = i
      /\ \A u \in Tasks : u # t => step'[u] = step[u]
  BY StepOutcome, StepCounts
<1>2. b \in Nat \ {0} /\ LastOff(t, k) = b + 6
  BY StepPlaces
<1>3. used["failure"] \in Nat /\ MaxFailures <= 1
      /\ Bounds["failure"] = MaxFailures /\ "failure" \in DOMAIN Bounds /\ MaxFailures \in Nat
  BY SailTypes, SailConstants DEF OneLoss
<1>4. \A u \in Tasks : u # t => (BothOffsAhead(u, k)' <=> BothOffsAhead(u, k))
                                /\ (OffAhead(u, k)' <=> OffAhead(u, k))
  BY <1>1 DEF BothOffsAhead, OffAhead
<1>5. i < b + 5 => BothOffsAhead(t, k)'
  BY <1>1, <1>2 DEF BothOffsAhead
<1>6. i < b + 6 => OffAhead(t, k)'
  BY <1>1, <1>2 DEF OffAhead
<1>7. power[k] => \/ \E u \in Tasks : BothOffsAhead(u, k)
                  \/ used["failure"] > 0 /\ \E u \in Tasks : OffAhead(u, k)
  BY Zenon DEF PowerAnswered
<1>8. CASE /\ used' = used
           /\ i \in {b, b + 1} => power'[k]
           /\ i \in {b + 5, b + 6} => ~power'[k]
           /\ i \notin {b, b + 1, b + 5, b + 6} => (power'[k] <=> power[k])
  <2>1. i # b + 5 /\ i # b + 6
    BY <1>8
  <2>2. BothOffsAhead(t, k) \/ OffAhead(t, k) => i < b + 5
    BY <1>1, <1>2, <2>1 DEF BothOffsAhead, OffAhead
  <2>3. i \in {b, b + 1} => i < b + 5
    BY <1>2
  <2>4. i \in {b, b + 1} \/ power[k]
    BY <1>8, <2>1
  <2>5. CASE i < b + 5
    BY <1>5, <2>5
  <2>6. CASE ~(i < b + 5)
    <3>1. power[k] /\ ~BothOffsAhead(t, k) /\ ~OffAhead(t, k)
      BY <2>2, <2>3, <2>4, <2>6
    <3> QED
      BY <1>4, <1>7, <1>8, <3>1, Zenon
  <2> QED
    BY <2>5, <2>6
<1>9. CASE Use("failure") /\ power' = power
  <2>1. used["failure"] = 0 /\ used'["failure"] > 0
    <3>1. used["failure"] < MaxFailures /\ used'["failure"] = used["failure"] + 1
      BY <1>3, <1>9, UseCounts
    <3> HIDE DEF b, i
    <3> QED
      BY <1>3, <3>1
  <2>2. power[k]
    BY <1>9, Zenon
  <2>3. PICK u \in Tasks : BothOffsAhead(u, k)
    BY <1>7, <2>1, <2>2
  <2>4. CASE u = t
    <3>1. i < b + 6
      BY <1>1, <1>2, <2>3, <2>4 DEF BothOffsAhead
    <3> QED
      BY <1>6, <2>1, <3>1
  <2>5. CASE u # t
    BY <1>4, <2>3, <2>5, Zenon
  <2> QED
    BY <2>4, <2>5
<1> QED
  BY <1>8, <1>9, StepOutcome, Zenon DEF b, i

\* Every knife that is on is answered for.
LEMMA PowerAnsweredStep ==
    ASSUME OneLoss, SailTypeOK, StepLeft, SadsPlace, PowerAnswered, [Next]_vars
    PROVE  PowerAnswered'
<1>1. CASE /\ UNCHANGED <<power, step>>
           /\ used["failure"] > 0 => used'["failure"] > 0
  BY <1>1, Zenon DEF PowerAnswered, BothOffsAhead, OffAhead
<1>l. \A what \in {"open", "stop", "sads", "setTime", "failure", "correction", "reset"} : what \in DOMAIN Bounds
  BY SailConstants
<1>2. CASE UpdateTime \/ SailGet \/ SailExchange \/ EvaluateCondition \/ SkipAction
           \/ CorrectTimeFailed \/ SaveState \/ OpenSailOverheat \/ Tick \/ UNCHANGED vars
  BY <1>1, <1>2, Zenon
  DEF UpdateTime, SailGet, SailExchange, EvaluateCondition, SkipAction, CorrectTimeFailed, SaveState,
      OpenSailOverheat, Tick, vars, sequence, eps
<1>3. CASE CorrectTime
  <2>1. Use("correction") \/ UNCHANGED used
    BY <1>3, Zenon DEF CorrectTime
  <2> QED
    BY <1>1, <1>3, <1>l, <2>1, LossesCounted, Zenon DEF CorrectTime, eps
<1>4. ASSUME NEW argument \in BOOLEAN, OpenSail(argument)
      PROVE  PowerAnswered'
  BY <1>1, <1>4, <1>l, LossesCounted, Zenon DEF OpenSail, sequence, eps
<1>5. CASE StopSailDeployment
  BY <1>1, <1>5, <1>l, LossesCounted, Zenon DEF StopSailDeployment, sequence, eps
<1>6. ASSUME NEW target \in SetTimes, SetTime(target)
      PROVE  PowerAnswered'
  BY <1>1, <1>6, <1>l, LossesCounted, Zenon DEF SetTime, sequence, eps
<1>7. CASE DeploySolarArray
  BY <1>1, <1>7, <1>l, LossesCounted, Zenon DEF DeploySolarArray, sequence, eps
<1>8. CASE step'["sail"] = 0
  <2>1. ASSUME NEW k \in Knives
        PROVE  BothOffsAhead("sail", k)'
    <3>1. LastOff("sail", k) = FirstOn(k) + 6 /\ FirstOn(k) \in {2, 9}
      BY StepPlaces
    <3> QED
      BY <1>8, <3>1 DEF BothOffsAhead
  <2>2. "sail" \in Tasks
    BY DEF Tasks
  <2> QED
    BY <2>1, <2>2, Zenon DEF PowerAnswered
<1>9. CASE SailOpen
  <2>1. step'["sail"] = 0
    BY <1>9, SailTypes DEF SailOpen, Tasks
  <2> QED
    BY <1>8, <2>1
<1>10. ASSUME NEW powerCycled \in PowerCycledResets, Reset(powerCycled)
       PROVE  PowerAnswered'
  <2>1. step'["sail"] = 0
    BY <1>10 DEF Reset, Tasks
  <2> QED
    BY <1>8, <2>1
<1>11. CASE SadsUpdate
  <2>1. UNCHANGED <<power, used>>
    BY <1>11, Zenon DEF SadsUpdate, eps
  <2>2. CASE step' = step
    BY <1>1, <2>1, <2>2, Zenon
  <2>3. CASE step' = [step EXCEPT !["sads"] = 0] /\ (step["sads"] = 0 \/ Done("sads"))
    <3>1. step'["sail"] = step["sail"]
      BY <2>3, SailTypes
    <3>2. ASSUME NEW k \in Knives
          PROVE  ~OffAhead("sads", k) /\ ~BothOffsAhead("sads", k)
      <4>1. LastOff("sads", k) = FirstOn(k) + 5 /\ FirstOn(k) \in {2, 9} /\ Len(Steps["sads"]) = 14
        BY StepPlaces
      <4> QED
        BY <2>3, <4>1 DEF OffAhead, BothOffsAhead, Done
    <3>3. ASSUME NEW k \in Knives
          PROVE  (BothOffsAhead("sail", k)' <=> BothOffsAhead("sail", k))
                 /\ (OffAhead("sail", k)' <=> OffAhead("sail", k))
      BY <3>1, Zenon DEF OffAhead, BothOffsAhead
    <3>4. \A t \in Tasks : t = "sail" \/ t = "sads"
      BY StepPlaces
    <3> QED
      BY <2>1, <3>2, <3>3, <3>4, Zenon DEF PowerAnswered
  <2>4. step' = step \/ (step' = [step EXCEPT !["sads"] = 0] /\ ~(isDeploying /\ ~Done("sads")))
    BY <1>11, Zenon DEF SadsUpdate
  <2> QED
    BY <2>2, <2>3, <2>4, Zenon DEF SadsPlace
<1>12. ASSUME NEW t \in Tasks, PerformStep(t)
       PROVE  PowerAnswered'
  BY <1>12, PowerByStep, Zenon DEF PowerAnswered
<1> QED
  BY <1>2, <1>3, <1>4, <1>5, <1>6, <1>7, <1>9, <1>10, <1>11, <1>12, Zenon DEF Next, MissionLoop, Ground

\* With both sequences at an end no knife is on.
LEMMA NoneLeftOn == SailTypeOK /\ PowerAnswered => KnivesOffWhenDone
<1> SUFFICES ASSUME SailTypeOK, PowerAnswered, Done("sail"), step["sads"] = 0 \/ Done("sads"),
                    NEW k \in Knives
             PROVE  ~power[k]
  BY Zenon DEF KnivesOffWhenDone
<1>1. /\ LastOff("sail", k) = FirstOn(k) + 6 /\ LastOff("sads", k) = FirstOn(k) + 5
      /\ FirstOn(k) \in {2, 9} /\ Len(Steps["sail"]) = 15 /\ Len(Steps["sads"]) = 14
  BY StepPlaces
<1>2. ~OffAhead("sail", k) /\ ~BothOffsAhead("sail", k) /\ ~OffAhead("sads", k) /\ ~BothOffsAhead("sads", k)
  BY <1>1 DEF OffAhead, BothOffsAhead, Done
<1>3. \A t \in Tasks : t = "sail" \/ t = "sads"
  BY StepPlaces
<1> QED
  BY <1>2, <1>3, Zenon DEF PowerAnswered

\* A counter at zero was at zero before.
LEMMA UsedGrows ==
    ASSUME SailTypeOK, StepLeft, [Next]_vars
    PROVE  /\ \A w \in DOMAIN Bounds : used'[w] = 0 => used[w] = 0
           /\ used["failure"] > 0 => used'["failure"] > 0
<1>l. \A what \in {"open", "stop", "sads", "setTime", "failure", "correction", "reset"} : what \in DOMAIN Bounds
  BY SailConstants
<1>1. (\E what \in DOMAIN Bounds : Use(what)) \/ UNCHANGED used
  <2>1. CASE UpdateTime \/ SailGet \/ SailExchange \/ SailOpen \/ SadsUpdate \/ EvaluateCondition
             \/ SkipAction \/ CorrectTimeFailed \/ SaveState \/ OpenSailOverheat \/ Tick \/ UNCHANGED vars
    BY <2>1, Zenon
    DEF UpdateTime, SailGet, SailExchange, SailOpen, SadsUpdate, EvaluateCondition, SkipAction,
        CorrectTimeFailed, SaveState, OpenSailOverheat, Tick, vars
  <2>2. CASE CorrectTime
    BY <1>l, <2>2, Zenon DEF CorrectTime
  <2>3. CASE StopSailDeployment \/ DeploySolarArray
    BY <1>l, <2>3, Zenon DEF StopSailDeployment, DeploySolarArray
  <2>4. ASSUME NEW argument \in BOOLEAN, OpenSail(argument)
        PROVE  Use("open")
    BY <2>4, Zenon DEF OpenSail
  <2>5. ASSUME NEW target \in SetTimes, SetTime(target)
        PROVE  Use("setTime")
    BY <2>5, Zenon DEF SetTime
  <2>6. ASSUME NEW powerCycled \in PowerCycledResets, Reset(powerCycled)
        PROVE  Use("reset")
    BY <2>6, Zenon DEF Reset
  <2>7. ASSUME NEW t \in Tasks, PerformStep(t)
        PROVE  Use("failure") \/ UNCHANGED used
    BY <2>7, Zenon DEF PerformStep
  <2> QED
    BY <1>l, <2>1, <2>2, <2>3, <2>4, <2>5, <2>6, <2>7, Zenon DEF Next, MissionLoop, Ground
<1>2. \A w \in DOMAIN Bounds : used[w] \in Nat
  BY SailTypes
<1>3. ASSUME NEW what \in DOMAIN Bounds, Use(what), NEW w \in DOMAIN Bounds
      PROVE  used'[w] = 0 => used[w] = 0
  <2>1. used'[what] = used[what] + 1 /\ (w # what => used'[w] = used[w])
    BY <1>3, UseCounts
  <2> QED
    BY <1>2, <2>1
<1>4. UNCHANGED used => \A w \in DOMAIN Bounds : used'[w] = 0 => used[w] = 0
  OBVIOUS
<1> QED
  BY <1>l, <1>1, <1>3, <1>4, LossesCounted, Zenon

\* Without an order the solar array task rests.
LEMMA SadsRestsStep ==
    ASSUME SailTypeOK, StepLeft, LoopPlace, SadsRests, [Next]_vars
    PROVE  SadsRests'
<1> SUFFICES ASSUME used'["sads"] = 0
             PROVE  /\ ~deployOnNextMissionLoop' /\ ~isDeploying'
                    /\ "sads" \notin runnable' /\ step'["sads"] = 0
  BY Zenon DEF SadsRests
<1>0. used["sads"] = 0 /\ "sads" \in DOMAIN Bounds
  BY UsedGrows, SailConstants
<1>1. /\ ~deployOnNextMissionLoop /\ ~isDeploying
      /\ "sads" \notin runnable /\ step["sads"] = 0
  BY <1>0, Zenon DEF SadsRests
<1>2. CASE UNCHANGED sadsFlags /\ step'["sads"] = step["sads"] /\ runnable' \subseteq runnable
  BY <1>1, <1>2, Zenon DEF sadsFlags
<1>3. CASE UpdateTime \/ SailGet \/ SailExchange \/ SkipAction
  BY <1>2, <1>3, Zenon DEF UpdateTime, SailGet, SailExchange, SkipAction, sequence
<1>4. CASE SailOpen
  <2>1. step'["sads"] = step["sads"]
    BY <1>4, SailTypes DEF SailOpen
  <2> QED
    BY <1>2, <1>4, <2>1, Zenon DEF SailOpen
<1>5. CASE SadsUpdate
  <2>1. step' = step /\ ~isDeploying' /\ ~deployOnNextMissionLoop' /\ runnable' = runnable
    BY <1>1, <1>5, Zenon DEF SadsUpdate
  <2> QED
    BY <1>1, <2>1, Zenon
<1>6. CASE EvaluateCondition
  <2>1. UNCHANGED <<step, sadsFlags>> /\ runnable' \subseteq runnable \cup {Actions[at]}
    BY <1>6, Zenon DEF EvaluateCondition, sequence
  <2>2. Actions[at] \in runnable' => Actions[at] \in runnable \/ Condition(Actions[at])
    BY <1>6, Zenon DEF EvaluateCondition
  <2>3. ~Condition("sads")
    BY <1>1, Zenon DEF Condition
  <2> QED
    BY <1>1, <2>1, <2>2, <2>3, Zenon DEF sadsFlags
<1>7. CASE CorrectTime \/ CorrectTimeFailed \/ SaveState
  BY <1>2, <1>7, Zenon DEF CorrectTime, CorrectTimeFailed, SaveState, ActionOver, sequence
<1>8. ASSUME NEW t \in Tasks, PerformStep(t)
      PROVE  UNCHANGED sadsFlags /\ step'["sads"] = step["sads"] /\ runnable' \subseteq runnable
  <2>1. t = "sail" /\ "sads" \in Tasks
    BY <1>1, <1>8, StepPlaces DEF PerformStep, Dispatched, Tasks
  <2> QED
    BY <1>8, <2>1, StepCounts, Zenon DEF ActionOver
<1>9. CASE OpenSailOverheat \/ StopSailDeployment \/ Tick \/ UNCHANGED vars
  BY <1>2, <1>9, Zenon DEF OpenSailOverheat, StopSailDeployment, Tick, vars, loop, sequence
<1>10. ASSUME NEW argument \in BOOLEAN, OpenSail(argument)
       PROVE  UNCHANGED sadsFlags /\ step'["sads"] = step["sads"] /\ runnable' \subseteq runnable
  BY <1>10, Zenon DEF OpenSail, sequence, loop
<1>11. ASSUME NEW target \in SetTimes, SetTime(target)
       PROVE  UNCHANGED sadsFlags /\ step'["sads"] = step["sads"] /\ runnable' \subseteq runnable
  BY <1>11, Zenon DEF SetTime, sequence, loop
<1>12. CASE DeploySolarArray
  <2>1. used'["sads"] = used["sads"] + 1
    BY <1>0, <1>12, UseCounts DEF DeploySolarArray
  <2> QED
    BY <1>0, <2>1
<1>13. ASSUME NEW powerCycled \in PowerCycledResets, Reset(powerCycled)
       PROVE  /\ ~deployOnNextMissionLoop' /\ ~isDeploying'
              /\ "sads" \notin runnable' /\ step'["sads"] = 0
  <2>1. step'["sads"] = 0
    BY <1>13 DEF Reset, Tasks
  <2> QED
    BY <1>13, <2>1, Zenon DEF Reset
<1> QED
  BY <1>2, <1>3, <1>4, <1>5, <1>6, <1>7, <1>8, <1>9, <1>10, <1>11, <1>12, <1>13, Zenon
  DEF Next, MissionLoop, Ground

\* An iteration looks at one time, which corrections move together with the
\* moments of the next steps.
LEMMA OneTimeStep ==
    ASSUME SailTypeOK, StepLeft, LoopPlace, OneTime, [Next]_vars
    PROVE  OneTime'
<1> SUFFICES ASSUME used'["setTime"] = 0
             PROVE  /\ loopPc' # "Idle" => stateTime' = time'
                    /\ \A t \in Tasks : t \in runnable' => stateTime' >= nextStepAfter'[t]
  BY Zenon DEF OneTime
<1>0. used["setTime"] = 0 /\ "setTime" \in DOMAIN Bounds
  BY UsedGrows, SailConstants
<1>1. /\ loopPc # "Idle" => stateTime = time
      /\ \A t \in Tasks : t \in runnable => stateTime >= nextStepAfter[t]
  BY <1>0, Zenon DEF OneTime
<1>2. CASE /\ UNCHANGED <<time, stateTime, nextStepAfter>> /\ runnable' \subseteq runnable
           /\ loopPc' = "Idle" \/ loopPc # "Idle"
  BY <1>1, <1>2, Zenon
<1>3. CASE SailGet \/ SailExchange \/ SkipAction
  BY <1>2, <1>3 DEF SailGet, SailExchange, SkipAction, sequence, Goto
<1>4. CASE UpdateTime
  <2>1. runnable' = {} /\ stateTime' = time'
    BY <1>4 DEF UpdateTime, Goto, LoopPlace
  <2> QED
    BY <2>1
<1>5. CASE SailOpen \/ SadsUpdate
  <2>1. runnable' = {} /\ loopPc # "Idle" /\ UNCHANGED <<time, stateTime>>
    BY <1>5 DEF SailOpen, SadsUpdate, Goto, LoopPlace
  <2> QED
    BY <1>1, <2>1
<1>6. CASE EvaluateCondition
  <2>1. /\ UNCHANGED <<time, stateTime, nextStepAfter>> /\ runnable' \subseteq runnable \cup {Actions[at]}
        /\ loopPc = "Determine"
        /\ Actions[at] \in runnable' => Actions[at] \in runnable \/ Condition(Actions[at])
    BY <1>6, Zenon DEF EvaluateCondition, sequence
  <2>2. \A t \in Tasks : Condition(t) => stateTime >= nextStepAfter[t]
    <3>1. \A t \in Tasks : t = "sail" \/ t = "sads"
      BY StepPlaces
    <3>2. (Condition("sail") => Due("sail")) /\ (Condition("sads") => Due("sads"))
      BY Zenon DEF Condition
    <3> QED
      BY <3>1, <3>2, Zenon DEF Due
  <2> QED
    BY <1>1, <2>1, <2>2
<1>7. CASE CorrectTime
  <2>1. PICK correction \in -1..1 :
           /\ time' = time + correction /\ stateTime' = time'
           /\ nextStepAfter' = [t \in Tasks |-> nextStepAfter[t] + correction]
    BY <1>7, Zenon DEF CorrectTime, NotifyTimeChanged
  <2>2. runnable' \subseteq runnable /\ loopPc = "Dispatch"
    BY <1>7, Zenon DEF CorrectTime, ActionOver, Dispatched
  <2>3. time \in Nat /\ stateTime = time /\ nextStepAfter \in [Tasks -> Int]
    BY <1>1, <2>2, SailTypes, SailConstants
  <2>4. ASSUME NEW t \in Tasks, t \in runnable'
        PROVE  stateTime' >= nextStepAfter'[t]
    <3>1. time >= nextStepAfter[t]
      BY <1>1, <2>2, <2>3, <2>4
    <3>2. stateTime' = time + correction /\ nextStepAfter'[t] = nextStepAfter[t] + correction
      BY <2>1, Zenon
    <3> QED
      BY <2>3, <3>1, <3>2
  <2> QED
    BY <2>1, <2>4
<1>8. CASE CorrectTimeFailed \/ SaveState
  BY <1>2, <1>8 DEF CorrectTimeFailed, SaveState, ActionOver, sequence, Dispatched
<1>9. ASSUME NEW t \in Tasks, PerformStep(t)
      PROVE  /\ loopPc' # "Idle" => stateTime' = time'
             /\ \A u \in Tasks : u \in runnable' => stateTime' >= nextStepAfter'[u]
  <2>1. /\ \A u \in Tasks : u # t => nextStepAfter'[u] = nextStepAfter[u]
        /\ UNCHANGED <<time, stateTime>>
        /\ ActionOver(t) \/ (UNCHANGED runnable /\ nextStepAfter'[t] = stateTime)
    BY <1>9, StepCounts, Zenon
  <2>2. loopPc = "Dispatch" /\ stateTime \in Int
    BY <1>9, SailTypes, SailConstants DEF PerformStep, Dispatched
  <2>3. ASSUME NEW u \in Tasks, u \in runnable'
        PROVE  stateTime' >= nextStepAfter'[u]
    <3>1. CASE u # t
      BY <1>1, <2>1, <2>3, <3>1, Zenon DEF ActionOver
    <3>2. CASE u = t
      <4>1. stateTime' = stateTime /\ nextStepAfter'[u] = stateTime
        BY <2>1, <2>3, <3>2, Zenon DEF ActionOver
      <4> QED
        BY <2>2, <4>1
    <3> QED
      BY <3>1, <3>2
  <2> QED
    BY <1>1, <2>1, <2>2, <2>3
<1>10. CASE OpenSailOverheat \/ StopSailDeployment \/ UNCHANGED vars
  BY <1>1, <1>10, Zenon DEF OpenSailOverheat, StopSailDeployment, vars, loop, sequence
<1>11. ASSUME NEW argument \in BOOLEAN, OpenSail(argument)
       PROVE  UNCHANGED <<time, stateTime, nextStepAfter, runnable, loopPc>>
  BY <1>11, Zenon DEF OpenSail, sequence, loop
<1>12. CASE DeploySolarArray
  BY <1>1, <1>12, Zenon DEF DeploySolarArray, sequence, loop
<1>13. ASSUME NEW target \in SetTimes, SetTime(target)
       PROVE  FALSE
  <2>1. used'["setTime"] = used["setTime"] + 1
    BY <1>0, <1>13, UseCounts DEF SetTime
  <2> QED
    BY <1>0, <2>1
<1>14. CASE Tick
  <2>1. loopPc' = "Idle" /\ runnable' = {}
    BY <1>14 DEF Tick, loop, LoopPlace
  <2> QED
    BY <2>1
<1>15. ASSUME NEW powerCycled \in PowerCycledResets, Reset(powerCycled)
       PROVE  loopPc' = "Idle" /\ runnable' = {}
  BY <1>15, Zenon DEF Reset
<1>16. CASE \E argument \in BOOLEAN : OpenSail(argument)
  BY <1>1, <1>11, <1>16, Zenon
<1>17. CASE \E powerCycled \in PowerCycledResets : Reset(powerCycled)
  BY <1>15, <1>17, Zenon
<1> QED
  BY <1>3, <1>4, <1>5, <1>6, <1>7, <1>8, <1>9, <1>10, <1>12, <1>13, <1>14, <1>16, <1>17, Zenon
  DEF Next, MissionLoop, Ground

-----------------------------------------------------------------------------
(* The burns of the sail.                                                  *)

\* A step of the sail's sequence brings a knife one command further; the wait
\* ends when what is left of it has passed.
LEMMA BurnByStep ==
    ASSUME OneLoss, SailTypeOK, StepLeft, PerformStep("sail"), NEW k \in Knives, KnifeBurns(k),
           stateTime = time, stateTime >= nextStepAfter["sail"]
    PROVE  KnifeBurns(k)'
<1> DEFINE on == FirstOn(k)
           done == step["sail"]
           now == step'["sail"]
           next == nextStepAfter["sail"]
           after == nextStepAfter'["sail"]
           lost == used["failure"]
           lostNow == used'["failure"]
<1>0. "sail" \in Tasks /\ Begin("sail", k) = on /\ on \in {2, 9} /\ Len(Steps["sail"]) = 15
  BY StepPlaces DEF Tasks
<1>1. /\ done \in Nat /\ now = done + 1 /\ done < 15
      /\ time' = time /\ burned' = burned
      /\ Steps["sail"][done + 1] # Wait => after = stateTime
      /\ Steps["sail"][done + 1] = Wait => after = stateTime + WaitTime
  BY <1>0, StepOutcome, StepCounts, Zenon
<1>2. done + 1 \in 1..Len(Steps["sail"])
  BY <1>0, <1>1
<1>3. now = on + 4 => Steps["sail"][done + 1] = Wait
  BY <1>0, <1>1, <1>2, StepTable
<1>4. /\ burned[k] \in 0..WaitTime /\ WaitTime \in Nat /\ time \in Nat /\ next \in Int
      /\ lost \in Nat /\ MaxFailures <= 1 /\ MaxFailures \in Nat
  BY <1>0, SailTypes, SailConstants DEF OneLoss
<1>5. \/ /\ lostNow = lost
         /\ now \in {on, on + 1} => power'[k]
         /\ now \notin {on, on + 1, on + 5, on + 6} => (power'[k] <=> power[k])
         /\ now \in {on + 2, on + 3} => "sail" \in burning'[k]
         /\ now \notin {on + 5, on + 6} => burning[k] \subseteq burning'[k]
      \/ lost = 0 /\ lostNow = 1 /\ power' = power /\ burning' = burning
  <2>1. CASE /\ used' = used
             /\ step["sail"] + 1 \in {on, on + 1} => power'[k]
             /\ step["sail"] + 1 \notin {on, on + 1, on + 5, on + 6} => (power'[k] <=> power[k])
             /\ step["sail"] + 1 \in {on + 2, on + 3} => "sail" \in burning'[k]
             /\ step["sail"] + 1 \notin {on + 5, on + 6} => burning[k] \subseteq burning'[k]
    BY <1>1, <2>1, Zenon
  <2>2. CASE Use("failure") /\ power' = power /\ burning' = burning
    <3>1. used["failure"] < MaxFailures /\ used'["failure"] = used["failure"] + 1
      BY <2>2, UseCounts, SailConstants
    <3>2. lostNow = lost + 1
      BY <3>1
    <3> HIDE DEF lostNow
    <3> QED
      BY <1>4, <2>2, <3>1, <3>2
  <2> QED
    BY <1>0, <2>1, <2>2, StepOutcome, Zenon
<1>6. /\ done = on => power[k] \/ lost > 0
      /\ done \in (on + 1)..(on + 4) => power[k]
      /\ done = on + 2 => "sail" \in burning[k] \/ lost > 0
      /\ done \in (on + 3)..(on + 4) => "sail" \in burning[k]
      /\ done = on + 4 => burned[k] = WaitTime \/ burned[k] + next >= WaitTime + time
      /\ done >= on + 5 => burned[k] = WaitTime
  BY Zenon DEF KnifeBurns
<1>7. /\ now = on => power'[k] \/ lostNow > 0
      /\ now \in (on + 1)..(on + 4) => power'[k]
      /\ now = on + 2 => "sail" \in burning'[k] \/ lostNow > 0
      /\ now \in (on + 3)..(on + 4) => "sail" \in burning'[k]
  <2> DEFINE p == power[k]
             q == power'[k]
             x == "sail" \in burning[k]
             y == "sail" \in burning'[k]
  <2>1. \/ /\ lostNow = lost
           /\ now \in {on, on + 1} => q
           /\ now \in {on + 2, on + 3, on + 4} => (q <=> p)
           /\ now \in {on + 2, on + 3} => y
           /\ now = on + 4 => (x => y)
        \/ lost = 0 /\ lostNow = 1 /\ (q <=> p) /\ (x <=> y)
    <3>1. CASE /\ lostNow = lost
               /\ now \in {on, on + 1} => power'[k]
               /\ now \notin {on, on + 1, on + 5, on + 6} => (power'[k] <=> power[k])
               /\ now \in {on + 2, on + 3} => "sail" \in burning'[k]
               /\ now \notin {on + 5, on + 6} => burning[k] \subseteq burning'[k]
      <4>1. /\ now \in {on + 2, on + 3, on + 4} => now \notin {on, on + 1, on + 5, on + 6}
            /\ now = on + 4 => now \notin {on + 5, on + 6}
        BY <1>0, <1>1
      <4> HIDE DEF now, lostNow, lost, on
      <4> QED
        BY <3>1, <4>1, Zenon
    <3>2. CASE lost = 0 /\ lostNow = 1 /\ power' = power /\ burning' = burning
      BY <3>2, Zenon
    <3> QED
      BY <1>5, <3>1, <3>2
  <2>2. /\ done = on => p \/ lost > 0
        /\ done \in (on + 1)..(on + 4) => p
        /\ done = on + 2 => x \/ lost > 0
        /\ done \in (on + 3)..(on + 4) => x
    BY <1>6, Zenon
  <2> HIDE DEF p, q, x, y
  <2>3. /\ now = on => q \/ lostNow > 0
        /\ now \in (on + 1)..(on + 4) => q
        /\ now = on + 2 => y \/ lostNow > 0
        /\ now \in (on + 3)..(on + 4) => y
    <3> HIDE DEF now, done, lost, lostNow, on
    <3> QED
      BY <1>0, <1>1, <1>4, <2>1, <2>2
  <2> QED
    BY <2>3, Zenon DEF q, y
<1>8. now = on + 4 => burned'[k] = WaitTime \/ burned'[k] + after >= WaitTime + time'
  <2>1. now = on + 4 => after = time + WaitTime
    BY <1>1, <1>3, Zenon
  <2> HIDE DEF now, after
  <2>2. now = on + 4 => burned[k] + after >= WaitTime + time
    BY <1>4, <2>1
  <2> QED
    BY <1>1, <2>2
<1>9. now >= on + 5 => burned'[k] = WaitTime
  <2> DEFINE b == burned[k]
  <2>1. b \in 0..WaitTime /\ burned'[k] = b
    BY <1>1, <1>4, Zenon
  <2>2. done = on + 4 => b = WaitTime \/ b + next >= WaitTime + time
    BY <1>6
  <2>3. done >= on + 5 => b = WaitTime
    BY <1>6
  <2>4. time >= next
    OBVIOUS
  <2> HIDE DEF b, now, done, next, on
  <2>5. now >= on + 5 => b = WaitTime
    BY <1>0, <1>1, <1>4, <2>1, <2>2, <2>3, <2>4
  <2> QED
    BY <2>1, <2>5
<1> QED
  BY <1>7, <1>8, <1>9, Zenon DEF KnifeBurns

\* A knife burns on for as long as the sequence waits.
LEMMA BurnByTick ==
    ASSUME SailTypeOK, Tick, NEW k \in Knives, KnifeBurns(k)
    PROVE  KnifeBurns(k)'
<1>1. /\ time \in Nat /\ WaitTime \in Nat /\ burned[k] \in 0..WaitTime /\ nextStepAfter["sail"] \in Int
      /\ FirstOn(k) \in {2, 9} /\ step["sail"] \in 0..15
  BY SailTypes, SailConstants, StepPlaces DEF Tasks
<1>2. /\ time' = time + 1 /\ UNCHANGED <<step, nextStepAfter, power, burning, used>>
      /\ burned'[k] = IF power[k] /\ "sail" \in burning[k] /\ burned[k] < WaitTime
                      THEN burned[k] + 1 ELSE burned[k]
  BY Zenon DEF Tick, sequence, eps
<1>3. step["sail"] = FirstOn(k) + 4 => power[k] /\ "sail" \in burning[k]
  <2>1. step["sail"] = FirstOn(k) + 4 =>
           step["sail"] \in (FirstOn(k) + 1)..(FirstOn(k) + 4) /\ step["sail"] \in (FirstOn(k) + 3)..(FirstOn(k) + 4)
    BY <1>1
  <2> QED
    BY <2>1, Zenon DEF KnifeBurns
<1>4. step["sail"] = FirstOn(k) + 4 =>
         burned'[k] = WaitTime \/ burned'[k] + nextStepAfter'["sail"] >= WaitTime + time'
  <2> DEFINE b == burned[k]
             c == burned'[k]
             next == nextStepAfter["sail"]
  <2>1. step["sail"] = FirstOn(k) + 4 => b = WaitTime \/ b + next >= WaitTime + time
    BY Zenon DEF KnifeBurns
  <2>2. step["sail"] = FirstOn(k) + 4 => c = IF b < WaitTime THEN b + 1 ELSE b
    BY <1>2, <1>3, Zenon
  <2>3. b \in 0..WaitTime /\ next \in Int
    BY <1>1
  <2> HIDE DEF b, c, next
  <2>4. step["sail"] = FirstOn(k) + 4 => c = WaitTime \/ c + next >= WaitTime + (time + 1)
    BY <1>1, <2>1, <2>2, <2>3
  <2> QED
    BY <1>2, <2>4, Zenon DEF c, next
<1>5. step["sail"] >= FirstOn(k) + 5 => burned'[k] = WaitTime
  <2>1. step["sail"] >= FirstOn(k) + 5 => burned[k] = WaitTime
    BY Zenon DEF KnifeBurns
  <2> QED
    BY <1>1, <1>2, <2>1
<1> QED
  BY <1>2, <1>4, <1>5, Zenon DEF KnifeBurns

\* The burns are kept on their way, whatever else happens.
LEMMA BurnsStep ==
    ASSUME OneLoss, SailTypeOK, StepLeft, LoopPlace, SadsRests, OneTime, Burns, [Next]_vars
    PROVE  Burns'
<1> SUFFICES ASSUME used'["sads"] = 0, used'["setTime"] = 0, NEW k \in Knives
             PROVE  KnifeBurns(k)'
  BY Zenon DEF Burns
<1>0. /\ used["sads"] = 0 /\ used["setTime"] = 0 /\ "setTime" \in DOMAIN Bounds
      /\ used["failure"] > 0 => used'["failure"] > 0
  BY UsedGrows, SailConstants
<1>1. KnifeBurns(k) /\ "sads" \notin runnable
  BY <1>0, Zenon DEF Burns, SadsRests
<1>2. CASE UNCHANGED <<time, step, nextStepAfter, power, burning, burned>>
  BY <1>0, <1>1, <1>2, Zenon DEF KnifeBurns
<1>3. CASE UpdateTime \/ SailGet \/ SailExchange \/ EvaluateCondition \/ SkipAction
           \/ CorrectTimeFailed \/ SaveState \/ OpenSailOverheat \/ StopSailDeployment
           \/ DeploySolarArray \/ UNCHANGED vars
  BY <1>2, <1>3, Zenon
  DEF UpdateTime, SailGet, SailExchange, EvaluateCondition, SkipAction, CorrectTimeFailed, SaveState,
      OpenSailOverheat, StopSailDeployment, DeploySolarArray, vars, sequence, eps
<1>4. CASE step'["sail"] = 0
  <2>1. FirstOn(k) \in {2, 9}
    BY StepPlaces
  <2> QED
    BY <1>4, <2>1 DEF KnifeBurns
<1>5. CASE SailOpen
  <2>1. step'["sail"] = 0
    BY <1>5, SailTypes DEF SailOpen, Tasks
  <2> QED
    BY <1>4, <2>1
<1>6. CASE SadsUpdate
  BY <1>0, <1>2, <1>6, Zenon DEF SadsUpdate, SadsRests, eps
<1>7. CASE CorrectTime
  <2>1. PICK correction \in -1..1 :
           /\ time' = time + correction
           /\ nextStepAfter' = [t \in Tasks |-> nextStepAfter[t] + correction]
    BY <1>7, Zenon DEF CorrectTime, NotifyTimeChanged
  <2>2. UNCHANGED <<step, power, burning, burned>>
    BY <1>7, Zenon DEF CorrectTime, eps
  <2>3. "sail" \in Tasks
    BY DEF Tasks
  <2>4. nextStepAfter'["sail"] = nextStepAfter["sail"] + correction
    BY <2>1, <2>3, Zenon
  <2>5. time \in Nat /\ WaitTime \in Nat /\ burned[k] \in 0..WaitTime /\ nextStepAfter["sail"] \in Int
    BY <2>3, SailTypes, SailConstants
  <2>6. ASSUME NEW b \in Int, NEW n \in Int, NEW w \in Int, b + n >= w + time
        PROVE  b + (n + correction) >= w + (time + correction)
    BY <2>5, <2>6
  <2>7. burned[k] + nextStepAfter["sail"] >= WaitTime + time
           => burned[k] + nextStepAfter'["sail"] >= WaitTime + time'
    <3>1. burned[k] \in Int /\ WaitTime \in Int
      BY <2>5
    <3> QED
      BY <2>1, <2>4, <2>5, <2>6, <3>1, Zenon
  <2> QED
    BY <1>0, <1>1, <2>2, <2>7, Zenon DEF KnifeBurns
<1>8. ASSUME NEW t \in Tasks, PerformStep(t)
      PROVE  KnifeBurns(k)'
  <2>1. Dispatched(t) /\ "sail" \in Tasks
    BY <1>8 DEF PerformStep, Tasks
  <2>2. t = "sail"
    BY <1>1, <2>1, StepPlaces DEF Dispatched
  <2>3. stateTime = time /\ stateTime >= nextStepAfter["sail"]
    BY <1>0, <2>1, <2>2 DEF OneTime, Dispatched
  <2> QED
    BY <1>1, <1>8, <2>2, <2>3, BurnByStep
<1>9. ASSUME NEW argument \in BOOLEAN, OpenSail(argument)
      PROVE  UNCHANGED <<time, step, nextStepAfter, power, burning, burned>>
  BY <1>9, Zenon DEF OpenSail, sequence, eps
<1>10. ASSUME NEW target \in SetTimes, SetTime(target)
       PROVE  FALSE
  <2>1. used'["setTime"] = used["setTime"] + 1
    BY <1>0, <1>10, UseCounts DEF SetTime
  <2> QED
    BY <1>0, <2>1
<1>11. CASE Tick
  BY <1>1, <1>11, BurnByTick
<1>12. ASSUME NEW powerCycled \in PowerCycledResets, Reset(powerCycled)
       PROVE  step'["sail"] = 0
  BY <1>12 DEF Reset, Tasks
<1> QED
  BY <1>2, <1>3, <1>4, <1>5, <1>6, <1>7, <1>8, <1>9, <1>10, <1>11, <1>12, Zenon
  DEF Next, MissionLoop, Ground

\* A knife that is switched off has burned for the whole wait.
LEMMA FullBurns ==
    ASSUME SailTypeOK, used["sads"] = 0, used["setTime"] = 0, Burns
    PROVE  FullBurn
<1> SUFFICES ASSUME NEW k \in Knives, NEW i \in 1..step["sail"], Steps["sail"][i] = Off(k)
             PROVE  burned[k] = WaitTime
  BY DEF FullBurn
<1>1. /\ step["sail"] \in 0..15 /\ "sail" \in Tasks /\ Len(Steps["sail"]) = 15
      /\ Begin("sail", k) = FirstOn(k) /\ FirstOn(k) \in {2, 9}
  BY SailTypes, StepPlaces DEF Tasks
<1>2. i \in 1..Len(Steps["sail"])
  BY <1>1
<1>3. i \in {Begin("sail", k) + 5, Begin("sail", k) + 6} <=> Steps["sail"][i] = Off(k)
  BY <1>1, <1>2, StepTable
<1>4. step["sail"] >= FirstOn(k) + 5
  BY <1>1, <1>3
<1> QED
  BY <1>4, Zenon DEF Burns, KnifeBurns

\* The sail alone: a sequence begins where none is under way.
LEMMA InOrderStep ==
    ASSUME SailAlone, OneLoss, SailTypeOK, StepLeft, LoopPlace, PowerAnswered, SadsRests,
           used["sads"] = 0, InOrder, [Next]_vars
    PROVE  InOrder'
<1>0. /\ "OpeningStopped" \notin {sailState, currentState, saved.sail}
      /\ loopPc = "SailExchange" => currentState = sailState
      /\ sailState = "Waiting" => step["sail"] = 0
      /\ loopPc = "SailOpen" => step["sail"] = 0 \/ Done("sail")
      /\ "sail" \in runnable => sailState = "Opening"
      /\ power["Redundant"] => step["sail"] >= 9
  BY Zenon DEF InOrder
<1>1. /\ step["sail"] \in 0..15 /\ "sail" \in Tasks /\ "Redundant" \in Knives
      /\ Len(Steps["sail"]) = 15 /\ "sads" \notin runnable
      /\ sailState \in SailStates
  BY SailTypes, StepPlaces DEF Tasks, Knives, SadsRests
<1>2. CASE /\ UNCHANGED <<sailState, saved, step, power>> /\ runnable' \subseteq runnable
           /\ currentState' = currentState \/ currentState' = "Waiting"
           /\ loopPc' \notin {"SailExchange", "SailOpen"}
  BY <1>0, <1>2 DEF InOrder, Done
<1>3. CASE UNCHANGED <<sailState, saved, step, power, runnable, currentState, loopPc>>
  BY <1>0, <1>3, Zenon DEF InOrder, Done
<1>4. CASE UpdateTime
  BY <1>0, <1>4 DEF UpdateTime, Goto, persistent, sequence, eps, InOrder, Done
<1>5. CASE SailGet
  BY <1>0, <1>5 DEF SailGet, Goto, persistent, sequence, eps, InOrder, Done
<1>6. CASE SailExchange
  <2>1. Opens(currentState, openOnNextMissionLoop) => step["sail"] = 0 \/ Done("sail")
    BY <1>0, <1>6 DEF SailExchange, Goto, Opens
  <2>2. /\ loopPc' = "SailOpen" => Opens(currentState, openOnNextMissionLoop)
        /\ loopPc' # "SailExchange" /\ currentState' = "Waiting"
        /\ UNCHANGED <<sailState, saved, step, power, runnable>>
    BY <1>6 DEF SailExchange, Goto, persistent, sequence, eps
  <2> QED
    BY <1>0, <2>1, <2>2 DEF InOrder, Done
<1>7. CASE SailOpen
  <2>1. loopPc = "SailOpen" /\ loopPc' = "SadsUpdate" /\ sailState' = "Opening"
        /\ UNCHANGED <<saved, currentState, power, runnable>>
    BY <1>7 DEF SailOpen, Goto, eps
  <2>2. ~power["Redundant"]
    <3>1. CASE step["sail"] = 0
      BY <1>0, <3>1
    <3>2. CASE Done("sail")
      BY <1>1, <3>2, NoneLeftOn, Zenon DEF KnivesOffWhenDone, SadsRests
    <3> QED
      BY <1>0, <2>1, <3>1, <3>2
  <2> QED
    BY <1>0, <2>1, <2>2 DEF InOrder
<1>8. CASE SadsUpdate
  <2>1. step' = step
    BY <1>8, Zenon DEF SadsUpdate, SadsRests
  <2> QED
    BY <1>2, <1>8, <2>1 DEF SadsUpdate, Goto, persistent, eps
<1>9. CASE EvaluateCondition
  <2>1. /\ UNCHANGED <<sailState, saved, step, power, currentState>>
        /\ runnable' \subseteq runnable \cup {Actions[at]}
        /\ Actions[at] \in runnable' => Actions[at] \in runnable \/ Condition(Actions[at])
    BY <1>9, Zenon DEF EvaluateCondition, sequence, persistent, eps
  <2>2. loopPc' \in {"Determine", "Dispatch"}
    BY <1>9 DEF EvaluateCondition, Advance
  <2>3. Condition("sail") => sailState = "Opening"
    BY Zenon DEF Condition
  <2>4. "sail" \in runnable' => sailState' = "Opening"
    BY <1>0, <2>1, <2>3, Zenon
  <2> QED
    BY <1>0, <2>1, <2>2, <2>4 DEF InOrder, Done
<1>10. ASSUME Advance("Idle"), loopPc = "Dispatch"
       PROVE  loopPc' \notin {"SailExchange", "SailOpen"}
  BY <1>10 DEF Advance
<1>11. CASE SkipAction
  BY <1>2, <1>10, <1>11, Zenon DEF SkipAction, persistent, sequence, eps
<1>12. CASE CorrectTime
  <2>1. /\ UNCHANGED <<sailState, saved, step, power, currentState>>
        /\ loopPc = "Dispatch" /\ Advance("Idle") /\ runnable' \subseteq runnable
    BY <1>12, Zenon DEF CorrectTime, Dispatched, ActionOver, eps
  <2> QED
    BY <1>2, <1>10, <2>1, Zenon
<1>13. CASE CorrectTimeFailed
  <2>1. /\ UNCHANGED <<sailState, saved, step, power, currentState>>
        /\ loopPc = "Dispatch" /\ Advance("Idle") /\ runnable' \subseteq runnable
    BY <1>13, Zenon DEF CorrectTimeFailed, Dispatched, ActionOver, eps, sequence
  <2> QED
    BY <1>2, <1>10, <2>1, Zenon
<1>14. CASE SaveState
  <2>1. /\ UNCHANGED <<sailState, step, power, currentState>>
        /\ loopPc = "Dispatch" /\ Advance("Idle") /\ runnable' \subseteq runnable
        /\ saved' = [sail |-> sailState, missionTime |-> lastMissionTime]
    BY <1>14, Zenon DEF SaveState, Dispatched, ActionOver, eps, sequence
  <2>2. saved'.sail = sailState
    BY <2>1
  <2>3. loopPc' \notin {"SailExchange", "SailOpen"}
    BY <1>10, <2>1
  <2> QED
    BY <1>0, <2>1, <2>2, <2>3 DEF InOrder, Done
<1>15. ASSUME NEW t \in Tasks, PerformStep(t)
       PROVE  InOrder'
  <2>1. t = "sail" /\ loopPc = "Dispatch" /\ "sail" \in runnable
    BY <1>1, <1>15, StepPlaces DEF PerformStep, Dispatched
  <2>2. /\ step'["sail"] = step["sail"] + 1
        /\ UNCHANGED <<sailState, saved, currentState>>
        /\ runnable' \subseteq runnable /\ loopPc' \in {"Dispatch", "Idle"}
    <3>1. PerformStep("sail")
      BY <1>15, <2>1
    <3>2. /\ step'["sail"] = step["sail"] + 1
          /\ UNCHANGED <<sailState, saved, currentState>>
          /\ ActionOver("sail") \/ UNCHANGED <<loopPc, at, runnable>>
      BY <1>1, <3>1, StepCounts, Zenon DEF persistent
    <3> QED
      BY <2>1, <3>2 DEF ActionOver, Advance
  <2>3. power'["Redundant"] => step'["sail"] >= 9
    <3> DEFINE now == step["sail"] + 1
               p == power["Redundant"]
               q == power'["Redundant"]
    <3>1. Begin("sail", "Redundant") = 9
      BY StepPlaces DEF Knives
    <3>2. \/ now \notin {9, 10, 14, 15} => (q <=> p)
          \/ power' = power
      BY <1>1, <1>15, <2>1, <3>1, StepOutcome
    <3>3. now \notin {9, 10, 14, 15} => (q => p)
      BY <3>2, Zenon
    <3>4. p => step["sail"] >= 9
      BY <1>0, Zenon
    <3> HIDE DEF p, q
    <3>5. q => now >= 9
      BY <1>1, <3>3, <3>4
    <3> QED
      BY <2>2, <3>5, Zenon DEF q, now
  <2> QED
    BY <1>0, <2>1, <2>2, <2>3 DEF InOrder
<1>16. CASE OpenSailOverheat \/ DeploySolarArray \/ Tick \/ UNCHANGED vars
  BY <1>3, <1>16, Zenon
  DEF OpenSailOverheat, DeploySolarArray, Tick, vars, persistent, sequence, eps, loop
<1>17. ASSUME NEW argument \in BOOLEAN, OpenSail(argument)
       PROVE  InOrder'
  BY <1>3, <1>17, Zenon DEF OpenSail, persistent, sequence, eps, loop
<1>18. CASE StopSailDeployment
  <2>1. "stop" \in DOMAIN Bounds /\ used["stop"] \in Nat /\ Bounds["stop"] = 0
    BY SailTypes, SailConstants DEF SailAlone
  <2>2. used["stop"] < Bounds["stop"]
    BY <1>18, Zenon DEF StopSailDeployment, Use
  <2> QED
    BY <2>1, <2>2
<1>19. ASSUME NEW target \in SetTimes, SetTime(target)
       PROVE  InOrder'
  BY <1>3, <1>19, Zenon DEF SetTime, persistent, sequence, eps, loop
<1>20. ASSUME NEW powerCycled \in PowerCycledResets, Reset(powerCycled)
       PROVE  InOrder'
  <2>1. powerCycled
    BY <1>20 DEF SailAlone
  <2>2. /\ sailState' = saved.sail /\ saved' = saved /\ currentState' = "Waiting"
        /\ loopPc' = "Idle" /\ runnable' = {}
        /\ step' = [t \in Tasks |-> 0] /\ power' = [k \in Knives |-> FALSE]
    BY <1>20, <2>1, Zenon DEF Reset
  <2>3. step'["sail"] = 0 /\ ~power'["Redundant"]
    BY <1>1, <2>2, Zenon
  <2> QED
    BY <1>0, <2>2, <2>3 DEF InOrder
<1> QED
  BY <1>4, <1>5, <1>6, <1>7, <1>8, <1>9, <1>11, <1>12, <1>13, <1>14, <1>15, <1>16, <1>17, <1>18,
     <1>19, <1>20, Zenon DEF Next, MissionLoop, Ground

\* One knife burns after the other.
LEMMA OneByOne ==
    ASSUME SailTypeOK, PowerAnswered, SadsRests, used["sads"] = 0, InOrder
    PROVE  OneKnifeAtATime
<1> SUFFICES ASSUME power["Main"], power["Redundant"] PROVE FALSE
  BY Zenon DEF OneKnifeAtATime
<1>1. step["sail"] >= 9 /\ step["sads"] = 0 /\ "Main" \in Knives
  BY Zenon DEF InOrder, SadsRests, Knives
<1>2. LastOff("sail", "Main") = 8
  BY StepPlaces DEF Knives
<1>3. \A t \in Tasks : t = "sail" \/ t = "sads"
  BY StepPlaces
<1>4. step["sail"] \in 0..15
  BY SailTypes, StepPlaces DEF Tasks
<1>5. ~OffAhead("sail", "Main") /\ ~BothOffsAhead("sail", "Main")
  BY <1>1, <1>2, <1>4 DEF OffAhead, BothOffsAhead
<1>6. ~OffAhead("sads", "Main") /\ ~BothOffsAhead("sads", "Main")
  BY <1>1 DEF OffAhead, BothOffsAhead
<1> QED
  BY <1>1, <1>3, <1>5, <1>6, Zenon DEF PowerAnswered

-----------------------------------------------------------------------------
(* The theorems.                                                           *)

\* The inductive invariant holds at the start.
LEMMA SailInvInit == Init => SailInv /\ InOrder
<1> SUFFICES ASSUME Init PROVE SailInv /\ InOrder
  OBVIOUS
<1>1. /\ loopPc = "Idle" /\ at = 1 /\ runnable = {} /\ sailState = "Waiting" /\ currentState = "Waiting"
      /\ saved.sail = "Waiting" /\ step["sail"] = 0 /\ step["sads"] = 0
  BY DEF Init, Tasks
<1>2. (\A k \in Knives : ~power[k]) /\ "Redundant" \in Knives
  BY Zenon DEF Init, Knives
<1>3. ~deployOnNextMissionLoop /\ ~isDeploying
  BY Zenon DEF Init
<1>4. LoopPlace /\ StepLeft /\ OneTime
  BY <1>1 DEF LoopPlace, StepLeft, OneTime
<1>5. PowerAnswered
  BY <1>2, Zenon DEF PowerAnswered
<1>6. SadsRests /\ SadsPlace
  BY <1>1, <1>3, Zenon DEF SadsRests, SadsPlace
<1>7. Burns
  <2>1. \A k \in Knives : FirstOn(k) \in {2, 9}
    BY StepPlaces
  <2>2. \A k \in Knives : KnifeBurns(k)
    BY <1>1, <2>1 DEF KnifeBurns
  <2> QED
    BY <2>2, Zenon DEF Burns
<1>8. InOrder
  BY <1>1, <1>2 DEF InOrder
<1> QED
  BY <1>4, <1>5, <1>6, <1>7, <1>8, SailTypeInit DEF SailInv

\* Every step keeps it, where at most one command is lost.
LEMMA SailInvStep == OneLoss => (SailInv /\ [Next]_vars => SailInv')
  BY SailTypeStep, LoopPlaceStep, StepLeftStep, PowerAnsweredStep, SadsRestsStep, SadsPlaceStep,
     OneTimeStep, BurnsStep DEF SailInv

\* The two sequences on the knives they share, with orders, stops and resets at
\* any point and one command to the power system lost: a knife of the sail that
\* is switched off has burned in full, unless a solar array deployment was
\* ordered or mission time set, and after both sequences no knife is left on
\* (sail.cpp:9-40, sads.cpp:9-37).
THEOREM KnivesAreSafe == OneLoss => (Spec => []KnivesSafe)
<1> SUFFICES ASSUME OneLoss PROVE Spec => []KnivesSafe
  OBVIOUS
<1>1. Init => SailInv
  BY SailInvInit
<1>2. SailInv /\ [Next]_vars => SailInv'
  BY SailInvStep
<1>3. SailInv => KnivesSafe
  BY NoneLeftOn, FullBurns DEF SailInv, KnivesSafe, SailTypeOK, FullBurnUnlessShared
<1> QED
  BY <1>1, <1>2, <1>3, PTL DEF Spec

\* The sail by itself, with one command lost, corrections of mission time and
\* resets that cut the outputs: full burns, of one knife after the other
\* (sail.cpp:9-40, 240-247).
THEOREM KnivesBurnInTurn == OneLoss /\ SailAlone => (Spec => []BurnsInTurn)
<1> SUFFICES ASSUME OneLoss, SailAlone PROVE Spec => []BurnsInTurn
  OBVIOUS
<1> DEFINE Inv == SailInv /\ InOrder
<1>1. Init => Inv
  BY SailInvInit
<1>2. SailTypeOK => used["sads"] = 0 /\ used["setTime"] = 0
  <2> SUFFICES ASSUME SailTypeOK PROVE used["sads"] = 0 /\ used["setTime"] = 0
    OBVIOUS
  <2>1. /\ "sads" \in DOMAIN Bounds /\ Bounds["sads"] = 0
        /\ "setTime" \in DOMAIN Bounds /\ Bounds["setTime"] = 0
    BY SailConstants DEF SailAlone
  <2> QED
    BY <2>1, SailTypes
<1>3. Inv /\ [Next]_vars => Inv'
  BY <1>2, SailInvStep, InOrderStep DEF SailInv
<1>4. Inv => BurnsInTurn
  BY <1>2, FullBurns, OneByOne DEF SailInv, BurnsInTurn
<1> HIDE DEF Inv
<1> QED
  BY <1>1, <1>3, <1>4, PTL DEF Spec
=============================================================================
