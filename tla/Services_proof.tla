-------------------------- MODULE Services_proof --------------------------
(* The safety of the services that run beside the mission: mission time, the *)
(* loop and its commands, the coordinator of ADCS, the experiments, the I2C  *)
(* bus, the redundant flash, the photo service, the telemetry archive and    *)
(* the data file.  Each has an inductive invariant of its own.               *)
EXTENDS TimeKeeping, LoopControl, AdcsControl, ExperimentRuns, I2CBus, RedundantFlash,
        PhotoService, TelemetryArchive, ExperimentFile, FiniteSetTheorems, SequenceTheorems,
        WellFoundedInduction, TLAPS

-----------------------------------------------------------------------------
(* Mission time (libs/mission/time) *)

(* What the assumption on the constants of the clock says of each of them.  *)
LEMMA TimeConstants ==
    /\ NotificationPeriod \in Nat /\ MaximumTimeCorrection \in Nat \ {0}
    /\ \A w \in Weights : w \in 0 .. 2 ^ 16 - 1
    /\ RtcSteps \subseteq Nat /\ TargetTimes \subseteq Nat
<1>1. {NotificationPeriod, TimeCorrectionPeriod, MaximumTimeCorrection} \subseteq Nat
      /\ MaximumTimeCorrection > 0
  BY Zenon, TimeAssumption
<1>2. \A w \in Weights : w \in 0 .. 2 ^ 16 - 1
  BY Zenon, TimeAssumption
<1>3. RtcSteps \subseteq Nat /\ TargetTimes \subseteq Nat
  BY Zenon, TimeAssumption
<1> QED
  BY <1>1, <1>2, <1>3

(* A weighted mean of two deltas, rounded down, lies between them. *)
LEMMA MeanBetween ==
    ASSUME NEW a \in Nat, NEW b \in Nat, NEW p \in Nat, NEW q \in Nat, p + q > 0, a <= b
    PROVE  /\ Quotient(a * p + b * q, p + q) \in a .. b
           /\ Quotient(b * p + a * q, p + q) \in a .. b
<1> DEFINE x == a * p + b * q
           y == b * p + a * q
           n == p + q
<1>1. x \in Nat /\ y \in Nat /\ n \in Nat \ {0}
  OBVIOUS
<1>2. a * n <= x /\ x <= b * n /\ a * n <= y /\ y <= b * n
  OBVIOUS
<1> HIDE DEF x, y, n
<1>3. a <= x \div n /\ x \div n <= b /\ a <= y \div n /\ y \div n <= b
      /\ x \div n \in Nat /\ y \div n \in Nat
  BY <1>1, <1>2
<1>4. Quotient(x, n) = x \div n /\ Quotient(y, n) = y \div n
  BY <1>1 DEF Quotient
<1> QED
  BY <1>3, <1>4 DEF x, y, n

TimePoint == [mission : Int, external : Int]
Between(t, a, b) == (a <= t /\ t <= b) \/ (b <= t /\ t <= a)

(* A division of C, which truncates towards zero, yields an integer.        *)
LEMMA QuotientInt ==
    ASSUME NEW a \in Int, NEW b \in Int, b # 0
    PROVE  Quotient(a, b) \in Int
<1> DEFINE p == IF a < 0 THEN -a ELSE a
           q == IF b < 0 THEN -b ELSE b
<1>1. p \in Nat /\ q \in Nat \ {0}
  OBVIOUS
<1>2. p \div q \in Int
  BY <1>1
<1> QED
  BY <1>2 DEF Quotient

(* PerformTimeCorrection moves the time by less than MaximumTimeCorrection, *)
(* and with weights that are not negative leaves it between the two clocks. *)
LEMMA CorrectionBounded ==
    ASSUME NEW m \in Int, NEW e \in Int, NEW last \in TimePoint, NEW w \in TimePoint,
           w # NoWeights, NEW t \in PerformTimeCorrection(m, e, last, w)
    PROVE  /\ t \in Int
           /\ t - m < MaximumTimeCorrection /\ m - t < MaximumTimeCorrection
           /\ w.mission >= 0 /\ w.external >= 0 =>
                  Between(t, m, last.mission + NonNegative(e - last.external))
<1> DEFINE deltaMcu == NonNegative(m - last.mission)
           deltaRtc == NonNegative(e - last.external)
           sum == deltaMcu * w.mission + deltaRtc * w.external
           mean == last.mission + Quotient(sum, Total(w))
           small(s) == s - m < MaximumTimeCorrection /\ m - s < MaximumTimeCorrection
<1>1. deltaMcu \in Nat /\ deltaRtc \in Nat /\ sum \in Int /\ Total(w) \in Int
  BY DEF TimePoint, NonNegative, Total
<1>2. MaximumTimeCorrection \in Nat \ {0}
  BY TimeConstants
<1>3. CASE t = m
  <2>1. last.mission + deltaRtc \in Int
    BY <1>1 DEF TimePoint
  <2> HIDE DEF deltaRtc, sum
  <2>2. Between(m, m, last.mission + deltaRtc)
    BY <2>1 DEF Between
  <2> QED
    BY <1>2, <1>3, <2>2 DEF deltaRtc
<1>4. CASE deltaRtc # 0 /\ Total(w) = 0 /\ small(t)
           /\ t \in m - MaximumTimeCorrection .. m + MaximumTimeCorrection
  <2>1. ~(w.mission >= 0 /\ w.external >= 0)
    BY <1>4 DEF TimePoint, Total, NoWeights
  <2> QED
    BY <1>2, <1>4, <2>1
<1>5. CASE deltaRtc # 0 /\ Total(w) # 0 /\ small(mean) /\ t = mean
  <2>1. Quotient(sum, Total(w)) \in Int
    BY <1>1, <1>5, QuotientInt
  <2>2. mean \in Int
    BY <2>1 DEF TimePoint
  <2>3. ASSUME w.mission >= 0, w.external >= 0
        PROVE  Between(mean, m, last.mission + deltaRtc)
    <3>1. w.mission \in Nat /\ w.external \in Nat /\ w.mission + w.external > 0
      BY <1>5, <2>3 DEF TimePoint, Total
    <3>2. \/ Quotient(sum, Total(w)) \in deltaMcu .. deltaRtc
          \/ Quotient(sum, Total(w)) \in deltaRtc .. deltaMcu
      <4> HIDE DEF deltaMcu, deltaRtc
      <4>1. CASE deltaMcu <= deltaRtc
        BY <1>1, <3>1, <4>1, MeanBetween DEF Total
      <4>2. CASE deltaRtc <= deltaMcu
        BY <1>1, <3>1, <4>2, MeanBetween DEF Total
      <4> QED
        BY <1>1, <4>1, <4>2
    <3>3. m - last.mission <= deltaMcu /\ (deltaMcu = 0 \/ deltaMcu = m - last.mission)
      BY DEF TimePoint, NonNegative
    <3> HIDE DEF sum, deltaMcu, deltaRtc
    <3> QED
      BY <1>1, <2>1, <3>2, <3>3 DEF Between, TimePoint
  <2> QED
    BY <1>5, <2>2, <2>3
<1>6. \/ t = m
      \/ deltaRtc # 0 /\ Total(w) = 0 /\ small(t)
         /\ t \in m - MaximumTimeCorrection .. m + MaximumTimeCorrection
      \/ deltaRtc # 0 /\ Total(w) # 0 /\ small(mean) /\ t = mean
  BY Zenon DEF PerformTimeCorrection
<1> QED
  BY <1>3, <1>4, <1>5, <1>6

-----------------------------------------------------------------------------

LocalVariables == [time : Int, external : Int, weights : TimePoint, new : Int, ok : BOOLEAN]

(* The local variables of a synchronization are of their types when it      *)
(* begins,                                                                  *)
LEMMA LocalsBegin == NoLocal \in LocalVariables /\ ~NoLocal.ok
BY DEF NoLocal, NoWeights, LocalVariables, TimePoint

(* when the mission time was read into them,                                *)
LEMMA LocalsRead ==
    ASSUME NEW t \in Int
    PROVE  LET l == [NoLocal EXCEPT !.time = t]
           IN  l \in LocalVariables /\ l.time = t /\ ~l.ok
<1> DEFINE l == NoLocal
<1>1. l \in LocalVariables /\ ~l.ok
  BY LocalsBegin
<1> HIDE DEF l
<1> SUFFICES LET r == [l EXCEPT !.time = t] IN r \in LocalVariables /\ r.time = t /\ ~r.ok
  BY DEF l
<1> QED
  BY <1>1 DEF LocalVariables

(* when a telecommand gave the new time,                                    *)
LEMMA LocalsCommanded ==
    ASSUME NEW t \in Int, NEW e \in Int
    PROVE  [NoLocal EXCEPT !.new = t, !.external = e] \in LocalVariables
<1> DEFINE l == NoLocal
<1>1. l \in LocalVariables
  BY LocalsBegin
<1> HIDE DEF l
<1> SUFFICES [l EXCEPT !.new = t, !.external = e] \in LocalVariables
  BY DEF l
<1> QED
  BY <1>1 DEF LocalVariables

Determined(l, e, w, t) == [l EXCEPT !.ok = TRUE, !.external = e, !.weights = w, !.new = t]

(* and when CorrectTimeDetermine computed the corrected time.               *)
LEMMA LocalsDetermined ==
    ASSUME NEW l \in LocalVariables, NEW e \in Int, NEW w \in TimePoint, NEW t \in Int
    PROVE  /\ Determined(l, e, w, t) \in LocalVariables
           /\ Determined(l, e, w, t).time = l.time /\ Determined(l, e, w, t).external = e
           /\ Determined(l, e, w, t).weights = w /\ Determined(l, e, w, t).new = t
BY DEF Determined, LocalVariables

TimeTypeOK ==
    /\ {currentTime, rtc, applied, ticks, commands} \subseteq Int
    /\ notificationTime \in Nat /\ notificationTime <= NotificationPeriod /\ sinceKick \in Nat
    /\ timeState \in TimePoint /\ correctionConfig \in TimePoint
    /\ correctionConfig # NoWeights
    /\ syncSemaphore \in {"free", "task", "tc"}
    /\ timePc \in [{"task", "tc"} -> {"idle", "determine", "lock", "rtc", "set", "store"}]
    /\ timeLocal \in [{"task", "tc"} ->
           LocalVariables]
    /\ syncedAt \in [read : Int, state : Int]
    /\ pending \subseteq TimeTasks

(* The lock is held by the one who is within a synchronization ... *)
SyncLocked ==
    /\ timePc["task"] \in {"rtc", "set", "store"} <=> syncSemaphore = "task"
    /\ timePc["tc"] \in {"set", "store"} <=> syncSemaphore = "tc"

(* ... whose time will be the one of the state: the clock is ahead of it by *)
(* the ticks since it was read, or set.                                    *)
SyncUnderWay ==
    /\ timePc["task"] \in {"rtc", "set"} =>
           currentTime - timeLocal["task"].time = applied - syncedAt.read
    /\ timePc["task"] = "rtc" => ~timeLocal["task"].ok
    /\ timePc["task"] = "store" =>
           currentTime - (IF timeLocal["task"].ok THEN timeLocal["task"].new ELSE timeLocal["task"].time)
               = applied - syncedAt.read
    /\ timePc["tc"] = "store" => currentTime - timeLocal["tc"].new = applied - syncedAt.read

TimeInv ==
    /\ TimeTypeOK
    /\ SyncLocked
    /\ SyncUnderWay
    /\ SyncCoherent
    /\ CorrectionBetweenClocks
    /\ pending = {} => sinceKick <= notificationTime

(* The invariant of the time provider holds when it is initialised.         *)
LEMMA TimeInvInit == TimeInit => TimeInv
<1> SUFFICES ASSUME TimeInit PROVE TimeInv
  OBVIOUS
<1>1. timeLocal = [who \in {"task", "tc"} |-> NoLocal] /\ NoLocal.ok \in BOOLEAN
  BY DEF TimeInit, NoLocal
<1> QED
  BY <1>1, TimeConstants, LocalsBegin
  DEF TimeInit, TimeInv, TimeTypeOK, SyncLocked, SyncUnderWay, SyncCoherent,
      CorrectionBetweenClocks, TimePoint, NoWeights, TimeTasks

(* What a notification under way says of the watchdog. *)
LEMMA KickedInTime ==
    ASSUME TimeInv, NEW who \in TimeTasks, NEW count \in Nat, NEW kick \in Nat,
           BuildTimerState(who, count), sinceKick' = kick, pending = {} => kick <= count
    PROVE  /\ notificationTime' \in Nat /\ notificationTime' <= NotificationPeriod
           /\ sinceKick' \in Nat
           /\ pending' \subseteq TimeTasks
           /\ pending' = {} => sinceKick' <= notificationTime'
BY TimeConstants DEF BuildTimerState, TimeInv, TimeTypeOK

(* The same of a notification that setting the clock sends.                 *)
LEMMA KickedBySetting ==
    ASSUME TimeInv, NEW who \in TimeTasks, NEW t, SetCurrentTime(who, t), UNCHANGED sinceKick
    PROVE  /\ notificationTime' \in Nat /\ notificationTime' <= NotificationPeriod
           /\ sinceKick' \in Nat
           /\ pending' \subseteq TimeTasks
           /\ pending' = {} => sinceKick' <= notificationTime'
BY TimeConstants DEF SetCurrentTime, BuildTimerState, TimeInv, TimeTypeOK

(* Every step of the timer, the correction task and the telecommand keeps   *)
(* it.                                                                      *)
LEMMA TimeInvStep == TimeInv /\ [TimeNext]_timeVars => TimeInv'
<1> SUFFICES ASSUME TimeInv, [TimeNext]_timeVars PROVE TimeInv'
  OBVIOUS
<1> USE DEF TimeInv, TimeTypeOK, SyncLocked, SyncUnderWay, SyncCoherent, CorrectionBetweenClocks
<1>1. CASE BurtcInterrupt
  BY <1>1, TimeConstants DEF BurtcInterrupt
<1>2. CASE AdvanceTime
  <2>1. /\ notificationTime' \in Nat /\ notificationTime' <= NotificationPeriod
        /\ sinceKick' \in Nat
        /\ pending' \subseteq TimeTasks
        /\ pending' = {} => sinceKick' <= notificationTime'
    BY <1>2, KickedInTime DEF AdvanceTime, TimeTasks
  <2>2. currentTime' = currentTime + 1 /\ applied' = applied + 1
        /\ UNCHANGED <<timeState, correctionConfig, syncSemaphore, timePc, timeLocal, rtc, ticks,
                       commands, syncedAt>>
    BY <1>2 DEF AdvanceTime
  <2>3. TimeTypeOK'
    BY <2>1, <2>2
  <2>4. SyncLocked' /\ CorrectionBetweenClocks'
    BY <2>2
  <2>5. SyncUnderWay'
    BY <2>2 DEF LocalVariables
  <2>6. SyncCoherent'
    BY <2>2 DEF TimePoint
  <2> QED
    BY <2>1, <2>3, <2>4, <2>5, <2>6
<1>3. CASE Notify
  BY <1>3 DEF Notify, ProcessChange
<1>4. CASE TimeUpdate
  BY <1>4 DEF TimeUpdate, At, others, LocalVariables
<1>5. CASE CorrectTimeCondition
  BY <1>5 DEF CorrectTimeCondition, others
<1>6. CASE CorrectTimeRead
  <2> DEFINE l == [NoLocal EXCEPT !.time = currentTime]
  <2>1. timeLocal' = [timeLocal EXCEPT !["task"] = l]
        /\ timePc["task"] = "lock" /\ timePc' = [timePc EXCEPT !["task"] = "rtc"]
        /\ syncSemaphore = "free" /\ syncSemaphore' = "task"
        /\ syncedAt' = [syncedAt EXCEPT !.read = applied]
        /\ UNCHANGED <<currentTime, notificationTime, timeState, pending, others>>
    BY <1>6 DEF CorrectTimeRead, At
  <2>2. l \in LocalVariables /\ l.time = currentTime /\ ~l.ok
    BY LocalsRead
  <2> HIDE DEF l
  <2> QED
    BY <2>1, <2>2 DEF others
<1>7. CASE CorrectTimeDetermine
  <2>1. timePc["task"] = "rtc" /\ timePc' = [timePc EXCEPT !["task"] = "set"]
        /\ UNCHANGED <<currentTime, notificationTime, timeState, syncSemaphore, pending, syncedAt,
                       others>>
    BY <1>7 DEF CorrectTimeDetermine, At
  <2>2. CASE UNCHANGED timeLocal
    BY <2>1, <2>2 DEF others
  <2>3. ASSUME NEW t \in PerformTimeCorrection(timeLocal["task"].time, rtc, timeState, correctionConfig),
               timeLocal' = [timeLocal EXCEPT !["task"] =
                               [@ EXCEPT !.ok = TRUE, !.external = rtc, !.weights = correctionConfig,
                                          !.new = t]]
        PROVE  TimeInv'
    <3> DEFINE l == Determined(timeLocal["task"], rtc, correctionConfig, t)
               m == timeLocal["task"].time
    <3>1. timeLocal["task"] \in LocalVariables /\ m \in Int
      BY DEF LocalVariables
    <3>2. /\ t \in Int
          /\ t - m < MaximumTimeCorrection /\ m - t < MaximumTimeCorrection
          /\ correctionConfig.mission >= 0 /\ correctionConfig.external >= 0 =>
                 Between(t, m, timeState.mission + NonNegative(rtc - timeState.external))
      BY <3>1, CorrectionBounded
    <3>3. l \in LocalVariables /\ l.time = m /\ l.external = rtc /\ l.weights = correctionConfig
          /\ l.new = t
      <4>1. rtc \in Int /\ correctionConfig \in TimePoint /\ timeLocal["task"] \in LocalVariables
            /\ t \in Int
        BY <3>1, <3>2
      <4> HIDE DEF TimeInv
      <4> QED
        BY <4>1, LocalsDetermined
    <3>4. timeLocal' = [timeLocal EXCEPT !["task"] = l]
      BY <2>3, Zenon DEF Determined
    <3> HIDE DEF l
    <3> QED
      BY <2>1, <3>2, <3>3, <3>4 DEF others, Between
  <2> QED
    BY <1>7, <2>2, <2>3 DEF CorrectTimeDetermine
<1>8. CASE CorrectTimeSet
  <2>1. timePc["task"] = "set" /\ timePc' = [timePc EXCEPT !["task"] = "store"]
        /\ UNCHANGED <<timeState, syncSemaphore, timeLocal, others>>
    BY <1>8 DEF CorrectTimeSet, At
  <2>2. CASE timeLocal["task"].ok /\ SetCurrentTime("task", timeLocal["task"].new)
             /\ syncedAt' = [syncedAt EXCEPT !.read = applied]
    <3>1. /\ notificationTime' \in Nat /\ notificationTime' <= NotificationPeriod
          /\ sinceKick' \in Nat
          /\ pending' \subseteq TimeTasks
          /\ pending' = {} => sinceKick' <= notificationTime'
      BY <2>1, <2>2, KickedBySetting DEF others, TimeTasks
    <3>2. currentTime' = timeLocal["task"].new
      BY <2>2 DEF SetCurrentTime
    <3> QED
      BY <2>1, <2>2, <3>1, <3>2 DEF others, LocalVariables
  <2>3. CASE ~timeLocal["task"].ok /\ UNCHANGED <<currentTime, notificationTime, pending, syncedAt>>
    BY <2>1, <2>3 DEF others
  <2> QED
    BY <1>8, <2>2, <2>3 DEF CorrectTimeSet
<1>9. CASE CorrectTimeStore
  <2>1. timePc["task"] = "store" /\ timePc' = [timePc EXCEPT !["task"] = "idle"]
        /\ timeLocal' = [timeLocal EXCEPT !["task"] = NoLocal]
        /\ syncSemaphore' = "free"
        /\ syncedAt' = [syncedAt EXCEPT !.state = syncedAt.read]
        /\ UNCHANGED <<currentTime, notificationTime, pending, others>>
    BY <1>9 DEF CorrectTimeStore, At
  <2>2. timeState' \in TimePoint
        /\ timeState'.mission = IF timeLocal["task"].ok THEN timeLocal["task"].new
                                 ELSE timeLocal["task"].time
    BY <1>9 DEF CorrectTimeStore, LocalVariables, TimePoint
  <2> QED
    BY <2>1, <2>2, LocalsBegin DEF others
<1>10. CASE SetTimeCorrectionConfig
  <2>1. correctionConfig' \in TimePoint /\ correctionConfig' # NoWeights
    BY <1>10, TimeConstants DEF SetTimeCorrectionConfig, Int16, TimePoint, NoWeights
  <2> QED
    BY <1>10, <2>1 DEF SetTimeCorrectionConfig
<1>11. CASE SetTimeLock
  <2>1. PICK t \in TargetTimes, e \in {rtc, timeState.external} :
           timeLocal' = [timeLocal EXCEPT !["tc"] = [NoLocal EXCEPT !.new = t, !.external = e]]
    BY <1>11 DEF SetTimeLock
  <2> DEFINE l == [NoLocal EXCEPT !.new = t, !.external = e]
  <2>a. t \in Int /\ e \in Int
    BY <2>1, TimeConstants DEF TimePoint
  <2>2. l \in LocalVariables
    BY <2>a, LocalsCommanded
  <2>3. timePc["tc"] = "idle" /\ timePc' = [timePc EXCEPT !["tc"] = "set"]
        /\ timeLocal' = [timeLocal EXCEPT !["tc"] = l]
        /\ syncSemaphore = "free" /\ syncSemaphore' = "tc"
        /\ commands' = commands + 1
        /\ UNCHANGED <<currentTime, notificationTime, timeState, pending, syncedAt, tickSemaphore,
                       correctionConfig, rtc, ticks, applied, sinceKick>>
    BY <1>11, <2>1 DEF SetTimeLock, At
  <2> HIDE DEF l
  <2> QED
    BY <2>2, <2>3
<1>12. CASE SetTimeSet
  <2>1. timePc["tc"] = "set" /\ timePc' = [timePc EXCEPT !["tc"] = "store"]
        /\ SetCurrentTime("tc", timeLocal["tc"].new)
        /\ syncedAt' = [syncedAt EXCEPT !.read = applied]
        /\ UNCHANGED <<timeState, syncSemaphore, timeLocal, others>>
    BY <1>12 DEF SetTimeSet, At
  <2>2. /\ notificationTime' \in Nat /\ notificationTime' <= NotificationPeriod
        /\ sinceKick' \in Nat
        /\ pending' \subseteq TimeTasks
        /\ pending' = {} => sinceKick' <= notificationTime'
    BY <2>1, KickedBySetting DEF others, TimeTasks
  <2>3. currentTime' = timeLocal["tc"].new
    BY <2>1 DEF SetCurrentTime
  <2> QED
    BY <2>1, <2>2, <2>3 DEF others, LocalVariables
<1>13. CASE SetTimeStore
  <2>1. timePc["tc"] = "store" /\ timePc' = [timePc EXCEPT !["tc"] = "idle"]
        /\ timeLocal' = [timeLocal EXCEPT !["tc"] = NoLocal]
        /\ syncSemaphore = "tc" /\ syncSemaphore' = "free"
        /\ syncedAt' = [syncedAt EXCEPT !.state = syncedAt.read]
        /\ UNCHANGED <<currentTime, notificationTime, pending, others>>
    BY <1>13 DEF SetTimeStore, At
  <2>2. timeState' \in TimePoint /\ timeState'.mission = timeLocal["tc"].new
    BY <1>13 DEF SetTimeStore, LocalVariables, TimePoint
  <2> QED
    BY <2>1, <2>2, LocalsBegin DEF others
<1>14. CASE UNCHANGED timeVars
  BY <1>14 DEF timeVars
<1> QED
  BY <1>1, <1>2, <1>3, <1>4, <1>5, <1>6, <1>7, <1>8, <1>9, <1>10, <1>11, <1>12, <1>13, <1>14
  DEF TimeNext, CorrectTime, TimeCommands

(* Mission time, its correction and its notification agree, however the     *)
(* tick, the mission loop's correction and the telecommand interleave.      *)
THEOREM TimeIsKept == TimeSpec => []TimeKept
<1>1. TimeInv => TimeKept
  <2> SUFFICES ASSUME TimeInv PROVE TimeKept
    OBVIOUS
  <2>1. KickInTime
    BY TimeConstants DEF TimeInv, TimeTypeOK, KickInTime
  <2> QED
    BY <2>1 DEF TimeInv, TimeKept
<1> QED
  BY <1>1, TimeInvInit, TimeInvStep, PTL DEF TimeSpec

-----------------------------------------------------------------------------
(* The mission loop and its commands *)

LoopFlags == {PauseRequest, PauseAck, RunOnceRequest, RunOnceFinished}
Requested == {RunOnceRequest, PauseRequest}

LoopPlaces == {"wait", "run", "ran", "run once", "ran once", "finish", "pause", "ack", "suspend",
               "suspended"}

LoopTypeOK ==
    /\ loop \in [pc : LoopPlaces, result : SUBSET LoopFlags]
    /\ loopFlags \subseteq LoopFlags
    /\ terminal \in {"idle", "wait ack", "resume", "wait both"}
    /\ paused \in BOOLEAN
    /\ runs \in 0 .. 2

(* Between two commands the event group is empty. *)
BetweenCommands ==
    terminal = "idle" =>
        /\ loopFlags = {}
        /\ loop.pc \in IF paused THEN {"suspend", "suspended"} ELSE {"wait", "run", "ran"}

(* A request for a pause is in the event group until the task takes it up,  *)
(* and then its acknowledgement.                                           *)
PauseUnderWay ==
    terminal = "wait ack" =>
        /\ paused
        /\ loop.pc \in {"wait", "run", "ran", "pause", "ack", "suspend"}
        /\ loopFlags = CASE loop.pc = "ack" -> {}
                         [] loop.pc = "suspend" -> {PauseAck}
                         [] OTHER -> {PauseRequest}

(* A request for one iteration: none has begun as long as the task has not  *)
(* taken up the request, and one since.                                    *)
IterationUnderWay ==
    terminal \in {"resume", "wait both"} =>
        /\ paused
        /\ loopFlags = CASE loop.pc = "finish" -> {PauseRequest}
                         [] loop.pc = "pause" -> {PauseRequest, RunOnceFinished}
                         [] loop.pc = "ack" -> {RunOnceFinished}
                         [] loop.pc = "suspend" -> {PauseAck, RunOnceFinished}
                         [] OTHER -> Requested
        /\ runs = IF loop.pc \in {"wait", "run", "ran", "suspended"} THEN 0 ELSE 1
        /\ loop.pc \in {"run once", "ran once", "finish"} => PauseRequest \in loop.result
        /\ loop.pc = "suspended" => terminal = "resume"
        /\ loop.pc = "suspend" => terminal = "wait both"

LoopInv ==
    /\ LoopTypeOK
    /\ BetweenCommands
    /\ PauseUnderWay
    /\ IterationUnderWay
    /\ returned = 1

(* The invariant of the loop holds when its task starts with no command     *)
(* under way.                                                               *)
LEMMA LoopInvInit == LoopInit => LoopInv
<1> SUFFICES ASSUME LoopInit PROVE LoopInv
  OBVIOUS
<1>1. ~paused /\ paused \in BOOLEAN
  BY Zenon DEF LoopInit
<1>2. /\ loopFlags = {} /\ loop = [pc |-> "wait", result |-> {}] /\ terminal = "idle"
      /\ runs = 0 /\ returned = 1
  BY DEF LoopInit
<1>3. LoopTypeOK
  BY <1>1, <1>2 DEF LoopTypeOK, LoopPlaces
<1>4. BetweenCommands /\ PauseUnderWay /\ IterationUnderWay
  BY <1>1, <1>2 DEF BetweenCommands, PauseUnderWay, IterationUnderWay
<1> QED
  BY <1>2, <1>3, <1>4 DEF LoopInv

(* The types are kept by every step.                                        *)
LEMMA LoopTypeStep == LoopTypeOK /\ [LoopNext]_loopVars => LoopTypeOK'
<1> SUFFICES ASSUME LoopTypeOK, [LoopNext]_loopVars PROVE LoopTypeOK'
  OBVIOUS
<1>1. loop' \in [pc : LoopPlaces, result : SUBSET LoopFlags]
  <2>1. CASE LoopWaits
    BY <2>1 DEF LoopTypeOK, LoopPlaces, LoopWaits
  <2>2. ASSUME NEW there \in LoopPlaces, LoopGoes(there)
        PROVE  loop' \in [pc : LoopPlaces, result : SUBSET LoopFlags]
    BY <2>2 DEF LoopTypeOK, LoopGoes
  <2>3. CASE RunOnce \/ IterationEnds \/ FinishIteration \/ PauseLoop
    BY <2>2, <2>3 DEF LoopPlaces, RunOnce, IterationEnds, FinishIteration, PauseLoop
  <2>4. CASE ResumeTask
    BY <2>4 DEF ResumeTask, LoopTypeOK, LoopPlaces
  <2>5. CASE UNCHANGED loop
    BY <2>5 DEF LoopTypeOK
  <2> QED
    BY <2>1, <2>3, <2>4, <2>5
    DEF LoopNext, TaskLoop, Terminal, LoopRests, SuspendReturns, RunMissionResumes,
        RunMissionWaits, SuspendMission, ResumeMission, RunMission, loopVars
<1>2. loopFlags' \subseteq LoopFlags
  BY DEF LoopTypeOK, LoopFlags, LoopNext, TaskLoop, Terminal, LoopRests, LoopWaits, RunOnce,
      IterationEnds, FinishIteration, PauseLoop, SuspendReturns, RunMissionResumes,
      RunMissionWaits, SuspendMission, ResumeMission, RunMission, loopVars
<1>3. terminal' \in {"idle", "wait ack", "resume", "wait both"}
  BY DEF LoopTypeOK, LoopNext, TaskLoop, Terminal, LoopRests, LoopWaits, RunOnce,
      IterationEnds, FinishIteration, PauseLoop, SuspendReturns, RunMissionResumes,
      RunMissionWaits, SuspendMission, ResumeMission, RunMission, loopVars
<1>4. paused' \in BOOLEAN
  BY Zenon DEF LoopTypeOK, LoopNext, TaskLoop, Terminal, LoopRests, LoopWaits, RunOnce,
      IterationEnds, FinishIteration, PauseLoop, SuspendReturns, RunMissionResumes,
      RunMissionWaits, SuspendMission, ResumeMission, RunMission, loopVars
<1>5. runs' \in 0 .. 2
  <2>1. \/ LoopWaits
        \/ UNCHANGED runs
        \/ runs' = 0
    BY DEF LoopNext, TaskLoop, Terminal, LoopRests, RunOnce, IterationEnds, FinishIteration,
           PauseLoop, SuspendReturns, RunMissionResumes, RunMissionWaits, SuspendMission,
           ResumeMission, RunMission, loopVars
  <2>2. \/ LoopWaits /\ (runs' = runs \/ (runs < 2 /\ runs' = runs + 1))
        \/ runs' = runs
        \/ runs' = 0
    BY <2>1, Zenon DEF LoopWaits
  <2>3. runs \in 0 .. 2
    BY DEF LoopTypeOK
  <2> QED
    BY <2>2, <2>3
<1> QED
  BY <1>1, <1>2, <1>3, <1>4, <1>5 DEF LoopTypeOK

(* Every step of the loop's task and of the terminal's commands keeps it.   *)
LEMMA LoopInvStep == LoopInv /\ [LoopNext]_loopVars => LoopInv'
<1> SUFFICES ASSUME LoopInv, [LoopNext]_loopVars PROVE LoopInv'
  OBVIOUS
<1>0. LoopTypeOK /\ LoopTypeOK'
  BY LoopTypeStep DEF LoopInv
<1> DEFINE Commands == BetweenCommands /\ PauseUnderWay /\ IterationUnderWay /\ returned = 1
<1>a. Commands
  BY DEF LoopInv
<1> SUFFICES Commands'
  BY <1>0 DEF LoopInv
<1> USE DEF BetweenCommands, PauseUnderWay, IterationUnderWay
<1>1. CASE LoopWaits
  <2>1. /\ loop.pc = "wait" /\ terminal # "resume"
        /\ loop'.result = loopFlags
        /\ loop'.pc = IF RunOnceRequest \in loopFlags THEN "run once"
                      ELSE IF PauseRequest \in loopFlags THEN "pause"
                      ELSE IF loopFlags = {} THEN "run" ELSE "wait"
        /\ runs' = IF runs < 2 /\ (RunOnceRequest \in loopFlags \/ loopFlags = {}) THEN runs + 1 ELSE runs
        /\ UNCHANGED <<loopFlags, terminal, paused, returned>>
    BY <1>1 DEF LoopWaits, Preempted
  <2>2. CASE terminal = "idle"
    <3>1. loopFlags = {} /\ ~paused
      BY <1>a, <2>1, <2>2
    <3>2. loop'.pc = "run"
      BY <2>1, <3>1
    <3> QED
      BY <1>a, <2>1, <2>2, <3>1, <3>2
  <2>3. CASE terminal = "wait ack"
    <3>1. loopFlags = {PauseRequest}
      BY <1>a, <2>1, <2>3
    <3>2. loop'.pc = "pause"
      BY <2>1, <3>1 DEF PauseRequest, RunOnceRequest
    <3> QED
      BY <1>a, <2>1, <2>3, <3>1, <3>2
  <2>4. CASE terminal = "wait both"
    <3>1. loopFlags = Requested /\ runs = 0
      BY <1>a, <2>1, <2>4
    <3>2. RunOnceRequest \in loopFlags /\ PauseRequest \in loopFlags
      BY <3>1 DEF Requested
    <3>3. loop'.pc = "run once" /\ PauseRequest \in loop'.result
      BY <2>1, <3>2
    <3>4. runs' = 1
      <4>1. runs < 2 => runs' = runs + 1
        BY <1>1, <3>2, Zenon DEF LoopWaits
      <4> QED
        BY <3>1, <4>1
    <3> QED
      BY <1>a, <2>1, <2>4, <3>1, <3>3, <3>4
  <2> QED
    BY <1>0, <2>1, <2>2, <2>3, <2>4 DEF LoopTypeOK
<1> USE <1>0, <1>a DEF LoopTypeOK
<1>2. CASE RunOnce
  BY <1>2 DEF RunOnce, LoopGoes, Preempted
<1>3. CASE IterationEnds
  <2>1. CASE loop.pc = "ran" /\ LoopGoes("wait") /\ UNCHANGED <<loopFlags, terminal, paused, runs, returned>>
    BY <2>1 DEF LoopGoes, Preempted
  <2>2. CASE /\ loop.pc = "ran once" /\ LoopGoes("finish")
             /\ loopFlags' = loopFlags \ {RunOnceRequest}
             /\ UNCHANGED <<terminal, paused, runs, returned>>
    <3>1. loop'.pc = "finish" /\ loop'.result = loop.result
      BY <2>2 DEF LoopGoes
    <3>2. terminal \in {"resume", "wait both"} /\ loopFlags = Requested
      BY <2>2
    <3>3. loopFlags' = {PauseRequest}
      BY <2>2, <3>2 DEF Requested, RunOnceRequest, PauseRequest
    <3> QED
      BY <2>2, <3>1, <3>2, <3>3
  <2> QED
    BY <1>3, <2>1, <2>2 DEF IterationEnds
<1>4. CASE FinishIteration
  BY <1>4 DEF FinishIteration, LoopGoes, Preempted
<1>5. CASE PauseLoop
  BY <1>5 DEF PauseLoop, LoopGoes, Preempted, PauseRequest, PauseAck, RunOnceFinished
<1>6. CASE SuspendReturns
  <2>1. terminal = "wait ack" /\ PauseAck \in loopFlags
    BY <1>6 DEF SuspendReturns
  <2>2. PauseAck \notin {PauseRequest} /\ PauseAck \notin {}
    BY DEF PauseAck, PauseRequest
  <2>3. loop.pc = "suspend" /\ loopFlags = {PauseAck} /\ paused
    BY <2>1, <2>2
  <2>4. loopFlags' = {} /\ terminal' = "idle" /\ UNCHANGED <<loop, paused, runs, returned>>
    BY <1>6, <2>3 DEF SuspendReturns
  <2> QED
    BY <2>3, <2>4
<1>7. CASE RunMissionResumes
  BY <1>7 DEF RunMissionResumes, ResumeTask
<1>8. CASE RunMissionWaits
  <2>1. CASE {RunOnceFinished, PauseAck} \subseteq loopFlags
    <3>1. terminal = "wait both"
      BY <1>8 DEF RunMissionWaits
    <3>2. loop.pc = "suspend" /\ loopFlags = {PauseAck, RunOnceFinished} /\ runs = 1 /\ paused
      BY <2>1, <3>1 DEF Requested, PauseRequest, PauseAck, RunOnceRequest, RunOnceFinished
    <3>3. terminal' = "idle" /\ returned' = 1 /\ loopFlags' = {} /\ UNCHANGED <<loop, paused>>
      BY <1>8, <2>1, <3>2 DEF RunMissionWaits
    <3> QED
      BY <3>2, <3>3
  <2>2. CASE ~({RunOnceFinished, PauseAck} \subseteq loopFlags)
    <3>1. terminal = "wait both" /\ terminal' = "resume"
          /\ UNCHANGED <<loopFlags, returned, loop, paused, runs>>
      BY <1>8, <2>2 DEF RunMissionWaits
    <3>2. loop.pc # "suspend"
      BY <2>2, <3>1
    <3> QED
      BY <3>1, <3>2
  <2> QED
    BY <2>1, <2>2
<1>9. CASE SuspendMission
  <2>1. paused' /\ ~paused /\ terminal = "idle"
    BY <1>9, Zenon DEF SuspendMission, NewCommand
  <2>2. loopFlags' = {PauseRequest} /\ loop.pc \in {"wait", "run", "ran"}
        /\ terminal' = "wait ack" /\ UNCHANGED <<loop, runs, returned>>
    BY <1>9, <2>1 DEF SuspendMission
  <2> QED
    BY <2>1, <2>2
<1>10. CASE ResumeMission
  <2>1. ~paused'
    BY <1>10, Zenon DEF ResumeMission
  <2>2. terminal = "idle" /\ loop.pc # "suspend" /\ UNCHANGED <<loopFlags, terminal, runs, returned>>
        /\ loop'.pc = IF loop.pc = "suspended" THEN "wait" ELSE loop.pc
    BY <1>10 DEF ResumeMission, NewCommand, ResumeTask
  <2> QED
    BY <2>1, <2>2
<1>11. CASE RunMission
  <2>1. paused'
    BY <1>11, Zenon DEF RunMission
  <2>2. /\ loopFlags' = Requested /\ loop.pc \in {"wait", "run", "ran", "suspended"}
        /\ terminal' = "resume" /\ runs' = 0 /\ UNCHANGED <<loop, returned>>
    BY <1>11 DEF RunMission, NewCommand, Requested
  <2> QED
    BY <2>1, <2>2
<1>12. CASE UNCHANGED loopVars
  BY <1>12 DEF loopVars
<1> QED
  BY <1>1, <1>2, <1>3, <1>4, <1>5, <1>6, <1>7, <1>8, <1>9, <1>10, <1>11, <1>12
  DEF LoopNext, TaskLoop, Terminal, LoopRests

(* The command that asks for one iteration of the mission loop returns after*)
(* exactly one, whatever the loop was doing when the flags of the event     *)
(* group were set.                                                          *)
THEOREM OneIterationIsRun == LoopSpec => []OneIterationAskedFor
<1>1. LoopInv => OneIterationAskedFor
  BY DEF LoopInv, BetweenCommands, OneIterationAskedFor
<1> QED
  BY <1>1, LoopInvInit, LoopInvStep, PTL DEF LoopSpec

-----------------------------------------------------------------------------
(* ADCS coordinator and task *)

AdcsTypeOK ==
    /\ adcsQueue \in Seq(AdcsModes)
    /\ currentMode \in AdcsModes
    /\ coordinator \in [pc : {"pop", "disable", "start"}, request : AdcsModes,
                        previous : AdcsModes, mode : AdcsModes]
    /\ enabled \subseteq Processors
    /\ gate \in {"Stopped", "Disabled"}
    /\ disableFailed \in BOOLEAN

(* The only processor that is enabled: the one of the mode, or the one that *)
(* is about to be disabled.                                                *)
EnabledIsKnown ==
    enabled = IF coordinator.pc = "disable" THEN {coordinator.previous}
              ELSE {currentMode} \cap Processors

(* A Disabled that was taken up is in force, or will be once the processor  *)
(* before is off.                                                          *)
DisabledInForce ==
    IF coordinator.pc = "pop" THEN currentMode = "Disabled" ELSE coordinator.request = "Disabled"

CoilsInv ==
    /\ AdcsTypeOK
    /\ coordinator.pc # "pop" => currentMode \notin Processors
    /\ coordinator.pc = "disable" => currentMode = "Stopped"
    /\ RunsWhatIsEnabled
    /\ disableFailed \/ EnabledIsKnown
    /\ gate = "Disabled" => disableFailed \/ DisabledInForce

(* The invariant of the coordinator holds before the first request.         *)
LEMMA CoilsInit == AdcsInit => CoilsInv
<1> SUFFICES ASSUME AdcsInit PROVE CoilsInv
  OBVIOUS
<1>1. disableFailed \in BOOLEAN /\ gate = "Stopped"
  BY Zenon DEF AdcsInit
<1>2. adcsQueue = <<>> /\ currentMode = "Stopped" /\ enabled = {}
      /\ coordinator = [pc |-> "pop", request |-> "Stopped", previous |-> "Stopped", mode |-> "Stopped"]
  BY DEF AdcsInit
<1> QED
  BY <1>1, <1>2 DEF CoilsInv, AdcsTypeOK, RunsWhatIsEnabled, EnabledIsKnown, DisabledInForce,
                    AdcsModes, Processors

(* Taking a request from the queue keeps it: the mode is left before the    *)
(* next one is entered.                                                     *)
LEMMA CoilsSwitch == CoilsInv /\ SwitchMode => CoilsInv'
<1> SUFFICES ASSUME CoilsInv, SwitchMode PROVE CoilsInv'
  OBVIOUS
<1> DEFINE requested == Head(adcsQueue)
<1>1. requested \in AdcsModes /\ adcsQueue' \in Seq(AdcsModes)
  BY DEF CoilsInv, AdcsTypeOK, SwitchMode
<1>2. coordinator.pc = "pop" /\ UNCHANGED <<enabled, disableFailed>>
      /\ gate' = IF requested \in {"Stopped", "Disabled"} THEN requested ELSE gate
  BY DEF SwitchMode
<1> USE DEF CoilsInv, AdcsTypeOK, RunsWhatIsEnabled, EnabledIsKnown, DisabledInForce,
            AdcsModes, Processors
<1>3. CASE currentMode = requested /\ Returns(requested) /\ UNCHANGED currentMode
  BY <1>1, <1>2, <1>3 DEF Returns
<1>4. CASE /\ currentMode # requested /\ currentMode \in Processors
           /\ currentMode' = "Stopped"
           /\ coordinator' = [pc |-> "disable", request |-> requested, previous |-> currentMode,
                              mode |-> coordinator.mode]
  BY <1>1, <1>2, <1>4
<1>5. CASE /\ currentMode = "Disabled" /\ requested # "Stopped" /\ currentMode # requested
           /\ Returns(currentMode) /\ UNCHANGED currentMode
  BY <1>1, <1>2, <1>5 DEF Returns
<1>6. CASE /\ currentMode # requested
           /\ \/ currentMode = "Stopped"
              \/ currentMode = "Disabled" /\ requested = "Stopped"
           /\ coordinator' = [coordinator EXCEPT !.pc = "start", !.request = requested]
           /\ UNCHANGED currentMode
  BY <1>1, <1>2, <1>6
<1> QED
  BY <1>3, <1>4, <1>5, <1>6 DEF SwitchMode

(* So does every other step of the coordinator and of the telecommands.     *)
LEMMA CoilsStep == CoilsInv /\ [AdcsNext]_adcsVars => CoilsInv'
<1> SUFFICES ASSUME CoilsInv, [AdcsNext]_adcsVars PROVE CoilsInv'
  OBVIOUS
<1>1. CASE SwitchMode
  BY <1>1, CoilsSwitch
<1>2. CASE DisablePrevious
  <2> USE DEF CoilsInv, AdcsTypeOK, RunsWhatIsEnabled, EnabledIsKnown, DisabledInForce,
              AdcsModes, Processors
  <2>1. CASE /\ enabled' = enabled \ {coordinator.previous}
             /\ coordinator' = [coordinator EXCEPT !.pc = "start"] /\ UNCHANGED disableFailed
    BY <1>2, <2>1 DEF DisablePrevious
  <2>2. CASE disableFailed' = TRUE /\ Returns("Stopped") /\ UNCHANGED enabled
    <3>1. disableFailed' \in BOOLEAN /\ disableFailed'
      BY <2>2, Zenon
    <3>2. /\ coordinator.pc = "disable" /\ UNCHANGED <<adcsQueue, currentMode, gate, enabled>>
          /\ coordinator' = [coordinator EXCEPT !.pc = "pop", !.mode = "Stopped"]
      BY <1>2, <2>2, Zenon DEF DisablePrevious, Returns
    <3>3. currentMode = "Stopped"
      BY <3>2
    <3> QED
      BY <3>1, <3>2, <3>3
  <2> QED
    BY <1>2, <2>1, <2>2 DEF DisablePrevious
<1>3. CASE StartRequested
  BY <1>3 DEF StartRequested, Returns, CoilsInv, AdcsTypeOK, RunsWhatIsEnabled, EnabledIsKnown,
              DisabledInForce, AdcsModes, Processors
<1>4. ASSUME adcsQueue' \in Seq(AdcsModes), UNCHANGED Coordination PROVE CoilsInv'
  BY <1>4 DEF Coordination, CoilsInv, AdcsTypeOK, RunsWhatIsEnabled, EnabledIsKnown, DisabledInForce
<1>5. ASSUME NEW m \in AdcsModes, RequestMode(m) \/ QueueFull PROVE adcsQueue' \in Seq(AdcsModes)
  BY <1>5 DEF RequestMode, QueueFull, CoilsInv, AdcsTypeOK
<1>6. adcsQueue \in Seq(AdcsModes) /\ {"Stopped", "Disabled", "BuiltinDetumbling"} \subseteq AdcsModes
  BY DEF CoilsInv, AdcsTypeOK, AdcsModes, Processors
<1>7. CASE DispatchAdcs
  BY <1>7, <1>4, <1>5, <1>6 DEF DispatchAdcs
<1>8. CASE SetAdcsMode
  <2>1. PICK m \in RequestedModes : RequestMode(m) \/ QueueFull
    BY <1>8 DEF SetAdcsMode
  <2> QED
    BY <1>8, <2>1, <1>4, <1>5, AdcsAssumption DEF SetAdcsMode
<1>9. CASE ExperimentAdcs
  BY <1>9, <1>4, <1>5, <1>6 DEF ExperimentAdcs
<1>10. CASE DetermineAdcs \/ FourHoursPass \/ SetBuiltinDetumblingBlockMask \/ AdcsRests
  BY <1>10, <1>4, <1>6
     DEF DetermineAdcs, FourHoursPass, SetBuiltinDetumblingBlockMask, AdcsRests, adcsVars, Coordination
<1>11. CASE UNCHANGED adcsVars
  BY <1>11, <1>4, <1>6 DEF adcsVars, Coordination
<1> QED
  BY <1>1, <1>2, <1>3, <1>7, <1>8, <1>9, <1>10, <1>11
     DEF AdcsNext, AdcsTask, AdcsPrimaryTask, AdcsTelecommands

(* It implies that one processor at most drives the coils, and none when    *)
(* ADCS is disabled.                                                        *)
LEMMA CoilsFollow == CoilsInv => CoilsSafe
<1> SUFFICES ASSUME CoilsInv PROVE CoilsSafe
  OBVIOUS
<1>1. OneProcessor
  <2>1. CASE disableFailed
    BY <2>1 DEF OneProcessor
  <2>2. CASE ~disableFailed
    <3>1. \E x : enabled \subseteq {x}
      BY <2>2 DEF CoilsInv, EnabledIsKnown
    <3>2. PICK x : enabled \in SUBSET {x}
      BY <3>1
    <3>3. Cardinality(enabled) <= 1
      <4>1. IsFiniteSet({x}) /\ Cardinality({x}) = 1
        BY FS_Singleton
      <4>2. Cardinality(enabled) <= Cardinality({x})
        BY <3>2, <4>1, FS_Subset
      <4>3. IsFiniteSet(enabled)
        BY <3>2, <4>1, FS_Subset
      <4> QED
        BY <4>1, <4>2, <4>3, FS_CardinalityType
    <3> QED
      BY <3>3 DEF OneProcessor
  <2> QED
    BY <2>1, <2>2
<1>2. QuietWhileDisabled
  <2> SUFFICES ASSUME gate = "Disabled", coordinator.pc = "pop", ~disableFailed PROVE enabled = {}
    BY DEF QuietWhileDisabled
  <2>1. currentMode = "Disabled" /\ enabled = {currentMode} \cap Processors
    BY DEF CoilsInv, EnabledIsKnown, DisabledInForce
  <2> QED
    BY <2>1 DEF Processors
<1> QED
  BY <1>1, <1>2 DEF CoilsSafe, CoilsInv

(* Two ADCS processors never drive the coils together, the one that runs is *)
(* that of the mode the coordinator reports, and no processor runs once ADCS*)
(* is disabled, unless a processor could not be switched off.               *)
THEOREM CoilsAreSafe == AdcsSpec => []CoilsSafe
BY CoilsInit, CoilsStep, CoilsFollow, PTL DEF AdcsSpec

-----------------------------------------------------------------------------
(* The experiments *)

(* What an experiment may leave on, open or taken. *)
Holdable == {"file", "second file", "SENS", "RadFET", "ADCS", "CamNadir", "CamWing", "SunS"}

Call == [op : {"on", "off"}, what : Holdable]
        \cup [op : {"time", "write", "measure"}, what : {"clock", "file", "payload"}]
StartCall == [call : Call, else : Seq(Call)]

(* What the calls to come give back. *)
GivesBack(todo) == {todo[i].what : i \in {j \in 1 .. Len(todo) : todo[j].op = "off"}}
Back(name) == GivesBack(StopOf[name])

(* What a call takes, or proves to be working, is given back afterwards: by *)
(* a later call or, `later`, by those that follow the calls.               *)
Balanced(todo, later) ==
    \A i \in 1 .. Len(todo) :
        \/ todo[i].op = "off" \/ todo[i].what \notin Holdable
        \/ todo[i].what \in later
        \/ \E j \in 1 .. Len(todo) : i < j /\ todo[j].op = "off" /\ todo[j].what = todo[i].what

(* The same of the calls of Start: what one of them takes is given back if  *)
(* a later one fails, and by Stop.                                         *)
StartBalanced(todo, name) ==
    \A i \in 1 .. Len(todo) :
        /\ todo[i].call.op # "off"
        /\ Balanced(todo[i].else, {})
        /\ todo[i].call.what \in Holdable =>
              /\ todo[i].call.what \in Back(name)
              /\ \A j \in 1 .. Len(todo) : i < j => todo[i].call.what \in GivesBack(todo[j].else)

(* What a list of calls gives back, the rest of it gives back or its head   *)
(* does.                                                                    *)
LEMMA GivenBackLater ==
    ASSUME NEW todo \in Seq(Call), todo # <<>>
    PROVE  /\ Tail(todo) \in Seq(Call) /\ Head(todo) \in Call
           /\ \A later : Balanced(todo, later) => Balanced(Tail(todo), later)
           /\ \A x \in GivesBack(todo) :
                 x \in GivesBack(Tail(todo)) \/ (Head(todo).op = "off" /\ Head(todo).what = x)
           /\ \A later : Balanced(todo, later) =>
                 \/ Head(todo).op = "off" \/ Head(todo).what \notin Holdable
                 \/ Head(todo).what \in later \cup GivesBack(Tail(todo))
<1> DEFINE n == Len(todo)
           tail == Tail(todo)
<1>1. n \in Nat \ {0} /\ Len(tail) = n - 1 /\ tail \in Seq(Call)
      /\ Head(todo) = todo[1] /\ Head(todo) \in Call
  OBVIOUS
<1>2. \A i \in 1 .. Len(tail) : tail[i] = todo[i + 1] /\ i + 1 \in 1 .. n
  BY <1>1
<1>3. \A i \in 1 .. n : i = 1 \/ (i - 1 \in 1 .. Len(tail) /\ tail[i - 1] = todo[i])
  BY <1>1, <1>2
<1> HIDE DEF n, tail
<1>4. ASSUME NEW later, Balanced(todo, later) PROVE Balanced(tail, later)
  <2> SUFFICES ASSUME NEW i \in 1 .. Len(tail), tail[i].op # "off", tail[i].what \in Holdable,
                      tail[i].what \notin later
               PROVE  \E j \in 1 .. Len(tail) : i < j /\ tail[j].op = "off" /\ tail[j].what = tail[i].what
    BY DEF Balanced
  <2>1. PICK j \in 1 .. n : i + 1 < j /\ todo[j].op = "off" /\ todo[j].what = tail[i].what
    BY <1>2, <1>4 DEF Balanced, n
  <2>2. j - 1 \in 1 .. Len(tail) /\ tail[j - 1] = todo[j] /\ i < j - 1
    BY <1>1, <1>3, <2>1
  <2> QED
    BY <2>1, <2>2
<1>5. ASSUME NEW j \in 1 .. n, j # 1, todo[j].op = "off"
      PROVE  todo[j].what \in GivesBack(tail)
  BY <1>3, <1>5 DEF GivesBack
<1>6. ASSUME NEW x \in GivesBack(todo)
      PROVE  x \in GivesBack(tail) \/ (Head(todo).op = "off" /\ Head(todo).what = x)
  <2>1. PICK j \in 1 .. n : todo[j].op = "off" /\ todo[j].what = x
    BY DEF GivesBack, n
  <2> QED
    BY <1>1, <1>5, <2>1
<1>7. ASSUME NEW later, Balanced(todo, later), Head(todo).op # "off", Head(todo).what \in Holdable
      PROVE  Head(todo).what \in later \cup GivesBack(tail)
  <2>1. 1 \in 1 .. n
    BY <1>1
  <2>2. \/ todo[1].what \in later
        \/ \E j \in 1 .. n : 1 < j /\ todo[j].op = "off" /\ todo[j].what = todo[1].what
    BY <1>1, <1>7, <2>1 DEF Balanced, n
  <2> QED
    BY <1>1, <1>5, <2>2
<1> QED
  BY <1>1, <1>4, <1>6, <1>7 DEF tail

(* One call: what is held is excused or will be given back. *)
LEMMA CallStep ==
    ASSUME NEW todo \in Seq(Call), todo # <<>>, NEW later, Balanced(todo, later),
           held \subseteq Holdable, held \subseteq excused \cup GivesBack(todo) \cup later,
           Works(Head(todo)) \/ Fails(Head(todo))
    PROVE  /\ held' \subseteq Holdable
           /\ held' \subseteq excused' \cup GivesBack(Tail(todo)) \cup later
<1> DEFINE h == Head(todo)
           back == GivesBack(todo)
           back2 == GivesBack(Tail(todo))
<1>1. /\ h \in Call
      /\ \A x \in back : x \in back2 \/ (h.op = "off" /\ h.what = x)
      /\ h.op = "off" \/ h.what \notin Holdable \/ h.what \in later \cup back2
  BY GivenBackLater
<1>2. h.op \in {"on", "off"} => h.what \in Holdable
  BY <1>1 DEF Call
<1>3. ASSUME NEW x \in held
      PROVE  x \in Holdable /\ (x \in excused \/ x \in back2 \/ x \in later \/ (h.op = "off" /\ h.what = x))
  BY <1>1, <1>3
<1> HIDE DEF h, back, back2
<1> SUFFICES ASSUME NEW x \in held'
             PROVE  x \in Holdable /\ (x \in excused' \/ x \in back2 \/ x \in later)
  BY DEF back2
<1>4. CASE Works(h)
  <2>1. CASE h.op = "on" /\ held' = held \cup {h.what} /\ excused' = excused \ {h.what}
    BY <1>1, <1>2, <1>3, <2>1
  <2>2. CASE h.op = "off" /\ held' = held \ {h.what} /\ excused' = excused \ {h.what}
    BY <1>1, <1>2, <1>3, <2>2
  <2>3. CASE h.op \notin {"on", "off"} /\ held' = held /\ excused' = excused \ {h.what}
    BY <1>1, <1>3, <2>3
  <2> QED
    BY <1>4, <2>1, <2>2, <2>3 DEF Works
<1>5. CASE Fails(h)
  <2>1. CASE h.op \in {"on", "off"} /\ held' \subseteq held \cup {h.what}
             /\ excused' = excused \cup {h.what}
    BY <1>2, <1>3, <2>1
  <2>2. CASE h.op \notin {"on", "off"} /\ UNCHANGED <<held, excused>>
    BY <1>3, <2>2
  <2> QED
    BY <1>5, <2>1, <2>2 DEF Fails
<1> QED
  BY <1>4, <1>5 DEF h

(* The calls the experiments are made of, and what each is done to.         *)
LEMMA CallsAreCalls ==
    /\ \A w \in Holdable : On(w) \in Call /\ Off(w) \in Call /\ On(w).op = "on" /\ Off(w).op = "off"
                           /\ On(w).what = w /\ Off(w).what = w
    /\ CurrentTime \in Call /\ SaveRecord \in Call /\ Measure \in Call
    /\ CurrentTime.op = "time" /\ CurrentTime.what \notin Holdable
    /\ Measure.op = "measure" /\ Measure.what \notin Holdable
    /\ SaveRecord.op = "write" /\ SaveRecord.what = "file"
BY DEF Call, On, Off, CurrentTime, SaveRecord, Measure, Holdable

(* Tuples of elements of a set are sequences over it.                       *)
LEMMA TuplesAreSequences ==
    ASSUME NEW T
    PROVE  /\ <<>> \in Seq(T)
           /\ \A a \in T : <<a>> \in Seq(T)
           /\ \A a, b \in T : <<a, b>> \in Seq(T)
           /\ \A a, b, c \in T : <<a, b, c>> \in Seq(T)
           /\ \A a, b, c, d \in T : <<a, b, c, d>> \in Seq(T)
           /\ \A a, b, c, d, e \in T : <<a, b, c, d, e>> \in Seq(T)
           /\ \A a, b, c, d, e, f \in T : <<a, b, c, d, e, f>> \in Seq(T)
           /\ \A a, b, c, d, e, f, g \in T : <<a, b, c, d, e, f, g>> \in Seq(T)
OBVIOUS

(* A list of switching off has nothing to clean up when a call fails.       *)
LEMMA OffsBalanced ==
    ASSUME NEW todo, \A i \in 1 .. Len(todo) : todo[i].op = "off"
    PROVE  Balanced(todo, {})
BY DEF Balanced

(* What the Stop methods switch off,                                        *)
LEMMA StopSequences ==
    /\ <<Off("file")>> \in Seq(Call) /\ Balanced(<<Off("file")>>, {})
    /\ GivesBack(<<Off("file")>>) = {"file"}
    /\ RadFETStop \in Seq(Call) /\ Balanced(RadFETStop, {})
    /\ GivesBack(RadFETStop) = {"RadFET", "SENS", "file"}
    /\ SunSStop \in Seq(Call) /\ Balanced(SunSStop, {})
    /\ GivesBack(SunSStop) = {"file", "second file"}
    /\ DetumblingCleanUp \in Seq(Call) /\ Balanced(DetumblingCleanUp, {})
    /\ GivesBack(DetumblingCleanUp) = {"file", "SENS", "ADCS"}
    /\ SailStop \in Seq(Call) /\ Balanced(SailStop, {})
    /\ GivesBack(SailStop) = {"file", "ADCS", "SENS"}
<1>1. /\ "file" \in Holdable /\ "second file" \in Holdable /\ "SENS" \in Holdable
      /\ "ADCS" \in Holdable /\ "RadFET" \in Holdable
  BY DEF Holdable
<1>2. /\ Off("file") \in Call /\ Off("second file") \in Call /\ Off("SENS") \in Call
      /\ Off("ADCS") \in Call /\ Off("RadFET") \in Call
  BY <1>1, CallsAreCalls
<1>3. <<Off("file")>> \in Seq(Call) /\ SunSStop \in Seq(Call) /\ DetumblingCleanUp \in Seq(Call)
      /\ SailStop \in Seq(Call) /\ RadFETStop \in Seq(Call)
  <2>1. CurrentTime \in Call /\ SaveRecord \in Call
    BY CallsAreCalls
  <2> QED
    BY <1>2, <2>1, TuplesAreSequences, Zenon
    DEF SunSStop, DetumblingCleanUp, SailStop, RadFETStop
<1>4. Balanced(<<Off("file")>>, {})
  BY OffsBalanced DEF Off
<1>5. Balanced(SunSStop, {})
  <2>1. Len(SunSStop) = 2 /\ SunSStop[1].op = "off" /\ SunSStop[2].op = "off"
    BY DEF SunSStop, Off
  <2>2. \A i \in 1 .. 2 : i = 1 \/ i = 2
    OBVIOUS
  <2> QED
    BY <2>1, <2>2, OffsBalanced
<1>6. Balanced(DetumblingCleanUp, {})
  BY OffsBalanced DEF Off, DetumblingCleanUp
<1>7. Balanced(SailStop, {})
  BY OffsBalanced DEF Off, SailStop
<1>8. Balanced(RadFETStop, {})
  <2> DEFINE s == RadFETStop
  <2>1. Len(s) = 5 /\ s[1].op = "off" /\ s[2].op = "off" /\ s[3].what \notin Holdable
        /\ s[4].what = "file" /\ s[5].op = "off" /\ s[5].what = "file"
    BY <1>1, <1>2, CallsAreCalls DEF RadFETStop
  <2>2. \A i \in 1 .. 5 : i = 1 \/ i = 2 \/ i = 3 \/ i = 4 \/ i = 5
    OBVIOUS
  <2> HIDE DEF s
  <2> QED
    BY <2>1, <2>2 DEF Balanced, s
<1>9. GivesBack(<<Off("file")>>) = {"file"}
  BY DEF GivesBack, Off
<1>10. GivesBack(SunSStop) = {"file", "second file"}
  <2>1. /\ Len(SunSStop) = 2 /\ SunSStop[1].op = "off" /\ SunSStop[2].op = "off"
        /\ SunSStop[1].what = "file" /\ SunSStop[2].what = "second file"
    BY DEF SunSStop, Off
  <2>2. \A i \in 1 .. 2 : i = 1 \/ i = 2
    OBVIOUS
  <2>3. 1 \in 1 .. 2 /\ 2 \in 1 .. 2
    OBVIOUS
  <2> HIDE DEF SunSStop
  <2> QED
    BY <2>1, <2>2, <2>3, Zenon DEF GivesBack
<1>11. GivesBack(DetumblingCleanUp) = {"file", "SENS", "ADCS"}
  BY DEF GivesBack, Off, DetumblingCleanUp
<1>12. GivesBack(SailStop) = {"file", "ADCS", "SENS"}
  BY DEF GivesBack, Off, SailStop
<1>13. GivesBack(RadFETStop) = {"RadFET", "SENS", "file"}
  BY DEF GivesBack, Off, RadFETStop, CurrentTime, SaveRecord
<1> QED
  BY <1>3, <1>4, <1>5, <1>6, <1>7, <1>8, <1>9, <1>10, <1>11, <1>12, <1>13

(* so that every one of them closes the data file.                          *)
LEMMA StopsBalanced ==
    ASSUME NEW name \in ExperimentNames
    PROVE  StopOf[name] \in Seq(Call) /\ Balanced(StopOf[name], {}) /\ "file" \in Back(name)
BY StopSequences DEF ExperimentNames, StopOf, Back

(* A list that gives back what it takes does so when more is given back     *)
(* after it.                                                                *)
LEMMA BalancedMonotone ==
    ASSUME NEW todo, NEW a, NEW b, a \subseteq b, Balanced(todo, a)
    PROVE  Balanced(todo, b)
BY DEF Balanced

(* What an iteration switches on it switches off, whichever call fails.     *)
LEMMA IterationSequences ==
    /\ \A s \in {<<>>, <<SaveRecord>>, <<Measure, SaveRecord>>, <<Measure, Measure, SaveRecord>>,
                 SunSSession} : s \in Seq(Call) /\ Balanced(s, {"file"})
    /\ \A k \in 1 .. 5 : PayloadStep[k] \in Seq(Call) /\ Balanced(PayloadStep[k], {"file"})
    /\ GivesBack(<<Measure, Measure, SaveRecord>>) = {}
<1>1. /\ "SENS" \in Holdable /\ "RadFET" \in Holdable /\ "CamNadir" \in Holdable
      /\ "CamWing" \in Holdable /\ "SunS" \in Holdable
  BY DEF Holdable
<1>2. /\ On("SENS") \in Call /\ On("RadFET") \in Call /\ On("CamNadir") \in Call
      /\ On("CamWing") \in Call /\ On("SunS") \in Call
      /\ Off("SENS") \in Call /\ Off("RadFET") \in Call /\ Off("CamNadir") \in Call
      /\ Off("CamWing") \in Call /\ Off("SunS") \in Call
      /\ Measure \in Call /\ SaveRecord \in Call
  BY <1>1, CallsAreCalls
<1>3. /\ Measure.what \notin Holdable /\ Measure.op # "off" /\ SaveRecord.op # "off"
      /\ SaveRecord.what = "file"
  BY CallsAreCalls
<1>4. <<>> \in Seq(Call) /\ Balanced(<<>>, {"file"})
  BY TuplesAreSequences DEF Balanced
<1>5. <<SaveRecord>> \in Seq(Call) /\ Balanced(<<SaveRecord>>, {"file"})
  <2> DEFINE s == <<SaveRecord>>
  <2>1. s \in Seq(Call) /\ Len(s) = 1 /\ s[1] = SaveRecord
    BY <1>2, TuplesAreSequences
  <2> HIDE DEF s
  <2>2. s \in Seq(Call) /\ Balanced(s, {"file"})
    BY <1>3, <2>1 DEF Balanced
  <2> QED
    BY <2>2 DEF s
<1>6. <<Measure, SaveRecord>> \in Seq(Call) /\ Balanced(<<Measure, SaveRecord>>, {"file"})
  <2> DEFINE s == <<Measure, SaveRecord>>
  <2>1. s \in Seq(Call) /\ Len(s) = 2 /\ s[1] = Measure /\ s[2] = SaveRecord
    BY <1>2, TuplesAreSequences
  <2>2. \A i \in 1 .. 2 : i = 1 \/ i = 2
    OBVIOUS
  <2> HIDE DEF s
  <2>3. s \in Seq(Call) /\ Balanced(s, {"file"})
    BY <1>3, <2>1, <2>2 DEF Balanced
  <2> QED
    BY <2>3 DEF s
<1>7. /\ <<Measure, Measure, SaveRecord>> \in Seq(Call)
      /\ Balanced(<<Measure, Measure, SaveRecord>>, {"file"})
      /\ GivesBack(<<Measure, Measure, SaveRecord>>) = {}
  <2> DEFINE s == <<Measure, Measure, SaveRecord>>
  <2>1. s \in Seq(Call) /\ Len(s) = 3 /\ s[1] = Measure /\ s[2] = Measure /\ s[3] = SaveRecord
    BY <1>2, TuplesAreSequences
  <2>2. \A i \in 1 .. 3 : i = 1 \/ i = 2 \/ i = 3
    OBVIOUS
  <2> HIDE DEF s
  <2>3. s \in Seq(Call) /\ Balanced(s, {"file"}) /\ GivesBack(s) = {}
    BY <1>3, <2>1, <2>2 DEF Balanced, GivesBack
  <2> QED
    BY <2>3 DEF s
<1>8. SunSSession \in Seq(Call) /\ Balanced(SunSSession, {"file"})
  <2> DEFINE s == SunSSession
  <2>1. s \in Seq(Call)
    BY <1>2, TuplesAreSequences, Zenon DEF SunSSession
  <2>2. Len(s) = 6 /\ s[1].what = "SENS" /\ s[2].what = "SunS" /\ s[3] = Measure /\ s[4] = SaveRecord
        /\ s[5].op = "off" /\ s[5].what = "SENS" /\ s[6].op = "off" /\ s[6].what = "SunS"
    BY DEF SunSSession, On, Off
  <2>3. \A i \in 1 .. 6 : i = 1 \/ i = 2 \/ i = 3 \/ i = 4 \/ i = 5 \/ i = 6
    OBVIOUS
  <2> HIDE DEF s
  <2> QED
    BY <1>3, <2>1, <2>2, <2>3 DEF Balanced, s
<1>9. ASSUME NEW k \in 1 .. 5
      PROVE  PayloadStep[k] \in Seq(Call) /\ Balanced(PayloadStep[k], {"file"})
  <2>1. CASE k \in {1, 5}
    <3> DEFINE s == PayloadStep[k]
    <3>1. s \in Seq(Call)
      <4>1. /\ <<On("SENS"), Measure, Off("SENS")>> \in Seq(Call)
            /\ <<On("SunS"), Measure, Off("SunS")>> \in Seq(Call)
        BY <1>2, TuplesAreSequences, Zenon
      <4>2. /\ PayloadStep[1] = <<On("SENS"), Measure, Off("SENS")>>
            /\ PayloadStep[5] = <<On("SunS"), Measure, Off("SunS")>>
        BY DEF PayloadStep
      <4> QED
        BY <2>1, <4>1, <4>2
    <3>2. Len(s) = 3 /\ s[2] = Measure /\ s[3].op = "off" /\ s[3].what = s[1].what
      BY <2>1 DEF PayloadStep, On, Off
    <3>3. \A i \in 1 .. 3 : i = 1 \/ i = 2 \/ i = 3
      OBVIOUS
    <3> HIDE DEF s
    <3> QED
      BY <1>3, <3>1, <3>2, <3>3 DEF Balanced, s
  <2>2. CASE k = 2
    <3> DEFINE s == PayloadStep[2]
    <3>1. s \in Seq(Call)
      BY <1>2, TuplesAreSequences DEF PayloadStep
    <3>2. /\ Len(s) = 7 /\ s[1].what = "SENS" /\ s[2] = Measure /\ s[3].what = "RadFET"
          /\ s[4] = Measure /\ s[5].op = "off" /\ s[5].what = "RadFET" /\ s[6] = Measure
          /\ s[7].op = "off" /\ s[7].what = "SENS"
      BY DEF PayloadStep, On, Off
    <3>3. \A i \in 1 .. 7 : i = 1 \/ i = 2 \/ i = 3 \/ i = 4 \/ i = 5 \/ i = 6 \/ i = 7
      OBVIOUS
    <3> HIDE DEF s
    <3> QED
      BY <1>3, <2>2, <3>1, <3>2, <3>3 DEF Balanced, s
  <2>3. CASE k = 3
    <3> DEFINE s == PayloadStep[3]
    <3>1. s \in Seq(Call)
      BY <1>2, TuplesAreSequences DEF PayloadStep
    <3>2. /\ Len(s) = 6 /\ s[1].what = "CamNadir" /\ s[2] = Measure /\ s[3].op = "off"
          /\ s[3].what = "CamNadir" /\ s[4].what = "CamWing" /\ s[5] = Measure
          /\ s[6].op = "off" /\ s[6].what = "CamWing"
      BY DEF PayloadStep, On, Off
    <3>3. \A i \in 1 .. 6 : i = 1 \/ i = 2 \/ i = 3 \/ i = 4 \/ i = 5 \/ i = 6
      OBVIOUS
    <3> HIDE DEF s
    <3> QED
      BY <1>3, <2>3, <3>1, <3>2, <3>3 DEF Balanced, s
  <2>4. CASE k = 4
    BY <1>4, <2>4 DEF PayloadStep
  <2> QED
    BY <2>1, <2>2, <2>3, <2>4
<1> QED
  BY <1>4, <1>5, <1>6, <1>7, <1>8, <1>9, Zenon

(* What the Stop of each experiment gives back.                             *)
LEMMA BackOfEach ==
    /\ Back("RadFET") = {"RadFET", "SENS", "file"}
    /\ Back("SunS") = {"file", "second file"}
    /\ Back("Detumbling") = {"file", "SENS", "ADCS"}
    /\ Back("Sail") = {"file", "ADCS", "SENS"}
    /\ Back("SADS") = {"file", "ADCS", "SENS"}
    /\ \A name \in {"LEOP", "Payload", "Camera", "Fibo"} : Back(name) = {"file"}
<1>1. /\ StopOf["RadFET"] = RadFETStop /\ StopOf["SunS"] = SunSStop
      /\ StopOf["Detumbling"] = DetumblingCleanUp /\ StopOf["Sail"] = SailStop
      /\ StopOf["SADS"] = SailStop
      /\ \A name \in {"LEOP", "Payload", "Camera", "Fibo"} : StopOf[name] = <<Off("file")>>
  BY DEF StopOf
<1> QED
  BY <1>1, StopSequences, Zenon DEF Back

(* An empty list leaves nothing on.                                         *)
LEMMA NothingToDo == <<>> \in Seq(Call) /\ Balanced(<<>>, {})
BY DEF Balanced

(* The same is done whichever call fails. *)
LEMMA SameElse ==
    ASSUME NEW todo \in Seq(StartCall), NEW name, NEW e, Balanced(e, {}),
           GivesBack(e) \subseteq Back(name),
           \A i \in 1 .. Len(todo) :
               /\ todo[i].else = e /\ todo[i].call.op # "off"
               /\ todo[i].call.what \in Holdable => todo[i].call.what \in GivesBack(e)
    PROVE  StartBalanced(todo, name)
BY DEF StartBalanced

(* Start gives back what it took at whichever call it fails.                *)
LEMMA StartSequences ==
    ASSUME NEW name \in ExperimentNames
    PROVE  StartOf[name] \in Seq(StartCall) /\ StartBalanced(StartOf[name], name)
<1> DEFINE s == StartOf[name]
           fileOff == <<Off("file")>>
<1>1. /\ "file" \in Holdable /\ "second file" \in Holdable /\ "SENS" \in Holdable
      /\ "ADCS" \in Holdable /\ "RadFET" \in Holdable
  BY DEF Holdable
<1>2. /\ On("file") \in Call /\ On("second file") \in Call /\ On("SENS") \in Call
      /\ On("ADCS") \in Call /\ On("RadFET") \in Call /\ CurrentTime \in Call /\ SaveRecord \in Call
      /\ Off("file") \in Call /\ Off("SENS") \in Call /\ Off("RadFET") \in Call
  BY <1>1, CallsAreCalls
<1>3. /\ On("file").op # "off" /\ On("file").what = "file"
      /\ On("second file").op # "off" /\ On("second file").what = "second file"
      /\ On("SENS").op # "off" /\ On("SENS").what = "SENS"
      /\ On("ADCS").op # "off" /\ On("ADCS").what = "ADCS"
      /\ On("RadFET").op # "off" /\ On("RadFET").what = "RadFET"
      /\ CurrentTime.op # "off" /\ SaveRecord.op # "off"
      /\ CurrentTime.what \notin Holdable /\ SaveRecord.what = "file"
  BY <1>1, CallsAreCalls
<1>4. \A c \in Call, e \in Seq(Call) :
         OrElse(c, e) \in StartCall /\ OrElse(c, e).call = c /\ OrElse(c, e).else = e
  BY DEF OrElse, StartCall
<1>5. fileOff \in Seq(Call) /\ Balanced(fileOff, {}) /\ GivesBack(fileOff) = {"file"}
  BY StopSequences
<1> HIDE DEF fileOff
<1>6. ASSUME name \in {"Payload", "Camera", "Fibo"}
      PROVE  s \in Seq(StartCall) /\ StartBalanced(s, name)
  <2>1. s = <<OrElse(On("file"), <<>>)>>
    <3>1. /\ StartOf["Payload"] = <<OrElse(On("file"), <<>>)>>
          /\ StartOf["Camera"] = <<OrElse(On("file"), <<>>)>>
          /\ StartOf["Fibo"] = <<OrElse(On("file"), <<>>)>>
      BY DEF StartOf
    <3> QED
      BY <1>6, <3>1
  <2> HIDE DEF s
  <2>2. s \in Seq(StartCall)
    BY <1>2, <1>4, <2>1, NothingToDo, TuplesAreSequences, Zenon
  <2>3. Len(s) = 1 /\ s[1].call = On("file") /\ s[1].else = <<>>
    BY <2>1 DEF OrElse
  <2>4. Back(name) = {"file"}
    BY <1>6, BackOfEach
  <2> QED
    <3>1. s[1].call.op # "off" /\ s[1].call.what \in Back(name) /\ Balanced(s[1].else, {})
      BY <1>3, <2>3, <2>4, NothingToDo
    <3>2. \A i \in 1 .. 1 : i = 1
      OBVIOUS
    <3> QED
      BY <2>2, <2>3, <3>1, <3>2 DEF StartBalanced
<1>7. ASSUME name = "LEOP"
      PROVE  s \in Seq(StartCall) /\ StartBalanced(s, name)
  <2>1. s = <<OrElse(CurrentTime, <<>>), OrElse(On("file"), <<>>)>>
    BY <1>7 DEF StartOf
  <2> HIDE DEF s
  <2>2. s \in Seq(StartCall)
    BY <1>2, <1>4, <2>1, NothingToDo, TuplesAreSequences, Zenon
  <2>3. Len(s) = 2 /\ s[1].call = CurrentTime /\ s[2].call = On("file")
        /\ s[1].else = <<>> /\ s[2].else = <<>>
    BY <2>1 DEF OrElse
  <2>4. Back(name) = {"file"}
    BY <1>7, BackOfEach
  <2>5. \A i \in 1 .. 2 : i = 1 \/ i = 2
    OBVIOUS
  <2> QED
    <3>1. /\ s[1].call.op # "off" /\ s[1].call.what \notin Holdable /\ Balanced(s[1].else, {})
          /\ s[2].call.op # "off" /\ s[2].call.what \in Back(name) /\ Balanced(s[2].else, {})
      BY <1>3, <2>3, <2>4, NothingToDo
    <3> QED
      BY <2>2, <2>3, <2>5, <3>1 DEF StartBalanced
<1>8. ASSUME name = "SunS"
      PROVE  s \in Seq(StartCall) /\ StartBalanced(s, name)
  <2>1. s = <<OrElse(On("file"), <<>>), OrElse(On("second file"), fileOff)>>
    BY <1>8 DEF StartOf, fileOff
  <2> HIDE DEF s
  <2>2. s \in Seq(StartCall)
    BY <1>2, <1>4, <1>5, <2>1, NothingToDo, TuplesAreSequences, Zenon
  <2>3. Len(s) = 2 /\ s[1].call = On("file") /\ s[2].call = On("second file")
        /\ s[1].else = <<>> /\ s[2].else = fileOff
    BY <2>1 DEF OrElse
  <2>4. Back(name) = {"file", "second file"}
    BY <1>8, BackOfEach
  <2>5. \A i \in 1 .. 2 : i = 1 \/ i = 2
    OBVIOUS
  <2> QED
    <3>1. /\ s[1].call.op # "off" /\ s[1].call.what \in Back(name) /\ Balanced(s[1].else, {})
          /\ s[2].call.op # "off" /\ s[2].call.what \in Back(name) /\ Balanced(s[2].else, {})
          /\ s[1].call.what \in GivesBack(s[2].else)
      BY <1>3, <1>5, <2>3, <2>4, NothingToDo
    <3>2. \A i, j \in 1 .. 2 : i < j => i = 1 /\ j = 2
      OBVIOUS
    <3> QED
      BY <2>2, <2>3, <2>5, <3>1, <3>2 DEF StartBalanced
<1>9. ASSUME name = "RadFET"
      PROVE  s \in Seq(StartCall) /\ StartBalanced(s, name)
  <2> DEFINE e3 == <<Off("SENS"), Off("file")>>
             e4 == RadFETOn
  <2>1. e3 \in Seq(Call) /\ Len(e3) = 2 /\ e3[1].op = "off" /\ e3[2].op = "off"
        /\ e3[1].what = "SENS" /\ e3[2].what = "file"
    BY <1>2, TuplesAreSequences DEF Off
  <2>2. e4 \in Seq(Call) /\ Len(e4) = 3 /\ e4[1].op = "off" /\ e4[2].op = "off" /\ e4[3].op = "off"
        /\ e4[1].what = "RadFET" /\ e4[2].what = "SENS" /\ e4[3].what = "file"
    <3>1. e4 \in Seq(Call)
      BY <1>2, TuplesAreSequences, Zenon DEF RadFETOn
    <3> QED
      BY <3>1 DEF RadFETOn, Off
  <2>3. s = <<OrElse(On("file"), <<>>), OrElse(On("SENS"), fileOff), OrElse(On("RadFET"), e3),
              OrElse(CurrentTime, e4), OrElse(SaveRecord, e4)>>
    BY <1>9 DEF StartOf, fileOff
  <2>4. /\ \A i \in 1 .. 2 : i = 1 \/ i = 2
        /\ \A i \in 1 .. 3 : i = 1 \/ i = 2 \/ i = 3
        /\ \A i \in 1 .. 5 : i = 1 \/ i = 2 \/ i = 3 \/ i = 4 \/ i = 5
    OBVIOUS
  <2> HIDE DEF s, e3, e4
  <2>5. Balanced(e3, {}) /\ Balanced(e4, {})
    BY <2>1, <2>2, <2>4, OffsBalanced
  <2>6. GivesBack(e3) = {"SENS", "file"} /\ GivesBack(e4) = {"RadFET", "SENS", "file"}
    <3>1. 1 \in 1 .. 2 /\ 2 \in 1 .. 2 /\ 1 \in 1 .. 3 /\ 2 \in 1 .. 3 /\ 3 \in 1 .. 3
      OBVIOUS
    <3> QED
      BY <2>1, <2>2, <2>4, <3>1, Zenon DEF GivesBack
  <2>7. s \in Seq(StartCall)
    BY <1>2, <1>4, <1>5, <2>1, <2>2, <2>3, NothingToDo, TuplesAreSequences, Zenon
  <2>8. Len(s) = 5 /\ s[1].call = On("file") /\ s[2].call = On("SENS") /\ s[3].call = On("RadFET")
        /\ s[4].call = CurrentTime /\ s[5].call = SaveRecord /\ s[1].else = <<>>
        /\ s[2].else = fileOff /\ s[3].else = e3 /\ s[4].else = e4 /\ s[5].else = e4
    BY <2>3 DEF OrElse
  <2>9. Back(name) = {"RadFET", "SENS", "file"}
    BY <1>9, BackOfEach
  <2>10. /\ GivesBack(s[2].else) = {"file"} /\ GivesBack(s[3].else) = {"SENS", "file"}
         /\ GivesBack(s[4].else) = {"RadFET", "SENS", "file"}
         /\ GivesBack(s[5].else) = {"RadFET", "SENS", "file"}
         /\ \A i \in 1 .. 5 : Balanced(s[i].else, {})
    BY <1>5, <2>4, <2>5, <2>6, <2>8, NothingToDo
  <2>11. /\ s[1].call.op # "off" /\ s[1].call.what = "file"
         /\ s[2].call.op # "off" /\ s[2].call.what = "SENS"
         /\ s[3].call.op # "off" /\ s[3].call.what = "RadFET"
         /\ s[4].call.op # "off" /\ s[4].call.what \notin Holdable
         /\ s[5].call.op # "off" /\ s[5].call.what = "file"
    BY <1>3, <2>8
  <2>12. StartBalanced(s, name)
    <3>1. \A i \in 1 .. 5 : s[i].call.op # "off" /\ (s[i].call.what \in Holdable => s[i].call.what \in Back(name))
      BY <2>4, <2>9, <2>11
    <3>2. ASSUME NEW i \in 1 .. 5, NEW j \in 1 .. 5, i < j, s[i].call.what \in Holdable
          PROVE  s[i].call.what \in GivesBack(s[j].else)
      BY <2>4, <2>10, <2>11, <3>2
    <3> QED
      BY <2>8, <2>10, <3>1, <3>2 DEF StartBalanced
  <2> QED
    BY <2>7, <2>12
<1>10. ASSUME name = "Detumbling"
       PROVE  s \in Seq(StartCall) /\ StartBalanced(s, name)
  <2> DEFINE e == DetumblingCleanUp
  <2>1. /\ Back(name) = {"file", "SENS", "ADCS"} /\ e \in Seq(Call)
        /\ Balanced(e, {}) /\ GivesBack(e) = {"file", "SENS", "ADCS"}
    BY <1>10, StopSequences, BackOfEach
  <2>2. s = <<OrElse(On("file"), e), OrElse(CurrentTime, e), OrElse(On("SENS"), e), OrElse(On("ADCS"), e)>>
    BY <1>10 DEF StartOf
  <2> HIDE DEF s, e
  <2>3. s \in Seq(StartCall)
    BY <1>2, <1>4, <2>1, <2>2, TuplesAreSequences, Zenon
  <2>4. Len(s) = 4 /\ s[1].call = On("file") /\ s[2].call = CurrentTime /\ s[3].call = On("SENS")
        /\ s[4].call = On("ADCS") /\ s[1].else = e /\ s[2].else = e /\ s[3].else = e /\ s[4].else = e
    BY <2>2 DEF OrElse
  <2>5. \A i \in 1 .. 4 : i = 1 \/ i = 2 \/ i = 3 \/ i = 4
    OBVIOUS
  <2>6. \A i \in 1 .. 4 : /\ s[i].else = e /\ s[i].call.op # "off"
                          /\ s[i].call.what \in Holdable => s[i].call.what \in GivesBack(e)
    BY <1>3, <2>1, <2>4, <2>5
  <2>7. GivesBack(e) \subseteq Back(name)
    BY <2>1
  <2> QED
    BY <2>1, <2>3, <2>4, <2>6, <2>7, SameElse
<1>11. ASSUME name \in {"Sail", "SADS"}
       PROVE  s \in Seq(StartCall) /\ StartBalanced(s, name)
  <2> DEFINE e == SailStop
  <2>1. /\ Back(name) = {"file", "ADCS", "SENS"} /\ e \in Seq(Call)
        /\ Balanced(e, {}) /\ GivesBack(e) = {"file", "ADCS", "SENS"}
    BY <1>11, StopSequences, BackOfEach
  <2>2. s = <<OrElse(On("file"), e), OrElse(On("ADCS"), e), OrElse(On("SENS"), e), OrElse(CurrentTime, e)>>
    <3>1. CASE name = "Sail"
      BY <3>1 DEF StartOf
    <3>2. CASE name = "SADS"
      BY <3>2 DEF StartOf
    <3> QED
      BY <1>11, <3>1, <3>2
  <2> HIDE DEF s, e
  <2>3. s \in Seq(StartCall)
    BY <1>2, <1>4, <2>1, <2>2, TuplesAreSequences, Zenon
  <2>4. Len(s) = 4 /\ s[1].call = On("file") /\ s[2].call = On("ADCS") /\ s[3].call = On("SENS")
        /\ s[4].call = CurrentTime /\ s[1].else = e /\ s[2].else = e /\ s[3].else = e /\ s[4].else = e
    BY <2>2 DEF OrElse
  <2>5. \A i \in 1 .. 4 : i = 1 \/ i = 2 \/ i = 3 \/ i = 4
    OBVIOUS
  <2>6. \A i \in 1 .. 4 : /\ s[i].else = e /\ s[i].call.op # "off"
                          /\ s[i].call.what \in Holdable => s[i].call.what \in GivesBack(e)
    BY <1>3, <2>1, <2>4, <2>5
  <2>7. GivesBack(e) \subseteq Back(name)
    BY <2>1
  <2> QED
    BY <2>1, <2>3, <2>4, <2>6, <2>7, SameElse
<1> QED
  BY <1>6, <1>7, <1>8, <1>9, <1>10, <1>11 DEF ExperimentNames

-----------------------------------------------------------------------------

RunRecord ==
    [name : ExperimentNames, pc : {"start", "between", "iteration", "stop", "over"},
     calls : Seq(StartCall) \cup Seq(Call),
     result : {"None", "NotStarted", "Finished", "Failure", "Aborted"}]

RunsTypeOK ==
    /\ run \in RunRecord
    /\ run.calls \in IF run.pc = "start" THEN Seq(StartCall) ELSE Seq(Call)
    /\ timeLeft \in Nat /\ remaining \in Nat /\ asked \in 0 .. 255 /\ done \in Nat
    /\ runFaults \in Nat
    /\ run.name = "Payload" /\ run.pc = "between" => remaining < 5
    /\ run.name = "Payload" /\ run.pc = "iteration" => remaining <= 5

(* What is on, open or taken is excused, or will be given back: by the      *)
(* calls to come or by Stop.                                               *)
HeldBack ==
    /\ held \subseteq Holdable
    /\ run.pc = "start" =>
          /\ StartBalanced(run.calls, run.name)
          /\ \A x \in held \ excused :
                x \in Back(run.name) /\ \A i \in 1 .. Len(run.calls) : x \in GivesBack(run.calls[i].else)
          /\ run.name = "LEOP" => \A i \in 1 .. Len(run.calls) : run.calls[i].else = <<>>
    /\ run.pc = "between" => held \subseteq excused \cup Back(run.name)
    /\ run.pc = "iteration" =>
          /\ Balanced(run.calls, Back(run.name))
          /\ held \subseteq excused \cup GivesBack(run.calls) \cup Back(run.name)
          /\ run.name = "RadFET" => GivesBack(run.calls) = {}
    /\ run.pc = "stop" => Balanced(run.calls, {}) /\ held \subseteq excused \cup GivesBack(run.calls)
    /\ run.pc = "over" => held \subseteq excused

(* The sessions of SunS, whose count of eight bits takes none for 256. *)
Goal == IF asked = 0 THEN 256 ELSE asked
SunSCount ==
    run.name = "SunS" =>
        /\ run.pc = "between" => done < Goal
        /\ run.pc = "iteration" => done \in 1 .. Goal
        /\ run.pc \in {"between", "iteration"} =>
              remaining = IF done = 0 THEN asked ELSE Goal - done

(* The iterations of Fibo. *)
FiboCount ==
    run.name = "Fibo" /\ asked > 0 =>
        /\ run.pc = "between" => done < asked
        /\ run.pc = "iteration" => done \in 1 .. asked
        /\ run.pc \in {"between", "iteration"} => remaining = asked - done

(* The attempts of RadFET are its samples and the times it did not know the *)
(* time, as long as their count of eight bits does not go round.           *)
RadFETCount ==
    /\ run.name = "RadFET" /\ asked > 0 /\ asked + runFaults < 256 =>
          /\ run.pc = "between" => done < asked
          /\ run.pc = "iteration" => done \in 1 .. asked
          /\ run.pc \in {"between", "iteration"} => done <= remaining /\ remaining <= done + runFaults
    /\ run.name = "RadFET" /\ asked = 0 =>
          /\ run.pc = "between" => done = 0
          /\ run.pc = "iteration" => done = 1

Counted ==
    /\ run.pc \in {"start", "between", "iteration"} => run.result = "None"
    /\ run.pc = "start" => done = 0
    /\ SunSCount /\ FiboCount /\ RadFETCount /\ MeasuredAsAsked

RunsInv == RunsTypeOK /\ HeldBack /\ Counted

(* The next place of a run, and what has to be known of it. *)
LEMMA RunGoes ==
    ASSUME RunsTypeOK, NEW where, NEW todo, Goes(where, todo)
    PROVE  /\ run'.name = run.name /\ run'.pc = where /\ run'.calls = todo /\ run'.result = run.result
           /\ where \in {"start", "between", "iteration", "stop", "over"}
              /\ todo \in Seq(StartCall) \cup Seq(Call) =>
              run' \in RunRecord
BY DEF Goes, RunsTypeOK, RunRecord

(* Stop is called with the result the run ended with.                       *)
LEMMA RunEndsWith ==
    ASSUME RunsTypeOK, NEW result \in {"NotStarted", "Finished", "Failure", "Aborted"},
           NEW todo \in Seq(Call), Ends(result, todo)
    PROVE  /\ run'.name = run.name /\ run'.pc = "stop" /\ run'.calls = todo /\ run'.result = result
           /\ run' \in RunRecord
BY DEF Ends, RunsTypeOK, RunRecord

(* One call of Start. *)
LEMMA StartCallsStep ==
    ASSUME NEW todo \in Seq(StartCall), todo # <<>>, NEW name, StartBalanced(todo, name)
    PROVE  /\ Tail(todo) \in Seq(StartCall) /\ StartBalanced(Tail(todo), name)
           /\ Head(todo).call \in Call /\ Head(todo).call.op # "off"
           /\ Head(todo).else \in Seq(Call) /\ Balanced(Head(todo).else, {})
           /\ Head(todo).call.what \in Holdable =>
                 /\ Head(todo).call.what \in Back(name)
                 /\ \A i \in 1 .. Len(Tail(todo)) : Head(todo).call.what \in GivesBack(Tail(todo)[i].else)
           /\ \A x : (\A i \in 1 .. Len(todo) : x \in GivesBack(todo[i].else)) =>
                 /\ x \in GivesBack(Head(todo).else)
                 /\ \A i \in 1 .. Len(Tail(todo)) : x \in GivesBack(Tail(todo)[i].else)
           /\ (\A i \in 1 .. Len(todo) : todo[i].else = <<>>) =>
                 /\ Head(todo).else = <<>>
                 /\ \A i \in 1 .. Len(Tail(todo)) : Tail(todo)[i].else = <<>>
<1> DEFINE tail == Tail(todo)
           head == Head(todo)
<1>1. /\ Len(todo) \in Nat /\ 1 \in 1 .. Len(todo) /\ head = todo[1] /\ head \in StartCall
      /\ tail \in Seq(StartCall)
      /\ \A i \in 1 .. Len(tail) : tail[i] = todo[i + 1] /\ i + 1 \in 1 .. Len(todo) /\ 1 < i + 1 /\ i \in Int
  OBVIOUS
<1>2. head.call \in Call /\ head.else \in Seq(Call)
  BY <1>1 DEF StartCall
<1> HIDE DEF tail, head
<1>3. /\ head.call.op # "off" /\ Balanced(head.else, {})
      /\ head.call.what \in Holdable =>
            /\ head.call.what \in Back(name)
            /\ \A j \in 1 .. Len(todo) : 1 < j => head.call.what \in GivesBack(todo[j].else)
  BY <1>1 DEF StartBalanced
<1>4. StartBalanced(tail, name)
  <2> SUFFICES ASSUME NEW i \in 1 .. Len(tail)
               PROVE  /\ tail[i].call.op # "off"
                      /\ Balanced(tail[i].else, {})
                      /\ tail[i].call.what \in Holdable =>
                            /\ tail[i].call.what \in Back(name)
                            /\ \A j \in 1 .. Len(tail) : i < j => tail[i].call.what \in GivesBack(tail[j].else)
    BY DEF StartBalanced
  <2>1. /\ todo[i + 1].call.op # "off" /\ Balanced(todo[i + 1].else, {})
        /\ todo[i + 1].call.what \in Holdable =>
              /\ todo[i + 1].call.what \in Back(name)
              /\ \A j \in 1 .. Len(todo) : i + 1 < j => todo[i + 1].call.what \in GivesBack(todo[j].else)
    BY <1>1 DEF StartBalanced
  <2>2. ASSUME NEW j \in 1 .. Len(tail), i < j, tail[i].call.what \in Holdable
        PROVE  tail[i].call.what \in GivesBack(tail[j].else)
    <3>1. i + 1 < j + 1 /\ j + 1 \in 1 .. Len(todo) /\ tail[j] = todo[j + 1] /\ tail[i] = todo[i + 1]
      BY <1>1, <2>2
    <3> QED
      BY <2>1, <2>2, <3>1
  <2> QED
    BY <1>1, <2>1, <2>2
<1> QED
  BY <1>1, <1>2, <1>3, <1>4 DEF tail, head

(* A call of Start keeps the invariant: what is held is given back if the   *)
(* next one fails.                                                          *)
LEMMA StartStep ==
    ASSUME RunsInv, Start
    PROVE  RunsInv'
<1>0. RunsTypeOK /\ HeldBack /\ Counted /\ Duration \in Nat
  BY RunsAssumption DEF RunsInv
<1>1. /\ run.pc = "start" /\ run.calls \in Seq(StartCall) /\ run.name \in ExperimentNames
      /\ StartBalanced(run.calls, run.name) /\ held \subseteq Holdable
      /\ \A x \in held \ excused :
            x \in Back(run.name) /\ \A i \in 1 .. Len(run.calls) : x \in GivesBack(run.calls[i].else)
      /\ run.name = "LEOP" => \A i \in 1 .. Len(run.calls) : run.calls[i].else = <<>>
      /\ UNCHANGED <<asked, done>>
  BY <1>0 DEF Start, RunsTypeOK, RunRecord, HeldBack
<1>2. run.result = "None" /\ done = 0
  BY <1>0, <1>1 DEF Counted
<1>3. timeLeft \in Nat /\ remaining \in Nat /\ asked \in 0 .. 255 /\ runFaults \in Nat
  BY <1>0 DEF RunsTypeOK
<1> USE RunsAssumption
<1>4. CASE run.calls = <<>> /\ Started /\ UNCHANGED <<held, excused, runFaults>>
  <2>1. run'.name = run.name /\ run'.pc = "between" /\ run'.calls = <<>> /\ run'.result = "None"
        /\ run' \in RunRecord
    BY <1>0, <1>2, <1>4, RunGoes, NothingToDo DEF Started
  <2>2. timeLeft' \in Nat /\ remaining' = IF run.name \in {"SunS", "Fibo"} THEN asked ELSE 0
    BY <1>0, <1>3, <1>4 DEF Started
  <2>3. RunsTypeOK'
    BY <1>1, <1>2, <1>3, <1>4, <2>1, <2>2, NothingToDo DEF RunsTypeOK
  <2>4. HeldBack'
    BY <1>1, <1>4, <2>1 DEF HeldBack
  <2>5. Counted'
    BY <1>1, <1>2, <1>3, <1>4, <2>1, <2>2
    DEF Counted, SunSCount, FiboCount, RadFETCount, MeasuredAsAsked, Goal
  <2> QED
    BY <2>3, <2>4, <2>5 DEF RunsInv
<1>5. CASE run.calls # <<>> /\ Works(Head(run.calls).call) /\ Goes("start", Tail(run.calls))
           /\ UNCHANGED <<timeLeft, remaining>>
  <2> DEFINE c == Head(run.calls).call
             tail == Tail(run.calls)
  <2>1. /\ tail \in Seq(StartCall) /\ StartBalanced(tail, run.name) /\ c \in Call /\ c.op # "off"
        /\ c.what \in Holdable =>
              /\ c.what \in Back(run.name)
              /\ \A i \in 1 .. Len(tail) : c.what \in GivesBack(tail[i].else)
        /\ \A x : (\A i \in 1 .. Len(run.calls) : x \in GivesBack(run.calls[i].else)) =>
              \A i \in 1 .. Len(tail) : x \in GivesBack(tail[i].else)
        /\ run.name = "LEOP" => \A i \in 1 .. Len(tail) : tail[i].else = <<>>
    BY <1>1, <1>5, StartCallsStep
  <2>2. run'.name = run.name /\ run'.pc = "start" /\ run'.calls = tail /\ run'.result = "None"
        /\ run' \in RunRecord
    BY <1>0, <1>2, <1>5, <2>1, RunGoes
  <2>3. /\ runFaults' = runFaults /\ excused' = excused \ {c.what}
        /\ held' = held \/ (c.op = "on" /\ held' = held \cup {c.what})
    BY <1>5, <2>1 DEF Works, RunOk
  <2>4. c.op = "on" => c.what \in Holdable
    BY <2>1 DEF Call
  <2> HIDE DEF c, tail
  <2>5. ASSUME NEW x \in held' \ excused'
        PROVE  x \in Back(run.name) /\ \A i \in 1 .. Len(tail) : x \in GivesBack(tail[i].else)
    <3>1. CASE x \in held \ excused
      BY <1>1, <2>1, <3>1
    <3>2. CASE x = c.what /\ x \in Holdable
      BY <2>1, <3>2
    <3> QED
      BY <1>1, <2>3, <2>4, <2>5, <3>1, <3>2
  <2>6. held' \subseteq Holdable
    BY <1>1, <2>3, <2>4
  <2>7. RunsTypeOK'
    BY <1>2, <1>3, <1>1, <1>5, <2>1, <2>2, <2>3 DEF RunsTypeOK
  <2>8. HeldBack'
    BY <1>1, <2>1, <2>2, <2>5, <2>6 DEF HeldBack
  <2>9. Counted'
    BY <1>1, <1>2, <2>2 DEF Counted, SunSCount, FiboCount, RadFETCount, MeasuredAsAsked
  <2> QED
    BY <2>7, <2>8, <2>9 DEF RunsInv
<1>6. CASE run.calls # <<>> /\ Fails(Head(run.calls).call) /\ Ends("NotStarted", Head(run.calls).else)
           /\ UNCHANGED <<timeLeft, remaining>>
  <2> DEFINE c == Head(run.calls).call
             e == Head(run.calls).else
  <2>1. /\ c \in Call /\ c.op # "off" /\ e \in Seq(Call) /\ Balanced(e, {})
        /\ \A x : (\A i \in 1 .. Len(run.calls) : x \in GivesBack(run.calls[i].else)) => x \in GivesBack(e)
    BY <1>1, <1>6, StartCallsStep
  <2>2. run'.name = run.name /\ run'.pc = "stop" /\ run'.calls = e /\ run'.result = "NotStarted"
        /\ run' \in RunRecord
    BY <1>0, <1>6, <2>1, RunEndsWith
  <2>3. /\ runFaults' = runFaults + 1 /\ excused \subseteq excused'
        /\ held' = held \/ (c.op = "on" /\ held' = held \cup {c.what} /\ c.what \in excused')
    BY <1>6, <2>1 DEF Fails, RunFault
  <2>4. c.op = "on" => c.what \in Holdable
    BY <2>1 DEF Call
  <2> HIDE DEF c, e
  <2>5. held' \subseteq Holdable /\ held' \subseteq excused' \cup GivesBack(e)
    BY <1>1, <2>1, <2>3, <2>4
  <2>6. RunsTypeOK'
    BY <1>2, <1>3, <1>1, <1>6, <2>1, <2>2, <2>3 DEF RunsTypeOK
  <2>7. HeldBack'
    BY <2>1, <2>2, <2>5 DEF HeldBack
  <2>8. Counted'
    BY <2>2 DEF Counted, SunSCount, FiboCount, RadFETCount, MeasuredAsAsked
  <2> QED
    BY <2>6, <2>7, <2>8 DEF RunsInv
<1>7. CASE run.calls # <<>> /\ TooLate /\ Ends("NotStarted", <<>>)
           /\ UNCHANGED <<held, excused, runFaults, timeLeft, remaining>>
  <2>1. run'.name = run.name /\ run'.pc = "stop" /\ run'.calls = <<>> /\ run'.result = "NotStarted"
        /\ run' \in RunRecord
    BY <1>0, <1>7, NothingToDo, RunEndsWith
  <2>2. held \subseteq excused
    <3>1. 1 \in 1 .. Len(run.calls) /\ run.calls[1].else = <<>>
      BY <1>1, <1>7 DEF TooLate
    <3>2. GivesBack(<<>>) = {}
      BY DEF GivesBack
    <3> QED
      BY <1>1, <3>1, <3>2
  <2>3. RunsTypeOK'
    BY <1>2, <1>3, <1>1, <1>7, <2>1, NothingToDo DEF RunsTypeOK
  <2>4. HeldBack'
    BY <1>1, <1>7, <2>1, <2>2, NothingToDo DEF HeldBack
  <2>5. Counted'
    BY <2>1 DEF Counted, SunSCount, FiboCount, RadFETCount, MeasuredAsAsked
  <2> QED
    BY <2>3, <2>4, <2>5 DEF RunsInv
<1> QED
  BY <1>4, <1>5, <1>6, <1>7 DEF Start

(* Between two iterations, or at the end of one, what is on is given back   *)
(* by Stop; so the run may end here, or make an iteration.                 *)
LEMMA BetweenHeld ==
    ASSUME RunsInv, run.pc = "between" \/ (run.pc = "iteration" /\ run.calls = <<>>)
    PROVE  held \subseteq Holdable /\ held \subseteq excused \cup Back(run.name)
BY DEF RunsInv, HeldBack, GivesBack

(* A run that ends leaves on what Stop switches off, and no more.           *)
LEMMA EndsBack ==
    ASSUME RunsInv, run.pc = "between" \/ (run.pc = "iteration" /\ run.calls = <<>>),
           NEW result \in {"Finished", "Failure", "Aborted"}, Ends(result, StopOf[run.name]),
           UNCHANGED <<held, excused>>
    PROVE  /\ run'.name = run.name /\ run'.pc = "stop" /\ run'.calls \in Seq(Call)
           /\ run'.result = result /\ run' \in RunRecord
           /\ HeldBack'
<1>1. RunsTypeOK /\ run.name \in ExperimentNames
  BY DEF RunsInv, RunsTypeOK, RunRecord
<1>2. StopOf[run.name] \in Seq(Call) /\ Balanced(StopOf[run.name], {})
  BY <1>1, StopsBalanced
<1>3. run'.name = run.name /\ run'.pc = "stop" /\ run'.calls = StopOf[run.name] /\ run'.result = result
      /\ run' \in RunRecord
  BY <1>1, <1>2, RunEndsWith
<1>4. held \subseteq Holdable /\ held \subseteq excused \cup GivesBack(StopOf[run.name])
  BY BetweenHeld DEF Back
<1> QED
  BY <1>2, <1>3, <1>4 DEF HeldBack

(* An iteration begins with nothing on but what Stop switches off,          *)
LEMMA IterationBack ==
    ASSUME RunsInv, run.pc = "between", NEW todo \in Seq(Call), Balanced(todo, {"file"}),
           run.name = "RadFET" => GivesBack(todo) = {},
           Goes("iteration", todo), UNCHANGED <<held, excused>>
    PROVE  /\ run'.name = run.name /\ run'.pc = "iteration" /\ run'.calls \in Seq(Call)
           /\ run'.result = "None" /\ run' \in RunRecord
           /\ HeldBack'
<1>1. RunsTypeOK /\ run.name \in ExperimentNames /\ run.result = "None"
  BY DEF RunsInv, RunsTypeOK, RunRecord, Counted
<1>2. run'.name = run.name /\ run'.pc = "iteration" /\ run'.calls = todo /\ run'.result = "None"
      /\ run' \in RunRecord
  BY <1>1, RunGoes
<1>3. Balanced(todo, Back(run.name))
  BY <1>1, StopsBalanced, BalancedMonotone
<1> QED
  BY <1>2, <1>3, BetweenHeld DEF HeldBack

(* and leaves it so when it ends.                                           *)
LEMMA BetweenBack ==
    ASSUME RunsInv, run.pc = "between" \/ (run.pc = "iteration" /\ run.calls = <<>>),
           Goes("between", <<>>) \/ (run.pc = "between" /\ UNCHANGED run), UNCHANGED <<held, excused>>
    PROVE  /\ run'.name = run.name /\ run'.pc = "between" /\ run'.calls \in Seq(Call)
           /\ run'.result = "None" /\ run' \in RunRecord
           /\ HeldBack'
<1>1. RunsTypeOK /\ run.result = "None"
  BY DEF RunsInv, RunsTypeOK, RunRecord, Counted
<1>2. run'.name = run.name /\ run'.pc = "between" /\ run'.calls \in Seq(Call) /\ run'.result = "None"
      /\ run' \in RunRecord
  <2>1. CASE Goes("between", <<>>)
    BY <1>1, <2>1, RunGoes, NothingToDo
  <2>2. CASE run.pc = "between" /\ UNCHANGED run
    BY <1>1, <2>2 DEF RunsTypeOK
  <2> QED
    BY <2>1, <2>2
<1> QED
  BY <1>2, BetweenHeld DEF HeldBack

(* The values of a run are of their types.                                  *)
LEMMA RunsValues ==
    ASSUME RunsInv
    PROVE  /\ timeLeft \in Nat /\ remaining \in Nat /\ asked \in 0 .. 255 /\ done \in Nat
           /\ runFaults \in Nat /\ Duration \in Nat /\ Counted
           /\ run.name = "Payload" /\ run.pc = "between" => remaining < 5
           /\ run.name = "Payload" /\ run.pc = "iteration" => remaining <= 5
           /\ run.name \in ExperimentNames
           /\ run.pc \in {"start", "between", "iteration", "stop", "over"}
           /\ run.pc # "start" => run.calls \in Seq(Call)
BY RunsAssumption DEF RunsInv, RunsTypeOK, RunRecord

(* An iteration of a timed experiment keeps the invariant.                  *)
LEMMA TimedIterationStep ==
    ASSUME RunsInv, TimedIteration
    PROVE  RunsInv'
<1>1. run.pc = "between" /\ run.name \in {"Detumbling", "Sail", "SADS", "LEOP"}
      /\ UNCHANGED <<held, timeLeft, remaining, asked, done, excused>>
  BY DEF TimedIteration
<1>2. PICK where \in {"between", "iteration", "stop"} :
         /\ run'.name = run.name /\ run'.pc = where /\ run'.calls \in Seq(Call) /\ run' \in RunRecord
         /\ where # "stop" => run'.result = "None"
         /\ HeldBack' /\ runFaults' \in Nat
  <2>1. runFaults \in Nat
    BY RunsValues
  <2>2. CASE Ends("Failure", StopOf[run.name]) /\ RunFault
    BY <1>1, <2>1, <2>2, EndsBack DEF RunFault
  <2>3. CASE Ends("Finished", StopOf[run.name]) /\ RunOk
    BY <1>1, <2>1, <2>3, EndsBack DEF RunOk
  <2>4. CASE Goes("between", <<>>) /\ RunFault
    BY <1>1, <2>1, <2>4, BetweenBack DEF RunFault
  <2>5. CASE Goes("iteration", <<Measure, SaveRecord>>) /\ RunOk
    BY <1>1, <2>1, <2>5, IterationBack, IterationSequences DEF RunOk
  <2> QED
    BY <2>2, <2>3, <2>4, <2>5 DEF TimedIteration
<1>3. RunsTypeOK'
  BY <1>1, <1>2, RunsValues DEF RunsTypeOK
<1>4. Counted'
  BY <1>1, <1>2 DEF Counted, SunSCount, FiboCount, RadFETCount, MeasuredAsAsked
<1> QED
  BY <1>2, <1>3, <1>4 DEF RunsInv

(* So does one of SunS, which counts down the samples of a session,         *)
LEMMA SunSIterationStep ==
    ASSUME RunsInv, SunSIteration
    PROVE  RunsInv'
<1>1. run.pc = "between" /\ run.name = "SunS" /\ UNCHANGED <<held, timeLeft, asked, excused>>
  BY DEF SunSIteration
<1>2. /\ done < Goal /\ remaining = IF done = 0 THEN asked ELSE Goal - done
      /\ timeLeft \in Nat /\ remaining \in Nat /\ asked \in 0 .. 255 /\ done \in Nat /\ runFaults \in Nat
  BY <1>1, RunsValues DEF Counted, SunSCount
<1>3. CASE UNCHANGED <<run, remaining, done>> /\ (RunFault \/ RunOk)
  <2>1. /\ run'.name = "SunS" /\ run'.pc = "between" /\ run'.calls \in Seq(Call)
        /\ run'.result = "None" /\ run' \in RunRecord
        /\ HeldBack'
    BY <1>1, <1>3, BetweenBack
  <2>2. runFaults' \in Nat
    BY <1>2, <1>3 DEF RunFault, RunOk
  <2>3. RunsTypeOK'
    BY <1>1, <1>2, <1>3, <2>1, <2>2 DEF RunsTypeOK
  <2>4. Counted'
    BY <1>1, <1>2, <1>3, <2>1 DEF Counted, SunSCount, FiboCount, RadFETCount, MeasuredAsAsked, Goal
  <2> QED
    BY <2>1, <2>3, <2>4 DEF RunsInv
<1>4. CASE /\ RunOk /\ remaining' = (remaining + 255) % 256
           /\ done' = done + 1 /\ Goes("iteration", SunSSession)
  <2>1. /\ run'.name = "SunS" /\ run'.pc = "iteration" /\ run'.calls \in Seq(Call)
        /\ run'.result = "None" /\ run' \in RunRecord
        /\ HeldBack'
    BY <1>1, <1>4, IterationBack, IterationSequences
  <2>2. runFaults' \in Nat /\ remaining' \in Nat
    BY <1>2, <1>4 DEF RunOk
  <2>3. RunsTypeOK'
    BY <1>1, <1>2, <1>4, <2>1, <2>2 DEF RunsTypeOK
  <2>4. done' \in 1 .. Goal /\ remaining' = Goal - done'
    BY <1>2, <1>4 DEF Goal
  <2>5. Counted'
    BY <1>1, <1>2, <1>4, <2>1, <2>4 DEF Counted, SunSCount, FiboCount, RadFETCount, MeasuredAsAsked, Goal
  <2> QED
    BY <2>1, <2>3, <2>5 DEF RunsInv
<1> QED
  BY <1>3, <1>4 DEF SunSIteration

(* one of RadFET, whose count of 8 bits comes round when reads fail,        *)
LEMMA RadFETIterationStep ==
    ASSUME RunsInv, RadFETIteration
    PROVE  RunsInv'
<1>1. run.pc = "between" /\ run.name = "RadFET" /\ UNCHANGED <<held, timeLeft, asked, excused>>
      /\ remaining' = (remaining + 1) % 256
  BY DEF RadFETIteration
<1>2. /\ asked > 0 /\ asked + runFaults < 256 =>
            done < asked /\ done <= remaining /\ remaining <= done + runFaults
      /\ asked = 0 => done = 0
      /\ timeLeft \in Nat /\ remaining \in Nat /\ asked \in 0 .. 255 /\ done \in Nat /\ runFaults \in Nat
  BY <1>1, RunsValues DEF Counted, RadFETCount
<1>3. CASE RunFault /\ UNCHANGED <<run, done>>
  <2>1. /\ run'.name = "RadFET" /\ run'.pc = "between" /\ run'.calls \in Seq(Call)
        /\ run'.result = "None" /\ run' \in RunRecord
        /\ HeldBack'
    BY <1>1, <1>3, BetweenBack
  <2>2. runFaults' = runFaults + 1 /\ remaining' \in Nat
    BY <1>1, <1>2, <1>3 DEF RunFault
  <2>3. RunsTypeOK'
    BY <1>1, <1>2, <1>3, <2>1, <2>2 DEF RunsTypeOK
  <2>4. asked > 0 /\ asked + runFaults' < 256 =>
           done < asked /\ done <= remaining' /\ remaining' <= done + runFaults'
    BY <1>1, <1>2, <2>2
  <2>5. Counted'
    BY <1>1, <1>2, <1>3, <2>1, <2>4 DEF Counted, SunSCount, FiboCount, RadFETCount, MeasuredAsAsked
  <2> QED
    BY <2>1, <2>3, <2>5 DEF RunsInv
<1>4. CASE RunOk /\ done' = done + 1 /\ Goes("iteration", <<Measure, Measure, SaveRecord>>)
  <2>1. /\ run'.name = "RadFET" /\ run'.pc = "iteration" /\ run'.calls \in Seq(Call)
        /\ run'.result = "None" /\ run' \in RunRecord
        /\ HeldBack'
    BY <1>1, <1>4, IterationBack, IterationSequences
  <2>2. runFaults' = runFaults /\ remaining' \in Nat
    BY <1>1, <1>2, <1>4 DEF RunOk
  <2>3. RunsTypeOK'
    BY <1>1, <1>2, <1>4, <2>1, <2>2 DEF RunsTypeOK
  <2>4. asked > 0 /\ asked + runFaults < 256 =>
           done' \in 1 .. asked /\ done' <= remaining' /\ remaining' <= done' + runFaults
    BY <1>1, <1>2, <1>4
  <2>5. Counted'
    BY <1>1, <1>2, <1>4, <2>1, <2>2, <2>4 DEF Counted, SunSCount, FiboCount, RadFETCount, MeasuredAsAsked
  <2> QED
    BY <2>1, <2>3, <2>5 DEF RunsInv
<1> QED
  BY <1>3, <1>4 DEF RadFETIteration

(* and one of Payload, Camera or Fibo.                                      *)
LEMMA PlainIterationStep ==
    ASSUME RunsInv, PayloadIteration \/ CameraIteration \/ FiboIteration
    PROVE  RunsInv'
<1>1. run.pc = "between" /\ UNCHANGED <<held, timeLeft, asked, excused, runFaults>>
  BY DEF PayloadIteration, CameraIteration, FiboIteration
<1>2. /\ timeLeft \in Nat /\ remaining \in Nat /\ asked \in 0 .. 255 /\ done \in Nat /\ runFaults \in Nat
      /\ run.name = "Payload" => remaining < 5
      /\ run.name = "Fibo" /\ asked > 0 => done < asked /\ remaining = asked - done
  BY <1>1, RunsValues DEF Counted, FiboCount
<1>3. CASE PayloadIteration
  <2>1. remaining + 1 \in 1 .. 5 /\ run.name = "Payload"
    BY <1>2, <1>3 DEF PayloadIteration
  <2>2. /\ run'.name = "Payload" /\ run'.pc = "iteration" /\ run'.calls \in Seq(Call)
        /\ run'.result = "None" /\ run' \in RunRecord
        /\ HeldBack'
    BY <1>1, <1>3, <2>1, IterationBack, IterationSequences DEF PayloadIteration
  <2>3. RunsTypeOK'
    BY <1>1, <1>2, <1>3, <2>1, <2>2 DEF RunsTypeOK, PayloadIteration
  <2>4. Counted'
    BY <2>2 DEF Counted, SunSCount, FiboCount, RadFETCount, MeasuredAsAsked
  <2> QED
    BY <2>2, <2>3, <2>4 DEF RunsInv
<1>4. CASE CameraIteration
  <2>1. run.name = "Camera"
    BY <1>4 DEF CameraIteration
  <2>2. /\ run'.name = "Camera" /\ run'.pc = "iteration" /\ run'.calls \in Seq(Call)
        /\ run'.result = "None" /\ run' \in RunRecord
        /\ HeldBack'
    BY <1>1, <1>4, <2>1, IterationBack, IterationSequences DEF CameraIteration
  <2>3. RunsTypeOK'
    BY <1>1, <1>2, <1>4, <2>1, <2>2 DEF RunsTypeOK, CameraIteration
  <2>4. Counted'
    BY <2>2 DEF Counted, SunSCount, FiboCount, RadFETCount, MeasuredAsAsked
  <2> QED
    BY <2>2, <2>3, <2>4 DEF RunsInv
<1>5. CASE FiboIteration
  <2>1. run.name = "Fibo" /\ done' = done + 1
        /\ remaining' = IF remaining = 0 THEN 2 ^ 32 - 1 ELSE remaining - 1
    BY <1>5 DEF FiboIteration
  <2>2. /\ run'.name = "Fibo" /\ run'.pc = "iteration" /\ run'.calls \in Seq(Call)
        /\ run'.result = "None" /\ run' \in RunRecord
        /\ HeldBack'
    BY <1>1, <1>5, <2>1, IterationBack, IterationSequences DEF FiboIteration
  <2>3. 2 ^ 32 - 1 \in Nat
    OBVIOUS
  <2>4. RunsTypeOK'
    BY <1>1, <1>2, <2>1, <2>2, <2>3 DEF RunsTypeOK
  <2>5. Counted'
    BY <1>1, <1>2, <2>1, <2>2 DEF Counted, SunSCount, FiboCount, RadFETCount, MeasuredAsAsked
  <2> QED
    BY <2>2, <2>4, <2>5 DEF RunsInv
<1> QED
  BY <1>3, <1>4, <1>5

(* The faults of the next state are no fewer. *)
LEMMA FewerFaults ==
    ASSUME NEW n \in 0 .. 255, NEW f \in Nat, NEW g \in Nat, g >= f
    PROVE  n + g < 256 => n + f < 256
OBVIOUS

(* A bound on the count that faults excuse grows with them.                 *)
LEMMA MoreFaults ==
    ASSUME NEW d \in Nat, NEW r \in Nat, NEW f \in Nat, NEW g \in Nat, g >= f, r <= d + f
    PROVE  r <= d + g
OBVIOUS

(* A call within an iteration keeps the invariant,                          *)
LEMMA IterationCallStep ==
    ASSUME RunsInv, IterationCall
    PROVE  RunsInv'
<1> DEFINE h == Head(run.calls)
           tail == Tail(run.calls)
           back == Back(run.name)
<1>1. run.pc = "iteration" /\ run.calls # <<>> /\ UNCHANGED <<timeLeft, remaining, asked, done>>
      /\ run.calls \in Seq(Call) /\ RunsTypeOK
  BY RunsValues DEF IterationCall, RunsInv
<1>2. /\ Balanced(run.calls, back) /\ held \subseteq Holdable
      /\ held \subseteq excused \cup GivesBack(run.calls) \cup back
      /\ run.name = "RadFET" => GivesBack(run.calls) = {}
  BY <1>1 DEF RunsInv, HeldBack
<1>3. /\ tail \in Seq(Call) /\ Balanced(tail, back)
      /\ (Works(h) \/ Fails(h)) =>
            held' \subseteq Holdable /\ held' \subseteq excused' \cup GivesBack(tail) \cup back
  BY <1>1, <1>2, GivenBackLater, CallStep
<1>4. GivesBack(run.calls) = {} => GivesBack(tail) = {}
  <2>1. \A i \in 1 .. Len(tail) : tail[i] = run.calls[i + 1] /\ i + 1 \in 1 .. Len(run.calls)
    BY <1>1
  <2> HIDE DEF tail
  <2> QED
    BY <2>1 DEF GivesBack
<1>5. /\ timeLeft \in Nat /\ remaining \in Nat /\ asked \in 0 .. 255 /\ done \in Nat
      /\ runFaults \in Nat /\ Counted
      /\ run.name = "Payload" => remaining <= 5
  BY <1>1, RunsValues
<1>6. CASE (Works(h) \/ Fails(h)) /\ Goes("iteration", tail)
  <2>1. /\ run'.name = run.name /\ run'.pc = "iteration" /\ run'.calls = tail /\ run'.result = run.result
        /\ run' \in RunRecord
    BY <1>1, <1>3, <1>6, RunGoes
  <2>2. runFaults' \in Nat /\ runFaults' >= runFaults
    BY <1>5, <1>6 DEF Works, Fails, RunFault, RunOk
  <2> HIDE DEF h, tail
  <2>3. RunsTypeOK'
    BY <1>1, <1>3, <1>5, <2>1, <2>2 DEF RunsTypeOK
  <2>4. HeldBack'
    BY <1>2, <1>3, <1>4, <1>6, <2>1 DEF HeldBack, back
  <2>5. SunSCount' /\ FiboCount'
    BY <1>1, <1>5, <2>1 DEF Counted, SunSCount, FiboCount, Goal
  <2>6. RadFETCount'
    <3>1. asked + runFaults' < 256 => asked + runFaults < 256
      BY <1>5, <2>2, FewerFaults, Zenon
    <3>2. run.name = "RadFET" =>
             /\ asked > 0 /\ asked + runFaults < 256 =>
                   done \in 1 .. asked /\ done <= remaining /\ remaining <= done + runFaults
             /\ asked = 0 => done = 1
      BY <1>1, <1>5, Zenon DEF Counted, RadFETCount
    <3>3. remaining <= done + runFaults => remaining <= done + runFaults'
      BY <1>5, <2>2, MoreFaults, Zenon
    <3> QED
      BY <1>1, <2>1, <3>1, <3>2, <3>3, Zenon DEF RadFETCount
  <2>7. Counted'
    BY <1>1, <1>5, <2>1, <2>5, <2>6 DEF Counted, MeasuredAsAsked
  <2> QED
    BY <2>3, <2>4, <2>7 DEF RunsInv
<1>7. CASE Fails(h) /\ run.name = "RadFET" /\ Ends("Failure", StopOf["RadFET"])
  <2>1. StopOf["RadFET"] \in Seq(Call) /\ Balanced(StopOf["RadFET"], {})
    BY StopsBalanced DEF ExperimentNames
  <2>2. /\ run'.name = run.name /\ run'.pc = "stop" /\ run'.calls = StopOf["RadFET"]
        /\ run'.result = "Failure" /\ run' \in RunRecord
    BY <1>1, <1>7, <2>1, RunEndsWith
  <2>3. runFaults' \in Nat
    BY <1>5, <1>7 DEF Fails, RunFault
  <2>4. held' \subseteq Holdable /\ held' \subseteq excused' \cup GivesBack(StopOf["RadFET"])
    BY <1>2, <1>3, <1>4, <1>7 DEF Back
  <2>5. RunsTypeOK'
    BY <1>1, <1>5, <2>1, <2>2, <2>3 DEF RunsTypeOK
  <2>6. HeldBack'
    BY <2>1, <2>2, <2>4 DEF HeldBack
  <2>7. Counted'
    BY <2>2 DEF Counted, SunSCount, FiboCount, RadFETCount, MeasuredAsAsked
  <2> QED
    BY <2>5, <2>6, <2>7 DEF RunsInv
<1> QED
  BY <1>6, <1>7 DEF IterationCall

(* so does the end of the iteration,                                        *)
LEMMA RunIterationEndsStep ==
    ASSUME RunsInv, RunIterationEnds
    PROVE  RunsInv'
<1>1. run.pc = "iteration" /\ run.calls = <<>> /\ UNCHANGED <<held, remaining, asked, done, excused>>
  BY DEF RunIterationEnds
<1>2. /\ timeLeft \in Nat /\ remaining \in Nat /\ asked \in 0 .. 255 /\ done \in Nat
      /\ runFaults \in Nat /\ Counted /\ Duration \in Nat
      /\ run.name = "Payload" => remaining <= 5
  BY <1>1, RunsValues
<1>3. CASE Finished /\ Ends("Finished", StopOf[run.name]) /\ UNCHANGED <<timeLeft, runFaults>>
  <2>1. /\ run'.name = run.name /\ run'.pc = "stop" /\ run'.calls \in Seq(Call)
        /\ run'.result = "Finished" /\ run' \in RunRecord
        /\ HeldBack'
    BY <1>1, <1>3, EndsBack
  <2>2. RunsTypeOK'
    BY <1>1, <1>2, <1>3, <2>1 DEF RunsTypeOK
  <2>3. MeasuredAsAsked'
    BY <1>1, <1>2, <1>3, <2>1
    DEF Counted, SunSCount, FiboCount, RadFETCount, MeasuredAsAsked, Goal, Finished
  <2>4. Counted'
    BY <2>1, <2>3 DEF Counted, SunSCount, FiboCount, RadFETCount
  <2> QED
    BY <2>1, <2>2, <2>4 DEF RunsInv
<1>4. CASE ~Finished /\ Goes("between", <<>>) /\ timeLeft' \in Nat
           /\ (UNCHANGED runFaults \/ RunOk \/ RunFault)
  <2>1. /\ run'.name = run.name /\ run'.pc = "between" /\ run'.calls \in Seq(Call)
        /\ run'.result = "None" /\ run' \in RunRecord
        /\ HeldBack'
    BY <1>1, <1>4, BetweenBack
  <2>2. runFaults' \in Nat /\ runFaults' >= runFaults
    BY <1>2, <1>4 DEF RunFault, RunOk
  <2>3. RunsTypeOK'
    BY <1>1, <1>2, <1>4, <2>1, <2>2 DEF RunsTypeOK, Finished
  <2>4. SunSCount'
    BY <1>1, <1>2, <1>4, <2>1 DEF Counted, SunSCount, Goal, Finished
  <2>5. FiboCount'
    BY <1>1, <1>2, <1>4, <2>1 DEF Counted, FiboCount, Finished
  <2>6. RadFETCount'
    <3>1. asked + runFaults' < 256 => asked + runFaults < 256
      BY <1>2, <2>2, FewerFaults, Zenon
    <3>2. run.name = "RadFET" =>
             /\ remaining < asked
             /\ asked + runFaults < 256 =>
                   done \in 1 .. asked /\ done <= remaining /\ remaining <= done + runFaults
      BY <1>1, <1>2, <1>4 DEF Counted, RadFETCount, Finished
    <3>3. run.name = "RadFET" /\ asked + runFaults' < 256 =>
             done < asked /\ done <= remaining /\ remaining <= done + runFaults'
      <4>1. run.name = "RadFET" /\ asked + runFaults < 256 =>
               done < asked /\ done <= remaining /\ remaining <= done + runFaults
        BY <1>2, <3>2
      <4> QED
        BY <1>2, <2>2, <3>1, <4>1, MoreFaults, Zenon
    <3> QED
      BY <1>1, <1>2, <2>1, <3>2, <3>3 DEF RadFETCount
  <2>7. Counted'
    BY <2>1, <2>4, <2>5, <2>6 DEF Counted, MeasuredAsAsked
  <2> QED
    BY <2>1, <2>3, <2>7 DEF RunsInv
<1> QED
  BY <1>2, <1>3, <1>4 DEF RunIterationEnds

(* a request to abort,                                                      *)
LEMMA AbortRunStep ==
    ASSUME RunsInv, AbortRun
    PROVE  RunsInv'
<1>1. run.pc = "between" /\ Ends("Aborted", StopOf[run.name])
      /\ UNCHANGED <<held, timeLeft, remaining, asked, done, excused, runFaults>>
  BY DEF AbortRun
<1>2. /\ run'.name = run.name /\ run'.pc = "stop" /\ run'.calls \in Seq(Call)
      /\ run'.result = "Aborted" /\ run' \in RunRecord
      /\ HeldBack'
  BY <1>1, EndsBack
<1>3. RunsTypeOK'
  BY <1>1, <1>2, RunsValues DEF RunsTypeOK
<1>4. Counted'
  BY <1>2 DEF Counted, SunSCount, FiboCount, RadFETCount, MeasuredAsAsked
<1> QED
  BY <1>2, <1>3, <1>4 DEF RunsInv

(* a call of Stop                                                           *)
LEMMA StopStep ==
    ASSUME RunsInv, Stop
    PROVE  RunsInv'
<1>1. run.pc = "stop" /\ UNCHANGED <<timeLeft, remaining, asked, done>> /\ RunsTypeOK
      /\ run.calls \in Seq(Call) /\ run.name \in ExperimentNames
  BY RunsValues DEF Stop, RunsInv
<1>2. Balanced(run.calls, {}) /\ held \subseteq Holdable /\ held \subseteq excused \cup GivesBack(run.calls)
  BY <1>1 DEF RunsInv, HeldBack
<1>3. /\ timeLeft \in Nat /\ remaining \in Nat /\ asked \in 0 .. 255 /\ done \in Nat
      /\ runFaults \in Nat /\ Counted
  BY RunsValues
<1>4. PICK where \in {"stop", "over"} :
         /\ run'.name = run.name /\ run'.pc = where /\ run'.calls \in Seq(Call)
         /\ run'.result = run.result /\ run' \in RunRecord
         /\ HeldBack' /\ runFaults' \in Nat /\ runFaults' >= runFaults
  <2>1. CASE /\ run.calls # <<>> /\ (Works(Head(run.calls)) \/ Fails(Head(run.calls)))
             /\ Goes("stop", Tail(run.calls))
    <3>1. Tail(run.calls) \in Seq(Call) /\ Balanced(Tail(run.calls), {})
      BY <1>1, <1>2, <2>1, GivenBackLater
    <3>2. held' \subseteq Holdable /\ held' \subseteq excused' \cup GivesBack(Tail(run.calls))
      BY <1>1, <1>2, <2>1, CallStep
    <3>3. /\ run'.name = run.name /\ run'.pc = "stop" /\ run'.calls = Tail(run.calls)
          /\ run'.result = run.result /\ run' \in RunRecord
      BY <1>1, <2>1, <3>1, RunGoes
    <3>4. runFaults' \in Nat /\ runFaults' >= runFaults
      BY <1>3, <2>1 DEF Works, Fails, RunFault, RunOk
    <3>5. HeldBack'
      BY <3>1, <3>2, <3>3 DEF HeldBack
    <3> QED
      BY <3>1, <3>3, <3>4, <3>5
  <2>2. CASE run.calls = <<>> /\ Goes("over", <<>>) /\ UNCHANGED <<held, excused, runFaults>>
    <3>1. /\ run'.name = run.name /\ run'.pc = "over" /\ run'.calls = <<>>
          /\ run'.result = run.result /\ run' \in RunRecord
      BY <1>1, <2>2, RunGoes, NothingToDo
    <3>2. HeldBack'
      BY <1>2, <2>2, <3>1 DEF HeldBack, GivesBack
    <3> QED
      BY <1>3, <2>2, <3>1, <3>2, NothingToDo
  <2> QED
    BY <2>1, <2>2 DEF Stop
<1>5. RunsTypeOK'
  BY <1>1, <1>3, <1>4 DEF RunsTypeOK
<1>6. asked + runFaults' < 256 => asked + runFaults < 256
  BY <1>3, <1>4, FewerFaults, Zenon
<1>7. MeasuredAsAsked'
  BY <1>1, <1>3, <1>4, <1>6 DEF Counted, MeasuredAsAsked
<1>8. Counted'
  BY <1>4, <1>7 DEF Counted, SunSCount, FiboCount, RadFETCount
<1> QED
  BY <1>4, <1>5, <1>8 DEF RunsInv

(* and time that passes.                                                    *)
LEMMA TimePassesStep ==
    ASSUME RunsInv, TimePasses
    PROVE  RunsInv'
<1>1. UNCHANGED <<run, held, remaining, asked, done, excused>>
  BY DEF TimePasses
<1>2. timeLeft' \in Nat /\ runFaults' \in Nat /\ runFaults' >= runFaults
  BY RunsValues DEF TimePasses, RunOk, RunFault
<1>3. RunsTypeOK'
  BY <1>1, <1>2 DEF RunsInv, RunsTypeOK
<1>4. HeldBack'
  BY <1>1 DEF RunsInv, HeldBack
<1>5. /\ remaining \in Nat /\ asked \in 0 .. 255 /\ done \in Nat /\ runFaults \in Nat /\ Counted
      /\ asked + runFaults' < 256 => asked + runFaults < 256
  BY <1>2, RunsValues, FewerFaults, Zenon
<1>6. SunSCount' /\ FiboCount'
  BY <1>1, <1>5 DEF Counted, SunSCount, FiboCount, Goal
<1>7. MeasuredAsAsked'
  BY <1>1, <1>5 DEF Counted, MeasuredAsAsked
<1>8. RadFETCount'
  <2>1. ASSUME run.name = "RadFET", run.pc \in {"between", "iteration"}, asked > 0,
               asked + runFaults' < 256
        PROVE  /\ run.pc = "between" => done < asked
               /\ run.pc = "iteration" => done \in 1 .. asked
               /\ done <= remaining /\ remaining <= done + runFaults'
    <3>1. /\ run.pc = "between" => done < asked
          /\ run.pc = "iteration" => done \in 1 .. asked
          /\ done <= remaining /\ remaining <= done + runFaults
      BY <1>5, <2>1 DEF Counted, RadFETCount
    <3> QED
      BY <1>2, <1>5, <3>1, MoreFaults, Zenon
  <2>2. run.name = "RadFET" /\ asked = 0 =>
           (run.pc = "between" => done = 0) /\ (run.pc = "iteration" => done = 1)
    BY <1>5 DEF Counted, RadFETCount
  <2> QED
    BY <1>1, <2>1, <2>2 DEF RadFETCount
<1>9. Counted'
  BY <1>1, <1>5, <1>6, <1>7, <1>8 DEF Counted
<1> QED
  BY <1>3, <1>4, <1>9 DEF RunsInv

(* The invariant holds when an experiment is asked for.                     *)
LEMMA RunsInvInit ==
    ASSUME RunsInit
    PROVE  RunsInv
<1>1. PICK name \in Experiments :
         run = [name |-> name, pc |-> "start", calls |-> StartOf[name], result |-> "None"]
  BY DEF RunsInit
<1>2. name \in ExperimentNames /\ Asked \subseteq 0 .. 255 /\ Duration \in Nat
  BY RunsAssumption
<1>3. StartOf[name] \in Seq(StartCall) /\ StartBalanced(StartOf[name], name)
  BY <1>2, StartSequences
<1>4. /\ run.name = name /\ run.pc = "start" /\ run.calls = StartOf[name] /\ run.result = "None"
      /\ run \in RunRecord
  BY <1>1, <1>2, <1>3 DEF RunRecord
<1>5. RunsTypeOK
  BY <1>2, <1>3, <1>4 DEF RunsTypeOK, RunsInit
<1>6. HeldBack
  <2>1. name = "LEOP" => \A i \in 1 .. Len(StartOf[name]) : StartOf[name][i].else = <<>>
    BY DEF StartOf, OrElse
  <2> QED
    BY <1>3, <1>4, <2>1 DEF HeldBack, RunsInit
<1>7. Counted
  BY <1>4 DEF Counted, SunSCount, FiboCount, RadFETCount, MeasuredAsAsked, RunsInit
<1> QED
  BY <1>5, <1>6, <1>7 DEF RunsInv

(* RunsAreSound: whatever the experiment, the time it is given and the      *)
(* calls that fail, what Start and the iterations take is given back, and   *)
(* an experiment that finishes has measured as often as it was asked.      *)
THEOREM RunsAreSound == RunsSpec => []RunsSound
<1>1. RunsInv /\ [RunsNext]_runVars => RunsInv'
  <2> SUFFICES ASSUME RunsInv, [RunsNext]_runVars PROVE RunsInv'
    OBVIOUS
  <2>1. CASE Iteration
    BY <2>1, TimedIterationStep, SunSIterationStep, RadFETIterationStep, PlainIterationStep,
       IterationCallStep, RunIterationEndsStep, Zenon DEF Iteration
  <2>2. CASE UNCHANGED runVars
    BY <2>2 DEF runVars, RunsInv, RunsTypeOK, HeldBack, Counted, SunSCount, FiboCount, RadFETCount,
                MeasuredAsAsked, Goal
  <2> QED
    BY <2>1, <2>2, StartStep, AbortRunStep, StopStep, TimePassesStep, Zenon DEF RunsNext, RunsRest
<1>2. RunsInv => RunsSound
  BY DEF RunsInv, HeldBack, Counted, RunsSound, NothingLeftOn
<1> QED
  BY <1>1, <1>2, RunsInvInit, PTL DEF RunsSpec

-----------------------------------------------------------------------------
(* The I2C bus *)

BusResults == {"none", "OK", "Nack", "LineAlreadyLatched", "UsageFault", "Timeout"}
Told == [of : Nat, result : BusResults]

BusTypeOK ==
    /\ busLock \in BusTasks \cup {NoTask}
    /\ peripheral \in Nat /\ transfers \in Nat
    /\ resultQueue = <<>> \/ \E r \in Told : resultQueue = <<r>>
    /\ busTask \in [BusTasks -> [pc : {"outside", "locked", "waiting", "aborting"},
                                 transfer : Nat, told : Told]]
    /\ lateResult \in BOOLEAN

(* The bus belongs to the task that is within ExecuteTransfer ... *)
BusOwned == \A t \in BusTasks : busTask[t].pc # "outside" => busLock = t

(* ... and a result in the queue is for the task that waits for it. *)
ResultAwaited ==
    resultQueue # <<>> =>
        \E t \in BusTasks : busTask[t].pc = "waiting" /\ busTask[t].transfer = resultQueue[1].of

BusInv == BusTypeOK /\ BusOwned /\ (lateResult \/ ResultAwaited) /\ OwnResult

(* The invariant of the bus holds before the first transfer.                *)
LEMMA BusInvInit == BusInit => BusInv
<1> SUFFICES ASSUME BusInit PROVE BusInv
  OBVIOUS
<1>1. lateResult \in BOOLEAN
  BY Zenon DEF BusInit
<1>2. busLock = NoTask /\ peripheral = 0 /\ transfers = 0 /\ resultQueue = <<>>
      /\ busTask = [t \in BusTasks |-> Outside]
  BY DEF BusInit, NoTransfer
<1> QED
  BY <1>1, <1>2 DEF BusInv, BusTypeOK, BusOwned, ResultAwaited, OwnResult, Outside, NotTold, Told,
                    BusResults, NoTransfer

(* Every step of the tasks, the interrupt and the timeout keeps it.         *)
LEMMA BusInvStep == BusInv /\ [BusNext]_busVars => BusInv'
<1> SUFFICES ASSUME BusInv, [BusNext]_busVars PROVE BusInv'
  OBVIOUS
<1> USE DEF BusInv, BusTypeOK, BusOwned, ResultAwaited, OwnResult, Told, BusResults
<1>1. ASSUME NEW t \in BusTasks, Lock(t) PROVE BusInv'
  <2>1. \A s \in BusTasks : busTask[s].pc = "outside"
    BY <1>1, BusAssumption DEF Lock
  <2>2. lateResult \/ resultQueue = <<>>
    BY <2>1
  <2> QED
    BY <1>1, <2>1, <2>2 DEF Lock, NotTold, NoTransfer
<1>2. ASSUME NEW t \in BusTasks, NEW r \in BusResults, NEW of \in Nat, TransferReturns(t, of, r),
             busTask[t].pc # "outside", of = busTask[t].transfer \/ lateResult,
             resultQueue' = <<>> \/ (resultQueue' = resultQueue /\ busTask[t].pc # "waiting"),
             peripheral' \in Nat, UNCHANGED <<lateResult, transfers>>
      PROVE BusInv'
  <2>1. \A s \in BusTasks \ {t} : busTask[s].pc = "outside"
    BY <1>2
  <2>2. lateResult \/ resultQueue' = <<>>
    BY <1>2, <2>1
  <2>3. /\ busLock' = NoTask
        /\ busTask' = [busTask EXCEPT ![t] = [busTask[t] EXCEPT !.pc = "outside",
                                                            !.told = [of |-> of, result |-> r]]]
    BY <1>2 DEF TransferReturns
  <2>4. /\ busTask'[t].pc = "outside" /\ busTask'[t].transfer = busTask[t].transfer
        /\ busTask'[t].told = [of |-> of, result |-> r]
        /\ \A s \in BusTasks \ {t} : busTask'[s] = busTask[s]
    BY <2>3
  <2>5. BusTypeOK'
    BY <1>2, <2>3 DEF NotTold, NoTransfer
  <2>6. BusOwned'
    BY <2>1, <2>4
  <2>7. lateResult' \/ ResultAwaited'
    BY <1>2, <2>2
  <2>8. OwnResult'
    BY <1>2, <2>4 DEF NotTold, NoTransfer
  <2> QED
    BY <2>5, <2>6, <2>7, <2>8
<1>3. ASSUME NEW t \in BusTasks, TransferInit(t) PROVE BusInv'
  <2>1. CASE \E r \in {"LineAlreadyLatched", "UsageFault"} : TransferReturns(t, busTask[t].transfer, r)
             /\ UNCHANGED peripheral
    BY <1>2, <1>3, <2>1 DEF TransferInit
  <2>2. CASE /\ peripheral' = busTask[t].transfer
             /\ busTask' = [busTask EXCEPT ![t].pc = "waiting"] /\ UNCHANGED busLock
    BY <1>3, <2>2 DEF TransferInit
  <2> QED
    BY <1>3, <2>1, <2>2 DEF TransferInit
<1>4. ASSUME NEW t \in BusTasks, PopResult(t) PROVE BusInv'
  <2>1. PICK r \in Told : resultQueue = <<r>>
    BY <1>4 DEF PopResult
  <2>2. lateResult \/ r.of = busTask[t].transfer
    BY <1>4, <2>1 DEF PopResult
  <2> QED
    BY <1>2, <1>4, <2>1, <2>2 DEF PopResult
<1>5. ASSUME NEW t \in BusTasks, PopTimesOut(t) PROVE BusInv'
  BY <1>5 DEF PopTimesOut
<1>6. ASSUME NEW t \in BusTasks, AbortTransfer(t) PROVE BusInv'
  <2>1. CASE TransferReturns(t, busTask[t].transfer, "Timeout") /\ UNCHANGED <<resultQueue, lateResult>>
    BY <1>2, <1>6, <2>1 DEF AbortTransfer, NoTransfer
  <2>2. CASE /\ busLock' = NoTask /\ resultQueue' = <<>> /\ lateResult' = FALSE
             /\ busTask' = [s \in BusTasks |-> Outside]
    <3>1. lateResult' \in BOOLEAN
      BY <2>2, Zenon
    <3>2. peripheral' = 0 /\ transfers' = transfers /\ busLock' = NoTask /\ resultQueue' = <<>>
          /\ busTask' = [s \in BusTasks |-> Outside]
      BY <1>6, <2>2, Zenon DEF AbortTransfer, NoTransfer
    <3> QED
      BY <3>1, <3>2 DEF Outside, NotTold, NoTransfer
  <2> QED
    BY <1>6, <2>1, <2>2 DEF AbortTransfer
<1>7. CASE IRQHandler
  <2>1. lateResult' \in BOOLEAN
    BY <1>7, Zenon DEF IRQHandler
  <2> DEFINE awaited == \E t \in BusTasks : busTask[t].pc = "waiting" /\ busTask[t].transfer = peripheral
  <2>2. lateResult' <=> (lateResult \/ ~awaited)
    BY <1>7 DEF IRQHandler
  <2>3. PICK r \in {"OK", "Nack"} :
           resultQueue' = IF resultQueue = <<>> THEN <<[of |-> peripheral, result |-> r]>> ELSE resultQueue
    BY <1>7 DEF IRQHandler
  <2>4. peripheral' = 0 /\ UNCHANGED <<busLock, busTask, transfers>>
    BY <1>7, Zenon DEF IRQHandler, NoTransfer
  <2> QED
    BY <2>1, <2>2, <2>3, <2>4
<1>8. CASE LineLatches
  BY <1>8, Zenon DEF LineLatches
<1>9. CASE UNCHANGED busVars
  BY <1>9, Zenon DEF busVars
<1> QED
  BY <1>1, <1>3, <1>4, <1>5, <1>6, <1>7, <1>8, <1>9 DEF BusNext, BusRests, ExecuteTransfer

(* The result ExecuteTransfer returns is the one of its own transfer, unless*)
(* one came between a timeout and the abort that follows it: the queue of   *)
(* one element is never read by another task.                               *)
THEOREM ResultsAreOwn == BusSpec => []OwnResult
<1>1. BusInv => OwnResult
  BY DEF BusInv
<1> QED
  BY <1>1, BusInvInit, BusInvStep, PTL DEF BusSpec

-----------------------------------------------------------------------------
(* Redundant flash *)

ExpectedOfPage == (SUBSET FlashBits) \cup {Unknown}

(* The contents expected of a page, before and after a write.               *)
LEMMA ExpectedClosed ==
    /\ {} \in ExpectedOfPage /\ Unknown \in ExpectedOfPage
    /\ \A a \in ExpectedOfPage, w \in SUBSET FlashBits : a # Unknown => a \cup w \in ExpectedOfPage
<1>1. {} \in SUBSET FlashBits
  BY Zenon
<1>2. \A a, w \in SUBSET FlashBits : a \cup w \in SUBSET FlashBits
  OBVIOUS
<1> QED
  <2>1. Unknown \in ExpectedOfPage
    BY Zenon DEF ExpectedOfPage
  <2>2. ASSUME NEW a \in ExpectedOfPage, NEW w \in SUBSET FlashBits, a # Unknown
        PROVE  a \cup w \in ExpectedOfPage
    <3>1. a \in SUBSET FlashBits
      BY <2>2, Zenon DEF ExpectedOfPage
    <3>2. a \cup w \in SUBSET FlashBits
      BY <3>1, <1>2, Zenon
    <3> QED
      BY <3>2, Zenon DEF ExpectedOfPage
  <2>3. {} \in ExpectedOfPage
    BY <1>1, Zenon DEF ExpectedOfPage
  <2> QED
    BY <2>1, <2>2, <2>3, Zenon

FlashTypeOK ==
    /\ cells \in [Chips -> [PageNumbers -> SUBSET FlashBits]]
    /\ errorFlag \subseteq disturbed /\ disturbed \subseteq Chips
    /\ flashPc \in PageNumbers \cup {Ready}
    /\ writing \subseteq FlashBits
    /\ expected \in [PageNumbers -> ExpectedOfPage]
    /\ trusted \in BOOLEAN

OperationsSucceed == flashResult \in {"Success", "pending"}
Holds(c) == \A p \in PageNumbers : expected[p] # Unknown /\ cells[c][p] = expected[p]

(* The chips that nothing has happened to hold what was written ... *)
OthersHold == (\E c \in Chips : disturbed \subseteq {c}) =>
    OperationsSucceed /\ \A c \in Chips \ disturbed : Holds(c)

(* ... and after an erase all of them do, and show no error. *)
AllHold == trusted => OperationsSucceed /\ errorFlag = {} /\ \A c \in Chips : Holds(c)

FlashInv == FlashTypeOK /\ OthersHold /\ AllHold

(* Two chips that are not disturbed outvote the third. *)
LEMMA ChipsOutvote ==
    ASSUME NEW outcome \in [Chips -> Outcomes], NEW flags, NEW c \in Chips,
           \A d \in Chips \ {c} : outcome[d] = "good" /\ d \notin flags
    PROVE  Voted(outcome, flags) = "Success"
BY DEF Chips, Outcomes, Voted, WaitForOperation, Majority

(* Bit by bit, what two chips hold is what is read. *)
LEMMA CorrectedByTwo ==
    ASSUME NEW a, NEW b
    PROVE  CorrectBits(a, b, b) = b /\ CorrectBits(b, a, b) = b /\ CorrectBits(b, b, a) = b
BY DEF CorrectBits

(* The invariant of the three chips holds when they are erased.             *)
LEMMA FlashInvInit == FlashInit => FlashInv
<1> SUFFICES ASSUME FlashInit PROVE FlashInv
  OBVIOUS
<1>1. trusted \in BOOLEAN
  BY Zenon DEF FlashInit
<1>2. {} # Unknown
  BY DEF Unknown
<1>3. /\ cells = [c \in Chips |-> [p \in PageNumbers |-> {}]]
      /\ errorFlag = {} /\ flashPc = Ready /\ writing = {} /\ flashResult = "Success"
      /\ expected = [p \in PageNumbers |-> {}] /\ disturbed = {}
  BY DEF FlashInit
<1> QED
  BY <1>1, <1>2, <1>3, ExpectedClosed
  DEF FlashInv, FlashTypeOK, OthersHold, AllHold, OperationsSucceed, Holds

(* A page written with two chips undisturbed is held by both,               *)
LEMMA WritePageKeeps ==
    ASSUME FlashInv, NEW outcome \in [Chips -> Outcomes], NEW broken \in SUBSET FlashBits,
           WritePage(outcome, broken)
    PROVE  FlashInv'
<1> USE DEF FlashInv
<1> DEFINE bad == {c \in Chips : outcome[c] # "good"}
           flags == errorFlag \cup {c \in Chips : outcome[c] = "broken"}
           result == Voted(outcome, flags)
           written(c) == CASE outcome[c] = "lost" -> {} [] outcome[c] = "broken" -> broken
                           [] OTHER -> writing
<1>1. /\ flashPc \in PageNumbers /\ broken \subseteq writing
      /\ disturbed' = disturbed \cup bad
      /\ cells' = [c \in Chips |-> [cells[c] EXCEPT ![flashPc] = @ \cup written(c)]]
      /\ errorFlag' = flags /\ UNCHANGED writing
      /\ expected' = [expected EXCEPT ![flashPc] =
            IF result = "Success" /\ @ # Unknown THEN @ \cup writing ELSE Unknown]
      /\ \/ result = "Success" /\ flashPc < FlashPages /\ flashPc' = flashPc + 1 /\ UNCHANGED flashResult
         \/ result = "Success" /\ flashPc = FlashPages /\ flashPc' = Ready /\ flashResult' = result
         \/ result # "Success" /\ flashPc' = Ready /\ flashResult' = result
  BY DEF WritePage, Disturbs
<1>2. trusted' \in BOOLEAN /\ (trusted' => trusted /\ bad = {})
  BY Zenon DEF WritePage
<1>3. /\ flashPc' \in PageNumbers \cup {Ready}
      /\ result = "Success" /\ OperationsSucceed => OperationsSucceed'
  <2>1. FlashPages \in Nat \ {0}
    BY Zenon, FlashAssumption
  <2> HIDE DEF result
  <2> QED
    BY <1>1, <2>1 DEF PageNumbers, OperationsSucceed
<1>4. \A c \in Chips : written(c) \subseteq FlashBits /\ (outcome[c] = "good" => written(c) = writing)
  BY <1>1 DEF FlashTypeOK
<1> HIDE DEF written, result
<1>5. FlashTypeOK'
  <2>1. flags \subseteq disturbed' /\ disturbed' \subseteq Chips
    BY <1>1 DEF FlashTypeOK
  <2>2. cells' \in [Chips -> [PageNumbers -> SUBSET FlashBits]]
    BY <1>1, <1>4 DEF FlashTypeOK
  <2>3. expected' \in [PageNumbers -> ExpectedOfPage]
    BY <1>1, ExpectedClosed DEF FlashTypeOK
  <2> QED
    BY <1>1, <1>2, <1>3, <2>1, <2>2, <2>3 DEF FlashTypeOK
<1>6. ASSUME result = "Success", NEW c \in Chips, outcome[c] = "good", Holds(c)
      PROVE  Holds(c)'
  <2>1. \A p \in PageNumbers : expected[p] \cup writing # Unknown
    BY <1>6, FlashAssumption DEF FlashTypeOK, ExpectedOfPage, Unknown, Holds
  <2> QED
    BY <1>1, <1>4, <1>6, <2>1 DEF FlashTypeOK, Holds
<1>7. OthersHold'
  <2> SUFFICES ASSUME NEW c \in Chips, disturbed' \subseteq {c}
               PROVE  OperationsSucceed' /\ \A d \in Chips \ disturbed' : Holds(d)'
    BY DEF OthersHold
  <2>1. \A d \in Chips \ {c} : outcome[d] = "good" /\ d \notin flags
    BY <1>1 DEF FlashTypeOK
  <2>2. result = "Success"
    BY <2>1, ChipsOutvote DEF result
  <2>3. OperationsSucceed /\ \A d \in Chips \ disturbed : Holds(d)
    BY <1>1 DEF OthersHold
  <2> QED
    BY <1>1, <1>3, <1>6, <2>2, <2>3
<1>8. AllHold'
  <2> SUFFICES ASSUME trusted'
               PROVE  OperationsSucceed' /\ errorFlag' = {} /\ \A d \in Chips : Holds(d)'
    BY DEF AllHold
  <2>1. bad = {} /\ OperationsSucceed /\ errorFlag = {} /\ \A d \in Chips : Holds(d)
    BY <1>2 DEF AllHold
  <2>2. flags = {}
    BY <2>1
  <2>3. result = "Success"
    BY <2>1, <2>2, ChipsOutvote DEF result, Chips
  <2> QED
    BY <1>1, <1>3, <1>6, <2>1, <2>2, <2>3
<1> QED
  BY <1>5, <1>7, <1>8

(* and so is an erase.                                                      *)
LEMMA EraseKeeps ==
    ASSUME FlashInv, NEW outcome \in [Chips -> Outcomes], NEW broken \in SUBSET FlashBits,
           EraseSubSector(outcome, broken)
    PROVE  FlashInv'
<1> USE DEF FlashInv
<1> DEFINE bad == {c \in Chips : outcome[c] # "good"}
           flags == {c \in Chips : outcome[c] = "broken"}
           result == Voted(outcome, flags)
           left(c, p) == CASE outcome[c] = "lost" -> cells[c][p]
                           [] outcome[c] = "broken" -> cells[c][p] \cap broken [] OTHER -> {}
<1>1. /\ disturbed' = disturbed \cup bad
      /\ cells' = [c \in Chips |-> [p \in PageNumbers |-> left(c, p)]]
      /\ errorFlag' = flags /\ flashResult' = result /\ UNCHANGED <<writing, flashPc>>
      /\ expected' = [p \in PageNumbers |-> IF result = "Success" THEN {} ELSE Unknown]
  BY DEF EraseSubSector, Disturbs
<1>2. trusted' \in BOOLEAN /\ (trusted' => bad = {})
  BY Zenon DEF EraseSubSector
<1>4. \A c \in Chips, p \in PageNumbers :
          left(c, p) \subseteq FlashBits /\ (outcome[c] = "good" => left(c, p) = {})
  BY DEF FlashTypeOK
<1>5. flags \subseteq bad /\ bad \subseteq Chips
  OBVIOUS
<1> HIDE DEF left, result
<1>6. FlashTypeOK'
  <2>1. cells' \in [Chips -> [PageNumbers -> SUBSET FlashBits]]
    BY <1>1, <1>4
  <2>2. expected' \in [PageNumbers -> ExpectedOfPage]
    BY <1>1, ExpectedClosed
  <2> HIDE DEF flags, bad
  <2> QED
    BY <1>1, <1>2, <1>5, <2>1, <2>2 DEF FlashTypeOK
<1>7. ASSUME result = "Success", NEW c \in Chips, outcome[c] = "good"
      PROVE  Holds(c)'
  BY <1>1, <1>4, <1>7 DEF Holds, Unknown
<1>8. ASSUME NEW c \in Chips, bad \subseteq {c}
      PROVE  result = "Success"
  <2>1. \A d \in Chips \ {c} : outcome[d] = "good" /\ d \notin flags
    BY <1>8
  <2> QED
    BY <2>1, ChipsOutvote DEF result
<1>9. OthersHold'
  BY <1>1, <1>7, <1>8 DEF OthersHold, OperationsSucceed
<1>10. AllHold'
  <2> SUFFICES ASSUME trusted'
               PROVE  OperationsSucceed' /\ errorFlag' = {} /\ \A d \in Chips : Holds(d)'
    BY DEF AllHold
  <2>1. bad = {}
    BY <1>2
  <2>2. result = "Success"
    BY <1>8, <2>1 DEF Chips
  <2> QED
    BY <1>1, <1>7, <2>1, <2>2 DEF OperationsSucceed
<1> QED
  BY <1>6, <1>9, <1>10

(* Every operation keeps the invariant.                                     *)
LEMMA FlashInvStep == FlashInv /\ [FlashNext]_flashVars => FlashInv'
<1> SUFFICES ASSUME FlashInv, [FlashNext]_flashVars PROVE FlashInv'
  OBVIOUS
<1> USE DEF FlashInv, FlashTypeOK, OthersHold, AllHold, OperationsSucceed, Holds
<1>1. ASSUME NEW content \in Contents, WriteMemory(content) PROVE FlashInv'
  <2>1. content \subseteq FlashBits /\ 1 \in PageNumbers
    BY FlashAssumption DEF PageNumbers
  <2> QED
    BY <1>1, <2>1 DEF WriteMemory
<1>2. ASSUME NEW outcome \in [Chips -> Outcomes], NEW broken \in SUBSET FlashBits,
             WritePage(outcome, broken) \/ EraseSubSector(outcome, broken)
      PROVE  FlashInv'
  BY <1>2, WritePageKeeps, EraseKeeps
<1>3. ASSUME NEW c \in Chips, NEW p \in PageNumbers, NEW bit \in FlashBits, FlashUpset(c, p, bit)
      PROVE  FlashInv'
  <2>1. ~trusted' /\ trusted' \in BOOLEAN
    BY <1>3, Zenon DEF FlashUpset
  <2>2. /\ cells' = [cells EXCEPT ![c][p] = IF bit \in @ THEN @ \ {bit} ELSE @ \cup {bit}]
        /\ disturbed' = disturbed \cup {c}
        /\ UNCHANGED <<errorFlag, flashPc, writing, flashResult, expected>>
    BY <1>3 DEF FlashUpset
  <2> QED
    BY <2>1, <2>2
<1>4. CASE UNCHANGED flashVars
  BY <1>4 DEF flashVars
<1> QED
  BY <1>1, <1>2, <1>3, <1>4 DEF FlashNext, FlashRests

(* One chip that fails shows neither in what is read nor, once the sector   *)
(* has been erased, in later operations.                                    *)
THEOREM FlashIsSound == FlashSpec => []FlashSound
<1>1. FlashInv => FlashSound
  <2> SUFFICES ASSUME FlashInv PROVE FlashSound
    OBVIOUS
  <2>1. ASSUME Cardinality(disturbed) <= 1
        PROVE  \E c \in Chips : disturbed \subseteq {c}
    <3>1. IsFiniteSet(Chips)
      <4>1. 1 \in Int /\ 3 \in Int
        OBVIOUS
      <4> QED
        BY <4>1, FS_Interval, Zenon DEF Chips
    <3>2. IsFiniteSet(disturbed)
      BY <3>1, FS_Subset DEF FlashInv, FlashTypeOK
    <3>3. CASE disturbed = {}
      BY <3>3 DEF Chips
    <3>4. ASSUME NEW c \in disturbed PROVE \E d \in Chips : disturbed \subseteq {d}
      <4>1. IsFiniteSet(disturbed \ {c}) /\ Cardinality(disturbed \ {c}) = Cardinality(disturbed) - 1
        BY <3>2, FS_RemoveElement
      <4>2. Cardinality(disturbed) \in Nat /\ Cardinality(disturbed \ {c}) \in Nat
        BY <3>2, <4>1, FS_CardinalityType
      <4>3. Cardinality(disturbed \ {c}) = 0
        BY <2>1, <4>1, <4>2
      <4>4. disturbed \ {c} = {}
        BY <4>1, <4>3, FS_EmptySet
      <4> QED
        BY <4>4 DEF FlashInv, FlashTypeOK
    <3> QED
      BY <3>3, <3>4
  <2>2. SingleChipMasked
    <3> SUFFICES ASSUME Cardinality(disturbed) <= 1
                 PROVE  /\ flashResult \in {"Success", "pending"}
                        /\ \A p \in PageNumbers : expected[p] # Unknown /\ ReadMemory(p) = expected[p]
      BY DEF SingleChipMasked
    <3>1. PICK c \in Chips : disturbed \subseteq {c}
      BY <2>1
    <3>2. OperationsSucceed /\ \A d \in Chips \ {c} : Holds(d)
      BY <3>1 DEF FlashInv, OthersHold
    <3>3. ASSUME NEW p \in PageNumbers PROVE expected[p] # Unknown /\ ReadMemory(p) = expected[p]
      <4>1. expected[p] # Unknown /\ \A d \in Chips \ {c} : cells[d][p] = expected[p]
        BY <3>2 DEF Holds, Chips
      <4> QED
        BY <4>1, CorrectedByTwo DEF ReadMemory, Chips
    <3> QED
      BY <3>2, <3>3 DEF OperationsSucceed
  <2>3. EraseHeals
    BY DEF FlashInv, AllHold, OperationsSucceed, Holds, EraseHeals, ReadMemory, CorrectBits, Chips
  <2> QED
    BY <2>2, <2>3 DEF FlashSound
<1> QED
  BY <1>1, FlashInvInit, FlashInvStep, PTL DEF FlashSpec

-----------------------------------------------------------------------------
(* Photos (libs/photo) *)

CallOps == {"EnableCamera", "DisableCamera", "TakePhoto", "DownloadPhoto", "SavePhoto",
            "SaveUnlessEmpty", "Reset", "Sleep", "Break", "WaitForFinish", "PurgePendingCommands"}
PhotoCall == [op : CallOps, camera : Cameras, buffer : PhotoBuffers]
Commanded == [from : PhotoClients, do : PhotoCall]

\* Calls after which a camera may be on, or the switch-off of it is lost.
NeedsOff(call, k) ==
    \/ call.op \in {"EnableCamera", "TakePhoto"} /\ call.camera = k
    \/ call.op = "PurgePendingCommands"
SwitchesOff(call, k) == call.op = "DisableCamera" /\ call.camera = k

\* In a program every such call is followed by one that switches the camera off.
OffBehind(program, k, i) == \E j \in i + 1 .. Len(program) : SwitchesOff(program[j], k)
Closed(program, k) == \A i \in 1 .. Len(program) : NeedsOff(program[i], k) => OffBehind(program, k, i)

\* Calls a client has not begun yet, or has not put into the queue.
FirstAhead(c) == IF calling[c] = "call" THEN 1 ELSE 2
ClientWillSwitchOff(k) ==
    \E c \in PhotoClients : \E j \in FirstAhead(c) .. Len(calls[c]) : SwitchesOff(calls[c][j], k)
QueueSwitchesOff(k, i) == \E j \in i + 1 .. Len(commandQueue) : SwitchesOff(commandQueue[j].do, k)
WillSwitchOff(k, i) == QueueSwitchesOff(k, i) \/ ClientWillSwitchOff(k)

PhotoTypeOK ==
    /\ commandQueue \in Seq(Commanded)
    /\ photoTask \in [at : {"queue", "pop", "sleep", "device"}, command : Commanded,
                      row : SUBSET PhotoClients, clear : SUBSET PhotoClients]
    /\ idleFlag \in BOOLEAN /\ camerasOn \subseteq Cameras
    /\ bufferInfos \in [PhotoBuffers ->
          [status : {"Empty", "Downloading", "Occupied", "Failed"}, at : Nat, size : Nat]]
    /\ freeSpace \in 0 .. PhotoSpace
    /\ DOMAIN photoBuffer = 1 .. PhotoSpace
    /\ calls \in [PhotoClients -> Seq(PhotoCall)]
    /\ calling \in [PhotoClients -> {"call", "clear", "break", "set"}]
    /\ \A c \in PhotoClients : calling[c] # "call" => calls[c] # <<>>

\* The photos lie below the free space.
PhotosBelow ==
    \A b \in PhotoBuffers : bufferInfos[b].status = "Occupied" =>
        bufferInfos[b].at + bufferInfos[b].size <= freeSpace

\* Whatever may leave a camera on has a switch-off behind it.
OffsAhead ==
    \A k \in Cameras :
        /\ \A c \in PhotoClients : Closed(calls[c], k)
        /\ \A i \in 1 .. Len(commandQueue) :
              NeedsOff(commandQueue[i].do, k) => WillSwitchOff(k, i)
        /\ photoTask.at = "device" /\ NeedsOff(photoTask.command.do, k) => WillSwitchOff(k, 0)
        /\ k \in camerasOn =>
              \/ offFailed \/ WillSwitchOff(k, 0)
              \/ photoTask.at = "device" /\ SwitchesOff(photoTask.command.do, k)

IdleOnQueue == idleFlag => Resting

PhotoInv == PhotoTypeOK /\ IdleOnQueue /\ PhotosBelow /\ PhotoIntact /\ OffsAhead

(* What the assumption on the constants of the photo service says of each of*)
(* them.                                                                    *)
LEMMA PhotoConstants ==
    /\ PhotoQueueSize \in Nat \ {0} /\ PhotoSpace \in Nat /\ PhotoSizes \subseteq Nat \ {0}
    /\ PhotoPrograms \subseteq DOMAIN ExperimentPrograms /\ PhotoCameras \subseteq Cameras
BY Zenon, PhotoAssumption

(* A program that switches off what it needs to may follow any other, if it *)
(* switches the camera off whatever that has done with it.                  *)
LEMMA ProgramConcat ==
    ASSUME NEW s \in Seq(PhotoCall), NEW t \in Seq(PhotoCall), NEW k \in Cameras,
           Closed(t, k),
           Closed(s, k) \/ OffBehind(t, k, 0)
    PROVE  /\ s \o t \in Seq(PhotoCall) /\ Closed(s \o t, k)
           /\ OffBehind(t, k, 0) => OffBehind(s \o t, k, 0)
<1> DEFINE st == s \o t
<1>1. /\ st \in Seq(PhotoCall) /\ Len(st) = Len(s) + Len(t) /\ Len(s) \in Nat /\ Len(t) \in Nat
      /\ \A i \in 1 .. Len(s) : st[i] = s[i]
      /\ \A i \in Len(s) + 1 .. Len(st) : st[i] = t[i - Len(s)]
      /\ \A i \in 1 .. Len(t) : st[i + Len(s)] = t[i]
  OBVIOUS
<1> HIDE DEF st
<1>2. ASSUME NEW i \in Nat, OffBehind(t, k, i)
      PROVE  OffBehind(st, k, i + Len(s))
  <2>1. PICK j \in i + 1 .. Len(t) : SwitchesOff(t[j], k)
    BY <1>2 DEF OffBehind
  <2>2. j + Len(s) \in i + Len(s) + 1 .. Len(st) /\ st[j + Len(s)] = t[j]
    BY <1>1, <2>1
  <2> QED
    BY <2>1, <2>2 DEF OffBehind
<1>3. OffBehind(t, k, 0) => \A i \in 0 .. Len(s) : OffBehind(st, k, i)
  <2>1. SUFFICES ASSUME OffBehind(t, k, 0), NEW i \in 0 .. Len(s)
                 PROVE  OffBehind(st, k, i)
    OBVIOUS
  <2>2. OffBehind(st, k, Len(s))
    BY <1>1, <1>2, <2>1
  <2> QED
    BY <1>1, <2>2 DEF OffBehind
<1>4. ASSUME NEW i \in 1 .. Len(st), NeedsOff(st[i], k)
      PROVE  OffBehind(st, k, i)
  <2>1. CASE i \in 1 .. Len(s) /\ OffBehind(t, k, 0)
    BY <2>1, <1>3
  <2>2. CASE i \in 1 .. Len(s) /\ Closed(s, k)
    <3>1. OffBehind(s, k, i)
      BY <1>1, <1>4, <2>2 DEF Closed
    <3>2. PICK j \in i + 1 .. Len(s) : SwitchesOff(s[j], k)
      BY <3>1 DEF OffBehind
    <3> QED
      BY <1>1, <2>2, <3>2 DEF OffBehind
  <2>3. CASE i \notin 1 .. Len(s)
    <3>1. i - Len(s) \in 1 .. Len(t) /\ st[i] = t[i - Len(s)]
      BY <1>1, <2>3
    <3>2. OffBehind(t, k, i - Len(s))
      BY <1>4, <3>1 DEF Closed
    <3> QED
      BY <1>1, <1>2, <3>1, <3>2
  <2> QED
    BY <2>1, <2>2, <2>3
<1>5. Closed(st, k)
  BY <1>4 DEF Closed
<1>6. OffBehind(t, k, 0) => OffBehind(st, k, 0)
  BY <1>1, <1>3
<1> QED
  BY <1>1, <1>5, <1>6 DEF st

(* The calls that the programs are made of are calls of the service.        *)
LEMMA PhotoCalls ==
    /\ \A c \in Cameras : \A b \in PhotoBuffers :
          /\ EnableCmd(c) \in PhotoCall /\ DisableCmd(c) \in PhotoCall /\ TakeCmd(c) \in PhotoCall
          /\ DownloadCmd(c, b) \in PhotoCall /\ SaveCmd(b) \in PhotoCall
          /\ SaveUnlessEmpty(b) \in PhotoCall
    /\ {ResetCmd, SleepCmd, BreakCmd, WaitCall, PurgeCall} \subseteq PhotoCall
    /\ {"Nadir", "Wing"} = Cameras
BY DEF PhotoCall, CallOps, Cameras, PhotoBuffers, Cmd, EnableCmd, DisableCmd, TakeCmd, DownloadCmd,
       SaveCmd, SaveUnlessEmpty, ResetCmd, SleepCmd, BreakCmd, WaitCall, PurgeCall

\* Which of the calls need a switch-off behind them, and which are one.
LEMMA CallKinds ==
    ASSUME NEW k \in Cameras, NEW c, NEW b
    PROVE  /\ NeedsOff(EnableCmd(c), k) <=> c = k
           /\ NeedsOff(TakeCmd(c), k) <=> c = k
           /\ NeedsOff(PurgeCall, k)
           /\ ~NeedsOff(DisableCmd(c), k) /\ ~NeedsOff(DownloadCmd(c, b), k) /\ ~NeedsOff(SaveCmd(b), k)
           /\ ~NeedsOff(SaveUnlessEmpty(b), k) /\ ~NeedsOff(ResetCmd, k) /\ ~NeedsOff(SleepCmd, k)
           /\ ~NeedsOff(BreakCmd, k) /\ ~NeedsOff(WaitCall, k)
           /\ SwitchesOff(DisableCmd(c), k) <=> c = k
BY DEF NeedsOff, SwitchesOff, Cmd, EnableCmd, DisableCmd, TakeCmd, DownloadCmd,
       SaveCmd, SaveUnlessEmpty, ResetCmd, SleepCmd, BreakCmd, WaitCall, PurgeCall

(* The end of the sail experiment switches both cameras off and on nothing. *)
LEMMA SailStopCloses ==
    ASSUME NEW n \in 0 .. 3, NEW k \in Cameras
    PROVE  SailStopPhotos(n) \in Seq(PhotoCall) /\ Closed(SailStopPhotos(n), k) /\ OffBehind(SailStopPhotos(n), k, 0)
<1> DEFINE offs == <<DisableCmd("Nadir"), DisableCmd("Wing")>>
           saves == [i \in 1 .. n |-> SaveUnlessEmpty(i - 1)]
           end == <<ResetCmd, WaitCall>>
<1>1. offs \in Seq(PhotoCall) /\ end \in Seq(PhotoCall)
  <2>1. {DisableCmd("Nadir"), DisableCmd("Wing"), ResetCmd, WaitCall} \subseteq PhotoCall
    BY PhotoCalls DEF Cameras, PhotoBuffers
  <2> QED
    BY <2>1
<1>2. saves \in Seq(PhotoCall) /\ Len(saves) = n
  <2>1. \A i \in 1 .. n : SaveUnlessEmpty(i - 1) \in PhotoCall
    BY PhotoCalls DEF PhotoBuffers
  <2> QED
    BY <2>1
<1>3. Closed(offs, k) /\ OffBehind(offs, k, 0)
  <2>1. ~NeedsOff(offs[1], k) /\ ~NeedsOff(offs[2], k)
    BY CallKinds
  <2>2. \E j \in 1 .. 2 : SwitchesOff(offs[j], k)
    BY CallKinds, PhotoCalls
  <2> QED
    BY <2>1, <2>2 DEF Closed, OffBehind
<1>4. Closed(saves, k)
  BY <1>2, CallKinds DEF Closed
<1>5. Closed(end, k)
  <2>1. \A i \in 1 .. 2 : ~NeedsOff(end[i], k)
    BY CallKinds
  <2> QED
    BY <2>1 DEF Closed
<1> HIDE DEF offs, saves, end
<1>6. offs \o saves \in Seq(PhotoCall) /\ Closed(offs \o saves, k)
  BY <1>1, <1>2, <1>3, <1>4, ProgramConcat
<1>7. (offs \o saves) \o end \in Seq(PhotoCall) /\ Closed((offs \o saves) \o end, k)
  BY <1>1, <1>5, <1>6, ProgramConcat
<1>8. OffBehind((offs \o saves) \o end, k, 0)
  <2>1. PICK j \in 1 .. Len(offs) : SwitchesOff(offs[j], k)
    BY <1>3 DEF OffBehind
  <2>2. ((offs \o saves) \o end)[j] = offs[j] /\ j \in 1 .. Len((offs \o saves) \o end)
    BY <1>1, <1>2, <2>1
  <2> QED
    BY <2>1, <2>2 DEF OffBehind
<1> QED
  BY <1>7, <1>8 DEF SailStopPhotos, offs, saves, end

(* So whatever the sail experiment does before its end is covered.          *)
LEMMA SailProgram ==
    ASSUME NEW s \in Seq(PhotoCall), NEW n \in 0 .. 3, NEW k \in Cameras
    PROVE  s \o SailStopPhotos(n) \in Seq(PhotoCall) /\ Closed(s \o SailStopPhotos(n), k)
BY SailStopCloses, ProgramConcat

(* The SADS experiment uses the camera on the wing only, and switches it    *)
(* off.                                                                     *)
LEMMA SadsCloses ==
    ASSUME NEW k \in Cameras
    PROVE  /\ SadsStop \in Seq(PhotoCall) /\ Closed(SadsStop, k)
           /\ SadsFinalize \o SadsStop \in Seq(PhotoCall) /\ Closed(SadsFinalize \o SadsStop, k)
<1>1. SadsStop \in Seq(PhotoCall) /\ SadsFinalize \in Seq(PhotoCall) /\ Len(SadsStop) = 3 /\ Len(SadsFinalize) = 6
  <2>1. {DisableCmd("Wing"), ResetCmd, WaitCall, EnableCmd("Wing"), TakeCmd("Wing"), DownloadCmd("Wing", 0), SaveCmd(0)}
            \subseteq PhotoCall
    BY PhotoCalls DEF Cameras, PhotoBuffers
  <2> QED
    BY <2>1 DEF SadsStop, SadsFinalize
<1>2. Closed(SadsStop, k)
  <2>1. ~NeedsOff(SadsStop[1], k) /\ ~NeedsOff(SadsStop[2], k) /\ ~NeedsOff(SadsStop[3], k)
    BY CallKinds DEF SadsStop
  <2> QED
    BY <1>1, <2>1 DEF Closed
<1>3. CASE k = "Wing"
  <2>1. SwitchesOff(SadsStop[1], k)
    BY <1>3, CallKinds DEF SadsStop
  <2>2. OffBehind(SadsStop, k, 0)
    BY <1>1, <2>1 DEF OffBehind
  <2> QED
    BY <1>1, <1>2, <2>2, ProgramConcat
<1>4. CASE k # "Wing"
  <2>1. /\ ~NeedsOff(SadsFinalize[1], k) /\ ~NeedsOff(SadsFinalize[2], k) /\ ~NeedsOff(SadsFinalize[3], k)
        /\ ~NeedsOff(SadsFinalize[4], k) /\ ~NeedsOff(SadsFinalize[5], k) /\ ~NeedsOff(SadsFinalize[6], k)
    BY <1>4, CallKinds DEF SadsFinalize
  <2>2. Closed(SadsFinalize, k)
    BY <1>1, <2>1 DEF Closed
  <2> QED
    BY <1>1, <1>2, <2>2, ProgramConcat
<1> QED
  BY <1>3, <1>4

(* The camera experiment switches both cameras off after their last photo.  *)
LEMMA CameraProgramCloses ==
    ASSUME NEW k \in Cameras
    PROVE  PerformPhotoTest \in Seq(PhotoCall) /\ Closed(PerformPhotoTest, k)
<1> DEFINE p == PerformPhotoTest
<1>1. p \in Seq(PhotoCall) /\ Len(p) = 13
  <2>1. {EnableCmd("Nadir"), EnableCmd("Wing"), TakeCmd("Nadir"), DownloadCmd("Nadir", 0),
         TakeCmd("Wing"), DownloadCmd("Wing", 1), DisableCmd("Nadir"), DisableCmd("Wing"), WaitCall,
         SaveUnlessEmpty(0), SaveUnlessEmpty(1), ResetCmd} \subseteq PhotoCall
    BY PhotoCalls DEF Cameras, PhotoBuffers
  <2> QED
    BY <2>1 DEF PerformPhotoTest
<1>2. \E j \in {7, 8} : SwitchesOff(p[j], k)
  <2>1. p[7] = DisableCmd("Nadir") /\ p[8] = DisableCmd("Wing")
    BY DEF PerformPhotoTest
  <2> QED
    BY <2>1, CallKinds DEF Cameras
<1>3. /\ ~NeedsOff(p[7], k) /\ ~NeedsOff(p[8], k) /\ ~NeedsOff(p[9], k) /\ ~NeedsOff(p[10], k)
      /\ ~NeedsOff(p[11], k) /\ ~NeedsOff(p[12], k) /\ ~NeedsOff(p[13], k)
  <2>1. /\ p[7] = DisableCmd("Nadir") /\ p[8] = DisableCmd("Wing") /\ p[9] = WaitCall
        /\ p[10] = SaveUnlessEmpty(0) /\ p[11] = SaveUnlessEmpty(1) /\ p[12] = ResetCmd /\ p[13] = WaitCall
    BY DEF PerformPhotoTest
  <2>2. ~NeedsOff(p[7], k) /\ ~NeedsOff(p[8], k) /\ ~NeedsOff(p[9], k)
    <3>1. ~NeedsOff(DisableCmd("Nadir"), k) /\ ~NeedsOff(DisableCmd("Wing"), k) /\ ~NeedsOff(WaitCall, k)
      BY CallKinds
    <3> QED
      BY <2>1, <3>1
  <2>3. ~NeedsOff(p[10], k) /\ ~NeedsOff(p[11], k)
    BY <2>1, CallKinds
  <2>4. ~NeedsOff(p[12], k) /\ ~NeedsOff(p[13], k)
    BY <2>1, CallKinds
  <2> QED
    BY <2>2, <2>3, <2>4
<1> HIDE DEF p
<1>4. \A i \in 1 .. 13 : NeedsOff(p[i], k) => i <= 6
  BY <1>3
<1>5. \A i \in 1 .. 6 : OffBehind(p, k, i)
  BY <1>1, <1>2 DEF OffBehind
<1> QED
  BY <1>1, <1>4, <1>5 DEF p, Closed

(* Every program of an experiment switches off what it has switched on.     *)
LEMMA ExperimentsClose ==
    ASSUME NEW p \in DOMAIN ExperimentPrograms, NEW k \in Cameras
    PROVE  ExperimentPrograms[p] \in Seq(PhotoCall) /\ Closed(ExperimentPrograms[p], k)
<1>1. /\ SailStart \in Seq(PhotoCall) /\ SailPhoto \in Seq(PhotoCall)
      /\ SailFinalize(0) \in Seq(PhotoCall) /\ SailFinalize(1) \in Seq(PhotoCall)
  <2>1. {ResetCmd, EnableCmd("Nadir"), EnableCmd("Wing"), WaitCall, TakeCmd("Nadir"), DownloadCmd("Nadir", 0),
         PurgeCall, TakeCmd("Wing"), DownloadCmd("Wing", 0), DownloadCmd("Nadir", 0 + 1),
         DownloadCmd("Wing", 1), DownloadCmd("Nadir", 1 + 1)} \subseteq PhotoCall
    BY PhotoCalls DEF Cameras, PhotoBuffers
  <2> QED
    BY <2>1 DEF SailStart, SailPhoto, SailFinalize
<1>2. /\ SailStart \o SailPhoto \o SailFinalize(1) \in Seq(PhotoCall)
      /\ SailStart \o SailFinalize(0) \in Seq(PhotoCall) /\ SailStart \o SailPhoto \in Seq(PhotoCall)
  BY <1>1
<1>3. /\ ExperimentPrograms.sail = (SailStart \o SailPhoto \o SailFinalize(1)) \o SailStopPhotos(3)
      /\ ExperimentPrograms.sailNoTime = (SailStart \o SailFinalize(0)) \o SailStopPhotos(2)
      /\ ExperimentPrograms.sailAborted = (SailStart \o SailPhoto) \o SailStopPhotos(1)
      /\ ExperimentPrograms.sailNotStarted = SailStopPhotos(0)
      /\ ExperimentPrograms.sads = SadsFinalize \o SadsStop
      /\ ExperimentPrograms.sadsAborted = SadsStop
      /\ ExperimentPrograms.camera = PerformPhotoTest
  BY DEF ExperimentPrograms
<1>4. p \in {"sail", "sailNoTime", "sailAborted", "sailNotStarted", "sads", "sadsAborted", "camera"}
  BY DEF ExperimentPrograms
<1>0. 1 \in 0 .. 3 /\ 2 \in 0 .. 3 /\ 3 \in 0 .. 3
  OBVIOUS
<1>5. CASE p = "sail"
  <2>1. /\ (SailStart \o SailPhoto \o SailFinalize(1)) \o SailStopPhotos(3) \in Seq(PhotoCall)
        /\ Closed((SailStart \o SailPhoto \o SailFinalize(1)) \o SailStopPhotos(3), k)
    BY Zenon, <1>0, <1>2, SailProgram
  <2> QED
    BY Zenon, <1>3, <1>5, <2>1
<1>6. CASE p = "sailNoTime"
  <2>1. /\ (SailStart \o SailFinalize(0)) \o SailStopPhotos(2) \in Seq(PhotoCall)
        /\ Closed((SailStart \o SailFinalize(0)) \o SailStopPhotos(2), k)
    BY Zenon, <1>0, <1>2, SailProgram
  <2> QED
    BY Zenon, <1>3, <1>6, <2>1
<1>7. CASE p = "sailAborted"
  <2>1. /\ (SailStart \o SailPhoto) \o SailStopPhotos(1) \in Seq(PhotoCall)
        /\ Closed((SailStart \o SailPhoto) \o SailStopPhotos(1), k)
    BY Zenon, <1>0, <1>2, SailProgram
  <2> QED
    BY Zenon, <1>3, <1>7, <2>1
<1>8. CASE p = "sailNotStarted"
  BY <1>3, <1>8, SailStopCloses
<1>9. CASE p \in {"sads", "sadsAborted"}
  BY <1>3, <1>9, SadsCloses
<1>10. CASE p = "camera"
  BY <1>3, <1>10, CameraProgramCloses
<1> QED
  BY <1>4, <1>5, <1>6, <1>7, <1>8, <1>9, <1>10

(* So do the two telecommands: TakePhoto the camera it names, PurgePhoto    *)
(* both.                                                                    *)
LEMMA TelecommandsClose ==
    ASSUME NEW p \in TakePhotoTelecommands \cup {PurgePhotoTelecommand}, NEW k \in Cameras
    PROVE  p \in Seq(PhotoCall) /\ Closed(p, k)
<1>1. CASE p = PurgePhotoTelecommand
  <2>1. {PurgeCall, DisableCmd("Nadir"), DisableCmd("Wing"), ResetCmd} \subseteq PhotoCall
    BY PhotoCalls DEF Cameras, PhotoBuffers
  <2>2. p \in Seq(PhotoCall) /\ Len(p) = 4
    BY <1>1, <2>1 DEF PurgePhotoTelecommand
  <2>3. p[2] = DisableCmd("Nadir") /\ p[3] = DisableCmd("Wing") /\ p[4] = ResetCmd
    BY <1>1 DEF PurgePhotoTelecommand
  <2>4. /\ \E j \in {2, 3} : SwitchesOff(p[j], k)
        /\ ~NeedsOff(p[2], k) /\ ~NeedsOff(p[3], k) /\ ~NeedsOff(p[4], k)
    BY <2>3, CallKinds DEF Cameras
  <2>5. OffBehind(p, k, 1)
    BY <2>2, <2>4 DEF OffBehind
  <2> QED
    BY <2>2, <2>4, <2>5 DEF Closed
<1>2. CASE p \in TakePhotoTelecommands
  <2>1. PICK c \in PhotoCameras : p = <<ResetCmd, SleepCmd, EnableCmd(c), TakeCmd(c), DownloadCmd(c, 0), SaveCmd(0), ResetCmd,
                                        DisableCmd(c), ResetCmd>>
    BY <1>2 DEF TakePhotoTelecommands
  <2>2. c \in Cameras
    BY PhotoConstants
  <2>3. {ResetCmd, SleepCmd, EnableCmd(c), TakeCmd(c), DownloadCmd(c, 0), SaveCmd(0), DisableCmd(c)} \subseteq PhotoCall
    BY <2>2, PhotoCalls DEF PhotoBuffers
  <2>4. p \in Seq(PhotoCall) /\ Len(p) = 9
    BY <2>1, <2>3
  <2>5. /\ p[1] = ResetCmd /\ p[2] = SleepCmd /\ p[3] = EnableCmd(c) /\ p[4] = TakeCmd(c) /\ p[5] = DownloadCmd(c, 0)
        /\ p[6] = SaveCmd(0) /\ p[7] = ResetCmd /\ p[8] = DisableCmd(c) /\ p[9] = ResetCmd
    BY <2>1
  <2>6. /\ ~NeedsOff(p[1], k) /\ ~NeedsOff(p[2], k) /\ ~NeedsOff(p[5], k) /\ ~NeedsOff(p[6], k)
        /\ ~NeedsOff(p[7], k) /\ ~NeedsOff(p[8], k) /\ ~NeedsOff(p[9], k)
        /\ NeedsOff(p[3], k) => SwitchesOff(p[8], k)
        /\ NeedsOff(p[4], k) => SwitchesOff(p[8], k)
    BY <2>5, CallKinds
  <2>7. \A i \in 1 .. 9 : NeedsOff(p[i], k) => i \in {3, 4} /\ SwitchesOff(p[8], k)
    BY <2>6
  <2> QED
    BY <2>4, <2>7 DEF Closed, OffBehind
<1> QED
  BY <1>1, <1>2

\* What the calls of a client and the queue promise stays if nothing of them changes.
LEMMA PromisesKept ==
    ASSUME UNCHANGED <<commandQueue, calls, calling>>
    PROVE  \A k \in Cameras : \A i : WillSwitchOff(k, i)' <=> WillSwitchOff(k, i)
BY DEF WillSwitchOff, QueueSwitchesOff, ClientWillSwitchOff, FirstAhead

\* A command a client puts into the queue.
LEMMA PushStep ==
    ASSUME PhotoTypeOK, OffsAhead, NEW c \in PhotoClients, NEW command \in PhotoCall,
           NEW there \in {"clear", "set", "break"}, Push(c, command, there),
           UNCHANGED <<calls, photoTask, camerasOn, offFailed>>, calls[c] # <<>>,
           \A k \in Cameras : calling[c] = "call" /\ SwitchesOff(Head(calls[c]), k) => SwitchesOff(command, k),
           \A k \in Cameras : NeedsOff(command, k) => calling[c] = "call" /\ command = Head(calls[c])
    PROVE  /\ OffsAhead'
           /\ commandQueue' \in Seq(Commanded) /\ calling' \in [PhotoClients -> {"call", "clear", "break", "set"}]
           /\ \A d \in PhotoClients : calling'[d] # "call" => calls'[d] # <<>>
<1>1. /\ commandQueue \in Seq(Commanded) /\ calls \in [PhotoClients -> Seq(PhotoCall)]
      /\ calling \in [PhotoClients -> {"call", "clear", "break", "set"}]
      /\ commandQueue' = Append(commandQueue, [from |-> c, do |-> command])
      /\ calling' = [calling EXCEPT ![c] = there]
  BY DEF PhotoTypeOK, Push
<1>2. [from |-> c, do |-> command] \in Commanded
  BY DEF Commanded
<1>3. /\ commandQueue' \in Seq(Commanded) /\ Len(commandQueue') = Len(commandQueue) + 1 /\ Len(commandQueue) \in Nat
      /\ \A i \in 1 .. Len(commandQueue) : commandQueue'[i] = commandQueue[i]
      /\ commandQueue'[Len(commandQueue) + 1].do = command
  BY <1>1, <1>2
<1>4. /\ calling' \in [PhotoClients -> {"call", "clear", "break", "set"}] /\ calling'[c] # "call"
      /\ \A d \in PhotoClients : d # c => calling'[d] = calling[d]
      /\ \A d \in PhotoClients : calling'[d] # "call" => calls'[d] # <<>>
  BY <1>1 DEF PhotoTypeOK
<1>5. ASSUME NEW k \in Cameras, NEW i \in 0 .. Len(commandQueue), WillSwitchOff(k, i)
      PROVE  WillSwitchOff(k, i)'
  <2>1. CASE QueueSwitchesOff(k, i)
    <3>1. QueueSwitchesOff(k, i)'
      BY <1>3, <2>1 DEF QueueSwitchesOff
    <3> QED
      BY <3>1 DEF WillSwitchOff
  <2>2. CASE ClientWillSwitchOff(k)
    <3>1. PICK d \in PhotoClients : \E j \in FirstAhead(d) .. Len(calls[d]) : SwitchesOff(calls[d][j], k)
      BY <2>2 DEF ClientWillSwitchOff
    <3>2. PICK j \in FirstAhead(d) .. Len(calls[d]) : SwitchesOff(calls[d][j], k)
      BY <3>1
    <3>3. CASE d = c /\ j = 1
      <4>1. calling[c] = "call" /\ calls[c][j] = Head(calls[c])
        BY <1>1, <3>2, <3>3 DEF FirstAhead
      <4>2. SwitchesOff(command, k)
        BY <3>2, <3>3, <4>1
      <4>3. QueueSwitchesOff(k, i)'
        BY <1>3, <4>2 DEF QueueSwitchesOff
      <4> QED
        BY <4>3 DEF WillSwitchOff
    <3>4. CASE ~(d = c /\ j = 1)
      <4>1. j \in FirstAhead(d)' .. Len(calls'[d]) /\ calls'[d][j] = calls[d][j]
        BY <1>1, <1>4, <3>2, <3>4 DEF FirstAhead
      <4>2. ClientWillSwitchOff(k)'
        BY <3>2, <4>1 DEF ClientWillSwitchOff
      <4> QED
        BY <4>2 DEF WillSwitchOff
    <3> QED
      BY <3>3, <3>4
  <2> QED
    BY <1>5, <2>1, <2>2 DEF WillSwitchOff
<1>6. ASSUME NEW k \in Cameras, NEW i, NeedsOff(command, k)
      PROVE  WillSwitchOff(k, i)'
  <2>1. calling[c] = "call" /\ command = calls[c][1] /\ 1 \in 1 .. Len(calls[c])
    BY <1>1, <1>6
  <2>2. OffBehind(calls[c], k, 1)
    BY <1>6, <2>1 DEF OffsAhead, Closed
  <2>3. PICK j \in 2 .. Len(calls[c]) : SwitchesOff(calls[c][j], k)
    BY <2>2 DEF OffBehind
  <2>4. ClientWillSwitchOff(k)'
    BY <1>4, <2>3 DEF ClientWillSwitchOff, FirstAhead
  <2> QED
    BY <2>4 DEF WillSwitchOff
<1>7. OffsAhead'
  <2>1. SUFFICES ASSUME NEW k \in Cameras
                 PROVE  /\ \A d \in PhotoClients : Closed(calls[d], k)'
                        /\ \A i \in 1 .. Len(commandQueue') :
                              NeedsOff(commandQueue'[i].do, k) => WillSwitchOff(k, i)'
                        /\ photoTask.at = "device" /\ NeedsOff(photoTask.command.do, k) => WillSwitchOff(k, 0)'
                        /\ k \in camerasOn =>
                              \/ offFailed \/ WillSwitchOff(k, 0)'
                              \/ photoTask.at = "device" /\ SwitchesOff(photoTask.command.do, k)
    BY DEF OffsAhead
  <2>2. \A d \in PhotoClients : Closed(calls[d], k)'
    BY DEF OffsAhead, Closed, OffBehind
  <2>3. ASSUME NEW i \in 1 .. Len(commandQueue'), NeedsOff(commandQueue'[i].do, k)
        PROVE  WillSwitchOff(k, i)'
    <3>1. CASE i \in 1 .. Len(commandQueue)
      <4>1. WillSwitchOff(k, i)
        BY <1>3, <2>3, <3>1 DEF OffsAhead
      <4> QED
        BY <1>3, <1>5, <3>1, <4>1
    <3>2. CASE i = Len(commandQueue) + 1
      <4>1. NeedsOff(command, k)
        BY <1>3, <2>3, <3>2
      <4> QED
        BY <1>6, <3>2, <4>1
    <3> QED
      BY <1>3, <3>1, <3>2
  <2>4. photoTask.at = "device" /\ NeedsOff(photoTask.command.do, k) => WillSwitchOff(k, 0)'
    BY <1>3, <1>5 DEF OffsAhead
  <2>5. k \in camerasOn =>
            \/ offFailed \/ WillSwitchOff(k, 0)'
            \/ photoTask.at = "device" /\ SwitchesOff(photoTask.command.do, k)
    BY <1>3, <1>5 DEF OffsAhead
  <2> QED
    BY <2>2, <2>3, <2>4, <2>5
<1> QED
  BY <1>3, <1>4, <1>7

\* A call that returns.
LEMMA ReturnStep ==
    ASSUME PhotoTypeOK, OffsAhead, NEW c \in PhotoClients, CallReturns(c), calls[c] # <<>>,
           UNCHANGED <<commandQueue, camerasOn, offFailed>>,
           \A k \in Cameras : calling[c] = "call" => ~SwitchesOff(Head(calls[c]), k)
    PROVE  /\ OffsAhead'
           /\ calls' \in [PhotoClients -> Seq(PhotoCall)] /\ calling' \in [PhotoClients -> {"call", "clear", "break", "set"}]
           /\ \A d \in PhotoClients : calling'[d] # "call" => calls'[d] # <<>>
           /\ photoTask' \in [at : {"queue", "pop", "sleep", "device"}, command : Commanded,
                              row : SUBSET PhotoClients, clear : SUBSET PhotoClients]
           /\ photoTask'.at = photoTask.at
<1>1. /\ commandQueue \in Seq(Commanded) /\ calls \in [PhotoClients -> Seq(PhotoCall)]
      /\ calling \in [PhotoClients -> {"call", "clear", "break", "set"}]
      /\ calls' = [calls EXCEPT ![c] = Tail(@)] /\ calling' = [calling EXCEPT ![c] = "call"]
  BY DEF PhotoTypeOK, CallReturns
<1>2. /\ photoTask' \in [at : {"queue", "pop", "sleep", "device"}, command : Commanded,
                         row : SUBSET PhotoClients, clear : SUBSET PhotoClients]
      /\ photoTask'.at = photoTask.at /\ photoTask'.command = photoTask.command
  BY DEF PhotoTypeOK, CallReturns
<1>3. /\ calls' \in [PhotoClients -> Seq(PhotoCall)] /\ calling' \in [PhotoClients -> {"call", "clear", "break", "set"}]
      /\ calling'[c] = "call" /\ calls'[c] = Tail(calls[c])
      /\ \A d \in PhotoClients : d # c => calling'[d] = calling[d] /\ calls'[d] = calls[d]
      /\ \A d \in PhotoClients : calling'[d] # "call" => calls'[d] # <<>>
  BY <1>1 DEF PhotoTypeOK
<1>4. /\ Len(calls'[c]) = Len(calls[c]) - 1 /\ Len(calls[c]) \in Nat
      /\ \A j \in 1 .. Len(calls'[c]) : calls'[c][j] = calls[c][j + 1]
  BY <1>1, <1>3
<1>5. ASSUME NEW k \in Cameras, NEW i, WillSwitchOff(k, i)
      PROVE  WillSwitchOff(k, i)'
  <2>1. CASE QueueSwitchesOff(k, i)
    BY <2>1 DEF QueueSwitchesOff, WillSwitchOff
  <2>2. CASE ClientWillSwitchOff(k)
    <3>1. PICK d \in PhotoClients : \E j \in FirstAhead(d) .. Len(calls[d]) : SwitchesOff(calls[d][j], k)
      BY <2>2 DEF ClientWillSwitchOff
    <3>2. PICK j \in FirstAhead(d) .. Len(calls[d]) : SwitchesOff(calls[d][j], k)
      BY <3>1
    <3>3. CASE d = c
      <4>1. j # 1
        <5>1. SUFFICES ASSUME j = 1 PROVE FALSE
          OBVIOUS
        <5>2. calling[c] = "call" /\ calls[c][j] = Head(calls[c])
          BY <1>1, <3>2, <3>3, <5>1 DEF FirstAhead
        <5> QED
          BY <3>2, <3>3, <5>2
      <4>2. j - 1 \in 1 .. Len(calls'[c]) /\ calls'[c][j - 1] = calls[c][j] /\ FirstAhead(c)' = 1
        BY <1>3, <1>4, <3>2, <3>3, <4>1 DEF FirstAhead
      <4>3. ClientWillSwitchOff(k)'
        BY <3>2, <3>3, <4>2 DEF ClientWillSwitchOff
      <4> QED
        BY <4>3 DEF WillSwitchOff
    <3>4. CASE d # c
      <4>1. ClientWillSwitchOff(k)'
        BY <1>3, <3>2, <3>4 DEF ClientWillSwitchOff, FirstAhead
      <4> QED
        BY <4>1 DEF WillSwitchOff
    <3> QED
      BY <3>3, <3>4
  <2> QED
    BY <1>5, <2>1, <2>2 DEF WillSwitchOff
<1>6. ASSUME NEW k \in Cameras
      PROVE  Closed(calls'[c], k)
  <2>1. SUFFICES ASSUME NEW i \in 1 .. Len(calls'[c]), NeedsOff(calls'[c][i], k)
                 PROVE  OffBehind(calls'[c], k, i)
    BY DEF Closed
  <2>2. OffBehind(calls[c], k, i + 1)
    BY <1>4, <2>1 DEF OffsAhead, Closed
  <2>3. PICK j \in i + 2 .. Len(calls[c]) : SwitchesOff(calls[c][j], k)
    BY <2>2 DEF OffBehind
  <2>4. j - 1 \in i + 1 .. Len(calls'[c]) /\ calls'[c][j - 1] = calls[c][j]
    BY <1>4, <2>3
  <2> QED
    BY <2>3, <2>4 DEF OffBehind
<1>7. OffsAhead'
  <2>1. SUFFICES ASSUME NEW k \in Cameras
                 PROVE  /\ \A d \in PhotoClients : Closed(calls'[d], k)
                        /\ \A i \in 1 .. Len(commandQueue) :
                              NeedsOff(commandQueue[i].do, k) => WillSwitchOff(k, i)'
                        /\ photoTask.at = "device" /\ NeedsOff(photoTask.command.do, k) => WillSwitchOff(k, 0)'
                        /\ k \in camerasOn =>
                              \/ offFailed \/ WillSwitchOff(k, 0)'
                              \/ photoTask.at = "device" /\ SwitchesOff(photoTask.command.do, k)
    BY <1>2 DEF OffsAhead
  <2>2. \A d \in PhotoClients : Closed(calls'[d], k)
    BY <1>3, <1>6 DEF OffsAhead
  <2> QED
    BY <1>5, <2>2 DEF OffsAhead
<1> QED
  BY <1>2, <1>3, <1>7

\* What is the same after a step that leaves the photos alone.
LEMMA PhotosKeptStep ==
    ASSUME PhotosBelow, PhotoIntact, UNCHANGED <<bufferInfos, freeSpace, photoBuffer>>
    PROVE  PhotosBelow' /\ PhotoIntact'
BY DEF PhotosBelow, PhotoIntact

(* A request method puts its command at the end of the queue.               *)
LEMMA RequestStep ==
    ASSUME PhotoInv, NEW c \in PhotoClients, Request(c)
    PROVE  PhotoInv'
<1>1. /\ calling[c] = "call" /\ calls[c] # <<>> /\ Head(calls[c]).op \in QueueCommands
      /\ Push(c, Head(calls[c]), "clear")
      /\ UNCHANGED <<photoTask, idleFlag, calls, bufferInfos, freeSpace, photoBuffer, camerasOn, offFailed>>
  BY DEF Request, MakesCall, ServiceKept
<1>2. Head(calls[c]) \in PhotoCall
  BY <1>1 DEF PhotoInv, PhotoTypeOK
<1>3. /\ OffsAhead'
      /\ commandQueue' \in Seq(Commanded) /\ calling' \in [PhotoClients -> {"call", "clear", "break", "set"}]
      /\ \A d \in PhotoClients : calling'[d] # "call" => calls'[d] # <<>>
  BY <1>1, <1>2, PushStep DEF PhotoInv
<1>4. PhotoTypeOK' /\ IdleOnQueue'
  BY <1>1, <1>3 DEF PhotoInv, PhotoTypeOK, IdleOnQueue, Resting
<1> QED
  BY <1>1, <1>3, <1>4, PhotosKeptStep DEF PhotoInv

(* The second half of a request clears the flag and returns.                *)
LEMMA ClearIdleStep ==
    ASSUME PhotoInv, NEW c \in PhotoClients, ClearIdle(c)
    PROVE  PhotoInv'
<1>1. /\ calling[c] = "clear" /\ idleFlag' = FALSE /\ CallReturns(c)
      /\ UNCHANGED <<commandQueue, bufferInfos, freeSpace, photoBuffer, camerasOn, offFailed>>
  BY DEF ClearIdle, ServiceKept
<1>2. calls[c] # <<>>
  BY <1>1 DEF PhotoInv, PhotoTypeOK
<1>3. /\ OffsAhead'
      /\ calls' \in [PhotoClients -> Seq(PhotoCall)] /\ calling' \in [PhotoClients -> {"call", "clear", "break", "set"}]
      /\ \A d \in PhotoClients : calling'[d] # "call" => calls'[d] # <<>>
      /\ photoTask' \in [at : {"queue", "pop", "sleep", "device"}, command : Commanded,
                         row : SUBSET PhotoClients, clear : SUBSET PhotoClients]
      /\ photoTask'.at = photoTask.at
  BY <1>1, <1>2, ReturnStep DEF PhotoInv
<1>4. PhotoTypeOK' /\ IdleOnQueue'
  BY <1>1, <1>3 DEF PhotoInv, PhotoTypeOK, IdleOnQueue, Resting
<1> QED
  BY <1>1, <1>3, <1>4, PhotosKeptStep DEF PhotoInv

(* Save of the sail experiment, a request unless the buffer is empty.       *)
LEMMA SavePhotosStep ==
    ASSUME PhotoInv, NEW c \in PhotoClients, SavePhotos(c)
    PROVE  PhotoInv'
<1> DEFINE buffer == Head(calls[c]).buffer
<1>1. /\ calling[c] = "call" /\ calls[c] # <<>> /\ Head(calls[c]).op = "SaveUnlessEmpty"
      /\ UNCHANGED <<idleFlag, bufferInfos, freeSpace, photoBuffer, camerasOn, offFailed>>
  BY DEF SavePhotos, MakesCall, ServiceKept
<1>2. \A k \in Cameras : ~SwitchesOff(Head(calls[c]), k)
  BY <1>1 DEF SwitchesOff
<1>3. CASE CallReturns(c) /\ UNCHANGED commandQueue
  <2>1. /\ OffsAhead'
        /\ calls' \in [PhotoClients -> Seq(PhotoCall)] /\ calling' \in [PhotoClients -> {"call", "clear", "break", "set"}]
        /\ \A d \in PhotoClients : calling'[d] # "call" => calls'[d] # <<>>
        /\ photoTask' \in [at : {"queue", "pop", "sleep", "device"}, command : Commanded,
                           row : SUBSET PhotoClients, clear : SUBSET PhotoClients]
        /\ photoTask'.at = photoTask.at
    BY <1>1, <1>2, <1>3, ReturnStep DEF PhotoInv
  <2>2. PhotoTypeOK' /\ IdleOnQueue'
    BY <1>1, <1>3, <2>1 DEF PhotoInv, PhotoTypeOK, IdleOnQueue, Resting
  <2> QED
    BY <1>1, <2>1, <2>2, PhotosKeptStep DEF PhotoInv
<1>4. CASE Push(c, SaveCmd(buffer), "clear") /\ UNCHANGED <<calls, photoTask>>
  <2>1. Head(calls[c]) \in PhotoCall
    BY <1>1 DEF PhotoInv, PhotoTypeOK
  <2>2. SaveCmd(buffer) \in PhotoCall
    BY <2>1, PhotoCalls DEF PhotoCall, Cameras
  <2>3. \A k \in Cameras : ~NeedsOff(SaveCmd(buffer), k)
    BY CallKinds
  <2>4. /\ OffsAhead'
        /\ commandQueue' \in Seq(Commanded) /\ calling' \in [PhotoClients -> {"call", "clear", "break", "set"}]
        /\ \A d \in PhotoClients : calling'[d] # "call" => calls'[d] # <<>>
    BY <1>1, <1>2, <1>4, <2>2, <2>3, PushStep DEF PhotoInv
  <2>5. PhotoTypeOK' /\ IdleOnQueue'
    BY <1>1, <1>4, <2>4 DEF PhotoInv, PhotoTypeOK, IdleOnQueue, Resting
  <2> QED
    BY <1>1, <2>4, <2>5, PhotosKeptStep DEF PhotoInv
<1> QED
  BY <1>3, <1>4 DEF SavePhotos

(* WaitForFinish returns.                                                   *)
LEMMA WaitStep ==
    ASSUME PhotoInv, NEW c \in PhotoClients, WaitForFinish(c)
    PROVE  PhotoInv'
<1>1. /\ calling[c] = "call" /\ calls[c] # <<>> /\ Head(calls[c]).op = "WaitForFinish" /\ CallReturns(c)
      /\ UNCHANGED <<commandQueue, idleFlag, bufferInfos, freeSpace, photoBuffer, camerasOn, offFailed>>
  BY DEF WaitForFinish, MakesCall, ServiceKept
<1>2. \A k \in Cameras : ~SwitchesOff(Head(calls[c]), k)
  BY <1>1 DEF SwitchesOff
<1>3. /\ OffsAhead'
      /\ calls' \in [PhotoClients -> Seq(PhotoCall)] /\ calling' \in [PhotoClients -> {"call", "clear", "break", "set"}]
      /\ \A d \in PhotoClients : calling'[d] # "call" => calls'[d] # <<>>
      /\ photoTask' \in [at : {"queue", "pop", "sleep", "device"}, command : Commanded,
                         row : SUBSET PhotoClients, clear : SUBSET PhotoClients]
      /\ photoTask'.at = photoTask.at
  BY <1>1, <1>2, ReturnStep DEF PhotoInv
<1>4. PhotoTypeOK' /\ IdleOnQueue'
  BY <1>1, <1>3 DEF PhotoInv, PhotoTypeOK, IdleOnQueue, Resting
<1> QED
  BY <1>1, <1>3, <1>4, PhotosKeptStep DEF PhotoInv

(* PurgePendingCommands empties the queue: whoever purges switches both     *)
(* cameras off himself.                                                     *)
LEMMA PurgeStep ==
    ASSUME PhotoInv, NEW c \in PhotoClients, PurgePendingCommands(c)
    PROVE  PhotoInv'
<1>0. UNCHANGED <<photoTask, idleFlag, calls, bufferInfos, freeSpace, photoBuffer, camerasOn, offFailed>>
  BY DEF PurgePendingCommands, ServiceKept
<1>1. /\ calls \in [PhotoClients -> Seq(PhotoCall)]
      /\ calling \in [PhotoClients -> {"call", "clear", "break", "set"}]
  BY DEF PhotoInv, PhotoTypeOK
<1>2. CASE /\ calling[c] = "call" /\ calls[c] # <<>> /\ Head(calls[c]).op = "PurgePendingCommands"
           /\ commandQueue' = <<>> /\ calling' = [calling EXCEPT ![c] = "break"]
  <2>1. ASSUME NEW k \in Cameras PROVE ClientWillSwitchOff(k)'
    <3>1. NeedsOff(calls[c][1], k) /\ 1 \in 1 .. Len(calls[c])
      BY <1>1, <1>2 DEF NeedsOff
    <3>2. PICK j \in 2 .. Len(calls[c]) : SwitchesOff(calls[c][j], k)
      BY <3>1 DEF PhotoInv, OffsAhead, Closed, OffBehind
    <3> QED
      BY <1>0, <1>1, <1>2, <3>2 DEF ClientWillSwitchOff, FirstAhead
  <2>2. OffsAhead'
    <3>1. \A k \in Cameras : \A d \in PhotoClients : Closed(calls[d], k)'
      BY <1>0 DEF PhotoInv, OffsAhead, Closed, OffBehind
    <3>2. \A k \in Cameras : \A i : WillSwitchOff(k, i)'
      BY <2>1 DEF WillSwitchOff
    <3> QED
      BY <3>1, <3>2 DEF OffsAhead
  <2>3. PhotoTypeOK' /\ IdleOnQueue'
    BY <1>0, <1>1, <1>2 DEF PhotoInv, PhotoTypeOK, IdleOnQueue, Resting
  <2> QED
    BY <1>0, <2>2, <2>3, PhotosKeptStep DEF PhotoInv
<1>3. CASE calling[c] = "break" /\ Push(c, BreakCmd, "set")
  <2>1. calls[c] # <<>> /\ BreakCmd \in PhotoCall /\ \A k \in Cameras : ~NeedsOff(BreakCmd, k)
    BY <1>3, PhotoCalls, CallKinds DEF PhotoInv, PhotoTypeOK
  <2>2. /\ OffsAhead'
        /\ commandQueue' \in Seq(Commanded) /\ calling' \in [PhotoClients -> {"call", "clear", "break", "set"}]
        /\ \A d \in PhotoClients : calling'[d] # "call" => calls'[d] # <<>>
    BY <1>0, <1>3, <2>1, PushStep DEF PhotoInv
  <2>3. PhotoTypeOK' /\ IdleOnQueue'
    BY <1>0, <2>2 DEF PhotoInv, PhotoTypeOK, IdleOnQueue, Resting
  <2> QED
    BY <1>0, <2>2, <2>3, PhotosKeptStep DEF PhotoInv
<1>4. CASE calling[c] = "set" /\ calling' = [calling EXCEPT ![c] = "clear"] /\ UNCHANGED commandQueue
  <2>1. /\ calling' \in [PhotoClients -> {"call", "clear", "break", "set"}]
        /\ \A d \in PhotoClients : (calling'[d] = "call" <=> calling[d] = "call")
    BY <1>1, <1>4
  <2>2. \A k : ClientWillSwitchOff(k)' <=> ClientWillSwitchOff(k)
    BY <1>0, <2>1 DEF ClientWillSwitchOff, FirstAhead
  <2>3. \A k : \A i : WillSwitchOff(k, i)' <=> WillSwitchOff(k, i)
    BY <1>4, <2>2 DEF WillSwitchOff, QueueSwitchesOff
  <2>4. OffsAhead'
    BY <1>0, <1>4, <2>3 DEF PhotoInv, OffsAhead, Closed, OffBehind
  <2>5. PhotoTypeOK' /\ IdleOnQueue'
    BY <1>0, <1>4, <2>1 DEF PhotoInv, PhotoTypeOK, IdleOnQueue, Resting
  <2> QED
    BY <1>0, <2>4, <2>5, PhotosKeptStep DEF PhotoInv
<1> QED
  BY <1>2, <1>3, <1>4 DEF PurgePendingCommands, MakesCall

(* A telecommand that begins promises a switch-off more.                    *)
LEMMA PhotoTelecommandStep ==
    ASSUME PhotoInv, PhotoTelecommand
    PROVE  PhotoInv'
<1>1. /\ calls["comm"] = <<>>
      /\ UNCHANGED <<commandQueue, photoTask, idleFlag, bufferInfos, freeSpace, photoBuffer, camerasOn, calling,
                     offFailed>>
  BY DEF PhotoTelecommand
<1>2. PICK p \in TakePhotoTelecommands \cup {PurgePhotoTelecommand} : calls' = [calls EXCEPT !["comm"] = p]
  BY DEF PhotoTelecommand
<1>3. p \in Seq(PhotoCall) /\ \A k \in Cameras : Closed(p, k)
  BY TelecommandsClose DEF Cameras
<1>4. /\ calls \in [PhotoClients -> Seq(PhotoCall)]
      /\ calls' \in [PhotoClients -> Seq(PhotoCall)] /\ calls'["comm"] = p
      /\ \A d \in PhotoClients : d # "comm" => calls'[d] = calls[d]
      /\ \A d \in PhotoClients : calling[d] # "call" => calls'[d] # <<>>
  BY <1>1, <1>2, <1>3 DEF PhotoInv, PhotoTypeOK, PhotoClients
<1>5. ASSUME NEW k \in Cameras, NEW i, WillSwitchOff(k, i) PROVE WillSwitchOff(k, i)'
  <2>1. CASE QueueSwitchesOff(k, i)
    BY <1>1, <2>1 DEF QueueSwitchesOff, WillSwitchOff
  <2>2. CASE ClientWillSwitchOff(k)
    <3>1. PICK d \in PhotoClients : \E j \in FirstAhead(d) .. Len(calls[d]) : SwitchesOff(calls[d][j], k)
      BY <2>2 DEF ClientWillSwitchOff
    <3>2. d # "comm"
      BY <1>1, <3>1 DEF FirstAhead
    <3>3. ClientWillSwitchOff(k)'
      BY <1>1, <1>4, <3>1, <3>2 DEF ClientWillSwitchOff, FirstAhead
    <3> QED
      BY <3>3 DEF WillSwitchOff
  <2> QED
    BY <1>5, <2>1, <2>2 DEF WillSwitchOff
<1>6. OffsAhead'
  <2>1. \A k \in Cameras : \A d \in PhotoClients : Closed(calls'[d], k)
    BY <1>3, <1>4 DEF PhotoInv, OffsAhead
  <2> QED
    BY <1>1, <1>5, <2>1 DEF PhotoInv, OffsAhead
<1>7. PhotoTypeOK' /\ IdleOnQueue'
  BY <1>1, <1>4 DEF PhotoInv, PhotoTypeOK, IdleOnQueue, Resting
<1> QED
  BY <1>1, <1>6, <1>7, PhotosKeptStep DEF PhotoInv

\* The end of a transfer leaves the queue and the clients alone.
LEMMA TransferKeeps ==
    ASSUME PhotoInv, QueueKept, NEW op, TransferOver(op)
    PROVE  /\ UNCHANGED <<commandQueue, idleFlag, calls, calling>>
           /\ idleFlag = FALSE
           /\ photoTask.at = "device" /\ photoTask'.at = "pop" /\ photoTask.command.do.op = op
           /\ photoTask.command.do \in PhotoCall
           /\ photoTask' \in [at : {"queue", "pop", "sleep", "device"}, command : Commanded,
                              row : SUBSET PhotoClients, clear : SUBSET PhotoClients]
           /\ IdleOnQueue'
           /\ \A k \in Cameras : \A i : WillSwitchOff(k, i)' <=> WillSwitchOff(k, i)
<1>1. UNCHANGED <<commandQueue, idleFlag, calls, calling>>
  BY DEF QueueKept, PhotoRequests
<1>2. [from |-> "comm", do |-> BreakCmd] \in Commanded
  BY PhotoCalls DEF Commanded, PhotoClients
<1>3. idleFlag = FALSE
  BY DEF PhotoInv, PhotoTypeOK, IdleOnQueue, Resting, TransferOver
<1>4. /\ photoTask.command.do \in PhotoCall
      /\ photoTask' \in [at : {"queue", "pop", "sleep", "device"}, command : Commanded,
                         row : SUBSET PhotoClients, clear : SUBSET PhotoClients]
  BY <1>2 DEF PhotoInv, PhotoTypeOK, TransferOver, NextCommand, Commanded
<1> QED
  BY <1>1, <1>3, <1>4, PromisesKept DEF TransferOver, NextCommand, IdleOnQueue

\* What has to be shown of a camera once a transfer is over.
LEMMA TransferOffs ==
    ASSUME PhotoInv, QueueKept, NEW op, TransferOver(op), offFailed => offFailed',
           \A k \in Cameras : k \in camerasOn' =>
              \/ offFailed' \/ WillSwitchOff(k, 0)
              \/ k \in camerasOn /\ ~SwitchesOff(photoTask.command.do, k)
    PROVE  OffsAhead'
<1>1. /\ UNCHANGED <<commandQueue, calls>> /\ photoTask'.at = "pop"
      /\ \A k \in Cameras : \A i : WillSwitchOff(k, i)' <=> WillSwitchOff(k, i)
  BY TransferKeeps
<1>2. \A k \in Cameras : \A c \in PhotoClients : Closed(calls[c], k)'
  BY <1>1 DEF PhotoInv, OffsAhead, Closed, OffBehind
<1>3. \A k \in Cameras : k \in camerasOn' => offFailed' \/ WillSwitchOff(k, 0)
  BY DEF PhotoInv, OffsAhead
<1> QED
  BY <1>1, <1>2, <1>3 DEF PhotoInv, OffsAhead

(* EnableCamera ends, with or without an effect.                            *)
LEMMA EnableCameraStep ==
    ASSUME PhotoInv, EnableCamera
    PROVE  PhotoInv'
<1>1. QueueKept /\ PhotosKept /\ UNCHANGED offFailed /\ TransferOver("EnableCamera")
  BY DEF EnableCamera, SecondsOver
<1>2. camerasOn' \in {camerasOn, camerasOn \cup {photoTask.command.do.camera}}
  BY DEF EnableCamera
<1>3. photoTask.at = "device" /\ photoTask.command.do \in PhotoCall /\ photoTask.command.do.op = "EnableCamera"
  BY <1>1, TransferKeeps
<1>4. \A k \in Cameras : k \in camerasOn' => k \in camerasOn \/ WillSwitchOff(k, 0)
  BY <1>2, <1>3 DEF PhotoInv, OffsAhead, NeedsOff
<1>5. OffsAhead'
  BY <1>1, <1>3, <1>4, TransferOffs DEF SwitchesOff
<1>6. camerasOn' \subseteq Cameras
  BY <1>2, <1>3 DEF PhotoCall, PhotoInv, PhotoTypeOK
<1>7. PhotoTypeOK' /\ IdleOnQueue'
  BY <1>1, <1>6, TransferKeeps DEF PhotoInv, PhotoTypeOK, PhotosKept
<1> QED
  BY <1>1, <1>5, <1>7, PhotosKeptStep DEF PhotoInv, PhotosKept

(* DisableCamera ends, and fails or has the camera off.                     *)
LEMMA DisableCameraStep ==
    ASSUME PhotoInv, DisableCamera
    PROVE  PhotoInv'
<1>1. QueueKept /\ PhotosKept /\ TransferOver("DisableCamera")
  BY DEF DisableCamera, SecondsOver
<1>2. \/ camerasOn' = camerasOn \ {photoTask.command.do.camera} /\ UNCHANGED offFailed
      \/ offFailed' = TRUE /\ UNCHANGED camerasOn
  BY DEF DisableCamera
<1>3. OffsAhead'
  BY <1>1, <1>2, TransferOffs DEF SwitchesOff
<1>4. PhotoTypeOK' /\ IdleOnQueue'
  BY <1>1, <1>2, TransferKeeps DEF PhotoInv, PhotoTypeOK, PhotosKept
<1> QED
  BY <1>1, <1>3, <1>4, PhotosKeptStep DEF PhotoInv, PhotosKept

(* TakePhoto ends, which may have switched the camera off and on.           *)
LEMMA TakePhotoStep ==
    ASSUME PhotoInv, TakePhoto
    PROVE  PhotoInv'
<1>1. QueueKept /\ PhotosKept /\ UNCHANGED offFailed /\ TransferOver("TakePhoto")
  BY DEF TakePhoto
<1>2. camerasOn' \in {camerasOn, camerasOn \cup {photoTask.command.do.camera},
                      camerasOn \ {photoTask.command.do.camera}}
  BY DEF TakePhoto
<1>3. photoTask.at = "device" /\ photoTask.command.do \in PhotoCall /\ photoTask.command.do.op = "TakePhoto"
  BY <1>1, TransferKeeps
<1>4. \A k \in Cameras : k \in camerasOn' => k \in camerasOn \/ WillSwitchOff(k, 0)
  BY <1>2, <1>3 DEF PhotoInv, OffsAhead, NeedsOff
<1>5. OffsAhead'
  BY <1>1, <1>3, <1>4, TransferOffs DEF SwitchesOff
<1>6. camerasOn' \subseteq Cameras
  BY <1>2, <1>3 DEF PhotoCall, PhotoInv, PhotoTypeOK
<1>7. PhotoTypeOK' /\ IdleOnQueue'
  BY <1>1, <1>6, TransferKeeps DEF PhotoInv, PhotoTypeOK, PhotosKept
<1> QED
  BY <1>1, <1>5, <1>7, PhotosKeptStep DEF PhotoInv, PhotosKept

(* SavePhoto ends and leaves the buffers alone.                             *)
LEMMA SavePhotoStep ==
    ASSUME PhotoInv, SavePhoto
    PROVE  PhotoInv'
<1>1. QueueKept /\ PhotosKept /\ TransferOver("SavePhoto") /\ UNCHANGED <<camerasOn, offFailed>>
  BY DEF SavePhoto
<1>0. photoTask.command.do.op = "SavePhoto"
  BY <1>1, TransferKeeps
<1>2. OffsAhead'
  BY <1>0, <1>1, TransferOffs DEF SwitchesOff
<1>3. PhotoTypeOK' /\ IdleOnQueue'
  BY <1>1, TransferKeeps DEF PhotoInv, PhotoTypeOK, PhotosKept
<1> QED
  BY <1>1, <1>2, <1>3, PhotosKeptStep DEF PhotoInv, PhotosKept

(* DownloadPhoto writes behind the photos there are.                        *)
LEMMA DownloadPhotoStep ==
    ASSUME PhotoInv, DownloadPhoto
    PROVE  PhotoInv'
<1> DEFINE command == photoTask.command.do
           b == command.buffer
<1>1. QueueKept /\ TransferOver("DownloadPhoto") /\ UNCHANGED <<camerasOn, offFailed>>
  BY DEF DownloadPhoto
<1>0. photoTask.command.do.op = "DownloadPhoto"
  BY <1>1, TransferKeeps
<1>2. OffsAhead'
  BY <1>0, <1>1, TransferOffs DEF SwitchesOff
<1>3. command \in PhotoCall /\ b \in PhotoBuffers
  BY <1>1, TransferKeeps DEF PhotoCall
<1>4. /\ freeSpace \in 0 .. PhotoSpace /\ PhotoSpace \in Nat
      /\ bufferInfos \in [PhotoBuffers -> [status : {"Empty", "Downloading", "Occupied", "Failed"}, at : Nat, size : Nat]]
  BY PhotoConstants DEF PhotoInv, PhotoTypeOK
<1>5. /\ freeSpace' \in 0 .. PhotoSpace /\ freeSpace <= freeSpace' /\ DOMAIN photoBuffer' = 1 .. PhotoSpace
      /\ bufferInfos' \in [PhotoBuffers -> [status : {"Empty", "Downloading", "Occupied", "Failed"}, at : Nat, size : Nat]]
      /\ \A o \in PhotoBuffers : o # b => bufferInfos'[o] = bufferInfos[o]
      /\ \A i \in 1 .. freeSpace : photoBuffer'[i] = photoBuffer[i]
      /\ bufferInfos'[b].status = "Occupied" =>
            /\ bufferInfos'[b].at = freeSpace /\ bufferInfos'[b].at + bufferInfos'[b].size = freeSpace'
            /\ \A i \in freeSpace + 1 .. freeSpace' : photoBuffer'[i] = b
  <2>1. CASE \E size \in PhotoSizes :
              /\ freeSpace + size <= PhotoSpace
              /\ freeSpace' = freeSpace + size
              /\ photoBuffer' = [i \in 1 .. PhotoSpace |->
                                    IF i \in freeSpace + 1 .. freeSpace' THEN b ELSE photoBuffer[i]]
              /\ bufferInfos' = [bufferInfos EXCEPT ![b] =
                                    [status |-> "Occupied", at |-> freeSpace, size |-> size]]
    <3>1. PICK size \in PhotoSizes :
              /\ freeSpace + size <= PhotoSpace
              /\ freeSpace' = freeSpace + size
              /\ photoBuffer' = [i \in 1 .. PhotoSpace |->
                                    IF i \in freeSpace + 1 .. freeSpace' THEN b ELSE photoBuffer[i]]
              /\ bufferInfos' = [bufferInfos EXCEPT ![b] =
                                    [status |-> "Occupied", at |-> freeSpace, size |-> size]]
      BY <2>1
    <3>2. size \in Nat
      BY PhotoConstants
    <3> HIDE DEF b
    <3> QED
      BY <1>3, <1>4, <3>1, <3>2
  <2>2. CASE /\ bufferInfos' = [bufferInfos EXCEPT ![b] = [EmptyBuffer EXCEPT !.status = "Failed"]]
             /\ photoBuffer' = [i \in 1 .. PhotoSpace |-> IF i > freeSpace THEN Junk ELSE photoBuffer[i]]
             /\ UNCHANGED freeSpace
    <3>1. [EmptyBuffer EXCEPT !.status = "Failed"] = [status |-> "Failed", at |-> 0, size |-> 0]
      BY DEF EmptyBuffer
    <3> HIDE DEF b
    <3> QED
      BY <1>3, <1>4, <2>2, <3>1
  <2> QED
    BY <2>1, <2>2 DEF DownloadPhoto
<1> HIDE DEF b, command
<1>6. PhotosBelow' /\ PhotoIntact'
  <2>1. SUFFICES ASSUME NEW o \in PhotoBuffers, bufferInfos'[o].status = "Occupied"
                 PROVE  /\ bufferInfos'[o].at + bufferInfos'[o].size <= freeSpace'
                        /\ \A i \in bufferInfos'[o].at + 1 .. bufferInfos'[o].at + bufferInfos'[o].size : photoBuffer'[i] = o
    BY DEF PhotosBelow, PhotoIntact
  <2>2. CASE o = b
    BY <1>4, <1>5, <2>1, <2>2
  <2>3. CASE o # b
    <3>1. /\ bufferInfos'[o] = bufferInfos[o] /\ bufferInfos[o].at \in Nat /\ bufferInfos[o].size \in Nat
          /\ bufferInfos[o].at + bufferInfos[o].size <= freeSpace
          /\ \A i \in bufferInfos[o].at + 1 .. bufferInfos[o].at + bufferInfos[o].size : photoBuffer[i] = o
      BY <1>4, <1>5, <2>1, <2>3 DEF PhotoInv, PhotosBelow, PhotoIntact
    <3>2. \A i \in bufferInfos[o].at + 1 .. bufferInfos[o].at + bufferInfos[o].size :
             i \in 1 .. freeSpace /\ photoBuffer'[i] = photoBuffer[i]
      BY <1>4, <1>5, <3>1
    <3> QED
      BY <1>4, <1>5, <3>1, <3>2
  <2> QED
    BY <2>2, <2>3
<1>7. PhotoTypeOK' /\ IdleOnQueue'
  BY <1>1, <1>5, TransferKeeps DEF PhotoInv, PhotoTypeOK
<1> QED
  BY <1>2, <1>6, <1>7 DEF PhotoInv

(* The task reports that it is idle.                                        *)
LEMMA GoesIdleStep ==
    ASSUME PhotoInv, GoesIdle
    PROVE  PhotoInv'
<1>1. /\ idleFlag' = TRUE /\ photoTask' = [photoTask EXCEPT !.at = "queue"]
      /\ UNCHANGED <<commandQueue, bufferInfos, freeSpace, photoBuffer, camerasOn, offFailed, calls, calling>>
  BY DEF GoesIdle, GoesIdleWith
<1>2. /\ photoTask'.at = "queue"
      /\ photoTask' \in [at : {"queue", "pop", "sleep", "device"}, command : Commanded,
                         row : SUBSET PhotoClients, clear : SUBSET PhotoClients]
      /\ photoTask.at = "pop"
  BY <1>1 DEF PhotoInv, PhotoTypeOK, GoesIdle, GoesIdleWith
<1>3. OffsAhead'
  <2>1. \A k \in Cameras : \A c \in PhotoClients : Closed(calls[c], k)'
    BY <1>1 DEF PhotoInv, OffsAhead, Closed, OffBehind
  <2> QED
    BY <1>1, <1>2, <2>1, PromisesKept DEF PhotoInv, OffsAhead
<1>4. PhotoTypeOK' /\ IdleOnQueue'
  BY <1>1, <1>2 DEF PhotoInv, PhotoTypeOK, IdleOnQueue, Resting
<1> QED
  BY <1>1, <1>3, <1>4, PhotosKeptStep DEF PhotoInv

(* A sleep of the task ends.                                                *)
LEMMA SleepEndsStep ==
    ASSUME PhotoInv, SleepEnds
    PROVE  PhotoInv'
<1>1. /\ photoTask.at = "sleep" /\ NextCommand
      /\ UNCHANGED <<commandQueue, idleFlag, bufferInfos, freeSpace, photoBuffer, camerasOn, offFailed, calls, calling>>
  BY DEF SleepEnds, PhotoRequests
<1>2. [from |-> "comm", do |-> BreakCmd] \in Commanded
  BY PhotoCalls DEF Commanded, PhotoClients
<1>3. /\ photoTask'.at = "pop"
      /\ photoTask' \in [at : {"queue", "pop", "sleep", "device"}, command : Commanded,
                         row : SUBSET PhotoClients, clear : SUBSET PhotoClients]
  BY <1>1, <1>2 DEF NextCommand
<1>4. OffsAhead'
  <2>1. \A k \in Cameras : \A c \in PhotoClients : Closed(calls[c], k)'
    BY <1>1 DEF PhotoInv, OffsAhead, Closed, OffBehind
  <2> QED
    BY <1>1, <1>3, <2>1, PromisesKept DEF PhotoInv, OffsAhead
<1>5. PhotoTypeOK' /\ IdleOnQueue'
  BY <1>1, <1>3 DEF PhotoInv, PhotoTypeOK, IdleOnQueue, Resting
<1> QED
  BY <1>1, <1>4, <1>5, PhotosKeptStep DEF PhotoInv

(* The task takes the first command: what that one promised of a camera it  *)
(* is about to keep.                                                        *)
LEMMA TakesCommandStep ==
    ASSUME PhotoInv, TakesCommand
    PROVE  PhotoInv'
<1> DEFINE command == Head(commandQueue)
<1>1. /\ photoTask.at \in {"pop", "queue"} /\ commandQueue # <<>> /\ commandQueue' = Tail(commandQueue)
      /\ idleFlag' = FALSE /\ Invoke(command)
      /\ UNCHANGED <<photoBuffer, camerasOn, offFailed, calls, calling>>
  BY DEF TakesCommand, Resting, PhotoRequests
<1>2. /\ commandQueue \in Seq(Commanded) /\ command \in Commanded /\ commandQueue' \in Seq(Commanded)
      /\ Len(commandQueue') = Len(commandQueue) - 1 /\ Len(commandQueue) \in Nat \ {0}
      /\ commandQueue[1] = command
      /\ \A i \in 1 .. Len(commandQueue') : commandQueue'[i] = commandQueue[i + 1]
  BY <1>1 DEF PhotoInv, PhotoTypeOK
<1>3. command.do \in PhotoCall /\ command.do.buffer \in PhotoBuffers
  BY <1>2 DEF Commanded, PhotoCall
<1> HIDE DEF command
<1>4. /\ photoTask' \in [at : {"queue", "pop", "sleep", "device"}, command : Commanded,
                         row : SUBSET PhotoClients, clear : SUBSET PhotoClients]
      /\ \/ photoTask'.at = "device" /\ photoTask'.command = command
         \/ photoTask'.at # "device" /\ \A k : ~SwitchesOff(command.do, k)
  <2>1. [from |-> "comm", do |-> BreakCmd] \in Commanded
    BY PhotoCalls DEF Commanded, PhotoClients
  <2> QED
    BY <1>1, <1>2, <2>1 DEF Invoke, NextCommand, Blocks, SwitchesOff
<1>5. \/ freeSpace' = 0 /\ bufferInfos' = [b \in PhotoBuffers |-> EmptyBuffer]
      \/ UNCHANGED <<freeSpace, bufferInfos>>
      \/ UNCHANGED freeSpace
         /\ bufferInfos' = [bufferInfos EXCEPT ![command.do.buffer] = [EmptyBuffer EXCEPT !.status = "Downloading"]]
  BY <1>1 DEF Invoke, Reset
<1>6. /\ bufferInfos' \in [PhotoBuffers -> [status : {"Empty", "Downloading", "Occupied", "Failed"}, at : Nat, size : Nat]]
      /\ freeSpace' \in 0 .. PhotoSpace
      /\ \A b \in PhotoBuffers : bufferInfos'[b].status = "Occupied" =>
            bufferInfos'[b] = bufferInfos[b] /\ freeSpace' = freeSpace
  <2>1. /\ [EmptyBuffer EXCEPT !.status = "Downloading"] = [status |-> "Downloading", at |-> 0, size |-> 0]
        /\ EmptyBuffer = [status |-> "Empty", at |-> 0, size |-> 0]
    BY DEF EmptyBuffer
  <2>2. /\ freeSpace \in 0 .. PhotoSpace /\ PhotoSpace \in Nat
        /\ bufferInfos \in [PhotoBuffers -> [status : {"Empty", "Downloading", "Occupied", "Failed"}, at : Nat, size : Nat]]
    BY PhotoConstants DEF PhotoInv, PhotoTypeOK
  <2>3. CASE freeSpace' = 0 /\ bufferInfos' = [b \in PhotoBuffers |-> EmptyBuffer]
    BY <2>1, <2>2, <2>3
  <2>4. CASE UNCHANGED <<freeSpace, bufferInfos>>
    BY <2>2, <2>4
  <2>5. CASE /\ UNCHANGED freeSpace
             /\ bufferInfos' = [bufferInfos EXCEPT ![command.do.buffer] = [EmptyBuffer EXCEPT !.status = "Downloading"]]
    BY <1>3, <2>1, <2>2, <2>5
  <2> QED
    BY <1>5, <2>3, <2>4, <2>5
<1>7. PhotosBelow' /\ PhotoIntact'
  BY <1>1, <1>6 DEF PhotoInv, PhotosBelow, PhotoIntact
<1>8. ASSUME NEW k \in Cameras
      PROVE  /\ \A i \in Nat : WillSwitchOff(k, i + 1) => WillSwitchOff(k, i)'
             /\ WillSwitchOff(k, 0) => WillSwitchOff(k, 1) \/ SwitchesOff(command.do, k)
  <2>1. ClientWillSwitchOff(k)' <=> ClientWillSwitchOff(k)
    BY <1>1 DEF ClientWillSwitchOff, FirstAhead
  <2>2. ASSUME NEW i \in Nat, QueueSwitchesOff(k, i + 1) PROVE QueueSwitchesOff(k, i)'
    <3>1. PICK j \in i + 2 .. Len(commandQueue) : SwitchesOff(commandQueue[j].do, k)
      BY <2>2 DEF QueueSwitchesOff
    <3>2. j - 1 \in i + 1 .. Len(commandQueue') /\ commandQueue'[j - 1] = commandQueue[j]
      BY <1>2, <3>1
    <3> QED
      BY <3>1, <3>2 DEF QueueSwitchesOff
  <2>3. QueueSwitchesOff(k, 0) => QueueSwitchesOff(k, 1) \/ SwitchesOff(command.do, k)
    BY <1>2 DEF QueueSwitchesOff
  <2> QED
    BY <2>1, <2>2, <2>3 DEF WillSwitchOff
<1>9. OffsAhead'
  <2>1. SUFFICES ASSUME NEW k \in Cameras
                 PROVE  /\ \A c \in PhotoClients : Closed(calls[c], k)'
                        /\ \A i \in 1 .. Len(commandQueue') :
                              NeedsOff(commandQueue'[i].do, k) => WillSwitchOff(k, i)'
                        /\ photoTask'.at = "device" /\ NeedsOff(photoTask'.command.do, k) => WillSwitchOff(k, 0)'
                        /\ k \in camerasOn =>
                              \/ offFailed \/ WillSwitchOff(k, 0)'
                              \/ photoTask'.at = "device" /\ SwitchesOff(photoTask'.command.do, k)
    BY <1>1 DEF OffsAhead
  <2>2. \A c \in PhotoClients : Closed(calls[c], k)'
    BY <1>1 DEF PhotoInv, OffsAhead, Closed, OffBehind
  <2>3. ASSUME NEW i \in 1 .. Len(commandQueue'), NeedsOff(commandQueue'[i].do, k)
        PROVE  WillSwitchOff(k, i)'
    <3>1. i + 1 \in 1 .. Len(commandQueue) /\ NeedsOff(commandQueue[i + 1].do, k)
      BY <1>2, <2>3
    <3>2. WillSwitchOff(k, i + 1)
      BY <3>1 DEF PhotoInv, OffsAhead
    <3> QED
      BY <1>8, <3>2
  <2>4. NeedsOff(command.do, k) => WillSwitchOff(k, 1)
    BY <1>2 DEF PhotoInv, OffsAhead
  <2>5. WillSwitchOff(k, 1) => WillSwitchOff(k, 0)'
    <3>1. 0 \in Nat /\ 0 + 1 = 1
      OBVIOUS
    <3> QED
      BY <1>8, <3>1
  <2>6. k \in camerasOn => offFailed \/ WillSwitchOff(k, 0)
    BY <1>1 DEF PhotoInv, OffsAhead
  <2> QED
    BY <1>4, <1>8, <2>2, <2>3, <2>4, <2>5, <2>6
<1>10. PhotoTypeOK' /\ IdleOnQueue'
  BY <1>1, <1>2, <1>4, <1>6 DEF PhotoInv, PhotoTypeOK, IdleOnQueue
<1> QED
  BY <1>7, <1>9, <1>10 DEF PhotoInv

(* Nothing is on and nothing held when an experiment begins.                *)
LEMMA PhotoInitInv == PhotoInit => PhotoInv
<1> SUFFICES ASSUME PhotoInit PROVE PhotoInv
  OBVIOUS
<1>1. PICK p \in PhotoPrograms : calls = [experiment |-> ExperimentPrograms[p], comm |-> <<>>]
  BY DEF PhotoInit
<1>2. p \in DOMAIN ExperimentPrograms
  BY PhotoConstants
<1>3. ExperimentPrograms[p] \in Seq(PhotoCall)
  BY <1>2, ExperimentsClose DEF Cameras
<1>4. /\ calls \in [PhotoClients -> Seq(PhotoCall)]
      /\ calls["experiment"] = ExperimentPrograms[p] /\ calls["comm"] = <<>>
  <2>1. <<>> \in Seq(PhotoCall)
    OBVIOUS
  <2> DEFINE program == ExperimentPrograms[p]
  <2> HIDE DEF program
  <2>2. calls = [experiment |-> program, comm |-> <<>>] /\ program \in Seq(PhotoCall)
    BY <1>1, <1>3 DEF program
  <2>3. /\ calls["experiment"] = program /\ calls["comm"] = <<>>
        /\ calls = [c \in PhotoClients |-> calls[c]]
    BY <2>2 DEF PhotoClients
  <2>4. \A c \in PhotoClients : calls[c] \in Seq(PhotoCall)
    BY <2>1, <2>2, <2>3 DEF PhotoClients
  <2> QED
    BY <2>3, <2>4 DEF program
<1>5. \A k \in Cameras : \A c \in PhotoClients : Closed(calls[c], k)
  <2>1. \A k \in Cameras : Closed(calls["experiment"], k)
    BY <1>2, <1>4, ExperimentsClose
  <2>2. \A k \in Cameras : Closed(calls["comm"], k)
    BY <1>4 DEF Closed
  <2> QED
    BY <2>1, <2>2 DEF PhotoClients
<1>6. [from |-> "comm", do |-> BreakCmd] \in Commanded
  BY PhotoCalls DEF Commanded, PhotoClients
<1>7. PhotoTypeOK
  BY <1>4, <1>6, PhotoConstants DEF PhotoInit, PhotoTypeOK, EmptyBuffer, PhotoBuffers
<1> QED
  BY <1>5, <1>7 DEF PhotoInit, PhotoInv, IdleOnQueue, Resting, PhotosBelow, PhotoIntact, OffsAhead, EmptyBuffer

(* Every step of the service and of its clients keeps the invariant.        *)
LEMMA PhotoInvKept == PhotoInv /\ [PhotoNext]_photoVars => PhotoInv'
<1> SUFFICES ASSUME PhotoInv, [PhotoNext]_photoVars PROVE PhotoInv'
  OBVIOUS
<1>1. CASE TaskProc
  BY <1>1, TakesCommandStep, GoesIdleStep, SleepEndsStep, EnableCameraStep, DisableCameraStep, TakePhotoStep,
     DownloadPhotoStep, SavePhotoStep DEF TaskProc
<1>2. ASSUME NEW c \in PhotoClients, PhotoClient(c) PROVE PhotoInv'
  BY <1>2, RequestStep, ClearIdleStep, SavePhotosStep, WaitStep, PurgeStep DEF PhotoClient
<1>3. CASE PhotoTelecommand
  BY <1>3, PhotoTelecommandStep
<1>4. CASE UNCHANGED photoVars
  <2>1. OffsAhead'
    <3>1. \A k \in Cameras : \A c \in PhotoClients : Closed(calls[c], k)'
      BY <1>4 DEF PhotoInv, OffsAhead, Closed, OffBehind, photoVars
    <3> QED
      BY <1>4, <3>1, PromisesKept DEF PhotoInv, OffsAhead, photoVars
  <2>2. PhotoTypeOK' /\ IdleOnQueue'
    BY <1>4 DEF PhotoInv, PhotoTypeOK, IdleOnQueue, Resting, photoVars
  <2> QED
    BY <1>4, <2>1, <2>2, PhotosKeptStep DEF PhotoInv, photoVars
<1> QED
  BY <1>1, <1>2, <1>3, <1>4 DEF PhotoNext, PhotoRests

(* For any sizes of the queue, of the buffer and of photos, any number of   *)
(* telecommands and faults: no photo is overwritten while a buffer holds it,*)
(* and when all is done no camera is on but for one that could not be       *)
(* switched off (photo_service.cpp:51-195, 359-392).                        *)
THEOREM PhotosAreSafe == PhotoSpec => []PhotosSafe
<1>1. PhotoInv => PhotosSafe
  <2> SUFFICES ASSUME PhotoInv PROVE CamerasOffWhenDone
    BY DEF PhotosSafe, PhotoInv
  <2> SUFFICES ASSUME \A c \in PhotoClients : calls[c] = <<>>, Resting, commandQueue = <<>>, ~offFailed
               PROVE  camerasOn = {}
    BY DEF CamerasOffWhenDone
  <2>1. \A k \in Cameras : ~ClientWillSwitchOff(k)
    BY DEF ClientWillSwitchOff, FirstAhead
  <2>2. \A k \in Cameras : ~WillSwitchOff(k, 0)
    BY <2>1 DEF WillSwitchOff, QueueSwitchesOff
  <2> QED
    BY <2>2 DEF PhotoInv, PhotoTypeOK, OffsAhead, Resting
<1> QED
  BY <1>1, PhotoInitInv, PhotoInvKept, PTL DEF PhotoSpec

(* WaitForFinish does not return before the commands of its caller are done *)
(* or purged: the flag it waits for is up only while the task waits on the  *)
(* queue, which must be empty for a client to run at all                    *)
(* (photo_service.cpp:359-392).                                             *)
THEOREM FinishedInTime == PhotoSpec => NotFinishedEarly
<1>1. PhotoInv /\ [PhotoNext]_photoVars =>
        [\A c \in PhotoClients :
          MakesCall(c, "WaitForFinish") /\ calls'[c] # calls[c] =>
              /\ \A i \in 1 .. Len(commandQueue) : commandQueue[i].from # c
              /\ Resting]_photoVars
  <2> SUFFICES ASSUME PhotoInv, PhotoNext, NEW c \in PhotoClients, MakesCall(c, "WaitForFinish"), calls'[c] # calls[c]
               PROVE  Resting /\ commandQueue = <<>>
    OBVIOUS
  <2>1. idleFlag
    <3>1. calls \in [PhotoClients -> Seq(PhotoCall)]
      BY DEF PhotoInv, PhotoTypeOK
    <3>2. calling[c] = "call" /\ calls[c] # <<>> /\ Head(calls[c]).op = "WaitForFinish"
      BY DEF MakesCall
    <3>3. ~TaskProc
      BY DEF TaskProc, TakesCommand, GoesIdle, GoesIdleWith, SleepEnds, EnableCamera, DisableCamera,
             TakePhoto, DownloadPhoto, SavePhoto, QueueKept, PhotoRequests
    <3>4. ~PhotoTelecommand
      <4>1. ASSUME PhotoTelecommand PROVE FALSE
        <5>1. c # "comm" /\ \E program : calls' = [calls EXCEPT !["comm"] = program]
          BY <3>2, <4>1 DEF PhotoTelecommand
        <5> QED
          BY <3>1, <5>1
      <4> QED
        BY <4>1
    <3>5. PICK d \in PhotoClients : PhotoClient(d)
      BY <3>3, <3>4 DEF PhotoNext, PhotoRests, photoVars
    <3>6. d = c
      <4>1. calls' = [calls EXCEPT ![d] = Tail(@)] \/ calls' = calls
        BY <3>5 DEF PhotoClient, Request, ClearIdle, SavePhotos, WaitForFinish, PurgePendingCommands, CallReturns
      <4> QED
        BY <3>1, <4>1
    <3> QED
      BY <3>2, <3>5, <3>6 DEF PhotoClient, Request, ClearIdle, SavePhotos, WaitForFinish,
         PurgePendingCommands, MakesCall, QueueCommands
  <2>2. Resting
    BY <2>1 DEF PhotoInv, IdleOnQueue
  <2> QED
    BY <2>2 DEF MakesCall, Blocked
<1> QED
  BY <1>1, PhotoInitInv, PhotoInvKept, PTL DEF PhotoSpec, NotFinishedEarly

-----------------------------------------------------------------------------
(* Telemetry (libs/telemetry) *)

Halves == [1 .. 2 -> Nat]

SavePlaces == {"acquire", "serialize", "copying", "condition", "open", "move", "create", "write"}

ArchiveTypeOK ==
    /\ currentFile \in Seq(Nat) /\ previousFile \in Seq(Nat) /\ slots \in Seq(Nat)
    /\ serialized \in Halves /\ bufferLock \in {"none", "loop"} \cup BeaconSenders
    /\ delta \in Int /\ acquired \in Nat /\ quiet \in Nat
    /\ archive \in [pc : SavePlaces, content : Halves]
    /\ beacon \in [BeaconSenders -> [pc : {"idle", "copied half", "start", "writing", "send"},
                                     copy : Halves, frame : Halves]]

\* Who holds the lock is between its two steps.
BufferLocked ==
    /\ bufferLock = "loop" <=> archive.pc = "copying"
    /\ \A b \in BeaconSenders : bufferLock = b <=> beacon[b].pc = "writing"

\* The buffer and what is made of it are whole outside of these.
BufferWhole ==
    /\ archive.pc = "copying" => serialized[1] = acquired
    /\ archive.pc # "copying" => serialized[1] = serialized[2]
    /\ archive.content[1] = archive.content[2]
    /\ beacon["telecommand"].pc = "writing" => beacon["telecommand"].frame[1] = serialized[1]
    /\ CommandedBeaconWhole

\* As many iterations have passed as the time of the last save is away, and
\* one more if that was put back behind it.
SaveIsNear ==
    CASE archive.pc = "acquire" -> quiet = 0 \/ (delta \in 0 .. SaveDelay - 1 /\ quiet <= delta + 1)
      [] archive.pc \in {"serialize", "copying", "condition"} ->
             SaveCondition \/ quiet = 0 \/ quiet <= delta + 1
      [] OTHER -> quiet = 0

\* The slots used from the one to the other are found in the file.
FileHolds(file, from, to) == \A k \in from .. to : slots[k] # Torn => slots[k] \in EntriesOf(file)

\* The last places used, n of them, are in the current file, and the m before
\* these in the previous one, which is full unless they are all there were.
Layout(n, m) ==
    /\ n + m <= Len(slots)
    /\ Len(currentFile) <= (IF n = 0 THEN 0 ELSE (n - 1) * AlignFileEntriesTo + EntryCells)
    /\ FileHolds(currentFile, Len(slots) - n + 1, Len(slots))
    /\ FileHolds(previousFile, Len(slots) - n - m + 1, Len(slots) - n)
    /\ m >= Capacity \/ n + m = Len(slots)

FilesChange ==
    /\ archive.pc = "move" => Len(currentFile) >= MaxFileSize
    /\ archive.pc = "create" => currentFile = <<>>

PlacesKept == \E n, m \in 0 .. Len(slots) : Layout(n, m)

ArchiveInv ==
    ArchiveTypeOK /\ BufferLocked /\ BufferWhole /\ SaveIsNear /\ FilesChange /\ PlacesKept

(* What the assumption on the constants of the archive says of each of them.*)
LEMMA ArchiveConstants ==
    /\ AlignFileEntriesTo \in Nat /\ AlignFileEntriesTo >= 2
    /\ MaxFileSize \in Nat \ {0} /\ SaveDelay \in Nat \ {0} /\ Jumps \subseteq Int
BY Zenon, ArchiveAssumption

(* Quotient and remainder.                                                  *)
LEMMA DivMod ==
    ASSUME NEW x \in Nat, NEW a \in Nat \ {0}
    PROVE  x = a * (x \div a) + (x % a) /\ (x % a) \in 0 .. a - 1 /\ (x \div a) \in Nat
OBVIOUS

(* A multiple leaves no remainder.                                          *)
LEMMA MultipleOf ==
    ASSUME NEW a \in Nat \ {0}, NEW q \in Nat
    PROVE  (a * q) % a = 0
<1> DEFINE x == a * q
           d == x \div a
           r == x % a
<1>1. x \in Nat /\ x = a * q
  OBVIOUS
<1> HIDE DEF x
<1>2. x = a * d + r /\ r \in 0 .. a - 1 /\ d \in Int
  <2>1. x \in Nat
    BY <1>1
  <2> QED
    BY <2>1, DivMod
<1> HIDE DEF d, r
<1>3. a * (q - d) = r
  <2>1. a * (q - d) = a * q - a * d
    BY <1>2
  <2> QED
    BY <1>1, <1>2, <2>1
<1>4. q - d < 1
  <2>1. \A y \in Int : y >= 1 => a * y >= a
    OBVIOUS
  <2> QED
    BY <1>2, <1>3, <2>1
<1>5. q - d > -1
  <2>1. \A y \in Int : y <= -1 => a * y <= -a
    OBVIOUS
  <2> QED
    BY <1>2, <1>3, <2>1
<1>6. q - d = 0
  BY <1>2, <1>4, <1>5
<1>7. r = 0
  BY <1>3, <1>6
<1> QED
  BY <1>7 DEF r, x

(* The offset the code computes is the least multiple that is not below.    *)
LEMMA BestOffset ==
    ASSUME NEW x \in Nat
    PROVE  /\ CalculateBestOffset(x) \in Nat /\ CalculateBestOffset(x) >= x
           /\ CalculateBestOffset(x) % AlignFileEntriesTo = 0
           /\ \A n \in Nat : x <= n * AlignFileEntriesTo => CalculateBestOffset(x) <= n * AlignFileEntriesTo
<1> DEFINE a == AlignFileEntriesTo
           q == x \div a
           r == x % a
<1>1. a \in Nat \ {0}
  BY ArchiveConstants
<1>2. x = a * q + r /\ r \in 0 .. a - 1 /\ q \in Nat
  BY <1>1, DivMod
<1>3. CASE r = 0
  <2>1. a % a = 0
    BY <1>1
  <2>2. CalculateBestOffset(x) = x
    BY <1>1, <1>3, <2>1 DEF CalculateBestOffset
  <2> QED
    BY <1>3, <2>2
<1>4. CASE r # 0
  <2>1. (a - r) % a = a - r
    BY <1>1, <1>2, <1>4
  <2>2. CalculateBestOffset(x) = x + (a - r)
    BY <2>1 DEF CalculateBestOffset
  <2> HIDE DEF a, q, r
  <2>3. x + (a - r) = a * (q + 1)
    BY <1>1, <1>2
  <2>4. (a * (q + 1)) % a = 0
    BY <1>1, <1>2, MultipleOf
  <2>5. ASSUME NEW n \in Nat, x <= n * a PROVE a * (q + 1) <= n * a
    <3>1. q < n
      <4>1. a * q < a * n
        BY <1>1, <1>2, <1>4, <2>5
      <4>2. n <= q => a * n <= a * q
        BY <1>1, <1>2
      <4> QED
        BY <1>1, <1>2, <4>1, <4>2
    <3> QED
      BY <1>1, <1>2, <3>1
  <2>6. /\ x + (a - r) \in Nat /\ x + (a - r) >= x
        /\ (x + (a - r)) % a = 0
        /\ \A n \in Nat : x <= n * a => x + (a - r) <= n * a
    BY <1>1, <1>2, <2>3, <2>4, <2>5
  <2> QED
    BY <2>2, <2>6 DEF a
<1> QED
  BY <1>2, <1>3, <1>4

\* A file that is due to be moved has as many places as a file can have.
LEMMA FullFile ==
    ASSUME NEW n \in Nat \ {0}, MaxFileSize <= (n - 1) * AlignFileEntriesTo + EntryCells
    PROVE  n >= Capacity
<1> DEFINE a == AlignFileEntriesTo
           x == MaxFileSize - EntryCells + a - 1
<1>1. a \in Nat \ {0} /\ MaxFileSize \in Nat \ {0} /\ EntryCells = 2
  BY ArchiveConstants DEF EntryCells
<1>2. CASE MaxFileSize <= EntryCells
  BY <1>2 DEF Capacity
<1>3. CASE MaxFileSize > EntryCells
  <2>0. x \in Nat
    BY <1>1, <1>3
  <2>1. x \in Nat /\ x = a * (x \div a) + (x % a) /\ (x % a) \in 0 .. a - 1 /\ x \div a \in Nat
    BY <1>1, <2>0, DivMod
  <2> DEFINE d == x \div a
  <2>2. x < n * a
    BY <1>1
  <2>3. Capacity = 1 + d
    BY <1>1, <1>3 DEF Capacity
  <2> HIDE DEF a, x, d
  <2>4. a * d < a * n
    BY <1>1, <2>1, <2>2 DEF d
  <2>5. n <= d => a * n <= a * d
    BY <1>1, <2>1 DEF d
  <2> QED
    BY <1>1, <2>1, <2>3, <2>4, <2>5 DEF d
<1> QED
  BY <1>1, <1>2, <1>3

(* An entry as a sequence.                                                  *)
LEMMA HalvesAre ==
    ASSUME NEW h \in Halves
    PROVE  h \in Seq(Nat) /\ Len(h) = 2 /\ h[1] \in Nat /\ h[2] \in Nat
<1>1. \A i \in 1 .. 2 : h[i] \in Nat
  BY DEF Halves
<1>2. h = [i \in 1 .. 2 |-> h[i]]
  BY DEF Halves
<1>3. [i \in 1 .. 2 |-> h[i]] \in Seq(Nat) /\ Len([i \in 1 .. 2 |-> h[i]]) = 2
  BY <1>1
<1> QED
  BY <1>1, <1>2, <1>3

\* What is behind the end of a file stays what it was.
LEMMA EntriesStay ==
    ASSUME currentFile \in Seq(Nat), NEW content \in Halves, NEW amount \in 1 .. 2
    PROVE  /\ Written(content, amount) \in Seq(Nat)
           /\ Len(Written(content, amount)) = CalculateBestOffset(Len(currentFile)) + amount
           /\ EntriesOf(currentFile) \subseteq EntriesOf(Written(content, amount))
           /\ amount = 2 /\ content[1] = content[2] => content[1] \in EntriesOf(Written(content, amount))
<1> DEFINE l == Len(currentFile)
           o == CalculateBestOffset(l)
           gap == [k \in 1 .. o - l |-> Hole]
           part == SubSeq(content, 1, amount)
           new == Written(content, amount)
<1>1. l \in Nat /\ o \in Nat /\ o >= l /\ o % AlignFileEntriesTo = 0
  BY BestOffset
<1> HIDE DEF o
<1>2. gap \in Seq(Nat) /\ Len(gap) = o - l
  BY <1>1 DEF Hole
<1>3. content \in Seq(Nat) /\ Len(content) = 2
  BY HalvesAre
<1>4. part \in Seq(Nat) /\ Len(part) = amount /\ part[1] = content[1] /\ (amount = 2 => part[2] = content[2])
  <2>1. \A i \in 1 .. amount : content[i] \in Nat
    BY HalvesAre
  <2>2. /\ part \in Seq(Nat) /\ Len(part) = (IF 1 <= amount THEN amount - 1 + 1 ELSE 0)
        /\ \A i \in 1 .. amount - 1 + 1 : part[i] = content[1 + i - 1]
    BY <2>1, SubSeqProperties
  <2> QED
    BY <2>2
<1>5. new = (currentFile \o gap) \o part
  BY DEF Written, o
<1> HIDE DEF gap, part, new
<1>6. /\ currentFile \o gap \in Seq(Nat) /\ Len(currentFile \o gap) = o
      /\ \A j \in 1 .. l : (currentFile \o gap)[j] = currentFile[j]
  BY <1>1, <1>2
<1>7. /\ new \in Seq(Nat) /\ Len(new) = o + amount
      /\ \A j \in 1 .. l : new[j] = currentFile[j]
      /\ \A j \in 1 .. amount : new[o + j] = part[j]
  <2> DEFINE front == currentFile \o gap
  <2>1. front \in Seq(Nat) /\ Len(front) = o /\ \A j \in 1 .. l : front[j] = currentFile[j]
    BY <1>6
  <2>2. new = front \o part
    BY <1>5
  <2> HIDE DEF front
  <2>3. new \in Seq(Nat) /\ Len(new) = o + amount
    BY <1>1, <1>4, <2>1, <2>2
  <2>4. \A j \in 1 .. l : new[j] = front[j]
    BY <1>1, <1>4, <2>1, <2>2
  <2>5. \A j \in 1 .. amount : new[o + j] = part[j]
    BY <1>1, <1>4, <2>1, <2>2
  <2> QED
    BY <2>1, <2>3, <2>4, <2>5
<1>8. EntriesOf(currentFile) \subseteq EntriesOf(new)
  <2>1. \A j \in 1 .. Len(currentFile) - 1 :
            j \in 1 .. Len(new) - 1 /\ new[j] = currentFile[j] /\ new[j + 1] = currentFile[j + 1]
    BY <1>1, <1>7
  <2> QED
    BY <2>1 DEF EntriesOf
<1>9. ASSUME amount = 2, content[1] = content[2] PROVE content[1] \in EntriesOf(new)
  <2>1. new[o + 1] = content[1] /\ new[o + 2] = content[1] /\ o + 1 \in 1 .. Len(new) - 1 /\ (o + 1) - 1 = o
    BY <1>1, <1>4, <1>7, <1>9
  <2>2. new[o + 1] = new[(o + 1) + 1] /\ ((o + 1) - 1) % AlignFileEntriesTo = 0
    BY <1>1, <2>1
  <2> QED
    BY <2>1, <2>2 DEF EntriesOf
<1> QED
  BY <1>7, <1>8, <1>9 DEF new, o

(* Steps that leave the files alone keep what is found in them.             *)
LEMMA FilesStay ==
    ASSUME PlacesKept, UNCHANGED files
    PROVE  PlacesKept'
<1>1. UNCHANGED <<currentFile, previousFile, slots>>
  BY DEF files
<1>2. PICK n \in 0 .. Len(slots), m \in 0 .. Len(slots) : Layout(n, m)
  BY DEF PlacesKept
<1>3. Layout(n, m)'
  BY <1>1, <1>2 DEF Layout, FileHolds, EntriesOf
<1> QED
  BY <1>1, <1>3 DEF PlacesKept

(* Types of the files and their lengths.                                    *)
LEMMA FileTypes ==
    ASSUME ArchiveInv
    PROVE  /\ currentFile \in Seq(Nat) /\ previousFile \in Seq(Nat) /\ slots \in Seq(Nat)
           /\ Len(currentFile) \in Nat /\ Len(slots) \in Nat
<1>1. currentFile \in Seq(Nat) /\ previousFile \in Seq(Nat) /\ slots \in Seq(Nat)
  BY DEF ArchiveInv, ArchiveTypeOK
<1> QED
  BY <1>1

BeaconTypes == [BeaconSenders -> [pc : {"idle", "copied half", "start", "writing", "send"},
                                  copy : Halves, frame : Halves]]

\* The types after a step, of what it may change.
LEMMA TypesAfter ==
    ASSUME currentFile' \in Seq(Nat), previousFile' \in Seq(Nat), slots' \in Seq(Nat),
           serialized' \in Halves, bufferLock' \in {"none", "loop"} \cup BeaconSenders,
           delta' \in Int, acquired' \in Nat, quiet' \in Nat,
           archive' \in [pc : SavePlaces, content : Halves], beacon' \in BeaconTypes
    PROVE  ArchiveTypeOK'
BY DEF ArchiveTypeOK, BeaconTypes

(* The types of everything else.                                            *)
LEMMA TypesBefore ==
    ASSUME ArchiveInv
    PROVE  /\ serialized \in Halves /\ bufferLock \in {"none", "loop"} \cup BeaconSenders
           /\ delta \in Int /\ acquired \in Nat /\ quiet \in Nat
           /\ archive \in [pc : SavePlaces, content : Halves] /\ archive.content \in Halves
           /\ beacon \in BeaconTypes
BY DEF ArchiveInv, ArchiveTypeOK, BeaconTypes

(* The loop goes on to its next place.                                      *)
LEMMA LoopMoves ==
    ASSUME ArchiveInv, NEW here, NEW there \in SavePlaces, LoopAt(here, there)
    PROVE  /\ archive.pc = here /\ archive'.pc = there /\ archive'.content = archive.content
           /\ archive' \in [pc : SavePlaces, content : Halves]
BY DEF LoopAt, ArchiveInv, ArchiveTypeOK

(* The loop gives up, or is done.                                           *)
LEMMA LoopRestarts ==
    ASSUME ArchiveInv, NextIteration
    PROVE  /\ archive'.pc = "acquire" /\ archive'.content = archive.content
           /\ archive' \in [pc : SavePlaces, content : Halves]
BY DEF NextIteration, ArchiveInv, ArchiveTypeOK, SavePlaces

(* An acquisition: the time moves on, or jumps.                             *)
LEMMA AcquireStep ==
    ASSUME ArchiveInv, Acquire
    PROVE  ArchiveInv'
<1>0. /\ UNCHANGED files /\ UNCHANGED <<serialized, bufferLock, beacon>>
      /\ archive.pc = "acquire" /\ archive'.pc = "serialize" /\ archive'.content = archive.content
      /\ archive' \in [pc : SavePlaces, content : Halves]
  BY LoopMoves DEF Acquire, SavePlaces
<1>a. /\ delta \in Int /\ acquired \in Nat /\ quiet \in Nat /\ acquired' = acquired + 1
      /\ SaveDelay \in Nat /\ Jumps \subseteq Int
      /\ quiet = 0 \/ (delta \in 0 .. SaveDelay - 1 /\ quiet <= delta + 1)
  BY <1>0, ArchiveConstants DEF ArchiveInv, ArchiveTypeOK, Acquire, SaveIsNear
<1>b. \/ delta < SaveDelay /\ delta' = delta + 1 /\ quiet' = quiet + 1
      \/ delta >= SaveDelay /\ quiet' = quiet + 1 /\ delta' = delta
      \/ delta' \in Jumps /\ quiet' = 0
      \/ delta' = delta /\ quiet' = quiet
  BY DEF Acquire
<1>c. delta' \in Int /\ quiet' \in Nat /\ acquired' \in Nat
  <2>1. delta + 1 \in Int /\ quiet + 1 \in Nat /\ acquired + 1 \in Nat /\ 0 \in Nat
    BY <1>a
  <2> QED
    BY Zenon, <1>a, <1>b, <2>1
<1>1. ArchiveTypeOK'
  BY <1>0, <1>c DEF ArchiveInv, ArchiveTypeOK, files
<1>2. BufferLocked'
  BY <1>0 DEF ArchiveInv, BufferLocked
<1>3. BufferWhole'
  BY <1>0 DEF ArchiveInv, BufferWhole, CommandedBeaconWhole
<1>4. SaveIsNear'
  <2>1. SaveCondition' \/ quiet' = 0 \/ quiet' <= delta' + 1
    BY <1>a, <1>b DEF SaveCondition
  <2> QED
    BY <1>0, <2>1 DEF SaveIsNear
<1>5. FilesChange'
  BY <1>0 DEF FilesChange
<1>6. PlacesKept'
  BY <1>0, FilesStay DEF ArchiveInv
<1> QED
  BY <1>1, <1>2, <1>3, <1>4, <1>5, <1>6 DEF ArchiveInv

(* The loop takes the lock and copies the first half, or passes by.         *)
LEMMA SaveTelemetryLockStep ==
    ASSUME ArchiveInv, SaveTelemetryLock
    PROVE  ArchiveInv'
<1>0. /\ UNCHANGED files /\ UNCHANGED <<delta, acquired, beacon, quiet>>
      /\ archive.pc = "serialize" /\ archive'.content = archive.content
      /\ archive' \in [pc : SavePlaces, content : Halves]
      /\ \/ /\ archive'.pc = "copying" /\ bufferLock = "none" /\ bufferLock' = "loop"
            /\ serialized' = [serialized EXCEPT ![1] = acquired]
         \/ archive'.pc = "condition" /\ bufferLock # "none" /\ UNCHANGED <<bufferLock, serialized>>
  BY LoopMoves DEF SaveTelemetryLock, SavePlaces
<1>a. serialized' \in Halves /\ bufferLock' \in {"none", "loop"} \cup BeaconSenders
  <2>1. serialized \in Halves /\ acquired \in Nat /\ bufferLock \in {"none", "loop"} \cup BeaconSenders
    BY DEF ArchiveInv, ArchiveTypeOK
  <2>2. [serialized EXCEPT ![1] = acquired] \in Halves
    BY <2>1 DEF Halves
  <2> QED
    BY <1>0, <2>1, <2>2
<1>1. ArchiveTypeOK'
  BY <1>0, <1>a DEF ArchiveInv, ArchiveTypeOK, files
<1>2. BufferLocked'
  BY <1>0 DEF ArchiveInv, BufferLocked, BeaconSenders
<1>3. BufferWhole'
  <2>1. archive'.pc = "copying" => serialized'[1] = acquired
    <3>1. [serialized EXCEPT ![1] = acquired][1] = acquired
      BY TypesBefore DEF Halves
    <3> QED
      BY <1>0, <3>1
  <2>2. beacon["telecommand"].pc = "writing" => bufferLock = "telecommand"
    BY DEF ArchiveInv, BufferLocked, BeaconSenders
  <2> QED
    BY <1>0, <2>1, <2>2 DEF ArchiveInv, BufferWhole, CommandedBeaconWhole
<1>4. SaveIsNear'
  BY <1>0 DEF ArchiveInv, SaveIsNear, SaveCondition
<1>5. FilesChange'
  BY <1>0 DEF FilesChange
<1>6. PlacesKept'
  BY <1>0, FilesStay DEF ArchiveInv
<1> QED
  BY <1>1, <1>2, <1>3, <1>4, <1>5, <1>6 DEF ArchiveInv

(* It copies the second half and gives the lock back.                       *)
LEMMA SaveTelemetryCopiedStep ==
    ASSUME ArchiveInv, SaveTelemetryCopied
    PROVE  ArchiveInv'
<1>0. /\ UNCHANGED files /\ UNCHANGED <<delta, acquired, beacon, quiet>>
      /\ archive.pc = "copying" /\ archive'.content = archive.content /\ archive'.pc = "condition"
      /\ archive' \in [pc : SavePlaces, content : Halves]
      /\ bufferLock' = "none" /\ serialized' = [serialized EXCEPT ![2] = acquired]
  BY LoopMoves DEF SaveTelemetryCopied, SavePlaces
<1>a. serialized' \in Halves
  <2>1. serialized \in Halves /\ acquired \in Nat
    BY DEF ArchiveInv, ArchiveTypeOK
  <2> QED
    BY <1>0, <2>1 DEF Halves
<1>1. ArchiveTypeOK'
  BY <1>0, <1>a DEF ArchiveInv, ArchiveTypeOK, files
<1>2. BufferLocked'
  BY <1>0 DEF ArchiveInv, BufferLocked, BeaconSenders
<1>3. BufferWhole'
  <2>1. serialized'[1] = acquired /\ serialized'[2] = acquired
    <3>1. serialized[1] = acquired
      BY <1>0 DEF ArchiveInv, BufferWhole
    <3>2. [serialized EXCEPT ![2] = acquired][1] = serialized[1] /\ [serialized EXCEPT ![2] = acquired][2] = acquired
      BY TypesBefore DEF Halves
    <3> QED
      BY <1>0, <3>1, <3>2
  <2> QED
    BY <1>0, <2>1 DEF ArchiveInv, BufferLocked, BufferWhole, CommandedBeaconWhole, BeaconSenders
<1>4. SaveIsNear'
  BY <1>0 DEF ArchiveInv, SaveIsNear, SaveCondition
<1>5. FilesChange'
  BY <1>0 DEF FilesChange
<1>6. PlacesKept'
  BY <1>0, FilesStay DEF ArchiveInv
<1> QED
  BY <1>1, <1>2, <1>3, <1>4, <1>5, <1>6 DEF ArchiveInv

(* A save that is due begins with a whole copy, and the count starts again. *)
LEMMA SaveStep ==
    ASSUME ArchiveInv, Save
    PROVE  ArchiveInv'
<1>0. /\ UNCHANGED files /\ UNCHANGED <<serialized, bufferLock, delta, acquired, beacon>>
      /\ archive.pc = "condition" /\ archive' \in [pc : SavePlaces, content : Halves]
      /\ \/ ~SaveCondition /\ archive'.pc = "acquire" /\ archive'.content = archive.content /\ UNCHANGED quiet
         \/ quiet' = 0 /\ archive'.pc = "acquire" /\ archive'.content = archive.content
         \/ quiet' = 0 /\ archive'.pc = "open" /\ archive'.content = serialized
  <2>1. serialized \in Halves
    BY DEF ArchiveInv, ArchiveTypeOK
  <2> QED
    BY <2>1, LoopRestarts DEF Save, SavePlaces
<1>1. ArchiveTypeOK'
  <2>1. quiet' \in Nat
    BY <1>0, TypesBefore
  <2>2. UNCHANGED <<currentFile, previousFile, slots>>
    BY <1>0 DEF files
  <2> QED
    BY <1>0, <2>1, <2>2, TypesBefore, FileTypes, TypesAfter
<1>2. BufferLocked'
  BY <1>0 DEF ArchiveInv, BufferLocked
<1>3. BufferWhole'
  BY <1>0 DEF ArchiveInv, BufferWhole, CommandedBeaconWhole
<1>4. SaveIsNear'
  <2>1. delta \in Int /\ SaveDelay \in Nat
    BY ArchiveConstants DEF ArchiveInv, ArchiveTypeOK
  <2>2. SaveCondition \/ quiet = 0 \/ quiet <= delta + 1
    BY <1>0 DEF ArchiveInv, SaveIsNear
  <2>3. archive'.pc = "acquire" => quiet' = 0 \/ (delta \in 0 .. SaveDelay - 1 /\ quiet' <= delta + 1)
    BY <1>0, <2>1, <2>2 DEF SaveCondition
  <2>4. archive'.pc \in {"acquire", "open"} /\ (archive'.pc = "open" => quiet' = 0)
    BY <1>0
  <2> QED
    BY <1>0, <2>3, <2>4 DEF SaveIsNear
<1>5. FilesChange'
  BY <1>0 DEF FilesChange
<1>6. PlacesKept'
  BY <1>0, FilesStay DEF ArchiveInv
<1> QED
  BY <1>1, <1>2, <1>3, <1>4, <1>5, <1>6 DEF ArchiveInv

(* The current file is opened and measured.                                 *)
LEMMA OpenFileStep ==
    ASSUME ArchiveInv, OpenFile
    PROVE  ArchiveInv'
<1>0. /\ UNCHANGED files /\ UNCHANGED <<serialized, bufferLock, delta, acquired, beacon, quiet>>
      /\ archive.pc = "open" /\ archive' \in [pc : SavePlaces, content : Halves]
      /\ archive'.content = archive.content
      /\ \/ archive'.pc \in {"acquire", "write"}
         \/ archive'.pc = "move" /\ Len(currentFile) >= MaxFileSize
  BY LoopRestarts, LoopMoves DEF OpenFile, FileKept, SavePlaces
<1>1. ArchiveTypeOK'
  BY <1>0 DEF ArchiveInv, ArchiveTypeOK, files
<1>2. BufferLocked'
  BY <1>0 DEF ArchiveInv, BufferLocked
<1>3. BufferWhole'
  BY <1>0 DEF ArchiveInv, BufferWhole, CommandedBeaconWhole
<1>4. SaveIsNear'
  BY <1>0 DEF ArchiveInv, SaveIsNear
<1>5. FilesChange'
  BY <1>0 DEF FilesChange, files
<1>6. PlacesKept'
  BY <1>0, FilesStay DEF ArchiveInv
<1> QED
  BY <1>1, <1>2, <1>3, <1>4, <1>5, <1>6 DEF ArchiveInv

(* The full current file becomes the previous one, which had older entries  *)
(* only.                                                                    *)
LEMMA MoveFileStep ==
    ASSUME ArchiveInv, MoveFile
    PROVE  ArchiveInv'
<1>0. /\ UNCHANGED <<serialized, bufferLock, delta, acquired, beacon, quiet, slots>>
      /\ archive.pc = "move" /\ archive' \in [pc : SavePlaces, content : Halves]
      /\ archive'.content = archive.content
      /\ \/ archive'.pc = "acquire" /\ UNCHANGED <<currentFile, previousFile>>
         \/ archive'.pc = "create" /\ previousFile' = currentFile /\ currentFile' = <<>>
  BY LoopRestarts, LoopMoves DEF MoveFile, FileKept, SavePlaces
<1>1. ArchiveTypeOK'
  <2>0. <<>> \in Seq(Nat)
    OBVIOUS
  <2>1. currentFile' \in Seq(Nat) /\ previousFile' \in Seq(Nat)
    BY Zenon, <1>0, <2>0, FileTypes
  <2> QED
    BY <1>0, <2>1, TypesBefore, FileTypes, TypesAfter
<1>2. BufferLocked'
  BY <1>0 DEF ArchiveInv, BufferLocked
<1>3. BufferWhole'
  BY <1>0 DEF ArchiveInv, BufferWhole, CommandedBeaconWhole
<1>4. SaveIsNear'
  BY <1>0 DEF ArchiveInv, SaveIsNear
<1>5. FilesChange'
  BY <1>0 DEF FilesChange
<1>6. PlacesKept'
  <2>1. CASE UNCHANGED <<currentFile, previousFile>>
    BY <2>1, FilesStay DEF ArchiveInv, MoveFile, files
  <2>2. CASE previousFile' = currentFile /\ currentFile' = <<>>
    <3>1. PICK n \in 0 .. Len(slots), m \in 0 .. Len(slots) : Layout(n, m)
      BY DEF ArchiveInv, PlacesKept
    <3>2. slots' = slots /\ Len(slots) \in Nat /\ Len(currentFile) \in Nat /\ Len(currentFile) >= MaxFileSize
      <4>1. Len(currentFile) >= MaxFileSize /\ slots' = slots
        BY <1>0 DEF ArchiveInv, FilesChange
      <4> QED
        BY <4>1, FileTypes
    <3>3. n # 0 /\ MaxFileSize <= (n - 1) * AlignFileEntriesTo + EntryCells
      <4>1. n # 0
        BY <3>1, <3>2, ArchiveConstants DEF Layout
      <4>2. (n - 1) * AlignFileEntriesTo \in Nat
        BY <4>1, ArchiveConstants
      <4> QED
        BY <3>1, <3>2, <4>1, <4>2, ArchiveConstants DEF Layout, EntryCells
    <3>4. n >= Capacity
      BY <3>1, <3>3, FullFile
    <3>5. FileHolds(previousFile', Len(slots) - n + 1, Len(slots))
      BY <2>2, <3>1 DEF Layout
    <3>6. Layout(0, n)'
      <4>1. Len(currentFile') = 0
        BY <2>2
      <4>2. FileHolds(currentFile', Len(slots) - 0 + 1, Len(slots))
        BY <3>2 DEF FileHolds
      <4>3. FileHolds(previousFile', Len(slots) - 0 - n + 1, Len(slots) - 0)
        BY <3>1, <3>2, <3>5
      <4> QED
        BY <3>1, <3>2, <3>4, <4>1, <4>2, <4>3 DEF Layout, FileHolds, Capacity
    <3> QED
      BY <3>1, <3>2, <3>6 DEF PlacesKept
  <2> QED
    BY <2>1, <2>2 DEF MoveFile
<1> QED
  BY <1>1, <1>2, <1>3, <1>4, <1>5, <1>6 DEF ArchiveInv

(* The current file, moved away before, is created anew.                    *)
LEMMA CreateFileStep ==
    ASSUME ArchiveInv, CreateFile
    PROVE  ArchiveInv'
<1>a. /\ UNCHANGED <<serialized, bufferLock, delta, acquired, beacon, quiet>>
      /\ archive.pc = "create" /\ archive' \in [pc : SavePlaces, content : Halves]
      /\ archive'.content = archive.content /\ archive'.pc \in {"acquire", "write"}
  BY LoopRestarts, LoopMoves DEF CreateFile, FileKept, SavePlaces
<1>0. UNCHANGED files
  BY DEF CreateFile, ArchiveInv, FilesChange, files
<1>1. ArchiveTypeOK'
  <2>1. UNCHANGED <<currentFile, previousFile, slots>>
    BY <1>0 DEF files
  <2> QED
    BY <1>a, <2>1, TypesBefore, FileTypes, TypesAfter
<1>2. BufferLocked'
  BY <1>a DEF ArchiveInv, BufferLocked
<1>3. BufferWhole'
  BY <1>a DEF ArchiveInv, BufferWhole, CommandedBeaconWhole
<1>4. SaveIsNear'
  BY <1>a DEF ArchiveInv, SaveIsNear
<1>5. FilesChange'
  BY <1>a DEF FilesChange
<1>6. PlacesKept'
  BY <1>0, FilesStay DEF ArchiveInv
<1> QED
  BY <1>1, <1>2, <1>3, <1>4, <1>5, <1>6 DEF ArchiveInv

\* An entry goes to the next place of the file.
LEMMA PlaceUsed ==
    ASSUME ArchiveInv, NEW content \in Halves, NEW amount \in 1 .. 2, NEW slot \in Nat,
           slot # Torn => amount = 2 /\ content[1] = content[2] /\ slot = content[1],
           currentFile' = Written(content, amount), slots' = Append(slots, slot),
           UNCHANGED previousFile
    PROVE  PlacesKept' /\ currentFile' \in Seq(Nat) /\ slots' \in Seq(Nat)
<1> DEFINE a == AlignFileEntriesTo
           l == Len(currentFile)
           used == Len(slots)
<1>0. /\ currentFile \in Seq(Nat) /\ slots \in Seq(Nat) /\ l \in Nat /\ used \in Nat
      /\ a \in Nat \ {0} /\ a >= 2
  <2>1. currentFile \in Seq(Nat) /\ slots \in Seq(Nat)
    BY DEF ArchiveInv, ArchiveTypeOK
  <2> QED
    BY <2>1, ArchiveConstants
<1>1. PICK n \in 0 .. used, m \in 0 .. used : Layout(n, m)
  BY DEF ArchiveInv, PlacesKept
<1>2. /\ currentFile' \in Seq(Nat) /\ Len(currentFile') = CalculateBestOffset(l) + amount
      /\ EntriesOf(currentFile) \subseteq EntriesOf(currentFile')
      /\ slot # Torn => slot \in EntriesOf(currentFile')
  BY <1>0, EntriesStay
<1>3. /\ slots' \in Seq(Nat) /\ Len(slots') = used + 1 /\ slots'[used + 1] = slot
      /\ \A k \in 1 .. used : slots'[k] = slots[k]
  BY <1>0
<1>4. CalculateBestOffset(l) <= n * a
  <2>1. l <= n * a
    <3>1. CASE n = 0
      BY <1>0, <1>1, <3>1 DEF Layout
    <3>2. CASE n # 0
      <4>1. l <= (n - 1) * a + 2
        BY <1>1, <3>2 DEF Layout, EntryCells
      <4>2. (n - 1) * a = n * a - a /\ n * a \in Nat
        BY <1>0, <3>2
      <4> HIDE DEF a
      <4> QED
        BY <1>0, <4>1, <4>2
    <3> QED
      BY <3>1, <3>2
  <2>2. n \in Nat
    BY <1>0
  <2> QED
    BY <1>0, <2>1, <2>2, BestOffset
<1>5. Layout(n + 1, m)'
  <2>1. (n + 1) + m <= Len(slots')
    BY <1>1, <1>3, <1>0 DEF Layout
  <2>2. Len(currentFile') <= (IF n + 1 = 0 THEN 0 ELSE ((n + 1) - 1) * a + EntryCells)
    <3>1. n * a \in Nat /\ CalculateBestOffset(l) \in Nat
      BY <1>0, BestOffset
    <3>2. Len(currentFile') <= n * a + 2
      BY <1>2, <1>4, <3>1
    <3> QED
      BY <1>0, <3>2 DEF EntryCells
  <2>3. \A k \in Len(slots') - (n + 1) + 1 .. Len(slots') : slots'[k] # Torn => slots'[k] \in EntriesOf(currentFile')
    <3>1. SUFFICES ASSUME NEW k \in used - n + 1 .. used + 1, slots'[k] # Torn
                   PROVE  slots'[k] \in EntriesOf(currentFile')
      BY <1>0, <1>3
    <3>2. CASE k = used + 1
      BY <1>2, <1>3, <3>1, <3>2
    <3>3. CASE k # used + 1
      <4>1. k \in 1 .. used /\ k \in used - n + 1 .. used
        BY <1>0, <1>1, <3>3
      <4> QED
        BY <1>1, <1>2, <1>3, <3>1, <4>1 DEF Layout, FileHolds
    <3> QED
      BY <3>2, <3>3
  <2>4. \A k \in Len(slots') - (n + 1) - m + 1 .. Len(slots') - (n + 1) :
            slots'[k] # Torn => slots'[k] \in EntriesOf(previousFile)
    <3>1. SUFFICES ASSUME NEW k \in used - n - m + 1 .. used - n, slots'[k] # Torn
                   PROVE  slots'[k] \in EntriesOf(previousFile)
      <4>1. Len(slots') - (n + 1) - m + 1 = used - n - m + 1 /\ Len(slots') - (n + 1) = used - n
        BY <1>0, <1>3
      <4> QED
        BY <4>1
    <3>2. k \in 1 .. used
      BY <1>0, <1>1 DEF Layout
    <3> QED
      BY <1>1, <1>3, <3>1, <3>2 DEF Layout, FileHolds
  <2>5. m >= Capacity \/ (n + 1) + m = Len(slots')
    <3>1. m >= Capacity \/ n + m = used
      BY <1>1 DEF Layout
    <3>2. n + m = used => (n + 1) + m = Len(slots')
      BY <1>0, <1>3
    <3> QED
      BY <3>1, <3>2
  <2> QED
    BY <2>1, <2>2, <2>3, <2>4, <2>5 DEF Layout, FileHolds, Capacity, EntriesOf
<1>6. n + 1 \in 0 .. Len(slots') /\ m \in 0 .. Len(slots')
  BY <1>0, <1>3
<1> QED
  BY <1>2, <1>3, <1>5, <1>6 DEF PlacesKept

(* The entry, a part of it or nothing is written.                           *)
LEMMA WriteFileStep ==
    ASSUME ArchiveInv, WriteFile
    PROVE  ArchiveInv'
<1>0. /\ archive.pc = "write" /\ archive' = [archive EXCEPT !.pc = "acquire"]
      /\ UNCHANGED <<previousFile, serialized, bufferLock, acquired, beacon, quiet, beacons>>
      /\ archive.content \in Halves
  BY DEF WriteFile, LoopAt, ArchiveInv, ArchiveTypeOK
<1>1. PlacesKept' /\ currentFile' \in Seq(Nat) /\ slots' \in Seq(Nat) /\ delta' \in Int
  <2>1. CASE /\ delta' = 0 /\ currentFile' = Written(archive.content, EntryCells)
             /\ slots' = Append(slots, archive.content[1])
    <3>1. archive.content[1] \in Nat /\ archive.content[1] = archive.content[2]
      BY <1>0, HalvesAre DEF ArchiveInv, BufferWhole
    <3> QED
      BY <1>0, <2>1, <3>1, PlaceUsed DEF EntryCells
  <2>2. CASE delta' = 0 /\ currentFile' = Written(archive.content, 1) /\ slots' = Append(slots, Torn)
    <3>1. Torn \in Nat
      BY DEF Torn
    <3> QED
      BY <1>0, <2>2, <3>1, PlaceUsed
  <2>3. CASE UNCHANGED <<currentFile, slots, delta>>
    BY <1>0, <2>3, FilesStay DEF files, ArchiveInv, ArchiveTypeOK
  <2> QED
    BY <2>1, <2>2, <2>3 DEF WriteFile
<1>2. ArchiveTypeOK'
  <2>1. archive' \in [pc : SavePlaces, content : Halves]
    BY <1>0, TypesBefore DEF SavePlaces
  <2> QED
    BY <1>0, <1>1, <2>1, TypesBefore, FileTypes, TypesAfter
<1>3. BufferLocked'
  BY <1>0 DEF ArchiveInv, ArchiveTypeOK, BufferLocked, BeaconSenders
<1>4. BufferWhole'
  BY <1>0 DEF ArchiveInv, ArchiveTypeOK, BufferWhole, CommandedBeaconWhole
<1>5. SaveIsNear'
  BY <1>0 DEF ArchiveInv, ArchiveTypeOK, SaveIsNear
<1>6. FilesChange'
  BY <1>0 DEF ArchiveInv, ArchiveTypeOK, FilesChange
<1> QED
  BY <1>1, <1>2, <1>3, <1>4, <1>5, <1>6 DEF ArchiveInv

(* A sender that does nothing.                                              *)
LEMMA NoBeacons ==
    /\ <<0, 0>> \in Halves
    /\ NoBeacon \in [pc : {"idle", "copied half", "start", "writing", "send"}, copy : Halves, frame : Halves]
    /\ NoBeacon.pc = "idle" /\ <<0, 0>>[1] = 0 /\ <<0, 0>>[2] = 0
<1>1. <<0, 0>> \in Halves
  BY DEF Halves
<1> QED
  BY <1>1 DEF NoBeacon

(* A restart leaves the files and nothing else.                             *)
LEMMA ArchiveResetStep ==
    ASSUME ArchiveInv, ArchiveReset
    PROVE  ArchiveInv'
<1>0. /\ UNCHANGED files /\ UNCHANGED acquired /\ delta' \in 0 .. SaveDelay /\ quiet' = 0 /\ SaveDelay \in Nat
      /\ archive' = [pc |-> "acquire", content |-> <<0, 0>>]
      /\ serialized' = <<0, 0>> /\ bufferLock' = "none"
      /\ beacon' = [b \in BeaconSenders |-> NoBeacon]
  BY ArchiveConstants DEF ArchiveReset
<1>1. ArchiveTypeOK'
  <2>1. archive' \in [pc : SavePlaces, content : Halves]
    BY <1>0, NoBeacons DEF SavePlaces
  <2>2. beacon' \in BeaconTypes
    BY <1>0, NoBeacons DEF BeaconTypes
  <2>3. serialized' \in Halves
    BY Zenon, <1>0, NoBeacons
  <2>a. delta' \in Int /\ quiet' \in Nat
    BY <1>0
  <2>4. UNCHANGED <<currentFile, previousFile, slots>>
    BY <1>0 DEF files
  <2> QED
    BY <1>0, <2>1, <2>2, <2>3, <2>a, <2>4, TypesBefore, FileTypes, TypesAfter
<1>2. BufferLocked'
  BY <1>0, NoBeacons DEF BufferLocked, BeaconSenders
<1>3. BufferWhole'
  BY <1>0, NoBeacons DEF BufferWhole, CommandedBeaconWhole, BeaconSenders
<1>4. SaveIsNear'
  BY <1>0 DEF SaveIsNear
<1>5. FilesChange'
  BY <1>0 DEF FilesChange
<1>6. PlacesKept'
  BY <1>0, FilesStay DEF ArchiveInv
<1> QED
  BY <1>1, <1>2, <1>3, <1>4, <1>5, <1>6 DEF ArchiveInv

\* A step of a sender, which changes the lock and its own frame.
LEMMA SenderStep ==
    ASSUME ArchiveInv, Others, beacon' \in BeaconTypes,
           bufferLock' \in {"none", "loop"} \cup BeaconSenders, BufferLocked',
           \/ beacon'["telecommand"].pc = "writing" /\ beacon'["telecommand"].frame[1] = serialized[1]
           \/ beacon'["telecommand"].pc = "send" /\ beacon'["telecommand"].frame[1] = beacon'["telecommand"].frame[2]
           \/ beacon'["telecommand"].pc \notin {"writing", "send"}
           \/ beacon'["telecommand"] = beacon["telecommand"]
    PROVE  ArchiveInv'
<1>0. UNCHANGED files /\ UNCHANGED <<serialized, delta, acquired, archive, quiet>>
  BY DEF Others
<1>1. ArchiveTypeOK'
  <2>1. UNCHANGED <<currentFile, previousFile, slots>>
    BY <1>0 DEF files
  <2> QED
    BY <1>0, <2>1, TypesBefore, FileTypes, TypesAfter
<1>2. BufferWhole'
  BY <1>0 DEF ArchiveInv, BufferWhole, CommandedBeaconWhole
<1>3. SaveIsNear'
  BY <1>0 DEF ArchiveInv, SaveIsNear, SaveCondition
<1>4. FilesChange'
  BY <1>0 DEF ArchiveInv, FilesChange, files
<1>5. PlacesKept'
  BY <1>0, FilesStay DEF ArchiveInv
<1> QED
  BY <1>1, <1>2, <1>3, <1>4, <1>5 DEF ArchiveInv

\* What a change of one sender leaves of the lock and of the other.
LEMMA OneSender ==
    ASSUME ArchiveInv, NEW b \in BeaconSenders, NEW to, beacon' = [beacon EXCEPT ![b] = to],
           to \in [pc : {"idle", "copied half", "start", "writing", "send"}, copy : Halves, frame : Halves]
    PROVE  /\ beacon' \in BeaconTypes /\ beacon'[b] = to
           /\ \A o \in BeaconSenders : o # b => beacon'[o] = beacon[o]
BY TypesBefore DEF BeaconTypes

(* Writing one half of an entry leaves the other.                           *)
LEMMA HalfWritten ==
    ASSUME NEW h \in Halves, NEW v \in Nat
    PROVE  /\ [h EXCEPT ![1] = v] \in Halves /\ [h EXCEPT ![1] = v][1] = v
           /\ [h EXCEPT ![2] = v] \in Halves /\ [h EXCEPT ![2] = v][1] = h[1] /\ [h EXCEPT ![2] = v][2] = v
BY DEF Halves

(* The beacon task copies the buffer, in two parts.                         *)
LEMMA CopyStateStep ==
    ASSUME ArchiveInv, CopyState
    PROVE  ArchiveInv'
<1> DEFINE b == beacon["beacon"]
<1>1. b.copy \in Halves /\ b.frame \in Halves /\ serialized \in Halves
      /\ b \in [pc : {"idle", "copied half", "start", "writing", "send"}, copy : Halves, frame : Halves]
  BY TypesBefore DEF BeaconTypes, BeaconSenders
<1>2. \A h \in Halves : [h EXCEPT ![1] = serialized[1]] \in Halves /\ [h EXCEPT ![2] = serialized[2]] \in Halves
  BY <1>1 DEF Halves
<1>3. /\ Others /\ UNCHANGED bufferLock /\ b.pc \in {"idle", "copied half"}
      /\ \/ beacon' = [beacon EXCEPT !["beacon"] = [[b EXCEPT !.pc = "copied half"] EXCEPT !.copy = [b.copy EXCEPT ![1] = serialized[1]]]]
         \/ beacon' = [beacon EXCEPT !["beacon"] = [[b EXCEPT !.pc = "start"] EXCEPT !.copy = [b.copy EXCEPT ![2] = serialized[2]]]]
  BY TypesBefore DEF CopyState, BeaconTypes, BeaconSenders
<1> HIDE DEF b
<1>4. PICK to : /\ beacon' = [beacon EXCEPT !["beacon"] = to] /\ to.pc \in {"copied half", "start"}
                /\ to \in [pc : {"idle", "copied half", "start", "writing", "send"}, copy : Halves, frame : Halves]
  <2>1. /\ [[b EXCEPT !.pc = "copied half"] EXCEPT !.copy = [b.copy EXCEPT ![1] = serialized[1]]]
              \in [pc : {"idle", "copied half", "start", "writing", "send"}, copy : Halves, frame : Halves]
        /\ [[b EXCEPT !.pc = "copied half"] EXCEPT !.copy = [b.copy EXCEPT ![1] = serialized[1]]].pc = "copied half"
    BY <1>1, <1>2
  <2>2. /\ [[b EXCEPT !.pc = "start"] EXCEPT !.copy = [b.copy EXCEPT ![2] = serialized[2]]]
              \in [pc : {"idle", "copied half", "start", "writing", "send"}, copy : Halves, frame : Halves]
        /\ [[b EXCEPT !.pc = "start"] EXCEPT !.copy = [b.copy EXCEPT ![2] = serialized[2]]].pc = "start"
    BY <1>1, <1>2
  <2> QED
    BY <1>3, <2>1, <2>2
<1>5. beacon' \in BeaconTypes /\ beacon'["beacon"] = to /\ beacon'["telecommand"] = beacon["telecommand"]
  BY <1>4, OneSender DEF BeaconSenders
<1>6. BufferLocked'
  BY <1>3, <1>4, <1>5 DEF ArchiveInv, BufferLocked, BeaconSenders, Others, b
<1> QED
  BY <1>3, <1>5, <1>6, SenderStep, TypesBefore

(* The telecommand asks for a beacon.                                       *)
LEMMA SendBeaconStep ==
    ASSUME ArchiveInv, SendBeacon
    PROVE  ArchiveInv'
<1> DEFINE b == beacon["telecommand"]
           to == [b EXCEPT !.pc = "start"]
<1>1. b \in [pc : {"idle", "copied half", "start", "writing", "send"}, copy : Halves, frame : Halves]
  BY TypesBefore DEF BeaconTypes, BeaconSenders
<1>2. Others /\ UNCHANGED bufferLock /\ b.pc = "idle" /\ beacon' = [beacon EXCEPT !["telecommand"] = to]
  BY DEF SendBeacon
<1>3. to \in [pc : {"idle", "copied half", "start", "writing", "send"}, copy : Halves, frame : Halves] /\ to.pc = "start"
  BY <1>1
<1> HIDE DEF to
<1>4. beacon' \in BeaconTypes /\ beacon'["telecommand"] = to /\ beacon'["beacon"] = beacon["beacon"]
  BY <1>2, <1>3, OneSender DEF BeaconSenders
<1>5. BufferLocked'
  BY <1>2, <1>3, <1>4 DEF ArchiveInv, BufferLocked, BeaconSenders, Others
<1> QED
  BY <1>2, <1>3, <1>4, <1>5, SenderStep, TypesBefore

(* A sender takes the lock and writes the first half, or gives up.          *)
LEMMA WriteBeaconLockStep ==
    ASSUME ArchiveInv, NEW s \in BeaconSenders, WriteBeaconLock(s)
    PROVE  ArchiveInv'
<1> DEFINE b == beacon[s]
           to == [[b EXCEPT !.pc = "writing"] EXCEPT !.frame = [b.frame EXCEPT ![1] = Payload(s)[1]]]
<1>1. /\ b \in [pc : {"idle", "copied half", "start", "writing", "send"}, copy : Halves, frame : Halves]
      /\ b.frame \in Halves /\ Payload(s) \in Halves
  BY TypesBefore DEF BeaconTypes, Payload
<1>2. /\ Others /\ b.pc = "start"
      /\ \/ bufferLock = "none" /\ bufferLock' = s /\ beacon' = [beacon EXCEPT ![s] = to]
         \/ bufferLock # "none" /\ UNCHANGED bufferLock /\ beacon' = [beacon EXCEPT ![s] = NoBeacon]
  <2>1. /\ Others
        /\ \/ /\ bufferLock = "none" /\ bufferLock' = s /\ b.pc = "start"
              /\ beacon' = [beacon EXCEPT ![s].pc = "writing", ![s].frame[1] = Payload(s)[1]]
           \/ bufferLock # "none" /\ b.pc = "start" /\ UNCHANGED bufferLock /\ beacon' = [beacon EXCEPT ![s] = NoBeacon]
    BY DEF WriteBeaconLock
  <2>2. [beacon EXCEPT ![s].pc = "writing", ![s].frame[1] = Payload(s)[1]] = [beacon EXCEPT ![s] = to]
    <3> DEFINE p == Payload(s)
    <3> HIDE DEF p
    <3>1. [beacon EXCEPT ![s].pc = "writing", ![s].frame[1] = p[1]]
            = [beacon EXCEPT ![s] = [[b EXCEPT !.pc = "writing"] EXCEPT !.frame = [b.frame EXCEPT ![1] = p[1]]]]
      BY TypesBefore DEF BeaconTypes
    <3> QED
      BY <3>1 DEF p
  <2> HIDE DEF to
  <2> QED
    BY <2>1, <2>2
<1>3. [b.frame EXCEPT ![1] = Payload(s)[1]] \in Halves /\ [b.frame EXCEPT ![1] = Payload(s)[1]][1] = Payload(s)[1]
  <2>1. Payload(s)[1] \in Nat
    BY <1>1, HalvesAre
  <2> QED
    BY <1>1, <2>1, HalfWritten
<1>4. /\ to \in [pc : {"idle", "copied half", "start", "writing", "send"}, copy : Halves, frame : Halves]
      /\ to.pc = "writing" /\ to.frame[1] = Payload(s)[1]
  BY <1>1, <1>3
<1> HIDE DEF to
<1>5. CASE bufferLock = "none" /\ bufferLock' = s /\ beacon' = [beacon EXCEPT ![s] = to]
  <2>1. beacon' \in BeaconTypes /\ beacon'[s] = to /\ \A o \in BeaconSenders : o # s => beacon'[o] = beacon[o]
    BY <1>4, <1>5, OneSender
  <2>2. BufferLocked'
    BY <1>2, <1>4, <1>5, <2>1 DEF ArchiveInv, BufferLocked, BeaconSenders, Others
  <2>3. \/ beacon'["telecommand"].pc = "writing" /\ beacon'["telecommand"].frame[1] = serialized[1]
        \/ beacon'["telecommand"] = beacon["telecommand"]
    BY <1>4, <2>1 DEF Payload, BeaconSenders
  <2>4. bufferLock' \in {"none", "loop"} \cup BeaconSenders
    BY <1>5
  <2> QED
    BY <1>2, <2>1, <2>2, <2>3, <2>4, SenderStep
<1>6. CASE bufferLock # "none" /\ UNCHANGED bufferLock /\ beacon' = [beacon EXCEPT ![s] = NoBeacon]
  <2>1. beacon' \in BeaconTypes /\ beacon'[s] = NoBeacon /\ \A o \in BeaconSenders : o # s => beacon'[o] = beacon[o]
    BY <1>6, OneSender, NoBeacons
  <2>2. BufferLocked'
    BY <1>2, <1>6, <2>1, NoBeacons DEF ArchiveInv, BufferLocked, BeaconSenders, Others
  <2>3. \/ beacon'["telecommand"].pc \notin {"writing", "send"}
        \/ beacon'["telecommand"] = beacon["telecommand"]
    BY <2>1, NoBeacons DEF BeaconSenders
  <2> QED
    BY <1>2, <1>6, <2>1, <2>2, <2>3, SenderStep, TypesBefore
<1> QED
  BY <1>2, <1>5, <1>6

(* A sender writes the second half and gives the lock back.                 *)
LEMMA WriteBeaconPayloadStep ==
    ASSUME ArchiveInv, NEW s \in BeaconSenders, WriteBeaconPayload(s)
    PROVE  ArchiveInv'
<1> DEFINE b == beacon[s]
           to == [[b EXCEPT !.pc = "send"] EXCEPT !.frame = [b.frame EXCEPT ![2] = Payload(s)[2]]]
<1>1. /\ b \in [pc : {"idle", "copied half", "start", "writing", "send"}, copy : Halves, frame : Halves]
      /\ b.frame \in Halves /\ Payload(s) \in Halves
  BY TypesBefore DEF BeaconTypes, Payload
<1>2. /\ Others /\ b.pc = "writing" /\ bufferLock' = "none" /\ beacon' = [beacon EXCEPT ![s] = to]
  BY TypesBefore DEF WriteBeaconPayload, BeaconTypes
<1>3. /\ [b.frame EXCEPT ![2] = Payload(s)[2]] \in Halves
      /\ [b.frame EXCEPT ![2] = Payload(s)[2]][1] = b.frame[1]
      /\ [b.frame EXCEPT ![2] = Payload(s)[2]][2] = Payload(s)[2]
  <2>1. Payload(s)[2] \in Nat
    BY <1>1, HalvesAre
  <2> QED
    BY <1>1, <2>1, HalfWritten
<1>4. /\ to \in [pc : {"idle", "copied half", "start", "writing", "send"}, copy : Halves, frame : Halves]
      /\ to.pc = "send" /\ to.frame[1] = b.frame[1] /\ to.frame[2] = Payload(s)[2]
  BY <1>1, <1>3
<1> HIDE DEF to
<1>5. beacon' \in BeaconTypes /\ beacon'[s] = to /\ \A o \in BeaconSenders : o # s => beacon'[o] = beacon[o]
  BY <1>2, <1>4, OneSender
<1>6. bufferLock = s /\ archive.pc # "copying"
  BY <1>2 DEF ArchiveInv, BufferLocked, BeaconSenders
<1>7. BufferLocked'
  BY <1>2, <1>4, <1>5, <1>6 DEF ArchiveInv, BufferLocked, BeaconSenders, Others
<1>8. \/ beacon'["telecommand"].pc = "send" /\ beacon'["telecommand"].frame[1] = beacon'["telecommand"].frame[2]
      \/ beacon'["telecommand"] = beacon["telecommand"]
  <2>1. CASE s = "telecommand"
    <3>1. b.frame[1] = serialized[1] /\ serialized[1] = serialized[2] /\ Payload(s) = serialized
      BY <1>2, <1>6, <2>1 DEF ArchiveInv, BufferWhole, Payload
    <3> QED
      BY <1>4, <1>5, <2>1, <3>1
  <2>2. CASE s # "telecommand"
    BY <1>5, <2>2 DEF BeaconSenders
  <2> QED
    BY <2>1, <2>2
<1> QED
  BY <1>2, <1>5, <1>7, <1>8, SenderStep

(* A beacon is sent.                                                        *)
LEMMA SendFrameStep ==
    ASSUME ArchiveInv, NEW s \in BeaconSenders, SendFrame(s)
    PROVE  ArchiveInv'
<1>1. Others /\ UNCHANGED bufferLock /\ beacon[s].pc = "send" /\ beacon' = [beacon EXCEPT ![s] = NoBeacon]
  BY DEF SendFrame
<1>2. beacon' \in BeaconTypes /\ beacon'[s] = NoBeacon /\ \A o \in BeaconSenders : o # s => beacon'[o] = beacon[o]
  BY <1>1, OneSender, NoBeacons
<1>3. BufferLocked'
  BY <1>1, <1>2, NoBeacons DEF ArchiveInv, BufferLocked, BeaconSenders, Others
<1>4. \/ beacon'["telecommand"].pc \notin {"writing", "send"}
      \/ beacon'["telecommand"] = beacon["telecommand"]
  BY <1>2, NoBeacons DEF BeaconSenders
<1> QED
  BY <1>1, <1>2, <1>3, <1>4, SenderStep, TypesBefore

(* The files are empty and nobody holds the lock to begin with.             *)
LEMMA ArchiveInitInv == ArchiveInit => ArchiveInv
<1> SUFFICES ASSUME ArchiveInit PROVE ArchiveInv
  OBVIOUS
<1>0. /\ currentFile = <<>> /\ previousFile = <<>> /\ slots = <<>> /\ serialized = <<0, 0>> /\ bufferLock = "none"
      /\ delta \in Int /\ acquired = 0 /\ quiet = 0
      /\ archive = [pc |-> "acquire", content |-> <<0, 0>>] /\ beacon = [b \in BeaconSenders |-> NoBeacon]
  BY ArchiveConstants DEF ArchiveInit
<1>1. ArchiveTypeOK
  <2>1. archive \in [pc : SavePlaces, content : Halves] /\ serialized \in Halves
    BY <1>0, NoBeacons DEF SavePlaces
  <2>2. beacon \in BeaconTypes
    BY <1>0, NoBeacons DEF BeaconTypes
  <2>3. <<>> \in Seq(Nat)
    OBVIOUS
  <2> QED
    BY <1>0, <2>1, <2>2, <2>3 DEF ArchiveTypeOK, BeaconTypes
<1>2. BufferLocked /\ BufferWhole
  BY <1>0, NoBeacons DEF BufferLocked, BufferWhole, CommandedBeaconWhole, BeaconSenders
<1>3. SaveIsNear /\ FilesChange
  BY <1>0 DEF SaveIsNear, FilesChange
<1>4. PlacesKept
  <2>1. Len(slots) = 0 /\ Len(currentFile) = 0
    BY <1>0
  <2>2. Layout(0, 0)
    BY <2>1 DEF Layout, FileHolds
  <2> QED
    BY <2>1, <2>2 DEF PlacesKept
<1> QED
  BY <1>1, <1>2, <1>3, <1>4 DEF ArchiveInv

(* Every step of the loop, of the senders and every restart keeps the       *)
(* invariant.                                                               *)
LEMMA ArchiveInvKept == ArchiveInv /\ [ArchiveNext]_archiveVars => ArchiveInv'
<1> SUFFICES ASSUME ArchiveInv, [ArchiveNext]_archiveVars PROVE ArchiveInv'
  OBVIOUS
<1>1. CASE TelemetryLoop
  BY <1>1, AcquireStep, SaveTelemetryLockStep, SaveTelemetryCopiedStep, SaveStep, OpenFileStep, MoveFileStep,
     CreateFileStep, WriteFileStep DEF TelemetryLoop
<1>2. CASE Beacons
  BY <1>2, CopyStateStep, SendBeaconStep, WriteBeaconLockStep, WriteBeaconPayloadStep, SendFrameStep DEF Beacons
<1>3. CASE ArchiveReset
  BY <1>3, ArchiveResetStep
<1>4. CASE UNCHANGED archiveVars
  <2>1. UNCHANGED files /\ UNCHANGED <<serialized, bufferLock, delta, acquired, archive, beacon, quiet>>
        /\ UNCHANGED <<currentFile, previousFile, slots>>
    BY <1>4 DEF archiveVars, files
  <2>2. ArchiveTypeOK'
    BY <2>1, TypesBefore, FileTypes, TypesAfter
  <2>3. BufferLocked' /\ BufferWhole'
    BY <2>1 DEF ArchiveInv, BufferLocked, BufferWhole, CommandedBeaconWhole
  <2>4. SaveIsNear' /\ FilesChange'
    BY <2>1 DEF ArchiveInv, SaveIsNear, SaveCondition, FilesChange
  <2>5. PlacesKept'
    BY <2>1, FilesStay DEF ArchiveInv
  <2> QED
    BY <2>2, <2>3, <2>4, <2>5 DEF ArchiveInv
<1> QED
  BY <1>1, <1>2, <1>3, <1>4 DEF ArchiveNext, ArchiveRests

(* For any size of places and of files, any delay, jumps of the time, number*)
(* of acquisitions, beacons and faults: the last entries, as many as a file *)
(* has, are found in one of the two files, a save is never overdue, and a   *)
(* beacon the ground asks for is of one acquisition                         *)
(* (libs/telemetry/serialization, telecommunication/beacon.cpp).            *)
THEOREM ArchiveIsSound == ArchiveSpec => []ArchiveSound
<1>1. ArchiveInv => ArchiveSound
  <2> SUFFICES ASSUME ArchiveInv PROVE ArchiveSound
    OBVIOUS
  <2>1. RecentKept
    <3>1. PICK n \in 0 .. Len(slots), m \in 0 .. Len(slots) : Layout(n, m)
      BY DEF ArchiveInv, PlacesKept
    <3>2. SUFFICES ASSUME NEW k \in 1 .. Len(slots), k > Len(slots) - Capacity, slots[k] # Torn
                   PROVE  slots[k] \in EntriesOf(currentFile) \cup EntriesOf(previousFile)
      BY DEF RecentKept
    <3>3. Capacity \in Int
      <4>1. AlignFileEntriesTo \in Nat \ {0} /\ MaxFileSize \in Int
        BY ArchiveConstants
      <4>2. \A x \in Nat : x \div AlignFileEntriesTo \in Nat
        BY <4>1, DivMod
      <4>3. MaxFileSize > EntryCells => MaxFileSize - EntryCells + AlignFileEntriesTo - 1 \in Nat
        BY <4>1 DEF EntryCells
      <4> QED
        BY <4>1, <4>2, <4>3 DEF Capacity, EntryCells
    <3>4. k >= Len(slots) - n - m + 1
      BY <3>1, <3>2, <3>3, FileTypes DEF Layout
    <3>5. CASE k > Len(slots) - n
      BY <3>1, <3>2, <3>5, FileTypes DEF Layout, FileHolds
    <3>6. CASE k <= Len(slots) - n
      <4>1. k \in Len(slots) - n - m + 1 .. Len(slots) - n
        BY <3>2, <3>4, <3>6, FileTypes
      <4>2. FileHolds(previousFile, Len(slots) - n - m + 1, Len(slots) - n)
        BY <3>1 DEF Layout
      <4> QED
        BY <3>2, <4>1, <4>2 DEF FileHolds
    <3> QED
      BY <3>1, <3>2, <3>5, <3>6, FileTypes
  <2>2. NotOverdue
    BY TypesBefore, ArchiveConstants DEF ArchiveInv, SaveIsNear, NotOverdue
  <2> QED
    BY <2>1, <2>2 DEF ArchiveSound, ArchiveInv, BufferWhole
<1> QED
  BY <1>1, ArchiveInitInv, ArchiveInvKept, PTL DEF ArchiveSpec

-----------------------------------------------------------------------------
(* Induction over the natural numbers and over sequences, and what the     *)
(* sequences of a sequence are together (FlattenSeq of SequencesExt)        *)

(* The natural numbers in their order. *)
Before == OpToRel(<, Nat)

(* A set of natural numbers that is not empty has a first one. *)
LEMMA FirstNatural ==
    ASSUME NEW T, T \subseteq Nat, T # {}
    PROVE  \E x \in T : \A y \in T : ~ y < x
<1>1. \A R, S : IsWellFoundedOn(R, S) =>
                  \A U : U \subseteq S /\ U # {} => \E x \in U : \A y \in U : ~ (<<y, x>> \in R)
  BY WFMin, Zenon
<1>2. IsWellFoundedOn(Before, Nat)
  BY NatLessThanWellFounded, Zenon DEF Before
<1>3. PICK x \in T : \A y \in T : ~ (<<y, x>> \in Before)
  BY <1>1, <1>2, Zenon
<1>4. \A y \in T : y < x => <<y, x>> \in Before
  BY DEF Before, OpToRel
<1> QED
  BY <1>3, <1>4

(* Induction: a set that has zero, and with a number the one after it, has *)
(* every number.                                                           *)
LEMMA EveryNatural ==
    ASSUME NEW S, 0 \in S, \A n \in Nat : n \in S => n + 1 \in S
    PROVE  Nat \subseteq S
<1> DEFINE T == Nat \ S
<1> SUFFICES ASSUME T # {} PROVE FALSE
  OBVIOUS
<1>1. PICK x \in T : \A y \in T : ~ y < x
  BY FirstNatural
<1>2. x \in Nat /\ x \notin S /\ x # 0
  OBVIOUS
<1>3. x - 1 \in Nat /\ x - 1 < x /\ x - 1 + 1 = x
  BY <1>2
<1>4. x - 1 \in T
  BY <1>2, <1>3
<1> QED
  BY <1>1, <1>3, <1>4
\* Two sequences put together.
Together(a, b) == a \o b

\* g[i] is what the first i sequences of s are together, for i up to n.
Joined(s, n, g) == g = [i \in 1 .. n |-> IF i = 1 THEN s[i] ELSE Together(g[i - 1], s[i])]

(* What the definition says of each place. *)
LEMMA JoinedAt ==
    ASSUME NEW s, NEW n \in Nat, NEW g, Joined(s, n, g)
    PROVE  /\ 1 <= n => g[1] = s[1]
           /\ \A i \in 1 .. n : i + 1 <= n => g[i + 1] = Together(g[i], s[i + 1])
<1> DEFINE h == [j \in 1 .. n |-> IF j = 1 THEN s[j] ELSE Together(g[j - 1], s[j])]
<1>1. g = h
  BY Zenon DEF Joined
<1>2. 1 <= n => h[1] = s[1]
  OBVIOUS
<1>3. ASSUME NEW i \in 1 .. n, i + 1 <= n PROVE h[i + 1] = Together(g[i], s[i + 1])
  <2>1. i + 1 \in 1 .. n /\ i + 1 # 1 /\ i + 1 - 1 = i
    BY <1>3
  <2> QED
    BY <2>1
<1> HIDE DEF h
<1> QED
  BY <1>1, <1>2, <1>3

(* Two sequences that begin alike have the same prefixes. *)
LEMMA SamePrefixes ==
    ASSUME NEW s, NEW t, NEW n \in Nat, NEW m \in Nat, NEW g, NEW h,
           Joined(s, n, g), Joined(t, m, h), n <= m, \A i \in 1 .. n : s[i] = t[i]
    PROVE  \A i \in 1 .. n : g[i] = h[i]
<1> DEFINE Alike == {i \in Nat : i \in 1 .. n => g[i] = h[i]}
<1>1. 0 \in Alike
  OBVIOUS
<1>2. ASSUME NEW i \in Nat, i \in Alike
      PROVE  i + 1 \in Alike
  <2> SUFFICES ASSUME i + 1 \in 1 .. n PROVE g[i + 1] = h[i + 1]
    OBVIOUS
  <2>1. CASE i = 0
    BY <2>1, JoinedAt
  <2>2. CASE i # 0
    <3>1. i \in 1 .. n /\ i \in 1 .. m /\ i + 1 <= n /\ i + 1 <= m
      BY <2>2
    <3> QED
      BY <1>2, <3>1, JoinedAt
  <2> QED
    BY <2>1, <2>2
<1> HIDE DEF Alike
<1>3. Nat \subseteq Alike
  BY <1>1, <1>2, EveryNatural
<1> QED
  BY <1>3 DEF Alike

(* There are prefixes. *)
LEMMA JoinedExist ==
    ASSUME NEW s, NEW n \in Nat
    PROVE  \E g : Joined(s, n, g)
<1> DEFINE Long == {k \in Nat : \E g : Joined(s, k, g)}
<1>1. 0 \in Long
  <2>1. Joined(s, 0, [i \in 1 .. 0 |-> 0])
    BY DEF Joined
  <2> QED
    BY <2>1
<1>2. ASSUME NEW k \in Nat, k \in Long
      PROVE  k + 1 \in Long
  <2>1. PICK g : Joined(s, k, g)
    BY <1>2
  <2> DEFINE h == [i \in 1 .. k + 1 |-> IF i = 1 THEN s[i] ELSE Together(g[i - 1], s[i])]
             hh == [i \in 1 .. k + 1 |-> IF i = 1 THEN s[i] ELSE Together(h[i - 1], s[i])]
  <2>2. \A i \in 1 .. k : g[i] = h[i]
    <3> SUFFICES ASSUME NEW i \in 1 .. k PROVE g[i] = h[i]
      OBVIOUS
    <3>1. i \in 1 .. k + 1
      OBVIOUS
    <3>2. h[i] = IF i = 1 THEN s[i] ELSE Together(g[i - 1], s[i])
      BY <3>1
    <3>3. g[i] = IF i = 1 THEN s[i] ELSE Together(g[i - 1], s[i])
      BY <2>1, <3>1, JoinedAt
    <3> QED
      BY <3>2, <3>3
  <2>3. \A i \in 1 .. k + 1 : i = 1 \/ g[i - 1] = h[i - 1]
    <3> HIDE DEF h
    <3> QED
      BY <2>2
  <2>4. h = hh
    <3> SUFFICES \A i \in 1 .. k + 1 :
                   (IF i = 1 THEN s[i] ELSE Together(g[i - 1], s[i])) = (IF i = 1 THEN s[i] ELSE Together(h[i - 1], s[i]))
      BY Zenon
    <3> HIDE DEF h
    <3> QED
      BY <2>3
  <2>5. Joined(s, k + 1, h)
    <3> HIDE DEF h
    <3> QED
      BY <2>4 DEF Joined
  <2> QED
    BY <2>5
<1> HIDE DEF Long
<1>3. Nat \subseteq Long
  BY <1>1, <1>2, EveryNatural
<1> QED
  BY <1>3 DEF Long

(* The prefixes of sequences over a set are sequences over it. *)
LEMMA PrefixType ==
    ASSUME NEW S, NEW s, NEW n \in Nat, NEW g, Joined(s, n, g), \A i \in 1 .. n : s[i] \in Seq(S)
    PROVE  \A i \in 1 .. n : g[i] \in Seq(S)
<1> DEFINE Typed == {i \in Nat : i \in 1 .. n => g[i] \in Seq(S)}
<1>1. 0 \in Typed
  OBVIOUS
<1>2. ASSUME NEW i \in Nat, i \in Typed
      PROVE  i + 1 \in Typed
  <2> SUFFICES ASSUME i + 1 \in 1 .. n PROVE g[i + 1] \in Seq(S)
    OBVIOUS
  <2>1. s[i + 1] \in Seq(S)
    OBVIOUS
  <2>2. CASE i = 0
    BY <2>1, <2>2, JoinedAt
  <2>3. CASE i # 0
    <3>1. i \in 1 .. n /\ i + 1 <= n
      BY <2>3
    <3>2. g[i] \in Seq(S)
      BY <1>2, <3>1
    <3>3. \A a, b \in Seq(S) : Together(a, b) \in Seq(S)
      BY DEF Together
    <3> QED
      BY <2>1, <3>1, <3>2, <3>3, JoinedAt
  <2> QED
    BY <2>2, <2>3
<1> HIDE DEF Typed
<1>3. Nat \subseteq Typed
  BY <1>1, <1>2, EveryNatural
<1> QED
  BY <1>3 DEF Typed

(* FlattenSeq is the longest of the prefixes. *)
LEMMA FlattenIsPrefix ==
    ASSUME NEW s, NEW n \in Nat \ {0}, Len(s) = n
    PROVE  \E g : Joined(s, n, g) /\ FlattenSeq(s) = g[n]
<1> DEFINE g == CHOOSE f : f = [i \in 1 .. Len(s) |-> IF i = 1 THEN s[i] ELSE Together(f[i - 1], s[i])]
<1>1. FlattenSeq(s) = g[Len(s)]
  BY DEF FlattenSeq, Together
<1>2. \E f : f = [i \in 1 .. Len(s) |-> IF i = 1 THEN s[i] ELSE Together(f[i - 1], s[i])]
  BY JoinedExist DEF Joined
<1>3. g = [i \in 1 .. Len(s) |-> IF i = 1 THEN s[i] ELSE Together(g[i - 1], s[i])]
  BY <1>2, Zenon
<1> HIDE DEF g
<1>4. Joined(s, n, g) /\ FlattenSeq(s) = g[n]
  BY <1>1, <1>3, Zenon DEF Joined
<1> QED
  BY <1>4, Zenon

(* What FlattenSeq does with a sequence that is longer by one. *)
LEMMA FlattenStep ==
    ASSUME NEW s, NEW t, NEW n \in Nat \ {0}, Len(s) = n, Len(t) = n + 1,
           \A i \in 1 .. n : s[i] = t[i]
    PROVE  FlattenSeq(t) = Together(FlattenSeq(s), t[n + 1])
<1>1. PICK g : Joined(s, n, g) /\ FlattenSeq(s) = g[n]
  BY FlattenIsPrefix
<1>2. PICK h : Joined(t, n + 1, h) /\ FlattenSeq(t) = h[n + 1]
  BY FlattenIsPrefix
<1>3. g[n] = h[n]
  <2>1. n \in Nat /\ n + 1 \in Nat /\ n <= n + 1 /\ n \in 1 .. n
    OBVIOUS
  <2> QED
    BY <1>1, <1>2, <2>1, SamePrefixes
<1>4. h[n + 1] = Together(h[n], t[n + 1])
  <2>1. n + 1 \in Nat /\ n \in 1 .. n + 1 /\ n + 1 <= n + 1
    OBVIOUS
  <2> QED
    BY <1>2, <2>1, JoinedAt
<1> QED
  BY <1>1, <1>2, <1>3, <1>4

(* Of sequences over a set FlattenSeq makes a sequence over it. *)
LEMMA FlattenType ==
    ASSUME NEW S, NEW s, NEW n \in Nat \ {0}, Len(s) = n, \A i \in 1 .. n : s[i] \in Seq(S)
    PROVE  FlattenSeq(s) \in Seq(S)
<1>1. PICK g : Joined(s, n, g) /\ FlattenSeq(s) = g[n]
  BY FlattenIsPrefix
<1>2. \A i \in 1 .. n : g[i] \in Seq(S)
  BY <1>1, PrefixType
<1> QED
  BY <1>1, <1>2

(* FlattenSeq of one sequence. *)
LEMMA FlattenOne ==
    ASSUME NEW s, Len(s) = 1
    PROVE  FlattenSeq(s) = s[1]
<1>1. 1 \in Nat \ {0}
  OBVIOUS
<1>2. PICK g : Joined(s, 1, g) /\ FlattenSeq(s) = g[1]
  BY <1>1, FlattenIsPrefix
<1>3. 1 <= 1 /\ 1 \in Nat
  OBVIOUS
<1> QED
  BY <1>2, <1>3, JoinedAt

(* FlattenSeq, one sequence at a time. *)
LEMMA FlattenAppend ==
    ASSUME NEW S, NEW s \in Seq(Seq(S)), NEW x \in Seq(S)
    PROVE  /\ FlattenSeq(s) \in Seq(S)
           /\ FlattenSeq(Append(s, x)) = FlattenSeq(s) \o x
<1> DEFINE t == Append(s, x)
<1>1. /\ Len(s) \in Nat /\ Len(t) = Len(s) + 1 /\ t[Len(s) + 1] = x
      /\ \A i \in 1 .. Len(s) : s[i] = t[i]
      /\ \A i \in 1 .. Len(s) : s[i] \in Seq(S)
  OBVIOUS
<1>2. Len(s) = 0 => s = <<>>
  OBVIOUS
<1> HIDE DEF t
<1>3. CASE Len(s) = 0
  <2>1. FlattenSeq(t) = x
    BY <1>1, <1>3, FlattenOne
  <2>2. FlattenSeq(s) = <<>>
    BY <1>2, <1>3, Zenon DEF FlattenSeq
  <2>3. <<>> \o x = x /\ <<>> \in Seq(S)
    OBVIOUS
  <2> QED
    BY <2>1, <2>2, <2>3, Zenon DEF t
<1>4. CASE Len(s) # 0
  <2>1. FlattenSeq(t) = Together(FlattenSeq(s), x)
    BY <1>1, <1>4, FlattenStep
  <2>2. FlattenSeq(s) \in Seq(S)
    BY <1>1, <1>4, FlattenType
  <2> QED
    BY <2>1, <2>2, Zenon DEF t, Together
<1> QED
  BY <1>3, <1>4
(* It does not matter which two of three sequences are put together first.  *)
LEMMA Associates ==
    ASSUME NEW S
    PROVE  \A x, y, z \in Seq(S) : x \o (y \o z) = (x \o y) \o z
BY ConcatAssociative

(* Sequences put together. *)
LEMMA Concatenation ==
    ASSUME NEW S, NEW f \in Seq(S), NEW g \in Seq(S)
    PROVE  /\ f \o g \in Seq(S) /\ f \o <<>> = f /\ <<>> \o f = f
           /\ \A h \in Seq(S) : f \o (g \o h) = (f \o g) \o h
           /\ \A b \in S : f \o Append(g, b) = Append(f \o g, b) /\ Append(f, b) = f \o <<b>>
<1>1. f \o g \in Seq(S) /\ f \o <<>> = f /\ <<>> \o f = f
  OBVIOUS
<1>2. \A h \in Seq(S) : f \o (g \o h) = (f \o g) \o h
  BY Associates
<1>3. ASSUME NEW b \in S
      PROVE  f \o Append(g, b) = Append(f \o g, b) /\ Append(f, b) = f \o <<b>>
  <2>1. Append(g, b) = g \o <<b>> /\ Append(f, b) = f \o <<b>> /\ <<b>> \in Seq(S)
    OBVIOUS
  <2>2. Append(f \o g, b) = (f \o g) \o <<b>>
    BY <1>1, AppendIsConcat
  <2>3. f \o (g \o <<b>>) = (f \o g) \o <<b>>
    BY <2>1, Associates
  <2> QED
    BY <2>1, <2>2, <2>3, Zenon
<1> QED
  BY <1>1, <1>2, <1>3, Zenon

(* A sequence is its beginning and its last element. *)
LEMMA OneMore ==
    ASSUME NEW S, NEW f \in Seq(S), NEW n \in Nat, n + 1 <= Len(f)
    PROVE  /\ SubSeq(f, 1, n) \in Seq(S) /\ f[n + 1] \in S
           /\ SubSeq(f, 1, n + 1) = Append(SubSeq(f, 1, n), f[n + 1])
  OBVIOUS

(* All and nothing of a sequence. *)
LEMMA WholeSequence ==
    ASSUME NEW S, NEW f \in Seq(S)
    PROVE  SubSeq(f, 1, Len(f)) = f /\ SubSeq(f, 1, 0) = <<>> /\ Len(f) \in Nat /\ <<>> \in Seq(S)
  OBVIOUS

(* A set of sequences that has the empty one, and with a sequence every one *)
(* that is longer by an element, has all of them.                          *)
LEMMA EverySequence ==
    ASSUME NEW S, NEW T, <<>> \in T,
           \A f \in Seq(S) : f \in T => \A b \in S : Append(f, b) \in T
    PROVE  Seq(S) \subseteq T
<1> SUFFICES ASSUME NEW f \in Seq(S) PROVE f \in T
  OBVIOUS
<1> DEFINE Begun == {n \in Nat : n <= Len(f) => SubSeq(f, 1, n) \in T}
<1>1. 0 \in Begun
  BY WholeSequence
<1>2. ASSUME NEW n \in Nat, n \in Begun
      PROVE  n + 1 \in Begun
  <2> SUFFICES ASSUME n + 1 <= Len(f) PROVE SubSeq(f, 1, n + 1) \in T
    OBVIOUS
  <2>1. SubSeq(f, 1, n) \in T
    <3>1. n <= Len(f)
      BY WholeSequence
    <3> QED
      BY <1>2, <3>1
  <2>2. /\ SubSeq(f, 1, n) \in Seq(S) /\ f[n + 1] \in S
        /\ SubSeq(f, 1, n + 1) = Append(SubSeq(f, 1, n), f[n + 1])
    BY OneMore
  <2> QED
    BY <2>1, <2>2, Zenon
<1> HIDE DEF Begun
<1>3. Nat \subseteq Begun
  BY <1>1, <1>2, EveryNatural
<1>4. Len(f) \in Nat /\ Len(f) <= Len(f) /\ SubSeq(f, 1, Len(f)) = f
  BY WholeSequence
<1>5. Len(f) \in Begun
  BY <1>3, <1>4
<1>6. SubSeq(f, 1, Len(f)) \in T
  BY <1>4, <1>5, Zenon DEF Begun
<1> QED
  BY <1>4, <1>6, Zenon

(* A sequence is two of its parts. *)
LEMMA TwoParts ==
    ASSUME NEW S, NEW f \in Seq(S), NEW n \in Nat, n <= Len(f)
    PROVE  LET a == SubSeq(f, 1, n)
               b == SubSeq(f, n + 1, Len(f)) IN
           a \in Seq(S) /\ b \in Seq(S) /\ f = a \o b /\ Len(a) = n
<1> DEFINE a == SubSeq(f, 1, n)
           b == SubSeq(f, n + 1, Len(f))
<1>1. a \in Seq(S) /\ b \in Seq(S) /\ Len(a) = n
  OBVIOUS
<1>2. 1 \in 1 .. Len(f) + 1 /\ n \in 1 - 1 .. Len(f) /\ Len(f) \in n .. Len(f)
  OBVIOUS
<1>3. a \o b = SubSeq(f, 1, Len(f))
  BY <1>2, ConcatAdjacentSubSeq
<1> QED
  BY <1>1, <1>3, SubSeqFull, Zenon

-----------------------------------------------------------------------------
(* The data file of an experiment (libs/experiments/fs) *)

Bytes == {Sync, Timestamp, Padding, Continuation}
            \cup {Pid(r) : r \in Nat} \cup {<<"data", r, i>> : r \in Nat, i \in Nat}
BegunFrame == {f \in Seq(Bytes) : Len(f) \in 1 .. FrameSize /\ f[1] = Sync}
WholeFrame == {f \in BegunFrame : Len(f) = FrameSize}

\* The frame under way has its mark, and the room the next step needs.
RoomLeft ==
    /\ ~hasPayload => Len(frame) <= 3
    /\ filePc = "long" => Len(frame) < FrameSize

\* What the file has of each frame and what it dropped of it make up the frame.
\* It has at least the mark, and drops nothing while nothing fails.
TailsDropped ==
    /\ disk \in Seq(Seq(Bytes)) /\ dropped \in Seq(Seq(Bytes)) /\ Len(dropped) = Len(disk)
    /\ fileFaults \in Nat
    /\ \A k \in 1 .. Len(disk) :
          Len(disk[k]) >= 1 /\ (fileFaults = 0 => dropped[k] = <<>>)

FileInv ==
    /\ Handed \in Seq(WholeFrame) /\ TailsDropped
    /\ frame \in BegunFrame /\ rest \in Seq(Bytes)
    /\ hasPayload \in BOOLEAN /\ records \in Nat
    /\ RoomLeft

(* What the frames of the two sets are. *)
LEMMA FrameSets ==
    /\ \A f : f \in BegunFrame <=> f \in Seq(Bytes) /\ Len(f) \in 1 .. FrameSize /\ f[1] = Sync
    /\ \A f : f \in WholeFrame <=> f \in BegunFrame /\ Len(f) = FrameSize
  BY Zenon DEF BegunFrame, WholeFrame

(* What is added to a frame leaves its beginning. *)
LEMMA BeginningStays ==
    ASSUME NEW S, NEW f \in Seq(S), Len(f) >= 1
    PROVE  /\ \A g \in Seq(S) :
                 f \o g \in Seq(S) /\ Len(f \o g) = Len(f) + Len(g) /\ (f \o g)[1] = f[1]
           /\ \A b \in S :
                 Append(f, b) \in Seq(S) /\ Len(Append(f, b)) = Len(f) + 1 /\ Append(f, b)[1] = f[1]
  OBVIOUS

(* Padding fills a frame to its end and leaves its mark. *)
LEMMA PaddedFrame ==
    ASSUME NEW f \in BegunFrame
    PROVE  FillBufferWithPadding(f) \in WholeFrame
<1> DEFINE n == FrameSize - Len(f)
           pad == [i \in 1 .. n |-> Padding]
<1>1. f \in Seq(Bytes) /\ Len(f) \in 1 .. FrameSize /\ f[1] = Sync /\ FrameSize \in Nat
  BY FileAssumption, FrameSets
<1>2. n \in Nat
  BY <1>1
<1>3. Padding \in Bytes
  BY DEF Bytes
<1>4. pad \in Seq(Bytes) /\ Len(pad) = n
  BY <1>2, <1>3
<1>5. FillBufferWithPadding(f) = f \o pad
  BY DEF FillBufferWithPadding, RemainingSize
<1> HIDE DEF pad
<1>6. f \o pad \in Seq(Bytes) /\ Len(f \o pad) = Len(f) + Len(pad) /\ (f \o pad)[1] = f[1]
  <2>1. Len(f) >= 1
    BY <1>1
  <2> QED
    BY <1>1, <1>4, <2>1, BeginningStays
<1>7. Len(f \o pad) = FrameSize /\ Len(f \o pad) \in 1 .. FrameSize /\ (f \o pad)[1] = Sync
  BY <1>1, <1>4, <1>6
<1>8. f \o pad \in BegunFrame
  BY <1>6, <1>7, FrameSets
<1> QED
  BY <1>5, <1>7, <1>8, FrameSets

(* A frame begun anew has its mark and room to spare. *)
LEMMA FreshFrame ==
    ASSUME NEW f, InitializePacket(f)
    PROVE  /\ f \in BegunFrame /\ Len(f) <= 2
           /\ Append(f, Continuation) \in BegunFrame /\ Len(Append(f, Continuation)) <= 3
<1>1. Sync \in Bytes /\ Timestamp \in Bytes /\ Continuation \in Bytes /\ FrameSize \in Nat /\ FrameSize >= 5
  BY FileAssumption DEF Bytes
<1>2. CASE f = <<Sync>>
  <2>1. f \in Seq(Bytes) /\ Len(f) = 1 /\ f[1] = Sync
    BY <1>1, <1>2
  <2>2. Len(f) >= 1 /\ Len(f) \in 1 .. FrameSize /\ Len(f) <= 2
    BY <1>1, <2>1
  <2>3. /\ Append(f, Continuation) \in Seq(Bytes) /\ Len(Append(f, Continuation)) = Len(f) + 1
        /\ Append(f, Continuation)[1] = f[1]
    BY <1>1, <2>1, <2>2, BeginningStays
  <2>4. /\ Append(f, Continuation)[1] = Sync
        /\ Len(Append(f, Continuation)) \in 1 .. FrameSize /\ Len(Append(f, Continuation)) <= 3
    BY <1>1, <2>1, <2>2, <2>3
  <2>5. f \in BegunFrame /\ Append(f, Continuation) \in BegunFrame
    BY <2>1, <2>2, <2>3, <2>4, FrameSets
  <2> QED
    BY <2>2, <2>4, <2>5
<1>3. CASE f = <<Sync, Timestamp>>
  <2>1. f \in Seq(Bytes) /\ Len(f) = 2 /\ f[1] = Sync
    BY <1>1, <1>3
  <2>2. Len(f) >= 1 /\ Len(f) \in 1 .. FrameSize /\ Len(f) <= 2
    BY <1>1, <2>1
  <2>3. /\ Append(f, Continuation) \in Seq(Bytes) /\ Len(Append(f, Continuation)) = Len(f) + 1
        /\ Append(f, Continuation)[1] = f[1]
    BY <1>1, <2>1, <2>2, BeginningStays
  <2>4. /\ Append(f, Continuation)[1] = Sync
        /\ Len(Append(f, Continuation)) \in 1 .. FrameSize /\ Len(Append(f, Continuation)) <= 3
    BY <1>1, <2>1, <2>2, <2>3
  <2>5. f \in BegunFrame /\ Append(f, Continuation) \in BegunFrame
    BY <2>1, <2>2, <2>3, <2>4, FrameSets
  <2> QED
    BY <2>2, <2>4, <2>5
<1> QED
  BY <1>2, <1>3 DEF InitializePacket

(* A frame takes the mark of a record and as many bytes as it has room for. *)
LEMMA FilledFrame ==
    ASSUME NEW f \in BegunFrame, NEW r \in Nat, NEW data \in Seq(Bytes),
           Len(f) + 1 + Len(data) <= FrameSize
    PROVE  /\ Append(f, Pid(r)) \o data \in BegunFrame
           /\ Len(Append(f, Pid(r)) \o data) = Len(f) + 1 + Len(data)
<1>1. f \in Seq(Bytes) /\ Len(f) \in 1 .. FrameSize /\ f[1] = Sync /\ FrameSize \in Nat
  BY FileAssumption, FrameSets
<1>2. Pid(r) \in Bytes
  BY DEF Bytes
<1> DEFINE g == Append(f, Pid(r))
<1>3. g \in Seq(Bytes) /\ Len(g) = Len(f) + 1 /\ g[1] = Sync
  BY <1>1, <1>2
<1> HIDE DEF g
<1>4. g \o data \in Seq(Bytes) /\ Len(g \o data) = Len(g) + Len(data) /\ (g \o data)[1] = g[1]
  <2>1. Len(g) >= 1
    BY <1>1, <1>3
  <2> QED
    BY <1>3, <2>1, BeginningStays
<1>5. g \o data \in BegunFrame /\ Len(g \o data) = Len(f) + 1 + Len(data)
  <2>1. Len(data) \in Nat
    OBVIOUS
  <2>2. Len(g \o data) = Len(f) + 1 + Len(data) /\ Len(g \o data) \in 1 .. FrameSize
    BY <1>1, <1>3, <1>4, <2>1
  <2>3. (g \o data)[1] = Sync
    BY <1>3, <1>4, Zenon
  <2> QED
    BY <1>4, <2>2, <2>3, FrameSets
<1> QED
  BY <1>5 DEF g

(* The bytes of a record. *)
LEMMA RecordBytes ==
    ASSUME NEW r \in Nat, NEW size \in Nat
    PROVE  DataOf(r, size) \in Seq(Bytes) /\ Len(DataOf(r, size)) = size
<1>1. \A i \in 1 .. size : <<"data", r, i>> \in Bytes
  BY DEF Bytes
<1> QED
  BY <1>1 DEF DataOf

(* A step that leaves the file leaves the frames it was handed. *)
LEMMA HandedStays ==
    UNCHANGED <<disk, dropped>> =>
        Handed' = Handed /\ (TailsDropped /\ (UNCHANGED fileFaults \/ FileFault) => TailsDropped')
<1> SUFFICES ASSUME UNCHANGED <<disk, dropped>>
             PROVE  Handed' = Handed /\ (TailsDropped /\ (UNCHANGED fileFaults \/ FileFault) => TailsDropped')
  OBVIOUS
<1>1. Handed' = Handed
  BY Zenon DEF Handed
<1>2. ASSUME TailsDropped, UNCHANGED fileFaults \/ FileFault
      PROVE  TailsDropped'
  <2>1. fileFaults' \in Nat /\ (fileFaults' = 0 => fileFaults = 0)
    BY <1>2 DEF TailsDropped, FileFault
  <2> QED
    BY <1>2, <2>1, Zenon DEF TailsDropped
<1> QED
  BY <1>1, <1>2

(* Two parts of a frame, handed over as a piece of the file and its tail.    *)
LEMMA PartsAppended ==
    ASSUME TailsDropped, NEW part \in Seq(Bytes), NEW tail \in Seq(Bytes), Len(part) >= 1,
           disk' = Append(disk, part), dropped' = Append(dropped, tail),
           fileFaults' \in Nat, fileFaults' = 0 => fileFaults = 0 /\ tail = <<>>
    PROVE  Handed' = Append(Handed, part \o tail) /\ TailsDropped'
<1> DEFINE n == Len(disk)
<1>1. /\ disk \in Seq(Seq(Bytes)) /\ dropped \in Seq(Seq(Bytes)) /\ Len(dropped) = n /\ n \in Nat
      /\ \A k \in 1 .. n : Len(disk[k]) >= 1 /\ (fileFaults = 0 => dropped[k] = <<>>)
  BY DEF TailsDropped
<1>2. /\ disk' \in Seq(Seq(Bytes)) /\ Len(disk') = n + 1 /\ disk'[n + 1] = part
      /\ \A k \in 1 .. n : disk'[k] = disk[k]
  <2> HIDE DEF n
  <2> QED
    BY <1>1 DEF n
<1>3. /\ dropped' \in Seq(Seq(Bytes)) /\ Len(dropped') = n + 1 /\ dropped'[n + 1] = tail
      /\ \A k \in 1 .. n : dropped'[k] = dropped[k]
  BY <1>1
<1> HIDE DEF n
<1>4. Handed' = [k \in 1 .. n + 1 |-> IF k \in 1 .. n THEN disk[k] \o dropped[k] ELSE part \o tail]
  <2>1. \A k \in 1 .. n + 1 : k \in 1 .. n \/ (k \notin 1 .. n /\ k = n + 1)
    BY <1>1
  <2>2. Handed' = [k \in 1 .. n + 1 |-> disk'[k] \o dropped'[k]]
    BY <1>2, Zenon DEF Handed
  <2>3. \A k \in 1 .. n + 1 :
           disk'[k] \o dropped'[k] = IF k \in 1 .. n THEN disk[k] \o dropped[k] ELSE part \o tail
    BY <1>2, <1>3, <2>1, Zenon
  <2> QED
    BY <2>2, <2>3, Zenon
<1>5. Handed = [k \in 1 .. n |-> disk[k] \o dropped[k]]
  BY Zenon DEF Handed, n
<1>6. Append(Handed, part \o tail) =
         [k \in 1 .. n + 1 |-> IF k \in 1 .. n THEN disk[k] \o dropped[k] ELSE part \o tail]
  <2> DEFINE h(k) == disk[k] \o dropped[k]
             e == part \o tail
  <2>1. Handed = [k \in 1 .. n |-> h(k)]
    BY <1>5
  <2> HIDE DEF h, e
  <2>2. Len(Handed) = n
    BY <1>1, <2>1
  <2>3. Append(Handed, e) = [k \in 1 .. n + 1 |-> IF k \in 1 .. n THEN h(k) ELSE e]
    BY <1>1, <2>1, <2>2
  <2> QED
    BY <2>3 DEF h, e
<1>7. TailsDropped'
  <2>1. \A k \in 1 .. n + 1 : k \in 1 .. n \/ k = n + 1
    BY <1>1
  <2>2. \A k \in 1 .. n + 1 : Len(disk'[k]) >= 1 /\ (fileFaults' = 0 => dropped'[k] = <<>>)
    BY <1>1, <1>2, <1>3, <2>1, Zenon
  <2>3. Len(disk') = n + 1 /\ Len(dropped') = n + 1
    BY <1>2, <1>3
  <2> QED
    BY <1>2, <1>3, <2>2, <2>3, Zenon DEF TailsDropped
<1> QED
  BY <1>4, <1>6, <1>7, Zenon

(* A flush that reports success, short or not, hands over a whole frame.     *)
LEMMA FlushHands ==
    ASSUME FileInv, NEW f \in BegunFrame, FlushSucceeds(f)
    PROVE  Handed' = Append(Handed, FillBufferWithPadding(f)) /\ TailsDropped'
<1> DEFINE packet == FillBufferWithPadding(f)
<1>1. packet \in Seq(Bytes) /\ Len(packet) = FrameSize /\ FrameSize \in Nat /\ FrameSize >= 5
  BY PaddedFrame, FrameSets, FileAssumption
<1>2. TailsDropped /\ fileFaults \in Nat
  BY DEF FileInv, TailsDropped
<1> HIDE DEF packet
<1>3. CASE FlushWorks(f)
  <2>1. /\ disk' = Append(disk, packet) /\ dropped' = Append(dropped, <<>>)
        /\ fileFaults' = fileFaults
    BY <1>3 DEF FlushWorks, FileOk, packet
  <2>2. packet \o <<>> = packet /\ <<>> \in Seq(Bytes) /\ Len(packet) >= 1
    BY <1>1, Concatenation
  <2> QED
    BY <1>1, <1>2, <2>1, <2>2, PartsAppended DEF packet
<1>4. CASE FlushShort(f)
  <2>1. PICK n \in ShortWrites :
          /\ disk' = Append(disk, SubSeq(packet, 1, n))
          /\ dropped' = Append(dropped, SubSeq(packet, n + 1, Len(packet)))
    BY <1>4 DEF FlushShort, packet
  <2>2. n \in 1 .. FrameSize - 1
    BY FileAssumption
  <2>3. fileFaults' \in Nat /\ fileFaults' # 0
    BY <1>2, <1>4 DEF FlushShort, FileFault
  <2>4. n \in Nat /\ n >= 1 /\ n <= Len(packet)
    BY <1>1, <2>2
  <2>5. /\ SubSeq(packet, 1, n) \in Seq(Bytes) /\ SubSeq(packet, n + 1, Len(packet)) \in Seq(Bytes)
        /\ packet = SubSeq(packet, 1, n) \o SubSeq(packet, n + 1, Len(packet))
        /\ Len(SubSeq(packet, 1, n)) = n
    BY <1>1, <2>4, TwoParts
  <2> DEFINE part == SubSeq(packet, 1, n)
             tail == SubSeq(packet, n + 1, Len(packet))
  <2>6. part \in Seq(Bytes) /\ tail \in Seq(Bytes) /\ packet = part \o tail /\ Len(part) >= 1
    BY <2>4, <2>5
  <2>7. disk' = Append(disk, part) /\ dropped' = Append(dropped, tail)
    BY <2>1
  <2> HIDE DEF part, tail
  <2>8. Handed' = Append(Handed, part \o tail) /\ TailsDropped'
    BY <1>2, <2>3, <2>6, <2>7, PartsAppended
  <2> QED
    BY <2>6, <2>8 DEF packet
<1> QED
  BY <1>3, <1>4 DEF FlushSucceeds

(* A flush, whether it succeeds or not, hands over whole frames.            *)
LEMMA FlushKeeps ==
    ASSUME FileInv, NEW f \in BegunFrame
    PROVE  /\ FlushSucceeds(f) => Handed' \in Seq(WholeFrame) /\ TailsDropped'
           /\ FlushFails(f) =>
                 /\ Handed' \in Seq(WholeFrame) /\ TailsDropped'
                 /\ frame' \in BegunFrame /\ hasPayload' = TRUE
<1>1. FillBufferWithPadding(f) \in WholeFrame /\ Handed \in Seq(WholeFrame) /\ TailsDropped
  BY PaddedFrame DEF FileInv
<1>2. Append(Handed, FillBufferWithPadding(f)) \in Seq(WholeFrame)
  BY <1>1, AppendProperties
<1>3. FillBufferWithPadding(f) \in BegunFrame
  BY PaddedFrame, FrameSets
<1>4. ASSUME FlushFails(f)
      PROVE  Handed' = Handed /\ TailsDropped'
  BY <1>1, <1>4, HandedStays DEF FlushFails
<1>5. ASSUME FlushSucceeds(f)
      PROVE  Handed' \in Seq(WholeFrame) /\ TailsDropped'
  BY <1>2, <1>5, FlushHands, Zenon
<1> QED
  BY <1>1, <1>3, <1>4, <1>5 DEF FlushFails

(* Write keeps the frames whole. *)
LEMMA WriteKeeps ==
    ASSUME FileInv, NEW size \in DataSizes, WriteRecord(size)
    PROVE  FileInv'
<1> DEFINE r == records + 1
           data == DataOf(r, size)
<1>1. size \in Nat /\ r \in Nat /\ FrameSize \in Nat /\ FrameSize >= 5
      /\ frame \in BegunFrame /\ Len(frame) \in Nat
  BY FileAssumption, FrameSets DEF FileInv
<1>2. data \in Seq(Bytes) /\ Len(data) = size
  BY <1>1, RecordBytes
<1>3. records' \in Nat /\ filePc = "ready" /\ filePc # "long"
  BY <1>1 DEF WriteRecord
<1> HIDE DEF r, data
<1>4. CASE /\ size + 1 <= RemainingSize(frame)
           /\ frame' = Append(frame, Pid(r)) \o data /\ hasPayload' = TRUE
           /\ UNCHANGED <<disk, dropped, filePc, rest, fileFaults>>
  <2>1. Len(frame) + 1 + Len(data) <= FrameSize
    BY <1>1, <1>2, <1>4 DEF RemainingSize
  <2>2. frame' \in BegunFrame
    BY <1>1, <1>2, <1>4, <2>1, FilledFrame
  <2> QED
    BY <1>3, <1>4, <2>2, HandedStays DEF FileInv, RoomLeft
<1>5. CASE /\ FlushSucceeds(frame) /\ InitializePacket(frame') /\ hasPayload' = FALSE
           /\ filePc' = "long" /\ rest' = data
  <2>1. frame' \in BegunFrame /\ Len(frame') <= 2 /\ Len(frame') \in Nat
    BY <1>5, FreshFrame, FrameSets
  <2>2. Handed' \in Seq(WholeFrame) /\ TailsDropped'
    BY <1>1, <1>5, FlushKeeps
  <2>3. Len(frame') <= 3 /\ Len(frame') < FrameSize
    BY <1>1, <2>1
  <2> QED
    BY <1>2, <1>3, <1>5, <2>1, <2>2, <2>3, Zenon DEF FileInv, RoomLeft
<1>6. CASE FlushFails(frame) /\ UNCHANGED <<filePc, rest>>
  <2>1. /\ Handed' \in Seq(WholeFrame) /\ TailsDropped'
        /\ frame' \in BegunFrame /\ hasPayload' = TRUE
    BY <1>1, <1>6, FlushKeeps
  <2> QED
    BY <1>3, <1>6, <2>1 DEF FileInv, RoomLeft
<1>7. CASE /\ ~hasPayload /\ filePc' = "long" /\ rest' = data
           /\ UNCHANGED <<disk, dropped, frame, hasPayload, fileFaults>>
  <2>1. Len(frame) < FrameSize
    BY <1>1, <1>7 DEF FileInv, RoomLeft
  <2> QED
    BY <1>2, <1>3, <1>7, <2>1, HandedStays DEF FileInv, RoomLeft
<1> QED
  BY <1>4, <1>5, <1>6, <1>7 DEF WriteRecord, r, data

(* A turn of a long record keeps the frames whole. *)
LEMMA LongRecordKeeps ==
    ASSUME FileInv, WriteDataBiggerThanFrame
    PROVE  FileInv'
<1> DEFINE room == RemainingSize(frame) - 1
           length == IF Len(rest) < room THEN Len(rest) ELSE room
           part == SubSeq(rest, 1, length)
           filled == Append(frame, Pid(records)) \o part
           left == SubSeq(rest, length + 1, Len(rest))
<1>1. frame \in BegunFrame /\ Len(frame) \in Nat /\ FrameSize \in Nat /\ FrameSize >= 5
      /\ Len(frame) < FrameSize /\ rest \in Seq(Bytes) /\ records \in Nat /\ Len(rest) \in Nat
  BY FileAssumption, FrameSets DEF FileInv, RoomLeft, WriteDataBiggerThanFrame
<1>2. room \in Nat /\ length \in Nat /\ length <= room /\ length <= Len(rest)
      /\ Len(frame) + 1 + room = FrameSize
  BY <1>1 DEF RemainingSize
<1> HIDE DEF room, length
<1>3. part \in Seq(Bytes) /\ Len(part) = length /\ left \in Seq(Bytes)
  BY <1>1, <1>2
<1> HIDE DEF part, left
<1>4. filled \in BegunFrame /\ Len(filled) = Len(frame) + 1 + length
  <2>1. Len(frame) + 1 + Len(part) <= FrameSize
    BY <1>1, <1>2, <1>3
  <2> QED
    BY <1>1, <1>3, <2>1, FilledFrame
<1> HIDE DEF filled
<1>5. records' \in Nat
  BY <1>1 DEF WriteDataBiggerThanFrame
<1>6. CASE filePc' = "ready" /\ UNCHANGED <<disk, dropped, frame, hasPayload, rest, fileFaults>>
  BY <1>5, <1>6, HandedStays DEF FileInv, RoomLeft
<1>7. CASE /\ RemainingSize(filled) > 0 /\ frame' = filled /\ hasPayload' = TRUE /\ rest' = left
           /\ UNCHANGED <<disk, dropped, filePc, fileFaults>>
  <2>1. Len(filled) < FrameSize
    BY <1>1, <1>2, <1>4, <1>7 DEF RemainingSize
  <2> QED
    BY <1>3, <1>4, <1>5, <1>7, <2>1, HandedStays DEF FileInv, RoomLeft
<1>8. CASE /\ FlushSucceeds(filled) /\ rest' = left /\ hasPayload' = FALSE
           /\ \E f \in {<<Sync>>, <<Sync, Timestamp>>} : frame' = Append(f, Continuation)
  <2>1. PICK f : InitializePacket(f) /\ frame' = Append(f, Continuation)
    BY <1>8 DEF InitializePacket
  <2>2. frame' \in BegunFrame /\ Len(frame') <= 3 /\ Len(frame') \in Nat
    BY <2>1, FreshFrame, FrameSets
  <2>3. Handed' \in Seq(WholeFrame) /\ TailsDropped'
    BY <1>4, <1>8, FlushKeeps
  <2>4. Len(frame') <= 3 /\ Len(frame') < FrameSize
    BY <1>1, <2>2
  <2> QED
    BY <1>3, <1>5, <1>8, <2>2, <2>3, <2>4, Zenon DEF FileInv, RoomLeft
<1>9. CASE FlushFails(filled) /\ filePc' = "ready" /\ rest' = <<>>
  <2>1. /\ Handed' \in Seq(WholeFrame) /\ TailsDropped'
        /\ frame' \in BegunFrame /\ hasPayload' = TRUE
    BY <1>4, <1>9, FlushKeeps
  <2>2. <<>> \in Seq(Bytes)
    OBVIOUS
  <2> QED
    BY <1>5, <1>9, <2>1, <2>2 DEF FileInv, RoomLeft
<1> QED
  BY <1>6, <1>7, <1>8, <1>9 DEF WriteDataBiggerThanFrame, room, length, part, filled, left

(* Close keeps the frames whole. *)
LEMMA CloseKeeps ==
    ASSUME FileInv, CloseFile
    PROVE  FileInv'
<1>1. frame \in BegunFrame /\ rest' = rest /\ records' = records
  BY DEF FileInv, CloseFile
<1>2. CASE ~hasPayload /\ filePc' = "closed" /\ UNCHANGED <<disk, dropped, frame, hasPayload, fileFaults>>
  BY <1>1, <1>2, HandedStays DEF FileInv, RoomLeft
<1>3. CASE /\ hasPayload /\ FlushSucceeds(frame) /\ filePc' = "closed"
           /\ frame' = FillBufferWithPadding(frame) /\ UNCHANGED hasPayload
  <2>1. Handed' \in Seq(WholeFrame) /\ TailsDropped' /\ frame' \in BegunFrame
    BY <1>1, <1>3, FlushKeeps, PaddedFrame, FrameSets
  <2> QED
    BY <1>1, <1>3, <2>1 DEF FileInv, RoomLeft
<1>4. CASE FlushFails(frame) /\ UNCHANGED filePc
  <2>1. /\ Handed' \in Seq(WholeFrame) /\ TailsDropped'
        /\ frame' \in BegunFrame /\ hasPayload' = TRUE
    BY <1>1, <1>4, FlushKeeps
  <2>2. filePc = "ready"
    BY DEF CloseFile
  <2> QED
    BY <1>1, <1>4, <2>1, <2>2 DEF FileInv, RoomLeft
<1> QED
  BY <1>2, <1>3, <1>4 DEF CloseFile

(* What DataIn takes of one byte. *)
LEMMA OneByte ==
    ASSUME NEW b \in Bytes
    PROVE  OnlyData(b) \in Seq(Bytes)
  BY DEF OnlyData

(* DataIn, one byte at a time. *)
LEMMA DataInAppend ==
    /\ DataIn(<<>>) = <<>>
    /\ \A f \in Seq(Bytes) :
          /\ DataIn(f) \in Seq(Bytes)
          /\ \A b \in Bytes : DataIn(Append(f, b)) = DataIn(f) \o OnlyData(b)
<1> DEFINE Each(f) == [i \in 1 .. Len(f) |-> OnlyData(f[i])]
<1>1. DataIn(<<>>) = <<>>
  <2>1. Each(<<>>) = <<>>
    OBVIOUS
  <2>2. Len(<<>>) = 0
    OBVIOUS
  <2>3. FlattenSeq(<<>>) = <<>>
    BY <2>2, Zenon DEF FlattenSeq
  <2> QED
    BY <2>1, <2>3, Zenon DEF DataIn
<1>2. ASSUME NEW f \in Seq(Bytes)
      PROVE  /\ DataIn(f) \in Seq(Bytes)
             /\ \A b \in Bytes : DataIn(Append(f, b)) = DataIn(f) \o OnlyData(b)
  <2>1. Each(f) \in Seq(Seq(Bytes))
    BY OneByte
  <2>2. DataIn(f) \in Seq(Bytes)
    <3>1. FlattenSeq(Each(f)) \in Seq(Bytes)
      <4> HIDE DEF Each
      <4>1. <<>> \in Seq(Bytes)
        OBVIOUS
      <4> QED
        BY <2>1, <4>1, FlattenAppend
    <3> QED
      BY <3>1, Zenon DEF DataIn
  <2>3. ASSUME NEW b \in Bytes
        PROVE  DataIn(Append(f, b)) = DataIn(f) \o OnlyData(b)
    <3>1. Each(Append(f, b)) = Append(Each(f), OnlyData(b))
      <4>1. OnlyData(b) \in Seq(Bytes)
        BY OneByte
      <4> QED
        BY <2>1, <4>1
    <3>2. FlattenSeq(Append(Each(f), OnlyData(b))) = FlattenSeq(Each(f)) \o OnlyData(b)
      <4> HIDE DEF Each
      <4> QED
        BY <2>1, OneByte, FlattenAppend
    <3> QED
      BY <3>1, <3>2, Zenon DEF DataIn
  <2> QED
    BY <2>2, <2>3
<1> QED
  BY <1>1, <1>2

(* DataIn, two parts of a frame or of a file. *)
LEMMA DataInBoth ==
    ASSUME NEW f \in Seq(Bytes), NEW g \in Seq(Bytes)
    PROVE  DataIn(f \o g) = DataIn(f) \o DataIn(g)
<1> DEFINE T == {h \in Seq(Bytes) : DataIn(f \o h) = DataIn(f) \o DataIn(h)}
<1>1. <<>> \in T
  <2>1. <<>> \in Seq(Bytes) /\ f \o <<>> = f
    BY Concatenation
  <2>2. DataIn(f) \in Seq(Bytes) /\ DataIn(<<>>) = <<>>
    BY DataInAppend
  <2>3. DataIn(f) \o <<>> = DataIn(f)
    BY <2>2, Concatenation
  <2> QED
    BY <2>1, <2>2, <2>3, Zenon
<1>2. ASSUME NEW h \in Seq(Bytes), h \in T, NEW b \in Bytes
      PROVE  Append(h, b) \in T
  <2>1. /\ Append(h, b) \in Seq(Bytes) /\ f \o h \in Seq(Bytes)
        /\ f \o Append(h, b) = Append(f \o h, b)
    <3>1. Append(h, b) \in Seq(Bytes)
      OBVIOUS
    <3> QED
      BY <3>1, Concatenation
  <2>2. DataIn(Append(f \o h, b)) = DataIn(f \o h) \o OnlyData(b)
    BY <2>1, DataInAppend
  <2>3. DataIn(Append(h, b)) = DataIn(h) \o OnlyData(b)
    BY DataInAppend
  <2>4. DataIn(f) \in Seq(Bytes) /\ DataIn(h) \in Seq(Bytes) /\ OnlyData(b) \in Seq(Bytes)
    BY DataInAppend, OneByte
  <2>5. DataIn(f) \o (DataIn(h) \o OnlyData(b)) = (DataIn(f) \o DataIn(h)) \o OnlyData(b)
    <3> HIDE DEF T
    <3>1. \A x, y, z \in Seq(Bytes) : x \o (y \o z) = (x \o y) \o z
      BY Associates
    <3> QED
      BY <2>4, <3>1, Zenon
  <2>6. DataIn(f \o h) = DataIn(f) \o DataIn(h)
    BY <1>2
  <2> QED
    BY <2>1, <2>2, <2>3, <2>5, <2>6, Zenon
<1> HIDE DEF T
<1>3. Seq(Bytes) \subseteq T
  BY <1>1, <1>2, EverySequence
<1>4. g \in T
  BY <1>3
<1> QED
  BY <1>4 DEF T

DataBytes == {b \in Bytes : b[1] = "data"}
OtherBytes == {b \in Bytes : b[1] # "data"}

(* Of data DataIn takes all. *)
LEMMA DataInData ==
    ASSUME NEW f \in Seq(DataBytes)
    PROVE  f \in Seq(Bytes) /\ DataIn(f) = f
<1> DEFINE T == {h \in Seq(Bytes) : DataIn(h) = h}
<1>1. <<>> \in T
  BY DataInAppend
<1>2. ASSUME NEW h \in Seq(DataBytes), h \in T, NEW b \in DataBytes
      PROVE  Append(h, b) \in T
  <2>1. h \in Seq(Bytes) /\ DataIn(h) = h /\ b \in Bytes /\ Append(h, b) \in Seq(Bytes)
    BY <1>2 DEF DataBytes
  <2>2. OnlyData(b) = <<b>>
    BY Zenon DEF DataBytes, OnlyData
  <2>3. DataIn(Append(h, b)) = DataIn(h) \o OnlyData(b)
    BY <2>1, DataInAppend
  <2>4. Append(h, b) = h \o <<b>>
    BY <2>1, Concatenation
  <2> QED
    BY <2>1, <2>2, <2>3, <2>4, Zenon
<1> HIDE DEF T
<1>3. Seq(DataBytes) \subseteq T
  BY <1>1, <1>2, EverySequence
<1>4. f \in T
  BY <1>3
<1> QED
  BY <1>4 DEF T

(* Of marks and padding it takes nothing. *)
LEMMA DataInOthers ==
    ASSUME NEW f \in Seq(OtherBytes)
    PROVE  f \in Seq(Bytes) /\ DataIn(f) = <<>>
<1> DEFINE T == {h \in Seq(Bytes) : DataIn(h) = <<>>}
<1>1. <<>> \in T
  BY DataInAppend
<1>2. ASSUME NEW h \in Seq(OtherBytes), h \in T, NEW b \in OtherBytes
      PROVE  Append(h, b) \in T
  <2>1. h \in Seq(Bytes) /\ DataIn(h) = <<>> /\ b \in Bytes /\ Append(h, b) \in Seq(Bytes)
    BY <1>2 DEF OtherBytes
  <2>2. OnlyData(b) = <<>>
    BY Zenon DEF OtherBytes, OnlyData
  <2>3. DataIn(Append(h, b)) = DataIn(h) \o OnlyData(b)
    BY <2>1, DataInAppend
  <2>4. <<>> \o <<>> = <<>>
    OBVIOUS
  <2> QED
    BY <2>1, <2>2, <2>3, <2>4, Zenon
<1> HIDE DEF T
<1>3. Seq(OtherBytes) \subseteq T
  BY <1>1, <1>2, EverySequence
<1>4. f \in T
  BY <1>3
<1> QED
  BY <1>4 DEF T
(* Padding, the beginning of a frame and the mark of a record are no data. *)
LEMMA MarksAreOthers ==
    /\ {Sync, Timestamp, Padding, Continuation} \subseteq OtherBytes
    /\ \A r \in Nat : Pid(r) \in OtherBytes
<1>1. {Sync, Timestamp, Padding, Continuation} \subseteq OtherBytes
  BY DEF OtherBytes, Bytes, Sync, Timestamp, Padding, Continuation
<1>2. ASSUME NEW r \in Nat PROVE Pid(r) \in OtherBytes
  <2>1. Pid(r) \in Bytes
    BY DEF Bytes
  <2>2. Pid(r)[1] # "data"
    BY DEF Pid
  <2> QED
    BY <2>1, <2>2 DEF OtherBytes
<1> QED
  BY <1>1, <1>2

(* Padding a frame leaves the data in it. *)
LEMMA PaddedData ==
    ASSUME NEW f \in BegunFrame
    PROVE  DataIn(FillBufferWithPadding(f)) = DataIn(f)
<1> DEFINE n == FrameSize - Len(f)
           pad == [i \in 1 .. n |-> Padding]
<1>1. f \in Seq(Bytes) /\ n \in Nat
  BY FileAssumption, FrameSets
<1>2. pad \in Seq(OtherBytes)
  BY <1>1, MarksAreOthers
<1>3. FillBufferWithPadding(f) = f \o pad
  BY DEF FillBufferWithPadding, RemainingSize
<1> HIDE DEF pad
<1>4. pad \in Seq(Bytes) /\ DataIn(pad) = <<>>
  BY <1>2, DataInOthers
<1>5. DataIn(f \o pad) = DataIn(f) \o DataIn(pad)
  BY <1>1, <1>4, DataInBoth
<1>6. DataIn(f) \o <<>> = DataIn(f)
  BY <1>1, DataInAppend, Concatenation
<1> QED
  BY <1>3, <1>4, <1>5, <1>6, Zenon

(* A frame begun anew has no data, continued or not. *)
LEMMA FreshData ==
    ASSUME NEW f, InitializePacket(f)
    PROVE  DataIn(f) = <<>> /\ DataIn(Append(f, Continuation)) = <<>>
<1>1. \A a, b \in OtherBytes :
         /\ <<a>> \in Seq(OtherBytes) /\ <<a, b>> \in Seq(OtherBytes)
         /\ \A g \in Seq(OtherBytes) : Append(g, a) \in Seq(OtherBytes)
  <2> HIDE DEF OtherBytes
  <2> QED
    OBVIOUS
<1>2. f \in Seq(OtherBytes)
  BY <1>1, MarksAreOthers, Zenon DEF InitializePacket
<1>3. Append(f, Continuation) \in Seq(OtherBytes)
  BY <1>1, <1>2, MarksAreOthers, Zenon
<1> QED
  BY <1>2, <1>3, DataInOthers

(* A frame that takes bytes of a record has their data after its own. *)
LEMMA FilledData ==
    ASSUME NEW f \in BegunFrame, NEW r \in Nat, NEW data \in Seq(DataBytes)
    PROVE  DataIn(Append(f, Pid(r)) \o data) = DataIn(f) \o data
<1>1. f \in Seq(Bytes) /\ data \in Seq(Bytes) /\ DataIn(data) = data
  BY FrameSets, DataInData
<1>2. Pid(r) \in Bytes /\ OnlyData(Pid(r)) = <<>>
  BY MarksAreOthers DEF OtherBytes, OnlyData
<1> DEFINE g == Append(f, Pid(r))
<1>3. g \in Seq(Bytes)
  BY <1>1, <1>2
<1>4. DataIn(g) = DataIn(f) \o <<>>
  BY <1>1, <1>2, DataInAppend, Zenon
<1>5. DataIn(f) \o <<>> = DataIn(f)
  BY <1>1, DataInAppend, Concatenation
<1> HIDE DEF g
<1>6. DataIn(g \o data) = DataIn(g) \o DataIn(data)
  BY <1>1, <1>3, DataInBoth
<1>7. DataIn(g \o data) = DataIn(f) \o data
  BY <1>1, <1>4, <1>5, <1>6, Zenon
<1> QED
  BY <1>7 DEF g

(* The bytes of a record are data. *)
LEMMA RecordData ==
    ASSUME NEW r \in Nat, NEW size \in Nat
    PROVE  DataOf(r, size) \in Seq(DataBytes)
<1>1. \A i \in 1 .. size : <<"data", r, i>> \in Bytes /\ <<"data", r, i>>[1] = "data"
  BY DEF Bytes
<1>2. \A i \in 1 .. size : <<"data", r, i>> \in DataBytes
  BY <1>1, Zenon DEF DataBytes
<1> QED
  BY <1>2 DEF DataOf

(* What is in the file and what is in the frame are sequences of bytes. *)
LEMMA PassedBytes ==
    ASSUME FileInv
    PROVE  /\ FlattenSeq(Handed) \in Seq(Bytes) /\ Passed \in Seq(Bytes)
           /\ frame \in Seq(Bytes) /\ DataIn(frame) \in Seq(Bytes) /\ <<>> \in Seq(Bytes)
           /\ Handed \in Seq(Seq(Bytes))
<1>1. Handed \in Seq(Seq(Bytes))
  <2>1. WholeFrame \subseteq Seq(Bytes)
    BY FrameSets
  <2>2. Handed \in Seq(WholeFrame)
    BY DEF FileInv
  <2> HIDE DEF WholeFrame
  <2> QED
    BY <2>1, <2>2
<1>2. <<>> \in Seq(Bytes)
  OBVIOUS
<1>3. FlattenSeq(Handed) \in Seq(Bytes)
  BY <1>1, <1>2, FlattenAppend
<1>4. frame \in Seq(Bytes)
  BY FrameSets DEF FileInv
<1> QED
  BY <1>1, <1>2, <1>3, <1>4, DataInAppend DEF Passed

(* A flush that works adds the data of the frame to that of the file. *)
LEMMA FlushPasses ==
    ASSUME FileInv, NEW f \in BegunFrame, FlushSucceeds(f)
    PROVE  Passed' = Passed \o DataIn(f)
<1> DEFINE w == FillBufferWithPadding(f)
<1>1. w \in Seq(Bytes) /\ DataIn(w) = DataIn(f) /\ Handed' = Append(Handed, w)
  BY PaddedFrame, PaddedData, FrameSets, FlushHands
<1> HIDE DEF w
<1>2. FlattenSeq(Handed') = FlattenSeq(Handed) \o w
  BY <1>1, PassedBytes, FlattenAppend
<1>3. DataIn(FlattenSeq(Handed) \o w) = DataIn(FlattenSeq(Handed)) \o DataIn(w)
  BY <1>1, PassedBytes, DataInBoth
<1> QED
  BY <1>1, <1>2, <1>3, Zenon DEF Passed

(* What the accounts of the file rest on: a record that is continued has    *)
(* only data left to write, and a frame without a payload has no data.      *)
Accounted ==
    /\ rest \in Seq(DataBytes) /\ accepted \in Seq(Bytes)
    /\ ~hasPayload => DataIn(frame) = <<>>
    /\ NothingLost

(* A step that leaves the file and its frame. *)
LEMMA PassedStays == UNCHANGED <<disk, dropped>> => Passed' = Passed
  BY HandedStays DEF Passed

(* Write keeps the accounts. *)
LEMMA WriteAccounts ==
    ASSUME FileInv, Accounted, NEW size \in DataSizes, WriteRecord(size)
    PROVE  Accounted'
<1> DEFINE r == records + 1
           data == DataOf(r, size)
<1>1. size \in Nat /\ r \in Nat /\ frame \in BegunFrame
  BY FileAssumption DEF FileInv
<1>2. data \in Seq(DataBytes) /\ data \in Seq(Bytes)
  BY <1>1, RecordData, DataInData
<1>3. filePc = "ready" /\ cut' = cut /\ (cut \/ accepted = Passed \o DataIn(frame))
      /\ rest \in Seq(DataBytes) /\ accepted \in Seq(Bytes) /\ accepted \o data \in Seq(Bytes)
  BY <1>2 DEF WriteRecord, Accounted, NothingLost
<1>4. (Passed \o DataIn(frame)) \o data = Passed \o (DataIn(frame) \o data)
  BY <1>2, PassedBytes, Concatenation
<1> HIDE DEF r, data
<1>5. CASE /\ frame' = Append(frame, Pid(r)) \o data /\ hasPayload' = TRUE
           /\ accepted' = accepted \o data /\ UNCHANGED <<disk, dropped, filePc, rest>>
  <2>1. DataIn(frame') = DataIn(frame) \o data
    BY <1>1, <1>2, <1>5, FilledData
  <2>2. cut \/ accepted' = Passed' \o DataIn(frame')
    BY <1>3, <1>4, <1>5, <2>1, PassedStays, Zenon
  <2> QED
    BY <1>3, <1>5, <2>2, Zenon DEF Accounted, NothingLost
<1>6. CASE /\ FlushSucceeds(frame) /\ InitializePacket(frame') /\ hasPayload' = FALSE
           /\ filePc' = "long" /\ rest' = data /\ accepted' = accepted \o data
  <2>1. DataIn(frame') = <<>>
    BY <1>6, FreshData
  <2>2. Passed' = Passed \o DataIn(frame)
    BY <1>1, <1>6, FlushPasses
  <2>3. (Passed \o DataIn(frame)) \o <<>> = Passed \o DataIn(frame)
    <3>1. Passed \o DataIn(frame) \in Seq(Bytes)
      BY PassedBytes, Concatenation
    <3> QED
      BY <3>1, Concatenation
  <2>4. cut \/ accepted' = Passed' \o DataIn(frame') \o rest'
    BY <1>3, <1>6, <2>1, <2>2, <2>3, Zenon
  <2> QED
    BY <1>2, <1>3, <1>6, <2>1, <2>4, Zenon DEF Accounted, NothingLost
<1>7. CASE FlushFails(frame) /\ UNCHANGED <<filePc, rest, accepted>>
  <2>1. frame' = FillBufferWithPadding(frame) /\ hasPayload' = TRUE /\ UNCHANGED <<disk, dropped>>
    BY <1>7 DEF FlushFails
  <2>2. DataIn(frame') = DataIn(frame)
    BY <1>1, <2>1, PaddedData
  <2> QED
    BY <1>3, <1>7, <2>1, <2>2, PassedStays, Zenon DEF Accounted, NothingLost
<1>8. CASE /\ filePc' = "long" /\ rest' = data /\ accepted' = accepted \o data
           /\ UNCHANGED <<disk, dropped, frame, hasPayload>>
  <2>1. cut \/ accepted' = Passed' \o DataIn(frame') \o rest'
    BY <1>3, <1>8, PassedStays, Zenon
  <2>2. ~hasPayload' => DataIn(frame') = <<>>
    BY <1>8 DEF Accounted
  <2> QED
    BY <1>2, <1>3, <1>8, <2>1, <2>2, Zenon DEF Accounted, NothingLost
<1> QED
  BY <1>5, <1>6, <1>7, <1>8 DEF WriteRecord, r, data

(* A turn of a long record keeps the accounts. *)
LEMMA LongRecordAccounts ==
    ASSUME FileInv, Accounted, WriteDataBiggerThanFrame
    PROVE  Accounted'
<1> DEFINE room == RemainingSize(frame) - 1
           length == IF Len(rest) < room THEN Len(rest) ELSE room
           part == SubSeq(rest, 1, length)
           filled == Append(frame, Pid(records)) \o part
           left == SubSeq(rest, length + 1, Len(rest))
<1>1. /\ frame \in BegunFrame /\ Len(frame) < FrameSize /\ Len(frame) \in Nat /\ FrameSize \in Nat
      /\ rest \in Seq(DataBytes) /\ Len(rest) \in Nat /\ records \in Nat
  BY FileAssumption, FrameSets DEF FileInv, RoomLeft, WriteDataBiggerThanFrame, Accounted
<1>2. length \in Nat /\ room \in Nat /\ length <= Len(rest) /\ length <= room /\ Len(frame) + 1 + room = FrameSize
  BY <1>1 DEF RemainingSize
<1>3. filePc = "long" /\ accepted' = accepted /\ accepted \in Seq(Bytes)
      /\ (cut \/ accepted = (Passed \o DataIn(frame)) \o rest)
  BY DEF WriteDataBiggerThanFrame, Accounted, NothingLost
<1>4. part \in Seq(DataBytes) /\ left \in Seq(DataBytes) /\ rest = part \o left /\ Len(part) = length
  <2> HIDE DEF length
  <2> QED
    BY <1>1, <1>2, TwoParts
<1> HIDE DEF room, length, part, left
<1>5. part \in Seq(Bytes) /\ left \in Seq(Bytes)
  BY <1>4, DataInData
<1>6. filled \in BegunFrame
  <2>1. Len(frame) + 1 + Len(part) <= FrameSize
    BY <1>1, <1>2, <1>4
  <2> QED
    BY <1>1, <1>5, <2>1, FilledFrame
<1>7. DataIn(filled) = DataIn(frame) \o part
  BY <1>1, <1>4, FilledData
<1>8. (Passed \o DataIn(frame)) \o (part \o left) = (Passed \o DataIn(filled)) \o left
  <2>1. Passed \o DataIn(frame) \in Seq(Bytes)
    BY PassedBytes, Concatenation
  <2>2. (Passed \o DataIn(frame)) \o (part \o left) = ((Passed \o DataIn(frame)) \o part) \o left
    BY <1>5, <2>1, Associates
  <2>3. (Passed \o DataIn(frame)) \o part = Passed \o (DataIn(frame) \o part)
    <3>1. Passed \in Seq(Bytes) /\ DataIn(frame) \in Seq(Bytes)
      BY PassedBytes
    <3> QED
      BY <1>5, <3>1, Associates
  <2> QED
    BY <1>7, <2>2, <2>3, Zenon
<1> HIDE DEF filled
<1>9. CASE rest = <<>> /\ filePc' = "ready" /\ UNCHANGED <<disk, dropped, frame, hasPayload, rest, cut>>
  <2>1. (Passed \o DataIn(frame)) \o <<>> = Passed \o DataIn(frame)
    <3>1. Passed \o DataIn(frame) \in Seq(Bytes)
      BY PassedBytes, Concatenation
    <3> QED
      BY <3>1, Concatenation
  <2>2. cut \/ accepted' = Passed' \o DataIn(frame')
    BY <1>3, <1>9, <2>1, PassedStays, Zenon
  <2>3. ~hasPayload' => DataIn(frame') = <<>>
    BY <1>9 DEF Accounted
  <2> QED
    BY <1>1, <1>3, <1>9, <2>2, <2>3, Zenon DEF Accounted, NothingLost
<1>10. CASE /\ frame' = filled /\ hasPayload' = TRUE /\ rest' = left
            /\ UNCHANGED <<disk, dropped, filePc, cut>>
  <2>1. cut \/ accepted' = Passed' \o DataIn(frame') \o rest'
    BY <1>3, <1>4, <1>8, <1>10, PassedStays, Zenon
  <2> QED
    BY <1>3, <1>4, <1>10, <2>1, Zenon DEF Accounted, NothingLost
<1>11. CASE /\ FlushSucceeds(filled) /\ rest' = left /\ hasPayload' = FALSE
            /\ \E f \in {<<Sync>>, <<Sync, Timestamp>>} : frame' = Append(f, Continuation)
            /\ UNCHANGED <<filePc, cut>>
  <2>1. DataIn(frame') = <<>>
    <3>1. PICK f : InitializePacket(f) /\ frame' = Append(f, Continuation)
      BY <1>11 DEF InitializePacket
    <3> QED
      BY <3>1, FreshData
  <2>2. Passed' = Passed \o DataIn(filled)
    BY <1>6, <1>11, FlushPasses
  <2>3. (Passed \o DataIn(filled)) \o <<>> = Passed \o DataIn(filled)
    <3>1. DataIn(filled) \in Seq(Bytes)
      BY <1>6, FrameSets, DataInAppend
    <3>2. Passed \o DataIn(filled) \in Seq(Bytes)
      BY <3>1, PassedBytes, Concatenation
    <3> QED
      BY <3>2, Concatenation
  <2>4. cut \/ accepted' = Passed' \o DataIn(frame') \o rest'
    BY <1>3, <1>4, <1>8, <1>11, <2>1, <2>2, <2>3, Zenon
  <2> QED
    BY <1>3, <1>4, <1>11, <2>1, <2>4, Zenon DEF Accounted, NothingLost
<1>12. CASE FlushFails(filled) /\ cut' = TRUE /\ rest' = <<>>
  <2>1. hasPayload' = TRUE /\ <<>> \in Seq(DataBytes)
    BY <1>12 DEF FlushFails
  <2> QED
    BY <1>3, <1>12, <2>1, Zenon DEF Accounted, NothingLost
<1> QED
  BY <1>9, <1>10, <1>11, <1>12 DEF WriteDataBiggerThanFrame, room, length, part, filled, left

(* Close keeps the accounts. *)
LEMMA CloseAccounts ==
    ASSUME FileInv, Accounted, CloseFile
    PROVE  Accounted'
<1>1. /\ filePc = "ready" /\ frame \in BegunFrame
      /\ rest' = rest /\ accepted' = accepted /\ cut' = cut
      /\ rest \in Seq(DataBytes) /\ accepted \in Seq(Bytes)
      /\ (cut \/ accepted = Passed \o DataIn(frame))
      /\ (~hasPayload => DataIn(frame) = <<>>)
  BY DEF CloseFile, FileInv, Accounted, NothingLost
<1>2. CASE ~hasPayload /\ filePc' = "closed" /\ UNCHANGED <<disk, dropped, frame, hasPayload>>
  <2>1. Passed \o <<>> = Passed
    BY PassedBytes, Concatenation
  <2>2. cut \/ accepted' = Passed'
    BY <1>1, <1>2, <2>1, PassedStays, Zenon
  <2> QED
    BY <1>1, <1>2, <2>2, Zenon DEF Accounted, NothingLost
<1>3. CASE /\ hasPayload /\ FlushSucceeds(frame) /\ filePc' = "closed" /\ UNCHANGED hasPayload
  <2>1. Passed' = Passed \o DataIn(frame)
    BY <1>1, <1>3, FlushPasses
  <2> QED
    BY <1>1, <1>3, <2>1, Zenon DEF Accounted, NothingLost
<1>4. CASE FlushFails(frame) /\ UNCHANGED filePc
  <2>1. frame' = FillBufferWithPadding(frame) /\ hasPayload' = TRUE /\ UNCHANGED <<disk, dropped>>
    BY <1>4 DEF FlushFails
  <2>2. DataIn(frame') = DataIn(frame)
    BY <1>1, <2>1, PaddedData
  <2> QED
    BY <1>1, <1>4, <2>1, <2>2, PassedStays, Zenon DEF Accounted, NothingLost
<1> QED
  BY <1>2, <1>3, <1>4 DEF CloseFile

(* FileIsSound: for records of any size, frames of any size, and any writes *)
(* that fail or are short: every byte that was accepted is in a frame that  *)
(* was written or in the buffer, once and in its place, unless a failing    *)
(* flush ended a long record; of each frame written the file has the        *)
(* beginning with its mark, all of it while nothing fails, and lacks no     *)
(* more than the end; and the buffer is never overrun                       *)
(* (ExperimentFile.cpp:60-191, yaffs.cpp:112-119).                         *)
THEOREM FileIsSound == FileSpec => []FileSound
<1>1. FileInit => FileInv /\ Accounted
  <2> SUFFICES ASSUME FileInit PROVE FileInv /\ Accounted
    OBVIOUS
  <2>1. frame \in BegunFrame /\ Len(frame) <= 2 /\ Len(frame) \in Nat
    BY FreshFrame, FrameSets DEF FileInit
  <2>2. Len(frame) <= 3
    BY <2>1
  <2>3. <<>> \in Seq(WholeFrame) /\ <<>> \in Seq(Bytes) /\ <<>> \in Seq(DataBytes) /\ 0 \in Nat
    OBVIOUS
  <2>4. filePc # "long"
    BY DEF FileInit
  <2>10. Handed = <<>>
    <3>1. disk = <<>> /\ Len(<<>>) = 0
      BY DEF FileInit
    <3>2. 1 .. 0 = {} /\ [k \in {} |-> disk[k] \o dropped[k]] = <<>>
      OBVIOUS
    <3> QED
      BY <3>1, <3>2, Zenon DEF Handed
  <2>11. TailsDropped
    BY DEF FileInit, TailsDropped
  <2>5. FileInv
    BY <2>1, <2>2, <2>3, <2>4, <2>10, <2>11, Zenon DEF FileInit, FileInv, RoomLeft
  <2>6. DataIn(frame) = <<>>
    BY FreshData DEF FileInit
  <2>7. Passed = <<>>
    <3>1. FlattenSeq(<<>>) = <<>>
      <4>1. Len(<<>>) = 0
        OBVIOUS
      <4> QED
        BY <4>1, Zenon DEF FlattenSeq
    <3> QED
      BY <3>1, <2>10, DataInAppend, Zenon DEF Passed
  <2>8. <<>> \o <<>> = <<>>
    OBVIOUS
  <2>9. Accounted
    BY <2>3, <2>6, <2>7, <2>8, Zenon DEF FileInit, Accounted, NothingLost
  <2> QED
    BY <2>5, <2>9
<1>2. FileInv /\ Accounted /\ [FileNext]_fileVars => FileInv' /\ Accounted'
  <2> SUFFICES ASSUME FileInv, Accounted, [FileNext]_fileVars PROVE FileInv' /\ Accounted'
    OBVIOUS
  <2>1. CASE UNCHANGED fileVars
    <3>1. FileInv'
      BY <2>1, HandedStays DEF fileVars, FileInv, RoomLeft
    <3>2. Accounted'
      BY <2>1, PassedStays DEF fileVars, Accounted, NothingLost
    <3> QED
      BY <3>1, <3>2
  <2>2. FileRests => UNCHANGED fileVars
    BY DEF FileRests
  <2> QED
    BY <2>1, <2>2, WriteKeeps, LongRecordKeeps, CloseKeeps, WriteAccounts, LongRecordAccounts,
       CloseAccounts DEF FileNext
<1>3. FileInv /\ Accounted => FileSound
  <2> SUFFICES ASSUME FileInv, Accounted PROVE FileSound
    OBVIOUS
  <2>1. /\ disk \in Seq(Seq(Bytes)) /\ dropped \in Seq(Seq(Bytes)) /\ Len(dropped) = Len(disk)
        /\ \A k \in 1 .. Len(disk) :
              Len(disk[k]) >= 1 /\ (fileFaults = 0 => dropped[k] = <<>>)
    BY DEF FileInv, TailsDropped
  <2>3. ASSUME NEW k \in 1 .. Len(disk)
        PROVE  Len(disk[k]) + Len(dropped[k]) = FrameSize /\ disk[k][1] = Sync
    <3>1. Handed \in Seq(WholeFrame) /\ Len(Handed) = Len(disk) /\ Handed[k] = disk[k] \o dropped[k]
      <4> DEFINE h(i) == disk[i] \o dropped[i]
                 n == Len(disk)
      <4>1. Handed = [i \in 1 .. n |-> h(i)] /\ n \in Nat
        BY <2>1 DEF Handed
      <4>2. k \in 1 .. n
        OBVIOUS
      <4> HIDE DEF h, n
      <4>3. Len(Handed) = n /\ Handed[k] = h(k)
        BY <4>1, <4>2
      <4>4. Handed \in Seq(WholeFrame)
        BY DEF FileInv
      <4> QED
        BY <4>3, <4>4, Zenon DEF h, n
    <3>2. Handed[k] \in WholeFrame
      BY <3>1, ElementOfSeq
    <3>3. Len(disk[k] \o dropped[k]) = FrameSize /\ (disk[k] \o dropped[k])[1] = Sync
      BY <3>1, <3>2, FrameSets, Zenon
    <3>4. disk[k] \in Seq(Bytes) /\ dropped[k] \in Seq(Bytes) /\ Len(disk[k]) >= 1
      BY <2>1
    <3>5. /\ Len(disk[k] \o dropped[k]) = Len(disk[k]) + Len(dropped[k])
          /\ (disk[k] \o dropped[k])[1] = disk[k][1]
      BY <3>4, BeginningStays
    <3> QED
      BY <3>3, <3>5, Zenon
  <2>4. Len(frame) <= FrameSize
    BY FrameSets DEF FileInv
  <2>2. FramesMarked
    BY <2>1, <2>3, <2>4, Zenon DEF FramesMarked
  <2> QED
    BY <2>2 DEF Accounted, FileSound
<1> QED
  BY <1>1, <1>2, <1>3, PTL DEF FileSpec
=============================================================================
