---------------------------- MODULE TimeKeeping ----------------------------
(***************************************************************************)
(* Mission time: the BURTC interrupt and its task (libs/drivers/burtc), the *)
(* time provider (libs/time), the correction against the external clock    *)
(* (libs/mission/time) and the telecommands SetTime and                    *)
(* SetTimeCorrectionConfig (libs/obc/communication/telecommands/time.cpp). *)
(*                                                                         *)
(* Time is counted in ticks of the BURTC.  A step is one access under the  *)
(* lock of the provider, one reading of the RTC, or one access to the      *)
(* persistent state; the BURTC task runs between any two of them.          *)
(***************************************************************************)
EXTENDS Integers, FiniteSets

CONSTANTS
    NotificationPeriod,
    TimeCorrectionPeriod,
    MaximumTimeCorrection,
    Weights,            \* weights a telecommand may carry, 16 bits, unsigned
    TargetTimes,        \* times of the SetTime telecommand
    RtcSteps,           \* how far the RTC may get in one tick
    MaxTicks,
    MaxCommands

ASSUME TimeAssumption ==
    /\ {NotificationPeriod, TimeCorrectionPeriod, MaximumTimeCorrection} \subseteq Nat
    /\ TimeCorrectionPeriod > 0 /\ MaximumTimeCorrection > 0
    /\ Weights \subseteq 0 .. 2 ^ 16 - 1 /\ RtcSteps \subseteq Nat
    /\ TargetTimes \subseteq Nat

VARIABLES
    currentTime, notificationTime,  \* fields of TimeProvider
    tickSemaphore,      \* binary semaphore between interrupt and BURTC task
    timeState,          \* persistent TimeState: last mission and external time
    correctionConfig,   \* persistent TimeCorrectionConfiguration
    syncSemaphore,      \* holder of TimeTask::syncSemaphore
    timePc,             \* where each of the three tasks is
    timeLocal,          \* local variables: time read, external time, weights, new time
    pending,            \* tasks about to send a notification
    rtc,                \* the external clock (external)
    ticks, commands,    \* bounded counters
    applied,            \* history: ticks added to mission time
    syncedAt,           \* history: applied, when TimeState's time was taken
    sinceKick           \* history: ticks since the internal watchdog was kicked

timeVars == <<currentTime, notificationTime, tickSemaphore, timeState, correctionConfig,
              syncSemaphore, timePc, timeLocal, pending, rtc, ticks, commands, applied,
              syncedAt, sinceKick>>

TimeTasks == {"burtc", "task", "tc"}
NoWeights == [mission |-> 0, external |-> 0]
NoLocal == [time |-> 0, external |-> 0, weights |-> NoWeights, new |-> 0, ok |-> FALSE]

-----------------------------------------------------------------------------
(* Arithmetic *)

(* std::int16_t of what the telecommand reads as an unsigned word. *)
Int16(w) == IF w < 2 ^ 15 THEN w ELSE w - 2 ^ 16

(* Division of C++: towards zero. *)
Quotient(a, b) ==
    LET abs(x) == IF x < 0 THEN -x ELSE x
        q == abs(a) \div abs(b)
    IN  IF (a < 0) = (b < 0) THEN q ELSE -q

Total(w) == w.mission + w.external

NonNegative(x) == IF x < 0 THEN 0 ELSE x

(* Faulty variant: the bound on the correction is forgotten forwards. *)
PerformTimeCorrection_Unbounded(missionTime, externalTime, last, w) ==
    LET deltaMcu == NonNegative(missionTime - last.mission)
        deltaRtc == NonNegative(externalTime - last.external)
        mean == last.mission + Quotient(deltaMcu * w.mission + deltaRtc * w.external, Total(w))
    IN  IF deltaRtc = 0 \/ Total(w) = 0 THEN {missionTime} ELSE {mean}

(* The new time, or any time at all where the code divides by zero, unless *)
(* the correction is too large.                                            *)
PerformTimeCorrection(missionTime, externalTime, last, w) ==
    LET deltaMcu == NonNegative(missionTime - last.mission)
        deltaRtc == NonNegative(externalTime - last.external)
        mean == last.mission + Quotient(deltaMcu * w.mission + deltaRtc * w.external, Total(w))
        small(t) == t - missionTime < MaximumTimeCorrection /\ missionTime - t < MaximumTimeCorrection
    IN  IF deltaRtc = 0 THEN {missionTime}
        ELSE IF Total(w) = 0
        THEN {t \in missionTime - MaximumTimeCorrection .. missionTime + MaximumTimeCorrection :
                  small(t) /\ t >= 0}
        ELSE IF small(mean) THEN {mean} ELSE {missionTime}

-----------------------------------------------------------------------------
(* The provider *)

(* BuildTimerState: has the period passed?  The count starts again then. *)
BuildTimerState(who, count) ==
    IF NotificationPeriod < count
    THEN notificationTime' = 0 /\ pending' = pending \cup {who}
    ELSE notificationTime' = count /\ UNCHANGED pending

(* Faulty variant: the notification is left to the next tick. *)
SetCurrentTime_Silent(who, t) ==
    currentTime' = t /\ notificationTime' = 0 /\ UNCHANGED pending

(* SetCurrentTime, which always notifies. *)
SetCurrentTime(who, t) ==
    currentTime' = t /\ BuildTimerState(who, NotificationPeriod + 1)

(* ProcessChange, SendTimeNotification: TimePassed (src/obc.cpp) kicks the *)
(* internal watchdog.                                                      *)
ProcessChange(who) ==
    /\ who \in pending /\ pending' = pending \ {who}
    /\ sinceKick' = 0
    /\ UNCHANGED <<currentTime, notificationTime, tickSemaphore, timeState, correctionConfig,
                   syncSemaphore, timePc, timeLocal, rtc, ticks, commands, applied, syncedAt>>

(* The interrupt gives the semaphore, taken or not; the RTC runs as well. *)
BurtcInterrupt ==
    /\ ticks < MaxTicks /\ ticks' = ticks + 1
    /\ tickSemaphore' = TRUE
    /\ \E d \in RtcSteps : rtc' = rtc + d
    /\ UNCHANGED <<currentTime, notificationTime, timeState, correctionConfig, syncSemaphore,
                   timePc, timeLocal, pending, commands, applied, syncedAt, sinceKick>>

(* HandleTickTask, AdvanceTime under the lock. *)
AdvanceTime ==
    /\ tickSemaphore /\ "burtc" \notin pending
    /\ tickSemaphore' = FALSE
    /\ currentTime' = currentTime + 1
    /\ BuildTimerState("burtc", notificationTime + 1)
    /\ applied' = applied + 1 /\ sinceKick' = sinceKick + 1
    /\ UNCHANGED <<timeState, correctionConfig, syncSemaphore, timePc, timeLocal, rtc, ticks,
                   commands, syncedAt>>

-----------------------------------------------------------------------------
(* The correction by the mission loop *)

At(who, here, there) == timePc[who] = here /\ timePc' = [timePc EXCEPT ![who] = there]
others == <<tickSemaphore, correctionConfig, rtc, ticks, commands, applied, sinceKick>>

(* UpdateProc copies mission time into the state of the mission loop. *)
TimeUpdate ==
    /\ At("task", "idle", "determine")
    /\ timeLocal' = [timeLocal EXCEPT !["task"].time = currentTime]
    /\ UNCHANGED <<currentTime, notificationTime, timeState, syncSemaphore, pending, syncedAt, others>>

CorrectTimeCondition ==
    /\ timePc["task"] = "determine"
    /\ LET due == timeLocal["task"].time - timeState.mission >= TimeCorrectionPeriod
       IN  timePc' = [timePc EXCEPT !["task"] = IF due THEN "lock" ELSE "idle"]
    /\ UNCHANGED <<currentTime, notificationTime, timeState, syncSemaphore, timeLocal, pending,
                   syncedAt, others>>

(* CorrectTime takes the lock and reads mission time. *)
CorrectTimeRead ==
    /\ At("task", "lock", "rtc")
    /\ syncSemaphore = "free" /\ syncSemaphore' = "task"
    /\ timeLocal' = [timeLocal EXCEPT !["task"] = [NoLocal EXCEPT !.time = currentTime]]
    /\ syncedAt' = [syncedAt EXCEPT !.read = applied]
    /\ UNCHANGED <<currentTime, notificationTime, timeState, pending, others>>

(* DetermineNewTimeState up to the new time, with a copy of the weights:   *)
(* the RTC may fail to answer or answer with an invalid time.              *)
CorrectTimeDetermine ==
    /\ At("task", "rtc", "set")
    /\ \/ UNCHANGED timeLocal
       \/ \E t \in PerformTimeCorrection(timeLocal["task"].time, rtc, timeState, correctionConfig) :
              timeLocal' = [timeLocal EXCEPT !["task"] =
                               [@ EXCEPT !.ok = TRUE, !.external = rtc, !.weights = correctionConfig,
                                          !.new = t]]
    /\ UNCHANGED <<currentTime, notificationTime, timeState, syncSemaphore, pending, syncedAt, others>>

(* SetCurrentTime with the new time: ticks since CorrectTimeRead are lost. *)
CorrectTimeSet ==
    /\ At("task", "set", "store") /\ "task" \notin pending
    /\ IF timeLocal["task"].ok
       THEN SetCurrentTime("task", timeLocal["task"].new)
            /\ syncedAt' = [syncedAt EXCEPT !.read = applied]
       ELSE UNCHANGED <<currentTime, notificationTime, pending, syncedAt>>
    /\ UNCHANGED <<timeState, syncSemaphore, timeLocal, others>>

(* The new synchronization state, or the time read with the old external   *)
(* time; the lock is given back.                                           *)
CorrectTimeStore ==
    /\ At("task", "store", "idle") /\ "task" \notin pending
    /\ timeState' = IF timeLocal["task"].ok
                    THEN [mission |-> timeLocal["task"].new, external |-> timeLocal["task"].external]
                    ELSE [timeState EXCEPT !.mission = timeLocal["task"].time]
    /\ syncedAt' = [syncedAt EXCEPT !.state = syncedAt.read]
    /\ syncSemaphore' = "free"
    /\ timeLocal' = [timeLocal EXCEPT !["task"] = NoLocal]
    /\ UNCHANGED <<currentTime, notificationTime, pending, others>>

-----------------------------------------------------------------------------
(* Telecommands *)

(* SetTimeCorrectionConfig refuses two weights of zero and nothing else. *)
SetTimeCorrectionConfig ==
    /\ timePc["tc"] = "idle" /\ commands < MaxCommands /\ commands' = commands + 1
    /\ \E m, e \in Weights :
           /\ ~(m = 0 /\ e = 0)
           /\ correctionConfig' = [mission |-> Int16(m), external |-> Int16(e)]
    /\ UNCHANGED <<currentTime, notificationTime, tickSemaphore, timeState, syncSemaphore,
                   timePc, timeLocal, pending, rtc, ticks, applied, syncedAt, sinceKick>>

(* Faulty variant: the synchronization lock is not taken. *)
SetTimeLock_Skipped ==
    /\ At("tc", "idle", "set")
    /\ commands < MaxCommands /\ commands' = commands + 1
    /\ \E t \in TargetTimes, e \in {rtc, timeState.external} :
           timeLocal' = [timeLocal EXCEPT !["tc"] = [NoLocal EXCEPT !.new = t, !.external = e]]
    /\ UNCHANGED <<currentTime, notificationTime, timeState, pending, syncedAt, tickSemaphore,
                   correctionConfig, rtc, ticks, applied, sinceKick, syncSemaphore>>

(* SetTime takes the lock and reads the RTC, or takes the last external    *)
(* time if the RTC fails.                                                  *)
SetTimeLock ==
    /\ At("tc", "idle", "set")
    /\ commands < MaxCommands /\ commands' = commands + 1
    /\ syncSemaphore = "free" /\ syncSemaphore' = "tc"
    /\ \E t \in TargetTimes, e \in {rtc, timeState.external} :
           timeLocal' = [timeLocal EXCEPT !["tc"] = [NoLocal EXCEPT !.new = t, !.external = e]]
    /\ UNCHANGED <<currentTime, notificationTime, timeState, pending, syncedAt, tickSemaphore,
                   correctionConfig, rtc, ticks, applied, sinceKick>>

SetTimeSet ==
    /\ At("tc", "set", "store") /\ "tc" \notin pending
    /\ SetCurrentTime("tc", timeLocal["tc"].new)
    /\ syncedAt' = [syncedAt EXCEPT !.read = applied]
    /\ UNCHANGED <<timeState, syncSemaphore, timeLocal, others>>

SetTimeStore ==
    /\ At("tc", "store", "idle") /\ "tc" \notin pending
    /\ timeState' = [mission |-> timeLocal["tc"].new, external |-> timeLocal["tc"].external]
    /\ syncedAt' = [syncedAt EXCEPT !.state = syncedAt.read]
    /\ syncSemaphore' = IF syncSemaphore = "tc" THEN "free" ELSE syncSemaphore
    /\ timeLocal' = [timeLocal EXCEPT !["tc"] = NoLocal]
    /\ UNCHANGED <<currentTime, notificationTime, pending, others>>

-----------------------------------------------------------------------------

(* Boot: mission time starts at the last one saved, with equal weights. *)
TimeInit ==
    /\ currentTime = 0 /\ notificationTime = 0 /\ tickSemaphore = FALSE
    /\ timeState = [mission |-> 0, external |-> 0]
    /\ correctionConfig = [mission |-> 1, external |-> 1]
    /\ syncSemaphore = "free" /\ pending = {} /\ rtc = 0
    /\ timePc = [who \in {"task", "tc"} |-> "idle"]
    /\ timeLocal = [who \in {"task", "tc"} |-> NoLocal]
    /\ ticks = 0 /\ commands = 0
    /\ applied = 0 /\ syncedAt = [read |-> 0, state |-> 0] /\ sinceKick = 0

CorrectTime ==
    \/ TimeUpdate \/ CorrectTimeCondition \/ CorrectTimeRead
    \/ CorrectTimeDetermine \/ CorrectTimeSet \/ CorrectTimeStore
TimeCommands == SetTimeCorrectionConfig \/ SetTimeLock \/ SetTimeSet \/ SetTimeStore
Notify == \E who \in TimeTasks : ProcessChange(who)

TimeNext == BurtcInterrupt \/ AdvanceTime \/ Notify \/ CorrectTime \/ TimeCommands

TimeSpec == TimeInit /\ [][TimeNext]_timeVars

-----------------------------------------------------------------------------
(* Properties *)

(* Mission time and the synchronization state always belong to the same    *)
(* synchronization: between two of them the clock is ahead of the state by *)
(* the ticks since then, whatever corrections, telecommands and ticks came *)
(* in between (syncSemaphore of TimeTask; libs/mission/time/time.cpp:144). *)
SyncCoherent ==
    syncSemaphore = "free" => currentTime - timeState.mission = applied - syncedAt.state

(* With weights that are not negative the corrected time lies between what *)
(* mission time was and where the RTC has it, and no correction reaches    *)
(* the maximum, whichever weights are commanded while the task is about to *)
(* set the time (time.cpp:183-219).                                        *)
CorrectionBetweenClocks ==
    LET l == timeLocal["task"]
        rtcTime == timeState.mission + NonNegative(l.external - timeState.external)
        small == l.new - l.time < MaximumTimeCorrection /\ l.time - l.new < MaximumTimeCorrection
    IN  timePc["task"] = "set" /\ l.ok =>
            /\ small
            /\ l.weights.mission >= 0 /\ l.weights.external >= 0 =>
                   \/ l.time <= l.new /\ l.new <= rtcTime
                   \/ rtcTime <= l.new /\ l.new <= l.time

(* The internal watchdog is kicked at least once in a notification period  *)
(* and a tick, however mission time is set (libs/time/timer.cpp:153-177).  *)
KickInTime == pending = {} => sinceKick <= NotificationPeriod

(* Mission time, its correction and its notification agree, however the     *)
(* tick, the mission loop and the telecommands interleave (time/timer.cpp,  *)
(* mission/time/time.cpp:142-219).                                         *)
TimeKept == SyncCoherent /\ CorrectionBetweenClocks /\ KickInTime
=============================================================================
