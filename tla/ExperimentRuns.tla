--------------------------- MODULE ExperimentRuns ---------------------------
(***************************************************************************)
(* What the experiments do (libs/experiments): Start takes files, power     *)
(* lines and the ADCS, iterations use them, Stop gives them back.  A call   *)
(* to a device may fail at any of these places, and a call that fails may   *)
(* still have had its effect.  One experiment is run from Start to its end; *)
(* the controller of experiments is module ExperimentController.           *)
(*                                                                         *)
(* Not the time but the time left until the deadline of the experiment is   *)
(* kept.  The photo service is module PhotoService.                        *)
(***************************************************************************)
EXTENDS Integers, Sequences

CONSTANTS
    Experiments,        \* experiments that are run
    Asked,              \* sessions or samples the telecommand may ask for
    Duration,           \* of an experiment, or between two sessions
    MaxRunFaults

ExperimentNames == {"RadFET", "SunS", "Detumbling", "Sail", "SADS", "LEOP", "Payload", "Camera", "Fibo"}

ASSUME RunsAssumption ==
    /\ Experiments \subseteq ExperimentNames
    /\ Asked \subseteq 0 .. 255 /\ Duration \in Nat /\ MaxRunFaults \in Nat

VARIABLES
    run,            \* experiment, where it is, calls to make, result
    held,           \* what is on, open or taken
    timeLeft,       \* until the deadline
    remaining,      \* sessions, samples or steps still to do (8 bits, Fibo 32)
    asked, done,    \* history: sessions or samples asked for, and done
    excused,        \* history: things the last call to which failed
    runFaults       \* bounded counter

runVars == <<run, held, timeLeft, remaining, asked, done, excused, runFaults>>

RunFault == runFaults < MaxRunFaults /\ runFaults' = runFaults + 1
RunOk == UNCHANGED runFaults

On(what) == [op |-> "on", what |-> what]
Off(what) == [op |-> "off", what |-> what]
CurrentTime == [op |-> "time", what |-> "clock"]
SaveRecord == [op |-> "write", what |-> "file"]
Measure == [op |-> "measure", what |-> "payload"]

(* A call of Start, and what is done if it fails. *)
OrElse(call, calls) == [call |-> call, else |-> calls]

-----------------------------------------------------------------------------
(* Stop of each experiment, which looks at no result. *)

RadFETStop == <<Off("RadFET"), Off("SENS"), CurrentTime, SaveRecord, Off("file")>>
SunSStop == <<Off("file"), Off("second file")>>
DetumblingCleanUp == <<Off("file"), Off("SENS"), Off("ADCS")>>
(* Faulty variant: the sensors are left on. *)
SailStop_KeepsPower == <<Off("file"), Off("ADCS")>>
SailStop == <<Off("file"), Off("ADCS"), Off("SENS")>>

StopOf == [
    RadFET |-> RadFETStop, SunS |-> SunSStop, Detumbling |-> DetumblingCleanUp,
    Sail |-> SailStop, SADS |-> SailStop, LEOP |-> <<Off("file")>>,
    Payload |-> <<Off("file")>>, Camera |-> <<Off("file")>>, Fibo |-> <<Off("file")>>]

(* Start of each experiment. *)
RadFETOn == <<Off("RadFET"), Off("SENS"), Off("file")>>
StartOf == [
    RadFET |-> <<OrElse(On("file"), <<>>),
                 OrElse(On("SENS"), <<Off("file")>>),
                 OrElse(On("RadFET"), <<Off("SENS"), Off("file")>>),
                 OrElse(CurrentTime, RadFETOn),
                 OrElse(SaveRecord, RadFETOn)>>,
    SunS |-> <<OrElse(On("file"), <<>>), OrElse(On("second file"), <<Off("file")>>)>>,
    Detumbling |-> <<OrElse(On("file"), DetumblingCleanUp),
                     OrElse(CurrentTime, DetumblingCleanUp),
                     OrElse(On("SENS"), DetumblingCleanUp),
                     OrElse(On("ADCS"), DetumblingCleanUp)>>,
    Sail |-> <<OrElse(On("file"), SailStop), OrElse(On("ADCS"), SailStop),
               OrElse(On("SENS"), SailStop), OrElse(CurrentTime, SailStop)>>,
    SADS |-> <<OrElse(On("file"), SailStop), OrElse(On("ADCS"), SailStop),
               OrElse(On("SENS"), SailStop), OrElse(CurrentTime, SailStop)>>,
    LEOP |-> <<OrElse(CurrentTime, <<>>), OrElse(On("file"), <<>>)>>,
    Payload |-> <<OrElse(On("file"), <<>>)>>,
    Camera |-> <<OrElse(On("file"), <<>>)>>,
    Fibo |-> <<OrElse(On("file"), <<>>)>>]

(* The steps of the payload commissioning. *)
PayloadStep == <<
    <<On("SENS"), Measure, Off("SENS")>>,
    <<On("SENS"), Measure, On("RadFET"), Measure, Off("RadFET"), Measure, Off("SENS")>>,
    <<On("CamNadir"), Measure, Off("CamNadir"), On("CamWing"), Measure, Off("CamWing")>>,
    <<>>,
    <<On("SunS"), Measure, Off("SunS")>> >>

(* Calls of an iteration after it has looked at the time. *)
SunSSession == <<On("SENS"), On("SunS"), Measure, SaveRecord, Off("SENS"), Off("SunS")>>

-----------------------------------------------------------------------------

Goes(where, calls) == run' = [run EXCEPT !.pc = where, !.calls = calls]
Ends(result, calls) == run' = [run EXCEPT !.pc = "stop", !.calls = calls, !.result = result]

(* A call that works, and one that does not. *)
Works(call) ==
    /\ RunOk
    /\ held' = CASE call.op = "on" -> held \cup {call.what}
                 [] call.op = "off" -> held \ {call.what}
                 [] OTHER -> held
    /\ excused' = excused \ {call.what}
Fails(call) ==
    /\ RunFault
    /\ \/ UNCHANGED held
       \/ call.op = "on" /\ held' = held \cup {call.what}
       \/ call.op = "off" /\ held' = held \ {call.what}
    /\ excused' = IF call.op \in {"on", "off"} THEN excused \cup {call.what} ELSE excused

(* Values Start sets when it has succeeded.  The deadline of LEOP is fixed, *)
(* and the one of SunS is what an earlier run has left.                    *)
Started ==
    /\ Goes("between", <<>>)
    /\ timeLeft' = IF run.name \in {"Detumbling", "Sail", "SADS"} THEN Duration ELSE timeLeft
    /\ remaining' = IF run.name \in {"SunS", "Fibo"} THEN asked ELSE 0

(* LEOP is not started after its end. *)
TooLate == run.name = "LEOP" /\ timeLeft = 0 /\ Head(run.calls).call = CurrentTime

Start ==
    /\ run.pc = "start"
    /\ \/ /\ run.calls = <<>> /\ Started /\ UNCHANGED <<held, excused, runFaults>>
       \/ /\ run.calls # <<>> /\ ~TooLate /\ Works(Head(run.calls).call)
          /\ Goes("start", Tail(run.calls)) /\ UNCHANGED <<timeLeft, remaining>>
       \/ /\ run.calls # <<>> /\ ~TooLate /\ Fails(Head(run.calls).call)
          /\ Ends("NotStarted", Head(run.calls).else) /\ UNCHANGED <<timeLeft, remaining>>
       \/ /\ run.calls # <<>> /\ TooLate /\ Ends("NotStarted", <<>>)
          /\ UNCHANGED <<held, excused, runFaults, timeLeft, remaining>>
    /\ UNCHANGED <<asked, done>>

(* Faulty variant: the deadline is set again by every iteration. *)
TimedIteration_Restarts ==
    /\ run.pc = "between" /\ run.name \in {"Detumbling", "Sail", "SADS", "LEOP"}
    /\ \/ timeLeft = 0 /\ Ends("Finished", StopOf[run.name]) /\ UNCHANGED timeLeft
       \/ timeLeft > 0 /\ Goes("iteration", <<Measure, SaveRecord>>) /\ timeLeft' = Duration
    /\ UNCHANGED <<held, remaining, asked, done, excused, runFaults>>

(* The experiments that look at the time first: it is not to be had, the    *)
(* deadline is over, or it is not.                                         *)
TimedIteration ==
    /\ run.pc = "between" /\ run.name \in {"Detumbling", "Sail", "SADS", "LEOP"}
    /\ \/ /\ RunFault
          /\ IF run.name = "LEOP" THEN Ends("Failure", StopOf[run.name])
             ELSE Goes("between", <<>>)
       \/ RunOk /\ timeLeft = 0 /\ Ends("Finished", StopOf[run.name])
       \/ RunOk /\ timeLeft > 0 /\ Goes("iteration", <<Measure, SaveRecord>>)
    /\ UNCHANGED <<held, timeLeft, remaining, asked, done, excused>>

SunSIteration ==
    /\ run.pc = "between" /\ run.name = "SunS"
    /\ \/ RunFault /\ UNCHANGED <<run, remaining, done>>
       \/ RunOk /\ timeLeft > 0 /\ UNCHANGED <<run, remaining, done>>
       \/ /\ RunOk /\ timeLeft = 0 /\ remaining' = (remaining + 255) % 256
          /\ done' = done + 1 /\ Goes("iteration", SunSSession)
    /\ UNCHANGED <<held, timeLeft, asked, excused>>

(* A sample is counted before the time is known; without the time there is  *)
(* none.                                                                   *)
RadFETIteration ==
    /\ run.pc = "between" /\ run.name = "RadFET"
    /\ remaining' = (remaining + 1) % 256
    /\ \/ RunFault /\ UNCHANGED <<run, done>>
       \/ RunOk /\ done' = done + 1 /\ Goes("iteration", <<Measure, Measure, SaveRecord>>)
    /\ UNCHANGED <<held, timeLeft, asked, excused>>

PayloadIteration ==
    /\ run.pc = "between" /\ run.name = "Payload" /\ remaining' = remaining + 1
    /\ Goes("iteration", PayloadStep[remaining + 1])
    /\ UNCHANGED <<held, timeLeft, asked, done, excused, runFaults>>

CameraIteration ==
    /\ run.pc = "between" /\ run.name = "Camera" /\ remaining' = remaining + 1
    /\ Goes("iteration", <<>>)
    /\ UNCHANGED <<held, timeLeft, asked, done, excused, runFaults>>

FiboIteration ==
    /\ run.pc = "between" /\ run.name = "Fibo" /\ done' = done + 1
    /\ remaining' = IF remaining = 0 THEN 2 ^ 32 - 1 ELSE remaining - 1
    /\ Goes("iteration", <<SaveRecord>>)
    /\ UNCHANGED <<held, timeLeft, asked, excused, runFaults>>

(* A call within an iteration.  Only RadFET looks at the result. *)
IterationCall ==
    /\ run.pc = "iteration" /\ run.calls # <<>>
    /\ \/ Works(Head(run.calls)) /\ Goes("iteration", Tail(run.calls))
       \/ /\ Fails(Head(run.calls)) /\ run.name # "RadFET"
          /\ Goes("iteration", Tail(run.calls))
       \/ Fails(Head(run.calls)) /\ run.name = "RadFET" /\ Ends("Failure", StopOf["RadFET"])
    /\ UNCHANGED <<timeLeft, remaining, asked, done>>

(* Faulty variant: one session more. *)
Finished_OneMore ==
    \/ run.name = "SunS" /\ remaining = 255
    \/ run.name = "Fibo" /\ remaining = 0
    \/ run.name = "RadFET" /\ remaining >= asked
    \/ run.name = "Payload" /\ remaining = 5
    \/ run.name = "Camera" /\ remaining = 3
(* The iteration was the last one. *)
Finished ==
    \/ run.name \in {"SunS", "Fibo"} /\ remaining = 0
    \/ run.name = "RadFET" /\ remaining >= asked
    \/ run.name = "Payload" /\ remaining = 5
    \/ run.name = "Camera" /\ remaining = 3

(* The time after a session of SunS, from which the deadline of the next is *)
(* taken, is not tested either.                                            *)
RunIterationEnds ==
    /\ run.pc = "iteration" /\ run.calls = <<>>
    /\ \/ Finished /\ Ends("Finished", StopOf[run.name]) /\ UNCHANGED <<timeLeft, runFaults>>
       \/ /\ ~Finished /\ Goes("between", <<>>)
          /\ \/ run.name # "SunS" /\ UNCHANGED <<timeLeft, runFaults>>
             \/ run.name = "SunS" /\ timeLeft' = Duration /\ RunOk
             \/ run.name = "SunS" /\ timeLeft' = 0 /\ RunFault
    /\ UNCHANGED <<held, remaining, asked, done, excused>>

(* The controller ends the experiment between two iterations. *)
AbortRun ==
    /\ run.pc = "between" /\ Ends("Aborted", StopOf[run.name])
    /\ UNCHANGED <<held, timeLeft, remaining, asked, done, excused, runFaults>>

Stop ==
    /\ run.pc = "stop"
    /\ \/ /\ run.calls # <<>> /\ (Works(Head(run.calls)) \/ Fails(Head(run.calls)))
          /\ Goes("stop", Tail(run.calls))
       \/ run.calls = <<>> /\ Goes("over", <<>>) /\ UNCHANGED <<held, excused, runFaults>>
    /\ UNCHANGED <<timeLeft, remaining, asked, done>>

(* Time passes, or is put back. *)
TimePasses ==
    /\ run.pc # "over"
    /\ \/ timeLeft > 0 /\ timeLeft' = timeLeft - 1 /\ RunOk
       \/ timeLeft > 0 /\ timeLeft' = Duration /\ RunFault
    /\ UNCHANGED <<run, held, remaining, asked, done, excused>>

-----------------------------------------------------------------------------

RunsInit ==
    /\ \E name \in Experiments :
          run = [name |-> name, pc |-> "start", calls |-> StartOf[name], result |-> "None"]
    /\ held = {} /\ excused = {} /\ timeLeft \in 0 .. Duration
    /\ remaining = 0 /\ asked \in Asked /\ done = 0 /\ runFaults = 0

Iteration ==
    \/ TimedIteration \/ SunSIteration \/ RadFETIteration \/ PayloadIteration
    \/ CameraIteration \/ FiboIteration \/ IterationCall \/ RunIterationEnds

RunsRest == run.pc = "over" /\ UNCHANGED runVars

RunsNext == Start \/ Iteration \/ AbortRun \/ Stop \/ TimePasses \/ RunsRest

RunsSpec == RunsInit /\ [][RunsNext]_runVars

(* The experiment task goes on and time passes; nobody need abort. *)
RunsFairness ==
    /\ WF_runVars(Start \/ Iteration \/ Stop)
    /\ WF_runVars(TimePasses)

-----------------------------------------------------------------------------

(* NothingLeftOn: when the experiment is over, however it ended and         *)
(* whichever call of it failed, no file is open, no power line is on and    *)
(* the ADCS is not taken, unless the last call about that very thing was    *)
(* the one to fail (the paths out of Start, Stop).                         *)
NothingLeftOn == run.pc = "over" => held \subseteq excused

(* MeasuredAsAsked: an experiment that has finished has done the sessions   *)
(* that were asked for, and 256 of SunS for none; RadFET, which counts      *)
(* attempts in eight bits, no more than that, unless the time was not to be *)
(* had so often that the count went round (radfet.cpp:97, suns.cpp:102).    *)
MeasuredAsAsked ==
    run.result = "Finished" =>
        /\ run.name \in {"SunS", "Fibo"} /\ asked > 0 => done = asked
        /\ run.name = "SunS" /\ asked = 0 => done = 256
        /\ run.name = "RadFET" /\ asked > 0 /\ asked + runFaults < 256 => done \in 1 .. asked
        /\ run.name = "RadFET" /\ asked = 0 => done = 1

(* RunEnds: every experiment comes to its end (Iteration, Stop). *)
RunEnds == run.pc = "start" ~> run.pc = "over"

(* Every way out of an experiment gives back what it took, and an           *)
(* experiment that ends by itself has measured as often as it was asked     *)
(* (the Start, Iteration and Stop of every experiment).                    *)
RunsSound == NothingLeftOn /\ MeasuredAsAsked
=============================================================================
