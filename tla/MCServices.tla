---------------------------- MODULE MCServices ----------------------------
(***************************************************************************)
(* The services below the mission loop.  They share no variable, so one    *)
(* run explores them side by side and not in their product: `part` says     *)
(* which service a behaviour is about, and the others stay as they are.    *)
(***************************************************************************)
EXTENDS TimeKeeping, LoopControl, AdcsControl, ExperimentFile, TelemetryArchive,
        ExperimentRuns, I2CBus, RedundantFlash

VARIABLE part

Parts == {"time", "loop", "adcs", "file", "archive", "runs", "bus", "flash"}

(* Mission time is set back by more than the delay between two saves. *)
SetBack == {-2, 0}

-----------------------------------------------------------------------------

servicesVars == <<timeVars, loopVars, adcsVars, fileVars, archiveVars, runVars, busVars,
                  flashVars, part>>

(* Of the services a behaviour is not about one initial state is enough. *)
ServicesInit ==
    /\ part \in Parts
    /\ TimeInit /\ LoopInit /\ AdcsInit /\ FileInit
    /\ ArchiveInit /\ RunsInit /\ BusInit /\ FlashInit
    /\ part # "file" => Len(frame) = 1
    /\ part # "archive" => delta = 0
    /\ part # "runs" => run.name = "Fibo" /\ timeLeft = 0 /\ asked = 1

ServicesNext ==
    \/ /\ part = "time" /\ TimeNext
       /\ UNCHANGED <<loopVars, adcsVars, fileVars, archiveVars, runVars, busVars, flashVars, part>>
    \/ /\ part = "loop" /\ LoopNext
       /\ UNCHANGED <<timeVars, adcsVars, fileVars, archiveVars, runVars, busVars, flashVars, part>>
    \/ /\ part = "adcs" /\ AdcsNext
       /\ UNCHANGED <<timeVars, loopVars, fileVars, archiveVars, runVars, busVars, flashVars, part>>
    \/ /\ part = "file" /\ FileNext
       /\ UNCHANGED <<timeVars, loopVars, adcsVars, archiveVars, runVars, busVars, flashVars, part>>
    \/ /\ part = "archive" /\ ArchiveNext
       /\ UNCHANGED <<timeVars, loopVars, adcsVars, fileVars, runVars, busVars, flashVars, part>>
    \/ /\ part = "runs" /\ RunsNext
       /\ UNCHANGED <<timeVars, loopVars, adcsVars, fileVars, archiveVars, busVars, flashVars, part>>
    \/ /\ part = "bus" /\ BusNext
       /\ UNCHANGED <<timeVars, loopVars, adcsVars, fileVars, archiveVars, runVars, flashVars, part>>
    \/ /\ part = "flash" /\ FlashNext
       /\ UNCHANGED <<timeVars, loopVars, adcsVars, fileVars, archiveVars, runVars, busVars, part>>

(* The fairness of each service, in the behaviours that are about it. *)
ServicesFairness ==
    /\ SF_loopVars(part = "loop" /\ TaskLoop)
    /\ WF_loopVars(part = "loop" /\ Terminal)
    /\ WF_adcsVars(part = "adcs" /\ AdcsTask)
    /\ WF_adcsVars(part = "adcs" /\ AdcsPrimaryTask)
    /\ WF_adcsVars(part = "adcs" /\ FourHoursPass)
    /\ WF_runVars(part = "runs" /\ (Start \/ Iteration \/ Stop))
    /\ WF_runVars(part = "runs" /\ TimePasses)
    /\ \A t \in BusTasks :
          WF_busVars(part = "bus" /\ (TransferInit(t) \/ PopResult(t) \/ PopTimesOut(t) \/ AbortTransfer(t)))
    /\ WF_busVars(part = "bus" /\ IRQHandler)

ServicesSpec == ServicesInit /\ [][ServicesNext]_servicesVars /\ ServicesFairness

-----------------------------------------------------------------------------

(* A mission loop that is not paused goes on running iterations             *)
(* (MissionLoop::TaskLoop, libs/mission/Include/mission/main.hpp:497).      *)
LoopRuns == part = "loop" => LoopGoesOn

(* Every experiment that is started is over some time, whatever fails       *)
(* (the Iteration of every experiment under libs/experiments).             *)
ExperimentEnds == part = "runs" => RunEnds

(* The loop runs unless it is paused, and answers its commands (TaskLoop).  *)
LoopServes == LoopRuns /\ CommandReturns
===========================================================================
