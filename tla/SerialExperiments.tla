------------------------- MODULE SerialExperiments -------------------------
(***************************************************************************)
(* What the experiment controller promises to those who ask for            *)
(* experiments: one experiment at a time.  The request accepted last is    *)
(* handed over once and run at most once; an experiment that has started   *)
(* takes its turns and is stopped once, one that has not is never stopped; *)
(* no turn begins while an abort is asked for, and an abort does not        *)
(* outlive the experiment it came too late for.                            *)
(*                                                                         *)
(* There are no tasks, no event group and no mission loop here:            *)
(* ExperimentController has them, ExperimentMission puts the tasks of the  *)
(* mission and resets around it, and both implement this specification.    *)
(***************************************************************************)
CONSTANTS
    Codes,          \* experiment codes that can be requested
    Experiments,    \* codes that have an experiment
    NoExperiment

VARIABLES
    wanted,         \* the code accepted last and not handed over
    handed,         \* the code to be taken next
    running,        \* the code that was taken
    phase,          \* how far its experiment is
    abort           \* an abort is asked for

runner == <<wanted, handed, running, phase, abort>>

Init ==
    /\ wanted = NoExperiment /\ handed = NoExperiment /\ running = NoExperiment
    /\ phase = "none" /\ abort = FALSE

PhaseGoes(from, to) == phase = from /\ phase' = to

(* Requests and aborts come at any time; the last request counts.          *)
Accept == wanted' \in Codes /\ UNCHANGED <<handed, running, phase, abort>>
Abort == abort' = TRUE /\ UNCHANGED <<wanted, handed, running, phase>>

(* What is handed over replaces what has not been taken.                   *)
HandOver ==
    /\ wanted # NoExperiment
    /\ handed' = wanted /\ wanted' = NoExperiment
    /\ UNCHANGED <<running, phase, abort>>

(* The code is taken away with the first step, so it is not run again.     *)
Take ==
    /\ handed \in Experiments /\ PhaseGoes("none", "taken")
    /\ running' = handed /\ handed' = NoExperiment
    /\ UNCHANGED <<wanted, abort>>

Drop ==
    /\ handed \in Codes \ Experiments /\ phase = "none"
    /\ handed' = NoExperiment
    /\ UNCHANGED <<wanted, running, phase, abort>>

(* An abort of the experiment before this one is forgotten.                *)
Begin ==
    /\ PhaseGoes("taken", "begun") /\ abort' = FALSE
    /\ UNCHANGED <<wanted, handed, running>>

Advance ==
    /\ \/ PhaseGoes("begun", "between")         \* Start succeeds
       \/ PhaseGoes("begun", "over")            \* Start fails
       \/ PhaseGoes("between", "turn") /\ ~abort
       \/ PhaseGoes("turn", "between")          \* there is another iteration
       \/ PhaseGoes("turn", "ending")           \* it has finished or failed
       \/ PhaseGoes("ending", "over")           \* Stop
    /\ UNCHANGED <<wanted, handed, running, abort>>

CutShort ==
    /\ PhaseGoes("between", "ending")
    /\ abort /\ abort' = FALSE
    /\ UNCHANGED <<wanted, handed, running>>

End ==
    /\ PhaseGoes("over", "none") /\ running' = NoExperiment
    /\ UNCHANGED <<wanted, handed, abort>>

(* A reset forgets everything.                                             *)
Restart ==
    /\ wanted' = NoExperiment /\ handed' = NoExperiment /\ running' = NoExperiment
    /\ phase' = "none" /\ abort' = FALSE

Next ==
    \/ Accept \/ Abort \/ HandOver \/ Take \/ Drop
    \/ Begin \/ Advance \/ CutShort \/ End \/ Restart

Spec == Init /\ [][Next]_runner
=============================================================================
