------------------------------- MODULE I2CBus -------------------------------
(***************************************************************************)
(* One I2C bus that several tasks use (libs/drivers/i2c/efm.cpp), with the  *)
(* error handler of libs/obc/hardware/hardware.cpp on top.  The peripheral  *)
(* executes a transfer on its own and its interrupt handler puts the result *)
(* into a queue of one element; the task waits for that with a timeout, and *)
(* aborts the transfer when it is over.                                    *)
(*                                                                         *)
(* A transfer is the number it was given, whatever is sent or read.  The    *)
(* EPS, whose watchdog switches a satellite with a dead bus off and on as   *)
(* well, is left out.                                                      *)
(***************************************************************************)
EXTENDS Integers, Sequences

CONSTANTS BusTasks, MaxTransfers, MaxBusFaults

NoTransfer == 0
NoTask == "none"

ASSUME BusAssumption == NoTask \notin BusTasks

VARIABLES
    busLock,        \* holder of _lock
    peripheral,     \* transfer that is being executed
    resultQueue,    \* _resultQueue: transfer and result
    busTask,        \* each task: where it is, its transfer, what it was told
    latched,        \* SCL or SDA is held low
    lateResult,           \* history: a result came after the wait for it
    transfers, busFaults    \* bounded counters

busVars == <<busLock, peripheral, resultQueue, busTask, latched, lateResult, transfers, busFaults>>

NotTold == [of |-> NoTransfer, result |-> "none"]
Outside == [pc |-> "outside", transfer |-> NoTransfer, told |-> NotTold]

BusFault == busFaults < MaxBusFaults /\ busFaults' = busFaults + 1
BusOk == UNCHANGED busFaults

(* ExecuteTransfer returns, and the lock is given back. *)
TransferReturns(t, of, result) ==
    /\ busTask' = [busTask EXCEPT ![t] = [@ EXCEPT !.pc = "outside",
                                                   !.told = [of |-> of, result |-> result]]]
    /\ busLock' = NoTask

-----------------------------------------------------------------------------

(* ExecuteTransfer: a new transfer and the lock. *)
Lock(t) ==
    /\ busTask[t].pc = "outside" /\ busLock = NoTask /\ transfers < MaxTransfers
    /\ busLock' = t /\ transfers' = transfers + 1
    /\ busTask' = [busTask EXCEPT ![t] = [pc |-> "locked", transfer |-> transfers + 1, told |-> NotTold]]
    /\ UNCHANGED <<peripheral, resultQueue, latched, lateResult, busFaults>>

(* Faulty variant: the lock is given back while the task waits. *)
TransferInit_Unlocks(t) ==
    /\ busTask[t].pc = "locked"
    /\ \/ /\ latched /\ TransferReturns(t, busTask[t].transfer, "LineAlreadyLatched")
          /\ UNCHANGED peripheral
       \/ /\ ~latched /\ peripheral' = busTask[t].transfer
          /\ busTask' = [busTask EXCEPT ![t].pc = "waiting"] /\ busLock' = NoTask
    /\ UNCHANGED <<resultQueue, latched, lateResult, transfers, busFaults>>

(* The lines are tested and the transfer is begun.  I2C_TransferInit aborts *)
(* what is still going on, and may refuse.                                 *)
TransferInit(t) ==
    /\ busTask[t].pc = "locked"
    /\ \/ /\ latched /\ TransferReturns(t, busTask[t].transfer, "LineAlreadyLatched")
          /\ UNCHANGED <<peripheral, busFaults>>
       \/ /\ ~latched /\ BusFault /\ TransferReturns(t, busTask[t].transfer, "UsageFault")
          /\ UNCHANGED peripheral
       \/ /\ ~latched /\ BusOk /\ peripheral' = busTask[t].transfer
          /\ busTask' = [busTask EXCEPT ![t].pc = "waiting"] /\ UNCHANGED busLock
    /\ UNCHANGED <<resultQueue, latched, lateResult, transfers>>

(* The transfer is over.  PushISR into a queue that is full fails. *)
IRQHandler ==
    /\ peripheral # NoTransfer /\ ~latched /\ peripheral' = NoTransfer
    /\ \E result \in {"OK", "Nack"} :
          resultQueue' = IF resultQueue = <<>> THEN <<[of |-> peripheral, result |-> result]>>
                         ELSE resultQueue
    /\ lateResult' = (lateResult \/ \A t \in BusTasks :
                   ~(busTask[t].pc = "waiting" /\ busTask[t].transfer = peripheral))
    /\ UNCHANGED <<busLock, busTask, latched, transfers, busFaults>>

(* Pop: the element there is, whichever transfer it is of. *)
PopResult(t) ==
    /\ busTask[t].pc = "waiting" /\ resultQueue # <<>>
    /\ resultQueue' = <<>>
    /\ TransferReturns(t, Head(resultQueue).of, Head(resultQueue).result)
    /\ UNCHANGED <<peripheral, latched, lateResult, transfers, busFaults>>

(* Faulty variant: when the time is over the task waits again. *)
PopTimesOut_WaitsOn(t) ==
    busTask[t].pc = "waiting" /\ resultQueue = <<>> /\ latched /\ UNCHANGED busVars

(* The time is over: the device stretches the clock, or the lines are low. *)
PopTimesOut(t) ==
    /\ busTask[t].pc = "waiting" /\ resultQueue = <<>>
    /\ ((latched /\ BusOk) \/ (~latched /\ BusFault))
    /\ busTask' = [busTask EXCEPT ![t].pc = "aborting"]
    /\ UNCHANGED <<busLock, peripheral, resultQueue, latched, lateResult, transfers>>

(* Faulty variant: the lines are not looked at again. *)
AbortTransfer_NotTested(t) ==
    /\ busTask[t].pc = "aborting" /\ peripheral' = NoTransfer
    /\ TransferReturns(t, busTask[t].transfer, "Timeout")
    /\ UNCHANGED <<resultQueue, latched, lateResult, transfers, busFaults>>

(* The abort.  For lines that are held low the error handler has the        *)
(* satellite switched off and on: nothing is left of what was going on.     *)
AbortTransfer(t) ==
    /\ busTask[t].pc = "aborting" /\ peripheral' = NoTransfer
    /\ \/ /\ ~latched /\ TransferReturns(t, busTask[t].transfer, "Timeout")
          /\ UNCHANGED <<resultQueue, latched, lateResult>>
       \/ /\ latched /\ latched' = FALSE
          /\ busLock' = NoTask /\ resultQueue' = <<>> /\ lateResult' = FALSE
          /\ busTask' = [s \in BusTasks |-> Outside]
    /\ UNCHANGED <<transfers, busFaults>>

(* A device holds a line low. *)
LineLatches ==
    /\ ~latched /\ BusFault /\ latched' = TRUE
    /\ UNCHANGED <<busLock, peripheral, resultQueue, busTask, lateResult, transfers>>

-----------------------------------------------------------------------------

BusInit ==
    /\ busLock = NoTask /\ peripheral = NoTransfer /\ resultQueue = <<>>
    /\ busTask = [t \in BusTasks |-> Outside]
    /\ latched = FALSE /\ lateResult = FALSE /\ transfers = 0 /\ busFaults = 0

ExecuteTransfer(t) ==
    Lock(t) \/ TransferInit(t) \/ PopResult(t) \/ PopTimesOut(t) \/ AbortTransfer(t)

(* The bound on transfers is reached. *)
BusRests ==
    /\ transfers = MaxTransfers /\ \A t \in BusTasks : busTask[t].pc = "outside"
    /\ UNCHANGED busVars

BusNext == (\E t \in BusTasks : ExecuteTransfer(t)) \/ IRQHandler \/ LineLatches \/ BusRests

BusSpec == BusInit /\ [][BusNext]_busVars

(* The tasks and the interrupt go on. *)
BusFairness ==
    /\ \A t \in BusTasks :
          WF_busVars(TransferInit(t) \/ PopResult(t) \/ PopTimesOut(t) \/ AbortTransfer(t))
    /\ WF_busVars(IRQHandler)

-----------------------------------------------------------------------------

(* OwnResult: a task is told the result of its own transfer, though others  *)
(* use the bus, unless a result came in between the end of a wait and the   *)
(* abort (ExecuteTransfer holds the lock until the result is there).        *)
OwnResult ==
    \A t \in BusTasks :
        busTask[t].told # NotTold => (lateResult \/ busTask[t].told.of = busTask[t].transfer)

(* LatchEnds: lines that are held low while a transfer goes on lead to a    *)
(* power cycle, which frees them (I2CErrorHandler).                        *)
LatchEnds ==
    (latched /\ \E t \in BusTasks : busTask[t].pc \in {"waiting", "aborting"} /\ resultQueue = <<>>)
        ~> ~latched

(* TransferEnds: a task that has begun a transfer is told something. *)
TransferEnds == \A t \in BusTasks : busTask[t].pc # "outside" ~> busTask[t].pc = "outside"

(* Whatever the bus does, the tasks that wait for it and the lines come     *)
(* free again (efm.cpp:36-65, hardware.cpp).                               *)
BusRecovers == LatchEnds /\ TransferEnds
=============================================================================
