# Formal models of the PW-Sat2 on-board computer

TLA+ models, TLC configurations and TLAPS proofs for the flight software of
PW-Sat2's on-board computer (OBC): a FreeRTOS program in C++ that deploys the
antennas and the de-orbit sail, runs experiments, keeps time, and answers
telecommands. Source paths below are relative to `src/` of the repository.

1. [The system](#1-the-system)
2. [Modules](#2-modules)
3. [Runs](#3-runs)
4. [Bounds](#4-bounds)
5. [Fairness](#5-fairness)
6. [Proofs](#6-proofs)
7. [Where the code and its documents disagree](#7-where-the-code-and-its-documents-disagree)
8. [Abstractions](#8-abstractions)
9. [Not modelled](#9-not-modelled)
10. [Plan](#10-plan)

To repeat a result, in this directory:

    tlc -config SailDeployment.cfg SailDeployment.tla
    tlc -config Services.cfg MCServices.tla
    tlapm ExperimentController_proof.tla

## 1. The system

### 1.1 Tasks

The OBC runs a handful of preemptive FreeRTOS tasks. Tasks of one priority share
the processor in time slices.

| Task | Priority | Source | Work |
|---|---|---|---|
| mission loop | P4 | `libs/mission/Include/mission/main.hpp` | one iteration every 10 s |
| telemetry loop | P4 | the same class, other tasks | one iteration every 30 s |
| COMM | P4 | `libs/drivers/comm/comm.cpp` | polls the radio, handles telecommands |
| experiments | P4 | `libs/experiments/experiments.cpp` | runs one experiment at a time |
| ADCS coordinator | P4 | `libs/adcs/AdcsCoordinator.cpp` | attitude control modes |
| photo service | P5 | `libs/photo/photo_service.cpp` | camera command queue |
| BURTC | P6 | `libs/drivers/burtc/` | advances mission time |
| scrubber | P6 | `libs/obc/scrubbing/scrubbing.cpp` | repairs program memory |
| init / beacon | P14 | `src/main.cpp` | boots, then sends the beacon |
| terminal | highest | `libs/terminal/` | bench only |

Three watchdogs guard them: an internal one, an external one, and the one of the
power system (EPS), which the mission loop kicks: `doc/watchdogs.md:9` gives as
its meaning "Mission loop running (so sail will eventually open)".

### 1.2 The mission loop

The loop is a template over a list of tasks (`src/mission.h:50-68`). A task
contributes updates, conditions with actions, and, if it keeps times of its own,
`TimeChanged`. One iteration (`main.hpp:444-467`) is

1. all updates in list order, up to the first that fails (`logic.hpp:23-41`);
2. all conditions, evaluated before any action (`logic.hpp:81-101`);
3. the actions whose condition held, in list order (`logic.hpp:103-113`).

A condition is therefore old when its action runs: earlier actions of the same
iteration, and every other task, have been at work in between. Only a
`CompositeAction` (`base.hpp:348-419`) evaluates the conditions of its parts
right before each of them. This is the source of several hazards below.

| Task of the list | State | Operations | What makes it correct |
|---|---|---|---|
| memory recovery | - | re-initializes NAND | - |
| time (`mission/time`) | time of last synchronization | copy mission time, correct it against the RTC | bounded correction; tasks told |
| antenna (`mission/antenna`) | step, deadline, retries; `disabled` flag | deploy step by step | every antenna deployed, no burn cut, controllers off |
| comm (`mission/comm`) | idle state and its end | leaves the idle state | idle state ends |
| sail (`mission/sail`) | step, deadline, order, overheat flag; persistent sail state | open, stop, burn step by step | opens eventually; full burns; stop respected |
| ADCS (`mission/adcs`) | WaitingForStart, Detumbling, Stopped | start and stop detumbling | mode entered when asked for |
| experiments (`mission/experiments`) | - | kick the running, start the requested experiment | nothing lost, nothing started twice |
| beacon (`mission/beacon`) | enabled flag | switches the beacon on | on after the deployment |
| error counter configuration | - | copies the configuration into the persistent state | - |
| persistent state save | modified flag | writes the state to FRAM | survives resets |
| file system, message, EPS watchdog | last message time | sync, send, kick | - |
| LEOP (`mission/leop`) | start allowed | requests the LEOP experiment | once per boot |
| comm watchdog | - | waits for the COMM task | never blocks for good |
| power cycle (`mission/power`) | boot time | cycles the power daily | not during experiments or scrubbing |
| SADS (`mission/sads`) | step, deadline, order | deploy the solar array | as the sail; same knives |

### 1.3 Other components

| Component | State | Operations | Interacts through |
|---|---|---|---|
| experiment controller | event bits, request, current, last results, queue | request, abort, start, kick; background task | event group, one-place queue, mutex |
| individual experiments | per experiment | start, iteration, stop | controller; EPS, payload, photo, ADCS |
| persistent state (`libs/state`) | a struct of parts, mutex, modified flag | get, set, capture | RAM; three FRAM chips |
| time provider (`libs/time`), RTC, BURTC | mission time, long-time counter | advance, set, read | mutexes, timer task |
| telecommand dispatch (`libs/telecommunication`) | - | decode, find the handler | COMM task |
| comm driver (`libs/drivers/comm`) | pause/ack/ping flags, buffer level | poll, pause, resume, send | event group, I2C |
| ADCS coordinator | mode, masks | switch modes | queue of requests |
| photo service | queue, buffer pool, idle/break flags | commands, purge, wait | queue, event group |
| EPS | LCL and burn switch outputs | enable, disable | I2C |
| I2C with fallback | - | transfer, retry on the other bus | mutex |
| error counters, FDIR | one atomic per device | success, failure, limit | atomics |
| scrubbers | offsets, in-progress flags | vote and rewrite | boot table lock |
| boot settings, boot table, program upload | seven program slots | erase, write, finalize | flash |
| bootloader, safe mode | boot counter, boot index | choose and load a slot | boot settings |
| storage | - | drivers for flash, FRAM, NAND | SPI, EBI |
| telemetry | last sample | sample, store, rotate files | telemetry loop |

Boot happens in three run levels (`src/obc.cpp:133-241`): the first reads the
persistent state and initializes the hardware and mission time, the second starts
the loops, the scrubber and the internal watchdog, the third allows the LEOP task
to start its experiment.

### 1.4 What is hard here

- *Interleaving.* A telecommand handler runs beside the mission loop, at the same
  priority, and most flags it shares with it are single atomics or lock-guarded
  words: anything that takes two of them is not atomic.
- *Stale decisions.* Conditions are old when actions run (1.2).
- *Moving time.* Mission time is corrected and set while tasks keep deadlines in it.
- *Resets.* Watchdogs and the periodic power cycle end the program between any two
  steps; a few words persist, everything else starts anew, and the outputs of the
  power system may stay as they were.
- *Failing commands.* Every transfer to a device may fail; some callers retry,
  some give each command twice, most ignore the result.
- *Limits.* Queues of one place, 8-bit counters, boot slots, buffers.

`PROJECT.json` lists each hazard at its line, with the properties that cover it or
the reason why none does.

## 2. Modules

| Module | Models | Extends |
|---|---|---|
| `SerialExperiments` | abstract: one experiment at a time, from accepted request to end | - |
| `ExperimentController` | the controller, the mission loop's Experiment component, requesters; implements `SerialExperiments` | - |
| `ExperimentMission` | the LEOP and power cycle tasks, the scrubbers and resets around it; implements `SerialExperiments` | `ExperimentController` |
| `SailDeployment` | the sail and solar array tasks, with time, save, EPS, telecommands, resets | - |
| `AntennaDeployment` | the antenna and beacon tasks, with time, save, hardware, telecommand, resets | - |
| `StableState` | abstract: one memory that a save fills from its first cell to its last | - |
| `StateStorage` | the persistent state, its save, the three FRAM chips, resets and upsets; implements `StableState` | - |
| `BootChain` | boot table, bootloader, boot settings, safe mode program, program scrubber, uploads, slot copies | - |
| `CommLink` | the COMM task, the receiver, the idle state, the comm and EPS watchdog tasks | - |
| `PhotoService` | the photo service and its clients | - |
| `TimeKeeping` | BURTC, time provider, correction, time telecommands | - |
| `LoopControl` | the task of the mission loop and the commands that suspend, resume and step it | - |
| `AdcsControl` | the ADCS coordinator and those who send it requests | - |
| `ExperimentFile` | the data file of an experiment | - |
| `TelemetryArchive` | the telemetry loop, its two files, the beacons | - |
| `ExperimentRuns` | Start, Iteration and Stop of every experiment | - |
| `I2CBus` | one I2C bus, its interrupt handler and its error handler | - |
| `RedundantFlash` | three N25Q chips used as one | - |
| `MCServices` | the last eight side by side, for TLC | those eight |
| `MCStorage` | the persistent state and the photo service side by side, for TLC | `MCState`, `PhotoService` |
| `MCAntennaDeployment`, `MCState`, `MCBootChain` | constants that a configuration cannot write | the module of the name |
| `ExperimentController_proof`, `ExperimentMission_proof`, `SailDeployment_proof`, `AntennaDeployment_proof`, `StateStorage_proof`, `BootChain_proof`, `CommLink_proof` | proofs (section 6) | the module of the name |
| `Services_proof` | proofs about `TimeKeeping`, `LoopControl`, `AdcsControl`, `ExperimentRuns`, `I2CBus`, `RedundantFlash`, `PhotoService`, `TelemetryArchive`, `ExperimentFile` | those nine |

In all of them a step is one access to shared state (an event group call, a queue
call, one atomic, one block under a lock) or one command to a device; the program
counters say where each task is between two of them. Operators keep the names of
the functions they stand for. Variables named *history* are not in the code: they
remember what a property compares.

A definition named `X_Something` with the comment "Faulty variant" is `X` with a
bug that could have been written instead. No specification uses it. Put in the
place of `X` it must break one of the properties, which shows that the property
depends on what `X` does; `PROJECT.json` ("mutants") pairs them.

Properties that say the same kind of thing about one component are the named parts
of one conjunction (`CoilsSafe`, `MemorySound`, ...), which is what a configuration
lists; `PROJECT.json` names a faulty variant for each part.

### 2.1 `SerialExperiments` and `ExperimentController`

| Variable | Code |
|---|---|
| `events` | bits of `_event` (`experiments.h:170-180`) |
| `requested`, `current`, `lastStart`, `lastIteration` | the mutex-guarded fields |
| `queue` | `_queue`, one place, `Overwrite` |
| `bgPc`, `bgExp` | `BackgroundTask` (`experiments.cpp:54-95`, loop `97-155`), its local code |
| `reqPc`, `reqExp` | a caller of `RequestExperiment` between check and locked write |
| `loopPc` | the Experiment component in one iteration |

`Start`, `Iteration` and `Stop` of an experiment are black boxes with any result.
`BgCheckAbort` clears what it waited for, `BgWait` does not, as in the code: the
bits are looked at again at the top of the do-loop. `NotifyLoopIterationStart` is two
steps, the test-and-clear of the request and the set of the notification.

`SerialExperiments` is what the controller promises to those who ask for experiments:
the request accepted last is handed over once; the code handed over is taken once, run
if it has an experiment and dropped if not; an experiment whose start succeeded takes
its turns and is stopped once, one whose start failed is never stopped; no turn begins
while an abort is asked for, and an abort does not outlive the experiment it came too
late for. `ImplementsSerialExperiments` maps the request, the queue, `bgExp` while
something runs (`RunningCode`), the background task's place (`Phase`) and the bit
`AbortRequest` to its five variables. Event group, mutex and mission loop are not seen there:
their steps are stutters, but for the one that hands the request over. It does not say
that a request is denied while an experiment is in progress; the code does not keep
that (section 7).

### 2.2 `ExperimentMission`

The mission loop of the controller is replaced by one that first evaluates the
conditions of LEOP and of the power cycle (`DetermineLeop`, then
`DetermineBootTime`, `DetermineScrubbing`, `DetermineExperiments`, one for each
thing `PeriodicPowerCycleTask::Condition` looks at, in its order), then runs the
Experiment component, then the two actions. The composition reuses the
controller's actions unchanged; `ControllerStep` adds only the history. `Reset`
and `PowerCycle` put every variable back, and mission time to one saved before. With
the same mapping it implements `SerialExperiments`: the LEOP task accepts a request, a
reset is `Restart`.

### 2.3 `SailDeployment`

| Variable | Code |
|---|---|
| `time`, `stateTime` | time provider; `SystemState::Time`, its copy of the iteration |
| `sailState`, `lastMissionTime`, `saved` | parts of the persistent state; their image in FRAM |
| `step`, `nextStepAfter` | fields of the two tasks, by task |
| `openOnNextMissionLoop`, `ignoreOverheat` | atomics of `OpenSailTask` |
| `deployOnNextMissionLoop`, `isDeploying` | fields of `DeploySolarArrayTask` |
| `power`, `burning` | EPS outputs (external) |
| `loopPc`, `at`, `currentState`, `runnable` | the iteration: update, condition or action, and its local data |
| `tcArg` | `OpenSail` between its two writes |

`Steps` are the two tables of the code (`sail.cpp:9-40`, `sads.cpp:9-36`). Both
sequences drive the two thermal knives. `SailGet`, `SailExchange` and `SailOpen` are
the three accesses of `OpenSailTask::Update`. The persistent state is saved in every
iteration: the save's condition is that it was modified, and
`SaveErrorCountersConfig::Update` (`libs/mission/fdir/SaveErrorCountersConfig.cpp:21-30`)
stores the error counter configuration, modified or not, in every iteration.

### 2.4 `AntennaDeployment`

`Steps` is the table `AntennaTask::Steps` (`antenna.cpp:37-81`), built from the
sequence on a channel for each antenna. `step`, `nextStepAt` and `retryCounter` are
the fields of the task; `power` and `burning` are the hardware (external). A step
whose command fails is tried up to three times, in later iterations, and given up
then. `AntennaTask` has no `TimeChanged`: a correction that puts mission time forward
takes its minutes from a burn under way, and the history variable `forward` counts
them, as far as there are minutes left to take. `beacon` is the flag of `BeaconUpdate`.

### 2.5 `StableState` and `StateStorage`

`StableState` is what the persistent state promises: a save takes the whole state at
one moment and stores it front to back, and a restart keeps a prefix of the new
image followed by the rest of the old one. `StateStorage` has the parts of the state
in RAM (`ram`), the modified flag with `Capture` under the lock, the write of each
cell to three chips in turn (`chips`, `pc`, `cell`), the read at boot with its
comparison and vote, resets between any two cells, and upsets. The vote follows
`CorrectBuffer`, which does nothing for the length of the image: `Read` is the first
chip. `ImplementsStableState` is `Stable!Spec` with the number of stored cells and
the memory as `Read` sees it as refinement mapping.

### 2.6 `BootChain`

| Variable | Code |
|---|---|
| `flash` | program slots 0..5 of the boot table, the set of programmed bits of each |
| `settings` | `BootSettings` in FRAM: magic number, masks, counters |
| `mcu`, `index` | application flash of the processor; the boot index handed to the program |
| `phase` and the local variables of bootloader, scrubber, command | where each of them is |

`Bootloader` is `ProceedWithBooting` (`boot.cpp:248-315`), `ScrubSlots`, `ScrubErase`,
`ScrubProgram`, `SectorDone` the program scrubber, `ExecuteCommand` erase, write and
finalize of an upload, the slot masks and the copy experiment. A program that is not
sound crashes or hangs before it confirms, or not at all (`Broken`).

The safe mode program runs the steps of `safe_mode/main.cpp:49-54` in their order: the
scrubber on both groups, then `SafeMode`, which is `EraseN25QStep`, `RevertBootSlots`
write by write, and `Reboot`. `ScrubBootloader`, which comes first, rewrites copies that
nothing modelled reads. `EraseN25QStep` erases the file system flash, which takes no
part in booting; what counts here is that it may take longer than the watchdog gives it.
`BootToAddress` starts that watchdog, of about 16 seconds, for every program
(`boot.cpp:39-44`). The application feeds it unless it hangs; the safe mode program never
does. `WatchdogReset` is therefore possible in every phase of the safe mode program, as
often as it likes.

### 2.7 `CommLink`

The COMM task polls (`PollHardware`): it reads the number of frames, takes one with
retries, hands it to the telecommand, removes it. The mission loop leaves the idle
state when it is over, waits for the ping and kicks the EPS watchdog, whose
expiry cycles the power. The idle state's flag and end time are accessed with and
without the lock as in `mission/comm/comm.cpp`.

### 2.8 `PhotoService`

Two clients, the experiment and the COMM task, run programs of calls (`calls`):
those of the sail, solar array and camera experiments and of the photo telecommands.
A call to the service is the steps it makes on queue, flags and buffers. The service
task has the higher priority, which the model honours: a client moves only while the
task is blocked.

### 2.9 The services

- `TimeKeeping`: the interrupt, `Tick` and its notification, `SetCurrentTime`, and the
  correction as the separate accesses of `TimeTask::CorrectTime`: mission time, RTC,
  last synchronization, factors; its arithmetic in full.
- `LoopControl`: `TaskLoop` with the event group's three flags, `Suspend`, `Resume`
  and `RequestSingleIteration` with its repeated wait of a second.
- `AdcsControl`: `SwitchMode` in its steps `DisablePrevious` and `StartRequested`, the
  block mask, the queue; the mission task's start and stop of detumbling.
- `ExperimentFile`: `Write`, `WriteDataBiggerThanFrame`, `Flush`, `Close` byte by
  byte on frames of `FrameSize`. A write to the file succeeds, fails, or is short and
  reported as a success (`FlushShort`, `yaffs.cpp:112-119`); `dropped` keeps what a short
  write left out of each frame.
- `TelemetryArchive`: acquisition into the buffer under its lock, `SaveCondition`,
  `SaveToFile` with the move of the full file, two beacon senders.
- `ExperimentRuns`: for each experiment the calls of `Start` in order with their way
  out (`OrElse`), an iteration, `Stop`; `held` is what is switched on or open.
- `I2CBus`: `ExecuteTransfer` of `efm.cpp` with lock, timeout and abort, the interrupt
  handler with its queue of one, the power cycle of the error handler.
- `RedundantFlash`: write, erase and read on three chips with the votes, flags and
  waits of `n25q.cpp` and `redundant_n25q.cpp`.

## 3. Runs

| Run | Configuration | Question | Distinct states |
|---|---|---|---|
| `controller` | `ExperimentController.cfg` | do flags, fields and queue stay consistent with two requesters that may abort, does everybody who waits get served, and do experiments run one at a time? | 543 k |
| `mission` | `ExperimentMission.cfg` | what can a power cycle hit? does LEOP start twice? does anything run twice around resets? | 4.2 M |
| `sail` | `SailDeployment.cfg` | do two sequences on the same knives, with orders, stops, resets, lost commands, leave them off? | 7.5 M |
| `sail_live` | `SailDeployment_live.cfg` | does the sail open, with full burns, one knife at a time? | 565 k |
| `sail_stop` | `SailDeployment_stop.cfg` | is a stop respected? **No** | - |
| `antenna` | `AntennaDeployment.cfg` | with failures, a mask telecommand, time put back or forward, a reset: nothing skipped, no burn cut but by the correction, all off, beacon on? | 3.2 M |
| `storage` | `MCStorage.cfg` | does the state on three chips behave as one stable memory that every change reaches? are photos kept, cameras off, calls answered, and not too early? | 1.1 M |
| `state_redundancy` | `StateStorage_redundancy.cfg` | is any single chip tolerated? **No** | - |
| `boot` | `BootChain.cfg` | does the OBC always get back to a sound program, whatever is cut off, as long as the safe mode program is not cut off for ever? | 1.2 M |
| `boot_erase` | `BootChain_erase.cfg` | does the erasure in the safe mode program end? **No** | - |
| `radio` | `CommLink.cfg` | are frames handled once, and do idle state and mission loop go on? | 742 k |
| `services` | `Services.cfg` | the eight services, one by one in the same run | 688 k |

`MCServices` runs the eight services next to each other: `part` names the one a
behaviour is about, and the others rest. They share no variable, so that nothing is
lost against eight runs. `MCStorage` does the same with the persistent state and the
photo service (248 k and 897 k states).

What the passing runs show:

- `ControllerCoherent`. `CurrentImpliesInProgress`: the power cycle task looks at
  `_currentExperiment`, the mission loop and requests at `InProgress`; they never
  disagree in the harmful direction. `ReportCoherent`: telemetry never shows an
  iteration of one experiment with the failed start of another. `StartHasRequest`:
  the option that `StartExperiment` dequeues is never empty, which the code only
  warns about.
- `NoLostWakeUp`, and of `ControllerProgress` `WaiterResumes`: the protocol of three
  bits loses no wake-up. `RequestServed`: a request found while the controller is
  idle is handed on.
- `AbortNotStale`, `AbortStops`: an abort never hits the next experiment, and stops
  the one it is meant for even if the mission loop is suspended.
- `NextCycleRespectedUnlessAborted`: iterations that wait for the next cycle get one
  that began after they asked, as long as nothing was ever aborted.
- `ImplementsSerialExperiments`, in both runs: every step of the tasks is a step of
  `SerialExperiments` or changes nothing it sees, so that no request is run twice,
  none is run that was not accepted, and Start, iterations and Stop come in order.
- `OnlyNewExperimentsInterrupted`: the power cycle's window is one iteration.
- `LeopOncePerBoot`: LEOP is requested once between resets.
- `KnivesSafe`, `BurnsInTurn`. `FullBurn`, `FullBurnUnlessShared`: a knife is switched
  off only after its full burn: one lost command of a doubled pair, a reset, a new
  order and a correction of mission time do not shorten it. With the solar array
  deployment ordered as well, it may: that sequence switches the same knife off.
  `KnivesOffWhenDone`: after both sequences no knife is on, however they overlapped.
  `OneKnifeAtATime`: the sail's own sequence never draws both knives.
- `SailGoesOn`. `SailEventuallyOpens`: nobody has to order the opening. `OpenNotLost`: an order to
  open leads to a sequence under way; checked without stop telecommands.
- `NothingSkipped`: fewer than three failed commands cost no step. `BurnsSafe`: the
  waits of the antenna table cover the burns, so that a burn loses no more than the
  minutes corrections forward took from it, and the controllers are off at the end.
  In the run a correction of two minutes does end a burn of two after one.
  `BeaconEventually`: the end of the deployment switches the beacon on.
- `ImplementsStableState`: with upsets of the second and third chip, resets between
  any two cells and changes at any time, the state is one stable memory.
  `ModifiedCoversState`: what differs from memory is covered by the flag or by the
  write under way. `ChangesReachMemory`: every change is written in the end.
- `MemorySound`. `SettingsWellFormed`: any reset leaves settings that the bootloader
  can use. `VoteIntact`: while a slot is being rewritten the other two still give
  the program. `UploadIntact`: an upload that ended without an error is what was
  sent, with a scrubber at work. `RunsInstalledProgram`: what is started is the
  vote of its slots, even after a copy into the processor that was cut off.
  `SlotsKept`: the slots chosen from the ground are given up only for the reasons
  the code names. `Recovers`: as long as one group is sound, the OBC gets back to a
  confirmed boot again and again, unless the watchdog cuts off the safe mode program again
  and again (`CutOff`). The exception is needed: `boot_erase` shows it. `DamageRepaired`: the scrubber repairs a copy.
- `UplinkSafe`. `NoFrameLost`: no frame is removed unhandled. `RepeatedOnlyIfKept`: a
  frame is handled again only if its removal failed. `IdleOwned`: a transmitter left
  on when idle is one the task knows of. `RadioGoesOn`: the receiver is emptied,
  and the mission loop gets its ping. `IdleEnds`: the idle state ends.
- `PhotosSafe`: a photo is not overwritten before its owner takes it, and no camera
  stays on when the work is done. `NotFinishedEarly`: `WaitForFinish` waits for all
  that its caller queued. `CallsReturn`: but in the case of section 7.
- `TimeKept`. `SyncCoherent`: the two times of the last synchronization belong to one
  moment. `CorrectionBetweenClocks`: a correction lands between the two clocks and
  within the maximum, whichever weights are commanded meanwhile: the task reads them
  once, and that pair is what counts. `KickInTime`: the watchdog is kicked however
  time is set.
- `OneIterationAskedFor`, `LoopServes`: a paused loop runs one iteration for each
  request, a loop that is not paused goes on, and every command returns.
- `CoilsSafe`: at most one processor is enabled, the one of the mode, and none while
  the ADCS is disabled, unless one could not be switched off. `DetumblingEnds`: after
  four hours the detumbling stops even if the queue was full.
- `FileSound`: a failing write of the data file costs no record that was accepted, and a
  short one the end of its own frame and nothing else. What such a write does to the
  places of the frames behind it is in section 7.
- `ArchiveSound`, `RunsSound`, `ExperimentEnds`: what fails in an experiment or in the
  telemetry's files costs no data that was accepted, leaves no device on, and lets the
  experiment end. Asked for none at all, SunS does 256 sessions
  and RadFET one sample. RadFET counts attempts in 8 bits, so that its count goes round
  if the time is not to be had that often: `MeasuredAsAsked` says what counters of this
  width come to. It claims nothing of Fibonacci asked for none, whose counter of 32 bits
  goes round as well.
- `OwnResult`, `BusRecovers`: a task gets the result of its own transfer, and a
  latched bus is freed. `FlashSound`: one bad chip does not show, and an erase makes
  a sector usable again.

## 4. Bounds

Every bound is a constant named `Max...`, `LatestReset` or a set of values, and the
guards stop at it. Why they are enough:

- *Controller.* Nothing is bounded: the state space is finite. One code has an
  experiment, one has none, so both outcomes of the look-up happen; two requesters
  race with each other, the mission loop and the background task.
- *`ExperimentMission`.* Times 0..2 hold one window of LEOP and one power cycle, with
  time before, in and after both. The failsafe and the safe mode scrubber are the
  two that `SafeModeInProgress` confuses; the other two behave as the failsafe one.
  `AbortOnce` allows one abort per boot.
- *`SailDeployment`.* A burn of two units is the shortest in which a tick, an
  iteration or a correction can come in the middle. In `sail` time ends at the
  opening time, so that most behaviours are ordered by telecommand, and one of each
  telecommand, one lost command and one reset may come at any step. In `sail_live`
  `MaxTime` leaves room for a reset at the latest moment and a whole sequence
  after it: otherwise the bound itself would refute liveness. The bound on lost
  commands is one because each command is given twice; two losses of one pair are
  beyond what the code provides for.
- *`AntennaDeployment`.* The automatic and one manual deployment on each channel: the
  other three manual ones repeat the last with another argument. Three failures
  are what it takes to give up a step, so both sides of that limit are reached.
  38 minutes leave room for a reset in the first five, the last of them in the middle
  of the automatic burn, and the whole sequence after it. One correction moves mission
  time by two minutes in either direction, the length of the longest burn.

- *`StateStorage`.* Five cells: two signatures, a part of two cells and one of one, so
  that a part can be torn; one bit, as the vote treats bits alike. Two changes, two
  resets and an upset at any step.
- *`BootChain`.* Two sectors and two pages with different programs in the two groups.
  Two unconfirmed boots stand for ten and a counter of 3 for 0xFFFF, so that both
  limits are passed. One reset and one fault of a flash or FRAM access, four
  telecommands, each sent once. The run may stop: with all bounds used up and a
  program running there is nothing left to do, so it says `CHECK_DEADLOCK FALSE`. The watchdog has no
  bound. `boot_erase` needs no fault, no other reset and no command.
- *`CommLink`.* A receiver of two frames, two attempts at reading one (three in the
  code), two troubles: any of a failing transfer, a stuck receiver, a correction of
  time, a reset.
- *`PhotoService`.* A queue of three, which fills up, room for two photos, one
  program of each client at a time, one power switch that fails.
- *Services.* `TimeKeeping`: three ticks, the RTC up to two ticks per tick, two
  telecommands, so that the weights can change while a correction is under way and
  again before it is stored; the weights hold the pair that overflows 16 bits in its sum.
  `LoopControl`: five commands. `AdcsControl`: a queue of two, three commands, one
  failing call. `ExperimentFile`: frames of six bytes, two records of none, of
  half a frame or of more than one; two writes that fail or are short, a short one taking
  the mark alone or four bytes. `TelemetryArchive`: a file of
  less than two entries, so that every second save moves it; five acquisitions. `ExperimentRuns`: two failing calls, one or two
  sessions. `I2CBus`: two tasks, four transfers, two faults. `RedundantFlash`: two
  pages, two bits, three operations, two faults.

A run that stops at its bound of time has no further tick, but the mission loop
still iterates, and the services rest in a step of their own when their bounds are
used up, so only `boot` and `boot_erase` switch deadlock checking off.

## 5. Fairness

- `BackgroundFairness`, weak fairness of the background task: it has the priority of
  the mission and COMM tasks, which are time-sliced with it and block between
  periods, and the handlers of an experiment return.
- `MissionFairness`, weak fairness of the mission loop. It is a hypothesis of
  `WaiterResumes` and `RequestServed` and not part of `FairSpec`, because the loop may
  be suspended; `AbortStops` holds without it.
- `WF(MissionLoop)` in the deployment models: the loop is restarted by its period.
- `SF(Tick)` in the deployment models: time passes only while the loop is at rest in
  the model, and the loop is at rest again and again but not continuously.

- `StateStorage`: weak fairness of the mission loop and of the boot.
- `BootChain`: weak fairness of what the processor executes (bootloader, application,
  safe mode program), of a telecommand in execution, and of the scrubber, for each of
  its two program scrubbers: the timer of the scrubber task wakes it for good. Fairness
  of what the processor executes takes the watchdog for progress: nothing says that a
  step of the safe mode program ends before it. What `Recovers` needs of that is in its
  statement.
- `CommLink`: weak fairness of both tasks, of time and of the EPS; strong fairness of
  taking the idle state's lock, which the COMM task releases between two transfers
  over the bus, during which the mission loop runs.
- `PhotoService`: weak fairness of the service and of each client. `MCStorage` has this
  fairness and that of `StateStorage`, each in the behaviours that are about it.
- `MCServices` (`ServicesFairness`): weak fairness of each task, of an interrupt whose
  transfer is over and of the time an experiment waits for. The task of the mission
  loop has strong fairness (`LoopControl`): the terminal, of higher priority,
  interrupts it but waits for a second between two attempts.

Requesters, telecommands, failures, corrections, upsets and resets are never fair.

## 6. Proofs

The proofs hold for every value of the constants; TLC evaluates the named
assumptions on every run.

`ExperimentController_proof` (assumption `CodesAssumption`: registered codes are
codes, and "no experiment" is not one). The invariants are not inductive on their
own. `IInv` adds

- `BracketInv`: the `InProgress` bit and `_currentExperiment` follow the background
  task's program counter, and a code past the look-up has an experiment. Without it
  `CurrentImpliesInProgress` fails in the step that clears the bit;
- `ReportInv`: inside the loop the start was a success, and before it no iteration
  is recorded, which carries `ReportCoherent` over to the next experiment;
- `RequestInv`: a requester past its check holds a code, so that the write can never
  empty a request that the mission loop has seen;

to `TypeOK`, `NoLostWakeUp` and `AbortNotStale`. One lemma per conjunct has one step
per action; `Invariance` combines them and the listed theorems follow:
`TypeCorrect`, `CurrentIsInProgress`, `ReportIsCoherent`, `StartAlwaysHasRequest`
(together `ControllerIsCoherent`), `WakeUpNeverLost`, `AbortIsNeverStale`. `CycleRespected` needs one invariant more,
`CycleInv`: while nobody aborts, a notification, or the mission loop about to give
one, means that the cycle was reached since the last answer `WaitForNextCycle`.

`ControllerIsSerial`: the controller implements `SerialExperiments`. There is one lemma for the
steps of each kind of task (`BackgroundIsSerial`, `ComponentIsSerial`, `RequestIsSerial`), which shows
for every action the abstract one it is, or that it is a stutter. They ask for `CodesInPlace`
only, the part of `IInv` that speaks of codes: a popped code is one that was requested,
and a request is there when it is handed over. So they hold of the tasks in
any composition.

`ExperimentMission_proof`:

- `LeopStartsOnce`, from `LeopInv`: once a request was accepted, the task is not
  allowed to start and no iteration holds its action any more, and only run level 3
  of the next boot allows it again.
- `LongRunningSpared`, from `PowerCycleInv`: while the power cycle is among the
  chosen actions, an experiment that is current started after the choice.

- `MissionTypeCorrect`: the types of the mission tasks, which no run checks.
- `MissionIsSerialExperiments`: with LEOP, power cycles and resets at any moment the
  controller still implements `SerialExperiments`. `MissionCodes` keeps `CodesInPlace`, since `LeopCode` has
  an experiment, and the lemmas about the controller's tasks are used as they are.

The first three rest on `ControllerKeeps`: the controller's own steps move the mission loop
only inside its Experiment component.

`StateStorage_proof` (assumption `LayoutAssumption`: a layout of at least two cells
with a signature at both ends, values that are sets of bits) holds for any parts,
any lengths, any number of upsets, resets and changes:

- `TypeCorrect`: the types, which no run checks.
- `StorageRefinesStableState`, under `FirstChipSound`, the hypothesis that the upsets
  do not touch the first chip: `StateStorage` implements `StableState`. The initial states map to initial
  states (`RefinementInit`); a write to the first chip is `Persist`, writes to the
  other two and their upsets are stutters because `Read` is the first chip, the
  capture is `Capture`, a reset in the middle of a write is `Restart` with the
  prefix that is stored.
- `FlagCoversState`, under the same hypothesis, from `StorageInv`: besides the
  property, the image under way equals the state unless the flag is up again, and
  the part of it already written is in the memory.

The hypothesis is needed: without it the run `state_redundancy` finds the
counterexample.

`SailDeployment_proof` is about the two sequences that share the knives:

- `KnivesAreSafe`, under `OneLoss`: at most one command to the power system is lost.
  Each command is given twice, so two losses of a pair are beyond what the code
  provides for, and with them the property is false.
- `KnivesBurnInTurn`, under `OneLoss` and `SailAlone`: no solar array deployment, stop or
  set time comes in between, and a reset of the mission loop's processor takes
  the knives' power with it. These are the bounds of `sail_live`; the solar array
  sequence and `SetTime` do cut a burn (section 7).

  `SailInv` says of every step of the table what it has done to the knives
  (`KnifeBurns`): between the two switch-ons a knife is on or a command was lost, from
  the second one it is on, at the wait it burns and time left and time burned add up to
  `WaitTime`. That needs `OneTime` (an iteration that has begun works with the
  present time) and `LoopPlace` and `StepLeft` (what is runnable is still ahead).
  `PowerAnswered` carries `KnivesOffWhenDone`: a powered knife has a switch-off ahead of it
  in one of the sequences, two of them unless a command was lost. `InOrder` adds that
  the second knife is on only after the first is done with.

`AntennaDeployment_proof`, for any list of antennas, any times, resets and telecommands:

- `NeverSkipped`, from `RetryInv`: the attempts the current
  step has used up are at most the commands that failed.
- `ControllersAreOff`, from `DoneIsOff`: a channel all steps of which are done is off, since
  the last step of each channel switches it off and no later one switches it on, unless
  a step was given up after its attempts.
- `BurnsAreSafe`, for any `Corrections`, those that put mission time forward included:
  what a command cuts of a burn is at most what they took from it. `Owed` is the
  rest of a burn, and `BurnsCovered` says that what the waits ahead do not cover of it
  fits into the wait that runs. A correction forward takes as much from what is owed
  as from the wait (`CoveredByCorrection`), one back makes the wait longer.

`BootChain_proof`, for any programs, any number of resets, faults, telecommands and
pages:

- `SettingsAreSound`, from `SettingsInv`: settings with the magic number name slots
  that are accepted. The writes of the revert are safe because the magic number is off
  until the last of them, which `SettingsOK` follows step by step.
- `SlotsAreKept`, an action property, from `AttemptsCounted`: counter minus confirmed never
  exceeds the unconfirmed starts, unless the revert was cut off or the counter is at
  its end.
- `MemoryIsSound` and `InstalledProgramRuns`, under `WholeGroups` and while `faults <= 1`, from
  `CopiesInv`: of three copies of an installed program two are whole and the scrubber
  rewrites only the third (`OneDamaged`), whatever a command under way has done so
  far to a group that is not installed (`CommandUnderWay`), and the copies of an upload are
  alike but for the part being written (`UploadUnderWay`). With two faults two copies may
  be wrong, and a vote of three cannot help.
  `WholeGroups` says that the masks sent from the ground which the code accepts name one of
  the two groups, the upper half or the safe mode program. A mask of three slots from
  both groups is accepted, too (`IsValidBootSlot`): the scrubber of the program started from
  it then writes copies of one group over those of the other.

`CommLink_proof` (assumption `CommAssumption`: the durations have a longest one, as the
argument of the telecommand, one byte of seconds, has):

- `UplinkIsSafe`, without further hypothesis, for any number of retries, frames,
  failures, resets and any size of the receiver's buffer. `LossesPaid` is the
  accounting behind `NoFrameLost`: `RetryCount` failed transactions for each frame
  lost, and the attempts used up so far for the one being read. `Repeats` ties
  `handled` to what is still in the receiver; `IdleOK` has the lock held in exactly the
  places where the code holds it; `TimesOK` bounds the three copies of the end of the
  idle state, one of which `TimeChanged` keeps across an unlocked read and write.

`Services_proof`:

- `CoilsAreSafe` (`CoilsInv`): the coordinator's mode in force and the block mask agree
  with what is enabled at each place inside `SwitchMode`.
- `ResultsAreOwn` (`BusInv`): for any set of tasks. A result can be in the queue only while the
  holder of the lock waits for it, unless it came late.
- `TimeIsKept` (`TimeInv`): for any periods and target times and any two weights of 16 bits,
  those of sum zero included. `SyncUnderWay` describes the holder of the
  synchronization lock between its write of mission time and of the state.
- `FlashIsSound` (`FlashInv`): for any pages and contents, the two chips without a disturbance hold
  what is expected (`OthersHold`), all three after an erase (`AllHold`).
- `OneIterationIsRun` (`LoopInv`): the flags a command leaves, and those it finds.
- `RunsAreSound` (`RunsInv`): what is held is on the way out of every call still ahead
  (`HeldBack`), and what is left and what is done are tied to what was asked (`Counted`: in SunS
  and Fibonacci they add up to it, in RadFET they differ by no more than the faults so far).
  That each of the nine `Start` sequences undoes exactly what it did (`StartBalanced`) is a
  lemma about the table.
- `PhotosAreSafe` and `FinishedInTime` (`PhotoInv`): whatever may leave a camera on, a
  call or the purge that may discard a switch-off, has a switch-off of that camera behind it,
  in the rest of its program, in the queue or in the calls of a client (`OffsAhead`); that
  every program has this form (`Closed`) is a lemma about the table of programs. Photos
  lie below the free space (`PhotosBelow`), and the flag `WaitForFinish` waits for is up only
  while the task rests on its queue (`IdleOnQueue`). `PhotoAssumption` has the telecommands
  name one of the two cameras: for any other number the code switches nothing. Of the
  sizes of the buffer and the photos it says only that they are natural numbers, no photo being empty.
- `ArchiveIsSound` (`ArchiveInv`): the last places used, n of them, are in the current
  file and the m before these in the previous one, which is full unless there were no more
  (`Layout`). The arithmetic of places is in lemmas of its own, since `MaxFileSize` need
  not be a multiple of the size of a place. `SaveIsNear` ties the delay still to wait to the
  iterations since the last attempt, `BufferWhole` the two halves of the buffer to whoever
  holds its lock.
- `FileIsSound`, from `FileInv` and `Accounted`, for any frame size, any records and any number
  of writes that fail or are short. `FileInv`: a frame under way has the room the next step takes for
  granted (`RoomLeft`), without which a long record would not advance or would run over
  the end; and of each frame that was written the file has the beginning, and all of it as
  long as no write was short (`TailsDropped`). What a flush does to the frames as they were
  written (`Handed`) is the same whether it is short or not (`PartsAppended`, `FlushHands`).
  `Accounted`: the data of the frames written, the data of the frame under way and the rest of a
  long record, one after the other, are what was accepted, unless a long record was cut
  short. What a step needs of `DataIn` is that the data of two parts are the data of the
  parts (`DataInBoth`) and that marks and padding hold none (`DataInOthers`). These are proved by
  induction over sequences. The library's induction theorems cannot be used, so it is stated
  of a set: a set that has 0 and with a number the next has all numbers (`EveryNatural`,
  from the least element of what is left), and one that has the empty sequence and with a sequence every longer
  one by an element has all sequences (`EverySequence`). Joined frames (`FlattenSeq`) are unfolded by
  `FlattenAppend`, which takes the recursive function in the definition apart prefix by prefix (`JoinedExist`,
  `FlattenStep`).

What proving corrected in the models: the correction of time had to remember the
weights it read, since a telecommand may change them before the time is set;
the counts that experiments keep wrap with their width; and the assumptions of five
services were stated more narrowly or more widely than their actions need.
`NothingLost` left the rest of a long record under way out, and now names every byte of
it. All of these stay in the models, and TLC checks them.

Only model-checked, and why:

- every liveness property: the prover knows neither fairness nor `ENABLED`.

Every safety invariant, action property and refinement of a passing run is stated by a theorem.

## 7. Where the code and its documents disagree

Each of these is a run whose property states what a document, a comment or a test
says, and which TLC finds violated.

| Run | What happens |
|---|---|
| `boot_erase` | `EraseN25QStep` waits for three chip erases with a timeout that cannot expire (`System::GetUptime` of the safe mode program is always zero, `dummy_os.cpp:22-25`) and under a watchdog of about 16 seconds that it does not feed. `n25q.h:180` says "All write-related operations can fail or timeout", `n25q.h:146` gives a chip erase up to 4 minutes. Cut off, the program begins again after the reset, and never reverts the boot slots |
| `sail_stop` | a stop between the read and the write of the sail state in `Update` is overwritten (`sail.hpp:42-43`) |
| `state_redundancy` | the image of the state has 289 bytes, `CorrectBuffer` votes only on multiples of four, and `Read` ignores its result: a damaged first chip is read as it is (`fm25w.hpp:136-137`) |

**Observed, not among the runs.** The models show these behaviours or leave them
out where said; none is repaired in a model.

*Experiments and mission tasks*

- An abort ends a wait for the next cycle and leaves the request for a notification
  set (`experiments.cpp:151`); the next experiment that waits is woken by a cycle
  begun before it asked (`experiments.h:37`).
- A request may be accepted while an experiment is in progress: check and write are
  two steps (`experiments.cpp:33-41`).
- The detumbling telecommand sets duration and sample rate before it requests the
  experiment: denied, it has changed the sample rate of the one that runs
  (`telecommands/experiments.cpp:54-57`). The models leave parameters out.
- The power cycle's condition is evaluated before the Experiment component of the
  same iteration runs: it hits an experiment just started (`power_cycle.hpp:48`).
- `SafeModeInProgress` returns the flag of the secondary slots' scrubber
  (`scrubbing.cpp:121-124`), so the power may be cycled while the safe mode copy is
  rewritten (`power_cycle.hpp:35, 47`).
- SunS keeps `_nextSessionAt` of its last run, takes the next session at once if the
  time is not available after one, and runs 256 sessions if asked for none. RadFET
  counts an iteration without time. A power switch that failed after it took effect is
  not undone. `DetumblingExperiment::CleanUp` enables the built-in detumbling; a file
  that does not open stops it.

*Sail, antennas, time*

- `OpenSail` writes two atomics; the mission loop in between uses the old overheat
  flag. A solar array deployment cuts a sail burn. A stop and an open telecommand
  between the read and the exchange of one `Update` swallow the open order.
- A reset of the OBC alone during a solar array burn leaves the knife powered, as
  `_isDeploying` does not persist; no document promises otherwise.
- `SetTime` moves mission time without `NotifyTimeChanged`
  (`telecommands/time.cpp:127`) and cuts a burn.
- `AntennaTask` is not told of a correction (`base.hpp:430-432`): put forward during a
  burn, mission time ends it early, by as many minutes. `BurnsSafe` states that loss
  and allows no other; no document promises the burn more. `SetTime` does the same,
  and is not among the actions of `AntennaDeployment`.
- Correction factors of 1 and 65535 add up to zero in 16 bits and divide by it.
  New factors that arrive while a correction is computed count from the next one on.

*Boot*

- `FinalizeProgramEntry` marks a slot valid before it checks its CRC.
  `IsValidBootSlot` of the application accepts masks that the bootloader rejects. It
  accepts three slots of both groups; a scrubber then mixes the copies of two programs.
- The fail-safe slots get one attempt. A broken program chosen as the upper half is
  never left. A program that confirms and crashes then loops.
- A program uploaded to one slot of a group is undone by the scrubber.
- The constructor of the safe mode program resets the N25Q chips, which aborts an erase
  that went on through the watchdog's reset (`safe_mode.cpp`); its wait for a chip that does
  not answer has no end either.
- A reset between `BootCounter(0)` and `ConfirmBoot` in `RevertBootSlots` leads to the
  fail-safe slots. The bootloader erases and programs the processor's flash page by page.

*Radio*

- The transmitter's watchdog is kicked only if the kick of the receiver's failed
  (`comm.cpp:742`). A stored number of free slots of 0xff leads to a restart of the
  transmitter (`comm.cpp:583-603`).
- `Pause` compares all flags with one while another may be set (`comm.cpp:814`) and
  hangs. A removal that keeps failing repeats the telecommand and holds the mission
  loop until the EPS cycles the power.
- A new idle period may be cut by the end of the one before. A reset of the OBC alone
  with a failing `RestartHardware` leaves the transmitter on.

*Photo service*

- A worker that finishes between the push and the clear of the idle flag has its flag
  erased, and `WaitForFinish` hangs (`photo_service.hpp:237-239`); `CallsReturn` excepts
  it. A purge may set the break flag after its Break was processed. Two clients share
  the buffers and `Reset`. `IsEmpty` is evaluated when a command is queued. Four
  TakePhoto telecommands fill the queue and block the COMM task.

*Loop control, ADCS, files*

- `Suspend` of a loop that is paused waits without end and leaves the pause request
  set. A `Resume` between the acknowledgement and the suspension is lost.
- The mission loop's `Stop` un-gates an ADCS that an experiment has disabled.
- `ExperimentFile::Write` ignores the result of `WriteDataBiggerThanFrame`. A record that
  fills a frame exactly leaves a continuation mark without data. A `Close` that fails
  in its flush leaves the file open.
- `FlushInternal` takes a short write for a success (`ExperimentFile.cpp:129`), since
  `YaffsFileSystem::Write` reports one (`yaffs.cpp:112-119`): the end of the packet is
  dropped, and the packets behind it no longer begin at multiples of the 231 bytes of
  `doc/ExperimentFile.md:17`.
- The periodic beacon sender copies the telemetry without its lock (`sender.cpp:22`). A
  short write of telemetry counts as a success, a seek is not checked, and a save that
  fails after time was put back is not tried again at once.

*Buses, flash, counters*

- A result that the interrupt delivers in the instant of the timeout is left in the
  queue and taken by the next transfer. `LineAlreadyLatched` leads to no power cycle.
  The fallback bus is used by no driver.
- `BeginWritePage` does not clear the error flags: after one failed write all later
  ones fail until an erase. A read fails if chip 0 or 1 does not answer.
- Two corrections of one error counter that overlap each undo the other's: the counter
  rests above its maximum, below zero, or at two after two successes at zero, and
  `Current` cuts what it reads in between to eight bits. `SetErrorCounterConfig` accepts
  the device one past the last.

## 8. Abstractions

- The 100 ms delays between two commands, and the time an iteration takes, are short
  against a unit of mission time, and at least one iteration runs in each unit.
- Antenna times are in minutes. Burns are rounded up (30 s to one minute, 120 s are
  two). A manual deployment's wait of 89 s is rounded down to one minute, so it is
  checked with no margin at all; the waits of 59, 119 and 179 s are rounded up by
  their missing second, which leaves the automatic burn a margin of one minute where
  the code has 59 s. The wait of 9 s behind the power-on step is shorter than the
  mission loop's period and is zero.
- A correction is any value the code could accept, within the bound, and its
  arithmetic is left out; the reading of the RTC may fail in `SailDeployment`.
- In the deployments the lock of the persistent state is always obtained and its image
  is written in one step; `StateStorage` has the steps.
- A program is the set of its programmed bits; a mask of slots the set of its ones. The
  CRC, the size and the description of a program are left out. So `FinalizeEntry` is one
  step for the four header writes (`program_upload.cpp:250-253`): the first three write what
  the model does not hold, and a reset before the last leaves the marker unwritten.
- An experiment's data is its number; a photo is its size and who took it; a telemetry
  entry is two cells with the number of the acquisition.
- Times that are only compared with a deadline are kept relative to it (`CommLink`,
  `TelemetryArchive`, `ExperimentRuns`).
- Reset is possible between any two steps. The EPS keeps its outputs through it
  unless the power is cycled too.
- Telecommand frames, responses, logging and telemetry are left out.
- The mission loop of each model holds the tasks that the properties concern; the
  other tasks of the list neither read nor write their state.

## 9. Not modelled

`PROJECT.json` lists all components with their status. Left out for good:

- the control laws of the ADCS and the decoding of sensors: floating point;
- the protocols of EPS, IMTQ, gyro, payload, camera and antenna drivers, of the
  parallel flash and SPI: registers, no state of their own. Their results are
  success or failure in the models;
- YAFFS and the mapping of its blocks to the flash, FreeRTOS, emlib: third-party, or
  arithmetic without state;
- logger, terminal, base library, encoding of telemetry;
- the error counters: every bound that one would state of a counter is violated by
  overlapping corrections (section 7), and no document promises more than
  the code does.

Left out for now: the scrubbers of the bootloader, safe mode and boot settings (only
their flags), the collector of IMTQ telemetry, file and downlink telecommands,
`Pause` and transmission of the COMM driver, `SendMessageTask`, `RedundantN25QDriver::Reset`,
the flash erase experiment, the memory recovery task.

## 10. Plan

Done: all modules of section 2, the proofs of section 6. Left for later work:

1. An abstract specification for `SailDeployment`. "The sail opens once after an order or at
   its time" does not hold as it stands: an order may be swallowed and a stop overwritten
   inside one `Update` (section 7), so that a specification the code implements has to have
   the read, the decision and the write of `Update` as steps of their own, and says
   little more than `KnivesSafe`, `BurnsInTurn` and `SailGoesOn`.
2. The parameters of the experiments' telecommands, beside the requests.
