# Verification of the plotter firmware

The firmware is GRBL 1.1h ported to Zephyr for an STM32F405 CoreXY pen plotter, with a display and a menu that act as a
second host. The specifications here are TLA+ modules translated from the C and C++ sources, checked by TLC on small
instances, and proved with TLAPS where a proof for all constants is in reach. Paths below are relative to
`src/deps/gnea-grbl/grbl/` unless they begin with `src/`.

## 1. Inventory

| Component | State it keeps | Operations | Interacts with |
|---|---|---|---|
| Main program, realtime protocol (`main.c`, `protocol.c`) | `sys` (state, suspend, step_control, abort, soft_limit, spindle_stop_ovr), the line buffer | `protocol_main_loop`, `protocol_exec_rt_system`, `protocol_exec_rt_suspend`, `protocol_buffer_synchronize`, `protocol_auto_cycle_start` | reads flags that interrupts raise; starts, brakes and refills the stepper module; calls parser and system commands |
| Realtime flags (`system.c`, `serial.c`) | `sys_rt_exec_state`, `sys_rt_exec_alarm`, override flag words | setters and clearers under `irq_lock` | UART interrupt, limit debounce, step interrupt, main thread, menu thread |
| Motion control (`motion_control.c`, `jog.c`) | none of its own | `mc_line`, `mc_reset`, `mc_probe_cycle`, `mc_homing_cycle`, `mc_dwell`, `jog_execute` | planner, stepper, flags, wait loops of the main thread |
| Planner (`planner.c`) | block ring (head, tail, next head, planned), entry speeds, position | `plan_buffer_line`, `plan_discard_current_block`, `plan_reset`, `plan_cycle_reinitialize` | filled by `mc_line`, emptied by `st_prep_buffer` |
| Step segment buffer and step interrupt (`stepper.c`) | segment ring, block-data ring, `prep`, `st`, `sys_position` | `st_prep_buffer`, `st_update_plan_block_parameters`, `st_wake_up`, `st_go_idle`, `st_reset`, `TIMER1_COMPA_vect` | planner on one side, motors and `EXEC_CYCLE_STOP` on the other |
| Limits and homing (`limits.c`) | debounce state, registered callbacks, homing axis lock, `sys_position` | `limits_soft_check`, debounce callback, `limits_init`, `limits_disable`, `limits_go_home` | `mc_reset`, alarms, stepper, `grblMain` |
| System commands, settings (`system.c`, `settings.c`, `eeprom.c`) | settings, startup lines | `system_execute_line`, `settings_store_global_setting`, `settings_restore` | main loop |
| G-code parser (`gcode.c`) | modal state | `gc_execute_line` | motion control, synchronization |
| Probe (`probe.c`) | probe state | `probe_state_monitor`, called by the step interrupt | the pin is not ported: `probe_get_state()` returns 0 |
| Serial port (`serial.c`) | receive and transmit rings, response queue | UART interrupt, `serial_read`, `serial_write` | host, menu |
| Machine client (`src/src/grblState.cc`) | `grblMachine` and its mutex | `jog`, `grblResponseThread`, entry actions of the states | serial port (lines, realtime characters, responses), menu |
| Menu (`src/src/display.cc`) | `menuMachine`, decoder of the knob, last state of the button | the loop of `disp::init`'s thread, one event per sample | contacts, display, `jog` of the client |
| Hardware timer driver (`src/modules/hw_timer`) | registers of the timer, callback, interrupt enables, timer clock | `hw_timer_set_cycles`, `hw_timer_set`, `hw_timer_set_update_callback`, the update interrupt | to be called by the stepper module and its interrupt |
| Start-up (`src/src/main.cc`), SD card (`sdCard.cc`), peripherals (`zephyrGrblPeripherals.cc`), motor drivers (`stepperDriverSettings.cc`) | pins configured, registers of the TMC2130 chips, the open directory | `main`, `sd::init`, `lsdir`, `mcuPeripheralsInit`, `drv::init` | each runs before `grblMain`, none reports failure |
| Others | spindle and coolant pins, reports, number parsing | output, formatting | |

Contexts that run concurrently: the main thread, the thread that reads GRBL's responses, the display thread, the UART
interrupt, the limit-switch interrupt with its debounce timer, and the step interrupt. They share words of flags (set
and cleared under `irq_lock`), `sys.state` (written by the main thread, read in interrupts) and the segment ring (no
lock at all).

What is hard here, and what makes each part correct:

* *Flags against states.* Interrupts raise flags according to the state they see; the main thread serves them later,
  in another state, from a copy. Correct: no event is lost that a state waits for, only legal state changes happen, a
  lock is opened by nobody but the operator, a held machine does not move and does not start on its own.
* *Wait loops.* The main thread waits in six nested places, always polling. Correct: each ends when what it waits for
  happens, and gives way to a reset.
* *The segment ring.* Producer and consumer run without a lock, a block may be reloaded half way. Correct: nothing is
  overwritten in use, no step lost, repeated or reordered.
* *Two hosts.* The menu writes into the receive ring between the characters of the host, and reads answers from a
  queue that drops what does not fit. Correct: the menu takes no other answer for its own, and gets stuck only where its
  line was lost or came too late.
* *Kill against position.* A reset stops the motors at whatever speed. Correct: a lost position is reported.
* *Counting without feeling.* `sys_position` counts steps whether or not a motor turns, and homing learns of the world
  only by polling one bit per axis. Correct: what homing calls home is where the switch is, whatever came in between.
* *Start-up that goes on.* Every function of the start-up gives up at its first error and tells nobody. Correct: a motor
  never has current without its current settings; a dead machine is noticed.
* *Preloaded registers, flags and callbacks.* The driver programs a running timer in several writes, between which the
  counter overflows and the interrupt calls back into the driver. Correct: the waveform asked for, no callback for an
  update before its registration, none lost after it.
* *One state machine, two threads.* The client's machine sleeps in an entry action with its mutex held, and one of its two
  threads has a lower priority than a main thread that spins. Correct: one run at a time, the responses are not blocked
  for good, a press counts at most once.
* *Later:* the look-ahead speeds, 16- and 8-bit arithmetic, the transmit side of the serial line.

`PROJECT.json` lists the hazards with their lines.

## 2. Modules

| Module | Models |
|---|---|
| `MachineStates` | abstract: which machine state may follow which, and in which the steppers start, run and stop |
| `Protocol` | `main.c`, `protocol.c`, `mc_line`, `mc_reset`, `mc_probe_cycle`, `jog_execute`, `limits_soft_check`, the hard limit, the realtime characters; implements `MachineStates` |
| `StepStream` | abstract: the steps of planned blocks are executed once, in order, until a flush |
| `StepSegments` | `st_prep_buffer()` against `TIMER1_COMPA_vect()` in `stepper.c`; implements `StepStream` |
| `StepSegments_proofs`, `StepStream_proofs` | the proofs about `StepSegments`: its invariants, and that it implements `StepStream` |
| `MachineClient` | `src/src/grblState.cc`, the receive ring and the response queue of `serial.c`, the line loop of `protocol_main_loop()`, the host |
| `Menu` | `src/src/display.cc`: knob, button, menu, and the mutex of `grblState.cc` between the two threads |
| `TimerCallback` | abstract: what the timer driver promises to whoever registers a callback |
| `HwTimer`, `MCHwTimer` | `src/modules/hw_timer`: the driver, its registers, its interrupt; implements `TimerCallback`; the calls that are tried |
| `Startup` | `main.cc` with `sdCard.cc`, `zephyrGrblPeripherals.cc`, `stepperDriverSettings.cc` |
| `Limits` | `limits_go_home()`, `mc_homing_cycle()`, `limits_init()`, `limits_disable()`, the position of a CoreXY |
| `Device` | composes `Startup` and `Limits`: the machine from power-up to a homed position |
| `Protocol_proofs`, `MachineClient_proofs`, `Menu_proofs`, `HwTimer_proofs`, `Device_proofs` | the proofs about those modules |

### Protocol

The main thread is a program counter `pc` with two return points: `ret` for `protocol_execute_realtime()`, `sub` for the
calls of `protocol_exec_rt_system()` inside `protocol_exec_rt_suspend()`. A step ends where another context can
interfere: between two accesses to a flag word (`rt.alarm`, `rt.copy`, `rt.hold`, `rt.start`, `rt.stop`, `rt.acc` are the
stretches of `protocol_exec_rt_system()`), between the change of `sys.state` and the start of the steppers (`rt.wake`,
`jogWake`), and at every poll. `rtExec` is the local copy of the flags, so that flags raised after the copy are seen
late, or wiped. `Reinit` and `Restart` are the two halves of the loop in `grblMain()`: the flags are cleared first, the
steppers stopped later.

Interrupts are one step each: `Command(c)` for a realtime character or limit switch, `StepperSegment` and `StepperDone`
for the step timer. The planner is a sequence of motion kinds, the segment ring a number; `PrepBuffer` chooses how many
segments the queued blocks yield, and where a hold comes to rest. History variables: `posLost` (the steppers were
stopped while running, and nobody typed `$X` since), `startBy`/`execBy` (who raised the pending cycle start: the operator,
the main program for what is queued, or the end of a restore that no operator's resume is behind any more).

`delay_sec()` at the end of a restore (`nuts_bolts.c:112-127`) polls at every `DWELL_TIME_STEP`: `RestoreDelay` is its first
poll, `RestoreDelayStep` any further one, `RestoreAfterDelay` what follows. As many commands as there are may be served in
one delay.

`TimerWired` selects between the step timer as `st_wake_up()` and `st_go_idle()` show it in commented-out calls and the
documents describe it (TRUE), and the source as it stands, where nothing calls the step interrupt (FALSE). The runs use
TRUE: they say what the protocol does once the timer is connected.

### StepSegments

The interrupt handler is one step; the main program is cut at its accesses to what the interrupt reads: the Bresenham
data of a new block (`LoadBlock`, `BlockLoaded`), the index and the step count of a segment (`NewSegment`,
`SegmentSteps`), the publication of the head (`Publish`). Blocks are numbered in planning order; a segment carries the
number of its block as a history field, so that executing a segment with another block's data is visible. `left` counts
the steps every block still owes; it is the abstract state of `StepStream`. How many steps a segment gets is open
(velocities are abstracted), as is where a hold ends; but outside of a hold it is at least one, because `st_prep_buffer()`
goes on until the segment holds `REQ_MM_INCREMENT_SCALAR` steps or ends its block (`stepper.c:957`, `:1024`) and rounds the
remaining steps up (`:1069`). What the rounding of floats can do to that is not modelled. The model takes stores in program order: the indices are volatile
or the accesses ordered by the single core, and the compiler is trusted not to move the filling of a segment past the
update of `segment_buffer_head`.

### MachineClient

The client of the menu is a state machine in a thread of its own (`grblResponseThread()`), fed with one response, or an
empty one, per round. A round is two steps: `Fetch` takes a message off `lineRing` (`Fetched`, `Taken`:
`serial_get_tx_line()`) before the thread has the mutex, and `Respond` goes to the next state (`Target`) and runs the
entry action of that state. `PressJog` is `jog()` called by the display thread; it may come between the two, so that
the state `jog` is entered with a response of before. The client writes into the same `rxRing` as the UART interrupt
(`ExecuteClientLine` against `HostText`, `HostEol`), and both set the same realtime flags. The main thread is the path
from power-up (`SerialInit`, `ClearFlags`, `ResetSystems`, `Welcome`) into the line loop (`ReadText`, `ReadEol`,
`NothingToRead`, `ExecuteLine`).

A line is one character of text and its end, a response a message and its length in bytes. Characters keep the number
of the client's line they belong to, so that lines that get mixed are seen. `protocol_exec_rt_system()` is one step,
because its races are the subject of `Protocol`. The host sends resets and status requests but no feed hold or cycle
start, and its G-code does not move the machine. Its lines are `$X`, `$H` and G-code: homing (`HomingLine`,
`HomingDone`, `HomingFails`) is one stretch here, with its inside in `Limits`; whether `homing` is enabled is a setting.
`Welcome` is the head of `protocol_main_loop()` with `CHECK_LIMITS_AT_INIT`; the machine does not sleep (nobody sends
`$SLP`), there is no door pin in `system_check_safety_door_ajar()`, and the startup lines are empty. The library behind the state machine is outside of the repository's
`src/` and is modelled from how `grblState.cc` uses it. The mutex around the state machine and the sleep inside it are
the subject of `Menu`; here the part of a round under the mutex is atomic and comes at any time.

Four things the model brings out, and which the properties are worded around: the CR LF that the client sends is
answered twice (`JogWaitsForAnswer` says nothing once the client has sent `$X`, nor with a line of the host under way);
`$X` of the client can be wiped by the reset it requested itself at start, and it then stays in `locked`; so it does when
its `$X` finds the lock open already, because a `$H` of the host opens it without the message the client waits for, or the
host's `$X` had its message read in another state (both are `lost` in `Unlocks`); a jog that is answered with an error
leaves it in `jog` for good.

### Menu

The user turns the knob (`Turn`, four positions to a click pair) and holds and releases the button. The display thread
samples the contacts (`Sample`: decoder table `ENC`, edge of the button), handles the button's event (`EnterMenu`,
`EnterJog` and the steps of `jog()` under the mutex) and then the knob's event of the same sample (`KnobEvent`). The
response thread takes the same mutex for every response and may sleep in `waitidle` with it (`Nap`). `Boot` is the
initialization of the display: when the display is missing, the contacts stay unconfigured and float, and the loop is
entered all the same. The history variables `origin`, `heading`, `fresh` say which click is under way and whether an edge
has been missed because the thread was blocked; `asked` whether a press is still unserved. The client's states are those
of `MachineClient`, with any answer possible. The SD-card menu is reachable from no transition and is left out.
`JogsAsLabelled` is stated in the module and not checked, as it does not hold (section 5, item 4).

### HwTimer

The registers are a record `tim` with the preloaded value and the value in effect of the reload and compare registers.
A call of the thread is cut where an update or the interrupt can come between two writes: `SetCycles` checks and chooses
the path, `InitOutput`, `Preload`, `GenerateUpdate` program an output for the first time, `WriteCompareRegister`,
`WriteReloadRegister` change a running one. `Register` ... `EnableIrq` and `Remove` ... `Mask` are the writes of
`hw_timer_set_update_callback()`. `Isr` is the interrupt with its callback, which may return, remove itself or program
the timer (`Programs`), as the commented-out calls in `stepper.c` do. The thread runs only when no interrupt is pending
and enabled. The capture functions are not compiled in and not modelled. `Wraps` names the two requests whose values do
not fit the registers: down counting with a pulse of 0, and up counting with a pulse of 65536 on a 16-bit timer. Each comes
out as the reverse of what was asked for, and `OutputAsRequested` says so (section 5, item 15). `torn` marks a call that a
callback has reprogrammed between its writes; nothing is said of its waveform (item 16).
A period of one cycle stops the counter (`stalled`). Nothing in the firmware calls the driver at present.

### Startup, Limits, Device

`Startup` is `main()` step by step, each of which may fail: the questions to the disk, the directory listing, the pins
in the order in which they are configured, the registers of the two motor drivers, their enable pins. `chip` says which
registers of which driver hold their settings; the drivers have a supply of their own, so that a restart of the
controller finds them empty or fully programmed (a restart in the middle of programming is not modelled). `Energized` are
the motors that have current.

`Limits` is the homing cycle (`GoHome`) with what follows it up to the main loop's next line (`Finish`), the step interrupt (`StepEvent`, `StepperDone`) and the interrupts that reset the
machine or report the door. `Finish` keeps the reads apart that a reset can come between: the poll of
`motion_control.c:239` reads the alarm (`LastAlarm`) and later the flags (`LastFlags`); `$H` sets IDLE (`Complete`); the
main loop polls once more (`LoopAlarm`, `Serve`), and it does so as well after an abort, before `grblMain()` is reached
(`protocol.c:158-164`, `:77`). That last poll is why a reset that comes between the reads of the one before still locks the
machine: it finds the alarm. A door that comes after the last poll of the homing loop has the main thread suspended
(`Ajar`, `SuspendAlarm`, `SuspendFlags`). `carriage` is where the carriage is, `position` is what the firmware believes; only motors
in `driven` move it. Between two polls of the switches at most `SeekLag` or `FeedLag` steps are made: this is the timing
assumption of any homing by polling. The configuration is the repository's: CoreXY, X before Y, one locate cycle, the
low end. The switches are taken to have pins of their own, one switch at each end of an axis, both ends on one bit; in
`zephyrGrblPeripherals.cc:14-17` all four still name the direction pin of motor 1 although the devicetree has
`edge_switch_pins`. The step timer is taken to be connected, as in `Protocol`.

`PullOffAssumption` is what the pull-off and the search distance must satisfy for the switches and the lags at hand.
`Device` instantiates `Limits` with `driven` replaced by the motors `Startup` has left with current. No claim is made for
one dead motor of two: a CoreXY with one motor moves along a diagonal, and homes to a wrong place unnoticed.

## 3. Runs

| Run | Shows | Bounds |
|---|---|---|
| `protocol` | type invariant; `CycleStopIsPending`, `CompletedHoldStandsStill`, `AutoStartNeverResumes`, `ImplementsMachineStates` | 3 realtime events of all 7 kinds, 2 lines of 7 kinds (no probe: section 5, item 11), planner of 1, ring of 1; spindle on and off; power-up locked and unlocked |
| `protocol_live` | `ResetIsExecuted`, `MotionEnds`, `ProbeEnds`, `SuspensionCompletes` | 3 events of 5 kinds (reset, cycle start, feed hold, door, hard limit), 2 lines of 5 kinds (move, move outside of the soft limits, jog, probe, `$SLP`), planner of 1, ring of 1; spindle on |
| `segments` | `PendingIntact`, `ExecutesItsBlock`, `ImplementsStepStream` | ring of 3 (block data ring of 2), queue of 2, blocks of 1 or 3 steps, 4 blocks |
| `client` | type invariant (rings within their size); `JogWaitsForAnswer`, `WaitEnds`, `WelcomeSeen`, `Unlocks` | receive ring of 5; 2 inputs in all: jogs, realtime characters and lines (`$X`, `$H`, G-code) of the host, a limit switch found closed at start; locked and unlocked power-up, homing enabled or not |
| `menu` | type invariant; `OneRunAtATime`, `KnobMovesOneRow`, `PressCountsOnce`, `ResponseGoesOn`, `LooksCatchUp` | none: the module is finite |
| `hw_timer` | type invariant; `RegisteredIsArmed`, `OutputAsRequested`, `ClockRate`, `ConversionBrackets`, `OtherOutputKept`, `TakesEffect`, `ImplementsTimerCallback` | a counter of 3 bits, cycles of 4; one channel with its complementary output; three counting modes; bus prescalers 1, 2, 4 and 8, without TIMPRE and with it at 2 and 4, so that both sides of each threshold of `get_tim_clk()` are met; 9 calls at the boundaries of a period, one in nanoseconds, three of them refused |
| `device` | type invariant; `EnergizedAfterSetup`, `HomedAtSwitch`, `DeadIsNotHomed`, `OtherAxisKept`, `ResetAlarms`, `BootEnds`, `HomingEnds` | 1 directory entry; a frame of 5 steps each way, the switches at its ends; pull-off of 2 steps; 2 steps between polls at seek rate and 1 at feed rate; 1 homing cycle with 2 reset or door events |
| `lost_position`, `alarm_unlocked`, `long_status`, `hold_resumed`, `homed_elsewhere` | the five disagreements of section 5 that have a run | smallest that shows each |

Why the bounds are enough: the races of the protocol are between one or two events and the code that serves an earlier
one, so three events in flight meet every pair of adjacent stretches of `protocol_exec_rt_system()` with a third left
to resume or reset. The exception known is section 5, item 12, which needs five; the theorems have no such bound. A planner of one block makes "full" and "empty" adjacent, a ring of one or two segments makes the
underrun and the partially prepared block happen in every order. In `segments`, four blocks through a data ring of two
wrap it twice, with one block in execution, one published, one in preparation and one queued; the proofs below remove
the bound on the ring. In `client`, a client line takes 3 of the 5 places of the receive ring and a host line 2, so the
ring is met full, cut in the middle of a line, and with the two writers interleaved; the response queue has its real
number of words. In `hw_timer`, the widths only have to leave room for a period that fits, one that is one too long, and
one that wraps; a call interrupted by an update, by the interrupt and by a call of the callback all occur at every cut. In
`device`, the frame is as short as the search distance, the pull-off and the two lags permit to be told apart: an approach
may begin on either switch, run into the frame, or end short of the switch, and the seek overshoots by more than the feed;
a
second homing cycle begins in no state the first cannot begin in, because the carriage begins anywhere. Two events let a
reset end a suspend loop that a door began, and a door and a reset meet in one poll. `MaxCmds`, `MaxLines` and `MaxPlan` bound the environment, not the code; a reset stays possible
in the critical-alarm loop when the budget is spent, because that loop waits for the operator by design. A block takes
at most two calls of `PrepBuffer` to prepare, which stands for its finite length.

Fairness (`FairSpec`): weak fairness of the main thread, whose loops only sleep for bounded times, and of the step
timer, which fires periodically while enabled; in `MachineClient` also of the response thread, which has the priority
of the main thread and shares the processor with it by time slices (`prj.conf:64-67`, `src/src/grblState.cc:57`). In `Menu`
the response thread is fair for the same reason. The display thread is not: its priority is 14 (`src/src/display.cc:42`),
below the main thread's 13, which spins without sleeping in several loops. It is fair only where it owns the mutex and the
response thread waits for it (`DisplayRaised`), because `k_mutex` then raises it to the waiter's priority; no property
promises that the panel itself is served. In `HwTimer`, a call that has begun goes on, the counter runs when its reload
value is not 0, and a pending interrupt is served. Nothing is assumed of the operator, the host or the switches. Deadlock
is checked in every run but `device` and `homed_elsewhere`: there the machine may rest in IDLE or ALARM with its one
homing cycle used up.

The liveness properties of `protocol_live` name what the code does not end by itself. A critical alarm discards the reset
that is pending (`protocol.c:232`) and waits for another one, which nobody may send (`WaitsForReset`). A motion whose
steppers were killed at speed (`posLost`) may leave the machine in CYCLE: that is a reset, whose restart follows, or the
case of section 5, item 11, where nothing follows. `MotionEnds` and `SuspensionCompletes` except it, and `LineKinds` of
that run has `"probe"` with `CYCLE_START`, so that the case is met. `HomingEnds` excepts a door that came after the last
poll of the homing loop (item 13).

Every property of a passing run has a mutant in `PROJECT.json`: an operator of the module (marked *Mutant* in its
comment) that, put in the place of the definition it varies, makes TLC report that property.

## 4. Proofs

The theorems hold for every value of the constants that satisfies the modules' assumptions, which TLC evaluates in the
runs; what else a theorem assumes is in its statement. All follow one scheme: none of the properties is inductive by
itself, so an invariant `IInv` is stated that is (TLC checked each as an invariant of a run first), `Init => IInv` and
`IInv /\ [Next]_vars => IInv'` are proved with one lemma per action or group of similar actions, and the properties are
drawn from it. Action properties and refinements use `IInv` in the state a step begins in.

Liveness is out of the prover's reach. Where a liveness property of a run rests on an argument about states or single
steps, that argument is proved for every value of the constants, as a theorem of its own: that somebody who waits waits
for something that is on its way, or that each step brings the end nearer. These are `SuspensionAwaited`,
`QueueNeverStuck`, `OwnerGivesBack` with `WaiterGetsIt`, and `HomingAwaited` with `HomingGoesOn`. What
is left to TLC is that fair steps are taken.

### Protocol_proofs

For every size of the rings, every set of commands and line kinds, every bound on events and lines, and the step timer
connected or not: `TypeOK`, `CompletedHoldStandsStill`, `AutoStartNeverResumes`, and `ImplementsMachineStates`, the refinement of
`MachineStates` in full (that specification has no fairness). `CycleStopIsPending` is proved under `NoProbing` (no line is
a probing cycle), without which it is false (section 5, item 11). Besides the types, `IInv` says:

* `FlowInv`: what is suspended at which point of the main program. An abort keeps its reset flag
  until `grblMain()` clears it. Most of what follows is claimed only outside of the way there (`Leaving`), because flags
  and steppers are reset at different moments.
* `AlarmInv`: an alarm comes with a reset, except that of a failed probe.
* `RestInv`: the steppers run only in CYCLE or JOG, while a hold brakes them, or when a critical alarm is about to be
  served; in a completed hold they do not.
* `StopInv`: `EXEC_CYCLE_STOP` is up only after the steppers have stopped by themselves, and the state is then one that
  waits for it, or it is a leftover of a restart that is served before any motion is queued.
* `DoorInv`, `SleepInv`: the door is recorded as closed only after the hold; a sleeping machine is held and stays so.
* `UserInv`: the cycle start that the main program raises for what is queued is consumed before a hold can be complete.
  This is what `AutoStartNeverResumes` rests on. The one at the end of a restore is not, and does resume a completed hold:
  that is the run `hold_resumed`.

`SuspensionAwaited` (also under `NoProbing`) is the safety core of `SuspensionCompletes`: while the machine is suspended
or held and the hold is not complete, the steppers still run, their stop has been reported, a reset is due, or the cycle
start of a restore is about to be served (`HoldIsAwaited`). Its invariant `AwaitInv` adds that an incomplete hold brakes
(`BrakeInv`), that an alarm comes with a reset, and that the delay after a restore is not spent in a locked machine
(`DelayInv`). The last disjunct of `HoldIsAwaited`, `Restarts`, is there because of section 5, item 12, which the proof
brought to light: the case needs more events than `protocol` has. TLC checked `AwaitInv` with five.

### StepSegments_proofs

For every ring size of at least 3, every queue length and every set of positive step counts: `TypeOK`, `PendingIntact`
and `ExecutesItsBlock`, from `StepSegmentsAssumption`. `IInv` adds:

* `PrepInv`: the bookkeeping of `st_prep_buffer()`: which block is being prepared, that its data are loaded, that a
  remainder of steps is left whenever it is marked for reloading, and that the ring has room while a segment is written.
* `DistInv`: counted back from the newest entry, the data ring has advanced no further than the segment ring. It has
  one entry less, and a segment is only written when one slot stays free: so the entry that `st_next_block_index()`
  hands out is never one a pending segment refers to.
* `ChainInv`: neighbouring segments are of the same block or have neighbouring data indices, up to the segment the
  interrupt executed last and the block in preparation. This is what makes the comparison of indices in the interrupt
  (`stepper.c:429`) a test for a change of block.

Two lemmas carry most of it: `RingUnchanged` (steps that leave the rings alone) and `SegmentAtHead` (writes to the
unpublished segment); `BetweenFacts`, `BetweenTake`, `BetweenAdd` and `StDistance` do the ring arithmetic once.

### StepStream_proofs

Under the same assumption: `ImplementsStepStream` in full (`StepStream` has no fairness), and `NothingLeftBehind`: when
planner and ring are empty, no block that was planned and not flushed owes a step. A step event maps to a step of
`StepStream` only if its block is the oldest that owes steps, and that needs an account of where all steps are. The model
records the steps of each segment but not what its block has left after it, and sums over a ring are induction, so
`StreamInv` says that there is a function `rest` from segments to steps with local conditions only: the rest of the last
segment is what `st_prep_buffer()` has still to prepare of that block (`Unpublished`), the rest of any other is the next
segment and its rest, or nothing if the next segment begins the next block, of which it is then a part with its whole
length (`RestInv`). `LeftInv` draws from it what every block owes. Each action supplies the witness for the next state:
`Publish` extends `rest` by the new segment and takes the segment's steps out of `Unpublished`; a step event leaves it
alone; `StReset` empties the ring, after which any `rest` will do.

### MachineClient_proofs

For every size of the receive ring and of the response queue, and every number of resets, status requests and jogs:
`TypeOK` and `JogWaitsForAnswer`, where TLC has two inputs in all. The property itself is about a client that has never sent
`$X`, and about times at which no line of a host has come; item 14 of section 5 is why. The client's line ends in CR LF and is answered twice,
so a stale "ok" could be taken for the answer to a later jog. `AnswerInv` says why it is not. Until a jog is answered, no
"ok" gets to the client and the pieces of its line are on their way in order (`LineOnItsWay`); afterwards at most the
second end of the line is left (`LineExecuted`), the machine stays in JOG until it has been answered as well, so no status
report that ends the jog comes before the second "ok" in the queue (`Answered`, `Waiting`); and a client that has left the
jog finds neither an "ok" nor a piece of the line. A response that cannot be fetched stays at the head for good (`Stuck`),
and nothing is claimed of what is behind it. The lemmas `AppendKeeps` and `TailKeeps` carry the order of the responses
through the queue, whether it drops a response or not.

`QueueNeverStuck` says when that happens: if no response has more words than the client's buffer (`ResponsesFit`), no
response is ever `Stuck`. The constants of the run `client` satisfy the hypothesis, those of `long_status` do not, and
that run ends in the violation of `WaitEnds` that section 5, item 3 describes.

### HwTimer_proofs

For every width of the counter, clock, prescaler, channel and set of calls: `TypeOK`, `RegisteredIsArmed`,
`OutputAsRequested`, `ClockRate`, `ConversionBrackets`, `OtherOutputKept`, and `AllowedByTimerCallback`, the safety half of
`ImplementsTimerCallback`. `LastInv` says that the call in progress is one the driver accepts, `ProgressInv` what the
registers hold at each cut of it (unless the interrupt has written them in between), `ArmedInv` how far the interrupt is
enabled at each cut of a registration, and `DueInv` that an update flag the interrupt would serve is one that came
after the registration. The conversions between nanoseconds and cycles are proved as integer arithmetic, in lemmas on
division.

### Device_proofs

For a CoreXY of two motors and two axes, and every frame, lag, number of directory entries, of events and of homing
cycles: `EnergizedAfterSetup`, `TypeOK`,
`HomedAtSwitch`, `DeadIsNotHomed`, `OtherAxisKept`, `ResetAlarms`. `PullOffAssumption` says of the settings what homing
needs: two pull-offs do not carry the carriage to the other switch, and the locating pass is long enough to find the
switch again in spite of the lag. `BootInv` keeps the order of the start-up (each driver programmed in full before its
pin enables it), `ControlInv` the loop of `limits_go_home()` whatever the motors do, `DeadInv` what the switches say when
nothing moves, and `PassInv` bounds where the axis is in each pass: it is the chain of inequalities that ends with the
carriage at the switch. It is stated for an approach with the other axis off its switches; item 5 below is why. `DeadIsNotHomed` is about a
machine none of whose motors has current. `ResetAlarms` says that an alarm, pending or served, follows every reset of a
machine in HOMING; the reset that ends a door's suspend loop is not one of these (item 13).

`HomingAwaited` and `HomingGoesOn` are what `HomingEnds` rests on: the switches are polled only while a motion goes on or
a flag that ends the pass is up, and no step takes the cycle away from its end; all but the polls of one motion, its
steps, the polls of a late door's suspend loop and interrupts bring it nearer (`ToGo`).

### Menu_proofs

The module has no constants: menus, decoder and answers are the tables of the source. What the proofs add to the run is
the argument.

* `TypeOK` and `OneRunAtATime`: a thread inside the client's machine owns the mutex (`InsideOwns`), and nobody owns it
  who is not inside or waiting for it (`OwnerWaitsOrIsInside`). `OwnerGivesBack` and `WaiterGetsIt` go on from there: a
  mutex that somebody waits for is never free nor with a thread that is done, and the step in which its owner leaves
  gives it to the waiter.
* `PressCountsOnce`: `ButtonInv` relates the level the thread saw last, the level of the pin and whether a press has been
  reported, so that an event means a press since the last event.
* `KnobMovesOneRow`: `RoundInv` says that decoder and knob agree whenever the knob rests and the thread has looked since
  its last edge, `ClickInv` where the table `ENC` stands after each edge of a click, and how many rows it has moved the
  arrow. The rows of the menus, with the wrap-around at both ends, are lemmas on the tables.
* `LooksCatchUp` (`LooksBringNearer`): at most three looks at the resting knob bring the decoder back to its place after
  edges were missed, each by one.

### Only model-checked

Liveness: `ResetIsExecuted`, `MotionEnds`, `ProbeEnds`, `SuspensionCompletes`; `WaitEnds`, `WelcomeSeen`, `Unlocks`;
`ResponseGoesOn`; `BootEnds`, `HomingEnds`; `TakesEffect` and the liveness half of
`ImplementsTimerCallback`. All invariants, action properties and safety refinements that the passing runs check are
proved, `CycleStopIsPending` and `SuspensionAwaited` for programs without a probing cycle.

## 5. What does not hold

Each of these is something a document or comment of the repository promises, or that a user may expect, and the code does
not do. Items 1, 2, 3, 5 and 12 have a run that ends in a violation; the others follow from the modules.

1. `LostPositionIsAlarmed` (`lost_position`): a reset between the alarm read and the flag read of
   `protocol_exec_rt_system()`, or just before the steppers start, kills motion without an alarm after the restart.
2. `AlarmNeedsUnlock` (`alarm_unlocked`): steppers left running by such a reset finish while `grblMain()` re-initializes;
   their `EXEC_CYCLE_STOP` then sets IDLE over the homing lock.
3. `WaitEnds` with status reports of 75 bytes (`long_status`): `serial_write()` counts such a response as 21 words, one
   more than `serial_get_tx_line()` accepts for a buffer of 80 bytes. It stays at the head of the queue, and the client
   gets nothing any more.
4. `Menu!JogsAsLabelled`, without a run: the entry X- of the jog menu (`src/src/display.cc:132`) jogs Y+
   (`src/src/display.cc:215`), and nothing in the source calls `jog()` with `xNegative`.
5. `LimitsLocated` (`homed_elsewhere`): on a CoreXY, either axis' switch stops an approach (`limits.c:500-506`). When Y
   stands on one of its switches, the approach of X ends at the first poll, and X is homed where it happens to be.
   `HomedAtSwitch` in the run `device` says what does hold.
6. `Protocol!IdleNotSuspended`: a jog cancel that arrives just before the jog ends is served in IDLE and suspends the main
   thread.
7. `Protocol!SoftLimitKeepsPosition`: a soft limit found during the deceleration of a hold kills the motion at speed.
8. `MotionEnds` with `TimerWired = FALSE`: the step timer is not connected in the present source, so that no motion ends.
9. Hard limits are never armed again after the first homing cycle: `limits_init()` returns early from its second call on
   (`limits.c:63`), although `motion_control.c:249` and `settings.c:273` rely on it to re-enable what
   `limits_disable()` took away. In `Limits`, `callbacks` stays FALSE from the first `Home` on.
10. The debounce callback compares a pin number with a mask of pins (`limits.c:313`).
11. `Protocol!CycleStopIsPending` with `"probe"` in `LineKinds`: a probing cycle that a hold or an underrun brings to IDLE
   with motion left is started again by a cycle start that is served in the poll before `st_reset()`
   (`motion_control.c:304-307`). `st_reset()` then stops the steppers, and the machine stays in CYCLE, which `system.h:83`
   explains as "Cycle is running or motions are being executed", with nothing running and no `EXEC_CYCLE_STOP` to come,
   until a reset. The run `protocol` has no probe lines for this reason; `protocol_live` has them.
12. `HoldNeedsUser` (`hold_resumed`): a restore that outlives its suspension. After a door, the restore waits for spindle
    and coolant (`protocol.c:694,703`) and then sets `SUSPEND_RESTORE_COMPLETE` (`protocol.c:729`) and a cycle start, unless
    the door has opened again. When a feed hold comes with that cycle start, the start is dropped (`protocol.c:341`) and
    the suspend loop restores once more. `delay_sec()` polls all the while (`nuts_bolts.c:112-127`): in this second delay a
    resume of the operator is served and starts the cycle, and a new feed hold is served and comes to rest. The end of the
    delay raises the cycle start all the same, and it resumes the completed hold, against `protocol.c:385` "Remain in HOLD or
    DOOR states until user has issued a resume command or reset." If the second feed hold is left out, the bit is set in a
    machine that is not suspended any more; the cycle start clears it, unless it is blocked by a hold or door that comes
    first: such a door is then resumed at once (`protocol.c:344`), without restoring the spindle. That part has no property.
13. A door that is raised after the last poll of the homing loop is served by the poll of `motion_control.c:239`, in HOMING:
    `SUSPEND_SAFETY_DOOR_AJAR` without `SUSPEND_HOLD_COMPLETE`, which nothing sets any more, so that
    `protocol_exec_rt_suspend()` does nothing but poll, a cycle start is refused, and only a reset ends it. The state is then
    SAFETY_DOOR, so the reset raises no alarm, and the machine comes up in IDLE from a homing cycle that was not completed.
    `HomingEnds` and `ResetAlarms` in `Limits` except it by name.
14. `JogWaitsForAnswer` without its conditions: an "ok" that answers the line feed of the client's own `$X`, or a line of the
    host, is taken for the answer to a jog that is pressed meanwhile; the client then waits for an IDLE that may be the one
    of before the jog. And the client in `locked` stays there when its `$X` is executed by a machine that a `$H` of the host
    has unlocked already (`system.c:165-203`): the answer is a bare "ok". A door or hold of the host is not modelled here.
15. `hw_timer.h:471-474` says "Passing 0 as @p pulse will cause the pin to be driven to a constant inactive level." and
    "Passing a non-zero @p pulse equal to @p period will cause the pin to be driven to a constant active level." In down
    mode a pulse of 0 becomes a compare value of all ones (`hw_timer_stm32.c:278`), which keeps the output active; in up mode
    a pulse of 65536, equal to the longest period, becomes 0 in a 16-bit register, which keeps it inactive.
    `OutputAsRequested` states both as they are.
16. A callback that programs the timer between the two writes of a call of the thread (`hw_timer_stm32.c:341-342`) leaves the
    pulse of one call with the period of the other, until the next call. `OutputAsRequested` excepts it (`torn`).

## 6. Not modelled, and the plan

What more could be modelled, in order of what it protects:

1. What `MachineClient` leaves out of `serial.c`: the transmit ring with its interrupt, and `serial_write()` character by
   character with several threads printing.
2. `Planner`: the look-ahead passes on integer squared speeds; entry speeds reachable, the executing block untouched.
3. `Arithmetic`: AMASS levels, Bresenham counters, override clamping with their widths, checked against reference
   definitions (two decreases of an 8-bit override served in one poll at 10 % wrap to the maximum).
4. `Settings`: startup lines, the EEPROM stub, settings that need a reset; and the modal groups of the G-code parser.
5. The debounce timer and the pin state that four switches share; homing with one dead motor.
6. The overrides; sleep, door pin and startup lines in `MachineClient`; a segment without steps in `StepSegments`.

Further proofs: `CycleStopIsPending` with probing cycles as far as it holds (the cases of section 5, item 11 excepted);
the safety core of `TakesEffect` (an update that is due is never discarded) and of `BootEnds`; and the modules to come.

Left out for good: report formatting, drawing, the values of the TMC2130 registers, the capture functions of the timer
driver, spindle and coolant pins (output only, not compiled, or no state of the program's own); parking, variable spindle, dual axis and line numbers (compiled
out); number parsing and arc geometry (floating point).
