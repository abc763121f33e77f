# Formal models of the micro-oxifoc e-bike firmware

`src/` is the firmware of a mid-drive e-bike controller on an STM32F103: a
field-oriented current loop in a 16 kHz interrupt, a millisecond foreground loop
that alone may grant torque, Hall and wheel capture interrupts, CAN telemetry, a
reset record for diagnosis, a second image that calibrates a motor, and the host
scripts that update and operate it. This directory holds TLA+ models of the parts
whose correctness depends on interleavings, sequences of losses and retries,
wrapping counters and resets; TLC checks small instances and TLAPS proves the
central invariants for every value of the constants.

Paths below are relative to `src/`; `f103/` is `oxifoc-f103/src/`, `core/` is
`oxifoc-core/src/`, `cal/` is `oxifoc-f103-calibration/src/`.

## 1. Inventory of the system

| Component (source) | State it keeps | Operations | What must hold | Module |
|---|---|---|---|---|
| Ride state machine (`f103/control/ride.rs`) | `State`, the current run, fault and retry counters | `update`, once per millisecond | torque only after a rest sample or an earned Hall retry; stalled motors released; repeated power-stage faults lock out | `RideController` |
| Control interrupt (`f103/control/foc.rs`, `control/mod.rs`) | `ControlState`, the authority words with deadline and epoch, the published diagnostics | `control_cycle` and its exits, `stop_control`, `timer_update_interrupt` | drives only fresh, unexpired grants, on no older words; counts every loss | `ControlLoop` |
| Foreground pass (`f103/app.rs`) | monitors and time stamps | `service_ride`, `service_updater_reset`, telemetry | decisions from a snapshot never override a later loss | `ControlLoop` |
| Fault latch and power stage (`f103/hardware/peripherals.rs`) | `FAULT_FLAGS`, TIM1's break flag and enables | output enable and disable, `TIM1_BRK`, `acknowledge_faults` | a latched fault keeps the output off; none is cleared unread | `ControlLoop` |
| Hall edge capture (`peripherals.rs`, TIM2) | overflow counter, published state, interval and sequence | `TIM2`, `hall_edge_snapshot`, `restart_stationary_hall_interval` | exact intervals; a run starts in the sector the rotor is in | `HallCapture` |
| Hall estimator (`core/foc/hall_sensor.rs`) | sector, direction, interval, traversal | `seed`, `update_edge`, `angle` | a speed is that of a sector crossed, in the time it took | `PhaseEstimation` |
| Phase manager and observer (`core/foc/phase/*`) | source selection, observer readiness | `select_estimate`, `update` | no endless blind drive; a phase returns at rest | `PhaseEstimation` |
| Current driver (`core/motor/foc_driver.rs`, `core/foc/ramp.rs`, `numeric.rs`) | ramp, weakening current, filters | `step_current_control`, limits | inside the derated circle and the battery's limits | `CurrentCommand` |
| Environment monitor (`f103/sensors/environment.rs`) | voltage counters, held limits, the transient budget | `update`, once per pass | limits withdrawn in time and held against single samples | `EnvironmentMonitor` |
| Throttle, brake, cadence (`f103/sensors/inputs.rs`, `analog.rs`, `cadence.rs`, `throttle.rs`) | debounce counts, pulse times, DMA frame | sample updates and time-outs | stale or bouncing inputs give no demand | `RideInputs` |
| Wheel (`f103/sensors/wheel_capture.rs`, `wheel.rs`, TIM3) | captured pulses, extended timestamps, distance | `TIM3`, `snapshot`, `Estimator::update` | exact intervals, whole snapshots, exact distance | `WheelCapture`, `WheelSpeed` |
| CAN transport (`f103/transport/*`, `protocol/`) | mailboxes, receive flags, page schedule | `service`, `transmit`, `receive_interrupt`, `take_reset_request` | nothing accepted is lost; pages in order | `CanTransport` |
| Watchdogs (`f103/safety/mod.rs`, `runtime.rs`) | `MainLoopWatchdog`, `TIMER_UPDATES_SINCE_FEED` | `poll`, `timer_update_entered` | whatever stops ends in a reset, nothing else does | `Watchdog` |
| Retained diagnostics (`f103/safety/retained.rs`, `runtime.rs`) | a record in SRAM that resets spare | boot capture, `record_*`, `clear_current_pwm_failure` | the next boot's report is whole, current and the first failure | `RetainedRecord` |
| Calibration routines (`cal/calibration/*`) | the state of four routines and their results | `start`, `observe`, `fail` | soft starts and ends, no result from a failed run | `CalibrationRoutines`, `RoutineContract` |
| Calibration supervision (`cal/app.rs`, `cal/control/mod.rs`, `cal/transport/can.rs`) | mailbox, arm window, request, abort | commands, `service`, `control_cycle` | a STOP, an interlock or a fault ends the run | `CalibrationDevice` |
| Host update (`scripts/can_bootloader_flash.py`) | transfer state | the update's steps and retries | whole images only; a rerun recovers | `FlashTransfer` |
| Board set-up (`f103/main.rs`, `config.rs`, `hardware/*`) | registers | initialisation | - | not modelled |

**How they interact.** `TIM1_UP` (the control interrupt) and `TIM1_BRK` (a
hardware break) have the highest priority and never preempt each other. `TIM2`
(Hall), CAN receive and `TIM3` (wheel) have lower ones, and the foreground loop
is preempted by all. The foreground copies the control diagnostics with
interrupts masked (`snapshot`), decides (`RideController::update`), stores a grant
word by word (`authorize_ride_target`) or withdraws it (`revoke_ride_authority`),
and may acknowledge faults. The control interrupt reads the grant, accepts the
Hall edge that TIM2 has published, selects a commutation angle, limits the
commanded current by the ceilings the foreground derives from the environment,
drives or stops, and counts losses in `safety_events`. Both sides communicate
through atomics only. Every writer of the retained record may be cut off by a
reset. The calibration image has the same shape with routines in the place of the
ride: the foreground arms and requests, the control interrupt takes the request,
observes the routine once a cycle and drives what it asks for.

**The hard behaviours** are listed, each at its line, in `PROJECT.json`
(`hazards`): multi-word grants interrupted between stores, a decision that is
older than a loss, acknowledgements racing new faults, wrapping deadlines,
retries spread over many passes, counts that one physical fault may raise twice,
a reader that preempts its writer, flags that are pending together, estimates
that outlive what they were measured on, routines that fail half-way and are
started again, frames lost on a bus, and resets between two words of a record.

## 2. Plan

The order put motor authority first. Modules are parameterised by `CONSTANTS`
with a named assumption, have one action per operation, exit or store, and use no
`RECURSIVE` operator, so that they can be proved about. All of it is done:

1. `RideController` (the decisions) and `ControlLoop` (the mechanism that carries
   them out and reports back), with `MotorAuthority`, the abstract specification that
   `ControlLoop` is proved to implement.
2. `HallCapture`, `RetainedRecord`, `EnvironmentMonitor`, `Watchdog`.
3. `RideInputs`, `WheelCapture`, `WheelSpeed`, `CanTransport`.
4. `PhaseEstimation` and `CurrentCommand`: what a control cycle does.
5. `RoutineContract`, an abstract specification of a calibration routine;
   `CalibrationRoutines`, proved to implement it; `CalibrationDevice`, built on it.
6. `FlashTransfer`: the update with losses, interruptions and reruns.
7. Proofs about all of them.

What would come next: the composition of `RideController` with `MotorAuthority` (today
the ride and the control loop are tied by the promise `Consistent` / `TripIsCounted` only);
the calibration client of the host.

## 3. The modules and the code

Each module has a `...Properties` companion with its type invariant, the history
variables and the properties. The theorems are in `...Proofs` modules: one each for the
ride, the control loop, the environment and the routines, and four that hold
the proofs of small components that run side by side: `InterruptProofs` (the captures and
the distance), `ForegroundProofs` (inputs, command, transport), `ServiceProofs`
(calibration supervision, watchdogs, retained record) and `RecoveryProofs` (phase, update).
A definition that differs from the code on purpose, marked `mutated`, stands before
the one it changes; it shows which bug a property would catch.

### RideController

One step is one call of `RideController::update`. The actions are the ways out of
`update_authority`, `update_ready`, `update_active` and `arm_from_rest`, in the
code's order of early returns; every counter, latch and payload of the Rust struct
is a variable. Abstracted: a throttle sample is invalid, at rest or pressed; the
event and trip counters appear as what is new in this pass (0, 1, several);
targets as zero or not; Hall progress by its change. The millisecond clock wraps
at `ClockMod` and deadlines keep the code's wrapping arithmetic. `Inputs` are the
observations the environment may offer; `MCRideController` lists the ones whose
fields the code distinguishes. `Consistent` is the promise about trips that the
control interrupt makes; `TripIsCounted` is that promise, checked and proved for
`ControlLoop`. `RideProperties` adds history variables computed from the
observations in the README's terms, never from the controller's variables.

### ControlLoop, ControlProperties, ControlLiveness

One step is a whole control cycle (one action for each exit of `control_cycle`,
with the end of `timer_update_interrupt` as part of it), a whole break interrupt,
or one atomic access of the foreground (`pc` names the next one). The safety
counter appears as its distance from the foreground's last snapshot and as
whether the granted epoch still equals it, the cycle counter wraps at `CycleMod`.
The Hall capture is reduced to unaccepted edges. `acknowledge_faults` masks
interrupts between `AckClear` and its end. `words` says of each stored target, ceiling and deadline
how many grants ago it was stored, so that a mixture of two grants shows. `Reset` is terminal: everything in this
module is volatile, so the next boot is an initial state. A watchdog reset at the
snapshot stands for the IWDG, which the foreground feeds; that it comes at all is
`Watchdog`'s `StallsEnd`.

### MotorAuthority

The abstract specification of what foreground and control interrupt keep together: one
lease that the foreground sets and each control cycle uses up. A loss ends it in the
cycle that counts it, a fault stops the motor, and driving again takes a lease granted
after the loss was seen, or after the fault was cleared with no lease in force.
`ControlProperties` maps to it the channels, what the flag, the epoch and the age of the
deadline leave of the lease, whether the counter differs from the snapshot's, and
whether a fault is latched (`INSTANCE MotorAuthority WITH driving <- channels, ...`).
`KeepsAuthority` is the refinement: the stores of a grant, those of a revocation and the
critical section of an acknowledgement, cut into by two interrupts, look like single steps.

### HallCapture

The timer's count and flags, the TIM2 interrupt register access by register
access, and the control interrupt's use of the published edge. The control
interrupt holds TIM2 back while it runs; the rotor moves between any two steps of
either. A sector is the Hall state; a restart's two writes are two steps because
an edge may fall between them. Time advances only while no interrupt is pending:
one tick is longer than either interrupt, and the 65 ms period far longer still.

### PhaseEstimation

The part of a control cycle that decides on the commutation angle: accept the
captured edge (`HallSensor::update_edge` with its refusals, chatter, reversals and
the half sector after a start), seed or resynchronise, select between Hall and
observer (`PhaseManager::select_estimate`), recover a resting sensor, then drive or
stop. An angle is reduced to whether it exists; time counts control cycles up to
`Horizon`; whether a cycle's back-EMF corroborates the observer, whether its filter
has settled and whether two angles differ by a quarter turn is chosen by the
environment. Three ghosts remember what was driven blind (`blind`), where the rotor's
stay in the live state began, how long it has lasted and whether a capture has
repeated it (`stay`), and what share of its sector the stay that the pending edge
ended has crossed (`crossing`). They follow the rotor and the captures, never the
sensor's direction, start flag or interval.

### CurrentCommand

`FocDriver::step_current_control` up to the target of the current controllers, in
the code's integers: the target ramp, the ceilings the foreground publishes, field
weakening, the conservative circle and the battery projection with its floors and
ceilings. The circle's root brings its operands below `RootRange` (2^15 in the code) by
dropping bits: `Quantum` is the least power of two that does, the bound is rounded down
to it and |d| up. The PI controllers and the motor are the environment, which answers with
any voltages and speed. The 32-bit saturations are out of range of these magnitudes.

### EnvironmentMonitor

One step is one foreground pass: `InputMonitor::service` may take a new frame, every
pass counts an uncounted conversion towards the overvoltage cutoff, and every
`UpdatePeriod` evaluates the frame: the undervoltage count, then (`Publish`) new
limits, or (`Hold`, `Withdraw`) what a missing reading leaves of the old ones. `Limit`
is what the pass returns. Abstracted: a bus voltage is the band of the thresholds
it lies in, the temperatures are the share of the current they leave and whether
the motor's is readable, time stamps are the time since them.

### RideInputs

One step is one foreground pass at an irregular time: brake debounce, analog frame
(both DMA flags), cadence tracker with its debounce, pulse widths, qualification
and both time-outs. Between passes the crank moves and bounces, scans complete and
the DMA may stop. Ghosts remember how long the crank has stood still and how many
whole low phases it has made since.

### WheelCapture and WheelSpeed

`WheelCapture` is the TIM3 interrupt access by access: the timer counts on, edges and
overflows become pending in either order while it runs (`Late` bounds its latency by
half a period, which `qualified_interval` relies on). `WheelSpeed` is the other side:
`snapshot()` word by word against publications that fall between its loads, the
estimator's states and the distance with its remainder.

### CanTransport

The foreground's `service()` and `transmit()` step by step, with BASEPRI raised and
lowered where the code does, and the receive interrupt between any two unmasked
steps, answering through the same three mailboxes. Mailboxes leave in request
order. Frames are kinds; a project page carries its number.

### Watchdog

One step is one update interrupt (with or without a control cycle), one break, one
read or write of the foreground's poll, or a tick of the clock. The counters that
`poll` compares appear as whether they differ from its last values and whether
they have moved since it read them; a fault latch is empty or not, and what a
control cycle drives or latches is left open within what `ControlLoop` allows.
Every part may stop: nothing forces any step but the reset. `WatchdogProperties`
watches one part in each behaviour, chosen initially, and names in `HealthyAssumption`
what the periods leave to a healthy foreground.

### RetainedRecord

One step is one store of one field of the record. A PWM failure is its number and
each of its four words holds that number, so that a mixture is visible. Resets hit
between any two stores, set the sticky flags of `RCC_CSR` and keep SRAM; a power
loss may leave noise. Hard fault and NMI may interrupt writers that PRIMASK
protects from everything else. The copy in `capture_boot_diagnostics` is taken to
go up in address order, which is how the compiler's `memcpy` runs.

### RoutineContract, CalibrationRoutines

`RoutineContract` is the abstract specification: a routine has a phase (`High`, `Low`
at the foot of a ramp, `Off`, or ended), starts `Low` from values it needs, may leave
`High` only through `Low` unless the loop fails it, and is complete only with all its
values. `CalibrationRoutines` is the four routines state by state, one observation a
step: sampling, ramps, probing pulses that lengthen and are refused, positions and
levels, sweeps and the finalizations. Sums and formulas are reduced to their
verdicts. `KeepsContract` is the refinement `Contract!ContractSpec` under the mapping
of routine, state, failure and values (`INSTANCE RoutineContract WITH sequences <- ...`).

### CalibrationDevice

The supervision around the contract: the receive interrupt with its single mailbox,
the foreground pass step by step, the control cycle (unsampled, aborted, faulted or
sampled, and each possibly overrunning), and the hardware break. A routine does
whatever `RoutineContract` permits, so that the results hold for all four.

### FlashTransfer

The script's steps with its time-outs and retries on one side of the bus and, as an
external part, the bootloader that its frames and comments describe on the other.
Frames keep their order; they are lost, answered late, and the operator interrupts
and reruns, `Faults` times in all. `enter_bootloader` repeats the handshake every 100 ms
until an answer comes; the model lets it do so while fewer than `Backlog` frames are
unread, which stands for how far a device may fall behind without losing one.

### MCForeground, MCService, MCInterrupts, MCRecovery

These modules hold small instances of several components that share no state. A
variable `part` names the component that runs in a behaviour, the others stay in an
initial state; every property is that of the component, weakened by nothing but
`part`. One run then checks them all, with the state spaces added, not multiplied.

## 4. The runs

| Run | What it shows |
|---|---|
| `ride` | `RestBeforeTorque`, `RestartsAreBounded`, `RetryAfterQuiet`, `StallBounded` over every sequence of the listed observations |
| `control_faults` | overruns, rejected duties, breaks, lost samples and readbacks, and the updater's reset: `KeepsAuthority` (the refinement), `UnreadFaultStays` |
| `control_live` | overcurrent and Hall losses: `TripIsCounted`, `GrantOrRenewal`, `LeaseBoundsOutput`, `LeaseLossMeansStall`; output ends with its lease without the foreground and without the watchdog (`OutputNeedsRenewal`); a running foreground withdraws what a loss has made stale (`StaleGrantWithdrawn`) |
| `foreground` | environment: `LimitsFollowReadings`, `ExhaustedStaysContinuous`, `CutNeedsSamples`; inputs: `InputsAreCurrent`; current: `InsideDeratedCircle`, `WithinBattery`; CAN: `NothingIsLost`, `PagesInOrder` |
| `service` | watchdogs: `StallsEnd`, `HealthyRunsOn`; retained record: `ReportIsTrue`, `DetailHasItsReason`; calibration supervision: `StopWins`, `RunsAreEnded` |
| `interrupts` | Hall: `RunsInLiveSector`, `IntervalIsExact`; wheel: `WheelIntervalIsExact`, `QuietIsStill`, `SnapshotIsWhole`, `DistanceIsExact` |
| `recovery` | phase: `SpeedOfCrossing`, `BlindDriveEnds`, `PhaseReturns`; update: `InstallIsWhole`, `RerunRecovers` |
| `calibration_routines` | `KeepsContract` (the refinement), `CompleteIsWhole`, `RoutineEnds` |
| `flux_prerequisite` | a violation: the README's promise that flux needs a successful inductance run |
| `hall_rearm` | a violation: the README's promise that a Hall-only loss needs no rest sample |
| `hall_restart` | a violation: the comment that the restart at ride entry is fail-closed |
| `observer_start` | a violation: the README's promise that every start commutates on Hall alone |

**Bounds and why they suffice.** The disturbances of `ControlLoop` are split over two
runs because their product is too large for one; each run holds the disturbances
that its properties are about, and the proofs hold for all of them together.
`CycleMod = 9`, `Lease = 2` and `MaxStall = 2` (13, 2 and 3 in `hall_rearm`) keep the ratios
of the real values (2^32, 160 cycles, about 1600 cycles) that `ControlAssumption`
names; the counter wraps in every longer behaviour. The ride's clock wraps after
8 ms while its time-outs are 1 to 3 passes, both wait for one pass and span
several; two retries and two faults are the fewest that distinguish "one" from
"the limit". `MaxFailures = 3` lets a cleared, a kept and a replaced failure coexist.
`Sectors = 4` is the smallest ring in which neighbours, opposite sectors and both edge
polarities differ; with `OverflowTicks = 2` and `MaxTicks = 3` the counter wraps between
two edges; the violation needs no more than one tick. The watchdogs' instance is
the tightest in which a healthy controller survives:
`IndependentPeriod = FeedPeriod + 2 * PassGap` (one refused poll is made good in the next
pass; the real periods are 100 ms and 10 ms, which leaves 45 ms between passes) and
a window of one tick more than its updates take. In the environment's instance a
conversion is due every 2 and an evaluation every 3 time units while passes are 1 or
2 apart, so that an evaluation sees an old, a new or a repeated frame and is late or
in time; currents of 0, 2 and 4 lie below, at and above the continuous limit of 2,
and a budget of 3 needs more than one evaluation in either direction. The inputs'
instance has a debounce of 2, time-outs of 3 and 4 and passes up to 2 apart: a level
can bounce within a debounce and a time-out fall between two passes. The wheel's
timer has a period of 4, so that an edge can fall before, at and after an overflow
within half a period, and goes quiet after 2 overflows with 4 epochs, which wrap; its
reader sees 4 counts, 2 overruns, 2 distance values and 3 millimetres to a unit of 2
millimetres to a pulse, so that remainders and all three counters wrap out of step.
The transport has the 8 slots in which every kind of frame occurs, 2 pages and a
clock that wraps after 4 slots. The phase's ring has 4 sectors of width 2, and
thresholds in the code's order. The update sends 4 segments (each
toggle twice) with 3 faults over 3 runs, and may have two frames unread when it repeats
the handshake, so that answers of one run reach the next. The supervision is asked for
a routine that runs and for one that is refused for its missing values (the theorems hold
for every set of routines), with an arm window of one pass. The routines have 2 positions, 3 levels (level
one publishes, a further one may fail), 2 pulses, 2 sweeps and 2 Hall states.
The command's fixed point has 4 units to the count, limits of 4 counts and ceilings
that include zero. Its root takes operands below 8, so that, as in the code, every ceiling
is brought into range by dropping bits: ceilings of 2 and 4 counts have quanta of 2 and 4
units, and the weakening current moves in steps of 8 and 3 units, which are no multiples of
these; rounding |d| down instead leaves the circle in this instance.

The type invariants (`TypeOK` in each properties module) are part of the proofs of
the ride, the control loop and the environment; they are not repeated in the runs.

**Deadlock** is checked in every run but `recovery` and `observer_start`, which
share the update: the script really ends. After the updater's or the watchdog's
reset `ControlLoop` takes a stuttering step of its own (`HasReset`).

**Fairness.** Safety runs assume none. `InterruptFairSpec` assumes weak fairness of
the control cycle (TIM1 runs freely and its interrupt has the highest priority)
and of the break interrupt. The foreground is not assumed to run;
`StaleGrantWithdrawn` takes weak fairness of its pass as a premise of the
property. No property relies on the watchdog. `PhaseEstimation` assumes weak fairness
of the control cycle for the same reason; `PhaseReturns` is about behaviours in which
the rotor stays readable and still. `CalibrationRoutines` assumes that an active routine
is observed again (the control interrupt does so every cycle), not what the
motor answers. `FlashTransfer` assumes that the device and the script go on and
that the operator reruns a failed update; `RerunRecovers` asks for the rerun's success only
when no fault is left to disturb it.

## 5. Disagreements found between documents and code

1. `hall_rearm`: `oxifoc-f103/README.md:207` says a safety loss caused only by the
   Hall re-arms without a rest sample. An invalid captured state stays unaccepted,
   every 16 kHz cycle counts it as a further loss, and the ride controller treats
   several new events as a loss of unknown cause, which needs rest.
2. `hall_restart`: the comment at `f103/hardware/peripherals.rs:425` says that clearing
   a capture that raced with ride entry is fail-closed. When the restart preempts
   TIM2 between its stores of the state and the sequence and the rotor has moved
   back before the first check, both checks pass and the stale state is accepted
   afterwards. `RunsInLiveSector` shows that this preemption is the only way.
   The window is a few instructions at ride entry and the next edge corrects it.
3. `flux_prerequisite`: `oxifoc-f103-calibration/README.md:29` says resistance and
   inductance must succeed before flux. The inductance routine publishes Ld and Lq
   with level one of its first two positions (`cal/calibration/inductance.rs:455`),
   keeps them when it fails later, and `request_flux_linkage` asks for the values only.
4. `observer_start`: `oxifoc-f103/README.md:253` says every start commutates on Hall
   alone. The observer keeps its ready latch and its frozen angle over a stop; when
   the Hall estimate has gone stale, the manager falls back to it
   (`core/foc/phase/manager.rs:201`), the recovery at rest is not reached, and the next
   start uses the old angle.

Noted without a run:

- `oxifoc-f103/README.md:274` says the overvoltage cutoff clears only after the bus has
  stayed at or below 57 V for at least as many conversions as tripped it.
  `update_overvoltage` counts down once per low conversion; a reading between the
  thresholds does not restart the count and one above the limit adds back a single
  conversion, so the low conversions need not be consecutive. `CutNeedsSamples` is
  what does hold.
- An edge between the restart's writes of the count and of the flags
  (`f103/hardware/peripherals.rs:429-432`) is cleared unseen; the second live check
  refuses that start, and every later one until the next edge.
- The comment at `f103/safety/runtime.rs:228` ("cannot mix two fatal handlers") does not
  hold for the NMI, which PRIMASK does not mask; the reason reported is then the last
  handler's, the program counter may be the first's.
- A repeated Hall capture of the same state restarts the hardware interval, and
  `update_edge` returns early with the sensor unchanged (`hall_sensor.rs:223-225`). The next edge
  in the same direction then stores the time since the repetition as the time of the whole
  sector: a speed that is too high, unless the interval is below the minimum and refused
  (`hall_sensor.rs:277-283`). `SpeedOfCrossing` excepts this case by name, and is violated
  without the exception: what holds then is that the sector was crossed and that the interval
  is at most the time it took.
- A control cycle between the stores of a renewal (`f103/control/foc.rs:221-239`) drives with the
  new target and the ceilings stored so far, and the rest of the grant before, under that
  grant's lease. `GrantOrRenewal` is what holds: nothing older than the grant that is renewed,
  no zeroed word, and the new lease only with all words new.
- A second wheel edge across an overflow within the interrupt's latency gives a wrong
  interval until the overcapture is counted, and an edge between the read of CCR1 and
  the clearing of the flag is lost.
- A cadence level held for 49.7 days wraps its age.
- PWM failure pages 24 and 25 are sent one after the other and may show two failures;
  the stock fault page advances with slot 1 even if its frame was refused.
- In the calibration image page-15 cells of an earlier run of the same boot stay until
  the next run is observed; a second request is taken while the first is pending if no
  control cycle samples; a request accepted before the interlock opens may start and
  run until the next pass aborts it (`RunsAreEnded` is the bound).
- `begin_download`'s time-out leaves the device's session open without a cancel, which the
  next run's cancel clears; a stale handshake answer of an earlier run whose cancel was
  lost may fail a rerun, not corrupt it.

## 6. What is proved

The theorems are checked by TLAPS without any assumption but the named ones about the
constants, each next to the constants it is about. Where `config.rs` checks its values
in `const` assertions, an operator states these (`LegalRideConfig`,
`LegalCadenceConfig`, `LegalCommandConfig`, `LegalBatteryDebounce`,
`LegalBatteryCurrents`), and TLC evaluates every assumption for the instances it runs.

- `RideAssumption`: time-outs and quiet interval are positive and shorter than the clock's
  period, twice the startup time-out and one pass fits it as well (a Hall deadline may be
  looked at that late), `LegalRideConfig`, inputs are consistent observations.
- `ControlAssumption`: `2 * Lease < CycleMod`, `4 * MaxStall < CycleMod`.
- `EnvironmentAssumption`, `InputsAssumption`, `CommandAssumption`: positive periods,
  debounces and scales, the assertions of `config.rs`, and a quantum that brings the
  greatest ceiling into the range of the root.
- `RoutineAssumption` (at least two ramp cycles, two positions and two levels, pulses that
  fit), `DeviceAssumption`, `PhaseAssumption` (thresholds in the code's order).
- `CaptureAssumption` (an even ring of at least four sectors), `WheelAssumption` (more epochs
  than the quiet time has overflows), `SpeedAssumption`, `TransportAssumption` (the eight
  slots in which every frame occurs; the clock wraps after four slots or more).
- `WatchdogAssumption` and `HealthyAssumption`: positive periods;
  `IndependentPeriod >= FeedPeriod + 2 * PassGap` and `WindowPeriod > UpdatesPerFeed`.
  TLC refutes `HealthyRunsOn` when either is relaxed by one.
- `RetainedAssumption`: any number of failures.
- `FlashAssumption`: at least one segment, attempt, run and handshake, any number of faults.

*Ride.* `IInv == TypeOK /\ Bookkeeping /\ History`. `Bookkeeping` ties the counters to
the mode: an energized command belongs to Active; outside Disarmed no fault is
counted or latched and `consecutiveFaults < FaultLimit`; a fault count that
has reached its limit belongs to a fault of the present arming; a pending retry is
still within `RetryLimit`. `History` ties the observations to them: outside Disarmed a
rest sample has been seen (`rested`); `retryRuns <= hallRetries`; a run that owes a retry
is Disarmed, in HallRecovery or has its retry pending; `faultedRuns <= consecutiveFaults`,
and `consecutiveFaults` exceeds the armings by at most the fault counted now. None of
the invariants is inductive without them: from an arbitrary Ready state that has
seen no rest sample the next pass would energize. `UpdateOutcome` reduces the
many exits of `update` to the few outcomes that matter, so that the induction has
one case for each outcome. Proved: `TypeOK`, `RestBeforeTorque`, `RestartsAreBounded`
(and its two halves), `OneFaultPerArming`, `LockoutIsPermanent`. `Timing` ties the clock to
the histories' ages: `WrapAdd(deadline, age) = WrapAdd(now, timeout)` for each running
deadline, with a bound on the age, so that the wrapping comparison tells whether the
time-out has really passed. A Hall deadline is not looked at while a startup rolls
back; the bound there is the startup's own. From it: `StallBounded`, `RetryAfterQuiet`.

*Control.* `IInv` adds to the types: `Epochs` (an epoch that still equals the counter
means the granting pass has seen every loss: the grant's decision, its later
stores and the events since the snapshot), `Grant` (under a current epoch an
enabled flag has the latest grant's words behind it, or a renewal's in the order of its
stores, and each store of a grant finds the words stored before it, because a loss that
zeroes words makes the epoch stale first),
`Latch` (faults against channels, the acknowledged mask and the critical section) and
`Leases` (the history's age of a grant equals the wrapped distance of the deadline,
which is what makes the modular comparison meaningful; here `4 * MaxStall < CycleMod` is
used). `ControlCycleOutcome` reduces the exits of the cycle to driving or stopping with a
loss. Proved: the types, every safety property of `control_faults` and `control_live`, and
three that the runs do not repeat (`UnseenLossStopsOutput`, `LatchedFaultStopsOutput`,
`UpdaterResetsReleased`). `LoopKeepsAuthority` is the refinement of `MotorAuthority`: a
control cycle is one of its `Drive`, `Idle` or `Lose` (`AuthorityInCycle`; that what is left
of the lease is what the modular comparison finds is `Leases` again), and of the
foreground's steps only a few are visible (`AuthorityInPass`): a grant appears with the
last of its six stores or, when it renews one in force, with the deadline, and `Epochs` is
what keeps the store of the epoch from reviving a grant that a loss has ended.

*Environment.* `IInv` adds five parts to the types. `Overvoltage` and `Undervoltage`: no
run of conversions is longer than its count unless the cutoff is active, and the
count (or, when active, what the count has come down by) is at most the number
of conversions that spoke for a change. `Holding`: limits are held over `missing <
MissingEvaluations` evaluations, and their age lies between `missing` shortest and
`missing` longest periods plus the time since the last. `Budget`: an exhausted budget
is recovering, what it holds is what has been paid back, and while it recovers the
latest limit is at most the continuous one. `Granted` ties the returned limit to
the latest. Proved: the types and every property of the environment in `foreground`,
and `ShortGapsKeepLimits`.

*Calibration routines.* `RoutinesKeepContract` is the refinement. The invariant says how
the phase that the contract sees follows from state and cycle (`PhaseIsKnown`), and that
an inductance run past its first level knows the value of its position
(`InductanceKnown`): without it a run could be complete without Ld or Lq. Three lemmas
(`Moves`, `FailsItself`, `Completes`) reduce an observation to one of the contract's
outcomes, then there is one lemma for each routine. `WholeInv` says what each state of
each routine has measured in this run so far; a routine that ends complete has it all
(`CompleteIsWhole`).

*Calibration supervision.* `StopInv` follows a STOP from the mailbox through the steps of
the foreground to the next control cycle: behind `Cancel` nothing is requested, behind
`StopAbort` what runs has an abort pending (`Withdrawn`). `EndInv` says what
carries the promise of an open interlock (the abort) and of a fault that hits a run
(the latch or, when a STOP acknowledges it first, that STOP's abort). The
control cycle is split into those that stop and those that take a request.

*Phase.* `BlindInv`: an observer that is ready has been granted by Hall or a
back-EMF, and what has been driven blind since is at most its count of invalid
cycles, which a reseed sets back only while Hall is there. `SpeedInv` ties what the sensor
remembers to what the rotor did: a valid sensor with no edge pending is in the rotor's
sector, and its direction names the side on which the stay there began, its start flag
the center (`Side`); an edge that is pending has left that sector, on the other side if it
goes on in that direction (`Left`, by `Opposite` on the ring of the sectors); and the
timer has counted the stay (`StayTimed`, `CrossingTimed`). So an edge that keeps its
interval has ended a crossing that took as long.

*Update.* A segment carries a toggle and no number, so the toggle must never have the
chance to fit a wrong one: `SegmentFits` says that at most one segment is unread, at
the head, and that it is the next of the open session. It holds because, when
the script sends a segment, no request of an earlier run is left unread or unanswered. `Ordered` says what may stand behind a handshake in the queue (only frames
that open a run, and no erasure between two handshakes); `LeadInv`, that once the script
has an answered handshake, of whichever run, only such frames are unread and no handshake
behind an erasure; `ReplyInv`, which answers may follow the handshake's, and that an
acknowledged erasure leaves nothing unread that could fill the staging region again.
`BeginInv`, `DownInv` and `LateInv` say the same of the later steps (a segment is unread,
missed or stored, never two of these), and `StageInv` that a session holds a prefix of
the image and a set marker the whole of it. All of this
(`FlashInv`) is kept by every step but one: a handshake that is sent while the erasure
of an earlier run is still unread behind the handshake that led to it. So
`OnlyWholeImages` is proved for every length of the queue from the hypothesis that no
handshake is sent then. The script does not check this; its timing provides it, as
`settle()` waits 250 ms in which a device that reads at all reads what a run has left.
`FewOutstanding` needs no such hypothesis: with at most three frames unread (`Backlog <= 3`,
the depth of the receive FIFO of this controller family) the case does not arise, for every
image, number of reruns and number of disturbances. The bound is sufficient, not the
least: TLC finds no violation with a backlog of eight, and one with ten in five runs,
where a device that stays silent in every `settle()` and answers afterwards lets each
interrupted run get one request further ahead, until three segments are unread at once, two
of them are lost and the third fits the toggle of the first.

*Captures.* `HallInv` follows an edge through the interrupt: which flags are up, which the
interrupt has read and which it will still find (`FindsFlags`); that overflows and count
make up the time since the latest edge (`CounterIsExact`); that the interval in the
interrupt's hands is the time between two edges (`CaptureIsExact`); and that the sector
in use is the rotor's or an edge is on its way (`KnowsSector`), which is what a restart
between two stores of the interrupt breaks. `CaptureInv` does the same for the wheel:
an edge's stamp is its time (`StampIsTrue`) because an edge that overtakes an overflow is
younger than half a period. `ReadInv`: what an undisturbed read has loaded so far is what
is published. `DistanceInv`: what has been counted, what is left over and what is published
and not yet counted make up the way, whole rounds of the counter aside.

*Inputs.* `Level`: a level the debounce has not settled yet is at most
`(Debounce - 1) * MaxGap` old. `Earning`: what the tracker has counted are whole low phases
since the crank stood still; `Reported` and `Scanned` tie the demand and the frame to them.

*Command.* The clamp's root is the greatest number whose square fits, and the quantum the
least that brings the operands into its range (both found by a least-number argument from the
library's well-founded induction, as the library's own root is left out). The rounded bound
and |d| and the root add up inside the scaled circle, so that they and what the two axes
take lie inside the real one (`CircularRemainingIs`); the battery's
projection is bounded with its rounding, from lemmas about `\div` over products.

*Transport.* A mailbox with `TXRQ` set holds what is owed (`Mail`); the one that `transmit`
has chosen stays empty until it is filled, because the receive interrupt is held off
(`Access`); the slot, the page and the next due time move together (`Slot`, `Pages`,
`Schedule`), and a taken reset request is decided upon (`Updater`).

*Watchdogs.* A refresh of the independent watchdog needs progress since the refresh
before it, so a silence reaches over at most two refreshes and the period the last one
leaves: `CycleBound`, `SampleBound` and `PassBound` bound it by the time used of the
present period and one period for each refresh that what is known of the part's progress
(the pending difference, what the poll has read, what has moved since) still allows. For a
healthy controller, `ProgressMade`: within one tick of a refresh the next one has its
progress, and keeps it; so a poll is refused at most once after each refresh
(`Succeeding` says which polls under way will not be), and `FeedsInTime` bounds the period
used by the time since the feed that is due. `WindowServed` counts the updates of a tick.

*Retained record.* A boot believes the record only behind a watchdog reset, and a
watchdog bites only between a completed capture and the next reset. In that time
(`Trusted`) the record is signed, free of noise, its header is the first failure of the boot
and, unless the slot is empty, the other words agree with it (`Kept`), because the
header is the last word a failure writes and the first an acknowledgement clears
(`Recording`). `Fresh` says what a capture has overwritten so far; `Reported` and `Newest`
tie the report and the latest failure to the histories, `Reasons` the detail of an
exception to its reason. One lemma for each writer's step and each reset; a store is one
of nineteen (`StoreCases`).

**Only model-checked.** Liveness, which is out of the prover's reach
(`OutputNeedsRenewal`, `StaleGrantWithdrawn`, `PhaseReturns`, `RerunRecovers`,
`RoutineEnds`), and the four violations.

## 7. What is not modelled, and why

- PI controllers, transforms, modulator, observer filter and offset tracker:
  fixed-point signal processing over 32-bit values that no property here speaks
  about. The models keep the exits and verdicts these computations select.
- The Hall edge's age (`hall_edge_age_us`) enters only a real-valued angle; the ADC
  conversions, the throttle's map and the speed of a wheel interval are pure functions of
  one reading.
- Register set-up, pin configuration, CAN frame layouts, telemetry contents, the
  derating reasons.
- The checkpoint, cycle and timing words of the retained record: single stores
  that nothing is compared with.
- The least-squares and averages of the calibration routines, reduced to their verdicts;
  its `InductanceRange` failure, which the code cannot reach, is left out. The `Carried`
  interval of the Hall sensor is kept although its flag is only ever set at rest.
- `can_f103_calibration.py`: it sends commands and prints; its commands are inputs of
  `CalibrationDevice`.
