------------------------- MODULE CalibrationRoutines -------------------------
(***************************************************************************)
(* The resistance, inductance, flux-linkage and Hall routines of           *)
(* oxifoc-f103-calibration/src/calibration, one control cycle a step.      *)
(*                                                                         *)
(* Only the routine last started is ever observed, and a start clears its  *)
(* whole state, so that one set of working variables serves all four.      *)
(* Currents are counted in steps of their ramp.  Sums, averages and the    *)
(* fixed-point formulas are left out: whether an average is settled or in  *)
(* range is chosen, and so is what the motor answers to a pulse.           *)
(***************************************************************************)
EXTENDS Integers, FiniteSets

CONSTANTS
    RampCycles, SettleCycles, SampleCycles, PauseCycles, DischargeCycles,
    ScanCycles,             \* PIPELINE_SCAN_CYCLES
    Positions, Levels,      \* LOCK_POSITION_COUNT, PULSE_LEVEL_COUNT
    Pulses,                 \* INDUCTANCE_PULSES_PER_AXIS
    Tick, Ceilings,         \* one PWM tick, and what a position leaves of the limit
    Sweeps, Degrees,        \* SWEEP_COUNT, DEGREES_PER_SWEEP
    LastRaw, MinSamples     \* the Hall states are 1..LastRaw, 0 and LastRaw + 1 invalid

\* The valid range of the resistance keeps the holding voltage far below the
\* vector limit, so that a pulse of the target's size always fits.
ASSUME RoutineAssumption ==
    /\ RampCycles \in Nat /\ RampCycles >= 2
    /\ {SettleCycles, SampleCycles, PauseCycles, DischargeCycles, ScanCycles} \subseteq Nat \ {0}
    /\ Positions \in Nat /\ Positions >= 2 /\ Levels \in Nat /\ Levels >= 2
    /\ Pulses \in Nat \ {0} /\ Tick \in Nat /\ Tick >= 2 /\ Ceilings \subseteq Nat
    /\ \A c \in Ceilings : c * 2 >= Tick * 3
    /\ {Sweeps, Degrees, LastRaw, MinSamples} \subseteq Nat \ {0}

VARIABLES
    routine, state, failure, known,     \* as Sequences shows them
    pending,        \* pending_failure
    cycle,          \* cycle_in_state
    low, high,      \* samples of the two resistance accumulators
    position, level, probing, step, base, ceiling,
    scan,           \* scan_remaining
    best,           \* best_di_counts: "None" (below two), "Weak", "Strong" (on target)
    attempts, valid,
    grid,           \* the cells of pulse_diagnostics that are not zero
    samples,        \* sample_count of the flux measurement
    sweep, degree, counts, raw

published == <<routine, failure, known, grid>>
pulse == <<scan, best, attempts, valid>>
lock == <<position, level, probing, step, base, ceiling>>
hall == <<sweep, degree, counts, raw>>
vars == <<published, state, pending, cycle, low, high, lock, pulse, samples, hall>>

\* Reported by State and target_counts(): a routine rests while it pauses
\* between positions or calculates, and a failure it diagnosed waits for the ramp.
Resting == {"AxisPause", "FinalizeLow", "FinalizeHigh", "FinalizeSlope", "FinalizeD",
            "FinalizeQ", "FinalizeMagnitude", "FinalizeFlux", "Finalize"}
Ended == {"Idle", "Complete", "Failed"}
States == Ended \cup Resting \cup
    {"RampLow", "SettleLow", "SampleLow", "RampHigh", "SettleHigh", "SampleHigh", "RampDown",
     "RampHold", "SettleHold", "SampleHold", "Discharge", "PulseCommand", "PulseScan",
     "Capture", "SpeedRamp", "Settle", "Sample", "RampUp", "Sweep"}

\* The drive in steps of its ramp.
Target ==
    CASE state = "RampLow" -> cycle + 1
      [] state \in {"RampHold", "Capture", "RampUp"} -> cycle
      [] state = "RampDown" /\ routine = "Resistance" -> 2 * (RampCycles - (cycle + 1))
      [] state = "RampDown" /\ routine # "Resistance" -> RampCycles - cycle
      [] OTHER -> RampCycles

Phase == IF state \in Ended THEN state ELSE IF state \in Resting THEN "Off"
         ELSE IF Target <= 1 THEN "Low" ELSE "High"

OwnFailures == {"CurrentDidNotSettle", "InvalidSlope", "PulseResponse",
                "MotorNotResponding", "FluxRange", "HallStates"}
LoopFailures == {"Stopped", "LocalInterlock", "CurrentSample", "PhaseOvercurrent",
                 "HardwareFault", "BusVoltage", "PwmOutput", "ControlTiming"}
Cause == IF failure \in OwnFailures THEN "Own" ELSE IF failure \in LoopFailures THEN "Loop"
         ELSE failure

Contract == INSTANCE RoutineContract WITH sequences <-
    [routine |-> routine, phase |-> Phase, failure |-> Cause, known |-> known]

Larger(a, b) == IF a >= b THEN a ELSE b
Smaller(a, b) == IF a <= b THEN a ELSE b
Raws == 0..(LastRaw + 1)
NoCounts == [d \in {0, 1} |-> [h \in Raws |-> 0]]

\* pulse_step_for_level().
PulseStep(b, l) ==
    IF l = 0 THEN Larger(b \div 2, Tick) ELSE IF l = 1 THEN b ELSE (b * 3) \div 2

Init ==
    /\ routine = "None" /\ state = "Idle" /\ failure = "None" /\ known = {} /\ grid = {}
    /\ pending = "None" /\ cycle = 0 /\ low = 0 /\ high = 0 /\ samples = 0
    /\ position = 0 /\ level = 0 /\ probing = TRUE /\ step = 0 /\ base = 0 /\ ceiling = 0
    /\ scan = 0 /\ best = "None" /\ attempts = 0 /\ valid = 0
    /\ sweep = 0 /\ degree = 0 /\ counts = NoCounts /\ raw = 0

First == [Resistance |-> "RampLow", Inductance |-> "RampHold",
          FluxLinkage |-> "Capture", Hall |-> "RampUp"]

\* Sequences::start() and the routine's own start(); request_*() refuses one
\* while a routine is active.
Start(r) ==
    LET left == known \ Contract!Gives[r]
        ready == Contract!Needs[r] \subseteq left
    IN  /\ state \in Ended
        /\ routine' = r /\ known' = left
        /\ state' = IF ready THEN First[r] ELSE "Failed"
        /\ failure' = IF ready THEN "None" ELSE "MissingPrerequisite"
        /\ grid' = IF r = "Inductance" THEN {} ELSE grid
        /\ pending' = "None" /\ cycle' = 0 /\ low' = 0 /\ high' = 0 /\ samples' = 0
        /\ position' = 0 /\ level' = 0 /\ probing' = TRUE /\ step' = 0 /\ base' = 0 /\ ceiling' = 0
        /\ scan' = 0 /\ best' = "None" /\ attempts' = 0 /\ valid' = 0
        /\ sweep' = 0 /\ degree' = 0 /\ counts' = NoCounts /\ raw' = 0

\* Sequences::fail_active().
Fail(f) ==
    /\ state \notin Ended
    /\ state' = "Failed" /\ failure' = f /\ pending' = "None" /\ cycle' = 0
    /\ UNCHANGED <<routine, known, grid, low, high, lock, pulse, samples, hall>>

\* advance_after().
AdvanceAfter(cycles, next) ==
    IF cycle + 1 >= cycles THEN state' = next /\ cycle' = 0
    ELSE cycle' = cycle + 1 /\ UNCHANGED state

RampedDownAtOnce == TRUE        \* mutated: the drive is cut instead of ramped
RampedDown == cycle + 1 >= RampCycles

Enter(s) == state' = s /\ cycle' = 0

Fails(f) == state' = "Failed" /\ failure' = f

-----------------------------------------------------------------------------
(* ResistanceCalibration::tick().                                          *)

Settling ==         \* the states of fixed length that record nothing
    \/ state = "RampLow" /\ AdvanceAfter(RampCycles, "SettleLow")
    \/ state = "SettleLow" /\ AdvanceAfter(SettleCycles, "SampleLow")
    \/ state = "RampHigh" /\ AdvanceAfter(RampCycles, "SettleHigh")
    \/ state = "SettleHigh" /\ AdvanceAfter(SettleCycles, "SampleHigh")
    \/ state = "RampDown" /\ AdvanceAfter(RampCycles, "FinalizeLow")
    \/ state = "FinalizeLow" /\ state' = "FinalizeHigh" /\ UNCHANGED cycle
    \/ state = "FinalizeHigh" /\ state' = "FinalizeSlope" /\ UNCHANGED cycle

Resistance ==
    /\ routine = "Resistance"
    /\ \/ Settling /\ UNCHANGED <<failure, known, low, high>>
       \/ /\ state = "SampleLow" /\ low' = low + 1
          /\ AdvanceAfter(SampleCycles, "RampHigh") /\ UNCHANGED <<failure, known, high>>
       \/ /\ state = "SampleHigh" /\ high' = high + 1
          /\ AdvanceAfter(SampleCycles, "RampDown") /\ UNCHANGED <<failure, known, low>>
       \/ /\ state = "FinalizeSlope" /\ UNCHANGED <<cycle, low, high>>
          /\ \/ state' = "Complete" /\ known' = known \cup {"R"} /\ UNCHANGED failure
             \/ \E f \in {"CurrentDidNotSettle", "InvalidSlope"} : Fails(f) /\ UNCHANGED known
    /\ UNCHANGED <<routine, grid, pending, lock, pulse, samples, hall>>

-----------------------------------------------------------------------------
(* InductanceCalibration::observe().                                       *)

ResetPulses == attempts' = 0 /\ valid' = 0

\* The largest level does not fit what the holding voltage leaves.
Exceeds(left) == PulseStep(base, Levels - 1) > left

Hold ==
    \/ state = "RampHold" /\ AdvanceAfter(RampCycles, "SettleHold") /\ UNCHANGED <<pending, step, ceiling>>
    \/ state = "SettleHold" /\ AdvanceAfter(SettleCycles, "SampleHold") /\ UNCHANGED <<pending, step, ceiling>>
    \/ /\ state = "SampleHold" /\ cycle + 1 < SampleCycles /\ cycle' = cycle + 1
       /\ UNCHANGED <<state, pending, step, ceiling>>
    \/ /\ state = "SampleHold" /\ cycle + 1 >= SampleCycles
       /\ \/ Enter("RampDown") /\ pending' = "CurrentDidNotSettle" /\ UNCHANGED <<step, ceiling>>
          \/ /\ ceiling' \in Ceilings
             /\ IF probing THEN step' = Tick ELSE UNCHANGED step
             /\ IF ~probing /\ Exceeds(ceiling')
                THEN Enter("RampDown") /\ pending' = "PulseResponse"
                ELSE Enter("Discharge") /\ UNCHANGED pending

Discharge ==
    /\ state = "Discharge"
    /\ \/ Enter("PulseCommand")                         \* settled
       \/ AdvanceAfter(DischargeCycles, "PulseCommand")

BeginScan ==
    /\ state = "PulseCommand" /\ state' = "PulseScan"
    /\ scan' = ScanCycles /\ best' = "None" /\ UNCHANGED cycle

Response == {"None", "Weak", "Strong"}
Stronger(a, b) == IF "Strong" \in {a, b} THEN "Strong" ELSE IF a = "None" THEN b ELSE a

Scan ==
    /\ state = "PulseScan" /\ scan > 1
    /\ scan' = scan - 1 /\ \E di \in Response : best' = Stronger(best, di)
    /\ UNCHANGED <<state, cycle>>

\* scale_pulse_to_target(): what exceeds the target shortens the pulse.
Scaled == Tick..Smaller(Larger(step, Tick), (ceiling * 2) \div 3)

SameLength == Smaller(step, ceiling)    \* mutated: the probe is not stretched
Longer == Smaller((step * 3) \div 2, ceiling)

\* The last cycle of a scan before the base pulse is known.
FinishProbe ==
    /\ state = "PulseScan" /\ scan = 1 /\ probing /\ scan' = 0
    /\ \E di \in Response :
        /\ best' = Stronger(best, di)
        /\ CASE best' = "Strong" ->
                    base' \in Scaled /\ probing' = FALSE /\ step' = PulseStep(base', level)
             [] best' # "Strong" /\ step >= ceiling ->
                    /\ base' = (ceiling * 2) \div 3 /\ probing' = FALSE
                    /\ step' = PulseStep(base', level)
             [] OTHER -> step' = Longer /\ UNCHANGED <<base, probing>>
    /\ Enter("Discharge")

\* finish_pulse_level(): the values appear with level one of the first two
\* positions, long before the run completes.
FinishLevel ==
    /\ grid' = grid \cup {position * Levels + level}
    /\ known' = known \cup IF level # 1 THEN {} ELSE IF position = 0 THEN {"Ld"}
                           ELSE IF position = 1 THEN {"Lq"} ELSE {}
    /\ IF level + 1 < Levels
       THEN Enter("Discharge") /\ level' = level + 1 /\ step' = PulseStep(base, level + 1) /\ ResetPulses
       ELSE Enter("RampDown") /\ UNCHANGED <<level, step, attempts>>
    /\ UNCHANGED pending

\* The last cycle of a scan that counts; a weak answer may still be refused.
FinishPulse ==
    /\ state = "PulseScan" /\ scan = 1 /\ ~probing /\ scan' = 0
    /\ \E di \in Response, taken \in BOOLEAN :
        LET now == valid + (IF taken THEN 1 ELSE 0)
        IN  /\ best' = Stronger(best, di) /\ (taken => best' # "None")
            /\ IF now >= Pulses
               THEN FinishLevel /\ (level + 1 >= Levels => valid' = now)
               ELSE /\ valid' = now /\ attempts' = attempts + 1
                    /\ IF attempts + 1 >= Pulses * 2
                       THEN Enter("RampDown") /\ pending' = "PulseResponse"
                       ELSE Enter("Discharge") /\ UNCHANGED pending
                    /\ UNCHANGED <<grid, known, level, step>>

\* observe_ramp_down(); every average of pulses in range is in range.
EndPosition ==
    /\ state = "RampDown"
    /\ IF ~RampedDown THEN cycle' = cycle + 1 /\ UNCHANGED <<state, failure, pending>>
       ELSE /\ cycle' = 0
            /\ IF pending # "None" THEN Fails(pending) /\ pending' = "None"
               ELSE /\ state' = IF position + 1 < Positions THEN "AxisPause" ELSE "Complete"
                    /\ UNCHANGED <<failure, pending>>

\* reset_position().
KeptLevel == level              \* mutated: the level survives the position
FirstLevel == 0

NextPosition ==
    /\ state = "AxisPause"
    /\ IF cycle + 1 < PauseCycles
       THEN cycle' = cycle + 1 /\ UNCHANGED <<state, lock, attempts, valid>>
       ELSE /\ Enter("RampHold") /\ position' = position + 1 /\ level' = FirstLevel
            /\ ceiling' = 0 /\ step' = PulseStep(base, level') /\ ResetPulses
            /\ UNCHANGED <<probing, base>>

Inductance ==
    /\ routine = "Inductance"
    /\ \/ Hold /\ UNCHANGED <<failure, known, grid, position, level, probing, base, pulse>>
       \/ Discharge /\ UNCHANGED <<failure, known, grid, pending, lock, pulse>>
       \/ (BeginScan \/ Scan) /\ UNCHANGED <<failure, known, grid, pending, lock, attempts, valid>>
       \/ FinishProbe /\ UNCHANGED <<failure, known, grid, pending, position, level, ceiling, attempts, valid>>
       \/ FinishPulse /\ UNCHANGED <<failure, position, probing, base, ceiling>>
       \/ EndPosition /\ UNCHANGED <<known, grid, lock, pulse>>
       \/ NextPosition /\ UNCHANGED <<failure, known, grid, pending, scan, best>>
    /\ UNCHANGED <<routine, low, high, samples, hall>>

-----------------------------------------------------------------------------
(* FluxLinkageCalibration::observe().                                      *)

\* observe_speed_ramp() notices a motor that does not follow in its second half.
SpeedRamp ==
    /\ state = "SpeedRamp" /\ UNCHANGED <<failure, known, samples>>
    /\ \/ AdvanceAfter(RampCycles, "Settle") /\ UNCHANGED pending
       \/ /\ cycle + 1 > RampCycles \div 2
          /\ pending' = "MotorNotResponding" /\ Enter("RampDown")

\* observe_sample().
SampleFlux ==
    /\ state = "Sample" /\ samples' = samples + 1
    /\ AdvanceAfter(SampleCycles, "RampDown") /\ UNCHANGED <<failure, known, pending>>

\* observe_ramp_down() of the flux measurement.
EndDrive ==
    /\ state = "RampDown" /\ UNCHANGED <<known, pending, samples>>
    /\ IF ~RampedDown THEN cycle' = cycle + 1 /\ UNCHANGED <<state, failure>>
       ELSE /\ cycle' = 0
            /\ IF pending # "None" THEN Fails(pending)
               ELSE IF samples = 0 THEN Fails("FluxRange")
               ELSE state' = "FinalizeD" /\ UNCHANGED failure

\* The finalize_*() steps at rest.
FinalizeFlux ==
    /\ UNCHANGED <<cycle, pending, samples>>
    /\ \/ /\ \/ state = "FinalizeD" /\ state' = "FinalizeQ"
             \/ state = "FinalizeQ" /\ state' = "FinalizeMagnitude"
             \/ state = "FinalizeMagnitude" /\ state' = "FinalizeFlux"
          /\ UNCHANGED <<failure, known>>
       \/ /\ state = "FinalizeFlux"
          /\ \/ state' = "Complete" /\ known' = known \cup {"Flux"} /\ UNCHANGED failure
             \/ Fails("FluxRange") /\ UNCHANGED known

Flux ==
    /\ routine = "FluxLinkage"
    /\ \/ /\ \/ state = "Capture" /\ AdvanceAfter(RampCycles, "SpeedRamp")
             \/ state = "Settle" /\ AdvanceAfter(SettleCycles, "Sample")
          /\ UNCHANGED <<failure, known, pending, samples>>
       \/ SpeedRamp \/ SampleFlux \/ EndDrive \/ FinalizeFlux
    /\ UNCHANGED <<routine, grid, low, high, lock, pulse, hall>>

-----------------------------------------------------------------------------
(* HallCalibration::observe().                                             *)

\* record_step(): the sweeps alternate between the two directions.
RecordStep ==
    /\ state = "Sweep"
    /\ \E h \in Raws : counts' = [counts EXCEPT ![sweep % 2][h] = @ + 1]
    /\ IF degree + 1 < Degrees THEN degree' = degree + 1 /\ UNCHANGED sweep
       ELSE degree' = 0 /\ sweep' = sweep + 1
    /\ cycle' = 0 /\ state' = IF sweep' >= Sweeps THEN "RampDown" ELSE state

Invalid == \E d \in {0, 1}, h \in {0, LastRaw + 1} : counts[d][h] # 0

BeginFinalization ==
    /\ state = "RampDown" /\ RampedDown /\ cycle' = 0
    /\ IF Invalid THEN Fails("HallStates") /\ UNCHANGED raw
       ELSE state' = "Finalize" /\ raw' = 1 /\ UNCHANGED failure

FinalizeNextRaw ==
    /\ state = "Finalize"
    /\ IF \E d \in {0, 1} : counts[d][raw] < MinSamples
       THEN Fails("HallStates") /\ cycle' = 0 /\ UNCHANGED <<known, raw>>
       ELSE IF raw < LastRaw THEN raw' = raw + 1 /\ cycle' = cycle + 1 /\ UNCHANGED <<state, failure, known>>
       ELSE Enter("Complete") /\ known' = known \cup {"Centers"} /\ UNCHANGED <<failure, raw>>

Hall ==
    /\ routine = "Hall"
    /\ \/ /\ \/ state = "RampUp" /\ AdvanceAfter(RampCycles, "Settle")
             \/ state = "Settle" /\ AdvanceAfter(SettleCycles, "Sweep")
             \/ state = "RampDown" /\ ~RampedDown /\ cycle' = cycle + 1 /\ UNCHANGED state
          /\ UNCHANGED <<failure, known, hall>>
       \/ RecordStep /\ UNCHANGED <<failure, known, raw>>
       \/ BeginFinalization /\ UNCHANGED <<known, sweep, degree, counts>>
       \/ FinalizeNextRaw /\ UNCHANGED <<sweep, degree, counts>>
    /\ UNCHANGED <<routine, grid, pending, low, high, lock, pulse, samples>>

-----------------------------------------------------------------------------
Observe == Resistance \/ Inductance \/ Flux \/ Hall

Next ==
    \/ \E r \in Contract!Routines : Start(r)
    \/ \E f \in LoopFailures : Fail(f)
    \/ Observe

\* The control interrupt observes an active routine in every cycle.
Spec == Init /\ [][Next]_vars /\ WF_vars(Observe)
=============================================================================
