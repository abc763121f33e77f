-------------------------- MODULE EnvironmentMonitor --------------------------
(***************************************************************************)
(* The battery envelope of oxifoc-f103/src/sensors/environment.rs and the  *)
(* analog sampling of sensors/analog.rs that feeds it.  One step is one    *)
(* foreground pass: InputMonitor::service, then EnvironmentMonitor::update *)
(* with the latest frame and the measured battery current.                 *)
(*                                                                         *)
(* A bus voltage is the band of the two thresholds it falls into and a     *)
(* temperature the fraction of the current it leaves.  The millisecond     *)
(* time stamps appear as the time since them, which is all that the        *)
(* wrapping differences of the code compute, and sampled_at_ms as whether  *)
(* the frame has been counted.  The derating reasons, which only telemetry *)
(* reads, are left out.                                                    *)
(***************************************************************************)
EXTENDS Integers

CONSTANTS
    MaxElapsed,             \* longest time between two passes
    SamplePeriod,           \* ANALOG_SAMPLE_PERIOD_MS
    UpdatePeriod,           \* UPDATE_PERIOD_MS
    OvervoltageSamples,     \* DC_BUS_OVERVOLTAGE_SAMPLES
    UndervoltageSamples,    \* DC_BUS_UNDERVOLTAGE_SAMPLES
    MissingEvaluations,     \* MISSING_DATA_EVALUATIONS
    Continuous, Transient,  \* RIDE_DC_BUS_CONTINUOUS_ and _TRANSIENT_LIMIT_COUNTS
    Capacity,               \* TRANSIENT_BUDGET_CAPACITY
    Divisor,                \* RIDE_DC_BUS_TRANSIENT_RECOVERY_DIVISOR
    PhaseLimit,             \* RIDE_PHASE_CURRENT_LIMIT_COUNTS
    FractionOne,            \* THERMAL_FRACTION_ONE
    Frames,                 \* the analog frames of this instance
    Currents                \* the projected battery currents of this instance

Voltage == {"Under", "Normal", "Band", "Over"}  \* Band: within the hysteresis
Frame == [valid : BOOLEAN, bus : Voltage, motor : BOOLEAN, share : 0..FractionOne]

\* A frame without finished DMA; its other fields are never looked at.
NotReady == [valid |-> FALSE, bus |-> "Under", motor |-> FALSE, share |-> 0]

\* The asserts on the battery's debounces (the order of its thresholds is in
\* Voltage) and on its currents in config.rs.
LegalBatteryDebounce == UndervoltageSamples > 0 /\ OvervoltageSamples > 0
LegalBatteryCurrents == Continuous < Transient /\ Divisor > 0

ASSUME EnvironmentAssumption ==
    /\ MaxElapsed \in Nat \ {0}
    /\ SamplePeriod \in Nat \ {0} /\ UpdatePeriod \in Nat \ {0}
    /\ OvervoltageSamples \in Nat /\ UndervoltageSamples \in Nat /\ LegalBatteryDebounce
    /\ MissingEvaluations \in Nat \ {0}
    /\ Continuous \in Nat /\ Transient \in Nat /\ Divisor \in Nat /\ LegalBatteryCurrents
    /\ Capacity \in Nat \ {0}
    /\ PhaseLimit \in Nat /\ FractionOne \in Nat \ {0}
    /\ Frames \subseteq Frame /\ NotReady \in Frames /\ Currents \subseteq Nat

VARIABLES
    sinceSample,    \* time since last_analog_ms
    frame,          \* InputMonitor.latest
    fresh,          \* its sampled_at_ms differs from last_overvoltage_sample_ms
    sinceUpdate,    \* time since last_update_ms
    overCount, overActive,      \* overvoltage_count, overvoltage_active
    underCount, underActive,    \* undervoltage_count, undervoltage_active
    missing,        \* missing_evaluations
    latest,         \* latest_limit
    phase,          \* phase_current_limit
    budget,         \* transient_budget
    recovering,     \* transient_recovery_active
    limit           \* what the latest pass returned

sampling == <<sinceSample, frame, fresh>>
over == <<overCount, overActive>>
under == <<underCount, underActive>>
envelope == <<latest, phase, budget, recovering>>
vars == <<sampling, sinceUpdate, over, under, missing, envelope, limit>>

NoLimit == -1               \* None
AtMost(n, bound) == IF n < bound THEN n ELSE bound
CountUp(n, bound) == AtMost(n + 1, bound)
Below(n, m) == IF n < m THEN 0 ELSE n - m       \* saturating_sub

\* InputMonitor::initialize(0) has taken a sample; new(0) makes the first pass
\* an evaluation and counts that sample.
Init ==
    /\ sinceSample = 0 /\ frame \in Frames /\ fresh = TRUE
    /\ sinceUpdate = UpdatePeriod
    /\ overCount = 0 /\ overActive = FALSE /\ underCount = 0 /\ underActive = FALSE
    /\ missing = 0 /\ latest = NoLimit /\ phase = 0
    /\ budget = Capacity /\ recovering = FALSE /\ limit = NoLimit

-----------------------------------------------------------------------------
SampleDue(elapsed) == sinceSample + elapsed >= SamplePeriod
Service(elapsed, sample) ==
    IF SampleDue(elapsed) THEN sinceSample' = 0 /\ frame' = sample
    ELSE sample = frame /\ sinceSample' = sinceSample + elapsed /\ UNCHANGED frame

CountsEveryPass(elapsed) == frame'.valid        \* mutated: repeats count as well
Counts(elapsed) == frame'.valid /\ (fresh \/ SampleDue(elapsed))

\* update_overvoltage(), for a conversion that has not been counted yet.
UpdateOvervoltage ==
    CASE frame'.bus = "Over" ->
            /\ overCount' = CountUp(overCount, OvervoltageSamples)
            /\ overActive' = (overActive \/ overCount' = OvervoltageSamples)
      [] frame'.bus = "Band" -> UNCHANGED over
      [] OTHER ->
            /\ overCount' = Below(overCount, 1)
            /\ overActive' = (overActive /\ overCount # 0)
CountSample(elapsed) ==
    IF Counts(elapsed) THEN UpdateOvervoltage /\ fresh' = FALSE
    ELSE UNCHANGED over /\ fresh' = (fresh \/ SampleDue(elapsed))

UpdateUndervoltage ==
    IF frame'.bus = "Under"
    THEN /\ underCount' = CountUp(underCount, UndervoltageSamples)
         /\ underActive' = (underActive \/ underCount' = UndervoltageSamples)
    ELSE /\ underCount' = Below(underCount, 1)
         /\ underActive' = (underActive /\ underCount # 0)

\* update_transient_limit(): current above the continuous limit draws on the
\* budget until it is exhausted, headroom below it pays back a part.
Recovery(current) == (Continuous - current + Divisor - 1) \div Divisor
RecoveredAtOnce(charge) == TRUE     \* mutated: recovery ends with the first gain
Recovered(charge) == charge = Capacity
UpdateBudget(current) ==
    IF current > Continuous
    THEN IF recovering THEN UNCHANGED <<budget, recovering>>
         ELSE /\ budget' = Below(budget, current - Continuous)
              /\ recovering' = (budget' = 0)
    ELSE /\ budget' = AtMost(budget + Recovery(current), Capacity)
         /\ recovering' = (recovering /\ ~Recovered(budget'))
TransientLimit == IF recovering' THEN Continuous ELSE Transient
Scale(counts) == (counts * frame'.share) \div FractionOne

-----------------------------------------------------------------------------
(* The evaluation of every UpdatePeriod.                                   *)

UpdateDue(elapsed) == sinceUpdate + elapsed >= UpdatePeriod
NotDue(elapsed) ==
    /\ ~UpdateDue(elapsed) /\ sinceUpdate' = sinceUpdate + elapsed
    /\ UNCHANGED <<under, missing, envelope>>

\* The undervoltage counts before a missing motor temperature returns.
CompleteOnly == frame'.valid /\ frame'.motor    \* mutated: counts after that return
VoltageKnown == frame'.valid
CountUndervoltage == IF VoltageKnown THEN UpdateUndervoltage ELSE UNCHANGED under
Complete == frame'.valid /\ frame'.motor
MissingReset == 0
Publish(current) ==
    /\ Complete
    /\ UpdateBudget(current)
    /\ phase' = Scale(PhaseLimit)
    /\ latest' = IF underActive' THEN 0 ELSE AtMost(TransientLimit, Scale(Transient))
    /\ missing' = MissingReset

HoldsLimits(evaluations) == evaluations < MissingEvaluations
\* The counter saturates; where it does beyond MissingEvaluations is not seen.
CountMissing == missing' = CountUp(missing, MissingEvaluations)
Hold ==
    /\ ~Complete /\ CountMissing
    /\ latest # NoLimit /\ HoldsLimits(missing')
    /\ UNCHANGED envelope
Withdraw ==
    /\ ~Complete /\ CountMissing
    /\ latest = NoLimit \/ ~HoldsLimits(missing')
    /\ latest' = NoLimit /\ phase' = 0 /\ UNCHANGED <<budget, recovering>>

Evaluate(elapsed, current) ==
    /\ UpdateDue(elapsed) /\ sinceUpdate' = 0
    /\ CountUndervoltage
    /\ Publish(current) \/ Hold \/ Withdraw

\* limit()
Limit ==
    IF (overActive' \/ underActive') /\ latest' # NoLimit THEN 0 ELSE latest'

Pass(elapsed, sample, current) ==
    /\ Service(elapsed, sample)
    /\ CountSample(elapsed)
    /\ NotDue(elapsed) \/ Evaluate(elapsed, current)
    /\ limit' = Limit

Next ==
    \E elapsed \in 1..MaxElapsed, sample \in Frames, current \in Currents :
        Pass(elapsed, sample, current)

Spec == Init /\ [][Next]_vars
=============================================================================
