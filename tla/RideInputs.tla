------------------------------ MODULE RideInputs ------------------------------
(***************************************************************************)
(* The rider's inputs as one foreground pass takes them: the debounced     *)
(* brake (sensors/inputs.rs) and the analog frame (sensors/analog.rs) of   *)
(* InputMonitor::service(), then the cadence tracker (sensors/cadence.rs). *)
(*                                                                         *)
(* Passes come at irregular times.  A time that the code keeps as a        *)
(* millisecond is kept as its age, which wrapping_sub() makes independent of *)
(* the clock's wrap as long as no level is held for 49 days; a demand is   *)
(* the average width of the low phases it is computed from.  The cadence   *)
(* in rpm is telemetry and left out.                                       *)
(***************************************************************************)
EXTENDS Integers

CONSTANTS
    Required,           \* BRAKE_DEBOUNCE_SAMPLES
    AnalogPeriod,       \* ANALOG_SAMPLE_PERIOD_MS
    Debounce,           \* DEBOUNCE_SAMPLES of the cadence
    Slow, Fast,         \* slow_timeout_milliseconds, fast_timeout_milliseconds
    MaximumLow,         \* maximum_low_milliseconds
    FullLow,            \* full_demand_low_milliseconds
    Qualifying,         \* qualifying_pulses
    MaxGap              \* the longest time between two passes

\* What config.rs asserts at build time of the cadence sensor.
LegalCadenceConfig == Debounce > 0 /\ Qualifying > 0 /\ FullLow < MaximumLow

\* The shipped timeouts are 500 ms, and 300 ms when fast; no low phase of more
\* than 400 ms counts.
ASSUME InputsAssumption ==
    /\ {Required, AnalogPeriod, Debounce, Qualifying, Fast, FullLow, MaxGap} \subseteq Nat \ {0}
    /\ {Slow, MaximumLow} \subseteq Nat /\ Fast <= Slow /\ MaximumLow <= Slow
    /\ LegalCadenceConfig

VARIABLES
    lowSamples, highSamples, brake,     \* DebouncedActiveLow
    complete, running,                  \* DMA_TRANSFER_COMPLETE, DMA_CHANNEL_ENABLE
    analogAge, valid,                   \* last_analog_ms, analog_valid
    debouncedLow, matching, phaseAge,   \* Tracker
    previousLow, qualified, average,
    demand,                             \* what the last pass reported
    fast,                               \* whether it found the vehicle fast
    pin, still, width, earned,          \* what the properties remember
    scanned, converted

brakeVars == <<lowSamples, highSamples, brake>>
analogVars == <<complete, running, analogAge, valid, scanned, converted>>
cadenceVars == <<debouncedLow, matching, phaseAge, previousLow, qualified, average, demand, fast>>
pinVars == <<pin, still, width, earned>>
inputVars == <<brakeVars, analogVars, cadenceVars, pinVars>>

Longer(a, b) == IF a >= b THEN a ELSE b
Capped(n, bound) == IF n < bound THEN n ELSE bound
Oldest == Longer(Slow, MaximumLow) + 1         \* no older level is told apart
Longest == Slow + (Debounce + 1) * MaxGap      \* no longer stillness is told apart

InputsInit ==
    /\ lowSamples = 0 /\ highSamples = 0 /\ brake = FALSE
    /\ complete = FALSE /\ running \in BOOLEAN      \* whether the ADC was initialized
    /\ analogAge = AnalogPeriod /\ valid = FALSE /\ scanned = FALSE /\ converted = FALSE
    /\ debouncedLow = FALSE /\ matching = 0 /\ phaseAge = 0
    /\ previousLow = 0 /\ qualified = 0 /\ average = 0 /\ demand = 0 /\ fast = FALSE
    /\ pin = FALSE /\ still = 0 /\ width = 0 /\ earned = 0

-----------------------------------------------------------------------------
(* ADC1 and its DMA channel.                                               *)

Scan ==
    /\ running /\ complete' = TRUE /\ scanned' = TRUE
    /\ UNCHANGED <<running, analogAge, valid, converted, brakeVars, cadenceVars, pinVars>>

Fail ==
    /\ running /\ running' = FALSE
    /\ UNCHANGED <<complete, analogAge, valid, scanned, converted, brakeVars, cadenceVars, pinVars>>

-----------------------------------------------------------------------------
(* InputMonitor::service().                                                *)

\* DebouncedActiveLow::update(); samples beyond what is required change nothing.
Brake(low) ==
    /\ lowSamples' = IF low THEN Capped(lowSamples + 1, Required) ELSE 0
    /\ highSamples' = IF low THEN 0 ELSE Capped(highSamples + 1, Required)
    /\ brake' = IF low THEN brake \/ lowSamples' >= Required ELSE brake /\ highSamples' < Required

Cleared == FALSE

\* sample_analog(): a frame is valid when a scan has completed since the last.
SampleAnalog(elapsed) ==
    IF analogAge + elapsed >= AnalogPeriod
    THEN /\ valid' = (complete /\ running) /\ analogAge' = 0
         /\ complete' = IF valid' THEN Cleared ELSE complete
         /\ converted' = scanned /\ scanned' = FALSE
    ELSE /\ analogAge' = analogAge + elapsed
         /\ UNCHANGED <<valid, complete, converted, scanned>>

-----------------------------------------------------------------------------
(* Tracker::update().                                                      *)

Flips(low) == low # debouncedLow /\ matching + 1 >= Debounce

TimedOut(age) == age > IF fast' THEN Fast ELSE Slow

KeepPulses == Capped(qualified, Qualifying - 1)     \* mutated: pulses before the reset count
NoPulses == 0

\* observe_low_phase().
Pulse(duration) ==
    LET low == Longer(duration, FullLow)
    IN  [previous |-> low, qualified |-> Capped(qualified + 1, Qualifying),
         average |-> IF qualified = 0 THEN average ELSE (previousLow + low) \div 2]

Reset == [previous |-> 0, qualified |-> NoPulses, average |-> 0]
Same == [previous |-> previousLow, qualified |-> qualified, average |-> average]

Cadence(low, elapsed) ==
    LET age == Capped(phaseAge + elapsed, Oldest)
        after == IF ~(Flips(low) /\ debouncedLow) THEN Same
                 ELSE IF age > MaximumLow THEN Reset ELSE Pulse(age)
        left == IF TimedOut(phaseAge') THEN Reset ELSE after
    IN  /\ matching' = IF low = debouncedLow \/ Flips(low) THEN 0 ELSE matching + 1
        /\ debouncedLow' = IF Flips(low) THEN low ELSE debouncedLow
        /\ phaseAge' = IF Flips(low) THEN 0 ELSE age
        /\ previousLow' = left.previous /\ qualified' = left.qualified /\ average' = left.average
        /\ demand' = IF qualified' >= Qualifying THEN average' ELSE 0

-----------------------------------------------------------------------------
\* What the pin has done: how long it has not changed, how many samples in a
\* row were low, and how many such phases were long enough since it was still.
Watch(low, elapsed) ==
    /\ pin' = low
    /\ still' = IF low # pin THEN 0 ELSE Capped(still + elapsed, Longest)
    /\ width' = IF low THEN Capped(width + 1, Debounce) ELSE 0
    /\ earned' = IF still' = Longest THEN 0
                 ELSE IF low /\ width + 1 = Debounce THEN Capped(earned + 1, Qualifying) ELSE earned

\* One pass, a millisecond or more after the last.
InputPass ==
    \E elapsed \in 1..MaxGap, low, brakeLow \in BOOLEAN :
        /\ fast' \in BOOLEAN
        /\ Brake(brakeLow) /\ SampleAnalog(elapsed) /\ UNCHANGED running
        /\ Cadence(low, elapsed) /\ Watch(low, elapsed)

InputsNext == Scan \/ Fail \/ InputPass

InputsSpec == InputsInit /\ [][InputsNext]_inputVars
=============================================================================
