--------------------------- MODULE CurrentCommand ---------------------------
(***************************************************************************)
(* From the requested torque to the commanded current: the target ramp     *)
(* (foc/ramp.rs), the foreground's ceilings (control/mod.rs), field         *)
(* weakening, the current circle and the battery clamp of                  *)
(* motor/foc_driver.rs, over the cycles of one powered run.                *)
(*                                                                         *)
(* Currents and voltages are fixed-point numbers of One units per count or *)
(* tick.  The current controller and the motor are left to the environment: *)
(* they answer each command with a requested and an applied voltage, a     *)
(* speed, and whether the measured current crossed the trip.  q forward is *)
(* negative, as in the code.                                               *)
(***************************************************************************)
EXTENDS Integers

CONSTANTS
    One,            \* units of the fixed point in one count
    RootRange,      \* what the operands of the circle's root stay below (2^15)
    Quanta,         \* the powers of two that bring them there
    CurrentLimit,   \* RIDE_PHASE_CURRENT_LIMIT_COUNTS
    PhaseCeilings,  \* ceilings the foreground publishes, in counts
    BusCeilings, RegenLimit,    \* DC limits in counts
    WeakeningLimit, \* FIELD_WEAKENING_MAXIMUM_CURRENT_COUNTS
    RampIn, RampOut,\* of the weakening current, in units per cycle
    RampCycles, RampCounts, \* of the target ramp
    Requests,       \* q targets in counts
    PwmPeriod,      \* pwm_period_ticks
    Deadband,       \* of the filtered voltage, in thirds of a unit
    Shift,          \* the modulation filter divides by this
    Voltages        \* applied voltages, in units

\* The asserts on the limits and the ramps in config.rs.
LegalCommandConfig ==
    WeakeningLimit < CurrentLimit /\ RampIn > 0 /\ RampOut > 0 /\ RampCycles > 0

ASSUME CommandAssumption ==
    /\ {One, RootRange, CurrentLimit, RampCounts, PwmPeriod, Shift} \subseteq Nat \ {0}
    /\ {RampCycles, RampIn, RampOut, RegenLimit, WeakeningLimit, Deadband} \subseteq Nat
    /\ LegalCommandConfig
    /\ Quanta \subseteq Nat \ {0}
    /\ \E quantum \in Quanta : (One * CurrentLimit) \div quantum < RootRange
    /\ PhaseCeilings \subseteq Nat /\ BusCeilings \subseteq Nat
    /\ Requests \subseteq Int /\ Voltages \subseteq Int

VARIABLES
    target, rampAge,    \* QuadratureTargetRamp
    weakening,          \* FieldWeakening.current
    filtered,           \* bus_mod_filt_ticks
    command             \* the latest FocOutput.target with what bounded it

commandVars == <<target, rampAge, weakening, filtered, command>>

Larger(a, b) == IF a > b THEN a ELSE b
Smaller(a, b) == IF a < b THEN a ELSE b
Clamp(x, low, high) == Smaller(Larger(x, low), high)
Magnitude(x) == IF x < 0 THEN -x ELSE x
AbsCeil(x) == (Magnitude(x) + One - 1) \div One
SignedCeilAbs(x) == IF x < 0 THEN -AbsCeil(x) ELSE AbsCeil(x)

None == [d |-> 0, q |-> 0, ceiling |-> 0, bus |-> 0]

CommandInit ==
    /\ target = 0 /\ rampAge = 0 /\ weakening = 0
    /\ filtered = [d |-> 0, q |-> 0] /\ command = None

(* The target ramp eases negative q in and lets go of it at once. *)
Released(requested) == Larger(target, requested)
RampStep(requested) ==
    LET held == Released(requested)
        count == IF held # target THEN 1 ELSE rampAge + 1
        due == count >= RampCycles
    IN /\ rampAge' = IF due THEN 0 ELSE count
       /\ target' = IF due /\ held > requested THEN Larger(held - RampCounts, requested)
                    ELSE held

(* apply_ride_current_ceilings() and the field weakening. *)
Ceiling(granted) == Smaller(granted, CurrentLimit)
WeakeningMaximum(granted) == One * Smaller(Ceiling(granted) \div 2, WeakeningLimit)
BoundedWeakening(granted) == Larger(weakening, -WeakeningMaximum(granted))

MayWeaken(granted, q) ==
    WeakeningMaximum(granted) > 0 /\ (q # 0 \/ BoundedWeakening(granted) < 0)
\* pressed: the speed is reached, the sense motors and the voltage is full.
Weakened(granted, pressed) ==
    Clamp(BoundedWeakening(granted) + (IF pressed THEN -RampIn ELSE RampOut),
          -WeakeningMaximum(granted), 0)

(* The current circle, what d leaves of it for q.  Its operands are brought  *)
(* into the range of the integer root by dropping bits: the bound is rounded *)
(* down and d up.                                                          *)
DirectTarget(granted) ==
    IF WeakeningMaximum(granted) > 0 THEN Smaller(0, BoundedWeakening(granted)) ELSE 0
FloorRoot(n) == CHOOSE r \in 0..n : r * r <= n /\ n < (r + 1) * (r + 1)
InRange(bound, quantum) == bound \div quantum < RootRange
Quantum(bound) ==
    CHOOSE quantum \in Quanta :
        /\ InRange(bound, quantum)
        /\ \A other \in Quanta : InRange(bound, other) => quantum <= other
Truncated(direct, quantum) == direct \div quantum   \* mutated: d is rounded down
ScaledDirect(direct, quantum) == (direct + quantum - 1) \div quantum
CircularRemaining(bound, direct) ==
    LET quantum == Quantum(bound)
        limit == bound \div quantum
        taken == ScaledDirect(Smaller(Magnitude(direct), bound), quantum)
    IN  IF bound = 0 THEN 0
        ELSE quantum * FloorRoot(Larger(limit * limit - taken * taken, 0))

(* The battery clamp, by the power the filtered voltage projects. *)
BusPowerBound(bound) == (bound * PwmPeriod * 2) \div 3
DirectPower(d) == SignedCeilAbs(filtered.d) * SignedCeilAbs(d)
AddsPower(q) == (SignedCeilAbs(filtered.q) > 0) = (q > 0)
InDeadband == Magnitude(filtered.q) * 3 < Deadband
OnlyMotoring(d, q, bus) == BusPowerBound(bus) - DirectPower(d)  \* mutated: no regen limit
PowerRoom(d, q, bus) ==
    IF AddsPower(q) THEN BusPowerBound(bus) - DirectPower(d)
    ELSE BusPowerBound(RegenLimit) + DirectPower(d)
BusQuadrature(d, q, bus) ==
    IF PowerRoom(d, q, bus) <= 0 \/ filtered.q = 0 THEN 0
    ELSE One * (PowerRoom(d, q, bus) \div AbsCeil(filtered.q))

\* clamp_targets_with_limit() for the ramped request.
Clamped(requested, granted, bus) ==
    LET bound == One * Ceiling(granted)
        d == IF bound = 0 THEN 0 ELSE Clamp(DirectTarget(granted), -bound, bound)
        circle == IF d = 0 THEN bound ELSE CircularRemaining(bound, d)
        q == Clamp(One * requested, -circle, circle)
        room == IF InDeadband \/ q = 0 THEN circle
                ELSE Smaller(circle, BusQuadrature(d, q, bus))
    IN [d |-> d, q |-> Clamp(q, -room, room), ceiling |-> bound, bus |-> bus]

FilterStep(previous, sample) ==
    IF sample < previous THEN previous - (previous - sample) \div Shift
    ELSE previous + (sample - previous) \div Shift

\* A powered cycle: the ramp, the ceilings, the clamp, then the controller's
\* answer.  The measured overcurrent stops the run before the rest is updated.
Step ==
    \E requested \in Requests, granted \in PhaseCeilings, bus \in BusCeilings :
        LET clamped == Clamped(Released(requested), granted, bus)
        IN /\ RampStep(requested)
           /\ command' = clamped
           /\ \E pressed \in {FALSE, MayWeaken(granted, clamped.q)} :
                weakening' = Weakened(granted, pressed)
           /\ \E d, q \in Voltages :
                filtered' = [d |-> FilterStep(filtered.d, d), q |-> FilterStep(filtered.q, q)]

\* stop_control(), for whatever reason: driver.reset() and target_ramp.reset().
Stop ==
    /\ target' = 0 /\ rampAge' = 0 /\ weakening' = 0
    /\ filtered' = [d |-> 0, q |-> 0] /\ command' = None

CommandNext == Step \/ Stop
CommandSpec == CommandInit /\ [][CommandNext]_commandVars
=============================================================================
