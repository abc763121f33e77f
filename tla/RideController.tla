--------------------------- MODULE RideController ---------------------------
(***************************************************************************)
(* The local ride state machine of oxifoc-f103/src/control/ride.rs: the    *)
(* only code that may grant torque.  Once per millisecond the foreground   *)
(* builds an Observation of the inputs and of the control interrupt's      *)
(* diagnostics and calls RideController::update, which returns a Command.  *)
(* One step of this module is one such call.                               *)
(*                                                                         *)
(* Data is reduced to what the decisions tell apart: a throttle sample is  *)
(* invalid, at rest or pressed (throttle.rs rounds every sample above the  *)
(* rest band up to at least one percent, so a valid sample that is neither *)
(* does not exist); the event and trip counters appear as what is new in   *)
(* this pass; Hall progress as its change; targets as zero or not.  The    *)
(* millisecond clock and every deadline keep the code's wrapping           *)
(* arithmetic, over a clock of ClockMod ticks instead of 2^32.             *)
(***************************************************************************)
EXTENDS Integers

CONSTANTS
    ClockMod,               \* ticks until the millisecond counter wraps
    MaxElapsed,             \* longest time between two ride passes
    StartupTimeout,         \* startup_timeout_milliseconds
    FirstHallTimeout,       \* startup_first_hall_timeout_milliseconds
    SecondHallTimeout,      \* startup_second_hall_timeout_milliseconds
    RunningHallTimeouts,    \* the clamped results of hall_timeout_ms
    RetryQuiet,             \* hall_retry_quiet_milliseconds
    RetryLimit,             \* hall_retries_per_throttle_press
    FaultLimit,             \* consecutive_fault_limit
    ForwardTransitions,     \* startup_forward_hall_transitions
    ProgressBound,          \* bound on Hall progress since the run started
    Faults,                 \* the latchable faults of this instance
    Inputs                  \* the observations the environment may offer

FaultFlag == {"HardwareBreak", "PwmRange", "HallCapture", "ControlTiming"}
RetryLimitedFaults == {"HardwareBreak", "PwmRange"}
HallRetryFaults == {"HallCapture"}

(***************************************************************************)
(* events is 0, 1 or "several" (2); hallReason tells whether the latest    *)
(* loss has a Hall cause; newFaults are latched since the previous pass;   *)
(* authority stands for current_valid with nonzero DC and phase ceilings;  *)
(* edge for a hall_sequence other than the run's last one; step for the    *)
(* change of hall_progress; fast for |erpm| above the entry limit.         *)
(***************************************************************************)
Observation ==
    [elapsed : 1..MaxElapsed, throttle : {"Invalid", "Rest", "Pressed"},
     cadence : BOOLEAN, brake : BOOLEAN, authority : BOOLEAN,
     hallValid : BOOLEAN, newFaults : SUBSET Faults, events : 0..2,
     hallReason : BOOLEAN, tripped : BOOLEAN, outputActive : BOOLEAN,
     edge : BOOLEAN, step : -1..1, hallTimeout : RunningHallTimeouts,
     fast : BOOLEAN]

\* A software overcurrent trip always counts a safety event of its own
\* (foc.rs counts both before the foreground can look).
Consistent(o) == o.tripped => o.events > 0 /\ (o.events = 1 => ~o.hallReason)

\* What config.rs asserts of the ride's configuration when it is compiled.
LegalRideConfig ==
    /\ FaultLimit > 0 /\ RetryQuiet > 0
    /\ 0 < FirstHallTimeout /\ FirstHallTimeout <= StartupTimeout
    /\ \E t \in RunningHallTimeouts : t <= SecondHallTimeout
    /\ SecondHallTimeout < StartupTimeout

\* A timeout fits the clock.  A Hall deadline is not looked at while a startup
\* rolls back, so that it may be found as late as the startup timeout and one
\* pass allow: by then the wrapping comparison must still tell it has passed.
ASSUME RideAssumption ==
    /\ ClockMod \in Nat \ {0}
    /\ MaxElapsed \in 1..(ClockMod - 1)
    /\ StartupTimeout \in 1..(ClockMod - 1)
    /\ FirstHallTimeout \in 1..(ClockMod - 1)
    /\ SecondHallTimeout \in 1..(ClockMod - 1)
    /\ RunningHallTimeouts \subseteq 1..(ClockMod - 1)
    /\ 2 * (StartupTimeout + MaxElapsed - 2) < ClockMod
    /\ RetryQuiet \in 1..(ClockMod - 1)
    /\ RetryLimit \in Nat /\ FaultLimit \in Nat \ {0}
    /\ LegalRideConfig
    /\ ForwardTransitions \in Nat /\ ProgressBound \in Nat
    /\ Faults \subseteq FaultFlag
    /\ Inputs \subseteq {o \in Observation : Consistent(o)}

VARIABLES
    now,                    \* time of the latest pass
    latched,                \* the hardware fault latch after the pass
    mode,                   \* the constructor of State
    quietSince,             \* payload of HallRecovery
    run,                    \* payload of Active
    retryLimitedLatched,    \* retry_limited_fault_latched
    faultCounted,           \* fault_counted
    consecutiveFaults,      \* consecutive_faults
    hallRetries,            \* hall_retries
    retryPending,           \* hall_retry_pending
    command                 \* the Command the latest pass returned

controllerVars == <<mode, quietSince, run, retryLimitedLatched, faultCounted,
                    consecutiveFaults, hallRetries, retryPending, command>>
vars == <<now, latched, controllerVars>>

Clock == 0..(ClockMod - 1)
WrapAdd(t, d) == IF t + d < ClockMod THEN t + d ELSE t + d - ClockMod
WrapSub(t, s) == IF s <= t THEN t - s ELSE t - s + ClockMod
DeadlineReached(t, deadline) == 2 * WrapSub(t, deadline) < ClockMod

Mode == {"Disarmed", "BrakeHold", "HallRecovery", "Ready", "Active"}
RunStage == {"AwaitingFirstEdge", "StartupTracking", "Tracking", "Coasting"}
Run == [stage : RunStage, startupDeadline : Clock, hallDeadline : Clock,
        progress : Int]
NoRun == [stage |-> "AwaitingFirstEdge", startupDeadline |-> 0,
          hallDeadline |-> 0, progress |-> 0]

Command == [energize : BOOLEAN, torque : BOOLEAN, ack : SUBSET FaultFlag,
            stage : (Mode \ {"Active"}) \cup RunStage]
Withheld(stage) ==
    [energize |-> FALSE, torque |-> FALSE, ack |-> {}, stage |-> stage]
Off == Withheld("Disarmed")
Energized(stage, torque) ==
    [energize |-> TRUE, torque |-> torque, ack |-> {}, stage |-> stage]

Init ==
    /\ now = 0 /\ latched \in SUBSET Faults
    /\ mode = "Disarmed" /\ quietSince = 0 /\ run = NoRun
    /\ retryLimitedLatched = FALSE /\ faultCounted = FALSE
    /\ consecutiveFaults = 0 /\ hallRetries = 0 /\ retryPending = FALSE
    /\ command = Off

-----------------------------------------------------------------------------
(* What one pass derives from its observation before it decides.           *)

Time(o) == WrapAdd(now, o.elapsed)
ObservedFaults(o) == latched \cup o.newFaults
Rest(o) == o.throttle = "Rest"
Demand(o) == o.throttle = "Pressed" \/ o.cadence
PowerFaultLatched(o) == ObservedFaults(o) \cap RetryLimitedFaults # {}
NewPowerFault(o) == o.tripped \/ (PowerFaultLatched(o) /\ ~retryLimitedLatched)
CountedFaults(o) ==
    IF NewPowerFault(o) /\ ~faultCounted
    THEN consecutiveFaults + 1 ELSE consecutiveFaults
FaultCounted(o) == faultCounted \/ NewPowerFault(o)
Retries(o) == IF Rest(o) THEN 0 ELSE hallRetries
PendingUnlessHeld(o) ==     \* mutated: a brake hold forgives the retry
    ~Rest(o) /\ retryPending /\ mode # "BrakeHold"
Pending(o) == ~Rest(o) /\ retryPending

LockedOut(o) == CountedFaults(o) >= FaultLimit
HallLoss(o) == o.events = 1 /\ ~o.tripped /\ o.hallReason
RequiresRestByLatest(o) ==  \* mutated: the latest reason hides earlier losses
    \/ o.events # 0 /\ ~(o.hallReason /\ ~o.tripped)
    \/ ObservedFaults(o) \ HallRetryFaults # {}
    \/ o.throttle = "Invalid" \/ ~o.authority
RequiresRest(o) ==
    \/ o.events # 0 /\ ~HallLoss(o)
    \/ ObservedFaults(o) \ HallRetryFaults # {}
    \/ o.throttle = "Invalid"
    \/ ~o.authority
HallInterrupted(o) == HallLoss(o) \/ ObservedFaults(o) # {} \/ ~o.hallValid
Interrupted(o) == LockedOut(o) \/ RequiresRest(o) \/ HallInterrupted(o)

-----------------------------------------------------------------------------
(* How a pass ends: in a mode that withholds authority, or energized.      *)

Enter(m, since, cmd) ==
    /\ mode' = m /\ quietSince' = since /\ run' = NoRun /\ command' = cmd

Hold(m) == Enter(m, 0, Withheld(m))

\* withhold(): only the brake keeps the ride armed.
WithholdFor(o) == Hold(IF o.brake THEN "BrakeHold" ELSE "Disarmed")

Energize(r, torque) ==
    /\ mode' = "Active" /\ quietSince' = 0 /\ run' = r
    /\ command' = Energized(r.stage, torque)

RetriesKept(o) == hallRetries' = Retries(o) /\ retryPending' = Pending(o)

\* update() forgives earlier faults once a pass reports normal tracking, and
\* the interrupt may latch further faults before the next observation, which
\* then carries them; a mask the pass acknowledges may or may not clear.
Observe(o) ==
    /\ now' = Time(o)
    /\ retryLimitedLatched' = PowerFaultLatched(o)
    /\ consecutiveFaults' =
           IF command'.stage = "Tracking" THEN 0 ELSE CountedFaults(o)
    /\ \/ latched' = ObservedFaults(o)
       \/ command'.ack # {} /\ latched' = ObservedFaults(o) \ command'.ack

-----------------------------------------------------------------------------
(* update_authority(), one action per way out of it.                       *)

StayLockedOut(o) ==
    /\ LockedOut(o)
    /\ Hold("Disarmed")
    /\ faultCounted' = FaultCounted(o)
    /\ UNCHANGED <<hallRetries, retryPending>>

DisarmUntilRest(o) ==
    /\ ~LockedOut(o)
    /\ RequiresRest(o) \/ (HallInterrupted(o) /\ mode = "Disarmed")
    /\ Enter("Disarmed", 0,
             [Off EXCEPT !.ack = IF Rest(o) THEN ObservedFaults(o) ELSE {}])
    /\ faultCounted' = FaultCounted(o) /\ RetriesKept(o)

InterruptByHall(o) ==
    /\ ~LockedOut(o) /\ ~RequiresRest(o) /\ HallInterrupted(o)
    /\ mode # "Disarmed"
    /\ Enter("HallRecovery", Time(o),
             [Withheld("HallRecovery") EXCEPT !.ack =
                 IF Rest(o) \/ Retries(o) < RetryLimit
                 THEN ObservedFaults(o) ELSE {}])
    /\ faultCounted' = FaultCounted(o) /\ RetriesKept(o)

ArmFromRest(o) ==
    /\ ~Interrupted(o)
    /\ mode = "Disarmed" \/ (mode = "HallRecovery" /\ Rest(o))
    /\ IF Rest(o)
       THEN Hold(IF o.brake THEN "BrakeHold" ELSE "Ready") /\ faultCounted' = FALSE
       ELSE Hold("Disarmed") /\ faultCounted' = FaultCounted(o)
    /\ RetriesKept(o)

RetryBlockedByCount(o) ==   \* mutated: no quiet interval
    Retries(o) >= RetryLimit \/ o.outputActive
RetryBlocked(o) ==
    \/ WrapSub(Time(o), quietSince) < RetryQuiet
    \/ Retries(o) >= RetryLimit
    \/ o.outputActive

WaitForHall(o) ==
    /\ ~Interrupted(o) /\ mode = "HallRecovery" /\ ~Rest(o)
    /\ RetryBlocked(o)
    /\ Enter("HallRecovery", quietSince, Withheld("HallRecovery"))
    /\ faultCounted' = FaultCounted(o) /\ RetriesKept(o)

NewRun(o) ==
    [stage |-> "AwaitingFirstEdge",
     startupDeadline |-> WrapAdd(Time(o), StartupTimeout),
     hallDeadline |-> WrapAdd(Time(o), FirstHallTimeout),
     progress |-> 0]

StartAllowed(o) == ~o.brake /\ Demand(o) /\ ~o.fast

\* update_ready(): entered from the armed modes and from an expired Hall
\* recovery, whose retry is spent only if this pass starts a run.
UpdateReady(o, pending) ==
    /\ faultCounted' = FaultCounted(o)
    /\ IF StartAllowed(o)
       THEN /\ Energize(NewRun(o), TRUE)
            /\ retryPending' = FALSE
            /\ hallRetries' = Retries(o) + (IF pending THEN 1 ELSE 0)
       ELSE /\ Hold(IF o.brake THEN "BrakeHold" ELSE "Ready")
            /\ retryPending' = pending
            /\ hallRetries' = Retries(o)

RetryAfterHall(o) ==
    /\ ~Interrupted(o) /\ mode = "HallRecovery" /\ ~Rest(o)
    /\ ~RetryBlocked(o)
    /\ UpdateReady(o, TRUE)

ServeArmed(o) ==
    /\ ~Interrupted(o) /\ mode \in {"BrakeHold", "Ready"}
    /\ UpdateReady(o, Pending(o))

-----------------------------------------------------------------------------
(* update_active(): the Hall-progress lifecycle of a run.                  *)

InStartup(r) == r.stage \in {"AwaitingFirstEdge", "StartupTracking"}

\* A new Hall edge renews the Hall deadline and may complete the startup.
EdgeDeadline(r, o) ==
    WrapAdd(Time(o), IF r.stage = "AwaitingFirstEdge"
                     THEN SecondHallTimeout ELSE o.hallTimeout)
EdgeStage(r, o) ==
    IF ~InStartup(r) THEN r.stage
    ELSE IF r.progress + o.step >= ForwardTransitions THEN "Tracking"
    ELSE "StartupTracking"
Advance(r, o) ==
    [stage |-> IF o.edge THEN EdgeStage(r, o) ELSE r.stage,
     startupDeadline |-> r.startupDeadline,
     hallDeadline |-> IF o.edge THEN EdgeDeadline(r, o) ELSE r.hallDeadline,
     progress |-> r.progress + o.step]

TimedOutUnwrapped(r, t) ==      \* mutated: the clock is compared as if it never wrapped
    \/ InStartup(r) /\ t >= r.startupDeadline
    \/ t >= r.hallDeadline /\ ~(r.stage = "StartupTracking" /\ r.progress < 0)

\* A rollback during startup passes through standstill without edges, so
\* while progress is negative only the startup deadline applies.
TimedOut(r, t) ==
    \/ InStartup(r) /\ DeadlineReached(t, r.startupDeadline)
    \/ /\ DeadlineReached(t, r.hallDeadline)
       /\ ~(r.stage = "StartupTracking" /\ r.progress < 0)

\* A run ends on a missed deadline, on lost demand during startup, and on lost
\* demand at low speed; above it the run coasts energized at zero torque.
Continue(o, r) ==
    LET demand == ~o.brake /\ Demand(o)
        ends == TimedOut(r, Time(o)) \/ (~demand /\ (InStartup(run) \/ ~o.fast))
        stage == IF ~demand THEN "Coasting"
                 ELSE IF r.stage = "Coasting" THEN "Tracking" ELSE r.stage
    IN IF ends THEN WithholdFor(o) ELSE Energize([r EXCEPT !.stage = stage], demand)

UpdateActive(o) ==
    /\ ~Interrupted(o) /\ mode = "Active"
    /\ Continue(o, Advance(run, o))
    /\ faultCounted' = FaultCounted(o) /\ RetriesKept(o)

Bounded(o) == run.progress + o.step \in -ProgressBound..ProgressBound

Update(o) ==
    /\ Bounded(o)
    /\ \/ StayLockedOut(o) \/ DisarmUntilRest(o) \/ InterruptByHall(o)
       \/ ArmFromRest(o) \/ WaitForHall(o) \/ RetryAfterHall(o)
       \/ ServeArmed(o) \/ UpdateActive(o)
    /\ Observe(o)

Next == \E o \in Inputs : Update(o)

Spec == Init /\ [][Next]_vars
=============================================================================
