----------------------------- MODULE ControlLoop -----------------------------
(***************************************************************************)
(* The 16 kHz current loop of oxifoc-f103/src/control/foc.rs, the fault    *)
(* latch of hardware/peripherals.rs and the foreground pass of app.rs that *)
(* grants and withdraws motor authority.  The control interrupt and the    *)
(* break interrupt share the highest priority, so each is one atomic step; *)
(* both preempt the foreground between any two of its atomic accesses,     *)
(* which are therefore one step each.  The break input and the Hall capture *)
(* interrupt act between all of these.                                     *)
(*                                                                         *)
(* The safety-event counter is only compared for equality and for a        *)
(* difference of one, so it appears as the distance from the foreground's  *)
(* latest snapshot ("several" being 2) and as whether the granted epoch    *)
(* still equals it.  The value of a grant's word is where it comes from:   *)
(* the grant begun last, the one before, or neither of the two (older, or  *)
(* zeroed by a revocation).  Currents, angles and duties are reduced to the way    *)
(* out of the cycle that they select.  The verdict of the offset tracker   *)
(* (current_valid) and the environment limits only give the foreground one *)
(* more reason to withhold, which a pass may always do here.               *)
(***************************************************************************)
EXTENDS Integers

CONSTANTS
    CycleMod,       \* control cycles until CONTROL_CYCLE wraps
    Lease,          \* OUTPUT_LEASE_CYCLES
    MaxStall,       \* cycles without a new pass until the watchdog resets
    Disturbances    \* what this instance's hardware may do

FaultFlag == {"HardwareBreak", "PwmRange", "HallCapture", "ControlTiming"}
HallReason == {"HallCaptureSequence", "HallTransition", "HallStationaryMismatch"}
SafetyLossReason ==
    HallReason \cup {"None", "ControlTiming", "CurrentSample", "PhaseOvercurrent",
                     "HardwareFault", "OutputLease", "PwmOutput"}
Disturbance == {"Sample", "Overcurrent", "Hall", "Stationary", "Estimate",
                "DutyRange", "Readback", "Overrun", "Break", "Updater"}

ASSUME ControlAssumption ==
    /\ Lease \in Nat \ {0} /\ MaxStall \in Nat \ {0}
    /\ CycleMod \in Nat /\ 2 * Lease < CycleMod /\ 4 * MaxStall < CycleMod
    /\ Disturbances \subseteq Disturbance

VARIABLES
    cycle,          \* CONTROL_CYCLE
    channels,       \* the motor channels of TIM1 are enabled (CCER)
    breakInput,     \* the level of BKIN
    breakFlag,      \* TIM1's BIF; the hardware keeps MOE clear while it is set
    breakArmed,     \* TIM1's BIE
    latched,        \* FAULT_FLAGS
    captures,       \* Hall captures the loop has not accepted (2: several)
    rawValid,       \* the captured Hall state is one of the six sectors
    seeded,         \* HallSensor.valid
    tracked,        \* hardware_hall_sequence # 0
    outputActive,   \* CONTROL_OUTPUT_ACTIVE
    hallValid,      \* CONTROL_HALL_VALID
    commandWas,     \* command_was_enabled
    newEvents,      \* safety_events minus the snapshot's (2: several)
    newTrip,        \* phase_current_trips differs from the snapshot's
    lastReason,     \* last_safety_loss_reason
    enabled,        \* COMMAND_ENABLED
    epochCurrent,   \* COMMAND_SAFETY_EPOCH = safety_events
    deadline,       \* COMMAND_DEADLINE
    words,          \* how many grants ago each word of a grant was stored
    pc,             \* the foreground's next step
    verdict,        \* what its snapshot means to the ride controller
    loaded,         \* the cycle authorize_ride_target() loaded
    ackMask,        \* acknowledge_fault_mask of the pass
    stall           \* control cycles since the latest snapshot

faultVars == <<channels, latched, breakFlag, breakArmed>>
hallVars == <<captures, rawValid, seeded, tracked>>
authority == <<enabled, deadline, words>>
publishedVars == <<outputActive, hallValid, commandWas, lastReason>>
seenVars == <<stall, newEvents, newTrip>>
local == <<verdict, loaded, ackMask>>
vars == <<cycle, breakInput, faultVars, hallVars, publishedVars, seenVars,
          epochCurrent, authority, local, pc>>

Cycle == 0..(CycleMod - 1)
WrapAdd(c, d) == IF c + d < CycleMod THEN c + d ELSE c + d - CycleMod
WrapSub(c, d) == IF d <= c THEN c - d ELSE c - d + CycleMod
LeaseNotAtEnd(c, end) == c # end    \* mutated: a passed deadline counts as far ahead
LeaseForever(c, end) == TRUE        \* mutated: the deadline is not checked
LeaseIsActive(c, end) ==
    LET remaining == WrapSub(end, c) IN remaining # 0 /\ 2 * remaining < CycleMod

Words == {"Target", "Dc", "Phase", "Deadline"}
Revoked == [w \in Words |-> 2]
May(d) == d \in Disturbances
Several(n) == IF n > 2 THEN 2 ELSE n

\* foc::start() after boot: everything here is volatile, so a reset (pc
\* "Reset") ends the behaviour and the next boot is another initial state.
Init ==
    /\ cycle = 0 /\ channels = FALSE /\ latched = {}
    /\ breakInput \in {FALSE, May("Break")} /\ breakFlag = breakInput
    /\ breakArmed = TRUE
    /\ captures = 0 /\ rawValid = TRUE /\ tracked = FALSE
    /\ seeded \in {TRUE, ~May("Hall")} /\ hallValid = seeded
    /\ outputActive = FALSE /\ commandWas = FALSE
    /\ newEvents = 0 /\ newTrip = FALSE /\ lastReason = "None"
    /\ enabled = FALSE /\ epochCurrent = TRUE /\ deadline = 0 /\ words = Revoked
    /\ pc = "Idle" /\ verdict = "Clean" /\ loaded = 0 /\ ackMask = {} /\ stall = 0

-----------------------------------------------------------------------------
(* The control cycle.  Every way out of control_cycle() is one action; the *)
(* guards of the earlier exits are conditions of the hardware, so that an  *)
(* exit's own guard says only what the code must have found by then.       *)

CommandEnabledByFlag == enabled     \* mutated: the epoch is not compared
CommandEnabled == enabled /\ epochCurrent
LeaseActive(now) == CommandEnabled /\ LeaseIsActive(now, deadline)
Powered(now) == LeaseActive(now) \/ outputActive

\* Interrupts are masked inside acknowledge_faults()'s critical section.
Interruptible == pc \notin {"AckReady", "AckConfirm", "Reset"}
BeginCycle(now) ==
    /\ Interruptible /\ stall < MaxStall
    /\ now = WrapAdd(cycle, 1)
    /\ cycle' = now /\ stall' = stall + 1
    /\ UNCHANGED <<breakInput, breakFlag, breakArmed, rawValid, pc, local>>

RevokeRideAuthority(now) ==
    enabled' = FALSE /\ words' = Revoked /\ deadline' = now

\* The end of timer_update_interrupt(): a cycle that overran its budget stops
\* the output and counts a loss of its own, once until it is acknowledged.
EndCycle(now, energized, faults, reason, trip) ==
    \E late \in {FALSE, May("Overrun")} :
        LET overrun == late /\ "ControlTiming" \notin latched \cup faults
            losses == (IF reason = "None" THEN 0 ELSE 1) +
                      (IF overrun THEN 1 ELSE 0)
        IN /\ channels' = (energized /\ ~overrun)
           /\ outputActive' = (energized /\ ~overrun)
           /\ commandWas' = energized
           /\ latched' = latched \cup faults \cup
                         (IF overrun THEN {"ControlTiming"} ELSE {})
           /\ newEvents' = Several(newEvents + losses)
           /\ newTrip' = (newTrip \/ trip)
           /\ IF losses = 0
              THEN UNCHANGED <<lastReason, epochCurrent, authority>>
              ELSE /\ lastReason' = IF overrun THEN "ControlTiming" ELSE reason
                   /\ epochCurrent' = FALSE
                   /\ RevokeRideAuthority(now)

\* stop_control()
Stop(now, faults, reason) == EndCycle(now, FALSE, faults, reason, FALSE)
SilentTrip(now) ==          \* mutated: a trip without a safety event
    EndCycle(now, FALSE, {}, "None", TRUE)
Trip(now) == EndCycle(now, FALSE, {}, "PhaseOvercurrent", TRUE)

SampleLost(now) ==
    /\ May("Sample")
    /\ Stop(now, IF Powered(now) /\ latched = {} THEN {"ControlTiming"} ELSE {},
            IF Powered(now) THEN "CurrentSample" ELSE "None")
    /\ UNCHANGED <<hallVars, hallValid>>

PhaseOvercurrent(now) ==
    /\ May("Overcurrent") /\ Powered(now)
    /\ Trip(now)
    /\ UNCHANGED <<hallVars, hallValid>>

\* Several captures since the last accepted one are resynchronised to a valid
\* state while undriven or at a sector centre, and are a fault otherwise.
Missed == captures = 2 /\ tracked

HallCaptureLost(now) ==
    /\ Missed
    /\ \/ outputActive /\ seeded' = seeded
       \/ ~rawValid /\ seeded' = FALSE
    /\ hallValid' = FALSE
    /\ Stop(now, {"HallCapture"}, "HallCaptureSequence")
    /\ UNCHANGED <<captures, tracked>>

\* update_edge() fails: an invalid state, or one a valid estimate cannot reach.
HallTransitionLost(now) ==
    /\ captures # 0 /\ ~Missed /\ (~rawValid \/ seeded)
    /\ hallValid' = FALSE /\ seeded' = FALSE
    /\ Stop(now, {}, "HallTransition")
    /\ UNCHANGED <<captures, tracked>>

\* The cycle reaches the command check with every capture accepted.
HallAccepted == captures = 0 \/ rawValid
AcceptEdge ==
    /\ HallAccepted
    /\ captures' = 0 /\ tracked' = (tracked \/ captures # 0)

StationaryMismatch(now) ==
    /\ May("Stationary") /\ CommandEnabled /\ ~commandWas
    /\ AcceptEdge /\ seeded' = (seeded \/ captures # 0)
    /\ hallValid' = FALSE
    /\ Stop(now, {}, "HallStationaryMismatch")

\* A stale Hall estimate stops the output without a safety loss.
EstimateMissing(now) ==
    /\ May("Estimate") \/ ~(seeded \/ captures # 0)
    /\ AcceptEdge /\ seeded' = (seeded \/ captures # 0)
    /\ Stop(now, {}, "None")
    /\ UNCHANGED hallValid

\* With the outputs off a stable live Hall state reseeds a missing estimate.
EstimateReady ==
    /\ AcceptEdge
    /\ seeded \/ captures # 0 \/ ~channels
    /\ seeded' = TRUE /\ hallValid' = TRUE

FaultLatched(now) ==
    /\ EstimateReady /\ latched # {}
    /\ Stop(now, {}, IF outputActive THEN "HardwareFault" ELSE "None")

LeaseInactive(now) ==
    /\ EstimateReady /\ latched = {} /\ ~LeaseActive(now)
    /\ Stop(now, {}, IF CommandEnabled THEN "OutputLease" ELSE "None")

MayDrive(now) == EstimateReady /\ latched = {} /\ LeaseActive(now)

DriverOvercurrent(now) ==
    /\ May("Overcurrent") /\ MayDrive(now)
    /\ Trip(now)

\* A compare value outside the validated range, a break that the enable finds
\* pending, or a readback that does not show the outputs enabled.
OutputRejected(now) ==
    /\ MayDrive(now)
    /\ \/ May("DutyRange") /\ Stop(now, {"PwmRange"}, "PwmOutput")
       \/ breakFlag /\ Stop(now, {"HardwareBreak"}, "PwmOutput")
       \/ May("Readback") /\ Stop(now, {}, "PwmOutput")

Energize(now) ==
    /\ MayDrive(now) /\ ~breakFlag
    /\ EndCycle(now, TRUE, {}, "None", FALSE)

ControlCycle ==
    \E now \in Cycle :
        /\ BeginCycle(now)
        /\ \/ SampleLost(now) \/ PhaseOvercurrent(now) \/ HallCaptureLost(now)
           \/ HallTransitionLost(now) \/ StationaryMismatch(now)
           \/ EstimateMissing(now) \/ FaultLatched(now) \/ LeaseInactive(now)
           \/ DriverOvercurrent(now) \/ OutputRejected(now) \/ Energize(now)

-----------------------------------------------------------------------------
(* The other interrupts and the hardware.                                  *)

BreakAsserts ==
    /\ May("Break") /\ ~breakInput /\ pc # "Reset"
    /\ breakInput' = TRUE /\ breakFlag' = TRUE
    /\ UNCHANGED <<cycle, channels, latched, breakArmed, hallVars, publishedVars,
                   seenVars, epochCurrent, authority, local, pc>>

BreakReleases ==
    /\ breakInput /\ pc # "Reset"
    /\ breakInput' = FALSE
    /\ UNCHANGED <<cycle, faultVars, hallVars, publishedVars, seenVars,
                   epochCurrent, authority, local, pc>>

\* TIM1_BRK: the flag cannot be cleared while the input is active.
BreakInterrupt ==
    /\ Interruptible /\ breakFlag /\ breakArmed
    /\ latched' = latched \cup {"HardwareBreak"} /\ channels' = FALSE
    /\ breakFlag' = breakInput /\ breakArmed' = FALSE
    /\ UNCHANGED <<cycle, breakInput, hallVars, publishedVars, seenVars,
                   epochCurrent, authority, local, pc>>

\* TIM2: one capture publishes one edge, an overcapture two.
HallCapture ==
    /\ May("Hall") /\ Interruptible
    /\ captures' \in {Several(captures + 1), 2} /\ rawValid' \in BOOLEAN
    /\ UNCHANGED <<cycle, breakInput, faultVars, seeded, tracked, publishedVars,
                   seenVars, epochCurrent, authority, local, pc>>

-----------------------------------------------------------------------------
(* The foreground pass of service_ride(), one step per atomic access.      *)

Foreground(from, to) ==
    /\ pc = from /\ pc' = to
    /\ UNCHANGED <<cycle, breakInput, hallVars, publishedVars>>

\* foc::snapshot() copies the diagnostics with interrupts masked; the ride
\* controller will call the new events clean, a Hall interruption or a loss
\* that needs a rest sample.
Meaning ==
    IF newEvents = 0 /\ hallValid THEN "Clean"
    ELSE IF newEvents = 0 \/ (newEvents = 1 /\ ~newTrip /\ lastReason \in HallReason)
    THEN "Interrupted" ELSE "NeedsRest"

Snapshot ==
    /\ Foreground("Idle", "Decide")
    /\ verdict' = Meaning
    /\ newEvents' = 0 /\ newTrip' = FALSE /\ stall' = 0
    /\ UNCHANGED <<faultVars, epochCurrent, authority, loaded, ackMask>>

\* fault_flags() is read after the copy.  Only an undisturbed pass may grant;
\* any pass may withhold, and then acknowledge the mask it has read.
Grants == verdict = "Clean" /\ latched = {}
DecideOrKeep ==             \* mutated: withholding leaves the grant alone
    /\ \/ Grants /\ Foreground("Decide", "StoreTarget")
       \/ Foreground("Decide", "Idle")
    /\ ackMask' = {}
    /\ UNCHANGED <<faultVars, seenVars, epochCurrent, authority, verdict, loaded>>
Decide ==
    /\ \/ Grants /\ Foreground("Decide", "StoreTarget") /\ ackMask' = {}
       \/ Foreground("Decide", "RevokeFlag") /\ ackMask' \in {{}, latched}
    /\ UNCHANGED <<faultVars, seenVars, epochCurrent, authority, verdict, loaded>>

\* authorize_ride_target(): three words, the epoch, the deadline, the flag.
\* With its first store a grant takes the place of the one before.
StoreTarget(to) ==
    /\ Foreground("StoreTarget", to)
    /\ words' = [w \in Words |-> IF w = "Target" THEN 0 ELSE Several(words[w] + 1)]
    /\ UNCHANGED <<faultVars, seenVars, epochCurrent, enabled, deadline, local>>
StoreCeiling(from, word, to) ==
    /\ Foreground(from, to)
    /\ words' = [words EXCEPT ![word] = 0]
    /\ UNCHANGED <<faultVars, seenVars, epochCurrent, enabled, deadline, local>>
StoreCeilings ==
    \/ StoreCeiling("StoreDc", "Dc", "StorePhase")
    \/ StoreCeiling("StorePhase", "Phase", "StoreEpoch")
RenewTarget ==              \* mutated: a renewal leaves the ceilings as they are
    StoreTarget(IF enabled THEN "StoreEpoch" ELSE "StoreDc") \/ StoreCeilings
StoreWords == StoreTarget("StoreDc") \/ StoreCeilings

EnableBeforeDeadline ==     \* mutated: the flag goes before the deadline
    /\ Foreground("StoreEpoch", "LoadCycle")
    /\ epochCurrent' = (newEvents = 0) /\ enabled' = TRUE
    /\ UNCHANGED <<faultVars, seenVars, deadline, words, local>>

\* The epoch of the snapshot is current unless a loss was counted since.
StoreEpoch ==
    /\ Foreground("StoreEpoch", "LoadCycle")
    /\ epochCurrent' = (newEvents = 0)
    /\ UNCHANGED <<faultVars, seenVars, authority, local>>

LoadCycle ==
    /\ Foreground("LoadCycle", "StoreDeadline")
    /\ loaded' = cycle
    /\ UNCHANGED <<faultVars, seenVars, epochCurrent, authority, verdict, ackMask>>

StoreDeadline ==
    /\ Foreground("StoreDeadline", "Enable")
    /\ deadline' = WrapAdd(loaded, Lease) /\ loaded' = 0
    /\ words' = [words EXCEPT !["Deadline"] = 0]
    /\ UNCHANGED <<faultVars, seenVars, epochCurrent, enabled, verdict, ackMask>>

Enable ==
    /\ Foreground("Enable", "Idle")
    /\ enabled' = TRUE
    /\ UNCHANGED <<faultVars, seenVars, epochCurrent, deadline, words, local>>

\* revoke_ride_authority(): nothing reads the words once the flag is clear.
RevokeFlag ==
    /\ Foreground("RevokeFlag", "RevokeWords")
    /\ enabled' = FALSE
    /\ UNCHANGED <<faultVars, seenVars, epochCurrent, deadline, words, local>>

RevokeWords ==
    /\ Foreground("RevokeWords", IF ackMask = {} THEN "Idle" ELSE "AckOff")
    /\ words' = Revoked /\ deadline' = cycle
    /\ UNCHANGED <<faultVars, seenVars, epochCurrent, enabled, local>>

\* acknowledge_faults(): the outputs go off first, then everything that makes
\* the acknowledgement pointless is checked before interrupts are masked.
AckOff ==
    /\ Foreground("AckOff", IF latched = {} \/ breakInput THEN "Idle" ELSE "AckClear")
    /\ channels' = FALSE
    /\ UNCHANGED <<latched, breakFlag, breakArmed, seenVars, epochCurrent, authority, local>>

AcknowledgeAny(live, expected) == expected # {}    \* mutated: no exact match
AcknowledgementPermitted(live, expected) == live = expected

AckClear ==
    /\ IF breakInput \/ ~AcknowledgementPermitted(latched, ackMask)
       THEN /\ Foreground("AckClear", "Idle")
            /\ UNCHANGED <<latched, breakFlag, breakArmed>>
       ELSE /\ Foreground("AckClear", "AckReady")
            /\ latched' = {} /\ breakFlag' = FALSE /\ breakArmed' = TRUE
    /\ UNCHANGED <<channels, seenVars, epochCurrent, authority, local>>

\* The hardware break ignores the masked interrupts: the cleared latch is
\* restored if it hits before the two readiness checks.
RestoreLatch(from, ready, faults) ==
    /\ Foreground(from, IF breakFlag THEN "Idle" ELSE ready)
    /\ latched' = IF breakFlag THEN ackMask \cup faults ELSE latched
    /\ UNCHANGED <<channels, breakFlag, breakArmed, seenVars, epochCurrent, authority, local>>
AckReady == RestoreLatch("AckReady", "AckConfirm", {})
AckConfirm == RestoreLatch("AckConfirm", "Idle", {"HardwareBreak"})

\* service_updater_reset() with safe_for_updater_reset(): the wheel and Hall
\* conditions are left to the environment.
UpdaterCheck ==
    /\ May("Updater") /\ ~enabled
    /\ Foreground("Idle", "UpdaterOutputs")
    /\ UNCHANGED <<faultVars, seenVars, epochCurrent, authority, local>>
UpdaterOutputs ==
    /\ Foreground("UpdaterOutputs", IF channels THEN "Idle" ELSE "UpdaterReset")
    /\ UNCHANGED <<faultVars, seenVars, epochCurrent, authority, local>>

\* emergency_shutdown() and the reset, requested by the updater or forced by
\* the watchdog on a foreground that stalls.
ResetBy(condition) ==
    /\ condition /\ pc' = "Reset" /\ channels' = FALSE
    /\ UNCHANGED <<cycle, breakInput, latched, breakFlag, breakArmed, hallVars,
                   publishedVars, seenVars, epochCurrent, authority, local>>
UpdaterReset == ResetBy(pc = "UpdaterReset")
WatchdogReset == ResetBy(stall = MaxStall /\ pc # "Reset")

Pass ==
    \/ Snapshot \/ Decide \/ StoreWords \/ StoreEpoch \/ LoadCycle
    \/ StoreDeadline \/ Enable \/ RevokeFlag \/ RevokeWords
    \/ AckOff \/ AckClear \/ AckReady \/ AckConfirm
    \/ UpdaterOutputs \/ UpdaterReset

HasReset == pc = "Reset" /\ UNCHANGED vars

Next ==
    \/ ControlCycle \/ BreakAsserts \/ BreakReleases \/ BreakInterrupt
    \/ HallCapture \/ Pass \/ UpdaterCheck \/ WatchdogReset \/ HasReset

Spec == Init /\ [][Next]_vars
=============================================================================
