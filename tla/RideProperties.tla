--------------------------- MODULE RideProperties ---------------------------
(***************************************************************************)
(* What the ride state machine promises, stated over its observations and  *)
(* commands.  The history variables are computed from the observations     *)
(* alone, following the wording of oxifoc-f103/README.md ("Local ride      *)
(* inputs"), so that a wrong decision of the controller cannot hide in     *)
(* them.                                                                   *)
(***************************************************************************)
EXTENDS RideController

VARIABLES
    rested,           \* a rest sample followed the latest loss that needs one
    owesRetry,        \* a Hall interruption since the last run start or rest
    retryRuns,        \* runs started with owesRetry since the last rest
    sinceInterrupt,   \* time since the latest Hall interruption (saturating)
    sinceStart,       \* time since the latest run start (saturating)
    sinceEdge,        \* time since that start or the latest Hall edge
    armings,          \* re-armings from rest since normal tracking
    faultedRuns       \* runs ended by a power-stage fault since then

historyVars == <<rested, owesRetry, retryRuns, sinceInterrupt, sinceStart,
                 sinceEdge, armings, faultedRuns>>
allVars == <<vars, historyVars>>

Later(t, d, cap) == IF t + d < cap THEN t + d ELSE cap

HistoryInit ==
    /\ rested = FALSE /\ owesRetry = FALSE /\ retryRuns = 0
    /\ sinceInterrupt = 0 /\ sinceStart = 0 /\ sinceEdge = 0
    /\ armings = 0 /\ faultedRuns = 0

PowerFaults == {"HardwareBreak", "PwmRange"}

\* README: "Boot, invalid acquisition, current or environment loss, a latched
\* power-stage or timing fault, or a safety loss other than a Hall
\* interruption".
LossNeedingRest(o) ==
    \/ o.throttle = "Invalid" \/ ~o.authority
    \/ (latched \cup o.newFaults) \ {"HallCapture"} # {}
    \/ o.events = 2 \/ o.tripped \/ (o.events = 1 /\ ~o.hallReason)
HallOnly(o) ==
    /\ ~LossNeedingRest(o)
    /\ o.events = 1 \/ "HallCapture" \in latched \cup o.newFaults \/ ~o.hallValid
\* A run that ends on its own, neither braked nor interrupted by the Hall.
GivesUp(o) == command.energize /\ ~command'.energize /\ ~o.brake /\ ~HallOnly(o)
RunStarts == mode # "Active" /\ mode' = "Active"
PowerFaultSeen(o) == o.tripped \/ (latched \cup o.newFaults) \cap PowerFaults # {}

Record(o) ==
    /\ rested' = (~LossNeedingRest(o) /\ ~GivesUp(o) /\ (rested \/ o.throttle = "Rest"))
    /\ owesRetry' = (HallOnly(o) \/ (owesRetry /\ ~RunStarts /\ o.throttle # "Rest"))
    /\ retryRuns' = IF o.throttle = "Rest" THEN 0
                    ELSE IF RunStarts /\ owesRetry THEN retryRuns + 1 ELSE retryRuns
    /\ sinceInterrupt' = IF HallOnly(o) THEN 0 ELSE Later(sinceInterrupt, o.elapsed, RetryQuiet)
    /\ sinceStart' = IF mode' # "Active" \/ RunStarts
                     THEN 0 ELSE Later(sinceStart, o.elapsed, ClockMod)
    /\ sinceEdge' = IF mode' # "Active" \/ RunStarts \/ o.edge
                    THEN 0 ELSE Later(sinceEdge, o.elapsed, ClockMod)
    /\ armings' = IF command'.stage = "Tracking" THEN 0
                  ELSE IF /\ mode \in {"Disarmed", "HallRecovery"} /\ armings < FaultLimit
                          /\ mode' \in {"Ready", "BrakeHold"} /\ o.throttle = "Rest"
                       THEN armings + 1 ELSE armings
    /\ faultedRuns' = IF command'.stage = "Tracking" THEN 0
                      ELSE IF command.energize /\ PowerFaultSeen(o)
                           THEN faultedRuns + 1 ELSE faultedRuns

HInit == Init /\ HistoryInit
HNext == \E o \in Inputs : Update(o) /\ Record(o)
HSpec == HInit /\ [][HNext]_allVars

-----------------------------------------------------------------------------
\* Every variable keeps the type of the Rust field it stands for; a payload is
\* held only by the State constructor that carries it.
TypeOK ==
    /\ now \in Clock /\ latched \in SUBSET Faults /\ mode \in Mode
    /\ quietSince \in Clock /\ (mode # "HallRecovery" => quietSince = 0)
    /\ run \in Run /\ (mode # "Active" => run = NoRun)
    /\ retryLimitedLatched \in BOOLEAN /\ faultCounted \in BOOLEAN
    /\ consecutiveFaults \in 0..FaultLimit /\ hallRetries \in 0..RetryLimit
    /\ retryPending \in BOOLEAN /\ command \in Command

\* After boot and after every loss the README says needs a rest sample (or a
\* run that timed out or lost its demand), nothing is energized until a later
\* pass without such a loss has seen the throttle at rest.
RestBeforeTorque == command.energize => rested

\* Hall interruptions restart the motor without a rest sample at most
\* RetryLimit times per throttle press, whatever brake taps, entry-speed waits
\* and further interruptions come in between.
RetriesPerPress == retryRuns <= RetryLimit

\* A run that restarts after a Hall interruption starts only after the Hall has
\* stayed valid for the whole quiet interval.
RetryAfterQuiet == [][retryRuns' > retryRuns => sinceInterrupt' >= RetryQuiet]_allVars

\* A motor that makes no Hall progress is released: the wrapping deadlines
\* bound the time since the run start and since the latest Hall edge.
StallBounded ==
    command.energize =>
        /\ InStartup(run) => sinceStart < StartupTimeout
        /\ run.stage = "AwaitingFirstEdge" => sinceEdge < FirstHallTimeout
        /\ run.stage = "StartupTracking" /\ run.progress >= 0 =>
               \E t \in {SecondHallTimeout} \cup RunningHallTimeouts : sinceEdge < t
        /\ ~InStartup(run) =>
               \E t \in {SecondHallTimeout} \cup RunningHallTimeouts : sinceEdge < t

\* FaultLimit runs that ended in a power-stage fault without normal tracking in
\* between are the last: no further one is energized.
FaultedRunsBounded == command.energize => faultedRuns < FaultLimit

\* However long a fault stays latched, and however its software trip and its
\* hardware break are spread over passes, one arming counts at most one fault.
OneFaultPerArming == consecutiveFaults <= armings + 1

\* Once locked out the controller grants nothing, acknowledges nothing and
\* stays locked out until the reset.
LockoutIsPermanent ==
    [][consecutiveFaults >= FaultLimit =>
           consecutiveFaults' >= FaultLimit /\ command' = Off]_allVars

\* What restarts a motor without a new rest sample, or after a fault, is
\* bounded: by the press for Hall interruptions, until the next reset for
\* power-stage faults.
RestartsAreBounded == RetriesPerPress /\ FaultedRunsBounded
=============================================================================
