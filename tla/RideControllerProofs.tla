------------------------ MODULE RideControllerProofs ------------------------
(***************************************************************************)
(* Proofs about the ride state machine for every clock, timeout, limit and *)
(* set of inputs allowed by RideAssumption.                                *)
(***************************************************************************)
EXTENDS RideProperties, TLAPS

\* The controller's bookkeeping agrees with its mode: authority is held only
\* with every power-stage fault forgiven by an arming, and a recovery that
\* resumed without rest still owes the retry it was granted.
Bookkeeping ==
    /\ command.energize => mode = "Active"
    /\ mode # "Disarmed" => /\ ~faultCounted /\ ~retryLimitedLatched
                            /\ consecutiveFaults < FaultLimit
    /\ consecutiveFaults = FaultLimit => faultCounted
    /\ retryPending => hallRetries < RetryLimit

\* How the history of the observations is reflected in the controller.
History ==
    /\ mode # "Disarmed" => rested
    /\ retryRuns \in Nat /\ retryRuns <= hallRetries
    /\ owesRetry => mode \in {"Disarmed", "HallRecovery"} \/ retryPending
    /\ rested \in BOOLEAN /\ owesRetry \in BOOLEAN
    /\ faultedRuns \in Nat /\ faultedRuns <= consecutiveFaults
    /\ armings \in Nat
    /\ consecutiveFaults <= armings + (IF faultCounted THEN 1 ELSE 0)

IInv == TypeOK /\ Bookkeeping /\ History

\* What the wrapping clock and deadlines say of the time that has passed.  A
\* deadline is ahead of now by what is left of its timeout, and a startup that
\* rolls back may overstay its Hall deadline; the quiet interval of a recovery
\* is counted from the latest interruption, and is over once it is left.
HallTimeouts(stage) ==
    IF stage = "AwaitingFirstEdge" THEN {FirstHallTimeout}
    ELSE {SecondHallTimeout} \cup RunningHallTimeouts
RollsBack(r) == r.stage = "StartupTracking" /\ r.progress < 0
StartupTimed ==
    InStartup(run) => /\ sinceStart < StartupTimeout
                      /\ WrapAdd(run.startupDeadline, sinceStart) = WrapAdd(now, StartupTimeout)
HallTimed ==
    \E h \in HallTimeouts(run.stage) :
        /\ WrapAdd(run.hallDeadline, sinceEdge) = WrapAdd(now, h)
        /\ sinceEdge < h \/ RollsBack(run)
RunTimed == mode = "Active" => StartupTimed /\ HallTimed
QuietTimed ==
    /\ mode = "HallRecovery" /\ sinceInterrupt < RetryQuiet =>
           WrapAdd(quietSince, sinceInterrupt) = now
    /\ retryPending /\ mode \notin {"Disarmed", "HallRecovery"} =>
           mode # "Active" /\ sinceInterrupt = RetryQuiet
Timing ==
    /\ sinceStart \in Nat /\ sinceEdge \in Nat /\ sinceEdge <= sinceStart
    /\ sinceInterrupt \in 0..RetryQuiet
    /\ RunTimed /\ QuietTimed

-----------------------------------------------------------------------------
LEMMA WrapAddInClock ==
    ASSUME NEW t \in Clock, NEW d \in 0..(ClockMod - 1)
    PROVE  WrapAdd(t, d) \in Clock
BY RideAssumption DEF Clock, WrapAdd

LEMMA TimeInClock == ASSUME NEW o \in Inputs, now \in Clock
                     PROVE  Time(o) \in Clock
<1>1. o.elapsed \in 0..(ClockMod - 1)
  BY RideAssumption DEF Observation
<1> QED BY <1>1, WrapAddInClock DEF Time

LEMMA InputTypes ==
    ASSUME NEW o \in Inputs
    PROVE  /\ o.throttle \in {"Invalid", "Rest", "Pressed"}
           /\ o.newFaults \subseteq Faults /\ Faults \subseteq FaultFlag
           /\ o.events \in 0..2 /\ o.step \in Int
           /\ o.hallTimeout \in 0..(ClockMod - 1)
           /\ o.tripped => o.events > 0 /\ (o.events = 1 => ~o.hallReason)
           /\ o.tripped \in BOOLEAN /\ o.hallReason \in BOOLEAN
<1>1. o \in Observation /\ Consistent(o)
  BY RideAssumption
<1>2. o.hallTimeout \in RunningHallTimeouts
  BY <1>1 DEF Observation
<1>3. o.hallTimeout \in 0..(ClockMod - 1)
  <2>1. RunningHallTimeouts \subseteq 1..(ClockMod - 1) /\ ClockMod \in Nat
    BY RideAssumption
  <2>2. o.hallTimeout \in 1..(ClockMod - 1)
    BY <1>2, <2>1
  <2> QED BY <2>1, <2>2
<1>4. /\ o.throttle \in {"Invalid", "Rest", "Pressed"}
      /\ o.newFaults \subseteq Faults
      /\ o.events \in 0..2 /\ o.step \in -1..1
      /\ o.tripped \in BOOLEAN /\ o.hallReason \in BOOLEAN
  BY <1>1 DEF Observation
<1> QED BY <1>1, <1>3, <1>4, RideAssumption DEF Consistent

-----------------------------------------------------------------------------
(* The commands a pass can end with.                                       *)

LEMMA WithheldCommand ==
    ASSUME NEW m \in Mode \ {"Active"}
    PROVE  /\ Withheld(m) \in Command
           /\ Withheld(m).energize = FALSE /\ Withheld(m).stage = m
BY DEF Command, Withheld, Mode, RunStage, FaultFlag

LEMMA AcknowledgingCommand ==
    ASSUME NEW m \in Mode \ {"Active"}, NEW mask \in SUBSET FaultFlag
    PROVE  /\ [Withheld(m) EXCEPT !.ack = mask] \in Command
           /\ [Withheld(m) EXCEPT !.ack = mask].energize = FALSE
           /\ [Withheld(m) EXCEPT !.ack = mask].stage = m
BY DEF Command, Withheld, Mode, RunStage, FaultFlag

LEMMA EnergizedCommand ==
    ASSUME NEW s \in RunStage, NEW b \in BOOLEAN
    PROVE  Energized(s, b) \in Command /\ Energized(s, b).stage = s
BY DEF Command, Energized, Mode, RunStage, FaultFlag

LEMMA NewRunTyped == ASSUME NEW o \in Inputs, now \in Clock
                     PROVE  NewRun(o) \in Run
<1>1. Time(o) \in Clock
  BY TimeInClock
<1>2. WrapAdd(Time(o), StartupTimeout) \in Clock
  BY <1>1, WrapAddInClock, RideAssumption
<1>3. WrapAdd(Time(o), FirstHallTimeout) \in Clock
  BY <1>1, WrapAddInClock, RideAssumption
<1> QED BY <1>2, <1>3 DEF NewRun, Run, RunStage

LEMMA AdvanceTyped == ASSUME NEW o \in Inputs, now \in Clock, NEW r \in Run
                      PROVE  Advance(r, o) \in Run
<1>1. Time(o) \in Clock
  BY TimeInClock
<1>2. \A d \in 0..(ClockMod - 1) : WrapAdd(Time(o), d) \in Clock
  BY <1>1, WrapAddInClock
<1>3. SecondHallTimeout \in 0..(ClockMod - 1) /\ o.hallTimeout \in 0..(ClockMod - 1)
  BY RideAssumption, InputTypes
<1>4. o.step \in Int
  BY InputTypes
<1>5. EdgeDeadline(r, o) \in Clock
  BY <1>2, <1>3 DEF EdgeDeadline
<1>6. EdgeStage(r, o) \in RunStage
  BY DEF EdgeStage, Run, RunStage
<1> QED BY <1>4, <1>5, <1>6 DEF Advance, Run

LEMMA NoRunTyped == NoRun \in Run
BY RideAssumption DEF NoRun, Run, RunStage, Clock

-----------------------------------------------------------------------------
(* Each way out of update_authority() leaves a well-formed State, and holds *)
(* a command that energizes only in Active.                                *)

Shape ==
    /\ mode \in Mode
    /\ quietSince \in Clock /\ (mode # "HallRecovery" => quietSince = 0)
    /\ run \in Run /\ (mode # "Active" => run = NoRun)
    /\ command \in Command
    /\ command.energize => mode = "Active"

LEMMA HoldShape == ASSUME NEW m \in Mode \ {"Active"}, Hold(m) PROVE Shape'
<1>1. 0 \in Clock
  BY RideAssumption DEF Clock
<1> QED BY <1>1, NoRunTyped, WithheldCommand DEF Hold, Enter, Shape

LEMMA EnergizeShape ==
    ASSUME NEW r \in Run, NEW b \in BOOLEAN, Energize(r, b) PROVE Shape'
<1>1. 0 \in Clock
  BY RideAssumption DEF Clock
<1>2. r.stage \in RunStage
  BY DEF Run
<1> QED BY <1>1, <1>2, EnergizedCommand DEF Energize, Shape, Mode

LEMMA UpdateShape ==
    ASSUME TypeOK, NEW o \in Inputs, Update(o)
    PROVE  Shape'
<1> USE DEF TypeOK
<1>1. Time(o) \in Clock /\ 0 \in Clock
  BY TimeInClock, RideAssumption DEF Clock
<1>2. ObservedFaults(o) \in SUBSET FaultFlag
  BY InputTypes DEF ObservedFaults
<1>3. CASE StayLockedOut(o)
  BY <1>3, HoldShape DEF StayLockedOut, Mode
<1>4. CASE DisarmUntilRest(o)
  <2>1. "Disarmed" \in Mode \ {"Active"}
    BY DEF Mode
  <2> QED BY <1>1, <1>2, <1>4, <2>1, AcknowledgingCommand, NoRunTyped
          DEF DisarmUntilRest, Enter, Shape, Off
<1>5. CASE InterruptByHall(o)
  <2>1. "HallRecovery" \in Mode \ {"Active"}
    BY DEF Mode
  <2> QED BY <1>1, <1>2, <1>5, <2>1, AcknowledgingCommand, NoRunTyped
          DEF InterruptByHall, Enter, Shape
<1>6. CASE ArmFromRest(o)
  BY <1>6, HoldShape DEF ArmFromRest, Mode
<1>7. CASE WaitForHall(o)
  <2>1. "HallRecovery" \in Mode \ {"Active"}
    BY DEF Mode
  <2> QED BY <1>7, <2>1, WithheldCommand, NoRunTyped DEF WaitForHall, Enter, Shape
<1>8. ASSUME NEW p, UpdateReady(o, p) PROVE Shape'
  <2>1. CASE StartAllowed(o)
    BY <1>8, <2>1, NewRunTyped, EnergizeShape DEF UpdateReady
  <2>2. CASE ~StartAllowed(o)
    BY <1>8, <2>2, HoldShape DEF UpdateReady, Mode
  <2> QED BY <2>1, <2>2
<1>9. CASE UpdateActive(o)
  <2> DEFINE r == Advance(run, o)
             demand == ~o.brake /\ Demand(o)
  <2>1. r \in Run
    BY AdvanceTyped
  <2>2. CASE WithholdFor(o)
    BY <2>2, HoldShape DEF WithholdFor, Mode
  <2>3. ASSUME NEW s \in RunStage, Energize([r EXCEPT !.stage = s], demand)
        PROVE  Shape'
    <3>1. [r EXCEPT !.stage = s] \in Run
      BY <2>1 DEF Run
    <3> QED BY <2>3, <3>1, EnergizeShape
  <2>4. r.stage \in RunStage
    BY <2>1 DEF Run
  <2> QED BY <1>9, <2>2, <2>3, <2>4 DEF UpdateActive, Continue, RunStage
<1> QED BY <1>3, <1>4, <1>5, <1>6, <1>7, <1>8, <1>9
        DEF Update, RetryAfterHall, ServeArmed

-----------------------------------------------------------------------------
(* What the observation of one pass implies before any decision.           *)

LEMMA ObservedLoss ==
    ASSUME NEW o \in Inputs, latched \in SUBSET Faults
    PROVE  /\ LossNeedingRest(o) <=> RequiresRest(o)
           /\ HallOnly(o) <=> ~RequiresRest(o) /\ HallInterrupted(o)
           /\ NewPowerFault(o) \/ PowerFaultLatched(o) => RequiresRest(o)
           /\ PowerFaultSeen(o) /\ ~retryLimitedLatched => NewPowerFault(o)
<1>1. o.events \in {0, 1, 2} /\ latched \cup o.newFaults \subseteq FaultFlag
  BY InputTypes
<1>2. RequiresRest(o) <=> LossNeedingRest(o)
  BY <1>1, InputTypes
     DEF RequiresRest, LossNeedingRest, HallLoss, ObservedFaults, HallRetryFaults
<1>3. HallInterrupted(o) /\ ~RequiresRest(o) <=> HallOnly(o)
  BY <1>1, <1>2, InputTypes
     DEF HallInterrupted, HallOnly, RequiresRest, HallLoss, ObservedFaults,
         HallRetryFaults, FaultFlag
<1>4. NewPowerFault(o) \/ PowerFaultLatched(o) => RequiresRest(o)
  BY InputTypes DEF NewPowerFault, PowerFaultLatched, RequiresRest, HallLoss,
                    RetryLimitedFaults, HallRetryFaults
<1>5. PowerFaultSeen(o) /\ ~retryLimitedLatched => NewPowerFault(o)
  BY DEF PowerFaultSeen, NewPowerFault, PowerFaultLatched, ObservedFaults,
         RetryLimitedFaults, PowerFaults
<1> QED BY <1>2, <1>3, <1>4, <1>5

LEMMA ObservedCounters ==
    ASSUME TypeOK, Bookkeeping, NEW o \in Inputs
    PROVE  /\ CountedFaults(o) \in 0..FaultLimit
           /\ LockedOut(o) => FaultCounted(o)
           /\ LockedOut(o) <=> CountedFaults(o) = FaultLimit
           /\ FaultCounted(o) \in BOOLEAN
           /\ ~RequiresRest(o) => /\ FaultCounted(o) = faultCounted
                                  /\ CountedFaults(o) = consecutiveFaults
                                  /\ ~PowerFaultLatched(o)
           /\ Retries(o) \in 0..RetryLimit
           /\ Pending(o) \in BOOLEAN /\ (Pending(o) => Retries(o) < RetryLimit)
<1> USE DEF TypeOK
<1>1. NewPowerFault(o) \in BOOLEAN
  BY InputTypes DEF NewPowerFault, PowerFaultLatched
<1>2. NewPowerFault(o) \/ PowerFaultLatched(o) => RequiresRest(o)
  BY ObservedLoss
<1>3. FaultLimit \in Nat \ {0} /\ RetryLimit \in Nat
  BY RideAssumption
<1>4. /\ CountedFaults(o) \in 0..FaultLimit
      /\ LockedOut(o) <=> CountedFaults(o) = FaultLimit
      /\ LockedOut(o) => FaultCounted(o)
  BY <1>1, <1>3 DEF CountedFaults, LockedOut, FaultCounted, Bookkeeping
<1>5. ~RequiresRest(o) => /\ FaultCounted(o) = faultCounted
                         /\ CountedFaults(o) = consecutiveFaults
                         /\ ~PowerFaultLatched(o)
  BY <1>2 DEF FaultCounted, CountedFaults
<1>6. FaultCounted(o) \in BOOLEAN
  BY <1>1 DEF FaultCounted
<1>7. Retries(o) \in 0..RetryLimit
  BY <1>3 DEF Retries
<1>8. Pending(o) \in BOOLEAN /\ (Pending(o) => Retries(o) < RetryLimit)
  BY DEF Pending, Retries, Bookkeeping
<1> QED BY <1>4, <1>5, <1>6, <1>7, <1>8

-----------------------------------------------------------------------------
(* What a pass leaves behind, relative to its observation: the facts from  *)
(* which every conjunct of the invariant follows.                          *)

ArmsFromRest(o) ==
    mode \in {"Disarmed", "HallRecovery"} /\ mode' \in {"Ready", "BrakeHold"} /\ Rest(o)

\* Arming, and keeping an armed mode, need an undisturbed fault account.
ArmedOutcome(o) ==
    /\ mode' # "Disarmed" => ~LockedOut(o) /\ ~RequiresRest(o) /\ ~faultCounted'
    /\ mode' # "Disarmed" /\ mode = "Disarmed" => Rest(o)
    /\ mode' # "Disarmed" /\ command.energize /\ ~command'.energize
           => HallInterrupted(o) \/ o.brake
    /\ \/ faultCounted' = FaultCounted(o)
       \/ ~faultCounted' /\ ~LockedOut(o) /\ ArmsFromRest(o)
    /\ faultCounted' \in BOOLEAN

\* A retry is spent by the run it starts, and otherwise stays owed.
RetryOutcome(o) ==
    /\ hallRetries' \in 0..RetryLimit /\ retryPending' \in BOOLEAN
    /\ retryPending' => hallRetries' < RetryLimit
    /\ Rest(o) \/ hallRetries' >= hallRetries
    /\ owesRetry /\ RunStarts /\ ~Rest(o) => hallRetries' = hallRetries + 1
    /\ owesRetry /\ ~RunStarts /\ ~Rest(o) =>
           mode' \in {"Disarmed", "HallRecovery"} \/ retryPending'
    /\ HallOnly(o) => mode' \in {"Disarmed", "HallRecovery"}

LEMMA UpdateOutcome ==
    ASSUME IInv, NEW o \in Inputs, Update(o)
    PROVE  ArmedOutcome(o) /\ RetryOutcome(o)
<1> USE DEF IInv, TypeOK, Bookkeeping, History
<1>1. /\ HallOnly(o) <=> ~RequiresRest(o) /\ HallInterrupted(o)
      /\ ~RequiresRest(o) => FaultCounted(o) = faultCounted
      /\ FaultCounted(o) \in BOOLEAN
      /\ Retries(o) \in 0..RetryLimit /\ Pending(o) \in BOOLEAN
      /\ Pending(o) => Retries(o) < RetryLimit
      /\ RetryLimit \in Nat
  BY ObservedLoss, ObservedCounters, RideAssumption
<1>2. RetriesKept(o) => /\ hallRetries' \in 0..RetryLimit /\ retryPending' \in BOOLEAN
                        /\ retryPending' => hallRetries' < RetryLimit
                        /\ Rest(o) \/ hallRetries' = hallRetries
                        /\ ~Rest(o) => retryPending' = retryPending
  BY <1>1 DEF RetriesKept, Retries, Pending
<1>3. CASE StayLockedOut(o)
  BY <1>1, <1>3 DEF StayLockedOut, Hold, Enter, ArmedOutcome, RetryOutcome, RunStarts
<1>4. CASE DisarmUntilRest(o)
  BY <1>1, <1>2, <1>4 DEF DisarmUntilRest, Enter, ArmedOutcome, RetryOutcome, RunStarts
<1>5. CASE InterruptByHall(o)
  BY <1>1, <1>2, <1>5 DEF InterruptByHall, Enter, ArmedOutcome, RetryOutcome, RunStarts
<1>6. CASE ArmFromRest(o)
  <2>1. CASE Rest(o)
    <3>1. mode' \in {"BrakeHold", "Ready"} /\ faultCounted' = FALSE
      BY <1>6, <2>1 DEF ArmFromRest, Hold, Enter
    <3> QED BY <1>1, <1>2, <1>6, <2>1, <3>1
            DEF ArmFromRest, ArmsFromRest, ArmedOutcome, RetryOutcome, RunStarts,
                Interrupted
  <2>2. CASE ~Rest(o)
    BY <1>1, <1>2, <1>6, <2>2 DEF ArmFromRest, Hold, Enter, ArmedOutcome,
                                  RetryOutcome, RunStarts, Interrupted
  <2> QED BY <2>1, <2>2
<1>7. CASE WaitForHall(o)
  BY <1>1, <1>2, <1>7 DEF WaitForHall, Enter, ArmedOutcome, RetryOutcome,
                          RunStarts, Interrupted
<1>8. ASSUME NEW p \in BOOLEAN, UpdateReady(o, p), ~Interrupted(o),
             mode \in {"BrakeHold", "Ready", "HallRecovery"},
             p => Retries(o) < RetryLimit,
             owesRetry /\ ~Rest(o) => p
      PROVE  ArmedOutcome(o) /\ RetryOutcome(o)
  <2>1. CASE StartAllowed(o)
    <3>1. /\ mode' = "Active" /\ retryPending' = FALSE
          /\ faultCounted' = FaultCounted(o)
          /\ hallRetries' = Retries(o) + (IF p THEN 1 ELSE 0)
      BY <1>8, <2>1 DEF UpdateReady, Energize
    <3>2. hallRetries' \in 0..RetryLimit /\ (Rest(o) \/ hallRetries' >= hallRetries)
      BY <1>1, <1>8, <3>1 DEF Retries
    <3>3. RunStarts /\ mode # "Disarmed" /\ ~command.energize
      BY <1>8, <3>1 DEF RunStarts
    <3> QED BY <1>1, <1>8, <3>1, <3>2, <3>3
            DEF ArmedOutcome, RetryOutcome, Interrupted, Retries
  <2>2. CASE ~StartAllowed(o)
    BY <1>1, <1>8, <2>2 DEF UpdateReady, Hold, Enter, ArmedOutcome,
                            RetryOutcome, RunStarts, Interrupted, Retries
  <2> QED BY <2>1, <2>2
<1>9. CASE RetryAfterHall(o)
  <2>1. Retries(o) < RetryLimit
    BY <1>1, <1>9 DEF RetryAfterHall, RetryBlocked
  <2> QED BY <1>8, <1>9, <2>1 DEF RetryAfterHall
<1>10. CASE ServeArmed(o)
  BY <1>1, <1>8, <1>10 DEF ServeArmed, Pending
<1>11. CASE UpdateActive(o)
  <2>1. CASE WithholdFor(o)
    BY <1>1, <1>2, <1>11, <2>1
       DEF UpdateActive, WithholdFor, Hold, Enter, ArmedOutcome, RetryOutcome,
           RunStarts, Interrupted
  <2>2. ASSUME NEW r, NEW b, Energize(r, b)
        PROVE  ArmedOutcome(o) /\ RetryOutcome(o)
    BY <1>1, <1>2, <1>11, <2>2
       DEF UpdateActive, Energize, Energized, ArmedOutcome, RetryOutcome,
           RunStarts, Interrupted
  <2> QED BY <1>11, <2>1, <2>2 DEF UpdateActive, Continue
<1> QED BY <1>3, <1>4, <1>5, <1>6, <1>7, <1>9, <1>10, <1>11 DEF Update

-----------------------------------------------------------------------------
(* The inductive invariant.                                                *)

LEMMA InitIInv == HInit => IInv
<1> SUFFICES ASSUME HInit PROVE IInv
  OBVIOUS
<1>1. 0 \in Clock /\ 0 \in 0..FaultLimit /\ 0 \in 0..RetryLimit /\ 0 < FaultLimit
  BY RideAssumption DEF Clock
<1>2. Off \in Command /\ Off.energize = FALSE
  BY WithheldCommand DEF Off, Mode
<1>3. TypeOK
  BY <1>1, <1>2, NoRunTyped DEF HInit, Init, TypeOK, Mode
<1>4. Bookkeeping
  BY <1>1, <1>2, RideAssumption DEF HInit, Init, Bookkeeping
<1>5. History
  <2>1. rested \in BOOLEAN /\ owesRetry \in BOOLEAN /\ ~owesRetry
    BY DEF HInit, HistoryInit
  <2>2. /\ retryRuns = 0 /\ faultedRuns = 0 /\ hallRetries = 0
        /\ consecutiveFaults = 0 /\ armings = 0 /\ ~faultCounted
    BY DEF HInit, HistoryInit, Init
  <2>3. mode = "Disarmed"
    BY DEF HInit, Init
  <2> QED BY <2>1, <2>2, <2>3 DEF History
<1> QED BY <1>3, <1>4, <1>5 DEF IInv

LEMMA PassIInv == ASSUME IInv, NEW o \in Inputs, Update(o), Record(o)
                  PROVE  IInv'
<1> USE DEF IInv
<1>1. Shape'
  BY UpdateShape
<1>2. ArmedOutcome(o) /\ RetryOutcome(o)
  BY UpdateOutcome
<1>3. /\ CountedFaults(o) \in 0..FaultLimit
      /\ LockedOut(o) => FaultCounted(o)
      /\ LockedOut(o) <=> CountedFaults(o) = FaultLimit
      /\ ~RequiresRest(o) => CountedFaults(o) = consecutiveFaults /\ ~PowerFaultLatched(o)
  BY ObservedCounters
<1>4. FaultLimit \in Nat \ {0} /\ RetryLimit \in Nat
  BY RideAssumption
<1>5. /\ now' \in Clock
      /\ latched' \in SUBSET Faults
      /\ retryLimitedLatched' = PowerFaultLatched(o)
      /\ consecutiveFaults' =
             IF command'.stage = "Tracking" THEN 0 ELSE CountedFaults(o)
  <2>1. Time(o) \in Clock
    BY TimeInClock DEF TypeOK
  <2>2. ObservedFaults(o) \in SUBSET Faults
    BY InputTypes DEF ObservedFaults, TypeOK
  <2> QED BY <2>1, <2>2 DEF Update, Observe
<1>6. TypeOK'
  <2>1. retryLimitedLatched' \in BOOLEAN
    BY <1>5 DEF PowerFaultLatched
  <2>2. consecutiveFaults' \in 0..FaultLimit
    BY <1>3, <1>4, <1>5
  <2> QED BY <1>1, <1>2, <1>5, <2>1, <2>2
          DEF TypeOK, Shape, ArmedOutcome, RetryOutcome
<1>7. Bookkeeping'
  <2>1. command'.energize => mode' = "Active"
    BY <1>1 DEF Shape
  <2>2. mode' # "Disarmed" => /\ ~faultCounted' /\ ~retryLimitedLatched'
                              /\ consecutiveFaults' < FaultLimit
    BY <1>2, <1>3, <1>4, <1>5 DEF ArmedOutcome
  <2>3. consecutiveFaults' = FaultLimit => faultCounted'
    BY <1>2, <1>3, <1>4, <1>5 DEF ArmedOutcome
  <2>4. retryPending' => hallRetries' < RetryLimit
    BY <1>2 DEF RetryOutcome
  <2> QED BY <2>1, <2>2, <2>3, <2>4 DEF Bookkeeping
<1>8. History'
  <2>1. LossNeedingRest(o) <=> RequiresRest(o)
    BY ObservedLoss DEF TypeOK
  <2>2. HallOnly(o) <=> ~RequiresRest(o) /\ HallInterrupted(o)
    BY ObservedLoss DEF TypeOK
  <2>3. mode' # "Disarmed" => rested'
    BY <1>2, <2>1, <2>2 DEF ArmedOutcome, Record, GivesUp, History, Rest
  <2>4. rested' \in BOOLEAN /\ owesRetry' \in BOOLEAN
    BY DEF Record
  <2>5. retryRuns' \in Nat /\ retryRuns' <= hallRetries'
    BY <1>2, <1>4 DEF RetryOutcome, Record, History, Rest, TypeOK
  <2>6. owesRetry' => mode' \in {"Disarmed", "HallRecovery"} \/ retryPending'
    BY <1>2 DEF RetryOutcome, Record, History, Rest
  <2>7. faultedRuns' \in Nat /\ faultedRuns' <= consecutiveFaults'
    <3>1. CASE command.energize /\ PowerFaultSeen(o)
      <4>1. ~faultCounted /\ ~retryLimitedLatched
        BY <3>1 DEF Bookkeeping
      <4>2. NewPowerFault(o)
        BY <3>1, <4>1, ObservedLoss DEF TypeOK
      <4>3. CountedFaults(o) = consecutiveFaults + 1
        BY <4>1, <4>2 DEF CountedFaults
      <4> QED BY <1>4, <1>5, <3>1, <4>3 DEF Record, History, TypeOK
    <3>2. CASE ~(command.energize /\ PowerFaultSeen(o))
      <4>1. CountedFaults(o) >= consecutiveFaults
        BY DEF CountedFaults, TypeOK
      <4>2. faultedRuns' = IF command'.stage = "Tracking" THEN 0 ELSE faultedRuns
        BY <3>2 DEF Record
      <4> QED BY <1>3, <1>4, <1>5, <4>1, <4>2 DEF History, TypeOK
    <3> QED BY <3>1, <3>2
  <2>8. armings' \in Nat /\ consecutiveFaults' <= armings' + (IF faultCounted' THEN 1 ELSE 0)
    <3>1. armings' = IF command'.stage = "Tracking" THEN 0
                     ELSE IF ArmsFromRest(o) /\ armings < FaultLimit
                          THEN armings + 1 ELSE armings
      BY DEF Record, ArmsFromRest, Rest
    <3>2. CountedFaults(o) <= armings + (IF FaultCounted(o) THEN 1 ELSE 0)
      BY DEF CountedFaults, FaultCounted, History, TypeOK
    <3>3. \/ faultCounted' = FaultCounted(o)
          \/ ~faultCounted' /\ CountedFaults(o) < FaultLimit /\ ArmsFromRest(o)
      BY <1>2, <1>3, <1>4 DEF ArmedOutcome
    <3>4. armings \in Nat
      BY DEF History
    <3>5. command'.stage # "Tracking" =>
              CountedFaults(o) <= armings' + (IF faultCounted' THEN 1 ELSE 0)
      BY <1>3, <1>4, <3>1, <3>2, <3>3, <3>4
    <3> QED BY <1>5, <3>1, <3>4, <3>5
  <2> QED BY <2>3, <2>4, <2>5, <2>6, <2>7, <2>8 DEF History
<1> QED BY <1>6, <1>7, <1>8

LEMMA StutterIInv == IInv /\ UNCHANGED allVars => IInv'
BY DEF IInv, TypeOK, Bookkeeping, History, allVars, vars, controllerVars, historyVars

\* The inductive invariant holds in every reachable state.
THEOREM Invariance == HSpec => []IInv
<1>1. IInv /\ [HNext]_allVars => IInv'
  BY PassIInv, StutterIInv DEF HNext
<1> QED BY InitIInv, <1>1, PTL DEF HSpec

\* The controller's fields keep their Rust types, for every clock and limit.
THEOREM TypeCorrect == HSpec => []TypeOK
<1>1. IInv => TypeOK
  BY DEF IInv
<1> QED BY Invariance, <1>1, PTL

\* No torque between a loss that needs a rest sample and that sample.
THEOREM TorqueNeedsRest == HSpec => []RestBeforeTorque
<1>1. IInv => RestBeforeTorque
  BY DEF IInv, Bookkeeping, History, RestBeforeTorque
<1> QED BY Invariance, <1>1, PTL

\* The retry budget of a throttle press is never exceeded.
THEOREM RetryBudget == HSpec => []RetriesPerPress
<1>1. IInv => RetriesPerPress
  BY RideAssumption DEF IInv, TypeOK, History, RetriesPerPress
<1> QED BY Invariance, <1>1, PTL

\* The lockout stops the run after FaultLimit faulted ones.
THEOREM FaultBudget == HSpec => []FaultedRunsBounded
<1>1. IInv => FaultedRunsBounded
  BY RideAssumption DEF IInv, TypeOK, Bookkeeping, History, FaultedRunsBounded
<1> QED BY Invariance, <1>1, PTL

\* What restarts a motor without a new rest sample, or after a fault, is bounded.
THEOREM RestartBudgets == HSpec => []RestartsAreBounded
<1>1. RetriesPerPress /\ FaultedRunsBounded => RestartsAreBounded
  BY DEF RestartsAreBounded
<1> QED BY RetryBudget, FaultBudget, <1>1, PTL

\* A fault that stays latched, or that trips and breaks in several passes,
\* counts once per arming.
THEOREM FaultsCountOncePerArming == HSpec => []OneFaultPerArming
<1>1. IInv => OneFaultPerArming
  BY DEF IInv, TypeOK, History, OneFaultPerArming
<1> QED BY Invariance, <1>1, PTL

\* The lockout ends only with the reset.
THEOREM LockoutHolds == HSpec => LockoutIsPermanent
<1>1. ASSUME IInv, consecutiveFaults >= FaultLimit,
             NEW o \in Inputs, Update(o)
      PROVE  consecutiveFaults' >= FaultLimit /\ command' = Off
  <2>1. FaultLimit \in Nat \ {0} /\ consecutiveFaults = FaultLimit /\ faultCounted
    BY <1>1, RideAssumption DEF IInv, TypeOK, Bookkeeping
  <2>2. CountedFaults(o) = FaultLimit /\ LockedOut(o)
    BY <2>1 DEF CountedFaults, LockedOut
  <2>3. StayLockedOut(o)
    BY <1>1, <2>2 DEF Update, DisarmUntilRest, InterruptByHall, ArmFromRest,
       WaitForHall, RetryAfterHall, ServeArmed, UpdateActive, Interrupted
  <2>4. command' = Off
    BY <2>3 DEF StayLockedOut, Hold, Enter, Off
  <2>5. command'.stage # "Tracking"
    BY <2>4 DEF Off, Withheld
  <2> QED BY <1>1, <2>1, <2>2, <2>4, <2>5 DEF Update, Observe
<1>2. IInv /\ [HNext]_allVars =>
        [consecutiveFaults >= FaultLimit =>
           consecutiveFaults' >= FaultLimit /\ command' = Off]_allVars
  BY <1>1 DEF HNext
<1> QED BY Invariance, <1>2, PTL DEF HSpec, LockoutIsPermanent
-----------------------------------------------------------------------------
(* The wrapping clock: how the timing part of the invariant is kept.       *)

\* A deadline s ticks after it was set h ahead: as time passes it stays the
\* same distance away, and it is seen as reached once it is not too long past.
LEMMA DeadlineAhead ==
    ASSUME NEW t \in Clock, NEW e \in 1..(ClockMod - 1), NEW deadline \in Clock,
           NEW s \in Nat, s < ClockMod, NEW h \in Clock,
           WrapAdd(deadline, s) = WrapAdd(t, h)
    PROVE  /\ s + e < ClockMod => WrapAdd(deadline, s + e) = WrapAdd(WrapAdd(t, e), h)
           /\ s + e >= h /\ 2 * (s + e - h) < ClockMod =>
                  DeadlineReached(WrapAdd(t, e), deadline)
<1>1. ClockMod \in Nat \ {0}
  BY RideAssumption
<1> QED BY <1>1 DEF Clock, WrapAdd, WrapSub, DeadlineReached

LEMMA PassTimes ==
    ASSUME NEW o \in Inputs
    PROVE  /\ ClockMod \in Nat \ {0} /\ MaxElapsed \in Nat /\ StartupTimeout \in Nat
           /\ 2 * (StartupTimeout + MaxElapsed - 2) < ClockMod
           /\ StartupTimeout < ClockMod /\ StartupTimeout > 0
           /\ o.elapsed \in 1..(ClockMod - 1) /\ o.elapsed <= MaxElapsed
           /\ RetryQuiet \in 1..(ClockMod - 1)
<1>1. o \in Observation
  BY RideAssumption
<1>2. o.elapsed \in 1..MaxElapsed
  BY <1>1 DEF Observation
<1> QED BY <1>2, RideAssumption

\* Every Hall timeout a run may be given is one of the configured ones.
LEMMA TimeoutsInClock ==
    ASSUME NEW stage, NEW h \in HallTimeouts(stage)
    PROVE  h \in Clock /\ h > 0
<1>1. /\ FirstHallTimeout \in 1..(ClockMod - 1) /\ SecondHallTimeout \in 1..(ClockMod - 1)
      /\ RunningHallTimeouts \subseteq 1..(ClockMod - 1)
      /\ ClockMod \in Nat
  BY RideAssumption
<1>2. h \in 1..(ClockMod - 1)
  BY <1>1 DEF HallTimeouts
<1> QED BY <1>1, <1>2 DEF Clock

\* A run that starts has its full timeouts ahead of it.
LEMMA NewRunTimed ==
    ASSUME NEW o \in Inputs, now \in Clock, now' = Time(o), mode' = "Active",
           run' = NewRun(o), sinceStart' = 0, sinceEdge' = 0
    PROVE  RunTimed'
<1>1. Time(o) \in Clock
  BY TimeInClock
<1>2. /\ WrapAdd(Time(o), StartupTimeout) \in Clock
      /\ WrapAdd(Time(o), FirstHallTimeout) \in Clock
      /\ FirstHallTimeout > 0 /\ StartupTimeout > 0
  BY <1>1, WrapAddInClock, RideAssumption
<1>3. \A c \in Clock : WrapAdd(c, 0) = c
  BY RideAssumption DEF WrapAdd, Clock
<1>4. StartupTimed'
  BY <1>1, <1>2, <1>3 DEF StartupTimed, NewRun
<1>5. HallTimed'
  BY <1>1, <1>2, <1>3 DEF HallTimed, NewRun, HallTimeouts
<1> QED BY <1>4, <1>5 DEF RunTimed

\* A run that goes on has not found a deadline reached, so that the time since
\* its start and since its latest edge is within the timeouts.
LEMMA RunStaysTimed ==
    ASSUME IInv, Timing, NEW o \in Inputs, mode = "Active", mode' = "Active",
           now' = Time(o), ~TimedOut(Advance(run, o), Time(o)),
           NEW stage \in RunStage, run' = [Advance(run, o) EXCEPT !.stage = stage],
           \/ stage = Advance(run, o).stage
           \/ ~InStartup(run) /\ stage \in {"Tracking", "Coasting"},
           sinceStart' = Later(sinceStart, o.elapsed, ClockMod),
           sinceEdge' = IF o.edge THEN 0 ELSE Later(sinceEdge, o.elapsed, ClockMod)
    PROVE  RunTimed' /\ sinceEdge' <= sinceStart' /\ sinceStart' \in Nat /\ sinceEdge' \in Nat
<1> DEFINE r == Advance(run, o)
           e == o.elapsed
<1>1. /\ now \in Clock /\ run \in Run /\ r \in Run /\ Time(o) \in Clock
      /\ Time(o) = WrapAdd(now, e)
  BY AdvanceTyped, TimeInClock DEF IInv, TypeOK, Time
<1>2. /\ ClockMod \in Nat \ {0} /\ MaxElapsed \in Nat /\ StartupTimeout \in Nat
      /\ 2 * (StartupTimeout + MaxElapsed - 2) < ClockMod
      /\ StartupTimeout < ClockMod /\ StartupTimeout > 0
      /\ e \in 1..(ClockMod - 1) /\ e <= MaxElapsed
  BY PassTimes
<1>3. /\ sinceStart \in Nat /\ sinceEdge \in Nat /\ sinceEdge <= sinceStart
      /\ StartupTimed /\ HallTimed
  BY DEF Timing, RunTimed
<1>4. sinceEdge' <= sinceStart' /\ sinceStart' \in Nat /\ sinceEdge' \in Nat
  BY <1>2, <1>3 DEF Later
<1>5. /\ r.startupDeadline = run.startupDeadline /\ r.startupDeadline \in Clock
      /\ ~o.edge => r.hallDeadline = run.hallDeadline /\ r.stage = run.stage
      /\ o.edge => r.hallDeadline = EdgeDeadline(run, o) /\ r.stage # "AwaitingFirstEdge"
      /\ r.stage \in RunStage /\ run.hallDeadline \in Clock
      /\ InStartup(r) => InStartup(run)
  BY <1>1 DEF Advance, Run, EdgeStage, InStartup, RunStage
<1>6. /\ run'.stage = stage /\ run'.startupDeadline = r.startupDeadline
      /\ run'.hallDeadline = r.hallDeadline /\ run'.progress = r.progress
  BY <1>1 DEF Run
<1>7. InStartup(run') => InStartup(r) /\ stage = r.stage
  BY <1>6 DEF InStartup
<1>8. HallTimeouts(stage) = HallTimeouts(r.stage)
  BY <1>5 DEF HallTimeouts, InStartup, RunStage
<1>9. StartupTimed'
  <2> SUFFICES ASSUME InStartup(run')
               PROVE  /\ sinceStart' < StartupTimeout
                      /\ WrapAdd(run'.startupDeadline, sinceStart') = WrapAdd(now', StartupTimeout)
    BY DEF StartupTimed
  <2>1. /\ sinceStart < StartupTimeout
        /\ WrapAdd(run.startupDeadline, sinceStart) = WrapAdd(now, StartupTimeout)
        /\ ~DeadlineReached(Time(o), run.startupDeadline)
    BY <1>3, <1>5, <1>7 DEF StartupTimed, TimedOut
  <2>2. StartupTimeout \in Clock /\ sinceStart < ClockMod
    BY <1>2, <1>3, <2>1 DEF Clock
  <2>3. /\ sinceStart + e < ClockMod =>
               WrapAdd(run.startupDeadline, sinceStart + e) = WrapAdd(Time(o), StartupTimeout)
        /\ sinceStart + e >= StartupTimeout /\ 2 * (sinceStart + e - StartupTimeout) < ClockMod =>
               DeadlineReached(Time(o), run.startupDeadline)
    BY <1>1, <1>2, <1>3, <1>5, <2>1, <2>2, DeadlineAhead
  <2>4. sinceStart + e < StartupTimeout
    BY <1>2, <1>3, <2>1, <2>3
  <2>5. sinceStart' = sinceStart + e
    BY <1>2, <1>3, <2>4 DEF Later
  <2> QED BY <1>2, <1>3, <1>5, <1>6, <2>3, <2>4, <2>5
<1>10. HallTimed'
  <2>1. CASE o.edge
    <3>1. PICK h \in HallTimeouts(r.stage) : EdgeDeadline(run, o) = WrapAdd(Time(o), h)
      <4>1. o.hallTimeout \in RunningHallTimeouts
        BY RideAssumption DEF Observation
      <4> QED BY <1>5, <2>1, <4>1 DEF EdgeDeadline, HallTimeouts
    <3>2. h \in Clock /\ h > 0
      BY <3>1, TimeoutsInClock
    <3>3. WrapAdd(Time(o), h) \in Clock
      BY <1>1, <3>2, WrapAddInClock DEF Clock
    <3>4. WrapAdd(WrapAdd(Time(o), h), 0) = WrapAdd(Time(o), h)
      BY <1>2, <3>3 DEF WrapAdd, Clock
    <3> QED BY <1>5, <1>6, <1>8, <2>1, <3>1, <3>2, <3>4 DEF HallTimed
  <2>2. CASE ~o.edge
    <3>1. PICK h \in HallTimeouts(run.stage) :
              /\ WrapAdd(run.hallDeadline, sinceEdge) = WrapAdd(now, h)
              /\ sinceEdge < h \/ RollsBack(run)
      BY <1>3 DEF HallTimed
    <3>2. h \in Clock /\ h > 0 /\ h < ClockMod /\ h \in Nat
      BY <1>2, <3>1, TimeoutsInClock DEF Clock
    <3>3. sinceEdge < h \/ sinceEdge < StartupTimeout
      BY <1>2, <1>3, <3>1, <3>2 DEF RollsBack, StartupTimed, InStartup
    <3>4. sinceEdge < ClockMod
      BY <1>2, <1>3, <3>2, <3>3
    <3>5. /\ sinceEdge + e < ClockMod =>
                 WrapAdd(run.hallDeadline, sinceEdge + e) = WrapAdd(Time(o), h)
          /\ sinceEdge + e >= h /\ 2 * (sinceEdge + e - h) < ClockMod =>
                 DeadlineReached(Time(o), run.hallDeadline)
      BY <1>1, <1>2, <1>3, <1>5, <3>1, <3>2, <3>4, DeadlineAhead
    <3>6. CASE RollsBack(r)
      <4>1. InStartup(r) /\ stage = r.stage /\ RollsBack(run')
        BY <1>5, <1>6, <3>6, <2>2 DEF RollsBack, InStartup
      <4>2. sinceStart' < StartupTimeout
        BY <1>6, <1>9, <4>1 DEF StartupTimed, RollsBack, InStartup
      <4>3. sinceEdge + e < ClockMod
        BY <1>2, <1>3, <4>2 DEF Later
      <4>4. sinceEdge' = sinceEdge + e
        BY <2>2, <4>3 DEF Later
      <4> QED BY <1>5, <1>6, <1>8, <2>2, <3>1, <3>5, <4>1, <4>3, <4>4 DEF HallTimed
    <3>7. CASE ~RollsBack(r)
      <4>1. ~DeadlineReached(Time(o), run.hallDeadline)
        BY <1>5, <2>2, <3>7 DEF TimedOut, RollsBack
      <4>2. 2 * (sinceEdge + e - h) < ClockMod
        BY <1>2, <1>3, <3>2, <3>3
      <4>3. sinceEdge + e < h
        BY <1>2, <1>3, <3>2, <3>5, <4>1, <4>2
      <4>4. sinceEdge' = sinceEdge + e
        BY <1>2, <1>3, <2>2, <3>2, <4>3 DEF Later
      <4> QED BY <1>2, <1>3, <1>5, <1>6, <1>8, <2>2, <3>1, <3>2, <3>5, <4>3, <4>4 DEF HallTimed
    <3> QED BY <3>6, <3>7
  <2> QED BY <2>1, <2>2
<1> QED BY <1>4, <1>9, <1>10 DEF RunTimed

\* A pass that leaves a run active has started it or found no deadline reached.
LEMMA ActiveOutcome ==
    ASSUME IInv, NEW o \in Inputs, Update(o), mode' = "Active"
    PROVE  \/ mode # "Active" /\ run' = NewRun(o) /\ (RetryAfterHall(o) \/ ServeArmed(o))
           \/ /\ mode = "Active" /\ UpdateActive(o)
              /\ ~TimedOut(Advance(run, o), Time(o))
              /\ \E stage \in RunStage :
                     /\ run' = [Advance(run, o) EXCEPT !.stage = stage]
                     /\ \/ stage = Advance(run, o).stage
                        \/ ~InStartup(run) /\ stage \in {"Tracking", "Coasting"}
<1> USE DEF IInv, TypeOK
<1>1. ASSUME NEW m \in Mode \ {"Active"}, Hold(m) PROVE FALSE
  BY <1>1 DEF Hold, Enter
<1>2. "Disarmed" \in Mode \ {"Active"} /\ "BrakeHold" \in Mode \ {"Active"}
      /\ "Ready" \in Mode \ {"Active"}
  BY DEF Mode
<1>3. ~StayLockedOut(o) /\ ~ArmFromRest(o)
  BY <1>1, <1>2 DEF StayLockedOut, ArmFromRest
<1>4. ~DisarmUntilRest(o) /\ ~InterruptByHall(o) /\ ~WaitForHall(o)
  BY DEF DisarmUntilRest, InterruptByHall, WaitForHall, Enter
<1>5. CASE RetryAfterHall(o) \/ ServeArmed(o)
  <2>1. PICK p : UpdateReady(o, p)
    BY <1>5 DEF RetryAfterHall, ServeArmed
  <2>2. run' = NewRun(o)
    BY <1>1, <1>2, <2>1 DEF UpdateReady, Energize
  <2> QED BY <1>5, <2>2 DEF RetryAfterHall, ServeArmed
<1>6. CASE UpdateActive(o)
  <2> DEFINE r == Advance(run, o)
             demand == ~o.brake /\ Demand(o)
             stage == IF ~demand THEN "Coasting"
                      ELSE IF r.stage = "Coasting" THEN "Tracking" ELSE r.stage
  <2>1. ~WithholdFor(o)
    BY <1>1, <1>2 DEF WithholdFor
  <2>2. /\ ~TimedOut(r, Time(o)) /\ (~demand => ~InStartup(run))
        /\ Energize([r EXCEPT !.stage = stage], demand)
    BY <1>6, <2>1 DEF UpdateActive, Continue
  <2>3. r \in Run /\ run \in Run
    BY AdvanceTyped
  <2>4. r.stage = "Coasting" => ~InStartup(run)
    BY <2>3 DEF Advance, EdgeStage, InStartup, Run, RunStage
  <2>5. /\ stage \in RunStage
        /\ \/ stage = r.stage
           \/ ~InStartup(run) /\ stage \in {"Tracking", "Coasting"}
    BY <2>2, <2>3, <2>4 DEF Run, RunStage
  <2>6. run' = [r EXCEPT !.stage = stage]
    BY <2>2 DEF Energize
  <2>7. \E s \in RunStage :
            /\ run' = [r EXCEPT !.stage = s]
            /\ \/ s = r.stage
               \/ ~InStartup(run) /\ s \in {"Tracking", "Coasting"}
    BY <2>5, <2>6
  <2>8. mode = "Active"
    BY <1>6 DEF UpdateActive
  <2> QED BY <1>6, <2>2, <2>7, <2>8
<1> QED BY <1>3, <1>4, <1>5, <1>6 DEF Update

\* A recovery runs its quiet interval from the interruption that entered it,
\* and is left towards a run only when that interval is over.
LEMMA QuietOutcome ==
    ASSUME IInv, Timing, NEW o \in Inputs, Update(o), Record(o)
    PROVE  /\ QuietTimed' /\ sinceInterrupt' \in 0..RetryQuiet
           /\ retryRuns' > retryRuns => sinceInterrupt' >= RetryQuiet
<1> USE DEF IInv, TypeOK
<1>1. /\ ClockMod \in Nat \ {0} /\ RetryQuiet \in 1..(ClockMod - 1)
      /\ o.elapsed \in 1..(ClockMod - 1) /\ now' = Time(o)
      /\ Time(o) = WrapAdd(now, o.elapsed) /\ Time(o) \in Clock
      /\ sinceInterrupt \in 0..RetryQuiet
  BY PassTimes, TimeInClock DEF Update, Observe, Time, Timing
<1>2. sinceInterrupt' = IF HallOnly(o) THEN 0 ELSE Later(sinceInterrupt, o.elapsed, RetryQuiet)
  BY DEF Record
<1>3. sinceInterrupt' \in 0..RetryQuiet
  BY <1>1, <1>2 DEF Later
<1>4. HallOnly(o) <=> ~RequiresRest(o) /\ HallInterrupted(o)
  BY ObservedLoss
<1>5. ~HallOnly(o) /\ sinceInterrupt = RetryQuiet => sinceInterrupt' = RetryQuiet
  BY <1>1, <1>2 DEF Later
<1>6. ASSUME mode = "HallRecovery", ~HallOnly(o), quietSince \in Clock
      PROVE  /\ WrapSub(Time(o), quietSince) >= RetryQuiet => sinceInterrupt' = RetryQuiet
             /\ sinceInterrupt' < RetryQuiet => WrapAdd(quietSince, sinceInterrupt') = now'
  <2>1. sinceInterrupt < RetryQuiet => WrapAdd(quietSince, sinceInterrupt) = now
    BY <1>6 DEF Timing, QuietTimed
  <2>2. sinceInterrupt' = Later(sinceInterrupt, o.elapsed, RetryQuiet)
    BY <1>2, <1>6
  <2>3. sinceInterrupt = RetryQuiet => sinceInterrupt' = RetryQuiet
    BY <1>5, <1>6
  <2>4. now \in Clock /\ quietSince \in Clock
    BY <1>6
  <2> QED BY <1>1, <2>1, <2>2, <2>3, <2>4 DEF Later, WrapAdd, WrapSub, Clock
<1>7. Rest(o) => ~Pending(o)
  BY DEF Pending
<1>8. RetriesKept(o) => /\ retryPending' = Pending(o)
                        /\ retryPending' => retryPending
  BY DEF RetriesKept, Pending
<1>9. retryRuns' > retryRuns => RunStarts /\ owesRetry /\ ~Rest(o)
  BY DEF Record, History, Rest
<1>10. CASE StayLockedOut(o) \/ DisarmUntilRest(o)
  <2>1. mode' = "Disarmed"
    BY <1>10 DEF StayLockedOut, DisarmUntilRest, Hold, Enter
  <2> QED BY <1>3, <1>9, <2>1 DEF QuietTimed, RunStarts
<1>11. CASE InterruptByHall(o)
  <2>1. mode' = "HallRecovery" /\ quietSince' = Time(o) /\ HallOnly(o)
    BY <1>4, <1>11 DEF InterruptByHall, Enter
  <2>2. sinceInterrupt' = 0 /\ WrapAdd(Time(o), 0) = Time(o)
    BY <1>1, <1>2, <2>1 DEF WrapAdd, Clock
  <2> QED BY <1>1, <1>3, <1>9, <2>1, <2>2 DEF QuietTimed, RunStarts
<1>12. CASE ArmFromRest(o)
  <2>1. mode' # "HallRecovery" /\ (mode' = "Disarmed" \/ Rest(o))
    BY <1>12 DEF ArmFromRest, Hold, Enter
  <2>2. ~RunStarts
    BY <1>12 DEF ArmFromRest, Hold, Enter, RunStarts
  <2>3. retryPending' = Pending(o)
    BY <1>8, <1>12 DEF ArmFromRest
  <2> QED BY <1>3, <1>7, <1>9, <2>1, <2>2, <2>3 DEF QuietTimed
<1>13. CASE WaitForHall(o)
  <2>1. mode = "HallRecovery" /\ mode' = "HallRecovery" /\ quietSince' = quietSince /\ ~HallOnly(o)
    BY <1>4, <1>13 DEF WaitForHall, Enter, Interrupted
  <2> QED BY <1>3, <1>6, <1>9, <2>1 DEF QuietTimed, RunStarts
<1>14. ASSUME NEW p \in BOOLEAN, UpdateReady(o, p), ~HallOnly(o), p => sinceInterrupt' = RetryQuiet,
              owesRetry /\ ~Rest(o) => p
       PROVE  QuietTimed' /\ (retryRuns' > retryRuns => sinceInterrupt' >= RetryQuiet)
  <2>1. mode' # "HallRecovery"
    BY <1>14 DEF UpdateReady, Energize, Hold, Enter
  <2>2. retryPending' => p /\ mode' # "Active"
    BY <1>14 DEF UpdateReady, Energize, Hold, Enter
  <2>3. retryRuns' > retryRuns => p
    BY <1>9, <1>14
  <2> QED BY <1>1, <1>14, <2>1, <2>2, <2>3 DEF QuietTimed
<1>15. CASE RetryAfterHall(o)
  <2>1. /\ mode = "HallRecovery" /\ ~HallOnly(o) /\ UpdateReady(o, TRUE)
        /\ ~(WrapSub(Time(o), quietSince) < RetryQuiet)
    BY <1>4, <1>15 DEF RetryAfterHall, RetryBlocked, Interrupted
  <2>2. WrapSub(Time(o), quietSince) >= RetryQuiet
    BY <1>1, <2>1 DEF WrapSub, Clock
  <2>3. sinceInterrupt' = RetryQuiet
    BY <1>6, <2>1, <2>2
  <2> QED BY <1>3, <1>14, <2>1, <2>3
<1>16. CASE ServeArmed(o)
  <2>1. /\ mode \in {"BrakeHold", "Ready"} /\ ~HallOnly(o) /\ UpdateReady(o, Pending(o))
    BY <1>4, <1>16 DEF ServeArmed, Interrupted
  <2>2. Pending(o) \in BOOLEAN
    BY DEF Pending
  <2>3. Pending(o) => sinceInterrupt' = RetryQuiet
    BY <1>5, <2>1 DEF Pending, Timing, QuietTimed
  <2>4. owesRetry /\ ~Rest(o) => Pending(o)
    BY <2>1 DEF History, Pending
  <2> QED BY <1>3, <1>14, <2>1, <2>2, <2>3, <2>4
<1>17. CASE UpdateActive(o)
  <2>1. mode = "Active" /\ ~RunStarts /\ ~retryPending /\ retryPending' = Pending(o)
    BY <1>8, <1>17 DEF UpdateActive, RunStarts, Timing, QuietTimed
  <2>2. mode' # "HallRecovery"
    BY <1>17 DEF UpdateActive, Continue, Energize, WithholdFor, Hold, Enter
  <2> QED BY <1>3, <1>9, <2>1, <2>2 DEF QuietTimed, Pending
<1> QED BY <1>3, <1>10, <1>11, <1>12, <1>13, <1>15, <1>16, <1>17 DEF Update

LEMMA PassTiming == ASSUME IInv, Timing, NEW o \in Inputs, Update(o), Record(o)
                    PROVE  Timing'
<1>1. QuietTimed' /\ sinceInterrupt' \in 0..RetryQuiet
  BY QuietOutcome
<1>2. now' = Time(o) /\ now \in Clock
  BY DEF Update, Observe, IInv, TypeOK
<1>3. CASE mode' # "Active" \/ RunStarts
  <2>1. sinceStart' = 0 /\ sinceEdge' = 0
    BY <1>3 DEF Record
  <2>2. CASE mode' # "Active"
    BY <1>1, <2>1, <2>2 DEF Timing, RunTimed
  <2>3. CASE RunStarts
    <3>1. mode' = "Active" /\ run' = NewRun(o)
      BY <2>3, ActiveOutcome DEF RunStarts
    <3>2. RunTimed'
      BY <1>2, <2>1, <3>1, NewRunTimed
    <3> QED BY <1>1, <2>1, <3>2 DEF Timing
  <2> QED BY <1>3, <2>2, <2>3
<1>4. CASE ~(mode' # "Active" \/ RunStarts)
  <2>1. mode = "Active" /\ mode' = "Active"
    BY <1>4 DEF RunStarts
  <2>2. /\ sinceStart' = Later(sinceStart, o.elapsed, ClockMod)
        /\ sinceEdge' = IF o.edge THEN 0 ELSE Later(sinceEdge, o.elapsed, ClockMod)
    BY <1>4 DEF Record
  <2>3. ~TimedOut(Advance(run, o), Time(o))
    BY <2>1, ActiveOutcome
  <2>4. PICK stage \in RunStage :
            /\ run' = [Advance(run, o) EXCEPT !.stage = stage]
            /\ \/ stage = Advance(run, o).stage
               \/ ~InStartup(run) /\ stage \in {"Tracking", "Coasting"}
    BY <2>1, ActiveOutcome
  <2>5. RunTimed' /\ sinceEdge' <= sinceStart' /\ sinceStart' \in Nat /\ sinceEdge' \in Nat
    BY <1>2, <2>1, <2>2, <2>3, <2>4, RunStaysTimed
  <2> QED BY <1>1, <2>5 DEF Timing
<1> QED BY <1>3, <1>4

\* The timing part holds in every reachable state.
THEOREM TimingHolds == HSpec => []Timing
<1>1. HInit => Timing
  BY RideAssumption DEF HInit, Init, HistoryInit, Timing, RunTimed, QuietTimed
<1>2. IInv /\ Timing /\ [HNext]_allVars => Timing'
  <2>1. IInv /\ Timing /\ UNCHANGED allVars => Timing'
    BY DEF Timing, RunTimed, StartupTimed, HallTimed, QuietTimed,
           allVars, vars, controllerVars, historyVars
  <2> QED BY <2>1, PassTiming DEF HNext
<1> QED BY Invariance, <1>1, <1>2, PTL DEF HSpec

\* A motor without Hall progress is released within its timeouts, however the
\* clock wraps between the pass that sets a deadline and the one that reads it.
THEOREM StallIsReleased == HSpec => []StallBounded
<1>1. IInv /\ Timing => StallBounded
  <2> SUFFICES ASSUME IInv, Timing, command.energize PROVE StallBounded
    BY DEF StallBounded
  <2>1. mode = "Active" /\ run \in Run
    BY DEF IInv, Bookkeeping, TypeOK
  <2>2. PICK h \in HallTimeouts(run.stage) : sinceEdge < h \/ RollsBack(run)
    BY <2>1 DEF Timing, RunTimed, HallTimed
  <2>3. InStartup(run) => sinceStart < StartupTimeout
    BY <2>1 DEF Timing, RunTimed, StartupTimed
  <2> QED BY <2>1, <2>2, <2>3 DEF StallBounded, HallTimeouts, RollsBack, InStartup, Run
<1> QED BY Invariance, TimingHolds, <1>1, PTL

\* A restart after a Hall interruption waits for the whole quiet interval, also
\* when the retry it was granted is held by the brake or by the entry speed.
THEOREM RetriesWaitForQuiet == HSpec => RetryAfterQuiet
<1>1. IInv /\ Timing /\ [HNext]_allVars =>
        [retryRuns' > retryRuns => sinceInterrupt' >= RetryQuiet]_allVars
  BY QuietOutcome DEF HNext
<1> QED BY Invariance, TimingHolds, <1>1, PTL DEF HSpec, RetryAfterQuiet
=============================================================================
