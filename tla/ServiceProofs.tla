---------------------------- MODULE ServiceProofs ----------------------------
(***************************************************************************)
(* What the service side of the firmware promises: the STOP and the end of *)
(* a calibration run, the two watchdogs, and the record that outlives a    *)
(* reset.  Each part has its own specification; the proofs of one part use *)
(* nothing of the others.                                                  *)
(***************************************************************************)
EXTENDS CalibrationDeviceProperties, WatchdogProperties, RetainedProperties, TLAPS

(* Calibration: a STOP wins, and an open interlock or a fault ends a run,  *)
(* wherever the receive interrupt, the control interrupt and the break     *)
(* fall between the steps of the foreground.                               *)

\* Nothing can start, and what runs is to be aborted.
Withdrawn == request = "None" /\ (IsActive => abort # "None")

\* A STOP on its way through the foreground and the next control cycle.
StopInv ==
    /\ pc \in {"Snapshot", "StopAbort"} => request = "None"
    /\ pc \in {"Disarm", "Acknowledge"} => Withdrawn
    /\ stopping = "Processed" => Withdrawn
    /\ stopping = "Settled" => request = "None" /\ ~IsActive /\ ~driven
    /\ stopping = "Received" =>
        mailbox = Stop \/ pc \in {"Cancel", "Snapshot", "StopAbort", "Disarm"}

\* An interlock that a pass has found open, and a fault that has hit a run.
EndInv ==
    /\ unready = "Found" => (IsActive => abort # "None")
    /\ unready = "Settled" => ~driven /\ ~IsActive
    /\ hit = "Now" /\ IsActive => faults # {} \/ abort # "None"
    /\ hit = "Now" => IsActive \/ sequences.phase = "Failed"
    /\ hit = "After" => sequences.phase = "Failed"

IInv == StopInv /\ EndInv /\ mailbox \in Commands \cup {NoCommand}

LEMMA StoppedIsInactive ==
  ASSUME NEW s
  PROVE  /\ Stopped(s).phase \notin Active
         /\ s.phase \notin Active => Stopped(s) = s
         /\ s.phase \in Active => Stopped(s).phase = "Failed"
  BY DEF Stopped, Became, Active

LEMMA FailedIsInactive == "Failed" \notin Active
  BY DEF Active

-----------------------------------------------------------------------------
\* A control cycle that stops whatever runs, or starts nothing.
LEMMA StoppingCycle ==
  ASSUME IInv, NEW s, s \in {sequences, Stopped(sequences)}, EndCycle(s, FALSE, FALSE),
         s.phase \notin Active, request' \in {request, "None"}
  PROVE  IInv'
<1>1. sequences' = s /\ driven' = FALSE /\ UNCHANGED <<pc, mailbox>>
  BY StoppedIsInactive DEF EndCycle
<1>2. ~IsActive'  BY <1>1 DEF IsActive
<1>3. IsActive \/ sequences.phase = "Failed" => sequences'.phase = "Failed"
  BY <1>1, StoppedIsInactive, FailedIsInactive DEF IsActive
<1>4. Remember(sequences', FALSE)  BY DEF EndCycle
<1>5. StopInv' /\ (mailbox \in Commands \cup {NoCommand})'
  BY <1>1, <1>2, <1>4 DEF IInv, StopInv, Withdrawn, Remember
<1>6. EndInv'
  BY <1>1, <1>2, <1>3, <1>4 DEF IInv, EndInv, Remember
<1> QED  BY <1>5, <1>6 DEF IInv

\* A control cycle that takes a request forgets what was remembered of the
\* runs before; no STOP is under way then.
LEMMA StartingCycle ==
  ASSUME IInv, Requested, NEW s, NEW drive, EndCycle(s, drive, TRUE), Take
  PROVE  IInv'
<1>1. UNCHANGED <<pc, mailbox>> /\ request' = "None" /\ Remember(sequences', TRUE)
  BY DEF EndCycle, Take
<1>2. request # "None"  BY DEF Requested
<1>3. pc \notin {"Snapshot", "StopAbort", "Disarm", "Acknowledge"} /\ stopping \notin {"Processed", "Settled"}
  BY <1>2 DEF IInv, StopInv, Withdrawn
<1>4. StopInv' /\ (mailbox \in Commands \cup {NoCommand})'
  BY <1>1, <1>3 DEF IInv, StopInv, Remember
<1>5. EndInv'  BY <1>1 DEF EndInv, Remember
<1> QED  BY <1>4, <1>5 DEF IInv

LEMMA CycleKeeps == ASSUME IInv, ControlCycle PROVE IInv'
<1>1. CASE CycleUnsampled
  <2>1. EndCycle(Stopped(sequences), FALSE, FALSE) /\ request' = request  BY <1>1 DEF CycleUnsampled
  <2> QED  BY <2>1, StoppingCycle, StoppedIsInactive
<1>2. CASE CycleAborted \/ CycleFaulted
  <2>1. EndCycle(Stopped(sequences), FALSE, FALSE) /\ request' = "None"
    BY <1>2 DEF CycleAborted, CycleFaulted, Take
  <2> QED  BY <2>1, StoppingCycle, StoppedIsInactive
<1>3. CASE CycleSampled /\ Requested
  <2>1. Take /\ \E s, drive : EndCycle(s, drive, TRUE)  BY <1>3 DEF CycleSampled
  <2> QED  BY <2>1, <1>3, StartingCycle
<1>4. CASE CycleSampled /\ ~Requested /\ sequences.phase \notin Active
  <2>1. Requested = FALSE /\ Current = sequences  BY <1>4 DEF Requested, Current
  <2>2. EndCycle(sequences, FALSE, FALSE) /\ request' = "None"
    BY <1>4, <2>1 DEF CycleSampled, Take
  <2> QED  BY <2>2, <1>4, StoppingCycle
<1>5. CASE CycleSampled /\ ~Requested /\ sequences.phase \in Active
  <2>1. IsActive /\ abort = "None" /\ faults = {}  BY <1>5 DEF CycleSampled, IsActive
  <2>2. \E s, drive : EndCycle(s, drive, FALSE)
    <3>1. Requested = FALSE  BY <1>5 DEF Requested
    <3> QED  BY <1>5, <3>1 DEF CycleSampled
  <2>3. UNCHANGED <<pc, mailbox>> /\ Remember(sequences', FALSE)  BY <2>2 DEF EndCycle
  <2>4. pc \notin {"Disarm", "Acknowledge"} /\ stopping \notin {"Processed", "Settled"}
    BY <2>1 DEF IInv, StopInv, Withdrawn
  <2>5. unready \notin {"Found", "Settled"} /\ hit \notin {"Now", "After"}
    BY <2>1, FailedIsInactive DEF IInv, EndInv, IsActive
  <2>6. request' = "None"  BY <1>5 DEF CycleSampled, Take
  <2> QED  BY <2>3, <2>4, <2>5, <2>6 DEF IInv, StopInv, EndInv, Remember
<1> QED  BY <1>1, <1>2, <1>3, <1>4, <1>5 DEF ControlCycle

-----------------------------------------------------------------------------
LEMMA OthersKeep == ASSUME IInv, Receive \/ UpdaterReset \/ Break PROVE IInv'
<1>1. CASE Receive
  <2>1. Stop # NoCommand  BY DEF Stop, NoCommand
  <2> QED  BY <1>1, <2>1 DEF Receive, Drops, Commands, control, locals, IInv, StopInv, EndInv, Withdrawn, IsActive
<1>2. CASE UpdaterReset
  BY <1>2 DEF UpdaterReset, Nothing, Active, IInv, StopInv, EndInv, Withdrawn, IsActive
<1>3. CASE Break
  BY <1>3, FailedIsInactive DEF Break, locals, IInv, StopInv, EndInv, Withdrawn, IsActive
<1> QED  BY <1>1, <1>2, <1>3

LEMMA PassKeeps ==
  ASSUME IInv, Start \/ Check \/ Interlock \/ ExpireArm \/ TakeCommand
  PROVE  IInv'
<1> USE DEF IInv, StopInv, EndInv, Withdrawn, IsActive
<1>1. CASE Start
  BY <1>1 DEF Start, At, control
<1>2. CASE Check
  BY <1>2 DEF Check, Running, control
<1>3. CASE Interlock
  BY <1>3 DEF Interlock, At, locals
<1>4. CASE ExpireArm
  BY <1>4 DEF ExpireArm, At, control, locals, history
<1>5. CASE TakeCommand
  <2>1. mailbox.op \in {"None", "Run", "Arm", "Stop"} /\ (mailbox = Stop <=> mailbox.op = "Stop")
    BY DEF Commands, Runs, Arms, Stop, NoCommand
  <2>2. pc = "Take" /\ UNCHANGED <<control, history>> /\ mailbox' = NoCommand
    BY <1>5 DEF TakeCommand
  <2>3. pc' \in {"Start", "Cancel", "Run", "Arm"} /\ (mailbox = Stop => pc' = "Cancel")
    BY <1>5, <2>1 DEF TakeCommand
  <2> QED  BY <2>2, <2>3 DEF control, history
<1> QED  BY <1>1, <1>2, <1>3, <1>4, <1>5

LEMMA CommandKeeps ==
  ASSUME IInv, \/ Cancel \/ Snapshot \/ StopAbort \/ Disarm \/ Acknowledge \/ Arm \/ Run \/ Request
  PROVE  IInv'
<1> USE DEF IInv, StopInv, EndInv, Withdrawn, IsActive
<1>1. CASE Cancel
  BY <1>1 DEF Cancel, At, locals, history
<1>2. CASE Snapshot
  BY <1>2 DEF Snapshot, Running, control, history
<1>3. CASE StopAbort
  BY <1>3 DEF StopAbort, At, locals, history
<1>4. CASE Disarm
  BY <1>4 DEF Disarm, control, locals
<1>5. CASE Acknowledge
  BY <1>5 DEF Acknowledge, locals, history
<1>6. CASE Arm
  BY <1>6 DEF Arm, At, control, history
<1>7. CASE Run
  BY <1>7 DEF Run, control, history
<1>8. CASE Request
  BY <1>8 DEF Request, At
<1> QED  BY <1>1, <1>2, <1>3, <1>4, <1>5, <1>6, <1>7, <1>8

-----------------------------------------------------------------------------
LEMMA Inductive == Spec => []IInv
<1>1. Init => IInv
  BY DEF Init, Nothing, Active, IInv, StopInv, EndInv, Withdrawn, IsActive
<1>2. IInv /\ [Next]_vars => IInv'
  <2> SUFFICES ASSUME IInv, [Next]_vars PROVE IInv'  OBVIOUS
  <2>1. CASE UNCHANGED vars
    BY <2>1 DEF vars, control, locals, history, IInv, StopInv, EndInv, Withdrawn, IsActive
  <2> QED  BY <2>1, CycleKeeps, OthersKeep, PassKeeps, CommandKeeps DEF Next, Foreground
<1> QED  BY <1>1, <1>2, PTL DEF Spec

\* Whichever routines are commanded and however long the arm window lasts: once
\* a STOP is processed and a control cycle has followed, nothing runs until a
\* later RUN is accepted, and a STOP received is not forgotten before that.
THEOREM StopAlwaysWins == Spec => []StopWins
<1>1. IInv => StopWins  BY DEF IInv, StopInv, StopWins
<1> QED  BY <1>1, Inductive, PTL

\* For every routine and arm window: a run found with its interlock open, or
\* hit by a fault, is over after the next control cycle, also when a STOP
\* acknowledges the fault before that cycle has seen it.
THEOREM RunsAlwaysEnd == Spec => []RunsAreEnded
<1>1. IInv => RunsAreEnded  BY DEF IInv, EndInv, RunsAreEnded, InterlockStops, FaultEndsRun
<1> QED  BY <1>1, Inductive, PTL

-----------------------------------------------------------------------------
(* The watchdogs: MainLoopWatchdog::poll() refreshes the independent one    *)
(* only on progress of the control cycles since the refresh before, and    *)
(* the update interrupt the window one.  A stall is bounded by what is left *)
(* of a period plus the refreshes that old progress can still buy.         *)
\* Milliseconds since the independent watchdog's last refresh.
Used == IndependentPeriod - iwdg

\* What a poll has read is still so, and a latched fault means safe-off.
PollReads ==
    /\ Polling => /\ seen.cycles \/ seen.laterCycles => cycles
                  /\ seen.samples \/ seen.laterSamples => samples
                  /\ seen.faults => latched
                  /\ sinceFeed = FeedPeriod
    /\ Alive /\ ~Polling => seen = NoProgress
    /\ poll = "Feed" => sinceFeed = 0
    /\ latched => ~channels

\* Only the update interrupt refreshes the window watchdog.
UpdateBound == Alive /\ watched = "Update" => silent <= WindowPeriod - wwdg

\* Each refresh needs progress since the one before it, so that a silence
\* reaches over two refreshes and the period that the last one leaves.
CycleBound ==
    Alive /\ watched = "Cycle" =>
        /\ silent <= Used + IndependentPeriod + IndependentPeriod
        /\ cycles \/ poll = "Feed" => silent <= Used + IndependentPeriod
        /\ poll = "Feed" /\ cycles => silent <= Used
        /\ poll = "Poll" /\ seen.cycles /\ seen.laterCycles => silent <= Used

SampleBound ==
    Alive /\ watched = "Sample" =>
        IF latched THEN silent < 3 * IndependentPeriod
        ELSE /\ silent <= Used + IndependentPeriod + IndependentPeriod
             /\ samples \/ poll = "Feed" => silent <= Used + IndependentPeriod
             /\ poll = "Feed" /\ samples => silent <= Used
             /\ Polling /\ seen.samples /\ seen.laterSamples => silent <= Used

\* Only a pass refreshes the independent watchdog.
PassBound ==
    Alive /\ watched = "Pass" =>
        /\ silent <= Used + IndependentPeriod
        /\ poll # "Idle" => silent <= Used

\* What the next poll compares would let it refresh.
Ready == cycles /\ (samples \/ (latched /\ ~active))

\* The poll under way will refresh the watchdog.
Succeeding ==
    \/ poll = "ReadFaults" /\ cycles /\ (seen.samples \/ (~seen.active /\ latched))
    \/ poll = "ReadCycles" /\ cycles /\ (seen.samples \/ (~seen.active /\ seen.faults))
    \/ poll = "Poll" /\ Progressed
    \/ poll = "Feed"

\* A healthy controller is alive, and the gap between its passes bounded.
HealthyHistory ==
    healthy =>
        /\ Alive /\ watched = "Health" /\ silent <= PassGap
        /\ age = AtMost(silent, FeedPeriod)
        /\ sampledLast /\ cycles => samples
        /\ sampledLast /\ seen.laterCycles => seen.laterSamples

\* Each millisecond of a healthy controller brings an update interrupt.
WindowServed ==
    healthy => WindowPeriod - wwdg <= updates + (IF proven THEN 0 ELSE 1)

\* Within the tick after a refresh the next one has its progress.
ProgressMade ==
    healthy /\ poll # "Feed" /\ ~Ready => Used + (IF proven THEN 1 ELSE 0) <= 1

\* How much of the independent watchdog's period each point of the loop
\* may have used: the poll that succeeds starts within FeedPeriod ticks and
\* one pass, and one that fails is repeated by the next pass.
FeedsInTime ==
    healthy =>
        /\ poll \in {"Idle", "Ride", "Service"} /\ sinceFeed < FeedPeriod =>
               Used <= sinceFeed + silent
        /\ (poll \in {"Ride", "Service"} /\ sinceFeed = FeedPeriod) \/ Succeeding =>
               Used <= FeedPeriod - 1 + PassGap + silent
        /\ (Polling /\ ~Succeeding) \/ (poll = "Idle" /\ sinceFeed = FeedPeriod) =>
               Used <= 1 + silent

\* The kinds of the histories, and that a running controller's timers run.
WatchTypes ==
    /\ watched \in {"Update", "Cycle", "Sample", "Pass", "Health"} /\ silent \in Nat
    /\ proven \in BOOLEAN /\ sampledLast \in BOOLEAN /\ healthy \in BOOLEAN
    /\ Alive => wwdg > 0 /\ iwdg > 0

\* The inductive invariant of the watchdogs.
WatchdogInv ==
    /\ DogTypes /\ WatchTypes /\ PollReads /\ UpdateBound /\ CycleBound /\ SampleBound
    /\ PassBound /\ HealthyHistory /\ WindowServed /\ ProgressMade /\ FeedsInTime

LEMMA UpdateKeeps ==
    ASSUME WatchdogInv, UpdateAtPeak, Heard({"Update"}),
           UNCHANGED <<watched, proven, sampledLast, healthy>>
    PROVE  WatchdogInv'
<1> USE DEF WatchdogInv
<1>1. DogTypes'
    BY WatchdogAssumption
       DEF DogTypes, UpdateAtPeak, cycleVars, TimerUpdateEntered, FeedWindow, FeedsAt
<1>2. WatchTypes'
    BY WatchdogAssumption DEF WatchTypes, UpdateAtPeak, Heard, TimerUpdateEntered, FeedWindow
<1>3. PollReads'
    BY DEF PollReads, Polling, UpdateAtPeak, cycleVars
<1>4. UpdateBound'
    BY WatchdogAssumption
       DEF DogTypes, UpdateBound, UpdateAtPeak, Heard, TimerUpdateEntered, FeedWindow
<1>5. CycleBound'
    BY DEF CycleBound, Used, UpdateAtPeak, cycleVars, Heard
<1>6. SampleBound'
    BY DEF SampleBound, Used, Polling, UpdateAtPeak, cycleVars, Heard
<1>7. PassBound'
    BY DEF PassBound, Used, UpdateAtPeak, Heard
<1>8. HealthyHistory'
    BY DEF HealthyHistory, Alive, UpdateAtPeak, cycleVars, Heard
<1>9. WindowServed'
    BY WatchdogAssumption DEF DogTypes, WindowServed, UpdateAtPeak, TimerUpdateEntered, FeedWindow
<1>10. ProgressMade'
    BY DEF ProgressMade, Used, Ready, UpdateAtPeak, cycleVars
<1>11. FeedsInTime'
    BY DEF FeedsInTime, Used, Succeeding, Polling, Progressed, LatchedSafeOff, HealthyHistory,
           UpdateAtPeak, cycleVars, Heard
<1> QED
    BY <1>1, <1>2, <1>3, <1>4, <1>5, <1>6, <1>7, <1>8, <1>9, <1>10, <1>11

LEMMA ControlInterruptKeeps ==
    ASSUME WatchdogInv, NEW sampled \in BOOLEAN, ControlInterrupt(sampled),
           CycleHistory(sampled)
    PROVE  WatchdogInv'
<1> USE DEF WatchdogInv
<1>1. DogTypes'
    <2>1. updates' \in 0..(UpdatesPerFeed - 1) /\ wwdg' \in 0..WindowPeriod /\ iwdg' = iwdg
        BY WatchdogAssumption
           DEF DogTypes, ControlInterrupt, TimerUpdateEntered, FeedWindow, FeedsAt
    <2>2. cycles' \in BOOLEAN /\ samples' \in BOOLEAN /\ seen' \in Progress
        BY DEF DogTypes, ControlInterrupt, CountCycle, Progress
    <2>3. latched' \in BOOLEAN /\ channels' \in BOOLEAN /\ active' \in BOOLEAN
        BY DEF ControlInterrupt
    <2>4. UNCHANGED <<sinceFeed, age, poll>>
        BY DEF ControlInterrupt
    <2> QED
        BY <2>1, <2>2, <2>3, <2>4 DEF DogTypes
<1>2. WatchTypes'
    BY WatchdogAssumption
       DEF WatchTypes, ControlInterrupt, CycleHistory, Heard, TimerUpdateEntered, FeedWindow
<1>3. PollReads'
    <2>1. poll' = poll /\ sinceFeed' = sinceFeed /\ (latched => latched') /\ cycles'
          /\ (samples => samples')
        BY DEF ControlInterrupt, CountCycle
    <2>2. latched' => ~channels'
        BY DEF ControlInterrupt
    <2>3. ~Polling => seen' = seen
        BY DEF ControlInterrupt, CountCycle
    <2>4. ASSUME Polling
          PROVE  /\ seen'.samples \/ seen'.laterSamples => samples'
                 /\ seen'.faults = seen.faults
        BY <2>4 DEF ControlInterrupt, CountCycle, DogTypes, PollReads
    <2> QED
        BY <2>1, <2>2, <2>3, <2>4 DEF PollReads, Polling, Alive
<1>4. UpdateBound'
    BY WatchdogAssumption
       DEF DogTypes, UpdateBound, ControlInterrupt, CycleHistory, Heard, TimerUpdateEntered,
           FeedWindow
<1>5. CycleBound'
    BY WatchdogAssumption DEF DogTypes, CycleBound, Used, ControlInterrupt, CycleHistory, Heard
<1>6. SampleBound'
    BY WatchdogAssumption
       DEF DogTypes, SampleBound, Used, Polling, ControlInterrupt, CountCycle, CycleHistory,
           Heard
<1>7. PassBound'
    BY DEF PassBound, Used, ControlInterrupt, CycleHistory, Heard
<1>8. HealthyHistory'
    BY DEF HealthyHistory, Alive, NoProgress, PollReads, ControlInterrupt, CountCycle,
           CycleHistory, Heard
<1>9. WindowServed'
    BY WatchdogAssumption
       DEF DogTypes, WindowServed, ControlInterrupt, CycleHistory, TimerUpdateEntered, FeedWindow
<1>10. ProgressMade'
    BY DEF DogTypes, WatchTypes, ProgressMade, Used, Ready, ControlInterrupt, CountCycle,
           CycleHistory
<1>11. FeedsInTime'
    BY WatchdogAssumption, HealthyAssumption
       DEF DogTypes, WatchTypes, FeedsInTime, Used, Succeeding, Polling, Progressed,
           LatchedSafeOff, PollReads, HealthyHistory, ControlInterrupt, CountCycle, CycleHistory,
           Heard
<1> QED
    BY <1>1, <1>2, <1>3, <1>4, <1>5, <1>6, <1>7, <1>8, <1>9, <1>10, <1>11

LEMMA LoopPassKeeps ==
    ASSUME WatchdogInv, Pass, Heard({"Pass", "Health"}),
           UNCHANGED <<watched, proven, sampledLast, healthy>>
    PROVE  WatchdogInv'
<1> USE DEF WatchdogInv
<1>1. DogTypes'
    BY WatchdogAssumption DEF DogTypes, Pass, timerVars, cycleVars, AtMost
<1>2. WatchTypes'
    BY DEF WatchTypes, Alive, Pass, timerVars, Heard
<1>3. PollReads'
    BY DEF PollReads, Polling, Alive, Pass, cycleVars
<1>4. UpdateBound'
    BY DEF UpdateBound, Alive, Pass, timerVars, Heard
<1>5. CycleBound'
    BY DEF CycleBound, Alive, Used, Pass, timerVars, cycleVars, Heard
<1>6. SampleBound'
    BY DEF SampleBound, Alive, Used, Polling, Pass, timerVars, cycleVars, Heard
<1>7. PassBound'
    BY WatchdogAssumption DEF DogTypes, PassBound, Used, Pass, timerVars, Heard
<1>8. HealthyHistory'
    BY WatchdogAssumption, HealthyAssumption
       DEF HealthyHistory, Alive, AtMost, Pass, cycleVars, Heard
<1>9. WindowServed'
    BY DEF WindowServed, Pass, timerVars
<1>10. ProgressMade'
    BY DEF ProgressMade, Used, Ready, Pass, timerVars, cycleVars
<1>11. FeedsInTime'
    BY WatchdogAssumption, HealthyAssumption
       DEF DogTypes, WatchTypes, FeedsInTime, Used, Polling, HealthyHistory, AtMost, Pass,
           timerVars, Heard
<1> QED
    BY <1>1, <1>2, <1>3, <1>4, <1>5, <1>6, <1>7, <1>8, <1>9, <1>10, <1>11

LEMMA ServiceRideKeeps ==
    ASSUME WatchdogInv, NEW acknowledges \in BOOLEAN, ServiceRide(acknowledges),
           RideHistory(acknowledges)
    PROVE  WatchdogInv'
<1> USE DEF WatchdogInv
<1>1. DogTypes'
    BY DEF DogTypes, ServiceRide, timerVars, cycleVars
<1>2. WatchTypes'
    BY DEF WatchTypes, Alive, ServiceRide, timerVars, RideHistory, Heard
<1>3. PollReads'
    BY DEF PollReads, Polling, Alive, ServiceRide, cycleVars
<1>4. UpdateBound'
    BY DEF UpdateBound, Alive, ServiceRide, timerVars, RideHistory, Heard
<1>5. CycleBound'
    BY DEF CycleBound, Alive, Used, ServiceRide, timerVars, cycleVars, RideHistory, Heard
<1>6. SampleBound'
    BY WatchdogAssumption
       DEF DogTypes, WatchTypes, SampleBound, Alive, Used, Polling, ServiceRide, timerVars,
           cycleVars, RideHistory, Heard
<1>7. PassBound'
    BY DEF PassBound, Alive, Used, ServiceRide, timerVars, RideHistory, Heard
<1>8. HealthyHistory'
    BY DEF HealthyHistory, Alive, ServiceRide, cycleVars, RideHistory, Heard
<1>9. WindowServed'
    BY DEF WindowServed, ServiceRide, timerVars, RideHistory
<1>10. ProgressMade'
    BY DEF ProgressMade, Used, Ready, HealthyHistory, ServiceRide, timerVars, cycleVars,
           RideHistory
<1>11. FeedsInTime'
    BY DEF FeedsInTime, Used, Succeeding, Polling, HealthyHistory, ServiceRide, timerVars,
           RideHistory, Heard
<1> QED
    BY <1>1, <1>2, <1>3, <1>4, <1>5, <1>6, <1>7, <1>8, <1>9, <1>10, <1>11

LEMMA TickKeeps ==
    ASSUME WatchdogInv, Tick, TickHistory
    PROVE  WatchdogInv'
<1> USE DEF WatchdogInv
<1>1. DogTypes'
    <2>1. wwdg' \in 0..WindowPeriod /\ iwdg' \in 0..IndependentPeriod
        BY WatchdogAssumption DEF DogTypes, WatchTypes, Tick
    <2>2. age' \in 0..FeedPeriod
        BY WatchdogAssumption DEF DogTypes, Tick, AtMost
    <2>3. \/ poll' = "Reset" /\ channels' = FALSE
          \/ poll' = poll /\ channels' = channels
        <3>1. CASE wwdg' = 0 \/ iwdg' = 0
            BY <3>1 DEF Tick
        <3>2. CASE ~(wwdg' = 0 \/ iwdg' = 0)
            BY <3>2 DEF Tick
        <3> QED
            BY <3>1, <3>2
    <2>4. UNCHANGED <<updates, cycles, samples, active, latched, sinceFeed, seen>>
        BY DEF Tick
    <2> QED
        BY <2>1, <2>2, <2>3, <2>4 DEF DogTypes
<1>2. WatchTypes'
    <2>1. Alive' => wwdg' > 0 /\ iwdg' > 0
        <3>1. wwdg \in Nat \ {0} /\ iwdg \in Nat \ {0} /\ wwdg' = wwdg - 1 /\ iwdg' = iwdg - 1
            BY DEF DogTypes, WatchTypes, Tick
        <3>2. wwdg' = 0 \/ iwdg' = 0 => poll' = "Reset"
            BY DEF Tick
        <3>3. ASSUME wwdg' # 0, iwdg' # 0 PROVE wwdg' > 0 /\ iwdg' > 0
            BY <3>1, <3>3
        <3> QED
            BY <3>2, <3>3 DEF Alive
    <2>2. silent' \in Nat /\ watched' = watched
        BY DEF WatchTypes, TickHistory
    <2>3. proven' \in BOOLEAN /\ sampledLast' \in BOOLEAN /\ healthy' \in BOOLEAN
        BY DEF TickHistory
    <2> QED
        BY <2>1, <2>2, <2>3 DEF WatchTypes
<1>3. PollReads'
    BY DEF PollReads, Polling, Alive, Tick
<1>4. UpdateBound'
    BY WatchdogAssumption DEF DogTypes, WatchTypes, UpdateBound, Tick, TickHistory
<1>5. CycleBound'
    BY WatchdogAssumption DEF DogTypes, WatchTypes, CycleBound, Used, Tick, TickHistory
<1>6. SampleBound'
    BY WatchdogAssumption DEF DogTypes, WatchTypes, SampleBound, Used, Polling, Tick, TickHistory
<1>7. PassBound'
    BY WatchdogAssumption DEF DogTypes, WatchTypes, PassBound, Alive, Used, Tick, TickHistory
<1>8. HealthyHistory'
    <2> SUFFICES ASSUME healthy' PROVE HealthyHistory'
        BY DEF HealthyHistory
    <2>1. healthy /\ proven /\ silent < PassGap /\ silent' = silent + 1 /\ watched' = "Health"
        BY DEF TickHistory, HealthyHistory
    <2>2. wwdg > 1 /\ iwdg > 1
        <3>1. WindowPeriod - wwdg <= updates
            BY <2>1 DEF WindowServed, DogTypes
        <3>2. Used <= FeedPeriod - 1 + PassGap + silent
            <4>1. poll \in {"Idle", "Ride", "Service"} \/ Polling \/ Succeeding
                BY <2>1 DEF HealthyHistory, DogTypes, Polling, Succeeding, Alive
            <4>2. sinceFeed < FeedPeriod \/ sinceFeed = FeedPeriod
                BY WatchdogAssumption DEF DogTypes
            <4>3. silent \in Nat /\ sinceFeed \in Nat /\ Used \in Int
                BY WatchdogAssumption DEF DogTypes, WatchTypes, Used
            <4>4. \/ Used <= sinceFeed + silent /\ sinceFeed < FeedPeriod
                  \/ Used <= FeedPeriod - 1 + PassGap + silent
                  \/ Used <= 1 + silent
                BY <2>1, <4>1, <4>2 DEF FeedsInTime
            <4> QED
                BY <4>3, <4>4, WatchdogAssumption, HealthyAssumption
        <3>3. updates < UpdatesPerFeed /\ silent < PassGap /\ wwdg \in Nat /\ iwdg \in Nat
              /\ updates \in Nat /\ silent \in Nat
            BY <2>1, WatchdogAssumption DEF DogTypes, WatchTypes
        <3> QED
            BY <3>1, <3>2, <3>3, WatchdogAssumption, HealthyAssumption DEF Used
    <2>3. poll' = poll
        BY <2>2 DEF Tick
    <2>4. age' = AtMost(silent', FeedPeriod)
        BY <2>1, WatchdogAssumption DEF Tick, AtMost, HealthyHistory, WatchTypes
    <2>5. UNCHANGED <<cycles, samples, seen>> /\ (sampledLast' => sampledLast)
        BY DEF Tick, TickHistory
    <2> QED
        BY <2>1, <2>3, <2>4, <2>5, HealthyAssumption DEF HealthyHistory, Alive, WatchTypes
<1>9. WindowServed'
    BY WatchdogAssumption DEF DogTypes, WatchTypes, WindowServed, Tick, TickHistory
<1>10. ProgressMade'
    <2> SUFFICES ASSUME healthy', poll' # "Feed", ~Ready'
                 PROVE  Used' + (IF proven' THEN 1 ELSE 0) <= 1
        BY DEF ProgressMade
    <2>1. healthy /\ proven /\ ~proven'
        BY DEF TickHistory
    <2>2. poll' = "Reset" \/ poll' = poll
        BY DEF Tick
    <2>3. poll' = poll
        BY <2>2, <1>8 DEF HealthyHistory, Alive
    <2>4. ~Ready
        BY DEF Ready, Tick
    <2>5. Used <= 0 /\ Used' = Used + 1
        BY <2>1, <2>3, <2>4, WatchdogAssumption DEF ProgressMade, Used, Tick, DogTypes
    <2> QED
        BY <2>1, <2>5, WatchdogAssumption DEF Used, DogTypes
<1>11. FeedsInTime'
    BY WatchdogAssumption, HealthyAssumption
       DEF DogTypes, WatchTypes, FeedsInTime, Used, Succeeding, Polling, Progressed,
           LatchedSafeOff, HealthyHistory, Tick, TickHistory
<1> QED
    BY <1>1, <1>2, <1>3, <1>4, <1>5, <1>6, <1>7, <1>8, <1>9, <1>10, <1>11

LEMMA BreakInterruptKeeps ==
    ASSUME WatchdogInv, BreakInterrupt, UNCHANGED watchVars
    PROVE  WatchdogInv'
<1> USE DEF WatchdogInv
<1>1. DogTypes'
    BY WatchdogAssumption, HealthyAssumption
       DEF DogTypes, NoProgress, BreakInterrupt, timerVars, cycleVars, watchVars
<1>2. WatchTypes'
    BY DEF WatchTypes, BreakInterrupt, timerVars, watchVars
<1>3. PollReads'
    BY DEF PollReads, Polling, BreakInterrupt
<1>4. UpdateBound'
    BY DEF UpdateBound, BreakInterrupt, timerVars, watchVars
<1>5. CycleBound'
    BY DEF CycleBound, Used, BreakInterrupt, timerVars, watchVars
<1>6. SampleBound'
    BY WatchdogAssumption DEF DogTypes, WatchTypes, SampleBound, Used, BreakInterrupt, watchVars
<1>7. PassBound'
    BY DEF PassBound, Used, BreakInterrupt, timerVars, watchVars
<1>8. HealthyHistory'
    BY DEF HealthyHistory, Alive, BreakInterrupt, watchVars
<1>9. WindowServed'
    BY DEF WindowServed, BreakInterrupt, timerVars, watchVars
<1>10. ProgressMade'
    BY DEF ProgressMade, Used, Ready, BreakInterrupt, timerVars, watchVars
<1>11. FeedsInTime'
    BY WatchdogAssumption, HealthyAssumption
       DEF DogTypes, WatchTypes, FeedsInTime, Used, Succeeding, Polling, Progressed,
           LatchedSafeOff, BreakInterrupt, timerVars, watchVars
<1> QED
    BY <1>1, <1>2, <1>3, <1>4, <1>5, <1>6, <1>7, <1>8, <1>9, <1>10, <1>11

LEMMA NotDueKeeps ==
    ASSUME WatchdogInv, NotDue, UNCHANGED watchVars
    PROVE  WatchdogInv'
<1> USE DEF WatchdogInv
<1>1. DogTypes'
    BY DEF DogTypes, NotDue, timerVars, cycleVars
<1>2. WatchTypes'
    BY DEF WatchTypes, Alive, NotDue, timerVars, watchVars
<1>3. PollReads'
    BY DEF PollReads, Polling, Alive, NotDue, cycleVars
<1>4. UpdateBound'
    BY DEF UpdateBound, Alive, NotDue, timerVars, watchVars
<1>5. CycleBound'
    BY DEF CycleBound, Alive, Used, NotDue, timerVars, cycleVars, watchVars
<1>6. SampleBound'
    BY DEF SampleBound, Alive, Used, Polling, NotDue, timerVars, cycleVars, watchVars
<1>7. PassBound'
    BY DEF PassBound, Alive, Used, NotDue, timerVars, watchVars
<1>8. HealthyHistory'
    BY DEF HealthyHistory, Alive, NotDue, cycleVars, watchVars
<1>9. WindowServed'
    BY DEF WindowServed, NotDue, timerVars, watchVars
<1>10. ProgressMade'
    BY DEF ProgressMade, Used, Ready, NotDue, timerVars, cycleVars, watchVars
<1>11. FeedsInTime'
    BY DEF DogTypes, FeedsInTime, Used, Succeeding, Polling, NotDue, timerVars, watchVars, FeedDue
<1> QED
    BY <1>1, <1>2, <1>3, <1>4, <1>5, <1>6, <1>7, <1>8, <1>9, <1>10, <1>11

LEMMA CopySnapshotKeeps ==
    ASSUME WatchdogInv, CopySnapshot, UNCHANGED watchVars
    PROVE  WatchdogInv'
<1> USE DEF WatchdogInv
<1>1. DogTypes'
    BY DEF DogTypes, Progress, NoProgress, CopySnapshot, timerVars, cycleVars
<1>2. WatchTypes'
    BY DEF WatchTypes, Alive, CopySnapshot, timerVars, watchVars
<1>3. PollReads'
    BY WatchdogAssumption
       DEF DogTypes, PollReads, Polling, NoProgress, CopySnapshot, cycleVars, FeedDue
<1>4. UpdateBound'
    BY DEF UpdateBound, Alive, CopySnapshot, timerVars, watchVars
<1>5. CycleBound'
    BY DEF CycleBound, Alive, Used, CopySnapshot, timerVars, cycleVars, watchVars
<1>6. SampleBound'
    BY DEF SampleBound, Alive, Used, NoProgress, CopySnapshot, timerVars, cycleVars, watchVars
<1>7. PassBound'
    BY DEF PassBound, Alive, Used, CopySnapshot, timerVars, watchVars
<1>8. HealthyHistory'
    BY DEF HealthyHistory, Alive, NoProgress, CopySnapshot, cycleVars, watchVars
<1>9. WindowServed'
    BY DEF WindowServed, CopySnapshot, timerVars, watchVars
<1>10. ProgressMade'
    BY DEF ProgressMade, Used, Ready, CopySnapshot, timerVars, cycleVars, watchVars
<1>11. FeedsInTime'
    BY WatchdogAssumption
       DEF DogTypes, WatchTypes, FeedsInTime, Used, Succeeding, ProgressMade, Ready,
           CopySnapshot, timerVars, cycleVars, watchVars, FeedDue
<1> QED
    BY <1>1, <1>2, <1>3, <1>4, <1>5, <1>6, <1>7, <1>8, <1>9, <1>10, <1>11

LEMMA ReadFaultsKeeps ==
    ASSUME WatchdogInv, ReadFaults, UNCHANGED watchVars
    PROVE  WatchdogInv'
<1> USE DEF WatchdogInv
<1>1. DogTypes'
    BY DEF DogTypes, Progress, ReadFaults, timerVars, cycleVars
<1>2. WatchTypes'
    BY DEF WatchTypes, Alive, ReadFaults, timerVars, watchVars
<1>3. PollReads'
    BY DEF PollReads, Polling, ReadFaults, cycleVars
<1>4. UpdateBound'
    BY DEF UpdateBound, Alive, ReadFaults, timerVars, watchVars
<1>5. CycleBound'
    BY DEF CycleBound, Alive, Used, ReadFaults, timerVars, cycleVars, watchVars
<1>6. SampleBound'
    BY DEF SampleBound, Alive, Used, Polling, ReadFaults, timerVars, cycleVars, watchVars
<1>7. PassBound'
    BY DEF PassBound, Alive, Used, ReadFaults, timerVars, watchVars
<1>8. HealthyHistory'
    BY DEF HealthyHistory, Alive, ReadFaults, cycleVars, watchVars
<1>9. WindowServed'
    BY DEF WindowServed, ReadFaults, timerVars, watchVars
<1>10. ProgressMade'
    BY DEF ProgressMade, Used, Ready, ReadFaults, timerVars, cycleVars, watchVars
<1>11. FeedsInTime'
    BY DEF FeedsInTime, Used, Succeeding, Polling, ReadFaults, timerVars, cycleVars, watchVars
<1> QED
    BY <1>1, <1>2, <1>3, <1>4, <1>5, <1>6, <1>7, <1>8, <1>9, <1>10, <1>11

LEMMA ReadCyclesKeeps ==
    ASSUME WatchdogInv, ReadCycles, UNCHANGED watchVars
    PROVE  WatchdogInv'
<1> USE DEF WatchdogInv
<1>1. DogTypes'
    BY DEF DogTypes, Progress, ReadCycles, timerVars, cycleVars
<1>2. WatchTypes'
    BY DEF WatchTypes, Alive, ReadCycles, timerVars, watchVars
<1>3. PollReads'
    BY DEF PollReads, Polling, ReadCycles, cycleVars
<1>4. UpdateBound'
    BY DEF UpdateBound, Alive, ReadCycles, timerVars, watchVars
<1>5. CycleBound'
    BY DEF CycleBound, Alive, Used, ReadCycles, timerVars, cycleVars, watchVars
<1>6. SampleBound'
    BY DEF SampleBound, Alive, Used, Polling, ReadCycles, timerVars, cycleVars, watchVars
<1>7. PassBound'
    BY DEF PassBound, Alive, Used, ReadCycles, timerVars, watchVars
<1>8. HealthyHistory'
    BY DEF HealthyHistory, Alive, ReadCycles, cycleVars, watchVars
<1>9. WindowServed'
    BY DEF WindowServed, ReadCycles, timerVars, watchVars
<1>10. ProgressMade'
    BY DEF ProgressMade, Used, Ready, ReadCycles, timerVars, cycleVars, watchVars
<1>11. FeedsInTime'
    BY DEF FeedsInTime, Used, Succeeding, Polling, Progressed, LatchedSafeOff, PollReads,
           ReadCycles, timerVars, cycleVars, watchVars
<1> QED
    BY <1>1, <1>2, <1>3, <1>4, <1>5, <1>6, <1>7, <1>8, <1>9, <1>10, <1>11

LEMMA PollFailsKeeps ==
    ASSUME WatchdogInv, PollFails, UNCHANGED watchVars
    PROVE  WatchdogInv'
<1> USE DEF WatchdogInv
<1>1. DogTypes'
    BY DEF DogTypes, Progress, NoProgress, PollFails, timerVars, cycleVars
<1>2. WatchTypes'
    BY DEF WatchTypes, Alive, PollFails, timerVars, watchVars
<1>3. PollReads'
    BY DEF PollReads, Polling, PollFails, cycleVars
<1>4. UpdateBound'
    BY DEF UpdateBound, Alive, PollFails, timerVars, watchVars
<1>5. CycleBound'
    BY DEF CycleBound, Alive, Used, PollFails, timerVars, cycleVars, watchVars
<1>6. SampleBound'
    BY DEF SampleBound, Alive, Used, Polling, PollFails, timerVars, cycleVars, watchVars
<1>7. PassBound'
    BY DEF PassBound, Alive, Used, PollFails, timerVars, watchVars
<1>8. HealthyHistory'
    BY DEF HealthyHistory, Alive, NoProgress, PollFails, cycleVars, watchVars
<1>9. WindowServed'
    BY DEF WindowServed, PollFails, timerVars, watchVars
<1>10. ProgressMade'
    BY DEF ProgressMade, Used, Ready, PollFails, timerVars, cycleVars, watchVars
<1>11. FeedsInTime'
    BY DEF DogTypes, FeedsInTime, Used, Succeeding, Polling, PollReads, PollFails, timerVars,
           watchVars
<1> QED
    BY <1>1, <1>2, <1>3, <1>4, <1>5, <1>6, <1>7, <1>8, <1>9, <1>10, <1>11

LEMMA PollSucceedsKeeps ==
    ASSUME WatchdogInv, PollSucceeds, UNCHANGED watchVars
    PROVE  WatchdogInv'
<1> USE DEF WatchdogInv
<1>1. DogTypes'
    BY WatchdogAssumption DEF DogTypes, Progress, NoProgress, PollSucceeds, timerVars
<1>2. WatchTypes'
    BY DEF WatchTypes, Alive, PollSucceeds, timerVars, watchVars
<1>3. PollReads'
    BY DEF PollReads, Polling, PollSucceeds
<1>4. UpdateBound'
    BY DEF UpdateBound, Alive, PollSucceeds, timerVars, watchVars
<1>5. CycleBound'
    <2>1. poll = "Poll" /\ seen.cycles /\ poll' = "Feed" /\ cycles' = seen.laterCycles
          /\ UNCHANGED <<iwdg, silent, watched>>
        BY DEF PollSucceeds, Progressed, timerVars, watchVars
    <2>2. cycles
        BY <2>1 DEF PollReads, Polling
    <2>3. Used' = Used /\ Used \in Nat
        BY <2>1, WatchdogAssumption DEF Used, DogTypes
    <2> QED
        BY <2>1, <2>2, <2>3 DEF CycleBound, Alive
<1>6. SampleBound'
    BY DEF SampleBound, Alive, Used, Polling, PollReads, PollSucceeds, timerVars, watchVars,
           Progressed, LatchedSafeOff
<1>7. PassBound'
    BY DEF PassBound, Alive, Used, PollSucceeds, timerVars, watchVars
<1>8. HealthyHistory'
    BY DEF HealthyHistory, Alive, NoProgress, PollSucceeds, watchVars
<1>9. WindowServed'
    BY DEF WindowServed, PollSucceeds, timerVars, watchVars
<1>10. ProgressMade'
    BY DEF ProgressMade, PollSucceeds
<1>11. FeedsInTime'
    BY DEF FeedsInTime, Used, Succeeding, PollSucceeds, timerVars, watchVars
<1> QED
    BY <1>1, <1>2, <1>3, <1>4, <1>5, <1>6, <1>7, <1>8, <1>9, <1>10, <1>11

LEMMA FeedKeeps ==
    ASSUME WatchdogInv, Feed, UNCHANGED watchVars
    PROVE  WatchdogInv'
<1> USE DEF WatchdogInv
<1>1. DogTypes'
    BY WatchdogAssumption DEF DogTypes, Feed, cycleVars
<1>2. WatchTypes'
    BY WatchdogAssumption DEF WatchTypes, Alive, Feed, watchVars
<1>3. PollReads'
    BY DEF PollReads, Polling, Alive, Feed, cycleVars
<1>4. UpdateBound'
    BY DEF UpdateBound, Alive, Feed, watchVars
<1>5. CycleBound'
    BY WatchdogAssumption
       DEF DogTypes, WatchTypes, CycleBound, Alive, Used, Feed, cycleVars, watchVars
<1>6. SampleBound'
    BY WatchdogAssumption
       DEF DogTypes, WatchTypes, SampleBound, Alive, Used, Polling, Feed, cycleVars, watchVars
<1>7. PassBound'
    BY WatchdogAssumption DEF DogTypes, WatchTypes, PassBound, Alive, Used, Feed, watchVars
<1>8. HealthyHistory'
    BY DEF HealthyHistory, Alive, Feed, cycleVars, watchVars
<1>9. WindowServed'
    BY DEF WindowServed, Feed, watchVars
<1>10. ProgressMade'
    BY WatchdogAssumption DEF ProgressMade, Used, Feed
<1>11. FeedsInTime'
    BY WatchdogAssumption DEF DogTypes, WatchTypes, FeedsInTime, Used, Succeeding, Feed, watchVars
<1> QED
    BY <1>1, <1>2, <1>3, <1>4, <1>5, <1>6, <1>7, <1>8, <1>9, <1>10, <1>11

LEMMA HasResetKeeps ==
    ASSUME WatchdogInv, HasReset, UNCHANGED watchVars
    PROVE  WatchdogInv'
<1> USE DEF WatchdogInv
<1>1. DogTypes'
    BY DEF DogTypes, HasReset, timerVars, cycleVars, dogVars
<1>2. WatchTypes'
    BY DEF WatchTypes, Alive, HasReset, watchVars, dogVars
<1>3. PollReads'
    BY DEF PollReads, Polling, Alive, HasReset, cycleVars, dogVars
<1>4. UpdateBound'
    BY DEF UpdateBound, Alive, HasReset, dogVars
<1>5. CycleBound'
    BY DEF CycleBound, Alive, HasReset, dogVars
<1>6. SampleBound'
    BY DEF SampleBound, Alive, HasReset, dogVars
<1>7. PassBound'
    BY DEF PassBound, Alive, HasReset, dogVars
<1>8. HealthyHistory'
    BY DEF HealthyHistory, Alive, HasReset, watchVars
<1>9. WindowServed'
    BY DEF WindowServed, HasReset, timerVars, watchVars, dogVars
<1>10. ProgressMade'
    BY DEF ProgressMade, Used, Ready, HasReset, timerVars, cycleVars, watchVars, dogVars
<1>11. FeedsInTime'
    BY DEF FeedsInTime, Succeeding, Polling, HasReset, dogVars
<1> QED
    BY <1>1, <1>2, <1>3, <1>4, <1>5, <1>6, <1>7, <1>8, <1>9, <1>10, <1>11

-----------------------------------------------------------------------------
LEMMA WatchdogInitially == WatchInit => WatchdogInv
<1> SUFFICES ASSUME WatchInit PROVE WatchdogInv
    OBVIOUS
<1> USE WatchdogAssumption, HealthyAssumption DEF WatchInit, DogInit
<1>1. DogTypes /\ WatchTypes /\ PollReads
    <2>1. NoProgress \in Progress
        BY DEF NoProgress, Progress
    <2>2. healthy \in BOOLEAN
        OBVIOUS
    <2>3. DogTypes
        <3>1. /\ wwdg \in 0..WindowPeriod /\ iwdg \in 0..IndependentPeriod
              /\ updates \in 0..(UpdatesPerFeed - 1)
              /\ sinceFeed \in 0..FeedPeriod /\ age \in 0..FeedPeriod
            OBVIOUS
        <3>2. /\ cycles \in BOOLEAN /\ samples \in BOOLEAN /\ latched \in BOOLEAN
              /\ channels \in BOOLEAN /\ active \in BOOLEAN
            BY Zenon
        <3> QED
            BY <2>1, <3>1, <3>2 DEF DogTypes
    <2>4. WatchTypes
        <3>1. wwdg > 0 /\ iwdg > 0 /\ silent \in Nat
            OBVIOUS
        <3>2. proven \in BOOLEAN /\ sampledLast \in BOOLEAN
            BY Zenon
        <3> QED
            BY <2>2, <3>1, <3>2 DEF WatchTypes
    <2>5. PollReads
        BY DEF PollReads, Polling
    <2> QED
        BY <2>3, <2>4, <2>5
<1>2. UpdateBound /\ CycleBound /\ SampleBound /\ PassBound
    BY DEF UpdateBound, CycleBound, SampleBound, PassBound, Used
<1>3. HealthyHistory /\ WindowServed
    <2>1. AtMost(0, FeedPeriod) = 0
        BY DEF AtMost
    <2>2. healthy => watched = "Health"
        OBVIOUS
    <2> QED
        BY <2>1, <2>2 DEF HealthyHistory, WindowServed, Alive
<1>4. ProgressMade /\ FeedsInTime
    BY DEF ProgressMade, FeedsInTime, Used
<1> QED
    BY <1>1, <1>2, <1>3, <1>4 DEF WatchdogInv

LEMMA WatchdogSteps == WatchdogInv /\ [WatchNext]_watchedVars => WatchdogInv'
<1> SUFFICES ASSUME WatchdogInv, [WatchNext]_watchedVars PROVE WatchdogInv'
    OBVIOUS
<1>1. CASE WatchNext
    BY <1>1, UpdateKeeps, ControlInterruptKeeps, LoopPassKeeps, ServiceRideKeeps, TickKeeps,
       BreakInterruptKeeps, NotDueKeeps, CopySnapshotKeeps, ReadFaultsKeeps, ReadCyclesKeeps,
       PollFailsKeeps, PollSucceedsKeeps, FeedKeeps, HasResetKeeps
       DEF WatchNext
<1>2. CASE UNCHANGED watchedVars
    <2>1. /\ UNCHANGED <<wwdg, iwdg, updates, cycles, samples, channels, active, latched>>
          /\ UNCHANGED <<sinceFeed, poll, age, seen>>
          /\ UNCHANGED <<watched, silent, proven, sampledLast, healthy>>
        BY <1>2 DEF watchedVars, dogVars, timerVars, cycleVars, watchVars
    <2>2. Used' = Used /\ Polling' = Polling /\ Ready' = Ready /\ Succeeding' = Succeeding
          /\ Alive' = Alive
        BY <2>1 DEF Used, Polling, Ready, Succeeding, Progressed, LatchedSafeOff, Alive
    <2> QED
        BY <2>1, <2>2
           DEF WatchdogInv, DogTypes, WatchTypes, PollReads, UpdateBound, CycleBound,
               SampleBound, PassBound, HealthyHistory, WindowServed, ProgressMade, FeedsInTime
<1> QED
    BY <1>1, <1>2

LEMMA WatchdogInvariant == WatchSpec => []WatchdogInv
    BY WatchdogInitially, WatchdogSteps, PTL DEF WatchSpec

\* The timers stay between the reset and their reload, and the foreground's
\* copies are of the kinds that MainLoopWatchdog::poll compares.
THEOREM TimersAreTyped == WatchSpec => []DogTypes
<1>1. WatchdogInv => DogTypes
    BY DEF WatchdogInv
<1> QED
    BY <1>1, WatchdogInvariant, PTL

\* A stalled update interrupt, control cycle, conversion or foreground ends in
\* a reset within the bounds that the watchdogs' periods set (runtime.rs,
\* MainLoopWatchdog::poll), whatever the rest of the controller does.
THEOREM StalledPartsEnd == WatchSpec => []StallsEnd
<1>1. WatchdogInv => StallsEnd
    <2> SUFFICES ASSUME WatchdogInv, Alive, watched # "Health"
                 PROVE  silent < (IF watched = "Update" THEN WindowPeriod
                                  ELSE 3 * IndependentPeriod)
        BY DEF StallsEnd
    <2>1. /\ wwdg \in Nat \ {0} /\ iwdg \in Nat \ {0} /\ silent \in Nat
          /\ watched \in {"Update", "Cycle", "Sample", "Pass"}
        BY DEF WatchdogInv, DogTypes, WatchTypes
    <2>2. CASE watched = "Update"
        BY <2>1, <2>2, WatchdogAssumption DEF WatchdogInv, UpdateBound
    <2>3. CASE watched = "Cycle"
        BY <2>1, <2>3, WatchdogAssumption DEF WatchdogInv, CycleBound, Used
    <2>4. CASE watched = "Sample"
        BY <2>1, <2>4, WatchdogAssumption DEF WatchdogInv, SampleBound, Used
    <2>5. CASE watched = "Pass"
        BY <2>1, <2>5, WatchdogAssumption DEF WatchdogInv, PassBound, Used
    <2> QED
        BY <2>1, <2>2, <2>3, <2>4, <2>5
<1> QED
    BY <1>1, WatchdogInvariant, PTL

\* A controller whose update interrupt, control cycles, samples and passes keep
\* coming, or that a latched fault holds in safe-off, is never reset by either
\* watchdog (TIMER_UPDATES_PER_WINDOW_FEED, MAIN_LOOP_FEED_PERIOD_MS).
THEOREM HealthyRunsSurvive == WatchSpec => []HealthyRunsOn
<1>1. WatchdogInv => HealthyRunsOn
    BY DEF WatchdogInv, HealthyHistory, HealthyRunsOn
<1> QED
    BY <1>1, WatchdogInvariant, PTL

-----------------------------------------------------------------------------
(* The retained record: a writer's stores are ordered so that whatever     *)
(* reset or fatal handler cuts it off, the header of a failure is the last *)
(* word to appear and the first to go.                                     *)
\* The record was written by the boots since the last power loss.
Trusted == Booted \/ "Watchdog" \in csr

\* A PWM failure that is there at all has all its words.
Whole(context) == context.header # 0 => \A f \in PwmField : context[f] = context.header

\* A boot clears the flags it has read; a power loss is no watchdog reset.
FlagsTell ==
    /\ Booted => csr = {}
    /\ "Power" \in csr => "Watchdog" \notin csr
    /\ crashed \in BOOLEAN /\ (crashed <=> "Watchdog" \in csr)

\* What the capture has stored of the fresh context.
Fresh ==
    writer = "Capture" =>
        /\ done >= 1 => retained.signature = "Valid"
        /\ done >= 2 => retained.fatal = "None"
        /\ done >= 3 => retained.detail = "None"
        /\ done >= 4 => retained.address = "None"
        /\ done >= 5 => retained.header = 0 /\ first = 0
        /\ done >= 6 => retained.w1 = 0
        /\ done >= 7 => retained.w2 = 0
        /\ done >= 8 => retained.w3 = 0

\* Until power is lost the record holds no noise and its header is the
\* first failure of the boot, with all its words once it is there.
Kept ==
    Trusted =>
        /\ retained \in Context({"Valid"}, {"None", "Loss"} \cup Handler, Word)
        /\ retained.header = first /\ Whole(retained)

\* The failure's words come before its header, and its slot was empty.
Recording ==
    /\ writer = "Failure" =>
        /\ failures > 0
        /\ IF done = 4 THEN first = failures ELSE first = 0
        /\ done >= 1 => retained.w1 = failures
        /\ done >= 2 => retained.w2 = failures
        /\ done >= 3 => retained.w3 = failures
    /\ writer = "Acknowledge" /\ done >= 1 => first = 0

\* A boot has read the failure that the crashed one owed it.
Reported ==
    /\ writer # "Boot" => report.header = owed
    /\ Whole(report) /\ Whole(latest)

\* Telemetry's copy is the newest committed failure, but between stores.
Newest ==
    /\ writer = "Capture" => newest = owed
    /\ writer \in {"None", "Acknowledge"} => latest.header = newest
    /\ writer = "Failure" => IF done = 4 THEN newest = failures ELSE latest.header = newest

\* Each handler stores the reason before the detail.
Reasons ==
    /\ writer \in Handler /\ done >= 1 => retained.fatal # "None"
    /\ Booted \/ (writer = "Boot" /\ "Watchdog" \in csr /\ ~torn) =>
        (retained.fatal = "None" => retained.detail \in {"None", "Loss"})

\* The inductive invariant of the record.
RetainedInv ==
    /\ RecordTypes /\ FlagsTell /\ Fresh /\ Kept /\ Recording /\ Reported /\ Newest /\ Reasons
-----------------------------------------------------------------------------
\* The stores of each writer.
OrderIs ==
    /\ writer = "Capture" => Order = CaptureOrder /\ Len(Order) = 8
    /\ writer = "Failure" => Order = RecordOrder /\ Len(Order) = 4
    /\ writer = "Acknowledge" => Order = ClearOrder /\ Len(Order) = 4
    /\ writer \in Handler => Order = FatalOrder /\ Len(Order) = 3
    /\ writer \in {"Boot", "None"} => Order = <<>> /\ Len(Order) = 0

LEMMA Orders == OrderIs
<1>1. ASSUME writer = "Capture" PROVE Order = CaptureOrder
    BY <1>1 DEF Order, Handler
<1>2. ASSUME writer = "Failure" PROVE Order = RecordOrder
    BY <1>2 DEF Order, Handler
<1>3. ASSUME writer = "Acknowledge" PROVE Order = ClearOrder
    BY <1>3 DEF Order, Handler
<1>4. ASSUME writer \in Handler PROVE Order = FatalOrder
    BY <1>4 DEF Order
<1>5. ASSUME writer \in {"Boot", "None"} PROVE Order = <<>>
    BY <1>5 DEF Order, Handler
<1>6. /\ Len(CaptureOrder) = 8 /\ Len(RecordOrder) = 4
      /\ Len(ClearOrder) = 4 /\ Len(FatalOrder) = 3
    BY DEF CaptureOrder, RecordOrder, ClearOrder, FatalOrder
<1> QED
    BY <1>1, <1>2, <1>3, <1>4, <1>5, <1>6 DEF OrderIs

\* Which word a store changes.
LEMMA StoreCases ==
    ASSUME RecordTypes, Store
    PROVE
    \/ /\ writer = "Capture" /\ done = 0
       /\ retained' = [retained EXCEPT !.signature = "Valid"]
    \/ /\ writer = "Capture" /\ done = 1
       /\ retained' = [retained EXCEPT !.fatal = "None"]
    \/ /\ writer = "Capture" /\ done = 2
       /\ retained' = [retained EXCEPT !.detail = "None"]
    \/ /\ writer = "Capture" /\ done = 3
       /\ retained' = [retained EXCEPT !.address = "None"]
    \/ /\ writer = "Capture" /\ done = 4
       /\ retained' = [retained EXCEPT !.header = 0]
    \/ /\ writer = "Capture" /\ done = 5
       /\ retained' = [retained EXCEPT !.w1 = 0]
    \/ /\ writer = "Capture" /\ done = 6
       /\ retained' = [retained EXCEPT !.w2 = 0]
    \/ /\ writer = "Capture" /\ done = 7
       /\ retained' = [retained EXCEPT !.w3 = 0]
    \/ /\ writer = "Failure" /\ done = 0
       /\ retained' = [retained EXCEPT !.w1 = failures]
    \/ /\ writer = "Failure" /\ done = 1
       /\ retained' = [retained EXCEPT !.w2 = failures]
    \/ /\ writer = "Failure" /\ done = 2
       /\ retained' = [retained EXCEPT !.w3 = failures]
    \/ /\ writer = "Failure" /\ done = 3
       /\ retained' = [retained EXCEPT !.header = failures]
    \/ /\ writer = "Acknowledge" /\ done = 0
       /\ retained' = [retained EXCEPT !.header = 0]
    \/ /\ writer = "Acknowledge" /\ done = 1
       /\ retained' = [retained EXCEPT !.w1 = 0]
    \/ /\ writer = "Acknowledge" /\ done = 2
       /\ retained' = [retained EXCEPT !.w2 = 0]
    \/ /\ writer = "Acknowledge" /\ done = 3
       /\ retained' = [retained EXCEPT !.w3 = 0]
    \/ /\ writer \in Handler /\ done = 0
       /\ retained' = [retained EXCEPT !.fatal = writer]
    \/ /\ writer \in Handler /\ done = 1
       /\ retained' = [retained EXCEPT !.detail = writer]
    \/ /\ writer \in Handler /\ done = 2
       /\ retained' = [retained EXCEPT !.address = writer]
<1> DEFINE word == Order[done + 1]
<1>1. /\ writer \in Writer /\ done \in Nat /\ done < Len(Order)
      /\ retained' = [retained EXCEPT ![word] = Stored(word)]
    BY DEF RecordTypes, Store
<1>2. CASE writer = "Capture"
    <2>o. Order = CaptureOrder /\ Len(Order) = 8
        BY <1>2, Orders DEF OrderIs
    <2>1. done \in 0..7
        BY <1>1, <2>o
    <2>2. /\ (done = 0 => word = "signature") /\ (done = 1 => word = "fatal")
          /\ (done = 2 => word = "detail") /\ (done = 3 => word = "address")
          /\ (done = 4 => word = "header") /\ (done = 5 => word = "w1")
          /\ (done = 6 => word = "w2") /\ (done = 7 => word = "w3")
        BY <2>o DEF CaptureOrder
    <2> HIDE DEF word
    <2>3. /\ Stored("signature") = "Valid" /\ Stored("fatal") = "None"
          /\ Stored("detail") = "None" /\ Stored("address") = "None"
          /\ Stored("header") = 0 /\ Stored("w1") = 0 /\ Stored("w2") = 0
          /\ Stored("w3") = 0
        BY <1>2 DEF Stored, Handler, FreshContext
    <2>4. ASSUME done = 0 PROVE retained' = [retained EXCEPT !.signature = "Valid"]
        BY <1>1, <2>2, <2>3, <2>4
    <2>5. ASSUME done = 1 PROVE retained' = [retained EXCEPT !.fatal = "None"]
        BY <1>1, <2>2, <2>3, <2>5
    <2>6. ASSUME done = 2 PROVE retained' = [retained EXCEPT !.detail = "None"]
        BY <1>1, <2>2, <2>3, <2>6
    <2>7. ASSUME done = 3 PROVE retained' = [retained EXCEPT !.address = "None"]
        BY <1>1, <2>2, <2>3, <2>7
    <2>8. ASSUME done = 4 PROVE retained' = [retained EXCEPT !.header = 0]
        BY <1>1, <2>2, <2>3, <2>8
    <2>9. ASSUME done = 5 PROVE retained' = [retained EXCEPT !.w1 = 0]
        BY <1>1, <2>2, <2>3, <2>9
    <2>10. ASSUME done = 6 PROVE retained' = [retained EXCEPT !.w2 = 0]
        BY <1>1, <2>2, <2>3, <2>10
    <2>11. ASSUME done = 7 PROVE retained' = [retained EXCEPT !.w3 = 0]
        BY <1>1, <2>2, <2>3, <2>11
    <2> QED
        BY <1>2, <2>1, <2>4, <2>5, <2>6, <2>7, <2>8, <2>9, <2>10, <2>11
<1>3. CASE writer = "Failure"
    <2>o. Order = RecordOrder /\ Len(Order) = 4
        BY <1>3, Orders DEF OrderIs
    <2>1. done \in 0..3
        BY <1>1, <2>o
    <2>2. /\ (done = 0 => word = "w1") /\ (done = 1 => word = "w2")
          /\ (done = 2 => word = "w3") /\ (done = 3 => word = "header")
        BY <2>o DEF RecordOrder
    <2> HIDE DEF word
    <2>3. /\ Stored("w1") = failures /\ Stored("w2") = failures
          /\ Stored("w3") = failures /\ Stored("header") = failures
        BY <1>3 DEF Stored, Handler, FreshContext
    <2>4. ASSUME done = 0 PROVE retained' = [retained EXCEPT !.w1 = failures]
        BY <1>1, <2>2, <2>3, <2>4
    <2>5. ASSUME done = 1 PROVE retained' = [retained EXCEPT !.w2 = failures]
        BY <1>1, <2>2, <2>3, <2>5
    <2>6. ASSUME done = 2 PROVE retained' = [retained EXCEPT !.w3 = failures]
        BY <1>1, <2>2, <2>3, <2>6
    <2>7. ASSUME done = 3 PROVE retained' = [retained EXCEPT !.header = failures]
        BY <1>1, <2>2, <2>3, <2>7
    <2> QED
        BY <1>3, <2>1, <2>4, <2>5, <2>6, <2>7
<1>4. CASE writer = "Acknowledge"
    <2>o. Order = ClearOrder /\ Len(Order) = 4
        BY <1>4, Orders DEF OrderIs
    <2>1. done \in 0..3
        BY <1>1, <2>o
    <2>2. /\ (done = 0 => word = "header") /\ (done = 1 => word = "w1")
          /\ (done = 2 => word = "w2") /\ (done = 3 => word = "w3")
        BY <2>o DEF ClearOrder
    <2> HIDE DEF word
    <2>3. /\ Stored("header") = 0 /\ Stored("w1") = 0 /\ Stored("w2") = 0
          /\ Stored("w3") = 0
        BY <1>4 DEF Stored, Handler, FreshContext
    <2>4. ASSUME done = 0 PROVE retained' = [retained EXCEPT !.header = 0]
        BY <1>1, <2>2, <2>3, <2>4
    <2>5. ASSUME done = 1 PROVE retained' = [retained EXCEPT !.w1 = 0]
        BY <1>1, <2>2, <2>3, <2>5
    <2>6. ASSUME done = 2 PROVE retained' = [retained EXCEPT !.w2 = 0]
        BY <1>1, <2>2, <2>3, <2>6
    <2>7. ASSUME done = 3 PROVE retained' = [retained EXCEPT !.w3 = 0]
        BY <1>1, <2>2, <2>3, <2>7
    <2> QED
        BY <1>4, <2>1, <2>4, <2>5, <2>6, <2>7
<1>5. CASE writer \in Handler
    <2>o. Order = FatalOrder /\ Len(Order) = 3
        BY <1>5, Orders DEF OrderIs
    <2>1. done \in 0..2
        BY <1>1, <2>o
    <2>2. /\ (done = 0 => word = "fatal") /\ (done = 1 => word = "detail")
          /\ (done = 2 => word = "address")
        BY <2>o DEF FatalOrder
    <2> HIDE DEF word
    <2>3. /\ Stored("fatal") = writer /\ Stored("detail") = writer
          /\ Stored("address") = writer
        BY <1>5 DEF Stored, Handler, FreshContext
    <2>4. ASSUME done = 0 PROVE retained' = [retained EXCEPT !.fatal = writer]
        BY <1>1, <2>2, <2>3, <2>4
    <2>5. ASSUME done = 1 PROVE retained' = [retained EXCEPT !.detail = writer]
        BY <1>1, <2>2, <2>3, <2>5
    <2>6. ASSUME done = 2 PROVE retained' = [retained EXCEPT !.address = writer]
        BY <1>1, <2>2, <2>3, <2>6
    <2> QED
        BY <1>5, <2>1, <2>4, <2>5, <2>6
<1> QED
    BY <1>1, <1>2, <1>3, <1>4, <1>5, Orders DEF OrderIs, Writer

\* A store changes one word of the record and keeps the others.
LEMMA OneWord ==
    ASSUME NEW S, NEW E, NEW W, NEW context \in Context(S, E, W), NEW after, NEW word
    PROVE
    /\ after = [context EXCEPT !.signature = word] =>
           /\ after.signature = word
           /\ after.fatal = context.fatal /\ after.detail = context.detail
           /\ after.address = context.address
           /\ after.header = context.header /\ after.w1 = context.w1
           /\ after.w2 = context.w2 /\ after.w3 = context.w3
           /\ word \in S => after \in Context(S, E, W)
    /\ after = [context EXCEPT !.fatal = word] =>
           /\ after.fatal = word
           /\ after.signature = context.signature /\ after.detail = context.detail
           /\ after.address = context.address
           /\ after.header = context.header /\ after.w1 = context.w1
           /\ after.w2 = context.w2 /\ after.w3 = context.w3
           /\ word \in E => after \in Context(S, E, W)
    /\ after = [context EXCEPT !.detail = word] =>
           /\ after.detail = word
           /\ after.signature = context.signature /\ after.fatal = context.fatal
           /\ after.address = context.address
           /\ after.header = context.header /\ after.w1 = context.w1
           /\ after.w2 = context.w2 /\ after.w3 = context.w3
           /\ word \in E => after \in Context(S, E, W)
    /\ after = [context EXCEPT !.address = word] =>
           /\ after.address = word
           /\ after.signature = context.signature /\ after.fatal = context.fatal
           /\ after.detail = context.detail
           /\ after.header = context.header /\ after.w1 = context.w1
           /\ after.w2 = context.w2 /\ after.w3 = context.w3
           /\ word \in E => after \in Context(S, E, W)
    /\ after = [context EXCEPT !.header = word] =>
           /\ after.header = word
           /\ after.signature = context.signature /\ after.fatal = context.fatal
           /\ after.detail = context.detail
           /\ after.address = context.address /\ after.w1 = context.w1
           /\ after.w2 = context.w2 /\ after.w3 = context.w3
           /\ word \in W => after \in Context(S, E, W)
    /\ after = [context EXCEPT !.w1 = word] =>
           /\ after.w1 = word
           /\ after.signature = context.signature /\ after.fatal = context.fatal
           /\ after.detail = context.detail
           /\ after.address = context.address /\ after.header = context.header
           /\ after.w2 = context.w2 /\ after.w3 = context.w3
           /\ word \in W => after \in Context(S, E, W)
    /\ after = [context EXCEPT !.w2 = word] =>
           /\ after.w2 = word
           /\ after.signature = context.signature /\ after.fatal = context.fatal
           /\ after.detail = context.detail
           /\ after.address = context.address /\ after.header = context.header
           /\ after.w1 = context.w1 /\ after.w3 = context.w3
           /\ word \in W => after \in Context(S, E, W)
    /\ after = [context EXCEPT !.w3 = word] =>
           /\ after.w3 = word
           /\ after.signature = context.signature /\ after.fatal = context.fatal
           /\ after.detail = context.detail
           /\ after.address = context.address /\ after.header = context.header
           /\ after.w1 = context.w1 /\ after.w2 = context.w2
           /\ word \in W => after \in Context(S, E, W)
    BY DEF Context

\* A step that only hands the record over leaves the histories as they are.
LEMMA HandOver ==
    ASSUME RecordHistory(FALSE), done \in Nat, done' = 0, writer # "Boot", writer' # "Boot",
           writer # "Capture" \/ writer' # "None", crashed \in BOOLEAN
    PROVE  /\ first' = first /\ crashed' = crashed /\ torn' = torn
           /\ owed' = owed /\ newest' = newest
<1>1. ~Commits /\ ~Clears
    <2>1. ~(done' > done)
        OBVIOUS
    <2> QED
        BY <2>1 DEF Commits, Clears
<1>2. ~Boots /\ ~Powers /\ ~Reads
    BY DEF Boots, Powers, Reads
<1>3. ~(writer = "Capture" /\ writer' = "None")
    OBVIOUS
<1>4. first' = first /\ newest' = newest
    BY <1>1, <1>2 DEF RecordHistory
<1>5. crashed' = (crashed \/ FALSE) /\ torn' = torn /\ owed' = owed
    BY <1>2, <1>3 DEF RecordHistory
<1> QED
    BY <1>4, <1>5

\* One of the fatal handlers takes over.
FatalBegins == \E handler \in Handler : RecordFatal(handler)

LEMMA OrdersNext == OrderIs'
    BY Orders, PTL

LEMMA CaptureReadKeeps ==
    ASSUME RetainedInv, CaptureRead, RecordHistory(FALSE)
    PROVE  RetainedInv'
<1> USE DEF RetainedInv
<1>1. RecordTypes'
    BY Orders, OrdersNext, RetainedAssumption
       DEF RecordTypes, Kept, Trusted, Context, FreshContext, Writer, Word, CaptureRead, Begin,
           BootDiagnostics, Reads
<1>2. FlagsTell'
    BY DEF FlagsTell, Booted, CaptureRead, Begin, RecordHistory, Powers
<1>3. Fresh'
    BY DEF Fresh, CaptureRead, Begin
<1>4. Kept'
    BY DEF Kept, Trusted, Booted, CaptureRead, Begin, RecordHistory, Commits, Clears, Powers
<1>5. Recording'
    BY DEF Recording, CaptureRead, Begin
<1>6. Reported'
    <2>1. CASE "Watchdog" \in csr
        <3>1. report' = retained /\ crashed
            BY <2>1 DEF CaptureRead, BootDiagnostics, Kept, Trusted, FlagsTell, Context
        <3>2. owed' = first
            BY <3>1 DEF CaptureRead, Begin, RecordHistory, Reads
        <3> QED
            BY <2>1, <3>1, <3>2 DEF CaptureRead, Kept, Trusted, Reported
    <2>2. CASE "Watchdog" \notin csr
        <3>1. report' = FreshContext /\ ~crashed
            BY <2>2 DEF CaptureRead, BootDiagnostics, FlagsTell
        <3>2. owed' = 0
            BY <3>1 DEF CaptureRead, Begin, RecordHistory, Reads
        <3> QED
            BY <3>1, <3>2 DEF CaptureRead, FreshContext, Reported, Whole
    <2> QED
        BY <2>1, <2>2
<1>7. Newest'
    BY DEF Newest, CaptureRead, Begin, RecordHistory, Reads
<1>8. Reasons'
    BY DEF Reasons, Booted, CaptureRead, Begin
<1> QED
    BY <1>1, <1>2, <1>3, <1>4, <1>5, <1>6, <1>7, <1>8

LEMMA CaptureEndKeeps ==
    ASSUME RetainedInv, CaptureEnd, RecordHistory(FALSE)
    PROVE  RetainedInv'
<1> USE DEF RetainedInv
<1>f. done = 8
    BY Orders DEF OrderIs, CaptureEnd, Finished
<1>1. RecordTypes'
    BY DEF RecordTypes, Context, Failure, Writer, PwmField, CaptureEnd, Begin, ClearedFlags,
           Failure
<1>2. FlagsTell'
    BY DEF FlagsTell, CaptureEnd, Begin, ClearedFlags, RecordHistory
<1>3. Fresh'
    BY DEF Fresh, CaptureEnd, Begin
<1>4. Kept'
    BY <1>f, RetainedAssumption
       DEF RecordTypes, Fresh, Context, Word, Kept, Whole, CaptureEnd, RecordHistory, Commits
<1>5. Recording'
    BY DEF Recording, CaptureEnd, Begin
<1>6. Reported'
    BY DEF Reported, Whole, PwmField, CaptureEnd, Failure, RecordHistory, Reads
<1>7. Newest'
    <2>1. latest'.header = report.header
        BY DEF CaptureEnd, Failure, PwmField
    <2>2. newest' = newest /\ writer = "Capture" /\ writer' = "None"
        BY DEF CaptureEnd, Begin, RecordHistory, Reads, Commits
    <2> QED
        BY <2>1, <2>2 DEF Newest, Reported
<1>8. Reasons'
    BY <1>f DEF Fresh, Reasons, CaptureEnd, Begin
<1> QED
    BY <1>1, <1>2, <1>3, <1>4, <1>5, <1>6, <1>7, <1>8

LEMMA RecordFailureKeeps ==
    ASSUME RetainedInv, RecordFailure, RecordHistory(FALSE)
    PROVE  RetainedInv'
<1> USE DEF RetainedInv
<1>o. writer \in Writer /\ done \in Nat
    BY DEF RecordTypes
<1>h. /\ first' = first /\ crashed' = crashed /\ torn' = torn /\ owed' = owed /\ newest' = newest
      /\ writer' \in {"None", "Failure"} /\ done' = 0 /\ writer \in {"None", "Acknowledge"}
    <2>1. /\ writer' \in {"None", "Failure"} /\ done' = 0 /\ writer \in {"None", "Acknowledge"}
        BY DEF RecordFailure, Begin
    <2> QED
        BY <2>1, <1>o, HandOver DEF FlagsTell
<1>f. writer = "Acknowledge" => done = 4
    BY Orders DEF OrderIs, RecordFailure, Finished
<1>1. RecordTypes'
    BY Orders, OrdersNext, <1>o, <1>f, RetainedAssumption
       DEF RecordTypes, Writer, Word, RecordFailure, Begin, SlotIsEmpty, Finished, Commits,
           Clears, Boots, Powers, Reads
<1>2. FlagsTell'
    BY DEF FlagsTell, Booted, RecordFailure, RecordHistory
<1>3. Fresh'
    BY DEF Fresh, RecordFailure, Begin
<1>4. Kept'
    BY Orders
       DEF Kept, Trusted, Booted, Handler, RecordFailure, Begin, SlotIsEmpty, Finished,
           RecordHistory, Commits, Clears, Powers
<1>5. Recording'
    <2>1. retained.header = first
        BY DEF RecordFailure, Kept, Trusted, Booted
    <2>2. failures \in Nat /\ failures' = failures + 1
        BY DEF RecordFailure, RecordTypes, Word
    <2>3. writer' = "Failure" => first = 0
        BY <2>1 DEF RecordFailure, Begin, SlotIsEmpty
    <2>4. done' = 0 /\ writer' \in {"None", "Failure"}
        BY DEF RecordFailure, Begin
    <2> QED
        BY <1>h, <2>2, <2>3, <2>4 DEF Recording
<1>6. Reported'
    BY DEF Reported, RecordFailure, RecordHistory, Reads
<1>7. Newest'
    BY DEF Newest, RecordFailure, Begin, RecordHistory, Commits, Reads
<1>8. Reasons'
    BY DEF Reasons, Booted, RecordFailure, Begin
<1> QED
    BY <1>1, <1>2, <1>3, <1>4, <1>5, <1>6, <1>7, <1>8

LEMMA RecordedKeeps ==
    ASSUME RetainedInv, Recorded, RecordHistory(FALSE)
    PROVE  RetainedInv'
<1> USE DEF RetainedInv
<1>o. writer \in Writer /\ done \in Nat
    BY DEF RecordTypes
<1>f. done = 4
    BY Orders DEF OrderIs, Recorded, Finished
<1>1. RecordTypes'
    BY DEF RecordTypes, Writer, Recorded, Begin, Reads
<1>2. FlagsTell'
    BY DEF FlagsTell, Booted, Recorded, RecordHistory
<1>3. Fresh'
    BY DEF Fresh, Recorded, Begin
<1>4. Kept'
    BY DEF RecordTypes, Kept, Trusted, Booted, Recorded, Begin, RecordHistory, Commits, Clears,
           Powers
<1>5. Recording'
    BY DEF Recording, Recorded, Begin
<1>6. Reported'
    BY DEF Reported, Whole, PwmField, Recorded, RecordHistory, Reads
<1>7. Newest'
    <2>1. latest'.header = failures
        BY DEF Recorded, PwmField
    <2>2. newest' = newest /\ writer = "Failure" /\ writer' = "None"
        <3>1. writer = "Failure" /\ writer' = "None" /\ done' = 0
            BY DEF Recorded, Begin
        <3> QED
            BY <3>1, <1>o, HandOver DEF FlagsTell
    <2> QED
        BY <1>f, <2>1, <2>2 DEF Newest
<1>8. Reasons'
    BY DEF Reasons, Booted, Recorded, Begin
<1> QED
    BY <1>1, <1>2, <1>3, <1>4, <1>5, <1>6, <1>7, <1>8

LEMMA ClearFailureKeeps ==
    ASSUME RetainedInv, ClearFailure, RecordHistory(FALSE)
    PROVE  RetainedInv'
<1> USE DEF RetainedInv
<1>1. RecordTypes'
    BY DEF RecordTypes, Writer, ClearFailure, Begin, Reads
<1>2. FlagsTell'
    BY DEF FlagsTell, Booted, ClearFailure, RecordHistory
<1>3. Fresh'
    BY DEF Fresh, ClearFailure, Begin
<1>4. Kept'
    BY DEF Kept, Trusted, Booted, FlagsTell, ClearFailure, RecordHistory, Commits, Clears, Powers
<1>5. Recording'
    BY DEF Recording, ClearFailure, Begin
<1>6. Reported'
    BY DEF Reported, ClearFailure, RecordHistory, Reads
<1>7. Newest'
    BY DEF Newest, ClearFailure, Begin, RecordHistory, Commits, Reads
<1>8. Reasons'
    BY DEF Reasons, Booted, ClearFailure, Begin
<1> QED
    BY <1>1, <1>2, <1>3, <1>4, <1>5, <1>6, <1>7, <1>8

LEMMA ClearedKeeps ==
    ASSUME RetainedInv, Cleared, RecordHistory(FALSE)
    PROVE  RetainedInv'
<1> USE DEF RetainedInv
<1>1. RecordTypes'
    BY OrdersNext DEF RecordTypes, Writer, Cleared, Begin
<1>2. FlagsTell'
    BY DEF FlagsTell, Booted, Cleared, RecordHistory
<1>3. Fresh'
    BY DEF Fresh, Cleared, Begin
<1>4. Kept'
    BY DEF RecordTypes, Kept, Trusted, Booted, Cleared, Begin, RecordHistory, Commits, Clears,
           Powers
<1>5. Recording'
    BY DEF Recording, Cleared, Begin
<1>6. Reported'
    BY DEF Reported, Cleared, RecordHistory, Reads
<1>7. Newest'
    BY DEF Newest, Cleared, Begin, RecordHistory, Commits, Reads
<1>8. Reasons'
    BY DEF Reasons, Booted, Cleared, Begin
<1> QED
    BY <1>1, <1>2, <1>3, <1>4, <1>5, <1>6, <1>7, <1>8

LEMMA RecordSafetyLossKeeps ==
    ASSUME RetainedInv, RecordSafetyLoss, RecordHistory(FALSE)
    PROVE  RetainedInv'
<1> USE DEF RetainedInv
<1>1. RecordTypes'
    BY Orders, OrdersNext DEF OrderIs, RecordTypes, Context, RecordSafetyLoss
<1>2. FlagsTell'
    BY DEF FlagsTell, Booted, RecordSafetyLoss, RecordHistory
<1>3. Fresh'
    BY DEF Fresh, RecordSafetyLoss
<1>4. Kept'
    BY DEF Context, Kept, Trusted, Booted, Whole, PwmField, RecordSafetyLoss, RecordHistory,
           Commits, Clears, Powers
<1>5. Recording'
    BY DEF Recording, RecordSafetyLoss
<1>6. Reported'
    BY DEF Reported, RecordSafetyLoss, RecordHistory, Reads
<1>7. Newest'
    BY DEF Newest, RecordSafetyLoss, RecordHistory, Commits, Reads
<1>8. Reasons'
    BY DEF Reasons, RecordSafetyLoss
<1> QED
    BY <1>1, <1>2, <1>3, <1>4, <1>5, <1>6, <1>7, <1>8

LEMMA FatalBeginsKeeps ==
    ASSUME RetainedInv, FatalBegins, RecordHistory(FALSE)
    PROVE  RetainedInv'
<1> USE DEF RetainedInv
<1>o. writer \in Writer /\ done \in Nat
    BY DEF RecordTypes
<1>h. /\ first' = first /\ crashed' = crashed /\ torn' = torn /\ owed' = owed /\ newest' = newest
      /\ writer' \in Handler /\ done' = 0 /\ writer \notin {"Boot", "Capture"}
      /\ UNCHANGED <<csr, retained, failures, report, latest>>
    <2>1. /\ writer' \in Handler /\ done' = 0 /\ writer \notin {"Boot", "Capture"}
          /\ UNCHANGED <<csr, retained, failures, report, latest>>
        BY DEF FatalBegins, RecordFatal, Begin, Handler
    <2> QED
        BY <2>1, <1>o, HandOver DEF FlagsTell, Handler
<1>1. RecordTypes'
    BY Orders DEF RecordTypes, Writer, ResetFlag, FatalBegins, RecordFatal, Begin, Commits, Clears
<1>2. FlagsTell'
    BY DEF FlagsTell, Booted, Handler, FatalBegins, RecordFatal, RecordHistory
<1>3. Fresh'
    BY DEF Fresh, FatalBegins, RecordFatal, Begin
<1>4. Kept'
    BY <1>h DEF Kept, Trusted, Booted
<1>5. Recording'
    BY DEF Recording, Handler, FatalBegins, RecordFatal, Begin
<1>6. Reported'
    BY <1>h DEF Reported
<1>7. Newest'
    BY DEF Newest, Handler, FatalBegins, RecordFatal, Begin
<1>8. Reasons'
    BY <1>h DEF Reasons, Booted
<1> QED
    BY <1>1, <1>2, <1>3, <1>4, <1>5, <1>6, <1>7, <1>8

LEMMA WatchdogResetKeeps ==
    ASSUME RetainedInv, WatchdogReset, RecordHistory(TRUE)
    PROVE  RetainedInv'
<1> USE DEF RetainedInv
<1>1. RecordTypes'
    BY Orders, OrdersNext, RetainedAssumption
       DEF OrderIs, RecordTypes, Kept, Trusted, Context, Failure, FreshContext, Writer, Handler,
           Word, PwmField, ResetFlag, WatchdogReset, Reset, Begin, Failure, RecordHistory, Powers
<1>2. FlagsTell'
    BY DEF FlagsTell, Booted, WatchdogReset, Reset, Begin, RecordHistory, Powers
<1>3. Fresh'
    BY DEF Fresh, WatchdogReset, Reset, Begin
<1>4. Kept'
    BY DEF RecordTypes, Kept, Trusted, FlagsTell, WatchdogReset, Reset, Begin, RecordHistory,
           Commits, Clears, Powers
<1>5. Recording'
    BY DEF Recording, WatchdogReset, Reset, Begin
<1>6. Reported'
    BY DEF Reported, Whole, FreshContext, PwmField, WatchdogReset, Reset, Begin, Failure
<1>7. Newest'
    BY DEF Newest, WatchdogReset, Reset, Begin
<1>8. Reasons'
    BY DEF Reasons, WatchdogReset, Reset, Begin
<1> QED
    BY <1>1, <1>2, <1>3, <1>4, <1>5, <1>6, <1>7, <1>8

LEMMA PinResetKeeps ==
    ASSUME RetainedInv, PinReset, RecordHistory(FALSE)
    PROVE  RetainedInv'
<1> USE DEF RetainedInv
<1>1. RecordTypes'
    BY Orders, OrdersNext, RetainedAssumption
       DEF OrderIs, RecordTypes, Kept, Trusted, Context, Failure, FreshContext, Writer, Handler,
           Word, PwmField, ResetFlag, PinReset, Reset, Begin, Failure, RecordHistory, Clears,
           Boots, Reads
<1>2. FlagsTell'
    BY DEF FlagsTell, Booted, PinReset, Reset, Begin, RecordHistory, Powers
<1>3. Fresh'
    BY DEF Fresh, PinReset, Reset, Begin
<1>4. Kept'
    BY DEF RecordTypes, Kept, Trusted, Booted, FlagsTell, PinReset, Reset, Begin, RecordHistory,
           Commits, Clears, Powers
<1>5. Recording'
    BY DEF Recording, PinReset, Reset, Begin
<1>6. Reported'
    BY DEF Reported, Whole, FreshContext, PwmField, PinReset, Reset, Begin, Failure
<1>7. Newest'
    BY DEF Newest, PinReset, Reset, Begin
<1>8. Reasons'
    BY DEF Reasons, Booted, Handler, PinReset, Reset, Begin, RecordHistory, Boots
<1> QED
    BY <1>1, <1>2, <1>3, <1>4, <1>5, <1>6, <1>7, <1>8

LEMMA SoftwareResetKeeps ==
    ASSUME RetainedInv, SoftwareReset, RecordHistory(FALSE)
    PROVE  RetainedInv'
<1> USE DEF RetainedInv
<1>1. RecordTypes'
    BY Orders, RetainedAssumption
       DEF OrderIs, RecordTypes, Context, Failure, FreshContext, Writer, Word, PwmField,
           ResetFlag, SoftwareReset, Reset, Begin, Failure
<1>2. FlagsTell'
    BY DEF FlagsTell, Booted, SoftwareReset, Reset, Begin, RecordHistory
<1>3. Fresh'
    BY DEF Fresh, SoftwareReset, Reset, Begin
<1>4. Kept'
    BY DEF Kept, Trusted, Booted, FlagsTell, SoftwareReset, Reset, Begin
<1>5. Recording'
    BY DEF Recording, SoftwareReset, Reset, Begin
<1>6. Reported'
    BY DEF Reported, Whole, FreshContext, PwmField, SoftwareReset, Reset, Begin, Failure
<1>7. Newest'
    BY DEF Newest, SoftwareReset, Reset, Begin
<1>8. Reasons'
    BY DEF Reasons, Booted, SoftwareReset, Reset, Begin
<1> QED
    BY <1>1, <1>2, <1>3, <1>4, <1>5, <1>6, <1>7, <1>8

LEMMA PowerLossKeeps ==
    ASSUME RetainedInv, PowerLoss, RecordHistory(FALSE)
    PROVE  RetainedInv'
<1> USE DEF RetainedInv
<1>o. writer \in Writer /\ done \in Nat
    BY DEF RecordTypes
<1>1. RecordTypes'
    BY Orders, OrdersNext, <1>o, RetainedAssumption
       DEF OrderIs, RecordTypes, Kept, Trusted, Context, Failure, FreshContext, Writer, Word,
           PwmField, ResetFlag, PowerUpNoise, PowerLoss, Begin, Failure, RecordHistory, Clears,
           Boots, Powers, Reads
<1>2. FlagsTell'
    BY DEF FlagsTell, Booted, PowerLoss, Begin, RecordHistory, Powers
<1>3. Fresh'
    BY DEF Fresh, PowerLoss, Begin
<1>4. Kept'
    BY DEF Kept, Trusted, Booted, PowerLoss, Begin
<1>5. Recording'
    BY DEF Recording, PowerLoss, Begin
<1>6. Reported'
    BY DEF Reported, Whole, FreshContext, PwmField, PowerLoss, Begin, Failure
<1>7. Newest'
    BY DEF Newest, PowerLoss, Begin
<1>8. Reasons'
    BY DEF Reasons, Booted, PowerLoss, Begin
<1> QED
    BY <1>1, <1>2, <1>3, <1>4, <1>5, <1>6, <1>7, <1>8

\* What a store does to the histories: the header counts.
LEMMA StoreHistory ==
    ASSUME RecordTypes, FlagsTell, Store, RecordHistory(FALSE)
    PROVE  /\ writer' = writer /\ done' = done + 1 /\ done \in Nat
           /\ UNCHANGED <<csr, failures, report, latest, crashed, torn, owed>>
           /\ (writer = "Capture" /\ done = 4) \/ (writer = "Acknowledge" /\ done = 0) =>
                  first' = 0 /\ newest' = newest
           /\ writer = "Failure" /\ done = 3 /\ first = 0 =>
                  first' = failures /\ newest' = failures
           /\ ~((writer = "Capture" /\ done = 4) \/ (writer = "Acknowledge" /\ done = 0)
                \/ (writer = "Failure" /\ done = 3)) => first' = first /\ newest' = newest
<1>1. /\ writer' = writer /\ done' = done + 1 /\ done \in Nat
      /\ UNCHANGED <<csr, failures, report, latest>>
    BY DEF Store, RecordTypes
<1>2. ~Boots /\ ~Powers /\ ~Reads /\ writer # "Boot" /\ (writer' # "None" \/ writer # "Capture")
    BY <1>1, Orders DEF Boots, Powers, Reads, Store, OrderIs
<1>3. Order' = Order
    BY <1>1 DEF Order
<1>4. writer = "Capture" => (Order[done'] = "header" <=> done = 4)
    <2> SUFFICES ASSUME writer = "Capture" PROVE Order[done'] = "header" <=> done = 4
        OBVIOUS
    <2>1. Order = CaptureOrder /\ done < 8
        BY Orders DEF OrderIs, Store
    <2> QED
        BY <1>1, <2>1 DEF CaptureOrder
<1>5. writer = "Failure" => (Order[done'] = "header" <=> done = 3)
    <2> SUFFICES ASSUME writer = "Failure" PROVE Order[done'] = "header" <=> done = 3
        OBVIOUS
    <2>1. Order = RecordOrder /\ done < 4
        BY Orders DEF OrderIs, Store
    <2> QED
        BY <1>1, <2>1 DEF RecordOrder
<1>6. writer = "Acknowledge" => (Order[done'] = "header" <=> done = 0)
    <2> SUFFICES ASSUME writer = "Acknowledge" PROVE Order[done'] = "header" <=> done = 0
        OBVIOUS
    <2>1. Order = ClearOrder /\ done < 4
        BY Orders DEF OrderIs, Store
    <2> QED
        BY <1>1, <2>1 DEF ClearOrder
<1>7. Clears <=> (writer = "Capture" /\ done = 4) \/ (writer = "Acknowledge" /\ done = 0)
    BY <1>1, <1>4, <1>6 DEF Clears
<1>8. Commits <=> writer = "Failure" /\ done = 3
    BY <1>1, <1>5 DEF Commits
<1>9. /\ first' = IF Clears THEN 0 ELSE IF Commits /\ first = 0 THEN failures ELSE first
      /\ newest' = IF Commits /\ first = 0 THEN failures ELSE newest
      /\ UNCHANGED <<crashed, torn, owed>>
    BY <1>1, <1>2 DEF RecordHistory, FlagsTell
<1> QED
    BY <1>1, <1>7, <1>8, <1>9

\* A store keeps the record within any sets that hold what is stored.
LEMMA StoreStays ==
    ASSUME RecordTypes, Store, NEW S, NEW E, NEW W, retained \in Context(S, E, W),
           "Valid" \in S, "None" \in E, Handler \subseteq E, 0 \in W, failures \in W
    PROVE  retained' \in Context(S, E, W)
<1>1. ASSUME NEW word \in S, retained' = [retained EXCEPT !.signature = word]
      PROVE  retained' \in Context(S, E, W)
    BY <1>1, OneWord
<1>2. ASSUME NEW word \in E, retained' = [retained EXCEPT !.fatal = word]
      PROVE  retained' \in Context(S, E, W)
    BY <1>2, OneWord
<1>3. ASSUME NEW word \in E, retained' = [retained EXCEPT !.detail = word]
      PROVE  retained' \in Context(S, E, W)
    BY <1>3, OneWord
<1>4. ASSUME NEW word \in E, retained' = [retained EXCEPT !.address = word]
      PROVE  retained' \in Context(S, E, W)
    BY <1>4, OneWord
<1>5. ASSUME NEW word \in W, retained' = [retained EXCEPT !.header = word]
      PROVE  retained' \in Context(S, E, W)
    BY <1>5, OneWord
<1>6. ASSUME NEW word \in W, retained' = [retained EXCEPT !.w1 = word]
      PROVE  retained' \in Context(S, E, W)
    BY <1>6, OneWord
<1>7. ASSUME NEW word \in W, retained' = [retained EXCEPT !.w2 = word]
      PROVE  retained' \in Context(S, E, W)
    BY <1>7, OneWord
<1>8. ASSUME NEW word \in W, retained' = [retained EXCEPT !.w3 = word]
      PROVE  retained' \in Context(S, E, W)
    BY <1>8, OneWord
<1> QED
    BY StoreCases, <1>1, <1>2, <1>3, <1>4, <1>5, <1>6, <1>7, <1>8

LEMMA StoreKeeps ==
    ASSUME RetainedInv, Store, RecordHistory(FALSE)
    PROVE  RetainedInv'
<1> USE DEF RetainedInv
<1>h. /\ writer' = writer /\ done' = done + 1 /\ done \in Nat
      /\ UNCHANGED <<csr, failures, report, latest, crashed, torn, owed>>
    BY StoreHistory
<1>t. RecordTypes'
    <2>1. done' \in 0..Len(Order')
        <3>1. Order' = Order
            BY <1>h DEF Order
        <3>2. Len(Order) \in Nat /\ done < Len(Order)
            BY DEF Store
        <3> QED
            BY <1>h, <3>1, <3>2
    <2>2. retained' \in Context({"Valid", "Noise"},
                            {"None", "Loss", "Noise"} \cup Handler, 0..(MaxFailures + 1))
        <3>1. /\ "None" \in {"None", "Loss", "Noise"} \cup Handler
              /\ Handler \subseteq {"None", "Loss", "Noise"} \cup Handler
              /\ 0 \in 0..(MaxFailures + 1) /\ failures \in 0..(MaxFailures + 1)
            BY RetainedAssumption DEF RecordTypes, Word
        <3>2. retained \in Context({"Valid", "Noise"},
                            {"None", "Loss", "Noise"} \cup Handler, 0..(MaxFailures + 1))
            BY DEF RecordTypes
        <3> QED
            BY <3>1, <3>2, StoreStays
    <2> QED
        BY <1>h, <2>1, <2>2 DEF RecordTypes
<1>k. Trusted' = Trusted
    BY <1>h DEF Trusted, Booted
<1>s. ASSUME Trusted
      PROVE  retained' \in Context({"Valid"}, {"None", "Loss"} \cup Handler, Word)
    <2>1. /\ "None" \in {"None", "Loss"} \cup Handler
          /\ Handler \subseteq {"None", "Loss"} \cup Handler
          /\ 0 \in Word /\ failures \in Word
        BY RetainedAssumption DEF RecordTypes, Word
    <2>2. retained \in Context({"Valid"}, {"None", "Loss"} \cup Handler, Word)
        BY <1>s DEF Kept
    <2> QED
        BY <2>1, <2>2, StoreStays
<1>w. \E S, E, W : retained \in Context(S, E, W)
    BY DEF RecordTypes
<1>b. writer \notin {"Boot", "None"} /\ (writer = "Capture" \/ Booted)
    BY Orders DEF OrderIs, Store, RecordTypes, Booted
<1>f. FlagsTell'
    BY <1>h DEF FlagsTell, Booted
<1>r. Reported'
    BY <1>h DEF Reported
<1>q. writer \in Writer
    BY DEF RecordTypes
<1>1. CASE writer = "Capture"
    <2>1. \/ done = 0 /\ retained' = [retained EXCEPT !.signature = "Valid"]
          \/ done = 1 /\ retained' = [retained EXCEPT !.fatal = "None"]
          \/ done = 2 /\ retained' = [retained EXCEPT !.detail = "None"]
          \/ done = 3 /\ retained' = [retained EXCEPT !.address = "None"]
          \/ done = 4 /\ retained' = [retained EXCEPT !.header = 0]
          \/ done = 5 /\ retained' = [retained EXCEPT !.w1 = 0]
          \/ done = 6 /\ retained' = [retained EXCEPT !.w2 = 0]
          \/ done = 7 /\ retained' = [retained EXCEPT !.w3 = 0]
        BY <1>1, StoreCases DEF Handler
    <2>2. Fresh'
        <3>1. first' = (IF done = 4 THEN 0 ELSE first)
            BY <1>1, StoreHistory
        <3> QED
            BY <1>1, <1>h, <1>w, <2>1, <3>1, OneWord DEF Fresh
    <2>3. Kept'
        <3>1. \/ done \in 0..3 /\ retained'.header = retained.header
               /\ retained'.w1 = retained.w1 /\ retained'.w2 = retained.w2 /\ retained'.w3 = retained.w3
              \/ done = 4 /\ retained'.header = 0
              \/ done \in 5..7 /\ retained'.header = retained.header
            BY <1>w, <2>1, OneWord
        <3>2. ASSUME Trusted PROVE retained'.header = first' /\ Whole(retained')
            BY <1>1, <1>h, <3>1, <3>2, StoreHistory DEF Kept, Whole, Fresh, PwmField
        <3> QED
            BY <1>k, <1>s, <3>2 DEF Kept
    <2>4. Recording'
        BY <1>1, <1>h, <2>1 DEF Recording
    <2>5. Newest'
        BY <1>1, <1>h, <2>1, StoreHistory DEF Newest
    <2>6. Reasons'
        BY <1>1, <1>h, <2>1 DEF Reasons, Booted, Handler
    <2> QED
        BY <1>t, <1>f, <1>r, <2>2, <2>3, <2>4, <2>5, <2>6
<1>2. CASE writer = "Failure"
    <2>1. \/ done = 0 /\ retained' = [retained EXCEPT !.w1 = failures]
          \/ done = 1 /\ retained' = [retained EXCEPT !.w2 = failures]
          \/ done = 2 /\ retained' = [retained EXCEPT !.w3 = failures]
          \/ done = 3 /\ retained' = [retained EXCEPT !.header = failures]
        BY <1>2, StoreCases DEF Handler
    <2>2. Fresh'
        BY <1>2, <1>h, <2>1 DEF Fresh
    <2>3. Kept'
        <3>1. \/ done \in 0..2 /\ retained'.header = retained.header
              \/ done = 3 /\ retained'.header = failures
               /\ retained'.w1 = retained.w1 /\ retained'.w2 = retained.w2 /\ retained'.w3 = retained.w3
            BY <1>w, <2>1, OneWord
        <3>2. ASSUME Trusted PROVE retained'.header = first' /\ Whole(retained')
            BY <1>2, <1>h, <3>1, <3>2, StoreHistory DEF Kept, Whole, Recording, PwmField
        <3> QED
            BY <1>k, <1>s, <3>2 DEF Kept
    <2>4. Recording'
        BY <1>2, <1>h, <2>1, StoreHistory DEF Recording, RecordTypes, Context
    <2>5. Newest'
        BY <1>2, <1>h, <2>1, StoreHistory DEF Newest, Recording
    <2>6. Reasons'
        BY <1>2, <1>h, <2>1 DEF Reasons, Booted, RecordTypes, Context, Handler
    <2> QED
        BY <1>t, <1>f, <1>r, <2>2, <2>3, <2>4, <2>5, <2>6
<1>3. CASE writer = "Acknowledge"
    <2>1. \/ done = 0 /\ retained' = [retained EXCEPT !.header = 0]
          \/ done = 1 /\ retained' = [retained EXCEPT !.w1 = 0]
          \/ done = 2 /\ retained' = [retained EXCEPT !.w2 = 0]
          \/ done = 3 /\ retained' = [retained EXCEPT !.w3 = 0]
        BY <1>3, StoreCases DEF Handler
    <2>2. Fresh'
        BY <1>3, <1>h, <2>1 DEF Fresh
    <2>3. Kept'
        <3>1. \/ done = 0 /\ retained'.header = 0
              \/ done \in 1..3 /\ retained'.header = retained.header
            BY <1>w, <2>1, OneWord
        <3>2. ASSUME Trusted PROVE retained'.header = first' /\ Whole(retained')
            BY <1>3, <1>h, <3>1, <3>2, StoreHistory DEF Kept, Whole, Recording
        <3> QED
            BY <1>k, <1>s, <3>2 DEF Kept
    <2>4. Recording'
        BY <1>3, <1>h, <2>1, StoreHistory DEF Recording
    <2>5. Newest'
        BY <1>3, <1>h, <2>1, StoreHistory DEF Newest
    <2>6. Reasons'
        BY <1>3, <1>h, <2>1 DEF Reasons, Booted, RecordTypes, Context, Handler
    <2> QED
        BY <1>t, <1>f, <1>r, <2>2, <2>3, <2>4, <2>5, <2>6
<1>4. CASE writer \in Handler
    <2>1. \/ done = 0 /\ retained' = [retained EXCEPT !.fatal = writer]
          \/ done = 1 /\ retained' = [retained EXCEPT !.detail = writer]
          \/ done = 2 /\ retained' = [retained EXCEPT !.address = writer]
        BY <1>4, StoreCases DEF Handler
    <2>2. Fresh'
        BY <1>4, <1>h, <2>1 DEF Fresh, Handler
    <2>3. Kept'
        <3>1. /\ done \in 0..2 /\ retained'.header = retained.header
              /\ retained'.w1 = retained.w1 /\ retained'.w2 = retained.w2 /\ retained'.w3 = retained.w3
            BY <1>w, <2>1, OneWord
        <3>2. ASSUME Trusted PROVE retained'.header = first' /\ Whole(retained')
            BY <1>4, <1>h, <3>1, <3>2, StoreHistory DEF Kept, Whole, PwmField, Handler
        <3> QED
            BY <1>k, <1>s, <3>2 DEF Kept
    <2>4. Recording'
        BY <1>4, <1>h, <2>1 DEF Recording, Handler
    <2>5. Newest'
        BY <1>4, <1>h, <2>1 DEF Newest, Handler
    <2>6. Reasons'
        BY <1>4, <1>h, <2>1 DEF Reasons, RecordTypes, Context, Handler
    <2> QED
        BY <1>t, <1>f, <1>r, <2>2, <2>3, <2>4, <2>5, <2>6
<1> QED
    BY <1>b, <1>q, <1>1, <1>2, <1>3, <1>4 DEF Writer

-----------------------------------------------------------------------------
LEMMA RetainedInitially == ReportInit => RetainedInv
<1> SUFFICES ASSUME ReportInit PROVE RetainedInv
    OBVIOUS
<1> USE DEF ReportInit, RecordInit, ReportHistoryInit
<1>1. RecordTypes
    <2>1. Len(Order) = 0
        BY Orders DEF OrderIs
    <2> QED
        BY <2>1, RetainedAssumption
           DEF RecordTypes, Context, PowerUpNoise, FreshContext, Failure, Word, ResetFlag,
               Writer, PwmField
<1>2. FlagsTell /\ Fresh /\ Kept /\ Recording
    BY DEF FlagsTell, Fresh, Kept, Trusted, Booted, Recording
<1>3. Reported /\ Newest /\ Reasons
    BY DEF Reported, Whole, FreshContext, Failure, PwmField, Newest, Reasons, Booted
<1> QED
    BY <1>1, <1>2, <1>3 DEF RetainedInv

LEMMA RetainedSteps == RetainedInv /\ [ReportNext]_reportVars => RetainedInv'
<1> SUFFICES ASSUME RetainedInv, [ReportNext]_reportVars PROVE RetainedInv'
    OBVIOUS
<1>1. CASE WatchdogReset /\ RecordHistory(TRUE)
    BY <1>1, WatchdogResetKeeps
<1>2. CASE Write /\ RecordHistory(FALSE)
    BY <1>2, StoreKeeps, CaptureReadKeeps, CaptureEndKeeps, RecordFailureKeeps, RecordedKeeps,
       ClearFailureKeeps, ClearedKeeps, RecordSafetyLossKeeps, FatalBeginsKeeps
       DEF Write, FatalBegins
<1>3. CASE (PinReset \/ SoftwareReset \/ PowerLoss) /\ RecordHistory(FALSE)
    BY <1>3, PinResetKeeps, SoftwareResetKeeps, PowerLossKeeps
<1>4. CASE UNCHANGED reportVars
    <2>1. UNCHANGED <<csr, retained, writer, done, failures, report, latest>>
          /\ UNCHANGED <<first, crashed, torn, owed, newest>>
        BY <1>4 DEF reportVars, recordVars, reportHistory
    <2>2. Order' = Order
        BY <2>1 DEF Order
    <2> QED
        BY <2>1, <2>2
           DEF RetainedInv, RecordTypes, FlagsTell, Fresh, Kept, Trusted, Booted, Recording,
               Reported, Newest, Reasons
<1> QED
    BY <1>1, <1>2, <1>3, <1>4 DEF ReportNext

LEMMA RetainedInvariant == ReportSpec => []RetainedInv
    BY RetainedInitially, RetainedSteps, PTL DEF ReportSpec

\* Every field of the record, of the boot report and of the latest failure
\* holds what some writer stores there, whatever the resets cut off
\* (RetainedContext, capture_boot_diagnostics(), record_pwm_failure()).
THEOREM RecordsAreTyped == ReportSpec => []RecordTypes
<1>1. RetainedInv => RecordTypes
    BY DEF RetainedInv
<1> QED
    BY <1>1, RetainedInvariant, PTL

\* What is read of a PWM failure is whole, is the first of the crashed boot
\* and, for telemetry, the first of the latest episode (runtime.rs).
THEOREM ReportsAreTrue == ReportSpec => []ReportIsTrue
<1>1. RetainedInv => ReportIsTrue
    BY DEF RetainedInv, Reported, Newest, Whole, ReportIsTrue, FailureIsWhole,
           ReportsTheCrash, LatestIsFirst, Booted, Unowned
<1> QED
    BY <1>1, RetainedInvariant, PTL

\* Unless a reset cut off the capture before it, a boot never reads the detail
\* of an exception without its reason (record_fatal(), BOOT_FATAL_REASON).
THEOREM DetailsHaveReasons == ReportSpec => DetailHasItsReason
<1> DEFINE A == Reads /\ ~torn /\ report'.fatal = "None" => report'.detail \in {"None", "Loss"}
<1>1. RetainedInv /\ [ReportNext]_reportVars => [A]_reportVars
    <2> SUFFICES ASSUME RetainedInv, ReportNext, Reads, ~torn, report'.fatal = "None"
                 PROVE  report'.detail \in {"None", "Loss"}
        OBVIOUS
    <2>1. writer = "Boot" /\ writer' = "Capture"
        BY DEF Reads
    <2>2. CaptureRead
        BY <2>1 DEF ReportNext, Write, WatchdogReset, PinReset, SoftwareReset, PowerLoss, Reset,
                    Begin, Store, CaptureEnd, RecordFailure, Recorded, ClearFailure, Cleared,
                    RecordSafetyLoss, RecordFatal, Handler
    <2>3. CASE "Watchdog" \in csr /\ retained.signature = "Valid"
        BY <2>1, <2>2, <2>3 DEF CaptureRead, BootDiagnostics, RetainedInv, Reasons
    <2>4. CASE ~("Watchdog" \in csr /\ retained.signature = "Valid")
        BY <2>2, <2>4 DEF CaptureRead, BootDiagnostics, FreshContext
    <2> QED
        BY <2>3, <2>4
<1>2. ReportSpec => [][ReportNext]_reportVars
    BY DEF ReportSpec
<1> QED
    BY <1>1, <1>2, RetainedInvariant, PTL DEF DetailHasItsReason
=============================================================================
