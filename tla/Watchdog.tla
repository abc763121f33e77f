------------------------------- MODULE Watchdog -------------------------------
(***************************************************************************)
(* The two hardware watchdogs of oxifoc-f103/src/safety/runtime.rs: the    *)
(* window watchdog, refreshed by TIM1's update interrupt, and the          *)
(* independent one, refreshed by the foreground after                      *)
(* MainLoopWatchdog::poll (safety/mod.rs) has seen the control interrupt   *)
(* and the current samples progress.  Interrupts and time fall between any *)
(* two reads of a poll; any of the parts may stop for ever.                *)
(*                                                                         *)
(* The counters that poll compares appear as whether they differ from the  *)
(* last_ values and, while a poll is under way, whether they have moved    *)
(* since it read them; 2^32 control cycles do not fit between two polls.   *)
(* The fault latch is reduced to whether it holds anything.                *)
(***************************************************************************)
EXTENDS Integers

CONSTANTS
    WindowPeriod,       \* ticks from WWDG_COUNTER_MAXIMUM to the reset
    IndependentPeriod,  \* ticks of IWDG_RELOAD_100MS_NOMINAL
    UpdatesPerFeed,     \* TIMER_UPDATES_PER_WINDOW_FEED
    FeedPeriod          \* MAIN_LOOP_FEED_PERIOD_MS

ASSUME WatchdogAssumption ==
    /\ WindowPeriod \in Nat \ {0} /\ IndependentPeriod \in Nat \ {0}
    /\ UpdatesPerFeed \in Nat \ {0} /\ FeedPeriod \in Nat \ {0}

VARIABLES
    wwdg,           \* ticks left to the window watchdog
    iwdg,           \* ticks left to the independent watchdog
    updates,        \* TIMER_UPDATES_SINCE_FEED
    cycles,         \* CONTROL_CYCLE differs from last_control_cycles
    samples,        \* injected_samples differs from last_injected_samples
    latched,        \* FAULT_FLAGS is not zero
    channels,       \* the motor channels are enabled (CCER)
    active,         \* CONTROL_OUTPUT_ACTIVE
    sinceFeed,      \* now_ms of the latest pass minus last_feed_ms (to FeedPeriod)
    age,            \* time since that now_ms (to FeedPeriod)
    poll,           \* the foreground's next step
    seen            \* the progress that the poll has read

timerVars == <<wwdg, iwdg>>
cycleVars == <<cycles, samples, channels, active>>
dogVars == <<timerVars, updates, cycleVars, latched, sinceFeed, poll, age, seen>>

\* cycles and samples: new when read; laterCycles and laterSamples: moved since.
Progress == [cycles : BOOLEAN, samples : BOOLEAN, faults : BOOLEAN, active : BOOLEAN,
             laterCycles : BOOLEAN, laterSamples : BOOLEAN]
NoProgress == [cycles |-> FALSE, samples |-> FALSE, faults |-> FALSE, active |-> FALSE,
            laterCycles |-> FALSE, laterSamples |-> FALSE]
AtMost(n, bound) == IF n < bound THEN n ELSE bound

\* RideApp::initialize() starts both watchdogs with the progress made so far and
\* then lets the interrupts in.
DogInit ==
    /\ wwdg = WindowPeriod /\ iwdg = IndependentPeriod /\ updates = 0
    /\ cycles = FALSE /\ samples = FALSE /\ latched \in BOOLEAN
    /\ channels = FALSE /\ active = FALSE
    /\ sinceFeed = 0 /\ poll = "Idle" /\ age = 0 /\ seen = NoProgress

Alive == poll # "Reset"

-----------------------------------------------------------------------------
(* TIM1's interrupts.                                                      *)

\* feed_window() writes nothing while the counter is at its maximum.
FeedWindow == wwdg' = WindowPeriod
FeedsAt(count) == count >= UpdatesPerFeed
TimerUpdateEntered ==
    IF FeedsAt(updates + 1) THEN updates' = 0 /\ FeedWindow
    ELSE updates' = updates + 1 /\ UNCHANGED wwdg

\* TIM1 updates at both ends of its count; the control cycle runs at one.
UpdateAtPeak ==
    /\ Alive /\ TimerUpdateEntered
    /\ UNCHANGED <<iwdg, cycleVars, latched, sinceFeed, poll, age, seen>>

Polling == poll \in {"ReadFaults", "ReadCycles", "Poll"}
CountCycle(sampled) ==
    /\ cycles' = TRUE /\ samples' = (samples \/ sampled)
    /\ seen' = IF Polling
               THEN [seen EXCEPT !.laterCycles = TRUE, !.laterSamples = @ \/ sampled]
               ELSE seen

\* control_cycle() drives only with a sample and without a fault, and latches a
\* fault when a sample is missing under an active output or lease.
ControlInterrupt(sampled) ==
    /\ Alive /\ TimerUpdateEntered /\ CountCycle(sampled)
    /\ \E drives, latches \in BOOLEAN :
        /\ drives => sampled /\ ~latched /\ ~latches
        /\ ~sampled /\ active => latches
        /\ channels' = drives /\ active' = drives
        /\ latched' = (latched \/ latches)
    /\ UNCHANGED <<iwdg, sinceFeed, poll, age>>

\* TIM1_BRK leaves CONTROL_OUTPUT_ACTIVE to the next control cycle.
BreakInterrupt ==
    /\ Alive /\ latched' = TRUE /\ channels' = FALSE
    /\ UNCHANGED <<timerVars, updates, cycles, samples, active, sinceFeed, poll, age, seen>>

-----------------------------------------------------------------------------
(* The foreground loop.                                                    *)

\* A pass of the loop reads the time; its ride pass may acknowledge the latch.
Pass ==
    /\ poll = "Idle" /\ poll' = "Ride"
    /\ sinceFeed' = AtMost(sinceFeed + age, FeedPeriod) /\ age' = 0
    /\ UNCHANGED <<timerVars, updates, cycleVars, latched, seen>>
ServiceRide(acknowledges) ==
    /\ poll = "Ride" /\ poll' = "Service"
    /\ acknowledges => ~channels
    /\ latched' = (latched /\ ~acknowledges)
    /\ UNCHANGED <<timerVars, updates, cycleVars, sinceFeed, age, seen>>

FeedDue == sinceFeed >= FeedPeriod
NotDue ==
    /\ poll = "Service" /\ ~FeedDue /\ poll' = "Idle"
    /\ UNCHANGED <<timerVars, updates, cycleVars, latched, sinceFeed, age, seen>>

\* control_progress() copies the samples with interrupts masked and reads the
\* fault latch and the cycle counter afterwards.
CopySnapshot ==
    /\ poll = "Service" /\ FeedDue /\ poll' = "ReadFaults"
    /\ seen' = [NoProgress EXCEPT !.samples = samples, !.active = active]
    /\ UNCHANGED <<timerVars, updates, cycleVars, latched, sinceFeed, age>>
ReadFaults ==
    /\ poll = "ReadFaults" /\ poll' = "ReadCycles" /\ seen' = [seen EXCEPT !.faults = latched]
    /\ UNCHANGED <<timerVars, updates, cycleVars, latched, sinceFeed, age>>
ReadCycles ==
    /\ poll = "ReadCycles" /\ poll' = "Poll"
    /\ seen' = [seen EXCEPT !.cycles = cycles, !.laterCycles = FALSE]
    /\ UNCHANGED <<timerVars, updates, cycleVars, latched, sinceFeed, age>>

\* poll() reads CCER last.
NeverSafeOff == FALSE                   \* mutated: a latched fault is no progress
LatchedSafeOff == seen.faults /\ ~seen.active /\ ~channels
Progressed == seen.cycles /\ (seen.samples \/ LatchedSafeOff)
PollFails ==
    /\ poll = "Poll" /\ ~Progressed /\ poll' = "Idle" /\ seen' = NoProgress
    /\ UNCHANGED <<timerVars, updates, cycleVars, latched, sinceFeed, age>>
PollSucceeds ==
    /\ poll = "Poll" /\ Progressed /\ poll' = "Feed" /\ seen' = NoProgress
    /\ sinceFeed' = 0 /\ cycles' = seen.laterCycles /\ samples' = seen.laterSamples
    /\ UNCHANGED <<timerVars, updates, latched, channels, active, age>>
FeedBoth ==     \* mutated: the foreground refreshes the window watchdog as well
    /\ poll = "Feed" /\ poll' = "Idle" /\ iwdg' = IndependentPeriod /\ FeedWindow
    /\ UNCHANGED <<updates, cycleVars, latched, sinceFeed, age, seen>>
Feed ==
    /\ poll = "Feed" /\ poll' = "Idle" /\ iwdg' = IndependentPeriod
    /\ UNCHANGED <<wwdg, updates, cycleVars, latched, sinceFeed, age, seen>>

MainLoop ==
    \/ Pass \/ NotDue \/ CopySnapshot \/ ReadFaults \/ ReadCycles
    \/ PollFails \/ PollSucceeds \/ Feed
    \/ \E acknowledges \in BOOLEAN : ServiceRide(acknowledges)

-----------------------------------------------------------------------------
\* A tick of the clock; a watchdog that reaches its end resets the controller.
Tick ==
    /\ Alive
    /\ wwdg' = wwdg - 1 /\ iwdg' = iwdg - 1
    /\ age' = AtMost(age + 1, FeedPeriod)
    /\ IF wwdg' = 0 \/ iwdg' = 0
       THEN poll' = "Reset" /\ channels' = FALSE ELSE UNCHANGED <<poll, channels>>
    /\ UNCHANGED <<updates, cycles, samples, active, latched, sinceFeed, seen>>
HasReset == poll = "Reset" /\ UNCHANGED dogVars

DogNext ==
    \/ UpdateAtPeak \/ BreakInterrupt \/ MainLoop \/ Tick \/ HasReset
    \/ \E sampled \in BOOLEAN : ControlInterrupt(sampled)

DogSpec == DogInit /\ [][DogNext]_dogVars
=============================================================================
