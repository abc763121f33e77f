-------------------------- MODULE WatchdogProperties --------------------------
(***************************************************************************)
(* What the watchdogs are for: whatever stops ends in a reset, and nothing *)
(* else does.  A behaviour keeps one history, that of the part it watches: *)
(* how long that part has been silent, or whether all of them keep coming. *)
(***************************************************************************)
EXTENDS Watchdog

CONSTANT PassGap        \* longest time between two passes of a healthy foreground

\* What keeps a healthy controller running: the pass that finds a feed due may
\* be late and its poll refused, which the next pass makes good.  A tick is
\* a control cycle; the shipped 100 ms and 10 ms leave 45 ms between passes, and
\* 256 updates come in 16 of the window's 58 ms if every other one is lost.
ASSUME HealthyAssumption ==
    /\ PassGap \in Nat \ {0} /\ FeedPeriod >= 2
    /\ IndependentPeriod >= FeedPeriod + 2 * PassGap /\ WindowPeriod > UpdatesPerFeed

VARIABLES
    watched,        \* the part
    silent,         \* ticks without it
    proven,         \* a control cycle of this tick had a sample or left a fault latched
    sampledLast,    \* the latest control cycle had a sample
    healthy         \* no tick, pass or acknowledgement has missed its conditions

watchVars == <<watched, silent, proven, sampledLast, healthy>>
watchedVars == <<dogVars, watchVars>>

WatchInit ==
    /\ DogInit
    /\ watched \in {"Update", "Cycle", "Sample", "Pass", "Health"}
    /\ silent = 0 /\ proven = FALSE /\ sampledLast = FALSE
    /\ healthy = (watched = "Health")

Heard(parts) == silent' = IF watched \in parts THEN 0 ELSE silent

\* A latched fault stands in for a sample.
CycleHistory(sampled) ==
    /\ Heard({"Update", "Cycle"} \cup IF sampled \/ latched' THEN {"Sample"} ELSE {})
    /\ proven' = (healthy /\ (proven \/ sampled \/ latched'))
    /\ sampledLast' = (healthy /\ sampled)
    /\ UNCHANGED <<watched, healthy>>

\* A healthy controller proves its control cycle in every tick, begins a pass
\* within PassGap and acknowledges no fault while its samples are missing.
TickHistory ==
    /\ silent' = IF watched = "Sample" /\ latched THEN 0
                 ELSE IF watched = "Health" /\ ~healthy THEN 0 ELSE silent + 1
    /\ healthy' = (healthy /\ proven /\ silent < PassGap)
    /\ proven' = FALSE /\ sampledLast' = (sampledLast /\ healthy')
    /\ UNCHANGED watched
RideHistory(acknowledges) ==
    /\ Heard(IF latched THEN {"Sample"} ELSE {})
    /\ healthy' = (healthy /\ (acknowledges /\ latched => sampledLast))
    /\ proven' = (proven /\ healthy') /\ sampledLast' = (sampledLast /\ healthy')
    /\ UNCHANGED watched

WatchNext ==
    \/ UpdateAtPeak /\ Heard({"Update"}) /\ UNCHANGED <<watched, proven, sampledLast, healthy>>
    \/ \E sampled \in BOOLEAN : ControlInterrupt(sampled) /\ CycleHistory(sampled)
    \/ Pass /\ Heard({"Pass", "Health"}) /\ UNCHANGED <<watched, proven, sampledLast, healthy>>
    \/ \E acknowledges \in BOOLEAN :
           ServiceRide(acknowledges) /\ RideHistory(acknowledges)
    \/ Tick /\ TickHistory
    \/ /\ \/ BreakInterrupt \/ NotDue \/ CopySnapshot \/ ReadFaults \/ ReadCycles
          \/ PollFails \/ PollSucceeds \/ Feed \/ HasReset
       /\ UNCHANGED watchVars
WatchSpec == WatchInit /\ [][WatchNext]_watchedVars

-----------------------------------------------------------------------------
\* The timers, the counters and the foreground's locals keep their ranges.
DogTypes ==
    /\ wwdg \in 0..WindowPeriod /\ iwdg \in 0..IndependentPeriod
    /\ updates \in 0..(UpdatesPerFeed - 1)
    /\ cycles \in BOOLEAN /\ samples \in BOOLEAN /\ latched \in BOOLEAN
    /\ channels \in BOOLEAN /\ active \in BOOLEAN
    /\ sinceFeed \in 0..FeedPeriod /\ age \in 0..FeedPeriod
    /\ poll \in {"Idle", "Ride", "Service", "ReadFaults", "ReadCycles", "Poll", "Feed",
               "Reset"}
    /\ seen \in Progress

\* runtime.rs: the window watchdog ends a stalled update interrupt, the other
\* one a stalled control cycle, foreground, or conversion without a latched
\* fault, wherever the interrupts fall between the reads of a poll.  A poll may
\* itself take up to one period, and what it sees is as old as the refresh
\* before it.
StallsEnd ==
    Alive /\ watched # "Health" =>
        silent < (IF watched = "Update" THEN WindowPeriod ELSE 3 * IndependentPeriod)

\* A controller whose control cycles, samples and passes keep coming is never
\* reset, nor one that a latched fault holds in safe-off without samples, even
\* if a break leaves a poll with the flag of an output that is off already.
HealthyRunsOn == healthy => Alive
=============================================================================
