------------------------ MODULE HallCaptureProperties ------------------------
(***************************************************************************)
(* What the control loop may conclude from the published Hall edges.       *)
(***************************************************************************)
EXTENDS HallCapture

VARIABLES
    spacing,        \* the true time from the edge before to the latest edge
    spaced,         \* the latest edge found the one before it published
    raced           \* a restart hit the TIM2 interrupt, and no edge followed yet

historyVars == <<spacing, spaced, raced>>
allVars == <<hallVars, historyVars>>

Unpublished == Captured(flags) \/ Captured(status)
Restarts == control = "RestartCount" /\ control' # control

HInit == HallInit /\ spacing = 0 /\ spaced = FALSE /\ raced = FALSE

Record ==
    /\ IF sector' # sector
       THEN spaced' = (~Unpublished /\ ~raced)
       ELSE spaced' = (spaced /\ ~Restarts /\ isr # "Publish")
    /\ spacing' = IF ~spaced' THEN 0 ELSE IF sector' # sector THEN elapsed ELSE spacing
    /\ raced' = IF Restarts THEN raced \/ isr # "Idle"
                ELSE raced /\ ~(sector' # sector /\ isr = "Idle" /\ control = "Idle")

HNext == HallNext /\ Record
HSpec == HInit /\ [][HNext]_allVars

Settled == isr = "Idle" /\ control = "Idle" /\ ~Captured(flags) /\ newEdges = 0

-----------------------------------------------------------------------------
\* The counter of overflows and the published interval stay within the time
\* that can pass between two edges; a raced restart may count one overflow more.
HallTypes ==
    /\ sector \in Sector /\ raw \in Sector /\ accepted \in Sector
    /\ count \in 0..(OverflowTicks - 1) /\ flags \in SUBSET Flag
    /\ ccr1 \in 0..(OverflowTicks - 1) /\ ccr2 \in 0..(OverflowTicks - 1)
    /\ elapsed \in 0..MaxTicks /\ status \in SUBSET Flag
    /\ overflows \in 0..(MaxTicks \div OverflowTicks + 1)
    /\ ticks \in 0..(MaxTicks + OverflowTicks) /\ interval \in 0..(MaxTicks + OverflowTicks)
    /\ newEdges \in 0..2 /\ valid \in BOOLEAN /\ running \in BOOLEAN

\* peripherals.rs ("restart_stationary_hall_interval"): clearing a capture that
\* raced with ride entry fails closed, so a run that has started from
\* standstill commutates from the sector the rotor is in, unless an edge is
\* still on its way.
RestartFailsClosed == running /\ Settled => accepted = sector

\* That holds whatever edges hit between the checks, as long as the restart
\* has not preempted the TIM2 interrupt between two of its stores.
RunsInLiveSector == ~raced => RestartFailsClosed

\* An edge that finds its predecessor published is published with the exact
\* time between the two, however the counter's overflow and the interrupt's
\* stores are interleaved.
IntervalIsExact == isr = "Publish" /\ spaced => interval = spacing
=============================================================================
