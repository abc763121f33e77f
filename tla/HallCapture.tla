----------------------------- MODULE HallCapture -----------------------------
(***************************************************************************)
(* TIM2's Hall capture of oxifoc-f103/src/hardware/peripherals.rs and the  *)
(* control interrupt's use of it in control/foc.rs.  The timer counts the  *)
(* microseconds since the latest edge of the XORed Hall lines; an edge     *)
(* captures the count in CCR1 (rising) or CCR2 (falling) and resets it.    *)
(* The TIM2 interrupt publishes each edge store by store and is preempted  *)
(* between any two of them by the control interrupt, which it cannot       *)
(* preempt; the rotor and the timer stop for neither.                      *)
(*                                                                         *)
(* A Hall state is the rotor's sector.  The event sequence appears as what *)
(* is new to the control loop ("several" being 2), and the direction,      *)
(* speed and angle derived from an edge are left out.                      *)
(***************************************************************************)
EXTENDS Integers

CONSTANTS
    Sectors,            \* electrical sectors: six, and alternating in the XOR
    OverflowTicks,      \* TIM2_TICKS_PER_OVERFLOW
    MaxTicks            \* bound on the time between two edges

ASSUME CaptureAssumption ==
    /\ Sectors \in Nat /\ Sectors >= 4 /\ Sectors % 2 = 0
    /\ OverflowTicks \in Nat \ {0} /\ MaxTicks \in Nat

VARIABLES
    sector,         \* where the rotor is, as the Hall lines show it
    count,          \* TIM2_CNT
    flags,          \* TIM2_SR
    ccr1, ccr2,     \* the capture registers
    elapsed,        \* ticks since the latest edge or restart (bounds the model)
    overflows,      \* TIM2_OVERFLOWS
    raw,            \* HALL_RAW
    interval,       \* HALL_INTERVAL_US
    newEdges,       \* HALL_SEQUENCE minus hardware_hall_sequence (2: several)
    isr,            \* the TIM2 interrupt's next step
    status,         \* the status it has read
    ticks,          \* captured_ticks, then interval_us
    control,        \* the control interrupt's next step
    accepted,       \* HallSensor.raw
    valid,          \* HallSensor.valid
    running         \* a command that started from standstill is active

hallTimer == <<count, flags, ccr1, ccr2>>
edgeVars == <<raw, interval, newEdges>>
isrVars == <<isr, status, ticks>>
controlVars == <<control, accepted, valid, running>>
hallVars == <<sector, hallTimer, elapsed, overflows, edgeVars, isrVars, controlVars>>

Sector == 0..(Sectors - 1)
Flag == {"Update", "Cap1", "Cap2", "Over"}      \* Over: either overcapture flag
CaptureFlags == {"Cap1", "Cap2"}
Captured(bits) == bits \cap CaptureFlags # {}
Neighbours(s) == {(s + 1) % Sectors, (s + Sectors - 1) % Sectors}

\* configure_hall_capture() and the first seed from the live state.
HallInit ==
    /\ sector \in Sector /\ raw = sector /\ accepted = sector
    /\ count = 0 /\ flags = {} /\ ccr1 = 0 /\ ccr2 = 0 /\ elapsed = 0
    /\ overflows = 0 /\ interval = 0 /\ newEdges = 0
    /\ isr = "Idle" /\ status = {} /\ ticks = 0
    /\ control = "Idle" /\ valid = TRUE /\ running = FALSE

-----------------------------------------------------------------------------
(* The timer and the rotor.                                                *)

\* One tick is longer than either interrupt takes, and the counter's period
\* far longer: time passes only while nothing is left to serve.  The interrupt
\* is not enabled for an overcapture alone.
Tick ==
    /\ flags \cap ({"Update"} \cup CaptureFlags) = {} /\ isr = "Idle" /\ control = "Idle"
    /\ elapsed < MaxTicks /\ elapsed' = elapsed + 1
    /\ IF count + 1 < OverflowTicks
       THEN count' = count + 1 /\ UNCHANGED flags
       ELSE count' = 0 /\ flags' = flags \cup {"Update"}
    /\ UNCHANGED <<sector, ccr1, ccr2, overflows, edgeVars, isrVars, controlVars>>

Capture(cap) ==
    flags' = flags \cup {cap} \cup (IF cap \in flags THEN {"Over"} ELSE {})

Edge ==
    /\ sector' \in Neighbours(sector)
    /\ IF sector' % 2 = 1
       THEN ccr1' = count /\ UNCHANGED ccr2 /\ Capture("Cap1")
       ELSE ccr2' = count /\ UNCHANGED ccr1 /\ Capture("Cap2")
    /\ count' = 0 /\ elapsed' = 0
    /\ UNCHANGED <<overflows, edgeVars, isrVars, controlVars>>

-----------------------------------------------------------------------------
(* The TIM2 interrupt; the control interrupt holds it back while it runs.  *)

Serve(from, to) == isr = from /\ control = "Idle" /\ isr' = to
Unserved == <<sector, count, ccr1, ccr2, elapsed, controlVars>>

ReadStatus ==
    /\ flags \cap ({"Update"} \cup CaptureFlags) # {}
    /\ Serve("Idle", "CountOverflow")
    /\ status' = flags
    /\ UNCHANGED <<Unserved, flags, overflows, edgeVars, ticks>>

Counted(bits) == IF "Update" \in bits THEN overflows + 1 ELSE overflows
CountOverflow ==
    /\ Serve("CountOverflow", "ReadCapture1")
    /\ overflows' = Counted(status)
    /\ UNCHANGED <<Unserved, flags, edgeVars, status, ticks>>

\* Reading a capture register clears its flag; the value is not read again.
ReadCapture(from, to, cap, ccr) ==
    /\ Serve(from, to)
    /\ IF cap \in status
       THEN ticks' = ticks + ccr /\ ccr' = 0 /\ flags' = flags \ {cap}
       ELSE UNCHANGED <<ticks, ccr, flags>>
    /\ UNCHANGED <<sector, count, elapsed, controlVars, overflows, edgeVars, status>>
ReadCapture1 ==
    ReadCapture("ReadCapture1", "ReadCapture2", "Cap1", ccr1) /\ UNCHANGED ccr2
ReadCapture2 ==
    ReadCapture("ReadCapture2", "ClearFlags", "Cap2", ccr2) /\ UNCHANGED ccr1

ClearSeenFlags == flags \ status
ClearFlags ==
    /\ Serve("ClearFlags", IF Captured(status) THEN "TakeOverflows" ELSE "Idle")
    /\ flags' = ClearSeenFlags
    /\ status' = IF Captured(status) THEN status ELSE {}
    /\ UNCHANGED <<Unserved, overflows, edgeVars, ticks>>

OverflowsKept == overflows      \* mutated: a load instead of a swap
OverflowsTaken == 0
TakeOverflows ==
    /\ Serve("TakeOverflows", "StoreRaw")
    /\ ticks' = overflows * OverflowTicks + ticks
    /\ overflows' = OverflowsTaken
    /\ UNCHANGED <<Unserved, flags, edgeVars, status>>

StoreRaw ==
    /\ Serve("StoreRaw", "StoreInterval")
    /\ raw' = sector
    /\ UNCHANGED <<Unserved, flags, overflows, interval, newEdges, status, ticks>>

StoreInterval ==
    /\ Serve("StoreInterval", "Publish")
    /\ interval' = ticks /\ ticks' = 0
    /\ UNCHANGED <<Unserved, flags, overflows, raw, newEdges, status>>

\* An overcapture has lost an edge and leaves a gap in the sequence.
PublishEdge ==
    /\ Serve("Publish", "Idle")
    /\ newEdges' = IF newEdges > 0 \/ "Over" \in status THEN 2 ELSE 1
    /\ status' = {}
    /\ UNCHANGED <<Unserved, flags, overflows, raw, interval, ticks>>

Tim2 ==
    \/ ReadStatus \/ CountOverflow \/ ReadCapture1 \/ ReadCapture2 \/ ClearFlags
    \/ TakeOverflows \/ StoreRaw \/ StoreInterval \/ PublishEdge

-----------------------------------------------------------------------------
(* The control cycle: hall_edge_snapshot(), which nothing can change while *)
(* it runs, and a start from standstill with its two live checks.          *)

Controls(from, to) == control = from /\ control' = to
Uncontrolled == <<sector, ccr1, ccr2, edgeVars, isrVars, valid>>

\* update_edge() takes a single edge to the accepted sector or a neighbour of
\* it, unless it came too fast; several edges, or one after a rejected one, seed
\* the sensor with the published state.
Acceptable == newEdges = 2 \/ ~valid \/ raw \in {accepted} \cup Neighbours(accepted)
AcceptEdge ==
    /\ control = "Idle" /\ newEdges # 0 /\ Acceptable
    /\ newEdges' = 0 /\ accepted' = raw /\ valid' = TRUE
    /\ UNCHANGED <<sector, hallTimer, elapsed, overflows, raw, interval, isrVars>>
    /\ UNCHANGED <<control, running>>

\* A rejected edge, or a gap in motion, stops the motor and stays unaccepted.
RejectEdge ==
    /\ control = "Idle" /\ newEdges # 0
    /\ \/ newEdges = 1 /\ valid /\ raw # accepted /\ valid' = FALSE
       \/ newEdges = 2 /\ UNCHANGED valid
    /\ running' = FALSE
    /\ UNCHANGED <<sector, hallTimer, elapsed, overflows, edgeVars, isrVars>>
    /\ UNCHANGED <<control, accepted>>

StartFromStandstill ==
    /\ ~running /\ newEdges = 0 /\ sector = accepted
    /\ Controls("Idle", "RestartCount")
    /\ UNCHANGED <<Uncontrolled, count, flags, elapsed, overflows, accepted, running>>

\* restart_stationary_hall_interval()
RestartCount ==
    /\ Controls("RestartCount", "RestartFlags")
    /\ overflows' = 0 /\ count' = 0 /\ elapsed' = 0
    /\ UNCHANGED <<Uncontrolled, flags, accepted, running>>

RestartFlags ==
    /\ Controls("RestartFlags", "CheckAgain")
    /\ flags' = {}
    /\ UNCHANGED <<Uncontrolled, count, elapsed, overflows, accepted, running>>

RunUnchecked == TRUE            \* mutated: the second live check is dropped
LiveUnchanged == sector = accepted
CheckAgain ==
    /\ Controls("CheckAgain", "Idle")
    /\ running' = LiveUnchanged
    /\ UNCHANGED <<Uncontrolled, count, flags, elapsed, overflows, accepted>>

StopRunning ==
    /\ control = "Idle" /\ running /\ running' = FALSE
    /\ UNCHANGED <<Uncontrolled, count, flags, elapsed, overflows, control, accepted>>

Control ==
    \/ AcceptEdge \/ RejectEdge \/ StartFromStandstill \/ RestartCount
    \/ RestartFlags \/ CheckAgain \/ StopRunning

HallNext == Tick \/ Edge \/ Tim2 \/ Control

HallSpec == HallInit /\ [][HallNext]_hallVars
=============================================================================
