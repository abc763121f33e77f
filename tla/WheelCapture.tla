----------------------------- MODULE WheelCapture -----------------------------
(***************************************************************************)
(* The TIM3 capture interrupt of the wheel (sensors/wheel_capture.rs and   *)
(* the timestamps of sensors/wheel.rs).  The timer and the wheel go on     *)
(* between any two steps of the interrupt.  What it publishes is read by   *)
(* WheelSpeed.                                                             *)
(***************************************************************************)
EXTENDS Integers

CONSTANTS
    Period,             \* counts of the timer, 65536 in the code
    Epochs,             \* width of OVERFLOW_EPOCH
    QuietOverflows,     \* TIM3_QUIET_OVERFLOWS
    PulseCounts, Overruns   \* widths of PULSE_COUNT and CAPTURE_OVERRUNS

ASSUME WheelAssumption ==
    /\ Period \in Nat /\ Period % 2 = 0 /\ Period >= 4
    /\ QuietOverflows \in Nat /\ QuietOverflows >= 2
    /\ Epochs \in Nat /\ Epochs > QuietOverflows + 1
    /\ PulseCounts \in Nat \ {0} /\ Overruns \in Nat \ {0}

VARIABLES
    counter, uif, cc, of, ccr,      \* TIM3: CNT, UIF, CC1IF, CC1OF, CCR1
    wheelIsr, wheelStatus,          \* what the interrupt is at, and what it read
    epoch, quietCount, timestamp,   \* OVERFLOW_EPOCH, QUIET_OVERFLOWS, LAST_CAPTURE_TIMESTAMP
    snapshot,                       \* the words of the snapshot
    gap, wheelInterval, clean       \* what the properties remember

wheelTimer == <<counter, uif, cc, of, ccr>>
wheelIsrVars == <<wheelIsr, wheelStatus, epoch, quietCount, timestamp>>
wheelHistory == <<gap, wheelInterval, clean>>
wheelVars == <<wheelTimer, wheelIsrVars, snapshot, wheelHistory>>

Half == Period \div 2
Range == Epochs * Period
Longest == (QuietOverflows + 1) * Period    \* no gap is told from a longer one
Snapshot(f, i, p, o) == [flag |-> f, interval |-> i, pulses |-> p, overruns |-> o]
NoStatus == [uif |-> FALSE, cc |-> FALSE, of |-> FALSE]
NoPulse == Snapshot("Initialized", 0, 0, 0)

WheelInit ==
    /\ counter = 0 /\ uif = FALSE /\ cc = FALSE /\ of = FALSE /\ ccr = 0
    /\ wheelIsr = "No" /\ wheelStatus = NoStatus /\ epoch = 0 /\ quietCount = 0 /\ timestamp = 0
    /\ snapshot = NoPulse
    /\ gap = Longest /\ wheelInterval = 0 /\ clean = 0

-----------------------------------------------------------------------------
(* TIM3 and the wheel.                                                     *)

\* The interrupt is served within half a turn of the counter.
Late == (uif /\ counter >= Half - 1) \/ (cc /\ (counter - ccr) % Period >= Half - 1)

TimerTick ==
    /\ ~Late /\ counter' = (counter + 1) % Period
    /\ uif' = (uif \/ counter' = 0)
    /\ gap' = IF gap < Longest THEN gap + 1 ELSE gap
    /\ UNCHANGED <<cc, of, ccr, wheelIsrVars, snapshot, wheelInterval, clean>>

\* An edge that the interrupt may not tell from the last one begins the count
\* of clean edges anew.
WheelEdge ==
    /\ gap > 0 /\ gap' = 0
    /\ clean' = IF wheelIsr # "No" \/ cc \/ of THEN 0 ELSE IF clean < 2 THEN clean + 1 ELSE 2
    /\ wheelInterval' = IF clean' = 2 THEN gap ELSE 0
    /\ cc' = TRUE /\ of' = (of \/ cc) /\ ccr' = counter
    /\ UNCHANGED <<counter, uif, wheelIsrVars, snapshot>>

-----------------------------------------------------------------------------
(* The interrupt.                                                          *)

\* An overrun is counted at once, outside of a publication.
ReadWheelStatus ==
    /\ wheelIsr = "No" /\ (uif \/ cc)
    /\ wheelStatus' = [uif |-> uif, cc |-> cc, of |-> of]
    /\ snapshot' = [snapshot EXCEPT !.overruns = IF of THEN (@ + 1) % Overruns ELSE @]
    /\ wheelIsr' = IF cc THEN "Capture" ELSE "Overflow"
    /\ UNCHANGED <<wheelTimer, epoch, quietCount, timestamp, wheelHistory>>

\* extended_capture_timestamp().
PlainTimestamp(capture) == epoch * Period + capture     \* mutated: the pending overflow is forgotten
Extended(capture) ==
    ((IF wheelStatus.uif /\ capture < Half THEN (epoch + 1) % Epochs ELSE epoch) * Period) + capture

\* qualified_interval_us().
Qualified(now) == IF snapshot.flag = "Primed" THEN (now - timestamp) % Range ELSE 0

KeptCount(capture) == quietCount        \* mutated: an edge does not start the count anew
QuietFrom(capture) == IF wheelStatus.uif /\ capture >= Half THEN 1 ELSE 0

\* Reading CCR1 clears CC1IF.
CaptureEdge ==
    /\ wheelIsr = "Capture" /\ wheelIsr' = "Leave" /\ cc' = FALSE
    /\ timestamp' = Extended(ccr)
    /\ quietCount' = QuietFrom(ccr)
    /\ snapshot' = Snapshot("Primed", Qualified(timestamp'), (snapshot.pulses + 1) % PulseCounts, snapshot.overruns)
    /\ UNCHANGED <<counter, uif, of, ccr, wheelStatus, epoch, gap, wheelInterval, clean>>

Overflow ==
    /\ wheelIsr = "Overflow" /\ wheelIsr' = "Leave"
    /\ quietCount' = IF quietCount < QuietOverflows THEN quietCount + 1 ELSE quietCount
    /\ IF quietCount < QuietOverflows /\ quietCount' = QuietOverflows
       THEN snapshot' = Snapshot("Quiet", 0, snapshot.pulses, snapshot.overruns)
       ELSE UNCHANGED snapshot
    /\ UNCHANGED <<wheelTimer, wheelStatus, epoch, timestamp, wheelHistory>>

\* The flags that were seen are cleared, also where they were set again.
Leave ==
    /\ wheelIsr = "Leave" /\ wheelIsr' = "No" /\ wheelStatus' = NoStatus
    /\ epoch' = IF wheelStatus.uif THEN (epoch + 1) % Epochs ELSE epoch
    /\ uif' = (uif /\ ~wheelStatus.uif) /\ cc' = (cc /\ ~wheelStatus.cc) /\ of' = (of /\ ~wheelStatus.of)
    /\ UNCHANGED <<counter, ccr, quietCount, timestamp, snapshot, wheelHistory>>

-----------------------------------------------------------------------------
WheelInterrupt == ReadWheelStatus \/ CaptureEdge \/ Overflow \/ Leave
WheelNext == TimerTick \/ WheelEdge \/ WheelInterrupt

\* The timer runs and its interrupt is served.
WheelSpec == WheelInit /\ [][WheelNext]_wheelVars /\ WF_wheelVars(TimerTick) /\ WF_wheelVars(WheelInterrupt)
=============================================================================
