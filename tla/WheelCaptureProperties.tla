------------------------ MODULE WheelCaptureProperties ------------------------
(* What the capture interrupt of WheelCapture must keep. *)
EXTENDS WheelCapture

\* Types and ranges of the capture's state.
WheelTypes ==
    /\ counter \in 0..(Period - 1) /\ ccr \in 0..(Period - 1) /\ {uif, cc, of} \subseteq BOOLEAN
    /\ wheelIsr \in {"No", "Capture", "Overflow", "Leave"} /\ epoch \in 0..(Epochs - 1)
    /\ quietCount \in 0..QuietOverflows /\ timestamp \in 0..(Range - 1)

\* Hazard: an edge and an overflow of the counter are pending together, in
\* either order.  A published interval is the time between the last two edges,
\* unless they came too fast to be told apart.
WheelIntervalIsExact ==
    snapshot.flag = "Primed" /\ snapshot.interval # 0 /\ clean = 2 /\ wheelIsr = "No" /\ ~cc =>
        snapshot.interval = wheelInterval

\* Hazard: the updater may reset a wheel that is reported quiet, while edges
\* and overflows are pending together.  A wheel reported quiet has not turned
\* for all but one of the overflows that the timeout counts, less what the
\* interrupt's latency hides.
QuietIsStill ==
    snapshot.flag = "Quiet" /\ wheelIsr = "No" /\ ~cc => gap > (QuietOverflows - 1) * Period - Half
=============================================================================
