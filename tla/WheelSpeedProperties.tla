------------------------- MODULE WheelSpeedProperties -------------------------
(* What the foreground's reading of the wheel in WheelSpeed must keep. *)
EXTENDS WheelSpeed

\* Types and ranges of the estimator's state.
SpeedTypes ==
    /\ reading \in 0..4 /\ torn \in BOOLEAN
    /\ lastPulse \in 0..(CountRange - 1) /\ lastOverruns \in 0..(Lost - 1)
    /\ state \in {"Uninitialized", "Quiet", "AwaitingSecondPulse", "Tracking", "Implausible"}
    /\ remainder \in 0..(Unit - 1) /\ value \in 0..(Values - 1)
    /\ travelled \in 0..(Values * Unit - 1)

\* Hazard: the snapshot is read word by word while the interrupt publishes.
\* What the foreground accepts was published as a whole, and is what is
\* published still but for the overruns, which are counted outside.
SnapshotIsWhole ==
    reading = 4 /\ ~Changed => copy = [published EXCEPT !.overruns = copy.overruns]

\* Hazard: several pulses between two updates, and counters that wrap apart.
\* What is counted and what is published but not yet counted is the whole way:
\* no pulse is lost or counted twice, and no part of a unit is dropped.
DistanceIsExact ==
    ((value * Unit + remainder + Behind * PerPulse) - travelled) % (Values * Unit) = 0
=============================================================================
