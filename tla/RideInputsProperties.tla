------------------------- MODULE RideInputsProperties -------------------------
(* What the rider's inputs of RideInputs must keep. *)
EXTENDS RideInputs

\* Types and ranges of the inputs' state.
InputTypes ==
    /\ lowSamples \in 0..Required /\ highSamples \in 0..Required
    /\ {brake, complete, running, valid, debouncedLow, fast} \subseteq BOOLEAN
    /\ analogAge \in 0..AnalogPeriod /\ phaseAge \in 0..Oldest /\ matching \in 0..(Debounce - 1)
    /\ previousLow \in 0..MaximumLow /\ average \in 0..MaximumLow /\ qualified \in 0..Qualifying

\* Hazard: passes come late and the level bounces.  The demand
\* of a crank that stands still is withdrawn with the timeout that fits the
\* vehicle's speed, counted from the sample that settled the level,
\* the last of as many as the debounce asks for.
AssistEnds == demand > 0 => still <= (IF fast THEN Fast ELSE Slow) + (Debounce - 1) * MaxGap

\* Hazard: pulses from before a timeout, and bounces shorter than the debounce,
\* must not count.  A demand has been earned by enough whole low phases since
\* the crank last stood still.
AssistIsEarned == demand > 0 => earned >= Qualifying

\* Hazard: the DMA stops, or a flag of an earlier scan is still set.  A valid
\* frame holds a scan that was completed since the frame before it.
FrameIsFresh == valid => converted

\* What a pass takes for the rider's inputs is of the present: the crank turns
\* for the demand that it reports, and the frame has been converted since.
InputsAreCurrent == AssistEnds /\ AssistIsEarned /\ FrameIsFresh
=============================================================================
