-------------------- MODULE CalibrationRoutinesProperties --------------------
(* What the four routines of CalibrationRoutines must keep. *)
EXTENDS CalibrationRoutines

\* Types and ranges of the routines' state.
TypeOK ==
    /\ routine \in Contract!Routines \cup {"None"} /\ state \in States
    /\ pending \in OwnFailures \cup {"None"}
    /\ failure \in OwnFailures \cup LoopFailures \cup {"None", "MissingPrerequisite"}
    /\ known \subseteq Contract!Values /\ grid \subseteq 0..(Positions * Levels - 1)
    /\ cycle \in Nat /\ low \in 0..SampleCycles /\ high \in 0..SampleCycles
    /\ position \in 0..(Positions - 1) /\ level \in 0..(Levels - 1) /\ probing \in BOOLEAN
    /\ scan \in 0..ScanCycles /\ best \in Response
    /\ attempts \in 0..(Pulses * 2) /\ valid \in 0..Pulses /\ samples \in 0..SampleCycles
    /\ sweep \in 0..Sweeps /\ degree \in 0..(Degrees - 1) /\ raw \in 0..LastRaw

\* Every way through the four routines keeps the contract that the control
\* loop is built on: values, failures, soft starts and soft ends.
KeepsContract == Contract!ContractSpec

\* Hazard: probing, discharging, refused pulses and the sweeps repeat states
\* whose end depends on the motor's answer; a routine that the loop observes
\* ends, whatever the motor does.
RoutineEnds == state \notin Ended ~> state \in Ended

\* Hazard: a run fails at any position and level, and is started again; a
\* result that is reported complete stands on every measurement of its own run.
CompleteIsWhole ==
    state = "Complete" =>
        CASE routine = "Resistance" -> low = SampleCycles /\ high = SampleCycles
          [] routine = "Inductance" -> grid = 0..(Positions * Levels - 1)
          [] routine = "FluxLinkage" -> samples = SampleCycles
          [] routine = "Hall" -> \A d \in {0, 1}, h \in Raws :
                IF h \in 1..LastRaw THEN counts[d][h] >= MinSamples ELSE counts[d][h] = 0

\* README of the calibration image, of resistance, inductance and flux: "both
\* must succeed before flux".  A run of the inductance routine that succeeded
\* has filled the whole grid.
FluxNeedsSuccess ==
    routine = "FluxLinkage" /\ state \notin Ended =>
        "R" \in known /\ grid = 0..(Positions * Levels - 1)
=============================================================================
