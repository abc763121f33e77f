---------------------- MODULE CalibrationRoutinesProofs ----------------------
(***************************************************************************)
(* The routines of CalibrationRoutines implement RoutineContract, for all  *)
(* lengths of their ramps, samples and scans, any number of positions and  *)
(* levels and every answer of the motor.                                   *)
(***************************************************************************)
EXTENDS CalibrationRoutinesProperties, TLAPS

\* The states in which a routine drives at its full target.
Full == {"SettleLow", "SampleLow", "SettleHigh", "SampleHigh", "SettleHold", "SampleHold",
         "Discharge", "PulseCommand", "PulseScan", "SpeedRamp", "Settle", "Sample", "Sweep",
         "RampHigh"}
Rising == {"RampHold", "Capture", "RampUp"}

\* How the drive that the contract sees follows from state and cycle.
PhaseIsKnown ==
    /\ state \in Ended => Phase = state
    /\ state \in Resting => Phase = "Off"
    /\ state \in Full => Phase = "High"
    /\ state = "RampLow" => Phase = IF cycle = 0 THEN "Low" ELSE "High"
    /\ state \in Rising => Phase = IF cycle <= 1 THEN "Low" ELSE "High"
    /\ state = "RampDown" => Phase = IF RampedDown THEN "Low" ELSE Phase
    /\ state = "RampDown" => Phase \in {"High", "Low"}

\* The value of a position is known once its second level has been measured.
PositionKnown == (position = 0 => "Ld" \in known) /\ (position = 1 => "Lq" \in known)
Measured ==
    \/ level > 1
    \/ state = "RampDown" /\ pending = "None"
    \/ state = "AxisPause"
InductanceKnown ==
    /\ position \in Nat /\ level \in Nat
    /\ position > 0 => "Ld" \in known
    /\ position > 1 => "Lq" \in known
    /\ Measured => PositionKnown

IInv ==
    /\ cycle \in Nat
    /\ pending \in OwnFailures \cup {"None"}
    /\ routine = "Inductance" /\ state \notin Ended => InductanceKnown

LEMMA PhaseNow == ASSUME cycle \in Nat PROVE PhaseIsKnown
  BY RoutineAssumption DEF PhaseIsKnown, Phase, Target, Ended, Resting, Full, Rising,
     RampedDown, RoutineAssumption

LEMMA PhaseNext == ASSUME cycle' \in Nat PROVE PhaseIsKnown'
  BY RoutineAssumption DEF PhaseIsKnown, Phase, Target, Ended, Resting, Full, Rising,
     RampedDown, RoutineAssumption

-----------------------------------------------------------------------------
(* The three ways in which an observation keeps the contract.              *)

Observing == routine \in Contract!Routines /\ Phase \in Contract!Active /\ routine' = routine
Adds == known \subseteq known' /\ known' \subseteq known \cup Contract!Gives[routine]
Shown == [routine |-> routine, phase |-> Phase, failure |-> Cause, known |-> known]

LEMMA ShownNext ==
  ASSUME routine' = routine
  PROVE  Shown' = Contract!Became(Shown, Phase', Cause', known')
  BY DEF Shown, Contract!Became

LEMMA AddsMore ==
  ASSUME Adds
  PROVE  known' \in {known \cup new : new \in SUBSET Contract!Gives[routine]}
<1>1. known' = known \cup (known' \ known) /\ known' \ known \in SUBSET Contract!Gives[routine]
  BY DEF Adds
<1> QED  BY <1>1

LEMMA Moves ==
  ASSUME Observing, Adds, failure' = failure, Phase' \in Contract!Reaches[Phase]
  PROVE  Contract!ContractNext
<1>1. Shown' = Contract!Became(Shown, Phase', Shown.failure, known')
  BY ShownNext DEF Observing, Cause, Shown
<1>2. Shown.known = known /\ Shown.routine = routine /\ Shown.phase = Phase  BY DEF Shown
<1>3. Shown' \in Contract!Observed(Shown)  BY <1>1, <1>2, AddsMore DEF Contract!Observed
<1> QED  BY <1>2, <1>3 DEF Contract!ContractNext, Contract!ContractObserve, Observing, Shown

LEMMA FailsItself ==
  ASSUME Observing, Adds, state' = "Failed", failure' \in OwnFailures, Phase \in {"Low", "Off"}
  PROVE  Contract!ContractNext
<1>1. Cause' = "Own" /\ Phase' = "Failed"  BY DEF Cause, Phase, Ended
<1>2. Shown' = Contract!Became(Shown, "Failed", "Own", known')
  BY <1>1, ShownNext DEF Observing
<1>3. Shown.known = known /\ Shown.routine = routine /\ Shown.phase = Phase  BY DEF Shown
<1>4. Shown' \in Contract!Observed(Shown)  BY <1>2, <1>3, AddsMore DEF Contract!Observed
<1> QED  BY <1>3, <1>4 DEF Contract!ContractNext, Contract!ContractObserve, Observing, Shown

LEMMA Completes ==
  ASSUME Observing, state' = "Complete", failure' = failure, Phase \in {"Low", "Off"},
         known' = known \cup Contract!Gives[routine]
  PROVE  Contract!ContractNext
<1>1. Phase' = "Complete"  BY DEF Phase, Ended
<1>2. Shown.known = known /\ Shown.routine = routine /\ Shown.phase = Phase /\ Shown.failure = Cause
  BY DEF Shown
<1>3. Shown' = Contract!Became(Shown, "Complete", Shown.failure, Shown.known \cup Contract!Gives[Shown.routine])
  BY <1>1, <1>2, ShownNext DEF Observing, Cause
<1>4. Shown' \in Contract!Observed(Shown)  BY <1>2, <1>3 DEF Contract!Observed
<1> QED  BY <1>2, <1>4 DEF Contract!ContractNext, Contract!ContractObserve, Observing, Shown
-----------------------------------------------------------------------------
(* The four routines, and what starts and stops them.                      *)

LEMMA ResistanceKeeps == ASSUME IInv, Resistance PROVE Contract!ContractNext /\ IInv'
<1>1. routine' = routine /\ routine = "Resistance" /\ routine \in Contract!Routines
  BY DEF Resistance, Contract!Routines
<1>2. IInv'
  <2>1. cycle' \in Nat
    BY DEF IInv, Resistance, Settling, AdvanceAfter, Fails
  <2>2. pending' = pending  BY DEF Resistance
  <2> QED  BY <1>1, <2>1, <2>2 DEF IInv
<1>3. PhaseIsKnown /\ PhaseIsKnown'  BY <1>2, PhaseNow, PhaseNext DEF IInv
<1>4. Contract!ContractNext
  <2>1. CASE Settling /\ UNCHANGED <<failure, known, low, high>>
    <3>1. Adds /\ failure' = failure  BY <2>1 DEF Adds
    <3>2. Phase \in Contract!Active /\ Phase' \in Contract!Reaches[Phase]
      BY <2>1, <1>3, <1>1, RoutineAssumption DEF Settling, AdvanceAfter, PhaseIsKnown, Full, Resting,
         Rising, Ended, RampedDown, IInv, RoutineAssumption, Contract!Active, Contract!Reaches,
         Phase, Target
    <3> QED  BY <3>1, <3>2, <1>1, Moves DEF Observing
  <2>2. CASE state \in {"SampleLow", "SampleHigh"}
    <3>1. Adds /\ failure' = failure
      BY <2>2 DEF Adds, Resistance, Settling
    <3>2. state' \in {"SampleLow", "SampleHigh", "RampHigh", "RampDown"}
      BY <2>2 DEF Resistance, Settling, AdvanceAfter
    <3>3. Phase = "High" /\ Phase' \in {"High", "Low"}
      BY <2>2, <3>2, <1>3 DEF PhaseIsKnown, Full
    <3>4. Phase \in Contract!Active /\ Phase' \in Contract!Reaches[Phase]
      BY <3>3 DEF Contract!Active, Contract!Reaches
    <3> QED  BY <3>1, <3>4, <1>1, Moves DEF Observing
  <2>3. CASE state = "FinalizeSlope" /\ state' = "Complete" /\ known' = known \cup {"R"} /\ UNCHANGED failure
    <3>1. Phase = "Off"  BY <2>3, <1>3 DEF PhaseIsKnown, Resting
    <3>2. known' = known \cup Contract!Gives[routine]  BY <2>3, <1>1 DEF Contract!Gives
    <3> QED  BY <2>3, <3>1, <3>2, <1>1, Completes DEF Observing, Contract!Active
  <2>4. CASE /\ state = "FinalizeSlope" /\ state' = "Failed" /\ UNCHANGED known
             /\ failure' \in {"CurrentDidNotSettle", "InvalidSlope"}
    <3>1. Phase = "Off"  BY <2>4, <1>3 DEF PhaseIsKnown, Resting
    <3>2. Adds /\ failure' \in OwnFailures  BY <2>4 DEF Adds, OwnFailures
    <3> QED  BY <2>4, <3>1, <3>2, <1>1, FailsItself DEF Observing, Contract!Active
  <2> QED  BY <2>1, <2>2, <2>3, <2>4 DEF Resistance, Fails
<1> QED  BY <1>2, <1>4

LEMMA InductanceMoves ==
  ASSUME IInv, Inductance, IInv',
         \/ Hold /\ UNCHANGED <<failure, known>>
         \/ Discharge /\ UNCHANGED <<failure, known>>
         \/ (BeginScan \/ Scan) /\ UNCHANGED <<failure, known>>
         \/ FinishProbe /\ UNCHANGED <<failure, known>>
         \/ NextPosition /\ UNCHANGED <<failure, known>>
  PROVE  Contract!ContractNext
<1>1. routine' = routine /\ routine = "Inductance" /\ routine \in Contract!Routines
  BY DEF Inductance, Contract!Routines
<1>2. PhaseIsKnown /\ PhaseIsKnown'  BY PhaseNow, PhaseNext DEF IInv
<1>3. Adds /\ failure' = failure  BY DEF Adds
<1>4. Phase \in Contract!Active /\ Phase' \in Contract!Reaches[Phase]
  <2>1. CASE Hold
    BY <2>1, <1>1, <1>2, RoutineAssumption DEF Hold, AdvanceAfter, Enter, PhaseIsKnown, Full, Rising,
       RampedDown, IInv, RoutineAssumption, Contract!Active, Contract!Reaches
  <2>2. CASE Discharge \/ BeginScan \/ Scan \/ FinishProbe
    <3>1. state \in Full /\ state' \in Full
      BY <2>2 DEF Discharge, BeginScan, Scan, FinishProbe, AdvanceAfter, Enter, Full
    <3> QED  BY <3>1, <1>2 DEF PhaseIsKnown, Contract!Active, Contract!Reaches
  <2>3. CASE NextPosition
    BY <2>3, <1>2 DEF NextPosition, Enter, PhaseIsKnown, Resting, Rising, Contract!Active, Contract!Reaches
  <2> QED  BY <2>1, <2>2, <2>3
<1> QED  BY <1>1, <1>3, <1>4, Moves DEF Observing

LEMMA InductanceInvariant == ASSUME IInv, Inductance PROVE IInv'
<1>1. routine' = routine /\ routine = "Inductance"  BY DEF Inductance
<1>2. cycle' \in Nat /\ pending' \in OwnFailures \cup {"None"} /\ state \notin Ended
  <2>1. CASE Hold
    BY <2>1 DEF Hold, AdvanceAfter, Enter, OwnFailures, Ended, IInv
  <2>2. CASE (Discharge \/ BeginScan \/ Scan \/ FinishProbe) /\ UNCHANGED pending
    BY <2>2 DEF Discharge, BeginScan, Scan, FinishProbe, AdvanceAfter, Enter, Ended, IInv
  <2>3. CASE FinishPulse
    BY <2>3 DEF FinishPulse, FinishLevel, Enter, OwnFailures, Ended, IInv
  <2>4. CASE EndPosition
    BY <2>4 DEF EndPosition, Fails, OwnFailures, Ended, IInv
  <2>5. CASE NextPosition /\ UNCHANGED pending
    BY <2>5 DEF NextPosition, Enter, Ended, IInv
  <2> QED  BY <2>1, <2>2, <2>3, <2>4, <2>5 DEF Inductance
<1>3. InductanceKnown  BY <1>1, <1>2 DEF IInv
<1>4. SUFFICES ASSUME state' \notin Ended PROVE InductanceKnown'
  BY <1>1, <1>2 DEF IInv
<1>5. CASE Hold /\ UNCHANGED <<known, position, level>>
  BY <1>5, <1>3 DEF Hold, AdvanceAfter, Enter, InductanceKnown, Measured, PositionKnown
<1>6. CASE Discharge /\ UNCHANGED <<known, pending, lock>>
  BY <1>6, <1>3 DEF Discharge, AdvanceAfter, Enter, InductanceKnown, Measured, PositionKnown, lock
<1>7. CASE (BeginScan \/ Scan) /\ UNCHANGED <<known, pending, lock>>
  BY <1>7, <1>3 DEF BeginScan, Scan, InductanceKnown, Measured, PositionKnown, lock
<1>8. CASE FinishProbe /\ UNCHANGED <<known, pending, position, level>>
  BY <1>8, <1>3 DEF FinishProbe, Enter, InductanceKnown, Measured, PositionKnown
<1>9. CASE FinishPulse /\ UNCHANGED position
  <2>1. CASE FinishLevel
    BY <2>1, <1>9, <1>3, RoutineAssumption DEF FinishLevel, Enter, InductanceKnown, Measured, PositionKnown,
       RoutineAssumption
  <2>2. CASE UNCHANGED <<known, level>> /\ Enter("RampDown") /\ pending' = "PulseResponse"
    BY <2>2, <1>9, <1>3 DEF Enter, InductanceKnown, Measured, PositionKnown
  <2>3. CASE UNCHANGED <<known, level, pending>> /\ Enter("Discharge")
    BY <2>3, <1>9, <1>3 DEF Enter, InductanceKnown, Measured, PositionKnown
  <2> QED  BY <2>1, <2>2, <2>3, <1>9 DEF FinishPulse
<1>10. CASE EndPosition /\ UNCHANGED <<known, lock>>
  BY <1>10, <1>3, <1>4 DEF EndPosition, Fails, Ended, InductanceKnown, Measured, PositionKnown, lock
<1>11. CASE NextPosition /\ UNCHANGED <<known, pending>>
  BY <1>11, <1>3 DEF NextPosition, FirstLevel, Enter, InductanceKnown, Measured, PositionKnown, lock
<1> QED  BY <1>5, <1>6, <1>7, <1>8, <1>9, <1>10, <1>11 DEF Inductance

LEMMA InductanceKeeps == ASSUME IInv, Inductance PROVE Contract!ContractNext /\ IInv'
<1>1. routine' = routine /\ routine = "Inductance" /\ routine \in Contract!Routines
  BY DEF Inductance, Contract!Routines
<1>2. IInv'  BY InductanceInvariant
<1> SUFFICES Contract!ContractNext  BY <1>2
<1>3. PhaseIsKnown /\ PhaseIsKnown'  BY <1>2, PhaseNow, PhaseNext DEF IInv
<1>4. CASE FinishPulse
  <2>1. failure' = failure  BY <1>4 DEF FinishPulse, Inductance, Hold, Discharge, BeginScan, Scan,
        FinishProbe, EndPosition, NextPosition
  <2>2. Adds
    BY <1>4, <1>1 DEF FinishPulse, FinishLevel, Adds, Contract!Gives
  <2>3. state \in Full /\ state' \in {"Discharge", "RampDown"}
    BY <1>4 DEF FinishPulse, FinishLevel, Enter, Full
  <2>4. Phase = "High" /\ Phase' \in {"High", "Low"}  BY <2>3, <1>3 DEF PhaseIsKnown, Full
  <2>5. Phase \in Contract!Active /\ Phase' \in Contract!Reaches[Phase]
    BY <2>4 DEF Contract!Active, Contract!Reaches
  <2> QED  BY <2>1, <2>2, <2>5, <1>1, Moves DEF Observing
<1>5. CASE EndPosition /\ UNCHANGED <<known, lock>>
  <2>1. Adds  BY <1>5 DEF Adds
  <2>2. CASE ~RampedDown
    <3>1. failure' = failure /\ state = "RampDown" /\ state' = "RampDown" /\ cycle' = cycle + 1
      BY <1>5, <2>2 DEF EndPosition
    <3>2. Phase = "High"
      BY <3>1, <2>2, <1>1, RoutineAssumption DEF Phase, Target, RampedDown, Ended, Resting, IInv, RoutineAssumption
    <3>3. Phase \in Contract!Active /\ Phase' \in Contract!Reaches[Phase]
      BY <3>1, <3>2, <1>3 DEF PhaseIsKnown, Contract!Active, Contract!Reaches
    <3> QED  BY <2>1, <3>1, <3>3, <1>1, Moves DEF Observing
  <2>3. CASE RampedDown /\ pending # "None"
    <3>1. Phase = "Low" /\ state' = "Failed" /\ failure' \in OwnFailures
      BY <1>5, <2>3, <1>3 DEF EndPosition, Fails, PhaseIsKnown, IInv
    <3> QED  BY <2>1, <3>1, <1>1, FailsItself DEF Observing, Contract!Active
  <2>4. CASE RampedDown /\ pending = "None" /\ position + 1 < Positions
    <3>1. Phase = "Low" /\ state' = "AxisPause" /\ failure' = failure
      BY <1>5, <2>4, <1>3 DEF EndPosition, PhaseIsKnown
    <3>2. Phase \in Contract!Active /\ Phase' \in Contract!Reaches[Phase]
      BY <3>1, <1>3 DEF PhaseIsKnown, Resting, Contract!Active, Contract!Reaches
    <3> QED  BY <2>1, <3>1, <3>2, <1>1, Moves DEF Observing
  <2>5. CASE RampedDown /\ pending = "None" /\ ~(position + 1 < Positions)
    <3>1. Phase = "Low" /\ state' = "Complete" /\ failure' = failure
      BY <1>5, <2>5, <1>3 DEF EndPosition, PhaseIsKnown
    <3>2. InductanceKnown /\ Measured
      BY <1>5, <2>5, <1>1 DEF IInv, EndPosition, Ended, Measured
    <3>3. {"Ld", "Lq"} \subseteq known
      BY <3>2, <2>5, RoutineAssumption DEF InductanceKnown, PositionKnown, RoutineAssumption
    <3>4. known' = known \cup Contract!Gives[routine]  BY <3>3, <1>5, <1>1 DEF Contract!Gives
    <3> QED  BY <3>1, <3>4, <1>1, Completes DEF Observing, Contract!Active
  <2> QED  BY <2>2, <2>3, <2>4, <2>5
<1>6. CASE ~FinishPulse /\ ~(EndPosition /\ UNCHANGED <<known, lock>>)
  BY <1>6, <1>2, InductanceMoves DEF Inductance
<1> QED  BY <1>4, <1>5, <1>6

LEMMA FluxKeeps == ASSUME IInv, Flux PROVE Contract!ContractNext /\ IInv'
<1>1. routine' = routine /\ routine = "FluxLinkage" /\ routine \in Contract!Routines
  BY DEF Flux, Contract!Routines
<1>2. IInv'
  <2>1. cycle' \in Nat /\ pending' \in OwnFailures \cup {"None"}
    BY DEF Flux, IInv, AdvanceAfter, SpeedRamp, Enter, SampleFlux, EndDrive, FinalizeFlux, Fails, OwnFailures
  <2> QED  BY <1>1, <2>1 DEF IInv
<1> SUFFICES Contract!ContractNext  BY <1>2
<1>3. PhaseIsKnown /\ PhaseIsKnown'  BY <1>2, PhaseNow, PhaseNext DEF IInv
<1>4. CASE /\ \/ state = "Capture" /\ AdvanceAfter(RampCycles, "SpeedRamp")
              \/ state = "Settle" /\ AdvanceAfter(SettleCycles, "Sample")
              \/ SpeedRamp
              \/ SampleFlux
           /\ UNCHANGED <<failure, known>>
  <2>1. Adds  BY <1>4 DEF Adds
  <2>2. Phase \in Contract!Active /\ Phase' \in Contract!Reaches[Phase]
    BY <1>4, <1>3, RoutineAssumption DEF AdvanceAfter, SpeedRamp, SampleFlux, Enter, PhaseIsKnown, Full,
       Rising, IInv, RoutineAssumption, Contract!Active, Contract!Reaches
  <2> QED  BY <1>4, <2>1, <2>2, <1>1, Moves DEF Observing
<1>5. CASE EndDrive
  <2>1. Adds  BY <1>5 DEF EndDrive, Adds
  <2>2. CASE ~RampedDown
    <3>1. failure' = failure /\ state = "RampDown" /\ state' = "RampDown" /\ cycle' = cycle + 1
      BY <1>5, <2>2 DEF EndDrive
    <3>2. Phase = "High"
      BY <3>1, <2>2, <1>1, RoutineAssumption DEF Phase, Target, RampedDown, Ended, Resting, IInv, RoutineAssumption
    <3>3. Phase \in Contract!Active /\ Phase' \in Contract!Reaches[Phase]
      BY <3>1, <3>2, <1>3 DEF PhaseIsKnown, Contract!Active, Contract!Reaches
    <3> QED  BY <2>1, <3>1, <3>3, <1>1, Moves DEF Observing
  <2>3. CASE RampedDown /\ state' = "Failed"
    <3>1. Phase = "Low" /\ failure' \in OwnFailures
      BY <1>5, <2>3, <1>3 DEF EndDrive, Fails, PhaseIsKnown, IInv, OwnFailures
    <3> QED  BY <2>1, <2>3, <3>1, <1>1, FailsItself DEF Observing, Contract!Active
  <2>4. CASE RampedDown /\ state' = "FinalizeD" /\ failure' = failure
    <3>1. Phase = "Low"  BY <1>5, <2>4, <1>3 DEF EndDrive, PhaseIsKnown
    <3>2. Phase \in Contract!Active /\ Phase' \in Contract!Reaches[Phase]
      BY <3>1, <2>4, <1>3 DEF PhaseIsKnown, Resting, Contract!Active, Contract!Reaches
    <3> QED  BY <2>1, <2>4, <3>2, <1>1, Moves DEF Observing
  <2> QED  BY <1>5, <2>2, <2>3, <2>4 DEF EndDrive, Fails
<1>6. CASE FinalizeFlux
  <2>1. CASE /\ state \in {"FinalizeD", "FinalizeQ", "FinalizeMagnitude"}
             /\ state' \in {"FinalizeQ", "FinalizeMagnitude", "FinalizeFlux"}
             /\ UNCHANGED <<failure, known>>
    <3>1. Adds  BY <2>1 DEF Adds
    <3>2. Phase \in Contract!Active /\ Phase' \in Contract!Reaches[Phase]
      BY <2>1, <1>3 DEF PhaseIsKnown, Resting, Contract!Active, Contract!Reaches
    <3> QED  BY <2>1, <3>1, <3>2, <1>1, Moves DEF Observing
  <2>2. CASE state = "FinalizeFlux" /\ state' = "Complete" /\ known' = known \cup {"Flux"} /\ UNCHANGED failure
    <3>1. Phase = "Off"  BY <2>2, <1>3 DEF PhaseIsKnown, Resting
    <3>2. known' = known \cup Contract!Gives[routine]  BY <2>2, <1>1 DEF Contract!Gives
    <3> QED  BY <2>2, <3>1, <3>2, <1>1, Completes DEF Observing, Contract!Active
  <2>3. CASE state = "FinalizeFlux" /\ Fails("FluxRange") /\ UNCHANGED known
    <3>1. Phase = "Off"  BY <2>3, <1>3 DEF PhaseIsKnown, Resting
    <3>2. Adds /\ state' = "Failed" /\ failure' \in OwnFailures  BY <2>3 DEF Adds, Fails, OwnFailures
    <3> QED  BY <3>1, <3>2, <1>1, FailsItself DEF Observing, Contract!Active
  <2> QED  BY <1>6, <2>1, <2>2, <2>3 DEF FinalizeFlux
<1> QED  BY <1>4, <1>5, <1>6 DEF Flux, SpeedRamp, SampleFlux

LEMMA HallKeeps == ASSUME IInv, Hall PROVE Contract!ContractNext /\ IInv'
<1>1. routine' = routine /\ routine = "Hall" /\ routine \in Contract!Routines
  BY DEF Hall, Contract!Routines
<1>2. IInv'
  <2>1. cycle' \in Nat /\ pending' = pending
    BY DEF Hall, IInv, AdvanceAfter, Enter, RecordStep, BeginFinalization, FinalizeNextRaw, Fails
  <2> QED  BY <1>1, <2>1 DEF IInv
<1> SUFFICES Contract!ContractNext  BY <1>2
<1>3. PhaseIsKnown /\ PhaseIsKnown'  BY <1>2, PhaseNow, PhaseNext DEF IInv
<1>4. CASE /\ \/ state = "RampUp" /\ AdvanceAfter(RampCycles, "Settle")
              \/ state = "Settle" /\ AdvanceAfter(SettleCycles, "Sweep")
              \/ RecordStep
           /\ UNCHANGED <<failure, known>>
  <2>1. Adds  BY <1>4 DEF Adds
  <2>2. Phase \in Contract!Active /\ Phase' \in Contract!Reaches[Phase]
    BY <1>4, <1>3, RoutineAssumption DEF AdvanceAfter, RecordStep, PhaseIsKnown, Full,
       Rising, IInv, RoutineAssumption, Contract!Active, Contract!Reaches
  <2> QED  BY <1>4, <2>1, <2>2, <1>1, Moves DEF Observing
<1>5. CASE state = "RampDown" /\ ~RampedDown /\ UNCHANGED <<state, failure, known>>
  <2>1. Adds  BY <1>5 DEF Adds
  <2>2. Phase = "High"
    BY <1>5, <1>1, RoutineAssumption DEF Phase, Target, RampedDown, Ended, Resting, IInv, RoutineAssumption
  <2>3. Phase \in Contract!Active /\ Phase' \in Contract!Reaches[Phase]
    BY <1>5, <2>2, <1>3 DEF PhaseIsKnown, Contract!Active, Contract!Reaches
  <2> QED  BY <1>5, <2>1, <2>3, <1>1, Moves DEF Observing
<1>6. CASE BeginFinalization /\ UNCHANGED known
  <2>1. Adds /\ Phase = "Low"  BY <1>6, <1>3 DEF Adds, BeginFinalization, PhaseIsKnown
  <2>2. CASE Fails("HallStates")
    <3>1. state' = "Failed" /\ failure' \in OwnFailures  BY <2>2 DEF Fails, OwnFailures
    <3> QED  BY <2>1, <3>1, <1>1, FailsItself DEF Observing, Contract!Active
  <2>3. CASE state' = "Finalize" /\ failure' = failure
    <3>1. Phase \in Contract!Active /\ Phase' \in Contract!Reaches[Phase]
      BY <2>1, <2>3, <1>3 DEF PhaseIsKnown, Resting, Contract!Active, Contract!Reaches
    <3> QED  BY <2>1, <2>3, <3>1, <1>1, Moves DEF Observing
  <2> QED  BY <1>6, <2>2, <2>3 DEF BeginFinalization
<1>7. CASE FinalizeNextRaw
  <2>1. Phase = "Off"  BY <1>7, <1>3 DEF FinalizeNextRaw, PhaseIsKnown, Resting
  <2>2. CASE Fails("HallStates") /\ UNCHANGED known
    <3>1. Adds /\ state' = "Failed" /\ failure' \in OwnFailures  BY <2>2 DEF Adds, Fails, OwnFailures
    <3> QED  BY <2>1, <3>1, <1>1, FailsItself DEF Observing, Contract!Active
  <2>3. CASE UNCHANGED <<state, failure, known>>
    <3>1. Adds  BY <2>3 DEF Adds
    <3>2. Phase \in Contract!Active /\ Phase' \in Contract!Reaches[Phase]
      BY <1>7, <2>1, <2>3, <1>3 DEF FinalizeNextRaw, PhaseIsKnown, Resting, Contract!Active, Contract!Reaches
    <3> QED  BY <2>3, <3>1, <3>2, <1>1, Moves DEF Observing
  <2>4. CASE Enter("Complete") /\ known' = known \cup {"Centers"} /\ failure' = failure
    <3>1. state' = "Complete" /\ known' = known \cup Contract!Gives[routine]
      BY <2>4, <1>1 DEF Enter, Contract!Gives
    <3> QED  BY <2>1, <2>4, <3>1, <1>1, Completes DEF Observing, Contract!Active
  <2> QED  BY <1>7, <2>2, <2>3, <2>4 DEF FinalizeNextRaw
<1> QED  BY <1>4, <1>5, <1>6, <1>7 DEF Hall

LEMMA StartKeeps ==
  ASSUME IInv, NEW r \in Contract!Routines, Start(r)
  PROVE  Contract!ContractNext /\ IInv'
<1>1. IInv'
  <2>1. cycle' = 0 /\ pending' = "None" /\ position' = 0 /\ level' = 0  BY DEF Start
  <2>2. state' # "RampDown" /\ state' # "AxisPause"
    BY DEF Start, First, Contract!Routines
  <2> QED  BY <2>1, <2>2 DEF IInv, InductanceKnown, Measured, PositionKnown
<1>2. DEFINE left == known \ Contract!Gives[r]
             ready == Contract!Needs[r] \subseteq left
<1>3. PhaseIsKnown'  BY <1>1, PhaseNext DEF IInv
<1>4. Shown.known = known  BY DEF Shown
<1>5. Shown' = Contract!Started(Shown, r)
  <2>1. routine' = r /\ known' = left  BY DEF Start
  <2>2. CASE ready
    <3>1. cycle' = 0 /\ failure' = "None"  BY <2>2 DEF Start
    <3>2. state' \in Rising \cup {"RampLow"}
      BY <2>2 DEF Start, First, Contract!Routines, Rising
    <3>3. Phase' = "Low"  BY <3>1, <3>2, <1>3 DEF PhaseIsKnown
    <3>4. Cause' = "None"  BY <3>1 DEF Cause, OwnFailures, LoopFailures
    <3> QED  BY <2>1, <2>2, <3>3, <3>4, <1>4 DEF Shown, Contract!Started
  <2>3. CASE ~ready
    <3>1. state' = "Failed" /\ failure' = "MissingPrerequisite"  BY <2>3 DEF Start
    <3>2. Phase' = "Failed" /\ Cause' = "MissingPrerequisite"
      BY <3>1 DEF Phase, Ended, Cause, OwnFailures, LoopFailures
    <3> QED  BY <2>1, <2>3, <3>2, <1>4 DEF Shown, Contract!Started
  <2> QED  BY <2>2, <2>3
<1> QED  BY <1>1, <1>5 DEF Contract!ContractNext, Contract!ContractStart, Shown

LEMMA FailKeeps ==
  ASSUME IInv, NEW f \in LoopFailures, Fail(f)
  PROVE  Contract!ContractNext /\ IInv'
<1>1. state \notin Ended /\ state' = "Failed" /\ failure' = f /\ routine' = routine /\ known' = known
      /\ pending' = "None" /\ cycle' = 0
  BY DEF Fail
<1>2. IInv'  BY <1>1 DEF IInv, Ended
<1>3. Phase \in Contract!Active  BY <1>1 DEF Phase, Contract!Active
<1>4. Phase' = "Failed" /\ Cause' = "Loop"
  BY <1>1 DEF Phase, Ended, Cause, OwnFailures, LoopFailures
<1>5. Shown.phase = Phase /\ Shown.known = known  BY DEF Shown
<1>6. Shown' = Contract!Stopped(Shown)  BY <1>1, <1>3, <1>4, <1>5, ShownNext DEF Contract!Stopped
<1> QED  BY <1>2, <1>6 DEF Contract!ContractNext, Contract!ContractFail, Shown

-----------------------------------------------------------------------------
\* The routines implement the contract that the control loop is built on: each
\* control cycle starts, stops or observes as it allows, drives rise and fall
\* through their ramps, and completion brings every value.
THEOREM RoutinesKeepContract == Spec => KeepsContract
<1>1. Init => Contract!ContractInit /\ IInv
  <2> SUFFICES ASSUME Init PROVE Contract!ContractInit /\ IInv  OBVIOUS
  <2>1. IInv  BY DEF Init, IInv, Ended
  <2>2. Phase = "Idle" /\ Cause = "None"
    BY DEF Init, Phase, Ended, Cause, OwnFailures, LoopFailures
  <2> QED  BY <2>1, <2>2 DEF Init, Contract!ContractInit, Contract!Nothing
<1>2. IInv /\ [Next]_vars => IInv' /\ [Contract!ContractNext]_Shown
  <2> SUFFICES ASSUME IInv, [Next]_vars PROVE IInv' /\ (Contract!ContractNext \/ Shown' = Shown)
    OBVIOUS
  <2>1. CASE UNCHANGED vars
    BY <2>1 DEF vars, published, lock, pulse, IInv, Ended, InductanceKnown, Measured, PositionKnown,
       Shown, Phase, Target, Cause
  <2>2. CASE Observe
    BY <2>2, ResistanceKeeps, InductanceKeeps, FluxKeeps, HallKeeps DEF Observe
  <2> QED  BY <2>1, <2>2, StartKeeps, FailKeeps DEF Next
<1> QED  BY <1>1, <1>2, PTL DEF Spec, KeepsContract, Contract!ContractSpec, Shown
-----------------------------------------------------------------------------
(* What has been measured when a routine completes.                        *)

ResistanceWhole ==
    /\ state \in {"RampLow", "SettleLow", "SampleLow", "RampHigh", "SettleHigh", "SampleHigh",
                  "RampDown", "FinalizeLow", "FinalizeHigh", "FinalizeSlope", "Complete", "Failed"}
    /\ state \in {"RampLow", "SettleLow"} => low = 0
    /\ state = "SampleLow" => low = cycle /\ cycle < SampleCycles
    /\ state \notin {"RampLow", "SettleLow", "SampleLow", "Failed"} => low = SampleCycles
    /\ state \in {"RampLow", "SettleLow", "SampleLow", "RampHigh", "SettleHigh"} => high = 0
    /\ state = "SampleHigh" => high = cycle /\ cycle < SampleCycles
    /\ state \in {"RampDown", "FinalizeLow", "FinalizeHigh", "FinalizeSlope", "Complete"} =>
           high = SampleCycles

\* The grid is filled position by position and level by level: at rest between
\* two positions up to the last level, before up to the one being measured.
Through == position * Levels + level
InductanceWhole ==
    /\ position \in 0..(Positions - 1) /\ level \in 0..(Levels - 1)
    /\ state \in {"RampHold", "SettleHold", "SampleHold", "Discharge", "PulseCommand", "PulseScan"} =>
           grid = 0..(Through - 1)
    /\ state = "AxisPause" \/ (state = "RampDown" /\ pending = "None") =>
           level = Levels - 1 /\ grid = 0..Through
    /\ state = "AxisPause" => position + 1 < Positions
    /\ state = "Complete" => grid = 0..(Positions * Levels - 1)

FluxWhole ==
    /\ state \in {"Capture", "SpeedRamp", "Settle"} => samples = 0
    /\ state = "Sample" => samples = cycle /\ cycle < SampleCycles
    /\ state = "RampDown" /\ pending = "None" => samples = SampleCycles
    /\ state \in {"FinalizeD", "FinalizeQ", "FinalizeMagnitude", "FinalizeFlux", "Complete"} =>
           samples = SampleCycles

HallWhole ==
    /\ state \in {"Finalize", "Complete"} => ~Invalid
    /\ state = "Finalize" =>
           /\ raw \in 1..LastRaw
           /\ \A d \in {0, 1}, h \in 1..(raw - 1) : ~(counts[d][h] < MinSamples)
    /\ state = "Complete" =>
           \A d \in {0, 1}, h \in 1..LastRaw : ~(counts[d][h] < MinSamples)

WholeInv ==
    /\ state = "Complete" => routine \in Contract!Routines
    /\ state \notin Ended => routine \in Contract!Routines
    /\ routine = "Resistance" => ResistanceWhole
    /\ routine = "Inductance" => InductanceWhole
    /\ routine = "FluxLinkage" => FluxWhole
    /\ routine = "Hall" => HallWhole /\ \A d \in {0, 1}, h \in Raws : counts[d][h] \in Nat

LEMMA Lengths ==
  /\ SampleCycles \in Nat \ {0} /\ LastRaw \in Nat \ {0} /\ MinSamples \in Nat \ {0}
  /\ Positions \in Nat /\ Positions >= 2 /\ Levels \in Nat /\ Levels >= 2
<1>1. {SampleCycles, LastRaw, MinSamples} \subseteq Nat \ {0}
  BY RoutineAssumption DEF RoutineAssumption
<1>2. SampleCycles \in Nat \ {0} /\ LastRaw \in Nat \ {0} /\ MinSamples \in Nat \ {0}
  BY <1>1
<1> QED  BY <1>2, RoutineAssumption DEF RoutineAssumption

LEMMA ResistanceMeasures == ASSUME IInv, WholeInv, Resistance PROVE WholeInv'
<1>1. routine = "Resistance" /\ routine' = routine /\ ResistanceWhole
  BY DEF Resistance, WholeInv
<1>2. ResistanceWhole'
  <2>1. CASE Settling /\ UNCHANGED <<low, high>>
    BY <2>1, <1>1, Lengths DEF Settling, AdvanceAfter, ResistanceWhole
  <2>2. CASE state = "SampleLow" /\ low' = low + 1 /\ AdvanceAfter(SampleCycles, "RampHigh") /\ UNCHANGED high
    BY <2>2, <1>1, Lengths DEF AdvanceAfter, ResistanceWhole, IInv
  <2>3. CASE state = "SampleHigh" /\ high' = high + 1 /\ AdvanceAfter(SampleCycles, "RampDown") /\ UNCHANGED low
    BY <2>3, <1>1, Lengths DEF AdvanceAfter, ResistanceWhole, IInv
  <2>4. CASE state = "FinalizeSlope" /\ state' \in {"Complete", "Failed"} /\ UNCHANGED <<low, high>>
    BY <2>4, <1>1 DEF ResistanceWhole
  <2> QED  BY <2>1, <2>2, <2>3, <2>4 DEF Resistance, Fails
<1> QED  BY <1>1, <1>2 DEF WholeInv, Contract!Routines

LEMMA FluxMeasures == ASSUME IInv, WholeInv, Flux PROVE WholeInv'
<1>1. routine = "FluxLinkage" /\ routine' = routine /\ FluxWhole
  BY DEF Flux, WholeInv
<1>2. FluxWhole'
  <2>1. CASE state = "Capture" /\ AdvanceAfter(RampCycles, "SpeedRamp") /\ UNCHANGED <<pending, samples>>
    BY <2>1, <1>1 DEF AdvanceAfter, FluxWhole
  <2>2. CASE state = "Settle" /\ AdvanceAfter(SettleCycles, "Sample") /\ UNCHANGED <<pending, samples>>
    BY <2>2, <1>1, Lengths DEF AdvanceAfter, FluxWhole
  <2>3. CASE SpeedRamp
    BY <2>3, <1>1 DEF SpeedRamp, AdvanceAfter, Enter, FluxWhole
  <2>4. CASE SampleFlux
    BY <2>4, <1>1, Lengths DEF SampleFlux, AdvanceAfter, FluxWhole, IInv
  <2>5. CASE EndDrive
    BY <2>5, <1>1 DEF EndDrive, Fails, FluxWhole
  <2>6. CASE FinalizeFlux
    BY <2>6, <1>1 DEF FinalizeFlux, Fails, FluxWhole
  <2> QED  BY <2>1, <2>2, <2>3, <2>4, <2>5, <2>6 DEF Flux
<1> QED  BY <1>1, <1>2 DEF WholeInv, Contract!Routines

LEMMA HallMeasures == ASSUME WholeInv, Hall PROVE WholeInv'
<1>1. /\ routine = "Hall" /\ routine' = routine /\ HallWhole
      /\ \A d \in {0, 1}, h \in Raws : counts[d][h] \in Nat
  BY DEF Hall, WholeInv
<1>2. HallWhole' /\ \A d \in {0, 1}, h \in Raws : counts'[d][h] \in Nat
  <2>1. CASE state' \notin {"Finalize", "Complete"} /\ counts' = counts
    BY <2>1, <1>1 DEF HallWhole
  <2>2. CASE RecordStep
    <3>1. state' \notin {"Finalize", "Complete"}  BY <2>2 DEF RecordStep
    <3>2. PICK h \in Raws : counts' = [counts EXCEPT ![sweep % 2][h] = @ + 1]
      BY <2>2 DEF RecordStep
    <3>3. \A d \in {0, 1}, g \in Raws : counts'[d][g] \in {counts[d][g], counts[d][g] + 1}
      BY <3>2
    <3> QED  BY <1>1, <3>1, <3>3 DEF HallWhole
  <2>3. CASE BeginFinalization /\ counts' = counts /\ state' = "Finalize"
    BY <2>3, <1>1, Lengths DEF BeginFinalization, Fails, Invalid, HallWhole
  <2>4. CASE FinalizeNextRaw /\ counts' = counts
    <3>1. CASE state' = "Failed"
      BY <3>1, <2>4, <1>1 DEF HallWhole
    <3>2. CASE state' # "Failed"
      <4>1. /\ state = "Finalize" /\ ~Invalid /\ ~Invalid' /\ raw \in 1..LastRaw
            /\ \A d \in {0, 1}, h \in 1..raw : ~(counts[d][h] < MinSamples)
        BY <2>4, <3>2, <1>1, Lengths DEF FinalizeNextRaw, Fails, HallWhole, Invalid
      <4>2. CASE raw < LastRaw
        <5>1. state' = "Finalize" /\ raw' = raw + 1
          BY <2>4, <3>2, <4>1, <4>2 DEF FinalizeNextRaw, Fails
        <5> QED  BY <2>4, <4>1, <4>2, <5>1, <1>1, Lengths DEF HallWhole
      <4>3. CASE ~(raw < LastRaw)
        <5>1. state' = "Complete" /\ raw = LastRaw
          BY <2>4, <3>2, <4>1, <4>3, Lengths DEF FinalizeNextRaw, Fails, Enter
        <5> QED  BY <2>4, <4>1, <5>1, <1>1 DEF HallWhole
      <4> QED  BY <4>2, <4>3
    <3> QED  BY <3>1, <3>2
  <2> QED  BY <2>1, <2>2, <2>3, <2>4 DEF Hall, AdvanceAfter, BeginFinalization, Fails, hall
<1> QED  BY <1>1, <1>2 DEF WholeInv, Contract!Routines

\* The cell of one position and level is the next to those measured before.
LEMMA NextCell ==
  ASSUME NEW p \in Nat, NEW l \in Nat
  PROVE  /\ p * Levels \in Nat /\ (p + 1) * Levels = p * Levels + Levels
         /\ 0..((p * Levels + l) - 1) \cup {p * Levels + l} = 0..(p * Levels + l)
<1>1. p * Levels \in Nat /\ (p + 1) * Levels = p * Levels + Levels  BY Lengths
<1>2. \A n \in Nat : 0..(n - 1) \cup {n} = 0..n  OBVIOUS
<1>3. p * Levels + l \in Nat  BY <1>1
<1> QED  BY <1>1, <1>2, <1>3

LEMMA LevelMeasures ==
  ASSUME InductanceWhole, FinishPulse, UNCHANGED position
  PROVE  InductanceWhole'
<1>1. /\ state = "PulseScan" /\ grid = 0..(Through - 1)
      /\ position \in Nat /\ level \in Nat
  BY DEF FinishPulse, InductanceWhole
<1>2. CASE FinishLevel
  <2>1. grid' = 0..Through  BY <1>1, <1>2, NextCell DEF FinishLevel, Through
  <2>2. CASE level + 1 < Levels
    <3>1. state' = "Discharge" /\ level' = level + 1  BY <1>2, <2>2 DEF FinishLevel, Enter
    <3>2. Through' - 1 = Through  BY <1>1, <3>1, NextCell DEF Through
    <3>3. grid' = 0..(Through' - 1)  BY <2>1, <3>2
    <3> QED  BY <1>1, <2>2, <3>1, <3>3, Lengths DEF InductanceWhole, Through
  <2>3. CASE ~(level + 1 < Levels)
    <3>1. state' = "RampDown" /\ level' = level /\ level = Levels - 1
      BY <1>1, <1>2, <2>3, Lengths DEF FinishLevel, Enter, InductanceWhole
    <3>2. grid' = 0..Through'  BY <2>1, <3>1 DEF Through
    <3> QED  BY <3>1, <3>2 DEF InductanceWhole
  <2> QED  BY <2>2, <2>3
<1>3. CASE UNCHANGED <<grid, level>> /\ Enter("RampDown") /\ pending' = "PulseResponse"
  BY <1>3 DEF Enter, InductanceWhole
<1>4. CASE UNCHANGED <<grid, level>> /\ Enter("Discharge")
  BY <1>1, <1>4 DEF Enter, InductanceWhole, Through
<1> QED  BY <1>2, <1>3, <1>4 DEF FinishPulse

LEMMA InductanceMeasures == ASSUME WholeInv, Inductance PROVE WholeInv'
<1>1. routine = "Inductance" /\ routine' = routine /\ InductanceWhole
  BY DEF Inductance, WholeInv
<1>2. InductanceWhole'
  <2>1. CASE Hold /\ UNCHANGED <<grid, position, level>>
    BY <2>1, <1>1 DEF Hold, AdvanceAfter, Enter, InductanceWhole, Through
  <2>2. CASE (Discharge \/ BeginScan \/ Scan \/ FinishProbe) /\ UNCHANGED <<grid, position, level>>
    BY <2>2, <1>1 DEF Discharge, BeginScan, Scan, FinishProbe, AdvanceAfter, Enter, InductanceWhole, Through
  <2>3. CASE FinishPulse /\ UNCHANGED position
    BY <2>3, <1>1, LevelMeasures
  <2>4. CASE EndPosition /\ UNCHANGED <<grid, position, level>>
    <3>1. CASE ~RampedDown \/ pending # "None"
      BY <2>4, <3>1, <1>1 DEF EndPosition, Fails, InductanceWhole, Through
    <3>2. CASE RampedDown /\ pending = "None"
      <4>1. level = Levels - 1 /\ grid = 0..Through
        BY <2>4, <3>2, <1>1 DEF EndPosition, InductanceWhole
      <4>2. CASE position + 1 < Positions
        BY <2>4, <3>2, <4>1, <4>2, <1>1 DEF EndPosition, InductanceWhole, Through
      <4>3. CASE ~(position + 1 < Positions)
        <5>1. state' = "Complete" /\ position + 1 = Positions
          BY <2>4, <3>2, <4>3, <1>1, Lengths DEF EndPosition, InductanceWhole
        <5>2. Through = Positions * Levels - 1
          BY <4>1, <5>1, <1>1, NextCell, Lengths DEF Through, InductanceWhole
        <5> QED  BY <2>4, <4>1, <5>1, <5>2, <1>1 DEF InductanceWhole
      <4> QED  BY <4>2, <4>3
    <3> QED  BY <3>1, <3>2
  <2>5. CASE NextPosition /\ UNCHANGED grid
    <3>1. CASE cycle + 1 < PauseCycles
      BY <2>5, <3>1, <1>1 DEF NextPosition, lock, InductanceWhole, Through
    <3>2. CASE ~(cycle + 1 < PauseCycles)
      <4>1. /\ state' = "RampHold" /\ position' = position + 1 /\ level' = 0
            /\ level = Levels - 1 /\ grid = 0..Through
        BY <2>5, <3>2, <1>1 DEF NextPosition, FirstLevel, Enter, InductanceWhole
      <4>2. Through' - 1 = Through  BY <4>1, <1>1, NextCell, Lengths DEF Through, InductanceWhole
      <4>3. grid' = 0..(Through' - 1)  BY <2>5, <4>1, <4>2
      <4>4. position' \in 0..(Positions - 1)
        BY <2>5, <4>1, <1>1, Lengths DEF NextPosition, InductanceWhole
      <4> QED  BY <4>1, <4>3, <4>4, Lengths DEF InductanceWhole
    <3> QED  BY <3>1, <3>2
  <2> QED  BY <2>1, <2>2, <2>3, <2>4, <2>5 DEF Inductance, lock
<1> QED  BY <1>1, <1>2 DEF WholeInv, Contract!Routines

LEMMA StartMeasures ==
  ASSUME NEW r \in Contract!Routines, Start(r)
  PROVE  WholeInv'
<1>1. /\ routine' = r /\ state' \in {First[r], "Failed"}
      /\ low' = 0 /\ high' = 0 /\ samples' = 0 /\ position' = 0 /\ level' = 0
      /\ counts' = NoCounts /\ pending' = "None"
      /\ r = "Inductance" => grid' = {}
  BY DEF Start
<1>2. r \in {"Resistance", "Inductance", "FluxLinkage", "Hall"}  BY DEF Contract!Routines
<1>3. First[r] = IF r = "Resistance" THEN "RampLow" ELSE IF r = "Inductance" THEN "RampHold"
                 ELSE IF r = "FluxLinkage" THEN "Capture" ELSE "RampUp"
  BY <1>2 DEF First
<1>4. state' # "Complete"  BY <1>1, <1>3
<1>5. r = "Resistance" => ResistanceWhole'  BY <1>1, <1>3 DEF ResistanceWhole
<1>6. r = "Inductance" => InductanceWhole'
  <2>1. Through' = 0  BY <1>1, Lengths DEF Through
  <2>2. 0..(Through' - 1) = {}  BY <2>1
  <2>3. position' \in 0..(Positions - 1) /\ level' \in 0..(Levels - 1)  BY <1>1, Lengths
  <2>4. r = "Inductance" => grid' = 0..(Through' - 1) /\ state' \in {"RampHold", "Failed"}
    BY <1>1, <1>3, <2>2
  <2> QED  BY <2>3, <2>4 DEF InductanceWhole
<1>7. r = "FluxLinkage" => FluxWhole'  BY <1>1, <1>3 DEF FluxWhole
<1>8. r = "Hall" => HallWhole'  BY <1>1, <1>3 DEF HallWhole
<1>9. \A d \in {0, 1}, h \in Raws : counts'[d][h] \in Nat  BY <1>1 DEF NoCounts
<1> QED  BY <1>1, <1>4, <1>5, <1>6, <1>7, <1>8, <1>9 DEF WholeInv

LEMMA FailMeasures ==
  ASSUME WholeInv, NEW f \in LoopFailures, Fail(f)
  PROVE  WholeInv'
<1>1. /\ state' = "Failed" /\ state \notin Ended
      /\ UNCHANGED <<routine, position, level, counts, grid, low, high, samples, raw>>
  BY DEF Fail, lock, hall
<1>2. "Failed" \in Ended  BY DEF Ended
<1> QED  BY <1>1, <1>2 DEF WholeInv, ResistanceWhole, InductanceWhole, FluxWhole, HallWhole, Through

\* Whatever run failed before, wherever it failed and whatever the motor
\* answered: a result reported complete stands on every sample, cell and count
\* of the run that reports it.
THEOREM CompleteRunsAreWhole == Spec => []CompleteIsWhole
<1>1. Init => IInv /\ WholeInv
  <2> SUFFICES ASSUME Init PROVE IInv /\ WholeInv  OBVIOUS
  <2> QED  BY DEF Init, IInv, WholeInv, Ended, Contract!Routines
<1>2. IInv /\ [Next]_vars => IInv'
  <2> SUFFICES ASSUME IInv, [Next]_vars PROVE IInv'  OBVIOUS
  <2>1. CASE UNCHANGED vars
    BY <2>1 DEF vars, published, lock, IInv, Ended, InductanceKnown, Measured, PositionKnown
  <2>2. CASE Observe
    BY <2>2, ResistanceKeeps, InductanceKeeps, FluxKeeps, HallKeeps DEF Observe
  <2> QED  BY <2>1, <2>2, StartKeeps, FailKeeps DEF Next
<1>3. IInv /\ WholeInv /\ [Next]_vars => WholeInv'
  <2> SUFFICES ASSUME IInv, WholeInv, [Next]_vars PROVE WholeInv'  OBVIOUS
  <2>1. CASE UNCHANGED vars
    BY <2>1 DEF vars, published, lock, hall, WholeInv, ResistanceWhole, InductanceWhole, FluxWhole,
       HallWhole, Through, Invalid
  <2>2. CASE Observe
    BY <2>2, ResistanceMeasures, InductanceMeasures, FluxMeasures, HallMeasures DEF Observe
  <2> QED  BY <2>1, <2>2, StartMeasures, FailMeasures DEF Next
<1>4. WholeInv => CompleteIsWhole
  <2> SUFFICES ASSUME WholeInv, state = "Complete" PROVE CompleteIsWhole
    BY DEF CompleteIsWhole
  <2>1. CASE routine = "Resistance"
    BY <2>1 DEF WholeInv, ResistanceWhole, CompleteIsWhole
  <2>2. CASE routine = "Inductance"
    BY <2>2 DEF WholeInv, InductanceWhole, CompleteIsWhole
  <2>3. CASE routine = "FluxLinkage"
    BY <2>3 DEF WholeInv, FluxWhole, CompleteIsWhole
  <2>4. CASE routine = "Hall"
    <3>1. /\ ~Invalid /\ \A d \in {0, 1}, h \in 1..LastRaw : ~(counts[d][h] < MinSamples)
          /\ \A d \in {0, 1}, h \in Raws : counts[d][h] \in Nat
      BY <2>4 DEF WholeInv, HallWhole
    <3>2. ASSUME NEW d \in {0, 1}, NEW h \in Raws
          PROVE  IF h \in 1..LastRaw THEN counts[d][h] >= MinSamples ELSE counts[d][h] = 0
      <4>1. h \notin 1..LastRaw => h \in {0, LastRaw + 1}  BY Lengths DEF Raws
      <4> QED  BY <3>1, <4>1, Lengths DEF Invalid
    <3> QED  BY <2>4, <3>2 DEF CompleteIsWhole
  <2> QED  BY <2>1, <2>2, <2>3, <2>4 DEF WholeInv, Contract!Routines
<1> QED  BY <1>1, <1>2, <1>3, <1>4, PTL DEF Spec
=============================================================================
