--------------------------- MODULE RoutineContract ---------------------------
(***************************************************************************)
(* What the four calibration routines of oxifoc-f103-calibration promise   *)
(* to the control loop that drives them (Sequences of                      *)
(* calibration/sequence.rs): from which values a routine starts, how its   *)
(* drive may change from one control cycle to the next, how it ends, and   *)
(* which values it leaves.  CalibrationRoutines is shown to implement it   *)
(* and CalibrationDevice builds on it.                                     *)
(***************************************************************************)

Routines == {"Resistance", "Inductance", "FluxLinkage", "Hall"}
Values == {"R", "Ld", "Lq", "Flux", "Centers"}

\* The values a routine starts from, and those its own start() clears.
Needs == [Resistance |-> {}, Inductance |-> {"R"},
          FluxLinkage |-> {"R", "Ld", "Lq"}, Hall |-> {}]
Gives == [Resistance |-> {"R"}, Inductance |-> {"Ld", "Lq"},
          FluxLinkage |-> {"Flux"}, Hall |-> {"Centers"}]

\* Active: "High" and "Low" are energized, Low within a step of a ramp's foot.
Active == {"High", "Low", "Off"}
Phases == Active \cup {"Idle", "Complete", "Failed"}

\* Who ended a routine: a check of its own, the control loop through
\* fail_active(), or a start() without the values it needs.
Failures == {"None", "Own", "Loop", "MissingPrerequisite"}

VARIABLE sequences      \* Sequences: the routine last started, its phase and
                        \* failure, and the values that are not zero

Sequences == [routine : Routines \cup {"None"}, phase : Phases,
              failure : Failures, known : SUBSET Values]

Nothing == [routine |-> "None", phase |-> "Idle", failure |-> "None", known |-> {}]

\* Sequences::start(): the routine begins anew, its own results with it.
Started(s, r) ==
    LET known == s.known \ Gives[r]
        ready == Needs[r] \subseteq known
    IN  [routine |-> r, known |-> known,
         phase |-> IF ready THEN "Low" ELSE "Failed",
         failure |-> IF ready THEN "None" ELSE "MissingPrerequisite"]

\* The routine goes on, or ends, with the values it has.
Became(s, p, f, k) == [routine |-> s.routine, phase |-> p, failure |-> f, known |-> k]

\* Sequences::fail_active().
Stopped(s) == IF s.phase \in Active THEN Became(s, "Failed", "Loop", s.known) ELSE s

\* The drive rises from rest and falls to rest through a ramp only.
Reaches ==
    [High |-> {"High", "Low"}, Low |-> {"High", "Low", "Off"}, Off |-> {"Off", "Low"}]

\* One observation of an active routine.  A value appears while it runs; it
\* ends by itself only at rest or at the foot of a ramp, and complete only
\* with all its values.
Observed(s) ==
    LET more == {s.known \cup new : new \in SUBSET Gives[s.routine]}
    IN  {Became(s, p, s.failure, k) : p \in Reaches[s.phase], k \in more}
        \cup IF s.phase = "High" THEN {} ELSE
             {Became(s, "Failed", "Own", k) : k \in more}
             \cup {Became(s, "Complete", s.failure, s.known \cup Gives[s.routine])}

-----------------------------------------------------------------------------
ContractInit == sequences = Nothing

ContractStart == \E r \in Routines : sequences' = Started(sequences, r)

ContractFail == sequences' = Stopped(sequences)

ContractObserve == sequences.phase \in Active /\ sequences' \in Observed(sequences)

ContractNext == ContractStart \/ ContractFail \/ ContractObserve

ContractSpec == ContractInit /\ [][ContractNext]_sequences
=============================================================================
