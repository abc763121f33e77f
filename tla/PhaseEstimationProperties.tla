---------------------- MODULE PhaseEstimationProperties ----------------------
(***************************************************************************)
(* What the choice of the commutation angle must guarantee.                *)
(***************************************************************************)
EXTENDS PhaseEstimation

\* The types of the estimators' state.
TypeOK ==
    /\ rotor \in Raw /\ age \in Time /\ pending \in 0..2 /\ interval \in Time
    /\ hall \in [valid : BOOLEAN, sector : Raw, direction : -1..1, interval : Time,
                 traversed : Sector, duration : Time, fromStart : BOOLEAN]
    /\ observer \in [ready : BOOLEAN, granted : BOOLEAN, invalid : 0..Revoke]
    /\ recovery \in [raw : Raw, cycles : 0..Stable]
    /\ {command, seeding, commandWas, driving} \subseteq BOOLEAN
    /\ pc \in {"Idle", "Start", "Estimate"} /\ blind \in Nat
    /\ stay \in [from : Raw \cup {AtCenter}, time : Time, repeated : BOOLEAN]
    /\ crossing \in [halves : 0..2, time : Time, repeated : BOOLEAN]

\* An edge gives a speed only for a sector that the live state has crossed
\* from one neighbour to the other, or from its center since the command's
\* start, whatever reversals, chatter, refused and missed edges, resynchronised
\* states and stops came before.  The interval is the time that really took,
\* twice it from the center, except that a capture that has repeated the state
\* on the way makes it shorter: the estimate may then be too fast, never too slow.
CrossingTime ==
    IF crossing.halves = 2 THEN crossing.time
    ELSE ScaleInterval(crossing.time, Width[hall.sector], Width[hall.sector] \div 2)
SpeedOfCrossing ==
    [][hall'.sector # hall.sector /\ hall'.interval # 0 =>
           /\ crossing.halves # 0 /\ hall'.traversed = hall.sector
           /\ hall'.interval <= CrossingTime
           /\ crossing.repeated \/ hall'.interval = CrossingTime]_vars

\* The motor is driven without Hall and without a corroborating back-EMF for
\* at most the 400 ms of valid_revoke_cycles, over whatever losses, returns
\* and reseeds of Hall.
BlindDriveEnds == blind <= Revoke

\* With the Hall state readable and the rotor at rest there is a phase to
\* start on again and again: a stale sensor is recovered while the outputs
\* are off, rather than leaving the bike without a start until it is pushed.
PhaseReturns ==
    <>[](rotor # Invalid) /\ <>[][Cycle \/ Grant]_vars =>
        []<>(HallEstimate(hall, age) \/ observer.ready)

\* "every start commutates on Hall alone" (oxifoc-f103/README.md:253).
StartsOnHall ==
    [][~driving /\ driving' => HallEstimate(hall', age)]_vars
=============================================================================
