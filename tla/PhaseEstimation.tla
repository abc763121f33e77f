--------------------------- MODULE PhaseEstimation ---------------------------
(***************************************************************************)
(* What commutates the motor: the Hall estimator of                        *)
(* oxifoc-core/src/foc/hall_sensor.rs, the readiness of the back-EMF       *)
(* observer (phase/observer.rs) and the choice between them of             *)
(* phase/manager.rs, as the control cycle of oxifoc-f103/src/control/foc.rs *)
(* drives them: accept the captured edge, note a command's start, select   *)
(* the estimate, recover a resting sensor, then drive or stop.             *)
(*                                                                         *)
(* Time passes in control cycles; widths and thresholds keep their order   *)
(* and everything slower than the Horizon is one interval.  Angles are     *)
(* reduced to whether an estimate exists and whether the two differ by     *)
(* more than a quarter turn; the observer's flux and PLL to the outcomes   *)
(* of its tests, chosen by the environment.  CONTROL_HALL_VALID, the lease  *)
(* and the faults are those of ControlLoop.                                *)
(***************************************************************************)
EXTENDS Integers, FiniteSets

CONSTANTS
    Count,          \* sectors of a turn (six)
    Width,          \* their widths, a function on the sectors
    Fast,           \* MIN_EDGE_INTERVAL_US
    Chatter,        \* CHATTER_WINDOW_US
    Snap, Ready,    \* time per width at 500 eRPM and at the observer's 287 eRPM
    Stale,          \* STALE_SECTOR_MULTIPLE
    Horizon,        \* intervals from here on are one value
    Stable,         \* HALL_RECOVERY_STABLE_CYCLES
    Revoke          \* valid_revoke_cycles

Sector == 0..(Count - 1)
Invalid == Count        \* a raw state that is no sector
Raw == Sector \cup {Invalid}
Time == 0..Horizon

PhaseAssumption ==
    /\ Count \in Nat /\ Count >= 3
    /\ Width \in [Sector -> Nat \ {0, 1}]
    /\ {Fast, Chatter, Snap, Ready, Stale, Stable, Revoke} \subseteq Nat \ {0}
    /\ Fast < Chatter /\ Snap < Ready /\ Stable > 1
    /\ Horizon \in Nat
    /\ \A s \in Sector : Stale * Snap * Width[s] < Horizon /\ Ready * Width[s] < Horizon

VARIABLES
    rotor,      \* the live Hall state
    age,        \* since the latest capture, or since the interval's restart
    pending,    \* captures the loop has not accepted (2: several)
    interval,   \* interval_us of the latest capture while one is pending
    command,    \* the foreground's granted command
    hall,       \* HallSensor
    observer,   \* BackEmfObserver
    seeding,    \* observer_seed_requested
    recovery,   \* hall_recovery_raw and hall_recovery_cycles
    commandWas, \* command_was_enabled
    driving,    \* the outputs are enabled
    pc,         \* where the control cycle stands
    blind,      \* ghost: driven cycles since Hall or the back-EMF spoke for it
    stay,       \* ghost: where the live state's stay in its sector began, how
                \* long it has lasted, and whether a capture has repeated it
    crossing    \* ghost: what share of its sector the stay that the pending edge
                \* ended has crossed, and in what time

sensed == <<rotor, pending, interval, command>>
estimators == <<hall, observer, seeding, recovery>>
output == <<commandWas, driving>>
ghosts == <<stay, crossing>>
vars == <<sensed, age, estimators, output, pc, blind, ghosts>>

Upto(t) == IF t > Horizon THEN Horizon ELSE t

(* The Hall estimator. *)
Unmoved(v, s, t) == [valid |-> v, sector |-> s, direction |-> 0, interval |-> 0,
                     traversed |-> t, duration |-> 0, fromStart |-> FALSE]
Unseeded == Unmoved(FALSE, Invalid, 0)
Seeded(s) == Unmoved(TRUE, s, s)

NextRaw(s) == (s + 1) % Count
PreviousRaw(s) == (s + Count - 1) % Count
Direction(from, to) == IF to = PreviousRaw(from) THEN -1 ELSE 1
ScaleInterval(t, numerator, denominator) == Upto((t * numerator) \div denominator)

CenterSnapAfter(h) == Snap * Width[h.sector]
HoldsSectorCenter(h) == h.duration # 0 => h.duration > CenterSnapAfter(h)

Reverses(h, s) == h.direction # 0 /\ Direction(h.sector, s) # h.direction
Chatters(h, s, t) == Reverses(h, s) /\ t < Chatter /\ HoldsSectorCenter(h)

\* The traversal time of an edge, and the sector it was measured over.
Carried(h, s) ==
    h.fromStart /\ h.direction = Direction(h.sector, s) /\ h.interval # 0
Measured(h, s, t) ==
    IF Carried(h, s) THEN <<h.interval, h.traversed>>
    ELSE IF h.fromStart
         THEN <<ScaleInterval(t, Width[h.sector], Width[h.sector] \div 2), h.sector>>
         ELSE <<t, h.sector>>

TooFast(h, s, t) ==
    /\ ~Chatters(h, s, t)
    /\ h.direction # 0 \/ h.fromStart
    /\ Measured(h, s, t)[1] < Fast

Unmeasured(h, s, t) == Chatters(h, s, t)    \* mutated: a turnaround is a traversal
Turned(h, s, t) ==
    Chatters(h, s, t) \/ (h.direction # Direction(h.sector, s) /\ ~h.fromStart)

Enter(h, s, t) ==
    LET time == IF Turned(h, s, t) THEN 0 ELSE Measured(h, s, t)[1]
        over == IF Chatters(h, s, t) THEN h.sector ELSE Measured(h, s, t)[2]
        scaled == ScaleInterval(time, Width[s], Width[over])
    IN [valid |-> TRUE, sector |-> s, direction |-> Direction(h.sector, s),
        interval |-> time, traversed |-> over, fromStart |-> FALSE,
        duration |-> IF Turned(h, s, t) THEN 0 ELSE IF scaled = 0 THEN 1 ELSE scaled]

\* update_edge(): refused, or the sensor after the edge.
Refused(h, s, t) ==
    \/ s = Invalid
    \/ /\ h.valid /\ s # h.sector
       /\ s \notin {NextRaw(h.sector), PreviousRaw(h.sector)} \/ TooFast(h, s, t)
UpdateEdge(h, s, t) ==
    IF ~h.valid THEN Seeded(s) ELSE IF s = h.sector THEN h ELSE Enter(h, s, t)

\* angle() has an answer, and the speed is at least that of the given rate.
HallEstimate(h, t) ==
    h.valid /\ (HoldsSectorCenter(h) \/ t <= Stale * h.duration)
AtLeast(h, t, rate) ==
    /\ h.interval # 0
    /\ IF t <= h.duration THEN h.interval <= rate * Width[h.traversed]
                          ELSE t <= rate * Width[h.sector]

(* The observer: granted is two revolutions of validity credit. *)
Reset == [ready |-> FALSE, granted |-> FALSE, invalid |-> 0]
SeedObserver(h, t) ==
    [ready |-> AtLeast(h, t, Ready), granted |-> TRUE, invalid |-> 0]

NeverRevoked(o) == o.invalid    \* mutated: the disagreement is not counted
InvalidCycles(o) == o.invalid + 1
UpdateValidity(o, corroborated) ==
    IF corroborated THEN [o EXCEPT !.invalid = 0]
    ELSE IF o.granted /\ InvalidCycles(o) < Revoke
         THEN [o EXCEPT !.invalid = InvalidCycles(o)]
         ELSE [Reset EXCEPT !.ready = o.ready]
Updated(o, corroborated, completes, gates) ==
    LET validity == UpdateValidity(o, corroborated)
        granted == validity.granted \/ (corroborated /\ completes)
    IN [ready |-> granted /\ gates, granted |-> granted, invalid |-> validity.invalid]

\* A count of zero starts again at any state, so its raw state is forgotten.
Forgotten == [raw |-> Invalid, cycles |-> 0]

(* What the live state has really done, whatever the estimator makes of it. *)
(* A stay begins on the side of the state that the rotor came from, or at   *)
(* the center where a command's start finds the rotor at rest; a repeated   *)
(* capture restarts the timer, not the stay.                                *)
AtCenter == Count + 1
NoCrossing == [halves |-> 0, time |-> 0, repeated |-> FALSE]
StayFrom(from, time) == [from |-> from, time |-> time, repeated |-> FALSE]
UnknownStay == StayFrom(Invalid, Horizon)
Neighbours(s) == IF s = Invalid THEN {} ELSE {NextRaw(s), PreviousRaw(s)}
Halves(s) ==
    IF s \notin Neighbours(rotor) THEN 0
    ELSE IF {stay.from, s} = Neighbours(rotor) THEN 2
    ELSE IF stay.from = AtCenter THEN 1 ELSE 0
Leave(s) ==
    IF s = rotor
    THEN stay' = [stay EXCEPT !.repeated = TRUE] /\ UNCHANGED crossing
    ELSE /\ stay' = IF s \in Neighbours(rotor) THEN StayFrom(rotor, 0) ELSE UnknownStay
         /\ crossing' = IF Halves(s) = 0 \/ pending # 0 THEN NoCrossing
                        ELSE [halves |-> Halves(s), time |-> stay.time,
                              repeated |-> stay.repeated]
Tick ==
    /\ age' = Upto(age + 1)
    /\ stay' = [stay EXCEPT !.time = Upto(stay.time + 1)]
-----------------------------------------------------------------------------
\* foc::start(): the live state seeds the sensor when it is a sector.
Init ==
    /\ rotor \in Raw /\ age = Horizon /\ pending = 0 /\ interval = 0
    /\ command = FALSE
    /\ hall = IF rotor = Invalid THEN Unseeded ELSE Seeded(rotor)
    /\ observer = Reset /\ seeding = FALSE
    /\ recovery = Forgotten
    /\ commandWas = FALSE /\ driving = FALSE /\ pc = "Idle"
    /\ blind = 0 /\ stay = UnknownStay /\ crossing = NoCrossing

\* The rotor, a sensor's noise and TIM2: an edge captures the live state.
Captured(s) ==
    /\ rotor' = s /\ interval' = age
    /\ pending' = IF pending = 0 THEN 1 ELSE 2
    /\ Leave(s)
Move ==
    /\ pc = "Idle"
    /\ \E s \in Raw : Captured(s)
    /\ age' = 0
    /\ UNCHANGED <<command, estimators, output, pc, blind>>

\* The foreground grants or withdraws the command.
Grant ==
    /\ pc = "Idle" /\ command' = ~command
    /\ UNCHANGED <<rotor, pending, interval, age, estimators, output, pc, blind, ghosts>>

Stop ==
    /\ driving' = FALSE /\ commandWas' = FALSE
    /\ pc' = "Idle" /\ blind' = 0

\* The captured edges.
NoEdge ==
    /\ pc = "Idle" /\ pending = 0 /\ pc' = "Start"
    /\ UNCHANGED <<sensed, age, estimators, output, blind, ghosts>>

AcceptAs(h) ==
    /\ hall' = h /\ crossing' = NoCrossing
    /\ pending' = 0 /\ interval' = 0 /\ recovery' = Forgotten
    /\ pc' = "Start"
    /\ UNCHANGED <<rotor, command, age, observer, seeding, output, blind, stay>>

AcceptEdge ==
    /\ pc = "Idle" /\ pending = 1 /\ ~Refused(hall, rotor, interval)
    /\ AcceptAs(UpdateEdge(hall, rotor, interval))
MayResynchronise == ~driving \/ HoldsSectorCenter(hall)
Resynchronise ==
    /\ pc = "Idle" /\ pending = 2 /\ MayResynchronise /\ rotor # Invalid
    /\ AcceptAs(Seeded(rotor))

RefuseEdge ==
    /\ pc = "Idle" /\ pending = 1 /\ Refused(hall, rotor, interval)
    /\ hall' = [hall EXCEPT !.valid = FALSE] /\ Stop /\ Tick
    /\ UNCHANGED <<sensed, observer, seeding, recovery, crossing>>
\* Only a resynchronisation that is tried and fails invalidates the sensor.
MissedEdges ==
    /\ pc = "Idle" /\ pending = 2
    /\ \/ MayResynchronise /\ rotor = Invalid /\ hall' = [hall EXCEPT !.valid = FALSE]
       \/ ~MayResynchronise /\ UNCHANGED hall
    /\ Stop /\ Tick
    /\ UNCHANGED <<sensed, observer, seeding, recovery, crossing>>

\* A command's start: a resting sensor's interval begins now, at its center.
Starts == command /\ ~commandWas
IsStationary(h) == h.interval = 0
NoStart ==
    /\ pc = "Start" /\ ~Starts
    /\ commandWas' = command /\ pc' = "Estimate"
    /\ UNCHANGED <<sensed, age, estimators, driving, blind, ghosts>>
StartMoving ==
    /\ pc = "Start" /\ Starts /\ ~IsStationary(hall)
    /\ seeding' = TRUE /\ commandWas' = TRUE /\ pc' = "Estimate"
    /\ UNCHANGED <<sensed, age, hall, observer, recovery, driving, blind, ghosts>>
StartAtRest ==
    /\ pc = "Start" /\ Starts /\ IsStationary(hall)
    /\ age' = 0 /\ hall' = [hall EXCEPT !.fromStart = TRUE]
    /\ stay' = StayFrom(AtCenter, 0)
    /\ seeding' = TRUE /\ commandWas' = TRUE /\ pc' = "Estimate"
    /\ UNCHANGED <<sensed, observer, recovery, driving, blind, crossing>>
\* The live state moves on before it is compared.
StationaryMismatch ==
    /\ pc = "Start" /\ Starts /\ IsStationary(hall)
    /\ \E s \in Raw : s # hall.sector /\ Captured(s)
    /\ age' = 0 /\ Stop
    /\ UNCHANGED <<command, estimators>>
-----------------------------------------------------------------------------
(* The selection.  h and t are the sensor and the age it is asked at.      *)

SeedNow(h, t) == seeding /\ HallEstimate(h, t)
EpochObserver(h, t) == IF SeedNow(h, t) THEN SeedObserver(h, t) ELSE observer
SeedKept(h, t) == seeding /\ ~SeedNow(h, t)

\* The estimate of HallToObserver, by what it leaves of the observer: Hall or
\* a blend with an observer that is kept, Hall over one more than a quarter
\* turn off, which it reseeds unless the observer has all the authority, or
\* the observer alone.
OnHall(h, t, o) == HallEstimate(h, t) /\ o = EpochObserver(h, t)
Reseeds(h, t, o) ==
    /\ HallEstimate(h, t) /\ ~SeedNow(h, t) /\ observer.ready
    /\ o = SeedObserver(h, t)
ObserverAlone(h, t, o) == ~HallEstimate(h, t) /\ observer.ready /\ o = observer

SelectEstimate(h, t) ==
    {o \in {observer, SeedObserver(h, t)} :
        OnHall(h, t, o) \/ Reseeds(h, t, o) \/ ObserverAlone(h, t, o)}
NoEstimate(h, t) == ~HallEstimate(h, t) /\ ~observer.ready

\* recover_stationary_hall() with the outputs off.
LiveAgrees == rotor # Invalid /\ rotor = recovery.raw
ForgetsProgress == 1    \* mutated: agreement is not counted up
StableCycles == recovery.cycles + 1
Recovers == ~driving /\ LiveAgrees /\ StableCycles >= Stable
RecoveryStep ==
    IF driving THEN recovery
    ELSE IF rotor = Invalid THEN Forgotten
    ELSE IF LiveAgrees THEN [recovery EXCEPT !.cycles = StableCycles]
    ELSE [raw |-> rotor, cycles |-> 1]

EstimateMissing ==
    /\ pc = "Estimate" /\ NoEstimate(hall, age) /\ ~Recovers
    /\ recovery' = RecoveryStep
    /\ Stop /\ Tick
    /\ UNCHANGED <<sensed, hall, observer, seeding, crossing>>

\* The rest of the cycle drives with the estimate, or stops: the command is
\* gone, a fault is latched, the driver or the output stage refuses.
StopAfter(o) == Stop /\ observer' = o
Drive(h, t, o) ==
    /\ command
    /\ \E corroborated, completes, gates \in BOOLEAN :
        /\ observer' = Updated(o, corroborated, completes, gates)
        /\ blind' = IF HallEstimate(h, t) \/ corroborated THEN 0 ELSE blind + 1
    /\ driving' = TRUE /\ pc' = "Idle"
    /\ UNCHANGED commandWas

Finish(h, t) ==
    /\ \E o \in SelectEstimate(h, t) : StopAfter(o) \/ Drive(h, t, o)
    /\ seeding' = SeedKept(h, t)
    /\ recovery' = Forgotten
    /\ hall' = h /\ Tick
    /\ UNCHANGED <<sensed, crossing>>

Estimate == pc = "Estimate" /\ Finish(hall, age)
RecoverStationaryHall ==
    /\ pc = "Estimate" /\ NoEstimate(hall, age) /\ Recovers
    /\ Finish(Seeded(rotor), 0)

Cycle ==
    \/ NoEdge \/ AcceptEdge \/ Resynchronise \/ RefuseEdge \/ MissedEdges
    \/ NoStart \/ StartMoving \/ StartAtRest \/ StationaryMismatch
    \/ EstimateMissing \/ Estimate \/ RecoverStationaryHall
Next == Move \/ Grant \/ Cycle

Spec == Init /\ [][Next]_vars /\ WF_vars(Cycle)
=============================================================================
