--------------------------- MODULE RecoveryProofs ---------------------------
(***************************************************************************)
(* The two components that must find back by themselves.  A drive without  *)
(* Hall and without a corroborating back-EMF ends, and a speed is only     *)
(* taken from a sector that was crossed and from the time that took, for   *)
(* every number and width of the sectors, every threshold and every        *)
(* revocation time.  An update installs nothing but the whole image, for   *)
(* every length of the image, every number of attempts and runs, and       *)
(* whatever is lost, late or interrupted, as long as the device does not   *)
(* fall far behind.                                                        *)
(***************************************************************************)
EXTENDS PhaseEstimationProperties, FlashTransferProperties, SequenceTheorems, TLAPS

-----------------------------------------------------------------------------
(* The blind drive: readiness without Hall lives on credit that every      *)
(* uncorroborated cycle uses up.                                           *)

BlindInv ==
    /\ observer \in [ready : BOOLEAN, granted : BOOLEAN, invalid : Nat]
    /\ blind \in Nat /\ blind <= Revoke
    /\ observer.invalid < Revoke
    /\ observer.ready => observer.granted /\ blind <= observer.invalid

LEMMA SelectedObserver ==
  ASSUME PhaseAssumption, BlindInv, NEW h, NEW t, NEW o \in SelectEstimate(h, t)
  PROVE  /\ o \in [ready : BOOLEAN, granted : BOOLEAN, invalid : Nat]
         /\ o.invalid < Revoke /\ (o.ready => o.granted)
         /\ ~HallEstimate(h, t) => o = observer /\ o.ready
<1>1. SeedObserver(h, t) \in [ready : BOOLEAN, granted : BOOLEAN, invalid : Nat]
  BY DEF SeedObserver, AtLeast
<1>2. SeedObserver(h, t).invalid = 0 /\ SeedObserver(h, t).granted
  BY DEF SeedObserver
<1>3. o \in {observer, SeedObserver(h, t)}  BY DEF SelectEstimate
<1>4. ~HallEstimate(h, t) => o = observer /\ o.ready
  BY DEF SelectEstimate, OnHall, Reseeds, ObserverAlone
<1> QED  BY <1>1, <1>2, <1>3, <1>4 DEF BlindInv, PhaseAssumption

\* A cycle without corroboration keeps the observer only while credit is left.
LEMMA UpdatedObserver ==
  ASSUME PhaseAssumption, NEW o \in [ready : BOOLEAN, granted : BOOLEAN, invalid : Nat],
         o.invalid < Revoke,
         NEW corroborated \in BOOLEAN, NEW completes \in BOOLEAN, NEW gates \in BOOLEAN
  PROVE  LET u == Updated(o, corroborated, completes, gates)
         IN  /\ u \in [ready : BOOLEAN, granted : BOOLEAN, invalid : Nat]
             /\ u.invalid < Revoke /\ (u.ready => u.granted)
             /\ ~corroborated /\ u.ready => u.invalid = o.invalid + 1
<1> DEFINE v == UpdateValidity(o, corroborated)
           u == Updated(o, corroborated, completes, gates)
<1>1. v \in [ready : BOOLEAN, granted : BOOLEAN, invalid : Nat] /\ v.invalid < Revoke
  <2>1. Reset \in [ready : BOOLEAN, granted : BOOLEAN, invalid : Nat] /\ Reset.invalid = 0
    BY DEF Reset
  <2> QED  BY <2>1 DEF UpdateValidity, InvalidCycles, PhaseAssumption
<1>2. ~corroborated /\ v.granted => v.invalid = o.invalid + 1
  <2>1. Reset.granted = FALSE  BY DEF Reset
  <2> QED  BY <2>1 DEF UpdateValidity, InvalidCycles
<1>3. /\ u.invalid = v.invalid /\ (u.ready => u.granted)
      /\ ~corroborated /\ u.granted => v.granted
      /\ u \in [ready : BOOLEAN, granted : BOOLEAN, invalid : Nat]
  BY <1>1 DEF Updated
<1> QED  BY <1>1, <1>2, <1>3

-----------------------------------------------------------------------------
LEMMA FinishKeepsBlind ==
  ASSUME PhaseAssumption, BlindInv, NEW h, NEW t, Finish(h, t)
  PROVE  BlindInv'
<1>1. PICK o \in SelectEstimate(h, t) : StopAfter(o) \/ Drive(h, t, o)  BY DEF Finish
<1>2. CASE StopAfter(o)
  BY <1>1, <1>2, SelectedObserver DEF StopAfter, Stop, BlindInv, PhaseAssumption
<1>3. CASE Drive(h, t, o)
  <2>1. PICK corroborated \in BOOLEAN, completes \in BOOLEAN, gates \in BOOLEAN :
          /\ observer' = Updated(o, corroborated, completes, gates)
          /\ blind' = IF HallEstimate(h, t) \/ corroborated THEN 0 ELSE blind + 1
    BY <1>3 DEF Drive
  <2>2. /\ observer' \in [ready : BOOLEAN, granted : BOOLEAN, invalid : Nat]
        /\ observer'.invalid < Revoke /\ (observer'.ready => observer'.granted)
        /\ ~corroborated /\ observer'.ready => observer'.invalid = o.invalid + 1
    BY <1>1, <2>1, SelectedObserver, UpdatedObserver
  <2>3. CASE HallEstimate(h, t) \/ corroborated
    BY <2>1, <2>2, <2>3 DEF BlindInv, PhaseAssumption
  <2>4. CASE ~HallEstimate(h, t) /\ ~corroborated
    <3>1. o = observer /\ blind <= observer.invalid  BY <1>1, <2>4, SelectedObserver DEF BlindInv
    <3>2. blind' = blind + 1  BY <2>1, <2>4
    <3> QED  BY <2>2, <2>4, <3>1, <3>2 DEF BlindInv, PhaseAssumption
  <2> QED  BY <2>3, <2>4
<1> QED  BY <1>1, <1>2, <1>3

LEMMA StepKeepsBlind == ASSUME PhaseAssumption, BlindInv, [Next]_vars PROVE BlindInv'
<1>1. CASE Estimate \/ RecoverStationaryHall
  BY <1>1, FinishKeepsBlind DEF Estimate, RecoverStationaryHall
<1>2. CASE UNCHANGED <<observer, blind>>
  BY <1>2 DEF BlindInv
<1>3. CASE UNCHANGED observer /\ blind' = 0
  BY <1>3 DEF BlindInv, PhaseAssumption
<1>4. CASE UNCHANGED vars
  BY <1>4 DEF vars, estimators, BlindInv
<1>5. CASE Move \/ Grant \/ NoEdge \/ AcceptEdge \/ Resynchronise
  BY <1>5, <1>2 DEF Move, Grant, NoEdge, AcceptEdge, Resynchronise, AcceptAs, estimators
<1>6. CASE NoStart \/ StartMoving \/ StartAtRest
  BY <1>6, <1>2 DEF NoStart, StartMoving, StartAtRest, estimators
<1>7. CASE RefuseEdge \/ MissedEdges \/ StationaryMismatch \/ EstimateMissing
  BY <1>7, <1>3 DEF RefuseEdge, MissedEdges, StationaryMismatch, EstimateMissing, Stop, estimators
<1> QED  BY <1>1, <1>4, <1>5, <1>6, <1>7 DEF Next, Cycle

\* For every revocation time and every pattern of losses, returns and reseeds
\* of Hall: no more than Revoke cycles are driven without Hall or the back-EMF.
THEOREM BlindDrivesEnd == ASSUME PhaseAssumption PROVE Spec => []BlindDriveEnds
<1>1. Init => BlindInv  BY DEF Init, Reset, BlindInv, PhaseAssumption
<1>2. BlindInv /\ [Next]_vars => BlindInv'  BY StepKeepsBlind
<1>3. BlindInv => BlindDriveEnds  BY DEF BlindInv, BlindDriveEnds
<1> QED  BY <1>1, <1>2, <1>3, PTL DEF Spec

-----------------------------------------------------------------------------
(* The speed: what the sensor remembers of its last edge is where the stay  *)
(* in its sector began, so that the next edge in the same direction ends a  *)
(* crossing; and the timer has counted that stay unless it was restarted.   *)

\* From this side of the sensor's sector, or its center, the rotor came.
Side ==
    /\ rotor = hall.sector
    /\ hall.fromStart => stay.from = AtCenter
    /\ ~hall.fromStart /\ hall.direction # 0 =>
           stay.from \in Neighbours(rotor) /\ Direction(stay.from, rotor) = hall.direction
\* The pending edge to a neighbour leaves the sensor's sector.
Left ==
    /\ stay.from = hall.sector
    /\ hall.fromStart => crossing.halves = 1
    /\ ~hall.fromStart /\ Direction(hall.sector, rotor) = hall.direction =>
           crossing.halves = 2

StayTimed == age <= stay.time /\ (stay.repeated \/ age = stay.time)
CrossingTimed == interval <= crossing.time /\ (crossing.repeated \/ interval = crossing.time)

SpeedTypes ==
    /\ rotor \in Raw /\ pending \in 0..2 /\ age \in Nat /\ interval \in Nat
    /\ hall = [valid |-> hall.valid, sector |-> hall.sector, direction |-> hall.direction,
               interval |-> hall.interval, traversed |-> hall.traversed,
               duration |-> hall.duration, fromStart |-> hall.fromStart]
    /\ hall.valid => hall.sector \in Sector
    /\ hall.fromStart => hall.interval = 0
    /\ stay \in [from : Raw \cup {AtCenter}, time : Nat, repeated : BOOLEAN]
    /\ crossing \in [halves : 0..2, time : Nat, repeated : BOOLEAN]
SpeedInv ==
    /\ SpeedTypes
    /\ pc # "Idle" => pending = 0
    /\ pending = 0 => crossing.halves = 0
    /\ stay.from # Invalid => StayTimed
    /\ pending = 1 /\ crossing.halves # 0 => CrossingTimed
    /\ hall.valid /\ (pending = 0 \/ (pending = 1 /\ rotor = hall.sector)) => Side
    /\ hall.valid /\ pending = 1 /\ rotor # hall.sector /\ rotor \in Neighbours(hall.sector) =>
           Left

\* The sectors form a ring.
LEMMA Ring ==
  ASSUME PhaseAssumption
  PROVE  /\ \A s \in Sector : /\ NextRaw(s) \in Sector /\ PreviousRaw(s) \in Sector
                              /\ PreviousRaw(NextRaw(s)) = s /\ NextRaw(PreviousRaw(s)) = s
         /\ Invalid \notin Sector /\ AtCenter \notin Sector /\ AtCenter # Invalid
<1>1. Count \in Nat /\ Count >= 3  BY DEF PhaseAssumption
<1>2. \A s \in Sector : /\ NextRaw(s) = IF s + 1 = Count THEN 0 ELSE s + 1
                        /\ PreviousRaw(s) = IF s = 0 THEN Count - 1 ELSE s - 1
  BY <1>1 DEF NextRaw, PreviousRaw, Sector
<1> QED  BY <1>1, <1>2 DEF Sector, Invalid, AtCenter

LEMMA NeighbourOf ==
  ASSUME PhaseAssumption, NEW r \in Raw, NEW s \in Neighbours(r)
  PROVE  r \in Sector /\ s \in Sector /\ r \in Neighbours(s) /\ s # Invalid
<1>1. r # Invalid /\ s \in {NextRaw(r), PreviousRaw(r)}  BY DEF Neighbours
<1>2. r \in Sector  BY <1>1 DEF Raw
<1>3. s \in Sector /\ s # Invalid  BY <1>1, <1>2, Ring
<1>4. r \in {NextRaw(s), PreviousRaw(s)}  BY <1>1, <1>2, Ring
<1> QED  BY <1>2, <1>3, <1>4 DEF Neighbours

\* Going on in the direction one came from is leaving on the other side.
LEMMA Opposite ==
  ASSUME PhaseAssumption, NEW r \in Sector, NEW a \in Neighbours(r), NEW s \in Neighbours(r),
         Direction(a, r) = Direction(r, s)
  PROVE  {a, s} = Neighbours(r)
<1>1. Neighbours(r) = {NextRaw(r), PreviousRaw(r)}  BY Ring DEF Neighbours
<1>2. a \in Sector  BY <1>1, Ring
<1>3. CASE s = PreviousRaw(r)
  <2>1. Direction(a, r) = -1  BY <1>3 DEF Direction
  <2>2. r = PreviousRaw(a)  BY <2>1 DEF Direction
  <2>3. a = NextRaw(r)  BY <1>2, <2>2, Ring
  <2> QED  BY <1>1, <1>3, <2>3
<1>4. CASE s # PreviousRaw(r)
  <2>1. s = NextRaw(r) /\ Direction(a, r) = 1  BY <1>1, <1>4 DEF Direction
  <2>2. r # PreviousRaw(a)  BY <2>1 DEF Direction
  <2>3. a # NextRaw(r)  BY <2>2, Ring
  <2> QED  BY <1>1, <2>1, <2>3
<1> QED  BY <1>3, <1>4

LEMMA DivisionRoundsDown ==
  ASSUME NEW n \in Nat, NEW d \in Nat, d > 0
  PROVE  /\ n \div d \in Nat /\ d * (n \div d) \in Nat
         /\ d * (n \div d) <= n /\ n < d * (n \div d) + d
<1> DEFINE k == n \div d
<1>1. k \in Nat /\ n % d \in 0..(d - 1) /\ n = d * k + (n % d)  OBVIOUS
<1> HIDE DEF k
<1>2. d * k \in Nat  BY <1>1, SMT
<1>3. d * k <= n /\ n < d * k + d  BY <1>1, <1>2
<1> QED  BY <1>1, <1>2, <1>3 DEF k

LEMMA ScalingGrows ==
  ASSUME PhaseAssumption, NEW s \in Sector, NEW t \in Nat, NEW u \in Nat, t <= u
  PROVE  LET Scaled(x) == ScaleInterval(x, Width[s], Width[s] \div 2)
         IN  Scaled(t) \in Nat /\ Scaled(t) <= Scaled(u)
<1> DEFINE w == Width[s]
           d == Width[s] \div 2
<1>1. w \in Nat /\ w > 1 /\ Horizon \in Nat  BY DEF PhaseAssumption
<1>2. d \in Nat /\ d > 0  BY <1>1
<1> HIDE DEF w, d
<1>3. t * w \in Nat /\ u * w \in Nat /\ t * w <= u * w
  <2>1. (u - t) * w >= 0 /\ u * w = (u - t) * w + t * w  BY <1>1, SMT
  <2>2. t * w \in Nat /\ u * w \in Nat /\ (u - t) * w \in Int  BY <1>1, SMT
  <2> QED  BY <2>1, <2>2
<1> DEFINE low == t * w
           high == u * w
           a == low \div d
           b == high \div d
<1>4. a \in Nat /\ b \in Nat /\ a <= b
  <2> HIDE DEF low, high
  <2>1. low \in Nat /\ high \in Nat /\ low <= high  BY <1>3 DEF low, high
  <2>3. /\ a \in Nat /\ b \in Nat /\ d * a \in Nat /\ d * b \in Nat
        /\ d * a <= low /\ high < d * b + d
    BY <1>2, <2>1, DivisionRoundsDown
  <2> HIDE DEF a, b
  <2>4. CASE b < a
    <3>1. d * (a - (b + 1)) >= 0 /\ d * a = d * (a - (b + 1)) + d * b + d
      BY <1>2, <2>3, <2>4, SMT
    <3>2. d * (a - (b + 1)) \in Int  BY <1>2, <2>3, SMT
    <3>3. d * b + d <= d * a  BY <1>2, <2>3, <3>1, <3>2
    <3> QED  BY <1>2, <2>1, <2>3, <3>3
  <2> QED  BY <2>3, <2>4
<1>5. ScaleInterval(t, Width[s], Width[s] \div 2) = Upto(a)
      /\ ScaleInterval(u, Width[s], Width[s] \div 2) = Upto(b)
  BY DEF ScaleInterval, w, d
<1> HIDE DEF a, b
<1> QED  BY <1>1, <1>4, <1>5 DEF Upto

-----------------------------------------------------------------------------
\* A capture: the first of them ends a stay whose side the sensor remembers.
LEMMA CaptureKeepsSpeed ==
  ASSUME PhaseAssumption, SpeedInv, NEW s \in Raw, Captured(s), age' = 0, pc' = "Idle",
         UNCHANGED hall
  PROVE  SpeedInv'
<1>1. /\ rotor' = s /\ interval' = age /\ pending' = IF pending = 0 THEN 1 ELSE 2
      /\ Leave(s)
  BY DEF Captured
<1>2. SpeedTypes  BY DEF SpeedInv
<1>3. /\ stay' \in [from : Raw \cup {AtCenter}, time : Nat, repeated : BOOLEAN]
      /\ crossing' \in [halves : 0..2, time : Nat, repeated : BOOLEAN]
  <2>1. Horizon \in Nat /\ Halves(s) \in 0..2  BY DEF PhaseAssumption, Halves
  <2>2. /\ rotor \in Raw /\ Invalid \in Raw
        /\ stay \in [from : Raw \cup {AtCenter}, time : Nat, repeated : BOOLEAN]
        /\ crossing \in [halves : 0..2, time : Nat, repeated : BOOLEAN]
    BY <1>2 DEF SpeedTypes, Raw
  <2>3. \/ stay' = [stay EXCEPT !.repeated = TRUE] \/ stay' = StayFrom(rotor, 0)
        \/ stay' = UnknownStay
    BY <1>1 DEF Leave
  <2>4. \/ crossing' = crossing \/ crossing' = NoCrossing
        \/ crossing' = [halves |-> Halves(s), time |-> stay.time, repeated |-> stay.repeated]
    BY <1>1 DEF Leave
  <2>5. stay' \in [from : Raw \cup {AtCenter}, time : Nat, repeated : BOOLEAN]
    <3>1. stay' = [stay EXCEPT !.repeated = TRUE] =>
              stay' \in [from : Raw \cup {AtCenter}, time : Nat, repeated : BOOLEAN]
      BY <2>2
    <3>2. StayFrom(rotor, 0) \in [from : Raw \cup {AtCenter}, time : Nat, repeated : BOOLEAN]
      BY <2>2 DEF StayFrom
    <3>3. UnknownStay \in [from : Raw \cup {AtCenter}, time : Nat, repeated : BOOLEAN]
      BY <2>1, <2>2 DEF UnknownStay, StayFrom
    <3> QED  BY <2>3, <3>1, <3>2, <3>3
  <2>6. crossing' \in [halves : 0..2, time : Nat, repeated : BOOLEAN]
    <3>1. stay.time \in Nat /\ stay.repeated \in BOOLEAN  BY <2>2
    <3>2. [halves |-> Halves(s), time |-> stay.time, repeated |-> stay.repeated]
              \in [halves : 0..2, time : Nat, repeated : BOOLEAN]
      BY <2>1, <3>1
    <3>3. NoCrossing \in [halves : 0..2, time : Nat, repeated : BOOLEAN]  BY DEF NoCrossing
    <3> QED  BY <2>2, <2>4, <3>2, <3>3
  <2> QED  BY <2>5, <2>6
<1>4. SpeedTypes'  BY <1>1, <1>2, <1>3 DEF SpeedTypes
<1>5. stay'.from # Invalid => StayTimed'
  <2>1. CASE s = rotor
    <3>1. stay' = [stay EXCEPT !.repeated = TRUE]  BY <1>1, <2>1 DEF Leave
    <3> QED  BY <1>2, <1>3, <3>1 DEF StayTimed, SpeedTypes
  <2>2. CASE s # rotor
    <3>1. stay' = StayFrom(rotor, 0) \/ stay' = UnknownStay  BY <1>1, <2>2 DEF Leave
    <3> QED  BY <3>1 DEF StayTimed, StayFrom, UnknownStay
  <2> QED  BY <2>1, <2>2
<1>6. pending = 0 /\ s # rotor => CrossingTimed' \/ crossing'.halves = 0
  <2> SUFFICES ASSUME pending = 0, s # rotor, Halves(s) # 0 PROVE CrossingTimed'
    BY <1>1 DEF Leave, NoCrossing
  <2>1. crossing' = [halves |-> Halves(s), time |-> stay.time, repeated |-> stay.repeated]
    BY <1>1 DEF Leave
  <2>2. s \in Neighbours(rotor)  BY DEF Halves
  <2>3. rotor \in Sector  BY <1>2, <2>2, NeighbourOf DEF SpeedTypes
  <2>4. stay.from \in Neighbours(rotor) \/ stay.from = AtCenter  BY DEF Halves
  <2>5. stay.from # Invalid  BY <1>2, <2>3, <2>4, Ring, NeighbourOf DEF SpeedTypes
  <2> QED  BY <1>1, <2>1, <2>5 DEF SpeedInv, StayTimed, CrossingTimed
<1>7. pending = 0 /\ s = rotor => crossing'.halves = 0
  BY <1>1 DEF Leave, SpeedInv
<1>8. hall.valid /\ pending = 0 /\ s = rotor => Side'
  <2> SUFFICES ASSUME hall.valid, pending = 0, s = rotor PROVE Side'
    OBVIOUS
  <2>1. stay'.from = stay.from  BY <1>1, <1>2 DEF Leave, SpeedTypes
  <2>2. Side  BY DEF SpeedInv
  <2> QED  BY <1>1, <2>1, <2>2 DEF Side
<1>9. hall.valid /\ pending = 0 /\ s # rotor /\ s \in Neighbours(rotor) => Left'
  <2> SUFFICES ASSUME hall.valid, pending = 0, s # rotor, s \in Neighbours(rotor) PROVE Left'
    OBVIOUS
  <2>1. Side /\ rotor = hall.sector /\ rotor \in Sector
    BY <1>2 DEF SpeedInv, Side, SpeedTypes
  <2>2. stay'.from = rotor  BY <1>1 DEF Leave, StayFrom
  <2>3. crossing'.halves = Halves(s)
    BY <1>1 DEF Leave, NoCrossing
  <2>4. hall.fromStart => Halves(s) = 1
    <3> SUFFICES ASSUME hall.fromStart PROVE Halves(s) = 1
      OBVIOUS
    <3>1. stay.from = AtCenter  BY <2>1 DEF Side
    <3>2. AtCenter \notin Neighbours(rotor)  BY <2>1, Ring, NeighbourOf DEF Raw
    <3> QED  BY <3>1, <3>2 DEF Halves
  <2>5. ~hall.fromStart /\ Direction(rotor, s) = hall.direction => Halves(s) = 2
    <3> SUFFICES ASSUME ~hall.fromStart, Direction(rotor, s) = hall.direction
                 PROVE  Halves(s) = 2
      OBVIOUS
    <3>1. hall.direction # 0  BY DEF Direction
    <3>2. stay.from \in Neighbours(rotor) /\ Direction(stay.from, rotor) = hall.direction
      BY <2>1, <3>1 DEF Side
    <3>3. {stay.from, s} = Neighbours(rotor)  BY <2>1, <3>2, Opposite
    <3> QED  BY <3>3 DEF Halves
  <2> QED  BY <1>1, <2>1, <2>2, <2>3, <2>4, <2>5 DEF Left
<1>10. hall.valid /\ pending = 0 => rotor = hall.sector
  BY DEF SpeedInv, Side
<1>11. pending' # 0 /\ (pending' = 1 => pending = 0)  BY <1>1
<1> QED
  BY <1>1, <1>4, <1>5, <1>6, <1>7, <1>8, <1>9, <1>10, <1>11 DEF SpeedInv

\* What the accepted edge leaves in the sensor.
LEMMA EdgeEnters ==
  ASSUME PhaseAssumption, SpeedInv, AcceptEdge, hall'.sector # hall.sector, hall.valid
  PROVE  /\ rotor \in Neighbours(hall.sector) /\ rotor # hall.sector /\ pending = 1
         /\ hall' = Enter(hall, rotor, interval)
<1>1. /\ pending = 1 /\ ~Refused(hall, rotor, interval)
      /\ hall' = UpdateEdge(hall, rotor, interval)
  BY DEF AcceptEdge, AcceptAs
<1>2. rotor # hall.sector  BY <1>1 DEF UpdateEdge
<1>3. hall.sector \in Sector /\ hall.sector # Invalid
  BY Ring DEF SpeedInv, SpeedTypes
<1> QED  BY <1>1, <1>2, <1>3 DEF UpdateEdge, Refused, Neighbours

LEMMA AcceptedKeepsSpeed ==
  ASSUME PhaseAssumption, SpeedInv, AcceptEdge \/ Resynchronise
  PROVE  SpeedInv'
<1>1. /\ crossing' = NoCrossing /\ pending' = 0 /\ interval' = 0
      /\ UNCHANGED <<rotor, age, stay>>
  BY DEF AcceptEdge, Resynchronise, AcceptAs
<1>2. SpeedTypes /\ (stay.from # Invalid => StayTimed)  BY DEF SpeedInv
<1>3. rotor \in Sector
  BY <1>2 DEF AcceptEdge, Resynchronise, Refused, SpeedTypes, Raw
<1>4. CASE hall' = Seeded(rotor)
  BY <1>1, <1>2, <1>3, <1>4
     DEF Seeded, Unmoved, SpeedInv, SpeedTypes, StayTimed, Side, NoCrossing
<1>5. CASE AcceptEdge /\ hall.valid /\ rotor = hall.sector
  <2>1. hall' = hall /\ pending = 1
    BY <1>5 DEF AcceptEdge, AcceptAs, UpdateEdge
  <2>2. Side  BY <1>5, <2>1 DEF SpeedInv
  <2>3. Side' /\ StayTimed' = StayTimed  BY <1>1, <2>1, <2>2 DEF Side, StayTimed
  <2>4. SpeedTypes'  BY <1>1, <1>2, <2>1 DEF SpeedTypes, NoCrossing
  <2> QED  BY <1>1, <1>2, <2>3, <2>4 DEF SpeedInv, NoCrossing
<1>6. CASE AcceptEdge /\ hall.valid /\ rotor # hall.sector
  <2>1. hall' = Enter(hall, rotor, interval)
    BY <1>6 DEF AcceptEdge, AcceptAs, UpdateEdge
  <2>2. /\ hall'.valid /\ hall'.sector = rotor /\ ~hall'.fromStart
        /\ hall'.direction = Direction(hall.sector, rotor)
    BY <2>1 DEF Enter
  <2>3. pending = 1 /\ rotor \in Neighbours(hall.sector)
    BY <1>6, <2>2, EdgeEnters
  <2>4. stay.from = hall.sector  BY <1>6, <2>3 DEF SpeedInv, Left
  <2>5. hall.sector \in Neighbours(rotor)
    BY <1>2, <1>6, <2>3, NeighbourOf DEF SpeedTypes, Raw
  <2>6. Side'  BY <1>1, <2>2, <2>4, <2>5 DEF Side
  <2>7. SpeedTypes'
    <3>1. hall' = [valid |-> hall'.valid, sector |-> hall'.sector,
                   direction |-> hall'.direction, interval |-> hall'.interval,
                   traversed |-> hall'.traversed, duration |-> hall'.duration,
                   fromStart |-> hall'.fromStart]
      BY <2>1 DEF Enter
    <3> QED  BY <1>1, <1>2, <1>3, <2>2, <3>1 DEF SpeedTypes, NoCrossing
  <2> QED  BY <1>1, <1>2, <2>6, <2>7 DEF SpeedInv, StayTimed, NoCrossing
<1> QED
  BY <1>4, <1>5, <1>6 DEF AcceptEdge, Resynchronise, AcceptAs, UpdateEdge

\* Time passes for the timer and for the stay alike.
LEMMA TickKeepsSpeed ==
  ASSUME PhaseAssumption, SpeedInv, Tick, pc' = "Idle",
         UNCHANGED <<rotor, pending, interval, crossing>>,
         \/ hall' = hall
         \/ hall' = [hall EXCEPT !.valid = FALSE]
         \/ hall' = Seeded(rotor) /\ rotor \in Sector /\ pending = 0
  PROVE  SpeedInv'
<1>1. /\ age' = Upto(age + 1) /\ stay' = [stay EXCEPT !.time = Upto(stay.time + 1)]
      /\ SpeedTypes /\ Horizon \in Nat
  BY DEF Tick, SpeedInv, PhaseAssumption
<1>2. /\ stay' \in [from : Raw \cup {AtCenter}, time : Nat, repeated : BOOLEAN]
      /\ age' \in Nat /\ stay'.from = stay.from /\ stay'.repeated = stay.repeated
      /\ stay'.time = Upto(stay.time + 1)
  BY <1>1 DEF SpeedTypes, Upto
<1>3. StayTimed => StayTimed'
  BY <1>1, <1>2 DEF StayTimed, SpeedTypes, Upto
<1>4. CrossingTimed' = CrossingTimed  BY DEF CrossingTimed
<1>5. CASE hall' = hall
  <2>1. Side' = Side /\ Left' = Left  BY <1>2, <1>5 DEF Side, Left
  <2>2. SpeedTypes'  BY <1>1, <1>2, <1>5 DEF SpeedTypes
  <2> QED  BY <1>2, <1>3, <1>4, <1>5, <2>1, <2>2 DEF SpeedInv
<1>6. CASE hall' = [hall EXCEPT !.valid = FALSE]
  <2>1. SpeedTypes' /\ ~hall'.valid  BY <1>1, <1>2, <1>6 DEF SpeedTypes
  <2> QED  BY <1>2, <1>3, <1>4, <2>1 DEF SpeedInv
<1>7. CASE hall' = Seeded(rotor) /\ rotor \in Sector /\ pending = 0
  <2>1. SpeedTypes' /\ Side'
    BY <1>1, <1>2, <1>7 DEF SpeedTypes, Side, Seeded, Unmoved
  <2> QED  BY <1>2, <1>3, <1>4, <1>7, <2>1 DEF SpeedInv
<1> QED  BY <1>5, <1>6, <1>7

LEMMA StepKeepsSpeed == ASSUME PhaseAssumption, SpeedInv, [Next]_vars PROVE SpeedInv'
<1>1. CASE Move
  BY <1>1, CaptureKeepsSpeed DEF Move, estimators
<1>2. CASE StationaryMismatch
  BY <1>2, CaptureKeepsSpeed DEF StationaryMismatch, Stop, estimators
<1>3. CASE AcceptEdge \/ Resynchronise
  BY <1>3, AcceptedKeepsSpeed
<1>4. CASE RefuseEdge \/ MissedEdges \/ EstimateMissing \/ Estimate
  BY <1>4, TickKeepsSpeed
     DEF RefuseEdge, MissedEdges, EstimateMissing, Estimate, Finish, Stop, StopAfter, Drive,
         sensed
<1>5. CASE RecoverStationaryHall
  <2>1. pc = "Estimate" /\ Recovers /\ Finish(Seeded(rotor), 0)
    BY <1>5 DEF RecoverStationaryHall
  <2>2. rotor \in Sector /\ pending = 0
    BY <2>1 DEF Recovers, LiveAgrees, SpeedInv, SpeedTypes, Raw
  <2> QED
    BY <2>1, <2>2, TickKeepsSpeed DEF Finish, Stop, StopAfter, Drive, sensed
<1>6. CASE StartAtRest
  <2>1. /\ pc = "Start" /\ hall.interval = 0 /\ age' = 0
        /\ hall' = [hall EXCEPT !.fromStart = TRUE]
        /\ stay' = StayFrom(AtCenter, 0) /\ UNCHANGED <<rotor, pending, interval, crossing>>
    BY <1>6 DEF StartAtRest, IsStationary, sensed
  <2>2. SpeedTypes /\ pending = 0 /\ crossing.halves = 0 /\ (hall.valid => Side)
    BY <2>1 DEF SpeedInv
  <2>3. /\ hall'.fromStart /\ hall'.interval = 0 /\ hall'.valid = hall.valid
        /\ hall'.sector = hall.sector
        /\ hall' = [valid |-> hall'.valid, sector |-> hall'.sector,
                    direction |-> hall'.direction, interval |-> hall'.interval,
                    traversed |-> hall'.traversed, duration |-> hall'.duration,
                    fromStart |-> hall'.fromStart]
    BY <2>1, <2>2 DEF SpeedTypes
  <2>4. SpeedTypes'  BY <2>1, <2>2, <2>3 DEF SpeedTypes, StayFrom
  <2>5. hall'.valid => Side'  BY <2>1, <2>2, <2>3 DEF Side, StayFrom
  <2>6. StayTimed'  BY <2>1 DEF StayTimed, StayFrom
  <2> QED  BY <2>1, <2>2, <2>4, <2>5, <2>6 DEF SpeedInv
<1>7. CASE \/ UNCHANGED <<rotor, pending, interval, age, hall, stay, crossing>>
              /\ (pc' # "Idle" => pending = 0)
  <2>1. /\ SpeedTypes' = SpeedTypes /\ Side' = Side /\ Left' = Left
        /\ StayTimed' = StayTimed /\ CrossingTimed' = CrossingTimed
    BY <1>7 DEF SpeedTypes, Side, Left, StayTimed, CrossingTimed
  <2> QED  BY <1>7, <2>1 DEF SpeedInv
<1>8. CASE Grant \/ NoEdge \/ NoStart \/ StartMoving
  BY <1>7, <1>8 DEF Grant, NoEdge, NoStart, StartMoving, SpeedInv, sensed, estimators, ghosts
<1>9. CASE UNCHANGED vars
  BY <1>7, <1>9 DEF vars, sensed, estimators, ghosts, SpeedInv
<1> QED  BY <1>1, <1>2, <1>3, <1>4, <1>5, <1>6, <1>8, <1>9 DEF Next, Cycle

\* A step to another sector with a speed ends a crossing that took as long.
LEMMA StepCrosses ==
  ASSUME PhaseAssumption, SpeedInv, Next, hall'.sector # hall.sector, hall'.interval # 0
  PROVE  /\ crossing.halves # 0 /\ hall'.traversed = hall.sector
         /\ hall'.interval <= CrossingTime
         /\ crossing.repeated \/ hall'.interval = CrossingTime
<1>1. SpeedTypes  BY DEF SpeedInv
<1>2. Seeded(rotor).interval = 0  BY DEF Seeded, Unmoved
<1>3. ~(Resynchronise \/ RecoverStationaryHall)
  BY <1>2 DEF Resynchronise, AcceptAs, RecoverStationaryHall, Finish
<1>4. [hall EXCEPT !.valid = FALSE].sector = hall.sector
      /\ [hall EXCEPT !.fromStart = TRUE].sector = hall.sector
  BY <1>1 DEF SpeedTypes
<1>5. ~(RefuseEdge \/ MissedEdges \/ StartAtRest)
  BY <1>4 DEF RefuseEdge, MissedEdges, StartAtRest
<1>6. AcceptEdge
  BY <1>3, <1>5
     DEF Next, Cycle, Move, Grant, NoEdge, NoStart, StartMoving, StationaryMismatch,
         EstimateMissing, Estimate, Finish, estimators
<1>7. hall.valid  BY <1>2, <1>6 DEF AcceptEdge, AcceptAs, UpdateEdge
<1>8. /\ rotor \in Neighbours(hall.sector) /\ rotor # hall.sector /\ pending = 1
      /\ hall' = Enter(hall, rotor, interval)
  BY <1>6, <1>7, EdgeEnters
<1>9. Left /\ hall.sector \in Sector /\ (crossing.halves # 0 => CrossingTimed)
  BY <1>7, <1>8 DEF SpeedInv, SpeedTypes
<1>10. /\ ~Turned(hall, rotor, interval)
       /\ hall'.interval = Measured(hall, rotor, interval)[1]
       /\ hall'.traversed = Measured(hall, rotor, interval)[2]
  <2>1. ~Turned(hall, rotor, interval)  BY <1>8 DEF Enter
  <2> QED  BY <1>8, <2>1 DEF Enter, Turned
<1>11. ~Carried(hall, rotor)  BY <1>1 DEF Carried, SpeedTypes
<1>12. CASE hall.fromStart
  <2>1. crossing.halves = 1  BY <1>9, <1>12 DEF Left
  <2>2. /\ hall'.interval = ScaleInterval(interval, Width[hall.sector], Width[hall.sector] \div 2)
        /\ hall'.traversed = hall.sector
    BY <1>10, <1>11, <1>12 DEF Measured
  <2>3. CrossingTime = ScaleInterval(crossing.time, Width[hall.sector], Width[hall.sector] \div 2)
    BY <2>1 DEF CrossingTime
  <2>4. CrossingTimed /\ interval \in Nat /\ crossing.time \in Nat
    BY <1>1, <1>9, <2>1 DEF SpeedTypes
  <2>5. hall'.interval <= CrossingTime
    BY <1>9, <2>2, <2>3, <2>4, ScalingGrows DEF CrossingTimed
  <2>6. crossing.repeated \/ hall'.interval = CrossingTime
    BY <2>2, <2>3, <2>4 DEF CrossingTimed
  <2> QED  BY <2>1, <2>2, <2>5, <2>6
<1>13. CASE ~hall.fromStart
  <2>1. hall.direction = Direction(hall.sector, rotor)  BY <1>10, <1>13 DEF Turned
  <2>2. crossing.halves = 2  BY <1>9, <1>13, <2>1 DEF Left
  <2>3. hall'.interval = interval /\ hall'.traversed = hall.sector
    BY <1>10, <1>11, <1>13 DEF Measured
  <2>4. CrossingTime = crossing.time  BY <2>2 DEF CrossingTime
  <2> QED  BY <1>9, <2>2, <2>3, <2>4 DEF CrossingTimed
<1> QED  BY <1>12, <1>13

\* For all sector widths, windows and thresholds: whatever noise, reversals and
\* starts come between two edges, a speed is that of a sector the live state has
\* crossed, in the time it took unless a repeated capture restarted the timer.
THEOREM SpeedsAreOfCrossings == ASSUME PhaseAssumption PROVE Spec => SpeedOfCrossing
<1> DEFINE Crosses ==
      hall'.sector # hall.sector /\ hall'.interval # 0 =>
          /\ crossing.halves # 0 /\ hall'.traversed = hall.sector
          /\ hall'.interval <= CrossingTime
          /\ crossing.repeated \/ hall'.interval = CrossingTime
<1>1. Init => SpeedInv
  <2> SUFFICES ASSUME Init PROVE SpeedInv  OBVIOUS
  <2>1. /\ rotor \in Raw /\ pending = 0 /\ interval = 0 /\ age = Horizon /\ Horizon \in Nat
        /\ stay = UnknownStay /\ crossing = NoCrossing /\ pc = "Idle"
        /\ hall = IF rotor = Invalid THEN Unseeded ELSE Seeded(rotor)
    BY DEF Init, PhaseAssumption
  <2>2. /\ stay \in [from : Raw \cup {AtCenter}, time : Nat, repeated : BOOLEAN]
        /\ crossing \in [halves : 0..2, time : Nat, repeated : BOOLEAN]
    BY <2>1 DEF UnknownStay, StayFrom, NoCrossing, Raw
  <2>3. rotor = Invalid => SpeedTypes /\ ~hall.valid
    BY <2>1, <2>2 DEF SpeedTypes, Unseeded, Unmoved
  <2>4. rotor # Invalid => SpeedTypes /\ Side
    BY <2>1, <2>2 DEF SpeedTypes, Side, Seeded, Unmoved, Raw
  <2>5. SpeedTypes /\ (hall.valid => Side)
    BY <2>3, <2>4
  <2> QED  BY <2>1, <2>5 DEF SpeedInv, UnknownStay, StayFrom, NoCrossing
<1>2. SpeedInv /\ [Next]_vars => SpeedInv'  BY StepKeepsSpeed
<1>3. SpeedInv /\ [Next]_vars => [Crosses]_vars
  <2> SUFFICES ASSUME SpeedInv, Next PROVE Crosses  OBVIOUS
  <2> QED  BY StepCrosses
<1>4. SpeedOfCrossing <=> [][Crosses]_vars  BY PTL DEF SpeedOfCrossing
<1> HIDE DEF Crosses
<1> QED  BY <1>1, <1>2, <1>3, <1>4, PTL DEF Spec

-----------------------------------------------------------------------------
(* The update: its types. *)

RequestKinds == {"Handshake", "Cancel", "Erase", "Begin", "ReadMarker", "Install"}
Requests == {f \in [kind : RequestKinds \cup {"Segment"}, n : 0..Segments] :
                f.kind = "Segment" <=> f.n # 0}
Replies == {f \in [kind : {"Handshake", "EraseAck", "BeginAck", "Abort", "SegmentAck", "Marker"},
                   n : 0..3] :
                f.n # 0 => f.kind \in {"SegmentAck", "Marker"}}
Steps == {"Enter", "Erase", "Begin", "Download", "Verify", "Install", "Done", "Failed"}

FlashTypeInv ==
    /\ FlashTypes
    /\ step \in Steps
    /\ requests \in Seq(Requests) /\ replies \in Seq(Replies)
    /\ installed \in Seq(Seq(1..Segments))
    /\ step = "Download" => number \in 1..Segments
    /\ step = "Verify" => number \in 1..Attempts

LEMMA RequestFrames ==
  ASSUME FlashAssumption
  PROVE  /\ \A k \in RequestKinds : Frame(k) \in Requests
         /\ \A k \in 1..Segments : Segment(k) \in Requests
         /\ \A f \in Requests : f.kind = "Segment" => f.n \in 1..Segments
         /\ \A f \in Requests : f.kind # "Segment" => f = Frame(f.kind)
<1>1. Segments \in Nat  OBVIOUS
<1>2. \A k \in RequestKinds : Frame(k) \in Requests
  BY <1>1 DEF Requests, RequestKinds, Frame
<1>3. \A k \in 1..Segments : Segment(k) \in Requests
  BY <1>1 DEF Requests, Segment
<1>4. \A f \in Requests : f.kind = "Segment" => f.n \in 1..Segments
  BY <1>1 DEF Requests
<1>5. \A f \in Requests : f.kind # "Segment" => f = Frame(f.kind)
  BY <1>1 DEF Requests, Frame
<1> QED  BY <1>2, <1>3, <1>4, <1>5

LEMMA ReplyFrames ==
  ASSUME FlashAssumption
  PROVE  /\ \A k \in {"Handshake", "EraseAck", "BeginAck", "Abort"} : Frame(k) \in Replies
         /\ \A k \in 1..Segments : SegmentAck(k) \in Replies
         /\ \A b \in BOOLEAN : Marker(b) \in Replies
         /\ Abort \in Replies
         /\ \A f \in Replies : f.kind \notin {"SegmentAck", "Marker"} => f = Frame(f.kind)
<1>1. \A k \in {"Handshake", "EraseAck", "BeginAck", "Abort"} : Frame(k) \in Replies
  BY DEF Replies, Frame
<1>2. \A k \in 1..Segments : SegmentAck(k) \in Replies
  <2> SUFFICES ASSUME NEW k \in 1..Segments PROVE SegmentAck(k) \in Replies
    OBVIOUS
  <2>1. Toggle(k) \in 0..1  BY DEF Toggle
  <2> QED  BY <2>1 DEF Replies, SegmentAck
<1>3. \A b \in BOOLEAN : Marker(b) \in Replies
  BY DEF Replies, Marker
<1>4. Abort \in Replies  BY <1>1 DEF Abort
<1>5. \A f \in Replies : f.kind \notin {"SegmentAck", "Marker"} => f = Frame(f.kind)
  BY DEF Replies, Frame
<1> QED  BY <1>1, <1>2, <1>3, <1>4, <1>5

LEMMA Repeated ==
  ASSUME NEW S, NEW f \in S
  PROVE  /\ <<f>> \in Seq(S) /\ <<f, f>> \in Seq(S)
         /\ <<f, f>> = <<f>> \o <<f>> /\ <<f, f, f>> = <<f, f>> \o <<f>>
<1>1. <<f>> \in Seq(S)
  <2>1. <<f>> = [i \in 1..1 |-> f]  OBVIOUS
  <2> QED  BY <2>1
<1>2. <<f, f>> \in Seq(S)
  <2>1. <<f, f>> = [i \in 1..2 |-> f]  OBVIOUS
  <2> QED  BY <2>1
<1>3. <<f, f, f>> \in Seq(S)
  <2>1. <<f, f, f>> = [i \in 1..3 |-> f]  OBVIOUS
  <2> QED  BY <2>1
<1>4. Append(<<f>>, f) = <<f, f>>
  <2>1. Len(<<f>>) = 1 /\ <<f>>[1] = f  OBVIOUS
  <2>2. /\ Append(<<f>>, f) \in Seq(S) /\ Len(Append(<<f>>, f)) = 2
        /\ Append(<<f>>, f)[1] = f /\ Append(<<f>>, f)[2] = f
    BY <1>1, <2>1, AppendProperties
  <2>3. Len(<<f, f>>) = 2 /\ <<f, f>>[1] = f /\ <<f, f>>[2] = f  OBVIOUS
  <2>4. \A i \in 1..2 : Append(<<f>>, f)[i] = <<f, f>>[i]  BY <2>2, <2>3
  <2> QED  BY <1>2, <2>2, <2>3, <2>4, SeqEqual
<1>5. Append(<<f, f>>, f) = <<f, f, f>>
  <2>1. Len(<<f, f>>) = 2 /\ <<f, f>>[1] = f /\ <<f, f>>[2] = f  OBVIOUS
  <2>2. /\ Append(<<f, f>>, f) \in Seq(S) /\ Len(Append(<<f, f>>, f)) = 3
        /\ Append(<<f, f>>, f)[1] = f /\ Append(<<f, f>>, f)[2] = f
        /\ Append(<<f, f>>, f)[3] = f
    BY <1>2, <2>1, AppendProperties
  <2>3. /\ Len(<<f, f, f>>) = 3 /\ <<f, f, f>>[1] = f /\ <<f, f, f>>[2] = f
        /\ <<f, f, f>>[3] = f
    OBVIOUS
  <2>4. \A i \in 1..3 : Append(<<f, f>>, f)[i] = <<f, f, f>>[i]  BY <2>2, <2>3
  <2> QED  BY <1>2, <1>3, <2>2, <2>3, <2>4, SeqEqual
<1>6. <<f, f>> = <<f>> \o <<f>>  BY <1>1, <1>4, AppendIsConcat
<1>7. <<f, f, f>> = <<f, f>> \o <<f>>  BY <1>2, <1>5, AppendIsConcat
<1> QED  BY <1>1, <1>2, <1>6, <1>7
\* Sending one frame appends it; cancelling appends three.
LEMMA Sending ==
  ASSUME NEW S, NEW q \in Seq(S), NEW f \in S
  PROVE  /\ q \o <<f>> = Append(q, f)
         /\ q \o <<f, f, f>> = Append(Append(Append(q, f), f), f)
         /\ q \o <<>> = q
         /\ Append(q, f) \in Seq(S)
<1>1. /\ q \o <<f>> = Append(q, f) /\ Append(q, f) \in Seq(S)
  BY AppendIsConcat, AppendProperties
<1>2. <<f>> \in Seq(S) /\ <<f, f>> \in Seq(S)  BY Repeated
<1>3. q \o <<f, f, f>> = Append(Append(Append(q, f), f), f)
  <2>1. (q \o <<f, f>>) \o <<f>> = q \o (<<f, f>> \o <<f>>)  BY <1>2, ConcatAssociative
  <2>2. (q \o <<f>>) \o <<f>> = q \o (<<f>> \o <<f>>)  BY <1>2, ConcatAssociative
  <2>3. q \o <<f, f, f>> = (q \o <<f, f>>) \o <<f>>  BY <2>1, Repeated
  <2>4. q \o <<f, f>> = (q \o <<f>>) \o <<f>>  BY <2>2, Repeated
  <2>5. q \o <<f, f>> \in Seq(S)  BY <1>2, ConcatProperties
  <2>6. q \o <<f, f>> = Append(Append(q, f), f)  BY <1>1, <2>4, AppendIsConcat
  <2> QED  BY <2>3, <2>5, <2>6, AppendIsConcat
<1>4. q \o <<>> = q  BY ConcatEmptySeq
<1> QED  BY <1>1, <1>3, <1>4

LEMMA QueueTail ==
  ASSUME NEW S, NEW q \in Seq(S), q # <<>>
  PROVE  /\ Head(q) \in S /\ Head(q) = q[1] /\ Len(q) \in Nat /\ Len(q) > 0
         /\ Tail(q) \in Seq(S) /\ Len(Tail(q)) = Len(q) - 1
         /\ \A i \in 1..Len(Tail(q)) : Tail(q)[i] = q[i + 1] /\ i + 1 \in 1..Len(q)
<1>1. Len(q) \in Nat /\ Len(q) > 0  OBVIOUS
<1>2. Head(q) = q[1]  OBVIOUS
<1> QED  BY <1>1, <1>2, HeadTailProperties

-----------------------------------------------------------------------------
\* What the end of run() sends is nothing, or three cancellations.
LEMMA Failing ==
  ASSUME FlashAssumption, FlashTypeInv, NEW ambiguous, Fail(ambiguous)
  PROVE  /\ requests' \in Seq(Requests)
         /\ step' = "Failed" /\ number' = number /\ active' = FALSE /\ runs' = runs
         /\ LET c == Frame("Cancel")
            IN  requests' \in {requests, Append(Append(Append(requests, c), c), c)}
<1> DEFINE c == Frame("Cancel")
<1>1. c \in Requests  BY RequestFrames DEF RequestKinds
<1>2. requests' \in {requests \o <<>>, requests \o <<c, c, c>>}
  BY DEF Fail, Send, CancelTransfer
<1>3. requests' \in {requests, Append(Append(Append(requests, c), c), c)}
  BY <1>1, <1>2, Sending
<1>4. Append(Append(Append(requests, c), c), c) \in Seq(Requests)
  <2>1. \A q \in Seq(Requests) : Append(q, c) \in Seq(Requests)  BY <1>1, AppendProperties
  <2> QED  BY <2>1 DEF FlashTypeInv
<1>5. requests' \in Seq(Requests)  BY <1>3, <1>4 DEF FlashTypeInv
<1> QED  BY <1>3, <1>5 DEF Fail, Goto

LEMMA DeviceTypes ==
  ASSUME FlashAssumption, FlashTypeInv, Device
  PROVE  FlashTypeInv'
<1> DEFINE f == Head(requests)
<1>1. f \in Requests /\ requests' \in Seq(Requests)
  BY QueueTail DEF Device, FlashTypeInv
<1>2. UNCHANGED <<host, faults>>  BY DEF Device
<1>3. Segments \in Nat /\ NoSession = Segments + 1  BY DEF NoSession
<1> USE DEF FlashTypeInv, FlashTypes, device
<1>4. CASE InApplication(f)
  BY <1>1, <1>2, <1>4 DEF InApplication, host, Silent
<1>5. CASE session # NoSession /\ InSession(f)
  <2>1. CASE f.kind = "Handshake" /\ Answer(f) /\ UNCHANGED device
    <3>1. f \in Replies  BY <1>1, <2>1, RequestFrames, ReplyFrames
    <3>2. replies' \in Seq(Replies)  BY <2>1, <3>1, Sending DEF Answer
    <3> QED  BY <1>1, <1>2, <2>1, <3>2 DEF host
  <2>2. CASE f.kind = "Cancel" /\ session' = NoSession
             /\ Silent /\ UNCHANGED <<mode, staged, marker, installed>>
    BY <1>1, <1>2, <1>3, <2>2 DEF host, Silent
  <2>3. CASE f.kind \notin {"Handshake", "Cancel"}
    <3>1. PICK fits \in BOOLEAN :
             /\ fits => f.kind = "Segment"
             /\ session' = IF fits /\ ~Final(f.n) THEN session + 1 ELSE NoSession
             /\ staged' = IF fits THEN Append(staged, f.n) ELSE staged
             /\ marker' = (marker \/ (fits /\ Final(f.n)))
             /\ Answer(IF fits THEN SegmentAck(f.n) ELSE Abort)
             /\ UNCHANGED <<mode, installed>>
      BY <1>5, <2>3 DEF InSession
    <3>2. fits => f.n \in 1..Segments  BY <1>1, <3>1, RequestFrames
    <3>3. session' \in 0..NoSession  BY <1>3, <1>5, <3>1
    <3>4. staged' \in Seq(1..Segments)  BY <3>1, <3>2, Sending
    <3>5. replies' \in Seq(Replies)  BY <3>1, <3>2, ReplyFrames, Sending DEF Answer
    <3>6. marker' \in BOOLEAN  BY <3>1
    <3> QED  BY <1>1, <1>2, <3>1, <3>3, <3>4, <3>5, <3>6 DEF host
  <2> QED  BY <1>5, <2>1, <2>2, <2>3 DEF InSession
<1>6. CASE OutOfSession(f)
  <2>1. \A k \in {"EraseAck", "BeginAck"} : Answer(Frame(k)) => replies' \in Seq(Replies)
    BY ReplyFrames, Sending DEF Answer
  <2>2. Answer(Abort) => replies' \in Seq(Replies)
    BY ReplyFrames, Sending DEF Answer
  <2>3. Answer(Marker(marker)) => replies' \in Seq(Replies)
    <3>1. Marker(marker) \in Replies  BY ReplyFrames
    <3> QED  BY <3>1, Sending DEF Answer
  <2>4. f.kind = "Handshake" /\ Answer(f) => replies' \in Seq(Replies)
    <3>1. f.kind = "Handshake" => f \in Replies  BY <1>1, RequestFrames, ReplyFrames
    <3> QED  BY <3>1, Sending DEF Answer
  <2>5. replies' \in Seq(Replies)
    BY <1>6, <2>1, <2>2, <2>3, <2>4 DEF OutOfSession, Silent
  <2>6. Append(installed, staged) \in Seq(Seq(1..Segments))  BY Sending
  <2>7. /\ mode' \in {"Application", "Bootloader"} /\ session' \in 0..NoSession
        /\ staged' \in Seq(1..Segments) /\ marker' \in BOOLEAN
        /\ installed' \in Seq(Seq(1..Segments))
    <3>1. <<>> \in Seq(1..Segments) /\ 0 \in 0..NoSession  BY <1>3
    <3> QED  BY <1>6, <2>6, <3>1 DEF OutOfSession
  <2> QED  BY <1>1, <1>2, <2>5, <2>7 DEF host
<1> QED  BY <1>4, <1>5, <1>6 DEF Device

\* Every frame is of its kind, and the step's number in the range of the step.
THEOREM FlashTypesInductive == ASSUME FlashAssumption PROVE FlashSpec => []FlashTypeInv
<1>1. FlashInit => FlashTypeInv
  <2> SUFFICES ASSUME FlashInit PROVE FlashTypeInv
    OBVIOUS
  <2>1. Frame("Cancel") \in Requests  BY RequestFrames DEF RequestKinds
  <2>2. requests \in Seq(Requests) /\ replies \in Seq(Replies)  BY <2>1 DEF FlashInit
  <2>3. staged \in Seq(1..Segments) /\ installed \in Seq(Seq(1..Segments))  BY DEF FlashInit
  <2>4. 0 \in 0..(Segments + Attempts) /\ 0 \in 0..Faults /\ 1 \in 1..Runs
    OBVIOUS
  <2>5. NoSession \in 0..NoSession  BY DEF NoSession
  <2>6. FlashTypes  BY <2>3, <2>4, <2>5 DEF FlashInit, FlashTypes
  <2> QED  BY <2>2, <2>3, <2>6 DEF FlashInit, FlashTypeInv, Steps
<1>2. FlashTypeInv /\ [FlashNext]_flashVars => FlashTypeInv'
  <2> SUFFICES ASSUME FlashTypeInv, [FlashNext]_flashVars PROVE FlashTypeInv'
    OBVIOUS
  <2>1. CASE Device  BY <2>1, DeviceTypes
  <2>2. ASSUME ~Device, FlashNext PROVE UNCHANGED device
    BY <2>2 DEF FlashNext, LoseRequest, LoseReply, Script, SendHandshake, Ignore, AbortReceived,
                WrongMarker, Entered, Erased, Begun, NextSegment, Downloaded, Verified, Answers,
                Ambiguous, Retry, Unanswered, Interrupt, Rerun, Receive
  <2>3. ASSUME ~Device, FlashNext PROVE faults' \in 0..Faults /\ runs' \in 1..Runs
    <3>1. faults' = faults \/ Fault
      BY <2>3 DEF FlashNext, LoseRequest, LoseReply, Script, SendHandshake, Ignore, AbortReceived,
                  WrongMarker, Entered, Erased, Begun, NextSegment, Downloaded, Verified, Answers,
                  Ambiguous, Retry, Unanswered, Interrupt, Rerun, Receive, Quiet
    <3>2. runs' = runs \/ (runs < Runs /\ runs' = runs + 1)
      BY <2>3 DEF FlashNext, LoseRequest, LoseReply, Script, SendHandshake, Ignore, AbortReceived,
                  WrongMarker, Entered, Erased, Begun, NextSegment, Downloaded, Verified, Answers,
                  Ambiguous, Retry, Unanswered, Interrupt, Rerun, Receive, Fail, host
    <3>3. Runs \in Nat /\ Faults \in Nat  OBVIOUS
    <3>4. faults \in 0..Faults /\ runs \in 1..Runs  BY DEF FlashTypeInv, FlashTypes
    <3>5. faults' \in 0..Faults  BY <3>1, <3>3, <3>4 DEF Fault
    <3>6. runs' \in 1..Runs  BY <3>2, <3>3, <3>4
    <3> QED  BY <3>5, <3>6
  <2>4. ASSUME ~Device, FlashNext
        PROVE  /\ replies' \in Seq(Replies) /\ requests' \in Seq(Requests)
               /\ step' \in Steps /\ active' \in BOOLEAN /\ number' \in 0..(Segments + Attempts)
               /\ step' = "Download" => number' \in 1..Segments
               /\ step' = "Verify" => number' \in 1..Attempts
    <3> USE <2>4
    <3>1. CASE LoseRequest
      BY <3>1, QueueTail DEF LoseRequest, FlashTypeInv, FlashTypes, host
    <3>2. CASE LoseReply
      BY <3>2, QueueTail DEF LoseReply, FlashTypeInv, FlashTypes, host
    <3>3. ASSUME NEW k \in RequestKinds, Send(<<Frame(k)>>) PROVE requests' \in Seq(Requests)
      BY <3>3, RequestFrames, Sending DEF Send, FlashTypeInv
    <3>4. ASSUME NEW k \in 1..Segments, Send(<<Segment(k)>>) PROVE requests' \in Seq(Requests)
      BY <3>4, RequestFrames, Sending DEF Send, FlashTypeInv
    <3>5. ASSUME NEW a, Fail(a),
                 replies' = replies \/ (replies # <<>> /\ replies' = Tail(replies))
          PROVE  /\ replies' \in Seq(Replies) /\ requests' \in Seq(Requests)
                 /\ step' = "Failed" /\ active' \in BOOLEAN
                 /\ number' \in 0..(Segments + Attempts)
      <4>1. replies' \in Seq(Replies)  BY <3>5, QueueTail DEF FlashTypeInv
      <4>2. requests' \in Seq(Requests) /\ step' = "Failed" /\ active' = FALSE /\ number' = number
        BY <3>5, Failing
      <4> QED  BY <4>1, <4>2 DEF FlashTypeInv, FlashTypes
    <3>6. ASSUME replies # <<>>, replies' = Tail(replies) PROVE replies' \in Seq(Replies)
      BY <3>6, QueueTail DEF FlashTypeInv
    <3>7. Segments \in Nat /\ Attempts \in Nat /\ Segments > 0 /\ Attempts > 0
      OBVIOUS
    <3>8. CASE SendHandshake
      <4>1. requests' \in Seq(Requests)  BY <3>8, <3>3 DEF SendHandshake, RequestKinds
      <4> QED  BY <3>8, <4>1 DEF SendHandshake, FlashTypeInv, FlashTypes, host
    <3>9. CASE Ignore
      BY <3>9, <3>6 DEF Ignore, FlashTypeInv, FlashTypes, host
    <3>10. CASE AbortReceived \/ WrongMarker
      BY <3>10, <3>5 DEF AbortReceived, WrongMarker, Steps
    <3>11. CASE Ambiguous \/ Unanswered \/ Interrupt
      BY <3>11, <3>5 DEF Ambiguous, Unanswered, Interrupt, Steps
    <3>12. CASE Entered
      <4>1. requests' \in Seq(Requests)  BY <3>12, <3>3 DEF Entered, RequestKinds
      <4> QED  BY <3>12, <3>6, <4>1
               DEF Entered, Receive, Goto, Steps, FlashTypeInv, FlashTypes
    <3>13. CASE Erased
      <4>1. requests' \in Seq(Requests)  BY <3>13, <3>3 DEF Erased, RequestKinds
      <4> QED  BY <3>13, <3>6, <4>1
               DEF Erased, Receive, Goto, Steps, FlashTypeInv, FlashTypes
    <3>14. CASE Begun
      <4>1. FirstSegment \in 1..Segments  BY <3>7 DEF FirstSegment
      <4>2. requests' \in Seq(Requests)  BY <3>14, <3>4, <4>1 DEF Begun
      <4> QED  BY <3>14, <3>6, <3>7, <4>1, <4>2 DEF Begun, Receive, Goto, Steps
    <3>15. CASE NextSegment
      <4>1. number + 1 \in 1..Segments
        BY <3>15, <3>7 DEF NextSegment, Receive, Final, FlashTypeInv
      <4>2. requests' \in Seq(Requests)  BY <3>15, <3>4, <4>1 DEF NextSegment
      <4> QED  BY <3>15, <3>6, <3>7, <4>1, <4>2
                  DEF NextSegment, Receive, Goto, FlashTypeInv, FlashTypes
    <3>16. CASE Downloaded
      <4>1. requests' \in Seq(Requests)  BY <3>16, <3>3 DEF Downloaded, RequestKinds
      <4>2. /\ step' = "Verify" /\ number' = 1 /\ active' = FALSE
            /\ replies # <<>> /\ replies' = Tail(replies)
        BY <3>16 DEF Downloaded, Receive, Goto
      <4>3. 1 \in 1..Attempts /\ 1 \in 0..(Segments + Attempts)  BY <3>7
      <4> QED  BY <3>6, <4>1, <4>2, <4>3 DEF Steps
    <3>17. CASE Verified
      <4>1. requests' \in Seq(Requests)  BY <3>17, <3>3 DEF Verified, RequestKinds
      <4> QED  BY <3>17, <3>6, <4>1
               DEF Verified, Receive, Goto, Steps, FlashTypeInv, FlashTypes
    <3>18. CASE Answers
      <4>1. <<>> \in Seq(Replies)  OBVIOUS
      <4> QED  BY <3>18, <4>1 DEF Answers, Goto, Steps, FlashTypeInv, FlashTypes
    <3>19. CASE Retry
      <4>1. requests' \in Seq(Requests)  BY <3>19, <3>3 DEF Retry, RequestKinds
      <4> QED  BY <3>19, <3>7, <4>1 DEF Retry, Goto, FlashTypeInv, FlashTypes
    <3>20. CASE Rerun
      <4>1. requests' \in Seq(Requests)  BY <3>20, <3>3 DEF Rerun, EnterCancels, RequestKinds
      <4>2. <<>> \in Seq(Replies)  OBVIOUS
      <4> QED  BY <3>20, <4>1, <4>2 DEF Rerun, Goto, Steps, FlashTypeInv, FlashTypes
    <3> QED  BY <3>1, <3>2, <3>8, <3>9, <3>10, <3>11, <3>12, <3>13, <3>14, <3>15, <3>16, <3>17,
                <3>18, <3>19, <3>20 DEF FlashNext, Script
  <2>5. CASE FlashNext /\ ~Device
    BY <2>2, <2>3, <2>4, <2>5 DEF FlashTypeInv, FlashTypes, device
  <2>6. CASE UNCHANGED flashVars
    BY <2>6 DEF flashVars, host, device, FlashTypeInv, FlashTypes
  <2> QED  BY <2>1, <2>5, <2>6
<1> QED  BY <1>1, <1>2, PTL DEF FlashSpec

-----------------------------------------------------------------------------
(* The order of the frames.  While the host enters, what an earlier run    *)
(* left is still on its way; once a handshake was read, nothing of it is.  *)

Kinds(q, S) == \A i \in 1..Len(q) : q[i].kind \in S
Ahead == {"Handshake", "Cancel", "Erase"}
NoHandshake == (RequestKinds \cup {"Segment"}) \ {"Handshake"}
\* Behind a handshake only the start of a run is queued, and two handshakes
\* belong to one run.
Ordered(q) ==
    /\ \A i, j \in 1..Len(q) : i < j /\ q[i].kind = "Handshake" => q[j].kind \in Ahead
    /\ \A i, j, k \in 1..Len(q) :
          i < j /\ j < k /\ q[i].kind = "Handshake" /\ q[k].kind = "Handshake"
             => q[j].kind # "Erase"
EraseLast(q) ==
    \A i, j \in 1..Len(q) : i < j /\ q[j].kind = "Handshake" => q[i].kind # "Erase"
\* A segment on its way is the next frame, and the one the device waits for.
SegmentFits(q, held, stored) ==
    \A i \in 1..Len(q) : q[i].kind = "Segment" =>
        i = 1 /\ q[1].n \in 1..Segments /\ q[1].n = held + 1 /\ Len(stored) = held

LEMMA TailKeeps ==
  ASSUME FlashAssumption, NEW q \in Seq(Requests), q # <<>>, NEW held, NEW stored
  PROVE  /\ \A S : Kinds(q, S) => Kinds(Tail(q), S)
         /\ Ordered(q) => Ordered(Tail(q))
         /\ EraseLast(q) => EraseLast(Tail(q))
         /\ SegmentFits(q, held, stored) => Kinds(Tail(q), RequestKinds)
         /\ Ordered(q) /\ Head(q).kind = "Handshake" =>
               Kinds(Tail(q), Ahead) /\ EraseLast(Tail(q))
         /\ EraseLast(q) /\ Head(q).kind = "Erase" => Kinds(Tail(q), NoHandshake)
<1> DEFINE t == Tail(q)
<1>1. /\ Head(q) = q[1] /\ Len(q) \in Nat /\ Len(q) > 0 /\ Len(t) = Len(q) - 1
      /\ \A i \in 1..Len(t) : t[i] = q[i + 1] /\ i + 1 \in 1..Len(q) /\ i \in Nat /\ i > 0
  BY QueueTail
<1>2. \A i \in 1..Len(t) : t[i].kind \in RequestKinds \cup {"Segment"}
  BY QueueTail DEF Requests
<1> HIDE DEF t
<1>3. \A S : Kinds(q, S) => Kinds(t, S)  BY <1>1 DEF Kinds
<1>4. ASSUME Ordered(q) PROVE Ordered(t)
  <2>1. ASSUME NEW i \in 1..Len(t), NEW j \in 1..Len(t), i < j, t[i].kind = "Handshake"
        PROVE  t[j].kind \in Ahead
    <3>1. i + 1 \in 1..Len(q) /\ j + 1 \in 1..Len(q) /\ i + 1 < j + 1  BY <1>1, <2>1
    <3>2. q[i + 1] = t[i] /\ q[j + 1] = t[j]  BY <1>1
    <3> QED  BY <1>4, <2>1, <3>1, <3>2 DEF Ordered
  <2>2. ASSUME NEW i \in 1..Len(t), NEW j \in 1..Len(t), NEW k \in 1..Len(t), i < j, j < k,
               t[i].kind = "Handshake", t[k].kind = "Handshake"
        PROVE  t[j].kind # "Erase"
    <3>1. /\ i + 1 \in 1..Len(q) /\ j + 1 \in 1..Len(q) /\ k + 1 \in 1..Len(q)
          /\ i + 1 < j + 1 /\ j + 1 < k + 1
      BY <1>1, <2>2
    <3>2. q[i + 1] = t[i] /\ q[j + 1] = t[j] /\ q[k + 1] = t[k]  BY <1>1
    <3> QED  BY <1>4, <2>2, <3>1, <3>2 DEF Ordered
  <2> QED  BY <2>1, <2>2 DEF Ordered
<1>5. ASSUME EraseLast(q) PROVE EraseLast(t)
  <2> SUFFICES ASSUME NEW i \in 1..Len(t), NEW j \in 1..Len(t), i < j, t[j].kind = "Handshake"
               PROVE  t[i].kind # "Erase"
    BY DEF EraseLast
  <2>1. i + 1 \in 1..Len(q) /\ j + 1 \in 1..Len(q) /\ i + 1 < j + 1  BY <1>1
  <2>2. q[i + 1] = t[i] /\ q[j + 1] = t[j]  BY <1>1
  <2> QED  BY <1>5, <2>1, <2>2 DEF EraseLast
<1>6. ASSUME SegmentFits(q, held, stored) PROVE Kinds(t, RequestKinds)
  <2>1. ASSUME NEW i \in 1..Len(t), t[i].kind = "Segment" PROVE FALSE
    <3>1. i + 1 \in 1..Len(q) /\ i + 1 # 1 /\ q[i + 1] = t[i]  BY <1>1
    <3> QED  BY <1>6, <2>1, <3>1 DEF SegmentFits
  <2> QED  BY <1>2, <2>1 DEF Kinds
<1>7. ASSUME Ordered(q), Head(q).kind = "Handshake" PROVE Kinds(t, Ahead) /\ EraseLast(t)
  <2>1. ASSUME NEW i \in 1..Len(t) PROVE t[i].kind \in Ahead
    <3>1. 1 \in 1..Len(q) /\ i + 1 \in 1..Len(q) /\ 1 < i + 1 /\ q[i + 1] = t[i]
      BY <1>1
    <3>2. q[1].kind = "Handshake"  BY <1>1, <1>7
    <3> QED  BY <1>7, <3>1, <3>2 DEF Ordered
  <2>2. ASSUME NEW i \in 1..Len(t), NEW j \in 1..Len(t), i < j, t[j].kind = "Handshake"
        PROVE  t[i].kind # "Erase"
    <3>1. /\ 1 \in 1..Len(q) /\ i + 1 \in 1..Len(q) /\ j + 1 \in 1..Len(q)
          /\ 1 < i + 1 /\ i + 1 < j + 1
      BY <1>1, <2>2
    <3>2. q[i + 1] = t[i] /\ q[j + 1] = t[j] /\ q[1].kind = "Handshake"  BY <1>1, <1>7
    <3> QED  BY <1>7, <2>2, <3>1, <3>2 DEF Ordered
  <2> QED  BY <2>1, <2>2 DEF Kinds, EraseLast
<1>8. ASSUME EraseLast(q), Head(q).kind = "Erase" PROVE Kinds(t, NoHandshake)
  <2>1. ASSUME NEW i \in 1..Len(t) PROVE t[i].kind # "Handshake"
    <3>1. 1 \in 1..Len(q) /\ i + 1 \in 1..Len(q) /\ 1 < i + 1 /\ q[i + 1] = t[i]
      BY <1>1
    <3>2. q[1].kind = "Erase"  BY <1>1, <1>8
    <3> QED  BY <1>8, <3>1, <3>2 DEF EraseLast
  <2> QED  BY <1>2, <2>1 DEF Kinds, NoHandshake
<1> QED  BY <1>3, <1>4, <1>5, <1>6, <1>7, <1>8 DEF t

LEMMA AppendKeeps ==
  ASSUME FlashAssumption, NEW q \in Seq(Requests), NEW f \in Requests, NEW held, NEW stored
  PROVE  /\ \A S : Kinds(q, S) /\ f.kind \in S => Kinds(Append(q, f), S)
         /\ Ordered(q) /\ f.kind \in {"Cancel", "Erase"} => Ordered(Append(q, f))
         /\ Kinds(q, NoHandshake) => Ordered(Append(q, f))
         /\ EraseLast(q) /\ f.kind # "Handshake" => EraseLast(Append(q, f))
         /\ SegmentFits(q, held, stored) /\ f.kind # "Segment" =>
               SegmentFits(Append(q, f), held, stored)
<1> DEFINE t == Append(q, f)
<1>1. /\ Len(q) \in Nat /\ Len(t) = Len(q) + 1 /\ t[Len(q) + 1] = f
      /\ \A i \in 1..Len(q) : t[i] = q[i]
  BY AppendProperties
<1>2. \A i \in 1..Len(t) : i \in 1..Len(q) \/ i = Len(q) + 1  BY <1>1
<1> HIDE DEF t
<1>3. \A S : Kinds(q, S) /\ f.kind \in S => Kinds(t, S)  BY <1>1, <1>2 DEF Kinds
<1>4. ASSUME Ordered(q), f.kind \in {"Cancel", "Erase"} PROVE Ordered(t)
  <2>1. ASSUME NEW i \in 1..Len(t), NEW j \in 1..Len(t), i < j, t[i].kind = "Handshake"
        PROVE  t[j].kind \in Ahead
    BY <1>1, <1>2, <1>4, <2>1 DEF Ordered, Ahead
  <2>2. ASSUME NEW i \in 1..Len(t), NEW j \in 1..Len(t), NEW k \in 1..Len(t), i < j, j < k,
               t[i].kind = "Handshake", t[k].kind = "Handshake"
        PROVE  t[j].kind # "Erase"
    <3>1. i \in 1..Len(q) /\ j \in 1..Len(q) /\ k \in 1..Len(q)
      BY <1>1, <1>2, <1>4, <2>2
    <3> QED  BY <1>1, <1>4, <2>2, <3>1 DEF Ordered
  <2> QED  BY <2>1, <2>2 DEF Ordered
<1>5. ASSUME Kinds(q, NoHandshake) PROVE Ordered(t)
  <2>1. \A i \in 1..Len(q) : t[i].kind # "Handshake"  BY <1>1, <1>5 DEF Kinds, NoHandshake
  <2>2. \A i, j \in 1..Len(t) : i < j => t[i].kind # "Handshake"  BY <1>1, <1>2, <2>1
  <2> QED  BY <1>1, <2>2 DEF Ordered
<1>6. ASSUME EraseLast(q), f.kind # "Handshake" PROVE EraseLast(t)
  <2>1. ASSUME NEW i \in 1..Len(t), NEW j \in 1..Len(t), i < j, t[j].kind = "Handshake"
        PROVE  t[i].kind # "Erase"
    <3>1. i \in 1..Len(q) /\ j \in 1..Len(q)  BY <1>1, <1>2, <1>6, <2>1
    <3> QED  BY <1>1, <1>6, <2>1, <3>1 DEF EraseLast
  <2> QED  BY <2>1 DEF EraseLast
<1>7. ASSUME SegmentFits(q, held, stored), f.kind # "Segment"
      PROVE  SegmentFits(t, held, stored)
  <2>1. ASSUME NEW i \in 1..Len(t), t[i].kind = "Segment"
        PROVE  /\ i = 1 /\ t[1].n \in 1..Segments /\ t[1].n = held + 1 /\ Len(stored) = held
    <3>1. i \in 1..Len(q)  BY <1>1, <1>2, <1>7, <2>1
    <3>2. t[i] = q[i]  BY <1>1, <3>1
    <3> QED  BY <1>7, <2>1, <3>1, <3>2 DEF SegmentFits
  <2> QED  BY <2>1 DEF SegmentFits
<1> QED  BY <1>3, <1>4, <1>5, <1>6, <1>7 DEF t

\* A queued erasure still waits behind the handshake that led to it.
EraseWaits(q) ==
    \E i, j \in 1..Len(q) : i < j /\ q[i].kind = "Handshake" /\ q[j].kind = "Erase"

LEMMA HandshakeKeepsOrder ==
  ASSUME NEW q \in Seq(Requests), NEW f \in Requests, f.kind = "Handshake", Ordered(q),
         ~EraseWaits(q)
  PROVE  Ordered(Append(q, f))
<1> DEFINE t == Append(q, f)
<1>1. /\ Len(q) \in Nat /\ Len(t) = Len(q) + 1 /\ t[Len(q) + 1] = f
      /\ \A i \in 1..Len(q) : t[i] = q[i]
  BY AppendProperties
<1>2. \A i \in 1..Len(t) : i \in 1..Len(q) \/ i = Len(q) + 1  BY <1>1
<1> HIDE DEF t
<1>3. ASSUME NEW i \in 1..Len(t), NEW j \in 1..Len(t), i < j, t[i].kind = "Handshake"
      PROVE  t[j].kind \in Ahead
  BY <1>1, <1>2, <1>3 DEF Ordered, Ahead
<1>4. ASSUME NEW i \in 1..Len(t), NEW j \in 1..Len(t), NEW k \in 1..Len(t), i < j, j < k,
             t[i].kind = "Handshake", t[k].kind = "Handshake"
      PROVE  t[j].kind # "Erase"
  <2>1. i \in 1..Len(q) /\ j \in 1..Len(q)  BY <1>1, <1>4
  <2>2. q[i] = t[i] /\ q[j] = t[j]  BY <1>1, <2>1
  <2> QED  BY <1>4, <2>1, <2>2 DEF EraseWaits
<1> QED  BY <1>3, <1>4 DEF Ordered, t

\* Of two frames, the second is no erasure while the host enters.
LEMMA FewWait ==
  ASSUME NEW q \in Seq(Requests), Len(q) < 3,
         q # <<>> => q[Len(q)].kind \in {"Cancel", "Handshake"}
  PROVE  ~EraseWaits(q)
<1> SUFFICES ASSUME NEW i \in 1..Len(q), NEW j \in 1..Len(q), i < j, q[j].kind = "Erase"
             PROVE  FALSE
  BY DEF EraseWaits
<1>1. Len(q) \in Nat /\ (q # <<>> <=> Len(q) # 0)  BY EmptySeq
<1>2. \A a, b, c \in Nat : 1 <= a /\ a < b /\ b <= c /\ c < 3 => b = c
  OBVIOUS
<1>3. j = Len(q)  BY <1>1, <1>2
<1> QED  BY <1>1, <1>3

-----------------------------------------------------------------------------
(* What the frames on their way mean at each step of the script. *)

\* The device has read a handshake of this run.
Leading(at, p) ==
    at = "Erase" \/ (at = "Enter" /\ \E i \in 1..Len(p) : p[i].kind = "Handshake")
LeadInv == Leading(step, replies) => Kinds(requests, Ahead) /\ EraseLast(requests)

\* The reply at place i answers a frame of this run, or an Erase before it.
Follows(at, p, i) ==
    at = "Erase" \/ (at = "Enter" /\ \E h \in 1..Len(p) : h < i /\ p[h].kind = "Handshake")
Behind == {"Handshake", "EraseAck", "Abort"}
ReplyInv ==
    \A i \in 1..Len(replies) : Follows(step, replies, i) =>
        /\ replies[i].kind \in Behind
        /\ replies[i].kind = "EraseAck" =>
               Kinds(requests, Ahead) /\ Kinds(requests, NoHandshake) /\ staged = <<>>

BeginInv ==
    step = "Begin" =>
        /\ staged = <<>>
        /\ \A i \in 1..Len(requests) :
              requests[i].kind \in IF i = Len(requests) THEN {"Begin"} ELSE {"Cancel", "Erase"}
        /\ \A i \in 1..Len(replies) :
              \/ replies[i].kind \in Behind
              \/ i = Len(replies) /\ requests = <<>> /\ session = 0

Sent == /\ requests = <<Segment(number)>> /\ replies = <<>>
        /\ session = number - 1 /\ Len(staged) = session
Missed == requests = <<>> /\ replies \in {<<>>, <<Abort>>}
Stored == /\ requests = <<>> /\ replies = <<SegmentAck(number)>> /\ Len(staged) = number
          /\ session = IF Final(number) THEN NoSession ELSE number
DownInv == step = "Download" => Sent \/ Missed \/ Stored

LateInv == step \in {"Verify", "Install"} => Kinds(requests, {"ReadMarker", "Install"})
EnterInv ==
    step = "Enter" /\ requests # <<>> => requests[Len(requests)].kind \in {"Cancel", "Handshake"}

\* What the script goes by, and what the device holds.
HostInv == LeadInv /\ ReplyInv /\ BeginInv /\ DownInv /\ LateInv /\ EnterInv
StageInv ==
    /\ \A i \in 1..Len(staged) : staged[i] = i
    /\ Len(staged) <= Segments
    /\ marker => Len(staged) = Segments
    /\ InstallIsWhole

FlashInv ==
    /\ FlashTypeInv
    /\ Ordered(requests) /\ SegmentFits(requests, session, staged)
    /\ HostInv /\ StageInv

-----------------------------------------------------------------------------
(* The device. *)

\* What reading a frame comes to when a queued segment is the awaited one.
Greets(f) ==
    /\ f.kind = "Handshake" /\ replies' = Append(replies, Frame("Handshake"))
    /\ UNCHANGED <<session, staged, marker, installed>>
Passes ==
    /\ replies' = replies /\ session' \in {session, NoSession}
    /\ UNCHANGED <<staged, marker, installed>>
Aborts(f) ==
    /\ f.kind \in {"Erase", "Begin", "ReadMarker", "Install"}
    /\ replies' = Append(replies, Abort) /\ session' = NoSession
    /\ UNCHANGED <<staged, marker, installed>>
Erases(f) ==
    /\ f.kind = "Erase" /\ replies' = Append(replies, Frame("EraseAck"))
    /\ staged' = <<>> /\ marker' = FALSE /\ UNCHANGED <<session, installed>>
Begins(f) ==
    /\ f.kind = "Begin" /\ replies' = Append(replies, Frame("BeginAck"))
    /\ session' = 0 /\ UNCHANGED <<staged, marker, installed>>
Stores(f) ==
    /\ f.kind = "Segment" /\ replies' = Append(replies, SegmentAck(f.n))
    /\ f.n = session + 1 /\ f.n \in 1..Segments /\ Len(staged) = session
    /\ session' = (IF Final(f.n) THEN NoSession ELSE f.n)
    /\ staged' = Append(staged, f.n) /\ marker' = (marker \/ Final(f.n))
    /\ UNCHANGED installed
Reports(f) ==
    /\ f.kind = "ReadMarker" /\ replies' = Append(replies, Marker(marker))
    /\ UNCHANGED <<session, staged, marker, installed>>
Installs(f) ==
    /\ f.kind = "Install" /\ replies' = replies /\ marker' = FALSE
    /\ installed' = (IF marker THEN Append(installed, staged) ELSE installed)
    /\ UNCHANGED <<session, staged>>
Read(f) ==
    \/ Greets(f) \/ Passes \/ Aborts(f) \/ Erases(f) \/ Begins(f)
    \/ Stores(f) \/ Reports(f) \/ Installs(f)

\* A frame leaves the queue, read or lost.
Takes ==
    /\ requests # <<>> /\ requests' = Tail(requests) /\ UNCHANGED <<step, number>>
    /\ Head(requests) \in Requests /\ Read(Head(requests))

LEMMA LossTakes ==
  ASSUME FlashInv, LoseRequest
  PROVE  Takes
<1>1. Head(requests) \in Requests  BY QueueTail DEF LoseRequest, FlashInv, FlashTypeInv
<1>2. Passes  BY DEF LoseRequest, device, Passes
<1> QED  BY <1>1, <1>2 DEF LoseRequest, host, Takes, Read

LEMMA DeviceTakes ==
  ASSUME FlashAssumption, FlashInv, Device
  PROVE  Takes
<1> DEFINE f == Head(requests)
<1>1. /\ requests # <<>> /\ requests' = Tail(requests) /\ UNCHANGED <<step, number>>
      /\ requests \in Seq(Requests) /\ SegmentFits(requests, session, staged)
      /\ session \in 0..NoSession
  BY DEF Device, host, FlashInv, FlashTypeInv, FlashTypes
<1>2. f \in Requests /\ f = requests[1] /\ 1 \in 1..Len(requests)  BY <1>1, QueueTail
<1>3. f.kind = "Segment" => f.n \in 1..Segments /\ f.n = session + 1 /\ Len(staged) = session
  BY <1>2, <1>1 DEF SegmentFits
<1>4. f.kind # "Segment" => f = Frame(f.kind)  BY <1>2, RequestFrames
<1>5. f.kind \in RequestKinds \cup {"Segment"}  BY <1>2 DEF Requests
<1> SUFFICES Read(f)
  BY <1>1, <1>2 DEF Takes
<1> HIDE DEF f
<1>6. CASE InApplication(f)
  <2>1. Passes  BY <1>6 DEF InApplication, Silent, Passes
  <2> QED  BY <2>1 DEF Read
<1>7. CASE session # NoSession /\ InSession(f)
  <2>1. CASE f.kind = "Handshake" /\ Answer(f) /\ UNCHANGED device
    <3>1. Greets(f)  BY <1>4, <2>1 DEF Answer, Greets, device
    <3> QED  BY <3>1 DEF Read
  <2>2. CASE f.kind = "Cancel" /\ session' = NoSession
             /\ Silent /\ UNCHANGED <<mode, staged, marker, installed>>
    <3>1. Passes  BY <2>2 DEF Silent, Passes
    <3> QED  BY <3>1 DEF Read
  <2>3. CASE f.kind \notin {"Handshake", "Cancel"}
    <3> DEFINE fits == /\ f.kind = "Segment" /\ Toggle(f.n) = Toggle(session + 1)
                       /\ Len(staged) = session
    <3>1. /\ session' = IF fits /\ ~Final(f.n) THEN session + 1 ELSE NoSession
          /\ staged' = IF fits THEN Append(staged, f.n) ELSE staged
          /\ marker' = (marker \/ (fits /\ Final(f.n)))
          /\ Answer(IF fits THEN SegmentAck(f.n) ELSE Abort)
          /\ UNCHANGED <<mode, installed>>
      BY <1>7, <2>3 DEF InSession
    <3>2. fits <=> f.kind = "Segment"  BY <1>3
    <3>3. CASE f.kind = "Segment"
      <4>1. fits  BY <3>2, <3>3
      <4> HIDE DEF fits
      <4>2. Stores(f)  BY <1>3, <3>1, <3>3, <4>1 DEF Answer, Stores
      <4> QED  BY <4>2 DEF Read
    <3>4. CASE f.kind # "Segment"
      <4>1. f.kind \in {"Erase", "Begin", "ReadMarker", "Install"}
        BY <1>5, <2>3, <3>4 DEF RequestKinds
      <4>2. ~fits  BY <3>4
      <4> HIDE DEF fits
      <4>3. marker' = marker  BY <3>1, <4>2 DEF FlashInv, FlashTypeInv, FlashTypes
      <4>4. Aborts(f)  BY <3>1, <4>1, <4>2, <4>3 DEF Answer, Aborts
      <4> QED  BY <4>4 DEF Read
    <3> QED  BY <3>3, <3>4
  <2> QED  BY <1>7, <2>1, <2>2, <2>3 DEF InSession
<1>8. CASE session = NoSession /\ OutOfSession(f)
  <2>1. f.kind # "Segment"
    BY <1>1, <1>3, <1>8 DEF NoSession
  <2>2. CASE f.kind = "Cancel" /\ Silent /\ UNCHANGED device
    BY <2>2 DEF Silent, Passes, Read, device
  <2>3. CASE f.kind = "Handshake" /\ Answer(f) /\ UNCHANGED device
    BY <1>4, <2>3 DEF Answer, Greets, Read, device
  <2>4. CASE /\ f.kind = "Erase" /\ Answer(Frame("EraseAck"))
             /\ staged' = <<>> /\ marker' = FALSE /\ UNCHANGED <<mode, session, installed>>
    BY <2>4 DEF Answer, Erases, Read
  <2>5. CASE /\ f.kind = "Begin" /\ Answer(Frame("BeginAck"))
             /\ session' = 0 /\ UNCHANGED <<mode, staged, marker, installed>>
    BY <2>5 DEF Answer, Begins, Read
  <2>6. CASE f.kind = "ReadMarker" /\ Answer(Marker(marker)) /\ UNCHANGED device
    BY <2>6 DEF Answer, Reports, Read, device
  <2>7. CASE /\ f.kind = "Install" /\ Silent
             /\ mode' = "Application" /\ marker' = FALSE
             /\ installed' = IF marker THEN Append(installed, staged) ELSE installed
             /\ UNCHANGED <<session, staged>>
    BY <2>7 DEF Silent, Installs, Read
  <2> QED  BY <1>8, <2>1, <2>2, <2>3, <2>4, <2>5, <2>6, <2>7 DEF OutOfSession
<1> QED  BY <1>6, <1>7, <1>8 DEF Device, f

\* A device that has read a handshake of this run reads what the run sends.
LEMMA TakingLeads ==
  ASSUME FlashAssumption, FlashInv, Takes
  PROVE  LeadInv' /\ ReplyInv'
<1> DEFINE f == Head(requests)
           r == replies'[Len(replies) + 1]
<1>1. /\ requests # <<>> /\ requests' = Tail(requests) /\ step' = step
      /\ f \in Requests /\ Read(f)
  BY DEF Takes
<1>2. requests \in Seq(Requests) /\ replies \in Seq(Replies) /\ Ordered(requests) /\ LeadInv
      /\ ReplyInv
  BY DEF FlashInv, FlashTypeInv, HostInv
<1>3. \/ replies' = replies
      \/ \E e \in Replies :
            /\ replies' = Append(replies, e)
            /\ e.kind = "Handshake" <=> f.kind = "Handshake"
            /\ f.kind \in {"Erase", "Cancel"} => e.kind \in {"EraseAck", "Abort"}
            /\ e.kind = "EraseAck" => f.kind = "Erase" /\ staged' = <<>>
  <2>1. CASE Greets(f)
    <3>1. Frame("Handshake") \in Replies /\ Frame("Handshake").kind = "Handshake"
      BY ReplyFrames DEF Frame
    <3> QED  BY <2>1, <3>1 DEF Greets
  <2>2. CASE Passes \/ Installs(f)
    BY <2>2 DEF Passes, Installs
  <2>3. CASE Aborts(f)
    <3>1. Abort \in Replies /\ Abort.kind = "Abort"
      BY ReplyFrames DEF Frame, Abort
    <3> QED  BY <2>3, <3>1 DEF Aborts
  <2>4. CASE Erases(f)
    <3>1. Frame("EraseAck") \in Replies /\ Frame("EraseAck").kind = "EraseAck"
      BY ReplyFrames DEF Frame
    <3> QED  BY <2>4, <3>1 DEF Erases
  <2>5. CASE Begins(f)
    <3>1. Frame("BeginAck") \in Replies /\ Frame("BeginAck").kind = "BeginAck"
      BY ReplyFrames DEF Frame
    <3> QED  BY <2>5, <3>1 DEF Begins
  <2>6. CASE Stores(f)
    <3>1. SegmentAck(f.n) \in Replies /\ SegmentAck(f.n).kind = "SegmentAck"
      BY <2>6, ReplyFrames DEF SegmentAck, Stores
    <3> QED  BY <2>6, <3>1 DEF Stores
  <2>7. CASE Reports(f)
    <3>1. marker \in BOOLEAN  BY DEF FlashInv, FlashTypeInv, FlashTypes
    <3>2. Marker(marker) \in Replies /\ Marker(marker).kind = "Marker"
      BY <3>1, ReplyFrames DEF Marker
    <3> QED  BY <2>7, <3>2 DEF Reports
  <2> QED  BY <1>1, <2>1, <2>2, <2>3, <2>4, <2>5, <2>6, <2>7 DEF Read
<1>4. /\ \A S : Kinds(requests, S) => Kinds(requests', S)
      /\ EraseLast(requests) => EraseLast(requests')
      /\ f.kind = "Handshake" => Kinds(requests', Ahead) /\ EraseLast(requests')
      /\ EraseLast(requests) /\ f.kind = "Erase" => Kinds(requests', NoHandshake)
  BY <1>1, <1>2, TailKeeps
<1>5. f = requests[1] /\ 1 \in 1..Len(requests)  BY <1>1, <1>2, QueueTail
<1>6. Kinds(requests, Ahead) => f.kind \in Ahead  BY <1>5 DEF Kinds
<1>7. Kinds(requests, Ahead) => staged' \in {staged, <<>>}
  BY <1>1, <1>6 DEF Ahead, Read, Greets, Passes, Aborts, Erases, Begins, Stores, Reports, Installs
<1> HIDE DEF f
<1>8. CASE replies' = replies
  <2>1. LeadInv'
    BY <1>1, <1>2, <1>4, <1>8 DEF LeadInv
  <2>2. ASSUME NEW i \in 1..Len(replies), Follows(step, replies, i)
        PROVE  /\ replies[i].kind \in Behind
               /\ replies[i].kind = "EraseAck" =>
                     /\ Kinds(requests', Ahead) /\ Kinds(requests', NoHandshake)
                     /\ staged' = <<>>
    BY <1>2, <1>4, <1>7, <2>2 DEF ReplyInv
  <2> QED  BY <1>1, <1>8, <2>1, <2>2 DEF ReplyInv
<1>9. CASE \E e \in Replies :
              /\ replies' = Append(replies, e)
              /\ e.kind = "Handshake" <=> f.kind = "Handshake"
              /\ f.kind \in {"Erase", "Cancel"} => e.kind \in {"EraseAck", "Abort"}
              /\ e.kind = "EraseAck" => f.kind = "Erase" /\ staged' = <<>>
  <2>1. PICK e \in Replies :
              /\ replies' = Append(replies, e)
              /\ e.kind = "Handshake" <=> f.kind = "Handshake"
              /\ f.kind \in {"Erase", "Cancel"} => e.kind \in {"EraseAck", "Abort"}
              /\ e.kind = "EraseAck" => f.kind = "Erase" /\ staged' = <<>>
    BY <1>9
  <2>2. /\ Len(replies) \in Nat /\ Len(replies') = Len(replies) + 1
        /\ replies'[Len(replies) + 1] = e
        /\ \A i \in 1..Len(replies) : replies'[i] = replies[i]
    BY <1>2, <2>1, AppendProperties
  <2>3. \A i \in 1..Len(replies') : i \in 1..Len(replies) \/ i = Len(replies) + 1  BY <2>2
  <2>4. Leading(step, replies') => Leading(step, replies) \/ f.kind = "Handshake"
    BY <2>1, <2>2, <2>3 DEF Leading
  <2>5. LeadInv'
    BY <1>1, <1>2, <1>4, <2>4 DEF LeadInv
  <2>6. ASSUME NEW i \in 1..Len(replies), Follows(step, replies', i)
        PROVE  Follows(step, replies, i)
    BY <2>2, <2>3, <2>6 DEF Follows
  <2>7. ASSUME NEW i \in 1..Len(replies), Follows(step, replies, i)
        PROVE  /\ replies[i].kind \in Behind
               /\ replies[i].kind = "EraseAck" =>
                     /\ Kinds(requests', Ahead) /\ Kinds(requests', NoHandshake)
                     /\ staged' = <<>>
    BY <1>2, <1>4, <1>7, <2>7 DEF ReplyInv
  <2>8. ASSUME Follows(step, replies', Len(replies) + 1)
        PROVE  /\ e.kind \in Behind
               /\ e.kind = "EraseAck" =>
                     /\ Kinds(requests', Ahead) /\ Kinds(requests', NoHandshake)
                     /\ staged' = <<>>
    <3>1. Leading(step, replies)  BY <2>2, <2>3, <2>8 DEF Follows, Leading
    <3>2. Kinds(requests, Ahead) /\ EraseLast(requests)  BY <1>2, <3>1 DEF LeadInv
    <3>3. f.kind \in Ahead  BY <1>6, <3>2
    <3>4. e.kind \in Behind  BY <2>1, <3>3 DEF Ahead, Behind
    <3>5. e.kind = "EraseAck" => Kinds(requests', Ahead) /\ Kinds(requests', NoHandshake)
      BY <1>4, <2>1, <3>2
    <3> QED  BY <2>1, <3>4, <3>5
  <2> QED  BY <1>1, <2>2, <2>3, <2>5, <2>6, <2>7, <2>8 DEF ReplyInv
<1> QED  BY <1>3, <1>8, <1>9

LEMMA TakingBegins ==
  ASSUME FlashAssumption, FlashInv, Takes
  PROVE  BeginInv'
<1> DEFINE f == Head(requests)
<1>1. /\ requests # <<>> /\ requests' = Tail(requests) /\ step' = step
      /\ f \in Requests /\ Read(f)
  BY DEF Takes
<1>2. requests \in Seq(Requests) /\ replies \in Seq(Replies) /\ BeginInv
  BY DEF FlashInv, FlashTypeInv, HostInv
<1> SUFFICES ASSUME step = "Begin" PROVE BeginInv'
  BY <1>1 DEF BeginInv
<1>3. /\ f = requests[1] /\ Len(requests) \in Nat /\ Len(requests) > 0
      /\ Len(requests') = Len(requests) - 1 /\ requests' \in Seq(Requests)
      /\ \A i \in 1..Len(requests') : requests'[i] = requests[i + 1] /\ i + 1 \in 1..Len(requests)
  BY <1>1, <1>2, QueueTail
<1>4. f.kind \in IF Len(requests) = 1 THEN {"Begin"} ELSE {"Cancel", "Erase"}
  BY <1>2, <1>3 DEF BeginInv
<1>5. \A i \in 1..Len(requests') :
         requests'[i].kind \in IF i = Len(requests') THEN {"Begin"} ELSE {"Cancel", "Erase"}
  <2> SUFFICES ASSUME NEW i \in 1..Len(requests')
               PROVE  requests'[i].kind \in
                         IF i = Len(requests') THEN {"Begin"} ELSE {"Cancel", "Erase"}
    OBVIOUS
  <2>1. i + 1 \in 1..Len(requests) /\ (i + 1 = Len(requests) <=> i = Len(requests'))
    BY <1>3
  <2> QED  BY <1>2, <1>3, <2>1 DEF BeginInv
<1>6. Len(requests) = 1 => requests' = <<>>  BY <1>3, EmptySeq
<1>7. \A i \in 1..Len(replies) : replies[i].kind \in Behind  BY <1>1, <1>2 DEF BeginInv
<1> HIDE DEF f
<1>8. staged' = <<>>
  BY <1>1, <1>2, <1>4 DEF BeginInv, Read, Greets, Passes, Aborts, Erases, Begins, Stores,
                          Reports, Installs
<1>9. \/ replies' = replies
      \/ \E e \in Replies : /\ replies' = Append(replies, e)
                            /\ e.kind \in Behind \/ (f.kind = "Begin" /\ session' = 0)
  <2>1. f.kind \in {"Begin", "Cancel", "Erase"}  BY <1>4
  <2>2. CASE Passes
    BY <2>2 DEF Passes
  <2>3. CASE Aborts(f)
    <3>1. Abort \in Replies /\ Abort.kind = "Abort"
      BY ReplyFrames DEF Frame, Abort
    <3> QED  BY <2>3, <3>1 DEF Aborts, Behind
  <2>4. CASE Erases(f)
    <3>1. Frame("EraseAck") \in Replies /\ Frame("EraseAck").kind = "EraseAck"
      BY ReplyFrames DEF Frame
    <3> QED  BY <2>4, <3>1 DEF Erases, Behind
  <2>5. CASE Begins(f)
    <3>1. Frame("BeginAck") \in Replies  BY ReplyFrames
    <3> QED  BY <2>5, <3>1 DEF Begins
  <2> QED  BY <1>1, <2>1, <2>2, <2>3, <2>4, <2>5 DEF Read, Greets, Stores, Reports, Installs
<1>10. CASE replies' = replies
  BY <1>1, <1>5, <1>7, <1>8, <1>10 DEF BeginInv
<1>11. CASE \E e \in Replies : /\ replies' = Append(replies, e)
                               /\ e.kind \in Behind \/ (f.kind = "Begin" /\ session' = 0)
  <2>1. PICK e \in Replies : /\ replies' = Append(replies, e)
                             /\ e.kind \in Behind \/ (f.kind = "Begin" /\ session' = 0)
    BY <1>11
  <2>2. /\ Len(replies) \in Nat /\ Len(replies') = Len(replies) + 1
        /\ replies'[Len(replies) + 1] = e
        /\ \A i \in 1..Len(replies) : replies'[i] = replies[i]
    BY <1>2, <2>1, AppendProperties
  <2>3. \A i \in 1..Len(replies') : i \in 1..Len(replies) \/ i = Len(replies')  BY <2>2
  <2>4. f.kind = "Begin" => requests' = <<>>  BY <1>4, <1>6
  <2>5. \A i \in 1..Len(replies') :
           \/ replies'[i].kind \in Behind
           \/ i = Len(replies') /\ requests' = <<>> /\ session' = 0
    BY <1>7, <2>1, <2>2, <2>3, <2>4
  <2> QED  BY <1>1, <1>5, <1>8, <2>5 DEF BeginInv
<1> QED  BY <1>9, <1>10, <1>11

LEMMA TakingDownloads ==
  ASSUME FlashAssumption, FlashInv, Takes
  PROVE  DownInv' /\ LateInv' /\ EnterInv'
<1> DEFINE f == Head(requests)
<1>1. /\ requests # <<>> /\ requests' = Tail(requests) /\ step' = step /\ number' = number
      /\ f \in Requests /\ Read(f)
  BY DEF Takes
<1>2. requests \in Seq(Requests) /\ replies \in Seq(Replies) /\ DownInv /\ LateInv /\ EnterInv
  BY DEF FlashInv, FlashTypeInv, HostInv
<1>3. DownInv'
  <2> SUFFICES ASSUME step = "Download" PROVE Missed' \/ Stored'
    BY <1>1 DEF DownInv
  <2>1. Sent  BY <1>1, <1>2 DEF DownInv, Missed, Stored
  <2>2. f = Segment(number) /\ requests' = <<>> /\ f.kind = "Segment" /\ f.n = number
    <3>1. Len(requests) = 1 /\ f = requests[1]  BY <1>1, <1>2, <2>1, QueueTail DEF Sent
    <3>2. Len(requests') = 0 /\ requests' \in Seq(Requests)  BY <1>1, <1>2, <3>1, QueueTail
    <3> QED  BY <2>1, <3>1, <3>2, EmptySeq DEF Sent, Segment
  <2> HIDE DEF f
  <2>3. Passes \/ Stores(f)
    BY <1>1, <2>2 DEF Read, Greets, Aborts, Erases, Begins, Reports, Installs
  <2>4. CASE Passes
    BY <2>1, <2>2, <2>4 DEF Passes, Sent, Missed
  <2>5. CASE Stores(f)
    <3>1. SegmentAck(number) \in Replies
      BY <2>2, <2>5, ReplyFrames DEF Stores
    <3>2. replies' = <<SegmentAck(number)>>
      BY <2>1, <2>2, <2>5 DEF Stores, Sent
    <3>3. staged \in Seq(1..Segments)  BY DEF FlashInv, FlashTypeInv, FlashTypes
    <3>4. Len(staged') = number
      BY <2>2, <2>5, <3>3, AppendProperties DEF Stores
    <3> QED  BY <1>1, <2>2, <2>5, <3>2, <3>4 DEF Stores, Stored
  <2> QED  BY <2>3, <2>4, <2>5
<1>4. LateInv'  BY <1>1, <1>2, TailKeeps DEF LateInv
<1>5. EnterInv'
  <2> SUFFICES ASSUME step = "Enter", requests' # <<>>
               PROVE  requests'[Len(requests')].kind \in {"Cancel", "Handshake"}
    BY <1>1 DEF EnterInv
  <2>1. requests' \in Seq(Requests) /\ Len(requests') = Len(requests) - 1
    BY <1>1, <1>2, QueueTail
  <2>2. Len(requests') \in 1..Len(requests')  BY <2>1, EmptySeq
  <2>3. requests'[Len(requests')] = requests[Len(requests)]
    BY <1>1, <1>2, <2>1, <2>2, QueueTail
  <2> QED  BY <1>1, <1>2, <2>3 DEF EnterInv
<1> QED  BY <1>3, <1>4, <1>5

LEMMA TakingStages ==
  ASSUME FlashAssumption, FlashInv, Takes
  PROVE  Ordered(requests)' /\ SegmentFits(requests, session, staged)' /\ StageInv'
<1> DEFINE f == Head(requests)
<1>1. /\ requests # <<>> /\ requests' = Tail(requests)
      /\ f \in Requests /\ Read(f)
  BY DEF Takes
<1>2. /\ requests \in Seq(Requests) /\ replies \in Seq(Replies) /\ Ordered(requests)
      /\ SegmentFits(requests, session, staged) /\ StageInv
      /\ staged \in Seq(1..Segments) /\ installed \in Seq(Seq(1..Segments)) /\ marker \in BOOLEAN
  BY DEF FlashInv, FlashTypeInv, FlashTypes
<1>3. Ordered(requests') /\ Kinds(requests', RequestKinds)  BY <1>1, <1>2, TailKeeps
<1>4. SegmentFits(requests', session', staged')
  BY <1>3 DEF Kinds, SegmentFits, RequestKinds
<1> HIDE DEF f
<1>5. StageInv'
  <2>1. CASE Greets(f) \/ Passes \/ Aborts(f) \/ Begins(f) \/ Reports(f)
    BY <1>2, <2>1 DEF Greets, Passes, Aborts, Begins, Reports, StageInv, InstallIsWhole
  <2>2. CASE Erases(f)
    <3>1. Len(staged') = 0  BY <2>2 DEF Erases
    <3> QED  BY <1>2, <2>2, <3>1 DEF Erases, StageInv, InstallIsWhole
  <2>3. CASE Stores(f)
    <3>1. /\ f.n \in 1..Segments /\ Len(staged) \in Nat /\ Len(staged) = f.n - 1
          /\ marker' = (marker \/ Final(f.n)) /\ installed' = installed
          /\ staged' = Append(staged, f.n)
      BY <1>2, <2>3 DEF Stores
    <3>2. /\ Len(staged') = f.n /\ staged'[f.n] = f.n
          /\ \A i \in 1..Len(staged) : staged'[i] = staged[i]
      BY <1>2, <3>1, AppendProperties
    <3>3. \A i \in 1..Len(staged') : staged'[i] = i
      BY <1>2, <3>1, <3>2 DEF StageInv
    <3>4. Len(staged') <= Segments /\ (marker' => Len(staged') = Segments)
      BY <1>2, <3>1, <3>2 DEF StageInv, Final
    <3> QED  BY <1>2, <3>1, <3>3, <3>4 DEF StageInv, InstallIsWhole
  <2>4. CASE Installs(f)
    <3>1. staged' = staged /\ marker' = FALSE
      BY <2>4 DEF Installs
    <3>2. CASE ~marker
      BY <1>2, <2>4, <3>1, <3>2 DEF Installs, StageInv, InstallIsWhole
    <3>3. CASE marker
      <4>1. staged = Image
        <5>1. Len(staged) = Segments /\ \A i \in 1..Segments : staged[i] = i
          BY <1>2, <3>3 DEF StageInv
        <5>2. staged = [i \in 1..Len(staged) |-> staged[i]]  BY <1>2
        <5> QED  BY <5>1, <5>2 DEF Image
      <4>2. installed' = Append(installed, staged)  BY <2>4, <3>3 DEF Installs
      <4>3. /\ Len(installed') = Len(installed) + 1 /\ installed'[Len(installed) + 1] = staged
            /\ \A i \in 1..Len(installed) : installed'[i] = installed[i]
            /\ installed' \in Seq(Seq(1..Segments)) /\ Len(installed) \in Nat
        BY <1>2, <4>2, AppendProperties
      <4>4. DOMAIN installed' = 1..(Len(installed) + 1) /\ DOMAIN installed = 1..Len(installed)
        BY <1>2, <4>3
      <4>5. \A i \in DOMAIN installed' : i \in DOMAIN installed \/ i = Len(installed) + 1
        BY <4>3, <4>4
      <4>6. InstallIsWhole'
        BY <1>2, <4>1, <4>3, <4>4, <4>5 DEF StageInv, InstallIsWhole
      <4> QED  BY <1>2, <3>1, <4>6 DEF StageInv
    <3> QED  BY <1>2, <3>2, <3>3
  <2> QED  BY <1>1, <2>1, <2>2, <2>3, <2>4 DEF Read
<1> QED  BY <1>3, <1>4, <1>5

-----------------------------------------------------------------------------
(* The script. *)

\* A reply leaves the queue, passed over or lost.
LEMMA ReplyGone ==
  ASSUME FlashAssumption, FlashInv, replies # <<>>, replies' = Tail(replies),
         UNCHANGED <<step, number, requests, device>>
  PROVE  HostInv'
<1>1. HostInv /\ replies \in Seq(Replies)  BY DEF FlashInv, FlashTypeInv
<1>2. /\ Len(replies) \in Nat /\ Len(replies) > 0 /\ Len(replies') = Len(replies) - 1
      /\ replies' \in Seq(Replies)
      /\ \A i \in 1..Len(replies') : replies'[i] = replies[i + 1] /\ i + 1 \in 1..Len(replies)
  BY <1>1, QueueTail
<1>3. LeadInv'
  <2>1. Leading(step, replies') => Leading(step, replies)  BY <1>2 DEF Leading
  <2> QED  BY <1>1, <2>1 DEF HostInv, LeadInv
<1>4. ReplyInv'
  <2>1. ASSUME NEW i \in 1..Len(replies'), Follows(step, replies', i)
        PROVE  Follows(step, replies, i + 1)
    <3>1. CASE step = "Erase"  BY <3>1 DEF Follows
    <3>2. CASE step # "Erase"
      <4>1. PICK h \in 1..Len(replies') : h < i /\ replies'[h].kind = "Handshake"
        BY <2>1, <3>2 DEF Follows
      <4>2. h + 1 \in 1..Len(replies) /\ h + 1 < i + 1 /\ replies[h + 1] = replies'[h]
        BY <1>2, <4>1
      <4> QED  BY <2>1, <4>1, <4>2 DEF Follows
    <3> QED  BY <3>1, <3>2
  <2>2. ASSUME NEW i \in 1..Len(replies'), Follows(step, replies', i)
        PROVE  /\ replies'[i].kind \in Behind
               /\ replies'[i].kind = "EraseAck" =>
                     /\ Kinds(requests, Ahead) /\ Kinds(requests, NoHandshake)
                     /\ staged = <<>>
    <3>1. Follows(step, replies, i + 1)  BY <2>1, <2>2
    <3>2. replies'[i] = replies[i + 1] /\ i + 1 \in 1..Len(replies)  BY <1>2
    <3> QED  BY <1>1, <3>1, <3>2 DEF HostInv, ReplyInv
  <2> QED  BY <2>2 DEF ReplyInv, device
<1>5. BeginInv'
  <2> SUFFICES ASSUME step = "Begin"
               PROVE  \A i \in 1..Len(replies') :
                         \/ replies'[i].kind \in Behind
                         \/ i = Len(replies') /\ requests = <<>> /\ session = 0
    BY <1>1 DEF HostInv, BeginInv, device
  <2>1. \A i \in 1..Len(replies') : i + 1 = Len(replies) <=> i = Len(replies')  BY <1>2
  <2> QED  BY <1>1, <1>2, <2>1 DEF HostInv, BeginInv
<1>6. DownInv'
  <2> SUFFICES ASSUME step = "Download" PROVE Missed'
    BY DEF DownInv
  <2>1. requests = <<>> /\ Len(replies) = 1
    BY <1>1 DEF HostInv, DownInv, Sent, Missed, Stored
  <2>2. replies' = <<>>  BY <1>2, <2>1, EmptySeq
  <2> QED  BY <2>1, <2>2 DEF Missed
<1>7. LateInv' /\ EnterInv'  BY <1>1 DEF HostInv, LateInv, EnterInv
<1> QED  BY <1>3, <1>4, <1>5, <1>6, <1>7 DEF HostInv

\* The other actions of the host keep what the device holds.
Queued == Ordered(requests) /\ SegmentFits(requests, session, staged)

LEMMA HandshakeSent ==
  ASSUME FlashAssumption, FlashInv, SendHandshake, ~EraseWaits(requests)
  PROVE  Queued' /\ HostInv'
<1> DEFINE f == Frame("Handshake")
<1>1. /\ step = "Enter" /\ step' = "Enter" /\ replies = <<>> /\ replies' = <<>>
      /\ requests' = requests \o <<f>> /\ UNCHANGED <<session, staged>>
  BY DEF SendHandshake, Send, host, device
<1>2. f \in Requests /\ f.kind = "Handshake"  BY RequestFrames DEF RequestKinds, Frame
<1>3. requests \in Seq(Requests) /\ Queued /\ HostInv  BY DEF FlashInv, FlashTypeInv, Queued
<1>4. requests' = Append(requests, f)  BY <1>1, <1>2, <1>3, Sending
<1> HIDE DEF f
<1>5. Ordered(requests')  BY <1>2, <1>3, <1>4, HandshakeKeepsOrder DEF Queued
<1>6. SegmentFits(requests', session, staged)  BY <1>2, <1>3, <1>4, AppendKeeps DEF Queued
<1>7. Len(replies') = 0  BY <1>1
<1>8. LeadInv' /\ ReplyInv'  BY <1>1, <1>7 DEF LeadInv, Leading, ReplyInv
<1>9. EnterInv'
  <2>1. Len(requests') = Len(requests) + 1 /\ requests'[Len(requests) + 1] = f
    BY <1>2, <1>3, <1>4, AppendProperties
  <2> QED  BY <1>2, <2>1 DEF EnterInv
<1>10. BeginInv' /\ DownInv' /\ LateInv'  BY <1>1 DEF BeginInv, DownInv, LateInv
<1> QED  BY <1>1, <1>5, <1>6, <1>8, <1>9, <1>10 DEF Queued, HostInv

LEMMA CancelSent ==
  ASSUME FlashAssumption, FlashInv, NEW ambiguous, Fail(ambiguous), UNCHANGED device
  PROVE  Queued' /\ HostInv'
<1> DEFINE c == Frame("Cancel")
<1>1. /\ step' = "Failed" /\ requests' \in {requests, Append(Append(Append(requests, c), c), c)}
      /\ UNCHANGED <<session, staged>>
  BY Failing DEF FlashInv, device
<1>2. c \in Requests /\ c.kind = "Cancel"  BY RequestFrames DEF RequestKinds, Frame
<1>3. requests \in Seq(Requests) /\ Queued  BY DEF FlashInv, FlashTypeInv, Queued
<1> HIDE DEF c
<1>4. ASSUME NEW q \in Seq(Requests), Ordered(q), SegmentFits(q, session, staged)
      PROVE  /\ Append(q, c) \in Seq(Requests)
             /\ Ordered(Append(q, c)) /\ SegmentFits(Append(q, c), session, staged)
  BY <1>2, <1>4, AppendKeeps, AppendProperties
<1>5. Ordered(requests') /\ SegmentFits(requests', session, staged)
  BY <1>1, <1>3, <1>4 DEF Queued
<1>6. HostInv'
  BY <1>1 DEF HostInv, LeadInv, Leading, ReplyInv, Follows, BeginInv, DownInv, LateInv, EnterInv
<1> QED  BY <1>1, <1>5, <1>6 DEF Queued

LEMMA EraseSent ==
  ASSUME FlashAssumption, FlashInv, Entered
  PROVE  Queued' /\ HostInv'
<1> DEFINE f == Frame("Erase")
<1>1. /\ step = "Enter" /\ step' = "Erase" /\ replies # <<>> /\ replies' = Tail(replies)
      /\ Head(replies) = Frame("Handshake") /\ requests' = requests \o <<f>>
      /\ UNCHANGED <<session, staged>>
  BY DEF Entered, Receive, Awaited, Goto, Send, device
<1>2. f \in Requests /\ f.kind = "Erase" /\ Frame("Handshake").kind = "Handshake"
  BY RequestFrames DEF RequestKinds, Frame
<1>3. requests \in Seq(Requests) /\ replies \in Seq(Replies) /\ Queued /\ HostInv
  BY DEF FlashInv, FlashTypeInv, Queued
<1>4. requests' = Append(requests, f)  BY <1>1, <1>2, <1>3, Sending
<1> HIDE DEF f
<1>5. /\ Len(replies) \in Nat /\ Len(replies) > 0 /\ Len(replies') = Len(replies) - 1
      /\ replies[1].kind = "Handshake"
      /\ \A i \in 1..Len(replies') : replies'[i] = replies[i + 1] /\ i + 1 \in 1..Len(replies)
  BY <1>1, <1>2, <1>3, QueueTail
<1>6. Kinds(requests, Ahead) /\ EraseLast(requests)
  <2>1. Leading(step, replies)  BY <1>1, <1>5 DEF Leading
  <2> QED  BY <1>3, <2>1 DEF HostInv, LeadInv
<1>7. Queued'  BY <1>1, <1>2, <1>3, <1>4, AppendKeeps DEF Queued
<1>8. Kinds(requests', Ahead) /\ EraseLast(requests')
  BY <1>2, <1>3, <1>4, <1>6, AppendKeeps DEF Ahead
<1>9. Kinds(requests, NoHandshake) => Kinds(requests', NoHandshake)
  BY <1>2, <1>3, <1>4, AppendKeeps DEF NoHandshake, RequestKinds
<1>10. ASSUME NEW i \in 1..Len(replies')
       PROVE  /\ replies'[i].kind \in Behind
              /\ replies'[i].kind = "EraseAck" =>
                     /\ Kinds(requests', Ahead) /\ Kinds(requests', NoHandshake)
                     /\ staged' = <<>>
  <2>1. Follows(step, replies, i + 1)
    <3>1. 1 \in 1..Len(replies) /\ 1 < i + 1  BY <1>5
    <3> QED  BY <1>1, <1>5, <3>1 DEF Follows
  <2>2. replies'[i] = replies[i + 1] /\ i + 1 \in 1..Len(replies)  BY <1>5
  <2> QED  BY <1>1, <1>3, <1>8, <1>9, <2>1, <2>2 DEF HostInv, ReplyInv
<1>11. LeadInv' /\ ReplyInv'  BY <1>8, <1>10 DEF LeadInv, ReplyInv
<1>12. BeginInv' /\ DownInv' /\ LateInv' /\ EnterInv'
  BY <1>1 DEF BeginInv, DownInv, LateInv, EnterInv
<1> QED  BY <1>7, <1>11, <1>12 DEF HostInv

LEMMA BeginSent ==
  ASSUME FlashAssumption, FlashInv, Erased
  PROVE  Queued' /\ HostInv'
<1> DEFINE f == Frame("Begin")
<1>1. /\ step = "Erase" /\ step' = "Begin" /\ replies # <<>> /\ replies' = Tail(replies)
      /\ Head(replies) = Frame("EraseAck") /\ requests' = requests \o <<f>>
      /\ UNCHANGED <<session, staged>>
  BY DEF Erased, Receive, Awaited, Goto, Send, device
<1>2. f \in Requests /\ f.kind = "Begin" /\ Frame("EraseAck").kind = "EraseAck"
  BY RequestFrames DEF RequestKinds, Frame
<1>3. requests \in Seq(Requests) /\ replies \in Seq(Replies) /\ Queued /\ HostInv
  BY DEF FlashInv, FlashTypeInv, Queued
<1>4. requests' = Append(requests, f)  BY <1>1, <1>2, <1>3, Sending
<1> HIDE DEF f
<1>5. /\ Len(replies) \in Nat /\ Len(replies) > 0 /\ Len(replies') = Len(replies) - 1
      /\ replies[1].kind = "EraseAck" /\ 1 \in 1..Len(replies)
      /\ \A i \in 1..Len(replies') : replies'[i] = replies[i + 1] /\ i + 1 \in 1..Len(replies)
  BY <1>1, <1>2, <1>3, QueueTail
<1>6. \A i \in 1..Len(replies) : Follows(step, replies, i)  BY <1>1 DEF Follows
<1>7. Kinds(requests, Ahead) /\ Kinds(requests, NoHandshake) /\ staged = <<>>
  BY <1>3, <1>5, <1>6 DEF HostInv, ReplyInv
<1>8. \A i \in 1..Len(replies') : replies'[i].kind \in Behind
  BY <1>3, <1>5, <1>6 DEF HostInv, ReplyInv
<1>9. Queued'  BY <1>1, <1>2, <1>3, <1>4, <1>7, AppendKeeps DEF Queued
<1>10. \A i \in 1..Len(requests') :
          requests'[i].kind \in IF i = Len(requests') THEN {"Begin"} ELSE {"Cancel", "Erase"}
  <2>1. /\ Len(requests) \in Nat /\ Len(requests') = Len(requests) + 1
        /\ requests'[Len(requests) + 1] = f
        /\ \A i \in 1..Len(requests) : requests'[i] = requests[i]
    BY <1>2, <1>3, <1>4, AppendProperties
  <2>2. \A i \in 1..Len(requests) : requests[i].kind \in {"Cancel", "Erase"}
    BY <1>7 DEF Kinds, Ahead, NoHandshake
  <2> QED  BY <1>2, <2>1, <2>2
<1>11. BeginInv'  BY <1>1, <1>7, <1>8, <1>10 DEF BeginInv
<1>12. LeadInv' /\ ReplyInv' /\ DownInv' /\ LateInv' /\ EnterInv'
  BY <1>1 DEF LeadInv, Leading, ReplyInv, Follows, DownInv, LateInv, EnterInv
<1> QED  BY <1>9, <1>11, <1>12 DEF HostInv

\* A frame sent while nothing else is on its way.
LEMMA Alone ==
  ASSUME FlashAssumption, requests = <<>>, NEW f \in Requests, Send(<<f>>)
  PROVE  /\ requests' = <<f>> /\ Ordered(requests')
         /\ \A S : f.kind \in S => Kinds(requests', S)
<1>1. requests' = <<f>>  BY DEF Send
<1>2. Len(<<f>>) = 1 /\ <<f>>[1] = f  OBVIOUS
<1> QED  BY <1>1, <1>2 DEF Ordered, Kinds

LEMMA SegmentSent ==
  ASSUME FlashAssumption, FlashInv, Begun \/ NextSegment
  PROVE  Queued' /\ HostInv'
<1>1. HostInv /\ FlashTypeInv /\ replies \in Seq(Replies) /\ Segments \in Nat \ {0}
  BY DEF FlashInv, FlashTypeInv
<1>2. /\ replies # <<>> /\ replies' = Tail(replies) /\ step' = "Download"
      /\ UNCHANGED <<session, staged>> /\ Len(replies) \in Nat /\ Len(replies) > 0
      /\ Head(replies) = replies[1]
  BY <1>1, QueueTail DEF Begun, NextSegment, Receive, Goto, device
<1>3. /\ requests = <<>> /\ Len(replies) = 1 /\ number' \in 1..Segments
      /\ session = number' - 1 /\ Len(staged) = session /\ Send(<<Segment(number')>>)
  <2>1. CASE Begun
    <3>1. /\ step = "Begin" /\ Head(replies) = Frame("BeginAck")
          /\ number' = 1 /\ Send(<<Segment(number')>>)
      BY <2>1 DEF Begun, Receive, Awaited, Goto, FirstSegment
    <3>2. replies[1].kind \notin Behind  BY <1>2, <3>1 DEF Frame, Behind
    <3>3. 1 \in 1..Len(replies)  BY <1>2
    <3>4. 1 = Len(replies) /\ requests = <<>> /\ session = 0 /\ staged = <<>>
      BY <1>1, <3>1, <3>2, <3>3 DEF HostInv, BeginInv
    <3> QED  BY <1>1, <3>1, <3>4
  <2>2. CASE NextSegment
    <3>1. /\ step = "Download" /\ Head(replies) = SegmentAck(number) /\ number # Segments
          /\ number' = number + 1 /\ Send(<<Segment(number')>>)
      BY <2>2 DEF NextSegment, Receive, Awaited, Goto, Final
    <3>2. replies[1] # Abort  BY <1>2, <3>1 DEF Frame, Abort, SegmentAck
    <3>3. Stored  BY <1>1, <1>2, <3>1, <3>2 DEF HostInv, DownInv, Sent, Missed
    <3>4. number \in 1..Segments  BY <1>1, <3>1 DEF FlashTypeInv
    <3> QED  BY <1>1, <3>1, <3>3, <3>4 DEF Stored, Final
  <2> QED  BY <2>1, <2>2
<1>4. Segment(number') \in Requests /\ Segment(number').kind = "Segment"
      /\ Segment(number').n = number'
  BY <1>3, RequestFrames DEF Segment
<1>5. requests' = <<Segment(number')>> /\ Ordered(requests')  BY <1>3, <1>4, Alone
<1>6. replies' = <<>>  BY <1>1, <1>2, <1>3, QueueTail, EmptySeq
<1>7. SegmentFits(requests', session, staged)
  <2>1. Len(requests') = 1 /\ requests'[1] = Segment(number')  BY <1>5
  <2> QED  BY <1>1, <1>3, <1>4, <2>1 DEF SegmentFits
<1>8. Sent'  BY <1>2, <1>3, <1>5, <1>6 DEF Sent
<1>9. HostInv'
  BY <1>2, <1>8 DEF HostInv, LeadInv, Leading, ReplyInv, Follows, BeginInv, DownInv, LateInv,
                    EnterInv
<1> QED  BY <1>2, <1>5, <1>7, <1>9 DEF Queued

LEMMA LateSent ==
  ASSUME FlashAssumption, FlashInv, Downloaded \/ Verified \/ Retry
  PROVE  Queued' /\ HostInv'
<1>1. /\ step' \in {"Verify", "Install"} /\ UNCHANGED <<session, staged>>
      /\ \/ step = "Verify"
         \/ step = "Download" /\ replies # <<>> /\ Head(replies) = SegmentAck(number)
  BY DEF Downloaded, Verified, Retry, Receive, Awaited, Goto, device
<1>2. PICK k \in {"Install", "ReadMarker"} : requests' = requests \o <<Frame(k)>>
  BY DEF Downloaded, Verified, Retry, Send
<1>3. requests \in Seq(Requests) /\ replies \in Seq(Replies) /\ Queued /\ HostInv
  BY DEF FlashInv, FlashTypeInv, Queued
<1>4. Frame(k) \in Requests /\ Frame(k).kind = k  BY RequestFrames DEF RequestKinds, Frame
<1>5. requests' = Append(requests, Frame(k))  BY <1>2, <1>3, <1>4, Sending
<1>6. Kinds(requests, {"ReadMarker", "Install"})
  <2>1. CASE step = "Verify"  BY <1>3, <2>1 DEF HostInv, LateInv
  <2>2. CASE step = "Download" /\ replies # <<>> /\ Head(replies) = SegmentAck(number)
    <3>1. requests = <<>>  BY <1>3, <2>2 DEF HostInv, DownInv, Sent, Missed, Stored
    <3> QED  BY <3>1 DEF Kinds
  <2> QED  BY <1>1, <2>1, <2>2
<1>7. Kinds(requests, NoHandshake)  BY <1>6 DEF Kinds, NoHandshake, RequestKinds
<1>8. Queued'  BY <1>1, <1>3, <1>4, <1>5, <1>7, AppendKeeps DEF Queued
<1>9. Kinds(requests', {"ReadMarker", "Install"})
  BY <1>3, <1>4, <1>5, <1>6, AppendKeeps
<1>10. HostInv'
  BY <1>1, <1>9 DEF HostInv, LeadInv, Leading, ReplyInv, Follows, BeginInv, DownInv, LateInv,
                    EnterInv
<1> QED  BY <1>8, <1>10

LEMMA RerunSent ==
  ASSUME FlashAssumption, FlashInv, Rerun
  PROVE  Queued' /\ HostInv'
<1> DEFINE f == Frame("Cancel")
<1>1. /\ step' = "Enter" /\ replies' = <<>> /\ requests' = requests \o <<f>>
      /\ UNCHANGED <<session, staged>>
  BY DEF Rerun, Send, EnterCancels, Goto, device
<1>2. f \in Requests /\ f.kind = "Cancel"  BY RequestFrames DEF RequestKinds, Frame
<1>3. requests \in Seq(Requests) /\ Queued  BY DEF FlashInv, FlashTypeInv, Queued
<1>4. requests' = Append(requests, f)  BY <1>1, <1>2, <1>3, Sending
<1> HIDE DEF f
<1>5. Queued'  BY <1>1, <1>2, <1>3, <1>4, AppendKeeps DEF Queued
<1>6. Len(replies') = 0  BY <1>1
<1>7. LeadInv' /\ ReplyInv'  BY <1>1, <1>6 DEF LeadInv, Leading, ReplyInv
<1>8. EnterInv'
  <2>1. Len(requests') = Len(requests) + 1 /\ requests'[Len(requests) + 1] = f
    BY <1>2, <1>3, <1>4, AppendProperties
  <2> QED  BY <1>2, <2>1 DEF EnterInv
<1>9. BeginInv' /\ DownInv' /\ LateInv'  BY <1>1 DEF BeginInv, DownInv, LateInv
<1> QED  BY <1>5, <1>7, <1>8, <1>9 DEF HostInv

-----------------------------------------------------------------------------
LEMMA FlashStarts == ASSUME FlashAssumption, FlashTypeInv, FlashInit PROVE FlashInv
<1>1. /\ step = "Enter" /\ requests = <<Frame("Cancel")>> /\ replies = <<>>
      /\ staged = <<>> /\ marker = FALSE /\ installed = <<>>
  BY DEF FlashInit
<1>2. Frame("Cancel").kind = "Cancel"  BY DEF Frame
<1>3. Len(requests) = 1 /\ requests[1].kind = "Cancel" /\ Len(replies) = 0  BY <1>1, <1>2
<1>4. Ordered(requests) /\ SegmentFits(requests, session, staged)
  BY <1>3 DEF Ordered, SegmentFits
<1>5. HostInv
  BY <1>1, <1>3 DEF HostInv, LeadInv, Leading, ReplyInv, BeginInv, DownInv, LateInv, EnterInv
<1>6. StageInv
  <2>1. Len(staged) = 0 /\ DOMAIN installed = {}  BY <1>1
  <2> QED  BY <1>1, <2>1 DEF StageInv, InstallIsWhole
<1> QED  BY <1>4, <1>5, <1>6 DEF FlashInv

LEMMA FlashSteps ==
  ASSUME FlashAssumption, FlashInv, FlashTypeInv', [FlashNext]_flashVars,
         [SendHandshake => ~EraseWaits(requests)]_flashVars
  PROVE  FlashInv'
<1> SUFFICES Queued' /\ HostInv' /\ StageInv'
  BY DEF FlashInv, Queued
<1>1. CASE Device
  BY <1>1, DeviceTakes, TakingLeads, TakingBegins, TakingDownloads, TakingStages
     DEF HostInv, Queued
<1>2. CASE LoseRequest
  BY <1>2, LossTakes, TakingLeads, TakingBegins, TakingDownloads, TakingStages
     DEF HostInv, Queued
<1>3. UNCHANGED device => StageInv'
  BY DEF FlashInv, StageInv, InstallIsWhole, device
<1>4. CASE UNCHANGED flashVars
  <2>1. UNCHANGED <<step, number, requests, replies, device, session, staged>>
    BY <1>4 DEF flashVars, host, device
  <2>2. HostInv'
    BY <2>1
       DEF FlashInv, HostInv, LeadInv, ReplyInv, BeginInv, DownInv, LateInv, EnterInv, Sent,
           Missed, Stored
  <2> QED  BY <1>3, <2>1, <2>2 DEF Queued, FlashInv
<1>5. CASE LoseReply \/ Ignore
  <2>1. /\ replies # <<>> /\ replies' = Tail(replies)
        /\ UNCHANGED <<step, number, requests, device>>
    BY <1>5 DEF LoseReply, Ignore, host
  <2>2. Queued'  BY <2>1 DEF Queued, FlashInv, device
  <2> QED  BY <1>3, <2>1, <2>2, ReplyGone
<1>6. CASE AbortReceived \/ WrongMarker \/ Ambiguous \/ Unanswered \/ Interrupt
  <2>1. UNCHANGED device /\ \E a : Fail(a)
    BY <1>6 DEF AbortReceived, WrongMarker, Ambiguous, Unanswered, Interrupt
  <2> QED  BY <1>3, <2>1, CancelSent
<1>7. CASE SendHandshake
  <2>1. UNCHANGED device  BY <1>7 DEF SendHandshake
  <2>2. ~UNCHANGED flashVars => ~EraseWaits(requests)  BY <1>7
  <2> QED  BY <1>3, <1>4, <1>7, <2>1, <2>2, HandshakeSent
<1>8. CASE Entered \/ Erased \/ Begun \/ NextSegment \/ Downloaded \/ Verified \/ Retry
  <2>1. UNCHANGED device
    BY <1>8 DEF Entered, Erased, Begun, NextSegment, Downloaded, Verified, Retry, Receive
  <2> QED  BY <1>3, <1>8, <2>1, EraseSent, BeginSent, SegmentSent, LateSent
<1>9. CASE Answers
  <2>1. step' = "Done" /\ UNCHANGED requests /\ UNCHANGED device
    BY <1>9 DEF Answers, Goto
  <2>2. Queued'  BY <2>1 DEF Queued, FlashInv, device
  <2>3. HostInv'
    BY <2>1 DEF HostInv, LeadInv, Leading, ReplyInv, Follows, BeginInv, DownInv, LateInv, EnterInv
  <2> QED  BY <1>3, <2>1, <2>2, <2>3
<1>10. CASE Rerun
  <2>1. UNCHANGED device  BY <1>10 DEF Rerun
  <2> QED  BY <1>3, <1>10, <2>1, RerunSent
<1> QED
  BY <1>1, <1>2, <1>4, <1>5, <1>6, <1>7, <1>8, <1>9, <1>10 DEF FlashNext, Script

\* Whatever is installed is the whole image in order, whatever is lost,
\* late or interrupted and however often the operator reruns the command,
\* as long as no handshake is sent while an erasure of an earlier run is
\* still unread behind that run's handshake.
THEOREM OnlyWholeImages ==
  ASSUME FlashAssumption
  PROVE  FlashSpec /\ [][SendHandshake => ~EraseWaits(requests)]_flashVars => []InstallIsWhole
<1>1. FlashInit /\ FlashTypeInv => FlashInv  BY FlashStarts
<1>2. /\ FlashInv /\ FlashTypeInv' /\ [FlashNext]_flashVars
      /\ [SendHandshake => ~EraseWaits(requests)]_flashVars
      => FlashInv'
  BY FlashSteps
<1>3. FlashInv => InstallIsWhole  BY DEF FlashInv, StageInv
<1>4. FlashSpec => []FlashTypeInv  BY FlashTypesInductive
<1> QED  BY <1>1, <1>2, <1>3, <1>4, PTL DEF FlashSpec

\* That never happens while a handshake is only repeated with at most two
\* frames unread: the last of them is a cancellation or a handshake.
THEOREM FewOutstanding ==
  ASSUME FlashAssumption, Backlog <= 3
  PROVE  FlashSpec => []InstallIsWhole
<1>1. FlashInit /\ FlashTypeInv => FlashInv  BY FlashStarts
<1>2. FlashInv /\ FlashTypeInv' /\ [FlashNext]_flashVars => FlashInv'
  <2> SUFFICES ASSUME FlashInv, FlashTypeInv', [FlashNext]_flashVars PROVE FlashInv'
    OBVIOUS
  <2>1. SendHandshake => ~EraseWaits(requests)
    <3> SUFFICES ASSUME SendHandshake PROVE ~EraseWaits(requests)
      OBVIOUS
    <3>1. requests \in Seq(Requests) /\ EnterInv  BY DEF FlashInv, FlashTypeInv, HostInv
    <3>2. step = "Enter" /\ Len(requests) < Backlog  BY DEF SendHandshake
    <3>3. Len(requests) \in Nat  BY <3>1, EmptySeq
    <3>4. Len(requests) < 3  BY <3>2, <3>3
    <3> QED  BY <3>1, <3>2, <3>4, FewWait DEF EnterInv
  <2> QED  BY <2>1, FlashSteps
<1>3. FlashInv => InstallIsWhole  BY DEF FlashInv, StageInv
<1>4. FlashSpec => []FlashTypeInv  BY FlashTypesInductive
<1> QED  BY <1>1, <1>2, <1>3, <1>4, PTL DEF FlashSpec
=============================================================================
