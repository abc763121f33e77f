------------------------------ MODULE WheelSpeed ------------------------------
(***************************************************************************)
(* What the foreground makes of the wheel: snapshot() of                   *)
(* sensors/wheel_capture.rs, the estimator and the distance counter of     *)
(* sensors/wheel.rs.  The interrupt of WheelCapture appears by what it     *)
(* publishes, between any two loads of a read; not the other way round, so *)
(* that the sequence is never seen odd.  Its value is represented by       *)
(* whether a publication has fallen into the current read: it cannot come  *)
(* round its 32 bits within one.                                           *)
(***************************************************************************)
EXTENDS Integers

CONSTANTS
    CountRange, Lost,   \* widths of PULSE_COUNT and CAPTURE_OVERRUNS
    PerPulse, Unit,     \* distance_per_pulse_millimeters, and what the counter counts
    Values              \* width of the distance value

ASSUME SpeedAssumption ==
    /\ CountRange \in Nat \ {0} /\ Lost \in Nat \ {0} /\ Values \in Nat \ {0}
    /\ PerPulse \in Nat \ {0} /\ Unit \in Nat \ {0}

VARIABLES
    published,                      \* the words of the snapshot
    reading, torn, copy,            \* snapshot(): the words loaded, and a publication since
    lastPulse, lastOverruns, state, \* Estimator
    lastDistance, remainder, value, \* DistanceCounter
    travelled                       \* ghost: all the way, up to where value wraps

reader == <<reading, torn, copy>>
estimate == <<lastPulse, lastOverruns, state, lastDistance, remainder, value>>
speedVars == <<published, reader, estimate, travelled>>

\* What an interval says to the estimator.
Intervals == {"Zero", "Short", "Plausible"}
Words == <<"flag", "interval", "pulses", "overruns">>
Nothing == [flag |-> "Initialized", interval |-> "Zero", pulses |-> 0, overruns |-> 0]

SpeedInit ==
    /\ published = Nothing /\ reading = 0 /\ torn = FALSE /\ copy = Nothing
    /\ lastPulse = 0 /\ lastOverruns = 0 /\ state = "Uninitialized"
    /\ lastDistance = 0 /\ remainder = 0 /\ value = 0 /\ travelled = 0

-----------------------------------------------------------------------------
(* The interrupt.                                                          *)

Publish(flag, i, pulses) ==
    /\ published' = [published EXCEPT !.flag = flag, !.interval = i, !.pulses = pulses % CountRange]
    /\ torn' = (torn \/ reading # 0)
    /\ UNCHANGED <<reading, copy, estimate>>

\* The foreground does not fall behind by a whole range of the count.
Behind == (published.pulses - lastDistance) % CountRange
Pulse ==
    /\ Behind < CountRange - 1
    /\ \E i \in Intervals :
        /\ published.flag # "Primed" => i = "Zero"
        /\ Publish("Primed", i, published.pulses + 1)
    /\ travelled' = (travelled + PerPulse) % (Values * Unit)

Quiet ==
    /\ published.flag # "Quiet" /\ Publish("Quiet", "Zero", published.pulses)
    /\ UNCHANGED travelled

\* An overrun is counted outside of a publication.
Overrun ==
    /\ published' = [published EXCEPT !.overruns = (@ + 1) % Lost]
    /\ UNCHANGED <<reader, estimate, travelled>>

-----------------------------------------------------------------------------
(* The foreground.                                                         *)

Load(first, last) ==
    copy' = [w \in DOMAIN copy |-> IF \E i \in first..last : Words[i] = w THEN published[w] ELSE copy[w]]

BeginRead ==
    /\ reading = 0 /\ reading' = 1 /\ Load(1, 1) /\ torn' = FALSE
    /\ UNCHANGED <<published, estimate, travelled>>

LoadWord ==
    /\ reading \in 1..3 /\ reading' = reading + 1 /\ Load(reading', reading')
    /\ UNCHANGED <<published, torn, estimate, travelled>>

Unchecked == FALSE                  \* mutated: the words are taken as they are
Changed == torn

Retry ==
    /\ reading = 4 /\ Changed /\ reading' = 0 /\ torn' = FALSE /\ copy' = Nothing
    /\ UNCHANGED <<published, estimate, travelled>>

\* Estimator::update().
Estimate(c) ==
    IF c.flag = "Quiet" THEN "Quiet"
    ELSE IF c.flag # "Primed" THEN "Uninitialized"
    ELSE IF c.overruns # lastOverruns THEN "Implausible"
    ELSE IF c.pulses = lastPulse THEN state
    ELSE CASE c.interval = "Zero" -> "AwaitingSecondPulse"
           [] c.interval = "Short" -> "Implausible"
           [] c.interval = "Plausible" -> "Tracking"

NoRemainder(d) == 0                 \* mutated: what is left of a unit is dropped
Left(d) == d % Unit

\* The end of a read, with Estimator::update() and DistanceCounter::update().
Update ==
    /\ reading = 4 /\ ~Changed
    /\ state' = Estimate(copy)
    /\ IF copy.flag = "Initialized" THEN UNCHANGED <<lastPulse, lastOverruns>>
       ELSE lastPulse' = copy.pulses /\ lastOverruns' = copy.overruns
    /\ lastDistance' = copy.pulses
    /\ LET accumulated == ((copy.pulses - lastDistance) % CountRange) * PerPulse + remainder
       IN  value' = (value + accumulated \div Unit) % Values /\ remainder' = Left(accumulated)
    /\ reading' = 0 /\ copy' = Nothing
    /\ UNCHANGED <<published, torn, travelled>>

-----------------------------------------------------------------------------
Foreground == BeginRead \/ LoadWord \/ Retry \/ Update
SpeedNext == Pulse \/ Quiet \/ Overrun \/ Foreground

SpeedSpec == SpeedInit /\ [][SpeedNext]_speedVars
=============================================================================
