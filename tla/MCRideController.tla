-------------------------- MODULE MCRideController --------------------------
(***************************************************************************)
(* A small instance of the ride state machine: a clock that wraps after a  *)
(* few ticks and the observations that differ for update_authority().      *)
(***************************************************************************)
EXTENDS RideProperties

\* A pass is either interrupted, and then reads only the throttle of the ride
\* inputs, or undisturbed.  Fields a pass does not read keep one value: the Hall
\* validity beside a loss, and the cadence under the brake, decide nothing.
Calm == [elapsed |-> 1, throttle |-> "Rest", cadence |-> FALSE, brake |-> FALSE,
         authority |-> TRUE, hallValid |-> TRUE, newFaults |-> {}, events |-> 0,
         hallReason |-> FALSE, tripped |-> FALSE, outputActive |-> FALSE,
         edge |-> FALSE, step |-> 0, hallTimeout |-> 1, fast |-> FALSE]

Disturbed ==
    {[Calm EXCEPT !.throttle = t, !.newFaults = f, !.events = n[1],
                  !.hallReason = n[2], !.tripped = n[3]] :
        t \in {"Rest", "Pressed"}, f \in {{}} \cup {{x} : x \in Faults},
        n \in {<<0, FALSE, FALSE>>, <<1, TRUE, FALSE>>, <<1, FALSE, FALSE>>,
               <<1, FALSE, TRUE>>, <<2, TRUE, FALSE>>, <<2, TRUE, TRUE>>}}
    \cup {[Calm EXCEPT !.throttle = t, !.hallValid = FALSE] : t \in {"Rest", "Pressed"}}
    \cup {[Calm EXCEPT !.throttle = "Invalid"]}
    \cup {[Calm EXCEPT !.throttle = t, !.authority = FALSE] :
              t \in {"Rest", "Pressed"}}

Undisturbed ==
    {[Calm EXCEPT !.elapsed = d, !.throttle = t[1], !.cadence = t[2], !.brake = t[3],
                  !.fast = f, !.edge = m[1], !.step = m[2]] :
        d \in 1..MaxElapsed,
        t \in {<<"Rest", FALSE, FALSE>>, <<"Rest", FALSE, TRUE>>, <<"Rest", TRUE, FALSE>>,
               <<"Pressed", FALSE, FALSE>>, <<"Pressed", FALSE, TRUE>>},
        f \in BOOLEAN,
        m \in {<<FALSE, 0>>, <<TRUE, 1>>, <<TRUE, -1>>, <<FALSE, 1>>}}
    \cup {[Calm EXCEPT !.throttle = "Pressed", !.outputActive = TRUE]}
    \cup {[Calm EXCEPT !.throttle = "Pressed", !.hallTimeout = t, !.edge = TRUE,
                       !.step = 1] : t \in RunningHallTimeouts}

MCInputs == Disturbed \cup Undisturbed
=============================================================================
