---------------------------- MODULE MCForeground ----------------------------
(***************************************************************************)
(* Small instances of what a foreground pass of the ride image works with: *)
(* the battery's and the controller's limits, the rider's inputs, the      *)
(* command that both bound, and the frames it transmits.  They share no    *)
(* state; a behaviour runs the one that part names and leaves the others   *)
(* in an initial state, so that one run checks them all.                   *)
(***************************************************************************)
EXTENDS EnvironmentProperties, RideInputsProperties, CurrentCommandProperties,
        CanTransportProperties

VARIABLE part

partVars == <<part, allVars, inputVars, commandVars, canVars>>

\* A frame for each way it can be incomplete and for each voltage, and one from
\* a warm controller.
Cool(bus) == [valid |-> TRUE, bus |-> bus, motor |-> TRUE, share |-> FractionOne]
MCFrames ==
    {NotReady} \cup {Cool(bus) : bus \in Voltage}
    \cup {[Cool(bus) EXCEPT !.motor = FALSE, !.share = 0] : bus \in {"Under"}}
    \cup {[Cool("Normal") EXCEPT !.share = 1]}

\* Requests to ride and to brake, and voltages of either sign.
MCRequests == {-5, 2}
MCVoltages == {-9, 6}

MCInit ==
    /\ part \in {"Environment", "Inputs", "Command", "Can"}
    /\ HInit /\ (part # "Environment" => frame = NotReady)
    /\ InputsInit /\ (part # "Inputs" => ~running)
    /\ CommandInit /\ CanInit
MCNext ==
    \/ /\ part = "Environment" /\ HNext
       /\ UNCHANGED <<part, inputVars, commandVars, canVars>>
    \/ /\ part = "Inputs" /\ InputsNext
       /\ UNCHANGED <<part, allVars, commandVars, canVars>>
    \/ /\ part = "Command" /\ CommandNext
       /\ UNCHANGED <<part, allVars, inputVars, canVars>>
    \/ /\ part = "Can" /\ CanNext
       /\ UNCHANGED <<part, allVars, inputVars, commandVars>>
MCSpec == MCInit /\ [][MCNext]_partVars
=============================================================================
