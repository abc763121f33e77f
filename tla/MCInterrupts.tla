---------------------------- MODULE MCInterrupts ----------------------------
(***************************************************************************)
(* Small instances of the components that read what a timer has captured:  *)
(* the Hall and wheel captures and the foreground's copy of the wheel's    *)
(* words.  They share no state with each other; a behaviour runs the one   *)
(* that part names and leaves the others in an initial state, so that one  *)
(* run checks them all.                                                    *)
(***************************************************************************)
EXTENDS HallCaptureProperties, WheelCaptureProperties, WheelSpeedProperties

VARIABLE part
partVars == <<part, allVars, wheelVars, speedVars>>

MCInit ==
    /\ part \in {"Hall", "Wheel", "Speed"}
    /\ HInit /\ (part # "Hall" => sector = 0)
    /\ WheelInit /\ SpeedInit

MCNext ==
    \/ part = "Hall" /\ HNext /\ UNCHANGED <<part, wheelVars, speedVars>>
    \/ part = "Wheel" /\ WheelNext /\ UNCHANGED <<part, allVars, speedVars>>
    \/ part = "Speed" /\ SpeedNext /\ UNCHANGED <<part, allVars, wheelVars>>

MCSpec == MCInit /\ [][MCNext]_partVars
=============================================================================
