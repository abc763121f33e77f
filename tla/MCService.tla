------------------------------ MODULE MCService ------------------------------
(***************************************************************************)
(* A small instance of what the foreground loops of the two images service *)
(* beside the motor: the calibration's commands, the watchdogs of the ride *)
(* image and the record that its next start reports.  They share no state; *)
(* a behaviour runs the one that part names and leaves the others in an    *)
(* initial state, so that one run checks them all.                         *)
(***************************************************************************)
EXTENDS CalibrationDeviceProperties, WatchdogProperties, RetainedProperties

VARIABLE part

partVars == <<part, vars, watchedVars, reportVars>>

ASSUME InstanceIsLegal == DeviceAssumption

MCInit ==
    /\ part \in {"Device", "Watchdog", "Retained"}
    /\ Init /\ ReportInit
    /\ WatchInit /\ (part # "Watchdog" => watched = "Health" /\ ~latched)
MCNext ==
    \/ part = "Device" /\ Next /\ UNCHANGED <<part, watchedVars, reportVars>>
    \/ part = "Watchdog" /\ WatchNext /\ UNCHANGED <<part, vars, reportVars>>
    \/ part = "Retained" /\ ReportNext /\ UNCHANGED <<part, vars, watchedVars>>
MCSpec == MCInit /\ [][MCNext]_partVars
=============================================================================
