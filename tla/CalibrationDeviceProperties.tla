--------------------- MODULE CalibrationDeviceProperties ---------------------
(* What the supervision of CalibrationDevice must keep. *)
EXTENDS CalibrationDevice

\* Types of the supervision's state.
TypeOK ==
    /\ sequences \in Sequences /\ request \in Routines \cup {"None"}
    /\ abort \in {"None", "Stopped", "LocalInterlock"} /\ faults \subseteq {"Break", "Timing"}
    /\ {outputs, driven, busOk, armed, ready, quiet, disabled} \subseteq BOOLEAN
    /\ mailbox \in Commands \cup {NoCommand} /\ command \in Commands \cup {NoCommand}
    /\ window \in 0..ArmPasses /\ unready \in {"No", "Found", "Settled"}

\* Hazard: a request in flight between the foreground and the control
\* interrupt when a STOP arrives.  Once a STOP has been processed and a
\* control cycle has followed, nothing runs until a later RUN is accepted; and
\* a STOP that has been received is waiting or being processed until then.
StopWins ==
    /\ stopping = "Settled" => ~IsActive /\ ~driven
    /\ stopping = "Received" =>
        mailbox = Stop \/ pc \in {"Cancel", "Snapshot", "StopAbort", "Disarm"}

\* Hazard: readiness is read once a pass, and a request may wait for a sample
\* until after the interlock has opened.  A run that a pass finds with the
\* interlock open is over with the next control cycle.
InterlockStops == unready = "Settled" => ~driven /\ ~IsActive

\* Hazard: a STOP acknowledges the fault that has just hit a run before the
\* control interrupt has seen it.  A run that was active when a fault was
\* latched fails at the next control cycle all the same.
FaultEndsRun == hit = "After" => sequences.phase = "Failed"

\* Whatever must end a run that the host does not stop, ends it.
RunsAreEnded == InterlockStops /\ FaultEndsRun
=============================================================================
