-------------------------- MODULE CalibrationDevice --------------------------
(***************************************************************************)
(* The supervision of oxifoc-f103-calibration: the foreground pass of      *)
(* app.rs step by step, the CAN receive interrupt of transport/can.rs with *)
(* its single mailbox, the control interrupt of control/mod.rs and the     *)
(* hardware break.  Either interrupt may run between any two foreground    *)
(* steps; neither runs inside the other or inside a critical section.      *)
(* The routines appear as RoutineContract promises them.                   *)
(*                                                                         *)
(* Commands carry a challenge that matches or does not; the arm window is  *)
(* counted in passes.  Telemetry is left out: it reads and sends only.     *)
(***************************************************************************)
EXTENDS RoutineContract, Naturals

CONSTANTS
    ArmPasses,          \* ARM_WINDOW_MS in foreground passes
    Commanded           \* the routines that RUN commands ask for

DeviceAssumption == ArmPasses \in Nat \ {0} /\ Commanded \subseteq Routines

VARIABLES
    request,        \* REQUESTED_ROUTINE
    abort,          \* ABORT_REASON
    faults,         \* FAULT_FLAGS
    outputs,        \* the motor channels
    driven,         \* ControlState.output_active
    busOk,          \* BUS_VOLTAGE_MV is in the calibration window
    mailbox,        \* RECEIVED_FRAME, NoCommand while RX_PENDING is clear
    armed, window,  \* CalibrationApp.armed and the passes left to arm_deadline_ms
    pc, ready, quiet, disabled, command,    \* locals of service()
    stopping, unready, hit                \* what the properties remember

control == <<sequences, request, abort, faults, outputs, driven>>
locals == <<ready, quiet, disabled, command>>
history == <<stopping, unready, hit>>
vars == <<control, busOk, mailbox, armed, window, pc, locals, history>>

\* Of a RUN that does not match nothing else is looked at.
Runs == {[op |-> "Run", routine |-> r, match |-> r # "None"] : r \in Commanded \cup {"None"}}
Arms == [op : {"Arm"}, match : BOOLEAN]
Stop == [op |-> "Stop"]
NoCommand == [op |-> "None"]
Commands == Runs \cup Arms \cup {Stop}

IsActive == sequences.phase \in Active

Init ==
    /\ sequences = Nothing /\ request = "None" /\ abort = "None" /\ faults = {}
    /\ outputs = FALSE /\ driven = FALSE /\ busOk = FALSE /\ mailbox = NoCommand
    /\ armed = FALSE /\ window = 0 /\ pc = "Start"
    /\ ready = FALSE /\ quiet = FALSE /\ disabled = FALSE /\ command = NoCommand
    /\ stopping = "No" /\ unready = "No" /\ hit = "No"

-----------------------------------------------------------------------------
(* transport/can.rs: the receive interrupt.                                *)

\* A STOP replaces a command that the foreground has not taken.
DropsAny(c) == mailbox # NoCommand              \* mutated: a STOP is dropped too
Drops(c) == mailbox # NoCommand /\ c # Stop

Receive ==
    /\ \E c \in Commands :
        /\ mailbox' = IF Drops(c) THEN mailbox ELSE c
        /\ stopping' = IF c = Stop THEN "Received" ELSE stopping
    /\ UNCHANGED <<control, busOk, armed, window, pc, locals, unready, hit>>

\* An updater reset forces the outputs off and restarts the image.
UpdaterReset ==
    /\ sequences' = Nothing /\ request' = "None" /\ abort' = "None" /\ faults' = {}
    /\ outputs' = FALSE /\ driven' = FALSE /\ busOk' = FALSE /\ mailbox' = NoCommand
    /\ armed' = FALSE /\ window' = 0 /\ pc' = "Start"
    /\ ready' = FALSE /\ quiet' = FALSE /\ disabled' = FALSE /\ command' = NoCommand
    /\ stopping' = "No" /\ unready' = "No" /\ hit' = "No"

-----------------------------------------------------------------------------
(* control/mod.rs: the control interrupt.                                  *)

\* Any control cycle that follows the foreground's decision settles it.
Remember(s, started) ==
    /\ stopping' = IF stopping = "Processed" THEN "Settled" ELSE stopping
    /\ unready' = IF started THEN "No" ELSE IF unready = "Found" THEN "Settled" ELSE unready
    /\ hit' = IF started THEN "No" ELSE IF hit = "Now" THEN "After" ELSE hit

\* stop_output() or the enabled bridge, unless the cycle overruns its budget.
EndCycle(s, drive, started) ==
    /\ \/ /\ sequences' = s /\ driven' = drive /\ UNCHANGED faults
          /\ outputs' = (drive \/ (outputs /\ ~driven))
       \/ /\ sequences' = Stopped(s) /\ driven' = FALSE
          /\ outputs' = FALSE /\ faults' = faults \cup {"Timing"}
    /\ Remember(sequences', started)
    /\ UNCHANGED <<busOk, mailbox, armed, window, pc, locals>>

\* No current sample: neither the request nor the abort is taken.
CycleUnsampled ==
    /\ EndCycle(Stopped(sequences), FALSE, FALSE)
    /\ UNCHANGED <<request, abort>>

Take == request' = "None" /\ abort' = "None"

CycleAborted ==
    /\ abort # "None" /\ Take
    /\ EndCycle(Stopped(sequences), FALSE, FALSE)

CycleFaulted ==
    /\ abort = "None" /\ faults # {} /\ Take
    /\ EndCycle(Stopped(sequences), FALSE, FALSE)

Requested == request # "None"
Current == IF Requested THEN Started(sequences, request) ELSE sequences

CycleSampled ==
    /\ abort = "None" /\ faults = {} /\ Take
    /\ CASE Current.phase \notin Active -> EndCycle(Current, FALSE, Requested)
         [] Current.phase \in Active ->
            \/ EndCycle(Stopped(Current), FALSE, Requested)     \* overcurrent, bus voltage
            \/ /\ busOk /\ Current.phase = "Off"
               /\ \E s \in Observed(Current) : EndCycle(s, FALSE, Requested)
            \/ /\ busOk /\ Current.phase # "Off"
               /\ \E s \in Observed(Current) :
                    \/ EndCycle(s, s.phase \in Active, Requested)
                    \/ EndCycle(Stopped(s), FALSE, Requested)

ControlCycle == CycleUnsampled \/ CycleAborted \/ CycleFaulted \/ CycleSampled

\* The break input removes the outputs before its interrupt latches the fault.
Break ==
    /\ outputs' = FALSE /\ faults' = faults \cup {"Break"}
    /\ hit' = IF IsActive THEN "Now" ELSE hit
    /\ UNCHANGED <<sequences, request, abort, driven, busOk, mailbox, armed, window, pc, locals>>
    /\ UNCHANGED <<stopping, unready>>

-----------------------------------------------------------------------------
(* app.rs: one foreground pass.                                            *)

At(from, to) == pc = from /\ pc' = to

\* The inputs of a pass; readiness includes the bus window.
Start ==
    /\ At("Start", "Check")
    /\ busOk' \in BOOLEAN /\ ready' \in BOOLEAN /\ quiet' \in BOOLEAN
    /\ ready' => busOk'
    /\ disabled' = ~outputs /\ window' = IF window = 0 THEN 0 ELSE window - 1
    /\ unready' = IF ready' THEN "No" ELSE unready
    /\ UNCHANGED <<control, mailbox, armed, command, stopping, hit>>

\* control::snapshot().active.
RunningByOutput == driven       \* mutated: a resting routine is not seen
Running == IsActive

Check ==
    /\ pc = "Check"
    /\ pc' = IF Running /\ ~ready THEN "Abort" ELSE "Window"
    /\ unready' = IF pc' = "Window" /\ ~ready THEN "Found" ELSE unready
    /\ UNCHANGED <<control, busOk, mailbox, armed, window, ready, quiet, disabled, command>>
    /\ UNCHANGED <<stopping, hit>>

Interlock ==
    /\ At("Abort", "Window") /\ abort' = "LocalInterlock" /\ armed' = FALSE
    /\ unready' = "Found"
    /\ UNCHANGED <<sequences, request, faults, outputs, driven, busOk, mailbox, window, locals>>
    /\ UNCHANGED <<stopping, hit>>

ExpireArm ==
    /\ At("Window", "Take") /\ armed' = (armed /\ window # 0)
    /\ UNCHANGED <<control, busOk, mailbox, window, locals, history>>

\* take_received_frame(), and the end of the pass when there is none.
TakeCommand ==
    /\ pc = "Take" /\ mailbox' = NoCommand
    /\ command' = IF mailbox = Stop THEN NoCommand ELSE mailbox
    /\ pc' = CASE mailbox.op = "None" -> "Start" [] mailbox.op = "Stop" -> "Cancel"
               [] OTHER -> mailbox.op
    /\ UNCHANGED <<control, busOk, armed, window, history>>
    /\ IF pc' = "Start" THEN ready' = FALSE /\ quiet' = FALSE /\ disabled' = FALSE
       ELSE UNCHANGED <<ready, quiet, disabled>>

\* A STOP withdraws the request before it looks for a running routine.
Cancel ==
    /\ At("Cancel", "Snapshot") /\ request' = "None"
    /\ UNCHANGED <<sequences, abort, faults, outputs, driven, busOk, mailbox, armed, window>>
    /\ UNCHANGED <<locals, history>>

Snapshot ==
    /\ pc = "Snapshot"
    /\ pc' = IF Running THEN "StopAbort" ELSE "Disarm"
    /\ UNCHANGED <<control, busOk, mailbox, armed, window, ready, quiet, disabled, command, history>>

StopAbort ==
    /\ At("StopAbort", "Disarm") /\ abort' = "Stopped"
    /\ UNCHANGED <<sequences, request, faults, outputs, driven, busOk, mailbox, armed, window>>
    /\ UNCHANGED <<locals, history>>

Disarm ==
    /\ pc = "Disarm" /\ armed' = FALSE
    /\ pc' = IF ready THEN "Acknowledge" ELSE "Take"
    /\ stopping' = IF stopping = "Received" /\ mailbox = Stop THEN stopping ELSE "Processed"
    /\ UNCHANGED <<control, busOk, mailbox, window, locals, unready, hit>>

\* acknowledge_faults(fault_flags()): a fault latched after the flags were
\* read is kept, and an active break input or a disabled stage refuses.
Acknowledge ==
    /\ pc = "Acknowledge" /\ pc' = "Take" /\ outputs' = FALSE
    /\ faults' \in {{}, faults}
    /\ UNCHANGED <<sequences, request, abort, driven, busOk, mailbox, armed, window, locals, history>>

Arm ==
    /\ At("Arm", "Take")
    /\ armed' = (command.match /\ ready /\ ~IsActive /\ faults = {} /\ disabled /\ quiet)
    /\ window' = IF armed' THEN ArmPasses ELSE window
    /\ command' = NoCommand
    /\ UNCHANGED <<control, busOk, mailbox, ready, quiet, disabled, history>>

\* start_ready() and the snapshot of request_*(), then the store.
Run ==
    /\ pc = "Run"
    /\ IF /\ armed /\ command.match /\ ready /\ quiet
          /\ ~IsActive /\ faults = {} /\ Needs[command.routine] \subseteq sequences.known
       THEN pc' = "Request" /\ UNCHANGED <<armed, command>>
       ELSE pc' = "Take" /\ armed' = FALSE /\ command' = NoCommand
    /\ UNCHANGED <<control, busOk, mailbox, window, ready, quiet, disabled, history>>

Request ==
    /\ At("Request", "Take") /\ request' = command.routine
    /\ armed' = FALSE /\ command' = NoCommand
    /\ stopping' = IF stopping \in {"Processed", "Settled"} THEN "No" ELSE stopping
    /\ UNCHANGED <<sequences, abort, faults, outputs, driven, busOk, mailbox, window>>
    /\ UNCHANGED <<ready, quiet, disabled, unready, hit>>

Foreground ==
    \/ Start \/ Check \/ Interlock \/ ExpireArm \/ TakeCommand \/ Cancel \/ Snapshot
    \/ StopAbort \/ Disarm \/ Acknowledge \/ Arm \/ Run \/ Request

Next == Receive \/ UpdaterReset \/ ControlCycle \/ Break \/ Foreground

Spec == Init /\ [][Next]_vars
=============================================================================
