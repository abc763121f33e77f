---------------------------- MODULE RetainedRecord ----------------------------
(***************************************************************************)
(* The reset forensics of oxifoc-f103/src/safety/runtime.rs and            *)
(* retained.rs: a record in SRAM that resets do not clear, written word by *)
(* word by the boot code, the TIM1 interrupts, the fault acknowledgement   *)
(* and the fatal handlers, and read back by the next boot.  A reset may    *)
(* hit between any two stores, and the two handlers that PRIMASK does not  *)
(* hold back may cut off any other writer.                                 *)
(*                                                                         *)
(* One step is one store of one field.  A field stands for words that      *)
(* always change together: the two signature words, the stacked pc and lr. *)
(* A PWM failure is its number, and each of its four words holds the       *)
(* number of the failure it belongs to.  The checkpoint, cycle and timing  *)
(* words are single stores that nothing is compared with.                  *)
(***************************************************************************)
EXTENDS Naturals, Sequences

CONSTANT MaxFailures        \* bound on the PWM failures of a behaviour

ASSUME RetainedAssumption == MaxFailures \in Nat

VARIABLES
    csr,            \* the reset flags of RCC_CSR: sticky until cleared
    retained,       \* RETAINED_CONTEXT
    writer,         \* who owns the record
    done,           \* how many of its stores that writer has made
    failures,       \* PWM failures so far
    report,         \* the BOOT_* statics
    latest          \* LATEST_PWM_FAILURE

recordVars == <<csr, retained, writer, done, failures, report, latest>>

ResetFlag == {"Pin", "Power", "Software", "Watchdog"}
Handler == {"Panic", "HardFault", "Nmi"}
Writer == {"Boot", "Capture", "None", "Failure", "Acknowledge"} \cup Handler

PwmField == {"header", "w1", "w2", "w3"}
Word == 0..MaxFailures
Context(signature, exception, word) ==
    [signature : signature, fatal : exception, detail : exception,
     address : exception, header : word, w1 : word, w2 : word, w3 : word]

\* RetainedContext::active(), which is also what BOOT_* holds by default.
FreshContext == [signature |-> "Valid", fatal |-> "None", detail |-> "None",
           address |-> "None", header |-> 0, w1 |-> 0, w2 |-> 0, w3 |-> 0]
PowerUpNoise ==
    [signature |-> "Noise", fatal |-> "Noise", detail |-> "Noise",
     address |-> "Noise", header |-> MaxFailures + 1, w1 |-> MaxFailures + 1,
     w2 |-> MaxFailures + 1, w3 |-> MaxFailures + 1]
Failure(context) == [f \in PwmField |-> context[f]]

RecordInit ==
    /\ csr = {"Pin", "Power"} /\ retained = PowerUpNoise
    /\ writer = "Boot" /\ done = 0 /\ failures = 0
    /\ report = FreshContext /\ latest = Failure(FreshContext)

-----------------------------------------------------------------------------
(* The writers and the order of their stores.                              *)

RecordHeaderFirst == <<"header", "w1", "w2", "w3">>     \* mutated: commits first
RecordOrder == <<"w1", "w2", "w3", "header">>
FatalDetailFirst == <<"detail", "fatal", "address">>    \* mutated: reason later
FatalOrder == <<"fatal", "detail", "address">>
ClearOrder == <<"header", "w1", "w2", "w3">>

\* The structure copy of capture_boot_diagnostics() goes up in address order.
CaptureOrder ==
    <<"signature", "fatal", "detail", "address", "header", "w1", "w2", "w3">>

Order ==
    CASE writer = "Capture" -> CaptureOrder
      [] writer = "Failure" -> RecordOrder
      [] writer = "Acknowledge" -> ClearOrder
      [] writer \in Handler -> FatalOrder
      [] OTHER -> <<>>
Stored(field) ==
    CASE writer = "Failure" -> failures
      [] writer \in Handler -> writer
      [] OTHER -> FreshContext[field]
Finished == done = Len(Order)

Store ==
    /\ done < Len(Order)
    /\ retained' = [retained EXCEPT ![Order[done + 1]] = Stored(Order[done + 1])]
    /\ done' = done + 1
    /\ UNCHANGED <<csr, writer, failures, report, latest>>

Begin(who) == writer' = who /\ done' = 0

\* boot_diagnostics(): nothing is believed but a signed record that a watchdog
\* reset has left.
BootDiagnostics(flags, context) ==
    IF "Watchdog" \in flags /\ context.signature = "Valid" THEN context ELSE FreshContext

\* capture_boot_diagnostics(): read, write a fresh record, clear the flags.
CaptureRead ==
    /\ writer = "Boot"
    /\ report' = BootDiagnostics(csr, retained)
    /\ Begin("Capture")
    /\ UNCHANGED <<csr, retained, failures, latest>>

ClearedFlags == {}
CaptureEnd ==
    /\ writer = "Capture" /\ Finished
    /\ csr' = ClearedFlags /\ latest' = Failure(report)
    /\ Begin("None")
    /\ UNCHANGED <<retained, failures, report>>

SlotIsEmpty(header) == header = 0

\* record_pwm_failure(), from the TIM1 interrupts or, with interrupts masked,
\* at the end of an acknowledgement that finds the outputs not ready.
RecordFailure ==
    /\ writer = "None" \/ (writer = "Acknowledge" /\ Finished)
    /\ failures < MaxFailures /\ failures' = failures + 1
    /\ Begin(IF SlotIsEmpty(retained.header) THEN "Failure" ELSE "None")
    /\ UNCHANGED <<csr, retained, report, latest>>

Recorded ==
    /\ writer = "Failure" /\ Finished
    /\ latest' = [f \in PwmField |-> failures]
    /\ Begin("None")
    /\ UNCHANGED <<csr, retained, failures, report>>

\* clear_current_pwm_failure(), with the motor off and interrupts masked.
ClearFailure ==
    /\ writer = "None"
    /\ Begin("Acknowledge")
    /\ UNCHANGED <<csr, retained, failures, report, latest>>

Cleared ==
    /\ writer = "Acknowledge" /\ Finished
    /\ Begin("None")
    /\ UNCHANGED <<csr, retained, failures, report, latest>>

\* record_safety_loss() of the control interrupt: a single word.
RecordSafetyLoss ==
    /\ writer = "None"
    /\ retained' = [retained EXCEPT !.detail = "Loss"]
    /\ UNCHANGED <<csr, writer, done, failures, report, latest>>

\* record_fatal() masks interrupts and never returns; a hard fault and the
\* clock-security NMI reach into masked sections, the NMI also into the
\* record of another handler.  DefaultHandler is a Panic with a detail.
RecordFatal(handler) ==
    /\ CASE handler = "Panic" -> writer = "None"
         [] handler = "HardFault" -> writer \in {"None", "Failure", "Acknowledge"}
         [] handler = "Nmi" -> writer \notin {"Boot", "Capture", "Nmi"}
    /\ Begin(handler)
    /\ UNCHANGED <<csr, retained, failures, report, latest>>

-----------------------------------------------------------------------------
(* Resets: SRAM survives all of them but a loss of power, the statics none. *)

Reset(cause) ==
    /\ csr' = csr \cup {"Pin", cause}
    /\ Begin("Boot")
    /\ report' = FreshContext /\ latest' = Failure(FreshContext)
    /\ UNCHANGED failures

\* The watchdogs run from the end of the initialisation to the next reset.
Booted == writer \notin {"Boot", "Capture"}
WatchdogReset == Booted /\ Reset("Watchdog") /\ UNCHANGED retained
PinReset == Reset("Pin") /\ UNCHANGED retained

\* emergency_shutdown() and the reset that the updater has asked for.
SoftwareReset == writer = "None" /\ Reset("Software") /\ UNCHANGED retained

PowerLoss ==
    /\ csr' = {"Pin", "Power"} /\ retained' \in {retained, PowerUpNoise}
    /\ Begin("Boot")
    /\ report' = FreshContext /\ latest' = Failure(FreshContext)
    /\ UNCHANGED failures

Write ==
    \/ Store \/ CaptureRead \/ CaptureEnd \/ RecordFailure \/ Recorded
    \/ ClearFailure \/ Cleared \/ RecordSafetyLoss
    \/ \E handler \in Handler : RecordFatal(handler)

RecordNext == Write \/ WatchdogReset \/ PinReset \/ SoftwareReset \/ PowerLoss

RecordSpec == RecordInit /\ [][RecordNext]_recordVars
=============================================================================
