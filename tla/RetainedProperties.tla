-------------------------- MODULE RetainedProperties --------------------------
(***************************************************************************)
(* What a reader of the boot report and of the latest PWM failure may      *)
(* conclude from them, whatever resets and exceptions cut short.           *)
(***************************************************************************)
EXTENDS RetainedRecord

VARIABLES
    first,          \* the first failure committed since the slot was cleared
    crashed,        \* a watchdog reset since the latest completed capture
    torn,           \* a reset has cut off the latest capture
    owed,           \* the failure that this boot has to report
    newest          \* the first failure of the latest episode it knows of

reportHistory == <<first, crashed, torn, owed, newest>>
reportVars == <<recordVars, reportHistory>>

\* A failure counts from the store of its header, an episode ends when the
\* header is cleared; a watchdog reset makes the next capture report it.
Commits == writer = "Failure" /\ done' > done /\ Order[done'] = "header"
Clears == writer \in {"Capture", "Acknowledge"} /\ done' > done /\ Order[done'] = "header"
Boots == writer # "Boot" /\ writer' = "Boot"
Powers == "Power" \in csr' /\ writer' = "Boot"
Reads == writer = "Boot" /\ writer' = "Capture"

ReportHistoryInit ==
    first = 0 /\ crashed = FALSE /\ torn = FALSE /\ owed = 0 /\ newest = 0

RecordHistory(watchdog) ==
    /\ first' = IF Powers \/ Clears THEN 0
                ELSE IF Commits /\ first = 0 THEN failures ELSE first
    /\ crashed' = IF Powers \/ (writer = "Capture" /\ writer' = "None") THEN FALSE
                  ELSE crashed \/ watchdog
    /\ torn' = IF Boots THEN writer = "Capture" ELSE torn
    /\ owed' = IF Reads THEN (IF crashed THEN first ELSE 0) ELSE owed
    /\ newest' = IF Reads THEN owed'
                 ELSE IF Commits /\ first = 0 THEN failures ELSE newest

ReportInit == RecordInit /\ ReportHistoryInit
ReportNext ==
    \/ WatchdogReset /\ RecordHistory(TRUE)
    \/ (Write \/ PinReset \/ SoftwareReset \/ PowerLoss) /\ RecordHistory(FALSE)
ReportSpec == ReportInit /\ [][ReportNext]_reportVars

Unowned == writer = "None"

-----------------------------------------------------------------------------
\* Every word holds what some writer stores there; noise from power-up stays
\* in the record and never reaches the report.
RecordTypes ==
    /\ csr \in SUBSET ResetFlag /\ writer \in Writer /\ done \in 0..Len(Order)
    /\ retained \in Context({"Valid", "Noise"},
                            {"None", "Loss", "Noise"} \cup Handler, 0..(MaxFailures + 1))
    /\ report \in Context({"Valid"}, {"None", "Loss"} \cup Handler, Word)
    /\ latest \in [PwmField -> Word] /\ failures \in Word

\* Neither the boot report nor the latest failure ever mixes the words of two
\* failures, or of a failure and a cleared slot, under a cause.
FailureIsWhole ==
    \A context \in {report, latest} :
        context.header # 0 => \A f \in PwmField : context[f] = context.header

\* After a watchdog reset the boot reports the first unacknowledged failure of
\* the boot that the watchdog ended, also if further pin resets hit before it
\* could be read; after any other reset it reports none, and none twice.
ReportsTheCrash == Booted => report.header = owed

\* README ("Pages 24 and 25"): the first failure of the latest episode of this
\* boot, or the one that the previous boot has left.
LatestIsFirst == Unowned => latest.header = newest

\* An exception is reported with its reason or not at all: a detail that an
\* exception stored never passes for the reason of a safety loss.  Only a pin
\* reset that hits the capture itself can separate the two.
DetailHasItsReason ==
    [][Reads /\ ~torn /\ report'.fatal = "None"
           => report'.detail \in {"None", "Loss"}]_reportVars

\* What is read of a PWM failure, in the boot report and by telemetry, is one
\* failure, the one that it is taken for.
ReportIsTrue == FailureIsWhole /\ ReportsTheCrash /\ LatestIsFirst
=============================================================================
