------------------------ MODULE EnvironmentProperties ------------------------
(***************************************************************************)
(* What oxifoc-f103/README.md promises of the battery envelope, over the   *)
(* conversions and evaluations that have happened.                         *)
(***************************************************************************)
EXTENDS EnvironmentMonitor

VARIABLES
    overRun,        \* consecutive conversions above the overvoltage limit
    opposed,        \* conversions against the cutoff's state since it changed
    underRun,       \* consecutive known evaluations below the minimum voltage
    sinceComplete,  \* time since the latest complete evaluation (saturating)
    exhausted,      \* the budget has run out and is not paid back yet
    paidBack        \* recovered since it ran out

historyVars == <<overRun, opposed, underRun, sinceComplete, exhausted, paidBack>>
allVars == <<vars, historyVars>>

\* The longest time between two evaluations, and that of all that may be missed.
LongestPeriod == UpdatePeriod + MaxElapsed - 1
LongestGap == MissingEvaluations * LongestPeriod

HistoryInit ==
    /\ overRun = 0 /\ opposed = 0 /\ underRun = 0
    /\ sinceComplete = LongestGap /\ exhausted = FALSE /\ paidBack = 0

Converts(elapsed) == frame'.valid /\ (fresh \/ SampleDue(elapsed))
Low == frame'.bus \in {"Under", "Normal"}
Evaluates(elapsed) == UpdateDue(elapsed) /\ frame'.valid
Completes(elapsed) == Evaluates(elapsed) /\ frame'.motor
Run(holds, length, bound) == IF holds THEN AtMost(length + 1, bound) ELSE 0

Record(elapsed, current) ==
    /\ IF Converts(elapsed)
       THEN overRun' = Run(frame'.bus = "Over", overRun, OvervoltageSamples)
       ELSE UNCHANGED overRun
    /\ opposed' = IF overActive' # overActive THEN 0
                  ELSE IF /\ Converts(elapsed)
                          /\ IF overActive THEN Low ELSE frame'.bus = "Over"
                       THEN AtMost(opposed + 1, OvervoltageSamples) ELSE opposed
    /\ underRun' = IF Evaluates(elapsed)
                   THEN Run(frame'.bus = "Under", underRun, UndervoltageSamples)
                   ELSE underRun
    /\ sinceComplete' = IF Completes(elapsed) THEN 0
                        ELSE AtMost(sinceComplete + elapsed, LongestGap)
    /\ paidBack' = IF budget' = 0 \/ ~exhausted THEN 0
                   ELSE IF Completes(elapsed) /\ current <= Continuous
                   THEN AtMost(paidBack + Recovery(current), Capacity) ELSE paidBack
    /\ exhausted' = (budget' = 0 \/ (exhausted /\ paidBack' < Capacity))

HInit == Init /\ HistoryInit
HNext ==
    \E elapsed \in 1..MaxElapsed, sample \in Frames, current \in Currents :
        Pass(elapsed, sample, current) /\ Record(elapsed, current)
HSpec == HInit /\ [][HNext]_allVars

Cut == limit \in {NoLimit, 0}

-----------------------------------------------------------------------------
\* The counters stay within their debounces, the budget within its capacity and
\* every limit within the transient one.
TypeOK ==
    /\ sinceSample \in 0..(SamplePeriod - 1) /\ frame \in Frames /\ fresh \in BOOLEAN
    /\ sinceUpdate \in 0..UpdatePeriod
    /\ overCount \in 0..OvervoltageSamples /\ overActive \in BOOLEAN
    /\ underCount \in 0..UndervoltageSamples /\ underActive \in BOOLEAN
    /\ missing \in 0..MissingEvaluations
    /\ latest \in {NoLimit} \cup 0..Transient /\ limit \in {NoLimit} \cup 0..Transient
    /\ phase \in 0..PhaseLimit /\ budget \in 0..Capacity /\ recovering \in BOOLEAN

\* README: so many consecutive conversions above the limit, or evaluations below
\* the minimum voltage, leave no battery current, "including over held limits"
\* and in the pass that completes them.
CutInTime ==
    overRun = OvervoltageSamples \/ underRun = UndervoltageSamples => Cut

\* README: "one noisy conversion cannot trip it".  The overvoltage cutoff
\* changes only with the last of OvervoltageSamples distinct conversions (one
\* more for its release) that speak for the change, however many passes saw each.
CutNeedsSamples ==
    [][overActive' # overActive =>
           opposed + 1 >= OvervoltageSamples + (IF overActive THEN 1 ELSE 0)]_allVars

\* Limits outlive the data they came from by less than MissingEvaluations
\* periods.
HeldLimitsExpire == sinceComplete >= LongestGap => limit = NoLimit

\* environment.rs ("MISSING_DATA_EVALUATIONS"): however incomplete and
\* complete evaluations alternate, only an unbroken run of MissingEvaluations
\* incomplete ones withdraws the limits.
ShortGapsKeepLimits ==
    [][latest # NoLimit /\ latest' = NoLimit =>
           sinceComplete' >= MissingEvaluations * UpdatePeriod]_allVars

\* README: "after exhaustion, the continuous limit remains active until recovery
\* is complete".
ExhaustedStaysContinuous == exhausted => limit <= Continuous

\* The limits of a pass follow the readings: a bus beyond its thresholds cuts
\* them in time, and readings that stay away end them.
LimitsFollowReadings == CutInTime /\ HeldLimitsExpire
=============================================================================
