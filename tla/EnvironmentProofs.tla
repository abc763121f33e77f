-------------------------- MODULE EnvironmentProofs --------------------------
(***************************************************************************)
(* Proofs about the battery envelope for all periods, debounces, limits    *)
(* and frames that EnvironmentAssumption allows.                           *)
(***************************************************************************)
EXTENDS EnvironmentProperties, TLAPS

\* The overvoltage count is what the conversions since the latest change of the
\* cutoff leave of it, and no run of them is longer unless it has cut off.
Overvoltage ==
    /\ overRun \in 0..OvervoltageSamples /\ opposed \in 0..OvervoltageSamples
    /\ overActive \/ overRun <= overCount
    /\ overCount = OvervoltageSamples => overActive
    /\ IF overActive THEN OvervoltageSamples - overCount <= opposed
       ELSE overCount <= opposed

Undervoltage ==
    /\ underRun \in 0..UndervoltageSamples
    /\ underActive \/ underRun <= underCount
    /\ underCount = UndervoltageSamples => underActive

\* Limits are held over fewer than MissingEvaluations evaluations, and their age
\* is that of those evaluations and of the one under way.
Holding ==
    /\ sinceComplete \in 0..LongestGap
    /\ latest # NoLimit =>
           /\ sinceUpdate < UpdatePeriod /\ missing < MissingEvaluations
           /\ sinceComplete <= missing * LongestPeriod + sinceUpdate
           /\ missing * UpdatePeriod + sinceUpdate <= sinceComplete

\* The budget after an exhaustion is what has been paid back.
Budget ==
    /\ budget = 0 => recovering
    /\ exhausted \in BOOLEAN /\ paidBack \in 0..Capacity
    /\ exhausted => recovering /\ paidBack = budget
    /\ recovering => latest <= Continuous

Granted ==
    /\ limit = NoLimit <=> latest = NoLimit
    /\ limit # NoLimit => limit <= latest
    /\ overActive \/ underActive => Cut

IInv == TypeOK /\ Overvoltage /\ Undervoltage /\ Holding /\ Budget /\ Granted

-----------------------------------------------------------------------------
(* Arithmetic.                                                             *)

\* The asserts of the configuration, as ranges of the constants.
LEMMA EnvironmentConstants ==
    /\ MaxElapsed \in Nat \ {0}
    /\ SamplePeriod \in Nat \ {0} /\ UpdatePeriod \in Nat \ {0}
    /\ OvervoltageSamples \in Nat \ {0} /\ UndervoltageSamples \in Nat \ {0}
    /\ MissingEvaluations \in Nat \ {0}
    /\ Continuous \in Nat /\ Transient \in Nat /\ Continuous < Transient
    /\ Capacity \in Nat \ {0} /\ Divisor \in Nat \ {0}
    /\ PhaseLimit \in Nat /\ FractionOne \in Nat \ {0}
    /\ Frames \subseteq Frame /\ NotReady \in Frames /\ Currents \subseteq Nat
  BY EnvironmentAssumption DEF LegalBatteryDebounce, LegalBatteryCurrents

\* A quotient of naturals is a natural.
LEMMA QuotientInNat ==
    ASSUME NEW n \in Nat, NEW d \in Nat \ {0}
    PROVE  n \div d \in Nat
  OBVIOUS

\* A share of a limit does not exceed it.
LEMMA ScaleBound ==
    ASSUME NEW counts \in Nat, NEW share \in Nat, NEW one \in Nat \ {0}, share <= one
    PROVE  (counts * share) \div one \in 0..counts
  <1>1. counts * share \in Nat /\ counts * share <= counts * one
    OBVIOUS
  <1>2. (counts * share) \div one \in Nat
    BY <1>1, QuotientInNat
  <1>3. one * ((counts * share) \div one) <= counts * share
    BY <1>1
  <1> DEFINE q == (counts * share) \div one
  <1>4. one * q <= counts * one
    BY <1>1, <1>2, <1>3
  <1>5. q <= counts
    <2> HIDE DEF q
    <2>1. q \in Nat
      BY <1>2 DEF q
    <2> QED
      BY <1>4, <2>1
  <1> QED
    BY <1>2, <1>5

\* One more of a period is one period longer, and fewer are no longer.
LEMMA Multiples ==
    ASSUME NEW p \in Nat, NEW m \in Nat, NEW n \in Nat
    PROVE  /\ (m + 1) * p = m * p + p /\ m * p \in Nat
           /\ m <= n => m * p <= n * p
  OBVIOUS

\* What headroom pays back is a natural number of counts.
LEMMA RecoveryInNat ==
    ASSUME NEW current \in Nat, current <= Continuous
    PROVE  Recovery(current) \in Nat
  <1>1. Continuous - current + Divisor - 1 \in Nat
    BY EnvironmentConstants
  <1> QED
    BY <1>1, QuotientInNat, EnvironmentConstants DEF Recovery

-----------------------------------------------------------------------------
(* One pass.                                                               *)

PassBy(elapsed, sample, current) ==
    /\ elapsed \in 1..MaxElapsed /\ sample \in Frames /\ current \in Currents
    /\ Pass(elapsed, sample, current) /\ Record(elapsed, current)

\* The frame is one of the instance's, and its timers stay in their periods.
LEMMA SamplingStep ==
    ASSUME TypeOK, NEW elapsed, NEW sample, NEW current, PassBy(elapsed, sample, current)
    PROVE  /\ sinceSample' \in 0..(SamplePeriod - 1) /\ fresh' \in BOOLEAN
           /\ frame' \in Frames /\ frame' \in Frame
           /\ sinceUpdate' \in 0..(UpdatePeriod - 1)
  <1> USE EnvironmentConstants
  <1>1. elapsed \in Nat
    BY DEF PassBy
  <1>2. frame' \in Frames
    BY DEF PassBy, Pass, Service, TypeOK
  <1>3. sinceSample' \in 0..(SamplePeriod - 1)
    BY <1>1 DEF PassBy, Pass, Service, SampleDue, TypeOK
  <1>4. fresh' \in BOOLEAN
    BY DEF PassBy, Pass, CountSample, SampleDue, TypeOK
  <1>5. sinceUpdate' \in 0..(UpdatePeriod - 1)
    BY <1>1 DEF PassBy, Pass, NotDue, Evaluate, UpdateDue, TypeOK
  <1> QED
    BY <1>2, <1>3, <1>4, <1>5

\* A conversion moves the overvoltage count and the history together.
LEMMA OvervoltageStep ==
    ASSUME TypeOK, Overvoltage, NEW elapsed, NEW sample, NEW current,
           PassBy(elapsed, sample, current)
    PROVE  /\ overCount' \in 0..OvervoltageSamples /\ overActive' \in BOOLEAN
           /\ Overvoltage'
  <1> DEFINE N == OvervoltageSamples
  <1>1. N \in Nat \ {0} /\ overCount \in 0..N /\ overRun \in 0..N /\ opposed \in 0..N
    BY EnvironmentConstants DEF TypeOK, Overvoltage
  <1>2. overActive \in BOOLEAN
    BY DEF TypeOK
  <1>3. frame' \in Frame
    BY SamplingStep
  <1>4. Counts(elapsed) <=> Converts(elapsed)
    BY DEF Counts, Converts
  <1>5. CASE ~Counts(elapsed)
    <2>1. UNCHANGED <<overCount, overActive, overRun>>
      BY <1>4, <1>5 DEF PassBy, Pass, CountSample, Record, over
    <2>2. opposed' = opposed
      BY <1>4, <1>5, <2>1 DEF PassBy, Record
    <2> QED
      BY <1>1, <1>2, <2>1, <2>2 DEF Overvoltage
  <1>6. CASE Counts(elapsed)
    <2>1. UpdateOvervoltage /\ overRun' = Run(frame'.bus = "Over", overRun, N)
      BY <1>4, <1>6 DEF PassBy, Pass, CountSample, Record
    <2>2. opposed' = IF overActive' # overActive THEN 0
                     ELSE IF (IF overActive THEN Low ELSE frame'.bus = "Over")
                     THEN AtMost(opposed + 1, N) ELSE opposed
      BY <1>4, <1>6 DEF PassBy, Record
    <2>3. CASE frame'.bus = "Over"
      <3>1. /\ overCount' = AtMost(overCount + 1, N)
            /\ overActive' = (overActive \/ overCount' = N)
            /\ overRun' = AtMost(overRun + 1, N)
        BY <2>1, <2>3 DEF UpdateOvervoltage, CountUp, Run
      <3>2. opposed' = IF overActive' # overActive THEN 0
                       ELSE IF overActive THEN opposed ELSE AtMost(opposed + 1, N)
        BY <2>2, <2>3 DEF Low
      <3>3. CASE overActive
        <4>1. overActive' /\ opposed' = opposed
          BY <3>1, <3>2, <3>3
        <4> QED
          BY <1>1, <3>1, <3>3, <4>1 DEF Overvoltage, AtMost
      <3>4. CASE ~overActive /\ overCount' = N
        <4>1. overActive' /\ opposed' = 0
          BY <1>2, <3>1, <3>2, <3>4
        <4> QED
          BY <1>1, <3>1, <3>4, <4>1 DEF Overvoltage, AtMost
      <3>5. CASE ~overActive /\ overCount' # N
        <4>1. ~overActive' /\ opposed' = AtMost(opposed + 1, N)
          BY <1>2, <3>1, <3>2, <3>5
        <4> QED
          BY <1>1, <3>1, <3>5, <4>1 DEF Overvoltage, AtMost
      <3> QED
        BY <3>3, <3>4, <3>5
    <2>4. CASE frame'.bus = "Band"
      <3>1. UNCHANGED <<overCount, overActive>> /\ overRun' = 0 /\ opposed' = opposed
        BY <2>1, <2>2, <2>4 DEF UpdateOvervoltage, Run, Low, over
      <3> QED
        BY <1>1, <1>2, <3>1 DEF Overvoltage
    <2>5. CASE Low
      <3>1. /\ overCount' = Below(overCount, 1) /\ overRun' = 0
            /\ overActive' = (overActive /\ overCount # 0)
        BY <2>1, <2>5 DEF UpdateOvervoltage, Run, Low
      <3>2. CASE ~overActive
        <4>1. ~overActive' /\ opposed' = opposed
          BY <1>2, <2>2, <2>5, <3>1, <3>2 DEF Low
        <4> QED
          BY <1>1, <3>1, <3>2, <4>1 DEF Overvoltage, Below
      <3>3. CASE overActive /\ overCount = 0
        <4>1. ~overActive' /\ opposed' = 0
          BY <1>2, <2>2, <3>1, <3>3
        <4> QED
          BY <1>1, <3>1, <3>3, <4>1 DEF Overvoltage, Below
      <3>4. CASE overActive /\ overCount # 0
        <4>1. overActive' /\ opposed' = AtMost(opposed + 1, N)
          BY <1>2, <2>2, <2>5, <3>1, <3>4
        <4> QED
          BY <1>1, <3>1, <3>4, <4>1 DEF Overvoltage, Below, AtMost
      <3> QED
        BY <3>2, <3>3, <3>4
    <2> QED
      BY <1>3, <2>3, <2>4, <2>5 DEF Frame, Voltage, Low
  <1> QED
    BY <1>5, <1>6

\* An evaluation that knows the voltage counts it, also without a temperature.
LEMMA UndervoltageStep ==
    ASSUME TypeOK, Undervoltage, NEW elapsed, NEW sample, NEW current,
           PassBy(elapsed, sample, current)
    PROVE  /\ underCount' \in 0..UndervoltageSamples /\ underActive' \in BOOLEAN
           /\ Undervoltage'
  <1> DEFINE N == UndervoltageSamples
  <1>1. N \in Nat \ {0} /\ underCount \in 0..N /\ underRun \in 0..N
    BY EnvironmentConstants DEF TypeOK, Undervoltage
  <1>2. underActive \in BOOLEAN
    BY DEF TypeOK
  <1>3. CASE ~Evaluates(elapsed)
    <2>1. UNCHANGED <<underCount, underActive, underRun>>
      BY <1>3 DEF PassBy, Pass, NotDue, Evaluate, CountUndervoltage, VoltageKnown,
                  Evaluates, Record, under
    <2> QED
      BY <1>1, <1>2, <2>1 DEF Undervoltage
  <1>4. CASE Evaluates(elapsed)
    <2>1. UpdateUndervoltage /\ underRun' = Run(frame'.bus = "Under", underRun, N)
      BY <1>4 DEF PassBy, Pass, NotDue, Evaluate, CountUndervoltage, VoltageKnown,
                  Evaluates, Record
    <2>2. CASE frame'.bus = "Under"
      <3>1. /\ underCount' = AtMost(underCount + 1, N)
            /\ underActive' = (underActive \/ underCount' = N)
            /\ underRun' = AtMost(underRun + 1, N)
        BY <2>1, <2>2 DEF UpdateUndervoltage, CountUp, Run
      <3>2. underActive' \in BOOLEAN /\ (underCount' = N => underActive')
        BY <1>2, <3>1
      <3>3. CASE underActive
        <4>1. underActive'
          BY <1>2, <3>1, <3>3
        <4> QED
          BY <1>1, <3>1, <3>2, <4>1 DEF Undervoltage, AtMost
      <3>4. CASE ~underActive
        <4>1. underCount' \in 0..N /\ underRun' \in 0..N /\ underRun' <= underCount'
          BY <1>1, <3>1, <3>4 DEF Undervoltage, AtMost
        <4> QED
          BY <3>2, <4>1 DEF Undervoltage
      <3> QED
        BY <3>3, <3>4
    <2>3. CASE frame'.bus # "Under"
      <3>1. /\ underCount' = Below(underCount, 1) /\ underRun' = 0
            /\ underActive' = (underActive /\ underCount # 0)
        BY <2>1, <2>3 DEF UpdateUndervoltage, Run
      <3>2. underActive' \in BOOLEAN
        BY <1>2, <3>1
      <3> QED
        BY <1>1, <3>1, <3>2 DEF Undervoltage, Below
    <2> QED
      BY <2>2, <2>3
  <1> QED
    BY <1>3, <1>4

\* The counter of missing evaluations keeps pace with the age of the limits.
LEMMA HoldingStep ==
    ASSUME TypeOK, Holding, NEW elapsed, NEW sample, NEW current,
           PassBy(elapsed, sample, current)
    PROVE  missing' \in 0..MissingEvaluations /\ Holding'
  <1> DEFINE M == MissingEvaluations
             L == LongestPeriod
             U == UpdatePeriod
  <1>1. /\ elapsed \in 1..MaxElapsed /\ MaxElapsed \in Nat \ {0} /\ U \in Nat \ {0}
        /\ L = U + MaxElapsed - 1 /\ L \in Nat /\ M \in Nat \ {0}
        /\ missing \in 0..M /\ sinceUpdate \in 0..U
    BY EnvironmentConstants DEF PassBy, LongestPeriod, TypeOK
  <1>2. /\ (missing + 1) * L = missing * L + L /\ missing * L \in Nat
        /\ (missing + 1) * U = missing * U + U /\ missing * U \in Nat
        /\ (missing + 1 <= M => (missing + 1) * L <= M * L)
        /\ M * L \in Nat
    BY <1>1, Multiples
  <1>3. sinceComplete \in 0..(M * L) /\ LongestGap = M * L
    BY DEF Holding, LongestGap
  <1>4. sinceUpdate' \in 0..(U - 1)
    BY SamplingStep
  <1>5. CASE NotDue(elapsed)
    <2>1. /\ missing' = missing /\ latest' = latest /\ sinceUpdate' = sinceUpdate + elapsed
          /\ sinceComplete' = AtMost(sinceComplete + elapsed, M * L)
      BY <1>3, <1>5 DEF NotDue, envelope, PassBy, Record, Completes, Evaluates
    <2>2. sinceComplete' \in 0..(M * L)
      BY <1>1, <1>2, <1>3, <2>1 DEF AtMost
    <2>3. ASSUME latest' # NoLimit
          PROVE  /\ sinceUpdate' < U /\ missing' < M
                 /\ sinceComplete' <= missing' * L + sinceUpdate'
                 /\ missing' * U + sinceUpdate' <= sinceComplete'
      <3>1. /\ sinceUpdate < U /\ missing < M
            /\ sinceComplete <= missing * L + sinceUpdate
            /\ missing * U + sinceUpdate <= sinceComplete
        BY <2>1, <2>3 DEF Holding
      <3>2. (missing + 1) * L <= M * L /\ L >= U
        BY <1>1, <1>2, <3>1
      <3>3. sinceComplete + elapsed < M * L
        BY <1>1, <1>2, <1>3, <1>4, <2>1, <3>1, <3>2
      <3> QED
        BY <1>1, <1>2, <1>3, <1>4, <2>1, <3>1, <3>3 DEF AtMost
    <2> QED
      BY <1>1, <1>3, <2>1, <2>2, <2>3 DEF Holding, LongestGap
  <1>6. CASE UpdateDue(elapsed) /\ sinceUpdate' = 0 /\ Publish(current)
    <2>1. missing' = 0 /\ sinceComplete' = 0
      BY <1>6 DEF Publish, MissingReset, Complete, PassBy, Record, Completes, Evaluates
    <2>2. 0 * L = 0 /\ 0 * U = 0
      BY <1>1
    <2> QED
      BY <1>1, <1>2, <1>3, <1>6, <2>1, <2>2 DEF Holding, LongestGap
  <1>7. CASE UpdateDue(elapsed) /\ sinceUpdate' = 0 /\ ~Complete /\ CountMissing
    <2>1. /\ missing' = AtMost(missing + 1, M)
          /\ sinceComplete' = AtMost(sinceComplete + elapsed, M * L)
      BY <1>3, <1>7 DEF CountMissing, CountUp, PassBy, Record, Completes, Evaluates, Complete
    <2>2. missing' \in 0..M /\ sinceComplete' \in 0..(M * L)
      BY <1>1, <1>2, <1>3, <2>1 DEF AtMost
    <2>3. CASE Withdraw
      BY <1>3, <2>2, <2>3 DEF Withdraw, Holding, LongestGap
    <2>4. CASE Hold
      <3>1. latest # NoLimit /\ missing' < M
        BY <2>4 DEF Hold, HoldsLimits
      <3>2. missing' = missing + 1 /\ missing + 1 < M
        BY <1>1, <2>1, <3>1 DEF AtMost
      <3>3. /\ sinceUpdate < U /\ sinceComplete <= missing * L + sinceUpdate
            /\ missing * U + sinceUpdate <= sinceComplete
        BY <3>1 DEF Holding
      <3>4. elapsed + sinceUpdate <= L /\ U <= elapsed + sinceUpdate
        BY <1>1, <1>7, <3>3 DEF UpdateDue
      <3>5. sinceComplete + elapsed <= (missing + 1) * L
        BY <1>1, <1>2, <1>3, <3>3, <3>4
      <3>6. (missing + 1) * U <= sinceComplete + elapsed
        BY <1>1, <1>2, <1>3, <3>3, <3>4
      <3>7. (missing + 1) * L <= M * L /\ (missing + 1) * L \in Nat /\ (missing + 1) * U \in Nat
        BY <1>1, <1>2, <3>2
      <3>8. sinceComplete' = sinceComplete + elapsed
        <4>1. ~(sinceComplete + elapsed < M * L) => sinceComplete + elapsed = M * L
          BY <1>1, <1>2, <1>3, <3>5, <3>7
        <4> QED
          BY <2>1, <4>1 DEF AtMost
      <3>9. /\ sinceUpdate' < U /\ missing' < M
            /\ sinceComplete' <= missing' * L + sinceUpdate'
            /\ missing' * U + sinceUpdate' <= sinceComplete'
        BY <1>1, <1>3, <1>7, <3>1, <3>2, <3>5, <3>6, <3>7, <3>8
      <3> QED
        BY <1>3, <2>2, <3>9 DEF Holding, LongestGap
    <2>5. Hold \/ Withdraw
      BY <1>7 DEF PassBy, Pass, Evaluate, Publish, NotDue
    <2> QED
      BY <2>3, <2>4, <2>5
  <1> QED
    BY <1>5, <1>6, <1>7 DEF PassBy, Pass, Evaluate, Hold, Withdraw

\* An exhausted budget is paid back in full before the transient limit returns,
\* and every limit it publishes is a natural number within its bound.
LEMMA BudgetStep ==
    ASSUME TypeOK, Budget, NEW elapsed, NEW sample, NEW current,
           PassBy(elapsed, sample, current)
    PROVE  /\ budget' \in 0..Capacity /\ recovering' \in BOOLEAN
           /\ latest' \in {NoLimit} \cup 0..Transient /\ phase' \in 0..PhaseLimit
           /\ Budget'
  <1> DEFINE C == Capacity
  <1>1. /\ C \in Nat \ {0} /\ budget \in 0..C /\ paidBack \in 0..C /\ current \in Nat
        /\ Continuous \in Nat /\ Transient \in Nat /\ Continuous < Transient
    BY EnvironmentConstants DEF TypeOK, Budget, PassBy
  <1>2. recovering \in BOOLEAN /\ exhausted \in BOOLEAN
    BY DEF TypeOK, Budget
  <1>3. /\ paidBack' = IF budget' = 0 \/ ~exhausted THEN 0
                        ELSE IF Completes(elapsed) /\ current <= Continuous
                        THEN AtMost(paidBack + Recovery(current), C) ELSE paidBack
        /\ exhausted' = (budget' = 0 \/ (exhausted /\ paidBack' < C))
    BY DEF PassBy, Record
  <1>4. exhausted' \in BOOLEAN
    BY <1>2, <1>3
  <1>5. CASE UNCHANGED <<budget, recovering>> /\ latest' \in {latest, NoLimit}
             /\ phase' \in {phase, 0} /\ ~Completes(elapsed)
    <2>1. paidBack' \in 0..C /\ (exhausted' => recovering' /\ paidBack' = budget')
      <3>1. CASE budget = 0
        BY <1>1, <1>3, <1>5, <3>1 DEF Budget
      <3>2. CASE budget # 0
        <4>1. exhausted' => exhausted
          BY <1>3, <1>5, <3>2
        <4>2. paidBack' = IF exhausted THEN paidBack ELSE 0
          BY <1>3, <1>5, <3>2
        <4> QED
          BY <1>1, <1>5, <4>1, <4>2 DEF Budget
      <3> QED
        BY <3>1, <3>2
    <2>2. latest' \in {NoLimit} \cup 0..Transient /\ phase' \in 0..PhaseLimit
      BY <1>5, EnvironmentConstants DEF TypeOK
    <2>3. recovering' => latest' <= Continuous
      BY <1>1, <1>5 DEF Budget, NoLimit
    <2> QED
      BY <1>1, <1>2, <1>4, <1>5, <2>1, <2>2, <2>3 DEF Budget
  <1>6. CASE UpdateDue(elapsed) /\ Publish(current)
    <2>1. Completes(elapsed) /\ UpdateBudget(current)
      BY <1>6 DEF Completes, Evaluates, Publish, Complete
    <2>2. frame' \in Frame
      BY SamplingStep
    <2>3. Scale(Transient) \in 0..Transient /\ Scale(PhaseLimit) \in 0..PhaseLimit
      <3>1. /\ frame'.share \in Nat /\ frame'.share <= FractionOne
            /\ FractionOne \in Nat \ {0} /\ PhaseLimit \in Nat
        BY <2>2, EnvironmentConstants DEF Frame
      <3> QED
        BY <1>1, <3>1, ScaleBound DEF Scale
    <2>4. phase' \in 0..PhaseLimit
      BY <1>6, <2>3 DEF Publish
    <2>5. /\ latest' \in 0..Transient
          /\ recovering' => latest' <= Continuous
      <3>1. latest' = IF underActive' THEN 0 ELSE AtMost(TransientLimit, Scale(Transient))
        BY <1>6 DEF Publish
      <3>2. TransientLimit \in 0..Transient /\ (recovering' => TransientLimit = Continuous)
        BY <1>1 DEF TransientLimit
      <3> DEFINE s == Scale(Transient)
                 t == TransientLimit
      <3>3. AtMost(t, s) \in 0..Transient /\ AtMost(t, s) <= t
        <4>1. s \in 0..Transient /\ t \in 0..Transient
          BY <2>3, <3>2
        <4> HIDE DEF s, t
        <4> QED
          BY <4>1, <1>1 DEF AtMost
      <3>4. CASE underActive'
        BY <1>1, <3>1, <3>4
      <3>5. CASE ~underActive'
        BY <1>1, <3>1, <3>2, <3>3, <3>5
      <3> QED
        BY <3>4, <3>5
    <2>6. CASE current > Continuous /\ recovering
      <3>1. UNCHANGED <<budget, recovering>>
        BY <2>1, <2>6 DEF UpdateBudget
      <3>2. ~(current <= Continuous)
        BY <1>1, <2>6
      <3>3. paidBack' = IF budget = 0 \/ ~exhausted THEN 0 ELSE paidBack
        BY <1>3, <3>1, <3>2
      <3>4. paidBack' \in 0..C /\ (exhausted' => paidBack' = budget')
        <4>1. CASE budget = 0
          BY <1>1, <3>1, <3>3, <4>1
        <4>2. CASE budget # 0
          <5>1. exhausted' => exhausted
            BY <1>3, <3>1, <4>2
          <5> QED
            BY <1>1, <3>1, <3>3, <4>2, <5>1 DEF Budget
        <4> QED
          BY <4>1, <4>2
      <3> QED
        BY <1>1, <1>4, <2>4, <2>5, <2>6, <3>1, <3>4 DEF Budget
    <2>7. CASE current > Continuous /\ ~recovering
      <3>1. budget' = Below(budget, current - Continuous) /\ recovering' = (budget' = 0)
        BY <2>1, <2>7 DEF UpdateBudget
      <3>2. budget' \in 0..C
        BY <1>1, <2>7, <3>1 DEF Below
      <3>3. ~exhausted
        BY <2>7 DEF Budget
      <3>4. paidBack' = 0 /\ exhausted' = (budget' = 0)
        BY <1>3, <3>3
      <3>5. /\ recovering' \in BOOLEAN /\ exhausted' \in BOOLEAN
            /\ (budget' = 0 => recovering') /\ (exhausted' => recovering')
        BY <3>1, <3>4
      <3>6. exhausted' => budget' = 0
        BY <3>4
      <3>7. paidBack' \in 0..C /\ (exhausted' => paidBack' = budget')
        BY <1>1, <3>4, <3>6
      <3> QED
        BY <2>4, <2>5, <3>2, <3>5, <3>7 DEF Budget
    <2>8. CASE current <= Continuous
      <3>1. ~(current > Continuous) /\ Recovery(current) \in Nat
        BY <1>1, <2>8, RecoveryInNat
      <3>2. /\ budget' = AtMost(budget + Recovery(current), C)
            /\ recovering' = (recovering /\ budget' # C)
        BY <2>1, <3>1 DEF UpdateBudget, Recovered
      <3> DEFINE r == Recovery(current)
      <3> HIDE DEF r
      <3>3. budget' = AtMost(budget + r, C) /\ r \in Nat
        BY <3>1, <3>2 DEF r
      <3>4. budget' \in 0..C /\ (budget' = 0 => budget = 0)
        BY <1>1, <3>3 DEF AtMost
      <3>5. paidBack' = IF budget' = 0 \/ ~exhausted THEN 0 ELSE AtMost(paidBack + r, C)
        BY <1>3, <2>1, <2>8 DEF r
      <3>6. recovering' \in BOOLEAN /\ (budget' = 0 => recovering')
        <4>1. recovering' \in BOOLEAN
          BY <3>2
        <4>2. ASSUME budget' = 0 PROVE recovering'
          <5>1. recovering
            BY <3>4, <4>2 DEF Budget
          <5>2. budget' # C
            BY <1>1, <4>2
          <5> QED
            BY <3>2, <5>1, <5>2
        <4> QED
          BY <4>1, <4>2
      <3>7. paidBack' \in 0..C
        BY <1>1, <3>3, <3>5 DEF AtMost
      <3>8. ASSUME exhausted' PROVE recovering' /\ paidBack' = budget'
        <4>1. CASE budget' = 0
          BY <3>5, <3>6, <4>1
        <4>2. CASE budget' # 0
          <5>1. exhausted /\ paidBack' < C
            BY <1>3, <3>8, <4>2
          <5>2. recovering /\ paidBack = budget
            BY <5>1 DEF Budget
          <5>3. paidBack' = budget'
            BY <3>3, <3>5, <4>2, <5>1, <5>2
          <5>4. budget' # C
            BY <1>1, <5>1, <5>3
          <5> QED
            BY <3>2, <5>2, <5>3, <5>4
        <4> QED
          BY <4>1, <4>2
      <3> QED
        BY <1>1, <1>4, <2>4, <2>5, <3>4, <3>6, <3>7, <3>8 DEF Budget
    <2> QED
      BY <1>1, <1>2, <2>6, <2>7, <2>8
  <1>7. CASE NotDue(elapsed)
    BY <1>5, <1>7 DEF NotDue, envelope, Completes, Evaluates
  <1>8. CASE Hold \/ Withdraw
    BY <1>5, <1>8 DEF Hold, Withdraw, envelope, Completes, Evaluates, Complete
  <1> QED
    BY <1>6, <1>7, <1>8 DEF PassBy, Pass, Evaluate

\* What a pass returns is the latest limit, or nothing while a cutoff is active.
LEMMA GrantedStep ==
    ASSUME TypeOK', NEW elapsed, NEW sample, NEW current, PassBy(elapsed, sample, current)
    PROVE  limit' \in {NoLimit} \cup 0..Transient /\ Granted'
  <1>1. limit' = IF (overActive' \/ underActive') /\ latest' # NoLimit THEN 0 ELSE latest'
    BY DEF PassBy, Pass, Limit
  <1>2. latest' \in {NoLimit} \cup 0..Transient /\ Transient \in Nat
    BY EnvironmentConstants DEF TypeOK
  <1>3. CASE overActive' \/ underActive'
    BY <1>1, <1>2, <1>3 DEF Granted, Cut, NoLimit
  <1>4. CASE ~(overActive' \/ underActive')
    BY <1>1, <1>2, <1>4 DEF Granted, Cut, NoLimit
  <1> QED
    BY <1>3, <1>4

-----------------------------------------------------------------------------
(* The inductive invariant and what follows from it.                       *)

LEMMA InitIInv == HInit => IInv
  <1> SUFFICES ASSUME HInit PROVE IInv
    OBVIOUS
  <1> USE EnvironmentConstants DEF HInit, Init, HistoryInit
  <1>1. TypeOK
    <2>1. /\ fresh \in BOOLEAN /\ overActive \in BOOLEAN /\ underActive \in BOOLEAN
          /\ recovering \in BOOLEAN
      OBVIOUS
    <2>2. /\ sinceSample \in 0..(SamplePeriod - 1) /\ frame \in Frames
          /\ sinceUpdate \in 0..UpdatePeriod
      OBVIOUS
    <2>3. /\ overCount \in 0..OvervoltageSamples
          /\ underCount \in 0..UndervoltageSamples
          /\ missing \in 0..MissingEvaluations
          /\ phase \in 0..PhaseLimit /\ budget \in 0..Capacity
      OBVIOUS
    <2>4. latest \in {NoLimit} \cup 0..Transient /\ limit \in {NoLimit} \cup 0..Transient
      BY DEF NoLimit
    <2> QED
      BY <2>1, <2>2, <2>3, <2>4 DEF TypeOK
  <1>2. Overvoltage /\ Undervoltage
    BY DEF Overvoltage, Undervoltage
  <1>3. Holding
    <2>1. MissingEvaluations * LongestPeriod \in Nat
      BY Multiples DEF LongestPeriod
    <2> QED
      BY <2>1 DEF Holding, LongestGap
  <1>4. Budget
    <2>1. budget # 0 /\ paidBack \in 0..Capacity
      OBVIOUS
    <2> QED
      BY <2>1 DEF Budget
  <1>5. Granted
    BY DEF Granted, Cut
  <1> QED
    BY <1>1, <1>2, <1>3, <1>4, <1>5 DEF IInv

LEMMA PassIInv ==
    ASSUME IInv, NEW elapsed, NEW sample, NEW current, PassBy(elapsed, sample, current)
    PROVE  IInv'
  <1> USE DEF IInv
  <1>1. Overvoltage' /\ overCount' \in 0..OvervoltageSamples /\ overActive' \in BOOLEAN
    BY OvervoltageStep
  <1>2. Undervoltage' /\ underCount' \in 0..UndervoltageSamples /\ underActive' \in BOOLEAN
    BY UndervoltageStep
  <1>3. Holding' /\ missing' \in 0..MissingEvaluations
    BY HoldingStep
  <1>4. /\ Budget' /\ budget' \in 0..Capacity /\ recovering' \in BOOLEAN
        /\ latest' \in {NoLimit} \cup 0..Transient /\ phase' \in 0..PhaseLimit
    BY BudgetStep
  <1>5. /\ sinceSample' \in 0..(SamplePeriod - 1) /\ frame' \in Frames /\ fresh' \in BOOLEAN
        /\ sinceUpdate' \in 0..UpdatePeriod
    BY SamplingStep, EnvironmentConstants
  <1>6. limit' \in {NoLimit} \cup 0..Transient
    <2>1. limit' \in {0, latest'}
      BY DEF PassBy, Pass, Limit
    <2> QED
      BY <1>4, <2>1, EnvironmentConstants
  <1>7. TypeOK'
    BY <1>1, <1>2, <1>3, <1>4, <1>5, <1>6 DEF TypeOK
  <1>8. Granted'
    BY <1>7, GrantedStep
  <1> QED
    BY <1>1, <1>2, <1>3, <1>4, <1>7, <1>8

LEMMA StutterIInv == IInv /\ UNCHANGED allVars => IInv'
  BY DEF IInv, TypeOK, Overvoltage, Undervoltage, Holding, Budget, Granted, Cut, allVars,
         vars, historyVars, sampling, over, under, envelope

LEMMA NextPass ==
    ASSUME HNext
    PROVE  \E elapsed, sample, current : PassBy(elapsed, sample, current)
  BY DEF HNext, PassBy

\* The envelope's bookkeeping is an invariant.
THEOREM Invariance == HSpec => []IInv
  <1>1. IInv /\ [HNext]_allVars => IInv'
    <2>1. ASSUME IInv, HNext PROVE IInv'
      BY <2>1, NextPass, PassIInv
    <2> QED
      BY <2>1, StutterIInv
  <1> QED
    BY <1>1, InitIInv, PTL DEF HSpec

\* Counters, budget and limits keep their ranges.
THEOREM TypeCorrect == HSpec => []TypeOK
  <1>1. IInv => TypeOK
    BY DEF IInv
  <1> QED
    BY <1>1, Invariance, PTL

\* A full run of conversions or evaluations beyond a threshold cuts the current
\* off, over held limits as well.
THEOREM CutsInTime == HSpec => []CutInTime
  <1>1. IInv => CutInTime
    <2> SUFFICES ASSUME IInv, overRun = OvervoltageSamples \/ underRun = UndervoltageSamples
                 PROVE  Cut
      BY DEF CutInTime
    <2>1. CASE overRun = OvervoltageSamples
      <3>1. overActive \/ overCount = OvervoltageSamples
        BY <2>1, EnvironmentConstants DEF IInv, TypeOK, Overvoltage
      <3> QED
        BY <3>1 DEF IInv, Overvoltage, Granted
    <2>2. CASE underRun = UndervoltageSamples
      <3>1. underActive \/ underCount = UndervoltageSamples
        BY <2>2, EnvironmentConstants DEF IInv, TypeOK, Undervoltage
      <3> QED
        BY <3>1 DEF IInv, Undervoltage, Granted
    <2> QED
      BY <2>1, <2>2
  <1> QED
    BY <1>1, Invariance, PTL

\* The limits end with the last of the evaluations that may be missed.
THEOREM LimitsExpire == HSpec => []HeldLimitsExpire
  <1>1. IInv => HeldLimitsExpire
    <2> SUFFICES ASSUME IInv, sinceComplete >= LongestGap, latest # NoLimit PROVE FALSE
      BY DEF IInv, Granted, HeldLimitsExpire
    <2> DEFINE M == MissingEvaluations
               L == LongestPeriod
    <2>1. /\ L \in Nat /\ UpdatePeriod <= L /\ M \in Nat /\ missing \in Nat
          /\ missing + 1 <= M /\ sinceUpdate \in Nat /\ sinceUpdate < UpdatePeriod
          /\ UpdatePeriod \in Nat
      BY EnvironmentConstants DEF IInv, TypeOK, Holding, LongestPeriod
    <2>2. (missing + 1) * L = missing * L + L /\ (missing + 1) * L <= M * L
          /\ missing * L \in Nat /\ M * L \in Nat
      BY <2>1, Multiples
    <2>3. sinceComplete \in Nat /\ sinceComplete <= missing * L + sinceUpdate
          /\ M * L <= sinceComplete
      BY <2>2 DEF IInv, Holding, LongestGap
    <2> HIDE DEF L, M
    <2> QED
      BY <2>1, <2>2, <2>3
  <1> QED
    BY <1>1, Invariance, PTL

\* The limits of a pass follow the readings that it stands on.
THEOREM LimitsFollow == HSpec => []LimitsFollowReadings
  <1>1. CutInTime /\ HeldLimitsExpire => LimitsFollowReadings
    BY DEF LimitsFollowReadings
  <1> QED
    BY <1>1, CutsInTime, LimitsExpire, PTL

\* The continuous limit holds from the exhaustion of the budget to its recovery.
THEOREM ExhaustedContinuous == HSpec => []ExhaustedStaysContinuous
  <1>1. IInv => ExhaustedStaysContinuous
    BY EnvironmentConstants
    DEF IInv, TypeOK, Budget, Granted, ExhaustedStaysContinuous, NoLimit
  <1> QED
    BY <1>1, Invariance, PTL

\* The cutoff changes only with enough distinct conversions that speak for it.
THEOREM CutoffNeedsSamples == HSpec => CutNeedsSamples
  <1> DEFINE N == OvervoltageSamples
             Changes == overActive' # overActive =>
                            opposed + 1 >= N + (IF overActive THEN 1 ELSE 0)
  <1>1. IInv /\ [HNext]_allVars => [Changes]_allVars
    <2> SUFFICES ASSUME IInv, HNext, overActive' # overActive PROVE Changes
      OBVIOUS
    <2>1. PICK elapsed, sample, current : PassBy(elapsed, sample, current)
      BY NextPass
    <2>2. /\ N \in Nat \ {0} /\ overCount \in 0..N /\ opposed \in 0..N
          /\ overActive \in BOOLEAN
      BY EnvironmentConstants DEF IInv, TypeOK, Overvoltage
    <2>3. UpdateOvervoltage
      BY <2>1 DEF PassBy, Pass, CountSample, over
    <2>4. CASE overActive
      <3>1. overCount = 0
        BY <2>3, <2>4 DEF UpdateOvervoltage, over
      <3> QED
        BY <2>2, <2>4, <3>1 DEF IInv, Overvoltage
    <2>5. CASE ~overActive
      <3>1. overCount' = AtMost(overCount + 1, N) /\ overCount' = N
        BY <2>2, <2>3, <2>5 DEF UpdateOvervoltage, CountUp, over
      <3>2. overCount + 1 >= N
        BY <2>2, <3>1 DEF AtMost
      <3> QED
        BY <2>2, <2>5, <3>2 DEF IInv, Overvoltage
    <2> QED
      BY <2>4, <2>5
  <1> QED
    BY <1>1, Invariance, PTL DEF HSpec, CutNeedsSamples

\* Limits are withdrawn only after an unbroken run of incomplete evaluations.
THEOREM GapsKeepLimits == HSpec => ShortGapsKeepLimits
  <1> DEFINE M == MissingEvaluations
             U == UpdatePeriod
             Withdrawn == latest # NoLimit /\ latest' = NoLimit => sinceComplete' >= M * U
  <1>1. IInv /\ [HNext]_allVars => [Withdrawn]_allVars
    <2> SUFFICES ASSUME IInv, HNext, latest # NoLimit, latest' = NoLimit PROVE Withdrawn
      OBVIOUS
    <2>1. PICK elapsed, sample, current : PassBy(elapsed, sample, current)
      BY NextPass
    <2>2. ~NotDue(elapsed) /\ ~Hold
      BY DEF NotDue, Hold, envelope
    <2>3. ~Publish(current)
      <3>1. SUFFICES ASSUME Publish(current) PROVE FALSE
        OBVIOUS
      <3>2. TypeOK' /\ frame' \in Frame
        BY <2>1, PassIInv, SamplingStep DEF IInv
      <3>3. Scale(Transient) \in 0..Transient
        BY <3>2, ScaleBound, EnvironmentConstants DEF Scale, Frame
      <3>4. latest' \in {0, TransientLimit, Scale(Transient)}
        BY <3>1 DEF Publish, AtMost
      <3>5. TransientLimit \in Nat
        BY EnvironmentConstants DEF TransientLimit
      <3> DEFINE s == Scale(Transient)
      <3>6. s \in Nat /\ latest' \in {0, TransientLimit, s}
        BY <3>3, <3>4, EnvironmentConstants
      <3> HIDE DEF s
      <3> QED
        BY <3>5, <3>6 DEF NoLimit
    <2>4. UpdateDue(elapsed) /\ Withdraw
      BY <2>1, <2>2, <2>3 DEF PassBy, Pass, Evaluate
    <2>5. /\ missing \in Nat /\ missing < M /\ M \in Nat \ {0} /\ U \in Nat \ {0}
          /\ sinceUpdate \in Nat /\ missing * U + sinceUpdate <= sinceComplete
          /\ elapsed \in Nat /\ U <= sinceUpdate + elapsed
          /\ MaxElapsed \in Nat \ {0} /\ sinceComplete \in 0..LongestGap
      BY <2>1, <2>4, EnvironmentConstants DEF IInv, TypeOK, Holding, PassBy, UpdateDue
    <2>6. missing + 1 = M
      BY <2>4, <2>5 DEF Withdraw, CountMissing, CountUp, AtMost, HoldsLimits
    <2>7. sinceComplete' = AtMost(sinceComplete + elapsed, LongestGap)
      BY <2>1, <2>4 DEF PassBy, Record, Completes, Evaluates, Withdraw, Complete
    <2>8. M * U = missing * U + U /\ missing * U \in Nat
      BY <2>5, <2>6, Multiples
    <2>9. M * U <= LongestGap /\ LongestGap \in Nat
      <3>1. U * M <= LongestPeriod * M /\ LongestPeriod * M \in Nat
        BY <2>5, Multiples DEF LongestPeriod
      <3> QED
        BY <2>5, <3>1 DEF LongestGap, LongestPeriod
    <2>10. sinceComplete + elapsed >= M * U
      BY <2>5, <2>8
    <2> QED
      BY <2>5, <2>7, <2>8, <2>9, <2>10 DEF AtMost
  <1> QED
    BY <1>1, Invariance, PTL DEF HSpec, ShortGapsKeepLimits
=============================================================================
