---------------------------- MODULE ForegroundProofs ----------------------------
(***************************************************************************)
(* What a foreground pass of the ride image takes in, commands and sends,  *)
(* for all debounces, timeouts, limits and numbers of slots.  Inputs: the  *)
(* inductive invariant ties the settled level to the pin and a demand to   *)
(* the low phases that earned it.  Command: the clamp is bounded by the    *)
(* circle, whose root drops bits on the safe side, and by the rounded      *)
(* power that the battery allows.  CAN: a mailbox with TXRQ set holds what *)
(* is owed, and the chosen one stays empty until it is filled.             *)
(***************************************************************************)
EXTENDS RideInputsProperties, CurrentCommandProperties, CanTransportProperties,
        WellFoundedInduction, TLAPS

-----------------------------------------------------------------------------
(* The rider's inputs.                                                     *)

\* The level that is settled and the samples that contradict it: the pin has
\* been as it is for at most the samples that count against the level.
Level ==
    /\ {debouncedLow, pin, fast} \subseteq BOOLEAN
    /\ matching \in 0..(Debounce - 1) /\ phaseAge \in 0..Oldest
    /\ matching = 0 <=> pin = debouncedLow
    /\ still \in 0..Longest
    /\ matching > 0 => still <= (matching - 1) * MaxGap
    /\ phaseAge <= Slow => still <= phaseAge + (Debounce - 1) * MaxGap

\* A low phase under way is one more that has been earned, unless it is too long
\* to count.
Earning ==
    /\ qualified \in 0..Qualifying /\ earned \in 0..Qualifying
    /\ previousLow \in 0..MaximumLow /\ average \in 0..MaximumLow
    /\ width \in 0..Debounce
    /\ ~debouncedLow => width = matching
    /\ qualified <= earned
    /\ debouncedLow /\ phaseAge <= MaximumLow =>
           qualified < earned \/ earned = Qualifying

\* What the latest pass reported.
Reported ==
    /\ demand \in 0..MaximumLow
    /\ demand > 0 => qualified = Qualifying /\ phaseAge <= (IF fast THEN Fast ELSE Slow)

\* A scan that the DMA flag stands for is one that no frame has been made of.
Scanned ==
    /\ {complete, running, valid, scanned, converted} \subseteq BOOLEAN
    /\ analogAge \in 0..AnalogPeriod
    /\ complete /\ running => scanned
    /\ valid => converted

Debounced ==
    /\ brake \in BOOLEAN /\ lowSamples \in 0..Required /\ highSamples \in 0..Required

InputInv == Level /\ Earning /\ Reported /\ Scanned /\ Debounced

-----------------------------------------------------------------------------
LEMMA GapsAdd ==
    /\ \A k \in Nat : k * MaxGap \in Nat /\ (k + 1) * MaxGap = k * MaxGap + MaxGap
    /\ \A k, m \in Nat : k <= m => k * MaxGap <= m * MaxGap
<1>1. MaxGap \in Nat \ {0}
    BY InputsAssumption
<1>2. \A k \in Nat : k * MaxGap \in Nat /\ (k + 1) * MaxGap = k * MaxGap + MaxGap
    BY <1>1, SMT
<1>3. ASSUME NEW k \in Nat, NEW m \in Nat, k <= m PROVE k * MaxGap <= m * MaxGap
    <2>1. (m - k) * MaxGap >= 0 /\ m * MaxGap = k * MaxGap + (m - k) * MaxGap
        BY <1>1, <1>3, SMT
    <2> QED
        BY <1>1, <2>1, SMT
<1> QED
    BY <1>2, <1>3

\* The ages that are told apart are longer than what they are compared with.
LEMMA InputBounds ==
    /\ Slow \in Nat /\ MaximumLow \in Nat /\ Fast \in Nat /\ FullLow \in Nat
    /\ Qualifying \in Nat /\ Debounce \in Nat /\ MaxGap \in Nat
    /\ Qualifying > 0 /\ Debounce > 0 /\ MaxGap > 0 /\ Fast <= Slow
    /\ FullLow < MaximumLow /\ MaximumLow <= Slow /\ Oldest = Slow + 1
    /\ Longest \in Nat /\ Longest = Slow + (Debounce - 1) * MaxGap + MaxGap + MaxGap
    /\ (Debounce - 1) * MaxGap \in Nat
<1>1. /\ Slow \in Nat /\ MaximumLow \in Nat /\ Fast \in Nat /\ FullLow \in Nat
      /\ Qualifying \in Nat /\ Debounce \in Nat /\ MaxGap \in Nat
      /\ Qualifying > 0 /\ Debounce > 0 /\ MaxGap > 0 /\ Fast <= Slow
      /\ FullLow < MaximumLow /\ MaximumLow <= Slow
    BY InputsAssumption DEF LegalCadenceConfig
<1>2. /\ (Debounce - 1) * MaxGap \in Nat
      /\ Debounce * MaxGap = (Debounce - 1) * MaxGap + MaxGap
      /\ (Debounce + 1) * MaxGap = Debounce * MaxGap + MaxGap
    <2>1. Debounce - 1 \in Nat /\ (Debounce - 1) + 1 = Debounce
        BY <1>1
    <2> QED
        BY <1>1, <2>1, GapsAdd
<1> QED
    BY <1>1, <1>2 DEF Oldest, Longest, Longer

\* A pass settles the level, or counts the sample for or against it.
LEMMA LevelStep ==
    ASSUME Level, NEW elapsed \in 1..MaxGap, NEW low \in BOOLEAN, fast' \in BOOLEAN,
           Cadence(low, elapsed), Watch(low, elapsed)
    PROVE  Level'
<1>1. /\ debouncedLow \in BOOLEAN /\ pin \in BOOLEAN /\ matching \in 0..(Debounce - 1)
      /\ phaseAge \in 0..Oldest /\ still \in 0..Longest
      /\ matching = 0 <=> pin = debouncedLow
      /\ matching > 0 => still <= (matching - 1) * MaxGap
      /\ phaseAge <= Slow => still <= phaseAge + (Debounce - 1) * MaxGap
    BY DEF Level
<1>2. still' = IF low # pin THEN 0 ELSE Capped(still + elapsed, Longest)
    BY DEF Watch
<1>3. pin' = low /\ still' \in 0..Longest /\ still' <= still + elapsed
    BY <1>1, <1>2, InputBounds DEF Watch, Capped
<1>4. CASE low = debouncedLow
    <2>1. matching' = 0 /\ debouncedLow' = debouncedLow /\ phaseAge' = Capped(phaseAge + elapsed, Oldest)
        BY <1>4 DEF Cadence, Flips
    <2>2. phaseAge' \in 0..Oldest /\ (phaseAge' <= Slow => phaseAge' = phaseAge + elapsed)
        BY <1>1, <2>1, InputBounds DEF Capped
    <2>3. phaseAge' <= Slow => still' <= phaseAge' + (Debounce - 1) * MaxGap
        BY <1>1, <1>3, <2>2, InputBounds
    <2>4. {debouncedLow', pin', fast'} \subseteq BOOLEAN
        BY <1>1, <1>3, <2>1
    <2>5. matching' = 0 <=> pin' = debouncedLow'
        BY <1>3, <1>4, <2>1
    <2> QED
        BY <1>3, <2>1, <2>2, <2>3, <2>4, <2>5, InputBounds DEF Level
<1>5. CASE low # debouncedLow /\ matching + 1 < Debounce
    <2>1. /\ matching' = matching + 1 /\ debouncedLow' = debouncedLow
          /\ phaseAge' = Capped(phaseAge + elapsed, Oldest)
        BY <1>1, <1>5, InputBounds DEF Cadence, Flips
    <2>2. phaseAge' \in 0..Oldest /\ (phaseAge' <= Slow => phaseAge' = phaseAge + elapsed)
        BY <1>1, <2>1, InputBounds DEF Capped
    <2>3. phaseAge' <= Slow => still' <= phaseAge' + (Debounce - 1) * MaxGap
        BY <1>1, <1>3, <2>2, InputBounds
    <2>4. still' <= matching * MaxGap
        <3>1. CASE matching = 0
            <4>1. still' = 0 /\ matching * MaxGap \in Nat
                BY <1>1, <1>2, <1>5, <3>1, GapsAdd
            <4> QED
                BY <4>1
        <3>2. CASE matching > 0
            <4>1. matching - 1 \in Nat /\ (matching - 1) + 1 = matching
                BY <1>1, <3>2, InputBounds
            <4>2. matching * MaxGap = (matching - 1) * MaxGap + MaxGap /\ (matching - 1) * MaxGap \in Nat
                BY <4>1, GapsAdd
            <4> QED
                BY <1>1, <1>3, <3>2, <4>2, InputBounds
        <3> QED
            BY <1>1, <3>1, <3>2
    <2>5. {debouncedLow', pin', fast'} \subseteq BOOLEAN
        BY <1>1, <1>3, <2>1
    <2>6. ~(pin' = debouncedLow') /\ matching' # 0 /\ matching' \in 0..(Debounce - 1)
        BY <1>1, <1>3, <1>5, <2>1, InputBounds
    <2>7. matching' - 1 = matching
        BY <1>1, <2>1
    <2>8. matching' > 0 => still' <= (matching' - 1) * MaxGap
        BY <2>4, <2>7
    <2> QED
        BY <1>3, <2>2, <2>3, <2>5, <2>6, <2>8 DEF Level
<1>6. CASE low # debouncedLow /\ matching + 1 >= Debounce
    <2>1. matching' = 0 /\ debouncedLow' = low /\ phaseAge' = 0
        BY <1>1, <1>6 DEF Cadence, Flips
    <2>2. still' <= (Debounce - 1) * MaxGap
        <3>1. matching = Debounce - 1
            BY <1>1, <1>6, InputBounds
        <3>2. CASE matching = 0
            BY <1>1, <1>2, <1>6, <3>1, <3>2, InputBounds
        <3>3. CASE matching > 0
            <4>1. matching - 1 \in Nat /\ (matching - 1) + 1 = matching
                BY <1>1, <3>3, InputBounds
            <4>2. matching * MaxGap = (matching - 1) * MaxGap + MaxGap /\ (matching - 1) * MaxGap \in Nat
                BY <4>1, GapsAdd
            <4>3. still' <= matching * MaxGap
                BY <1>1, <1>3, <3>3, <4>2, InputBounds
            <4> QED
                BY <3>1, <4>3
        <3> QED
            BY <1>1, <3>2, <3>3
    <2>3. {debouncedLow', pin', fast'} \subseteq BOOLEAN
        BY <1>3, <2>1
    <2>4. matching' = 0 <=> pin' = debouncedLow'
        BY <1>3, <2>1
    <2> QED
        BY <1>3, <2>1, <2>2, <2>3, <2>4, InputBounds DEF Level
<1> QED
    BY <1>1, <1>4, <1>5, <1>6, InputBounds

LEMMA Outlasts ==
    ASSUME NEW age \in Nat, NEW timeout \in Nat, NEW settling \in Nat, NEW gap \in Nat,
           gap > 0, age <= timeout
    PROVE  ~(timeout + settling + gap + gap <= age + settling)
    OBVIOUS

LEMMA HalfOfSum ==
    ASSUME NEW n \in Nat, NEW a \in 0..n, NEW b \in 0..n
    PROVE  (a + b) \div 2 \in 0..n
    OBVIOUS

\* A low phase that ends counts once, and only if it has been earned.
LEMMA EarningStep ==
    ASSUME Level, Earning, Level', NEW elapsed \in 1..MaxGap, NEW low \in BOOLEAN,
           fast' \in BOOLEAN, Cadence(low, elapsed), Watch(low, elapsed)
    PROVE  Earning' /\ Reported'
<1> DEFINE age == Capped(phaseAge + elapsed, Oldest)
           ends == Flips(low) /\ debouncedLow
           after == IF ~ends THEN Same ELSE IF age > MaximumLow THEN Reset ELSE Pulse(age)
           timely == phaseAge' <= IF fast' THEN Fast ELSE Slow
           full == low /\ width + 1 = Debounce
<1>1. /\ debouncedLow \in BOOLEAN /\ pin \in BOOLEAN /\ matching \in 0..(Debounce - 1)
      /\ phaseAge \in 0..Oldest /\ still \in 0..Longest
      /\ matching = 0 <=> pin = debouncedLow
    BY DEF Level
<1>2. /\ qualified \in 0..Qualifying /\ earned \in 0..Qualifying
      /\ previousLow \in 0..MaximumLow /\ average \in 0..MaximumLow
      /\ width \in 0..Debounce
      /\ ~debouncedLow => width = matching
      /\ qualified <= earned
      /\ debouncedLow /\ phaseAge <= MaximumLow => qualified < earned \/ earned = Qualifying
    BY DEF Earning
<1>3. /\ phaseAge' \in 0..Oldest /\ debouncedLow' \in BOOLEAN
      /\ phaseAge' <= Slow => still' <= phaseAge' + (Debounce - 1) * MaxGap
    BY DEF Level
<1>4. age \in 0..Oldest /\ age >= 0 /\ (phaseAge > MaximumLow => age > MaximumLow)
    BY <1>1, InputBounds DEF Capped
<1>5. /\ debouncedLow' = (IF Flips(low) THEN low ELSE debouncedLow)
      /\ phaseAge' = (IF Flips(low) THEN 0 ELSE age)
      /\ matching' = IF low = debouncedLow \/ Flips(low) THEN 0 ELSE matching + 1
    BY DEF Cadence
<1>6. /\ width' = (IF low THEN Capped(width + 1, Debounce) ELSE 0)
      /\ earned' = (IF still' = Longest THEN 0
                    ELSE IF full THEN Capped(earned + 1, Qualifying) ELSE earned)
    BY DEF Watch
<1>7. IF timely THEN /\ previousLow' = after.previous /\ qualified' = after.qualified
                     /\ average' = after.average
      ELSE previousLow' = 0 /\ qualified' = 0 /\ average' = 0
    <2>1. TimedOut(phaseAge') <=> ~timely
        BY <1>3, InputBounds DEF TimedOut
    <2>2. Reset.previous = 0 /\ Reset.qualified = 0 /\ Reset.average = 0
        BY DEF Reset, NoPulses
    <2> QED
        BY <2>1, <2>2 DEF Cadence
<1>8. /\ ends /\ age > MaximumLow => after.previous = 0 /\ after.qualified = 0 /\ after.average = 0
      /\ ~ends => /\ after.previous = previousLow /\ after.qualified = qualified
                  /\ after.average = average
      /\ ends /\ age <= MaximumLow =>
            /\ after.previous \in 0..MaximumLow /\ after.average \in 0..MaximumLow
            /\ after.qualified = Capped(qualified + 1, Qualifying)
    <2>1. ASSUME ends, age > MaximumLow
          PROVE  after.previous = 0 /\ after.qualified = 0 /\ after.average = 0
        BY <2>1 DEF Reset, NoPulses
    <2>2. ASSUME ~ends
          PROVE  after.previous = previousLow /\ after.qualified = qualified /\ after.average = average
        BY <2>2 DEF Same
    <2>3. ASSUME ends, age <= MaximumLow
          PROVE  /\ after.previous \in 0..MaximumLow /\ after.average \in 0..MaximumLow
                 /\ after.qualified = Capped(qualified + 1, Qualifying)
        <3> DEFINE lowPhase == Longer(age, FullLow)
        <3>1. lowPhase \in 0..MaximumLow
            BY <1>4, <2>3, InputBounds DEF Longer
        <3>2. (previousLow + lowPhase) \div 2 \in 0..MaximumLow
            <4> HIDE DEF lowPhase
            <4> QED
                BY <1>2, <3>1, InputBounds, HalfOfSum
        <3>3. after = Pulse(age)
            BY <1>4, <2>3, InputBounds
        <3> HIDE DEF after, age
        <3>4. /\ after.previous = lowPhase
              /\ after.qualified = Capped(qualified + 1, Qualifying)
              /\ after.average = IF qualified = 0 THEN average ELSE (previousLow + lowPhase) \div 2
            BY <3>3 DEF Pulse
        <3> HIDE DEF lowPhase
        <3> QED
            BY <1>2, <3>1, <3>2, <3>4
    <2> HIDE DEF after, age, ends
    <2> QED
        BY <2>1, <2>2, <2>3
<1>9. /\ Flips(low) <=> low # debouncedLow /\ matching + 1 >= Debounce
      /\ ends <=> Flips(low) /\ debouncedLow
      /\ full <=> low /\ width + 1 = Debounce
      /\ timely <=> phaseAge' <= (IF fast' THEN Fast ELSE Slow)
    BY DEF Flips
<1> HIDE DEF after, age, ends, timely, full
\* A level still for the longest time is settled for longer than any timeout.
<1>10. still' = Longest => phaseAge' > Slow /\ ~timely
    <2>1. ASSUME still' = Longest, phaseAge' <= Slow PROVE FALSE
        <3>1. /\ (Debounce - 1) * MaxGap \in Nat
              /\ still' = Slow + (Debounce - 1) * MaxGap + MaxGap + MaxGap
              /\ still' <= phaseAge' + (Debounce - 1) * MaxGap
            BY <1>3, <2>1, InputBounds
        <3>2. phaseAge' \in Nat /\ Slow \in Nat /\ MaxGap \in Nat /\ MaxGap > 0
            BY <1>3, InputBounds
        <3> QED
            BY <2>1, <3>1, <3>2, Outlasts
    <2>2. phaseAge' \in Nat /\ Slow \in Nat
        BY <1>3, InputBounds
    <2> QED
        BY <1>3, <1>9, <2>1, <2>2, InputBounds
<1>11. earned' \in 0..Qualifying /\ width' \in 0..Debounce
    BY <1>2, <1>6, InputBounds DEF Capped
<1>12. ~debouncedLow' => width' = matching'
    <2>1. CASE low
        <3>1. CASE debouncedLow
            BY <1>5, <1>9, <2>1, <3>1
        <3>2. CASE ~debouncedLow
            <4>1. CASE Flips(low)
                BY <1>5, <2>1, <4>1
            <4>2. CASE ~Flips(low)
                <5>1. matching' = matching + 1
                    BY <1>5, <2>1, <3>2, <4>2
                <5>2. ~(matching + 1 >= Debounce)
                    BY <1>9, <2>1, <3>2, <4>2
                <5>3. width' = Capped(matching + 1, Debounce)
                    BY <1>2, <1>6, <2>1, <3>2
                <5> QED
                    BY <1>1, <5>1, <5>2, <5>3, InputBounds DEF Capped
            <4> QED
                BY <4>1, <4>2
        <3> QED
            BY <3>1, <3>2
    <2>2. CASE ~low
        BY <1>1, <1>2, <1>5, <1>6, <1>9, <2>2, InputBounds DEF Capped
    <2> QED
        BY <2>1, <2>2
<1>13. /\ previousLow' \in 0..MaximumLow /\ average' \in 0..MaximumLow
       /\ qualified' \in 0..Qualifying
    BY <1>2, <1>4, <1>7, <1>8, InputBounds DEF Capped
\* The phase that ends was under way as long as it counts.
<1>14. ends /\ age <= MaximumLow => Capped(qualified + 1, Qualifying) <= earned
    BY <1>1, <1>2, <1>4, <1>9, InputBounds DEF Capped
<1>15. qualified' <= earned'
    <2>1. CASE still' = Longest
        BY <1>6, <1>7, <1>10, <2>1
    <2>2. CASE still' # Longest
        <3>1. earned' >= earned
            BY <1>2, <1>6, <2>2, InputBounds DEF Capped
        <3>2. qualified' <= earned
            BY <1>2, <1>4, <1>7, <1>8, <1>14, InputBounds
        <3> QED
            BY <1>2, <1>11, <1>13, <3>1, <3>2, InputBounds
    <2> QED
        BY <2>1, <2>2
<1>16. debouncedLow' /\ phaseAge' <= MaximumLow => qualified' < earned' \/ earned' = Qualifying
    <2> SUFFICES ASSUME debouncedLow', phaseAge' <= MaximumLow
                 PROVE  qualified' < earned' \/ earned' = Qualifying
        OBVIOUS
    <2>1. still' # Longest
        BY <1>3, <1>10, InputBounds
    <2>2. CASE debouncedLow
        <3>1. ~Flips(low)
            BY <1>5, <1>9, <2>2
        <3>2. phaseAge <= MaximumLow
            BY <1>1, <1>4, <1>5, <3>1, InputBounds
        <3>3. qualified < earned \/ earned = Qualifying
            BY <1>2, <2>2, <3>2
        <3>4. qualified' = qualified \/ qualified' = 0
            BY <1>7, <1>8, <1>9, <3>1
        <3>5. earned' >= earned
            BY <1>2, <1>6, <2>1, InputBounds DEF Capped
        <3> QED
            BY <1>2, <1>11, <1>13, <3>3, <3>4, <3>5, InputBounds
    <2>3. CASE ~debouncedLow
        <3>1. Flips(low) /\ low
            BY <1>5, <2>3
        <3>2. full
            BY <1>1, <1>2, <1>9, <2>3, <3>1, InputBounds
        <3>3. earned' = Capped(earned + 1, Qualifying)
            BY <1>6, <2>1, <3>2
        <3>4. qualified' = qualified \/ qualified' = 0
            BY <1>7, <1>8, <1>9, <2>3
        <3> QED
            BY <1>2, <3>3, <3>4, InputBounds DEF Capped
    <2> QED
        BY <2>2, <2>3
<1>17. Earning'
    BY <1>11, <1>12, <1>13, <1>15, <1>16 DEF Earning
<1>18. Reported'
    <2>1. demand' = IF qualified' >= Qualifying THEN average' ELSE 0
        BY DEF Cadence
    <2>2. demand' > 0 => qualified' >= Qualifying /\ timely
        BY <1>7, <2>1, InputBounds
    <2> QED
        BY <1>9, <1>13, <2>1, <2>2, InputBounds DEF Reported
<1> QED
    BY <1>17, <1>18

\* A scan sets the flag and a frame clears it, so that neither stands for more.
LEMMA ScannedStep ==
    ASSUME Scanned, NEW elapsed \in 1..MaxGap, SampleAnalog(elapsed), UNCHANGED running
    PROVE  Scanned'
<1>1. CASE analogAge + elapsed >= AnalogPeriod
    <2>1. /\ valid' <=> complete /\ running
          /\ complete' <=> complete /\ ~running
          /\ converted' <=> scanned
          /\ scanned' = FALSE /\ analogAge' = 0
        BY <1>1 DEF SampleAnalog, Cleared, Scanned
    <2>2. {complete', running', valid', scanned', converted'} \subseteq BOOLEAN
        BY <1>1 DEF SampleAnalog, Cleared, Scanned
    <2>3. analogAge' \in 0..AnalogPeriod
        BY <2>1, InputsAssumption
    <2> QED
        BY <2>1, <2>2, <2>3 DEF Scanned
<1>2. CASE ~(analogAge + elapsed >= AnalogPeriod)
    <2>1. analogAge' = analogAge + elapsed /\ UNCHANGED <<valid, complete, converted, scanned>>
        BY <1>2 DEF SampleAnalog
    <2>2. analogAge' \in 0..AnalogPeriod
        BY <1>2, <2>1, InputsAssumption DEF Scanned
    <2> QED
        BY <2>1, <2>2 DEF Scanned
<1> QED
    BY <1>1, <1>2

LEMMA DebouncedStep ==
    ASSUME Debounced, NEW low \in BOOLEAN, Brake(low)
    PROVE  Debounced'
<1>1. lowSamples' \in 0..Required /\ highSamples' \in 0..Required
    BY InputsAssumption DEF Debounced, Brake, Capped
<1>2. brake' \in BOOLEAN
    BY DEF Debounced, Brake
<1> QED
    BY <1>1, <1>2 DEF Debounced

LEMMA InitInputInv == InputsInit => InputInv
<1> SUFFICES ASSUME InputsInit PROVE InputInv
    OBVIOUS
<1> USE DEF InputsInit
<1>1. Level
    <2>1. {debouncedLow, pin, fast} \subseteq BOOLEAN
        OBVIOUS
    <2>2. matching = 0 <=> pin = debouncedLow
        OBVIOUS
    <2>3. /\ matching \in 0..(Debounce - 1) /\ phaseAge \in 0..Oldest /\ still \in 0..Longest
          /\ ~(matching > 0) /\ still <= phaseAge + (Debounce - 1) * MaxGap
        BY InputBounds
    <2> HIDE DEF InputsInit
    <2> QED
        BY <2>1, <2>2, <2>3 DEF Level
<1>2. Earning /\ Reported
    BY InputBounds DEF InputsInit, Earning, Reported
<1>3. Scanned
    <2>1. analogAge \in 0..AnalogPeriod
        <3>1. AnalogPeriod \in Nat
            BY InputsAssumption
        <3> QED
            BY <3>1
    <2>2. {complete, running, valid, scanned, converted} \subseteq BOOLEAN
        OBVIOUS
    <2> QED
        BY <2>1, <2>2 DEF Scanned
<1>4. Debounced
    <2>1. Required \in Nat
        BY InputsAssumption
    <2>2. lowSamples \in 0..Required /\ highSamples \in 0..Required
        BY <2>1
    <2> QED
        BY <2>2 DEF Debounced
<1> QED
    BY <1>1, <1>2, <1>3, <1>4 DEF InputInv

LEMMA NextInputInv == InputInv /\ [InputsNext]_inputVars => InputInv'
<1> SUFFICES ASSUME InputInv, [InputsNext]_inputVars PROVE InputInv'
    OBVIOUS
<1> USE DEF InputInv
<1>1. CASE Scan
    <2>1. Scanned'
        BY <1>1 DEF Scan, Scanned
    <2> QED
        BY <1>1, <2>1 DEF Scan, Level, Earning, Reported, Debounced, brakeVars, cadenceVars, pinVars
<1>2. CASE Fail
    <2>1. Scanned'
        BY <1>2 DEF Fail, Scanned
    <2> QED
        BY <1>2, <2>1 DEF Fail, Level, Earning, Reported, Debounced, brakeVars, cadenceVars, pinVars
<1>3. CASE InputPass
    <2>1. PICK elapsed \in 1..MaxGap, low \in BOOLEAN, brakeLow \in BOOLEAN :
              /\ fast' \in BOOLEAN
              /\ Brake(brakeLow) /\ SampleAnalog(elapsed) /\ UNCHANGED running
              /\ Cadence(low, elapsed) /\ Watch(low, elapsed)
        BY <1>3 DEF InputPass
    <2>2. Level'
        BY <2>1, LevelStep
    <2>3. Earning' /\ Reported'
        BY <2>1, <2>2, EarningStep
    <2>4. Scanned'
        BY <2>1, ScannedStep
    <2>5. Debounced'
        BY <2>1, DebouncedStep
    <2> QED
        BY <2>2, <2>3, <2>4, <2>5
<1>4. CASE UNCHANGED inputVars
    BY <1>4 DEF inputVars, Level, Earning, Reported, Scanned, Debounced,
        brakeVars, analogVars, cadenceVars, pinVars
<1> QED
    BY <1>1, <1>2, <1>3, <1>4 DEF InputsNext

LEMMA InputInvHolds == InputsSpec => []InputInv
    BY InitInputInv, NextInputInv, PTL DEF InputsSpec

\* The counters and the ages of the inputs stay within their bounds.
THEOREM InputTypesHold == InputsSpec => []InputTypes
<1>1. InputInv => InputTypes
    BY DEF InputInv, InputTypes, Level, Earning, Scanned, Debounced
<1> QED
    BY <1>1, InputInvHolds, PTL

\* A demand is withdrawn when the crank stands still and has been earned since,
\* and a valid frame has been converted since the last.
THEOREM InputsOfThePresent == InputsSpec => []InputsAreCurrent
<1>1. InputInv => AssistEnds
    <2> SUFFICES ASSUME InputInv, demand > 0
                 PROVE  still <= (IF fast THEN Fast ELSE Slow) + (Debounce - 1) * MaxGap
        BY DEF AssistEnds
    <2>1. phaseAge <= (IF fast THEN Fast ELSE Slow)
        BY DEF InputInv, Reported
    <2>2. phaseAge \in Nat /\ still \in Nat
        BY InputBounds DEF InputInv, Level
    <2>3. phaseAge <= Slow
        BY <2>1, <2>2, InputBounds
    <2>4. still <= phaseAge + (Debounce - 1) * MaxGap
        BY <2>3 DEF InputInv, Level
    <2> QED
        BY <2>1, <2>2, <2>4, InputBounds
<1>2. InputInv => AssistIsEarned
    BY InputBounds DEF InputInv, Reported, Earning, AssistIsEarned
<1>3. InputInv => FrameIsFresh
    BY DEF InputInv, Scanned, FrameIsFresh
<1>4. InputInv => InputsAreCurrent
    BY <1>1, <1>2, <1>3 DEF InputsAreCurrent
<1> QED
    BY <1>4, InputInvHolds, PTL

-----------------------------------------------------------------------------
(* The commanded current.                                                  *)

SmallerPairs == {pair \in Nat \X Nat : pair[1] < pair[2]}

LEMMA SmallerIsWellFounded == IsWellFoundedOn(SmallerPairs, Nat)
<1>1. SmallerPairs = OpToRel(<, Nat)
    BY DEF SmallerPairs, OpToRel
<1> QED
    BY <1>1, NatLessThanWellFounded

\* A set of numbers that is not empty has a least one.
LEMMA LeastNumber ==
    ASSUME NEW T, T \subseteq Nat, T # {}
    PROVE  \E x \in T : \A y \in T : x <= y
<1>1. PICK x \in T : \A y \in T : ~(<<y, x>> \in SmallerPairs)
    BY SmallerIsWellFounded, WFMin
<1>2. \A y \in T : y < x => <<y, x>> \in SmallerPairs
    BY DEF SmallerPairs
<1>3. \A y \in T : ~(y < x)
    BY <1>1, <1>2
<1>4. \A y \in T : x <= y
    BY <1>3
<1> QED
    BY <1>4

LEMMA ProductsGrow ==
    ASSUME NEW a \in Nat, NEW b \in Nat, a <= b, NEW c \in Nat, NEW e \in Nat, c <= e
    PROVE  a * c <= b * e
<1>1. (b - a) * c >= 0 /\ b * (e - c) >= 0
    BY SMT
<1>2. b * e = b * (e - c) + (b - a) * c + a * c
    BY SMT
<1> QED
    BY <1>1, <1>2, SMT

\* The circle that is left is a whole number, the greatest whose square fits.
LEMMA FloorRootIs ==
    ASSUME NEW n \in Nat
    PROVE  FloorRoot(n) \in Nat /\ FloorRoot(n) * FloorRoot(n) <= n
<1> DEFINE above == {r \in Nat : n < (r + 1) * (r + 1)}
<1>1. n \in above
    <2>1. (n + 1) * (n + 1) = n * n + 2 * n + 1 /\ n * n >= 0
        BY SMT
    <2> QED
        BY <2>1
<1>2. PICK r \in above : \A k \in above : r <= k
    BY <1>1, LeastNumber
<1>3. r * r <= n
    <2>1. CASE r = 0
        BY <2>1
    <2>2. CASE r > 0
        <3>1. r - 1 \in Nat /\ ~(r <= r - 1)
            BY <2>2
        <3>2. r - 1 \notin above
            BY <1>2, <3>1
        <3>3. ~(n < ((r - 1) + 1) * ((r - 1) + 1))
            BY <3>1, <3>2
        <3>4. (r - 1) + 1 = r
            BY <3>1
        <3> QED
            BY <3>3, <3>4
    <2> QED
        BY <2>1, <2>2
<1>4. r \in 0..n
    BY <1>1, <1>2
<1> DEFINE Fits(k) == k * k <= n /\ n < (k + 1) * (k + 1)
<1>5. \E k \in 0..n : Fits(k)
    BY <1>2, <1>3, <1>4
<1>6. FloorRoot(n) = CHOOSE k \in 0..n : Fits(k)
    BY DEF FloorRoot
<1>7. FloorRoot(n) \in 0..n /\ Fits(FloorRoot(n))
    <2> HIDE DEF Fits
    <2> QED
        BY <1>5, <1>6
<1> QED
    BY <1>7

LEMMA CommandConstants ==
    /\ One \in Nat /\ One > 0 /\ CurrentLimit \in Nat /\ CurrentLimit > 0
    /\ RampCycles \in Nat /\ RampCycles > 0 /\ RampCounts \in Nat /\ RampIn \in Nat /\ RampOut \in Nat
    /\ PwmPeriod \in Nat /\ Shift \in Nat /\ Shift > 0
    /\ RegenLimit \in Nat /\ WeakeningLimit \in Nat /\ Deadband \in Nat
    /\ PhaseCeilings \subseteq Nat /\ BusCeilings \subseteq Nat
    /\ Requests \subseteq Int /\ Voltages \subseteq Int
    BY CommandAssumption DEF LegalCommandConfig

LEMMA Quotient ==
    ASSUME NEW a \in Int, NEW m \in Nat, m > 0
    PROVE  a \div m \in Int /\ a % m \in 0..(m - 1) /\ a = m * (a \div m) + (a % m)
    OBVIOUS

\* Rounding a magnitude up to whole counts leaves nothing out.
LEMMA CeilingCovers ==
    ASSUME NEW x \in Int
    PROVE  /\ Magnitude(x) \in Nat /\ AbsCeil(x) \in Nat /\ SignedCeilAbs(x) \in Int
           /\ Magnitude(x) <= One * AbsCeil(x)
           /\ x # 0 => AbsCeil(x) > 0
           /\ x # 0 => (SignedCeilAbs(x) > 0 <=> x > 0)
<1> DEFINE m == Magnitude(x)
           a == m + One - 1
           w == a \div One
<1>1. m \in Nat /\ (x # 0 => m > 0)
    BY DEF Magnitude
<1>2. AbsCeil(x) = w
    BY DEF AbsCeil
<1>3. a \in Nat /\ a = m + One - 1
    BY <1>1, CommandConstants
<1>4. w \in Int /\ a % One \in 0..(One - 1) /\ a = One * w + (a % One)
    <2> HIDE DEF a
    <2> QED
        BY <1>3, Quotient, CommandConstants
<1> DEFINE rest == a % One
           filled == One * w
<1>5. a = filled + rest /\ rest \in 0..(One - 1) /\ filled \in Int
    BY <1>4, CommandConstants
<1>6. m <= filled
    <2> HIDE DEF m, a, rest, filled
    <2> QED
        BY <1>1, <1>3, <1>5, CommandConstants
<1> HIDE DEF m, a, rest
<1>7. w \in Nat /\ (m > 0 => w > 0)
    <2>1. w < 0 => filled < 0
        BY <1>4, CommandConstants DEF a
    <2>2. w = 0 => filled = 0
        BY CommandConstants
    <2> HIDE DEF w, filled
    <2> QED
        BY <1>1, <1>4, <1>5, <1>6, <2>1, <2>2
<1>8. SignedCeilAbs(x) = IF x < 0 THEN -w ELSE w
    BY <1>2 DEF SignedCeilAbs
<1> HIDE DEF w
<1> QED
    BY <1>1, <1>2, <1>6, <1>7, <1>8 DEF m

LEMMA SquaresOfMagnitudes ==
    ASSUME NEW x \in Int
    PROVE  Magnitude(x) \in Nat /\ Magnitude(x) * Magnitude(x) = x * x
<1>1. CASE x < 0
    <2>1. (-x) * (-x) = x * x
        BY SMT
    <2> QED
        BY <1>1, <2>1 DEF Magnitude
<1>2. CASE ~(x < 0)
    BY <1>2 DEF Magnitude
<1> QED
    BY <1>1, <1>2

LEMMA ClampIs ==
    ASSUME NEW x \in Int, NEW low \in Int, NEW high \in Int, low <= high
    PROVE  Clamp(x, low, high) \in low..high
    BY DEF Clamp, Smaller, Larger

\* Clamping to either side of zero turns no sign around.
LEMMA ClampKeepsSign ==
    ASSUME NEW x \in Int, NEW room \in Nat
    PROVE  /\ Clamp(x, -room, room) \in Int /\ Magnitude(Clamp(x, -room, room)) <= room
           /\ Clamp(x, -room, room) # 0 =>
                  x # 0 /\ room > 0 /\ (Clamp(x, -room, room) > 0 <=> x > 0)
    BY DEF Clamp, Smaller, Larger, Magnitude

LEMMA WeakeningBounds ==
    ASSUME weakening \in Int, NEW granted \in Nat
    PROVE  /\ Ceiling(granted) \in Nat /\ One * Ceiling(granted) \in Nat
           /\ WeakeningMaximum(granted) \in Nat
           /\ WeakeningMaximum(granted) <= One * WeakeningLimit
           /\ 2 * WeakeningMaximum(granted) <= One * Ceiling(granted)
           /\ BoundedWeakening(granted) \in Int
           /\ DirectTarget(granted) \in (-WeakeningMaximum(granted))..0
<1> DEFINE c == Ceiling(granted)
           h == c \div 2
           l == Smaller(h, WeakeningLimit)
<1>1. c \in Nat
    BY CommandConstants DEF Ceiling, Smaller
<1>2. h \in Nat /\ 2 * h <= c
    <2> HIDE DEF c
    <2> QED
        BY <1>1
<1>3. l \in Nat /\ l <= h /\ l <= WeakeningLimit
    <2> HIDE DEF h
    <2> QED
        BY <1>2, CommandConstants DEF Smaller
<1>4. WeakeningMaximum(granted) = One * l
    BY DEF WeakeningMaximum
<1>5. /\ One * l \in Nat /\ One * l <= One * WeakeningLimit /\ One * c \in Nat
      /\ 2 * (One * l) <= One * c
    <2>1. 2 * l \in Nat /\ 2 * l <= c
        <3> HIDE DEF l, h, c
        <3> QED
            BY <1>1, <1>2, <1>3
    <2>2. One * (2 * l) <= One * c /\ One * l <= One * WeakeningLimit
        <3> HIDE DEF l, h, c
        <3> QED
            BY <1>1, <1>3, <2>1, ProductsGrow, CommandConstants
    <2>3. One * (2 * l) = 2 * (One * l) /\ One * l \in Nat /\ One * c \in Nat
        <3> HIDE DEF l, h, c
        <3> QED
            BY <1>1, <1>3, CommandConstants, SMT
    <2> QED
        BY <2>2, <2>3
<1> DEFINE max == WeakeningMaximum(granted)
<1>6. max \in Nat /\ BoundedWeakening(granted) \in Int /\ BoundedWeakening(granted) >= -max
    <2>1. max \in Nat
        BY <1>4, <1>5
    <2>2. BoundedWeakening(granted) = Larger(weakening, -max)
        BY DEF BoundedWeakening
    <2> HIDE DEF max
    <2> QED
        BY <2>1, <2>2 DEF Larger
<1>7. DirectTarget(granted) \in (-max)..0
    <2>1. DirectTarget(granted) = IF max > 0 THEN Smaller(0, BoundedWeakening(granted)) ELSE 0
        BY DEF DirectTarget
    <2> HIDE DEF max
    <2> QED
        BY <1>6, <2>1 DEF Smaller
<1> QED
    BY <1>1, <1>4, <1>5, <1>6, <1>7

LEMMA BusNumbers ==
    ASSUME NEW b \in Nat
    PROVE  BusPowerBound(b) \in Int
<1>1. b * PwmPeriod * 2 \in Nat
    BY CommandConstants, SMT
<1> QED
    BY <1>1, Quotient DEF BusPowerBound

LEMMA RoomNumbers ==
    ASSUME filtered \in [{"d", "q"} -> Int], NEW d \in Int, NEW q \in Int, NEW b \in Nat
    PROVE  /\ DirectPower(d) \in Int /\ PowerRoom(d, q, b) \in Int
           /\ BusQuadrature(d, q, b) \in Nat
           /\ BusQuadrature(d, q, b) > 0 =>
                 /\ filtered.q # 0 /\ PowerRoom(d, q, b) > 0
                 /\ BusQuadrature(d, q, b) = One * (PowerRoom(d, q, b) \div AbsCeil(filtered.q))
<1>1. SignedCeilAbs(filtered.d) \in Int /\ SignedCeilAbs(d) \in Int
    BY CeilingCovers
<1>2. DirectPower(d) \in Int
    BY <1>1, SMT DEF DirectPower
<1>3. PowerRoom(d, q, b) \in Int
    BY <1>2, BusNumbers, CommandConstants DEF PowerRoom
<1> DEFINE r == PowerRoom(d, q, b)
           w == AbsCeil(filtered.q)
<1>4. CASE r <= 0 \/ filtered.q = 0
    BY <1>2, <1>3, <1>4 DEF BusQuadrature
<1>5. CASE ~(r <= 0 \/ filtered.q = 0)
    <2>1. w \in Nat /\ w > 0
        BY <1>5, CeilingCovers
    <2>2. r \in Nat /\ r > 0
        BY <1>3, <1>5
    <2>3. r \div w \in Nat
        <3> HIDE DEF r, w
        <3> QED
            BY <2>1, <2>2
    <2>4. One * (r \div w) \in Nat
        <3> HIDE DEF r, w
        <3> QED
            BY <2>3, CommandConstants, SMT
    <2>5. BusQuadrature(d, q, b) = One * (r \div w)
        BY <1>5 DEF BusQuadrature
    <2> QED
        BY <1>2, <1>3, <1>5, <2>2, <2>4, <2>5
<1> QED
    BY <1>4, <1>5

\* Dropping bits rounds down by less than the quantum.
LEMMA DroppedBits ==
    ASSUME NEW a \in Nat, NEW m \in Nat, m > 0
    PROVE  /\ a \div m \in Nat /\ m * (a \div m) \in Nat
           /\ m * (a \div m) <= a /\ a < m * (a \div m) + m
<1> DEFINE k == a \div m
<1>1. k \in Nat
    OBVIOUS
<1>2. a = m * k + (a % m) /\ a % m \in 0..(m - 1)
    BY Quotient
<1>3. m * k \in Nat
    <2> HIDE DEF k
    <2> QED
        BY <1>1, SMT
<1> HIDE DEF k
<1>4. m * k <= a /\ a < m * k + m
    BY <1>2, <1>3
<1> QED
    BY <1>1, <1>3, <1>4 DEF k

\* Some quantum brings every ceiling's operands into the range of the root.
LEMMA QuantumIs ==
    ASSUME NEW bound \in Nat, bound <= One * CurrentLimit
    PROVE  Quantum(bound) \in Nat /\ Quantum(bound) > 0
<1>1. PICK large \in Quanta : (One * CurrentLimit) \div large < RootRange
    BY CommandAssumption
<1>2. large \in Nat /\ large > 0 /\ Quanta \subseteq Nat \ {0} /\ RootRange \in Nat
    BY CommandAssumption
<1>3. InRange(bound, large)
    <2>1. One * CurrentLimit \in Nat
        BY CommandConstants, SMT
    <2> DEFINE limit == One * CurrentLimit
    <2> HIDE DEF limit
    <2>2. limit \in Nat /\ bound <= limit /\ limit \div large < RootRange
        BY <1>1, <2>1 DEF limit
    <2>3. bound \div large <= limit \div large
        <3> DEFINE a == bound \div large
                   b == limit \div large
        <3>1. /\ a \in Nat /\ large * a \in Nat /\ large * a <= bound
              /\ b \in Nat /\ large * b \in Nat /\ limit < large * b + large
            BY <1>2, <2>2, DroppedBits
        <3> HIDE DEF a, b
        <3>2. CASE b < a
            <4>1. large * (b + 1) <= large * a
                <5>1. b + 1 \in Nat /\ b + 1 <= a
                    BY <3>1, <3>2
                <5> QED
                    BY <1>2, <3>1, <5>1, ProductsGrow
            <4>2. large * (b + 1) = large * b + large
                BY <1>2, <3>1, SMT
            <4> QED
                BY <1>2, <2>2, <3>1, <4>1, <4>2
        <3> QED
            BY <3>1, <3>2 DEF a, b
    <2>4. bound \div large \in Nat /\ limit \div large \in Nat
        BY <1>2, <2>2, DroppedBits
    <2> QED
        BY <1>2, <2>2, <2>3, <2>4 DEF InRange
<1> DEFINE fit == {quantum \in Quanta : InRange(bound, quantum)}
<1>4. fit \subseteq Nat /\ large \in fit
    BY <1>2, <1>3
<1>5. PICK least \in fit : \A other \in fit : least <= other
    <2> HIDE DEF fit
    <2> QED
        BY <1>4, LeastNumber
<1> DEFINE Least(quantum) == /\ InRange(bound, quantum)
                             /\ \A other \in Quanta : InRange(bound, other) => quantum <= other
<1>6. \E quantum \in Quanta : Least(quantum)
    BY <1>5
<1>7. Quantum(bound) = CHOOSE quantum \in Quanta : Least(quantum)
    BY DEF Quantum
<1>8. Quantum(bound) \in Quanta
    <2> HIDE DEF Least
    <2> QED
        BY <1>6, <1>7
<1>9. \A quantum \in Quanta : quantum \in Nat /\ quantum > 0
    BY <1>2
<1> QED
    BY <1>8, <1>9, Zenon

\* What is left for q is inside the circle: dropping bits loses some of the
\* bound and takes too much for d, never the other way.
LEMMA CircularRemainingIs ==
    ASSUME NEW bound \in Nat, bound <= One * CurrentLimit,
           NEW d \in Int, Magnitude(d) <= bound
    PROVE  LET circle == CircularRemaining(bound, d)
           IN  circle \in Nat /\ d * d + circle * circle <= bound * bound
<1> DEFINE quantum == Quantum(bound)
           limit == bound \div quantum
           taken == ScaledDirect(Smaller(Magnitude(d), bound), quantum)
           rest == Larger(limit * limit - taken * taken, 0)
           root == FloorRoot(rest)
           circle == CircularRemaining(bound, d)
<1>1. quantum \in Nat /\ quantum > 0
    BY QuantumIs
<1>2. Magnitude(d) \in Nat /\ Magnitude(d) * Magnitude(d) = d * d
    BY SquaresOfMagnitudes
<1>3. circle = IF bound = 0 THEN 0 ELSE quantum * root
    BY DEF CircularRemaining
<1>4. limit \in Nat /\ quantum * limit \in Nat /\ quantum * limit <= bound
    <2> HIDE DEF quantum
    <2> QED
        BY <1>1, DroppedBits
<1>5. taken \in Nat /\ quantum * taken \in Nat /\ Magnitude(d) <= quantum * taken
    <2> DEFINE raised == Magnitude(d) + quantum - 1
    <2>1. Smaller(Magnitude(d), bound) = Magnitude(d)
        BY <1>2 DEF Smaller
    <2>2. taken = raised \div quantum
        BY <2>1 DEF ScaledDirect
    <2> HIDE DEF quantum, taken
    <2>3. raised \in Nat
        BY <1>1, <1>2
    <2>4. /\ taken \in Nat /\ quantum * taken \in Nat
          /\ raised < quantum * taken + quantum
        <3> HIDE DEF raised
        <3> QED
            BY <1>1, <2>2, <2>3, DroppedBits
    <2> QED
        BY <1>1, <1>2, <2>4
<1> HIDE DEF quantum, limit, taken
<1>6. limit * limit \in Nat /\ taken * taken \in Nat
    BY <1>4, <1>5, SMT
<1>7. rest \in Nat
    BY <1>6 DEF Larger
<1>8. root \in Nat /\ root * root <= rest /\ root * root \in Nat
    <2>1. root \in Nat /\ root * root <= rest
        <3> HIDE DEF rest
        <3> QED
            BY <1>7, FloorRootIs
    <2> HIDE DEF root
    <2> QED
        BY <2>1, SMT
<1>9. quantum * root \in Nat
    <2> HIDE DEF root
    <2> QED
        BY <1>1, <1>8, SMT
<1>10. d * d <= bound * bound /\ d * d \in Nat /\ bound * bound \in Nat
    <2>1. Magnitude(d) * Magnitude(d) <= bound * bound
        BY <1>2, ProductsGrow
    <2>2. Magnitude(d) * Magnitude(d) \in Nat /\ bound * bound \in Nat
        BY <1>2, SMT
    <2> QED
        BY <1>2, <2>1, <2>2
<1>11. CASE circle = 0
    BY <1>10, <1>11
<1>12. CASE circle = quantum * root /\ taken * taken <= limit * limit
    <2>1. root * root + taken * taken <= limit * limit
        <3>1. rest = limit * limit - taken * taken
            BY <1>6, <1>12 DEF Larger
        <3> HIDE DEF root, rest
        <3> QED
            BY <1>6, <1>8, <3>1
    <2> HIDE DEF root, circle
    <2>2. (quantum * root) * (quantum * root) + (quantum * taken) * (quantum * taken)
              <= (quantum * limit) * (quantum * limit)
        <3> DEFINE sum == root * root + taken * taken
                   all == limit * limit
                   square == quantum * quantum
        <3>1. sum \in Nat /\ all \in Nat /\ sum <= all /\ square \in Nat
            BY <1>1, <1>6, <1>8, <2>1, SMT
        <3>2. square * sum <= square * all
            <4> HIDE DEF sum, all, square
            <4> QED
                BY <3>1, ProductsGrow
        <3>3. /\ (quantum * root) * (quantum * root) + (quantum * taken) * (quantum * taken)
                     = square * sum
              /\ (quantum * limit) * (quantum * limit) = square * all
            BY <1>1, <1>4, <1>5, <1>8, SMT
        <3> HIDE DEF sum, all, square
        <3> QED
            BY <3>2, <3>3
    <2>3. (quantum * limit) * (quantum * limit) <= bound * bound
        <3> DEFINE low == quantum * limit
        <3> HIDE DEF low
        <3>1. low \in Nat /\ low <= bound
            BY <1>4 DEF low
        <3>2. low * low <= bound * bound
            BY <3>1, ProductsGrow
        <3> QED
            BY <3>2 DEF low
    <2>4. d * d <= (quantum * taken) * (quantum * taken)
        <3> DEFINE high == quantum * taken
        <3> HIDE DEF high
        <3>1. high \in Nat /\ Magnitude(d) <= high
            BY <1>5 DEF high
        <3>2. Magnitude(d) * Magnitude(d) <= high * high
            BY <1>2, <3>1, ProductsGrow
        <3> QED
            BY <1>2, <3>2 DEF high
    <2> DEFINE r == (quantum * root) * (quantum * root)
               t == (quantum * taken) * (quantum * taken)
               l == (quantum * limit) * (quantum * limit)
    <2>5. r \in Nat /\ t \in Nat /\ l \in Nat
        BY <1>1, <1>4, <1>5, <1>8, SMT
    <2>6. r + t <= l /\ l <= bound * bound /\ d * d <= t /\ circle * circle = r
        BY <1>12, <2>2, <2>3, <2>4
    <2>7. circle \in Nat
        BY <1>9, <1>12
    <2> HIDE DEF r, t, l
    <2>8. d * d + r <= bound * bound
        BY <1>10, <2>5, <2>6
    <2>9. d * d + circle * circle <= bound * bound
        BY <2>6, <2>8, Zenon
    <2> QED
        BY <2>7, <2>9, Zenon DEF circle
<1>13. CASE circle = quantum * root /\ limit * limit < taken * taken
    <2>1. rest = 0
        BY <1>6, <1>13 DEF Larger
    <2>2. root = 0
        <3>1. root * root <= 0 /\ root \in Nat
            BY <1>8, <2>1
        <3> HIDE DEF root
        <3> QED
            BY <3>1, SMT
    <2>3. circle = 0
        <3> HIDE DEF root, circle
        <3> QED
            BY <1>1, <1>13, <2>2
    <2> QED
        BY <1>10, <2>3
<1> QED
    BY <1>3, <1>6, <1>11, <1>12, <1>13

\* What the command is clamped to: the circle that the d current leaves, and
\* out of the deadband what the battery allows for the sign of q.
LEMMA ClampedIs ==
    ASSUME filtered \in [{"d", "q"} -> Int], weakening \in Int,
           NEW requested \in Int, NEW granted \in Nat, NEW b \in Nat,
           NEW c, c = Clamped(requested, granted, b)
    PROVE  /\ c \in [d : Int, q : Int, ceiling : Nat, bus : Nat] /\ c.bus = b
           /\ c.d * c.d + c.q * c.q <= c.ceiling * c.ceiling
           /\ 2 * Magnitude(c.d) <= c.ceiling
           /\ c.q # 0 /\ ~InDeadband =>
                  \E q \in Int : /\ q > 0 <=> c.q > 0
                                /\ Magnitude(c.q) <= BusQuadrature(c.d, q, b)
<1> DEFINE bound == One * Ceiling(granted)
           d == IF bound = 0 THEN 0 ELSE Clamp(DirectTarget(granted), -bound, bound)
           circle == IF d = 0 THEN bound ELSE CircularRemaining(bound, d)
           q == Clamp(One * requested, -circle, circle)
           room == IF InDeadband \/ q = 0 THEN circle
                   ELSE Smaller(circle, BusQuadrature(d, q, b))
<1>1. c = [d |-> d, q |-> Clamp(q, -room, room), ceiling |-> bound, bus |-> b]
    BY DEF Clamped
<1>2. bound \in Nat /\ DirectTarget(granted) \in Int /\ DirectTarget(granted) <= 0
      /\ -bound <= 2 * DirectTarget(granted)
    <2> DEFINE max == WeakeningMaximum(granted)
               t == DirectTarget(granted)
    <2>1. bound \in Nat /\ max \in Nat /\ 2 * max <= bound /\ t \in (-max)..0
        BY WeakeningBounds
    <2> HIDE DEF bound, max, t
    <2>2. t \in Int /\ t <= 0 /\ -bound <= 2 * t
        BY <2>1
    <2> QED
        BY <2>1, <2>2 DEF t
<1>3. d \in Int /\ 2 * Magnitude(d) <= bound /\ Magnitude(d) <= bound
    <2> DEFINE t == DirectTarget(granted)
    <2>1. t \in Int /\ t <= 0 /\ -bound <= 2 * t /\ bound \in Nat
        BY <1>2
    <2>2. d = IF bound = 0 THEN 0 ELSE Clamp(t, -bound, bound)
        OBVIOUS
    <2> HIDE DEF bound, t, d
    <2> QED
        BY <2>1, <2>2 DEF Clamp, Smaller, Larger, Magnitude
<1>4. circle \in Nat /\ d * d + circle * circle <= bound * bound
    <2>1. CASE d = 0
        <3>1. circle = bound /\ d * d = 0
            BY <2>1
        <3>2. bound * bound \in Nat
            <4> HIDE DEF bound
            <4> QED
                BY <1>2, SMT
        <3> HIDE DEF circle, bound, d
        <3> QED
            BY <1>2, <3>1, <3>2
    <2>2. CASE d # 0
        <3>1. circle = CircularRemaining(bound, d)
            BY <2>2
        <3>2. bound <= One * CurrentLimit
            <4>1. Ceiling(granted) \in Nat /\ Ceiling(granted) <= CurrentLimit
                BY CommandConstants DEF Ceiling, Smaller
            <4> HIDE DEF circle, d
            <4> QED
                BY <4>1, ProductsGrow, CommandConstants
        <3> HIDE DEF circle, bound, d
        <3> QED
            BY <1>2, <1>3, <3>1, <3>2, CircularRemainingIs
    <2> QED
        BY <2>1, <2>2
<1>5. One * requested \in Int
    BY CommandConstants, SMT
<1>6. q \in Int
    <2> HIDE DEF circle
    <2> QED
        BY <1>4, <1>5, ClampKeepsSign
<1>7. BusQuadrature(d, q, b) \in Nat
    <2> HIDE DEF d, q
    <2> QED
        BY <1>3, <1>6, RoomNumbers
<1>8. room \in Nat /\ room <= circle
    <2> HIDE DEF circle, d, q
    <2> QED
        BY <1>4, <1>7 DEF Smaller
<1> DEFINE cut == Clamp(q, -room, room)
<1>9. cut \in Int /\ Magnitude(cut) <= room /\ (cut # 0 => q # 0 /\ (cut > 0 <=> q > 0))
    <2> HIDE DEF room, q
    <2> QED
        BY <1>6, <1>8, ClampKeepsSign
<1>10. c.d = d /\ c.q = cut /\ c.ceiling = bound /\ c.bus = b
       /\ c \in [d : Int, q : Int, ceiling : Nat, bus : Nat]
    <2> HIDE DEF d, bound
    <2>1. c = [d |-> d, q |-> cut, ceiling |-> bound, bus |-> b]
        BY <1>1
    <2> HIDE DEF cut
    <2> QED
        BY <1>2, <1>3, <1>9, <2>1
<1>11. d * d + cut * cut <= bound * bound
    <2> HIDE DEF d, bound, circle, room, cut
    <2>1. Magnitude(cut) \in Nat /\ Magnitude(cut) * Magnitude(cut) = cut * cut
        BY <1>9, SquaresOfMagnitudes
    <2>2. Magnitude(cut) <= circle
        BY <1>4, <1>8, <1>9, <2>1
    <2>3. cut * cut <= circle * circle
        BY <1>4, <2>1, <2>2, ProductsGrow
    <2>4. d * d \in Int /\ cut * cut \in Int /\ circle * circle \in Int /\ bound * bound \in Int
        BY <1>2, <1>3, <1>4, <1>9, SMT
    <2> QED
        BY <1>4, <2>3, <2>4
<1>12. cut # 0 /\ ~InDeadband =>
          q \in Int /\ (q > 0 <=> cut > 0) /\ Magnitude(cut) <= BusQuadrature(d, q, b)
    <2> SUFFICES ASSUME cut # 0, ~InDeadband
                 PROVE  q \in Int /\ (q > 0 <=> cut > 0) /\ Magnitude(cut) <= BusQuadrature(d, q, b)
        OBVIOUS
    <2>1. room = Smaller(circle, BusQuadrature(d, q, b))
        BY <1>9
    <2> HIDE DEF d, bound, circle, room, cut, q
    <2>2. room <= BusQuadrature(d, q, b)
        BY <1>4, <1>7, <2>1 DEF Smaller
    <2>3. Magnitude(cut) \in Nat
        BY <1>9, SquaresOfMagnitudes
    <2> QED
        BY <1>6, <1>7, <1>8, <1>9, <2>2, <2>3
<1> HIDE DEF d, bound, circle, room, cut, q
<1> QED
    BY <1>3, <1>10, <1>11, <1>12

\* A current within what the battery allows for the rounded voltage draws no
\* more power than the room it was computed from.
LEMMA PowerFits ==
    ASSUME NEW f \in Nat, NEW w \in Nat, w > 0, f <= One * w,
           NEW r \in Nat, NEW m \in Nat, m <= One * (r \div w)
    PROVE  f * m \in Nat /\ f * m <= One * One * r
<1> DEFINE k == r \div w
<1>1. k \in Nat /\ w * k <= r /\ w * k \in Nat
    <2>1. k \in Nat
        OBVIOUS
    <2>2. r = w * k + (r % w) /\ r % w \in 0..(w - 1)
        BY Quotient
    <2> DEFINE filled == w * k
               rest == r % w
    <2>3. filled \in Nat
        <3> HIDE DEF k
        <3> QED
            BY <2>1, SMT
    <2> HIDE DEF filled, rest
    <2> QED
        BY <2>1, <2>2, <2>3 DEF filled, rest
<1> HIDE DEF k
<1>2. One * w \in Nat /\ One * k \in Nat
    BY <1>1, CommandConstants, SMT
<1>3. m <= One * k
    BY DEF k
<1>4. f * m <= (One * w) * (One * k) /\ f * m \in Nat
    <2>1. f * m <= (One * w) * (One * k)
        BY <1>2, <1>3, ProductsGrow
    <2> QED
        BY <2>1, SMT
<1>5. (One * w) * (One * k) = (One * One) * (w * k)
    BY <1>1, CommandConstants, SMT
<1>6. One * One \in Nat
    BY CommandConstants, SMT
<1>7. (One * One) * (w * k) <= (One * One) * r
    BY <1>1, <1>6, ProductsGrow
<1>8. (One * One) * (w * k) \in Nat /\ (One * One) * r \in Nat
    BY <1>1, <1>6, SMT
<1> DEFINE p == f * m
           x == (One * One) * (w * k)
           y == (One * One) * r
<1>9. p \in Nat /\ p <= x /\ x <= y /\ x \in Nat /\ y \in Nat
    BY <1>4, <1>5, <1>7, <1>8
<1>10. p <= y
    <2> HIDE DEF p, x, y
    <2> QED
        BY <1>9
<1> QED
    BY <1>9, <1>10

\* The current has the sign that its room was computed for, so that the power
\* of both axes, the d axis rounded, keeps within the bound for that sign.
LEMMA RoundedPowerFits ==
    ASSUME NEW x \in Int, NEW v \in Int, NEW p \in Int, NEW limit \in Int,
           x # 0, v # 0, (v > 0 <=> x > 0),
           limit - p > 0, Magnitude(v) <= One * ((limit - p) \div AbsCeil(x))
    PROVE  x * v + One * One * p <= One * One * limit
<1> DEFINE f == Magnitude(x)
           m == Magnitude(v)
           w == AbsCeil(x)
           r == limit - p
<1>1. f \in Nat /\ m \in Nat /\ w \in Nat /\ w > 0 /\ f <= One * w /\ r \in Nat
    BY CeilingCovers
<1>2. f * m <= One * One * r
    <2>1. m <= One * (r \div w)
        OBVIOUS
    <2> HIDE DEF f, m, w, r
    <2> QED
        BY <1>1, <2>1, PowerFits
<1>3. x * v = f * m
    <2>1. CASE x > 0
        BY <2>1 DEF Magnitude
    <2>2. CASE x < 0
        <3>1. f = -x /\ m = -v
            BY <2>2 DEF Magnitude
        <3>2. (-x) * (-v) = x * v
            BY SMT
        <3> QED
            BY <3>1, <3>2
    <2> QED
        BY <2>1, <2>2
<1> DEFINE u == One * One
<1>4. u \in Nat
    BY CommandConstants, SMT
<1>5. u * r = u * limit - u * p /\ u * limit \in Int /\ u * p \in Int
    <2> HIDE DEF u
    <2> QED
        BY <1>4, SMT
<1>6. x * v \in Int
    BY SMT
<1> DEFINE xv == x * v
           ul == u * limit
           up == u * p
<1>7. xv \in Int /\ ul \in Int /\ up \in Int /\ xv <= ul - up
    BY <1>2, <1>3, <1>5, <1>6
<1>8. xv + up <= ul
    <2> HIDE DEF xv, ul, up
    <2> QED
        BY <1>7
<1> QED
    BY <1>8

\* The two halves of WithinBattery for a command of this cycle.
LEMMA BatteryStep ==
    ASSUME filtered \in [{"d", "q"} -> Int], weakening \in Int,
           NEW requested \in Int, NEW granted \in Nat, NEW b \in Nat,
           NEW c, c = Clamped(requested, granted, b), c.q # 0, ~InDeadband
    PROVE  LET power == filtered.q * c.q
               rounded == power + One * One * DirectPower(c.d)
           IN  /\ power > 0 => rounded <= One * One * BusPowerBound(c.bus)
               /\ power < 0 => rounded >= -One * One * BusPowerBound(RegenLimit)
<1> DEFINE x == filtered.q
           v == c.q
           p == DirectPower(c.d)
           motoring == BusPowerBound(b)
           regen == BusPowerBound(RegenLimit)
           u == One * One
<1>1. c.d \in Int /\ v \in Int /\ v # 0 /\ x \in Int /\ c.bus = b
    BY ClampedIs
<1>2. PICK q \in Int : (q > 0 <=> v > 0) /\ Magnitude(v) <= BusQuadrature(c.d, q, b)
    BY ClampedIs
<1>3. Magnitude(v) \in Nat /\ Magnitude(v) > 0
    <2> HIDE DEF v
    <2> QED
        BY <1>1 DEF Magnitude
<1> DEFINE r == PowerRoom(c.d, q, b)
           bq == BusQuadrature(c.d, q, b)
<1>4. p \in Int /\ r \in Int /\ x # 0 /\ r > 0 /\ Magnitude(v) <= One * (r \div AbsCeil(x))
    <2>1. /\ p \in Int /\ r \in Int /\ bq \in Nat
          /\ bq > 0 => x # 0 /\ r > 0 /\ bq = One * (r \div AbsCeil(x))
        <3> HIDE DEF v
        <3> QED
            BY <1>1, RoomNumbers
    <2>2. bq > 0 /\ Magnitude(v) <= bq
        <3>1. bq \in Nat /\ Magnitude(v) <= bq
            BY <1>2, <2>1
        <3> HIDE DEF bq, v
        <3> QED
            BY <1>3, <3>1
    <2> HIDE DEF bq, r, x, v, p
    <2> QED
        BY <2>1, <2>2
<1>5. motoring \in Int /\ regen \in Int /\ u \in Nat
    BY BusNumbers, CommandConstants, SMT
<1>6. AddsPower(q) <=> (v > 0 <=> x > 0)
    <2>1. SignedCeilAbs(x) > 0 <=> x > 0
        BY <1>1, <1>4, CeilingCovers
    <2> QED
        BY <1>2, <2>1 DEF AddsPower
<1>7. CASE AddsPower(q)
    <2>1. r = motoring - p
        BY <1>7 DEF PowerRoom
    <2> HIDE DEF x, v, p, motoring, r
    <2>2. x * v + One * One * p <= One * One * motoring
        BY <1>1, <1>4, <1>5, <1>6, <1>7, <2>1, RoundedPowerFits
    <2>3. ~(x * v < 0)
        <3>1. CASE x > 0
            <4>1. v > 0
                BY <1>1, <1>6, <1>7, <3>1
            <4> QED
                BY <1>1, <3>1, <4>1, SMT
        <3>2. CASE x < 0
            <4>1. v < 0
                BY <1>1, <1>6, <1>7, <3>2
            <4> QED
                BY <1>1, <3>2, <4>1, SMT
        <3> QED
            BY <1>1, <1>4, <3>1, <3>2
    <2> QED
        BY <1>1, <2>2, <2>3 DEF x, v, p, motoring
<1>8. CASE ~AddsPower(q)
    <2>1. r = regen + p
        BY <1>8 DEF PowerRoom
    <2> HIDE DEF x, v, p, regen, r
    <2>2. /\ -v \in Int /\ -p \in Int /\ -v # 0 /\ (-v > 0 <=> x > 0) /\ regen - (-p) = r
          /\ Magnitude(-v) = Magnitude(v)
        BY <1>1, <1>4, <1>5, <1>6, <1>8, <2>1 DEF Magnitude
    <2>3. x * (-v) + One * One * (-p) <= One * One * regen
        BY <1>1, <1>4, <1>5, <2>2, RoundedPowerFits
    <2>4. x * (-v) = -(x * v) /\ x * v \in Int
        BY <1>1, SMT
    <2>5. One * One * (-p) = -(One * One * p) /\ One * One * p \in Int
        BY <1>4, CommandConstants, SMT
    <2>6. -One * One * regen = -(One * One * regen) /\ One * One * regen \in Int
        BY <1>5, CommandConstants, SMT
    <2>7. x * v + One * One * p >= -One * One * regen
        <3> DEFINE xv == x * v
                   up == One * One * p
                   ur == One * One * regen
        <3>1. -xv + -up <= ur /\ xv \in Int /\ up \in Int /\ ur \in Int
            BY <2>3, <2>4, <2>5, <2>6
        <3>2. xv + up >= -ur
            <4> HIDE DEF xv, up, ur
            <4> QED
                BY <3>1
        <3> QED
            BY <2>6, <3>2
    <2>8. ~(x * v > 0)
        <3>1. CASE x > 0
            <4>1. v < 0
                BY <1>1, <1>6, <1>8, <3>1
            <4> QED
                BY <1>1, <3>1, <4>1, SMT
        <3>2. CASE x < 0
            <4>1. v > 0
                BY <1>1, <1>6, <1>8, <3>2
            <4> QED
                BY <1>1, <3>2, <4>1, SMT
        <3> QED
            BY <1>1, <1>4, <3>1, <3>2
    <2> QED
        BY <2>7, <2>8 DEF x, v, p, regen
<1> QED
    BY <1>7, <1>8

-----------------------------------------------------------------------------
LEMMA FilterStepIs ==
    ASSUME NEW previous \in Int, NEW sample \in Int
    PROVE  FilterStep(previous, sample) \in Int
<1>1. (previous - sample) \div Shift \in Int /\ (sample - previous) \div Shift \in Int
    BY CommandConstants
<1> QED
    BY <1>1 DEF FilterStep

LEMMA RampStepIs ==
    ASSUME target \in Int, rampAge \in 0..(RampCycles - 1), NEW requested \in Int,
           RampStep(requested)
    PROVE  target' \in Int /\ rampAge' \in 0..(RampCycles - 1) /\ Released(requested) \in Int
<1> DEFINE held == Released(requested)
           count == IF held # target THEN 1 ELSE rampAge + 1
<1>1. held \in Int
    BY DEF Released, Larger
<1>2. count \in Nat
    <2> HIDE DEF held
    <2> QED
        BY CommandConstants
<1>3. /\ rampAge' = (IF count >= RampCycles THEN 0 ELSE count)
      /\ target' = IF count >= RampCycles /\ held > requested THEN Larger(held - RampCounts, requested)
                   ELSE held
    BY DEF RampStep
<1> HIDE DEF held, count
<1>4. target' \in Int /\ rampAge' \in 0..(RampCycles - 1)
    BY <1>1, <1>2, <1>3, CommandConstants DEF Larger
<1> QED
    BY <1>1, <1>4 DEF held

LEMMA WeakenedIs ==
    ASSUME weakening \in Int, NEW granted \in Nat, NEW pressed
    PROVE  Weakened(granted, pressed) \in (-One * WeakeningLimit)..0
<1> DEFINE max == WeakeningMaximum(granted)
           sum == BoundedWeakening(granted) + (IF pressed THEN -RampIn ELSE RampOut)
           deepest == One * WeakeningLimit
<1>1. max \in Nat /\ max <= deepest /\ BoundedWeakening(granted) \in Int /\ deepest \in Nat
    <2>1. deepest \in Nat
        BY CommandConstants, SMT
    <2> QED
        BY <2>1, WeakeningBounds
<1>2. sum \in Int
    BY <1>1, CommandConstants
<1>3. Weakened(granted, pressed) = Clamp(sum, -max, 0)
    BY DEF Weakened
<1>4. -One * WeakeningLimit = -deepest
    BY CommandConstants, SMT
<1> HIDE DEF max, sum, deepest
<1>5. Clamp(sum, -max, 0) \in (-deepest)..0
    BY <1>1, <1>2 DEF Clamp, Smaller, Larger
<1> QED
    BY <1>3, <1>4, <1>5

LEMMA StepCommand ==
    ASSUME CommandTypes, Step
    PROVE  /\ CommandTypes' /\ InsideDeratedCircle'
           /\ command'.q # 0 /\ ~InDeadband =>
                 /\ Power("q") > 0 => RoundedPower <= One * One * BusPowerBound(command'.bus)
                 /\ Power("q") < 0 => RoundedPower >= -One * One * BusPowerBound(RegenLimit)
<1>1. PICK requested \in Requests, granted \in PhaseCeilings, bus \in BusCeilings :
          /\ RampStep(requested)
          /\ command' = Clamped(Released(requested), granted, bus)
          /\ \E pressed \in {FALSE, MayWeaken(granted, Clamped(Released(requested), granted, bus).q)} :
                weakening' = Weakened(granted, pressed)
          /\ \E d, q \in Voltages :
                filtered' = [d |-> FilterStep(filtered.d, d), q |-> FilterStep(filtered.q, q)]
    BY DEF Step
<1>2. requested \in Int /\ granted \in Nat /\ bus \in Nat
    BY CommandConstants
<1>3. /\ target \in Int /\ rampAge \in 0..(RampCycles - 1) /\ weakening \in Int
      /\ filtered \in [{"d", "q"} -> Int]
    <2>1. weakening \in (-One * WeakeningLimit)..0 /\ -One * WeakeningLimit \in Int
        BY CommandConstants, SMT DEF CommandTypes
    <2> QED
        BY <2>1 DEF CommandTypes
<1>4. target' \in Int /\ rampAge' \in 0..(RampCycles - 1) /\ Released(requested) \in Int
    BY <1>1, <1>2, <1>3, RampStepIs
<1>5. weakening' \in (-One * WeakeningLimit)..0
    BY <1>1, <1>2, <1>3, WeakenedIs
<1>6. filtered' \in [{"d", "q"} -> Int]
    <2>1. PICK d \in Voltages, q \in Voltages :
              filtered' = [d |-> FilterStep(filtered.d, d), q |-> FilterStep(filtered.q, q)]
        BY <1>1
    <2>2. FilterStep(filtered.d, d) \in Int /\ FilterStep(filtered.q, q) \in Int
        BY <1>3, CommandConstants, FilterStepIs
    <2> QED
        BY <2>1, <2>2
<1>7. /\ command' \in [d : Int, q : Int, ceiling : Nat, bus : Nat]
      /\ command'.d * command'.d + command'.q * command'.q <= command'.ceiling * command'.ceiling
      /\ 2 * Magnitude(command'.d) <= command'.ceiling
    BY <1>1, <1>2, <1>3, <1>4, ClampedIs
<1>8. command'.q # 0 /\ ~InDeadband =>
          /\ Power("q") > 0 => RoundedPower <= One * One * BusPowerBound(command'.bus)
          /\ Power("q") < 0 => RoundedPower >= -One * One * BusPowerBound(RegenLimit)
    BY <1>1, <1>2, <1>3, <1>4, BatteryStep DEF Power, RoundedPower
<1>9. CommandTypes'
    BY <1>4, <1>5, <1>6, <1>7 DEF CommandTypes
<1>10. InsideDeratedCircle'
    BY <1>7 DEF InsideDeratedCircle
<1> QED
    BY <1>8, <1>9, <1>10

AtRest ==
    /\ target = 0 /\ rampAge = 0 /\ weakening = 0
    /\ filtered = [d |-> 0, q |-> 0] /\ command = None

LEMMA AtRestIsSafe == AtRest => CommandTypes /\ InsideDeratedCircle
<1> SUFFICES ASSUME AtRest PROVE CommandTypes /\ InsideDeratedCircle
    OBVIOUS
<1> USE DEF AtRest
<1>1. 0 \in (-One * WeakeningLimit)..0
    <2>1. One * WeakeningLimit \in Nat /\ -One * WeakeningLimit = -(One * WeakeningLimit)
        BY CommandConstants, SMT
    <2> DEFINE deepest == One * WeakeningLimit
    <2>2. 0 \in (-deepest)..0
        <3>1. deepest \in Nat
            BY <2>1
        <3> HIDE DEF deepest
        <3> QED
            BY <3>1
    <2> QED
        BY <2>1, <2>2
<1>2. CommandTypes
    BY <1>1, CommandConstants DEF CommandTypes, None
<1>3. InsideDeratedCircle
    BY DEF InsideDeratedCircle, None, Magnitude
<1> QED
    BY <1>2, <1>3

CommandInv == CommandTypes /\ InsideDeratedCircle

LEMMA NextCommandInv == CommandInv /\ [CommandNext]_commandVars => CommandInv'
<1> SUFFICES ASSUME CommandInv, [CommandNext]_commandVars PROVE CommandInv'
    OBVIOUS
<1>1. CASE Step
    BY <1>1, StepCommand DEF CommandInv
<1>2. CASE Stop
    <2>1. AtRest'
        BY <1>2 DEF Stop, AtRest
    <2>2. CommandTypes' /\ InsideDeratedCircle'
        BY <2>1, AtRestIsSafe, PTL
    <2> QED
        BY <2>2 DEF CommandInv
<1>3. CASE UNCHANGED commandVars
    BY <1>3 DEF CommandInv, CommandTypes, InsideDeratedCircle, commandVars
<1> QED
    BY <1>1, <1>2, <1>3 DEF CommandNext

LEMMA CommandInvHolds == CommandSpec => []CommandInv
<1>1. CommandInit => CommandInv
    BY AtRestIsSafe DEF AtRest, CommandInit, CommandInv
<1> QED
    BY <1>1, NextCommandInv, PTL DEF CommandSpec

\* The types of the command path.
THEOREM CommandTypesHold == CommandSpec => []CommandTypes
<1>1. CommandInv => CommandTypes
    BY DEF CommandInv
<1> QED
    BY <1>1, CommandInvHolds, PTL

\* The d and the q current share the derated envelope, and d takes at most half
\* of it, however many bits the root's operands drop.
THEOREM CommandStaysInCircle == CommandSpec => []InsideDeratedCircle
<1>1. CommandInv => InsideDeratedCircle
    BY DEF CommandInv
<1> QED
    BY <1>1, CommandInvHolds, PTL

\* The projected battery power keeps within the limit for its sign.
THEOREM CommandStaysWithinBattery == CommandSpec => WithinBattery
<1> DEFINE Bounded ==
        command'.q # 0 /\ ~InDeadband =>
            /\ Power("q") > 0 => RoundedPower <= One * One * BusPowerBound(command'.bus)
            /\ Power("q") < 0 => RoundedPower >= -One * One * BusPowerBound(RegenLimit)
<1>1. CommandInv /\ [CommandNext]_commandVars => [Bounded]_commandVars
    <2> SUFFICES ASSUME CommandInv, CommandNext PROVE Bounded
        BY DEF CommandInv
    <2>1. CASE Step
        BY <2>1, StepCommand DEF CommandInv
    <2>2. CASE Stop
        BY <2>2 DEF Stop, None
    <2> QED
        BY <2>1, <2>2 DEF CommandNext
<1> QED
    BY <1>1, CommandInvHolds, PTL DEF CommandSpec, WithinBattery

-----------------------------------------------------------------------------
(* The CAN transport.                                                      *)

Parcel == {"Empty", "Answer", "Stock", "Project"} \X Nat

\* A mailbox with TXRQ set has been requested once and holds what is owed.
Mail ==
    /\ mailbox \in [Mailboxes -> Parcel]
    /\ txrq \in Seq(Mailboxes)
    /\ \A i, j \in 1..Len(txrq) : txrq[i] = txrq[j] => i = j
    /\ owed \in Seq(Parcel) /\ Len(owed) = Len(txrq)
    /\ \A i \in 1..Len(txrq) : owed[i] = mailbox[txrq[i]]

\* The mailbox that transmit() has chosen stays empty until it has been filled.
Access ==
    /\ pc \in {"Pass", "Select", "Fill", "Updater", "Decide"}
    /\ masked \in BOOLEAN /\ (pc = "Fill" => masked)
    /\ chosen \in Empty \cup {NoMailbox}
    /\ pc # "Fill" => chosen = NoMailbox

\* A slot transmits at most what the mailboxes can hold.
Slot ==
    /\ queue \in Seq(Parcel) /\ used \in 0..3 /\ used + Len(queue) <= 3
    /\ pc = "Fill" => queue # <<>>

\* The time since the slot began is what the wrapping clock is ahead of it.
Schedule ==
    /\ now \in 0..(Wrap - 1) /\ next \in 0..(Wrap - 1) /\ slot \in 0..(SlotCount - 1)
    /\ since \in 0..(2 * SlotPeriod - 1)
    /\ next - now \in {SlotPeriod - since, SlotPeriod - since + Wrap, SlotPeriod - since - Wrap}

Pages ==
    /\ page \in 0..(PageCount - 1) /\ last \in 0..(PageCount - 1)
    /\ page = (last + 1) % PageCount

Updater ==
    /\ {reset, decided, asked} \subseteq BOOLEAN
    /\ asked => reset \/ decided
    /\ decided => pc = "Decide"

CanInv == Mail /\ Access /\ Slot /\ Schedule /\ Pages /\ Updater

-----------------------------------------------------------------------------
LEMMA FirstIsEmpty == Empty # {} => FirstEmpty \in Empty
<1> SUFFICES ASSUME Empty # {} PROVE FirstEmpty \in Empty
    OBVIOUS
<1>1. Empty \subseteq 0..2
    BY DEF Empty, Mailboxes
<1>2. \E m \in Empty : \A n \in Empty : m <= n
    <2>1. CASE 0 \in Empty
        BY <1>1, <2>1
    <2>2. CASE 0 \notin Empty /\ 1 \in Empty
        BY <1>1, <2>2
    <2>3. CASE 0 \notin Empty /\ 1 \notin Empty
        <3>1. \A n \in Empty : n = 2
            BY <1>1, <2>3
        <3> QED
            BY <3>1
    <2> QED
        BY <2>1, <2>2, <2>3
<1> QED
    BY <1>2 DEF FirstEmpty

LEMMA FramesAreParcels ==
    /\ \A k \in {"Empty", "Answer", "Stock"} : CanFrame(k) \in Parcel
    /\ \A p \in 0..(PageCount - 1) : Project(p) \in Parcel
    BY DEF CanFrame, Project, Parcel

LEMMA EmptyIs ==
    ASSUME txrq \in Seq(Mailboxes), NEW m \in Mailboxes
    PROVE  m \in Empty <=> \A i \in 1..Len(txrq) : txrq[i] # m
    BY DEF Empty, ToSet

\* A frame that is put into an empty mailbox is owed as the last.
LEMMA PostKeepsMail ==
    ASSUME Mail, NEW m \in Empty, NEW f \in Parcel,
           mailbox' = [mailbox EXCEPT ![m] = f], txrq' = Append(txrq, m),
           owed' = Append(owed, f)
    PROVE  Mail'
<1> USE DEF Mail
<1>1. m \in Mailboxes /\ \A i \in 1..Len(txrq) : txrq[i] # m
    BY EmptyIs DEF Empty
<1>2. mailbox' \in [Mailboxes -> Parcel]
    BY <1>1
<1>3. /\ txrq' \in Seq(Mailboxes) /\ Len(txrq') = Len(txrq) + 1
      /\ \A i \in 1..Len(txrq) : txrq'[i] = txrq[i]
      /\ txrq'[Len(txrq) + 1] = m
    BY <1>1
<1>4. /\ owed' \in Seq(Parcel) /\ Len(owed') = Len(txrq) + 1
      /\ \A i \in 1..Len(txrq) : owed'[i] = owed[i]
      /\ owed'[Len(txrq) + 1] = f
    OBVIOUS
<1>5. \A i, j \in 1..Len(txrq') : txrq'[i] = txrq'[j] => i = j
    BY <1>1, <1>3
<1>6. \A i \in 1..Len(txrq') : owed'[i] = mailbox'[txrq'[i]]
    <2> TAKE i \in 1..Len(txrq')
    <2>1. CASE i \in 1..Len(txrq)
        <3>1. txrq[i] \in Mailboxes /\ txrq[i] # m
            BY <1>1, <2>1
        <3> QED
            BY <1>3, <1>4, <2>1, <3>1
    <2>2. CASE i = Len(txrq) + 1
        BY <1>1, <1>3, <1>4, <2>2
    <2> QED
        BY <1>3, <2>1, <2>2
<1> QED
    BY <1>2, <1>3, <1>4, <1>5, <1>6

LEMMA SendKeepsMail == ASSUME Mail, Send PROVE Mail'
<1> USE DEF Mail, Send
<1>1. Head(txrq) \in Mailboxes /\ txrq[1] = Head(txrq) /\ Len(txrq) >= 1
    OBVIOUS
<1>2. mailbox' \in [Mailboxes -> Parcel]
    BY <1>1, FramesAreParcels
<1>3. /\ txrq' \in Seq(Mailboxes) /\ Len(txrq') = Len(txrq) - 1
      /\ \A i \in 1..(Len(txrq) - 1) : txrq'[i] = txrq[i + 1]
    BY <1>1
<1>4. /\ owed' \in Seq(Parcel) /\ Len(owed') = Len(txrq) - 1
      /\ \A i \in 1..(Len(txrq) - 1) : owed'[i] = owed[i + 1]
    BY <1>1
<1>5. \A i, j \in 1..Len(txrq') : txrq'[i] = txrq'[j] => i = j
    <2> SUFFICES ASSUME NEW i \in 1..Len(txrq'), NEW j \in 1..Len(txrq'), txrq'[i] = txrq'[j]
                 PROVE  i = j
        OBVIOUS
    <2>1. i + 1 \in 1..Len(txrq) /\ j + 1 \in 1..Len(txrq) /\ txrq[i + 1] = txrq[j + 1]
        BY <1>1, <1>3
    <2>2. i + 1 = j + 1
        BY <2>1
    <2> QED
        BY <2>2
<1>6. \A i \in 1..Len(txrq') : owed'[i] = mailbox'[txrq'[i]]
    <2> TAKE i \in 1..Len(txrq')
    <2>1. i + 1 \in 1..Len(txrq) /\ i + 1 # 1 /\ 1 \in 1..Len(txrq)
        BY <1>1, <1>3
    <2>2. txrq[i + 1] # Head(txrq) /\ txrq[i + 1] \in Mailboxes
        BY <1>1, <2>1
    <2>3. mailbox'[txrq[i + 1]] = mailbox[txrq[i + 1]]
        BY <2>2
    <2> QED
        BY <1>1, <1>3, <1>4, <2>1, <2>3
<1> QED
    BY <1>2, <1>3, <1>4, <1>5, <1>6

\* Sending and answering leave what transmit() has chosen empty.
LEMMA SendKeepsAccess == ASSUME Mail, Access, Send PROVE Access'
<1>1. txrq' \in Seq(Mailboxes) /\ txrq \in Seq(Mailboxes)
    BY SendKeepsMail DEF Mail
<1>2. Empty \subseteq Empty'
    BY <1>1 DEF Send, Empty, ToSet
<1> QED
    BY <1>2 DEF Access, Send, locals

LEMMA StayKeepsAccess ==
    ASSUME Access, UNCHANGED <<txrq, masked, pc, chosen>>
    PROVE  Access'
    BY DEF Access, Empty

LEMMA StayKeepsMail ==
    ASSUME Mail, UNCHANGED <<mailbox, txrq, owed>>
    PROVE  Mail'
    BY DEF Mail

LEMMA StayKeepsRest ==
    /\ Slot /\ UNCHANGED <<queue, used, pc>> => Slot'
    /\ Schedule /\ UNCHANGED <<now, next, slot, since>> => Schedule'
    /\ Pages /\ UNCHANGED <<page, last>> => Pages'
    /\ Updater /\ UNCHANGED <<reset, decided, asked, pc>> => Updater'
    BY DEF Slot, Schedule, Pages, Updater

\* The receive interrupt answers while transmit() has chosen nothing.
LEMMA InterruptKeepsCan == ASSUME CanInv, ReceiveInterrupt PROVE CanInv'
<1> USE DEF CanInv
<1>1. ~masked /\ UNCHANGED <<masked, now, next, slot, page, pc, queue, used, chosen>>
      /\ UNCHANGED <<decided, since, last>>
    BY DEF ReceiveInterrupt, schedule, locals
<1>2. pc # "Fill" /\ chosen = NoMailbox
    BY <1>1 DEF Access
<1>3. Access'
    BY <1>1, <1>2 DEF Access
<1>4. \/ Empty # {} /\ mailbox' = [mailbox EXCEPT ![FirstEmpty] = CanFrame("Answer")]
         /\ txrq' = Append(txrq, FirstEmpty) /\ owed' = Append(owed, CanFrame("Answer"))
      \/ UNCHANGED <<mailbox, txrq, owed>>
    BY DEF ReceiveInterrupt
<1>5. Mail'
    <2>1. CASE UNCHANGED <<mailbox, txrq, owed>>
        BY <2>1, StayKeepsMail
    <2>2. CASE ~UNCHANGED <<mailbox, txrq, owed>>
        <3>1. FirstEmpty \in Empty /\ CanFrame("Answer") \in Parcel
            BY <1>4, <2>2, FirstIsEmpty, FramesAreParcels
        <3> QED
            BY <1>4, <2>2, <3>1, PostKeepsMail
    <2> QED
        BY <2>1, <2>2
<1>6. Slot' /\ Schedule' /\ Pages'
    BY <1>1, StayKeepsRest
<1>7. Updater'
    <2>1. CASE UNCHANGED <<reset, asked>>
        BY <1>1, <2>1, StayKeepsRest
    <2>2. CASE reset' = TRUE /\ asked' = TRUE
        BY <1>1, <2>2 DEF Updater
    <2> QED
        BY <2>1, <2>2 DEF ReceiveInterrupt
<1> QED
    BY <1>3, <1>5, <1>6, <1>7

\* What the clocks show after a step of less than half their range.
LEMMA ClockAdds ==
    ASSUME NEW a \in 0..(Wrap - 1), NEW d \in 0..(2 * SlotPeriod)
    PROVE  (a + d) % Wrap = IF a + d < Wrap THEN a + d ELSE a + d - Wrap
    BY TransportAssumption

LEMMA TickKeepsSchedule == ASSUME Schedule, Tick PROVE Schedule'
<1> USE DEF Schedule
<1>1. PICK d \in 1..SlotPeriod : now' = (now + d) % Wrap /\ since' = since + d
    BY DEF Tick
<1>2. since < SlotPeriod /\ UNCHANGED <<next, slot>>
    BY DEF Tick, schedule
<1>3. SlotPeriod \in Nat \ {0} /\ Wrap \in Nat /\ Wrap >= 4 * SlotPeriod
    BY TransportAssumption
<1>4. now' = IF now + d < Wrap THEN now + d ELSE now + d - Wrap
    <2>1. now \in 0..(Wrap - 1)
        OBVIOUS
    <2>2. d \in 0..(2 * SlotPeriod)
        BY <1>3
    <2>3. (now + d) % Wrap = IF now + d < Wrap THEN now + d ELSE now + d - Wrap
        BY <2>1, <2>2, ClockAdds
    <2> QED
        BY <1>1, <2>3
<1>5. now' \in 0..(Wrap - 1) /\ since' \in 0..(2 * SlotPeriod - 1)
    BY <1>1, <1>2, <1>3, <1>4
<1>6. next' - now' \in {SlotPeriod - since', SlotPeriod - since' + Wrap, SlotPeriod - since' - Wrap}
    <2>1. next - now \in {SlotPeriod - since, SlotPeriod - since + Wrap, SlotPeriod - since - Wrap}
        OBVIOUS
    <2>2. CASE now + d < Wrap
        BY <1>1, <1>2, <1>3, <1>4, <2>1, <2>2
    <2>3. CASE now + d >= Wrap
        <3>1. next - now # SlotPeriod - since + Wrap
            BY <1>1, <1>2, <1>3, <2>3
        <3> QED
            BY <1>1, <1>2, <1>3, <1>4, <2>1, <2>3, <3>1
    <2> QED
        BY <1>1, <2>2, <2>3, <1>3
<1> QED
    BY <1>2, <1>5, <1>6

LEMMA SlotsFit ==
    ASSUME NEW s \in 0..(SlotCount - 1)
    PROVE  StockFrames(s) \in Seq(Parcel) /\ Len(StockFrames(s)) <= 3
<1> DEFINE count == IF s \in {1, 2, 22, 42} THEN 3 ELSE IF s \in {3, 7} \/ s % 2 = 0 THEN 2 ELSE 1
<1>1. count \in 1..3
    OBVIOUS
<1>2. StockFrames(s) = [i \in 1..count |-> CanFrame("Stock")]
    BY DEF StockFrames
<1> HIDE DEF count
<1>3. CanFrame("Stock") \in Parcel
    BY FramesAreParcels
<1> QED
    BY <1>1, <1>2, <1>3

LEMMA BeginKeepsCan == ASSUME CanInv, Begin PROVE CanInv'
<1> USE DEF CanInv
<1>1. /\ pc = "Pass" /\ pc' = "Select" /\ next' = (now + SlotPeriod) % Wrap
      /\ slot' = (slot + 1) % SlotCount /\ queue' = StockFrames(slot) /\ used' = 0 /\ since' = 0
      /\ UNCHANGED <<mailbox, txrq, masked, now, page, chosen, reset, decided, owed, asked, last>>
    BY DEF Begin, At, hardware
<1>2. Mail'
    BY <1>1, StayKeepsMail
<1>3. Access'
    BY <1>1 DEF Access, Empty
<1>4. Slot'
    <2>1. slot \in 0..(SlotCount - 1)
        BY DEF Schedule
    <2>2. queue' \in Seq(Parcel) /\ Len(queue') <= 3 /\ Len(queue') \in Nat
        BY <1>1, <2>1, SlotsFit
    <2> QED
        BY <1>1, <2>2 DEF Slot
<1>5. Schedule'
    <2>1. SlotPeriod \in Nat \ {0} /\ Wrap \in Nat /\ Wrap >= 4 * SlotPeriod
        BY TransportAssumption
    <2>2. now \in 0..(Wrap - 1) /\ now' = now
        BY <1>1 DEF Schedule
    <2>3. next' = IF now + SlotPeriod < Wrap THEN now + SlotPeriod ELSE now + SlotPeriod - Wrap
        <3>1. SlotPeriod \in 0..(2 * SlotPeriod)
            BY <2>1
        <3>2. (now + SlotPeriod) % Wrap
                  = IF now + SlotPeriod < Wrap THEN now + SlotPeriod ELSE now + SlotPeriod - Wrap
            BY <2>2, <3>1, ClockAdds
        <3> QED
            BY <1>1, <3>2
    <2>4. slot' \in 0..(SlotCount - 1)
        BY <1>1, TransportAssumption DEF Schedule
    <2>5. next' \in 0..(Wrap - 1) /\ since' \in 0..(2 * SlotPeriod - 1)
        BY <1>1, <2>1, <2>2, <2>3
    <2>6. next' - now' \in {SlotPeriod - since', SlotPeriod - since' + Wrap, SlotPeriod - since' - Wrap}
        BY <1>1, <2>1, <2>2, <2>3
    <2> QED
        BY <2>2, <2>4, <2>5, <2>6 DEF Schedule
<1>6. Pages'
    BY <1>1, StayKeepsRest
<1>7. Updater'
    BY <1>1 DEF Updater
<1> QED
    BY <1>2, <1>3, <1>4, <1>5, <1>6, <1>7

LEMMA SelectKeepsCan == ASSUME CanInv, Select PROVE CanInv'
<1> USE DEF CanInv
<1>1. /\ queue # <<>> /\ pc = "Select" /\ pc' = "Fill" /\ masked' = TRUE
      /\ chosen' = (IF Empty = {} THEN NoMailbox ELSE FirstEmpty)
      /\ UNCHANGED <<mailbox, txrq, now, next, slot, page, queue, used>>
      /\ UNCHANGED <<reset, decided, since, owed, asked, last>>
    BY DEF Select, SlotEnds, At, Raised, hardware, schedule
<1>2. Mail' /\ Schedule' /\ Pages'
    BY <1>1, StayKeepsMail, StayKeepsRest
<1>3. Access'
    <2>1. Empty' = Empty
        BY <1>1 DEF Empty
    <2>2. chosen' \in Empty' \cup {NoMailbox}
        BY <1>1, <2>1, FirstIsEmpty
    <2> QED
        BY <1>1, <2>2 DEF Access
<1>4. Slot'
    BY <1>1 DEF Slot
<1>5. Updater'
    BY <1>1 DEF Updater
<1> QED
    BY <1>2, <1>3, <1>4, <1>5

\* After a frame the rest is one shorter, or the page that still fits.
LEMMA RestFits ==
    ASSUME Slot, Pages, pc = "Fill", NEW sent \in {used, used + 1}
    PROVE  /\ Rest(sent) \in Seq(Parcel) /\ sent \in 0..3
           /\ sent + Len(Rest(sent)) <= 3
<1> USE DEF Slot
<1>1. Len(queue) >= 1 /\ sent \in 0..3 /\ sent + Len(queue) <= 4 /\ Len(queue) \in Nat
    OBVIOUS
<1>2. CASE Len(queue) > 1
    <2>1. Rest(sent) = Tail(queue)
        BY <1>2 DEF Rest
    <2>2. Tail(queue) \in Seq(Parcel) /\ Len(Tail(queue)) = Len(queue) - 1
        BY <1>1
    <2> QED
        BY <1>1, <2>1, <2>2
<1>3. CASE ~(Len(queue) > 1) /\ Stock /\ sent < 3
    <2>1. Rest(sent) = <<Project(page)>>
        BY <1>3 DEF Rest
    <2>2. Project(page) \in Parcel
        BY FramesAreParcels DEF Pages
    <2> QED
        BY <1>1, <1>3, <2>1, <2>2
<1>4. CASE ~(Len(queue) > 1) /\ ~(Stock /\ sent < 3)
    <2>1. Rest(sent) = <<>>
        BY <1>4 DEF Rest
    <2> QED
        BY <1>1, <2>1
<1> QED
    BY <1>2, <1>3, <1>4

LEMMA FillKeepsCan == ASSUME CanInv, Fill PROVE CanInv'
<1> USE DEF CanInv
<1>1. /\ pc = "Fill" /\ pc' = "Select" /\ masked' = FALSE /\ chosen' = NoMailbox
      /\ UNCHANGED <<now, next, slot, reset, decided, since, asked>>
      /\ queue' = Rest(used')
    BY DEF Fill, At
<1>2. \/ /\ chosen = NoMailbox /\ UNCHANGED <<mailbox, txrq, owed>> /\ used' = used
      \/ /\ chosen \in Empty /\ used' = used + 1
         /\ mailbox' = [mailbox EXCEPT ![chosen] = Head(queue)]
         /\ txrq' = Append(txrq, chosen) /\ owed' = Append(owed, Head(queue))
    <2>1. chosen \in Empty \cup {NoMailbox} /\ NoMailbox \notin Empty
        BY DEF Access, Empty, Mailboxes, NoMailbox
    <2> QED
        BY <2>1 DEF Fill
<1>3. Head(queue) \in Parcel
    BY <1>1 DEF Slot
<1>4. Mail'
    BY <1>2, <1>3, StayKeepsMail, PostKeepsMail
<1>5. Access'
    BY <1>1 DEF Access
<1>6. Slot'
    <2>1. used' \in {used, used + 1}
        BY <1>2
    <2>2. Rest(used') \in Seq(Parcel) /\ used' \in 0..3 /\ used' + Len(Rest(used')) <= 3
        BY <1>1, <2>1, RestFits
    <2> QED
        BY <1>1, <2>2 DEF Slot
<1>7. Pages'
    <2>1. \/ UNCHANGED <<page, last>>
          \/ page' = (page + 1) % PageCount /\ last' = page
        BY DEF Fill, NextPage
    <2>2. CASE UNCHANGED <<page, last>>
        BY <2>2, StayKeepsRest
    <2>3. CASE page' = (page + 1) % PageCount /\ last' = page
        BY <2>3, TransportAssumption DEF Pages
    <2> QED
        BY <2>1, <2>2, <2>3
<1>8. Schedule'
    BY <1>1, StayKeepsRest
<1>9. Updater'
    BY <1>1 DEF Updater
<1> QED
    BY <1>4, <1>5, <1>6, <1>7, <1>8, <1>9

LEMMA DecideKeepsCan == ASSUME CanInv, DecideReset PROVE CanInv'
<1> USE DEF CanInv
<1>1. /\ pc = "Decide" /\ decided' = FALSE /\ pc' = "Pass"
      /\ asked' <=> asked /\ ~decided
    BY DEF DecideReset, Updater
<1>2. CASE /\ UNCHANGED <<mailbox, txrq, masked, now, next, slot, page, queue, used, chosen>>
           /\ UNCHANGED <<reset, since, owed, last>>
    <2>1. Mail' /\ Schedule' /\ Pages'
        BY <1>2, StayKeepsMail, StayKeepsRest
    <2>2. Access'
        BY <1>1, <1>2 DEF Access, Empty
    <2>3. Slot'
        BY <1>1, <1>2 DEF Slot
    <2>4. {reset', decided', asked'} \subseteq BOOLEAN
        BY <1>1, <1>2 DEF Updater, DecideReset
    <2>5. Updater'
        BY <1>1, <1>2, <2>4 DEF Updater
    <2> QED
        BY <2>1, <2>2, <2>3, <2>5
<1>3. CASE /\ decided /\ mailbox' = [m \in Mailboxes |-> CanFrame("Empty")] /\ txrq' = <<>>
           /\ masked' = FALSE /\ now' = 0 /\ next' = 0 /\ slot' = 0 /\ page' = 0
           /\ queue' = <<>> /\ used' = 0 /\ chosen' = NoMailbox /\ reset' = FALSE
           /\ since' = SlotPeriod /\ owed' = <<>> /\ last' = PageCount - 1
    <2>1. Mail'
        BY <1>3, FramesAreParcels DEF Mail
    <2>2. Access'
        BY <1>1, <1>3 DEF Access
    <2>3. Slot'
        BY <1>1, <1>3 DEF Slot
    <2>4. Schedule'
        BY <1>3, TransportAssumption DEF Schedule
    <2>5. Pages'
        BY <1>3, TransportAssumption DEF Pages
    <2>6. {reset', decided', asked'} \subseteq BOOLEAN
        BY <1>1, <1>3 DEF Updater, DecideReset
    <2>7. Updater'
        BY <1>1, <1>3, <2>6 DEF Updater
    <2> QED
        BY <2>1, <2>2, <2>3, <2>4, <2>5, <2>7
<1> QED
    BY <1>2, <1>3 DEF DecideReset, hardware, schedule

LEMMA InitCanInv == CanInit => CanInv
<1> SUFFICES ASSUME CanInit PROVE CanInv
    OBVIOUS
<1> USE DEF CanInit
<1>1. Mail
    BY FramesAreParcels DEF Mail
<1>2. Access
    BY DEF Access
<1>3. Slot
    BY DEF Slot
<1>4. Schedule
    BY TransportAssumption DEF Schedule
<1>5. Pages
    BY TransportAssumption DEF Pages
<1>6. Updater
    BY DEF Updater
<1> QED
    BY <1>1, <1>2, <1>3, <1>4, <1>5, <1>6 DEF CanInv

LEMMA NextCanInv == CanInv /\ [CanNext]_canVars => CanInv'
<1> SUFFICES ASSUME CanInv, [CanNext]_canVars PROVE CanInv'
    OBVIOUS
<1> USE DEF hardware, schedule, locals
<1>1. CASE Send
    <2>1. UNCHANGED <<masked, now, next, slot, page, pc, queue, used, chosen>>
          /\ UNCHANGED <<reset, decided, since, asked, last>>
        BY <1>1 DEF Send
    <2>2. Mail' /\ Access'
        BY <1>1, SendKeepsMail, SendKeepsAccess DEF CanInv
    <2> QED
        BY <2>1, <2>2, StayKeepsRest DEF CanInv
<1>2. CASE ReceiveInterrupt
    BY <1>2, InterruptKeepsCan
<1>3. CASE Tick
    <2>1. UNCHANGED <<mailbox, txrq, masked, page, pc, queue, used, chosen>>
          /\ UNCHANGED <<reset, decided, owed, asked, last>>
        BY <1>3 DEF Tick, At
    <2>2. Schedule'
        BY <1>3, TickKeepsSchedule DEF CanInv
    <2> QED
        BY <2>1, <2>2, StayKeepsMail, StayKeepsAccess, StayKeepsRest DEF CanInv
<1>4. CASE Idle \/ Finish \/ TakeReset
    <2>1. /\ pc # "Fill" /\ pc' \in {"Updater", "Decide"} /\ pc # "Decide"
          /\ UNCHANGED <<mailbox, txrq, masked, now, next, slot, page, queue, chosen>>
          /\ UNCHANGED <<since, owed, asked, last>>
          /\ used' \in {used, 0}
        BY <1>4 DEF Idle, Finish, TakeReset, At
    <2>2. Mail' /\ Schedule' /\ Pages'
        BY <2>1, StayKeepsMail, StayKeepsRest DEF CanInv
    <2>3. Access'
        BY <2>1 DEF CanInv, Access, Empty
    <2>4. Slot'
        BY <2>1 DEF CanInv, Slot
    <2>5. Updater'
        <3>1. CASE TakeReset
            <4>1. ~decided /\ decided' = reset /\ reset' = FALSE /\ pc' = "Decide" /\ asked' = asked
                BY <2>1, <3>1 DEF TakeReset, At, CanInv, Updater
            <4> QED
                BY <4>1 DEF CanInv, Updater
        <3>2. CASE Idle \/ Finish
            <4>1. UNCHANGED <<reset, decided, asked>> /\ ~decided
                BY <2>1, <3>2 DEF Idle, Finish, CanInv, Updater
            <4> QED
                BY <4>1 DEF CanInv, Updater
        <3> QED
            BY <1>4, <3>1, <3>2
    <2> QED
        BY <2>2, <2>3, <2>4, <2>5 DEF CanInv
<1>5. CASE Begin
    BY <1>5, BeginKeepsCan
<1>6. CASE Select
    BY <1>6, SelectKeepsCan
<1>7. CASE Fill
    BY <1>7, FillKeepsCan
<1>8. CASE DecideReset
    BY <1>8, DecideKeepsCan
<1>9. CASE UNCHANGED canVars
    <2>1. UNCHANGED <<mailbox, txrq, masked, now, next, slot, page, pc, queue, used, chosen>>
          /\ UNCHANGED <<reset, decided, since, owed, asked, last>>
        BY <1>9 DEF canVars
    <2> QED
        BY <2>1, StayKeepsMail, StayKeepsAccess, StayKeepsRest DEF CanInv
<1> QED
    BY <1>1, <1>2, <1>3, <1>4, <1>5, <1>6, <1>7, <1>8, <1>9 DEF CanNext, Foreground

LEMMA CanInvHolds == CanSpec => []CanInv
    BY InitCanInv, NextCanInv, PTL DEF CanSpec

\* Every frame that a transmit() accepted waits unaltered in a mailbox of its
\* own, and a reset that was asked for is pending or being decided on.
THEOREM AcceptedFramesAreKept == CanSpec => []NothingIsLost
<1>1. CanInv => AcceptedIsKept
    <2> SUFFICES ASSUME CanInv PROVE AcceptedIsKept
        OBVIOUS
    <2>1. /\ txrq \in Seq(Mailboxes) /\ owed \in Seq(Parcel) /\ Len(owed) = Len(txrq)
          /\ \A i \in 1..Len(txrq) : owed[i] = mailbox[txrq[i]]
        BY DEF CanInv, Mail
    <2>2. DOMAIN txrq = 1..Len(txrq) /\ owed = [i \in 1..Len(txrq) |-> owed[i]]
        BY <2>1
    <2>3. [i \in 1..Len(txrq) |-> owed[i]] = [i \in 1..Len(txrq) |-> mailbox[txrq[i]]]
        BY <2>1
    <2> QED
        BY <2>2, <2>3 DEF AcceptedIsKept
<1>2. CanInv => RequestIsDecided
    BY DEF CanInv, Updater, RequestIsDecided
<1>3. CanInv => NothingIsLost
    BY <1>1, <1>2 DEF NothingIsLost
<1> QED
    BY <1>3, CanInvHolds, PTL

\* Pages follow each other without a gap, and a slot is due when its period is
\* over and not before, also across the wrap of the clock.
THEOREM PagesFollow == CanSpec => []PagesInOrder
<1>1. CanInv => PagesInOrder
    <2> SUFFICES ASSUME CanInv PROVE Due <=> since >= SlotPeriod
        BY DEF PagesInOrder, CanInv, Pages
    <2> DEFINE ahead == next - now
    <2>1. /\ SlotPeriod \in Nat \ {0} /\ Wrap \in Nat /\ Wrap >= 4 * SlotPeriod
        BY TransportAssumption
    <2>2. /\ now \in 0..(Wrap - 1) /\ next \in 0..(Wrap - 1)
          /\ since \in 0..(2 * SlotPeriod - 1)
          /\ ahead \in {SlotPeriod - since, SlotPeriod - since + Wrap, SlotPeriod - since - Wrap}
        BY DEF CanInv, Schedule
    <2>3. ahead % Wrap = IF ahead < 0 THEN ahead + Wrap ELSE ahead
        BY <2>1, <2>2
    <2>4. ahead \in Int /\ (next = now <=> ahead = 0) /\ Wrap \div 2 \in Nat
          /\ 2 * SlotPeriod <= Wrap \div 2 /\ Wrap \div 2 <= Wrap - 2 * SlotPeriod
        BY <2>1, <2>2
    <2>5. Due <=> ahead = 0 \/ ahead % Wrap >= Wrap \div 2
        BY <2>4 DEF Due
    <2>6. CASE since >= SlotPeriod
        <3>1. ahead = SlotPeriod - since \/ ahead = SlotPeriod - since + Wrap
            BY <2>1, <2>2, <2>6
        <3>2. ahead = 0 \/ ahead % Wrap >= Wrap - 2 * SlotPeriod
            BY <2>1, <2>2, <2>3, <2>6, <3>1
        <3> QED
            BY <2>1, <2>2, <2>3, <2>4, <2>5, <2>6, <3>2
    <2>7. CASE since < SlotPeriod
        <3>1. ahead = SlotPeriod - since \/ ahead = SlotPeriod - since - Wrap
            BY <2>1, <2>2, <2>7
        <3>2. ahead # 0 /\ ahead % Wrap = SlotPeriod - since
            BY <2>1, <2>2, <2>3, <2>7, <3>1
        <3>3. ~(SlotPeriod - since >= Wrap \div 2)
            BY <2>1, <2>2, <2>4, <2>7
        <3> QED
            BY <2>2, <2>5, <2>7, <3>2, <3>3, <2>1
    <2> QED
        BY <2>1, <2>2, <2>6, <2>7
<1> QED
    BY <1>1, CanInvHolds, PTL

\* Types and ranges of the transport's state.
THEOREM CanTypesHold == CanSpec => []CanTypes
<1>1. CanInv => CanTypes
    <2> SUFFICES ASSUME CanInv PROVE CanTypes
        OBVIOUS
    <2>1. Len(txrq) <= 3
        <3> SUFFICES ASSUME Len(txrq) >= 4 PROVE FALSE
            BY DEF CanInv, Mail
        <3>1. \A i \in 1..4 : txrq[i] \in 0..2
            BY DEF CanInv, Mail, Mailboxes
        <3>2. \A i, j \in 1..4 : txrq[i] = txrq[j] => i = j
            BY DEF CanInv, Mail
        <3> QED
            BY <3>1, <3>2
    <2>2. txrq \in SeqOf(Mailboxes, 3)
        <3>1. txrq \in [1..Len(txrq) -> Mailboxes] /\ Len(txrq) \in 0..3
            BY <2>1 DEF CanInv, Mail
        <3> QED
            BY <3>1 DEF SeqOf
    <2>3. chosen \in Mailboxes \cup {NoMailbox} /\ masked \in BOOLEAN
        BY DEF CanInv, Access, Empty
    <2>4. Len(queue) <= 3 /\ used \in 0..3
        BY DEF CanInv, Slot
    <2> QED
        BY <2>2, <2>3, <2>4 DEF CanInv, Schedule, Pages, CanTypes
<1> QED
    BY <1>1, CanInvHolds, PTL
=============================================================================
