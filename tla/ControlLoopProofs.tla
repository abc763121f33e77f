-------------------------- MODULE ControlLoopProofs --------------------------
(***************************************************************************)
(* Proofs about the control interrupt, the fault latch and the foreground  *)
(* pass for every lease, stall bound, counter width and set of             *)
(* disturbances that ControlAssumption allows.                             *)
(***************************************************************************)
EXTENDS ControlProperties, TLAPS

Acknowledging == {"AckOff", "AckClear", "AckReady", "AckConfirm"}

\* The epoch refuses what the foreground has not seen: a current epoch means
\* that nothing was counted since the snapshot it came from, and a stale one
\* under a set flag is either still to be seen or about to be withdrawn.
Epochs ==
    /\ epochCurrent => newEvents = 0
    /\ channels => newEvents = 0
    /\ newEvents = 0 /\ pc \in {"LoadCycle", "StoreDeadline", "Enable"} => epochCurrent
    /\ enabled /\ ~epochCurrent /\ newEvents = 0 =>
           \/ pc = "Decide" /\ verdict # "Clean"
           \/ pc \in {"RevokeFlag", "Reset"}

\* The words a grant has stored are the latest once it may take effect, a loss
\* that zeroes them in between makes the grant's epoch stale, and a grant in
\* force is renewed in the order of the stores.
Storing == {"StoreDc", "StorePhase", "StoreEpoch", "LoadCycle", "StoreDeadline"}
InOrder ==
    /\ words["Target"] <= words["Dc"] /\ words["Dc"] <= words["Phase"]
    /\ words["Phase"] <= words["Deadline"] /\ words["Deadline"] <= 1
Grant ==
    /\ newEvents = 0 /\ pc \in {"StoreDc", "StorePhase", "StoreEpoch"} =>
           words["Target"] = 0
    /\ newEvents = 0 /\ pc \in {"StorePhase", "StoreEpoch"} => words["Dc"] = 0
    /\ newEvents = 0 /\ pc = "StoreEpoch" => words["Phase"] = 0
    /\ epochCurrent /\ pc \in {"LoadCycle", "StoreDeadline", "Enable"} =>
           words["Target"] = 0 /\ words["Dc"] = 0 /\ words["Phase"] = 0
    /\ epochCurrent /\ pc = "Enable" => words["Deadline"] = 0
    /\ epochCurrent /\ enabled =>
           InOrder /\ (pc \notin Storing \cup {"Reset"} => words["Deadline"] = 0)
    /\ pc \in {"RevokeWords", "UpdaterOutputs", "UpdaterReset"} \cup Acknowledging
           => ~enabled

\* An acknowledgement clears the latch only while it holds nothing but the mask
\* that the pass has read, and with the outputs off.
Latch ==
    /\ latched # {} => ~channels
    /\ pc \in Acknowledging => ackMask # {}
    /\ pc \in {"RevokeFlag", "RevokeWords", "AckOff", "AckClear"} =>
           ackMask \subseteq latched /\ unread \cap ackMask = {}
    /\ pc \in {"AckReady", "AckConfirm"} => latched = {} /\ ~channels
    /\ unread \subseteq latched

\* A grant in effect was issued Lease cycles before its deadline, no longer ago
\* than the watchdog lets two passes take, and its age is the recorded one.
Age == WrapSub(cycle, WrapSub(deadline, Lease))
Leases ==
    /\ pc = "StoreDeadline" => WrapSub(cycle, loaded) <= stall
    /\ epochCurrent /\ (enabled \/ pc = "Enable") =>
           /\ grantAge = Aged(Age)
           /\ Age <= stall + (IF pc \in {"Idle", "Enable"} THEN 0 ELSE MaxStall)

IInv == /\ TypeOK /\ Epochs /\ Grant /\ Latch /\ Leases /\ grantAge \in 0..Lease
        /\ TripIsCounted /\ UpdaterResetsReleased
-----------------------------------------------------------------------------
(* How a control cycle ends.                                               *)

\* A cycle that counts no safety loss leaves the grant alone, one that counts
\* a loss has revoked it with the channels off.
Quiet == UNCHANGED <<newEvents, lastReason, epochCurrent, enabled, deadline, words>>
Loss(now) ==
    /\ ~channels' /\ epochCurrent' = FALSE /\ enabled' = FALSE
    /\ words' = Revoked /\ deadline' = now
    /\ newEvents' \in 1..2 /\ (newEvents # 0 => newEvents' = 2)

LEMMA CycleArithmetic ==
    /\ CycleMod \in Nat /\ Lease \in Nat /\ Lease > 0
    /\ MaxStall \in Nat /\ MaxStall > 0
    /\ 2 * Lease < CycleMod /\ 4 * MaxStall < CycleMod
BY ControlAssumption

LEMMA EndCycleOutcome ==
    ASSUME TypeOK, NEW now \in Cycle, NEW e \in BOOLEAN, NEW f \in SUBSET FaultFlag,
           NEW r \in SafetyLossReason, NEW t \in BOOLEAN,
           e => r = "None" /\ f = {},
           EndCycle(now, e, f, r, t)
    PROVE  /\ channels' \in BOOLEAN /\ outputActive' \in BOOLEAN
           /\ commandWas' \in BOOLEAN /\ latched' \in SUBSET FaultFlag
           /\ newTrip' = (newTrip \/ t)
           /\ latched \subseteq latched'
           /\ channels' => e /\ Quiet /\ latched' = latched
           /\ \/ Quiet /\ r = "None"
              \/ Loss(now) /\ lastReason' \in {r, "ControlTiming"} \ {"None"}
<1>1. PICK late \in {FALSE, May("Overrun")} :
        EndCycle(now, e, f, r, t)!(late)
  BY DEF EndCycle
<1> DEFINE overrun == late /\ "ControlTiming" \notin latched \cup f
           losses == (IF r = "None" THEN 0 ELSE 1) + (IF overrun THEN 1 ELSE 0)
<1>2. /\ channels' = (e /\ ~overrun) /\ outputActive' = (e /\ ~overrun)
      /\ commandWas' = e
      /\ latched' = latched \cup f \cup (IF overrun THEN {"ControlTiming"} ELSE {})
      /\ newEvents' = Several(newEvents + losses)
      /\ newTrip' = (newTrip \/ t)
      /\ IF losses = 0
         THEN UNCHANGED <<lastReason, epochCurrent, authority>>
         ELSE /\ lastReason' = IF overrun THEN "ControlTiming" ELSE r
              /\ epochCurrent' = FALSE
              /\ RevokeRideAuthority(now)
  BY <1>1
<1>3. overrun \in BOOLEAN
  BY DEF May
<1> HIDE DEF overrun
<1>4. latched \in SUBSET FaultFlag /\ newEvents \in 0..2
  BY DEF TypeOK
<1>5. "ControlTiming" \in FaultFlag
  BY DEF FaultFlag
<1>6. CASE losses = 0
  <2>1. r = "None" /\ ~overrun
    BY <1>3, <1>6
  <2>2. Quiet
    BY <1>2, <1>4, <1>6 DEF Quiet, Several, authority
  <2> QED BY <1>2, <1>4, <2>1, <2>2
<1>7. CASE losses # 0
  <2>1. losses \in 1..2
    BY <1>7
  <2>2. r # "None" \/ overrun
    BY <1>7
  <2>3. ~channels'
    BY <1>2, <2>2, Zenon
  <2>4. Loss(now)
    BY <1>2, <1>4, <1>7, <2>1, <2>3 DEF Loss, Several, RevokeRideAuthority
  <2>5. lastReason' \in {r, "ControlTiming"} \ {"None"}
    BY <1>2, <1>7, <2>2
  <2> QED BY <1>2, <1>3, <1>4, <1>5, <2>3, <2>4, <2>5
<1> QED BY <1>6, <1>7

\* What every way out of the cycle leaves behind: output only under a lease
\* with a clear latch, and any counted loss with a reason that fits it.
Ending(now) ==
    /\ channels' \in BOOLEAN /\ outputActive' \in BOOLEAN /\ commandWas' \in BOOLEAN
    /\ latched' \in SUBSET FaultFlag /\ newTrip' \in BOOLEAN
    /\ latched \subseteq latched'
    /\ channels' => LeaseActive(now) /\ latched' = {} /\ Quiet
    /\ \/ Quiet /\ newTrip' = newTrip
       \/ /\ Loss(now) /\ lastReason' \in SafetyLossReason
          /\ newTrip' => newTrip \/ lastReason' \notin HallReason
          /\ lastReason' = "OutputLease" => CommandEnabled /\ ~LeaseActive(now)

LEMMA StopEnding ==
    ASSUME TypeOK, NEW now \in Cycle, NEW f \in SUBSET FaultFlag,
           NEW r \in SafetyLossReason, NEW t \in BOOLEAN,
           t => r = "PhaseOvercurrent",
           r = "OutputLease" => CommandEnabled /\ ~LeaseActive(now),
           EndCycle(now, FALSE, f, r, t)
    PROVE  Ending(now)
<1>1. /\ channels' \in BOOLEAN /\ outputActive' \in BOOLEAN
      /\ commandWas' \in BOOLEAN /\ latched' \in SUBSET FaultFlag
      /\ newTrip' = (newTrip \/ t)
      /\ latched \subseteq latched'
      /\ ~channels'
      /\ \/ Quiet /\ r = "None"
         \/ Loss(now) /\ lastReason' \in {r, "ControlTiming"} \ {"None"}
  BY EndCycleOutcome
<1>2. newTrip \in BOOLEAN
  BY DEF TypeOK
<1>3. newTrip' \in BOOLEAN
  BY <1>1, <1>2
<1>4. CASE Quiet /\ r = "None"
  <2>1. ~t
    BY <1>4
  <2> QED BY <1>1, <1>2, <1>3, <1>4, <2>1 DEF Ending
<1>5. CASE Loss(now) /\ lastReason' \in {r, "ControlTiming"} \ {"None"}
  <2>1. lastReason' \in SafetyLossReason
    BY <1>5 DEF SafetyLossReason
  <2>2. newTrip' => newTrip \/ lastReason' \notin HallReason
    BY <1>1, <1>5 DEF HallReason
  <2>3. lastReason' = "OutputLease" => CommandEnabled /\ ~LeaseActive(now)
    BY <1>5
  <2> QED BY <1>1, <1>3, <1>5, <2>1, <2>2, <2>3 DEF Ending
<1> QED BY <1>1, <1>4, <1>5

LEMMA EnergizeEnding ==
    ASSUME TypeOK, NEW now \in Cycle, Energize(now)
    PROVE  Ending(now)
<1>1. MayDrive(now) /\ EndCycle(now, TRUE, {}, "None", FALSE)
  BY DEF Energize
<1>2. /\ channels' \in BOOLEAN /\ outputActive' \in BOOLEAN
      /\ commandWas' \in BOOLEAN /\ latched' \in SUBSET FaultFlag
      /\ newTrip' = (newTrip \/ FALSE)
      /\ latched \subseteq latched'
      /\ channels' => Quiet /\ latched' = latched
      /\ \/ Quiet
         \/ Loss(now) /\ lastReason' \in {"None", "ControlTiming"} \ {"None"}
  <2>1. "None" \in SafetyLossReason /\ {} \in SUBSET FaultFlag
    BY DEF SafetyLossReason
  <2> QED BY <1>1, <2>1, EndCycleOutcome
<1>3. newTrip \in BOOLEAN
  BY DEF TypeOK
<1>4. newTrip' = newTrip
  BY <1>2, <1>3
<1>5. channels' => LeaseActive(now) /\ latched' = {} /\ Quiet
  BY <1>1, <1>2 DEF MayDrive
<1>6. "ControlTiming" \in SafetyLossReason
  BY DEF SafetyLossReason
<1> QED BY <1>2, <1>3, <1>4, <1>5, <1>6 DEF Ending

\* The types of the Hall variables that an exit may change.
HallTypes ==
    /\ captures' \in 0..2 /\ seeded' \in BOOLEAN /\ tracked' \in BOOLEAN
    /\ hallValid' \in BOOLEAN

LEMMA ExitEnding ==
    ASSUME TypeOK, NEW now \in Cycle,
           \/ SampleLost(now) \/ PhaseOvercurrent(now) \/ HallCaptureLost(now)
           \/ HallTransitionLost(now) \/ StationaryMismatch(now)
           \/ EstimateMissing(now) \/ FaultLatched(now) \/ LeaseInactive(now)
           \/ DriverOvercurrent(now) \/ OutputRejected(now) \/ Energize(now)
    PROVE  HallTypes /\ Ending(now)
<1> USE DEF Stop, Trip
<1>1. /\ captures \in 0..2 /\ seeded \in BOOLEAN /\ tracked \in BOOLEAN
      /\ hallValid \in BOOLEAN
  BY DEF TypeOK
<1>2. /\ {} \in SUBSET FaultFlag /\ {"ControlTiming"} \in SUBSET FaultFlag
      /\ {"HallCapture"} \in SUBSET FaultFlag /\ {"PwmRange"} \in SUBSET FaultFlag
      /\ {"HardwareBreak"} \in SUBSET FaultFlag
  BY DEF FaultFlag
<1>3. {"None", "CurrentSample", "PhaseOvercurrent", "HallCaptureSequence",
       "HallTransition", "HallStationaryMismatch", "HardwareFault", "OutputLease",
       "PwmOutput"} \subseteq SafetyLossReason
  BY DEF SafetyLossReason, HallReason
<1>4. AcceptEdge => captures' \in 0..2 /\ tracked' \in BOOLEAN
  BY <1>1 DEF AcceptEdge
<1>5. EstimateReady => HallTypes
  BY <1>1, <1>4 DEF EstimateReady, HallTypes
<1>6. CASE SampleLost(now)
  <2> DEFINE f == IF Powered(now) /\ latched = {} THEN {"ControlTiming"} ELSE {}
             r == IF Powered(now) THEN "CurrentSample" ELSE "None"
  <2>1. EndCycle(now, FALSE, f, r, FALSE)
    BY <1>6 DEF SampleLost
  <2>2. f \in SUBSET FaultFlag /\ r \in SafetyLossReason /\ r # "OutputLease"
    BY <1>2, <1>3
  <2> HIDE DEF f, r
  <2>3. Ending(now)
    BY <2>1, <2>2, StopEnding
  <2> QED BY <1>1, <1>6, <2>3 DEF SampleLost, HallTypes, hallVars
<1>7. CASE PhaseOvercurrent(now) \/ DriverOvercurrent(now)
  <2>1. EndCycle(now, FALSE, {}, "PhaseOvercurrent", TRUE)
    BY <1>7 DEF PhaseOvercurrent, DriverOvercurrent
  <2>2. Ending(now)
    BY <1>2, <1>3, <2>1, StopEnding
  <2>3. HallTypes
    BY <1>1, <1>5, <1>7
    DEF PhaseOvercurrent, DriverOvercurrent, MayDrive, HallTypes, hallVars
  <2> QED BY <2>2, <2>3
<1>8. CASE HallCaptureLost(now)
  <2>1. EndCycle(now, FALSE, {"HallCapture"}, "HallCaptureSequence", FALSE)
    BY <1>8 DEF HallCaptureLost
  <2>2. Ending(now)
    BY <1>2, <1>3, <2>1, StopEnding
  <2> QED BY <1>1, <1>8, <2>2 DEF HallCaptureLost, HallTypes
<1>9. CASE HallTransitionLost(now)
  <2>1. EndCycle(now, FALSE, {}, "HallTransition", FALSE)
    BY <1>9 DEF HallTransitionLost
  <2>2. Ending(now)
    BY <1>2, <1>3, <2>1, StopEnding
  <2> QED BY <1>1, <1>9, <2>2 DEF HallTransitionLost, HallTypes
<1>10. CASE StationaryMismatch(now)
  <2>1. EndCycle(now, FALSE, {}, "HallStationaryMismatch", FALSE)
    BY <1>10 DEF StationaryMismatch
  <2>2. Ending(now)
    BY <1>2, <1>3, <2>1, StopEnding
  <2> QED BY <1>1, <1>4, <1>10, <2>2 DEF StationaryMismatch, HallTypes
<1>11. CASE EstimateMissing(now)
  <2>1. EndCycle(now, FALSE, {}, "None", FALSE)
    BY <1>11 DEF EstimateMissing
  <2>2. Ending(now)
    BY <1>2, <1>3, <2>1, StopEnding
  <2> QED BY <1>1, <1>4, <1>11, <2>2 DEF EstimateMissing, HallTypes
<1>12. CASE FaultLatched(now)
  <2> DEFINE r == IF outputActive THEN "HardwareFault" ELSE "None"
  <2>1. EndCycle(now, FALSE, {}, r, FALSE)
    BY <1>12 DEF FaultLatched
  <2>2. r \in SafetyLossReason /\ r # "OutputLease"
    BY <1>3
  <2> HIDE DEF r
  <2>3. Ending(now)
    BY <1>2, <2>1, <2>2, StopEnding
  <2> QED BY <1>5, <1>12, <2>3 DEF FaultLatched
<1>13. CASE LeaseInactive(now)
  <2> DEFINE r == IF CommandEnabled THEN "OutputLease" ELSE "None"
  <2>1. EndCycle(now, FALSE, {}, r, FALSE) /\ ~LeaseActive(now)
    BY <1>13 DEF LeaseInactive
  <2>2. r \in SafetyLossReason /\ (r = "OutputLease" => CommandEnabled)
    BY <1>3
  <2> HIDE DEF r
  <2>3. Ending(now)
    BY <1>2, <2>1, <2>2, StopEnding
  <2> QED BY <1>5, <1>13, <2>3 DEF LeaseInactive
<1>14. CASE OutputRejected(now)
  <2>1. PICK f \in SUBSET FaultFlag : EndCycle(now, FALSE, f, "PwmOutput", FALSE)
    BY <1>2, <1>14 DEF OutputRejected
  <2>2. Ending(now)
    BY <1>3, <2>1, StopEnding
  <2> QED BY <1>5, <1>14, <2>2 DEF OutputRejected, MayDrive
<1>15. CASE Energize(now)
  BY <1>5, <1>15, EnergizeEnding DEF Energize, MayDrive
<1> QED BY <1>6, <1>7, <1>8, <1>9, <1>10, <1>11, <1>12, <1>13, <1>14, <1>15

-----------------------------------------------------------------------------
(* The steps of the interrupt and of the foreground.                       *)

CycleOutcome(now) ==
    /\ now = WrapAdd(cycle, 1) /\ cycle' = now
    /\ Interruptible /\ stall < MaxStall /\ stall' = stall + 1
    /\ UNCHANGED <<breakInput, breakFlag, breakArmed, rawValid, pc, verdict, loaded, ackMask>>
    /\ HallTypes /\ Ending(now)

LEMMA ControlCycleOutcome ==
    ASSUME TypeOK, ControlCycle
    PROVE  \E now \in Cycle : CycleOutcome(now)
<1>1. PICK now \in Cycle :
        /\ BeginCycle(now)
        /\ \/ SampleLost(now) \/ PhaseOvercurrent(now) \/ HallCaptureLost(now)
           \/ HallTransitionLost(now) \/ StationaryMismatch(now)
           \/ EstimateMissing(now) \/ FaultLatched(now) \/ LeaseInactive(now)
           \/ DriverOvercurrent(now) \/ OutputRejected(now) \/ Energize(now)
  BY DEF ControlCycle
<1>2. HallTypes /\ Ending(now)
  BY <1>1, ExitEnding
<1> QED BY <1>1, <1>2 DEF CycleOutcome, BeginCycle, local

LEMMA WrapAddInCycle ==
    ASSUME NEW c \in Cycle, NEW d \in 0..(CycleMod - 1)
    PROVE  WrapAdd(c, d) \in Cycle
BY CycleArithmetic DEF WrapAdd, Cycle

LEMMA TypeStep == TypeOK /\ [Next]_vars => TypeOK'
<1> SUFFICES ASSUME TypeOK, [Next]_vars PROVE TypeOK'
  OBVIOUS
<1> USE DEF TypeOK
<1>1. CASE ControlCycle
  <2>1. PICK now \in Cycle : CycleOutcome(now)
    BY <1>1, ControlCycleOutcome
  <2>2. stall' \in 0..MaxStall
    BY <2>1, CycleArithmetic DEF CycleOutcome
  <2>3. /\ newEvents' \in 0..2 /\ lastReason' \in SafetyLossReason
        /\ enabled' \in BOOLEAN /\ epochCurrent' \in BOOLEAN
        /\ words' \in [Words -> 0..2] /\ deadline' \in Cycle
    <3>1. Ending(now)
      BY <2>1 DEF CycleOutcome
    <3>2. CASE Quiet
      BY <3>2 DEF Quiet
    <3>3. CASE Loss(now) /\ lastReason' \in SafetyLossReason
      <4>1. /\ newEvents' \in 1..2 /\ enabled' = FALSE /\ epochCurrent' = FALSE
            /\ words' = Revoked /\ deadline' = now
        BY <3>3 DEF Loss
      <4>2. newEvents' \in 0..2
        BY <4>1
      <4>3. enabled' \in BOOLEAN /\ epochCurrent' \in BOOLEAN
        BY <4>1
      <4>4. words' \in [Words -> 0..2] /\ deadline' \in Cycle
        BY <4>1 DEF Revoked
      <4> QED BY <3>3, <4>2, <4>3, <4>4
    <3> QED BY <3>1, <3>2, <3>3 DEF Ending
  <2> QED BY <2>1, <2>2, <2>3 DEF CycleOutcome, Ending, HallTypes
<1>2. CASE BreakAsserts \/ BreakReleases
  <2>1. breakInput' \in BOOLEAN /\ breakFlag' \in BOOLEAN
    BY <1>2 DEF BreakAsserts, BreakReleases, faultVars
  <2> QED BY <1>2, <2>1 DEF BreakAsserts, BreakReleases, faultVars, hallVars,
               publishedVars, seenVars, authority, local
<1>3. CASE BreakInterrupt
  <2>1. latched' \in SUBSET FaultFlag
    BY <1>3 DEF BreakInterrupt, FaultFlag
  <2>2. channels' \in BOOLEAN /\ breakFlag' \in BOOLEAN /\ breakArmed' \in BOOLEAN
    BY <1>3 DEF BreakInterrupt
  <2>3. UNCHANGED <<cycle, breakInput, hallVars, publishedVars, seenVars,
                    epochCurrent, authority, local, pc>>
    BY <1>3 DEF BreakInterrupt
  <2> QED BY <2>1, <2>2, <2>3 DEF hallVars, publishedVars, seenVars, authority, local
<1>4. CASE HallCapture
  BY <1>4 DEF HallCapture, Several, faultVars, publishedVars, seenVars, authority, local
<1>5. CASE Snapshot
  <2>1. /\ verdict' \in {"Clean", "Interrupted", "NeedsRest"} /\ pc' \in Pc
        /\ newTrip' \in BOOLEAN /\ newEvents' \in 0..2 /\ stall' \in 0..MaxStall
    <3>1. verdict' = Meaning /\ newEvents' = 0 /\ newTrip' = FALSE /\ stall' = 0
          /\ pc' = "Decide"
      BY <1>5 DEF Snapshot, Foreground
    <3>2. Meaning \in {"Clean", "Interrupted", "NeedsRest"}
      BY DEF Meaning
    <3>3. newEvents' \in 0..2 /\ stall' \in 0..MaxStall
      BY <3>1, CycleArithmetic
    <3>4. newTrip' \in BOOLEAN /\ pc' \in Pc
      BY <3>1 DEF Pc
    <3> QED BY <3>1, <3>2, <3>3, <3>4
  <2> QED BY <1>5, <2>1 DEF Snapshot, Foreground, faultVars, hallVars, publishedVars,
                            authority
<1>6. CASE Decide
  <2>1. ackMask' \in SUBSET FaultFlag /\ pc' \in Pc
    BY <1>6 DEF Decide, Foreground, Pc
  <2> QED BY <1>6, <2>1 DEF Decide, Foreground, faultVars, hallVars, publishedVars,
                            seenVars, authority
<1>7. CASE StoreWords
  <2>1. words' \in [Words -> 0..2] /\ pc' \in Pc
    BY <1>7 DEF StoreWords, StoreTarget, StoreCeilings, StoreCeiling, Foreground, Pc,
                Several
  <2> QED BY <1>7, <2>1 DEF StoreWords, StoreTarget, StoreCeilings, StoreCeiling,
                            Foreground, faultVars, hallVars, publishedVars, seenVars,
                            local
<1>8. CASE StoreEpoch \/ LoadCycle
  <2>1. epochCurrent' \in BOOLEAN /\ loaded' \in Cycle /\ pc' \in Pc
    BY <1>8 DEF StoreEpoch, LoadCycle, Foreground, Pc, local
  <2> QED BY <1>8, <2>1 DEF StoreEpoch, LoadCycle, Foreground, faultVars, hallVars,
               publishedVars, seenVars, authority, local
<1>9. CASE StoreDeadline
  <2>1. deadline' = WrapAdd(loaded, Lease) /\ loaded' = 0
    BY <1>9 DEF StoreDeadline
  <2>2. Lease \in 0..(CycleMod - 1) /\ 0 \in Cycle
    BY CycleArithmetic DEF Cycle
  <2>3. deadline' \in Cycle /\ loaded' \in Cycle
    BY <2>1, <2>2, WrapAddInCycle
  <2>4. pc' \in Pc
    BY <1>9 DEF StoreDeadline, Foreground, Pc
  <2>5. words' \in [Words -> 0..2]
    <3>1. words' = [words EXCEPT !["Deadline"] = 0] /\ words \in [Words -> 0..2]
      BY <1>9 DEF StoreDeadline
    <3>2. 0 \in 0..2
      OBVIOUS
    <3> QED BY <3>1, <3>2, Zenon
  <2> QED BY <1>9, <2>3, <2>4, <2>5 DEF StoreDeadline, Foreground, faultVars, hallVars,
                                  publishedVars, seenVars
<1>10. CASE Enable \/ RevokeFlag
  <2>1. enabled' \in BOOLEAN /\ pc' \in Pc
    BY <1>10 DEF Enable, RevokeFlag, Foreground, Pc
  <2> QED BY <1>10, <2>1 DEF Enable, RevokeFlag, Foreground, faultVars, hallVars,
               publishedVars, seenVars, local
<1>11. CASE RevokeWords
  BY <1>11 DEF RevokeWords, Revoked, Foreground, Pc, faultVars, hallVars,
               publishedVars, seenVars, local
<1>12. CASE AckOff
  <2>1. channels' \in BOOLEAN /\ pc' \in Pc
    BY <1>12 DEF AckOff, Foreground, Pc
  <2> QED BY <1>12, <2>1 DEF AckOff, Foreground, hallVars, publishedVars, seenVars,
                             authority, local
<1>13. CASE AckClear
  <2>1. /\ latched' \in SUBSET FaultFlag /\ breakFlag' \in BOOLEAN
        /\ breakArmed' \in BOOLEAN /\ pc' \in Pc
    BY <1>13 DEF AckClear, Foreground, Pc
  <2> QED BY <1>13, <2>1 DEF AckClear, Foreground, hallVars, publishedVars, seenVars,
                             authority, local
<1>14. CASE AckReady \/ AckConfirm
  <2>1. latched' \in SUBSET FaultFlag
    BY <1>14 DEF AckReady, AckConfirm, RestoreLatch, FaultFlag
  <2>2. pc' \in Pc
    BY <1>14 DEF AckReady, AckConfirm, RestoreLatch, Foreground, Pc
  <2> QED BY <1>14, <2>1, <2>2 DEF AckReady, AckConfirm, RestoreLatch, Foreground,
               hallVars, publishedVars, seenVars, authority, local
<1>15. CASE UpdaterCheck \/ UpdaterOutputs
  BY <1>15 DEF UpdaterCheck, UpdaterOutputs, Foreground, Pc, faultVars, hallVars,
               publishedVars, seenVars, authority, local
<1>16. CASE UpdaterReset \/ WatchdogReset
  <2>1. channels' \in BOOLEAN /\ pc' \in Pc
    BY <1>16 DEF UpdaterReset, WatchdogReset, ResetBy, Pc
  <2> QED BY <1>16, <2>1 DEF UpdaterReset, WatchdogReset, ResetBy, hallVars,
               publishedVars, seenVars, authority, local
<1>17. CASE HasReset \/ UNCHANGED vars
  BY <1>17 DEF HasReset, vars, faultVars, hallVars, publishedVars, seenVars, authority, local
<1> QED
  BY <1>1, <1>2, <1>3, <1>4, <1>5, <1>6, <1>7, <1>8, <1>9, <1>10, <1>11, <1>12,
     <1>13, <1>14, <1>15, <1>16, <1>17 DEF Next, Pass
\* Every action by name, a stuttering step included, for the case splits below.
LEMMA StepCases ==
    ASSUME [Next]_vars
    PROVE  \/ ControlCycle \/ BreakAsserts \/ BreakReleases \/ BreakInterrupt
           \/ HallCapture \/ Snapshot \/ Decide \/ StoreWords \/ StoreEpoch
           \/ LoadCycle \/ StoreDeadline \/ Enable \/ RevokeFlag \/ RevokeWords
           \/ AckOff \/ AckClear \/ AckReady \/ AckConfirm
           \/ UpdaterCheck \/ UpdaterOutputs \/ UpdaterReset \/ WatchdogReset
           \/ UNCHANGED vars
BY DEF Next, Pass, HasReset

\* A cycle that leaves the channels on has found a grant in effect.
LEMMA EnergizingCycle ==
    ASSUME NEW now \in Cycle, CycleOutcome(now), channels'
    PROVE  /\ enabled /\ epochCurrent /\ LeaseIsActive(now, deadline)
           /\ Quiet /\ latched' = {}
BY DEF CycleOutcome, Ending, LeaseActive, CommandEnabled

LEMMA EpochsStep ==
    ASSUME TypeOK, Epochs, Grant, [Next]_vars
    PROVE  Epochs'
<1> USE DEF Epochs
<1>1. CASE ControlCycle
  <2>1. PICK now \in Cycle : CycleOutcome(now)
    BY <1>1, ControlCycleOutcome
  <2>2. /\ pc' = pc /\ verdict' = verdict /\ (channels' => Quiet /\ epochCurrent)
        /\ Quiet \/ Loss(now)
    BY <2>1, EnergizingCycle DEF CycleOutcome, Ending
  <2>3. CASE Quiet
    BY <2>2, <2>3 DEF Quiet
  <2>4. CASE Loss(now)
    BY <2>2, <2>4 DEF Loss
  <2> QED BY <2>2, <2>3, <2>4
<1>2. CASE BreakAsserts \/ BreakReleases \/ HallCapture \/ UNCHANGED vars
  BY <1>2 DEF BreakAsserts, BreakReleases, HallCapture, vars, faultVars, seenVars,
              authority, local
<1>3. CASE BreakInterrupt
  BY <1>3 DEF BreakInterrupt, seenVars, authority, local
<1>4. CASE Snapshot
  BY <1>4 DEF Snapshot, Foreground, Meaning, faultVars, authority
<1>5. CASE Decide
  BY <1>5 DEF Decide, Grants, Foreground, faultVars, seenVars, authority
<1>6. CASE StoreWords
  BY <1>6 DEF StoreWords, StoreTarget, StoreCeilings, StoreCeiling, Foreground,
              faultVars, seenVars, local
<1>7. CASE StoreEpoch
  BY <1>7 DEF StoreEpoch, Foreground, faultVars, seenVars, authority, local
<1>8. CASE LoadCycle \/ StoreDeadline
  BY <1>8 DEF LoadCycle, StoreDeadline, Foreground, faultVars, seenVars, authority
<1>9. CASE Enable
  BY <1>9 DEF Enable, Foreground, faultVars, seenVars
<1>10. CASE RevokeFlag
  BY <1>10 DEF RevokeFlag, Foreground, faultVars, seenVars
<1>11. CASE RevokeWords
  BY <1>11 DEF RevokeWords, Foreground, faultVars, seenVars, Grant
<1>12. CASE AckOff \/ AckClear
  BY <1>12 DEF AckOff, AckClear, Foreground, seenVars, authority, Grant, Acknowledging
<1>13. CASE AckReady \/ AckConfirm
  BY <1>13 DEF AckReady, AckConfirm, RestoreLatch, Foreground, seenVars, authority,
               Grant, Acknowledging
<1>14. CASE UpdaterCheck \/ UpdaterOutputs
  BY <1>14 DEF UpdaterCheck, UpdaterOutputs, Foreground, faultVars, seenVars,
               authority, Grant
<1>15. CASE UpdaterReset \/ WatchdogReset
  BY <1>15 DEF UpdaterReset, WatchdogReset, ResetBy, seenVars, authority, local
<1> QED
  BY StepCases, <1>1, <1>2, <1>3, <1>4, <1>5, <1>6, <1>7, <1>8, <1>9, <1>10, <1>11,
     <1>12, <1>13, <1>14, <1>15

LEMMA GrantStep ==
    ASSUME TypeOK, Epochs, Grant, [Next]_vars
    PROVE  Grant'
<1> USE DEF Grant, Acknowledging
<1>0. words \in [Words -> 0..2]
  BY DEF TypeOK
<1>1. CASE ControlCycle
  <2>1. PICK now \in Cycle : CycleOutcome(now)
    BY <1>1, ControlCycleOutcome
  <2>2. pc' = pc /\ (Quiet \/ Loss(now))
    BY <2>1 DEF CycleOutcome, Ending
  <2>3. CASE Quiet
    BY <2>2, <2>3 DEF Quiet, InOrder, Storing
  <2>4. CASE Loss(now)
    BY <2>2, <2>4 DEF Loss
  <2> QED BY <2>2, <2>3, <2>4
<1>2. CASE BreakAsserts \/ BreakReleases \/ HallCapture \/ UNCHANGED vars
  BY <1>2 DEF BreakAsserts, BreakReleases, HallCapture, vars, seenVars, authority,
              InOrder, Storing
<1>3. CASE BreakInterrupt
  BY <1>3 DEF BreakInterrupt, seenVars, authority, InOrder, Storing
<1>4. CASE Snapshot
  BY <1>4 DEF Snapshot, Foreground, authority, InOrder, Storing
<1>5. CASE Decide
  BY <1>5 DEF Decide, Foreground, seenVars, authority, InOrder, Storing
<1>6. CASE StoreWords
  <2>1. CASE StoreTarget("StoreDc")
    <3>1. /\ words'["Target"] = 0
          /\ \A w \in Words \ {"Target"} : words'[w] = Several(words[w] + 1)
      BY <2>1 DEF StoreTarget, Words
    <3>2. words["Deadline"] = 0 /\ InOrder => InOrder'
      BY <1>0, <3>1 DEF InOrder, Several, Words
    <3>3. /\ pc = "StoreTarget" /\ pc' = "StoreDc"
          /\ UNCHANGED <<newEvents, epochCurrent, enabled>>
      BY <2>1 DEF StoreTarget, Foreground, seenVars
    <3> QED BY <3>1, <3>2, <3>3 DEF Storing
  <2>2. CASE StoreCeilings
    <3>1. /\ UNCHANGED <<newEvents, epochCurrent, enabled>>
          /\ words'["Target"] = words["Target"] /\ words'["Deadline"] = words["Deadline"]
          /\ words'["Dc"] = IF pc = "StoreDc" THEN 0 ELSE words["Dc"]
          /\ words'["Phase"] = IF pc = "StoreDc" THEN words["Phase"] ELSE 0
          /\ \/ pc = "StoreDc" /\ pc' = "StorePhase"
             \/ pc = "StorePhase" /\ pc' = "StoreEpoch"
      BY <1>0, <2>2 DEF StoreCeilings, StoreCeiling, Foreground, seenVars, Words
    <3>2. epochCurrent => newEvents = 0
      BY DEF Epochs
    <3>3. epochCurrent /\ enabled => InOrder'
      BY <1>0, <3>1, <3>2 DEF InOrder, Words
    <3> QED BY <3>1, <3>2, <3>3 DEF Storing
  <2> QED BY <1>6, <2>1, <2>2 DEF StoreWords
<1>7. CASE StoreEpoch
  <2>1. pc = "StoreEpoch" /\ words' = words /\ epochCurrent' = (newEvents = 0)
        /\ pc' = "LoadCycle" /\ newEvents' = newEvents /\ enabled' = enabled
    BY <1>7 DEF StoreEpoch, Foreground, seenVars, authority
  <2>2. epochCurrent' /\ enabled => epochCurrent
    BY <2>1 DEF Epochs, TypeOK
  <2> QED BY <2>1, <2>2 DEF InOrder, Storing
<1>8. CASE LoadCycle
  BY <1>8 DEF LoadCycle, Foreground, seenVars, authority, Storing, InOrder
<1>9. CASE StoreDeadline
  <2>1. /\ UNCHANGED <<newEvents, epochCurrent, enabled>>
        /\ pc = "StoreDeadline" /\ pc' = "Enable"
        /\ words'["Target"] = words["Target"] /\ words'["Dc"] = words["Dc"]
        /\ words'["Phase"] = words["Phase"] /\ words'["Deadline"] = 0
    BY <1>0, <1>9 DEF StoreDeadline, Foreground, seenVars, Words
  <2>2. epochCurrent => InOrder'
    BY <2>1 DEF InOrder
  <2> QED BY <2>1, <2>2
<1>10. CASE Enable
  <2>1. /\ UNCHANGED <<newEvents, epochCurrent, words>> /\ enabled' = TRUE
        /\ pc = "Enable" /\ pc' = "Idle"
    BY <1>10 DEF Enable, Foreground, seenVars
  <2>2. epochCurrent => InOrder'
    BY <2>1 DEF InOrder
  <2> QED BY <2>1, <2>2
<1>11. CASE RevokeFlag
  BY <1>11 DEF RevokeFlag, Foreground, seenVars
<1>12. CASE RevokeWords
  BY <1>12 DEF RevokeWords, Foreground, seenVars
<1>13. CASE AckOff \/ AckClear
  BY <1>13 DEF AckOff, AckClear, Foreground, seenVars, authority
<1>14. CASE AckReady \/ AckConfirm
  BY <1>14 DEF AckReady, AckConfirm, RestoreLatch, Foreground, seenVars, authority
<1>15. CASE UpdaterCheck \/ UpdaterOutputs
  BY <1>15 DEF UpdaterCheck, UpdaterOutputs, Foreground, seenVars, authority
<1>16. CASE UpdaterReset \/ WatchdogReset
  BY <1>16 DEF UpdaterReset, WatchdogReset, ResetBy, seenVars, authority,
              InOrder, Storing
<1> QED
  BY StepCases, <1>1, <1>2, <1>3, <1>4, <1>5, <1>6, <1>7, <1>8, <1>9, <1>10, <1>11,
     <1>12, <1>13, <1>14, <1>15, <1>16

\* What the history of the latch and of the grant's age records, also when
\* nothing happens.
LEMMA Recorded ==
    ASSUME [HNext]_allVars
    PROVE  /\ [Next]_vars
           /\ unread' = (IF pc = "Decide" /\ pc' # "Decide" THEN {} ELSE unread)
                            \cup (latched' \ latched)
           /\ grantAge' =
                  IF cycle' # cycle THEN Aged(grantAge + 1)
                  ELSE IF pc = "Decide" /\ pc' = "StoreTarget" /\ ~enabled THEN 0
                  ELSE IF pc = "StoreDeadline" /\ pc' = "Enable"
                  THEN Aged(WrapSub(cycle, loaded)) ELSE grantAge
<1>1. CASE HNext
  BY <1>1 DEF HNext, Record
<1>2. CASE UNCHANGED allVars
  BY <1>2 DEF allVars, historyVars, vars, faultVars
<1> QED BY <1>1, <1>2

LEMMA LatchStep ==
    ASSUME TypeOK, Epochs, Grant, Latch, [HNext]_allVars
    PROVE  Latch'
<1> USE DEF Latch, Acknowledging
<1>0. /\ [Next]_vars
      /\ unread' = (IF pc = "Decide" /\ pc' # "Decide" THEN {} ELSE unread)
                       \cup (latched' \ latched)
  BY Recorded
<1>1. CASE ControlCycle
  <2>1. PICK now \in Cycle : CycleOutcome(now)
    BY <1>1, ControlCycleOutcome
  <2>2. /\ pc' = pc /\ ackMask' = ackMask /\ pc \notin {"AckReady", "AckConfirm"}
        /\ latched \subseteq latched'
    BY <2>1 DEF CycleOutcome, Ending, Interruptible
  <2>3. latched' # {} => ~channels'
    BY <2>1, EnergizingCycle
  <2> QED BY <1>0, <2>2, <2>3
<1>2. CASE BreakAsserts \/ BreakReleases \/ HallCapture \/ UNCHANGED vars
  BY <1>0, <1>2 DEF BreakAsserts, BreakReleases, HallCapture, vars, faultVars, local
<1>3. CASE BreakInterrupt
  BY <1>0, <1>3 DEF BreakInterrupt, Interruptible, local
<1>4. CASE Snapshot
  BY <1>0, <1>4 DEF Snapshot, Foreground, faultVars
<1>5. CASE Decide
  BY <1>0, <1>5 DEF Decide, Foreground, faultVars
<1>6. CASE StoreWords
  BY <1>0, <1>6 DEF StoreWords, StoreTarget, StoreCeilings, StoreCeiling, Foreground,
                    faultVars
<1>7. CASE StoreEpoch \/ LoadCycle \/ StoreDeadline \/ Enable
  BY <1>0, <1>7 DEF StoreEpoch, LoadCycle, StoreDeadline, Enable, Foreground, faultVars
<1>8. CASE RevokeFlag
  BY <1>0, <1>8 DEF RevokeFlag, Foreground, faultVars, local
<1>9. CASE RevokeWords
  BY <1>0, <1>9 DEF RevokeWords, Foreground, faultVars, local
<1>10. CASE AckOff
  BY <1>0, <1>10 DEF AckOff, Foreground, local
<1>11. CASE AckClear
  BY <1>0, <1>11 DEF AckClear, AcknowledgementPermitted, Foreground, local
<1>12. CASE AckReady \/ AckConfirm
  <2>1. latched = {} /\ unread = {} /\ ~channels
    BY <1>12 DEF AckReady, AckConfirm, RestoreLatch, Foreground
  <2>2. channels' = channels /\ unread' = latched' /\ ackMask' = ackMask
    BY <1>0, <1>12, <2>1 DEF AckReady, AckConfirm, RestoreLatch, Foreground, local
  <2>3. pc' \in {"Idle", "AckConfirm"} /\ (pc' = "AckConfirm" => latched' = {})
    BY <1>12, <2>1 DEF AckReady, AckConfirm, RestoreLatch, Foreground
  <2>4. ackMask # {}
    BY <1>12 DEF AckReady, AckConfirm, RestoreLatch, Foreground
  <2> QED BY <2>1, <2>2, <2>3, <2>4
<1>13. CASE UpdaterCheck \/ UpdaterOutputs
  BY <1>0, <1>13 DEF UpdaterCheck, UpdaterOutputs, Foreground, faultVars, local
<1>14. CASE UpdaterReset \/ WatchdogReset
  BY <1>0, <1>14 DEF UpdaterReset, WatchdogReset, ResetBy
<1> QED
  BY <1>0, StepCases, <1>1, <1>2, <1>3, <1>4, <1>5, <1>6, <1>7, <1>8, <1>9, <1>10,
     <1>11, <1>12, <1>13, <1>14

LEMMA TripStep ==
    ASSUME TypeOK, TripIsCounted, [Next]_vars
    PROVE  TripIsCounted'
<1> USE DEF TripIsCounted
<1>1. CASE ControlCycle
  <2>1. PICK now \in Cycle : CycleOutcome(now)
    BY <1>1, ControlCycleOutcome
  <2>2. \/ Quiet /\ newTrip' = newTrip
        \/ Loss(now) /\ (newTrip' => newTrip \/ lastReason' \notin HallReason)
    BY <2>1 DEF CycleOutcome, Ending
  <2>3. CASE Quiet /\ newTrip' = newTrip
    BY <2>3 DEF Quiet
  <2>4. CASE Loss(now) /\ (newTrip' => newTrip \/ lastReason' \notin HallReason)
    BY <2>4 DEF Loss
  <2> QED BY <2>2, <2>3, <2>4
<1>2. CASE Snapshot
  BY <1>2 DEF Snapshot
<1>3. CASE ~ControlCycle /\ ~Snapshot
  BY StepCases, <1>3
  DEF BreakAsserts, BreakReleases, BreakInterrupt, HallCapture, Decide, StoreWords,
      StoreTarget, StoreCeilings, StoreCeiling, StoreEpoch, LoadCycle, StoreDeadline,
      Enable, RevokeFlag,
      RevokeWords, AckOff, AckClear, AckReady, AckConfirm, RestoreLatch,
      UpdaterCheck, UpdaterOutputs, UpdaterReset, WatchdogReset, ResetBy,
      Foreground, vars, publishedVars, seenVars
<1> QED BY <1>1, <1>2, <1>3

LEMMA UpdaterStep ==
    ASSUME TypeOK, Grant, UpdaterResetsReleased, [Next]_vars
    PROVE  UpdaterResetsReleased'
<1> USE DEF UpdaterResetsReleased
<1>1. CASE ControlCycle
  <2>1. PICK now \in Cycle : CycleOutcome(now)
    BY <1>1, ControlCycleOutcome
  <2>2. pc' = pc /\ (channels' => enabled)
    BY <2>1, EnergizingCycle DEF CycleOutcome
  <2> QED BY <2>2 DEF Grant
<1>2. CASE UpdaterOutputs
  BY <1>2 DEF UpdaterOutputs, Foreground, faultVars
<1>3. CASE ~ControlCycle /\ ~UpdaterOutputs
  BY StepCases, <1>3
  DEF BreakAsserts, BreakReleases, BreakInterrupt, HallCapture, Snapshot, Decide,
      StoreWords, StoreTarget, StoreCeilings, StoreCeiling, StoreEpoch, LoadCycle,
      StoreDeadline, Enable, RevokeFlag,
      RevokeWords, AckOff, AckClear, AckReady, AckConfirm, RestoreLatch,
      UpdaterCheck, UpdaterReset, WatchdogReset, ResetBy, Foreground, vars, faultVars
<1> QED BY <1>1, <1>2, <1>3

-----------------------------------------------------------------------------
(* The arithmetic of the lease.                                            *)

LEMMA WrapSubInCycle ==
    ASSUME NEW c \in Cycle, NEW d \in Cycle
    PROVE  WrapSub(c, d) \in Cycle
BY CycleArithmetic DEF Cycle, WrapSub

LEMMA NextCycle ==
    ASSUME NEW c \in Cycle, NEW i \in Cycle, WrapSub(c, i) < CycleMod - 1
    PROVE  WrapSub(WrapAdd(c, 1), i) = WrapSub(c, i) + 1 /\ WrapAdd(c, 1) # c
BY CycleArithmetic DEF Cycle, WrapSub, WrapAdd

\* The cycle that a deadline was computed from.
LEMMA IssuedCycle ==
    ASSUME NEW l \in Cycle
    PROVE  /\ Lease \in Cycle
           /\ WrapSub(l, Lease) \in Cycle
           /\ WrapSub(WrapAdd(l, Lease), Lease) = l
           /\ WrapSub(l, l) = 0
BY CycleArithmetic DEF Cycle, WrapSub, WrapAdd

\* The comparison of wrapping counters decides the lease by the grant's age
\* as long as that age is less than half of what the counter can hold.
LEMMA LeaseByAge ==
    ASSUME NEW c \in Cycle, NEW d \in Cycle,
           WrapSub(c, WrapSub(d, Lease)) <= 2 * MaxStall
    PROVE  LeaseIsActive(c, d) <=> WrapSub(c, WrapSub(d, Lease)) < Lease
<1> DEFINE a == WrapSub(c, WrapSub(d, Lease))
           r == WrapSub(d, c)
<1>1. a \in Int /\ a >= 0 /\ a <= 2 * MaxStall
  <2>1. a \in Cycle
    BY IssuedCycle, WrapSubInCycle
  <2> QED BY <2>1, CycleArithmetic DEF Cycle
<1>2. r = IF a <= Lease THEN Lease - a ELSE CycleMod + Lease - a
  BY <1>1, CycleArithmetic DEF Cycle, WrapSub
<1> HIDE DEF a, r
<1>3. (r # 0 /\ 2 * r < CycleMod) <=> a < Lease
  BY <1>1, <1>2, CycleArithmetic
<1> QED BY <1>3 DEF LeaseIsActive, a, r

LEMMA AgeTypes ==
    ASSUME NEW n \in Nat
    PROVE  Aged(n) \in 0..Lease /\ Aged(Aged(n) + 1) = Aged(n + 1)
BY CycleArithmetic DEF Aged

LEMMA GrantAgeStep ==
    ASSUME TypeOK, grantAge \in 0..Lease, [HNext]_allVars
    PROVE  grantAge' \in 0..Lease
<1>1. WrapSub(cycle, loaded) \in Nat
  BY WrapSubInCycle, CycleArithmetic DEF TypeOK, Cycle
<1>2. grantAge + 1 \in Nat
  BY CycleArithmetic
<1>3. 0 \in 0..Lease
  BY CycleArithmetic
<1> QED BY <1>1, <1>2, <1>3, AgeTypes, Recorded

\* In a control cycle under a current grant the recorded age is that of its
\* deadline, and it is small enough for the wrapping comparison.
LEMMA AgeInCycle ==
    ASSUME TypeOK, Leases, [HNext]_allVars, NEW now \in Cycle, CycleOutcome(now)
    PROVE  /\ cycle' # cycle
           /\ pc = "StoreDeadline" => WrapSub(now, loaded) <= stall'
           /\ epochCurrent /\ (enabled \/ pc = "Enable") =>
                  /\ WrapSub(now, WrapSub(deadline, Lease)) = Age + 1
                  /\ grantAge' = Aged(Age + 1)
                  /\ Age + 1 <= stall' + (IF pc \in {"Idle", "Enable"} THEN 0 ELSE MaxStall)
                  /\ Age + 1 <= 2 * MaxStall
<1> DEFINE issued == WrapSub(deadline, Lease)
<1>1. /\ cycle \in Cycle /\ deadline \in Cycle /\ loaded \in Cycle
      /\ stall \in Int /\ stall >= 0 /\ stall < MaxStall /\ stall' = stall + 1
      /\ now = WrapAdd(cycle, 1) /\ cycle' = now
  BY CycleArithmetic DEF TypeOK, CycleOutcome
<1>2. issued \in Cycle
  BY <1>1, IssuedCycle
<1>3. cycle' # cycle
  BY <1>1, CycleArithmetic DEF Cycle, WrapAdd
<1>4. ASSUME pc = "StoreDeadline" PROVE WrapSub(now, loaded) <= stall'
  <2>1. WrapSub(cycle, loaded) <= stall /\ WrapSub(cycle, loaded) \in Int
    BY <1>1, <1>4, WrapSubInCycle, CycleArithmetic DEF Leases, Cycle
  <2>2. WrapSub(cycle, loaded) < CycleMod - 1
    BY <1>1, <2>1, CycleArithmetic
  <2> QED BY <1>1, <2>1, <2>2, NextCycle
<1>5. ASSUME epochCurrent, enabled \/ pc = "Enable"
      PROVE  /\ WrapSub(now, issued) = Age + 1
             /\ grantAge' = Aged(Age + 1)
             /\ Age + 1 <= stall' + (IF pc \in {"Idle", "Enable"} THEN 0 ELSE MaxStall)
             /\ Age + 1 <= 2 * MaxStall
  <2>1. /\ grantAge = Aged(Age)
        /\ Age <= stall + (IF pc \in {"Idle", "Enable"} THEN 0 ELSE MaxStall)
    BY <1>5 DEF Leases
  <2>2. Age = WrapSub(cycle, issued) /\ Age \in Cycle
    BY <1>1, <1>2, WrapSubInCycle DEF Age
  <2>3. Age \in Nat
    BY <2>2, CycleArithmetic DEF Cycle
  <2> HIDE DEF issued
  <2>4. /\ Age + 1 <= stall' + (IF pc \in {"Idle", "Enable"} THEN 0 ELSE MaxStall)
        /\ Age + 1 <= 2 * MaxStall
    BY <1>1, <2>1, <2>3, CycleArithmetic
  <2>5. Age < CycleMod - 1
    BY <2>3, <2>4, CycleArithmetic
  <2>6. WrapSub(now, issued) = Age + 1
    BY <1>1, <1>2, <2>2, <2>5, NextCycle
  <2>7. grantAge' = Aged(Age + 1)
    BY <1>3, <2>1, <2>3, AgeTypes, Recorded
  <2> QED BY <2>4, <2>6, <2>7
<1> QED BY <1>3, <1>4, <1>5

LEMMA LeasesStep ==
    ASSUME TypeOK, Epochs, Grant, Leases, [HNext]_allVars
    PROVE  Leases'
<1>0. /\ [Next]_vars
      /\ grantAge' =
             IF cycle' # cycle THEN Aged(grantAge + 1)
             ELSE IF pc = "Decide" /\ pc' = "StoreTarget" /\ ~enabled THEN 0
             ELSE IF pc = "StoreDeadline" /\ pc' = "Enable"
             THEN Aged(WrapSub(cycle, loaded)) ELSE grantAge
  BY Recorded
<1>a. /\ cycle \in Cycle /\ deadline \in Cycle /\ loaded \in Cycle
      /\ stall \in Int /\ stall >= 0 /\ stall <= MaxStall
  BY CycleArithmetic DEF TypeOK
<1>b. MaxStall \in Int /\ MaxStall > 0
  BY CycleArithmetic
<1> USE DEF Leases, Age
<1>1. CASE ControlCycle
  <2>1. PICK now \in Cycle : CycleOutcome(now)
    BY <1>1, ControlCycleOutcome
  <2>2. /\ pc' = pc /\ loaded' = loaded /\ cycle' = now /\ (Quiet \/ Loss(now))
    BY <2>1 DEF CycleOutcome, Ending
  <2>3. CASE Quiet
    <3>1. epochCurrent' = epochCurrent /\ enabled' = enabled /\ deadline' = deadline
      BY <2>3 DEF Quiet
    <3> QED BY <2>1, <2>2, <3>1, AgeInCycle
  <2>4. CASE Loss(now)
    <3>1. ~epochCurrent'
      BY <2>4 DEF Loss
    <3> QED BY <2>1, <2>2, <3>1, AgeInCycle
  <2> QED BY <2>2, <2>3, <2>4
<1>2. CASE BreakAsserts \/ BreakReleases \/ BreakInterrupt \/ HallCapture \/ UNCHANGED vars
  <2>1. UNCHANGED <<cycle, pc, loaded, stall, epochCurrent, enabled, deadline>>
    BY <1>2 DEF BreakAsserts, BreakReleases, BreakInterrupt, HallCapture, vars,
                seenVars, authority, local
  <2>2. grantAge' = grantAge
    BY <1>0, <2>1
  <2> QED BY <2>1, <2>2
<1>3. CASE Snapshot
  <2>1. /\ pc = "Idle" /\ pc' = "Decide" /\ stall' = 0
        /\ UNCHANGED <<cycle, loaded, epochCurrent, enabled, deadline>>
    BY <1>3 DEF Snapshot, Foreground, authority
  <2>2. grantAge' = grantAge
    BY <1>0, <2>1
  <2>3. Age \in Int
    BY <1>a, IssuedCycle, WrapSubInCycle, CycleArithmetic DEF Cycle
  <2> QED BY <1>a, <1>b, <2>1, <2>2, <2>3
<1>4. CASE Decide
  <2>1. /\ pc = "Decide" /\ pc' \in {"StoreTarget", "RevokeFlag"}
        /\ UNCHANGED <<cycle, loaded, stall, epochCurrent, enabled, deadline>>
    BY <1>4 DEF Decide, Foreground, authority, seenVars
  <2>2. enabled => grantAge' = grantAge
    BY <1>0, <2>1
  <2> QED BY <2>1, <2>2
<1>5. CASE StoreWords
  <2>1. /\ pc \in {"StoreTarget", "StoreDc", "StorePhase"}
        /\ pc' \in {"StoreDc", "StorePhase", "StoreEpoch"}
        /\ UNCHANGED <<cycle, loaded, stall, epochCurrent, enabled, deadline>>
    BY <1>5 DEF StoreWords, StoreTarget, StoreCeilings, StoreCeiling, Foreground,
                seenVars, local
  <2>2. grantAge' = grantAge
    BY <1>0, <2>1
  <2> QED BY <2>1, <2>2
<1>6. CASE StoreEpoch
  <2>1. /\ pc = "StoreEpoch" /\ pc' = "LoadCycle"
        /\ epochCurrent' = (newEvents = 0)
        /\ UNCHANGED <<cycle, loaded, stall, enabled, deadline>>
    BY <1>6 DEF StoreEpoch, Foreground, seenVars, authority, local
  <2>2. grantAge' = grantAge
    BY <1>0, <2>1
  <2>3. epochCurrent' /\ enabled' => epochCurrent /\ enabled
    BY <2>1 DEF Epochs
  <2> QED BY <2>1, <2>2, <2>3
<1>7. CASE LoadCycle
  <2>1. /\ pc = "LoadCycle" /\ pc' = "StoreDeadline" /\ loaded' = cycle
        /\ UNCHANGED <<cycle, stall, epochCurrent, enabled, deadline>>
    BY <1>7 DEF LoadCycle, Foreground, seenVars, authority
  <2>2. grantAge' = grantAge
    BY <1>0, <2>1
  <2>3. WrapSub(cycle', loaded') <= stall'
    BY <1>a, <2>1, IssuedCycle
  <2> QED BY <2>1, <2>2, <2>3
<1>8. CASE StoreDeadline
  <2>1. /\ pc = "StoreDeadline" /\ pc' = "Enable"
        /\ deadline' = WrapAdd(loaded, Lease) /\ cycle' = cycle /\ stall' = stall
    BY <1>8 DEF StoreDeadline, Foreground, seenVars
  <2>2. Age' = WrapSub(cycle, loaded)
    BY <1>a, <2>1, IssuedCycle
  <2>3. grantAge' = Aged(WrapSub(cycle, loaded)) /\ WrapSub(cycle, loaded) <= stall
    BY <1>0, <2>1
  <2>4. grantAge' = Aged(Age') /\ Age' <= stall' + 0
    <3>1. WrapSub(cycle, loaded) <= stall + 0
      BY <1>a, <2>3
    <3> HIDE DEF Age
    <3> QED BY <2>1, <2>2, <2>3, <3>1
  <2> HIDE DEF Age
  <2> QED BY <2>1, <2>4
<1>9. CASE Enable
  <2>1. /\ pc = "Enable" /\ pc' = "Idle"
        /\ UNCHANGED <<cycle, loaded, stall, epochCurrent, deadline>>
    BY <1>9 DEF Enable, Foreground, seenVars, local
  <2>2. grantAge' = grantAge
    BY <1>0, <2>1
  <2> QED BY <2>1, <2>2
<1>10. CASE \/ RevokeFlag \/ RevokeWords \/ AckOff \/ AckClear \/ AckReady \/ AckConfirm
            \/ UpdaterOutputs
  <2>1. ~enabled' /\ pc' \notin {"Enable", "StoreDeadline"}
    BY <1>10 DEF RevokeFlag, RevokeWords, AckOff, AckClear, AckReady, AckConfirm,
                 RestoreLatch, UpdaterOutputs, Foreground, authority, Grant, Acknowledging
  <2> QED BY <2>1
<1>11. CASE UpdaterCheck
  <2>1. ~enabled' /\ pc' \notin {"Enable", "StoreDeadline"}
    BY <1>11 DEF UpdaterCheck, Foreground, authority
  <2> QED BY <2>1
<1>12. CASE UpdaterReset \/ WatchdogReset
  <2>1. /\ pc' = "Reset"
        /\ UNCHANGED <<cycle, loaded, stall, epochCurrent, enabled, deadline>>
    BY <1>12 DEF UpdaterReset, WatchdogReset, ResetBy, seenVars, authority, local
  <2>2. grantAge' = grantAge
    BY <1>0, <2>1
  <2>3. Age \in Int
    BY <1>a, IssuedCycle, WrapSubInCycle, CycleArithmetic DEF Cycle
  <2> QED BY <1>a, <1>b, <2>1, <2>2, <2>3
<1> QED
  BY <1>0, StepCases, <1>1, <1>2, <1>3, <1>4, <1>5, <1>6, <1>7, <1>8, <1>9, <1>10,
     <1>11, <1>12

-----------------------------------------------------------------------------
LEMMA InitIInv == HInit => IInv
<1> SUFFICES ASSUME HInit PROVE IInv
  OBVIOUS
<1> USE DEF HInit, Init, HistoryInit
<1>1. 0 \in Cycle /\ 0 \in 0..MaxStall /\ Lease \in 0..Lease
  BY CycleArithmetic DEF Cycle
<1>2. TypeOK
  <2>1. /\ breakInput \in BOOLEAN /\ breakFlag \in BOOLEAN /\ seeded \in BOOLEAN
        /\ hallValid \in BOOLEAN
    <3>1. May("Break") \in BOOLEAN /\ May("Hall") \in BOOLEAN
      BY DEF May
    <3> QED BY <3>1
  <2>2. /\ channels \in BOOLEAN /\ breakArmed \in BOOLEAN /\ rawValid \in BOOLEAN
        /\ tracked \in BOOLEAN /\ outputActive \in BOOLEAN /\ commandWas \in BOOLEAN
        /\ newTrip \in BOOLEAN /\ enabled \in BOOLEAN /\ epochCurrent \in BOOLEAN
    OBVIOUS
  <2>3. lastReason \in SafetyLossReason /\ pc \in Pc
    BY DEF SafetyLossReason, Pc
  <2>4. captures \in 0..2 /\ newEvents \in 0..2
    OBVIOUS
  <2>5. /\ cycle \in Cycle /\ deadline \in Cycle /\ loaded \in Cycle
        /\ stall \in 0..MaxStall
    BY <1>1
  <2>6. /\ latched \in SUBSET FaultFlag /\ words \in [Words -> 0..2]
        /\ ackMask \in SUBSET FaultFlag /\ verdict \in {"Clean", "Interrupted", "NeedsRest"}
    BY DEF Revoked
  <2> QED BY <2>1, <2>2, <2>3, <2>4, <2>5, <2>6 DEF TypeOK
<1>3. Epochs /\ Grant /\ Latch /\ Leases
  BY DEF Epochs, Grant, Latch, Leases, Acknowledging
<1>4. TripIsCounted /\ UpdaterResetsReleased
  BY DEF TripIsCounted, UpdaterResetsReleased
<1> QED BY <1>1, <1>2, <1>3, <1>4 DEF IInv

LEMMA NextIInv == IInv /\ [HNext]_allVars => IInv'
<1> SUFFICES ASSUME IInv, [HNext]_allVars PROVE IInv'
  OBVIOUS
<1>1. [Next]_vars
  BY Recorded
<1>2. TypeOK'
  BY <1>1, TypeStep DEF IInv
<1>3. Epochs' /\ Grant'
  BY <1>1, EpochsStep, GrantStep DEF IInv
<1>4. Latch' /\ Leases'
  BY LatchStep, LeasesStep DEF IInv
<1>5. (grantAge \in 0..Lease)'
  BY GrantAgeStep DEF IInv
<1>6. TripIsCounted' /\ UpdaterResetsReleased'
  BY <1>1, TripStep, UpdaterStep DEF IInv
<1> QED BY <1>2, <1>3, <1>4, <1>5, <1>6 DEF IInv

THEOREM Invariance == HSpec => []IInv
BY InitIInv, NextIInv, PTL DEF HSpec

\* Every variable keeps its type: cycle counters stay below CycleMod, the
\* fault latch and the mask of a pass hold faults, the words of a grant an age.
THEOREM TypeCorrect == HSpec => []TypeOK
<1>1. IInv => TypeOK
  BY DEF IInv
<1> QED BY <1>1, Invariance, PTL

\* Output never follows a safety loss that the foreground has not seen.
THEOREM UnseenLossStops == HSpec => []UnseenLossStopsOutput
<1>1. IInv => UnseenLossStopsOutput
  BY DEF IInv, Epochs, UnseenLossStopsOutput
<1> QED BY <1>1, Invariance, PTL

\* The channels are off whenever a fault is latched.
THEOREM LatchedFaultStops == HSpec => []LatchedFaultStopsOutput
<1>1. IInv => LatchedFaultStopsOutput
  BY DEF IInv, Latch, LatchedFaultStopsOutput
<1> QED BY <1>1, Invariance, PTL

\* No acknowledgement clears a fault that its pass has not read.
THEOREM UnreadFaultKept == HSpec => []UnreadFaultStays
<1>1. IInv => UnreadFaultStays
  BY DEF IInv, Latch, UnreadFaultStays
<1> QED BY <1>1, Invariance, PTL

\* What RideController assumes of its observations (Consistent) is what the
\* control interrupt publishes: a trip comes with an event that is not Hall's.
THEOREM TripCounted == HSpec => []TripIsCounted
<1>1. IInv => TripIsCounted
  BY DEF IInv
<1> QED BY <1>1, Invariance, PTL

\* The updater resets the device only with the motor channels off.
THEOREM UpdaterReleased == HSpec => []UpdaterResetsReleased
<1>1. IInv => UpdaterResetsReleased
  BY DEF IInv
<1> QED BY <1>1, Invariance, PTL

-----------------------------------------------------------------------------
\* Only a control cycle advances the cycle counter or counts a loss.
LEMMA CycleSteps ==
    ASSUME TypeOK, [Next]_vars, cycle' # cycle \/ newEvents' > newEvents
    PROVE  \E now \in Cycle : CycleOutcome(now)
<1>1. ~ControlCycle => cycle' = cycle /\ (newEvents' = newEvents \/ newEvents' = 0)
  BY StepCases
  DEF BreakAsserts, BreakReleases, BreakInterrupt, HallCapture, Snapshot, Decide,
      StoreWords, StoreTarget, StoreCeilings, StoreCeiling, StoreEpoch, LoadCycle,
      StoreDeadline, Enable, RevokeFlag,
      RevokeWords, AckOff, AckClear, AckReady, AckConfirm, RestoreLatch,
      UpdaterCheck, UpdaterOutputs, UpdaterReset, WatchdogReset, ResetBy,
      Foreground, vars, seenVars
<1>2. newEvents \in 0..2
  BY DEF TypeOK
<1>3. ControlCycle
  BY <1>1, <1>2
<1> QED BY <1>3, ControlCycleOutcome

\* A cycle energizes only with the words of the latest grant, or of the renewal
\* under way and of the one grant that it renews, in the order of the stores.
THEOREM EnergizesLatestGrant == HSpec => GrantOrRenewal
<1>1. IInv /\ [HNext]_allVars => [CycleEnergizes => InOrder]_allVars
  <2> SUFFICES ASSUME IInv, [HNext]_allVars, CycleEnergizes PROVE InOrder
    OBVIOUS
  <2>1. PICK now \in Cycle : CycleOutcome(now)
    BY Recorded, CycleSteps DEF IInv, CycleEnergizes
  <2>2. enabled /\ epochCurrent
    BY <2>1, EnergizingCycle DEF CycleEnergizes
  <2> QED BY <2>2 DEF IInv, Grant
<1> QED BY <1>1, Invariance, PTL DEF HSpec, GrantOrRenewal, InOrder

\* Output never outlives the lease of the latest deadline, whatever preempted
\* its stores and wherever the 32-bit counter wrapped.
THEOREM LeaseBounds == HSpec => LeaseBoundsOutput
<1>1. IInv /\ [HNext]_allVars => [CycleEnergizes => grantAge' < Lease]_allVars
  <2> SUFFICES ASSUME IInv, [HNext]_allVars, CycleEnergizes PROVE grantAge' < Lease
    OBVIOUS
  <2>1. PICK now \in Cycle : CycleOutcome(now)
    BY Recorded, CycleSteps DEF IInv, CycleEnergizes
  <2>2. enabled /\ epochCurrent /\ LeaseIsActive(now, deadline)
    BY <2>1, EnergizingCycle DEF CycleEnergizes
  <2>3. /\ WrapSub(now, WrapSub(deadline, Lease)) = Age + 1
        /\ grantAge' = Aged(Age + 1) /\ Age + 1 <= 2 * MaxStall
    BY <2>1, <2>2, AgeInCycle DEF IInv
  <2>4. Age + 1 < Lease
    BY <2>2, <2>3, LeaseByAge DEF IInv, TypeOK
  <2> QED BY <2>3, <2>4 DEF Aged
<1> QED BY <1>1, Invariance, PTL DEF HSpec, LeaseBoundsOutput

\* A lost lease is reported only a whole lease after the latest deadline's load.
THEOREM LeaseLossStalled == HSpec => LeaseLossMeansStall
<1>1. IInv /\ [HNext]_allVars =>
          [lastReason' = "OutputLease" /\ newEvents' > newEvents => grantAge' >= Lease]_allVars
  <2> SUFFICES ASSUME IInv, [HNext]_allVars,
                      lastReason' = "OutputLease", newEvents' > newEvents
               PROVE  grantAge' >= Lease
    OBVIOUS
  <2>1. PICK now \in Cycle : CycleOutcome(now)
    BY Recorded, CycleSteps DEF IInv
  <2>2. newEvents \in 0..2
    BY DEF IInv, TypeOK
  <2>3. CommandEnabled /\ ~LeaseActive(now)
    BY <2>1, <2>2 DEF CycleOutcome, Ending, Quiet
  <2>4. enabled /\ epochCurrent /\ ~LeaseIsActive(now, deadline)
    BY <2>3 DEF CommandEnabled, LeaseActive
  <2>5. /\ WrapSub(now, WrapSub(deadline, Lease)) = Age + 1
        /\ grantAge' = Aged(Age + 1) /\ Age + 1 <= 2 * MaxStall
    BY <2>1, <2>4, AgeInCycle DEF IInv
  <2>6. ~(Age + 1 < Lease)
    BY <2>4, <2>5, LeaseByAge DEF IInv, TypeOK
  <2> QED BY <2>5, <2>6, CycleArithmetic DEF Aged
<1> QED BY <1>1, Invariance, PTL DEF HSpec, LeaseLossMeansStall

-----------------------------------------------------------------------------
(* The control loop implements MotorAuthority.                             *)

LEMMA LeaseInRange ==
    /\ grantAge \in 0..Lease => LeaseLeft \in 0..Lease
    /\ (grantAge \in 0..Lease)' => LeaseLeft' \in 0..Lease
<1>1. \A n \in 0..Lease : Lease - n \in 0..Lease
  BY CycleArithmetic
<1>2. 0 \in 0..Lease
  BY CycleArithmetic
<1> QED  BY <1>1, <1>2 DEF LeaseLeft

\* A control cycle drives within the lease, stops or loses the authority.
LEMMA AuthorityInCycle ==
    ASSUME IInv, [HNext]_allVars, NEW now \in Cycle, CycleOutcome(now)
    PROVE  Authority!Drive \/ Authority!Idle \/ Authority!Lose
<1>1. /\ grantAge \in 0..Lease /\ newEvents \in 0..2 /\ latched \in SUBSET FaultFlag
      /\ latched \subseteq latched'
  BY DEF IInv, TypeOK, CycleOutcome, Ending
<1>2. grantAge' = Aged(grantAge + 1)
  BY Recorded, AgeInCycle DEF IInv
<1>3. CASE Quiet
  <2>1. /\ enabled' = enabled /\ epochCurrent' = epochCurrent
        /\ (newEvents # 0)' = (newEvents # 0)
    BY <1>3 DEF Quiet
  <2>2. LeaseLeft' = Authority!Used
    BY <1>1, <1>2, <2>1, CycleArithmetic DEF LeaseLeft, Authority!Used, Aged
  <2>3. CASE channels'
    <3>1. enabled /\ epochCurrent /\ LeaseIsActive(now, deadline) /\ latched' = {}
      BY <2>3, EnergizingCycle
    <3>2. /\ WrapSub(now, WrapSub(deadline, Lease)) = Age + 1
          /\ grantAge' = Aged(Age + 1) /\ Age + 1 <= 2 * MaxStall
      BY <3>1, AgeInCycle DEF IInv
    <3>3. Age + 1 < Lease
      BY <3>1, <3>2, LeaseByAge DEF IInv, TypeOK
    <3>4. grantAge' < Lease /\ grantAge' \in 0..Lease
      BY <3>2, <3>3, <1>1, <1>2, AgeTypes DEF Aged
    <3>5. LeaseLeft' > 0
      <4>1. LeaseLeft' = Lease - grantAge'
        BY <2>1, <3>1 DEF LeaseLeft
      <4>2. Lease - grantAge' > 0
        <5>1. \A n \in 0..Lease : n < Lease => Lease - n > 0
          BY CycleArithmetic
        <5> QED  BY <3>4, <5>1
      <4> QED  BY <4>1, <4>2
    <3>6. channels' = TRUE /\ latched = {}
      BY <1>1, <2>3, <3>1 DEF CycleOutcome, Ending
    <3> QED  BY <2>1, <2>2, <3>1, <3>5, <3>6 DEF Authority!Drive
  <2>4. CASE ~channels'
    <3>1. channels' = FALSE
      BY <2>4 DEF CycleOutcome, Ending
    <3>2. (latched # {})' \in {latched # {}, TRUE}
      BY <1>1
    <3> QED  BY <2>1, <2>2, <3>1, <3>2 DEF Authority!Idle
  <2> QED  BY <2>3, <2>4
<1>4. CASE Loss(now)
  <2>1. LeaseLeft' = 0 /\ (newEvents # 0)' = TRUE
    BY <1>4 DEF Loss, LeaseLeft
  <2>2. channels' = FALSE
    BY <1>4 DEF Loss, CycleOutcome, Ending
  <2>3. (latched # {})' \in {latched # {}, TRUE}
    BY <1>1
  <2> QED  BY <2>1, <2>2, <2>3 DEF Authority!Lose
<1> QED  BY <1>3, <1>4 DEF CycleOutcome, Ending

\* The foreground's steps: most of them show nothing to the motor.
LEMMA AuthorityInPass ==
    ASSUME IInv, [HNext]_allVars, Pass \/ UpdaterCheck
    PROVE  [Authority!AuthorityNext]_Authority!authorityVars
<1>1. /\ grantAge \in 0..Lease /\ newEvents \in 0..2 /\ latched \in SUBSET FaultFlag
      /\ enabled \in BOOLEAN /\ epochCurrent \in BOOLEAN /\ channels \in BOOLEAN
      /\ grantAge' \in 0..Lease
  BY NextIInv DEF IInv, TypeOK
<1>2. LeaseLeft \in 0..Lease /\ LeaseLeft' \in 0..Lease
  BY <1>1, LeaseInRange
<1>3. grantAge' =
          IF cycle' # cycle THEN Aged(grantAge + 1)
          ELSE IF pc = "Decide" /\ pc' = "StoreTarget" /\ ~enabled THEN 0
          ELSE IF pc = "StoreDeadline" /\ pc' = "Enable"
          THEN Aged(WrapSub(cycle, loaded)) ELSE grantAge
  BY Recorded
<1>4. epochCurrent => newEvents = 0
  BY DEF IInv, Epochs
<1>5. ~(enabled /\ epochCurrent) => LeaseLeft = 0
  BY DEF LeaseLeft
<1>6. CASE Snapshot
  <2>1. /\ newEvents' = 0 /\ UNCHANGED <<channels, latched, enabled, epochCurrent, grantAge>>
    BY <1>3, <1>6 DEF Snapshot, Foreground, faultVars, authority
  <2>2. LeaseLeft' = LeaseLeft
    BY <2>1 DEF LeaseLeft
  <2>3. CASE newEvents = 0
    BY <2>1, <2>2, <2>3 DEF Authority!authorityVars
  <2>4. CASE newEvents # 0
    <3>1. LeaseLeft = 0 /\ channels = FALSE
      BY <1>1, <1>4, <1>5, <2>4 DEF IInv, Epochs
    <3> QED  BY <2>1, <2>2, <2>4, <3>1 DEF Authority!See, Authority!AuthorityNext
  <2> QED  BY <2>3, <2>4
<1>7. CASE Decide
  <2>1. UNCHANGED <<channels, latched, newEvents, enabled, epochCurrent>>
    BY <1>7 DEF Decide, Foreground, faultVars, seenVars, authority
  <2>2. cycle' = cycle /\ (enabled => grantAge' = grantAge)
    BY <1>3, <1>7 DEF Decide, Foreground
  <2>3. LeaseLeft' = LeaseLeft
    BY <2>1, <2>2 DEF LeaseLeft
  <2> QED  BY <2>1, <2>3 DEF Authority!authorityVars
<1>8. CASE StoreEpoch
  <2>1. /\ UNCHANGED <<channels, latched, newEvents, enabled, grantAge>>
        /\ epochCurrent' = (newEvents = 0) /\ pc = "StoreEpoch"
    BY <1>3, <1>8 DEF StoreEpoch, Foreground, faultVars, seenVars, authority
  <2>2. enabled => epochCurrent' = epochCurrent
    BY <1>1, <1>4, <2>1 DEF IInv, Epochs
  <2>3. LeaseLeft' = LeaseLeft
    BY <1>1, <2>1, <2>2 DEF LeaseLeft
  <2> QED  BY <2>1, <2>3 DEF Authority!authorityVars
<1>9. CASE StoreDeadline \/ Enable
  <2>1. UNCHANGED <<channels, latched, newEvents, epochCurrent>>
    BY <1>9 DEF StoreDeadline, Enable, Foreground, faultVars, seenVars
  <2>2. CASE newEvents = 0
    BY <1>2, <2>1, <2>2 DEF Authority!Grant, Authority!AuthorityNext
  <2>3. CASE newEvents # 0
    <3>1. LeaseLeft = 0 /\ LeaseLeft' = 0
      BY <1>4, <2>1, <2>3 DEF LeaseLeft
    <3> QED  BY <2>1, <3>1 DEF Authority!authorityVars
  <2> QED  BY <2>2, <2>3
<1>10. CASE RevokeFlag
  <2>1. UNCHANGED <<channels, latched, newEvents>> /\ enabled' = FALSE
    BY <1>10 DEF RevokeFlag, Foreground, faultVars, seenVars
  <2> QED  BY <2>1 DEF LeaseLeft, Authority!Withdraw, Authority!AuthorityNext
<1>11. CASE StoreWords \/ LoadCycle \/ RevokeWords \/ UpdaterCheck \/ UpdaterOutputs
  <2>1. UNCHANGED <<channels, latched, newEvents, enabled, epochCurrent, grantAge>>
    BY <1>3, <1>11
    DEF StoreWords, StoreTarget, StoreCeilings, StoreCeiling, LoadCycle, RevokeWords,
        UpdaterCheck, UpdaterOutputs,
        Foreground, faultVars, seenVars, authority
  <2> QED  BY <2>1 DEF LeaseLeft, Authority!authorityVars
<1>12. CASE AckOff \/ UpdaterReset
  <2>1. /\ UNCHANGED <<latched, newEvents, enabled, epochCurrent, grantAge>>
        /\ channels' = FALSE
    BY <1>3, <1>12 DEF AckOff, UpdaterReset, ResetBy, Foreground, seenVars, authority
  <2> QED  BY <2>1 DEF LeaseLeft, Authority!SwitchOff, Authority!AuthorityNext
<1>13. CASE AckClear
  <2>1. /\ UNCHANGED <<channels, newEvents, enabled, epochCurrent, grantAge>>
        /\ pc = "AckClear"
    BY <1>3, <1>13 DEF AckClear, Foreground, seenVars, authority
  <2>2. LeaseLeft' = LeaseLeft
    BY <2>1 DEF LeaseLeft
  <2>3. LeaseLeft = 0 /\ ackMask # {}
    BY <1>5, <2>1 DEF IInv, Grant, Latch, Acknowledging
  <2>4. CASE latched' = latched
    BY <2>1, <2>2, <2>4 DEF Authority!authorityVars
  <2>5. CASE latched' # latched
    <3>1. latched = ackMask /\ latched' = {}
      BY <1>13, <2>5 DEF AckClear, AcknowledgementPermitted
    <3>2. channels = FALSE
      BY <1>1, <2>3, <3>1 DEF IInv, Latch
    <3> QED  BY <2>1, <2>2, <2>3, <3>1, <3>2 DEF Authority!Clear, Authority!AuthorityNext
  <2> QED  BY <2>4, <2>5
<1>14. CASE AckReady \/ AckConfirm
  <2>1. /\ UNCHANGED <<channels, newEvents, enabled, epochCurrent, grantAge>>
        /\ pc \in {"AckReady", "AckConfirm"}
        /\ latched' = latched \/ ackMask \subseteq latched'
    BY <1>3, <1>14
    DEF AckReady, AckConfirm, RestoreLatch, Foreground, seenVars, authority
  <2>2. channels = FALSE /\ ackMask # {}
    BY <1>1, <2>1 DEF IInv, Latch, Acknowledging
  <2>3. LeaseLeft' = LeaseLeft
    BY <2>1 DEF LeaseLeft
  <2>4. CASE latched' = latched
    BY <2>1, <2>3, <2>4 DEF Authority!authorityVars
  <2>5. CASE ackMask \subseteq latched'
    <3>1. (latched # {})' = TRUE
      BY <2>2, <2>5
    <3> QED  BY <2>1, <2>2, <2>3, <3>1 DEF Authority!Fault, Authority!AuthorityNext
  <2> QED  BY <2>1, <2>4, <2>5
<1> QED  BY <1>6, <1>7, <1>8, <1>9, <1>10, <1>11, <1>12, <1>13, <1>14 DEF Pass

LEMMA AuthorityStep ==
    ASSUME IInv, [HNext]_allVars
    PROVE  [Authority!AuthorityNext]_Authority!authorityVars
<1>1. [Next]_vars
  BY Recorded
<1>2. CASE ControlCycle
  <2>1. PICK now \in Cycle : CycleOutcome(now)
    BY <1>2, ControlCycleOutcome DEF IInv
  <2> QED  BY <2>1, AuthorityInCycle DEF Authority!AuthorityNext
<1>3. CASE Pass \/ UpdaterCheck
  BY <1>3, AuthorityInPass
<1>4. CASE BreakInterrupt
  <2>1. /\ UNCHANGED <<cycle, pc, newEvents, enabled, epochCurrent>>
        /\ (latched # {})' = TRUE /\ channels' = FALSE
    BY <1>4 DEF BreakInterrupt, seenVars, authority
  <2>2. LeaseLeft' = LeaseLeft
    BY <2>1, Recorded DEF LeaseLeft
  <2> QED  BY <2>1, <2>2 DEF Authority!Fault, Authority!AuthorityNext
<1>5. CASE WatchdogReset
  <2>1. /\ UNCHANGED <<cycle, latched, newEvents, enabled, epochCurrent>>
        /\ pc' = "Reset" /\ channels' = FALSE
    BY <1>5 DEF WatchdogReset, ResetBy, seenVars, authority
  <2>2. LeaseLeft' = LeaseLeft
    BY <2>1, Recorded DEF LeaseLeft
  <2> QED  BY <2>1, <2>2 DEF Authority!SwitchOff, Authority!AuthorityNext
<1>6. CASE BreakAsserts \/ BreakReleases \/ HallCapture \/ UNCHANGED vars
  <2>1. UNCHANGED <<cycle, pc, channels, latched, newEvents, enabled, epochCurrent>>
    BY <1>6
    DEF BreakAsserts, BreakReleases, HallCapture, vars, faultVars, seenVars, authority
  <2>2. LeaseLeft' = LeaseLeft
    BY <2>1, Recorded DEF LeaseLeft
  <2> QED  BY <2>1, <2>2 DEF Authority!authorityVars
<1> QED  BY <1>1, <1>2, <1>3, <1>4, <1>5, <1>6 DEF Next, HasReset

\* The stores of the foreground and the steps of the interrupts, in every order
\* and for every lease, stall bound, counter width and set of disturbances, are
\* those of one authority.
THEOREM LoopKeepsAuthority == HSpec => KeepsAuthority
<1>1. HInit => Authority!AuthorityInit
  BY DEF HInit, Init, Authority!AuthorityInit, LeaseLeft
<1>2. IInv /\ [HNext]_allVars => [Authority!AuthorityNext]_Authority!authorityVars
  BY AuthorityStep
<1> QED  BY <1>1, <1>2, Invariance, PTL DEF HSpec, KeepsAuthority, Authority!AuthoritySpec
=============================================================================
