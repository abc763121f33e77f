-------------------------- MODULE ControlProperties --------------------------
(***************************************************************************)
(* What the control interrupt and the foreground promise each other.  The  *)
(* history variables record what has happened, not how the code tracks it. *)
(***************************************************************************)
EXTENDS ControlLoop

VARIABLES
    grantAge,       \* cycles since the load behind the latest stored deadline
    unread,         \* faults latched since the foreground read fault_flags()
    nonHall,        \* a loss since the latest snapshot has no Hall reason
    riding          \* the latest decision granted torque

historyVars == <<grantAge, unread, nonHall, riding>>
allVars == <<vars, historyVars>>

Aged(n) == IF n < Lease THEN n ELSE Lease

HistoryInit ==
    grantAge = Lease /\ unread = {} /\ nonHall = FALSE /\ riding = FALSE

\* A grant that starts from a withdrawn authority has the age zero until its
\* own deadline is stored.
Record ==
    /\ grantAge' =
           IF cycle' # cycle THEN Aged(grantAge + 1)
           ELSE IF pc = "Decide" /\ pc' = "StoreTarget" /\ ~enabled THEN 0
           ELSE IF pc = "StoreDeadline" /\ pc' = "Enable"
           THEN Aged(WrapSub(cycle, loaded)) ELSE grantAge
    /\ unread' = (IF pc = "Decide" /\ pc' # "Decide" THEN {} ELSE unread)
                     \cup (latched' \ latched)
    /\ nonHall' =
           IF pc = "Idle" /\ pc' = "Decide" THEN FALSE
           ELSE nonHall \/ (newEvents' # 0 /\ lastReason' \notin HallReason)
    /\ riding' = IF pc = "Decide" /\ pc' # "Decide" THEN pc' = "StoreTarget" ELSE riding

HInit == Init /\ HistoryInit
HNext == Next /\ Record
HSpec == HInit /\ [][HNext]_allVars

CycleEnergizes == cycle' # cycle /\ channels'

-----------------------------------------------------------------------------
Pc == {"Idle", "Decide", "StoreTarget", "StoreDc", "StorePhase", "StoreEpoch",
       "LoadCycle", "StoreDeadline", "Enable", "RevokeFlag", "RevokeWords",
       "AckOff", "AckClear", "AckReady", "AckConfirm", "UpdaterOutputs",
       "UpdaterReset", "Reset"}

\* Every variable keeps the type of the atomic, field or register it stands
\* for.
TypeOK ==
    /\ cycle \in Cycle /\ deadline \in Cycle /\ loaded \in Cycle
    /\ channels \in BOOLEAN /\ breakInput \in BOOLEAN /\ breakFlag \in BOOLEAN
    /\ breakArmed \in BOOLEAN /\ latched \in SUBSET FaultFlag
    /\ captures \in 0..2 /\ rawValid \in BOOLEAN /\ seeded \in BOOLEAN
    /\ tracked \in BOOLEAN /\ outputActive \in BOOLEAN /\ hallValid \in BOOLEAN
    /\ commandWas \in BOOLEAN /\ newEvents \in 0..2 /\ newTrip \in BOOLEAN
    /\ lastReason \in SafetyLossReason
    /\ enabled \in BOOLEAN /\ epochCurrent \in BOOLEAN /\ words \in [Words -> 0..2]
    /\ pc \in Pc /\ verdict \in {"Clean", "Interrupted", "NeedsRest"}
    /\ ackMask \in SUBSET FaultFlag /\ stall \in 0..MaxStall

\* After a safety loss the outputs stay off until a foreground pass has taken
\* a snapshot that shows the loss: a grant decided from an older snapshot,
\* wherever the loss hit between its stores, is refused by its epoch.
UnseenLossStopsOutput == channels => newEvents = 0

\* No fault is latched while the channels drive the motor, and none of them
\* is re-enabled before the latch is cleared.
LatchedFaultStopsOutput == latched # {} => ~channels

\* A control cycle that energizes finds the words of the latest grant, or,
\* between the stores of its renewal, the new target and as many new ceilings as
\* are stored, in that order, with the rest and the lease of the grant before.
\* Nothing older, nothing that a revocation of either side has zeroed, and
\* never an old word under the new lease.
GrantOrRenewal ==
    [][CycleEnergizes =>
           /\ words["Target"] <= words["Dc"] /\ words["Dc"] <= words["Phase"]
           /\ words["Phase"] <= words["Deadline"] /\ words["Deadline"] <= 1]_allVars

\* A control cycle energizes only within the lease of the latest deadline,
\* however long its stores were preempted and wherever the counter wraps.
LeaseBoundsOutput == [][CycleEnergizes => grantAge' < Lease]_allVars

\* The interrupt reports a lost lease only after a whole lease without a new
\* deadline, never for a grant that is just being stored.
LeaseLossMeansStall ==
    [][lastReason' = "OutputLease" /\ newEvents' > newEvents => grantAge' >= Lease]_allVars

\* What is left of the latest grant: an authority is in force while its flag is
\* set and its epoch current.
LeaseLeft == IF enabled /\ epochCurrent THEN Lease - grantAge ELSE 0

Authority == INSTANCE MotorAuthority WITH
    driving <- channels, lease <- LeaseLeft,
    unseen <- newEvents # 0, faulted <- latched # {}

\* However the interrupts cut into the foreground's stores, they add up to the
\* steps of one authority: a loss ends it at once, a fault stops the motor, and
\* only a grant made after the loss was seen, or after the fault was cleared
\* without a grant in force, drives again, within its lease.
KeepsAuthority == Authority!AuthoritySpec

\* A fault the foreground has not read stays latched until it has: an
\* acknowledgement never clears what its pass has not observed.
UnreadFaultStays == unread \subseteq latched

\* An overcurrent trip reaches the ride controller with a safety event of its
\* own, and a single event never has a Hall reason then (the Consistent
\* observations of RideController).
TripIsCounted == newTrip => newEvents # 0 /\ (newEvents = 1 => lastReason \notin HallReason)

\* The updater's reset never cuts energized channels, and neither interrupt
\* can energize them between its checks and the reset.
UpdaterResetsReleased == pc = "UpdaterReset" => ~channels

\* README ("Local ride inputs"): once the ride is under way, losses caused only
\* by the Hall re-arm it without a rest sample.
HallLossNeedsNoRest ==
    [][riding /\ pc = "Idle" /\ pc' = "Decide" /\ verdict' = "NeedsRest" => nonHall]_allVars
=============================================================================
