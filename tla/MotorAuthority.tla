---------------------------- MODULE MotorAuthority ----------------------------
(***************************************************************************)
(* What the foreground and the control interrupt of oxifoc-f103 promise    *)
(* the motor: an authority is a lease that the foreground sets and that    *)
(* the control cycles use up.  Every safety loss ends it at once, every    *)
(* fault stops the motor, and neither lets it run again before the         *)
(* foreground has seen the loss, or cleared the fault without a lease, and *)
(* has granted anew.  ControlLoop, where a grant is six stores that the    *)
(* interrupts cut into and nothing is ever cleared in one step, is shown   *)
(* to implement it.                                                        *)
(***************************************************************************)
EXTENDS Naturals

CONSTANT Lease      \* OUTPUT_LEASE_CYCLES

VARIABLES
    driving,    \* the motor channels are energized
    lease,      \* control cycles the authority still lasts, 0 without one
    unseen,     \* a safety loss that the foreground has not seen
    faulted     \* a power-stage fault is latched

authorityVars == <<driving, lease, unseen, faulted>>

AuthorityInit ==
    driving = FALSE /\ lease = 0 /\ unseen = FALSE /\ faulted = FALSE

\* A control cycle uses up one cycle of the lease.
Used == IF lease = 0 THEN 0 ELSE lease - 1

\* It drives only within the lease and with no fault.
Drive ==
    /\ lease' = Used /\ Used > 0 /\ ~faulted
    /\ driving' = TRUE /\ UNCHANGED <<unseen, faulted>>

\* Or it stops, and may have latched a fault.
Idle ==
    /\ lease' = Used /\ driving' = FALSE
    /\ faulted' \in {faulted, TRUE} /\ UNCHANGED unseen

\* A cycle that counts a safety loss ends the authority with it.
Lose ==
    /\ lease' = 0 /\ driving' = FALSE /\ unseen' = TRUE
    /\ faulted' \in {faulted, TRUE}

\* A hardware break, wherever it hits.
Fault ==
    /\ driving' = FALSE /\ faulted' = TRUE /\ UNCHANGED <<lease, unseen>>

\* The foreground takes a snapshot of the losses.
See ==
    /\ unseen /\ ~driving /\ lease = 0
    /\ unseen' = FALSE /\ UNCHANGED <<driving, lease, faulted>>

\* It grants or renews the lease, from a cycle that may be past already, ...
Grant ==
    /\ ~unseen /\ lease' \in 0..Lease
    /\ UNCHANGED <<driving, unseen, faulted>>

\* ... withdraws it, ...
Withdraw == lease' = 0 /\ UNCHANGED <<driving, unseen, faulted>>

\* ... switches the channels off, ...
SwitchOff == driving' = FALSE /\ UNCHANGED <<lease, unseen, faulted>>

\* ... and clears the faults, never under an authority.
Clear ==
    /\ faulted /\ ~driving /\ lease = 0
    /\ faulted' = FALSE /\ UNCHANGED <<driving, lease, unseen>>

AuthorityNext ==
    \/ Drive \/ Idle \/ Lose \/ Fault
    \/ See \/ Grant \/ Withdraw \/ SwitchOff \/ Clear

AuthoritySpec == AuthorityInit /\ [][AuthorityNext]_authorityVars
=============================================================================
