----------------------------- MODULE MCRecovery -----------------------------
(***************************************************************************)
(* Small instances of the two components that must find back by themselves: *)
(* the choice of the commutation angle, which must start again whenever    *)
(* the Hall state is readable, and the update, whose rerun must succeed    *)
(* wherever the last one ended.  They share no state; a behaviour runs the *)
(* one that part names and leaves the other in an initial state, so that   *)
(* one run checks both.                                                    *)
(***************************************************************************)
EXTENDS PhaseEstimationProperties, FlashTransferProperties

VARIABLE part
partVars == <<part, vars, flashVars>>

MCWidth == [s \in Sector |-> 2]

ASSUME InstanceIsLegal == PhaseAssumption

MCInit ==
    /\ part \in {"Phase", "Flash"}
    /\ Init /\ (part # "Phase" => rotor = 0)
    /\ FlashInit /\ (part # "Flash" => mode = "Application")

PhaseMoves == part = "Phase" /\ UNCHANGED <<part, flashVars>>
FlashMoves == part = "Flash" /\ UNCHANGED <<part, vars>>
MCNext == (PhaseMoves /\ Next) \/ (FlashMoves /\ FlashNext)

\* The fairness of PhaseEstimation's Spec and of FlashSpec.
MCSpec ==
    /\ MCInit /\ [][MCNext]_partVars
    /\ WF_partVars(PhaseMoves /\ Cycle)
    /\ WF_partVars(FlashMoves /\ Device)
    /\ WF_partVars(FlashMoves /\ Script)
    /\ WF_partVars(FlashMoves /\ Rerun)
=============================================================================
