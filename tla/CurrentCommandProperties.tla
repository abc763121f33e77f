---------------------- MODULE CurrentCommandProperties ----------------------
(***************************************************************************)
(* What the commanded current may never be.                                *)
(***************************************************************************)
EXTENDS CurrentCommand

\* The types of the command path.
CommandTypes ==
    /\ target \in Int /\ rampAge \in 0..(RampCycles - 1)
    /\ weakening \in (-One * WeakeningLimit)..0
    /\ filtered \in [{"d", "q"} -> Int]
    /\ command \in [d : Int, q : Int, ceiling : Nat, bus : Nat]

\* "field-weakening d current and q current share the thermally derated
\* envelope" and weakening "may use at most half of the ceiling"
\* (control/mod.rs:72-75), also in the cycle in which the ceiling drops below
\* what weakening had built up, or to zero.
InsideDeratedCircle ==
    /\ command.d * command.d + command.q * command.q <= command.ceiling * command.ceiling
    /\ 2 * Magnitude(command.d) <= command.ceiling

\* The battery current that the filtered voltage projects onto the command
\* keeps within the limit it was clamped to, but for what the rounding of the
\* d axis gives away, and for the d current's own power.
Power(axis) == filtered[axis] * command'[axis]
RoundedPower == Power("q") + One * One * DirectPower(command'.d)
WithinBattery ==
    [][command'.q # 0 /\ ~InDeadband =>
        /\ Power("q") > 0 => RoundedPower <= One * One * BusPowerBound(command'.bus)
        /\ Power("q") < 0 => RoundedPower >= -One * One * BusPowerBound(RegenLimit)]_commandVars
=============================================================================
