--------------------------- MODULE ControlLiveness ---------------------------
(***************************************************************************)
(* What the control interrupt and the foreground eventually do.            *)
(***************************************************************************)
EXTENDS ControlProperties

\* The timer keeps the control interrupt running and the break interrupt is
\* taken once pending; the foreground may stop anywhere, and no watchdog is
\* relied on (cycles beyond MaxStall without a pass are not looked at).
InterruptFairSpec == HSpec /\ WF_vars(ControlCycle) /\ WF_vars(BreakInterrupt)

-----------------------------------------------------------------------------
\* Output that a pass has just left on does not outlive the foreground: if no
\* further pass starts, the expiring lease turns the channels off, without the
\* help of the watchdog's reset.
OutputNeedsRenewal ==
    (channels /\ pc = "Idle" /\ stall = 0)
        ~> ((~channels /\ pc # "Reset") \/ pc \notin {"Idle", "Reset"})

\* As long as the foreground loop keeps running, a grant that a loss made stale
\* does not stay enabled: some later pass withdraws it, so that the next grant
\* starts from a cleared flag.
StaleGrantWithdrawn ==
    WF_vars(Pass) => ((enabled /\ ~epochCurrent) ~> (~enabled \/ pc = "Reset"))
=============================================================================
