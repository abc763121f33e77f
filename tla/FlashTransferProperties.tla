----------------------- MODULE FlashTransferProperties -----------------------
(***************************************************************************)
(* What an update over the bootloader must never install, and must do.     *)
(***************************************************************************)
EXTENDS FlashTransfer

\* The types of the transfer's state.
FlashTypes ==
    /\ number \in 0..(Segments + Attempts) /\ active \in BOOLEAN
    /\ mode \in {"Application", "Bootloader"} /\ session \in 0..NoSession
    /\ staged \in Seq(1..Segments) /\ marker \in BOOLEAN
    /\ runs \in 1..Runs /\ faults \in 0..Faults

\* Whatever is installed is the whole image in order, over lost and late
\* frames, interruptions and reruns ("rerun the command to erase staging and
\* restart the whole transfer", can_bootloader_flash.py:12-13).
InstallIsWhole == \A i \in DOMAIN installed : installed[i] = Image

\* "This makes rerunning after an interrupted transfer self-recovering"
\* (can_bootloader_flash.py:300-301): wherever the earlier runs ended, the
\* next run ends with the application answering when nothing disturbs it and
\* the device has worked off what it had still to read.
RerunRecovers ==
    (step = "Failed" /\ requests = <<>> /\ faults = Faults /\ runs = Runs - 1)
        ~> (step = "Done")
=============================================================================
