---------------------------- MODULE FlashTransfer ----------------------------
(***************************************************************************)
(* scripts/can_bootloader_flash.py against the resident bootloader: enter, *)
(* erase the staging region, download the image segment by segment, verify *)
(* the pending marker, install.  The bootloader is not part of the         *)
(* repository; it is the device the script's frames, abort codes and       *)
(* comments describe.  The bus keeps the order of the frames; frames may   *)
(* be lost either way, answers may come after the time-out and the         *)
(* operator may interrupt, all at most Faults times in all.                *)
(***************************************************************************)
EXTENDS Naturals, Sequences

CONSTANTS
    Segments,   \* of the image
    Attempts,   \* at reading the marker
    Runs,       \* times the operator starts the script
    Faults,     \* losses, late answers and interruptions
    Backlog     \* unanswered handshakes the host gets to send

ASSUME FlashAssumption ==
    /\ {Segments, Attempts, Runs, Backlog} \subseteq Nat \ {0}
    /\ Faults \in Nat

VARIABLES
    step,       \* the step the script is in
    number,     \* the segment or the attempt it is at
    active,     \* transfer_active
    requests,   \* frames on their way to the device
    replies,    \* frames on their way to the host
    mode,       \* what runs on the device
    session,    \* segments of the open download so far, or NoSession
    staged,     \* what the staging region holds since its erasure
    marker,     \* the pending-image marker
    installed,  \* the images installed, in order
    runs, faults

host == <<step, number, active, runs>>
device == <<mode, session, staged, marker, installed>>
flashVars == <<host, requests, replies, device, faults>>

NoSession == Segments + 1
Image == [k \in 1..Segments |-> k]
Final(k) == k = Segments
Toggle(k) == k % 2

Frame(kind) == [kind |-> kind, n |-> 0]
Segment(k) == [kind |-> "Segment", n |-> k]
\* Acknowledgements of segments differ in the toggle and in the last one's
\* bits only, and the marker's answer in the marker.
SegmentAck(k) == [kind |-> "SegmentAck", n |-> IF Final(k) THEN 2 + Toggle(k) ELSE Toggle(k)]
Marker(set) == [kind |-> "Marker", n |-> IF set THEN 1 ELSE 0]
Abort == Frame("Abort")

FlashInit ==
    /\ step = "Enter" /\ number = 0 /\ active = FALSE
    /\ requests = <<Frame("Cancel")>> /\ replies = <<>>
    /\ mode \in {"Application", "Bootloader"}
    /\ session = NoSession /\ staged = <<>> /\ marker = FALSE /\ installed = <<>>
    /\ runs = 1 /\ faults = 0

-----------------------------------------------------------------------------
(* The device. *)
Answer(reply) == replies' = Append(replies, reply)
Silent == UNCHANGED replies

\* The application hands over to the bootloader without an answer.
InApplication(frame) ==
    /\ mode' = IF frame.kind = "Handshake" THEN "Bootloader" ELSE mode
    /\ Silent /\ UNCHANGED <<session, staged, marker, installed>>

\* In an open download everything but the handshake and the cancellation is
\* read as a segment.
InSession(frame) ==
    \/ frame.kind = "Handshake" /\ Answer(frame) /\ UNCHANGED device
    \/ /\ frame.kind = "Cancel" /\ session' = NoSession
       /\ Silent /\ UNCHANGED <<mode, staged, marker, installed>>
    \/ LET next == session + 1
           fits == frame.kind = "Segment" /\ Toggle(frame.n) = Toggle(next)
                   /\ Len(staged) = session
       IN /\ frame.kind \notin {"Handshake", "Cancel"}
          /\ session' = IF fits /\ ~Final(frame.n) THEN next ELSE NoSession
          /\ staged' = IF fits THEN Append(staged, frame.n) ELSE staged
          /\ marker' = (marker \/ (fits /\ Final(frame.n)))
          /\ Answer(IF fits THEN SegmentAck(frame.n) ELSE Abort)
          /\ UNCHANGED <<mode, installed>>

OutOfSession(frame) ==
    \/ frame.kind = "Cancel" /\ Silent /\ UNCHANGED device
    \/ frame.kind = "Handshake" /\ Answer(frame) /\ UNCHANGED device
    \/ /\ frame.kind = "Erase" /\ Answer(Frame("EraseAck"))
       /\ staged' = <<>> /\ marker' = FALSE /\ UNCHANGED <<mode, session, installed>>
    \/ /\ frame.kind = "Begin" /\ Answer(Frame("BeginAck"))
       /\ session' = 0 /\ UNCHANGED <<mode, staged, marker, installed>>
    \/ frame.kind = "Segment" /\ Answer(Abort) /\ UNCHANGED device
    \/ frame.kind = "ReadMarker" /\ Answer(Marker(marker)) /\ UNCHANGED device
    \/ /\ frame.kind = "Install" /\ Silent
       /\ mode' = "Application" /\ marker' = FALSE
       /\ installed' = IF marker THEN Append(installed, staged) ELSE installed
       /\ UNCHANGED <<session, staged>>

Device ==
    /\ requests # <<>>
    /\ requests' = Tail(requests)
    /\ \/ mode = "Application" /\ InApplication(Head(requests))
       \/ mode = "Bootloader" /\ session # NoSession /\ InSession(Head(requests))
       \/ mode = "Bootloader" /\ session = NoSession /\ OutOfSession(Head(requests))
    /\ UNCHANGED <<host, faults>>

Fault == faults < Faults /\ faults' = faults + 1
LoseRequest ==
    /\ Fault /\ requests # <<>> /\ requests' = Tail(requests)
    /\ UNCHANGED <<host, replies, device>>
LoseReply ==
    /\ Fault /\ replies # <<>> /\ replies' = Tail(replies)
    /\ UNCHANGED <<host, requests, device>>

-----------------------------------------------------------------------------
(* The script. *)
Send(frames) == requests' = requests \o frames
Goto(to, n) == step' = to /\ number' = n

ResumeAtSegment == IF number = 0 THEN 1 ELSE number   \* mutated: a rerun goes on where it stopped
FirstSegment == 1
KeepsSession == <<>>            \* mutated: entering does not cancel
EnterCancels == <<Frame("Cancel")>>

\* enter_bootloader() repeats the handshake until it is answered.
SendHandshake ==
    /\ step = "Enter" /\ replies = <<>> /\ Len(requests) < Backlog
    /\ Send(<<Frame("Handshake")>>)
    /\ UNCHANGED <<host, replies, device, faults>>

Awaited ==
    CASE step = "Enter" -> {Frame("Handshake")}
      [] step = "Erase" -> {Frame("EraseAck")}
      [] step = "Begin" -> {Frame("BeginAck")}
      [] step = "Download" -> {SegmentAck(number)}
      [] step = "Verify" -> {Marker(TRUE), Marker(FALSE)}
      [] OTHER -> {}
Waiting == step \in {"Enter", "Erase", "Begin", "Download", "Verify"}

CancelTransfer == <<Frame("Cancel"), Frame("Cancel"), Frame("Cancel")>>
\* The end of run(): an ambiguous segment or the operator always cancels,
\* any other error only an active transfer.
Fail(ambiguous) ==
    /\ Goto("Failed", number) /\ active' = FALSE
    /\ Send(IF ambiguous \/ active THEN CancelTransfer ELSE <<>>)
    /\ UNCHANGED runs

\* wait_for(): an abort fails the step, what is not awaited is passed over;
\* entering passes over aborts too.
Ignore ==
    /\ Waiting /\ replies # <<>> /\ Head(replies) \notin Awaited
    /\ Head(replies) = Abort => step = "Enter"
    /\ replies' = Tail(replies)
    /\ UNCHANGED <<host, requests, device, faults>>
AbortReceived ==
    /\ Waiting /\ step # "Enter" /\ replies # <<>> /\ Head(replies) = Abort
    /\ replies' = Tail(replies) /\ Fail(FALSE)
    /\ UNCHANGED <<device, faults>>
WrongMarker ==
    /\ step = "Verify" /\ replies # <<>> /\ Head(replies) = Marker(FALSE)
    /\ replies' = Tail(replies) /\ Fail(FALSE)
    /\ UNCHANGED <<device, faults>>

Receive(from) ==
    /\ step = from /\ replies # <<>> /\ Head(replies) \in Awaited
    /\ replies' = Tail(replies)
    /\ UNCHANGED <<runs, device, faults>>
Entered ==
    /\ Receive("Enter") /\ Goto("Erase", number)
    /\ Send(<<Frame("Erase")>>) /\ UNCHANGED active
Erased ==
    /\ Receive("Erase") /\ Goto("Begin", number)
    /\ Send(<<Frame("Begin")>>) /\ UNCHANGED active
Begun ==
    /\ Receive("Begin") /\ active' = TRUE
    /\ Goto("Download", FirstSegment) /\ Send(<<Segment(FirstSegment)>>)
NextSegment ==
    /\ Receive("Download") /\ ~Final(number)
    /\ Goto("Download", number + 1) /\ Send(<<Segment(number + 1)>>)
    /\ UNCHANGED active
Downloaded ==
    /\ Receive("Download") /\ Final(number) /\ active' = FALSE
    /\ Goto("Verify", 1) /\ Send(<<Frame("ReadMarker")>>)
\* install_and_reset(), once; wait_for_application() only watches.
Verified ==
    /\ Receive("Verify") /\ Head(replies) = Marker(TRUE)
    /\ Goto("Install", number) /\ Send(<<Frame("Install")>>) /\ UNCHANGED active
Answers ==
    /\ step = "Install" /\ requests = <<>> /\ mode = "Application"
    /\ Goto("Done", number) /\ replies' = <<>>
    /\ UNCHANGED <<active, runs, requests, device, faults>>

\* A step's time-out; without a fault, only when nothing is left to arrive.
Lost == requests = <<>> /\ step # "Enter" /\ (step = "Install" => mode = "Bootloader")
Quiet == replies = <<>> /\ (Fault \/ (Lost /\ UNCHANGED faults))
Ambiguous ==
    /\ step = "Download" /\ Quiet /\ Fail(TRUE) /\ UNCHANGED <<replies, device>>
Retry ==
    /\ step = "Verify" /\ number < Attempts /\ Quiet
    /\ Goto("Verify", number + 1) /\ Send(<<Frame("ReadMarker")>>)
    /\ UNCHANGED <<active, runs, replies, device>>
Unanswered ==
    /\ \/ step \in {"Enter", "Erase", "Begin", "Install"}
       \/ step = "Verify" /\ number = Attempts
    /\ Quiet /\ Fail(FALSE) /\ UNCHANGED <<replies, device>>
Interrupt ==
    /\ step \notin {"Done", "Failed"} /\ Fault /\ Fail(TRUE)
    /\ UNCHANGED <<replies, device>>

\* The operator reruns the complete command: settle() and enter_bootloader().
Rerun ==
    /\ step = "Failed" /\ runs < Runs /\ runs' = runs + 1
    /\ replies' = <<>> /\ Send(EnterCancels)
    /\ Goto("Enter", number) /\ UNCHANGED <<active, device, faults>>

Script ==
    \/ SendHandshake \/ Ignore \/ AbortReceived \/ WrongMarker
    \/ Entered \/ Erased \/ Begun \/ NextSegment \/ Downloaded \/ Verified
    \/ Answers \/ Ambiguous \/ Retry \/ Unanswered
FlashNext == Device \/ LoseRequest \/ LoseReply \/ Script \/ Interrupt \/ Rerun

\* An operator follows the printed request to rerun.
FlashSpec ==
    /\ FlashInit /\ [][FlashNext]_flashVars
    /\ WF_flashVars(Device) /\ WF_flashVars(Script) /\ WF_flashVars(Rerun)
=============================================================================
