------------------------ MODULE CanTransportProperties ------------------------
(* What the CAN transport of CanTransport must keep. *)
EXTENDS CanTransport

\* Types and ranges of the transport's state.
CanTypes ==
    /\ txrq \in SeqOf(Mailboxes, 3)
    /\ masked \in BOOLEAN
    /\ now \in 0..(Wrap - 1) /\ next \in 0..(Wrap - 1)
    /\ slot \in 0..(SlotCount - 1) /\ page \in 0..(PageCount - 1)
    /\ Len(queue) <= 3 /\ used \in 0..3 /\ chosen \in Mailboxes \cup {NoMailbox}

\* Hazard: the receive interrupt answers through the mailboxes that the
\* foreground is filling (the comment in transmit(): "neither caller's frame
\* is dropped by contention").  Every frame that a transmit() accepted is
\* waiting, once and unaltered, in a mailbox of its own until it is sent.
AcceptedIsKept == owed = [i \in DOMAIN txrq |-> mailbox[txrq[i]]]

\* Hazard: a project page that finds no mailbox is tried again with the next
\* slot, so that no page is skipped however the mailboxes fill up; and a slot
\* is due when its period is over and not before, also where the clock wraps.
PagesInOrder ==
    /\ page = (last + 1) % PageCount
    /\ pc = "Pass" => (Due <=> since >= SlotPeriod)

\* Hazard: the reset request is set by the receive interrupt while a pass
\* takes it.  A request that was received is pending or being decided on.
RequestIsDecided == asked => reset \/ decided

\* Neither direction loses what it has taken over.
NothingIsLost == AcceptedIsKept /\ RequestIsDecided
=============================================================================
