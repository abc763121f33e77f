----------------------------- MODULE CanTransport -----------------------------
(***************************************************************************)
(* The CAN transport of the ride image: transport/ride.rs and              *)
(* transport/can.rs with the schedule of protocol/mod.rs.                  *)
(*                                                                         *)
(* The foreground transmits what a telemetry slot holds; the receive       *)
(* interrupt answers identity requests through the same three mailboxes    *)
(* and notes the updater's reset.  It may run between any two foreground    *)
(* steps that BASEPRI does not mask.  Payloads are left                    *)
(* out: a frame is a stock frame, an answer or a project page.             *)
(***************************************************************************)
EXTENDS Integers, Sequences, SequencesExt

CONSTANTS
    SlotCount,      \* telemetry slots, 60 in the code
    PageCount,      \* project telemetry pages, 15 in the code
    SlotPeriod,     \* milliseconds between two slots
    Wrap            \* width of the millisecond clock

ASSUME TransportAssumption ==
    /\ SlotCount \in Nat /\ SlotCount >= 8 /\ PageCount \in Nat \ {0}
    /\ SlotPeriod \in Nat \ {0} /\ Wrap \in Nat /\ Wrap >= 4 * SlotPeriod

VARIABLES
    mailbox,        \* what was written to each transmit mailbox
    txrq,           \* the mailboxes with TXRQ set, in the order it was set (TXFP)
    masked,         \* BASEPRI holds back the receive interrupt
    now,            \* the millisecond clock
    next,           \* next_telemetry_ms
    slot, page,     \* telemetry_slot, project_telemetry_page
    pc, queue, used, chosen,    \* locals of service() and transmit()
    reset, decided, \* RESET_REQUESTED, and what take_reset_request() returned
    since, owed, asked, last    \* what the properties remember

hardware == <<mailbox, txrq>>
schedule == <<next, slot, page>>
locals == <<pc, queue, used, chosen>>
canVars == <<hardware, masked, now, schedule, locals, reset, decided, since, owed, asked, last>>

Mailboxes == 0..2
NoMailbox == 3
CanFrame(kind) == <<kind, 0>>
Project(p) == <<"Project", p>>

CanInit ==
    /\ mailbox = [m \in Mailboxes |-> CanFrame("Empty")] /\ txrq = <<>>
    /\ masked = FALSE /\ now = 0 /\ next = 0
    /\ slot = 0 /\ page = 0
    /\ pc = "Pass" /\ queue = <<>> /\ used = 0 /\ chosen = NoMailbox
    /\ reset = FALSE /\ decided = FALSE
    /\ since = SlotPeriod /\ owed = <<>> /\ asked = FALSE /\ last = PageCount - 1

-----------------------------------------------------------------------------
(* bxCAN and the bus.                                                      *)

\* The oldest request leaves first.
Send ==
    /\ txrq # <<>> /\ txrq' = Tail(txrq)
    /\ owed' = Tail(owed) /\ mailbox' = [mailbox EXCEPT ![Head(txrq)] = CanFrame("Empty")]
    /\ UNCHANGED <<masked, now, schedule, locals, reset, decided>>
    /\ UNCHANGED <<since, asked, last>>

\* first_empty_mailbox(); TXRQ takes a mailbox from the empty ones.
Empty == Mailboxes \ ToSet(txrq)
FirstEmpty == CHOOSE m \in Empty : \A n \in Empty : m <= n

-----------------------------------------------------------------------------
(* The receive interrupt, once for every frame that it drains from FIFO 0. *)
(* A frame that the FIFO loses to an overrun does not arrive.              *)

ReceiveInterrupt ==
    /\ ~masked
    /\ \/ /\ IF Empty = {} THEN UNCHANGED <<mailbox, txrq, owed>>
             ELSE /\ mailbox' = [mailbox EXCEPT ![FirstEmpty] = CanFrame("Answer")]
                  /\ txrq' = Append(txrq, FirstEmpty) /\ owed' = Append(owed, CanFrame("Answer"))
          /\ UNCHANGED <<reset, asked>>
       \/ reset' = TRUE /\ asked' = TRUE /\ UNCHANGED <<mailbox, txrq, owed>>
    /\ UNCHANGED <<masked, now, schedule, locals, decided, since, last>>

-----------------------------------------------------------------------------
(* RideCan::service() and transmit().                                      *)

At(from, to) == pc = from /\ pc' = to

\* telemetry_slot().
StockFrames(s) ==
    LET count == IF s \in {1, 2, 22, 42} THEN 3 ELSE IF s \in {3, 7} \/ s % 2 = 0 THEN 2 ELSE 1
    IN  [i \in 1..count |-> CanFrame("Stock")]

\* The clock moves on between two passes, by less than half its range.
Tick ==
    /\ At("Pass", "Pass") /\ \E d \in 1..SlotPeriod : now' = (now + d) % Wrap /\ since' = since + d
    /\ since < SlotPeriod
    /\ UNCHANGED <<hardware, masked, schedule, queue, used, chosen>>
    /\ UNCHANGED <<reset, decided, owed, asked, last>>

Due == next = now \/ (next - now) % Wrap >= Wrap \div 2

\* The check for a slot that is due.
Idle ==
    /\ At("Pass", "Updater") /\ ~Due
    /\ UNCHANGED <<hardware, masked, now, schedule, queue, used, chosen>>
    /\ UNCHANGED <<reset, decided, since, owed, asked, last>>

Begin ==
    /\ At("Pass", "Select") /\ Due
    /\ next' = (now + SlotPeriod) % Wrap /\ slot' = (slot + 1) % SlotCount
    /\ queue' = StockFrames(slot) /\ used' = 0 /\ since' = 0
    /\ UNCHANGED <<hardware, masked, now, page, chosen>>
    /\ UNCHANGED <<reset, decided, owed, asked, last>>

\* What remains of the slot: the stock frames, then one project page when a
\* mailbox is left over.
Stock == queue # <<>> /\ Head(queue)[1] # "Project"
SlotEnds == queue = <<>>

LeftUnmasked == FALSE               \* mutated: BASEPRI is not raised
Raised == TRUE

\* transmit() chooses a mailbox with the receive interrupt masked.
Select ==
    /\ ~SlotEnds /\ At("Select", "Fill")
    /\ masked' = Raised /\ chosen' = IF Empty = {} THEN NoMailbox ELSE FirstEmpty
    /\ UNCHANGED <<hardware, now, schedule, queue, used>>
    /\ UNCHANGED <<reset, decided, since, owed, asked, last>>

\* After the stock frames: the project page, if fewer than three went out.
Rest(sent) ==
    IF Len(queue) > 1 THEN Tail(queue)
    ELSE IF Stock /\ sent < 3 THEN <<Project(page)>> ELSE <<>>

AdvanceAlways(sent) == (page + 1) % PageCount   \* mutated: a refused page is skipped
NextPage(sent) == IF sent THEN (page + 1) % PageCount ELSE page

\* The fields are written, then TXRQ is set and BASEPRI restored.
Fill ==
    /\ At("Fill", "Select")
    /\ masked' = FALSE /\ chosen' = NoMailbox
    /\ IF chosen = NoMailbox THEN UNCHANGED <<mailbox, txrq, owed>> /\ used' = used
       ELSE /\ mailbox' = [mailbox EXCEPT ![chosen] = Head(queue)]
            /\ txrq' = IF chosen \in Empty THEN Append(txrq, chosen) ELSE txrq
            /\ owed' = Append(owed, Head(queue)) /\ used' = used + 1
    /\ queue' = Rest(used')
    /\ IF Stock THEN UNCHANGED <<page, last>>
       ELSE /\ page' = NextPage(chosen # NoMailbox)
            /\ last' = IF chosen = NoMailbox THEN last ELSE page
    /\ UNCHANGED <<now, next, slot, reset, decided, since, asked>>

Finish ==
    /\ SlotEnds /\ At("Select", "Updater") /\ used' = 0
    /\ UNCHANGED <<hardware, masked, now, schedule, queue, chosen>>
    /\ UNCHANGED <<reset, decided, since, owed, asked, last>>

-----------------------------------------------------------------------------
(* service_updater_reset() of app.rs.                                      *)

\* take_reset_request(): one swap.
TakeReset ==
    /\ At("Updater", "Decide") /\ decided' = reset /\ reset' = FALSE
    /\ UNCHANGED <<hardware, masked, now, schedule, queue, used, chosen>>
    /\ UNCHANGED <<since, owed, asked, last>>

\* The wheel and the motor decide whether it is safe; a request that is not
\* is dropped, one that is restarts the image.
DecideReset ==
    /\ pc = "Decide"
    /\ asked' = (asked /\ ~decided)
    /\ decided' = FALSE
    /\ \/ /\ pc' = "Pass"
          /\ UNCHANGED <<hardware, masked, now, schedule, queue, used, chosen>>
          /\ UNCHANGED <<reset, since, owed, last>>
       \/ decided /\ mailbox' = [m \in Mailboxes |-> CanFrame("Empty")] /\ txrq' = <<>>
          /\ masked' = FALSE /\ now' = 0 /\ next' = 0
          /\ slot' = 0 /\ page' = 0 /\ pc' = "Pass" /\ queue' = <<>> /\ used' = 0
          /\ chosen' = NoMailbox /\ reset' = FALSE /\ since' = SlotPeriod /\ owed' = <<>>
          /\ last' = PageCount - 1

Foreground == Tick \/ Idle \/ Begin \/ Select \/ Fill \/ Finish \/ TakeReset \/ DecideReset

CanNext == Send \/ ReceiveInterrupt \/ Foreground

CanSpec == CanInit /\ [][CanNext]_canVars
=============================================================================
