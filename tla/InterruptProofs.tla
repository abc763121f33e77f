---------------------------- MODULE InterruptProofs ----------------------------
(***************************************************************************)
(* The two capture interrupts, wherever an overflow of their timers, an    *)
(* edge or a reader falls between their loads and stores.                  *)
(*                                                                         *)
(* Hall: a published interval is the time between its edges, and a run     *)
(* from standstill commutates from the rotor's sector or has an edge still *)
(* on its way.  Wheel: the foreground never uses a torn copy of the words  *)
(* and counts the whole way, however the counts wrap; what the interrupt   *)
(* publishes is the time between two edges, and a wheel that it reports    *)
(* quiet has stood still.                                                  *)
(***************************************************************************)
EXTENDS HallCaptureProperties, WheelSpeedProperties, WheelCaptureProperties, TLAPS

-----------------------------------------------------------------------------
(* The Hall edges of TIM2.                                                 *)

HallReading == {"CountOverflow", "ReadCapture1", "ReadCapture2", "ClearFlags"}
HallPublishing == {"TakeOverflows", "StoreRaw", "StoreInterval", "Publish"}

HallState ==
    /\ count \in Nat /\ count < OverflowTicks /\ elapsed \in Nat
    /\ overflows \in Nat /\ ticks \in Nat /\ ccr1 \in Nat /\ ccr2 \in Nat
    /\ flags \subseteq Flag /\ status \subseteq Flag
    /\ isr \in {"Idle"} \cup HallReading \cup HallPublishing
    /\ control \in {"Idle", "RestartCount", "RestartFlags", "CheckAgain"}
    /\ newEdges \in 0..2
    /\ sector \in Sector /\ running \in BOOLEAN /\ valid \in BOOLEAN
    /\ spaced \in BOOLEAN /\ raced \in BOOLEAN

-----------------------------------------------------------------------------
(* Where the two interrupts are.                                           *)

\* A restart holds the TIM2 interrupt back, and was raced if it has not
\* found it idle.
RestartsAlone ==
    /\ control # "Idle" => ~running /\ newEdges = 0
    /\ control \in {"RestartFlags", "CheckAgain"} /\ ~raced => isr = "Idle"
    /\ control = "RestartFlags" => count = 0 /\ elapsed = 0 /\ overflows = 0
    /\ spaced => ~raced

\* The status is of the service that is under way, and no time passes in it.
ServesStatus ==
    /\ isr = "Idle" => status = {}
    /\ isr \in HallPublishing => Captured(status)
    /\ isr # "Idle" /\ "Update" \in flags => "Update" \in status
    /\ isr \in HallPublishing => "Update" \notin flags
    /\ isr \in HallPublishing \ {"TakeOverflows"} => overflows = 0
    /\ ~Captured(status) => ticks = 0
    /\ isr \in {"CountOverflow", "ReadCapture1", "Publish"} => ticks = 0

\* The flags that it has read and not come to yet are still set.
FindsFlags ==
    /\ ~raced /\ isr = "CountOverflow" => status \subseteq flags
    /\ ~raced /\ isr = "ReadCapture1" => status \cap CaptureFlags \subseteq flags
    /\ ~raced /\ isr = "ReadCapture2" /\ "Cap2" \in status => "Cap2" \in flags

-----------------------------------------------------------------------------
(* Where the time since the latest edge is.                                *)

UncountedTurn == "Update" \in flags /\ isr \in {"Idle", "CountOverflow"}
Turns == (IF UncountedTurn THEN overflows + 1 ELSE overflows) * OverflowTicks
Unread(cap, captured) == IF cap \in flags THEN captured ELSE 0

\* The counter holds it, together with the overflows counted and pending.
CounterIsExact ==
    /\ Unpublished => count = 0 /\ elapsed = 0
    /\ ~raced /\ ~Unpublished /\ control # "RestartFlags" => elapsed = Turns + count

\* Once captured it moves from the capture registers through the captured
\* ticks into the interval, and no later edge is mixed with it.
CaptureIsExact ==
    /\ spaced /\ Unpublished /\ control # "RestartFlags"
            /\ isr \in {"Idle", "TakeOverflows"} \cup HallReading =>
        spacing = Turns + ticks + Unread("Cap1", ccr1) + Unread("Cap2", ccr2)
    /\ spaced /\ Captured(status) =>
        /\ flags \cap CaptureFlags \subseteq status
        /\ isr \in {"ReadCapture2", "ClearFlags"} \cup HallPublishing => "Cap1" \notin flags
        /\ isr \in {"ClearFlags"} \cup HallPublishing => "Cap2" \notin flags
    /\ spaced /\ isr \in {"StoreRaw", "StoreInterval"} => ticks = spacing
    /\ spaced /\ isr = "Publish" => interval = spacing

-----------------------------------------------------------------------------
(* Which sector the control loop knows.                                    *)

OnItsWay ==
    \/ Captured(flags)
    \/ Captured(status) /\ isr \in HallReading \cup {"TakeOverflows", "StoreRaw"}
KnowsSector ==
    /\ newEdges = 0 /\ isr \notin {"StoreInterval", "Publish"} => accepted = raw
    /\ running /\ ~raced => OnItsWay \/ raw = sector

HallInv ==
    /\ HallState /\ RestartsAlone /\ ServesStatus /\ FindsFlags
    /\ CounterIsExact /\ CaptureIsExact /\ KnowsSector
-----------------------------------------------------------------------------
(* Every step keeps each part.                                             *)

\* An edge takes the rotor to another sector.
LEMMA NeighbourDiffers ==
  ASSUME sector \in Sector, NEW s \in Neighbours(sector)
  PROVE  s \in Sector /\ s # sector
  BY CaptureAssumption DEF Sector, Neighbours

\* The state keeps its types.
LEMMA StepKeepsHallState ==
  ASSUME HallState, [HNext]_allVars PROVE HallState'
<1> USE CaptureAssumption DEF HallState, Flag, HallReading, HallPublishing, CaptureFlags,
      Serve, Unserved, Controls, Uncontrolled, hallTimer, isrVars, edgeVars, controlVars,
      Record, Restarts, historyVars
<1>0. (spaced \in BOOLEAN /\ raced \in BOOLEAN)'  BY DEF HNext, allVars
<1>1. CASE Tick /\ Record
  <2>1. (flags \subseteq Flag)'  BY <1>1 DEF Tick
  <2> QED  BY <1>1, <2>1, <1>0 DEF Tick
<1>2. CASE Edge /\ Record
  <2>1. (flags \subseteq Flag)'  BY <1>2 DEF Edge, Capture
  <2> QED  BY <1>2, <2>1, <1>0, NeighbourDiffers DEF Edge, Capture
<1>3. CASE ReadStatus /\ Record  BY <1>3, <1>0 DEF ReadStatus
<1>4. CASE CountOverflow /\ Record  BY <1>4, <1>0 DEF CountOverflow, Counted
<1>5. CASE ReadCapture1 /\ Record
  <2>1. (flags \subseteq Flag)'  BY <1>5 DEF ReadCapture1, ReadCapture
  <2> QED  BY <1>5, <2>1, <1>0 DEF ReadCapture1, ReadCapture
<1>6. CASE ReadCapture2 /\ Record
  <2>1. (flags \subseteq Flag)'  BY <1>6 DEF ReadCapture2, ReadCapture
  <2> QED  BY <1>6, <2>1, <1>0 DEF ReadCapture2, ReadCapture
<1>7. CASE ClearFlags /\ Record  BY <1>7, <1>0 DEF ClearFlags, ClearSeenFlags
<1>8. CASE TakeOverflows /\ Record  BY <1>8, <1>0 DEF TakeOverflows, OverflowsTaken
<1>9. CASE StoreRaw /\ Record  BY <1>9, <1>0 DEF StoreRaw
<1>10. CASE StoreInterval /\ Record  BY <1>10, <1>0 DEF StoreInterval
<1>11. CASE PublishEdge /\ Record  BY <1>11, <1>0 DEF PublishEdge
<1>12. CASE AcceptEdge /\ Record  BY <1>12, <1>0 DEF AcceptEdge
<1>13. CASE RejectEdge /\ Record  BY <1>13, <1>0 DEF RejectEdge
<1>14. CASE StartFromStandstill /\ Record  BY <1>14, <1>0 DEF StartFromStandstill
<1>15. CASE RestartCount /\ Record  BY <1>15, <1>0 DEF RestartCount
<1>16. CASE RestartFlags /\ Record  BY <1>16, <1>0 DEF RestartFlags
<1>17. CASE CheckAgain /\ Record  BY <1>17, <1>0 DEF CheckAgain, LiveUnchanged
<1>18. CASE StopRunning /\ Record  BY <1>18, <1>0 DEF StopRunning
<1>19. CASE UNCHANGED allVars  BY <1>19, <1>0 DEF allVars, hallVars
<1> QED
  BY <1>1, <1>2, <1>3, <1>4, <1>5, <1>6, <1>7, <1>8, <1>9, <1>10, <1>11, <1>12,
     <1>13, <1>14, <1>15, <1>16, <1>17, <1>18, <1>19 DEF HNext, HallNext, Tim2, Control

\* A restart and the TIM2 interrupt are kept apart.
LEMMA StepKeepsRestartsAlone ==
  ASSUME HallState, RestartsAlone, ServesStatus, [HNext]_allVars PROVE RestartsAlone'
<1> USE CaptureAssumption DEF HallState, RestartsAlone,
      Serve, Unserved, Controls, Uncontrolled, hallTimer, isrVars, edgeVars, controlVars,
      Record, Restarts, historyVars
<1>1. CASE Tick /\ Record  BY <1>1 DEF Tick
<1>2. CASE Edge /\ Record  BY <1>2 DEF Edge, Capture
<1>3. CASE ReadStatus /\ Record  BY <1>3 DEF ReadStatus
<1>4. CASE CountOverflow /\ Record  BY <1>4 DEF CountOverflow, Counted
<1>5. CASE ReadCapture1 /\ Record  BY <1>5 DEF ReadCapture1, ReadCapture
<1>6. CASE ReadCapture2 /\ Record  BY <1>6 DEF ReadCapture2, ReadCapture
<1>7. CASE ClearFlags /\ Record  BY <1>7 DEF ClearFlags, ClearSeenFlags
<1>8. CASE TakeOverflows /\ Record  BY <1>8 DEF TakeOverflows, OverflowsTaken
<1>9. CASE StoreRaw /\ Record  BY <1>9 DEF StoreRaw
<1>10. CASE StoreInterval /\ Record  BY <1>10 DEF StoreInterval
<1>11. CASE PublishEdge /\ Record  BY <1>11 DEF PublishEdge
<1>12. CASE AcceptEdge /\ Record  BY <1>12 DEF AcceptEdge
<1>13. CASE RejectEdge /\ Record  BY <1>13 DEF RejectEdge
<1>14. CASE StartFromStandstill /\ Record  BY <1>14 DEF StartFromStandstill
<1>15. CASE RestartCount /\ Record  BY <1>15 DEF RestartCount
<1>16. CASE RestartFlags /\ Record  BY <1>16 DEF RestartFlags
<1>17. CASE CheckAgain /\ Record  BY <1>17 DEF CheckAgain, LiveUnchanged
<1>18. CASE StopRunning /\ Record  BY <1>18 DEF StopRunning
<1>19. CASE UNCHANGED allVars  BY <1>19 DEF allVars, hallVars
<1> QED
  BY <1>1, <1>2, <1>3, <1>4, <1>5, <1>6, <1>7, <1>8, <1>9, <1>10, <1>11, <1>12,
     <1>13, <1>14, <1>15, <1>16, <1>17, <1>18, <1>19 DEF HNext, HallNext, Tim2, Control

\* The status, the overflows and the ticks are those of the service under way.
LEMMA StepKeepsServesStatus ==
  ASSUME HallState, RestartsAlone, ServesStatus, [HNext]_allVars PROVE ServesStatus'
<1> USE CaptureAssumption DEF HallState, RestartsAlone, ServesStatus, HallReading, HallPublishing, Captured, CaptureFlags,
      Serve, Unserved, Controls, Uncontrolled, hallTimer, isrVars, edgeVars, controlVars,
      Record, Restarts, historyVars
<1>1. CASE Tick /\ Record  BY <1>1 DEF Tick
<1>2. CASE Edge /\ Record  BY <1>2 DEF Edge, Capture
<1>3. CASE ReadStatus /\ Record  BY <1>3 DEF ReadStatus
<1>4. CASE CountOverflow /\ Record  BY <1>4 DEF CountOverflow, Counted
<1>5. CASE ReadCapture1 /\ Record  BY <1>5 DEF ReadCapture1, ReadCapture
<1>6. CASE ReadCapture2 /\ Record  BY <1>6 DEF ReadCapture2, ReadCapture
<1>7. CASE ClearFlags /\ Record  BY <1>7 DEF ClearFlags, ClearSeenFlags
<1>8. CASE TakeOverflows /\ Record  BY <1>8 DEF TakeOverflows, OverflowsTaken
<1>9. CASE StoreRaw /\ Record  BY <1>9 DEF StoreRaw
<1>10. CASE StoreInterval /\ Record  BY <1>10 DEF StoreInterval
<1>11. CASE PublishEdge /\ Record  BY <1>11 DEF PublishEdge
<1>12. CASE AcceptEdge /\ Record  BY <1>12 DEF AcceptEdge
<1>13. CASE RejectEdge /\ Record  BY <1>13 DEF RejectEdge
<1>14. CASE StartFromStandstill /\ Record  BY <1>14 DEF StartFromStandstill
<1>15. CASE RestartCount /\ Record  BY <1>15 DEF RestartCount
<1>16. CASE RestartFlags /\ Record  BY <1>16 DEF RestartFlags
<1>17. CASE CheckAgain /\ Record  BY <1>17 DEF CheckAgain, LiveUnchanged
<1>18. CASE StopRunning /\ Record  BY <1>18 DEF StopRunning
<1>19. CASE UNCHANGED allVars  BY <1>19 DEF allVars, hallVars
<1> QED
  BY <1>1, <1>2, <1>3, <1>4, <1>5, <1>6, <1>7, <1>8, <1>9, <1>10, <1>11, <1>12,
     <1>13, <1>14, <1>15, <1>16, <1>17, <1>18, <1>19 DEF HNext, HallNext, Tim2, Control

\* No flag that was read is lost before its turn.
LEMMA StepKeepsFindsFlags ==
  ASSUME HallState, RestartsAlone, FindsFlags, [HNext]_allVars PROVE FindsFlags'
<1> USE CaptureAssumption DEF HallState, RestartsAlone, FindsFlags, CaptureFlags, ServesStatus,
      Serve, Unserved, Controls, Uncontrolled, hallTimer, isrVars, edgeVars, controlVars,
      Record, Restarts, historyVars
<1>1. CASE Tick /\ Record  BY <1>1 DEF Tick
<1>2. CASE Edge /\ Record  BY <1>2 DEF Edge, Capture
<1>3. CASE ReadStatus /\ Record  BY <1>3 DEF ReadStatus
<1>4. CASE CountOverflow /\ Record  BY <1>4 DEF CountOverflow, Counted
<1>5. CASE ReadCapture1 /\ Record  BY <1>5 DEF ReadCapture1, ReadCapture
<1>6. CASE ReadCapture2 /\ Record  BY <1>6 DEF ReadCapture2, ReadCapture
<1>7. CASE ClearFlags /\ Record  BY <1>7 DEF ClearFlags, ClearSeenFlags
<1>8. CASE TakeOverflows /\ Record  BY <1>8 DEF TakeOverflows, OverflowsTaken
<1>9. CASE StoreRaw /\ Record  BY <1>9 DEF StoreRaw
<1>10. CASE StoreInterval /\ Record  BY <1>10 DEF StoreInterval
<1>11. CASE PublishEdge /\ Record  BY <1>11 DEF PublishEdge
<1>12. CASE AcceptEdge /\ Record  BY <1>12 DEF AcceptEdge
<1>13. CASE RejectEdge /\ Record  BY <1>13 DEF RejectEdge
<1>14. CASE StartFromStandstill /\ Record  BY <1>14 DEF StartFromStandstill
<1>15. CASE RestartCount /\ Record  BY <1>15 DEF RestartCount
<1>16. CASE RestartFlags /\ Record  BY <1>16 DEF RestartFlags
<1>17. CASE CheckAgain /\ Record  BY <1>17 DEF CheckAgain, LiveUnchanged
<1>18. CASE StopRunning /\ Record  BY <1>18 DEF StopRunning
<1>19. CASE UNCHANGED allVars  BY <1>19 DEF allVars, hallVars
<1> QED
  BY <1>1, <1>2, <1>3, <1>4, <1>5, <1>6, <1>7, <1>8, <1>9, <1>10, <1>11, <1>12,
     <1>13, <1>14, <1>15, <1>16, <1>17, <1>18, <1>19 DEF HNext, HallNext, Tim2, Control

\* The time since the latest edge is in the counter and its overflows.
LEMMA StepKeepsCounterIsExact ==
  ASSUME HallInv, [HNext]_allVars PROVE CounterIsExact'
<1> USE CaptureAssumption DEF HallInv, HallState, RestartsAlone, ServesStatus, FindsFlags, CounterIsExact,
      Unpublished, Captured, CaptureFlags, Turns, UncountedTurn, HallReading, HallPublishing,
      Serve, Unserved, Controls, Uncontrolled, hallTimer, isrVars, edgeVars, controlVars,
      Record, Restarts, historyVars
<1>1. CASE Tick /\ Record  BY <1>1 DEF Tick
<1>2. CASE Edge /\ Record  BY <1>2 DEF Edge, Capture
<1>3. CASE ReadStatus /\ Record  BY <1>3 DEF ReadStatus
<1>4. CASE CountOverflow /\ Record  BY <1>4 DEF CountOverflow, Counted
<1>5. CASE ReadCapture1 /\ Record  BY <1>5 DEF ReadCapture1, ReadCapture
<1>6. CASE ReadCapture2 /\ Record  BY <1>6 DEF ReadCapture2, ReadCapture
<1>7. CASE ClearFlags /\ Record  BY <1>7 DEF ClearFlags, ClearSeenFlags
<1>8. CASE TakeOverflows /\ Record  BY <1>8 DEF TakeOverflows, OverflowsTaken
<1>9. CASE StoreRaw /\ Record  BY <1>9 DEF StoreRaw
<1>10. CASE StoreInterval /\ Record  BY <1>10 DEF StoreInterval
<1>11. CASE PublishEdge /\ Record  BY <1>11 DEF PublishEdge
<1>12. CASE AcceptEdge /\ Record  BY <1>12 DEF AcceptEdge
<1>13. CASE RejectEdge /\ Record  BY <1>13 DEF RejectEdge
<1>14. CASE StartFromStandstill /\ Record  BY <1>14 DEF StartFromStandstill
<1>15. CASE RestartCount /\ Record  BY <1>15 DEF RestartCount
<1>16. CASE RestartFlags /\ Record  BY <1>16 DEF RestartFlags
<1>17. CASE CheckAgain /\ Record  BY <1>17 DEF CheckAgain, LiveUnchanged
<1>18. CASE StopRunning /\ Record  BY <1>18 DEF StopRunning
<1>19. CASE UNCHANGED allVars  BY <1>19 DEF allVars, hallVars
<1> QED
  BY <1>1, <1>2, <1>3, <1>4, <1>5, <1>6, <1>7, <1>8, <1>9, <1>10, <1>11, <1>12,
     <1>13, <1>14, <1>15, <1>16, <1>17, <1>18, <1>19 DEF HNext, HallNext, Tim2, Control

\* The time before the latest edge moves unmixed towards the interval.
LEMMA StepKeepsCaptureIsExact ==
  ASSUME HallInv, [HNext]_allVars PROVE CaptureIsExact'
<1> USE CaptureAssumption DEF HallInv, HallState, RestartsAlone, ServesStatus, FindsFlags, CounterIsExact,
      CaptureIsExact, Unpublished, Captured, CaptureFlags, Turns, UncountedTurn,
      Unread, HallReading, HallPublishing,
      Serve, Unserved, Controls, Uncontrolled, hallTimer, isrVars, edgeVars, controlVars,
      Record, Restarts, historyVars
<1>1. CASE Tick /\ Record  BY <1>1 DEF Tick
<1>2. CASE Edge /\ Record
  <2>1. sector' # sector  BY <1>2, NeighbourDiffers DEF Edge
  <2> QED  BY <1>2, <2>1 DEF Edge, Capture
<1>3. CASE ReadStatus /\ Record  BY <1>3 DEF ReadStatus
<1>4. CASE CountOverflow /\ Record  BY <1>4 DEF CountOverflow, Counted
<1>5. CASE ReadCapture1 /\ Record  BY <1>5 DEF ReadCapture1, ReadCapture
<1>6. CASE ReadCapture2 /\ Record  BY <1>6 DEF ReadCapture2, ReadCapture
<1>7. CASE ClearFlags /\ Record  BY <1>7 DEF ClearFlags, ClearSeenFlags
<1>8. CASE TakeOverflows /\ Record
  <2> USE <1>8 DEF TakeOverflows, OverflowsTaken
  <2>1. ASSUME spaced' PROVE ticks' = spacing'
    <3>1. spaced /\ isr = "TakeOverflows" /\ control = "Idle" /\ spacing' = spacing  BY <2>1
    <3>2. Captured(status) /\ ~UncountedTurn /\ "Cap1" \notin flags /\ "Cap2" \notin flags  BY <3>1
    <3>3. spacing = Turns + ticks + Unread("Cap1", ccr1) + Unread("Cap2", ccr2)  BY <3>1, <3>2
    <3>4. Turns = overflows * OverflowTicks /\ Turns \in Nat  BY <3>2
    <3> QED  BY <3>1, <3>2, <3>3, <3>4
  <2> QED  BY <2>1
<1>9. CASE StoreRaw /\ Record  BY <1>9 DEF StoreRaw
<1>10. CASE StoreInterval /\ Record  BY <1>10 DEF StoreInterval
<1>11. CASE PublishEdge /\ Record  BY <1>11 DEF PublishEdge
<1>12. CASE AcceptEdge /\ Record  BY <1>12 DEF AcceptEdge
<1>13. CASE RejectEdge /\ Record  BY <1>13 DEF RejectEdge
<1>14. CASE StartFromStandstill /\ Record  BY <1>14 DEF StartFromStandstill
<1>15. CASE RestartCount /\ Record  BY <1>15 DEF RestartCount
<1>16. CASE RestartFlags /\ Record  BY <1>16 DEF RestartFlags
<1>17. CASE CheckAgain /\ Record  BY <1>17 DEF CheckAgain, LiveUnchanged
<1>18. CASE StopRunning /\ Record  BY <1>18 DEF StopRunning
<1>19. CASE UNCHANGED allVars  BY <1>19 DEF allVars, hallVars
<1> QED
  BY <1>1, <1>2, <1>3, <1>4, <1>5, <1>6, <1>7, <1>8, <1>9, <1>10, <1>11, <1>12,
     <1>13, <1>14, <1>15, <1>16, <1>17, <1>18, <1>19 DEF HNext, HallNext, Tim2, Control

\* The published sector is the rotor's, or an edge is on its way.
LEMMA StepKeepsKnowsSector ==
  ASSUME HallInv, [HNext]_allVars PROVE KnowsSector'
<1> USE CaptureAssumption DEF HallInv, HallState, RestartsAlone, ServesStatus, FindsFlags, KnowsSector, OnItsWay,
      Captured, CaptureFlags, HallReading, HallPublishing,
      Serve, Unserved, Controls, Uncontrolled, hallTimer, isrVars, edgeVars, controlVars,
      Record, Restarts, historyVars
<1>1. CASE Tick /\ Record  BY <1>1 DEF Tick
<1>2. CASE Edge /\ Record  BY <1>2 DEF Edge, Capture
<1>3. CASE ReadStatus /\ Record  BY <1>3 DEF ReadStatus
<1>4. CASE CountOverflow /\ Record  BY <1>4 DEF CountOverflow, Counted
<1>5. CASE ReadCapture1 /\ Record  BY <1>5 DEF ReadCapture1, ReadCapture
<1>6. CASE ReadCapture2 /\ Record  BY <1>6 DEF ReadCapture2, ReadCapture
<1>7. CASE ClearFlags /\ Record  BY <1>7 DEF ClearFlags, ClearSeenFlags
<1>8. CASE TakeOverflows /\ Record  BY <1>8 DEF TakeOverflows, OverflowsTaken
<1>9. CASE StoreRaw /\ Record  BY <1>9 DEF StoreRaw
<1>10. CASE StoreInterval /\ Record  BY <1>10 DEF StoreInterval
<1>11. CASE PublishEdge /\ Record  BY <1>11 DEF PublishEdge
<1>12. CASE AcceptEdge /\ Record  BY <1>12 DEF AcceptEdge
<1>13. CASE RejectEdge /\ Record  BY <1>13 DEF RejectEdge
<1>14. CASE StartFromStandstill /\ Record  BY <1>14 DEF StartFromStandstill
<1>15. CASE RestartCount /\ Record  BY <1>15 DEF RestartCount
<1>16. CASE RestartFlags /\ Record  BY <1>16 DEF RestartFlags
<1>17. CASE CheckAgain /\ Record  BY <1>17 DEF CheckAgain, LiveUnchanged
<1>18. CASE StopRunning /\ Record  BY <1>18 DEF StopRunning
<1>19. CASE UNCHANGED allVars  BY <1>19 DEF allVars, hallVars
<1> QED
  BY <1>1, <1>2, <1>3, <1>4, <1>5, <1>6, <1>7, <1>8, <1>9, <1>10, <1>11, <1>12,
     <1>13, <1>14, <1>15, <1>16, <1>17, <1>18, <1>19 DEF HNext, HallNext, Tim2, Control

-----------------------------------------------------------------------------
LEMMA HallInvHolds == HSpec => []HallInv
<1>1. HInit => HallInv
  <2> SUFFICES ASSUME HInit PROVE HallInv  OBVIOUS
  <2> USE CaptureAssumption DEF HInit, HallInit
  <2>1. HallState
    <3>1. flags \subseteq Flag /\ status \subseteq Flag  OBVIOUS
    <3>2. count < OverflowTicks /\ count \in Nat /\ elapsed \in Nat  OBVIOUS
    <3>3. isr \in {"Idle"} \cup HallReading \cup HallPublishing /\ newEdges \in 0..2  OBVIOUS
    <3> QED  BY <3>1, <3>2, <3>3 DEF HallState
  <2>2. ~Unpublished /\ ~Captured(status)  BY DEF Unpublished, Captured
  <2>3. Turns = 0  BY DEF Turns, UncountedTurn
  <2>4. RestartsAlone /\ ServesStatus /\ FindsFlags
    BY <2>2 DEF RestartsAlone, ServesStatus, FindsFlags, HallPublishing
  <2>5. CounterIsExact /\ CaptureIsExact /\ KnowsSector
    BY <2>2, <2>3 DEF CounterIsExact, CaptureIsExact, KnowsSector
  <2> QED  BY <2>1, <2>4, <2>5 DEF HallInv
<1>2. HallInv /\ [HNext]_allVars => HallInv'
  BY StepKeepsHallState, StepKeepsRestartsAlone, StepKeepsServesStatus, StepKeepsFindsFlags,
     StepKeepsCounterIsExact, StepKeepsCaptureIsExact, StepKeepsKnowsSector DEF HallInv
<1> QED  BY <1>1, <1>2, PTL DEF HSpec

\* peripherals.rs, TIM2 and hall_edge_snapshot(): an edge that finds the one
\* before it published is published with the time between the two.
THEOREM IntervalsAreExact == HSpec => []IntervalIsExact
<1>1. HallInv => IntervalIsExact  BY DEF HallInv, CaptureIsExact, IntervalIsExact
<1> QED  BY <1>1, HallInvHolds, PTL

\* foc.rs, the start from standstill: unless its restart has preempted the TIM2
\* interrupt, a run with no edge on its way commutates from the rotor's sector.
THEOREM RunsAreLive == HSpec => []RunsInLiveSector
<1>1. HallInv => RunsInLiveSector
  BY DEF HallInv, ServesStatus, KnowsSector, OnItsWay, RunsInLiveSector, RestartFailsClosed,
      Settled, Captured, HallReading, HallPublishing
<1> QED  BY <1>1, HallInvHolds, PTL

-----------------------------------------------------------------------------
(* The wheel's edges of TIM3 and the foreground that reads them.           *)

Fields == {"flag", "interval", "pulses", "overruns"}
IsSnapshot(s) == s = [w \in Fields |-> s[w]]

\* What an undisturbed read has loaded so far is what is published.
ReadInv ==
    /\ reading \in 0..4 /\ IsSnapshot(published) /\ IsSnapshot(copy)
    /\ ~torn => /\ reading >= 1 => copy["flag"] = published["flag"]
                /\ reading >= 2 => copy["interval"] = published["interval"]
                /\ reading >= 3 => copy["pulses"] = published["pulses"]

LEMMA PublishedShape ==
  ASSUME IsSnapshot(published), NEW f, NEW i, NEW p, Publish(f, i, p)
  PROVE  IsSnapshot(published)'
  BY DEF IsSnapshot, Publish, Fields

LEMMA WordAt ==
  Words[1] = "flag" /\ Words[2] = "interval" /\ Words[3] = "pulses" /\ Words[4] = "overruns"
  BY DEF Words

LEMMA LoadOne ==
  ASSUME IsSnapshot(copy), NEW n \in 1..4, Load(n, n)
  PROVE  /\ IsSnapshot(copy)'
         /\ \A w \in Fields : copy'[w] = IF w = Words[n] THEN published[w] ELSE copy[w]
<1>1. DOMAIN copy = Fields  BY DEF IsSnapshot
<1>2. copy' = [w \in Fields |-> IF \E i \in n..n : Words[i] = w THEN published[w] ELSE copy[w]]
  BY <1>1 DEF Load
<1>3. \A w : (\E i \in n..n : Words[i] = w) <=> w = Words[n]
  <2>1. n..n = {n}  OBVIOUS
  <2> QED  BY <2>1
<1> QED  BY <1>2, <1>3 DEF IsSnapshot

LEMMA StepKeepsRead == ASSUME ReadInv, [SpeedNext]_speedVars PROVE ReadInv'
<1>1. CASE Pulse \/ Quiet
  <2>1. PICK f, i, p : Publish(f, i, p)  BY <1>1 DEF Pulse, Quiet
  <2>2. IsSnapshot(published)'  BY <2>1, PublishedShape DEF ReadInv
  <2>3. UNCHANGED <<reading, copy>> /\ (reading # 0 => torn')  BY <2>1 DEF Publish, estimate
  <2> QED  BY <2>2, <2>3 DEF ReadInv, IsSnapshot
<1>2. CASE Overrun
  <2>1. UNCHANGED <<reading, copy, torn>>  BY <1>2 DEF Overrun, reader
  <2>2. IsSnapshot(published)' /\ \A w \in Fields \ {"overruns"} : published'[w] = published[w]
    BY <1>2 DEF Overrun, ReadInv, IsSnapshot, Fields
  <2> QED  BY <2>1, <2>2 DEF ReadInv, IsSnapshot, Fields
<1>3. CASE BeginRead
  <2>1. Load(1, 1) /\ reading' = 1 /\ UNCHANGED published  BY <1>3 DEF BeginRead
  <2> QED  BY <2>1, LoadOne, WordAt DEF ReadInv, IsSnapshot, Fields
<1>4. CASE LoadWord
  <2>1. reading \in 1..3 /\ Load(reading + 1, reading + 1) /\ reading' = reading + 1
        /\ UNCHANGED <<published, torn>>
    BY <1>4 DEF LoadWord, Load
  <2>2. /\ IsSnapshot(copy)'
        /\ \A w \in Fields : copy'[w] = IF w = Words[reading + 1] THEN published[w] ELSE copy[w]
    BY <2>1, LoadOne DEF ReadInv
  <2> QED  BY <2>1, <2>2, WordAt DEF ReadInv, IsSnapshot, Fields
<1>5. CASE Retry \/ Update
  <2>1. IsSnapshot(Nothing)  BY DEF IsSnapshot, Nothing, Fields
  <2>2. copy' = Nothing /\ reading' = 0 /\ UNCHANGED published  BY <1>5 DEF Retry, Update
  <2> QED  BY <2>1, <2>2 DEF ReadInv, IsSnapshot
<1>6. CASE UNCHANGED speedVars
  BY <1>6 DEF speedVars, reader, ReadInv, IsSnapshot
<1> QED  BY <1>1, <1>2, <1>3, <1>4, <1>5, <1>6 DEF SpeedNext, Foreground

\* Whatever the widths of the counts, and however publications and overruns
\* fall between the loads: a copy that is used is the published words.
THEOREM SnapshotsAreWhole == SpeedSpec => []SnapshotIsWhole
<1>1. SpeedInit => ReadInv  BY DEF SpeedInit, Nothing, ReadInv, IsSnapshot, Fields
<1>2. ReadInv /\ [SpeedNext]_speedVars => ReadInv'  BY StepKeepsRead
<1>3. ReadInv => SnapshotIsWhole
  <2> SUFFICES ASSUME ReadInv, reading = 4, ~torn
               PROVE  copy = [published EXCEPT !.overruns = copy.overruns]
    BY DEF SnapshotIsWhole, Changed
  <2>1. \A w \in Fields : copy[w] = [published EXCEPT !.overruns = copy.overruns][w]
    BY DEF ReadInv, IsSnapshot, Fields
  <2>2. IsSnapshot(copy) /\ DOMAIN published = Fields  BY DEF ReadInv, IsSnapshot
  <2>3. [published EXCEPT !.overruns = copy.overruns] =
        [w \in Fields |-> [published EXCEPT !.overruns = copy.overruns][w]]
    BY <2>2
  <2> QED  BY <2>1, <2>2, <2>3 DEF IsSnapshot
<1> QED  BY <1>1, <1>2, <1>3, PTL DEF SpeedSpec
-----------------------------------------------------------------------------
(* The distance.                                                           *)

\* The ways that have been counted, are left over, or are published and not
\* yet counted make up the whole way, whole rounds of the counter aside.
DistanceCounted == value * Unit + remainder + Behind * PerPulse
DistanceInv ==
    /\ published = [flag |-> published.flag, interval |-> published.interval,
                    pulses |-> published.pulses, overruns |-> published.overruns]
    /\ published.pulses \in 0..(CountRange - 1) /\ lastDistance \in 0..(CountRange - 1)
    /\ remainder \in 0..(Unit - 1) /\ value \in 0..(Values - 1) /\ travelled \in Nat
    /\ \E rounds \in Int : DistanceCounted = travelled + rounds * (Values * Unit)

LEMMA DivMod ==
  ASSUME NEW a \in Int, NEW m \in Nat \ {0}
  PROVE  a \div m \in Int /\ a % m \in 0..(m - 1) /\ a = (a \div m) * m + (a % m)
  OBVIOUS

LEMMA Ranges ==
  /\ CountRange \in Nat \ {0} /\ PerPulse \in Nat \ {0} /\ Unit \in Nat \ {0}
  /\ Values \in Nat \ {0} /\ Values * Unit \in Nat \ {0}
<1>1. CountRange \in Nat \ {0} /\ PerPulse \in Nat \ {0} /\ Unit \in Nat \ {0} /\ Values \in Nat \ {0}
  BY SpeedAssumption
<1> QED  BY <1>1

\* One pulse more is one pulse further behind, also where the count wraps.
LEMMA BehindGrows ==
  ASSUME NEW m \in Nat \ {0}, NEW p \in 0..(m - 1), NEW l \in 0..(m - 1), (p - l) % m < m - 1
  PROVE  (((p + 1) % m) - l) % m = ((p - l) % m) + 1
<1>1. (p - l) % m = IF l <= p THEN p - l ELSE p - l + m  OBVIOUS
<1>2. (p + 1) % m = IF p + 1 = m THEN 0 ELSE p + 1  OBVIOUS
<1>3. \A a \in 0..(m - 1) : (a - l) % m = IF l <= a THEN a - l ELSE a - l + m  OBVIOUS
<1>4. (p + 1) % m \in 0..(m - 1)  BY <1>2
<1> QED  BY <1>1, <1>2, <1>3, <1>4

LEMMA PulseKeepsDistance == ASSUME DistanceInv, Pulse PROVE DistanceInv'
<1>1. PICK i \in Intervals : Publish("Primed", i, published.pulses + 1)  BY DEF Pulse
<1>2. /\ published' = [flag |-> "Primed", interval |-> i,
                       pulses |-> (published.pulses + 1) % CountRange, overruns |-> published.overruns]
      /\ UNCHANGED <<lastDistance, remainder, value>>
  BY <1>1 DEF Publish, estimate, DistanceInv
<1>3. Behind' = Behind + 1 /\ Behind \in Nat
  BY <1>2, BehindGrows, Ranges DEF Behind, Pulse, DistanceInv
<1>4. /\ published'.pulses \in 0..(CountRange - 1)
      /\ published'.pulses = (published.pulses + 1) % CountRange
  BY <1>2, Ranges DEF DistanceInv
<1> DEFINE M == Values * Unit
           whole == travelled + PerPulse
<1>5. /\ travelled' = whole % M /\ whole \in Nat /\ M \in Nat \ {0}
      /\ whole \div M \in Int /\ whole % M \in 0..(M - 1) /\ whole = (whole \div M) * M + (whole % M)
  <2>1. travelled' = whole % M  BY DEF Pulse
  <2>2. whole \in Nat /\ M \in Nat \ {0}  BY Ranges DEF DistanceInv
  <2> HIDE DEF M, whole
  <2> QED  BY <2>1, <2>2, DivMod
<1>6. DistanceCounted' = DistanceCounted + PerPulse
  BY <1>2, <1>3, Ranges DEF DistanceCounted, DistanceInv
<1>7. PICK k \in Int : DistanceCounted = travelled + k * M  BY DEF DistanceInv
<1>8. DistanceCounted' = travelled' + (k + (whole \div M)) * M
  <2> HIDE DEF M
  <2>1. \A a, b, c \in Int : (a + b) * c = a * c + b * c  OBVIOUS
  <2>2. travelled \in Int /\ PerPulse \in Int /\ k * M \in Int  BY <1>5, Ranges DEF DistanceInv
  <2> QED  BY <1>5, <1>6, <1>7, <2>1, <2>2
<1> QED  BY <1>2, <1>4, <1>5, <1>8 DEF DistanceInv

LEMMA UpdateKeepsDistance == ASSUME DistanceInv, ReadInv, Update PROVE DistanceInv'
<1> DEFINE M == Values * Unit
           acc == Behind * PerPulse + remainder
           units == acc \div Unit
           sum == value + units
<1>1. copy.pulses = published.pulses /\ UNCHANGED <<published, travelled>>
  <2>1. reading = 4 /\ ~torn  BY DEF Update, Changed
  <2> QED  BY <2>1 DEF ReadInv, Update
<1>2. /\ lastDistance' = published.pulses
      /\ value' = sum % Values /\ remainder' = acc % Unit
  BY <1>1 DEF Update, Behind, Left
<1>3. Behind \in Nat  BY Ranges DEF Behind, DistanceInv
<1>4. acc \in Nat  BY <1>3, Ranges DEF DistanceInv
<1>5. units \in Int /\ remainder' \in 0..(Unit - 1) /\ acc = units * Unit + remainder'
  <2>1. remainder' = acc % Unit /\ units = acc \div Unit  BY <1>2
  <2> HIDE DEF acc, units
  <2>2. acc \div Unit \in Int /\ acc % Unit \in 0..(Unit - 1)
        /\ acc = (acc \div Unit) * Unit + (acc % Unit)
    BY <1>4, DivMod, Ranges
  <2> QED  BY <2>1, <2>2
<1>6. sum \in Int  BY <1>5, Ranges DEF DistanceInv
<1>7. /\ sum \div Values \in Int /\ value' \in 0..(Values - 1)
      /\ sum = (sum \div Values) * Values + value'
  <2> HIDE DEF sum
  <2> QED  BY <1>2, <1>6, DivMod, Ranges
<1>8. Behind' = 0  BY <1>1, <1>2, Ranges DEF Behind, DistanceInv
<1>9. PICK k \in Int : DistanceCounted = travelled + k * M  BY DEF DistanceInv
<1>10. DistanceCounted = value * Unit + acc  BY <1>3, Ranges DEF DistanceCounted, DistanceInv
<1>11. DistanceCounted' = travelled + (k - (sum \div Values)) * M
  <2>1. DistanceCounted' = value' * Unit + remainder'
    BY <1>5, <1>7, <1>8, Ranges DEF DistanceCounted
  <2>2. DistanceCounted = sum * Unit + remainder'
    BY <1>5, <1>10, Ranges DEF DistanceInv
  <2>3. ASSUME NEW q \in Int, sum = q * Values + value'
        PROVE  sum * Unit = q * M + value' * Unit
    BY <1>7, <2>3, Ranges
  <2>4. ASSUME NEW q \in Int, NEW m \in Int
        PROVE  (k - q) * m = k * m - q * m
    OBVIOUS
  <2> HIDE DEF M, sum
  <2>5. M \in Int /\ travelled \in Int /\ value' * Unit \in Int /\ remainder' \in Int
        /\ k * M \in Int /\ (sum \div Values) * M \in Int
    BY <1>5, <1>7, Ranges DEF M, DistanceInv
  <2>6. sum * Unit = (sum \div Values) * M + value' * Unit  BY <1>7, <2>3
  <2>7. (k - (sum \div Values)) * M = k * M - (sum \div Values) * M  BY <1>7, <2>4, <2>5
  <2> QED  BY <1>9, <2>1, <2>2, <2>5, <2>6, <2>7
<1>12. k - (sum \div Values) \in Int  BY <1>7
<1> QED  BY <1>1, <1>2, <1>5, <1>7, <1>11, <1>12 DEF DistanceInv

LEMMA StepKeepsDistance == ASSUME DistanceInv, ReadInv, [SpeedNext]_speedVars PROVE DistanceInv'
<1>1. CASE Quiet
  <2>1. Publish("Quiet", "Zero", published.pulses) /\ UNCHANGED travelled  BY <1>1 DEF Quiet
  <2>2. published.pulses % CountRange = published.pulses  BY Ranges DEF DistanceInv
  <2>3. /\ published' = [flag |-> "Quiet", interval |-> "Zero", pulses |-> published.pulses,
                         overruns |-> published.overruns]
        /\ UNCHANGED <<lastDistance, remainder, value, travelled>>
    BY <2>1, <2>2 DEF Publish, estimate, DistanceInv
  <2>4. DistanceCounted' = DistanceCounted  BY <2>3 DEF DistanceCounted, Behind
  <2> QED  BY <2>3, <2>4 DEF DistanceInv
<1>2. CASE Overrun
  <2>1. /\ published'.pulses = published.pulses
        /\ published' = [flag |-> published'.flag, interval |-> published'.interval,
                         pulses |-> published'.pulses, overruns |-> published'.overruns]
        /\ UNCHANGED <<lastDistance, remainder, value, travelled>>
    BY <1>2 DEF Overrun, estimate, DistanceInv
  <2>2. DistanceCounted' = DistanceCounted  BY <2>1 DEF DistanceCounted, Behind
  <2> QED  BY <2>1, <2>2 DEF DistanceInv
<1>3. CASE BeginRead \/ LoadWord \/ Retry \/ UNCHANGED speedVars
  <2>1. UNCHANGED <<published, lastDistance, remainder, value, travelled>>
    BY <1>3 DEF BeginRead, LoadWord, Retry, speedVars, estimate
  <2>2. DistanceCounted' = DistanceCounted  BY <2>1 DEF DistanceCounted, Behind
  <2> QED  BY <2>1, <2>2 DEF DistanceInv
<1> QED  BY <1>1, <1>2, <1>3, PulseKeepsDistance, UpdateKeepsDistance DEF SpeedNext, Foreground

\* Whatever the way of a pulse, the unit and the widths of both counters: the
\* whole way is counted, left over, or published and not yet counted.
THEOREM DistancesAreExact == SpeedSpec => []DistanceIsExact
<1>1. SpeedInit => ReadInv  BY DEF SpeedInit, Nothing, ReadInv, IsSnapshot, Fields
<1>2. SpeedInit => DistanceInv
  <2> SUFFICES ASSUME SpeedInit PROVE DistanceInv  OBVIOUS
  <2>1. Behind = 0  BY Ranges DEF SpeedInit, Nothing, Behind
  <2>2. DistanceCounted = travelled + 0 * (Values * Unit)  BY <2>1, Ranges DEF DistanceCounted, SpeedInit
  <2> QED  BY <2>2, Ranges DEF SpeedInit, Nothing, DistanceInv
<1>3. ReadInv /\ DistanceInv /\ [SpeedNext]_speedVars => ReadInv' /\ DistanceInv'
  BY StepKeepsRead, StepKeepsDistance
<1>4. DistanceInv => DistanceIsExact
  <2> SUFFICES ASSUME DistanceInv PROVE DistanceIsExact  OBVIOUS
  <2>1. PICK k \in Int : DistanceCounted = travelled + k * (Values * Unit)  BY DEF DistanceInv
  <2> DEFINE M == Values * Unit
  <2>2. DistanceCounted - travelled = k * M
    <3>1. travelled \in Int /\ k * (Values * Unit) \in Int  BY Ranges DEF DistanceInv
    <3> QED  BY <2>1, <3>1
  <2>3. M \in Nat \ {0}  BY Ranges
  <2>4. \A m \in Nat \ {0} : (k * m) % m = 0  OBVIOUS
  <2>5. (DistanceCounted - travelled) % M = 0
    <3> HIDE DEF M
    <3> QED  BY <2>2, <2>3, <2>4
  <2> QED  BY <2>5, Zenon DEF DistanceIsExact, DistanceCounted
<1> QED  BY <1>1, <1>2, <1>3, <1>4, PTL DEF SpeedSpec

-----------------------------------------------------------------------------
(* The capture interrupt.                                                  *)

CaptureTypes ==
    /\ counter \in Nat /\ counter < Period /\ ccr \in Nat /\ ccr < Period
    /\ uif \in BOOLEAN /\ cc \in BOOLEAN /\ of \in BOOLEAN
    /\ wheelIsr \in {"No", "Capture", "Overflow", "Leave"}
    /\ wheelStatus = [uif |-> wheelStatus.uif, cc |-> wheelStatus.cc, of |-> wheelStatus.of]
    /\ wheelStatus.uif \in BOOLEAN /\ wheelStatus.cc \in BOOLEAN /\ wheelStatus.of \in BOOLEAN
    /\ epoch \in Nat /\ epoch < Epochs /\ timestamp \in Nat /\ timestamp < Range
    /\ quietCount \in Nat /\ quietCount <= QuietOverflows
    /\ snapshot = Snapshot(snapshot.flag, snapshot.interval, snapshot.pulses, snapshot.overruns)
    /\ gap \in Nat /\ wheelInterval \in Nat /\ clean \in 0..2

\* Both flags are served within half a turn, and a service takes what it read.
ServedInTime ==
    /\ uif => counter < Half
    /\ cc => gap < Half /\ (ccr + gap = counter \/ ccr + gap = counter + Period)
    /\ wheelIsr # "No" /\ wheelStatus.uif => uif
    /\ wheelIsr = "Overflow" => wheelStatus.uif /\ ~wheelStatus.cc
    /\ wheelIsr = "Capture" => wheelStatus.cc /\ cc

\* The overflow that is pending is not in the count of quiet ones yet.
Uncounted == uif /\ ~(wheelIsr = "Leave" /\ wheelStatus.uif)
Overflows == quietCount * Period + (IF Uncounted THEN Period ELSE 0)

\* The count is of overflows since the last edge, also where the interrupt has
\* lost that one.
CountsQuiet ==
    /\ snapshot.flag = "Quiet" => quietCount = QuietOverflows
    /\ snapshot.flag = "Primed" => quietCount < QuietOverflows
    /\ wheelIsr = "Leave" /\ wheelStatus.cc =>
        quietCount = 0 \/ (quietCount = 1 /\ wheelStatus.uif)
    /\ ~cc \/ (wheelIsr = "Leave" /\ wheelStatus.cc) =>
        Overflows + counter < gap + Half + Period

\* The epoch lags behind the timer by the pending overflow.
At(e, c) == e * Period + c
NextEpoch == (epoch + 1) % Epochs
Now == IF uif THEN At(NextEpoch, counter) ELSE At(epoch, counter)
IsAgo(t, age) == t + age = Now \/ t + age = Now + Range

\* A clean edge waits for a service of its own, which sees whether an overflow
\* came before it.
WaitsClean ==
    clean >= 1 =>
        /\ cc => wheelIsr \in {"No", "Capture"} /\ (~uif => ccr + gap = counter)
        /\ cc /\ wheelIsr = "Capture" /\ uif /\ ~wheelStatus.uif => ccr + gap = counter + Period

\* The timestamp is of the last clean edge that was served.
StampIsTrue ==
    snapshot.flag = "Primed" /\ clean >= 1 =>
        /\ ~cc => IsAgo(timestamp, gap) /\ ccr + gap = Overflows + counter
        /\ cc /\ clean = 2 => IsAgo(timestamp, wheelInterval + gap) /\ wheelInterval < Longest

IntervalInv ==
    snapshot.flag = "Primed" /\ snapshot.interval # 0 /\ clean = 2 /\ ~cc =>
        snapshot.interval = wheelInterval

CaptureInv ==
    CaptureTypes /\ ServedInTime /\ CountsQuiet /\ WaitsClean /\ StampIsTrue /\ IntervalInv
-----------------------------------------------------------------------------
LEMMA Halves == Period \in Nat /\ Half \in Nat /\ Half >= 2 /\ Period = 2 * Half
  BY WheelAssumption DEF Half

\* One turn more, in products that the provers take as they are.
LEMMA TurnsAdd ==
  ASSUME NEW n \in Nat, NEW m \in Nat, NEW p \in Nat
  PROVE  /\ n * p \in Nat /\ (n + 1) * p = n * p + p
         /\ n < m => n * p + p <= m * p
<1>1. n * p \in Nat /\ (n + 1) * p = n * p + p  OBVIOUS
<1>2. ASSUME n < m PROVE n * p + p <= m * p
  <2>1. PICK d \in Nat : m = n + 1 + d  BY <1>2
  <2>2. m * p = (n + 1) * p + d * p  BY <2>1
  <2>3. d * p \in Nat  BY <2>1
  <2> QED  BY <1>1, <2>2, <2>3
<1> QED  BY <1>1, <1>2

\* No gap that is told from a longer one comes round the range of the timestamp.
LEMMA RangeIsLonger ==
  /\ Range \in Nat /\ Longest \in Nat /\ Longest + Period <= Range
  /\ QuietOverflows * Period \in Nat /\ Longest = QuietOverflows * Period + Period
<1>1. QuietOverflows \in Nat /\ Epochs \in Nat /\ QuietOverflows + 1 < Epochs  BY WheelAssumption
<1>2. QuietOverflows + 1 \in Nat  BY <1>1
<1> QED  BY <1>1, <1>2, Halves, TurnsAdd DEF Range, Longest

\* An overflow is a turn, and the epoch comes round its range.
LEMMA AtIs ==
  ASSUME epoch \in Nat, epoch < Epochs, NEW c \in Nat
  PROVE  /\ At(epoch, 0) \in Nat /\ At(epoch, 0) + Period <= Range
         /\ At(epoch, c) = At(epoch, 0) + c
         /\ At(NextEpoch, c) = IF epoch + 1 = Epochs THEN c ELSE At(epoch, 0) + Period + c
         /\ epoch + 1 = Epochs => At(epoch, 0) + Period = Range
         /\ NextEpoch = IF epoch + 1 = Epochs THEN 0 ELSE epoch + 1
<1> DEFINE t == epoch * Period
<1>1. Epochs \in Nat /\ Period \in Nat  BY WheelAssumption
<1>2. NextEpoch = IF epoch + 1 = Epochs THEN 0 ELSE epoch + 1  BY <1>1 DEF NextEpoch
<1>3. t \in Nat /\ (epoch + 1) * Period = t + Period /\ t + Period <= Range
  BY <1>1, TurnsAdd DEF Range
<1>4. At(epoch, c) = t + c /\ At(epoch, 0) = t
  <2>1. At(epoch, 0) = t + 0  BY DEF At
  <2>2. t + 0 = t  BY <1>3
  <2> QED  BY <2>1, <2>2 DEF At
<1>5. ASSUME epoch + 1 = Epochs PROVE At(NextEpoch, c) = c /\ t + Period = Range
  <2>1. At(NextEpoch, c) = 0 * Period + c  BY <1>2, <1>5 DEF At
  <2>2. 0 * Period + c = c  BY <1>1
  <2>3. Range = (epoch + 1) * Period  BY <1>5 DEF Range
  <2> QED  BY <1>3, <2>1, <2>2, <2>3
<1>6. ASSUME epoch + 1 # Epochs PROVE At(NextEpoch, c) = t + Period + c
  <2>1. At(NextEpoch, c) = (epoch + 1) * Period + c  BY <1>2, <1>6 DEF At
  <2> QED  BY <1>3, <2>1
<1> HIDE DEF t
<1> QED  BY <1>2, <1>3, <1>4, <1>5, <1>6

LEMMA TwoTurns ==
  ASSUME epoch \in Nat, epoch < Epochs, epoch + 1 # Epochs
  PROVE  At(epoch, 0) + Period + Period <= Range
<1> DEFINE t == epoch * Period
<1>1. Epochs \in Nat /\ Period \in Nat /\ epoch + 1 \in Nat /\ epoch + 1 < Epochs  BY WheelAssumption
<1>2. (epoch + 1) * Period + Period <= Range  BY <1>1, TurnsAdd DEF Range
<1>3. t \in Nat /\ (epoch + 1) * Period = t + Period  BY <1>1, TurnsAdd
<1>4. At(epoch, 0) = t  BY <1>3 DEF At
<1> HIDE DEF t
<1> QED  BY <1>1, <1>2, <1>3, <1>4

LEMMA ExtendedIs ==
  ASSUME NEW c \in Nat
  PROVE  /\ wheelStatus.uif /\ c < Half => Extended(c) = At(NextEpoch, c)
         /\ ~(wheelStatus.uif /\ c < Half) => Extended(c) = At(epoch, c)
  BY DEF Extended, At, NextEpoch

LEMMA QuietTurns ==
  ASSUME CaptureTypes
  PROVE  /\ quietCount * Period \in Nat /\ (quietCount + 1) * Period = quietCount * Period + Period
         /\ quietCount * Period <= QuietOverflows * Period
         /\ quietCount < QuietOverflows => quietCount * Period + Period <= QuietOverflows * Period
<1>1. quietCount \in Nat /\ QuietOverflows \in Nat /\ Period \in Nat /\ quietCount <= QuietOverflows
  BY WheelAssumption DEF CaptureTypes
<1> QED  BY <1>1, TurnsAdd

\* Time passes only while neither flag is late.
LEMMA TickInTime ==
  ASSUME CaptureTypes, ServedInTime, TimerTick
  PROVE  /\ counter' = IF counter + 1 = Period THEN 0 ELSE counter + 1
         /\ uif' <=> uif \/ counter + 1 = Period
         /\ uif => counter + 1 < Half
         /\ cc => gap + 1 < Half /\ gap < Longest
<1>1. counter' = IF counter + 1 = Period THEN 0 ELSE counter + 1
  BY Halves DEF TimerTick, CaptureTypes
<1>4. uif' <=> uif \/ counter + 1 = Period
  <2>1. uif' <=> (uif \/ counter' = 0)  BY Zenon DEF TimerTick
  <2>2. counter' = 0 <=> counter + 1 = Period  BY <1>1, Halves DEF CaptureTypes
  <2> QED  BY <2>1, <2>2
<1>2. uif => counter + 1 < Half  BY Halves DEF TimerTick, Late, CaptureTypes
<1>3. ASSUME cc PROVE gap + 1 < Half /\ gap < Longest
  <2>1. gap \in Nat /\ gap < Half /\ counter \in Nat /\ ccr \in Nat  BY <1>3 DEF ServedInTime, CaptureTypes
  <2>2. counter - ccr = gap \/ counter - ccr = gap - Period
    BY <1>3, <2>1, Halves DEF ServedInTime
  <2>3. gap % Period = gap /\ (gap - Period) % Period = gap  BY <2>1, Halves
  <2>4. (counter - ccr) % Period = gap  BY <2>2, <2>3
  <2>5. ~((counter - ccr) % Period >= Half - 1)  BY <1>3 DEF TimerTick, Late
  <2> QED  BY <2>1, <2>4, <2>5, Halves, RangeIsLonger
<1> QED  BY <1>1, <1>2, <1>3, <1>4

\* Every timestamp is in range.
LEMMA StampInRange ==
  ASSUME CaptureTypes PROVE Extended(ccr) \in Nat /\ Extended(ccr) < Range
<1>1. ccr \in Nat /\ ccr < Period /\ epoch \in Nat /\ epoch < Epochs /\ wheelStatus.uif \in BOOLEAN
  BY DEF CaptureTypes
<1>2. Extended(ccr) = At(NextEpoch, ccr) \/ Extended(ccr) = At(epoch, ccr)
  BY <1>1, ExtendedIs
<1>3. /\ At(epoch, 0) \in Nat /\ At(epoch, 0) + Period <= Range
      /\ At(epoch, ccr) = At(epoch, 0) + ccr
      /\ At(NextEpoch, ccr) = IF epoch + 1 = Epochs THEN ccr ELSE At(epoch, 0) + Period + ccr
      /\ epoch + 1 = Epochs => At(epoch, 0) + Period = Range
      /\ NextEpoch \in Nat /\ NextEpoch < Epochs
  BY <1>1, AtIs, WheelAssumption
<1>5. epoch + 1 # Epochs => At(epoch, 0) + Period + Period <= Range
  BY <1>1, TwoTurns
<1>6. Period \in Nat /\ Range \in Nat  BY Halves, RangeIsLonger
<1> QED  BY <1>1, <1>2, <1>3, <1>5, <1>6

\* The timestamp of a clean edge is when it was, on either side of an overflow.
LEMMA EdgeIsStamped ==
  ASSUME CaptureTypes, ServedInTime, WaitsClean, clean >= 1, wheelIsr = "Capture"
  PROVE  /\ IsAgo(Extended(ccr), gap) /\ gap < Half
         /\ \/ ccr + gap = counter /\ (uif <=> wheelStatus.uif) /\ (uif => ccr < Half)
            \/ ccr + gap = counter + Period /\ uif /\ (wheelStatus.uif => ccr >= Half)
<1>1. /\ ccr \in Nat /\ epoch \in Nat /\ epoch < Epochs /\ counter \in Nat /\ gap \in Nat
      /\ wheelStatus.uif \in BOOLEAN /\ uif \in BOOLEAN
  BY DEF CaptureTypes
<1>2. /\ gap < Half /\ (ccr + gap = counter \/ ccr + gap = counter + Period)
      /\ uif => counter < Half
      /\ ~uif => ccr + gap = counter
      /\ uif /\ ~wheelStatus.uif => ccr + gap = counter + Period
      /\ wheelStatus.uif => uif
  BY DEF ServedInTime, WaitsClean
<1>3. CASE ccr + gap = counter
  <2>1. (uif <=> wheelStatus.uif) /\ (uif => ccr < Half)  BY <1>1, <1>2, <1>3, Halves
  <2>2. IF uif THEN Extended(ccr) = At(NextEpoch, ccr) ELSE Extended(ccr) = At(epoch, ccr)
    BY <1>1, <2>1, ExtendedIs
  <2>3. /\ At(epoch, ccr) = At(epoch, 0) + ccr /\ At(epoch, counter) = At(epoch, 0) + counter
        /\ At(NextEpoch, ccr) = IF epoch + 1 = Epochs THEN ccr ELSE At(epoch, 0) + Period + ccr
        /\ At(NextEpoch, counter) =
                IF epoch + 1 = Epochs THEN counter ELSE At(epoch, 0) + Period + counter
    BY <1>1, AtIs
  <2>4. At(epoch, 0) \in Nat /\ Period \in Nat  BY <1>1, AtIs, Halves
  <2>5. IsAgo(Extended(ccr), gap)
    <3>1. Extended(ccr) + gap = Now
      <4>1. CASE uif  BY <1>1, <1>3, <2>2, <2>3, <2>4, <4>1 DEF Now
      <4>2. CASE ~uif  BY <1>1, <1>3, <2>2, <2>3, <2>4, <4>2 DEF Now
      <4> QED  BY <4>1, <4>2
    <3> QED  BY <3>1 DEF IsAgo
  <2> QED  BY <1>2, <1>3, <2>1, <2>5
<1>4. CASE ccr + gap = counter + Period
  <2>1. uif /\ (wheelStatus.uif => ccr >= Half)  BY <1>1, <1>2, <1>4, Halves
  <2>2. Extended(ccr) = At(epoch, ccr)  BY <1>1, <2>1, ExtendedIs, Halves
  <2>3. /\ At(epoch, 0) \in Nat /\ Period \in Nat /\ Range \in Nat
        /\ At(epoch, ccr) = At(epoch, 0) + ccr /\ (epoch + 1 = Epochs => At(epoch, 0) + Period = Range)
        /\ At(NextEpoch, counter) =
                IF epoch + 1 = Epochs THEN counter ELSE At(epoch, 0) + Period + counter
    BY <1>1, AtIs, Halves, RangeIsLonger
  <2>4. Now = At(NextEpoch, counter)  BY <2>1 DEF Now
  <2>5. IsAgo(Extended(ccr), gap)  BY <1>1, <1>4, <2>2, <2>3, <2>4 DEF IsAgo
  <2> QED  BY <1>2, <1>4, <2>1, <2>5
<1> QED  BY <1>2, <1>3, <1>4

LEMMA StepKeepsCaptureTypes ==
  ASSUME CaptureTypes, ServedInTime, [WheelNext]_wheelVars PROVE CaptureTypes'
<1>a. CaptureEdge => timestamp' \in Nat /\ timestamp' < Range
  BY StampInRange DEF CaptureEdge
<1>b. Leave => epoch' \in Nat /\ epoch' < Epochs
  BY WheelAssumption DEF Leave, CaptureTypes
<1> USE Halves, WheelAssumption, RangeIsLonger DEF CaptureTypes, Snapshot, wheelTimer,
      wheelIsrVars, wheelHistory
<1>1. CASE TimerTick  BY <1>1 DEF TimerTick, Late
<1>2. CASE WheelEdge  BY <1>2 DEF WheelEdge
<1>3. CASE ReadWheelStatus  BY <1>3 DEF ReadWheelStatus
<1>4. CASE CaptureEdge
  <2>1. quietCount' \in Nat /\ quietCount' <= QuietOverflows  BY <1>4 DEF CaptureEdge, QuietFrom
  <2>2. snapshot' = Snapshot(snapshot'.flag, snapshot'.interval, snapshot'.pulses, snapshot'.overruns)
    BY <1>4 DEF CaptureEdge
  <2> QED  BY <1>4, <1>a, <2>1, <2>2 DEF CaptureEdge
<1>5. CASE Overflow  BY <1>5 DEF Overflow
<1>6. CASE Leave  BY <1>6, <1>b DEF Leave, NoStatus
<1>7. CASE UNCHANGED wheelVars  BY <1>7 DEF wheelVars
<1> QED  BY <1>1, <1>2, <1>3, <1>4, <1>5, <1>6, <1>7 DEF WheelNext, WheelInterrupt

LEMMA StepKeepsServedInTime ==
  ASSUME CaptureTypes, ServedInTime, [WheelNext]_wheelVars PROVE ServedInTime'
<1>a. ASSUME TimerTick
      PROVE  /\ counter' = IF counter + 1 = Period THEN 0 ELSE counter + 1
             /\ uif' <=> uif \/ counter + 1 = Period
             /\ uif => counter + 1 < Half
             /\ cc => gap + 1 < Half /\ gap < Longest
  BY <1>a, TickInTime
<1> USE Halves DEF CaptureTypes, ServedInTime, Snapshot, wheelTimer, wheelIsrVars,
      wheelHistory
<1>1. CASE TimerTick
  <2>1. /\ cc' = cc /\ ccr' = ccr /\ wheelIsr' = wheelIsr /\ wheelStatus' = wheelStatus /\ clean' = clean
        /\ gap < Longest => gap' = gap + 1
    BY <1>1 DEF TimerTick
  <2> QED  BY <1>1, <1>a, <2>1
<1>2. CASE WheelEdge  BY <1>2 DEF WheelEdge
<1>3. CASE ReadWheelStatus  BY <1>3 DEF ReadWheelStatus
<1>4. CASE CaptureEdge  BY <1>4 DEF CaptureEdge, Extended, QuietFrom
<1>5. CASE Overflow  BY <1>5 DEF Overflow
<1>6. CASE Leave  BY <1>6 DEF Leave, NoStatus
<1>7. CASE UNCHANGED wheelVars  BY <1>7 DEF wheelVars
<1> QED  BY <1>1, <1>2, <1>3, <1>4, <1>5, <1>6, <1>7 DEF WheelNext, WheelInterrupt

LEMMA StepKeepsWaitsClean ==
  ASSUME CaptureTypes, ServedInTime, WaitsClean, [WheelNext]_wheelVars PROVE WaitsClean'
<1>a. ASSUME TimerTick
      PROVE  /\ counter' = IF counter + 1 = Period THEN 0 ELSE counter + 1
             /\ uif' <=> uif \/ counter + 1 = Period
             /\ uif => counter + 1 < Half
             /\ cc => gap + 1 < Half /\ gap < Longest
  BY <1>a, TickInTime
<1> USE Halves DEF CaptureTypes, ServedInTime, WaitsClean, Snapshot, wheelTimer,
      wheelIsrVars, wheelHistory
<1>1. CASE TimerTick
  <2>1. /\ cc' = cc /\ ccr' = ccr /\ wheelIsr' = wheelIsr /\ wheelStatus' = wheelStatus /\ clean' = clean
        /\ gap < Longest => gap' = gap + 1
    BY <1>1 DEF TimerTick
  <2> QED  BY <1>1, <1>a, <2>1
<1>2. CASE WheelEdge  BY <1>2 DEF WheelEdge
<1>3. CASE ReadWheelStatus  BY <1>3 DEF ReadWheelStatus
<1>4. CASE CaptureEdge  BY <1>4 DEF CaptureEdge, Extended, QuietFrom
<1>5. CASE Overflow  BY <1>5 DEF Overflow
<1>6. CASE Leave  BY <1>6 DEF Leave, NoStatus
<1>7. CASE UNCHANGED wheelVars  BY <1>7 DEF wheelVars
<1> QED  BY <1>1, <1>2, <1>3, <1>4, <1>5, <1>6, <1>7 DEF WheelNext, WheelInterrupt

LEMMA LessIsLess ==
  ASSUME NEW a \in Nat, NEW b \in Nat, NEW c \in Nat, NEW d \in Nat,
         a = b \/ b = a + Period, b + c < d
  PROVE  a + c < d
  BY Halves

\* The numbers that the provers need of the state, products kept apart.
LEMMA Numbers ==
  ASSUME CaptureTypes
  PROVE  /\ epoch \in Nat /\ epoch < Epochs /\ counter \in Nat /\ counter < Period
         /\ ccr \in Nat /\ ccr < Period /\ gap \in Nat /\ timestamp \in Nat /\ timestamp < Range
         /\ wheelInterval \in Nat /\ quietCount \in Nat /\ quietCount <= QuietOverflows
         /\ QuietOverflows \in Nat /\ QuietOverflows >= 2
         /\ Period \in Nat /\ Half \in Nat /\ Half >= 2 /\ Period = Half + Half
         /\ Range \in Nat /\ Longest \in Nat /\ Longest + Period <= Range
  BY WheelAssumption, Halves, RangeIsLonger DEF CaptureTypes

LEMMA OverflowsAre ==
  ASSUME CaptureTypes
  PROVE  /\ Overflows \in Nat
         /\ Overflows <= QuietOverflows * Period + Period
         /\ ~Uncounted => Overflows <= QuietOverflows * Period
         /\ quietCount < QuietOverflows =>
                /\ Overflows <= QuietOverflows * Period
                /\ ~Uncounted => Overflows + Period <= QuietOverflows * Period
<1> DEFINE t == quietCount * Period
           m == QuietOverflows * Period
<1>1. /\ t \in Nat /\ m \in Nat /\ t <= m
      /\ quietCount < QuietOverflows => t + Period <= m
  BY QuietTurns, RangeIsLonger
<1>2. Overflows = IF Uncounted THEN t + Period ELSE t  BY <1>1, Halves DEF Overflows
<1> HIDE DEF t, m
<1>3. /\ Overflows \in Nat /\ Overflows <= m + Period
      /\ ~Uncounted => Overflows <= m
      /\ quietCount < QuietOverflows => Overflows <= m /\ (~Uncounted => Overflows + Period <= m)
  BY <1>1, <1>2, Halves
<1> QED  BY <1>3 DEF m

\* A count of the timer is a count of the time, and of the time since the
\* overflows that are counted.
LEMMA TickAdvances ==
  ASSUME CaptureTypes, ServedInTime, TimerTick
  PROVE  /\ Now \in Nat /\ Now < Range /\ (Now' = Now + 1 \/ (Now' = 0 /\ Now + 1 = Range))
         /\ Overflows' + counter' = Overflows + counter + 1
<1> DEFINE e == At(epoch, 0)
           t == quietCount * Period
<1>1. /\ counter' = IF counter + 1 = Period THEN 0 ELSE counter + 1
      /\ uif => counter + 1 < Half
      /\ uif' <=> uif \/ counter + 1 = Period
  BY TickInTime
<1>2. /\ epoch' = epoch /\ quietCount' = quietCount /\ wheelIsr' = wheelIsr /\ wheelStatus' = wheelStatus
  BY DEF TimerTick, wheelIsrVars
<1>3. epoch \in Nat /\ epoch < Epochs /\ counter \in Nat /\ counter < Period /\ counter' \in Nat
  BY <1>1, Numbers
<1>4. /\ e \in Nat /\ e + Period <= Range /\ (epoch + 1 = Epochs => e + Period = Range)
      /\ At(epoch, counter) = e + counter
      /\ At(NextEpoch, counter) = IF epoch + 1 = Epochs THEN counter ELSE e + Period + counter
      /\ At(epoch, counter') = e + counter'
      /\ At(NextEpoch, counter') = IF epoch + 1 = Epochs THEN counter' ELSE e + Period + counter'
  BY <1>3, AtIs
<1>5. epoch + 1 # Epochs => e + Period + Period <= Range
  BY <1>3, TwoTurns
<1>6. Now' = IF uif' THEN At(NextEpoch, counter') ELSE At(epoch, counter')
  BY <1>2 DEF Now, NextEpoch
<1>7. t \in Nat /\ Period \in Nat /\ Half \in Nat /\ Half >= 2 /\ Period = Half + Half /\ Range \in Nat
  BY QuietTurns, Numbers
<1>8. /\ Overflows = IF Uncounted THEN t + Period ELSE t
      /\ Overflows' = IF Uncounted' THEN t + Period ELSE t
  BY <1>2, <1>7 DEF Overflows
<1> HIDE DEF e, t
<1>9. CASE counter + 1 = Period
  <2>1. ~uif /\ uif' /\ counter' = 0  BY <1>1, <1>2, <1>7, <1>9
  <2>2. ~Uncounted /\ Uncounted'  BY <1>2, <2>1 DEF Uncounted, ServedInTime
  <2>3. Now = e + counter /\ Now' = IF epoch + 1 = Epochs THEN 0 ELSE e + Period
    BY <1>4, <1>6, <1>7, <2>1 DEF Now
  <2> QED  BY <1>3, <1>4, <1>7, <1>8, <1>9, <2>1, <2>2, <2>3
<1>10. CASE counter + 1 # Period
  <2>1. (uif' <=> uif) /\ counter' = counter + 1  BY <1>1, <1>2, <1>3, <1>10
  <2>2. Uncounted' <=> Uncounted  BY <1>2, <2>1 DEF Uncounted
  <2>3. Overflows' + counter' = Overflows + counter + 1  BY <1>3, <1>7, <1>8, <2>1, <2>2
  <2>4. CASE uif
    <3>1. /\ Now = IF epoch + 1 = Epochs THEN counter ELSE e + Period + counter
          /\ Now' = IF epoch + 1 = Epochs THEN counter' ELSE e + Period + counter'
      BY <1>4, <1>6, <2>1, <2>4 DEF Now
    <3> QED  BY <1>3, <1>4, <1>5, <1>7, <2>1, <2>3, <3>1
  <2>5. CASE ~uif
    <3>1. Now = e + counter /\ Now' = e + counter'  BY <1>4, <1>6, <2>1, <2>5 DEF Now
    <3> QED  BY <1>3, <1>4, <1>7, <2>1, <2>3, <3>1
  <2> QED  BY <2>4, <2>5
<1> QED  BY <1>9, <1>10

\* The other steps take no time.
LEMMA NoTimePasses ==
  ASSUME CaptureTypes, ServedInTime, WheelEdge \/ WheelInterrupt \/ UNCHANGED wheelVars
  PROVE  Now' = Now /\ counter' = counter
<1>1. CASE WheelEdge \/ ReadWheelStatus \/ CaptureEdge \/ Overflow \/ UNCHANGED wheelVars
  BY <1>1 DEF WheelEdge, ReadWheelStatus, CaptureEdge, Overflow, wheelVars, wheelTimer, wheelIsrVars,
      Now, NextEpoch
<1>2. CASE Leave
  <2>1. wheelStatus.uif => uif /\ epoch' = NextEpoch /\ ~uif'
    BY <1>2 DEF Leave, ServedInTime, NextEpoch
  <2>2. ~wheelStatus.uif => (uif' <=> uif) /\ epoch' = epoch  BY <1>2 DEF Leave
  <2>3. counter' = counter  BY <1>2 DEF Leave
  <2> QED  BY <2>1, <2>2, <2>3 DEF Now, NextEpoch
<1> QED  BY <1>1, <1>2 DEF WheelInterrupt

-----------------------------------------------------------------------------
LEMMA StepKeepsCountsQuiet ==
  ASSUME CaptureTypes, ServedInTime, CountsQuiet, [WheelNext]_wheelVars PROVE CountsQuiet'
<1> DEFINE t == quietCount * Period
           PassedOn == ~cc \/ (wheelIsr = "Leave" /\ wheelStatus.cc)
<1>1. /\ counter \in Nat /\ counter < Period /\ gap \in Nat /\ quietCount \in Nat
      /\ Period \in Nat /\ Half \in Nat /\ Half >= 2 /\ Period = Half + Half
      /\ QuietOverflows \in Nat /\ QuietOverflows >= 2 /\ quietCount <= QuietOverflows
  BY Numbers
<1>2. t \in Nat /\ (quietCount = 0 => t = 0) /\ (quietCount = 1 => t = Period)
  BY <1>1, QuietTurns
<1>3. Overflows = IF Uncounted THEN t + Period ELSE t  BY <1>1, <1>2 DEF Overflows
<1>4. /\ uif => counter < Half
      /\ wheelIsr # "No" /\ wheelStatus.uif => uif
      /\ wheelIsr = "Overflow" => wheelStatus.uif /\ ~wheelStatus.cc
      /\ wheelIsr = "Capture" => wheelStatus.cc
  BY DEF ServedInTime
<1>5. /\ snapshot.flag = "Quiet" => quietCount = QuietOverflows
      /\ snapshot.flag = "Primed" => quietCount < QuietOverflows
      /\ wheelIsr = "Leave" /\ wheelStatus.cc => quietCount = 0 \/ (quietCount = 1 /\ wheelStatus.uif)
      /\ PassedOn => Overflows + counter < gap + Half + Period
  BY DEF CountsQuiet
<1>6. CASE TimerTick
  <2>1. /\ Overflows' + counter' = Overflows + counter + 1 /\ Overflows \in Nat
        /\ Overflows <= QuietOverflows * Period + Period
        /\ ~Uncounted => Overflows <= QuietOverflows * Period
        /\ QuietOverflows * Period \in Nat /\ Longest = QuietOverflows * Period + Period
        /\ uif => counter + 1 < Half
    BY <1>6, TickAdvances, OverflowsAre, RangeIsLonger, TickInTime
  <2>2. /\ snapshot' = snapshot /\ quietCount' = quietCount /\ wheelIsr' = wheelIsr
        /\ wheelStatus' = wheelStatus /\ cc' = cc /\ gap' = IF gap < Longest THEN gap + 1 ELSE gap
    BY <1>6 DEF TimerTick, wheelIsrVars
  <2>3. ASSUME PassedOn PROVE Overflows' + counter' < gap' + Half + Period
    <3>1. CASE gap < Longest  BY <1>1, <1>5, <2>1, <2>2, <2>3, <3>1
    <3>2. CASE ~(gap < Longest)
      <4>1. Uncounted => counter + 1 < Half  BY <2>1 DEF Uncounted
      <4> HIDE DEF PassedOn
      <4>2. gap' = gap /\ gap >= Longest  BY <1>1, <2>1, <2>2, <3>2
      <4> QED  BY <1>1, <2>1, <4>1, <4>2
    <3> QED  BY <3>1, <3>2
  <2> QED  BY <1>5, <2>2, <2>3 DEF CountsQuiet
<1>7. CASE WheelEdge
  <2>1. /\ snapshot' = snapshot /\ quietCount' = quietCount /\ wheelIsr' = wheelIsr
        /\ wheelStatus' = wheelStatus /\ cc' /\ gap' = 0 /\ counter' = counter /\ (uif' <=> uif)
    BY <1>7 DEF WheelEdge, wheelIsrVars
  <2>2. Overflows' = Overflows  BY <2>1 DEF Overflows, Uncounted
  <2>3. ASSUME wheelIsr = "Leave", wheelStatus.cc PROVE Overflows + counter < Half + Period
    <3>1. Uncounted => uif /\ ~wheelStatus.uif  BY <2>3 DEF Uncounted
    <3> QED  BY <1>1, <1>2, <1>3, <1>4, <1>5, <2>3, <3>1
  <2> QED  BY <1>1, <1>5, <2>1, <2>2, <2>3 DEF CountsQuiet
<1>8. CASE ReadWheelStatus
  <2>1. /\ snapshot'.flag = snapshot.flag /\ quietCount' = quietCount /\ wheelIsr = "No"
        /\ wheelIsr' # "Leave" /\ (cc' <=> cc) /\ gap' = gap /\ counter' = counter /\ (uif' <=> uif)
    BY <1>8 DEF ReadWheelStatus, wheelTimer, wheelHistory, CaptureTypes, Snapshot
  <2>2. Overflows' = Overflows  BY <2>1 DEF Overflows, Uncounted
  <2> QED  BY <1>1, <1>5, <2>1, <2>2 DEF CountsQuiet
<1>9. CASE CaptureEdge
  <2>1. /\ snapshot'.flag = "Primed" /\ quietCount' = QuietFrom(ccr) /\ wheelIsr = "Capture"
        /\ wheelIsr' = "Leave" /\ gap' = gap /\ counter' = counter /\ (uif' <=> uif)
        /\ wheelStatus' = wheelStatus
    BY <1>9 DEF CaptureEdge, Snapshot
  <2>2. quietCount' = 0 \/ (quietCount' = 1 /\ wheelStatus.uif /\ uif)
    BY <1>4, <2>1 DEF QuietFrom
  <2>3. Uncounted' => ~wheelStatus.uif /\ uif  BY <2>1 DEF Uncounted
  <2>4. Overflows' + counter' < gap' + Half + Period
    <3>1. 0 * Period = 0 /\ 1 * Period = Period  BY <1>1
    <3>2. CASE quietCount' = 0
      <4>1. Overflows' = IF Uncounted' THEN Period ELSE 0  BY <1>1, <3>1, <3>2 DEF Overflows
      <4> QED  BY <1>1, <1>4, <2>1, <2>3, <4>1
    <3>3. CASE quietCount' = 1 /\ wheelStatus.uif /\ uif
      <4>1. Overflows' = Period  BY <1>1, <2>3, <3>1, <3>3 DEF Overflows
      <4> QED  BY <1>1, <1>4, <2>1, <3>3, <4>1
    <3> QED  BY <2>2, <3>2, <3>3
  <2> QED  BY <1>1, <2>1, <2>2, <2>4 DEF CountsQuiet
<1>10. CASE Overflow
  <2>1. /\ wheelIsr = "Overflow" /\ wheelIsr' = "Leave" /\ wheelStatus' = wheelStatus
        /\ (cc' <=> cc) /\ gap' = gap /\ counter' = counter /\ (uif' <=> uif)
        /\ quietCount' = IF quietCount < QuietOverflows THEN quietCount + 1 ELSE quietCount
        /\ IF quietCount < QuietOverflows /\ quietCount' = QuietOverflows
           THEN snapshot'.flag = "Quiet" ELSE snapshot' = snapshot
    BY <1>10 DEF Overflow, wheelTimer, wheelHistory, Snapshot
  <2>2. Uncounted /\ ~Uncounted' /\ ~wheelStatus.cc  BY <1>4, <2>1 DEF Uncounted
  <2>3. (quietCount + 1) * Period = t + Period  BY <1>1, QuietTurns
  <2>4. Overflows' = Overflows \/ Overflows = Overflows' + Period
    <3>1. Overflows' = t \/ Overflows' = t + Period  BY <1>1, <1>2, <2>1, <2>2, <2>3 DEF Overflows
    <3> HIDE DEF t
    <3> QED  BY <1>1, <1>2, <1>3, <2>2, <3>1
  <2>5. ASSUME PassedOn' PROVE Overflows' + counter' < gap' + Half + Period
    <3>1. PassedOn  BY <2>1, <2>2, <2>5
    <3>2. Overflows + counter < gap + Half + Period  BY <1>5, <3>1
    <3>3. Overflows \in Nat  BY OverflowsAre
    <3>4. counter' = counter /\ gap' = gap  BY <2>1
    <3> HIDE DEF PassedOn
    <3>5. Overflows' \in Nat
      <4>1. Overflows' = t \/ Overflows' = t + Period  BY <1>1, <1>2, <2>1, <2>2, <2>3 DEF Overflows
      <4> HIDE DEF t
      <4> QED  BY <1>1, <1>2, <4>1
    <3>6. gap + Half + Period \in Nat /\ counter \in Nat  BY <1>1
    <3> HIDE DEF t
    <3>7. Overflows' + counter < gap + Half + Period  BY <2>4, <3>2, <3>3, <3>5, <3>6, LessIsLess, Zenon
    <3> QED  BY <3>4, <3>7
  <2>6. /\ snapshot'.flag = "Quiet" => quietCount' = QuietOverflows
        /\ snapshot'.flag = "Primed" => quietCount' < QuietOverflows
    BY <1>1, <1>5, <2>1
  <2> QED  BY <2>1, <2>2, <2>5, <2>6 DEF CountsQuiet
<1>11. CASE Leave
  <2>1. /\ wheelIsr = "Leave" /\ wheelIsr' = "No" /\ snapshot' = snapshot /\ quietCount' = quietCount
        /\ (uif' <=> uif /\ ~wheelStatus.uif) /\ (cc' <=> cc /\ ~wheelStatus.cc)
        /\ gap' = gap /\ counter' = counter
    BY <1>11 DEF Leave, wheelHistory
  <2>2. (Uncounted' <=> Uncounted) /\ (PassedOn' => PassedOn)  BY <2>1 DEF Uncounted
  <2>3. Overflows' = Overflows  BY <2>1, <2>2 DEF Overflows
  <2> QED  BY <1>5, <2>1, <2>2, <2>3 DEF CountsQuiet
<1>12. CASE UNCHANGED wheelVars
  <2>1. Overflows' = Overflows
    BY <1>12 DEF wheelVars, wheelTimer, wheelIsrVars, Overflows, Uncounted
  <2> QED  BY <1>12, <2>1 DEF wheelVars, wheelTimer, wheelIsrVars, wheelHistory, CountsQuiet
<1> QED  BY <1>6, <1>7, <1>8, <1>9, <1>10, <1>11, <1>12 DEF WheelNext, WheelInterrupt

\* While the wheel is not quiet, the gap is told from longer ones.
LEMMA PrimedIsRecent ==
  ASSUME CaptureInv, snapshot.flag = "Primed", clean >= 1, ~cc
  PROVE  gap < Longest
<1>1. ccr + gap = Overflows + counter  BY DEF CaptureInv, StampIsTrue
<1>2. CaptureTypes /\ quietCount < QuietOverflows  BY DEF CaptureInv, CountsQuiet
<1>3. Uncounted => counter < Half  BY DEF CaptureInv, ServedInTime, Uncounted
<1>4. /\ Overflows \in Nat /\ Overflows <= QuietOverflows * Period
      /\ ~Uncounted => Overflows + Period <= QuietOverflows * Period
      /\ QuietOverflows * Period \in Nat /\ Longest = QuietOverflows * Period + Period
  BY <1>2, OverflowsAre, RangeIsLonger
<1>5. /\ counter \in Nat /\ counter < Period /\ ccr \in Nat /\ gap \in Nat
      /\ Period \in Nat /\ Half \in Nat /\ Period = Half + Half
  BY <1>2, Numbers
<1> DEFINE m == QuietOverflows * Period
<1>6. Overflows <= m /\ (~Uncounted => Overflows + Period <= m) /\ m \in Nat /\ Longest = m + Period
  BY <1>4
<1> HIDE DEF m
<1>7. Overflows \in Nat  BY <1>4
<1> QED  BY <1>1, <1>3, <1>5, <1>6, <1>7

LEMMA StepKeepsStampIsTrue ==
  ASSUME CaptureInv, [WheelNext]_wheelVars PROVE StampIsTrue'
<1>1. CaptureTypes /\ ServedInTime /\ CountsQuiet /\ WaitsClean /\ StampIsTrue  BY DEF CaptureInv
<1>2. /\ counter \in Nat /\ ccr \in Nat /\ gap \in Nat /\ timestamp \in Nat /\ timestamp < Range
      /\ wheelInterval \in Nat /\ Range \in Nat /\ Longest \in Nat /\ Longest + Period <= Range
      /\ Period \in Nat /\ Half \in Nat /\ Period = Half + Half /\ Half >= 2
  BY <1>1, Numbers
<1>3. snapshot.flag = "Primed" /\ clean >= 1 =>
        /\ ~cc => IsAgo(timestamp, gap) /\ ccr + gap = Overflows + counter /\ gap < Longest
        /\ cc /\ clean = 2 => IsAgo(timestamp, wheelInterval + gap) /\ wheelInterval < Longest
        /\ cc => gap < Half
  BY <1>1, PrimedIsRecent DEF StampIsTrue, ServedInTime
<1>4. CASE TimerTick
  <2>1. /\ snapshot' = snapshot /\ timestamp' = timestamp /\ wheelInterval' = wheelInterval
        /\ clean' = clean /\ (cc' <=> cc) /\ ccr' = ccr
        /\ gap' = IF gap < Longest THEN gap + 1 ELSE gap
    BY <1>4 DEF TimerTick, wheelIsrVars
  <2>2. /\ Now \in Nat /\ Now < Range /\ (Now' = Now + 1 \/ (Now' = 0 /\ Now + 1 = Range))
        /\ Overflows' + counter' = Overflows + counter + 1
        /\ cc => gap + 1 < Half /\ gap < Longest
        /\ Overflows \in Nat
    BY <1>1, <1>4, TickAdvances, TickInTime, OverflowsAre
  <2>3. ASSUME snapshot.flag = "Primed", clean >= 1, ~cc
        PROVE  IsAgo(timestamp, gap)' /\ (ccr + gap = Overflows + counter)'
    <3>1. gap < Longest /\ gap' = gap + 1  BY <1>3, <2>1, <2>3
    <3>2. timestamp + gap = Now \/ timestamp + gap = Now + Range  BY <1>3, <2>3 DEF IsAgo
    <3>3. timestamp' + gap' = Now' \/ timestamp' + gap' = Now' + Range
      BY <1>2, <2>1, <2>2, <3>1, <3>2
    <3>4. ccr + gap = Overflows + counter  BY <1>3, <2>3
    <3> QED  BY <1>2, <2>1, <2>2, <3>1, <3>3, <3>4 DEF IsAgo
  <2>4. ASSUME snapshot.flag = "Primed", clean = 2, cc
        PROVE  IsAgo(timestamp, wheelInterval + gap)' /\ (wheelInterval < Longest)'
    <3>1. gap + 1 < Half /\ gap' = gap + 1 /\ wheelInterval < Longest  BY <1>3, <2>1, <2>2, <2>4
    <3>2. timestamp + wheelInterval + gap = Now \/ timestamp + wheelInterval + gap = Now + Range
      BY <1>2, <1>3, <2>4 DEF IsAgo
    <3>3. timestamp + wheelInterval + gap' = Now' \/ timestamp + wheelInterval + gap' = Now' + Range
      BY <1>2, <2>2, <3>1, <3>2
    <3> QED  BY <1>2, <2>1, <3>1, <3>3 DEF IsAgo
  <2> QED  BY <2>1, <2>3, <2>4 DEF StampIsTrue
<1>5. CASE WheelEdge
  <2>1. /\ snapshot' = snapshot /\ timestamp' = timestamp /\ cc' /\ gap' = 0 /\ Now' = Now
        /\ clean' = 2 => clean >= 1 /\ ~cc /\ wheelInterval' = gap
    BY <1>1, <1>2, <1>5, NoTimePasses DEF WheelEdge, wheelIsrVars, CaptureTypes
  <2>2. ASSUME snapshot.flag = "Primed", clean' = 2
        PROVE  IsAgo(timestamp, wheelInterval + gap)' /\ (wheelInterval < Longest)'
    BY <1>2, <1>3, <2>1, <2>2 DEF IsAgo
  <2> QED  BY <2>1, <2>2 DEF StampIsTrue
<1>6. CASE ReadWheelStatus
  <2>1. /\ snapshot'.flag = snapshot.flag /\ timestamp' = timestamp /\ (cc' <=> cc) /\ gap' = gap
        /\ clean' = clean /\ ccr' = ccr /\ wheelInterval' = wheelInterval /\ quietCount' = quietCount
        /\ counter' = counter /\ (uif' <=> uif) /\ wheelIsr = "No" /\ wheelIsr' # "Leave"
    BY <1>1, <1>6 DEF ReadWheelStatus, wheelTimer, wheelHistory, CaptureTypes, Snapshot
  <2>2. Overflows' = Overflows  BY <2>1 DEF Overflows, Uncounted
  <2>3. Now' = Now  BY <1>1, <1>6, NoTimePasses DEF WheelInterrupt
  <2> QED  BY <1>1, <2>1, <2>2, <2>3 DEF StampIsTrue, IsAgo
<1>7. CASE CaptureEdge
  <2>1. /\ snapshot'.flag = "Primed" /\ timestamp' = Extended(ccr) /\ ~cc' /\ gap' = gap
        /\ clean' = clean /\ ccr' = ccr /\ quietCount' = QuietFrom(ccr) /\ counter' = counter
        /\ (uif' <=> uif) /\ wheelIsr = "Capture" /\ wheelIsr' = "Leave" /\ wheelStatus' = wheelStatus
    BY <1>7 DEF CaptureEdge, Snapshot
  <2>2. Now' = Now  BY <1>1, <1>7, NoTimePasses DEF WheelInterrupt
  <2>3. ASSUME clean >= 1
        PROVE  IsAgo(timestamp, gap)' /\ (ccr + gap = Overflows + counter)'
    <3>1. /\ IsAgo(Extended(ccr), gap) /\ gap < Half
          /\ \/ ccr + gap = counter /\ (uif <=> wheelStatus.uif) /\ (uif => ccr < Half)
             \/ ccr + gap = counter + Period /\ uif /\ (wheelStatus.uif => ccr >= Half)
      BY <1>1, <2>1, <2>3, EdgeIsStamped
    <3>2. Uncounted' <=> uif /\ ~wheelStatus.uif  BY <2>1 DEF Uncounted
    <3>3. 0 * Period = 0 /\ 1 * Period = Period  BY <1>2
    <3>4. Overflows' = IF QuietFrom(ccr) = 1 THEN Period + (IF Uncounted' THEN Period ELSE 0)
                       ELSE IF Uncounted' THEN Period ELSE 0
      BY <1>2, <2>1, <3>3 DEF Overflows, QuietFrom
    <3>5. QuietFrom(ccr) = 1 <=> wheelStatus.uif /\ ccr >= Half  BY DEF QuietFrom
    <3>6. ccr + gap = Overflows' + counter  BY <1>2, <3>1, <3>2, <3>4, <3>5
    <3> QED  BY <2>1, <2>2, <3>1, <3>6 DEF IsAgo
  <2> QED  BY <2>1, <2>3 DEF StampIsTrue
<1>8. CASE Overflow
  <2>1. /\ wheelIsr = "Overflow" /\ wheelIsr' = "Leave" /\ wheelStatus' = wheelStatus
        /\ (cc' <=> cc) /\ gap' = gap /\ ccr' = ccr /\ counter' = counter /\ (uif' <=> uif)
        /\ timestamp' = timestamp /\ clean' = clean /\ wheelInterval' = wheelInterval
        /\ snapshot'.flag = "Primed" =>
              snapshot.flag = "Primed" /\ quietCount' = IF quietCount < QuietOverflows
                                                        THEN quietCount + 1 ELSE quietCount
    BY <1>8 DEF Overflow, wheelTimer, wheelHistory, Snapshot
  <2>2. Now' = Now  BY <1>1, <1>8, NoTimePasses DEF WheelInterrupt
  <2>3. Uncounted /\ ~Uncounted'  BY <1>1, <2>1 DEF Uncounted, ServedInTime
  <2>4. ASSUME snapshot'.flag = "Primed" PROVE Overflows' = Overflows
    <3>1. quietCount' = quietCount + 1  BY <1>1, <2>1, <2>4 DEF CountsQuiet
    <3>2. quietCount * Period \in Nat /\ (quietCount + 1) * Period = quietCount * Period + Period
      BY <1>1, QuietTurns
    <3> QED  BY <1>2, <2>3, <3>1, <3>2 DEF Overflows
  <2> QED  BY <1>1, <2>1, <2>2, <2>4 DEF StampIsTrue, IsAgo
<1>9. CASE Leave
  <2>1. /\ wheelIsr = "Leave" /\ wheelIsr' = "No" /\ snapshot' = snapshot /\ quietCount' = quietCount
        /\ (uif' <=> uif /\ ~wheelStatus.uif) /\ (cc' <=> cc /\ ~wheelStatus.cc)
        /\ gap' = gap /\ counter' = counter /\ ccr' = ccr /\ timestamp' = timestamp
        /\ clean' = clean /\ wheelInterval' = wheelInterval
    BY <1>9 DEF Leave, wheelHistory
  <2>2. Now' = Now  BY <1>1, <1>9, NoTimePasses DEF WheelInterrupt
  <2>3. Overflows' = Overflows  BY <2>1 DEF Overflows, Uncounted
  <2>4. clean >= 1 => ~cc  BY <1>1, <2>1 DEF WaitsClean
  <2> QED  BY <1>1, <2>1, <2>2, <2>3, <2>4 DEF StampIsTrue, IsAgo
<1>10. CASE UNCHANGED wheelVars
  <2>1. Overflows' = Overflows /\ Now' = Now
    BY <1>10 DEF wheelVars, wheelTimer, wheelIsrVars, Overflows, Uncounted, Now, NextEpoch
  <2> QED
    BY <1>1, <1>10, <2>1 DEF wheelVars, wheelTimer, wheelIsrVars, wheelHistory, StampIsTrue, IsAgo
<1> QED  BY <1>4, <1>5, <1>6, <1>7, <1>8, <1>9, <1>10 DEF WheelNext, WheelInterrupt

LEMMA NowIsTime == ASSUME CaptureTypes PROVE Now \in Nat
<1>1. epoch \in Nat /\ epoch < Epochs /\ counter \in Nat /\ Period \in Nat  BY Numbers
<1>2. At(epoch, counter) \in Nat /\ At(NextEpoch, counter) \in Nat
  BY <1>1, AtIs
<1> QED  BY <1>2 DEF Now

LEMMA AgoIsApart ==
  ASSUME NEW s \in Nat, NEW t \in Nat, NEW w \in Nat, NEW g \in Nat, NEW n \in Nat, NEW r \in Nat,
         s < r, t < r, w < r, s + g = n \/ s + g = n + r, t + (w + g) = n \/ t + (w + g) = n + r
  PROVE  (s - t) % r = w
<1>1. s - t = w \/ s - t = w - r  OBVIOUS
<1>2. w % r = w /\ (w - r) % r = w  OBVIOUS
<1> QED  BY <1>1, <1>2

\* A clean edge's interval is the time since the clean edge before it.
LEMMA StepKeepsIntervalInv ==
  ASSUME CaptureInv, [WheelNext]_wheelVars PROVE IntervalInv'
<1>1. CASE CaptureEdge
  <2>1. /\ snapshot' = Snapshot("Primed", Qualified(timestamp'), (snapshot.pulses + 1) % PulseCounts,
                                snapshot.overruns)
        /\ timestamp' = Extended(ccr) /\ clean' = clean /\ wheelInterval' = wheelInterval
        /\ wheelIsr = "Capture"
    BY <1>1 DEF CaptureEdge
  <2>2. snapshot'.interval = Qualified(timestamp')  BY <2>1 DEF Snapshot
  <2>3. ASSUME clean = 2, Qualified(timestamp') # 0 PROVE Qualified(timestamp') = wheelInterval
    <3>1. CaptureTypes /\ ServedInTime /\ WaitsClean /\ StampIsTrue /\ cc
      BY <2>1 DEF CaptureInv, ServedInTime
    <3>2. snapshot.flag = "Primed" /\ Qualified(timestamp') = (timestamp' - timestamp) % Range
      BY <2>3 DEF Qualified
    <3>3. IsAgo(timestamp', gap)  BY <2>1, <2>3, <3>1, EdgeIsStamped
    <3>4. IsAgo(timestamp, wheelInterval + gap) /\ wheelInterval < Longest
      BY <2>3, <3>1, <3>2 DEF StampIsTrue
    <3>5. /\ timestamp \in Nat /\ timestamp < Range /\ wheelInterval \in Nat /\ gap \in Nat
          /\ Range \in Nat /\ Longest \in Nat /\ Longest + Period <= Range /\ Period \in Nat
          /\ timestamp' \in Nat /\ timestamp' < Range
      BY <2>1, <3>1, Numbers, StampInRange
    <3>6. Now \in Nat /\ wheelInterval < Range  BY <3>1, <3>4, <3>5, NowIsTime
    <3>7. /\ timestamp' + gap = Now \/ timestamp' + gap = Now + Range
          /\ timestamp + (wheelInterval + gap) = Now \/ timestamp + (wheelInterval + gap) = Now + Range
      BY <3>3, <3>4 DEF IsAgo
    <3>8. (timestamp' - timestamp) % Range = wheelInterval
      <4>1. timestamp' < Range /\ timestamp < Range /\ wheelInterval < Range  BY <3>5, <3>6
      <4>2. timestamp' \in Nat /\ timestamp \in Nat /\ wheelInterval \in Nat /\ gap \in Nat /\ Range \in Nat
        BY <3>5
      <4> DEFINE s == timestamp'
      <4>3. s \in Nat /\ s < Range /\ (s + gap = Now \/ s + gap = Now + Range)  BY <3>7, <4>1, <4>2
      <4> HIDE DEF s
      <4>4. (s - timestamp) % Range = wheelInterval  BY <3>6, <3>7, <4>1, <4>2, <4>3, AgoIsApart
      <4> QED  BY <4>4 DEF s
    <3> QED  BY <3>2, <3>8
  <2> QED  BY <2>1, <2>2, <2>3 DEF IntervalInv
<1>2. CASE WheelEdge  BY <1>2 DEF WheelEdge, IntervalInv
<1>3. CASE TimerTick  BY <1>3 DEF CaptureInv, IntervalInv, TimerTick
<1>4. CASE ReadWheelStatus
  BY <1>4 DEF CaptureInv, CaptureTypes, Snapshot, IntervalInv, ReadWheelStatus, wheelTimer, wheelHistory
<1>5. CASE Overflow
  BY <1>5 DEF CaptureInv, IntervalInv, Overflow, wheelTimer, wheelHistory, Snapshot
<1>6. CASE Leave
  BY <1>6 DEF CaptureInv, IntervalInv, Leave, wheelHistory, WaitsClean
<1>7. CASE UNCHANGED wheelVars
  BY <1>7 DEF wheelVars, wheelTimer, wheelHistory, CaptureInv, IntervalInv
<1> QED  BY <1>1, <1>2, <1>3, <1>4, <1>5, <1>6, <1>7 DEF WheelNext, WheelInterrupt

LEMMA CaptureInvHolds == WheelSpec => []CaptureInv
<1>1. WheelInit => CaptureInv
  <2> SUFFICES ASSUME WheelInit PROVE CaptureInv  OBVIOUS
  <2>0. 0 < Range /\ 0 < Period /\ 0 < Epochs /\ Longest \in Nat /\ QuietOverflows \in Nat
    BY Halves, RangeIsLonger, WheelAssumption
  <2>1. CaptureTypes
    <3>1. /\ wheelStatus = [uif |-> wheelStatus.uif, cc |-> wheelStatus.cc, of |-> wheelStatus.of]
          /\ wheelStatus.uif \in BOOLEAN /\ wheelStatus.cc \in BOOLEAN /\ wheelStatus.of \in BOOLEAN
      BY DEF WheelInit, NoStatus
    <3>2. snapshot = Snapshot(snapshot.flag, snapshot.interval, snapshot.pulses, snapshot.overruns)
      BY DEF WheelInit, NoPulse, Snapshot
    <3>3. /\ counter \in Nat /\ counter < Period /\ ccr \in Nat /\ ccr < Period
          /\ epoch \in Nat /\ epoch < Epochs /\ timestamp \in Nat /\ timestamp < Range
          /\ quietCount \in Nat /\ quietCount <= QuietOverflows
          /\ gap \in Nat /\ wheelInterval \in Nat /\ clean \in 0..2
      BY <2>0 DEF WheelInit
    <3>4. /\ uif \in BOOLEAN /\ cc \in BOOLEAN /\ of \in BOOLEAN
          /\ wheelIsr \in {"No", "Capture", "Overflow", "Leave"}
      BY DEF WheelInit
    <3> QED  BY <3>1, <3>2, <3>3, <3>4 DEF CaptureTypes
  <2>2. snapshot.flag = "Initialized" /\ clean = 0  BY DEF WheelInit, NoPulse, Snapshot
  <2>3. Overflows = 0  BY Halves DEF WheelInit, Overflows, Uncounted
  <2>4. CountsQuiet  BY <2>2, <2>3, Halves, RangeIsLonger DEF WheelInit, CountsQuiet
  <2> QED
    BY <2>1, <2>2, <2>4, Halves
       DEF WheelInit, CaptureInv, ServedInTime, WaitsClean, StampIsTrue, IntervalInv
<1>2. CaptureInv /\ [WheelNext]_wheelVars => CaptureInv'
  BY StepKeepsCaptureTypes, StepKeepsServedInTime, StepKeepsCountsQuiet, StepKeepsWaitsClean,
     StepKeepsStampIsTrue, StepKeepsIntervalInv DEF CaptureInv
<1> QED  BY <1>1, <1>2, PTL DEF WheelSpec

\* wheel_capture.rs, TIM3: between two edges with a service each, the published
\* interval is their distance, wherever the counter overflows around them.
THEOREM WheelIntervalsAreExact == WheelSpec => []WheelIntervalIsExact
<1>1. CaptureInv => WheelIntervalIsExact
  BY DEF CaptureInv, IntervalInv, WheelIntervalIsExact
<1> QED  BY <1>1, CaptureInvHolds, PTL

\* wheel_capture.rs, TIM3: a wheel that is reported quiet has stood still.
THEOREM QuietWheelsAreStill == WheelSpec => []QuietIsStill
<1>1. ASSUME CaptureInv PROVE QuietIsStill
  <2> SUFFICES ASSUME snapshot.flag = "Quiet", wheelIsr = "No", ~cc
               PROVE  gap > (QuietOverflows - 1) * Period - Half
    BY DEF QuietIsStill
  <2> DEFINE m == QuietOverflows * Period
  <2>1. /\ quietCount = QuietOverflows /\ Overflows + counter < gap + Half + Period
    BY <1>1 DEF CaptureInv, CountsQuiet
  <2>2. /\ counter \in Nat /\ gap \in Nat /\ Period \in Nat /\ Half \in Nat /\ QuietOverflows \in Nat
    BY <1>1, Numbers DEF CaptureInv
  <2>3. m \in Nat /\ (Overflows = m \/ Overflows = m + Period)
    BY <2>1, <2>2, RangeIsLonger DEF Overflows
  <2>4. (QuietOverflows - 1) * Period = m - Period  BY <2>2
  <2> HIDE DEF m
  <2>5. gap > (m - Period) - Half
    BY <2>1, <2>2, <2>3
  <2> QED  BY <2>4, <2>5
<1> QED  BY <1>1, CaptureInvHolds, PTL
=============================================================================
