---------------------------- MODULE ShutdownProofs ----------------------------
(***************************************************************************)
(* Proofs about Shutdown for every size of the channel and every width of  *)
(* the counter.                                                            *)
(***************************************************************************)
EXTENDS Shutdown, TLAPS

Held == channel + sending

\* What is owed is at least what the channel and the sender hold, and exactly
\* that and the batch in hand while the sender works and the loop goes on.  The
\* count of pending batches stays within a word, and is below zero only between
\* the sending of a result and its counting.
PendingInv ==
    /\ owed >= Held
    /\ main \notin Leaving =>
         /\ task["sender"] \in {"running", "error"}
         /\ task["sender"] = "running" => owed = InHand + Held
         /\ Pending >= -1 /\ Pending <= ChannelSize + 1
         /\ main = "sent" => Pending <= ChannelSize
         /\ Pending = -1 => main = "sent"

\* A clean exit was made with the count at zero and the loop behind.
CleanInv == outcome = "clean" => main = "waiting" /\ counter = 0

Inv == TypeOK /\ PendingInv /\ CounterFollows /\ CleanInv

USE DEF Task, Running, Goto, End, Leaving, InHand, Uncounted, Pending, Held

\* The invariant holds when the server starts.
LEMMA InitInv == Init => Inv
<1> SUFFICES ASSUME Init
             PROVE  Inv
  OBVIOUS
<1>0. /\ main = "start" /\ counter = 0 /\ channel = 0 /\ sending = 0 /\ owed = 0
      /\ outcome = "none" /\ task = [t \in Task |-> "running"]
  BY Zenon DEF Init
<1>1. TypeOK
  <2>1. shutdown \in BOOLEAN /\ message \in BOOLEAN /\ dropped \in BOOLEAN
    BY Zenon DEF Init
  <2>2. counter \in 0 .. Word - 1 /\ channel \in 0 .. ChannelSize /\ sending \in 0 .. 1
    BY ONLY <1>0, SizesAssumption
  <2>3. task \in [Task -> {"running", "aborted", "ok", "error", "cancelled"}]
    BY ONLY <1>0
  <2> QED
    BY ONLY <1>0, <2>1, <2>2, <2>3 DEF TypeOK
<1>2. PendingInv
  BY ONLY <1>0, SizesAssumption DEF PendingInv, InHand, Uncounted, Pending, Held, Leaving, Task
<1>3. CounterFollows
  <2>1. Pending >= 0 /\ Pending <= 0
    BY ONLY <1>0, SizesAssumption DEF Pending
  <2>2. counter = 0 /\ Pending \in Int
    BY ONLY <1>0, SizesAssumption DEF Pending
  <2> HIDE DEF Pending
  <2> QED
    BY ONLY <2>1, <2>2, SizesAssumption DEF CounterFollows
<1>4. CleanInv
  BY Zenon, <1>0 DEF CleanInv
<1> QED
  BY <1>1, <1>2, <1>3, <1>4 DEF Inv

\* Every action preserves the invariant, one step for each.
LEMMA NextInv == Inv /\ [Next]_vars => Inv'
<1> SUFFICES ASSUME Inv, [Next]_vars
             PROVE  Inv'
  OBVIOUS
<1> USE SizesAssumption DEF Inv, TypeOK, PendingInv, CounterFollows, CleanInv
<1>1. CASE Signal
  BY <1>1 DEF Signal
<1>2. CASE Arrive
  BY <1>2 DEF Arrive
<1>3. CASE TaskPanics
  BY <1>3 DEF TaskPanics
<1>4. CASE BeginReceive
  BY <1>4 DEF BeginReceive
<1>5. CASE ReceiveBatch
  <2>0. message' \in BOOLEAN
    BY Zenon, <1>5 DEF ReceiveBatch
  <2>1. TypeOK'
    BY <1>5, <2>0 DEF ReceiveBatch
  <2>2. PendingInv' /\ CounterFollows' /\ CleanInv'
    BY <1>5 DEF ReceiveBatch
  <2> QED
    BY Zenon, <2>1, <2>2 DEF Inv
<1>6. CASE Submit
  BY <1>6 DEF Submit
<1>7. CASE Answer
  BY <1>7 DEF Answer
<1>8. CASE Send
  BY <1>8 DEF Send, Finished
<1>9. CASE Increment
  BY <1>9 DEF Increment, Plus1
<1>10. CASE PendingDone
  BY <1>10 DEF PendingDone
<1>11. CASE PendingTimeout
  BY <1>11 DEF PendingTimeout
<1>12. CASE DropHandle
  BY <1>12 DEF DropHandle
<1>13. CASE AbortAll
  BY <1>13 DEF AbortAll
<1>14. CASE CheckTasksFinished
  BY <1>14 DEF CheckTasksFinished
<1>15. CASE FailReceive
  BY <1>15 DEF FailReceive
<1>16. CASE ProcessingTimeout
  BY <1>16 DEF ProcessingTimeout
<1>17. CASE Take
  BY <1>17 DEF Take
<1>18. CASE Publish
  BY <1>18 DEF Publish, Minus1
<1>19. CASE FailPublish
  BY <1>19 DEF FailPublish
<1>20. CASE ActorFinishes
  BY <1>20 DEF ActorFinishes
<1>21. ASSUME NEW t \in Task, Cancel(t)
       PROVE  Inv'
  BY <1>21 DEF Cancel
<1>22. CASE UNCHANGED vars
  BY <1>22 DEF vars
<1> QED
  BY Zenon, <1>1, <1>2, <1>3, <1>4, <1>5, <1>6, <1>7, <1>8, <1>9, <1>10, <1>11, <1>12, <1>13,
     <1>14, <1>15, <1>16, <1>17, <1>18, <1>19, <1>20, <1>21, <1>22
     DEF Next, Main, Sender, Ended

\* It holds in every reachable state.
LEMMA SpecInv == Spec => []Inv
  BY InitInv, NextInv, PTL DEF Spec

\* The count of pending batches is that of the batches sent and not published,
\* less the one the main task has yet to add (shutdown_handler.rs).
THEOREM CounterIsRight == Spec => []CounterFollows
<1>1. Inv => CounterFollows
  BY DEF Inv
<1> QED
  BY <1>1, SpecInv, PTL

\* A server that exits because no batch is pending has published all it took
\* off the queue (wait_for_pending_batches_completion).
THEOREM CleanExitIsComplete == Spec => []CleanExitOwesNothing
<1>1. Inv => CleanExitOwesNothing
  BY SizesAssumption
     DEF Inv, TypeOK, PendingInv, CounterFollows, CleanInv, CleanExitOwesNothing
<1> QED
  BY <1>1, SpecInv, PTL

===============================================================================
