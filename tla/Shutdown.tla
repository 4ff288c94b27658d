------------------------------- MODULE Shutdown -------------------------------
(***************************************************************************)
(* How one server stops: the main loop, the result sender, the count of    *)
(* pending batches (shutdown_handler.rs) and the monitored tasks           *)
(* (task_monitor.rs).  A panic in any task ends the process, as the crate  *)
(* is built with panic = 'abort'.                                          *)
(***************************************************************************)
EXTENDS Integers

CONSTANTS ChannelSize,  \* capacity of the channel to the result sender
          Word          \* number of values of a usize

ASSUME SizesAssumption ==
    /\ ChannelSize \in Nat \ {0}
    /\ Word \in Nat
    /\ Word > ChannelSize + 2

VARIABLES main,      \* where server_main is
          shutdown,  \* shutdown_received
          message,   \* the queue holds enough messages for a batch
          counter,   \* n_batches_pending_completion
          channel,   \* results in the channel
          sending,   \* results the sender holds and has not published, 0 or 1
          task,      \* the monitored tasks
          dropped,   \* the handle of the actor has been dropped
          outcome,   \* how the process ended
          owed       \* batches taken off the queue and not published (auxiliary)

vars == <<main, shutdown, message, counter, channel, sending, task, dropped, outcome, owed>>

\* "background": the health server, heartbeat and readiness tasks, which never end.
Task == {"actor", "sender", "background"}
Finished(t) == task[t] \in {"ok", "error", "cancelled"}
Running == outcome = "none"

\* fetch_add and fetch_sub wrap around.
Plus1(n) == IF n = Word - 1 THEN 0 ELSE n + 1
Minus1(n) == IF n = 0 THEN Word - 1 ELSE n - 1

Init ==
    /\ main = "start" /\ shutdown = FALSE /\ message = FALSE
    /\ counter = 0 /\ channel = 0 /\ sending = 0
    /\ task = [t \in Task |-> "running"]
    /\ dropped = FALSE /\ outcome = "none" /\ owed = 0

End(how) == outcome' = how /\ UNCHANGED <<main, shutdown, message, counter, channel, sending, task, dropped, owed>>

\* A step of the main task from one place to another.
Goto(from, to) == Running /\ main = from /\ main' = to

-----------------------------------------------------------------------------
(* Surroundings                                                            *)

Signal ==
    /\ Running /\ ~shutdown
    /\ shutdown' = TRUE
    /\ UNCHANGED <<main, message, counter, channel, sending, task, dropped, outcome, owed>>

Arrive ==
    /\ Running /\ ~message
    /\ message' = TRUE
    /\ UNCHANGED <<main, shutdown, counter, channel, sending, task, dropped, outcome, owed>>

\* The heartbeat panics, or the actor drops a job without an answer.
TaskPanics == Running /\ End("killed")

-----------------------------------------------------------------------------
(* The main loop                                                           *)

\* receive_batch looks at the signal once, before its first message.
BeginReceive ==
    /\ Goto("start", IF shutdown THEN "waiting" ELSE "receiving")
    /\ UNCHANGED <<shutdown, message, counter, channel, sending, task, dropped, outcome, owed>>

ReceiveBatch ==
    /\ Goto("receiving", "received")
    /\ message
    /\ message' = FALSE
    /\ owed' = owed + 1
    /\ UNCHANGED <<shutdown, counter, channel, sending, task, dropped, outcome>>

\* SQS or the store fails, or the batch is not answered in time.
FailReceive ==
    /\ Goto("receiving", "failed")
    /\ UNCHANGED <<shutdown, message, counter, channel, sending, task, dropped, outcome, owed>>

ProcessingTimeout ==
    /\ Goto("processing", "failed")
    /\ UNCHANGED <<shutdown, message, counter, channel, sending, task, dropped, outcome, owed>>

\* check_tasks, then submit_batch_query
Submit ==
    /\ Running /\ main = "received"
    /\ IF \E t \in Task : Finished(t)
       THEN End("panic")
       ELSE /\ main' = "processing"
            /\ UNCHANGED <<shutdown, message, counter, channel, sending, task, dropped, outcome, owed>>

Answer ==
    /\ Goto("processing", "answered")
    /\ UNCHANGED <<shutdown, message, counter, channel, sending, task, dropped, outcome, owed>>

\* tx.send(result) waits for room, and fails once the receiver is gone.
Send ==
    /\ Running /\ main = "answered"
    /\ \/ /\ Finished("sender")
          /\ main' = "failed"
          /\ UNCHANGED channel
       \/ /\ ~Finished("sender")
          /\ channel < ChannelSize
          /\ main' = "sent"
          /\ channel' = channel + 1
    /\ UNCHANGED <<shutdown, message, counter, sending, task, dropped, outcome, owed>>

\* The count goes up only after the result was sent.
Increment ==
    /\ Goto("sent", "start")
    /\ counter' = Plus1(counter)
    /\ UNCHANGED <<shutdown, message, channel, sending, task, dropped, outcome, owed>>

-----------------------------------------------------------------------------
(* The result sender                                                       *)

\* Mutant: the batch is counted as done when it is taken from the channel.
TakeEarly ==
    /\ Running /\ task["sender"] = "running" /\ sending = 0 /\ channel > 0
    /\ channel' = channel - 1
    /\ sending' = 1
    /\ counter' = Minus1(counter)
    /\ UNCHANGED <<main, shutdown, message, task, dropped, outcome, owed>>

Take ==
    /\ Running /\ task["sender"] = "running" /\ sending = 0 /\ channel > 0
    /\ channel' = channel - 1
    /\ sending' = 1
    /\ UNCHANGED <<main, shutdown, message, counter, task, dropped, outcome, owed>>

\* The results are stored and published, then the count goes down; it may pass
\* below zero when the main task has not raised it yet.
Publish ==
    /\ Running /\ task["sender"] = "running" /\ sending = 1
    /\ sending' = 0
    /\ counter' = Minus1(counter)
    /\ owed' = owed - 1
    /\ UNCHANGED <<main, shutdown, message, channel, task, dropped, outcome>>

\* Postgres or SNS fails: the task ends with an error and the channel is gone.
FailPublish ==
    /\ Running /\ task["sender"] = "running" /\ sending = 1
    /\ task' = [task EXCEPT !["sender"] = "error"]
    /\ sending' = 0
    /\ channel' = 0
    /\ UNCHANGED <<main, shutdown, message, counter, dropped, outcome, owed>>

-----------------------------------------------------------------------------
(* The end                                                                 *)

\* Mutant: the loop stops waiting at the last batch.
PendingDoneEarly == Running /\ main = "waiting" /\ counter <= 1 /\ End("clean")

\* wait_for_pending_batches_completion
PendingDone == Running /\ main = "waiting" /\ counter = 0 /\ End("clean")

\* Mutant: without the timeout, which is what ends the wait for a failed sender.
PendingTimeoutNever == Running /\ main = "waiting" /\ counter < 0 /\ End("timeout")

PendingTimeout == Running /\ main = "waiting" /\ counter > 0 /\ End("timeout")

DropHandle ==
    /\ Goto("failed", "aborting")
    /\ dropped' = TRUE
    /\ UNCHANGED <<shutdown, message, counter, channel, sending, task, outcome, owed>>

\* ServerActor::run returns when all handles are gone.
ActorFinishes ==
    /\ Running /\ dropped /\ ~Finished("actor")
    /\ task' = [task EXCEPT !["actor"] = "ok"]
    /\ UNCHANGED <<main, shutdown, message, counter, channel, sending, dropped, outcome, owed>>

\* TaskMonitor::abort_all: check_tasks, then abort; a blocking task runs on.
AbortAll ==
    /\ Running /\ main = "aborting"
    /\ IF \E t \in Task : Finished(t)
       THEN End("panic")
       ELSE /\ main' = "checking"
            /\ task' = [t \in Task |-> IF t = "actor" THEN task[t] ELSE "aborted"]
            /\ UNCHANGED <<shutdown, message, counter, channel, sending, dropped, outcome, owed>>

\* An aborted task stops at its next await; the channel goes with the sender.
Cancel(t) ==
    /\ Running /\ task[t] = "aborted"
    /\ task' = [task EXCEPT ![t] = "cancelled"]
    /\ IF t = "sender" THEN channel' = 0 /\ sending' = 0 ELSE UNCHANGED <<channel, sending>>
    /\ UNCHANGED <<main, shutdown, message, counter, dropped, outcome, owed>>

\* TaskMonitor::check_tasks_finished, five seconds later.
CheckTasksFinished ==
    /\ Running /\ main = "checking"
    /\ End(IF \A t \in Task : task[t] \in {"ok", "cancelled"} THEN "error" ELSE "panic")

Main ==
    \/ BeginReceive \/ ReceiveBatch \/ Submit \/ Answer \/ Send \/ Increment
    \/ PendingDone \/ PendingTimeout \/ DropHandle \/ AbortAll \/ CheckTasksFinished

Sender == Take \/ Publish \/ FailPublish

Ended == ~Running /\ UNCHANGED vars

Next ==
    \/ Signal \/ Arrive \/ TaskPanics
    \/ Main \/ FailReceive \/ ProcessingTimeout
    \/ Sender
    \/ ActorFinishes
    \/ \E t \in Task : Cancel(t)
    \/ Ended

Spec == Init /\ [][Next]_vars

\* The tasks are scheduled; publishing ends, well or not; requests keep coming.
\* Failures and signals need not happen.
FairSpec == Spec /\ WF_vars(Main) /\ WF_vars(Sender) /\ WF_vars(Arrive)

-----------------------------------------------------------------------------
InHand == IF main \in {"received", "processing", "answered"} THEN 1 ELSE 0
Uncounted == IF main = "sent" THEN 1 ELSE 0
Leaving == {"failed", "aborting", "checking"}
Pending == owed - InHand - Uncounted

\* Types; the counter may wrap around.
TypeOK ==
    /\ main \in {"start", "receiving", "received", "processing", "answered", "sent",
                 "waiting", "failed", "aborting", "checking"}
    /\ shutdown \in BOOLEAN /\ message \in BOOLEAN /\ dropped \in BOOLEAN
    /\ sending \in 0 .. 1
    /\ counter \in 0 .. Word - 1
    /\ channel \in 0 .. ChannelSize
    /\ task \in [Task -> {"running", "aborted", "ok", "error", "cancelled"}]
    /\ outcome \in {"none", "clean", "timeout", "error", "panic", "killed"}
    /\ owed \in Nat

\* A server that exits with "Pending batches count reached zero" owes nothing:
\* every batch it took off the queue has been stored and published.
CleanExitOwesNothing ==
    outcome = "clean" => owed = 0

\* The count is that of the batches sent and not published, less the one the
\* main task has yet to add, whichever of the two tasks is ahead
\* (increment_ and decrement_batches_pending_completion).
CounterFollows ==
    main \notin Leaving => counter = IF Pending < 0 THEN Word + Pending ELSE Pending

\* A server that is told to stop stops, also when its result sender has failed
\* or the channel is full (wait_for_pending_batches_completion, tx.send).
ShutdownCompletes ==
    shutdown ~> ~Running

\* "Clean up server tasks, then wait for them to finish": unless a task had
\* failed before, leaving the loop with an error does not end in check_tasks.
CleanupWaits ==
    outcome = "panic" /\ main = "aborting" => \E t \in Task : task[t] = "error"

=============================================================================
