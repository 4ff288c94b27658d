------------------------------ MODULE IrisServer ------------------------------
(***************************************************************************)
(* The servers of the MPC parties (iris-mpc/src/bin/server.rs): startup    *)
(* with state sync and rollback, the main loop that receives batches from  *)
(* SQS and runs them jointly, and the result sender that persists and      *)
(* publishes.  Any party may crash between any two steps and is restarted. *)
(*                                                                         *)
(* All queues are fed in the same order by one SNS FIFO topic, so a queue  *)
(* is the constant Messages and the position head[p] of its first message  *)
(* not yet deleted.  An iris is the id of its request; what is in memory   *)
(* and which queries match is the concern of ServerActor: here memory is   *)
(* its length, and a joint run may have any outcome.                       *)
(***************************************************************************)
EXTENDS Integers, Sequences, FiniteSets

CONSTANTS Party,
          Messages,      \* the published messages, see Message
          Request,       \* signup ids
          Seed,          \* the rows every database starts with
          Dummy,         \* what a deletion writes
          MaxBatchSize,
          ChannelSize,   \* capacity of the result channel
          MaxCrashes     \* bound on crashes

Message == [kind : {"uniqueness"}, id : Request, size : Nat]
             \cup [kind : {"deletion"}, serial : Nat]
             \cup [kind : {"circuit_breaker"}, size : Nat]

ASSUME MessagesAssumption == Messages \in Seq(Message)
ASSUME SeedAssumption == Seed \in Seq(Request)
ASSUME DummyAssumption == Dummy \notin Request
ASSUME BatchAssumption == MaxBatchSize \in Nat \ {0}
ASSUME BoundsAssumption == ChannelSize \in Nat \ {0} /\ MaxCrashes \in Nat

VARIABLES
  (* persistent *)
  head,       \* SQS: first message not deleted
  sync,       \* the sync table: signup ids in the order of their marks
  rows,       \* the irises table: id -> signup id or Dummy
  results,    \* the results table
  published,  \* uniqueness results on SNS
  deleted,    \* serial ids of the deletion results on SNS
  (* lost in a crash *)
  pc,
  storeLen,   \* store_len, read at startup
  syncLen,    \* the length to roll back to
  skip,       \* skip_request_ids
  memLen,     \* entries of the in-memory database
  batchSize,  \* CURRENT_BATCH_SIZE
  batch,      \* the batch under way
  chan,       \* job results not yet sent: in the sender's hand, queued, being queued
  committed,  \* the sender has committed Head(chan) and not published all of it
  (* bound *)
  crashes

persistent == <<head, sync, rows, results, published, deleted>>
volatile == <<pc, storeLen, syncLen, skip, memLen, batchSize, batch, chan, committed>>
vars == <<persistent, volatile, crashes>>

\* Mutant: one batch of lookback.
OneBatchLookback == MaxBatchSize

MaxSyncLookback == 2 * MaxBatchSize
MaxRollback == 2 * MaxBatchSize

NoBatch == [ids |-> <<>>, deletions |-> <<>>, updated |-> 0]

\* The phases of the main loop.
Loop == {"receiving", "marked", "deleting", "submitted", "sending"}

\* One answer of a job: serial 0 stands for a match, nothing is inserted.
Answer == [id : Request, serial : Nat]

\* base is the length of the memory before the job (auxiliary).
JobResult == [answers : Seq(Answer), deletions : Seq(Nat), base : Nat]

Last(s, n) == {s[i] : i \in {j \in DOMAIN s : j > Len(s) - n}}

Clamp(n) == IF n < 1 THEN 1 ELSE IF n > MaxBatchSize THEN MaxBatchSize ELSE n

\* Mutant: the requested size is not clamped.
ResizeUnclamped(old, size) == IF size = 0 THEN old ELSE size

\* Optional batch size of a message, 0 for None.
Resize(old, size) == IF size = 0 THEN old ELSE Clamp(size)

Count(p) == Cardinality(DOMAIN rows[p])

\* get_max_serial_id fails on an empty table.
MaxSerialIs(p, n) == n \in DOMAIN rows[p] /\ \A k \in DOMAIN rows[p] : k <= n

NewIds(job) == {job.answers[i].serial : i \in DOMAIN job.answers} \ {0}

-----------------------------------------------------------------------------
Init ==
    /\ head = [p \in Party |-> 1]
    /\ sync = [p \in Party |-> <<>>]
    /\ rows = [p \in Party |-> Seed]
    /\ results = [p \in Party |-> <<>>]
    /\ published = [p \in Party |-> {}]
    /\ deleted = [p \in Party |-> {}]
    /\ pc = [p \in Party |-> "down"]
    /\ storeLen = [p \in Party |-> 0]
    /\ syncLen = [p \in Party |-> 0]
    /\ skip = [p \in Party |-> {}]
    /\ memLen = [p \in Party |-> 0]
    /\ batchSize = [p \in Party |-> MaxBatchSize]
    /\ batch = [p \in Party |-> NoBatch]
    /\ chan = [p \in Party |-> <<>>]
    /\ committed = [p \in Party |-> FALSE]
    /\ crashes = 0

\* The process ends: everything it held in memory is gone.
Exit(p) ==
    /\ pc' = [pc EXCEPT ![p] = "down"]
    /\ storeLen' = [storeLen EXCEPT ![p] = 0]
    /\ syncLen' = [syncLen EXCEPT ![p] = 0]
    /\ skip' = [skip EXCEPT ![p] = {}]
    /\ memLen' = [memLen EXCEPT ![p] = 0]
    /\ batchSize' = [batchSize EXCEPT ![p] = MaxBatchSize]
    /\ batch' = [batch EXCEPT ![p] = NoBatch]
    /\ chan' = [chan EXCEPT ![p] = <<>>]
    /\ committed' = [committed EXCEPT ![p] = FALSE]

-----------------------------------------------------------------------------
(* Startup.                                                                *)

\* Mutant: the last results are not replayed.
StartNoReplay(p) ==
    /\ pc[p] = "down"
    /\ MaxSerialIs(p, Count(p))
    /\ pc' = [pc EXCEPT ![p] = "started"]
    /\ storeLen' = [storeLen EXCEPT ![p] = Count(p)]
    /\ UNCHANGED <<persistent, syncLen, skip, memLen, batchSize, batch, chan, committed, crashes>>

\* Replay the last results, read the length of the store.
Start(p) ==
    /\ pc[p] = "down"
    /\ MaxSerialIs(p, Count(p))
    /\ pc' = [pc EXCEPT ![p] = "started"]
    /\ published' = [published EXCEPT ![p] = @ \cup Last(results[p], MaxSyncLookback)]
    /\ storeLen' = [storeLen EXCEPT ![p] = Count(p)]
    /\ UNCHANGED <<head, sync, rows, results, deleted, syncLen, skip, memLen,
                   batchSize, batch, chan, committed, crashes>>

\* sync_nccl::sync: the parties exchange lengths and deleted requests.
Sync ==
    /\ \A p \in Party : pc[p] = "started"
    /\ pc' = [p \in Party |-> "synced"]
    /\ \E n \in {storeLen[p] : p \in Party} :
          /\ \A p \in Party : n <= storeLen[p]
          /\ syncLen' = [p \in Party |-> n]
    /\ skip' = [p \in Party |-> UNION {Last(sync[q], MaxSyncLookback) : q \in Party}]
    /\ UNCHANGED <<persistent, storeLen, memLen, batchSize, batch, chan, committed, crashes>>

\* "Refusing to rollback so much".
RefuseRollback(p) ==
    /\ pc[p] = "synced"
    /\ syncLen[p] + MaxRollback < storeLen[p]
    /\ Exit(p)
    /\ UNCHANGED <<persistent, crashes>>

\* Mutant: DELETE FROM irises WHERE id >= db_len.
RollbackOneTooMany(p) ==
    /\ pc[p] = "synced"
    /\ syncLen[p] + MaxRollback >= storeLen[p]
    /\ pc' = [pc EXCEPT ![p] = "loading"]
    /\ rows' = [rows EXCEPT ![p] =
                   [k \in {i \in DOMAIN rows[p] : i < syncLen[p]} |-> rows[p][k]]]
    /\ UNCHANGED <<head, sync, results, published, deleted, storeLen, syncLen, skip, memLen,
                   batchSize, batch, chan, committed, crashes>>

\* Mutant: the rollback is only logged.
RollbackForgotten(p) ==
    /\ pc[p] = "synced"
    /\ syncLen[p] + MaxRollback >= storeLen[p]
    /\ pc' = [pc EXCEPT ![p] = "loading"]
    /\ UNCHANGED <<persistent, storeLen, syncLen, skip, memLen, batchSize, batch, chan,
                   committed, crashes>>

Rollback(p) ==
    /\ pc[p] = "synced"
    /\ syncLen[p] + MaxRollback >= storeLen[p]
    /\ pc' = [pc EXCEPT ![p] = "loading"]
    /\ rows' = [rows EXCEPT ![p] =
                   [k \in {i \in DOMAIN rows[p] : i <= syncLen[p]} |-> rows[p][k]]]
    /\ UNCHANGED <<head, sync, results, published, deleted, storeLen, syncLen, skip, memLen,
                   batchSize, batch, chan, committed, crashes>>

\* The loader counts against store_len, which is older than the rollback.
Load(p) ==
    /\ pc[p] = "loading"
    /\ DOMAIN rows[p] = 1 .. storeLen[p]
    /\ pc' = [pc EXCEPT ![p] = "ready"]
    /\ memLen' = [memLen EXCEPT ![p] = storeLen[p]]
    /\ UNCHANGED <<persistent, storeLen, syncLen, skip, batchSize, batch, chan, committed, crashes>>

\* "Not all serial_ids were loaded", "Invalid iris index".
FailLoad(p) ==
    /\ pc[p] = "loading"
    /\ DOMAIN rows[p] # 1 .. storeLen[p]
    /\ Exit(p)
    /\ UNCHANGED <<persistent, crashes>>

\* Mutant: the main loop is entered without asking the other nodes.
EnterLoopAtOnce(p) ==
    /\ pc[p] = "ready"
    /\ pc' = [pc EXCEPT ![p] = "receiving"]
    /\ UNCHANGED <<persistent, storeLen, syncLen, skip, memLen, batchSize, batch, chan,
                   committed, crashes>>

\* The other nodes answer the readiness probe.
EnterLoop(p) ==
    /\ pc[p] = "ready"
    /\ \A q \in Party : pc[q] \in {"ready"} \cup Loop
    /\ pc' = [pc EXCEPT ![p] = "receiving"]
    /\ UNCHANGED <<persistent, storeLen, syncLen, skip, memLen, batchSize, batch, chan,
                   committed, crashes>>

\* Mutant: the heartbeat does not compare the uuid, a quick restart goes unnoticed.
HeartbeatExitNoUuid(p) ==
    /\ pc[p] \notin {"down", "started"}
    /\ \E q \in Party : pc[q] = "down"
    /\ Exit(p)
    /\ UNCHANGED <<persistent, crashes>>

\* The heartbeat finds another node down or restarted and kills the server.
HeartbeatExit(p) ==
    /\ pc[p] \notin {"down", "started"}
    /\ \E q \in Party : pc[q] \in {"down", "started"}
    /\ Exit(p)
    /\ UNCHANGED <<persistent, crashes>>

Crash(p) ==
    /\ pc[p] # "down"
    /\ crashes < MaxCrashes
    /\ crashes' = crashes + 1
    /\ Exit(p)
    /\ UNCHANGED persistent

-----------------------------------------------------------------------------
(* The main loop.                                                          *)

\* A client asks to delete a serial id it has seen in a result.
Visible(m) ==
    m.kind = "deletion" =>
        \/ m.serial \in DOMAIN Seed
        \/ \E p \in Party : \E a \in published[p] : a.serial = m.serial

\* receive_batch is waiting for messages, and m is the next.
Receives(p, m) ==
    /\ pc[p] = "receiving"
    /\ Len(batch[p].ids) < batchSize[p]
    /\ head[p] \in DOMAIN Messages
    /\ m = Messages[head[p]]
    /\ Visible(m)

ReceiveCircuitBreaker(p) ==
    \E m \in {Messages[i] : i \in DOMAIN Messages} :
        /\ Receives(p, m)
        /\ m.kind = "circuit_breaker"
        /\ head' = [head EXCEPT ![p] = @ + 1]
        /\ batchSize' = [batchSize EXCEPT ![p] = Resize(@, m.size)]
        /\ UNCHANGED <<sync, rows, results, published, deleted, pc, storeLen, syncLen, skip,
                       memLen, batch, chan, committed, crashes>>

ReceiveDeletion(p) ==
    \E m \in {Messages[i] : i \in DOMAIN Messages} :
        /\ Receives(p, m)
        /\ m.kind = "deletion"
        /\ head' = [head EXCEPT ![p] = @ + 1]
        /\ batch' = [batch EXCEPT ![p].deletions = Append(@, m.serial)]
        /\ UNCHANGED <<sync, rows, results, published, deleted, pc, storeLen, syncLen, skip,
                       memLen, batchSize, chan, committed, crashes>>

\* mark_requests_deleted: one more row of the sync table, also for a request
\* that has one.
MarkRequest(p) ==
    \E m \in {Messages[i] : i \in DOMAIN Messages} :
        /\ Receives(p, m)
        /\ m.kind = "uniqueness"
        /\ pc' = [pc EXCEPT ![p] = "marked"]
        /\ sync' = [sync EXCEPT ![p] = Append(@, m.id)]
        /\ UNCHANGED <<head, rows, results, published, deleted, storeLen, syncLen, skip,
                       memLen, batchSize, batch, chan, committed, crashes>>

\* Mutant: the message is not deleted from SQS.
TakeRequestNoDelete(p) ==
    \E m \in {Messages[i] : i \in DOMAIN Messages} :
        /\ pc[p] = "marked"
        /\ head[p] \in DOMAIN Messages
        /\ m = Messages[head[p]]
        /\ m.kind = "uniqueness"
        /\ pc' = [pc EXCEPT ![p] = "receiving"]
        /\ IF m.id \in skip[p]
           THEN UNCHANGED <<batchSize, batch>>
           ELSE /\ batchSize' = [batchSize EXCEPT ![p] = Resize(@, m.size)]
                /\ batch' = [batch EXCEPT ![p].ids = Append(@, m.id)]
        /\ UNCHANGED <<head, sync, rows, results, published, deleted, storeLen, syncLen, skip,
                       memLen, chan, committed, crashes>>

\* Delete the marked message from SQS; skip it or add it to the batch.
TakeRequest(p) ==
    \E m \in {Messages[i] : i \in DOMAIN Messages} :
        /\ pc[p] = "marked"
        /\ head[p] \in DOMAIN Messages
        /\ m = Messages[head[p]]
        /\ m.kind = "uniqueness"
        /\ pc' = [pc EXCEPT ![p] = "receiving"]
        /\ head' = [head EXCEPT ![p] = @ + 1]
        /\ IF m.id \in skip[p]
           THEN UNCHANGED <<batchSize, batch>>
           ELSE /\ batchSize' = [batchSize EXCEPT ![p] = Resize(@, m.size)]
                /\ batch' = [batch EXCEPT ![p].ids = Append(@, m.id)]
        /\ UNCHANGED <<sync, rows, results, published, deleted, storeLen, syncLen, skip,
                       memLen, chan, committed, crashes>>

FinishBatch(p) ==
    /\ pc[p] = "receiving"
    /\ Len(batch[p].ids) >= batchSize[p]
    /\ pc' = [pc EXCEPT ![p] = "deleting"]
    /\ UNCHANGED <<persistent, storeLen, syncLen, skip, memLen, batchSize, batch, chan,
                   committed, crashes>>

\* process_identity_deletions: one UPDATE, which may find no row.
UpdateIris(p) ==
    /\ pc[p] = "deleting"
    /\ batch[p].updated < Len(batch[p].deletions)
    /\ LET serial == batch[p].deletions[batch[p].updated + 1]
       IN  rows' = [rows EXCEPT ![p] =
                       [k \in DOMAIN @ |-> IF k = serial THEN Dummy ELSE @[k]]]
    /\ batch' = [batch EXCEPT ![p].updated = @ + 1]
    /\ UNCHANGED <<head, sync, results, published, deleted, pc, storeLen, syncLen, skip,
                   memLen, batchSize, chan, committed, crashes>>

Submit(p) ==
    /\ pc[p] = "deleting"
    /\ batch[p].updated = Len(batch[p].deletions)
    /\ pc' = [pc EXCEPT ![p] = "submitted"]
    /\ UNCHANGED <<persistent, storeLen, syncLen, skip, memLen, batchSize, batch, chan,
                   committed, crashes>>

\* valid_entry_idxs: the positions whose shares all parties could read.
ValidEntries(n) ==
    {valid \in UNION {[1 .. l -> 1 .. n] : l \in 0 .. n} :
        \A i, j \in DOMAIN valid : i < j => valid[i] < valid[j]}

\* Mutant: indices are not made 1-based.
ZeroBasedNumberings(new, n) ==
    {f \in [new -> 0 .. n - 1] : \A i, j \in new : i < j => f[i] < f[j]}

\* The n new queries among i in new are numbered in batch order.
Numberings(new, n) ==
    {f \in [new -> 1 .. n] : /\ \A i, j \in new : i < j => f[i] < f[j]
                             /\ \A m \in 1 .. n : \E i \in new : f[i] = m}

\* What p reports for the valid entries of its batch.
Answers(p, valid, new, number) ==
    [i \in DOMAIN valid |->
        [id |-> batch[p].ids[valid[i]],
         serial |-> IF i \in new THEN memLen[p] + number[i] ELSE 0]]

\* The actors run the submitted batches together; the batches are compared by
\* length alone.  All parties open the same result: the entries new among the
\* valid ones are inserted.
ProcessBatch(valid, new, n, number) ==
    /\ \A p, q \in Party : /\ pc[p] = "submitted"
                           /\ Len(batch[p].ids) = Len(batch[q].ids)
    /\ pc' = [p \in Party |-> "sending"]
    /\ memLen' = [p \in Party |-> memLen[p] + n]
    /\ chan' = [p \in Party |->
          Append(chan[p], [answers |-> Answers(p, valid, new, number),
                           deletions |-> batch[p].deletions,
                           base |-> memLen[p]])]
    /\ UNCHANGED <<persistent, storeLen, syncLen, skip, batchSize, batch, committed, crashes>>

\* Batches of different lengths make the exchange hang until the processing
\* timeout.
ProcessingTimeout(p) ==
    /\ pc[p] = "submitted"
    /\ \E q \in Party : pc[q] = "submitted" /\ Len(batch[q].ids) # Len(batch[p].ids)
    /\ Exit(p)
    /\ UNCHANGED <<persistent, crashes>>

\* tx.send waits while the channel is full.
SendResult(p) ==
    /\ pc[p] = "sending"
    /\ Len(chan[p]) <= ChannelSize + 1
    /\ pc' = [pc EXCEPT ![p] = "receiving"]
    /\ batch' = [batch EXCEPT ![p] = NoBatch]
    /\ UNCHANGED <<persistent, storeLen, syncLen, skip, memLen, batchSize, chan, committed, crashes>>

-----------------------------------------------------------------------------
(* The result sender.                                                      *)

\* One transaction: the results and the new irises under their serial ids.
Commit(p) ==
    /\ chan[p] # <<>>
    /\ ~committed[p]
    /\ LET job == Head(chan[p])
           new == NewIds(job)
           Id(k) == job.answers[CHOOSE i \in DOMAIN job.answers : job.answers[i].serial = k].id
       IN  IF new \cap DOMAIN rows[p] = {}
           THEN /\ results' = [results EXCEPT ![p] = @ \o job.answers]
                /\ rows' = [rows EXCEPT ![p] =
                      [k \in DOMAIN rows[p] \cup new |-> IF k \in new THEN Id(k) ELSE rows[p][k]]]
                /\ committed' = [committed EXCEPT ![p] = TRUE]
                /\ UNCHANGED <<pc, storeLen, syncLen, skip, memLen, batchSize, batch, chan>>
           ELSE \* primary key violation: the task ends and the server with it
                /\ Exit(p)
                /\ UNCHANGED <<results, rows>>
    /\ UNCHANGED <<head, sync, published, deleted, crashes>>

Publish(p) ==
    /\ committed[p]
    /\ LET job == Head(chan[p])
       IN  /\ published' = [published EXCEPT ![p] =
                               @ \cup {job.answers[i] : i \in DOMAIN job.answers}]
           /\ deleted' = [deleted EXCEPT ![p] =
                             @ \cup {job.deletions[i] : i \in DOMAIN job.deletions}]
    /\ chan' = [chan EXCEPT ![p] = Tail(@)]
    /\ committed' = [committed EXCEPT ![p] = FALSE]
    /\ UNCHANGED <<head, sync, rows, results, pc, storeLen, syncLen, skip, memLen,
                   batchSize, batch, crashes>>

-----------------------------------------------------------------------------
Startup(p) ==
    Start(p) \/ RefuseRollback(p) \/ Rollback(p) \/ Load(p) \/ FailLoad(p) \/ EnterLoop(p)

MainLoop(p) ==
    \/ ReceiveCircuitBreaker(p) \/ ReceiveDeletion(p) \/ MarkRequest(p) \/ TakeRequest(p)
    \/ FinishBatch(p) \/ UpdateIris(p) \/ Submit(p) \/ SendResult(p)

ResultSender(p) == Commit(p) \/ Publish(p)

Next ==
    \/ Sync
    \/ \E len \in {Len(batch[p].ids) : p \in Party} :
       \E valid \in ValidEntries(len), n \in 0 .. len :
       \E new \in SUBSET DOMAIN valid :
       \E number \in Numberings(new, n) : ProcessBatch(valid, new, n, number)
    \/ \E p \in Party : \/ Startup(p) \/ MainLoop(p) \/ ResultSender(p)
                        \/ HeartbeatExit(p) \/ ProcessingTimeout(p) \/ Crash(p)

\* A party that is down is restarted and goes through its startup, and the
\* heartbeat runs; crashes need not happen.
Fairness ==
    /\ WF_vars(Sync)
    /\ \A p \in Party : /\ WF_vars(Startup(p))
                        /\ WF_vars(HeartbeatExit(p))

Spec == Init /\ [][Next]_vars
FairSpec == Spec /\ Fairness

-----------------------------------------------------------------------------
\* Types of the variables, in parts.
RowsOK ==
    /\ DOMAIN rows = Party
    /\ \A p \in Party : /\ DOMAIN rows[p] \subseteq Nat \ {0}
                        /\ IsFiniteSet(DOMAIN rows[p])
                        /\ rows[p] \in [DOMAIN rows[p] -> Request \cup {Dummy}]

TablesOK ==
    /\ head \in [Party -> Nat]
    /\ sync \in [Party -> Seq(Request)]
    /\ results \in [Party -> Seq(Answer)]
    /\ published \in [Party -> SUBSET Answer]
    /\ deleted \in [Party -> SUBSET Nat]

StartupOK ==
    /\ pc \in [Party -> {"down", "started", "synced", "loading", "ready"} \cup Loop]
    /\ storeLen \in [Party -> Nat]
    /\ syncLen \in [Party -> Nat]
    /\ skip \in [Party -> SUBSET Request]

JobsOK ==
    /\ memLen \in [Party -> Nat]
    /\ batchSize \in [Party -> 1 .. MaxBatchSize]
    /\ batch \in [Party -> [ids : Seq(Request), deletions : Seq(Nat), updated : Nat]]
    /\ chan \in [Party -> Seq(JobResult)]
    /\ committed \in [Party -> BOOLEAN]
    /\ crashes \in Nat
    /\ \A p \in Party : committed[p] => chan[p] # <<>>

TypeOK == RowsOK /\ TablesOK /\ StartupOK /\ JobsOK

\* Where job i of the channel of p ends, and how many rows p has committed
\* while it is in the main loop.
Upto(p, i) == IF i < Len(chan[p]) THEN chan[p][i + 1].base ELSE memLen[p]

Durable(p) ==
    IF chan[p] = <<>> THEN memLen[p]
    ELSE IF committed[p] THEN Upto(p, 1) ELSE chan[p][1].base

\* Serial ids without gaps: the rows of a party's irises table are 1 .. n; the
\* jobs in its channel continue them one after the other, up to the length of
\* the memory.  So no insert meets a primary key already taken and no restart
\* finds max_serial_id # count (server.rs: result sender, rollback, load).
SerialIdsContiguous ==
    \A p \in Party :
        /\ DOMAIN rows[p] = 1 .. Count(p)
        /\ pc[p] \in Loop => DOMAIN rows[p] = 1 .. Durable(p)
        /\ \A i \in DOMAIN chan[p] : NewIds(chan[p][i]) = chan[p][i].base + 1 .. Upto(p, i)

\* A rollback cuts only what some party lacks: while a party may still roll
\* back, no party is in the main loop, and some party has no row past the
\* length agreed in the sync (startup: sync, rollback, readiness check).
RollbackSafe ==
    /\ \A p \in Party : pc[p] = "started" => \A k \in DOMAIN rows[p] : k <= storeLen[p]
    /\ \A p \in Party : pc[p] = "synced" =>
          \E q \in Party : \A k \in DOMAIN rows[q] : k <= syncLen[p]
    /\ \A p, q \in Party : pc[p] \in Loop => pc[q] \notin {"synced", "loading"}

\* Parties that are serving agree on the length of the memory whenever they
\* are about to run a batch together, so that an index of the opened result
\* means the same entry at each (must_rollback_storage, process_batch_query).
MemoriesAligned ==
    (\A p \in Party : pc[p] = "submitted") => \A p, q \in Party : memLen[p] = memLen[q]

\* Batches that run together hold the same requests in the same order ("in
\* order to keep the same order across nodes", server.rs:409): what one party
\* took from its queue before a crash is skipped by all after the sync.
BatchesAgree ==
    (\A p, q \in Party : pc[p] = "submitted" /\ Len(batch[p].ids) = Len(batch[q].ids))
        => \A p, q \in Party : batch[p].ids = batch[q].ids

\* A committed result reaches SNS: what a crash left unpublished between the
\* commit and send_results_to_sns is replayed by the next start, before the
\* party takes part in anything.
CommittedResultsPublished ==
    \A p \in Party : pc[p] # "down" =>
        \A i \in DOMAIN results[p] :
            \/ results[p][i] \in published[p]
            \/ /\ committed[p]
               /\ \E j \in DOMAIN Head(chan[p]).answers : Head(chan[p]).answers[j] = results[p][i]

\* A request is in the database of a party at most once (each message is
\* deleted from SQS before it joins a batch).
NoDoubleInsert ==
    \A p \in Party : \A k, l \in DOMAIN rows[p] :
        rows[p][k] = rows[p][l] /\ rows[p][k] # Dummy => k = l

\* The serial ids that every party has stored.
CommonIds == {k \in UNION {DOMAIN rows[p] : p \in Party} : \A p \in Party : k \in DOMAIN rows[p]}

\* What every party has stored no rollback takes away: such a row stays at all
\* parties, and only a deletion changes it.
CommonRowsKept ==
    [][\A k \in CommonIds : \A p \in Party :
          k \in DOMAIN rows'[p] /\ rows'[p][k] \in {rows[p][k], Dummy}]_vars

\* The common rows, as one log.  Rows that disagree stay visible as such.
CommonLog ==
    [k \in CommonIds |->
        LET values == {rows[p][k] : p \in Party}
        IN  IF Dummy \in values THEN Dummy
            ELSE IF Cardinality(values) = 1 THEN CHOOSE r \in values : TRUE ELSE values]

Agreed == INSTANCE AgreedLog WITH log <- CommonLog

\* Seen from outside, the databases are one log of requests that only grows,
\* apart from erased entries.
ImplementsAgreedLog == Agreed!Spec

\* The rows p has or will commit unless it crashes.
Reach(p) == Count(p) + Cardinality(UNION {NewIds(chan[p][i]) \ DOMAIN rows[p] : i \in DOMAIN chan[p]})

WithinRollback == \A p, q \in Party : Reach(p) <= Count(q) + MaxRollback

\* Recovery: once crashes stop, and unless a result sender has fallen behind by
\* more than max_rollback entries, all parties get back into the main loop
\* (sync, rollback, and a second start when the first was refused by the loader).
Recovers ==
    (crashes = MaxCrashes /\ WithinRollback) ~> (\A p \in Party : pc[p] \in Loop)

\* A deletion reported as done has overwritten the row ("overwrite postgres db
\* with dummy values", server.rs:1529).
ReportedDeletionsDone ==
    \A p \in Party : \A k \in deleted[p] : k \in DOMAIN rows[p] => rows[p][k] = Dummy
=============================================================================
