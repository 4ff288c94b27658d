--------------------------- MODULE IrisServerProofs ---------------------------
(* Theorems about IrisServer, for every set of parties and every queue:    *)
(* what each action preserves, then the invariants.                        *)
EXTENDS IrisServer, FiniteSetTheorems, TLAPS

-----------------------------------------------------------------------------
(* Type correctness.                                                       *)

\* A new batch size is between 1 and the maximum.
LEMMA ResizeType ==
    ASSUME NEW old \in 1 .. MaxBatchSize, NEW size \in Nat
    PROVE  Resize(old, size) \in 1 .. MaxBatchSize
BY BatchAssumption DEF Resize, Clamp

\* The last entries of a sequence are among its values.
LEMMA LastType ==
    ASSUME NEW S, NEW s \in Seq(S), NEW n
    PROVE  Last(s, n) \subseteq S
BY DEF Last

\* What Exit leaves behind has the right type.
LEMMA ExitType ==
    ASSUME StartupOK, JobsOK, NEW p \in Party, Exit(p), crashes' \in Nat
    PROVE  StartupOK' /\ JobsOK'
<1>1. NoBatch \in [ids : Seq(Request), deletions : Seq(Nat), updated : Nat]
  BY DEF NoBatch
<1>2. StartupOK'
  BY Zenon DEF StartupOK, Exit, Loop
<1>3. committed' \in [Party -> BOOLEAN] /\ \A q \in Party : committed'[q] => chan'[q] # <<>>
  BY Zenon DEF JobsOK, Exit
<1>4. memLen' \in [Party -> Nat] /\ batchSize' \in [Party -> 1 .. MaxBatchSize]
  BY BatchAssumption DEF JobsOK, Exit
<1>5. chan' \in [Party -> Seq(JobResult)]
  BY DEF JobsOK, Exit
<1>6. batch' \in [Party -> [ids : Seq(Request), deletions : Seq(Nat), updated : Nat]]
  BY <1>1, Zenon DEF JobsOK, Exit
<1> QED
  BY Zenon, <1>2, <1>3, <1>4, <1>5, <1>6 DEF JobsOK

\* The joint run of a batch keeps the types.
LEMMA ProcessBatchType ==
    ASSUME TypeOK,
           NEW len \in {Len(batch[p].ids) : p \in Party},
           NEW valid \in ValidEntries(len), NEW n \in 0 .. len,
           NEW new \in SUBSET DOMAIN valid, NEW number \in Numberings(new, n),
           ProcessBatch(valid, new, n, number)
    PROVE  TypeOK'
<1>2. ASSUME NEW p \in Party
      PROVE  /\ Len(batch[p].ids) = len
             /\ batch[p] \in [ids : Seq(Request), deletions : Seq(Nat), updated : Nat]
  BY Zenon DEF ProcessBatch, TypeOK, JobsOK
<1>3. len \in Nat
  BY <1>2
<1>4. n \in Nat /\ memLen' \in [Party -> Nat]
  BY <1>3 DEF ProcessBatch, TypeOK, JobsOK
<1>5. PICK l \in 0 .. len : valid \in [1 .. l -> 1 .. len]
  BY <1>3, Zenon DEF ValidEntries
<1>6. ASSUME NEW p \in Party
      PROVE  chan'[p] \in Seq(JobResult) /\ chan'[p] # <<>>
  <2> DEFINE answers == Answers(p, valid, new, number)
  <2>1. DOMAIN valid = 1 .. l /\ l \in Nat
    BY <1>3, <1>5
  <2>2. ASSUME NEW i \in DOMAIN valid
        PROVE  batch[p].ids[valid[i]] \in Request
    BY <1>2, <1>5, <2>1
  <2>3. ASSUME NEW i \in DOMAIN valid
        PROVE  (IF i \in new THEN memLen[p] + number[i] ELSE 0) \in Nat
    <3>1. memLen[p] \in Nat
      BY Zenon DEF TypeOK, JobsOK
    <3>2. i \in new => number[i] \in 1 .. n
      BY Zenon DEF Numberings
    <3> QED
      BY <1>4, <3>1, <3>2
  <2>4. answers \in [1 .. l -> Answer]
    BY <2>1, <2>2, <2>3, Zenon DEF Answer, Answers
  <2>5. answers \in Seq(Answer)
    BY <2>1, <2>4
  <2>6. [answers |-> answers, deletions |-> batch[p].deletions, base |-> memLen[p]] \in JobResult
    BY <1>2, <2>5, Zenon DEF JobResult, TypeOK, JobsOK
  <2>7. chan[p] \in Seq(JobResult)
    BY Zenon DEF TypeOK, JobsOK
  <2>8. chan'[p] = Append(chan[p], [answers |-> answers, deletions |-> batch[p].deletions,
                                    base |-> memLen[p]])
    BY Zenon DEF ProcessBatch
  <2> QED
    BY <2>6, <2>7, <2>8
<1>7. chan' \in [Party -> Seq(JobResult)]
  BY <1>6, Zenon DEF ProcessBatch
<1>8. JobsOK'
  BY Zenon, <1>4, <1>6, <1>7 DEF ProcessBatch, TypeOK, JobsOK
<1>9. StartupOK'
  BY Zenon DEF ProcessBatch, TypeOK, StartupOK, Loop
<1>10. RowsOK' /\ TablesOK'
  BY Zenon DEF ProcessBatch, TypeOK, RowsOK, TablesOK, persistent
<1> QED
  BY <1>8, <1>9, <1>10, Zenon DEF TypeOK

\* The main loop keeps the types.
LEMMA MainLoopType ==
    ASSUME TypeOK, NEW p \in Party, MainLoop(p)
    PROVE  TypeOK'
<1>0. \A i \in DOMAIN Messages : Messages[i] \in Message
  BY MessagesAssumption
<1>1. CASE ReceiveCircuitBreaker(p)
  <2>1. PICK m \in {Messages[i] : i \in DOMAIN Messages} :
          /\ m.kind = "circuit_breaker"
          /\ head' = [head EXCEPT ![p] = @ + 1]
          /\ batchSize' = [batchSize EXCEPT ![p] = Resize(@, m.size)]
          /\ UNCHANGED <<sync, rows, results, published, deleted, pc, storeLen, syncLen, skip,
                         memLen, batch, chan, committed, crashes>>
    BY Zenon, <1>1 DEF ReceiveCircuitBreaker
  <2>2. m.size \in Nat
    BY <1>0, <2>1, Zenon DEF Message
  <2>3. Resize(batchSize[p], m.size) \in 1 .. MaxBatchSize
    BY Zenon, <2>2, ResizeType DEF TypeOK, JobsOK
  <2>4. JobsOK'
    BY <2>1, <2>3, Zenon DEF TypeOK, JobsOK
  <2>5. TablesOK'
    BY <2>1 DEF TypeOK, TablesOK
  <2> QED
    BY <2>1, <2>4, <2>5, Zenon DEF TypeOK, RowsOK, StartupOK
<1>2. CASE ReceiveDeletion(p)
  <2>1. PICK m \in {Messages[i] : i \in DOMAIN Messages} :
          /\ m.kind = "deletion"
          /\ head' = [head EXCEPT ![p] = @ + 1]
          /\ batch' = [batch EXCEPT ![p].deletions = Append(@, m.serial)]
          /\ UNCHANGED <<sync, rows, results, published, deleted, pc, storeLen, syncLen, skip,
                         memLen, batchSize, chan, committed, crashes>>
    BY Zenon, <1>2 DEF ReceiveDeletion
  <2>2. m.serial \in Nat
    BY <1>0, <2>1, Zenon DEF Message
  <2>3. Append(batch[p].deletions, m.serial) \in Seq(Nat)
    BY <2>2 DEF TypeOK, JobsOK
  <2>4. JobsOK'
    BY Zenon, <2>1, <2>3 DEF TypeOK, JobsOK
  <2>5. TablesOK'
    BY <2>1 DEF TypeOK, TablesOK
  <2> QED
    BY <2>1, <2>4, <2>5, Zenon DEF TypeOK, RowsOK, StartupOK
<1>3. CASE MarkRequest(p)
  <2>1. PICK m \in {Messages[i] : i \in DOMAIN Messages} :
          /\ m.kind = "uniqueness"
          /\ pc' = [pc EXCEPT ![p] = "marked"]
          /\ sync' = [sync EXCEPT ![p] = Append(@, m.id)]
          /\ UNCHANGED <<head, rows, results, published, deleted, storeLen, syncLen, skip,
                         memLen, batchSize, batch, chan, committed, crashes>>
    BY Zenon, <1>3 DEF MarkRequest
  <2>2. m.id \in Request
    BY <1>0, <2>1, Zenon DEF Message
  <2>3. Append(sync[p], m.id) \in Seq(Request)
    BY <2>2 DEF TypeOK, TablesOK
  <2>4. TablesOK'
    BY <2>1, <2>3, Zenon DEF TypeOK, TablesOK
  <2>5. StartupOK'
    BY <2>1, Zenon DEF TypeOK, StartupOK, Loop
  <2> QED
    BY <2>1, <2>4, <2>5, Zenon DEF TypeOK, RowsOK, JobsOK
<1>4. CASE TakeRequest(p)
  <2>1. PICK m \in {Messages[i] : i \in DOMAIN Messages} :
          /\ m.kind = "uniqueness"
          /\ pc' = [pc EXCEPT ![p] = "receiving"]
          /\ head' = [head EXCEPT ![p] = @ + 1]
          /\ IF m.id \in skip[p]
             THEN UNCHANGED <<batchSize, batch>>
             ELSE /\ batchSize' = [batchSize EXCEPT ![p] = Resize(@, m.size)]
                  /\ batch' = [batch EXCEPT ![p].ids = Append(@, m.id)]
          /\ UNCHANGED <<sync, rows, results, published, deleted, storeLen, syncLen, skip,
                         memLen, chan, committed, crashes>>
    BY <1>4, Zenon DEF TakeRequest
  <2>2. m.id \in Request /\ m.size \in Nat
    BY <1>0, <2>1, Zenon DEF Message
  <2>3. Append(batch[p].ids, m.id) \in Seq(Request)
    BY <2>2 DEF TypeOK, JobsOK
  <2>4. Resize(batchSize[p], m.size) \in 1 .. MaxBatchSize
    BY Zenon, <2>2, ResizeType DEF TypeOK, JobsOK
  <2>5. JobsOK'
    BY ZenonT(40), <2>1, <2>3, <2>4 DEF TypeOK, JobsOK
  <2>6. TablesOK'
    BY <2>1 DEF TypeOK, TablesOK
  <2>7. StartupOK'
    BY <2>1, Zenon DEF TypeOK, StartupOK, Loop
  <2> QED
    BY <2>1, <2>5, <2>6, <2>7, Zenon DEF TypeOK, RowsOK
<1>5. CASE FinishBatch(p)
  <2>1. StartupOK'
    BY <1>5, Zenon DEF FinishBatch, TypeOK, StartupOK, Loop
  <2> QED
    BY Zenon, <1>5, <2>1 DEF FinishBatch, TypeOK, RowsOK, TablesOK, JobsOK, persistent
<1>6. CASE UpdateIris(p)
  <2> DEFINE serial == batch[p].deletions[batch[p].updated + 1]
  <2>1. /\ rows'[p] = [k \in DOMAIN rows[p] |-> IF k = serial THEN Dummy ELSE rows[p][k]]
        /\ DOMAIN rows' = Party
        /\ \A q \in Party \ {p} : rows'[q] = rows[q]
    BY <1>6, Zenon DEF UpdateIris, TypeOK, RowsOK
  <2> HIDE DEF serial
  <2>2. RowsOK'
    BY <2>1 DEF TypeOK, RowsOK
  <2>3. JobsOK'
    <3>1. batch[p].updated + 1 \in Nat
      BY DEF TypeOK, JobsOK
    <3>2. batch' = [batch EXCEPT ![p].updated = @ + 1]
      BY <1>6, Zenon DEF UpdateIris
    <3>3. batch' \in [Party -> [ids : Seq(Request), deletions : Seq(Nat), updated : Nat]]
      BY Zenon, <3>1, <3>2 DEF TypeOK, JobsOK
    <3> QED
      BY Zenon, <1>6, <3>3 DEF UpdateIris, TypeOK, JobsOK
  <2> QED
    BY <1>6, <2>2, <2>3, Zenon DEF UpdateIris, TypeOK, TablesOK, StartupOK
<1>7. CASE Submit(p)
  <2>1. StartupOK'
    BY <1>7, Zenon DEF Submit, TypeOK, StartupOK, Loop
  <2> QED
    BY Zenon, <1>7, <2>1 DEF Submit, TypeOK, RowsOK, TablesOK, JobsOK, persistent
<1>8. CASE SendResult(p)
  <2>1. NoBatch \in [ids : Seq(Request), deletions : Seq(Nat), updated : Nat]
    BY DEF NoBatch
  <2>2. StartupOK'
    BY <1>8, Zenon DEF SendResult, TypeOK, StartupOK, Loop
  <2>3. JobsOK'
    BY Zenon, <1>8, <2>1 DEF SendResult, TypeOK, JobsOK
  <2> QED
    BY <1>8, <2>2, <2>3, Zenon DEF SendResult, TypeOK, RowsOK, TablesOK, persistent
<1> QED
  BY <1>1, <1>2, <1>3, <1>4, <1>5, <1>6, <1>7, <1>8, Zenon DEF MainLoop

\* A commit: the rows it adds, one iris for each new serial id.
LEMMA CommitRows ==
    ASSUME TypeOK, NEW p \in Party, Commit(p), NewIds(Head(chan[p])) \cap DOMAIN rows[p] = {}
    PROVE  /\ DOMAIN rows' = Party
           /\ DOMAIN rows'[p] = DOMAIN rows[p] \cup NewIds(Head(chan[p]))
           /\ \A k \in DOMAIN rows[p] : rows'[p][k] = rows[p][k]
           /\ \A k \in NewIds(Head(chan[p])) : rows'[p][k] \in Request
           /\ rows'[p] = [k \in DOMAIN rows'[p] |-> rows'[p][k]]
           /\ \A q \in Party \ {p} : rows'[q] = rows[q]
<1> DEFINE job == Head(chan[p])
           new == NewIds(job)
           Id(k) == job.answers[CHOOSE i \in DOMAIN job.answers : job.answers[i].serial = k].id
<1>1. job \in JobResult
  BY DEF Commit, TypeOK, JobsOK
<1>2. ASSUME NEW k \in new PROVE Id(k) \in Request
  <2>1. \E i \in DOMAIN job.answers : job.answers[i].serial = k
    BY Zenon DEF NewIds
  <2>2. job.answers \in Seq(Answer)
    BY <1>1, Zenon DEF JobResult
  <2>3. \A i \in DOMAIN job.answers : job.answers[i] \in Answer
    BY <2>2
  <2> QED
    BY <2>1, <2>3, Zenon DEF Answer
<1>3. rows' = [rows EXCEPT ![p] =
                 [k \in DOMAIN rows[p] \cup new |-> IF k \in new THEN Id(k) ELSE rows[p][k]]]
  BY Zenon DEF Commit
<1> HIDE DEF Id, new
<1>4. rows'[p] = [k \in DOMAIN rows[p] \cup new |-> IF k \in new THEN Id(k) ELSE rows[p][k]]
  BY <1>3, Zenon DEF TypeOK, RowsOK
<1>5. new \cap DOMAIN rows[p] = {}
  BY Zenon DEF new
<1>6. /\ DOMAIN rows' = Party
      /\ \A q \in Party \ {p} : rows'[q] = rows[q]
  BY <1>3, Zenon DEF TypeOK, RowsOK
<1>7. /\ DOMAIN rows'[p] = DOMAIN rows[p] \cup new
      /\ \A k \in DOMAIN rows[p] : rows'[p][k] = rows[p][k]
      /\ \A k \in new : rows'[p][k] \in Request
      /\ rows'[p] = [k \in DOMAIN rows'[p] |-> rows'[p][k]]
  BY <1>2, <1>4, <1>5, Zenon
<1> QED
  BY <1>6, <1>7, Zenon DEF new

-----------------------------------------------------------------------------
(* Rollbacks.                                                              *)

\* Only a party in the main loop has results to send.
SenderPhase == \A p \in Party : chan[p] # <<>> => pc[p] \in Loop

RollbackInv == RollbackSafe /\ SenderPhase

\* A party that exits, without touching the tables, endangers no rollback.
LEMMA ExitRollback ==
    ASSUME TypeOK, RollbackInv, NEW p \in Party, Exit(p), rows' = rows
    PROVE  RollbackInv'
<1>1. /\ pc' = [pc EXCEPT ![p] = "down"]
      /\ storeLen' = [storeLen EXCEPT ![p] = 0]
      /\ syncLen' = [syncLen EXCEPT ![p] = 0]
      /\ chan' = [chan EXCEPT ![p] = <<>>]
  BY Zenon DEF Exit
<1>2. RollbackSafe'
  BY <1>1, Zenon DEF TypeOK, StartupOK, RollbackInv, RollbackSafe, Loop
<1>3. SenderPhase'
  BY <1>1, Zenon DEF TypeOK, StartupOK, JobsOK, RollbackInv, SenderPhase
<1> QED
  BY <1>2, <1>3, Zenon DEF RollbackInv

\* A step inside the main loop that keeps the ids of the rows.
LEMMA LoopRollback ==
    ASSUME TypeOK, RollbackInv, NEW p \in Party, pc[p] \in Loop,
           NEW phase \in Loop, pc' = [pc EXCEPT ![p] = phase],
           \A q \in Party : DOMAIN rows'[q] = DOMAIN rows[q],
           UNCHANGED <<storeLen, syncLen, chan>>
    PROVE  RollbackInv'
<1>1. RollbackSafe'
  BY Zenon DEF TypeOK, StartupOK, RollbackInv, RollbackSafe, Loop
<1>2. SenderPhase'
  BY Zenon DEF TypeOK, StartupOK, RollbackInv, SenderPhase, Loop
<1> QED
  BY <1>1, <1>2, Zenon DEF RollbackInv

\* Every step keeps rollbacks safe.
LEMMA RollbackNext == TypeOK /\ RollbackInv /\ [Next]_vars => RollbackInv'
<1> SUFFICES ASSUME TypeOK, RollbackInv, [Next]_vars PROVE RollbackInv'
  BY Zenon
<1>1. CASE Sync
  <2>1. PICK n \in {storeLen[p] : p \in Party} : syncLen' = [p \in Party |-> n]
    BY <1>1, Zenon DEF Sync
  <2>2. PICK q \in Party : n = storeLen[q]
    BY <2>1, Zenon
  <2>3. \A k \in DOMAIN rows[q] : k <= n
    BY <1>1, <2>2, Zenon DEF Sync, RollbackInv, RollbackSafe
  <2>4. /\ pc' = [p \in Party |-> "synced"]
        /\ UNCHANGED <<rows, chan, storeLen>>
        /\ \A p \in Party : pc[p] = "started"
    BY <1>1, Zenon DEF Sync, persistent
  <2>5. RollbackSafe'
    BY <2>1, <2>3, <2>4, Zenon DEF RollbackSafe, Loop
  <2>6. SenderPhase'
    BY <2>4, Zenon DEF RollbackInv, SenderPhase, Loop
  <2> QED
    BY <2>5, <2>6, Zenon DEF RollbackInv
<1>2. ASSUME NEW valid, NEW new, NEW n, NEW number, ProcessBatch(valid, new, n, number)
      PROVE  RollbackInv'
  <2>1. /\ \A p \in Party : pc[p] = "submitted"
        /\ pc' = [p \in Party |-> "sending"]
        /\ UNCHANGED <<rows, storeLen, syncLen>>
    BY <1>2, Zenon DEF ProcessBatch, persistent
  <2> QED
    BY <2>1, Zenon DEF RollbackInv, RollbackSafe, SenderPhase, Loop
<1>3. ASSUME NEW p \in Party, Start(p) PROVE RollbackInv'
  <2>1. /\ pc[p] = "down"
        /\ \A k \in DOMAIN rows[p] : k <= Count(p)
        /\ pc' = [pc EXCEPT ![p] = "started"]
        /\ storeLen' = [storeLen EXCEPT ![p] = Count(p)]
        /\ UNCHANGED <<rows, syncLen, chan>>
    BY <1>3, Zenon DEF Start, MaxSerialIs
  <2>2. RollbackSafe'
    BY <2>1, Zenon DEF TypeOK, StartupOK, RollbackInv, RollbackSafe, Loop
  <2>3. SenderPhase'
    BY <2>1, Zenon DEF TypeOK, StartupOK, RollbackInv, SenderPhase, Loop
  <2> QED
    BY <2>2, <2>3, Zenon DEF RollbackInv
<1>4. ASSUME NEW p \in Party, Rollback(p) PROVE RollbackInv'
  <2>1. /\ pc[p] = "synced"
        /\ pc' = [pc EXCEPT ![p] = "loading"]
        /\ \A q \in Party : DOMAIN rows'[q] \subseteq DOMAIN rows[q]
        /\ UNCHANGED <<storeLen, syncLen, chan>>
    BY <1>4, Zenon DEF Rollback, TypeOK, RowsOK
  <2>2. RollbackSafe'
    BY <2>1, Zenon DEF TypeOK, StartupOK, RollbackInv, RollbackSafe, Loop
  <2>3. SenderPhase'
    BY <2>1, Zenon DEF TypeOK, StartupOK, RollbackInv, SenderPhase, Loop
  <2> QED
    BY <2>2, <2>3 DEF RollbackInv
<1>5. ASSUME NEW p \in Party, Load(p) PROVE RollbackInv'
  <2>1. /\ pc[p] = "loading"
        /\ pc' = [pc EXCEPT ![p] = "ready"]
        /\ UNCHANGED <<rows, storeLen, syncLen, chan>>
    BY <1>5, Zenon DEF Load, persistent
  <2> QED
    BY <2>1, Zenon DEF TypeOK, StartupOK, RollbackInv, RollbackSafe, SenderPhase, Loop
<1>6. ASSUME NEW p \in Party, EnterLoop(p) PROVE RollbackInv'
  <2>1. /\ \A q \in Party : pc[q] \in {"ready"} \cup Loop
        /\ pc' = [pc EXCEPT ![p] = "receiving"]
        /\ UNCHANGED <<rows, storeLen, syncLen, chan>>
    BY <1>6, Zenon DEF EnterLoop, persistent
  <2> QED
    BY <2>1, Zenon DEF TypeOK, StartupOK, RollbackInv, RollbackSafe, SenderPhase, Loop
<1>7. ASSUME NEW p \in Party, Exit(p), rows' = rows PROVE RollbackInv'
  BY <1>7, ExitRollback, Zenon
<1>8. ASSUME NEW p \in Party, MainLoop(p) PROVE RollbackInv'
  <2>1. /\ pc[p] \in Loop
        /\ \E phase \in Loop : pc' = [pc EXCEPT ![p] = phase]
        /\ UNCHANGED <<storeLen, syncLen, chan>>
    <3>1. pc = [pc EXCEPT ![p] = pc[p]]
      BY Zenon DEF TypeOK, StartupOK
    <3>2. CASE ReceiveCircuitBreaker(p) \/ ReceiveDeletion(p)
      BY <3>1, <3>2, Zenon DEF ReceiveCircuitBreaker, ReceiveDeletion, Receives, Loop
    <3>3. CASE MarkRequest(p) \/ TakeRequest(p)
      BY <3>3, Zenon DEF MarkRequest, TakeRequest, Receives, Loop
    <3>4. CASE FinishBatch(p) \/ Submit(p) \/ SendResult(p)
      BY <3>4, Zenon DEF FinishBatch, Submit, SendResult, Loop
    <3>5. CASE UpdateIris(p)
      BY <3>1, <3>5, Zenon DEF UpdateIris, Loop
    <3> QED
      BY <1>8, <3>2, <3>3, <3>4, <3>5, Zenon DEF MainLoop
  <2>2. \A q \in Party : DOMAIN rows'[q] = DOMAIN rows[q]
    <3>1. CASE UpdateIris(p)
      BY <3>1, Zenon DEF UpdateIris, TypeOK, RowsOK
    <3>2. CASE ~UpdateIris(p)
      BY <1>8, <3>2, Zenon DEF MainLoop, ReceiveCircuitBreaker, ReceiveDeletion, MarkRequest,
                        TakeRequest, FinishBatch, Submit, SendResult, persistent
    <3> QED
      BY <3>1, <3>2, Zenon
  <2> QED
    BY Zenon, <2>1, <2>2, LoopRollback
<1>9. ASSUME NEW p \in Party, Commit(p), NewIds(Head(chan[p])) \cap DOMAIN rows[p] = {}
      PROVE  RollbackInv'
  <2>1. /\ chan[p] # <<>>
        /\ UNCHANGED <<pc, storeLen, syncLen, chan>>
    BY Zenon, <1>9 DEF Commit
  <2>2. pc[p] \in Loop
    BY <2>1, Zenon DEF RollbackInv, SenderPhase
  <2>3. \A q \in Party \ {p} : rows'[q] = rows[q]
    BY Zenon, <1>9, CommitRows
  <2> QED
    BY <2>1, <2>2, <2>3, Zenon DEF RollbackInv, RollbackSafe, SenderPhase, Loop
<1>10. ASSUME NEW p \in Party, Publish(p) PROVE RollbackInv'
  <2>1. /\ committed[p]
        /\ chan' = [chan EXCEPT ![p] = Tail(@)]
        /\ UNCHANGED <<pc, rows, storeLen, syncLen>>
    BY <1>10, Zenon DEF Publish
  <2>2. chan[p] # <<>>
    BY <2>1, Zenon DEF TypeOK, JobsOK
  <2> QED
    BY ZenonT(30), <2>1, <2>2 DEF TypeOK, JobsOK, RollbackInv, RollbackSafe, SenderPhase
<1>11. CASE UNCHANGED vars
  BY <1>11, Zenon DEF vars, persistent, volatile, RollbackInv, RollbackSafe, SenderPhase
<1>12. ASSUME NEW p \in Party, Startup(p) PROVE RollbackInv'
  BY <1>3, <1>4, <1>5, <1>6, <1>7, <1>12, Zenon DEF Startup, RefuseRollback, FailLoad, persistent
<1>13. ASSUME NEW p \in Party, ResultSender(p) PROVE RollbackInv'
  BY Zenon, <1>7, <1>9, <1>10, <1>13 DEF ResultSender, Commit
<1>14. ASSUME NEW p \in Party, HeartbeatExit(p) \/ ProcessingTimeout(p) \/ Crash(p)
       PROVE  RollbackInv'
  BY <1>7, <1>14, Zenon DEF HeartbeatExit, ProcessingTimeout, Crash, persistent
<1> QED
  BY <1>1, <1>2, <1>8, <1>11, <1>12, <1>13, <1>14, Zenon DEF Next

\* The initial state satisfies the rollback invariant.
LEMMA RollbackInit == Init => RollbackInv
BY Zenon DEF Init, RollbackInv, RollbackSafe, SenderPhase, Loop

\* One step keeps the rows that all parties have.
LEMMA CommonRowsStep ==
    ASSUME TypeOK, RollbackInv, [Next]_vars, NEW k \in CommonIds, NEW p \in Party
    PROVE  k \in DOMAIN rows'[p] /\ rows'[p][k] \in {rows[p][k], Dummy}
<1>0. \A q \in Party : k \in DOMAIN rows[q]
  BY Zenon DEF CommonIds
<1>1. CASE rows' = rows
  BY <1>0, <1>1, Zenon
<1>2. ASSUME NEW q \in Party, Rollback(q)
      PROVE  k \in DOMAIN rows'[p] /\ rows'[p][k] \in {rows[p][k], Dummy}
  <2>1. pc[q] = "synced"
    BY <1>2, Zenon DEF Rollback
  <2>2. PICK r \in Party : \A i \in DOMAIN rows[r] : i <= syncLen[q]
    BY <2>1, Zenon DEF RollbackInv, RollbackSafe
  <2>3. k <= syncLen[q]
    BY <1>0, <2>2, Zenon
  <2>4. rows' = [rows EXCEPT ![q] =
                   [j \in {i \in DOMAIN rows[q] : i <= syncLen[q]} |-> rows[q][j]]]
    BY <1>2, Zenon DEF Rollback
  <2> QED
    BY <1>0, <2>3, <2>4, Zenon DEF TypeOK, RowsOK
<1>3. ASSUME NEW q \in Party, UpdateIris(q)
      PROVE  k \in DOMAIN rows'[p] /\ rows'[p][k] \in {rows[p][k], Dummy}
  BY <1>0, <1>3, Zenon DEF UpdateIris, TypeOK, RowsOK
<1>4. ASSUME NEW q \in Party, Commit(q)
      PROVE  k \in DOMAIN rows'[p] /\ rows'[p][k] \in {rows[p][k], Dummy}
  <2>1. CASE NewIds(Head(chan[q])) \cap DOMAIN rows[q] = {}
    BY ZenonT(40), <1>0, <1>4, <2>1, CommitRows
  <2>2. CASE NewIds(Head(chan[q])) \cap DOMAIN rows[q] # {}
    BY Zenon, <1>1, <1>4, <2>2 DEF Commit
  <2> QED
    BY <2>1, <2>2, Zenon
<1>5. \/ rows' = rows
      \/ \E q \in Party : Rollback(q) \/ UpdateIris(q) \/ Commit(q)
  BY ZenonT(40) DEF Next, vars, persistent, Sync, ProcessBatch, Startup, MainLoop, ResultSender, Start,
         RefuseRollback, Load, FailLoad, EnterLoop, ReceiveCircuitBreaker, ReceiveDeletion,
         MarkRequest, TakeRequest, FinishBatch, Submit, SendResult, Publish, HeartbeatExit,
         ProcessingTimeout, Crash
<1> QED
  BY <1>1, <1>2, <1>3, <1>4, <1>5, Zenon

-----------------------------------------------------------------------------
(* Serial ids.                                                             *)

\* The serial ids of one party, in inductive form.
SerialsOf(p) ==
    /\ \E n \in Nat : DOMAIN rows[p] = 1 .. n
    /\ pc[p] = "ready" => DOMAIN rows[p] = 1 .. memLen[p]
    /\ pc[p] \in Loop => DOMAIN rows[p] = 1 .. Durable(p)
    /\ \A i \in 1 .. Len(chan[p]) :
          /\ NewIds(chan[p][i]) = chan[p][i].base + 1 .. Upto(p, i)
          /\ chan[p][i].base <= Upto(p, i)

SerialInv == \A p \in Party : SerialsOf(p)

\* What Append does to length and entries.
LEMMA AppendEntries ==
    ASSUME NEW S, NEW s \in Seq(S), NEW e, NEW t, t = Append(s, e)
    PROVE  /\ Len(t) = Len(s) + 1
           /\ \A i \in 1 .. Len(s) : t[i] = s[i]
           /\ t[Len(s) + 1] = e
           /\ t # <<>>
OBVIOUS

\* The channel of a party holds jobs with a natural base, and ends of jobs are
\* natural numbers.
LEMMA UptoType ==
    ASSUME TypeOK, NEW p \in Party
    PROVE  /\ chan[p] \in Seq(JobResult)
           /\ Len(chan[p]) \in Nat
           /\ memLen[p] \in Nat
           /\ \A i \in 1 .. Len(chan[p]) : chan[p][i].base \in Nat
           /\ \A i \in 1 .. Len(chan[p]) : Upto(p, i) \in Nat
           /\ Durable(p) \in Nat
<1>1. chan[p] \in Seq(JobResult) /\ Len(chan[p]) \in Nat /\ memLen[p] \in Nat
  BY DEF TypeOK, JobsOK
<1>2. ASSUME NEW i \in 1 .. Len(chan[p]) PROVE chan[p][i].base \in Nat
  <2>1. chan[p][i] \in JobResult
    BY <1>1
  <2> QED
    BY <2>1, Zenon DEF JobResult
<1>3. \A i \in 1 .. Len(chan[p]) : Upto(p, i) \in Nat
  BY <1>1, <1>2 DEF Upto
<1>4. chan[p] # <<>> => 1 \in 1 .. Len(chan[p])
  BY <1>1
<1>5. Durable(p) \in Nat
  BY <1>1, <1>2, <1>3, <1>4, Zenon DEF Durable
<1> QED
  BY <1>1, <1>2, <1>3, <1>5, Zenon

\* A step that leaves a party's ids, memory and channel alone and does not move
\* it into readiness or into the main loop.
LEMMA SerialsFrame ==
    ASSUME TypeOK, NEW p \in Party, SerialsOf(p),
           DOMAIN rows'[p] = DOMAIN rows[p], chan'[p] = chan[p], memLen'[p] = memLen[p],
           committed'[p] = committed[p],
           pc'[p] = "ready" => pc[p] = "ready",
           pc'[p] \in Loop => pc[p] \in Loop
    PROVE  SerialsOf(p)'
<1>1. Durable(p)' = Durable(p) /\ \A i \in 1 .. Len(chan[p]) : Upto(p, i)' = Upto(p, i)
  BY Zenon DEF Durable, Upto
<1>2. Loop' = Loop
  BY Zenon DEF Loop
<1> QED
  BY SMTT(30), Z3, <1>1, <1>2 DEF SerialsOf, NewIds

\* A party that exits, without touching the tables.
LEMMA SerialsExit ==
    ASSUME TypeOK, NEW p \in Party, SerialInv, Exit(p), rows' = rows
    PROVE  SerialInv'
<1>1. ASSUME NEW q \in Party, q # p PROVE SerialsOf(q)'
  <2>1. /\ chan'[q] = chan[q] /\ memLen'[q] = memLen[q]
        /\ committed'[q] = committed[q] /\ pc'[q] = pc[q]
    BY <1>1, Zenon DEF Exit, TypeOK, JobsOK, StartupOK
  <2> QED
    BY <2>1, SerialsFrame, Zenon DEF SerialInv
<1>2. SerialsOf(p)'
  <2>1. chan'[p] = <<>> /\ pc'[p] = "down"
    BY Zenon DEF Exit, TypeOK, JobsOK, StartupOK
  <2> QED
    BY <2>1 DEF SerialInv, SerialsOf, Loop
<1> QED
  BY <1>1, <1>2, Zenon DEF SerialInv

\* The joint run appends one job to every channel.
LEMMA SerialsProcessBatch ==
    ASSUME TypeOK, SerialInv,
           NEW len \in {Len(batch[p].ids) : p \in Party},
           NEW valid \in ValidEntries(len), NEW n \in 0 .. len,
           NEW new \in SUBSET DOMAIN valid, NEW number \in Numberings(new, n),
           ProcessBatch(valid, new, n, number)
    PROVE  SerialInv'
<1> SUFFICES ASSUME NEW p \in Party PROVE SerialsOf(p)'
  BY Zenon DEF SerialInv
<1>1. len \in Nat /\ n \in Nat
  BY DEF TypeOK, JobsOK
<1> DEFINE job == [answers |-> Answers(p, valid, new, number),
                   deletions |-> batch[p].deletions, base |-> memLen[p]]
<1>2. /\ chan'[p] = Append(chan[p], job)
      /\ memLen'[p] = memLen[p] + n
      /\ pc[p] = "submitted" /\ pc'[p] = "sending"
      /\ UNCHANGED <<rows, committed>>
  BY Zenon DEF ProcessBatch, persistent
<1>3. SerialsOf(p)
  BY Zenon DEF SerialInv
<1>4. /\ chan[p] \in Seq(JobResult) /\ Len(chan[p]) \in Nat /\ memLen[p] \in Nat
      /\ \A i \in 1 .. Len(chan[p]) : chan[p][i].base \in Nat /\ Upto(p, i) \in Nat
  BY ZenonT(40), UptoType
<1>5. NewIds(job) = memLen[p] + 1 .. memLen[p] + n
  <2>1. \A i \in new : number[i] \in 1 .. n
    BY Zenon DEF Numberings
  <2>2. \A m \in 1 .. n : \E i \in new : number[i] = m
    BY Zenon DEF Numberings
  <2>3. NewIds(job) = {IF i \in new THEN memLen[p] + number[i] ELSE 0 : i \in DOMAIN valid} \ {0}
    BY Zenon DEF NewIds, Answers
  <2>4. ASSUME NEW k \in NewIds(job) PROVE k \in memLen[p] + 1 .. memLen[p] + n
    <3>1. PICK i \in DOMAIN valid : k = IF i \in new THEN memLen[p] + number[i] ELSE 0
      BY <2>3, Zenon
    <3>2. i \in new /\ k = memLen[p] + number[i]
      BY <2>3, <3>1, Zenon
    <3>3. number[i] \in 1 .. n
      BY <2>1, <3>2, Zenon
    <3>4. memLen[p] \in Nat /\ n \in Nat
      BY Zenon, <1>1, <1>4
    <3>5. number[i] \in Int /\ 1 <= number[i] /\ number[i] <= n
      BY ONLY <3>3, <3>4
    <3> QED
      BY ONLY <3>2, <3>4, <3>5
  <2>5. ASSUME NEW k \in memLen[p] + 1 .. memLen[p] + n PROVE k \in NewIds(job)
    <3>1. k - memLen[p] \in 1 .. n
      BY <1>1, <1>4
    <3>2. PICK i \in new : number[i] = k - memLen[p]
      BY <2>2, <3>1, Zenon
    <3>3. k = memLen[p] + number[i] /\ k # 0 /\ i \in DOMAIN valid
      BY SMTT(30), Z3, <1>4, <3>2
    <3> QED
      BY <2>3, <3>3, Zenon
  <2> QED
    BY ZenonT(40), <2>4, <2>5
<1> HIDE DEF job
<1>6. job.base = memLen[p]
  BY Zenon DEF job
<1>7. /\ Len(chan'[p]) = Len(chan[p]) + 1
      /\ \A i \in 1 .. Len(chan[p]) : chan'[p][i] = chan[p][i]
      /\ chan'[p][Len(chan[p]) + 1] = job
      /\ chan'[p] # <<>>
  <2>1. chan[p] \in Seq(JobResult)
    BY <1>4, Zenon
  <2>2. chan'[p] = Append(chan[p], job)
    BY <1>2, Zenon
  <2> QED
    BY ONLY SMTT(30), Z3, <2>1, <2>2, AppendEntries
<1>8. ASSUME NEW i \in 1 .. Len(chan[p]) PROVE Upto(p, i)' = Upto(p, i)
  <2>1. CASE i < Len(chan[p])
    <3>1. i + 1 \in 1 .. Len(chan[p]) /\ i < Len(chan'[p])
      BY <1>4, <1>7, <2>1
    <3>2. chan'[p][i + 1] = chan[p][i + 1]
      BY <1>7, <3>1, Zenon
    <3> QED
      BY <2>1, <3>1, <3>2, Zenon DEF Upto
  <2>2. CASE i = Len(chan[p])
    BY <1>4, <1>6, <1>7, <2>2 DEF Upto
  <2> QED
    BY <1>4, <2>1, <2>2
<1>9. ASSUME NEW i, i = Len(chan[p]) + 1 PROVE Upto(p, i)' = memLen[p] + n
  BY <1>2, <1>4, <1>7, <1>9 DEF Upto
<1>10. Durable(p)' = Durable(p)
  <2>1. CASE chan[p] = <<>>
    <3>1. Len(chan[p]) = 0 /\ ~committed[p] /\ chan'[p][1] = job
      BY <1>7, <2>1 DEF TypeOK, JobsOK
    <3> QED
      BY <1>2, <1>6, <1>7, <2>1, <3>1, Zenon DEF Durable
  <2>2. CASE chan[p] # <<>>
    <3>1. 1 \in 1 .. Len(chan[p])
      BY SMTT(30), Z3, <1>4, <2>2
    <3> QED
      BY <1>2, <1>7, <1>8, <2>2, <3>1, Zenon DEF Durable
  <2> QED
    BY <2>1, <2>2, Zenon
<1>11. ASSUME NEW i \in 1 .. Len(chan'[p])
       PROVE  /\ NewIds(chan'[p][i]) = chan'[p][i].base + 1 .. Upto(p, i)'
              /\ chan'[p][i].base <= Upto(p, i)'
  <2>1. CASE i \in 1 .. Len(chan[p])
    BY Zenon, <1>3, <1>7, <1>8, <2>1 DEF SerialsOf
  <2>2. CASE i = Len(chan[p]) + 1
    <3>1. chan'[p][i] = job
      BY Zenon, <1>7, <2>2
    <3>2. Upto(p, i)' = memLen[p] + n
      BY Zenon, <1>9, <2>2
    <3>3. memLen[p] <= memLen[p] + n
      BY <1>1, <1>4
    <3> QED
      BY Zenon, <1>5, <1>6, <3>1, <3>2, <3>3
  <2> QED
    BY <1>4, <1>7, <2>1, <2>2
<1>12. pc[p] \in Loop
  BY <1>2, Zenon DEF Loop
<1> QED
  BY Zenon, <1>2, <1>3, <1>10, <1>11, <1>12 DEF SerialsOf, NewIds

\* A commit moves the rows of the first job into the table.
LEMMA SerialsCommit ==
    ASSUME TypeOK, RollbackInv, SerialInv, NEW p \in Party, Commit(p)
    PROVE  SerialInv'
<1> DEFINE job == Head(chan[p])
<1>0. chan[p] # <<>> /\ ~committed[p] /\ pc[p] \in Loop /\ SerialsOf(p)
  BY Zenon DEF Commit, RollbackInv, SenderPhase, SerialInv
<1>1. /\ chan[p] \in Seq(JobResult) /\ Len(chan[p]) \in Nat /\ 1 \in 1 .. Len(chan[p])
      /\ job = chan[p][1]
      /\ chan[p][1].base \in Nat /\ Upto(p, 1) \in Nat
  BY SMTT(30), Z3, <1>0, UptoType
<1>2. /\ DOMAIN rows[p] = 1 .. job.base
      /\ NewIds(job) = job.base + 1 .. Upto(p, 1)
      /\ job.base <= Upto(p, 1)
  BY <1>0, <1>1, Zenon DEF SerialsOf, Durable
<1>3. NewIds(job) \cap DOMAIN rows[p] = {}
  BY <1>1, <1>2
<1>4. /\ DOMAIN rows'[p] = DOMAIN rows[p] \cup NewIds(job)
      /\ \A q \in Party \ {p} : rows'[q] = rows[q]
  BY ZenonT(40), <1>3, CommitRows
<1>5. DOMAIN rows'[p] = 1 .. Upto(p, 1)
  BY <1>1, <1>2, <1>4
<1>6. /\ committed' = [committed EXCEPT ![p] = TRUE]
      /\ UNCHANGED <<pc, memLen, chan>>
  BY Zenon, <1>3 DEF Commit
<1>7. ASSUME NEW q \in Party, q # p PROVE SerialsOf(q)'
  <2>1. committed'[q] = committed[q]
    BY <1>6, <1>7, Zenon DEF TypeOK, JobsOK
  <2> QED
    BY Zenon, <1>4, <1>6, <1>7, <2>1, SerialsFrame DEF SerialInv
<1>8. SerialsOf(p)'
  <2>1. committed'[p]
    BY <1>6, Zenon DEF TypeOK, JobsOK
  <2>2. \A i \in 1 .. Len(chan[p]) : Upto(p, i)' = Upto(p, i)
    BY <1>6, Zenon DEF Upto
  <2>3. Durable(p)' = Upto(p, 1)
    BY <1>0, <1>1, <1>6, <2>1, <2>2, Zenon DEF Durable
  <2>4. pc'[p] # "ready"
    BY <1>0, <1>6, Zenon DEF Loop
  <2> QED
    <3>1. \E n \in Nat : DOMAIN rows'[p] = 1 .. n
      BY Zenon, <1>1, <1>5
    <3>2. DOMAIN rows'[p] = 1 .. Durable(p)'
      BY Zenon, <1>5, <2>3
    <3>3. \A i \in 1 .. Len(chan[p]) :
             /\ NewIds(chan[p][i]) = chan[p][i].base + 1 .. Upto(p, i)'
             /\ chan[p][i].base <= Upto(p, i)'
      BY Zenon, <1>0, <2>2 DEF SerialsOf
    <3> QED
      BY Zenon, <1>6, <2>4, <3>1, <3>2, <3>3 DEF SerialsOf, NewIds
<1> QED
  BY <1>7, <1>8, Zenon DEF SerialInv

\* The empty sequence is the one of length 0.
LEMMA EmptyEntries ==
    ASSUME NEW S, NEW s \in Seq(S)
    PROVE  s = <<>> <=> Len(s) = 0
<1>1. s = <<>> => Len(s) = 0
  OBVIOUS
<1>2. ASSUME Len(s) = 0 PROVE s = <<>>
  <2>1. s = [i \in 1 .. 0 |-> s[i]]
    BY <1>2
  <2>2. 1 .. 0 = {}
    OBVIOUS
  <2> QED
    BY <2>1, <2>2
<1> QED
  BY <1>1, <1>2, Zenon

\* What Tail leaves of a nonempty sequence.
LEMMA TailEntries ==
    ASSUME NEW S, NEW s \in Seq(S), s # <<>>
    PROVE  /\ Len(s) \in Nat /\ Len(s) >= 1
           /\ Tail(s) \in Seq(S)
           /\ Len(Tail(s)) = Len(s) - 1
           /\ \A i \in 1 .. Len(Tail(s)) : Tail(s)[i] = s[i + 1]
           /\ Tail(s) = <<>> <=> Len(s) = 1
<1>1. Len(s) \in Nat /\ Len(s) >= 1
  OBVIOUS
<1>2. /\ Tail(s) \in Seq(S) /\ Len(Tail(s)) = Len(s) - 1
      /\ \A i \in 1 .. Len(Tail(s)) : Tail(s)[i] = s[i + 1]
  OBVIOUS
<1>3. Tail(s) = <<>> <=> Len(Tail(s)) = 0
  BY ZenonT(30), <1>2, EmptyEntries
<1> QED
  BY <1>1, <1>2, <1>3

\* A publication drops the first job, which is committed.
LEMMA SerialsPublish ==
    ASSUME TypeOK, RollbackInv, SerialInv, NEW p \in Party, Publish(p)
    PROVE  SerialInv'
<1>0. /\ committed[p] /\ chan[p] # <<>> /\ pc[p] \in Loop /\ SerialsOf(p)
      /\ chan' = [chan EXCEPT ![p] = Tail(@)]
      /\ committed' = [committed EXCEPT ![p] = FALSE]
      /\ UNCHANGED <<rows, pc, memLen>>
  BY Zenon DEF Publish, TypeOK, JobsOK, RollbackInv, SenderPhase, SerialInv
<1>1. ASSUME NEW q \in Party, q # p PROVE SerialsOf(q)'
  <2>1. committed'[q] = committed[q] /\ chan'[q] = chan[q]
    BY <1>0, <1>1, Zenon DEF TypeOK, JobsOK
  <2> QED
    BY ZenonT(40), <1>0, <2>1, SerialsFrame DEF SerialInv
<1>2. /\ chan[p] \in Seq(JobResult) /\ Len(chan[p]) \in Nat /\ 1 \in 1 .. Len(chan[p])
      /\ \A i \in 1 .. Len(chan[p]) : chan[p][i].base \in Nat /\ Upto(p, i) \in Nat
  BY <1>0, UptoType
<1>3. /\ chan'[p] = Tail(chan[p]) /\ ~committed'[p]
  BY <1>0, Zenon DEF TypeOK, JobsOK
<1>4. /\ Len(chan'[p]) = Len(chan[p]) - 1
      /\ \A i \in 1 .. Len(chan'[p]) : chan'[p][i] = chan[p][i + 1]
      /\ chan'[p] = <<>> <=> Len(chan[p]) = 1
  <2>1. chan[p] \in Seq(JobResult) /\ chan[p] # <<>>
    BY Zenon, <1>0, <1>2
  <2>2. /\ Len(Tail(chan[p])) = Len(chan[p]) - 1
        /\ \A i \in 1 .. Len(Tail(chan[p])) : Tail(chan[p])[i] = chan[p][i + 1]
        /\ Tail(chan[p]) = <<>> <=> Len(chan[p]) = 1
    BY ONLY <2>1, TailEntries, Zenon
  <2> QED
    BY ONLY <1>3, <2>2, Zenon
<1>5. ASSUME NEW i \in 1 .. Len(chan'[p]) PROVE Upto(p, i)' = Upto(p, i + 1)
  <2>1. CASE i < Len(chan'[p])
    <3>1. i + 1 \in 1 .. Len(chan'[p]) /\ i + 1 < Len(chan[p])
      BY <1>2, <1>4, <2>1
    <3>2. chan'[p][i + 1] = chan[p][(i + 1) + 1]
      BY <1>4, <3>1, Zenon
    <3> QED
      BY <2>1, <3>1, <3>2, Zenon DEF Upto
  <2>2. CASE i = Len(chan'[p])
    BY <1>0, <1>2, <1>4, <2>2 DEF Upto
  <2> QED
    BY <1>2, <1>4, <2>1, <2>2
<1>6. Durable(p)' = Upto(p, 1)
  <2>1. CASE Len(chan[p]) = 1
    <3>1. chan'[p] = <<>>
      BY <1>4, <2>1, Zenon
    <3> QED
      BY <1>0, <2>1, <3>1 DEF Durable, Upto
  <2>2. CASE Len(chan[p]) # 1
    <3>1. chan'[p] # <<>> /\ 1 \in 1 .. Len(chan'[p]) /\ 1 < Len(chan[p])
      BY <1>2, <1>4, <2>2
    <3> QED
      BY <1>3, <1>4, <3>1, Zenon DEF Durable, Upto
  <2> QED
    BY <2>1, <2>2, Zenon
<1>7. Durable(p) = Upto(p, 1)
  BY <1>0, Zenon DEF Durable
<1>8. SerialsOf(p)'
  <2>1. pc'[p] # "ready"
    BY <1>0, Zenon DEF Loop
  <2>2. ASSUME NEW i \in 1 .. Len(chan'[p])
        PROVE  /\ NewIds(chan'[p][i]) = chan'[p][i].base + 1 .. Upto(p, i)'
               /\ chan'[p][i].base <= Upto(p, i)'
    <3>1. i + 1 \in 1 .. Len(chan[p])
      BY <1>2, <1>4
    <3> QED
      BY <1>0, <1>4, <1>5, <3>1, Zenon DEF SerialsOf
  <2> QED
    BY Zenon, <1>0, <1>6, <1>7, <2>1, <2>2 DEF SerialsOf, NewIds
<1> QED
  BY <1>1, <1>8 DEF SerialInv

\* Every step keeps the serial ids contiguous.
LEMMA SerialsNext == TypeOK /\ RollbackInv /\ SerialInv /\ [Next]_vars => SerialInv'
<1> SUFFICES ASSUME TypeOK, RollbackInv, SerialInv, [Next]_vars PROVE SerialInv'
  BY Zenon
<1>1. CASE Sync
  <2>1. /\ pc' = [p \in Party |-> "synced"]
        /\ UNCHANGED <<rows, chan, memLen, committed>>
    BY Zenon, <1>1 DEF Sync, persistent
  <2> QED
    BY <2>1, SerialsFrame, Zenon DEF SerialInv, Loop
<1>2. ASSUME NEW p \in Party, Start(p) \/ MainLoop(p) PROVE SerialInv'
  <2>1. /\ UNCHANGED <<chan, memLen, committed>>
        /\ \A q \in Party : pc'[q] = "ready" => pc[q] = "ready"
        /\ \A q \in Party : pc'[q] \in Loop => pc[q] \in Loop
    <3>1. CASE Start(p)
      BY <3>1, Zenon DEF Start, TypeOK, StartupOK, Loop
    <3>2. CASE ReceiveCircuitBreaker(p) \/ ReceiveDeletion(p) \/ UpdateIris(p)
      BY <3>2, Zenon DEF ReceiveCircuitBreaker, ReceiveDeletion, UpdateIris
    <3>3. CASE MarkRequest(p) \/ TakeRequest(p)
      BY <3>3, Zenon DEF MarkRequest, TakeRequest, Receives, TypeOK, StartupOK, Loop
    <3>4. CASE FinishBatch(p) \/ Submit(p) \/ SendResult(p)
      BY <3>4, Zenon DEF FinishBatch, Submit, SendResult, TypeOK, StartupOK, Loop
    <3> QED
      BY ZenonT(40), <1>2, <3>1, <3>2, <3>3, <3>4 DEF MainLoop
  <2>2. \A q \in Party : DOMAIN rows'[q] = DOMAIN rows[q]
    <3>1. CASE UpdateIris(p)
      BY <3>1, Zenon DEF UpdateIris, TypeOK, RowsOK
    <3>2. CASE ~UpdateIris(p)
      BY <1>2, <3>2, Zenon DEF Start, MainLoop, ReceiveCircuitBreaker, ReceiveDeletion, MarkRequest,
                        TakeRequest, FinishBatch, Submit, SendResult, persistent
    <3> QED
      BY <3>1, <3>2, Zenon
  <2> QED
    BY <2>1, <2>2, SerialsFrame, Zenon DEF SerialInv
<1>3. ASSUME NEW p \in Party, Rollback(p) PROVE SerialInv'
  <2>1. /\ pc' = [pc EXCEPT ![p] = "loading"]
        /\ rows' = [rows EXCEPT ![p] =
                      [k \in {i \in DOMAIN rows[p] : i <= syncLen[p]} |-> rows[p][k]]]
        /\ UNCHANGED <<chan, memLen, committed>>
        /\ pc[p] = "synced"
    BY <1>3, Zenon DEF Rollback
  <2>2. ASSUME NEW q \in Party, q # p PROVE SerialsOf(q)'
    <3>1. pc'[q] = pc[q] /\ rows'[q] = rows[q]
      BY <2>1, <2>2, Zenon DEF TypeOK, StartupOK, RowsOK
    <3> QED
      BY <2>1, <3>1, SerialsFrame, Zenon DEF SerialInv
  <2>3. SerialsOf(p)'
    <3>1. PICK n \in Nat : DOMAIN rows[p] = 1 .. n
      BY Zenon DEF SerialInv, SerialsOf
    <3>2. syncLen[p] \in Nat
      BY Zenon DEF TypeOK, StartupOK
    <3>3. DOMAIN rows'[p] = {i \in 1 .. n : i <= syncLen[p]}
      BY <2>1, <3>1, Zenon DEF TypeOK, RowsOK
    <3>4. \E m \in Nat : DOMAIN rows'[p] = 1 .. m
      <4>1. CASE n <= syncLen[p]
        BY <3>2, <3>3, <4>1
      <4>2. CASE ~(n <= syncLen[p])
        BY <3>2, <3>3, <4>2
      <4> QED
        BY <4>1, <4>2, Zenon
    <3>5. pc'[p] = "loading"
      BY <2>1, Zenon DEF TypeOK, StartupOK
    <3>6. chan'[p] = <<>>
      BY <2>1, Zenon DEF RollbackInv, SenderPhase, Loop
    <3> QED
      BY <3>4, <3>5, <3>6 DEF SerialsOf, Loop
  <2> QED
    BY <2>2, <2>3, Zenon DEF SerialInv
<1>4. ASSUME NEW p \in Party, Load(p) PROVE SerialInv'
  <2>1. /\ pc[p] = "loading"
        /\ DOMAIN rows[p] = 1 .. storeLen[p]
        /\ pc' = [pc EXCEPT ![p] = "ready"]
        /\ memLen' = [memLen EXCEPT ![p] = storeLen[p]]
        /\ UNCHANGED <<rows, chan, committed>>
    BY <1>4, Zenon DEF Load, persistent
  <2>2. ASSUME NEW q \in Party, q # p PROVE SerialsOf(q)'
    <3>1. pc'[q] = pc[q] /\ memLen'[q] = memLen[q]
      BY <2>1, <2>2, Zenon DEF TypeOK, StartupOK, JobsOK
    <3> QED
      BY <2>1, <3>1, SerialsFrame, Zenon DEF SerialInv
  <2>3. SerialsOf(p)'
    <3>1. pc'[p] = "ready" /\ memLen'[p] = storeLen[p] /\ storeLen[p] \in Nat
      BY <2>1, Zenon DEF TypeOK, StartupOK, JobsOK
    <3>2. chan'[p] = <<>>
      BY <2>1, Zenon DEF RollbackInv, SenderPhase, Loop
    <3> QED
      BY SMTT(30), <2>1, <3>1, <3>2 DEF SerialsOf, Loop
  <2> QED
    BY <2>2, <2>3 DEF SerialInv
<1>5. ASSUME NEW p \in Party, EnterLoop(p) PROVE SerialInv'
  <2>1. /\ pc[p] = "ready"
        /\ pc' = [pc EXCEPT ![p] = "receiving"]
        /\ UNCHANGED <<rows, chan, memLen, committed>>
    BY <1>5, Zenon DEF EnterLoop, persistent
  <2>2. ASSUME NEW q \in Party, q # p PROVE SerialsOf(q)'
    <3>1. pc'[q] = pc[q]
      BY <2>1, <2>2, Zenon DEF TypeOK, StartupOK
    <3> QED
      BY <2>1, <3>1, SerialsFrame, Zenon DEF SerialInv
  <2>3. SerialsOf(p)'
    <3>1. pc'[p] = "receiving"
      BY <2>1, Zenon DEF TypeOK, StartupOK
    <3>2. chan[p] = <<>>
      BY <2>1, Zenon DEF RollbackInv, SenderPhase, Loop
    <3>3. Durable(p)' = memLen[p]
      BY <2>1, <3>2, Zenon DEF Durable
    <3> QED
      BY <2>1, <3>1, <3>2, <3>3 DEF SerialInv, SerialsOf
  <2> QED
    BY <2>2, <2>3 DEF SerialInv
<1>6. ASSUME NEW p \in Party, Exit(p), rows' = rows PROVE SerialInv'
  BY <1>6, SerialsExit, Zenon
<1>7. ASSUME NEW p \in Party, Startup(p) PROVE SerialInv'
  BY ZenonT(40), <1>2, <1>3, <1>4, <1>5, <1>6, <1>7 DEF Startup, RefuseRollback, FailLoad, persistent
<1>8. ASSUME NEW p \in Party, ResultSender(p) PROVE SerialInv'
  BY <1>8, SerialsCommit, SerialsPublish, Zenon DEF ResultSender
<1>9. ASSUME NEW p \in Party, HeartbeatExit(p) \/ ProcessingTimeout(p) \/ Crash(p)
      PROVE  SerialInv'
  BY <1>6, <1>9, Zenon DEF HeartbeatExit, ProcessingTimeout, Crash, persistent
<1>10. CASE UNCHANGED vars
  <2>1. UNCHANGED <<rows, chan, memLen, committed, pc>>
    BY <1>10, Zenon DEF vars, persistent, volatile
  <2> QED
    BY <2>1, SerialsFrame, Zenon DEF SerialInv
<1> QED
  BY <1>1, <1>2, <1>7, <1>8, <1>9, <1>10, SerialsProcessBatch, Zenon DEF Next

\* Initially the rows are those of the seed.
LEMMA SerialsInit == Init => SerialInv
<1> SUFFICES ASSUME Init, NEW p \in Party PROVE SerialsOf(p)
  BY Zenon DEF SerialInv
<1>1. DOMAIN rows[p] = 1 .. Len(Seed) /\ Len(Seed) \in Nat
  BY SeedAssumption DEF Init
<1>2. pc[p] = "down" /\ chan[p] = <<>>
  BY Zenon DEF Init
<1> QED
  BY <1>1, <1>2 DEF SerialsOf, Loop

-----------------------------------------------------------------------------
(* Memories.                                                               *)

Synced == {"synced", "loading", "ready"} \cup Loop
Serving == {"ready"} \cup Loop

\* The parties of one round of startup agree on the length of the sync, load
\* exactly that many rows, and from then on their memories grow together.
AlignInv ==
    /\ \A p, q \in Party : pc[p] \in Synced /\ pc[q] \in Synced => syncLen[p] = syncLen[q]
    /\ \A p \in Party : pc[p] \in {"synced", "loading"} => syncLen[p] <= storeLen[p]
    /\ \A p \in Party : pc[p] = "loading" => \A k \in DOMAIN rows[p] : k <= syncLen[p]
    /\ \A p \in Party : pc[p] = "ready" => memLen[p] = syncLen[p]
    /\ \A p, q \in Party : pc[p] \in Serving /\ pc[q] \in Serving => memLen[p] = memLen[q]

\* A step that leaves lengths and the ids of the rows alone and moves a party
\* within the main loop, or not at all.
LEMMA AlignFrame ==
    ASSUME AlignInv, UNCHANGED <<syncLen, memLen>>,
           \A p \in Party : pc'[p] = pc[p] \/ (pc[p] \in Loop /\ pc'[p] \in Loop)
                                         \/ pc'[p] \in {"down", "started"},
           \A p \in Party : pc[p] \in {"synced", "loading"} /\ pc'[p] = pc[p] =>
                              DOMAIN rows'[p] = DOMAIN rows[p] /\ storeLen'[p] = storeLen[p]
    PROVE  AlignInv'
BY SMTT(30) DEF AlignInv, Synced, Serving, Loop

\* A party that exits.
LEMMA AlignExit ==
    ASSUME TypeOK, AlignInv, NEW p \in Party, Exit(p), rows' = rows
    PROVE  AlignInv'
<1>1. /\ pc'[p] = "down"
      /\ \A q \in Party \ {p} : /\ pc'[q] = pc[q] /\ syncLen'[q] = syncLen[q]
                                /\ memLen'[q] = memLen[q] /\ storeLen'[q] = storeLen[q]
  BY Zenon DEF Exit, TypeOK, StartupOK, JobsOK
<1> QED
  BY <1>1 DEF AlignInv, Synced, Serving, Loop

\* Every step keeps the memories aligned.
LEMMA AlignNext == TypeOK /\ RollbackInv /\ AlignInv /\ [Next]_vars => AlignInv'
<1> SUFFICES ASSUME TypeOK, RollbackInv, AlignInv, [Next]_vars PROVE AlignInv'
  OBVIOUS
<1>1. CASE Sync
  <2>1. PICK n \in {storeLen[p] : p \in Party} :
          (\A p \in Party : n <= storeLen[p]) /\ syncLen' = [p \in Party |-> n]
    BY <1>1, Zenon DEF Sync
  <2>2. pc' = [p \in Party |-> "synced"] /\ storeLen' = storeLen
    BY <1>1, Zenon DEF Sync
  <2> QED
    BY <2>1, <2>2, Zenon DEF AlignInv, Serving, Loop
<1>2. ASSUME NEW valid, NEW new, NEW n, NEW number, ProcessBatch(valid, new, n, number)
      PROVE  AlignInv'
  <2>1. /\ \A p \in Party : pc[p] = "submitted"
        /\ pc' = [p \in Party |-> "sending"]
        /\ memLen' = [p \in Party |-> memLen[p] + n]
        /\ syncLen' = syncLen
    BY <1>2, Zenon DEF ProcessBatch
  <2>2. \A p, q \in Party : memLen[p] = memLen[q] /\ syncLen[p] = syncLen[q]
    BY <2>1, Zenon DEF AlignInv, Synced, Serving, Loop
  <2> QED
    BY <2>1, <2>2, Zenon DEF AlignInv
<1>3. ASSUME NEW p \in Party, Start(p) PROVE AlignInv'
  <2>1. /\ pc[p] = "down" /\ pc' = [pc EXCEPT ![p] = "started"]
        /\ storeLen' = [storeLen EXCEPT ![p] = Count(p)]
        /\ UNCHANGED <<rows, syncLen, memLen>>
    BY <1>3, Zenon DEF Start
  <2>2. \A q \in Party : \/ pc'[q] = pc[q] /\ storeLen'[q] = storeLen[q]
                         \/ pc'[q] = "started"
    BY <2>1, Zenon DEF TypeOK, StartupOK
  <2> QED
    BY <2>1, <2>2, AlignFrame, Zenon
<1>4. ASSUME NEW p \in Party, Rollback(p) PROVE AlignInv'
  <2>1. /\ pc[p] = "synced"
        /\ pc'[p] = "loading"
        /\ DOMAIN rows'[p] = {i \in DOMAIN rows[p] : i <= syncLen[p]}
        /\ \A q \in Party \ {p} : pc'[q] = pc[q] /\ rows'[q] = rows[q]
        /\ UNCHANGED <<storeLen, syncLen, memLen>>
    BY <1>4, Zenon DEF Rollback, TypeOK, RowsOK, StartupOK
  <2>2. \A q \in Party : pc'[q] \in Synced <=> pc[q] \in Synced
    BY ZenonT(40), <2>1 DEF Synced
  <2>3. \A q \in Party : pc'[q] \in Serving <=> pc[q] \in Serving
    BY Zenon, <2>1 DEF Serving, Loop
  <2>4. \A q \in Party : /\ pc'[q] \in {"synced", "loading"} => pc[q] \in {"synced", "loading"}
                         /\ pc'[q] = "ready" => pc[q] = "ready"
    <3> SUFFICES ASSUME NEW q \in Party
                 PROVE  /\ pc'[q] \in {"synced", "loading"} => pc[q] \in {"synced", "loading"}
                        /\ pc'[q] = "ready" => pc[q] = "ready"
      BY Zenon
    <3>1. CASE q = p
      BY Zenon, <2>1, <3>1
    <3>2. CASE q # p
      BY ZenonT(30), <2>1, <3>2
    <3> QED
      BY Zenon, <3>1, <3>2
  <2>5. \A q \in Party : pc'[q] = "loading" => \A k \in DOMAIN rows'[q] : k <= syncLen[q]
    BY ZenonT(30), <2>1 DEF AlignInv
  <2> QED
    BY <2>1, <2>2, <2>3, <2>4, <2>5, Zenon DEF AlignInv
<1>5. ASSUME NEW p \in Party, Load(p) PROVE AlignInv'
  <2>1. /\ pc[p] = "loading"
        /\ DOMAIN rows[p] = 1 .. storeLen[p]
        /\ pc'[p] = "ready"
        /\ memLen'[p] = storeLen[p]
        /\ \A q \in Party \ {p} : pc'[q] = pc[q] /\ memLen'[q] = memLen[q]
        /\ UNCHANGED <<rows, storeLen, syncLen>>
    BY Zenon, <1>5 DEF Load, TypeOK, StartupOK, JobsOK, persistent
  <2>2. storeLen[p] = syncLen[p]
    <3>1. storeLen[p] \in Nat /\ syncLen[p] \in Nat /\ syncLen[p] <= storeLen[p]
      BY <2>1, Zenon DEF TypeOK, StartupOK, AlignInv
    <3>2. \A k \in 1 .. storeLen[p] : k <= syncLen[p]
      BY ZenonT(40), <2>1 DEF AlignInv
    <3> QED
      BY SMTT(30), Z3, <3>1, <3>2
  <2>3. \A q \in Party : pc[q] \notin Loop
    BY <2>1, Zenon DEF RollbackInv, RollbackSafe
  <2>4. \A q \in Party : pc'[q] \in Serving => memLen'[q] = syncLen[p]
    BY <2>1, <2>2, <2>3, Zenon DEF AlignInv, Synced, Serving
  <2>5. \A q \in Party : pc'[q] \in Synced <=> pc[q] \in Synced
    BY <2>1, Zenon DEF Synced
  <2> QED
    BY <2>1, <2>2, <2>4, <2>5, Zenon DEF AlignInv
<1>6. ASSUME NEW p \in Party, EnterLoop(p) PROVE AlignInv'
  <2>1. /\ pc[p] = "ready"
        /\ pc'[p] = "receiving"
        /\ \A q \in Party \ {p} : pc'[q] = pc[q]
        /\ UNCHANGED <<rows, storeLen, syncLen, memLen>>
    BY <1>6, Zenon DEF EnterLoop, TypeOK, StartupOK, persistent
  <2> QED
    BY <2>1 DEF AlignInv, Synced, Serving, Loop
<1>7. ASSUME NEW p \in Party, Exit(p), rows' = rows PROVE AlignInv'
  BY <1>7, AlignExit, Zenon
<1>8. ASSUME NEW p \in Party, MainLoop(p) PROVE AlignInv'
  <2>1. /\ UNCHANGED <<storeLen, syncLen, memLen>>
        /\ \A q \in Party : pc'[q] = pc[q] \/ (pc[q] \in Loop /\ pc'[q] \in Loop)
    <3>1. CASE ReceiveCircuitBreaker(p) \/ ReceiveDeletion(p) \/ UpdateIris(p)
      BY <3>1, Zenon DEF ReceiveCircuitBreaker, ReceiveDeletion, UpdateIris
    <3>2. CASE MarkRequest(p) \/ TakeRequest(p)
      BY <3>2, Zenon DEF MarkRequest, TakeRequest, Receives, TypeOK, StartupOK, Loop
    <3>3. CASE FinishBatch(p) \/ Submit(p) \/ SendResult(p)
      BY <3>3, Zenon DEF FinishBatch, Submit, SendResult, TypeOK, StartupOK, Loop
    <3> QED
      BY Zenon, <1>8, <3>1, <3>2, <3>3 DEF MainLoop
  <2>2. \A q \in Party : DOMAIN rows'[q] = DOMAIN rows[q]
    <3>1. CASE UpdateIris(p)
      BY <3>1 DEF UpdateIris, TypeOK, RowsOK
    <3>2. CASE ~UpdateIris(p)
      BY <1>8, <3>2, Zenon DEF MainLoop, ReceiveCircuitBreaker, ReceiveDeletion, MarkRequest,
                        TakeRequest, FinishBatch, Submit, SendResult, persistent
    <3> QED
      BY <3>1, <3>2
  <2> QED
    BY ZenonT(40), <2>1, <2>2, AlignFrame
<1>9. ASSUME NEW p \in Party, Commit(p), NewIds(Head(chan[p])) \cap DOMAIN rows[p] = {}
      PROVE  AlignInv'
  <2>1. chan[p] # <<>> /\ UNCHANGED <<pc, storeLen, syncLen, memLen>>
    BY Zenon, <1>9 DEF Commit
  <2>2. pc[p] \in Loop
    BY <2>1, Zenon DEF RollbackInv, SenderPhase
  <2>3. \A q \in Party \ {p} : rows'[q] = rows[q]
    BY ZenonT(40), <1>9, CommitRows
  <2>4. \A q \in Party : pc[q] \in {"synced", "loading"} => DOMAIN rows'[q] = DOMAIN rows[q]
    BY <2>2, <2>3, Zenon DEF Loop
  <2> QED
    BY ZenonT(40), <2>1, <2>4, AlignFrame
<1>10. ASSUME NEW p \in Party, Publish(p) PROVE AlignInv'
  BY ZenonT(30), <1>10, AlignFrame DEF Publish
<1>11. CASE UNCHANGED vars
  BY <1>11, AlignFrame, Zenon DEF vars, persistent, volatile
<1>12. ASSUME NEW p \in Party, Startup(p) PROVE AlignInv'
  BY <1>3, <1>4, <1>5, <1>6, <1>7, <1>12, Zenon DEF Startup, RefuseRollback, FailLoad, persistent
<1>13. ASSUME NEW p \in Party, ResultSender(p) PROVE AlignInv'
  BY ZenonT(40), <1>7, <1>9, <1>10, <1>13 DEF ResultSender, Commit
<1>14. ASSUME NEW p \in Party, HeartbeatExit(p) \/ ProcessingTimeout(p) \/ Crash(p)
       PROVE  AlignInv'
  BY <1>7, <1>14 DEF HeartbeatExit, ProcessingTimeout, Crash, persistent
<1> QED
  BY <1>1, <1>2, <1>8, <1>11, <1>12, <1>13, <1>14, Zenon DEF Next

-----------------------------------------------------------------------------
(* The invariants.                                                         *)

\* Init establishes the types.
LEMMA TypeInit == Init => TypeOK
<1> SUFFICES ASSUME Init PROVE TypeOK
  BY Zenon
<1>1. NoBatch \in [ids : Seq(Request), deletions : Seq(Nat), updated : Nat]
  BY DEF NoBatch
<1>2. /\ DOMAIN Seed = 1 .. Len(Seed)
      /\ Len(Seed) \in Nat
      /\ Seed \in [1 .. Len(Seed) -> Request \cup {Dummy}]
  BY SeedAssumption
<1>3. IsFiniteSet(DOMAIN Seed)
  BY <1>2, FS_Interval
<1>4. RowsOK
  BY <1>2, <1>3 DEF Init, RowsOK
<1>5. TablesOK
  BY DEF Init, TablesOK
<1>6. StartupOK
  BY Zenon  DEF Init, StartupOK
<1>7. JobsOK
  BY <1>1, BatchAssumption DEF Init, JobsOK
<1> QED
  BY <1>4, <1>5, <1>6, <1>7, Zenon DEF TypeOK

\* The rows a commit adds.
LEMMA NewIdsType ==
    ASSUME NEW job \in JobResult
    PROVE  /\ NewIds(job) \subseteq Nat \ {0}
           /\ IsFiniteSet(NewIds(job))
<1>1. job.answers \in Seq(Answer)
  BY Zenon DEF JobResult
<1>2. DOMAIN job.answers = 1 .. Len(job.answers) /\ Len(job.answers) \in Nat
  BY <1>1
<1>3. ASSUME NEW i \in DOMAIN job.answers PROVE job.answers[i].serial \in Nat
  <2>1. job.answers[i] \in Answer
    BY <1>1, <1>2
  <2> QED
    BY <2>1, Zenon DEF Answer
<1> DEFINE all == {job.answers[i].serial : i \in DOMAIN job.answers}
<1>4. IsFiniteSet(DOMAIN job.answers)
  BY <1>2, FS_Interval
<1>5. IsFiniteSet(all)
  <2> DEFINE f == [i \in DOMAIN job.answers |-> job.answers[i].serial]
  <2>1. f \in Surjection(DOMAIN job.answers, all)
    BY Zenon DEF Surjection
  <2> QED
    BY <1>4, <2>1, FS_Surjection
<1> QED
  BY <1>3, <1>5, FS_Subset, Zenon DEF NewIds

\* The startup keeps the types.
LEMMA StartupType ==
    ASSUME TypeOK, NEW p \in Party, Startup(p)
    PROVE  TypeOK'
<1>1. CASE Start(p)
  <2>1. Count(p) \in Nat
    BY FS_CardinalityType, Zenon DEF TypeOK, RowsOK, Count
  <2>2. Last(results[p], MaxSyncLookback) \subseteq Answer
    BY LastType, Zenon DEF TypeOK, TablesOK
  <2>3. TablesOK'
    BY <1>1, <2>2, Zenon DEF Start, TypeOK, TablesOK
  <2>4. StartupOK'
    BY <1>1, <2>1, Zenon DEF Start, TypeOK, StartupOK
  <2> QED
    BY ZenonT(30), <1>1, <2>3, <2>4 DEF Start, TypeOK, RowsOK, JobsOK
<1>2. CASE RefuseRollback(p)
  <2>1. StartupOK' /\ JobsOK'
    BY Zenon, <1>2, ExitType DEF RefuseRollback, TypeOK, JobsOK
  <2> QED
    BY <1>2, <2>1, Zenon DEF RefuseRollback, TypeOK, RowsOK, TablesOK, persistent
<1>3. CASE Rollback(p)
  <2> DEFINE kept == {i \in DOMAIN rows[p] : i <= syncLen[p]}
  <2>1. IsFiniteSet(kept)
    BY FS_Subset, Zenon DEF TypeOK, RowsOK
  <2>2. rows'[p] = [k \in kept |-> rows[p][k]] /\ DOMAIN rows' = Party
    BY <1>3, Zenon DEF Rollback, TypeOK, RowsOK
  <2>3. \A q \in Party \ {p} : rows'[q] = rows[q]
    BY <1>3, Zenon DEF Rollback, TypeOK, RowsOK
  <2>4. RowsOK'
    BY <2>1, <2>2, <2>3, Zenon DEF TypeOK, RowsOK
  <2>5. StartupOK'
    BY <1>3, Zenon DEF Rollback, TypeOK, StartupOK
  <2> QED
    BY ZenonT(30), <1>3, <2>4, <2>5 DEF Rollback, TypeOK, TablesOK, JobsOK
<1>4. CASE Load(p)
  <2>1. StartupOK'
    BY ZenonT(30), <1>4 DEF Load, TypeOK, StartupOK
  <2>2. JobsOK'
    BY <1>4, Zenon DEF Load, TypeOK, StartupOK, JobsOK
  <2> QED
    BY ZenonT(30), <1>4, <2>1, <2>2 DEF Load, TypeOK, RowsOK, TablesOK, persistent
<1>5. CASE FailLoad(p)
  <2>1. StartupOK' /\ JobsOK'
    BY Zenon, <1>5, ExitType DEF FailLoad, TypeOK, JobsOK
  <2> QED
    BY ZenonT(30), <1>5, <2>1 DEF FailLoad, TypeOK, RowsOK, TablesOK, persistent
<1>6. CASE EnterLoop(p)
  <2>1. StartupOK'
    BY <1>6, Zenon DEF EnterLoop, TypeOK, StartupOK, Loop
  <2> QED
    BY ZenonT(30), <1>6, <2>1 DEF EnterLoop, TypeOK, RowsOK, TablesOK, JobsOK, persistent
<1> QED
  BY <1>1, <1>2, <1>3, <1>4, <1>5, <1>6, Zenon DEF Startup

\* The result sender keeps the types.
LEMMA ResultSenderType ==
    ASSUME TypeOK, NEW p \in Party, ResultSender(p)
    PROVE  TypeOK'
<1> DEFINE job == Head(chan[p])
<1>1. CASE Commit(p) /\ NewIds(job) \cap DOMAIN rows[p] = {}
  <2>1. job \in JobResult /\ chan[p] # <<>>
    BY <1>1 DEF Commit, TypeOK, JobsOK
  <2>2. IsFiniteSet(DOMAIN rows[p] \cup NewIds(job)) /\ NewIds(job) \subseteq Nat \ {0}
    BY ZenonT(30), <2>1, NewIdsType, FS_Union DEF TypeOK, RowsOK
  <2>3. RowsOK'
    <3>1. /\ DOMAIN rows' = Party
          /\ DOMAIN rows'[p] = DOMAIN rows[p] \cup NewIds(job)
          /\ \A k \in DOMAIN rows[p] : rows'[p][k] = rows[p][k]
          /\ \A k \in NewIds(job) : rows'[p][k] \in Request
          /\ rows'[p] = [k \in DOMAIN rows'[p] |-> rows'[p][k]]
          /\ \A q \in Party \ {p} : rows'[q] = rows[q]
      BY <1>1, CommitRows, Zenon
    <3>2. DOMAIN rows'[p] \subseteq Nat \ {0} /\ IsFiniteSet(DOMAIN rows'[p])
      BY <2>2, <3>1, Zenon DEF TypeOK, RowsOK
    <3>3. \A k \in DOMAIN rows'[p] : rows'[p][k] \in Request \cup {Dummy}
      BY <3>1, Zenon DEF TypeOK, RowsOK
    <3>4. rows'[p] \in [DOMAIN rows'[p] -> Request \cup {Dummy}]
      BY <3>1, <3>3, Zenon
    <3> QED
      BY <3>1, <3>2, <3>4, Zenon DEF TypeOK, RowsOK
  <2>4. results[p] \o job.answers \in Seq(Answer)
    BY <2>1 DEF JobResult, TypeOK, TablesOK
  <2>5. /\ results' = [results EXCEPT ![p] = @ \o job.answers]
        /\ committed' = [committed EXCEPT ![p] = TRUE]
        /\ UNCHANGED <<pc, storeLen, syncLen, skip, memLen, batchSize, batch, chan,
                       head, sync, published, deleted, crashes>>
    BY Zenon, <1>1 DEF Commit
  <2>6. TablesOK'
    BY <2>4, <2>5, Zenon DEF TypeOK, TablesOK
  <2>7. JobsOK'
    BY <2>1, <2>5, Zenon DEF TypeOK, JobsOK
  <2> QED
    BY <2>3, <2>5, <2>6, <2>7, Zenon DEF TypeOK, StartupOK
<1>2. CASE Commit(p) /\ NewIds(job) \cap DOMAIN rows[p] # {}
  <2>1. /\ Exit(p)
        /\ UNCHANGED <<results, rows, head, sync, published, deleted, crashes>>
    BY Zenon, <1>2 DEF Commit
  <2>2. StartupOK' /\ JobsOK'
    BY ZenonT(30), <2>1, ExitType DEF TypeOK, JobsOK
  <2> QED
    BY <2>1, <2>2, Zenon DEF TypeOK, RowsOK, TablesOK
<1>3. CASE Publish(p)
  <2>1. job \in JobResult /\ chan[p] # <<>> /\ Tail(chan[p]) \in Seq(JobResult)
    BY <1>3 DEF Publish, TypeOK, JobsOK
  <2>2. /\ {job.answers[i] : i \in DOMAIN job.answers} \subseteq Answer
        /\ {job.deletions[i] : i \in DOMAIN job.deletions} \subseteq Nat
    <3>1. job.answers \in Seq(Answer) /\ job.deletions \in Seq(Nat)
      BY <2>1, Zenon DEF JobResult
    <3> QED
      BY <3>1
  <2>3. TablesOK'
    BY <1>3, <2>2, Zenon DEF Publish, TypeOK, TablesOK
  <2>4. JobsOK'
    BY ZenonT(30), <1>3, <2>1 DEF Publish, TypeOK, JobsOK
  <2> QED
    BY <1>3, <2>3, <2>4, Zenon DEF Publish, TypeOK, RowsOK, StartupOK
<1> QED
  BY <1>1, <1>2, <1>3, Zenon DEF ResultSender

\* Every step keeps the types.
LEMMA TypeNext == TypeOK /\ [Next]_vars => TypeOK'
<1> SUFFICES ASSUME TypeOK, [Next]_vars PROVE TypeOK'
  BY Zenon
<1>1. CASE Sync
  <2>1. \A q \in Party : Last(sync[q], MaxSyncLookback) \subseteq Request
    BY LastType, Zenon DEF TypeOK, TablesOK
  <2>2. PICK n \in {storeLen[q] : q \in Party} : syncLen' = [q \in Party |-> n]
    BY <1>1, Zenon DEF Sync
  <2>3. n \in Nat
    BY <2>2, Zenon DEF TypeOK, StartupOK
  <2>4. StartupOK'
    BY <1>1, <2>1, <2>2, <2>3 DEF Sync, TypeOK, StartupOK
  <2> QED
    BY Zenon, <1>1, <2>4 DEF Sync, TypeOK, RowsOK, TablesOK, JobsOK, persistent
<1>2. ASSUME NEW len \in {Len(batch[p].ids) : p \in Party},
             NEW valid \in ValidEntries(len), NEW n \in 0 .. len,
             NEW new \in SUBSET DOMAIN valid, NEW number \in Numberings(new, n),
             ProcessBatch(valid, new, n, number)
      PROVE  TypeOK'
  BY <1>2, ProcessBatchType, Zenon
<1>3. ASSUME NEW p \in Party, Startup(p) PROVE TypeOK'
  BY <1>3, StartupType, Zenon
<1>4. ASSUME NEW p \in Party, MainLoop(p) PROVE TypeOK'
  BY SMTT(30), Z3, <1>4, MainLoopType
<1>5. ASSUME NEW p \in Party, ResultSender(p) PROVE TypeOK'
  BY <1>5, ResultSenderType
<1>6. ASSUME NEW p \in Party, HeartbeatExit(p) \/ ProcessingTimeout(p) \/ Crash(p)
      PROVE  TypeOK'
  <2>1. Exit(p) /\ UNCHANGED persistent /\ crashes' \in Nat
    <3>1. crashes \in Nat
      BY Zenon DEF TypeOK, JobsOK
    <3>2. crashes' \in Nat
      <4>1. crashes' = crashes \/ crashes' = crashes + 1
        BY Zenon, <1>6 DEF HeartbeatExit, ProcessingTimeout, Crash
      <4> QED
        BY ONLY <3>1, <4>1
    <3> QED
      BY Zenon, <1>6, <3>2 DEF HeartbeatExit, ProcessingTimeout, Crash
  <2>2. StartupOK' /\ JobsOK'
    BY <2>1, ExitType, Zenon DEF TypeOK
  <2> QED
    BY <2>1, <2>2, Zenon DEF TypeOK, RowsOK, TablesOK, persistent
<1>7. CASE UNCHANGED vars
  BY ZenonT(30), <1>7 DEF vars, persistent, volatile, TypeOK, RowsOK, TablesOK, StartupOK, JobsOK
<1> QED
  BY <1>1, <1>2, <1>3, <1>4, <1>5, <1>6, <1>7, Zenon DEF Next

\* Type correctness of the servers, for any parties, queue and batch size.
THEOREM TypeCorrect == Spec => []TypeOK
<1> QED
  BY TypeInit, TypeNext, PTL DEF Spec

\* RollbackSafe holds in every reachable state.
THEOREM RollbackIsSafe == Spec => []RollbackSafe
<1>1. Init => TypeOK /\ RollbackInv
  BY TypeInit, RollbackInit, Zenon
<1>2. TypeOK /\ RollbackInv /\ [Next]_vars => (TypeOK /\ RollbackInv)'
  BY TypeNext, RollbackNext, Zenon
<1>3. RollbackInv => RollbackSafe
  BY Zenon DEF RollbackInv
<1> QED
  BY <1>1, <1>2, <1>3, PTL DEF Spec

\* A row that every party has stored stays at every party, whatever crashes,
\* restarts and rollbacks happen; only a deletion overwrites it.
THEOREM CommonRowsAreKept == Spec => CommonRowsKept
<1>1. Init => TypeOK /\ RollbackInv
  BY TypeInit, RollbackInit
<1>2. TypeOK /\ RollbackInv /\ [Next]_vars => (TypeOK /\ RollbackInv)'
  BY TypeNext, RollbackNext
<1>3. TypeOK /\ RollbackInv /\ [Next]_vars =>
        [\A k \in CommonIds : \A p \in Party :
            k \in DOMAIN rows'[p] /\ rows'[p][k] \in {rows[p][k], Dummy}]_vars
  BY CommonRowsStep, Zenon
<1> QED
  BY <1>1, <1>2, <1>3, PTL DEF Spec, CommonRowsKept

\* The inductive form implies the property.
LEMMA SerialInvSuffices == TypeOK /\ SerialInv => SerialIdsContiguous
<1> SUFFICES ASSUME TypeOK, SerialInv, NEW p \in Party
             PROVE  /\ DOMAIN rows[p] = 1 .. Count(p)
                    /\ pc[p] \in Loop => DOMAIN rows[p] = 1 .. Durable(p)
                    /\ \A i \in DOMAIN chan[p] :
                          NewIds(chan[p][i]) = chan[p][i].base + 1 .. Upto(p, i)
  BY ZenonT(30) DEF SerialIdsContiguous
<1>1. SerialsOf(p)
  BY Zenon  DEF SerialInv
<1>2. PICK n \in Nat : DOMAIN rows[p] = 1 .. n
  BY ZenonT(30), <1>1 DEF SerialsOf
<1>3. Cardinality(1 .. n) = n
  BY FS_Interval
<1>4. DOMAIN chan[p] = 1 .. Len(chan[p])
  BY DEF TypeOK, JobsOK
<1> QED
  BY ZenonT(30), <1>1, <1>2, <1>3, <1>4 DEF SerialsOf, Count

\* The serial ids of the database are always 1 .. n, and the jobs on their way
\* to it continue them up to the length of the memory: crashes, rollbacks and
\* restarts never leave a gap nor make an insert collide.
THEOREM SerialIdsAreContiguous == Spec => []SerialIdsContiguous
<1>1. Init => TypeOK /\ RollbackInv /\ SerialInv
  BY TypeInit, RollbackInit, SerialsInit, Zenon
<1>2. TypeOK /\ RollbackInv /\ SerialInv /\ [Next]_vars
        => (TypeOK /\ RollbackInv /\ SerialInv)'
  BY TypeNext, RollbackNext, SerialsNext, Zenon
<1> QED
  BY <1>1, <1>2, SerialInvSuffices, PTL DEF Spec

\* When the parties are about to run a batch together their memories have the
\* same length, so that an opened index means the same entry at each of them.
THEOREM MemoriesAreAligned == Spec => []MemoriesAligned
<1>1. Init => TypeOK /\ RollbackInv /\ AlignInv
  BY TypeInit, RollbackInit, Zenon DEF Init, AlignInv, Synced, Serving, Loop
<1>2. TypeOK /\ RollbackInv /\ AlignInv /\ [Next]_vars => (TypeOK /\ RollbackInv /\ AlignInv)'
  BY TypeNext, RollbackNext, AlignNext
<1>3. AlignInv => MemoriesAligned
  BY Zenon DEF AlignInv, MemoriesAligned, Serving, Loop
<1> QED
  BY <1>1, <1>2, <1>3, PTL DEF Spec

-----------------------------------------------------------------------------
(* Results.                                                                *)

\* What the later invariants read of party q stays as it is.
Same(q) ==
    /\ head'[q] = head[q] /\ rows'[q] = rows[q]
    /\ results'[q] = results[q] /\ published'[q] = published[q]
    /\ pc'[q] = pc[q] /\ batchSize'[q] = batchSize[q] /\ batch'[q] = batch[q]
    /\ chan'[q] = chan[q] /\ committed'[q] = committed[q]

\* The process of a party changes nothing of another.
LEMMA OthersSame ==
    ASSUME TypeOK, NEW p \in Party, NEW q \in Party, q # p,
           \/ Startup(p) \/ MainLoop(p) \/ ResultSender(p)
           \/ HeartbeatExit(p) \/ ProcessingTimeout(p) \/ Crash(p)
    PROVE  Same(q)
<1>0. /\ DOMAIN head = Party /\ DOMAIN rows = Party /\ DOMAIN results = Party
      /\ DOMAIN published = Party /\ DOMAIN pc = Party /\ DOMAIN batchSize = Party
      /\ DOMAIN batch = Party /\ DOMAIN chan = Party /\ DOMAIN committed = Party
  BY ZenonT(30) DEF TypeOK, RowsOK, TablesOK, StartupOK, JobsOK
<1>1. CASE Exit(p) /\ UNCHANGED <<head, rows, results, published>>
  BY ZenonT(30), <1>0, <1>1 DEF Exit, Same
<1>2. CASE Start(p)
  BY ZenonT(30), <1>0, <1>2 DEF Start, Same
<1>3. CASE Rollback(p)
  BY <1>0, <1>3, Zenon DEF Rollback, Same
<1>4. CASE Load(p) \/ EnterLoop(p)
  BY <1>0, <1>4, Zenon DEF Load, EnterLoop, Same, persistent
<1>5. CASE ReceiveCircuitBreaker(p)
  BY ZenonT(30), <1>0, <1>5 DEF ReceiveCircuitBreaker, Same
<1>6. CASE ReceiveDeletion(p)
  BY <1>0, <1>6, Zenon DEF ReceiveDeletion, Same
<1>7. CASE MarkRequest(p)
  BY ZenonT(30), <1>0, <1>7 DEF MarkRequest, Same
<1>8. CASE TakeRequest(p)
  BY SMTT(30), Z3, <1>0, <1>8 DEF TakeRequest, Same
<1>9. CASE FinishBatch(p) \/ Submit(p)
  BY <1>0, <1>9, Zenon DEF FinishBatch, Submit, Same, persistent
<1>10. CASE UpdateIris(p)
  BY <1>0, <1>10, Zenon DEF UpdateIris, Same
<1>11. CASE SendResult(p)
  BY ZenonT(30), <1>0, <1>11 DEF SendResult, Same, persistent
<1>12. CASE Commit(p) /\ NewIds(Head(chan[p])) \cap DOMAIN rows[p] = {}
  <2>1. rows'[q] = rows[q]
    BY Zenon, <1>12, CommitRows
  <2>2. /\ results' = [results EXCEPT ![p] = @ \o Head(chan[p]).answers]
        /\ committed' = [committed EXCEPT ![p] = TRUE]
        /\ UNCHANGED <<head, published, pc, batchSize, batch, chan>>
    BY ZenonT(30), <1>12 DEF Commit
  <2> QED
    BY ZenonT(30), <1>0, <2>1, <2>2 DEF Same
<1>13. CASE Publish(p)
  <2>1. /\ published'[q] = published[q]
        /\ chan' = [chan EXCEPT ![p] = Tail(@)]
        /\ committed' = [committed EXCEPT ![p] = FALSE]
        /\ UNCHANGED <<head, rows, results, pc, batchSize, batch>>
    BY ZenonT(30), <1>0, <1>13 DEF Publish
  <2> QED
    BY ZenonT(30), <1>0, <2>1 DEF Same
<1>14. CASE Commit(p)
  BY Zenon, <1>1, <1>12, <1>14 DEF Commit
<1>15. CASE RefuseRollback(p) \/ FailLoad(p)
  BY Zenon, <1>1, <1>15 DEF RefuseRollback, FailLoad, persistent
<1>16. CASE HeartbeatExit(p) \/ ProcessingTimeout(p) \/ Crash(p)
  BY Zenon, <1>1, <1>16 DEF HeartbeatExit, ProcessingTimeout, Crash, persistent
<1> QED
  BY <1>2, <1>3, <1>4, <1>5, <1>6, <1>7, <1>8, <1>9, <1>10, <1>11, <1>13, <1>14, <1>15, <1>16, Zenon
  DEF Startup, MainLoop, ResultSender

\* A batch, and so the answer to it, has at most the maximal size: a request is
\* only marked while there is room.
BoundedOf(p) ==
    /\ Len(batch[p].ids) <= MaxBatchSize
    /\ pc[p] = "marked" => Len(batch[p].ids) < MaxBatchSize
    /\ \A i \in 1 .. Len(chan[p]) : Len(chan[p][i].answers) <= MaxBatchSize

BoundedInv == \A p \in Party : BoundedOf(p)

\* The bounds only depend on these three.
LEMMA BoundedFrame ==
    ASSUME NEW p \in Party, BoundedOf(p),
           batch'[p].ids = batch[p].ids, chan'[p] = chan[p], pc'[p] = "marked" => pc[p] = "marked"
    PROVE  BoundedOf(p)'
BY Zenon DEF BoundedOf

\* An answer is given for each of the valid entries of a batch.
LEMMA AnswersBounded ==
    ASSUME NEW n \in Nat, NEW valid \in ValidEntries(n)
    PROVE  \E l \in 0 .. n : DOMAIN valid = 1 .. l
BY Zenon  DEF ValidEntries

\* The joint run answers at most a batch.
LEMMA BoundedProcessBatch ==
    ASSUME TypeOK, BoundedInv,
           NEW len \in {Len(batch[p].ids) : p \in Party},
           NEW valid \in ValidEntries(len), NEW n \in 0 .. len,
           NEW new \in SUBSET DOMAIN valid, NEW number \in Numberings(new, n),
           ProcessBatch(valid, new, n, number)
    PROVE  BoundedInv'
<1> SUFFICES ASSUME NEW p \in Party PROVE BoundedOf(p)'
  BY DEF BoundedInv
<1> DEFINE job == [answers |-> Answers(p, valid, new, number),
                   deletions |-> batch[p].deletions, base |-> memLen[p]]
<1>1. chan'[p] = Append(chan[p], job) /\ pc'[p] = "sending" /\ batch' = batch
  BY Zenon DEF ProcessBatch
<1>2. /\ chan[p] \in Seq(JobResult) /\ Len(chan[p]) \in Nat
      /\ batch[p].ids \in Seq(Request) /\ Len(batch[p].ids) \in Nat
  BY SMTT(30) DEF TypeOK, JobsOK
<1>3. BoundedOf(p)
  BY DEF BoundedInv
<1>4. len = Len(batch[p].ids)
  BY Zenon DEF ProcessBatch
<1>5. PICK l \in 0 .. len : DOMAIN valid = 1 .. l
  BY ZenonT(30), <1>2, <1>4, AnswersBounded
<1>6. Len(job.answers) = l
  <2>1. job.answers = [i \in 1 .. l |-> Answers(p, valid, new, number)[i]]
    BY ZenonT(30), <1>5 DEF Answers
  <2> QED
    BY SMTT(30), <1>2, <1>4, <1>5, <2>1
<1> HIDE DEF job
<1>7. /\ Len(chan'[p]) = Len(chan[p]) + 1
      /\ \A i \in 1 .. Len(chan[p]) : chan'[p][i] = chan[p][i]
      /\ chan'[p][Len(chan[p]) + 1] = job
  BY ONLY SMTT(30), Z3, <1>1, <1>2, AppendEntries
<1>8. l <= MaxBatchSize
  BY <1>2, <1>3, <1>4, <1>5, BatchAssumption DEF BoundedOf
<1>9. ASSUME NEW i \in 1 .. Len(chan'[p]) PROVE Len(chan'[p][i].answers) <= MaxBatchSize
  <2>1. i \in 1 .. Len(chan[p]) \/ i = Len(chan[p]) + 1
    BY <1>2, <1>7
  <2> QED
    BY ZenonT(30), <1>3, <1>6, <1>7, <1>8, <2>1 DEF BoundedOf
<1> QED
  BY ZenonT(30), <1>1, <1>3, <1>9 DEF BoundedOf

\* The main loop of p keeps the bounds.
LEMMA BoundedMainLoop ==
    ASSUME TypeOK, NEW p \in Party, BoundedOf(p), MainLoop(p)
    PROVE  BoundedOf(p)'
<1>0. /\ DOMAIN pc = Party /\ DOMAIN batch = Party
      /\ batch[p] \in [ids : Seq(Request), deletions : Seq(Nat), updated : Nat]
      /\ batchSize[p] \in 1 .. MaxBatchSize /\ MaxBatchSize \in Nat
  BY BatchAssumption, Zenon DEF TypeOK, StartupOK, JobsOK
<1>1. CASE ReceiveCircuitBreaker(p) \/ ReceiveDeletion(p)
  <2>1. pc' = pc /\ chan' = chan /\ batch'[p].ids = batch[p].ids
    BY <1>0, <1>1, Zenon DEF ReceiveCircuitBreaker, ReceiveDeletion
  <2> QED
    BY <2>1, BoundedFrame, Zenon
<1>2. CASE MarkRequest(p)
  <2>1. Len(batch[p].ids) < batchSize[p] /\ UNCHANGED <<batch, chan>>
    BY <1>2, Zenon DEF MarkRequest, Receives
  <2>2. Len(batch[p].ids) \in Nat
    BY <1>0
  <2> QED
    BY SMTT(30), Z3, <1>0, <2>1, <2>2 DEF BoundedOf
<1>3. CASE TakeRequest(p)
  <2>1. pc[p] = "marked" /\ pc'[p] = "receiving" /\ chan' = chan
    BY <1>0, <1>3, Zenon DEF TakeRequest
  <2>2. batch'[p].ids = batch[p].ids \/ \E r : batch'[p].ids = Append(batch[p].ids, r)
    <3>1. PICK m \in {Messages[i] : i \in DOMAIN Messages} :
             batch' = batch \/ batch' = [batch EXCEPT ![p].ids = Append(@, m.id)]
      BY Zenon, <1>3 DEF TakeRequest
    <3>2. CASE batch' = [batch EXCEPT ![p].ids = Append(@, m.id)]
      <4>1. batch'[p].ids = Append(batch[p].ids, m.id)
        BY <1>0, <3>2, Zenon
      <4> QED
        BY Zenon, <4>1
    <3> QED
      BY Zenon, <3>1, <3>2
  <2>3. batch[p].ids \in Seq(Request)
    BY <1>0, Zenon
  <2>4. Len(batch'[p].ids) \in {Len(batch[p].ids), Len(batch[p].ids) + 1}
    BY <2>2, <2>3, AppendEntries
  <2>5. Len(batch[p].ids) < MaxBatchSize
    BY <2>1, Zenon DEF BoundedOf
  <2>6. Len(batch'[p].ids) <= MaxBatchSize
    BY SMTT(30), Z3, <1>0, <2>3, <2>4, <2>5
  <2> QED
    BY <2>1, <2>6, Zenon DEF BoundedOf
<1>4. CASE FinishBatch(p) \/ Submit(p)
  <2>1. pc'[p] # "marked" /\ UNCHANGED <<batch, chan>>
    BY <1>0, <1>4, Zenon DEF FinishBatch, Submit
  <2> QED
    BY <2>1, BoundedFrame, Zenon
<1>5. CASE UpdateIris(p)
  <2>1. pc' = pc /\ chan' = chan /\ batch'[p].ids = batch[p].ids
    BY <1>0, <1>5, Zenon DEF UpdateIris
  <2> QED
    BY <2>1, BoundedFrame
<1>6. CASE SendResult(p)
  <2>1. pc'[p] # "marked" /\ batch'[p].ids = <<>> /\ chan' = chan
    BY <1>0, <1>6, Zenon DEF SendResult, NoBatch
  <2>2. Len(batch'[p].ids) = 0
    BY SMTT(30), Z3, <2>1
  <2> QED
    BY SMTT(30), Z3, <1>0, <2>1, <2>2 DEF BoundedOf
<1> QED
  BY <1>1, <1>2, <1>3, <1>4, <1>5, <1>6, MainLoop(p), Zenon DEF MainLoop

\* A party that exits has no batch and no jobs.
LEMMA ExitLeaves ==
    ASSUME TypeOK, NEW p \in Party, Exit(p)
    PROVE  pc'[p] = "down" /\ batch'[p].ids = <<>> /\ chan'[p] = <<>> /\ ~committed'[p]
BY Zenon DEF TypeOK, StartupOK, JobsOK, Exit, NoBatch

\* The steps of party p: it exits, or it starts up, or the main loop or the
\* result sender take a step.
LEMMA StepsOf ==
    ASSUME NEW p \in Party,
           \/ Startup(p) \/ MainLoop(p) \/ ResultSender(p)
           \/ HeartbeatExit(p) \/ ProcessingTimeout(p) \/ Crash(p)
    PROVE  \/ Exit(p) /\ UNCHANGED <<head, rows, results, published>>
           \/ Start(p) \/ Rollback(p) \/ Load(p) \/ EnterLoop(p)
           \/ MainLoop(p)
           \/ Commit(p) /\ NewIds(Head(chan[p])) \cap DOMAIN rows[p] = {}
           \/ Publish(p)
BY ZenonT(40) DEF Startup, RefuseRollback, FailLoad, ResultSender, Commit, HeartbeatExit,
                  ProcessingTimeout, Crash, persistent

\* Every step keeps the bounds.
LEMMA BoundedNext == TypeOK /\ BoundedInv /\ [Next]_vars => BoundedInv'
<1> SUFFICES ASSUME TypeOK, BoundedInv, [Next]_vars PROVE BoundedInv'
  OBVIOUS
<1>0. DOMAIN pc = Party /\ DOMAIN chan = Party /\ DOMAIN batch = Party
  BY Zenon DEF TypeOK, StartupOK, JobsOK
<1>1. CASE Sync
  <2>1. \A p \in Party : pc'[p] = "synced" /\ UNCHANGED <<batch, chan>>
    BY <1>1, Zenon DEF Sync
  <2> QED
    BY ZenonT(30), <2>1 DEF BoundedInv, BoundedOf
<1>2. ASSUME NEW len \in {Len(batch[p].ids) : p \in Party},
             NEW valid \in ValidEntries(len), NEW n \in 0 .. len,
             NEW new \in SUBSET DOMAIN valid, NEW number \in Numberings(new, n),
             ProcessBatch(valid, new, n, number)
      PROVE  BoundedInv'
  BY <1>2, BoundedProcessBatch, Zenon
<1>3. ASSUME NEW p \in Party,
             \/ Startup(p) \/ MainLoop(p) \/ ResultSender(p)
             \/ HeartbeatExit(p) \/ ProcessingTimeout(p) \/ Crash(p)
      PROVE  BoundedInv'
  <2>0. BoundedOf(p)
    BY Zenon DEF BoundedInv
  <2>1. ASSUME NEW q \in Party, q # p PROVE BoundedOf(q)'
    <3>1. Same(q)
      BY <1>3, <2>1, OthersSame, Zenon
    <3> QED
      BY <3>1, BoundedFrame, Zenon DEF BoundedInv, Same
  <2>2. ASSUME Exit(p)
       PROVE  BoundedOf(p)'
    <3>1. pc'[p] = "down" /\ batch'[p].ids = <<>> /\ chan'[p] = <<>>
      BY <2>2, ExitLeaves, Zenon
    <3>2. MaxBatchSize \in Nat
      BY BatchAssumption, Zenon
    <3> QED
      BY <3>1, <3>2 DEF BoundedOf
  <2>3. ASSUME Start(p) \/ Rollback(p) \/ Load(p) \/ EnterLoop(p)
       PROVE  BoundedOf(p)'
    <3>1. pc'[p] # "marked" /\ UNCHANGED <<batch, chan>>
      BY <1>0, <2>3, Zenon DEF Start, Rollback, Load, EnterLoop
    <3> QED
      BY <2>0, <3>1, BoundedFrame, Zenon
  <2>4. ASSUME MainLoop(p)
       PROVE  BoundedOf(p)'
    BY <2>0, <2>4, BoundedMainLoop, Zenon
  <2>5. ASSUME Commit(p) /\ NewIds(Head(chan[p])) \cap DOMAIN rows[p] = {}
       PROVE  BoundedOf(p)'
    <3>1. UNCHANGED <<pc, batch, chan>>
      BY Zenon, <2>5 DEF Commit
    <3> QED
      BY <2>0, <3>1, BoundedFrame, Zenon
  <2>6. ASSUME Publish(p)
       PROVE  BoundedOf(p)'
    <3>1. /\ UNCHANGED <<pc, batch>> /\ chan'[p] = Tail(chan[p])
          /\ chan[p] # <<>> /\ chan[p] \in Seq(JobResult)
      BY ZenonT(30), <2>6 DEF Publish, TypeOK, JobsOK
    <3>2. /\ Len(chan[p]) \in Nat /\ Len(chan'[p]) = Len(chan[p]) - 1
          /\ \A i \in 1 .. Len(chan'[p]) : chan'[p][i] = chan[p][i + 1]
      <4>1. chan[p] \in Seq(JobResult) /\ chan[p] # <<>>
        BY Zenon, <3>1
      <4>2. /\ Len(chan[p]) \in Nat /\ Len(Tail(chan[p])) = Len(chan[p]) - 1
            /\ \A i \in 1 .. Len(Tail(chan[p])) : Tail(chan[p])[i] = chan[p][i + 1]
        BY ONLY <4>1, TailEntries, Zenon
      <4> QED
        BY ONLY <3>1, <4>2, Zenon
    <3>3. \A i \in 1 .. Len(chan'[p]) : i + 1 \in 1 .. Len(chan[p])
      BY <3>2
    <3> QED
      BY <2>0, <3>1, <3>2, <3>3, ZenonT(30) DEF BoundedOf
  <2>7. BoundedOf(p)'
    BY <1>3, <2>2, <2>3, <2>4, <2>5, <2>6, StepsOf, ZenonT(30)
  <2> QED
    BY <2>1, <2>7, Zenon DEF BoundedInv
<1>4. CASE UNCHANGED vars
  BY <1>4, Zenon DEF vars, volatile, BoundedInv, BoundedOf
<1> QED
  BY <1>1, <1>2, <1>3, <1>4, Zenon DEF Next

\* The initial state satisfies the bounds.
LEMMA BoundedInit == Init => BoundedInv
BY BatchAssumption DEF Init, NoBatch, BoundedInv, BoundedOf

\* How many of the last results of p may be unpublished: at most a batch after a
\* crash, those of the committed job otherwise.
Backlog(p) ==
    IF pc[p] = "down" THEN MaxBatchSize
    ELSE IF committed[p] THEN Len(Head(chan[p]).answers) ELSE 0

\* All but the backlog is published, and the backlog of a running party is in
\* the hands of its result sender.
ReplayOf(p) ==
    /\ \A i \in 1 .. Len(results[p]) :
          i <= Len(results[p]) - Backlog(p) => results[p][i] \in published[p]
    /\ committed[p] =>
          \A i \in 1 .. Len(results[p]) :
              i > Len(results[p]) - Len(Head(chan[p]).answers) =>
                  \E j \in DOMAIN Head(chan[p]).answers : Head(chan[p]).answers[j] = results[p][i]

ReplayInv == \A p \in Party : ReplayOf(p)

\* Lengths are natural numbers, and only a party in the main loop has committed
\* something it has still to publish.
LEMMA ReplayTypes ==
    ASSUME TypeOK, RollbackInv, BoundedInv, NEW p \in Party
    PROVE  /\ results[p] \in Seq(Answer) /\ Len(results[p]) \in Nat
           /\ MaxBatchSize \in Nat /\ Backlog(p) \in Nat /\ Backlog(p) <= MaxBatchSize
           /\ committed[p] => /\ pc[p] # "down" /\ chan[p] # <<>>
                              /\ Head(chan[p]).answers \in Seq(Answer)
                              /\ Len(Head(chan[p]).answers) \in Nat
                              /\ Len(Head(chan[p]).answers) <= MaxBatchSize
<1>1. results[p] \in Seq(Answer) /\ Len(results[p]) \in Nat /\ MaxBatchSize \in Nat
  BY BatchAssumption DEF TypeOK, TablesOK
<1>2. ASSUME committed[p]
      PROVE  /\ pc[p] # "down" /\ chan[p] # <<>>
             /\ Head(chan[p]).answers \in Seq(Answer)
             /\ Len(Head(chan[p]).answers) \in Nat
             /\ Len(Head(chan[p]).answers) <= MaxBatchSize
  <2>1. chan[p] # <<>> /\ chan[p] \in Seq(JobResult)
    BY <1>2, Zenon DEF TypeOK, JobsOK
  <2>2. pc[p] # "down"
    BY ZenonT(30), <2>1 DEF RollbackInv, SenderPhase, Loop
  <2>3. Head(chan[p]) \in JobResult /\ Head(chan[p]) = chan[p][1] /\ 1 \in 1 .. Len(chan[p])
    BY SMTT(30), Z3, <2>1
  <2>4. Head(chan[p]).answers \in Seq(Answer)
    BY <2>3, Zenon DEF JobResult
  <2>5. Len(Head(chan[p]).answers) <= MaxBatchSize
    BY <2>3, Zenon DEF BoundedInv, BoundedOf
  <2>6. Len(Head(chan[p]).answers) \in Nat
    BY <2>4
  <2> QED
    BY <2>1, <2>2, <2>4, <2>5, <2>6, ZenonT(30)
<1>3. Backlog(p) = MaxBatchSize \/ Backlog(p) = 0
      \/ (committed[p] /\ Backlog(p) = Len(Head(chan[p]).answers))
  BY Zenon DEF Backlog
<1>4. 0 \in Nat /\ 0 <= MaxBatchSize /\ MaxBatchSize <= MaxBatchSize
  BY <1>1
<1> QED
  BY <1>1, <1>2, <1>3, <1>4, Zenon

\* A step that only adds to what is published, or to the backlog.
LEMMA ReplayFrame ==
    ASSUME NEW p \in Party, ReplayOf(p),
           results'[p] = results[p], published[p] \subseteq published'[p],
           Len(results[p]) \in Nat, Backlog(p) \in Nat, Backlog(p)' \in Nat,
           Backlog(p) <= Backlog(p)',
           committed'[p] => committed[p] /\ Head(chan'[p]) = Head(chan[p])
    PROVE  ReplayOf(p)'
<1> DEFINE b == Backlog(p)  c == Backlog(p)'
<1> HIDE DEF b, c
<1>1. ASSUME NEW i \in 1 .. Len(results[p]), i <= Len(results[p]) - c
      PROVE  results[p][i] \in published'[p]
  <2>1. b \in Nat /\ c \in Nat /\ b <= c
    BY Zenon DEF b, c
  <2>2. i <= Len(results[p]) - b
    BY <1>1, <2>1
  <2> QED
    BY <2>2, Zenon DEF ReplayOf, b
<1>2. ASSUME committed'[p], NEW i \in 1 .. Len(results[p]),
             i > Len(results[p]) - Len(Head(chan'[p]).answers)
      PROVE  \E j \in DOMAIN Head(chan'[p]).answers : Head(chan'[p]).answers[j] = results[p][i]
  BY <1>2, Zenon DEF ReplayOf
<1> QED
  BY <1>1, <1>2, ZenonT(30) DEF ReplayOf, c

\* A step that does not move p between down and up, nor touches the first job
\* and what is known of it.
LEMMA ReplayQuiet ==
    ASSUME TypeOK, RollbackInv, BoundedInv, NEW p \in Party, ReplayOf(p),
           results'[p] = results[p], published'[p] = published[p],
           committed'[p] = committed[p], pc'[p] = "down" <=> pc[p] = "down",
           chan[p] # <<>> => Head(chan'[p]) = Head(chan[p])
    PROVE  ReplayOf(p)'
<1>1. committed[p] => Head(chan'[p]) = Head(chan[p])
  BY Zenon DEF TypeOK, JobsOK
<1>2. Backlog(p)' = Backlog(p)
  BY <1>1, Zenon DEF Backlog
<1>3. Backlog(p) \in Nat /\ Len(results[p]) \in Nat
  BY ReplayTypes, Zenon
<1>4. Backlog(p) <= Backlog(p)
  BY <1>3
<1> QED
  BY <1>1, <1>2, <1>3, <1>4, ReplayFrame, Zenon

\* The next start publishes again what a crash may have left: the lookback is
\* two batches, the backlog at most one.
LEMMA ReplayStart ==
    ASSUME TypeOK, RollbackInv, BoundedInv, NEW p \in Party, ReplayOf(p), Start(p)
    PROVE  ReplayOf(p)'
<1>1. /\ pc[p] = "down" /\ pc'[p] = "started" /\ UNCHANGED <<results, committed, chan>>
      /\ published'[p] = published[p] \cup Last(results[p], MaxSyncLookback)
  BY Zenon DEF Start, TypeOK, StartupOK, TablesOK
<1>2. ~committed[p] /\ Len(results[p]) \in Nat /\ MaxBatchSize \in Nat /\ results[p] \in Seq(Answer)
  BY <1>1, ReplayTypes, ZenonT(30)
<1>3. Backlog(p) = MaxBatchSize /\ Backlog(p)' = 0
  BY ZenonT(30), <1>1, <1>2 DEF Backlog
<1>4. ASSUME NEW i \in 1 .. Len(results[p]) PROVE results[p][i] \in published'[p]
  <2>1. CASE i <= Len(results[p]) - MaxBatchSize
    BY <1>1, <1>3, <2>1, Zenon DEF ReplayOf
  <2>2. CASE i > Len(results[p]) - MaxSyncLookback
    <3>1. i \in DOMAIN results[p]
      BY <1>2
    <3> QED
      BY <1>1, <2>2, <3>1, Zenon DEF Last
  <2>3. i <= Len(results[p]) - MaxBatchSize \/ i > Len(results[p]) - MaxSyncLookback
    <3>1. PICK a \in Nat : a = Len(results[p])
      BY <1>2, Zenon
    <3>2. i \in 1 .. a
      BY <3>1, Zenon
    <3>3. i <= a - MaxBatchSize \/ i > a - 2 * MaxBatchSize
      <4>1. MaxBatchSize \in Nat
        BY <1>2, Zenon
      <4> QED
        BY ONLY <3>2, <4>1
    <3> QED
      BY <3>1, <3>3, Zenon DEF MaxSyncLookback
  <2> QED
    BY <2>1, <2>2, <2>3, Zenon
<1> QED
  BY <1>1, <1>2, <1>4, ZenonT(30) DEF ReplayOf

\* A party that exits leaves at most a batch.
LEMMA ReplayExit ==
    ASSUME TypeOK, RollbackInv, BoundedInv, NEW p \in Party, ReplayOf(p),
           Exit(p), UNCHANGED <<results, published>>
    PROVE  ReplayOf(p)'
<1>1. pc'[p] = "down" /\ ~committed'[p]
  BY ExitLeaves, ZenonT(30)
<1>2. Backlog(p)' = MaxBatchSize
  BY <1>1, Zenon DEF Backlog
<1>3. /\ Len(results[p]) \in Nat /\ MaxBatchSize \in Nat
      /\ Backlog(p) \in Nat /\ Backlog(p) <= MaxBatchSize
  BY ReplayTypes, ZenonT(30)
<1>4. results'[p] = results[p] /\ published[p] \subseteq published'[p]
  BY Zenon
<1> QED
  BY <1>1, <1>2, <1>3, <1>4, ReplayFrame, Zenon

\* What a concatenation holds, seen from its end.
LEMMA ConcatEntries ==
    ASSUME NEW S, NEW s \in Seq(S), NEW t \in Seq(S)
    PROVE  /\ Len(s \o t) = Len(s) + Len(t)
           /\ \A i \in 1 .. Len(s) : (s \o t)[i] = s[i]
           /\ \A i \in 1 .. Len(s) + Len(t) : i > Len(s) =>
                 i - Len(s) \in DOMAIN t /\ (s \o t)[i] = t[i - Len(s)]
OBVIOUS

\* A commit makes the answers of the first job the backlog.
LEMMA ReplayCommit ==
    ASSUME TypeOK, RollbackInv, BoundedInv, NEW p \in Party, ReplayOf(p),
           Commit(p), NewIds(Head(chan[p])) \cap DOMAIN rows[p] = {}
    PROVE  ReplayOf(p)'
<1> DEFINE t == Head(chan[p]).answers
<1>1. /\ chan[p] # <<>> /\ ~committed[p] /\ UNCHANGED <<pc, chan, published>>
      /\ results' = [results EXCEPT ![p] = @ \o t]
      /\ committed' = [committed EXCEPT ![p] = TRUE]
  BY ZenonT(30) DEF Commit
<1>2. /\ results'[p] = results[p] \o t /\ committed'[p]
      /\ results[p] \in Seq(Answer)
  <2>1. DOMAIN committed = Party /\ DOMAIN results = Party /\ results[p] \in Seq(Answer)
    BY Zenon DEF TypeOK, TablesOK, JobsOK
  <2> HIDE DEF t
  <2> QED
    BY <1>1, <2>1, Zenon
<1>3. t \in Seq(Answer)
  <2>1. Head(chan[p]) \in JobResult
    BY SMTT(30), Z3, <1>1 DEF TypeOK, JobsOK
  <2> QED
    BY <2>1, Zenon DEF JobResult
<1>4. pc[p] # "down"
  BY <1>1, Zenon DEF RollbackInv, SenderPhase, Loop
<1>5. Backlog(p) = 0 /\ Backlog(p)' = Len(t)
  BY ZenonT(30), <1>1, <1>2, <1>4 DEF Backlog
<1> HIDE DEF t
<1>6. PICK a, b : a = Len(results[p]) /\ b = Len(t) /\ a \in Nat /\ b \in Nat
  <2>1. Len(results[p]) \in Nat
    BY <1>2
  <2>2. Len(t) \in Nat
    BY <1>3
  <2> QED
    BY <2>1, <2>2, ZenonT(30)
<1>7. /\ Len(results'[p]) = a + b
      /\ \A i \in 1 .. a : results'[p][i] = results[p][i]
      /\ \A i \in 1 .. a + b : i > a => \E j \in DOMAIN t : t[j] = results'[p][i]
  <2>1. /\ Len(results[p] \o t) = Len(results[p]) + Len(t)
        /\ \A i \in 1 .. Len(results[p]) : (results[p] \o t)[i] = results[p][i]
        /\ \A i \in 1 .. Len(results[p]) + Len(t) : i > Len(results[p]) =>
              i - Len(results[p]) \in DOMAIN t /\ (results[p] \o t)[i] = t[i - Len(results[p])]
    <3>1. results[p] \in Seq(Answer) /\ t \in Seq(Answer)
      BY <1>2, <1>3, Zenon
    <3> QED
      BY ONLY <3>1, ConcatEntries, ZenonT(30)
  <2> QED
    BY <1>2, <1>6, <2>1, ZenonT(30)
<1>8. \A i \in 1 .. a : results[p][i] \in published'[p]
  <2>1. \A i \in 1 .. a : i <= a - 0
    BY <1>6
  <2> QED
    BY <1>1, <1>5, <1>6, <2>1, ZenonT(30) DEF ReplayOf
<1>9. /\ \A i \in 1 .. a + b : i <= (a + b) - b => i \in 1 .. a
      /\ \A i \in 1 .. a + b : i > (a + b) - b => i > a
  BY SMTT(30), Z3, <1>6
<1>10. chan' = chan /\ t = Head(chan[p]).answers
  BY <1>1, Zenon DEF t
<1>11. Len(t) = b
  BY <1>6, Zenon
<1> QED
  BY <1>5, <1>7, <1>8, <1>9, <1>10, <1>11, ZenonT(30) DEF ReplayOf

\* The result sender publishes the backlog.
LEMMA ReplayPublish ==
    ASSUME TypeOK, RollbackInv, BoundedInv, NEW p \in Party, ReplayOf(p), Publish(p)
    PROVE  ReplayOf(p)'
<1> DEFINE t == Head(chan[p]).answers
<1>1. /\ committed[p] /\ ~committed'[p] /\ UNCHANGED <<pc, results>>
      /\ published'[p] = published[p] \cup {t[j] : j \in DOMAIN t}
  BY ZenonT(30) DEF Publish, TypeOK, TablesOK, JobsOK
<1>2. pc[p] # "down" /\ Len(results[p]) \in Nat /\ Len(t) \in Nat
  BY <1>1, ReplayTypes, ZenonT(30)
<1>3. Backlog(p) = Len(t)
  BY <1>1, <1>2, Zenon DEF Backlog
<1>4. ASSUME NEW i \in 1 .. Len(results[p]) PROVE results[p][i] \in published'[p]
  <2>1. CASE i <= Len(results[p]) - Len(t)
    BY <1>1, <1>3, <2>1, Zenon DEF ReplayOf
  <2>2. CASE i > Len(results[p]) - Len(t)
    BY <1>1, <2>2, ZenonT(30) DEF ReplayOf
  <2> HIDE DEF t
  <2> QED
    BY SMTT(30), Z3, <1>2, <2>1, <2>2
<1> QED
  BY <1>1, <1>4, ZenonT(30) DEF ReplayOf

\* Every step keeps the backlog within what the next start publishes again.
LEMMA ReplayNext ==
    TypeOK /\ RollbackInv /\ BoundedInv /\ ReplayInv /\ [Next]_vars => ReplayInv'
<1> SUFFICES ASSUME TypeOK, RollbackInv, BoundedInv, ReplayInv, [Next]_vars PROVE ReplayInv'
  BY Zenon
<1>0. ASSUME NEW p \in Party PROVE ReplayOf(p)
  BY Zenon DEF ReplayInv
<1>1. CASE Sync
  <2>1. /\ \A p \in Party : pc[p] = "started" /\ pc'[p] = "synced"
        /\ UNCHANGED <<results, published, committed, chan>>
    BY <1>1, Zenon DEF Sync, persistent
  <2>2. \A p \in Party : pc'[p] # "down" /\ pc[p] # "down"
    BY <2>1, Zenon
  <2> QED
    BY <1>0, <2>1, <2>2, ReplayQuiet, ZenonT(30) DEF ReplayInv
<1>2. ASSUME NEW len \in {Len(batch[p].ids) : p \in Party},
             NEW valid \in ValidEntries(len), NEW n \in 0 .. len,
             NEW new \in SUBSET DOMAIN valid, NEW number \in Numberings(new, n),
             ProcessBatch(valid, new, n, number)
      PROVE  ReplayInv'
  <2> SUFFICES ASSUME NEW p \in Party PROVE ReplayOf(p)'
    BY Zenon DEF ReplayInv
  <2>1. /\ pc[p] = "submitted" /\ pc'[p] = "sending"
        /\ UNCHANGED <<results, published, committed>>
        /\ \E job : chan'[p] = Append(chan[p], job)
    BY <1>2, ZenonT(30) DEF ProcessBatch, persistent
  <2>2. pc[p] # "down" /\ pc'[p] # "down"
    BY <2>1, Zenon
  <2>3. ASSUME chan[p] # <<>> PROVE Head(chan'[p]) = Head(chan[p])
    <3>1. PICK job : chan'[p] = Append(chan[p], job)
      BY <2>1, Zenon
    <3>2. chan[p] \in Seq(JobResult)
      BY Zenon  DEF TypeOK, JobsOK
    <3>3. /\ \A i \in 1 .. Len(chan[p]) : chan'[p][i] = chan[p][i]
          /\ 1 \in 1 .. Len(chan[p])
      BY ONLY <2>3, <3>1, <3>2, AppendEntries
    <3> QED
      BY SMTT(30), Z3, <3>3
  <2> QED
    BY <1>0, <2>1, <2>2, <2>3, ReplayQuiet, ZenonT(30)
<1>3. ASSUME NEW p \in Party,
             \/ Startup(p) \/ MainLoop(p) \/ ResultSender(p)
             \/ HeartbeatExit(p) \/ ProcessingTimeout(p) \/ Crash(p)
      PROVE  ReplayInv'
  <2>1. ASSUME NEW q \in Party, q # p PROVE ReplayOf(q)'
    <3>1. Same(q)
      BY <1>3, <2>1, OthersSame, Zenon
    <3> QED
      BY <1>0, <3>1, ReplayQuiet, Zenon DEF Same
  <2>2. ASSUME Rollback(p) \/ Load(p) \/ EnterLoop(p)
        PROVE  ReplayOf(p)'
    <3>1. /\ pc'[p] # "down" /\ pc[p] # "down"
          /\ UNCHANGED <<results, published, committed, chan>>
      BY <2>2, Zenon DEF Rollback, Load, EnterLoop, TypeOK, StartupOK, persistent
    <3> QED
      BY <1>0, <3>1, ReplayQuiet, ZenonT(30)
  <2>3. ASSUME MainLoop(p)
        PROVE  ReplayOf(p)'
    <3>0. DOMAIN pc = Party
      BY Zenon  DEF TypeOK, StartupOK
    <3>1. /\ pc[p] # "down" /\ pc'[p] # "down"
          /\ UNCHANGED <<results, published, committed, chan>>
      <4>1. CASE ReceiveCircuitBreaker(p) \/ ReceiveDeletion(p) \/ MarkRequest(p)
        BY <3>0, <4>1, Zenon DEF ReceiveCircuitBreaker, ReceiveDeletion, MarkRequest, Receives
      <4>2. CASE TakeRequest(p)
        BY <3>0, <4>2, Zenon DEF TakeRequest
      <4>3. CASE FinishBatch(p) \/ Submit(p) \/ SendResult(p)
        BY ZenonT(30), <3>0, <4>3 DEF FinishBatch, Submit, SendResult, persistent
      <4>4. CASE UpdateIris(p)
        BY <3>0, <4>4, Zenon DEF UpdateIris
      <4> QED
        BY ZenonT(30), <2>3, <4>1, <4>2, <4>3, <4>4 DEF MainLoop
    <3> QED
      BY <1>0, <3>1, ReplayQuiet, Zenon
  <2>4. ReplayOf(p)'
    BY <1>0, <1>3, <2>2, <2>3, StepsOf, ReplayStart, ReplayExit, ReplayCommit, ReplayPublish, ZenonT(30)
  <2> QED
    BY <2>1, <2>4, Zenon DEF ReplayInv
<1>4. CASE UNCHANGED vars
  <2>1. UNCHANGED <<pc, results, published, committed, chan>>
    BY <1>4, Zenon DEF vars, persistent, volatile
  <2> QED
    BY <1>0, <2>1, ReplayQuiet, Zenon DEF ReplayInv
<1> QED
  BY <1>1, <1>2, <1>3, <1>4, Zenon DEF Next

\* Nothing is published when there are no results.
LEMMA ReplayInit == Init => ReplayInv
<1> SUFFICES ASSUME Init, NEW p \in Party PROVE ReplayOf(p)
  BY DEF ReplayInv
<1>1. results[p] = <<>> /\ ~committed[p]
  BY Zenon DEF Init
<1>2. 1 .. Len(<<>>) = {}
  BY SMTT(30)
<1> QED
  BY <1>1, <1>2, ZenonT(30) DEF ReplayOf

\* The backlog of a running party is what its result sender holds.
LEMMA ReplaySuffices ==
    TypeOK /\ RollbackInv /\ BoundedInv /\ ReplayInv => CommittedResultsPublished
<1> SUFFICES ASSUME TypeOK, RollbackInv, BoundedInv, ReplayInv,
                    NEW p \in Party, pc[p] # "down", NEW i \in DOMAIN results[p]
             PROVE  \/ results[p][i] \in published[p]
                    \/ /\ committed[p]
                       /\ \E j \in DOMAIN Head(chan[p]).answers : Head(chan[p]).answers[j] = results[p][i]
  BY ZenonT(30) DEF CommittedResultsPublished
<1>1. ReplayOf(p)
  BY ZenonT(30) DEF ReplayInv
<1>2. /\ results[p] \in Seq(Answer)
      /\ committed[p] => Len(Head(chan[p]).answers) \in Nat
  BY ReplayTypes, Zenon
<1>3. PICK a \in Nat : a = Len(results[p]) /\ i \in 1 .. a
  BY <1>2
<1>4. CASE committed[p]
  <2>1. PICK b \in Nat : b = Len(Head(chan[p]).answers)
    BY <1>2, <1>4, Zenon
  <2>2. Backlog(p) = b
    BY <1>4, <2>1, Zenon DEF Backlog
  <2>3. i <= a - b \/ i > a - b
    <3>1. a \in Nat /\ b \in Nat /\ i \in 1 .. a
      BY <1>3, <2>1, Zenon
    <3> QED
      BY ONLY <3>1
  <2> QED
    BY <1>1, <1>3, <1>4, <2>1, <2>2, <2>3, ZenonT(30) DEF ReplayOf
<1>5. CASE ~committed[p]
  <2>1. Backlog(p) = 0
    BY <1>5, Zenon DEF Backlog
  <2>2. i <= a - 0
    BY <1>3
  <2> QED
    BY <1>1, <1>3, <2>1, <2>2, ZenonT(30) DEF ReplayOf
<1> QED
  BY ZenonT(30), <1>4, <1>5

\* Whatever crashes happen, a result that is in the results table of a running
\* party is on SNS or about to be sent: the results between the commit and the
\* publication of a crashed party are at most a batch, and the start replays two.
THEOREM CommittedResultsArePublished == Spec => []CommittedResultsPublished
<1>1. Init => TypeOK /\ RollbackInv /\ BoundedInv /\ ReplayInv
  BY TypeInit, RollbackInit, BoundedInit, ReplayInit, Zenon
<1>2. TypeOK /\ RollbackInv /\ BoundedInv /\ ReplayInv /\ [Next]_vars
        => (TypeOK /\ RollbackInv /\ BoundedInv /\ ReplayInv)'
  BY TypeNext, RollbackNext, BoundedNext, ReplayNext, Zenon
<1> QED
  BY <1>1, <1>2, ReplaySuffices, PTL DEF Spec

-----------------------------------------------------------------------------
(* Each request once.                                                      *)

\* Every request is asked for by one message at most, and the seed holds no
\* request twice and none that is still to come.
DistinctRequests ==
    /\ \A i, j \in DOMAIN Messages :
          /\ Messages[i].kind = "uniqueness" /\ Messages[j].kind = "uniqueness"
          /\ Messages[i].id = Messages[j].id
          => i = j
    /\ \A i, j \in DOMAIN Seed : Seed[i] = Seed[j] => i = j
    /\ \A i \in DOMAIN Messages : Messages[i].kind = "uniqueness" =>
          \A j \in DOMAIN Seed : Seed[j] # Messages[i].id

\* Where a request is: in the rows r of the irises table, in a job, in the jobs
\* w that wait for their commit, in the ids b of a batch.
InRows(x, r) == \E k \in DOMAIN r : r[k] = x
InJob(x, job) == \E j \in DOMAIN job.answers : job.answers[j].id = x
InJobs(x, w) == \E i \in 1 .. Len(w) : InJob(x, w[i])
InBatch(x, b) == \E i \in 1 .. Len(b) : b[i] = x

OnceInRows(r) == \A k, l \in DOMAIN r : r[k] = r[l] /\ r[k] # Dummy => k = l
OnceInJobs(w) ==
    \A i, m \in 1 .. Len(w) : \A j \in DOMAIN w[i].answers, n \in DOMAIN w[m].answers :
        w[i].answers[j].id = w[m].answers[n].id => i = m /\ j = n
OnceInBatch(b) == \A i, m \in 1 .. Len(b) : b[i] = b[m] => i = m

\* A request is at one of these places at most, there once, and it is known.
Separate(r, w, b, known) ==
    /\ OnceInRows(r) /\ OnceInJobs(w) /\ OnceInBatch(b)
    /\ \A x \in Request :
          /\ InRows(x, r) => x \in known
          /\ InJobs(x, w) => x \in known /\ ~InRows(x, r)
          /\ InBatch(x, b) => x \in known /\ ~InRows(x, r) /\ ~InJobs(x, w)

\* The requests p has taken from its queue, or had to begin with.
Known(p) ==
    {Seed[i] : i \in DOMAIN Seed}
      \cup {Messages[i].id : i \in {j \in DOMAIN Messages :
                                       j < head[p] /\ Messages[j].kind = "uniqueness"}}

\* The jobs that wait for their commit, and the batch no job was made of yet.
Waiting(p) == IF committed[p] THEN Tail(chan[p]) ELSE chan[p]
InHand(p) == IF pc[p] = "sending" THEN <<>> ELSE batch[p].ids

UniqueOf(p) == Separate(rows[p], Waiting(p), InHand(p), Known(p))

UniqueInv == \A p \in Party : UniqueOf(p)

\* Fewer rows, or rows overwritten by a deletion.
LEMMA SeparateFewer ==
    ASSUME NEW r, NEW w, NEW b, NEW known, Separate(r, w, b, known),
           NEW s, DOMAIN s \subseteq DOMAIN r, \A k \in DOMAIN s : s[k] \in {r[k], Dummy}
    PROVE  Separate(s, w, b, known)
<1>1. OnceInRows(s)
  BY Zenon DEF Separate, OnceInRows
<1>2. ASSUME NEW x \in Request, InRows(x, s) PROVE InRows(x, r)
  BY <1>2, DummyAssumption, Zenon DEF InRows
<1> QED
  BY <1>1, <1>2, Zenon DEF Separate

\* A request that was not known joins the batch.
LEMMA SeparateTake ==
    ASSUME NEW r, NEW w, NEW b \in Seq(Request), NEW known, Separate(r, w, b, known),
           NEW y \in Request, y \notin known
    PROVE  Separate(r, w, Append(b, y), known \cup {y})
<1>1. PICK c : c = Append(b, y)
  BY ZenonT(30)
<1>2. /\ Len(b) \in Nat /\ Len(c) = Len(b) + 1
      /\ \A i \in 1 .. Len(b) : c[i] = b[i]
      /\ c[Len(b) + 1] = y
  BY <1>1, AppendEntries
<1>3. PICK n \in Nat : n = Len(b) /\ Len(c) = n + 1 /\ c[n + 1] = y
  BY <1>2, Zenon
<1>4. \A i \in 1 .. n + 1 : i \in 1 .. n \/ i = n + 1
  BY <1>3
<1>5. \A i \in 1 .. n : c[i] = b[i]
  BY <1>2, <1>3, Zenon
<1>6. \A i \in 1 .. n : b[i] # y
  <2> SUFFICES ASSUME NEW i \in 1 .. n, b[i] = y PROVE FALSE
    BY Zenon
  <2>1. InBatch(y, b)
    BY <1>3, Zenon DEF InBatch
  <2> QED
    BY <2>1, Zenon DEF Separate
<1>7. OnceInBatch(c)
  <2> SUFFICES ASSUME NEW i \in 1 .. n + 1, NEW m \in 1 .. n + 1, c[i] = c[m] PROVE i = m
    BY <1>3, Zenon DEF OnceInBatch
  <2>1. \A j, k \in 1 .. n : b[j] = b[k] => j = k
    BY <1>3, Zenon DEF Separate, OnceInBatch
  <2> QED
    BY <1>3, <1>4, <1>5, <1>6, <2>1, ZenonT(30)
<1>8. ASSUME NEW x \in Request, InBatch(x, c) PROVE InBatch(x, b) \/ x = y
  BY <1>3, <1>4, <1>5, <1>8, ZenonT(30) DEF InBatch
<1>9. ~InRows(y, r) /\ ~InJobs(y, w)
  BY Zenon DEF Separate
<1>10. Separate(r, w, c, known \cup {y})
  BY <1>7, <1>8, <1>9, Zenon DEF Separate
<1> QED
  BY <1>1, <1>10, Zenon

\* More is known, though it is nowhere.
LEMMA SeparateKnown ==
    ASSUME NEW r, NEW w, NEW b, NEW known, Separate(r, w, b, known), NEW k, known \subseteq k
    PROVE  Separate(r, w, b, k)
BY Zenon DEF Separate

\* Jobs and batch are dropped.
LEMMA SeparateDrop ==
    ASSUME NEW r, NEW w, NEW b, NEW known, Separate(r, w, b, known)
    PROVE  Separate(r, <<>>, <<>>, known) /\ Separate(r, w, <<>>, known)
<1>1. 1 .. Len(<<>>) = {}
  OBVIOUS
<1>2. OnceInJobs(<<>>) /\ OnceInBatch(<<>>) /\ \A x : ~InJobs(x, <<>>) /\ ~InBatch(x, <<>>)
  BY <1>1, Zenon DEF OnceInJobs, OnceInBatch, InJobs, InBatch
<1> QED
  BY <1>2, Zenon DEF Separate

\* A job is made of entries of the batch.
MadeOf(job, b, valid) ==
    /\ \A j \in DOMAIN job.answers : valid[j] \in 1 .. Len(b) /\ job.answers[j].id = b[valid[j]]
    /\ \A i, j \in DOMAIN job.answers : valid[i] = valid[j] => i = j

\* The batch becomes a job.
LEMMA SeparateProcess ==
    ASSUME NEW r, NEW w \in Seq(JobResult), NEW b \in Seq(Request), NEW known,
           Separate(r, w, b, known), NEW job, NEW valid, MadeOf(job, b, valid)
    PROVE  Separate(r, Append(w, job), <<>>, known)
<1>1. PICK c : c = Append(w, job)
  BY ZenonT(30)
<1>2. /\ Len(w) \in Nat /\ Len(c) = Len(w) + 1
      /\ \A i \in 1 .. Len(w) : c[i] = w[i]
      /\ c[Len(w) + 1] = job
  BY <1>1, AppendEntries
<1>3. PICK n \in Nat : n = Len(w) /\ Len(c) = n + 1 /\ c[n + 1] = job
  BY <1>2, Zenon
<1>4. \A i \in 1 .. n + 1 : i \in 1 .. n \/ i = n + 1
  BY <1>3
<1>5. \A i \in 1 .. n : c[i] = w[i]
  BY <1>2, <1>3, Zenon
<1>6. ASSUME NEW j \in DOMAIN job.answers
      PROVE  job.answers[j].id \in Request /\ InBatch(job.answers[j].id, b)
  <2>1. valid[j] \in 1 .. Len(b) /\ job.answers[j].id = b[valid[j]]
    BY Zenon DEF MadeOf
  <2>2. \A i \in 1 .. Len(b) : b[i] \in Request
    OBVIOUS
  <2> QED
    BY <2>1, <2>2, Zenon DEF InBatch
<1>7. ASSUME NEW x \in Request, InJobs(x, c) PROVE InJobs(x, w) \/ InBatch(x, b)
  <2>1. PICK i \in 1 .. n + 1 : InJob(x, c[i])
    BY <1>3, <1>7, Zenon DEF InJobs
  <2>2. CASE i \in 1 .. n
    BY <1>3, <1>5, <2>1, <2>2, ZenonT(30) DEF InJobs
  <2>3. CASE i = n + 1
    BY <1>3, <1>6, <2>1, <2>3, ZenonT(30) DEF InJob
  <2> QED
    BY <1>4, <2>2, <2>3, ZenonT(30)
<1>8. ASSUME NEW i \in 1 .. n, NEW j \in DOMAIN w[i].answers, NEW m \in DOMAIN job.answers
      PROVE  w[i].answers[j].id # job.answers[m].id
  <2> SUFFICES ASSUME w[i].answers[j].id = job.answers[m].id PROVE FALSE
    BY Zenon
  <2>1. InJobs(job.answers[m].id, w)
    BY <1>3, Zenon DEF InJobs, InJob
  <2> QED
    BY <1>6, <2>1, ZenonT(30) DEF Separate
<1>9. ASSUME NEW i \in DOMAIN job.answers, NEW j \in DOMAIN job.answers,
             job.answers[i].id = job.answers[j].id
      PROVE  i = j
  <2>1. OnceInBatch(b)
    BY Zenon DEF Separate
  <2> QED
    <3>1. valid[i] \in 1 .. Len(b) /\ valid[j] \in 1 .. Len(b) /\ b[valid[i]] = b[valid[j]]
      BY <1>9, Zenon DEF MadeOf
    <3>2. valid[i] = valid[j]
      BY <2>1, <3>1, Zenon DEF OnceInBatch
    <3> QED
      BY <3>2, Zenon DEF MadeOf
<1>10. OnceInJobs(c)
  <2> SUFFICES ASSUME NEW i \in 1 .. n + 1, NEW m \in 1 .. n + 1,
                      NEW j \in DOMAIN c[i].answers, NEW k \in DOMAIN c[m].answers,
                      c[i].answers[j].id = c[m].answers[k].id
               PROVE  i = m /\ j = k
    BY <1>3, Zenon DEF OnceInJobs
  <2>0. OnceInJobs(w)
    BY ZenonT(30) DEF Separate
  <2>1. CASE i \in 1 .. n /\ m \in 1 .. n
    <3>1. c[i] = w[i] /\ c[m] = w[m] /\ i \in 1 .. Len(w) /\ m \in 1 .. Len(w)
      BY <1>3, <1>5, <2>1, ZenonT(30)
    <3>2. j \in DOMAIN w[i].answers /\ k \in DOMAIN w[m].answers
          /\ w[i].answers[j].id = w[m].answers[k].id
      BY <3>1, Zenon
    <3> QED
      BY ONLY <2>0, <3>1, <3>2, SMT, Zenon DEF OnceInJobs
  <2>2. CASE i \in 1 .. n /\ m = n + 1
    <3>1. c[i] = w[i] /\ c[m] = job
      BY <1>3, <1>5, <2>2, ZenonT(30)
    <3>2. j \in DOMAIN w[i].answers /\ k \in DOMAIN job.answers
          /\ w[i].answers[j].id = job.answers[k].id
      BY <3>1, Zenon
    <3> QED
      BY <1>8, <2>2, <3>2, ZenonT(30)
  <2>3. CASE i = n + 1 /\ m \in 1 .. n
    <3>1. c[i] = job /\ c[m] = w[m]
      BY <1>3, <1>5, <2>3, Zenon
    <3>2. j \in DOMAIN job.answers /\ k \in DOMAIN w[m].answers
          /\ w[m].answers[k].id = job.answers[j].id
      BY <3>1, Zenon
    <3> QED
      BY <1>8, <2>3, <3>2, Zenon
  <2>4. CASE i = n + 1 /\ m = n + 1
    BY <1>3, <1>9, <2>4, ZenonT(30)
  <2> QED
    BY <1>4, <2>1, <2>2, <2>3, <2>4, ZenonT(30)
<1>11. Separate(r, c, <<>>, known)
  <2>1. 1 .. Len(<<>>) = {}
    OBVIOUS
  <2>2. OnceInBatch(<<>>) /\ \A x : ~InBatch(x, <<>>)
    BY <2>1, Zenon DEF OnceInBatch, InBatch
  <2>3. \A x \in Request : InJobs(x, c) => x \in known /\ ~InRows(x, r)
    BY <1>7, Zenon DEF Separate
  <2> QED
    BY <1>10, <2>2, <2>3, ZenonT(30) DEF Separate
<1> QED
  BY <1>1, <1>11, Zenon


\* Every new row holds the request of an answer of the job with that serial id.
FromJob(r, s, job) ==
    /\ DOMAIN r \subseteq DOMAIN s /\ \A k \in DOMAIN r : s[k] = r[k]
    /\ \A k \in DOMAIN s \ DOMAIN r : \E j \in DOMAIN job.answers :
          job.answers[j].serial = k /\ s[k] = job.answers[j].id

\* The first job is committed.
LEMMA SeparateCommit ==
    ASSUME NEW r, NEW w \in Seq(JobResult), w # <<>>, NEW b, NEW known,
           Separate(r, w, b, known), NEW s, FromJob(r, s, w[1])
    PROVE  Separate(s, Tail(w), b, known)
<1>1. PICK t : t = Tail(w)
  BY Zenon
<1>2. /\ Len(w) \in Nat /\ Len(t) = Len(w) - 1 /\ Len(w) >= 1
      /\ \A i \in 1 .. Len(t) : t[i] = w[i + 1]
  BY ONLY <1>1, w \in Seq(JobResult), w # <<>>, TailEntries, ZenonT(30)
<1>3. /\ 1 \in 1 .. Len(w) /\ \A i \in 1 .. Len(t) : i + 1 \in 1 .. Len(w) /\ i + 1 # 1
      /\ \A i, m \in 1 .. Len(t) : i + 1 = m + 1 => i = m
  BY <1>2
<1>4. ASSUME NEW j \in DOMAIN w[1].answers
      PROVE  w[1].answers[j].id \in Request /\ InJobs(w[1].answers[j].id, w)
  <2>1. w[1] \in JobResult
    BY <1>3
  <2>2. w[1].answers[j] \in Answer
    BY <2>1 DEF JobResult
  <2>3. w[1].answers[j].id \in Request
    BY <2>2, Zenon DEF Answer
  <2> QED
    BY <1>3, <2>3, Zenon DEF InJobs, InJob
<1>5. ASSUME NEW x \in Request, InRows(x, s) PROVE InRows(x, r) \/ InJob(x, w[1])
  <2>1. PICK k \in DOMAIN s : s[k] = x
    BY <1>5, Zenon DEF InRows
  <2>2. CASE k \in DOMAIN r
    BY <2>1, <2>2, Zenon DEF FromJob, InRows
  <2>3. CASE k \notin DOMAIN r
    BY <2>1, <2>3, Zenon DEF FromJob, InJob
  <2> QED
    BY <2>2, <2>3, Zenon
<1>6. ASSUME NEW x \in Request, InJobs(x, t) PROVE InJobs(x, w) /\ ~InJob(x, w[1])
  <2>1. PICK i \in 1 .. Len(t) : InJob(x, t[i])
    BY <1>6, Zenon DEF InJobs
  <2>2. InJob(x, w[i + 1]) /\ i + 1 \in 1 .. Len(w) /\ i + 1 # 1
    BY <1>2, <1>3, <2>1, Zenon
  <2>3. OnceInJobs(w)
    BY ZenonT(30) DEF Separate
  <2>4. ~InJob(x, w[1])
    BY <1>3, <2>2, <2>3 DEF InJob, OnceInJobs
  <2> QED
    BY <2>2, <2>4, Zenon DEF InJobs
<1>7. OnceInJobs(t)
  <2> SUFFICES ASSUME NEW i \in 1 .. Len(t), NEW m \in 1 .. Len(t),
                      NEW j \in DOMAIN t[i].answers, NEW k \in DOMAIN t[m].answers,
                      t[i].answers[j].id = t[m].answers[k].id
               PROVE  i = m /\ j = k
    BY Zenon DEF OnceInJobs
  <2>1. t[i] = w[i + 1] /\ t[m] = w[m + 1] /\ i + 1 \in 1 .. Len(w) /\ m + 1 \in 1 .. Len(w)
    BY <1>2, <1>3, Zenon
  <2>2. OnceInJobs(w)
    BY ZenonT(30) DEF Separate
  <2>3. i + 1 = m + 1 /\ j = k
    BY ONLY <2>1, <2>2, j \in DOMAIN t[i].answers, k \in DOMAIN t[m].answers,
            t[i].answers[j].id = t[m].answers[k].id, SMT, Zenon DEF OnceInJobs
  <2> QED
    BY <1>3, <2>3, Zenon
<1>8. OnceInRows(s)
  <2> SUFFICES ASSUME NEW k \in DOMAIN s, NEW l \in DOMAIN s, s[k] = s[l], s[k] # Dummy
               PROVE  k = l
    BY Zenon DEF OnceInRows
  <2>1. CASE k \in DOMAIN r /\ l \in DOMAIN r
    BY <2>1, Zenon DEF FromJob, Separate, OnceInRows
  <2>2. ASSUME NEW m \in DOMAIN r, NEW n \in DOMAIN s, n \notin DOMAIN r, s[m] = s[n] PROVE FALSE
    <3>1. PICK j \in DOMAIN w[1].answers : s[n] = w[1].answers[j].id
      BY <2>2, Zenon DEF FromJob
    <3>2. InRows(w[1].answers[j].id, r)
      BY <2>2, <3>1, Zenon DEF FromJob, InRows
    <3> QED
      BY <1>4, <3>2, Zenon DEF Separate
  <2>3. CASE k \notin DOMAIN r /\ l \notin DOMAIN r
    <3>1. PICK i \in DOMAIN w[1].answers : w[1].answers[i].serial = k /\ s[k] = w[1].answers[i].id
      BY <2>3, Zenon DEF FromJob
    <3>2. PICK j \in DOMAIN w[1].answers : w[1].answers[j].serial = l /\ s[l] = w[1].answers[j].id
      BY <2>3, Zenon DEF FromJob
    <3>3. OnceInJobs(w)
      BY Zenon DEF Separate
    <3>4. i = j
      <4>1. w[1].answers[i].id = w[1].answers[j].id
        BY <3>1, <3>2, Zenon
      <4> QED
        BY ONLY <1>3, <3>3, <4>1, i \in DOMAIN w[1].answers, j \in DOMAIN w[1].answers, SMT, Zenon
        DEF OnceInJobs
    <3> QED
      BY <3>1, <3>2, <3>4, Zenon
  <2> QED
    BY <2>1, <2>2, <2>3, Zenon
<1>9. ASSUME NEW x \in Request, InJob(x, w[1]) PROVE InJobs(x, w)
  BY <1>3, <1>9, Zenon DEF InJobs
<1>10. Separate(s, t, b, known)
  <2>1. OnceInBatch(b)
    BY Zenon DEF Separate
  <2> SUFFICES ASSUME NEW x \in Request
               PROVE  /\ InRows(x, s) => x \in known
                      /\ InJobs(x, t) => x \in known /\ ~InRows(x, s)
                      /\ InBatch(x, b) => x \in known /\ ~InRows(x, s) /\ ~InJobs(x, t)
    BY <1>7, <1>8, <2>1, Zenon DEF Separate
  <2>2. /\ InRows(x, r) => x \in known
        /\ InJobs(x, w) => x \in known /\ ~InRows(x, r)
        /\ InBatch(x, b) => x \in known /\ ~InRows(x, r) /\ ~InJobs(x, w)
    BY Zenon DEF Separate
  <2> QED
    BY <1>5, <1>6, <1>9, <2>2, ZenonT(30)
<1> QED
  BY <1>1, <1>10, Zenon

\* What a party holds, if its rows, jobs and batch stay and it takes no request.
LEMMA UniqueQuiet ==
    ASSUME NEW p \in Party, UniqueOf(p), rows'[p] = rows[p], Waiting(p)' = Waiting(p),
           InHand(p)' = InHand(p), Known(p) \subseteq Known(p)'
    PROVE  UniqueOf(p)'
BY SeparateKnown, Zenon DEF UniqueOf

\* What was known stays known.
LEMMA KnownGrows ==
    ASSUME TypeOK, NEW p \in Party, head'[p] \in {head[p], head[p] + 1}
    PROVE  Known(p) \subseteq Known(p)'
<1>1. PICK h \in Nat : h = head[p]
  BY Zenon DEF TypeOK, TablesOK
<1>2. PICK k \in Nat : k = head'[p] /\ h <= k
  BY <1>1
<1>3. DOMAIN Messages \subseteq Nat
  BY MessagesAssumption
<1>4. \A j \in DOMAIN Messages : j < h => j < k
  BY <1>1, <1>2, <1>3
<1>5. \A j \in DOMAIN Messages : j < head[p] => j < head'[p]
  BY <1>1, <1>2, <1>4, Zenon
<1> QED
  BY <1>5, Zenon DEF Known

\* A party that exits loses what is not in its tables.
LEMMA UniqueExit ==
    ASSUME TypeOK, NEW p \in Party, UniqueOf(p), Exit(p), UNCHANGED <<head, rows>>
    PROVE  UniqueOf(p)'
<1>1. pc'[p] = "down" /\ batch'[p].ids = <<>> /\ chan'[p] = <<>> /\ ~committed'[p]
  BY ExitLeaves, ZenonT(30)
<1>2. Waiting(p)' = <<>> /\ InHand(p)' = <<>>
  BY <1>1, Zenon DEF Waiting, InHand
<1>3. Known(p)' = Known(p)
  BY Zenon DEF Known
<1>4. Separate(rows[p], <<>>, <<>>, Known(p))
  BY SeparateDrop, Zenon DEF UniqueOf
<1> QED
  BY <1>2, <1>3, <1>4, Zenon DEF UniqueOf

\* The rollback takes rows away.
LEMMA UniqueRollback ==
    ASSUME TypeOK, NEW p \in Party, UniqueOf(p), Rollback(p)
    PROVE  UniqueOf(p)'
<1>1. /\ pc[p] = "synced" /\ pc'[p] = "loading" /\ UNCHANGED <<head, batch, chan, committed>>
      /\ DOMAIN rows'[p] \subseteq DOMAIN rows[p]
      /\ \A k \in DOMAIN rows'[p] : rows'[p][k] = rows[p][k]
  BY Zenon  DEF Rollback, TypeOK, StartupOK, RowsOK
<1>2. Waiting(p)' = Waiting(p) /\ InHand(p)' = InHand(p) /\ Known(p)' = Known(p)
  BY ZenonT(30), <1>1 DEF Waiting, InHand, Known
<1>3. Separate(rows'[p], Waiting(p), InHand(p), Known(p))
  BY <1>1, SeparateFewer, ZenonT(30) DEF UniqueOf
<1> QED
  BY <1>2, <1>3, ZenonT(30) DEF UniqueOf

\* A deletion overwrites a row.
LEMMA UniqueUpdate ==
    ASSUME TypeOK, NEW p \in Party, UniqueOf(p), UpdateIris(p)
    PROVE  UniqueOf(p)'
<1> DEFINE serial == batch[p].deletions[batch[p].updated + 1]
<1>1. rows' = [rows EXCEPT ![p] = [k \in DOMAIN rows[p] |->
                                      IF k = serial THEN Dummy ELSE rows[p][k]]]
  BY Zenon DEF UpdateIris
<1> HIDE DEF serial
<1>2. /\ DOMAIN rows'[p] \subseteq DOMAIN rows[p]
      /\ \A k \in DOMAIN rows'[p] : rows'[p][k] \in {rows[p][k], Dummy}
  BY <1>1, Zenon DEF TypeOK, RowsOK
<1>3. UNCHANGED <<head, pc, chan, committed>> /\ batch'[p].ids = batch[p].ids
  BY Zenon  DEF UpdateIris, TypeOK, JobsOK
<1>4. Waiting(p)' = Waiting(p) /\ InHand(p)' = InHand(p) /\ Known(p)' = Known(p)
  BY ZenonT(30), <1>3 DEF Waiting, InHand, Known
<1>5. Separate(rows'[p], Waiting(p), InHand(p), Known(p))
  BY <1>2, SeparateFewer, Zenon DEF UniqueOf
<1> QED
  BY <1>4, <1>5, Zenon DEF UniqueOf

\* A request taken from the queue was not known, and joins the batch or is
\* skipped.
LEMMA UniqueTake ==
    ASSUME DistinctRequests, TypeOK, NEW p \in Party, UniqueOf(p), TakeRequest(p)
    PROVE  UniqueOf(p)'
<1>1. PICK m \in {Messages[i] : i \in DOMAIN Messages} :
            /\ pc[p] = "marked" /\ head[p] \in DOMAIN Messages /\ m = Messages[head[p]]
            /\ m.kind = "uniqueness"
            /\ pc' = [pc EXCEPT ![p] = "receiving"]
            /\ head' = [head EXCEPT ![p] = @ + 1]
            /\ \/ UNCHANGED batch
               \/ batch' = [batch EXCEPT ![p].ids = Append(@, m.id)]
            /\ UNCHANGED <<rows, chan, committed>>
  BY Zenon DEF TakeRequest
<1>2. pc'[p] = "receiving" /\ head'[p] = head[p] + 1 /\ head[p] \in Nat
  BY <1>1, Zenon DEF TypeOK, TablesOK, StartupOK
<1>3. Waiting(p)' = Waiting(p)
  BY <1>1, Zenon DEF Waiting
<1>4. InHand(p) = batch[p].ids /\ InHand(p)' = batch'[p].ids
  BY <1>1, <1>2, Zenon DEF InHand
<1>5. Known(p) \subseteq Known(p)'
  BY <1>2, KnownGrows, Zenon
<1>6. CASE UNCHANGED batch
  BY <1>1, <1>3, <1>4, <1>5, <1>6, UniqueQuiet, ZenonT(30)
<1>7. CASE batch' = [batch EXCEPT ![p].ids = Append(@, m.id)]
  <2>1. batch'[p].ids = Append(batch[p].ids, m.id) /\ batch[p].ids \in Seq(Request)
    BY <1>7, Zenon DEF TypeOK, JobsOK
  <2>2. m.id \in Request
    <3>1. m \in Message
      BY <1>1, MessagesAssumption
    <3> QED
      BY <1>1, <3>1, Zenon DEF Message
  <2>3. m.id \notin Known(p)
    <3>1. \A i \in DOMAIN Seed : Seed[i] # m.id
      BY <1>1, ZenonT(30) DEF DistinctRequests
    <3>2. ASSUME NEW i \in DOMAIN Messages, i < head[p], Messages[i].kind = "uniqueness",
                 Messages[i].id = m.id
          PROVE  FALSE
      <4>1. i = head[p]
        BY <1>1, <3>2, Zenon DEF DistinctRequests
      <4> QED
        BY <1>2, <3>2, <4>1
    <3> QED
      BY <3>1, <3>2, Zenon DEF Known
  <2>4. m.id \in Known(p)'
    <3>1. head[p] < head'[p]
      BY <1>2
    <3> QED
      BY <1>1, <3>1, ZenonT(30) DEF Known
  <2>5. Separate(rows[p], Waiting(p), Append(batch[p].ids, m.id), Known(p) \cup {m.id})
    BY <1>4, <2>1, <2>2, <2>3, SeparateTake, ZenonT(30) DEF UniqueOf
  <2>6. Known(p) \cup {m.id} \subseteq Known(p)'
    BY <1>5, <2>4, Zenon
  <2>7. Separate(rows[p], Waiting(p), Append(batch[p].ids, m.id), Known(p)')
    BY <2>5, <2>6, SeparateKnown, Zenon
  <2> QED
    BY <1>1, <1>3, <1>4, <2>1, <2>7, ZenonT(30) DEF UniqueOf
<1> QED
  BY <1>1, <1>6, <1>7, Zenon

\* Appending to a sequence that is not empty leaves its head alone.
LEMMA TailAppend ==
    ASSUME NEW S, NEW s \in Seq(S), s # <<>>, NEW e
    PROVE  Tail(Append(s, e)) = Append(Tail(s), e)
<1>1. /\ Len(s) \in Nat /\ Len(s) >= 1
      /\ Tail(s) \in Seq(S) /\ Len(Tail(s)) = Len(s) - 1
      /\ \A i \in 1 .. Len(Tail(s)) : Tail(s)[i] = s[i + 1]
  BY TailEntries, Zenon
<1> QED
  BY <1>1

\* The batch becomes a job.
LEMMA UniqueProcessBatch ==
    ASSUME TypeOK, NEW p \in Party, UniqueOf(p),
           NEW len \in {Len(batch[q].ids) : q \in Party}, NEW valid \in ValidEntries(len),
           NEW n, NEW new, NEW number, ProcessBatch(valid, new, n, number)
    PROVE  UniqueOf(p)'
<1> DEFINE job == [answers |-> Answers(p, valid, new, number),
                   deletions |-> batch[p].deletions, base |-> memLen[p]]
<1>1. /\ pc[p] = "submitted" /\ pc'[p] = "sending" /\ UNCHANGED <<head, rows, batch, committed>>
      /\ chan'[p] = Append(chan[p], job)
  BY Zenon DEF ProcessBatch, persistent
<1>2. len = Len(batch[p].ids)
  <2>1. PICK q \in Party : len = Len(batch[q].ids)
    BY Zenon
  <2> QED
    BY <2>1, Zenon DEF ProcessBatch
<1>3. batch[p].ids \in Seq(Request) /\ chan[p] \in Seq(JobResult) /\ committed[p] \in BOOLEAN
      /\ (committed[p] => chan[p] # <<>>)
  BY Zenon DEF TypeOK, JobsOK
<1>4. /\ \A i \in DOMAIN valid : valid[i] \in 1 .. len
      /\ \A i, j \in DOMAIN valid : valid[i] = valid[j] => i = j
  <2>1. Len(batch[p].ids) \in Nat
    BY <1>3
  <2>2. PICK l \in 0 .. len : valid \in [1 .. l -> 1 .. len]
    BY Zenon DEF ValidEntries
  <2>3. \A i, j \in DOMAIN valid : i < j => valid[i] < valid[j]
    BY Zenon DEF ValidEntries
  <2>4. PICK c \in Nat : c = len
    BY <1>2, <2>1, Zenon
  <2>5. l \in Nat /\ valid \in [1 .. l -> 1 .. c] /\ DOMAIN valid = 1 .. l
    BY <2>2, <2>4
  <2>6. \A i, j \in 1 .. l : valid[i] = valid[j] => i = j
    BY ONLY <2>3, <2>4, <2>5
  <2> QED
    BY <2>4, <2>5, <2>6, Zenon
<1>5. MadeOf(job, batch[p].ids, valid)
  <2>1. /\ DOMAIN job.answers = DOMAIN valid
        /\ \A i \in DOMAIN valid : job.answers[i].id = batch[p].ids[valid[i]]
    BY ZenonT(30) DEF Answers
  <2> HIDE DEF job
  <2> QED
    BY <1>2, <1>4, <2>1, ZenonT(30) DEF MadeOf
<1> HIDE DEF job
<1>6. InHand(p) = batch[p].ids /\ InHand(p)' = <<>>
  BY ZenonT(30), <1>1 DEF InHand
<1>7. Waiting(p) \in Seq(JobResult) /\ Waiting(p)' = Append(Waiting(p), job)
  <2>1. CASE committed[p]
    <3>1. chan[p] \in Seq(JobResult) /\ chan[p] # <<>>
      BY <1>3, <2>1, Zenon
    <3>2. Tail(Append(chan[p], job)) = Append(Tail(chan[p]), job) /\ Tail(chan[p]) \in Seq(JobResult)
      BY ONLY <3>1, TailAppend, TailEntries, Zenon
    <3> QED
      BY <1>1, <2>1, <3>2, Zenon DEF Waiting
  <2>2. CASE ~committed[p]
    BY <1>1, <1>3, <2>2, ZenonT(30) DEF Waiting
  <2> QED
    BY <2>1, <2>2, Zenon
<1>8. Known(p)' = Known(p)
  BY <1>1, Zenon DEF Known
<1>9. Separate(rows[p], Append(Waiting(p), job), <<>>, Known(p))
  BY <1>3, <1>5, <1>6, <1>7, SeparateProcess, ZenonT(30) DEF UniqueOf
<1> QED
  BY <1>1, <1>6, <1>7, <1>8, <1>9, ZenonT(30) DEF UniqueOf

\* The rows a commit adds come from the answers of the first job.
LEMMA CommitFromJob ==
    ASSUME TypeOK, NEW p \in Party, Commit(p), NewIds(Head(chan[p])) \cap DOMAIN rows[p] = {}
    PROVE  FromJob(rows[p], rows'[p], Head(chan[p]))
<1> DEFINE job == Head(chan[p])
           new == NewIds(job)
           Id(k) == job.answers[CHOOSE i \in DOMAIN job.answers : job.answers[i].serial = k].id
<1>1. rows' = [rows EXCEPT ![p] =
                 [k \in DOMAIN rows[p] \cup new |-> IF k \in new THEN Id(k) ELSE rows[p][k]]]
  BY Zenon DEF Commit
<1>2. ASSUME NEW k \in new
      PROVE  \E j \in DOMAIN job.answers : job.answers[j].serial = k /\ Id(k) = job.answers[j].id
  <2>1. \E i \in DOMAIN job.answers : job.answers[i].serial = k
    BY DEF NewIds
  <2>2. PICK j : j = CHOOSE i \in DOMAIN job.answers : job.answers[i].serial = k
    BY ZenonT(30)
  <2> QED
    BY <2>1, <2>2, Zenon
<1> HIDE DEF Id, new, job
<1>3. rows'[p] = [k \in DOMAIN rows[p] \cup new |-> IF k \in new THEN Id(k) ELSE rows[p][k]]
  BY <1>1 DEF TypeOK, RowsOK
<1>4. new \cap DOMAIN rows[p] = {}
  BY DEF new, job
<1>5. /\ DOMAIN rows'[p] = DOMAIN rows[p] \cup new
      /\ \A k \in DOMAIN rows[p] : rows'[p][k] = rows[p][k]
      /\ \A k \in new : rows'[p][k] = Id(k)
  BY <1>3, <1>4, Zenon
<1>6. FromJob(rows[p], rows'[p], job)
  <2>1. \A k \in DOMAIN rows'[p] \ DOMAIN rows[p] : k \in new /\ rows'[p][k] = Id(k)
    BY <1>5, Zenon
  <2>2. ASSUME NEW k \in DOMAIN rows'[p] \ DOMAIN rows[p]
        PROVE  \E j \in DOMAIN job.answers :
                   job.answers[j].serial = k /\ rows'[p][k] = job.answers[j].id
    <3>1. k \in new /\ rows'[p][k] = Id(k)
      BY <2>1, Zenon
    <3>2. PICK j \in DOMAIN job.answers : job.answers[j].serial = k /\ Id(k) = job.answers[j].id
      BY <1>2, <3>1, Zenon
    <3> QED
      BY <3>1, <3>2, Zenon
  <2> QED
    BY <1>5, <2>2, Zenon DEF FromJob
<1> QED
  BY <1>6, Zenon DEF job

\* The sender commits the first job: its requests move to the rows.
LEMMA UniqueCommit ==
    ASSUME TypeOK, NEW p \in Party, UniqueOf(p),
           Commit(p), NewIds(Head(chan[p])) \cap DOMAIN rows[p] = {}
    PROVE  UniqueOf(p)'
<1>1. /\ chan[p] # <<>> /\ ~committed[p] /\ UNCHANGED <<head, pc, chan, batch>>
      /\ committed' = [committed EXCEPT ![p] = TRUE]
  BY Zenon DEF Commit
<1>2. committed'[p] /\ chan[p] \in Seq(JobResult)
  BY <1>1, Zenon DEF TypeOK, JobsOK
<1>3. Waiting(p) = chan[p] /\ Waiting(p)' = Tail(chan[p])
  BY <1>1, <1>2, Zenon DEF Waiting
<1>4. InHand(p)' = InHand(p) /\ Known(p)' = Known(p)
  BY <1>1, ZenonT(30) DEF InHand, Known
<1>5. Head(chan[p]) = chan[p][1]
  BY <1>1, <1>2
<1>6. FromJob(rows[p], rows'[p], chan[p][1])
  BY <1>5, CommitFromJob, Zenon
<1>7. Separate(rows'[p], Tail(chan[p]), InHand(p), Known(p))
  BY <1>1, <1>2, <1>3, <1>6, SeparateCommit, Zenon DEF UniqueOf
<1> QED
  BY <1>3, <1>4, <1>7, ZenonT(30) DEF UniqueOf

\* The other steps of the main loop: the batch handed over is dropped, anything
\* else leaves the requests where they are.
LEMMA UniqueMainLoop ==
    ASSUME DistinctRequests, TypeOK, NEW p \in Party, UniqueOf(p), MainLoop(p)
    PROVE  UniqueOf(p)'
<1>0. DOMAIN pc = Party /\ DOMAIN head = Party /\ DOMAIN batch = Party
  BY Zenon DEF TypeOK, StartupOK, TablesOK, JobsOK
<1>1. ASSUME UNCHANGED <<rows, chan, committed>>, head'[p] \in {head[p], head[p] + 1},
             InHand(p)' = InHand(p)
      PROVE  UniqueOf(p)'
  <2>1. Waiting(p)' = Waiting(p)
    BY <1>1, Zenon DEF Waiting
  <2> QED
    BY <1>1, <2>1, KnownGrows, UniqueQuiet, Zenon
<1>2. CASE ReceiveCircuitBreaker(p)
  <2>1. UNCHANGED <<rows, chan, committed, pc, batch>> /\ head'[p] = head[p] + 1
    BY ZenonT(30), <1>0, <1>2 DEF ReceiveCircuitBreaker
  <2> QED
    BY <1>1, <2>1, ZenonT(30) DEF InHand
<1>3. CASE ReceiveDeletion(p)
  <2>1. /\ UNCHANGED <<rows, chan, committed, pc>> /\ head'[p] = head[p] + 1
        /\ batch'[p].ids = batch[p].ids
    BY <1>3 DEF ReceiveDeletion, TypeOK, TablesOK, JobsOK
  <2> QED
    BY <1>1, <2>1, Zenon DEF InHand
<1>4. CASE MarkRequest(p) \/ FinishBatch(p) \/ Submit(p)
  <2>1. /\ UNCHANGED <<head, rows, chan, committed, batch>>
        /\ pc[p] # "sending" /\ pc'[p] # "sending"
    BY ZenonT(30), <1>0, <1>4 DEF MarkRequest, Receives, FinishBatch, Submit, persistent
  <2> QED
    BY <1>1, <2>1, ZenonT(30) DEF InHand
<1>5. CASE SendResult(p)
  <2>1. /\ UNCHANGED <<head, rows, chan, committed>>
        /\ pc[p] = "sending" /\ pc'[p] = "receiving" /\ batch'[p].ids = <<>>
    BY <1>0, <1>5, Zenon DEF SendResult, persistent, NoBatch
  <2>2. InHand(p)' = InHand(p)
    BY ZenonT(30), <2>1 DEF InHand
  <2> QED
    BY <1>1, <2>1, <2>2, ZenonT(30)
<1> QED
  BY <1>2, <1>3, <1>4, <1>5, UniqueTake, UniqueUpdate, ZenonT(30) DEF MainLoop

\* Every step keeps each request at one place.
LEMMA UniqueNext ==
    ASSUME DistinctRequests
    PROVE  TypeOK /\ UniqueInv /\ [Next]_vars => UniqueInv'
<1> SUFFICES ASSUME TypeOK, UniqueInv, [Next]_vars PROVE UniqueInv'
  BY Zenon
<1>0. ASSUME NEW p \in Party PROVE UniqueOf(p)
  BY Zenon DEF UniqueInv
<1>1. ASSUME NEW p \in Party, head'[p] = head[p], rows'[p] = rows[p], chan'[p] = chan[p],
             committed'[p] = committed[p], InHand(p)' = InHand(p)
      PROVE  UniqueOf(p)'
  <2>1. Waiting(p)' = Waiting(p) /\ Known(p)' = Known(p)
    BY <1>1, Zenon DEF Waiting, Known
  <2> QED
    BY <1>0, <1>1, <2>1, UniqueQuiet, ZenonT(30)
<1>2. CASE Sync
  <2>1. /\ UNCHANGED <<head, rows, batch, chan, committed>>
        /\ \A p \in Party : pc[p] = "started" /\ pc'[p] = "synced"
    BY ZenonT(30), <1>2 DEF Sync, persistent
  <2>2. \A p \in Party : pc[p] # "sending" /\ pc'[p] # "sending"
    BY ZenonT(30), <2>1
  <2> QED
    BY <1>1, <2>1, <2>2, ZenonT(30) DEF UniqueInv, InHand
<1>3. ASSUME NEW len \in {Len(batch[p].ids) : p \in Party},
             NEW valid \in ValidEntries(len), NEW n \in 0 .. len,
             NEW new \in SUBSET DOMAIN valid, NEW number \in Numberings(new, n),
             ProcessBatch(valid, new, n, number)
      PROVE  UniqueInv'
  BY <1>0, <1>3, UniqueProcessBatch, Zenon DEF UniqueInv
<1>4. ASSUME NEW p \in Party,
             \/ Startup(p) \/ MainLoop(p) \/ ResultSender(p)
             \/ HeartbeatExit(p) \/ ProcessingTimeout(p) \/ Crash(p)
      PROVE  UniqueInv'
  <2>1. ASSUME NEW q \in Party, q # p PROVE UniqueOf(q)'
    <3>1. Same(q)
      BY <1>4, <2>1, OthersSame, Zenon
    <3> QED
      BY <1>1, <3>1, Zenon DEF Same, InHand
  <2>2. ASSUME Exit(p) /\ UNCHANGED <<head, rows, results, published>> PROVE UniqueOf(p)'
    BY <1>0, <2>2, UniqueExit, ZenonT(30)
  <2>3. ASSUME Start(p) \/ Load(p) \/ EnterLoop(p) PROVE UniqueOf(p)'
    <3>1. /\ UNCHANGED <<head, rows, batch, chan, committed>>
          /\ pc[p] # "sending" /\ pc'[p] # "sending"
      BY ZenonT(30), <2>3 DEF Start, Load, EnterLoop, TypeOK, StartupOK, persistent
    <3> QED
      BY <1>1, <3>1, ZenonT(30) DEF InHand
  <2>4. ASSUME Publish(p) PROVE UniqueOf(p)'
    <3>1. /\ UNCHANGED <<head, rows, pc, batch>> /\ committed[p] /\ ~committed'[p]
          /\ chan'[p] = Tail(chan[p])
      BY ZenonT(30), <2>4 DEF Publish, TypeOK, JobsOK
    <3>2. Waiting(p)' = Waiting(p) /\ InHand(p)' = InHand(p) /\ Known(p)' = Known(p)
      BY <3>1, Zenon DEF Waiting, InHand, Known
    <3> QED
      BY <1>0, <3>1, <3>2, UniqueQuiet, ZenonT(30)
  <2>5. UniqueOf(p)'
    BY <1>0, <1>4, <2>2, <2>3, <2>4, StepsOf, UniqueRollback, UniqueMainLoop, UniqueCommit, ZenonT(30)
  <2> QED
    BY <2>1, <2>5, Zenon DEF UniqueInv
<1>5. CASE UNCHANGED vars
  <2>1. UNCHANGED <<head, rows, pc, batch, chan, committed>>
    BY <1>5, Zenon DEF vars, persistent, volatile
  <2> QED
    BY <1>1, <2>1, ZenonT(30) DEF UniqueInv, InHand
<1> QED
  BY <1>2, <1>3, <1>4, <1>5, Zenon DEF Next

\* The seed is all a party has in the beginning.
LEMMA UniqueInit == ASSUME DistinctRequests PROVE Init => UniqueInv
<1> SUFFICES ASSUME Init, NEW p \in Party PROVE UniqueOf(p)
  BY Zenon  DEF UniqueInv
<1>1. /\ rows[p] = Seed /\ Waiting(p) = <<>> /\ InHand(p) = <<>>
  BY Zenon DEF Init, NoBatch, Waiting, InHand
<1>2. 1 .. Len(<<>>) = {}
  OBVIOUS
<1>3. OnceInJobs(<<>>) /\ OnceInBatch(<<>>) /\ \A x : ~InJobs(x, <<>>) /\ ~InBatch(x, <<>>)
  BY <1>2, Zenon DEF OnceInJobs, OnceInBatch, InJobs, InBatch
<1>4. OnceInRows(Seed)
  BY Zenon DEF OnceInRows, DistinctRequests
<1>5. \A x : InRows(x, Seed) => x \in Known(p)
  BY Zenon DEF InRows, Known
<1> QED
  BY <1>1, <1>3, <1>4, <1>5, ZenonT(30) DEF UniqueOf, Separate

\* No request is stored twice by a party, whatever crashes, rollbacks and
\* replays happen, if no two messages ask for the same request: the message is
\* deleted from SQS before its request joins a batch, and a job is dropped by the
\* process that ends before its commit and never run again.
THEOREM NoRequestInsertedTwice == ASSUME DistinctRequests PROVE Spec => []NoDoubleInsert
<1>1. Init => TypeOK /\ UniqueInv
  BY TypeInit, UniqueInit, Zenon
<1>2. TypeOK /\ UniqueInv /\ [Next]_vars => (TypeOK /\ UniqueInv)'
  BY TypeNext, UniqueNext, Zenon
<1>3. UniqueInv => NoDoubleInsert
  BY Zenon DEF UniqueInv, UniqueOf, Separate, OnceInRows, NoDoubleInsert
<1> QED
  BY <1>1, <1>2, <1>3, PTL DEF Spec
=============================================================================
