-------------------------- MODULE StartupLoadProofs --------------------------
(***************************************************************************)
(* What the loader brings into memory, for any number of rows, partitions  *)
(* and ranges and any times of an export and a transaction that fit in the *)
(* overlap.                                                                *)
(*                                                                         *)
(* FreshAfterLoad: a party that serves holds what its table holds.  A      *)
(* record of the snapshot that is out of date was overtaken by a           *)
(* transaction that had not ended when the record was copied, or began     *)
(* later; its row therefore carries a time within the overlap before the   *)
(* timestamp file (Snapshot).  Such rows are in the stream of Postgres     *)
(* (PartitionsCover), and until it has delivered one the copy in memory    *)
(* may be old; afterwards it may not (Loading).                            *)
(*                                                                         *)
(* LoadAlwaysComplete: a load that ends has met every id.  A row that the  *)
(* snapshot does not hold is among the modified rows (Exported), and each  *)
(* id is in memory, in a stream, or in a range still to be fetched         *)
(* (Coming).                                                               *)
(***************************************************************************)
EXTENDS StartupLoad, FiniteSetTheorems, TLAPS

Typed ==
    /\ now \in Int /\ writes \in Nat /\ storeLen \in Int
    /\ DOMAIN rows \subseteq Ids
    /\ \A i \in DOMAIN rows : rows[i].mod \in Int
    /\ DOMAIN bucket \subseteq Ids
    /\ DOMAIN memory \subseteq Ids
    /\ memory = [i \in DOMAIN memory |-> memory[i]]
    /\ \A r \in s3Stream : r.id \in Ids
    /\ stamp.time \in Int
    /\ export \in {None} \cup [start : Int, next : Int]
    /\ tx # None => tx.start \in Int /\ tx.id \in Ids

Clocks ==
    /\ stamp.time <= now
    /\ export # None => export.start <= now /\ now <= export.start + ExportTime
    /\ tx # None => /\ tx.start <= now /\ now <= tx.start + TxTime
                    /\ pc = "serving"

\* The copy of row i is up to date, or the row carries a time from since on.
UpToDate(i, since) == bucket[i] = rows[i].val \/ rows[i].mod >= since

Snapshot ==
    \A i \in DOMAIN bucket \cap DOMAIN rows :
        /\ UpToDate(i, stamp.time - Overlap)
        /\ export # None /\ i < export.next => UpToDate(i, export.start - TxTime)

\* Before the load.
Waiting ==
    /\ pc \in {"down", "started"} =>
           DOMAIN memory = {} /\ s3Stream = {} /\ fromDb = {}
    /\ pc = "down" => ~rolledBack

Counted ==
    pc \in {"started", "loading"} =>
        /\ storeLen > 0
        /\ ~rolledBack => DOMAIN rows = 1 .. storeLen
        /\ rolledBack => storeLen \notin DOMAIN rows

\* The exception of LoadedFresh.
Unsafe == rolledBack /\ s3On

Loading ==
    pc = "loading" =>
        /\ dbStream \subseteq DOMAIN rows
        /\ DOMAIN memory \subseteq 1 .. storeLen
        /\ missing = (1 .. storeLen) \ DOMAIN memory
        /\ ~s3On => ranges = {} /\ s3Stream = {} /\ DOMAIN memory \subseteq DOMAIN rows
        /\ ~Unsafe =>
               /\ s3On => \A i \in DOMAIN bucket \cap DOMAIN rows :
                              bucket[i] = rows[i].val \/ i \in dbStream \cup fromDb
               /\ \A r \in s3Stream : r.id \in DOMAIN rows =>
                      r.val = rows[r.id].val \/ r.id \in dbStream \cup fromDb
               /\ \A i \in DOMAIN memory \cap DOMAIN rows :
                      memory[i] = rows[i].val \/ i \in dbStream

Serving ==
    pc = "serving" /\ ~Unsafe =>
        IF tx = None THEN memory = Values
        ELSE /\ memory = Upd(Values, tx.id, tx.val)
             /\ tx.val = Dummy => tx.id \in DOMAIN rows

Inv == Typed /\ Clocks /\ Snapshot /\ Waiting /\ Counted /\ Loading /\ Serving

-----------------------------------------------------------------------------
(* The partitions of stream_irises_par.                                    *)

\* A set of ids has a size.
LEMMA CountOfIds ==
    ASSUME NEW S, S \subseteq Ids
    PROVE  Cardinality(S) \in Nat
  <1>1. IsFiniteSet(Ids)
    BY FS_Interval, BoundsAssumption DEF Ids
  <1>2. IsFiniteSet(S)
    BY <1>1, FS_Subset
  <1> QED BY <1>2, FS_CardinalityType

\* The last id of the last partition is not below the count.
LEMMA SizeCovers ==
    ASSUME NEW n \in Nat, NEW p \in Nat \ {0}
    PROVE  /\ (n + p - 1) \div p \in Nat
           /\ n <= p * ((n + p - 1) \div p)
  OBVIOUS

\* An id below the end of the last partition is in one of them.
LEMMA PartOf ==
    ASSUME NEW k \in Nat, NEW size \in Nat \ {0}, NEW p \in Nat \ {0}, k < p * size
    PROVE  \E part \in 0 .. p - 1 : k + 1 \in 1 + size * part .. size * (part + 1)
  <1> DEFINE q == k \div size
  <1>1. q \in Nat /\ size * q <= k /\ k < size * q + size
    OBVIOUS
  <1>2. size * (q + 1) = size * q + size /\ size * q \in Int
    BY <1>1
  <1>3. q < p
    <2> SUFFICES ASSUME q >= p PROVE FALSE
      BY <1>1
    <2>1. size * q >= size * p
      BY <1>1
    <2> QED BY <2>1, <1>1
  <1> QED BY <1>1, <1>2, <1>3

\* The partitions of stream_irises_par leave no id of a table without holes out:
\* every row modified since min is sent.
LEMMA PartitionsCover ==
    ASSUME DOMAIN rows \subseteq Ids, NEW n \in Nat, DOMAIN rows = 1 .. n,
           NEW i \in DOMAIN rows, NEW min, rows[i].mod >= min
    PROVE  i \in Modified(min)
  <1> DEFINE ceil == (n + Partitions - 1) \div Partitions
             size == IF ceil = 0 THEN 1 ELSE ceil
  <1>1. Count = n
    BY FS_Interval DEF Count
  <1>2. ceil \in Nat /\ n <= Partitions * ceil
    BY SizeCovers, BoundsAssumption
  <1>3. i \in 1 .. n
    OBVIOUS
  <1>4. size \in Nat \ {0} /\ i - 1 < Partitions * size
    <2>1. ceil # 0
      BY <1>2, <1>3, BoundsAssumption
    <2> QED BY <2>1, <1>2, <1>3, BoundsAssumption
  <1>5. PICK k \in Nat : k = i - 1
    BY <1>3
  <1>6. k < Partitions * size /\ k + 1 = i
    BY <1>3, <1>4, <1>5
  <1> HIDE DEF size
  <1>7. \E part \in 0 .. Partitions - 1 : k + 1 \in 1 + size * part .. size * (part + 1)
    BY <1>4, <1>6, PartOf, BoundsAssumption, Zenon
  <1> QED BY <1>1, <1>6, <1>7 DEF Modified, size

-----------------------------------------------------------------------------
(* The steps.                                                              *)

\* The invariant holds at first: one row, and a snapshot of it.
LEMMA InitInv == Init => Inv
  BY BoundsAssumption, OverlapAssumption
  DEF Init, Inv, Typed, Clocks, Snapshot, UpToDate, Waiting, Counted, Loading, Serving,
      Ids, Values, Empty

\* Time passes.
LEMMA TickInv == Inv /\ Tick => Inv'
  <1> SUFFICES ASSUME Inv, Tick PROVE Inv'
    OBVIOUS
  <1> USE DEF Inv, Tick, database, s3, loader, streams
  <1>1. Typed'
    BY DEF Typed, Ids
  <1>2. Clocks'
    BY OverlapAssumption DEF Clocks, Typed
  <1>3. Snapshot' /\ Waiting' /\ Counted' /\ Loading' /\ Serving'
    BY DEF Snapshot, UpToDate, Waiting, Counted, Loading, Serving, Unsafe, Values, Upd
  <1> QED BY <1>1, <1>2, <1>3

\* A transaction begins: it keeps the time of its begin, and the memory has its row.
LEMMA BeginTxInv == Inv /\ BeginTx => Inv'
  <1> SUFFICES ASSUME Inv, BeginTx PROVE Inv'
    OBVIOUS
  <1> USE DEF Inv
  <1>0. pc = "serving" /\ pc' = pc /\ tx = None
    BY DEF BeginTx
  <1>1. PICK i \in Ids, v \in Nat \cup {Dummy} :
            /\ tx' = [start |-> now, id |-> i, val |-> v]
            /\ memory' = Upd(memory, i, v)
            /\ v = Dummy => i \in DOMAIN memory
    <2>1. Cardinality(DOMAIN memory) \in Nat /\ writes + 1 \in Nat
      BY CountOfIds DEF Typed
    <2>2. CASE /\ Cardinality(DOMAIN memory) < MaxId
               /\ tx' = [start |-> now, id |-> Cardinality(DOMAIN memory) + 1, val |-> writes']
               /\ memory' = Upd(memory, tx'.id, tx'.val)
      <3>1. Cardinality(DOMAIN memory) + 1 \in Ids
        BY <2>1, <2>2, BoundsAssumption DEF Ids
      <3>2. writes' \in Nat /\ writes' # Dummy
        BY <2>1, ValuesAssumption DEF BeginTx
      <3>3. memory' = Upd(memory, Cardinality(DOMAIN memory) + 1, writes')
        BY <2>2
      <3> QED BY <3>1, <3>2, <3>3, <2>2
    <2>3. CASE \E i \in DOMAIN memory :
                   /\ tx' = [start |-> now, id |-> i, val |-> Dummy]
                   /\ memory' = Upd(memory, i, Dummy)
      BY <2>3 DEF Typed
    <2> QED BY <2>2, <2>3 DEF BeginTx
  <1>2. /\ UNCHANGED <<now, rows, export, bucket, stamp, storeLen, rolledBack, s3On>>
        /\ UNCHANGED <<dbStream, ranges, s3Stream, fromDb, missing>>
        /\ writes' = writes + 1
    BY DEF BeginTx, s3, streams
  <1>3. Typed'
    BY <1>1, <1>2 DEF Typed, Upd, Ids
  <1>4. Clocks'
    BY <1>0, <1>1, <1>2, OverlapAssumption DEF Clocks, Typed
  <1>5. Snapshot'
    BY <1>2 DEF Snapshot, UpToDate
  <1>6. Waiting' /\ Counted' /\ Loading'
    BY <1>0 DEF Waiting, Counted, Loading
  <1>7. Serving'
    <2>1. tx' # None
      BY <1>1, ValuesAssumption DEF Typed, Ids
    <2> SUFFICES ASSUME ~Unsafe
                 PROVE  /\ memory' = Upd(Values, i, v)
                        /\ v = Dummy => i \in DOMAIN rows
      BY <2>1, <1>1, <1>2 DEF Serving, Unsafe, Values
    <2>2. memory = Values
      BY <1>0 DEF Serving
    <2> QED BY <2>2, <1>1 DEF Values
  <1> QED BY <1>3, <1>4, <1>5, <1>6, <1>7

\* A commit gives its row the time the transaction began, which is no earlier
\* than the present less the time a transaction takes.
LEMMA CommitTxInv == Inv /\ CommitTx => Inv'
  <1> SUFFICES ASSUME Inv, CommitTx PROVE Inv'
    OBVIOUS
  <1> USE DEF Inv
  <1>0. pc = "serving" /\ pc' = pc /\ tx # None /\ tx' = None
    BY DEF CommitTx, Clocks
  <1>1. /\ UNCHANGED <<now, writes, export, bucket, stamp, storeLen, rolledBack, s3On>>
        /\ UNCHANGED <<dbStream, ranges, s3Stream, fromDb, missing, memory>>
    BY DEF CommitTx, s3, loader, streams
  <1>2. CASE rows' = rows /\ tx.val = Dummy /\ tx.id \notin DOMAIN rows
    <2>1. Unsafe
      BY <1>0, <1>2 DEF Serving
    <2>2. Typed' /\ Clocks' /\ Snapshot'
      BY <1>0, <1>1, <1>2 DEF Typed, Clocks, Snapshot, UpToDate
    <2>3. Waiting' /\ Counted' /\ Loading' /\ Serving'
      BY <1>0, <1>1, <2>1 DEF Waiting, Counted, Loading, Serving, Unsafe
    <2> QED BY <2>2, <2>3
  <1>3. CASE rows' = Upd(rows, tx.id, [val |-> tx.val, mod |-> tx.start])
    <2>1. /\ DOMAIN rows' = DOMAIN rows \cup {tx.id}
          /\ rows'[tx.id] = [val |-> tx.val, mod |-> tx.start]
          /\ \A k \in DOMAIN rows : k # tx.id => rows'[k] = rows[k]
      BY <1>3 DEF Upd
    <2>2. Typed'
      BY <1>0, <1>1, <2>1 DEF Typed
    <2>3. Clocks'
      BY <1>0, <1>1 DEF Clocks
    <2>4. Snapshot'
      <3>1. /\ tx.start >= stamp.time - Overlap
            /\ export # None => tx.start >= export.start - TxTime
        BY <1>0, OverlapAssumption DEF Clocks, Typed
      <3> QED BY <3>1, <2>1, <1>1 DEF Snapshot, UpToDate
    <2>5. Waiting' /\ Counted' /\ Loading'
      BY <1>0 DEF Waiting, Counted, Loading
    <2>6. Serving'
      <3>1. Values' = Upd(Values, tx.id, tx.val)
        BY <2>1 DEF Values, Upd
      <3> QED BY <3>1, <1>0, <1>1 DEF Serving, Unsafe
    <2> QED BY <2>2, <2>3, <2>4, <2>5, <2>6
  <1> QED BY <1>2, <1>3 DEF CommitTx

\* An export begins.
LEMMA BeginExportInv == Inv /\ BeginExport => Inv'
  <1> SUFFICES ASSUME Inv, BeginExport PROVE Inv'
    OBVIOUS
  <1> USE DEF Inv, BeginExport, database, loader, streams
  <1>1. Typed' /\ Clocks'
    BY OverlapAssumption DEF Typed, Clocks, Ids
  <1>2. Snapshot'
    BY BoundsAssumption DEF Snapshot, UpToDate, Typed, Ids
  <1>3. Waiting' /\ Counted' /\ Loading' /\ Serving'
    BY Zenon DEF Waiting, Counted, Loading, Serving, Unsafe, Values, Upd
  <1> QED BY <1>1, <1>2, <1>3

\* The export copies a row.
LEMMA ExportRowInv == Inv /\ ExportRow => Inv'
  <1> SUFFICES ASSUME Inv, ExportRow PROVE Inv'
    OBVIOUS
  <1> USE DEF Inv
  <1> DEFINE n == export.next
  <1>1. /\ UNCHANGED <<now, writes, rows, tx, stamp, pc, storeLen, rolledBack, s3On>>
        /\ UNCHANGED <<dbStream, ranges, s3Stream, fromDb, missing, memory>>
        /\ n \in DOMAIN rows
    BY DEF ExportRow, database, loader, streams
  <1>2. /\ export \in [start : Int, next : Int]
        /\ export' \in [start : Int, next : Int]
        /\ export'.start = export.start /\ export'.next = n + 1
        /\ export # None
    BY DEF ExportRow, Typed
  <1>3. /\ DOMAIN bucket' = DOMAIN bucket \cup {n}
        /\ bucket'[n] = rows[n].val
        /\ \A k \in DOMAIN bucket : k # n => bucket'[k] = bucket[k]
    BY DEF ExportRow, Upd
  <1>4. Typed'
    BY <1>1, <1>2, <1>3 DEF Typed, Ids
  <1>5. Clocks'
    BY <1>1, <1>2 DEF Clocks
  <1>6. Snapshot'
    <2> SUFFICES ASSUME NEW k \in DOMAIN bucket' \cap DOMAIN rows, k # n
                 PROVE  /\ UpToDate(k, stamp.time - Overlap)
                        /\ k < n + 1 => UpToDate(k, export.start - TxTime)
      BY <1>1, <1>2, <1>3 DEF Snapshot, UpToDate
    <2>1. k < n + 1 => k < n
      BY <1>2, BoundsAssumption DEF Typed, Ids
    <2> QED BY <2>1, <1>2, <1>3 DEF Snapshot
  <1>7. Waiting' /\ Counted' /\ Serving'
    BY <1>1 DEF Waiting, Counted, Serving, Unsafe, Values, Upd
  <1>8. Loading'
    BY <1>1, <1>3 DEF Loading, Unsafe
  <1> QED BY <1>4, <1>5, <1>6, <1>7, <1>8

\* What the export copied is at most an export and a transaction old.
LEMMA FinishExportInv == Inv /\ FinishExport => Inv'
  <1> SUFFICES ASSUME Inv, FinishExport PROVE Inv'
    OBVIOUS
  <1> USE DEF Inv
  <1>1. /\ UNCHANGED <<now, writes, rows, tx, pc, storeLen, rolledBack, s3On>>
        /\ UNCHANGED <<dbStream, ranges, s3Stream, fromDb, missing, memory>>
        /\ export' = None
        /\ stamp'.time = now
    BY DEF FinishExport, database, loader, streams
  <1>2. export # None /\ export \in [start : Int, next : Int]
    BY DEF FinishExport, Typed
  <1>3. /\ DOMAIN bucket' = {k \in DOMAIN bucket : k <= export.next - 1}
        /\ \A k \in DOMAIN bucket' : bucket'[k] = bucket[k]
    BY DEF FinishExport, Upto
  <1>4. Typed'
    BY <1>1, <1>3 DEF Typed
  <1>5. Clocks'
    BY <1>1 DEF Clocks, Typed
  <1>6. Snapshot'
    <2> SUFFICES ASSUME NEW k \in DOMAIN bucket', k \in DOMAIN rows
                 PROVE  UpToDate(k, now - Overlap)
      BY <1>1, <1>3 DEF Snapshot, UpToDate
    <2>1. k \in DOMAIN bucket /\ k < export.next
      BY <1>2, <1>3, BoundsAssumption DEF Typed, Ids
    <2>2. UpToDate(k, export.start - TxTime)
      BY <2>1, <1>2 DEF Snapshot
    <2>3. export.start - TxTime >= now - Overlap
      BY <1>2, OverlapAssumption DEF Clocks, Typed
    <2> QED BY <2>2, <2>3, <1>2, OverlapAssumption DEF UpToDate, Typed
  <1>7. Waiting' /\ Counted' /\ Serving'
    BY <1>1, Zenon DEF Waiting, Counted, Serving, Unsafe, Values, Upd
  <1>8. Loading'
    BY <1>1, <1>3 DEF Loading, Unsafe
  <1> QED BY <1>4, <1>5, <1>6, <1>7, <1>8

\* Every way down: the process forgets all, the table and the bucket stay.
LEMMA ExitInv ==
    ASSUME Inv, Exit, UNCHANGED <<now, writes, rows, s3>>, tx' \in {tx, None},
           tx' # None => pc = "loading"
    PROVE  Inv'
  <1> USE DEF Inv, Exit, s3
  <1>1. tx' = None
    BY DEF Clocks
  <1>2. Typed'
    BY <1>1 DEF Typed, Ids, Empty
  <1>3. Clocks' /\ Snapshot'
    BY <1>1 DEF Clocks, Snapshot, UpToDate
  <1>4. Waiting' /\ Counted' /\ Loading' /\ Serving'
    BY DEF Waiting, Counted, Loading, Serving, Empty
  <1> QED BY <1>2, <1>3, <1>4

\* A crash empties the memory and ends the transaction.
LEMMA CrashInv == Inv /\ Crash => Inv'
  BY ExitInv DEF Crash

\* A start counts the rows of a table without holes.
LEMMA StartInv == Inv /\ Start => Inv'
  <1> SUFFICES ASSUME Inv, Start PROVE Inv'
    OBVIOUS
  <1> USE DEF Inv, Start, database, s3, streams
  <1>1. Count \in Nat
    BY CountOfIds DEF Typed, Count
  <1>2. Typed' /\ Clocks' /\ Snapshot'
    BY <1>1 DEF Typed, Clocks, Snapshot, UpToDate, Ids
  <1>3. Waiting' /\ Loading' /\ Serving'
    BY DEF Waiting, Loading, Serving
  <1>4. Counted'
    BY <1>1 DEF Counted, Waiting
  <1> QED BY <1>2, <1>3, <1>4

\* A rollback cuts the table.
LEMMA RollbackInv == ASSUME NEW n \in 1 .. MaxId, Inv, Rollback(n) PROVE Inv'
  <1> USE DEF Inv
  <1>1. /\ UNCHANGED <<now, writes, tx, export, bucket, stamp, pc, storeLen, s3On>>
        /\ UNCHANGED <<dbStream, ranges, s3Stream, fromDb, missing, memory>>
        /\ pc = "started" /\ rolledBack' /\ n < storeLen
    BY DEF Rollback, s3, streams
  <1>2. /\ DOMAIN rows' = {k \in DOMAIN rows : k <= n}
        /\ \A k \in DOMAIN rows' : rows'[k] = rows[k]
    BY DEF Rollback, Upto
  <1>3. Typed' /\ Clocks'
    BY <1>1, <1>2, SMTT(20) DEF Typed, Clocks
  <1>4. Snapshot'
    BY <1>1, <1>2 DEF Snapshot, UpToDate
  <1>5. Waiting' /\ Loading' /\ Serving'
    BY <1>1 DEF Waiting, Loading, Serving
  <1>6. Counted'
    BY <1>1, <1>2, BoundsAssumption DEF Counted, Typed
  <1> QED BY <1>3, <1>4, <1>5, <1>6

\* The rows whose copy is out of date are among those Postgres will send.
LEMMA BeginLoadInv == Inv /\ BeginLoad => Inv'
  <1> SUFFICES ASSUME Inv, BeginLoad PROVE Inv'
    OBVIOUS
  <1> USE DEF Inv
  <1>1. /\ UNCHANGED <<now, writes, rows, tx, export, bucket, stamp>>
        /\ UNCHANGED <<storeLen, rolledBack, s3On, s3Stream, fromDb, memory>>
        /\ pc = "started" /\ pc' = "loading"
        /\ missing' = 1 .. storeLen
    BY DEF BeginLoad, database, s3
  <1>2. DOMAIN memory = {} /\ s3Stream = {} /\ fromDb = {}
    BY <1>1 DEF Waiting
  <1>3. Typed' /\ Snapshot'
    BY <1>1, SMTT(20) DEF Typed, Snapshot, UpToDate
  <1>4. Clocks' /\ Waiting' /\ Serving'
    BY <1>1 DEF Clocks, Waiting, Serving
  <1>5. Counted'
    BY <1>1 DEF Counted
  <1>6. Loading'
    <2>1. dbStream' \subseteq DOMAIN rows
      BY DEF BeginLoad, Modified
    <2>2. ~s3On => ranges' = {}
      BY DEF BeginLoad
    <2>3. ASSUME ~Unsafe, s3On, NEW i \in DOMAIN bucket \cap DOMAIN rows,
                 bucket[i] # rows[i].val
          PROVE  i \in dbStream'
      <3>1. DOMAIN rows = 1 .. storeLen /\ storeLen \in Nat
        BY <1>1, <2>3 DEF Counted, Unsafe, Typed
      <3>2. rows[i].mod >= stamp.time - Overlap
        BY <2>3 DEF Snapshot, UpToDate
      <3>3. i \in Modified(stamp.time - Overlap)
        BY <3>1, <3>2, PartitionsCover DEF Typed
      <3> QED BY <3>3, <2>3 DEF BeginLoad
    <2> QED BY <1>1, <1>2, <2>1, <2>2, <2>3 DEF Loading, Unsafe
  <1> QED BY <1>3, <1>4, <1>5, <1>6

\* A range of the snapshot is fetched.
LEMMA FetchRangeInv == ASSUME NEW start \in ranges, Inv, FetchRange(start) PROVE Inv'
  <1> USE DEF Inv
  <1>1. /\ UNCHANGED <<now, writes, rows, tx, export, bucket, stamp>>
        /\ pc = "loading"
    BY DEF FetchRange, database, s3
  <1>2. CASE Exit
    BY <1>1, <1>2, ExitInv DEF s3
  <1>3. CASE /\ ranges' = ranges \ {start}
             /\ s3Stream' = s3Stream \cup {[id |-> i, val |-> bucket[i]] : i \in Records(start)}
             /\ UNCHANGED <<pc, storeLen, rolledBack, s3On, dbStream, fromDb, missing, memory>>
    <2>1. \A r \in s3Stream' :
              r \in s3Stream \/ (r.id \in DOMAIN bucket /\ r.val = bucket[r.id])
      BY <1>3 DEF Records
    <2>2. Typed'
      BY <1>1, <1>3, <2>1, SMTT(20) DEF Typed
    <2>3. Clocks' /\ Snapshot' /\ Waiting' /\ Counted' /\ Serving'
      BY <1>1, <1>3, SMTT(20) DEF Clocks, Snapshot, UpToDate, Waiting, Counted, Serving
    <2>4. s3On
      BY <1>1, SMTT(20) DEF Loading
    <2>5. Loading'
      BY <1>1, <1>3, <2>1, <2>4 DEF Loading, Unsafe
    <2> QED BY <2>2, <2>3, <2>5
  <1> QED BY <1>2, <1>3 DEF FetchRange

\* A row from Postgres is put in memory, over any copy of it.
LEMMA LoadFromDbInv == ASSUME NEW i \in dbStream, Inv, LoadFromDb(i) PROVE Inv'
  <1> USE DEF Inv
  <1>1. /\ UNCHANGED <<now, writes, rows, tx, export, bucket, stamp>>
        /\ pc = "loading"
    BY DEF LoadFromDb, database, s3
  <1>2. CASE Exit
    BY <1>1, <1>2, ExitInv DEF s3
  <1>3. CASE /\ ~(i > storeLen)
             /\ Put(i, rows[i].val)
             /\ dbStream' = dbStream \ {i}
             /\ fromDb' = fromDb \cup {i}
             /\ UNCHANGED <<pc, storeLen, rolledBack, s3On, ranges, s3Stream>>
    <2>1. i \in DOMAIN rows /\ i \in Ids /\ i \in 1 .. storeLen
      BY <1>1, <1>3, BoundsAssumption DEF Loading, Typed, Ids
    <2>2. /\ memory' = Upd(memory, i, rows[i].val)
          /\ DOMAIN memory' = DOMAIN memory \cup {i}
          /\ memory'[i] = rows[i].val
          /\ \A k \in DOMAIN memory : k # i => memory'[k] = memory[k]
          /\ missing' = missing \ {i}
      BY <1>3 DEF Put, Upd
    <2>3. Typed'
      <3>1. memory' = [k \in DOMAIN memory' |-> memory'[k]]
        BY <2>2 DEF Upd
      <3> QED BY <1>1, <1>3, <2>1, <2>2, <3>1 DEF Typed
    <2>4. Clocks' /\ Snapshot' /\ Waiting' /\ Counted' /\ Serving'
      BY <1>1, <1>3, ZenonT(30) DEF Clocks, Snapshot, UpToDate, Waiting, Counted, Serving
    <2>5. Loading'
      BY <1>1, <1>3, <2>1, <2>2, Zenon DEF Loading, Unsafe
    <2> QED BY <2>3, <2>4, <2>5
  <1> QED BY <1>2, <1>3 DEF LoadFromDb

\* A record of the snapshot is put in memory unless the one there is kept.
LEMMA LoadFromS3Inv == ASSUME NEW r \in s3Stream, Inv, LoadFromS3(r) PROVE Inv'
  <1> USE DEF Inv
  <1>1. /\ UNCHANGED <<now, writes, rows, tx, export, bucket, stamp>>
        /\ pc = "loading"
    BY DEF LoadFromS3, database, s3
  <1> DEFINE Rest == /\ s3Stream' = s3Stream \ {r}
                     /\ UNCHANGED <<pc, storeLen, rolledBack, s3On, dbStream, ranges, fromDb>>
  <1>2. CASE Exit
    BY <1>1, <1>2, ExitInv DEF s3
  <1>3. CASE UNCHANGED <<memory, missing>> /\ Rest
    <2>1. Typed'
      BY <1>1, <1>3, SMTT(20) DEF Typed
    <2>2. Clocks' /\ Snapshot' /\ Waiting' /\ Counted' /\ Serving'
      BY <1>1, <1>3 DEF Clocks, Snapshot, UpToDate, Waiting, Counted, Serving
    <2>3. Loading'
      BY <1>1, <1>3, Zenon DEF Loading, Unsafe
    <2> QED BY <2>1, <2>2, <2>3
  <1>4. CASE ~(r.id > storeLen) /\ r.id \notin fromDb /\ Put(r.id, r.val) /\ Rest
    <2>1. r.id \in Ids /\ r.id \in 1 .. storeLen
      BY <1>4, BoundsAssumption, SMTT(20) DEF Typed, Ids
    <2>2. /\ memory' = Upd(memory, r.id, r.val)
          /\ DOMAIN memory' = DOMAIN memory \cup {r.id}
          /\ memory'[r.id] = r.val
          /\ \A k \in DOMAIN memory : k # r.id => memory'[k] = memory[k]
          /\ missing' = missing \ {r.id}
      BY <1>4 DEF Put, Upd
    <2>3. Typed'
      <3>1. memory' = [k \in DOMAIN memory' |-> memory'[k]]
        BY <2>2 DEF Upd
      <3> QED BY <1>1, <1>4, <2>1, <2>2, <3>1 DEF Typed
    <2>4. Clocks' /\ Snapshot' /\ Waiting' /\ Counted' /\ Serving'
      BY <1>1, <1>4, Zenon DEF Clocks, Snapshot, UpToDate, Waiting, Counted, Serving
    <2>5. s3On
      BY <1>1 DEF Loading
    <2>6. ~Unsafe /\ r.id \in DOMAIN rows => r.val = rows[r.id].val \/ r.id \in dbStream
      BY <1>1, <1>4, SMTT(20) DEF Loading
    <2>7. Loading'
      BY <1>1, <1>4, <2>1, <2>2, <2>5, <2>6 DEF Loading, Unsafe
    <2> QED BY <2>3, <2>4, <2>7
  <1> QED BY <1>2, <1>3, <1>4 DEF LoadFromS3

\* All ids up to store_len are in memory; after a rollback without the snapshot
\* they cannot be, as the rows that are gone were nowhere to be read.
LEMMA FinishLoadInv == Inv /\ FinishLoad => Inv'
  <1> SUFFICES ASSUME Inv, FinishLoad PROVE Inv'
    OBVIOUS
  <1> USE DEF Inv
  <1>1. /\ UNCHANGED <<now, writes, rows, tx, export, bucket, stamp>>
        /\ pc = "loading" /\ dbStream = {}
    BY DEF FinishLoad, Loaded, database, s3
  <1>2. CASE Exit
    BY <1>1, <1>2, ExitInv DEF s3
  <1>3. CASE /\ missing = {}
             /\ pc' = "serving"
             /\ fromDb' = {}
             /\ UNCHANGED <<storeLen, rolledBack, s3On, dbStream, ranges, s3Stream, missing, memory>>
    <2>1. Typed'
      BY <1>1, <1>3 DEF Typed
    <2>2. Clocks' /\ Snapshot'
      BY <1>1, <1>3 DEF Clocks, Snapshot, UpToDate
    <2>3. Waiting' /\ Counted' /\ Loading'
      BY <1>3 DEF Waiting, Counted, Loading
    <2>4. Serving'
      <3>1. tx = None
        BY <1>1 DEF Clocks
      <3> SUFFICES ASSUME ~Unsafe PROVE memory = Values
        BY <3>1, <1>1, <1>3 DEF Serving, Unsafe, Values
      <3>2. DOMAIN memory = 1 .. storeLen
        BY <1>1, <1>3, Zenon DEF Loading
      <3>3. DOMAIN memory = DOMAIN rows
        <4>1. CASE rolledBack
          <5>1. storeLen \in 1 .. storeLen
            BY <1>1 DEF Counted, Typed
          <5>2. storeLen \in DOMAIN rows
            BY <5>1, <3>2, <4>1, <1>1 DEF Loading, Unsafe
          <5> QED BY <5>2, <4>1, <1>1 DEF Counted
        <4>2. CASE ~rolledBack
          BY <4>2, <3>2, <1>1 DEF Counted
        <4> QED BY <4>1, <4>2
      <3>4. \A i \in DOMAIN memory : memory[i] = rows[i].val
        BY <3>3, <1>1 DEF Loading
      <3> QED BY <3>3, <3>4 DEF Values, Typed
    <2> QED BY <2>1, <2>2, <2>3, <2>4
  <1> QED BY <1>2, <1>3 DEF FinishLoad

\* Nothing changes.
LEMMA StutterInv == Inv /\ UNCHANGED vars => Inv'
  <1> SUFFICES ASSUME Inv, UNCHANGED vars PROVE Inv'
    OBVIOUS
  <1> USE DEF Inv, vars, database, s3, loader, streams
  <1>1. Typed' /\ Clocks'
    BY DEF Typed, Clocks
  <1>2. Snapshot' /\ Waiting' /\ Counted'
    BY SMTT(20) DEF Snapshot, UpToDate, Waiting, Counted
  <1>3. Loading' /\ Serving'
    BY DEF Loading, Serving, Unsafe, Values
  <1> QED BY <1>1, <1>2, <1>3

\* Every step preserves the invariant.
LEMMA StepInv == Inv /\ [Next]_vars => Inv'
  BY TickInv, BeginTxInv, CommitTxInv, BeginExportInv, ExportRowInv, FinishExportInv,
     CrashInv, StartInv, RollbackInv, BeginLoadInv, FetchRangeInv, LoadFromDbInv,
     LoadFromS3Inv, FinishLoadInv, StutterInv DEF Next

\* What a serving party holds in memory is its table, except after a start that
\* rolled back with the S3 importer on: for any number of rows, partitions and
\* ranges, and any interleaving of the streams, writes, exports and crashes
\* (server.rs, the loading loop; s3_importer.rs; store/src/lib.rs).
THEOREM FreshAfterLoad == Spec => []LoadedFresh
  <1>1. Inv => LoadedFresh
    BY DEF Inv, Serving, Unsafe, LoadedFresh
  <1> QED BY InitInv, StepInv, <1>1, PTL DEF Spec

-----------------------------------------------------------------------------
(* Nothing is missing after a load without a rollback.                     *)

\* A row is missing below another one: such a table is never loaded again.
Holed == \E h \in Ids : \E k \in DOMAIN rows : h < k /\ h \notin DOMAIN rows

\* What the snapshot holds, and what it lacks is among the modified rows.
Exported ==
    /\ stamp.last \in Int
    /\ \A i \in Ids : i <= stamp.last => i \in DOMAIN bucket
    /\ export # None =>
           export.next >= 1 /\ \A i \in Ids : i < export.next => i \in DOMAIN bucket
    /\ ~Holed => \A i \in DOMAIN rows : i <= stamp.last \/ rows[i].mod >= stamp.time - Overlap

\* New rows come after all others, so a hole is never filled.
Appended ==
    /\ now >= 0 /\ (\A i \in DOMAIN rows : rows[i].mod >= 0) /\ (tx # None => tx.start >= 0)
    /\ pc \in {"started", "loading"} => \A i \in DOMAIN rows : i <= storeLen
    /\ pc = "serving" =>
           \E n \in Nat : /\ DOMAIN memory = 1 .. n
                          /\ \A i \in DOMAIN rows : i <= n
                          /\ tx # None /\ tx.val # Dummy =>
                                 tx.id = n /\ \A i \in DOMAIN rows : i < n

InRange(i, start) == i \in start .. start + RangeSize - 1 /\ i < ChunkId(start) + ChunkSize

\* Where row i still is on its way.
OnItsWay(i) ==
    \/ i \in DOMAIN memory
    \/ i \in dbStream
    \/ \E r \in s3Stream : r.id = i
    \/ i \in DOMAIN bucket /\ \E start \in ranges : InRange(i, start)

Coming ==
    pc = "loading" =>
        /\ fromDb \subseteq DOMAIN memory
        /\ ~rolledBack => \A i \in DOMAIN rows : OnItsWay(i)

Cover == Exported /\ Appended /\ Coming

\* No range reaches over the end of its object: an object of the export holds
\* at most MAX_RANGE_SIZE records or a multiple of MAX_RANGE_SIZE.
RangesFit == {ChunkSize, MaxRangeSize} \subseteq Nat \ {0} /\ ChunkSize % RangeSize = 0

\* An id up to the last of the snapshot is in a range, and the range does not
\* cut it off.
LEMMA RangesCover ==
    ASSUME RangesFit, NEW last \in Int, NEW i \in Int, 1 <= i, i <= last
    PROVE  \E start \in RangeStarts(last) : InRange(i, start)
  <1> DEFINE R == RangeSize
             q == (i - 1) \div R
             start == 1 + q * R
  <1>1. R \in Nat \ {0}
    BY DEF RangesFit, RangeSize
  <1>2. PICK m \in Nat : ChunkSize = m * R
    <2>1. CASE R = ChunkSize
      <3>1. ChunkSize = 1 * R
        BY <2>1, <1>1
      <3> QED BY <3>1
    <2>2. CASE R # ChunkSize
      <3>1. R = MaxRangeSize /\ ChunkSize % R = 0 /\ ChunkSize \in Nat
        BY <2>2 DEF RangeSize, RangesFit
      <3>2. ChunkSize \div R \in Nat /\ ChunkSize = (ChunkSize \div R) * R
        BY <3>1, <1>1
      <3> QED BY <3>2
    <2> QED BY <2>1, <2>2
  <1> HIDE DEF R
  <1>3. q \in Nat /\ q * R \in Nat /\ q * R <= i - 1 /\ i - 1 < q * R + R
    BY <1>1
  <1>4. q <= (last - 1) \div R /\ (last - 1) \div R \in Nat
    BY <1>1
  <1> HIDE DEF q
  <1>5. start \in RangeStarts(last)
    BY <1>3, <1>4 DEF RangeStarts, R
  <1>6. i \in start .. start + R - 1
    BY <1>1, <1>3
  <1> DEFINE c == start \div ChunkSize
  <1>7. ChunkSize \in Nat \ {0}
    BY DEF RangesFit
  <1>8. c \in Nat /\ start < c * ChunkSize + ChunkSize
    BY <1>3, <1>7
  <1> HIDE DEF c
  <1>9. c * ChunkSize + ChunkSize = (m * (c + 1)) * R /\ m * (c + 1) \in Nat
    BY <1>1, <1>2, <1>8
  <1>10. q < m * (c + 1)
    <2> DEFINE k == m * (c + 1)
    <2>2. k \in Nat /\ k * R = c * ChunkSize + ChunkSize
      BY <1>9
    <2> HIDE DEF k
    <2>1. q * R < k * R
      <3>1. PICK x \in Int : x = c * ChunkSize + ChunkSize
        BY <1>7, <1>8
      <3>2. PICK y \in Int : y = q * R
        BY <1>3
      <3>3. 1 + y < x
        BY <1>8, <3>1, <3>2
      <3> QED BY <2>2, <3>1, <3>2, <3>3
    <2>3. q < k
      <3> SUFFICES ASSUME q >= k PROVE FALSE
        BY <1>3, <2>2
      <3>1. q * R >= k * R
        BY <1>1, <1>3, <2>2
      <3> QED BY <3>1, <2>1, <1>1, <1>3, <2>2
    <2> QED BY <2>3 DEF k
  <1>11. q * R + R <= c * ChunkSize + ChunkSize
    <2> DEFINE k == m * (c + 1)
    <2>1. k \in Nat /\ q + 1 <= k /\ k * R = c * ChunkSize + ChunkSize
      BY <1>3, <1>9, <1>10
    <2> HIDE DEF k
    <2>2. (q + 1) * R <= k * R
      BY <1>1, <1>3, <2>1
    <2>3. (q + 1) * R = q * R + R
      BY <1>1, <1>3
    <2> QED BY <2>1, <2>2, <2>3
  <1>12. i < ChunkId(start) + ChunkSize
    <2>1. ChunkId(start) = c * ChunkSize + 1
      BY DEF ChunkId, c
    <2>2. PICK x \in Int : x = c * ChunkSize
      BY <1>7, <1>8
    <2>3. PICK y \in Int : y = q * R
      BY <1>3
    <2>4. i - 1 < y + R /\ y + R <= x + ChunkSize
      BY <1>3, <1>11, <2>2, <2>3, SMTT(20)
    <2> HIDE DEF start
    <2> QED BY <2>1, <2>2, <2>4, <1>1, <1>7
  <1> QED BY <1>5, <1>6, <1>12 DEF InRange, R

\* The table, the snapshot and the streams at the beginning.
LEMMA InitCover == Init => Cover
  BY BoundsAssumption DEF Init, Cover, Exported, Appended, Coming, Holed, Values, Ids

\* What is said of the exports depends on the table, the export, the bucket and its
\* timestamp only.
LEMMA ExportedFrame ==
    Exported /\ rows' = rows /\ export' = export /\ bucket' = bucket /\ stamp' = stamp => Exported'
  <1> SUFFICES ASSUME Exported,
                      rows' = rows, export' = export, bucket' = bucket, stamp' = stamp
               PROVE  Exported'
    OBVIOUS
  <1>1. Holed' = Holed
    BY Zenon DEF Holed
  <1> QED BY <1>1, Zenon DEF Exported

\* Time passes.
LEMMA TickCover == Inv /\ Cover /\ Tick => Cover'
  <1> SUFFICES ASSUME Inv, Cover, Tick PROVE Cover'
    BY SMTT(20)
  <1> USE DEF Cover, Tick, database, s3, loader, streams
  <1>1. Exported'
    BY ExportedFrame
  <1>2. Appended'
    BY DEF Inv, Typed, Appended
  <1>3. Coming'
    BY Zenon DEF Coming, OnItsWay
  <1> QED BY <1>1, <1>2, <1>3

\* A transaction begins.
LEMMA BeginTxCover == Inv /\ Cover /\ BeginTx => Cover'
  <1> SUFFICES ASSUME Inv, Cover, BeginTx PROVE Cover'
    OBVIOUS
  <1> USE DEF Cover
  <1>1. /\ UNCHANGED <<now, rows, export, bucket, stamp>>
        /\ pc = "serving" /\ pc' = pc /\ tx = None
    BY SMTT(20) DEF BeginTx, s3
  <1>2. Exported' /\ Coming'
    BY <1>1, ExportedFrame, Zenon DEF Coming
  <1>3. PICK n \in Nat : DOMAIN memory = 1 .. n /\ \A i \in DOMAIN rows : i <= n
    BY <1>1 DEF Appended
  <1>4. Cardinality(DOMAIN memory) = n
    BY <1>3, FS_Interval, SMTT(20)
  <1>5. \E m \in Nat : /\ DOMAIN memory' = 1 .. m
                       /\ \A i \in DOMAIN rows : i <= m
                       /\ tx'.val # Dummy => tx'.id = m /\ \A i \in DOMAIN rows : i < m
    <2>1. CASE /\ tx' = [start |-> now, id |-> Cardinality(DOMAIN memory) + 1, val |-> writes']
               /\ memory' = Upd(memory, tx'.id, tx'.val)
      <3>1. tx'.id = n + 1 /\ DOMAIN memory' = (1 .. n) \cup {n + 1}
        BY <2>1, <1>3, <1>4 DEF Upd
      <3>2. DOMAIN memory' = 1 .. n + 1
        BY <3>1
      <3>3. \A i \in DOMAIN rows : i \in Int
        BY BoundsAssumption DEF Inv, Typed, Ids
      <3>4. n + 1 \in Nat /\ \A i \in DOMAIN rows : i < n + 1 /\ i <= n + 1
        BY <1>3, <3>3
      <3> QED BY <3>1, <3>2, <3>4
    <2>2. CASE \E i \in DOMAIN memory : /\ tx' = [start |-> now, id |-> i, val |-> Dummy]
                                        /\ memory' = Upd(memory, i, Dummy)
      <3>1. DOMAIN memory' = DOMAIN memory /\ tx'.val = Dummy
        BY <2>2, SMTT(20) DEF Upd
      <3> QED BY <3>1, <1>3
    <2> QED BY <2>1, <2>2 DEF BeginTx
  <1>6. tx' # None => tx'.start = now
    BY DEF BeginTx
  <1>7. Appended'
    BY <1>1, <1>5, <1>6, SMTT(20) DEF Appended
  <1> QED BY <1>2, <1>7, Zenon

\* A commit makes no hole good: a new row comes after all others.
LEMMA CommitTxCover == Inv /\ Cover /\ CommitTx => Cover'
  <1> SUFFICES ASSUME Inv, Cover, CommitTx PROVE Cover'
    OBVIOUS
  <1> USE DEF Cover
  <1>1. /\ UNCHANGED <<now, export, bucket, stamp, pc, memory>>
        /\ pc = "serving" /\ tx # None /\ tx' = None
    BY DEF CommitTx, s3, loader, streams, Inv, Clocks
  <1>2. Coming'
    BY <1>1, Zenon DEF Coming
  <1>3. PICK n \in Nat : /\ DOMAIN memory = 1 .. n
                         /\ \A i \in DOMAIN rows : i <= n
                         /\ tx.val # Dummy => tx.id = n /\ \A i \in DOMAIN rows : i < n
    BY <1>1 DEF Appended
  <1>4. CASE rows' = rows
    <2>1. Exported'
      BY <1>1, <1>4, ExportedFrame
    <2>2. Appended'
      BY <1>1, <1>3, <1>4 DEF Appended
    <2> QED BY <2>1, <2>2, <1>2, Zenon
  <1>5. CASE /\ rows' = Upd(rows, tx.id, [val |-> tx.val, mod |-> tx.start])
             /\ tx.val # Dummy \/ tx.id \in DOMAIN rows
    <2>1. /\ DOMAIN rows' = DOMAIN rows \cup {tx.id}
          /\ rows'[tx.id].mod = tx.start
          /\ \A k \in DOMAIN rows : k # tx.id => rows'[k] = rows[k]
      BY <1>5 DEF Upd
    <2>2. tx.id \in DOMAIN rows \/ (tx.id = n /\ \A i \in DOMAIN rows : i < n)
      BY <1>3, <1>5
    <2>3. \A i \in DOMAIN rows' : i <= n
      BY <1>3, <2>1, <2>2, SMTT(20)
    <2>4. Appended'
      BY <1>1, <1>3, <2>1, <2>3 DEF Appended
    <2>5. ~Holed' => ~Holed
      <3> SUFFICES ASSUME NEW h \in Ids, NEW k \in DOMAIN rows, h < k, h \notin DOMAIN rows
                   PROVE  h \notin DOMAIN rows' /\ k \in DOMAIN rows'
        BY DEF Holed
      <3>1. h \in Int /\ k \in Int
        BY BoundsAssumption DEF Inv, Typed, Ids
      <3>2. h # tx.id
        BY <3>1, <2>2
      <3> QED BY <3>2, <2>1
    <2>6. tx.start >= stamp.time - Overlap
      BY <1>1, OverlapAssumption DEF Inv, Clocks, Typed
    <2>7. Exported'
      BY <1>1, <2>1, <2>5, <2>6 DEF Exported
    <2> QED BY <2>4, <2>7, <1>2
  <1> QED BY <1>4, <1>5, Zenon DEF CommitTx

\* An export begins.
LEMMA BeginExportCover == Inv /\ Cover /\ BeginExport => Cover'
  <1> SUFFICES ASSUME Inv, Cover, BeginExport PROVE Cover'
    OBVIOUS
  <1> USE DEF Cover, BeginExport, database, loader, streams
  <1>1. Exported'
    BY BoundsAssumption, SMTT(20) DEF Exported, Holed, Ids
  <1>2. Appended' /\ Coming'
    BY DEF Appended, Coming, OnItsWay
  <1> QED BY <1>1, <1>2, Zenon

\* The export copies a row.
LEMMA ExportRowCover == Inv /\ Cover /\ ExportRow => Cover'
  <1> SUFFICES ASSUME Inv, Cover, ExportRow PROVE Cover'
    OBVIOUS
  <1> USE DEF Cover
  <1> DEFINE n == export.next
  <1>1. /\ UNCHANGED <<now, rows, tx, stamp, pc, storeLen, rolledBack>>
        /\ UNCHANGED <<dbStream, ranges, s3Stream, fromDb, memory>>
        /\ DOMAIN bucket' = DOMAIN bucket \cup {n}
    BY DEF ExportRow, database, loader, streams, Upd
  <1>2. /\ export # None /\ n \in Int
        /\ export'.next = n + 1
    BY SMTT(20) DEF ExportRow, Inv, Typed
  <1>3. Exported'
    <2>1. \A i \in Ids : i < n + 1 => i < n \/ i = n
      BY <1>2, BoundsAssumption, SMTT(20) DEF Ids
    <2>5. \A i \in Ids : i < n => i \in DOMAIN bucket
      BY <1>2, Zenon DEF Exported
    <2>2. \A i \in Ids : i < n + 1 => i \in DOMAIN bucket'
      BY <1>1, <2>1, <2>5, Zenon
    <2>3. n >= 1 /\ n + 1 >= 1
      BY <1>2 DEF Exported
    <2>4. Holed' = Holed
      BY <1>1, Zenon DEF Holed
    <2> QED BY <1>1, <1>2, <2>2, <2>3, <2>4, Zenon DEF Exported
  <1>4. Appended' /\ Coming'
    BY <1>1, Zenon DEF Appended, Coming, OnItsWay
  <1> QED BY <1>3, <1>4

\* An export ends at the first id that has no row.
LEMMA FinishExportCover == Inv /\ Cover /\ FinishExport => Cover'
  <1> SUFFICES ASSUME Inv, Cover, FinishExport PROVE Cover'
    OBVIOUS
  <1> USE DEF Cover
  <1> DEFINE n == export.next
  <1>1. /\ UNCHANGED <<now, rows, tx, pc, storeLen, rolledBack>>
        /\ UNCHANGED <<dbStream, ranges, s3Stream, fromDb, memory>>
        /\ export' = None /\ n \notin DOMAIN rows
        /\ stamp'.last = n - 1
        /\ DOMAIN bucket' = {k \in DOMAIN bucket : k <= n - 1}
    BY DEF FinishExport, database, loader, streams, Upto
  <1>2. n \in Int /\ n >= 1 /\ \A i \in Ids : i < n => i \in DOMAIN bucket
    BY DEF FinishExport, Exported, Inv, Typed
  <1>3. \A i \in Ids : i \in Int /\ i >= 1
    BY BoundsAssumption DEF Ids
  <1>4. ~Holed => \A i \in DOMAIN rows : i < n
    <2> SUFFICES ASSUME NEW i \in DOMAIN rows, ~(i < n) PROVE Holed
      OBVIOUS
    <2>1. i \in Ids /\ n < i
      BY <1>1, <1>2, <1>3 DEF Inv, Typed
    <2>2. n \in Ids
      BY <2>1, <1>2, BoundsAssumption, SMTT(20) DEF Ids
    <2> QED BY <2>1, <2>2, <1>1 DEF Holed
  <1>5. Exported'
    <2>1. \A i \in Ids : i <= n - 1 <=> i < n
      BY <1>2, <1>3
    <2>2. ~Holed' => \A i \in DOMAIN rows : i <= n - 1
      BY <1>1, <1>4, <2>1, SMTT(20) DEF Holed, Inv, Typed
    <2> QED BY <1>1, <1>2, <2>1, <2>2 DEF Exported
  <1>6. Appended'
    BY <1>1 DEF Appended
  <1>7. Coming'
    <2> SUFFICES ASSUME pc = "loading", ~rolledBack, NEW i \in DOMAIN rows, i \in DOMAIN bucket
                 PROVE  i \in DOMAIN bucket'
      BY <1>1 DEF Coming, OnItsWay
    <2>1. DOMAIN rows = 1 .. storeLen /\ storeLen \in Int
      BY DEF Inv, Counted, Typed
    <2>2. i <= n - 1
      BY <2>1, <1>1, <1>2
    <2> QED BY <2>2, <1>1
  <1> QED BY <1>5, <1>6, <1>7

\* The process ends, and with it the load.
LEMMA ExitCover ==
    ASSUME Inv, Cover, Exit, UNCHANGED <<now, rows, s3>>, tx' \in {tx, None}
    PROVE  Cover'
  <1> USE DEF Cover, Exit, s3
  <1>1. Exported'
    BY ExportedFrame, SMTT(20)
  <1>2. Appended' /\ Coming'
    BY DEF Appended, Coming
  <1> QED BY <1>1, <1>2

\* A crash.
LEMMA CrashCover == Inv /\ Cover /\ Crash => Cover'
  BY ExitCover DEF Crash

\* A start: nothing is loaded yet.
LEMMA StartCover == Inv /\ Cover /\ Start => Cover'
  <1> SUFFICES ASSUME Inv, Cover, Start PROVE Cover'
    OBVIOUS
  <1> USE DEF Cover, Start, database, s3, streams
  <1>1. Count \in Nat
    BY CountOfIds DEF Inv, Typed, Count
  <1>2. Exported'
    BY ExportedFrame, SMTT(20)
  <1>3. Appended' /\ Coming'
    BY <1>1 DEF Appended, Coming
  <1> QED BY <1>2, <1>3

\* A table is cut off only when it has no hole.
LEMMA RollbackCover == ASSUME NEW n \in 1 .. MaxId, Inv, Cover, Rollback(n) PROVE Cover'
  <1> USE DEF Cover
  <1>1. /\ UNCHANGED <<now, tx, export, bucket, stamp, pc, storeLen>>
        /\ pc = "started" /\ ~rolledBack
    BY DEF Rollback, s3, streams
  <1>2. /\ DOMAIN rows' \subseteq DOMAIN rows
        /\ \A k \in DOMAIN rows' : rows'[k] = rows[k]
    BY DEF Rollback, Upto
  <1>3. ~Holed
    <2>1. DOMAIN rows = 1 .. storeLen /\ storeLen \in Int
      BY <1>1, SMTT(20) DEF Inv, Counted, Typed
    <2> QED BY <2>1, BoundsAssumption DEF Holed, Ids
  <1>4. Exported'
    BY <1>1, <1>2, <1>3, SMTT(20) DEF Exported
  <1>5. Appended' /\ Coming'
    BY <1>1, <1>2 DEF Appended, Coming
  <1> QED BY <1>4, <1>5

\* What is not among the rows of Postgres is in a range of the snapshot.
LEMMA BeginLoadCover == ASSUME RangesFit, Inv, Cover, BeginLoad PROVE Cover'
  <1> USE DEF Cover
  <1>1. /\ UNCHANGED <<now, rows, tx, export, bucket, stamp, storeLen, rolledBack, s3On>>
        /\ UNCHANGED <<s3Stream, fromDb, memory>>
        /\ pc = "started" /\ pc' = "loading"
    BY SMTT(20) DEF BeginLoad, database, s3
  <1>2. Exported' /\ Appended'
    BY <1>1, ExportedFrame, Zenon DEF Appended
  <1>3. fromDb = {}
    BY <1>1 DEF Inv, Waiting
  <1>4. ASSUME ~rolledBack, NEW i \in DOMAIN rows
        PROVE  OnItsWay(i)'
    <2>1. DOMAIN rows = 1 .. storeLen /\ storeLen \in Nat
      BY <1>1, <1>4 DEF Inv, Counted, Typed
    <2>2. i \in Ids /\ i \in Int /\ i >= 1
      BY <2>1 DEF Inv, Typed
    <2>3. ~Holed
      BY <2>1, BoundsAssumption, SMTT(20) DEF Holed, Ids
    <2>4. CASE ~s3On
      <3>1. i \in Modified(0)
        BY <2>1, PartitionsCover, SMTT(20) DEF Inv, Typed, Appended
      <3> QED BY <3>1, <2>4 DEF BeginLoad, OnItsWay
    <2>5. CASE s3On /\ rows[i].mod >= stamp.time - Overlap
      <3>1. i \in Modified(stamp.time - Overlap)
        BY <2>1, <2>5, PartitionsCover DEF Inv, Typed
      <3> QED BY <3>1, <2>5 DEF BeginLoad, OnItsWay
    <2>6. CASE s3On /\ i <= stamp.last
      <3>1. i \in DOMAIN bucket /\ stamp.last \in Int
        BY <2>2, <2>6 DEF Exported
      <3>2. \E start \in RangeStarts(stamp.last) : InRange(i, start)
        BY <3>1, <2>2, <2>6, RangesCover
      <3>3. ranges' = RangeStarts(stamp.last)
        BY <2>6 DEF BeginLoad
      <3> QED BY <3>1, <3>2, <3>3, <1>1 DEF OnItsWay
    <2> QED BY <2>3, <2>4, <2>5, <2>6 DEF Exported
  <1>5. Coming'
    BY <1>1, <1>3, <1>4, SMTT(20) DEF Coming
  <1> QED BY <1>2, <1>5

\* A range is fetched: its records are in the stream, or the load ends.
LEMMA FetchRangeCover ==
    ASSUME NEW start \in ranges, Inv, Cover, FetchRange(start)
    PROVE  Cover'
  <1> USE DEF Cover
  <1>1. UNCHANGED <<now, rows, tx, export, bucket, stamp>>
    BY DEF FetchRange, database, s3
  <1>2. CASE Exit
    BY <1>1, <1>2, ExitCover DEF s3
  <1>3. CASE /\ ranges' = ranges \ {start}
             /\ s3Stream' = s3Stream \cup {[id |-> i, val |-> bucket[i]] : i \in Records(start)}
             /\ UNCHANGED <<pc, storeLen, rolledBack, s3On, dbStream, fromDb, missing, memory>>
    <2>1. Exported' /\ Appended'
      BY <1>1, <1>3, ExportedFrame, Zenon DEF Appended
    <2>2. ASSUME NEW i, OnItsWay(i) PROVE OnItsWay(i)'
      <3>1. CASE i \in DOMAIN bucket /\ InRange(i, start)
        <4>1. i \in Records(start)
          BY <3>1, SMTT(20) DEF Records, InRange
        <4>2. [id |-> i, val |-> bucket[i]] \in s3Stream'
          BY <4>1, <1>3
        <4>3. [id |-> i, val |-> bucket[i]].id = i
          BY SMTT(20)
        <4> QED BY <4>2, <4>3, Zenon DEF OnItsWay
      <3>2. CASE ~(i \in DOMAIN bucket /\ InRange(i, start))
        BY <2>2, <3>2, <1>1, <1>3 DEF OnItsWay
      <3> QED BY <3>1, <3>2
    <2>3. Coming'
      BY <1>1, <1>3, <2>2, Zenon DEF Coming
    <2> QED BY <2>1, <2>3
  <1> QED BY <1>2, <1>3, SMTT(20) DEF FetchRange

\* A row from Postgres moves from the stream to the memory.
LEMMA LoadFromDbCover == ASSUME NEW i \in dbStream, Inv, Cover, LoadFromDb(i) PROVE Cover'
  <1> USE DEF Cover
  <1>1. UNCHANGED <<now, rows, tx, export, bucket, stamp>>
    BY DEF LoadFromDb, database, s3
  <1>2. CASE Exit
    BY <1>1, <1>2, ExitCover DEF s3
  <1>3. CASE /\ Put(i, rows[i].val)
             /\ dbStream' = dbStream \ {i}
             /\ fromDb' = fromDb \cup {i}
             /\ UNCHANGED <<pc, storeLen, rolledBack, s3On, ranges, s3Stream>>
    <2>1. pc = "loading" /\ DOMAIN memory' = DOMAIN memory \cup {i}
      BY <1>3, Zenon DEF LoadFromDb, Put, Upd
    <2>2. Exported' /\ Appended'
      BY <1>1, <1>3, <2>1, ExportedFrame, Zenon DEF Appended
    <2>3. Coming'
      BY <1>1, <1>3, <2>1, Zenon DEF Coming, OnItsWay
    <2> QED BY <2>2, <2>3
  <1> QED BY <1>2, <1>3 DEF LoadFromDb

\* A record of the snapshot moves from the stream to the memory, or is not needed.
LEMMA LoadFromS3Cover == ASSUME NEW r \in s3Stream, Inv, Cover, LoadFromS3(r) PROVE Cover'
  <1> USE DEF Cover
  <1>1. UNCHANGED <<now, rows, tx, export, bucket, stamp>> /\ pc = "loading"
    BY DEF LoadFromS3, database, s3
  <1>2. CASE Exit
    BY <1>1, <1>2, ExitCover DEF s3
  <1>3. CASE /\ IF r.id \in fromDb THEN UNCHANGED <<memory, missing>> ELSE Put(r.id, r.val)
             /\ s3Stream' = s3Stream \ {r}
             /\ UNCHANGED <<pc, storeLen, rolledBack, s3On, dbStream, ranges, fromDb>>
    <2>1. fromDb \subseteq DOMAIN memory
      BY <1>1 DEF Coming
    <2>2. DOMAIN memory' = DOMAIN memory \cup {r.id}
      BY <1>3, <2>1 DEF Put, Upd
    <2>3. Exported' /\ Appended'
      BY <1>1, <1>3, ExportedFrame, Zenon DEF Appended
    <2>4. \A i : OnItsWay(i) => OnItsWay(i)'
      BY <1>1, <1>3, <2>2, Zenon DEF OnItsWay
    <2>5. Coming'
      BY <1>1, <1>3, <2>1, <2>2, <2>4, Zenon DEF Coming
    <2> QED BY <2>3, <2>5
  <1> QED BY <1>2, <1>3 DEF LoadFromS3

\* The load ends, in service or in an exit.
LEMMA FinishLoadCover == Inv /\ Cover /\ FinishLoad => Cover'
  <1> SUFFICES ASSUME Inv, Cover, FinishLoad PROVE Cover'
    OBVIOUS
  <1> USE DEF Cover
  <1>1. UNCHANGED <<now, rows, tx, export, bucket, stamp>> /\ pc = "loading"
    BY DEF FinishLoad, Loaded, database, s3
  <1>2. CASE Exit
    BY <1>1, <1>2, ExitCover DEF s3
  <1>3. CASE /\ missing = {}
             /\ pc' = "serving"
             /\ UNCHANGED <<storeLen, rolledBack, s3On, dbStream, ranges, s3Stream, missing, memory>>
    <2>1. Exported' /\ Coming'
      BY <1>1, <1>3, ExportedFrame DEF Coming
    <2>2. tx = None
      BY <1>1 DEF Inv, Clocks
    <2>3. DOMAIN memory = 1 .. storeLen /\ storeLen \in Nat
      <3>1. storeLen \in Nat
        BY <1>1 DEF Inv, Counted, Typed
      <3>2. DOMAIN memory = 1 .. storeLen
        BY <1>1, <1>3, Zenon DEF Inv, Loading
      <3> QED BY <3>1, <3>2
    <2>4. \A i \in DOMAIN rows : i <= storeLen
      BY <1>1, SMTT(20) DEF Appended
    <2>5. Appended'
      BY <1>1, <1>3, <2>2, <2>3, <2>4 DEF Appended
    <2> QED BY <2>1, <2>5, SMTT(20)
  <1> QED BY <1>2, <1>3 DEF FinishLoad

\* Nothing changes.
LEMMA StutterCover == Cover /\ UNCHANGED vars => Cover'
  <1> SUFFICES ASSUME Cover, UNCHANGED vars PROVE Cover'
    OBVIOUS
  <1> USE DEF Cover, vars, database, s3, loader, streams
  <1>1. Exported' /\ Appended'
    BY ExportedFrame, SMTT(20) DEF Appended
  <1>2. Coming'
    BY DEF Coming, OnItsWay
  <1> QED BY <1>1, <1>2, Zenon

\* After a start without a rollback, when both streams have ended, no id up to
\* store_len is missing, so the check "Not all serial_ids were loaded" passes:
\* for any number of rows, partitions and records, as long as no range of the
\* snapshot reaches over the end of its object (server.rs, the loading loop;
\* fetch_and_parse_chunks; stream_irises_par).
THEOREM LoadAlwaysComplete == ASSUME RangesFit PROVE Spec => []LoadComplete
  <1>1. Inv /\ Cover /\ [Next]_vars => Cover'
    BY TickCover, BeginTxCover, CommitTxCover, BeginExportCover, ExportRowCover,
       FinishExportCover, CrashCover, StartCover, RollbackCover, BeginLoadCover,
       FetchRangeCover, LoadFromDbCover, LoadFromS3Cover, FinishLoadCover, StutterCover, SMTT(20)
       DEF Next
  <1>2. Inv /\ Cover => LoadComplete
    <2> SUFFICES ASSUME Inv, Cover, Loaded, ~rolledBack PROVE missing = {}
      BY DEF LoadComplete
    <2>1. /\ missing = (1 .. storeLen) \ DOMAIN memory
          /\ DOMAIN rows = 1 .. storeLen
      BY Zenon DEF Inv, Loading, Counted, Loaded
    <2>2. \A i \in DOMAIN rows : i \in DOMAIN memory
      BY Zenon DEF Cover, Coming, OnItsWay, Loaded
    <2> QED BY <2>1, <2>2
  <1> QED BY InitInv, StepInv, InitCover, <1>1, <1>2, PTL DEF Spec
=============================================================================
