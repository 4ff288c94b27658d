----------------------------- MODULE StartupLoad -----------------------------
(***************************************************************************)
(* Loading the database of one party at startup, from a snapshot in S3 and *)
(* from Postgres together (server.rs, s3_importer.rs, stream_irises_par).  *)
(*                                                                         *)
(* Rows carry the time their transaction began (last_modified_at is set by *)
(* a trigger from NOW()).  Rows modified since the snapshot, less a safety *)
(* overlap, come from Postgres; all that is in the snapshot comes from S3; *)
(* the two streams arrive interleaved in any order.  The job that exports  *)
(* the snapshot is not in the repository: it is modelled from how it is    *)
(* read, as copying row by row over the objects of the last export while   *)
(* the server runs, and writing the file {time}_{size}_{last id} at its    *)
(* end.                                                                    *)
(***************************************************************************)
EXTENDS Integers, FiniteSets

CONSTANTS MaxId, MaxTime, MaxWrites,  \* bounds on ids, the clock and writes
          Overlap,         \* db_load_safety_overlap_seconds
          ExportTime,      \* how long an export takes at most
          TxTime,          \* how long a transaction takes at most
          ChunkSize,       \* records in an object of the snapshot
          MaxRangeSize,    \* MAX_RANGE_SIZE: records fetched at a time
          Partitions,      \* load_parallelism
          Dummy, None

ASSUME BoundsAssumption == Partitions \in Nat \ {0} /\ MaxId \in Nat \ {0}
\* The overlap is there for "records that were updated during the DB export".
ASSUME OverlapAssumption ==
    /\ Overlap \in Nat /\ ExportTime \in Nat /\ TxTime \in Nat
    /\ ExportTime + TxTime <= Overlap
\* The dummy is no share of an enrolment, and None is no transaction.
ASSUME ValuesAssumption ==
    /\ Dummy \notin Nat
    /\ None \notin [start : Int, id : Int, val : Nat \cup {Dummy}]

VARIABLES now, writes,
          rows,      \* the irises table: id -> [val, mod]
          tx,        \* the open transaction of the server, or None
          export,    \* the export under way: [start, next], or None
          bucket,    \* the objects of the export: id -> value
          stamp,     \* the last timestamp file: [time, last]
          pc, storeLen, rolledBack,
          s3On,      \* enable_s3_importer
          dbStream,  \* ids still to come from Postgres
          ranges,    \* ranges still to be fetched from S3
          s3Stream,  \* records fetched and still to come
          fromDb,    \* serial_ids_from_db
          missing,   \* all_serial_ids
          memory     \* id -> value

database == <<rows, tx, writes>>
s3 == <<export, bucket, stamp>>
streams == <<dbStream, ranges, s3Stream, fromDb>>
loader == <<storeLen, rolledBack, s3On, streams, missing, memory>>
vars == <<now, database, s3, pc, loader>>

Empty == [i \in {} |-> None]
Upd(f, i, v) == [k \in DOMAIN f \cup {i} |-> IF k = i THEN v ELSE f[k]]
Upto(f, n) == [k \in {i \in DOMAIN f : i <= n} |-> f[k]]
Count == Cardinality(DOMAIN rows)
Values == [i \in DOMAIN rows |-> rows[i].val]

-----------------------------------------------------------------------------
(* Which records the two streams deliver.                                  *)

\* fetch_and_parse_chunks
RangeSize == IF ChunkSize > MaxRangeSize THEN MaxRangeSize ELSE ChunkSize

RangeStarts(last) == {1 + i * RangeSize : i \in 0 .. (last - 1) \div RangeSize}
ChunkId(start) == (start \div ChunkSize) * ChunkSize + 1

\* A range is cut off at the end of its object.
Records(start) ==
    {id \in DOMAIN bucket : /\ id < ChunkId(start) + ChunkSize
                            /\ id \in start .. start + RangeSize - 1}

\* Mutant: the size of a partition is rounded down.
ModifiedFloor(min) ==
    LET size == Count \div Partitions
    IN  {i \in DOMAIN rows : /\ rows[i].mod >= min
                             /\ \E part \in 0 .. Partitions - 1 :
                                    i \in 1 + size * part .. size * (part + 1)}

\* stream_irises_par: partitions over the ids up to the current count.
Modified(min) ==
    LET ceil == (Count + Partitions - 1) \div Partitions
        size == IF ceil = 0 THEN 1 ELSE ceil
    IN  {i \in DOMAIN rows : /\ rows[i].mod >= min
                             /\ \E part \in 0 .. Partitions - 1 :
                                    i \in 1 + size * part .. size * (part + 1)}

-----------------------------------------------------------------------------
Init ==
    /\ now = 0 /\ writes = 0
    /\ rows = [i \in {1} |-> [val |-> 0, mod |-> 0]]
    /\ tx = None
    /\ export = None
    /\ bucket = Values
    /\ stamp = [time |-> 0, last |-> 1]
    /\ pc = "down"
    /\ storeLen = 0 /\ rolledBack = FALSE /\ s3On = FALSE
    /\ dbStream = {} /\ ranges = {} /\ s3Stream = {} /\ fromDb = {}
    /\ missing = {} /\ memory = Empty

Tick ==
    /\ now < MaxTime
    /\ tx # None => now < tx.start + TxTime
    /\ export # None => now < export.start + ExportTime
    /\ now' = now + 1
    /\ UNCHANGED <<database, s3, pc, loader>>

\* A serving party begins to write: a new row under the next id of its memory,
\* or the dummy of a deletion.
BeginTx ==
    /\ pc = "serving"
    /\ tx = None
    /\ writes < MaxWrites
    /\ writes' = writes + 1
    /\ \/ /\ Cardinality(DOMAIN memory) < MaxId
          /\ tx' = [start |-> now, id |-> Cardinality(DOMAIN memory) + 1, val |-> writes']
          /\ memory' = Upd(memory, tx'.id, tx'.val)
       \/ \E i \in DOMAIN memory :
              /\ tx' = [start |-> now, id |-> i, val |-> Dummy]
              /\ memory' = Upd(memory, i, Dummy)
    /\ UNCHANGED <<now, rows, s3, pc, storeLen, rolledBack, s3On, streams, missing>>

\* An UPDATE of a row that is not there changes nothing.
CommitTx ==
    /\ tx # None
    /\ rows' = IF tx.val = Dummy /\ tx.id \notin DOMAIN rows THEN rows
               ELSE Upd(rows, tx.id, [val |-> tx.val, mod |-> tx.start])
    /\ tx' = None
    /\ UNCHANGED <<now, writes, s3, pc, loader>>

BeginExport ==
    /\ export = None
    /\ export' = [start |-> now, next |-> 1]
    /\ UNCHANGED <<now, database, bucket, stamp, pc, loader>>

ExportRow ==
    /\ export # None
    /\ export.next \in DOMAIN rows
    /\ bucket' = Upd(bucket, export.next, rows[export.next].val)
    /\ export' = [export EXCEPT !.next = @ + 1]
    /\ UNCHANGED <<now, database, stamp, pc, loader>>

FinishExport ==
    /\ export # None
    /\ export.next \notin DOMAIN rows
    /\ stamp' = [time |-> now, last |-> export.next - 1]
    /\ bucket' = Upto(bucket, export.next - 1)
    /\ export' = None
    /\ UNCHANGED <<now, database, pc, loader>>

-----------------------------------------------------------------------------
Exit ==
    /\ pc' = "down"
    /\ storeLen' = 0 /\ rolledBack' = FALSE /\ s3On' = FALSE
    /\ dbStream' = {} /\ ranges' = {} /\ s3Stream' = {} /\ fromDb' = {}
    /\ missing' = {} /\ memory' = Empty

\* The process dies; Postgres undoes its open transaction.
Crash ==
    /\ pc # "down"
    /\ Exit
    /\ tx' = None
    /\ UNCHANGED <<now, rows, writes, s3>>

\* The count must be the largest id, and of an empty table there is none.
Start ==
    /\ pc = "down"
    /\ Count > 0
    /\ DOMAIN rows = 1 .. Count
    /\ pc' = "started"
    /\ storeLen' = Count
    /\ s3On' \in BOOLEAN
    /\ UNCHANGED <<now, database, s3, rolledBack, streams, missing, memory>>

\* The sync found the shortest party at n; store_len stays as it was.
Rollback(n) ==
    /\ pc = "started"
    /\ ~rolledBack
    /\ n < storeLen
    /\ rows' = Upto(rows, n)
    /\ rolledBack' = TRUE
    /\ UNCHANGED <<now, tx, writes, s3, pc, storeLen, s3On, streams, missing, memory>>

BeginLoad ==
    /\ pc = "started"
    /\ pc' = "loading"
    /\ dbStream' = IF s3On THEN Modified(stamp.time - Overlap) ELSE Modified(0)
    /\ ranges' = IF s3On THEN RangeStarts(stamp.last) ELSE {}
    /\ missing' = 1 .. storeLen
    /\ UNCHANGED <<now, database, s3, storeLen, rolledBack, s3On, s3Stream, fromDb, memory>>

\* A range is fetched; one before its object or past its end is an error.
FetchRange(start) ==
    /\ pc = "loading"
    /\ start \in ranges
    /\ IF start < ChunkId(start) \/ start \notin DOMAIN bucket
       THEN Exit
       ELSE /\ ranges' = ranges \ {start}
            /\ s3Stream' = s3Stream \cup {[id |-> i, val |-> bucket[i]] : i \in Records(start)}
            /\ UNCHANGED <<pc, storeLen, rolledBack, s3On, dbStream, fromDb, missing, memory>>
    /\ UNCHANGED <<now, database, s3>>

\* load_single_record and the bookkeeping around it.
Put(i, val) ==
    /\ memory' = Upd(memory, i, val)
    /\ missing' = missing \ {i}

LoadFromDb(i) ==
    /\ pc = "loading"
    /\ i \in dbStream
    /\ IF i > storeLen
       THEN Exit
       ELSE /\ Put(i, rows[i].val)
            /\ dbStream' = dbStream \ {i}
            /\ fromDb' = fromDb \cup {i}
            /\ UNCHANGED <<pc, storeLen, rolledBack, s3On, ranges, s3Stream>>
    /\ UNCHANGED <<now, database, s3>>

\* Mutant: a record of the snapshot is put although Postgres had one.
LoadFromS3Always(r) ==
    /\ pc = "loading"
    /\ r \in s3Stream
    /\ IF r.id > storeLen
       THEN Exit
       ELSE /\ Put(r.id, r.val)
            /\ s3Stream' = s3Stream \ {r}
            /\ UNCHANGED <<pc, storeLen, rolledBack, s3On, dbStream, ranges, fromDb>>
    /\ UNCHANGED <<now, database, s3>>

\* "Skip overriding record already loaded via DB with S3 record"
LoadFromS3(r) ==
    /\ pc = "loading"
    /\ r \in s3Stream
    /\ IF r.id \notin fromDb /\ r.id > storeLen
       THEN Exit
       ELSE /\ IF r.id \in fromDb THEN UNCHANGED <<memory, missing>> ELSE Put(r.id, r.val)
            /\ s3Stream' = s3Stream \ {r}
            /\ UNCHANGED <<pc, storeLen, rolledBack, s3On, dbStream, ranges, fromDb>>
    /\ UNCHANGED <<now, database, s3>>

Loaded == pc = "loading" /\ dbStream = {} /\ ranges = {} /\ s3Stream = {}

FinishLoad ==
    /\ Loaded
    /\ IF missing = {}
       THEN /\ pc' = "serving"
            /\ fromDb' = {}
            /\ UNCHANGED <<storeLen, rolledBack, s3On, dbStream, ranges, s3Stream, missing, memory>>
       ELSE Exit
    /\ UNCHANGED <<now, database, s3>>

Next ==
    \/ Tick
    \/ BeginTx
    \/ CommitTx
    \/ BeginExport
    \/ ExportRow
    \/ FinishExport
    \/ Crash
    \/ Start
    \/ \E n \in 1 .. MaxId : Rollback(n)
    \/ BeginLoad
    \/ \E start \in ranges : FetchRange(start)
    \/ \E i \in dbStream : LoadFromDb(i)
    \/ \E r \in s3Stream : LoadFromS3(r)
    \/ FinishLoad

Spec == Init /\ [][Next]_vars

-----------------------------------------------------------------------------
Ids == 1 .. MaxId
Vals == 0 .. MaxWrites \cup {Dummy}
IsMap(f, S) == DOMAIN f \subseteq Ids /\ \A i \in DOMAIN f : f[i] \in S

\* Types: ids stay within the table and every stream delivers such ids.
TypeOK ==
    /\ now \in 0 .. MaxTime /\ writes \in 0 .. MaxWrites
    /\ IsMap(rows, [val : Vals, mod : 0 .. MaxTime])
    /\ tx \in {None} \cup [start : 0 .. MaxTime, id : Ids, val : Vals]
    /\ export \in {None} \cup [start : 0 .. MaxTime, next : 1 .. MaxId + 1]
    /\ IsMap(bucket, Vals)
    /\ stamp \in [time : 0 .. MaxTime, last : 0 .. MaxId]
    /\ pc \in {"down", "started", "loading", "serving"}
    /\ storeLen \in 0 .. MaxId
    /\ rolledBack \in BOOLEAN /\ s3On \in BOOLEAN
    /\ dbStream \subseteq Ids /\ ranges \subseteq Ids
    /\ s3Stream \subseteq [id : Ids, val : Vals]
    /\ fromDb \subseteq Ids /\ missing \subseteq Ids
    /\ IsMap(memory, Vals)

\* What is served is what the table holds, whatever was written while the
\* snapshot was taken and in whatever order the two streams arrive: no record
\* of the snapshot survives an update or a deletion (server.rs, loading loop).
\* The start that rolled back with the S3 importer on is the exception.
LoadedFresh ==
    pc = "serving" /\ tx = None /\ ~(rolledBack /\ s3On) => memory = Values

\* Without a rollback the streams together hold every id up to store_len, so
\* that the check "Not all serial_ids were loaded" passes (server.rs).
LoadComplete ==
    Loaded /\ ~rolledBack => missing = {}

\* The comment in the result sender, "Check if the serial_ids match between
\* memory and db", of the ids that are there when the server begins to serve.
SerialIdsMatch ==
    pc = "serving" /\ tx = None => DOMAIN memory = DOMAIN rows

=============================================================================
