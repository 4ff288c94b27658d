----------------------------- MODULE ServerActor -----------------------------
(***************************************************************************)
(* The GPU actor of one party (iris-mpc-gpu/src/server/actor.rs): the iris *)
(* database sharded over the devices, and the job loop that deletes,       *)
(* compares, distributes the insertions and reports.                       *)
(*                                                                         *)
(* A device holds its shard in slots numbered from 0.  The record of index *)
(* i (serial id i + 1) is looked up by the loader and by deletions at      *)
(* device i % n, slot i \div n; insertions are placed by                   *)
(* distribute_insertions and numbered by calculate_insertion_indices.      *)
(* Nothing in the code ties the two conventions together.                  *)
(*                                                                         *)
(* Shares, rotations and the threshold protocol are abstracted to the      *)
(* relations LeftMatch and RightMatch; u32 is 0 .. 2^W - 1.                *)
(***************************************************************************)
EXTENDS Integers, Sequences, FiniteSets, FiniteSetsExt

CONSTANTS Iris, LeftMatch(_, _), RightMatch(_, _), Dummy,
          SupermatchThreshold,  \* SUPERMATCH_THRESHOLD
          MatchesLen,           \* MAX_MATCHES_LEN: ids kept per query and device
          DeviceCount, MaxDbSize, MaxBatchSize,
          W,                    \* width of u32
          DeletionRequests,     \* sets of indices a batch may ask to delete
          Stores,               \* the databases a start may find in Postgres
          Empty, NoIndex, NoJob

ASSUME DeviceCountAssumption == DeviceCount \in Nat \ {0}
ASSUME LimitsAssumption ==
    /\ MaxDbSize \in Nat /\ MaxBatchSize \in Nat
    /\ MatchesLen \in Nat \ {0} /\ SupermatchThreshold \in Nat
\* Indices and the ids of batch matches must not collide in u32.
ASSUME WidthAssumption == 2^W \in Nat /\ DeviceCount * (MaxDbSize + 2) + MaxBatchSize < 2^W
\* What a deletion leaves behind is no iris and matches nothing.
ASSUME DummyAssumption ==
    /\ Dummy \notin Iris
    /\ \A x \in Iris \cup {Dummy} : /\ ~(LeftMatch(x, Dummy) /\ RightMatch(x, Dummy))
                                   /\ ~(LeftMatch(Dummy, x) /\ RightMatch(Dummy, x))
\* A start finds what earlier runs have written.
ASSUME StoresAssumption ==
    \A s \in Stores :
        /\ s \in Seq(Iris \cup {Dummy}) /\ Len(s) <= MaxDbSize
        /\ \A k \in 1 .. Len(s) : \A i \in 1 .. k - 1 :
               ~(LeftMatch(s[k], s[i]) /\ RightMatch(s[k], s[i]))

ASSUME DeletionsAssumption == \A S \in DeletionRequests : S \subseteq Nat

VARIABLES phase,             \* "loading", "serving" or "failed"
          pending,           \* indices the loader has not seen yet
          store,             \* what the loader reads
          slots,             \* the shards: slots[d][s]
          current_db_sizes,
          job,               \* the job queue (at most one job at a time)
          result             \* the ServerJobResult sent to the waiting submitter

vars == <<phase, pending, store, slots, current_db_sizes, job, result>>

Device == 0 .. DeviceCount - 1
U32 == 2^W
MAX == U32 - 1
NON_MATCH_ID == MAX

\* The sum of numbers[d] over the devices, as the number of pairs it counts.
SumOver(numbers) == Cardinality(UNION {{d} \X (1 .. numbers[d]) : d \in Device})

DbTotal == SumOver(current_db_sizes)

\* Slots reserved per device: alloc_db, max_db_length / device_count.
AllocatedSlots == MaxDbSize \div DeviceCount

\* Slot numbers a write may reach, allocated or not.
SlotNumbers == 0 .. MaxDbSize

\* The sequences whose element at j is one of options[j].
OneOfEach(options) ==
    LET UpTo[k \in 0 .. Len(options)] ==
            IF k = 0 THEN {<<>>} ELSE {Append(r, x) : r \in UpTo[k - 1], x \in options[k]}
    IN  UpTo[Len(options)]

-----------------------------------------------------------------------------
(* Merging the comparison results of one batch.                            *)

EyeHits(sl, sizes, d, q, eye) ==
    {s \in 0 .. sizes[d] - 1 : IF eye = "left" THEN LeftMatch(q, sl[d][s])
                               ELSE RightMatch(q, sl[d][s])}

\* mergeDbResults: a query matches when both eyes do.
DbHits(sl, sizes, d, q) ==
    EyeHits(sl, sizes, d, q, "left") \cap EyeHits(sl, sizes, d, q, "right")

\* Mutant: the batch is not compared with itself.
NoBatchHits(batch, j) == {}

\* mergeBatchResults: only earlier queries of the batch count (0-based).
BatchHits(batch, j) ==
    {i \in 0 .. j - 2 : /\ LeftMatch(batch[j], batch[i + 1])
                        /\ RightMatch(batch[j], batch[i + 1])}

\* finalResults of device d: the least slot that matches, UINT_MAX - 1 for a
\* match inside the batch, NON_MATCH_ID otherwise.
HostResult(sl, sizes, batch, d, j) ==
    Min({NON_MATCH_ID} \cup DbHits(sl, sizes, d, batch[j])
        \cup {MAX - 1 : i \in BatchHits(batch, j)})

get_merged_results(sl, sizes, batch, j) ==
    LET Host(d) == HostResult(sl, sizes, batch, d, j)
        Hit == {d \in Device : Host(d) # NON_MATCH_ID}
    IN  Min({NON_MATCH_ID} \cup {(Host(d) * DeviceCount + d) % U32 : d \in Hit})

\* Match counts of one eye, added over the devices.
PartialMatches(sl, sizes, q, eye) ==
    Cardinality(UNION {{d} \X EyeHits(sl, sizes, d, q, eye) : d \in Device})

\* The numbers in S, in ascending order.
Ascending(S) ==
    CHOOSE s \in [1 .. Cardinality(S) -> S] : \A a, b \in DOMAIN s : a < b => s[a] < s[b]

\* The queries to insert, in batch order.
insertion_list(sl, sizes, batch) ==
    Ascending({j \in DOMAIN batch :
                  /\ get_merged_results(sl, sizes, batch, j) = NON_MATCH_ID
                  /\ PartialMatches(sl, sizes, batch[j], "left") <= SupermatchThreshold
                  /\ PartialMatches(sl, sizes, batch[j], "right") <= SupermatchThreshold})

\* What may be in all_matches of device d for query j: at most MatchesLen ids,
\* those of the database first (that kernel runs first), in the order in which
\* the GPU threads increment the counter.
KeptIds(sl, sizes, batch, d, j) ==
    LET hits == DbHits(sl, sizes, d, batch[j])
        twins == {MAX - i : i \in BatchHits(batch, j)}
    IN  {S \in SUBSET (hits \cup twins) :
            /\ Cardinality(S) = Min({MatchesLen, Cardinality(hits \cup twins)})
            /\ S \subseteq hits \/ hits \subseteq S}

KeptLists(sl, sizes, batch, j) ==
    LET Kept(d) == KeptIds(sl, sizes, batch, d, j)
    IN  {kept \in [Device -> UNION {Kept(d) : d \in Device}] :
            \A d \in Device : kept[d] \in Kept(d)}

\* kept[d] is the list of device d; slots become indices, and the matches
\* inside the batch, which every device finds, are taken from device 0.
fetch_all_match_ids(kept) ==
    LET batch_match_idx == MAX - MaxBatchSize
        Global(d, idx) == IF idx > batch_match_idx THEN idx
                          ELSE (idx * DeviceCount + d) % U32
    IN  UNION {{x \in {Global(d, idx) : idx \in kept[d]} :
                    x < batch_match_idx \/ d = 0} : d \in Device}

\* What is reported for one query.  Queries of the batch are numbered from 1.
JobResult(batch, merged, matched, kept) ==
    LET match_ids == fetch_all_match_ids(kept)
        inBatch == {x \in match_ids : x > MAX - Len(batch)}
    IN  [merged |-> merged,
         matched |-> matched,
         ids |-> {x \in match_ids : x <= MAX - MaxBatchSize},
         twins |-> {MAX - x + 1 : x \in inBatch}]

-----------------------------------------------------------------------------
(* Placing the insertions.                                                 *)

\* Round robin over the devices, from the first of the smallest.
distribute_insertions(list, sizes) ==
    LET start == Min({d \in Device : \A e \in Device : sizes[d] <= sizes[e]})
        First(d) == (d - start) % DeviceCount
        Turns(d) == {i \in 1 .. Len(list) : First(d) + (i - 1) * DeviceCount < Len(list)}
    IN  [d \in Device |-> [i \in Turns(d) |-> list[First(d) + (i - 1) * DeviceCount + 1]]]

\* Mutant: the numbering starts from device 0.
MinIndexZero(dist) == 0

\* The device calculate_insertion_indices starts from: the one whose list has
\* the earliest query first.
MinIndex(dist) ==
    LET used == {d \in Device : dist[d] # <<>>}
    IN  IF used = {} THEN 0
        ELSE CHOOSE d \in used : \A e \in used : dist[d][1] <= dist[e][1]

\* The loop visits row after row of the lists and returns at the first list
\* that is too short.  <<query, index>> pairs, indices counted from total.
calculate_insertion_indices(dist, total) ==
    LET min_index == MinIndex(dist)
        Dev(v) == ((v % DeviceCount) + min_index) % DeviceCount
        Row(v) == (v \div DeviceCount) + 1
        stop == Min({v \in 0 .. DeviceCount * (MaxBatchSize + 1) : Row(v) > Len(dist[Dev(v)])})
    IN  {<<dist[Dev(v)][Row(v)], total + v>> : v \in 0 .. stop - 1}

\* Mutant: the insertions are not counted.
SpaceLeftBefore(total, n) == total < MaxDbSize

\* "Check if we actually have space left to write the new entries".
SpaceLeft(total, n) == total + n <= MaxDbSize

\* write_db_at_index for every insertion, with the size of its device
\* incremented after each.
WriteBack(sl, sizes, dist, batch) ==
    [d \in Device |-> [s \in SlotNumbers |->
        IF s \in sizes[d] .. sizes[d] + Len(dist[d]) - 1
        THEN batch[dist[d][s - sizes[d] + 1]] ELSE sl[d][s]]]

\* An index past the device's current size is skipped (with a warning).
PerformDeletions(sl, sizes, deletions) ==
    [d \in Device |-> [s \in SlotNumbers |->
        IF /\ s < sizes[d]
           /\ \E i \in deletions : i % DeviceCount = d /\ i \div DeviceCount = s
        THEN Dummy ELSE sl[d][s]]]

-----------------------------------------------------------------------------
Init ==
    /\ phase = "loading"
    /\ store \in Stores
    /\ pending = 0 .. Len(store) - 1
    /\ slots = [d \in Device |-> [s \in SlotNumbers |-> Empty]]
    /\ current_db_sizes = [d \in Device |-> 0]
    /\ job = NoJob
    /\ result = <<>>

\* load_single_record and increment_db_size; records arrive in any order.
LoadRecord(i) ==
    /\ phase = "loading"
    /\ i \in pending
    /\ pending' = pending \ {i}
    /\ slots' = [slots EXCEPT ![i % DeviceCount][i \div DeviceCount] = store[i + 1]]
    /\ current_db_sizes' = [current_db_sizes EXCEPT ![i % DeviceCount] = @ + 1]
    /\ UNCHANGED <<phase, store, job, result>>

FinishLoading ==
    /\ phase = "loading"
    /\ pending = {}
    /\ phase' = "serving"
    /\ UNCHANGED <<pending, store, slots, current_db_sizes, job, result>>

\* submit_batch_query.  The batch is the one left after the parties agreed on
\* the valid entries, so it may be empty.  The submitter has taken the previous
\* result off its one-shot channel.
submit_batch_query(batch, deletions) ==
    /\ phase = "serving"
    /\ job = NoJob
    /\ job' = [batch |-> batch, deletions |-> deletions]
    /\ result' = <<>>
    /\ UNCHANGED <<phase, pending, store, slots, current_db_sizes>>

process_batch_query ==
    /\ phase = "serving"
    /\ job # NoJob
    /\ job' = NoJob
    /\ LET batch == job.batch
           sizes == current_db_sizes
           sl == PerformDeletions(slots, sizes, job.deletions)
           dist == distribute_insertions(insertion_list(sl, sizes, batch), sizes)
           total == DbTotal
           inserted == calculate_insertion_indices(dist, total)
           new == {p[1] : p \in inserted}
           Merged(j) == IF j \in new THEN (CHOOSE p \in inserted : p[1] = j)[2]
                        ELSE get_merged_results(sl, sizes, batch, j)
           n_insertions == SumOver([d \in Device |-> Len(dist[d])])
       IN  IF ~SpaceLeft(total, n_insertions)
           THEN \* "DB size exceeded": the error is dropped by run() and the
                \* waiting submitter panics on its closed channel
                /\ phase' = "failed"
                /\ slots' = sl
                /\ UNCHANGED <<current_db_sizes, result>>
           ELSE /\ slots' = WriteBack(sl, sizes, dist, batch)
                /\ current_db_sizes' = [d \in Device |-> sizes[d] + Len(dist[d])]
                /\ result' \in OneOfEach(
                       [j \in DOMAIN batch |-> {JobResult(batch, Merged(j), j \notin new, kept) :
                                                   kept \in KeptLists(sl, sizes, batch, j)}])
                /\ UNCHANGED phase
    /\ UNCHANGED <<pending, store>>

\* Batches, the empty one included.
Batches == UNION {[1 .. n -> Iris] : n \in 0 .. MaxBatchSize}

Next ==
    \/ \E i \in pending : LoadRecord(i)
    \/ FinishLoading
    \/ \E batch \in Batches, deletions \in DeletionRequests :
          submit_batch_query(batch, deletions)
    \/ process_batch_query

Spec == Init /\ [][Next]_vars

-----------------------------------------------------------------------------
\* Types of the variables.
TypeOK ==
    /\ phase \in {"loading", "serving", "failed"}
    /\ pending \subseteq 0 .. MaxDbSize - 1
    /\ slots \in [Device -> [SlotNumbers -> Iris \cup {Dummy, Empty}]]
    /\ current_db_sizes \in [Device -> 0 .. MaxDbSize]
    /\ job = NoJob \/ DOMAIN job = {"batch", "deletions"}
    /\ \A j \in DOMAIN result : /\ result[j].merged \in 0 .. MAX
                                /\ result[j].matched \in BOOLEAN
                                /\ result[j].ids \subseteq 0 .. MaxDbSize - 1
                                /\ result[j].twins \subseteq 1 .. MaxBatchSize

\* The database by index, found the way the loader and deletions look it up.
Entry(i) == slots[i % DeviceCount][i \div DeviceCount]

Entries == [i \in 1 .. DbTotal |-> Entry(i - 1)]

\* Deduplication: of two entries of the database, the later never matches the
\* earlier, whether the earlier was loaded, inserted by an earlier batch or by
\* the same batch (process_batch_query: mergeDbResults, mergeBatchResults and
\* the insertion list).
NoDuplicates ==
    phase = "serving" =>
        LET entries == Entries
        IN  \A k \in DOMAIN entries : \A i \in 1 .. k - 1 :
                ~(LeftMatch(entries[k], entries[i]) /\ RightMatch(entries[k], entries[i]))

\* The writes of the job loop stay inside the slots alloc_db reserved on each
\* device ("Check if we actually have space left to write the new entries",
\* actor.rs:886).
SlotsAllocated == \A d \in Device : current_db_sizes[d] <= AllocatedSlots

\* Sharding is invisible: seen through indices, the actor is the unsharded
\* database of MemoryDb.  Each insertion is reported under the index at which
\* loader and deletions find it, each duplicate is reported with evidence, and
\* a deletion hits the entry it names and no other.
Unsharded == INSTANCE MemoryDb WITH
    mem <- IF phase = "loading" THEN <<>> ELSE Entries,
    out <- [j \in DOMAIN result |->
               [matched |-> result[j].matched,
                index |-> IF result[j].matched THEN NoIndex ELSE result[j].merged,
                ids |-> result[j].ids,
                twins |-> result[j].twins]]

ImplementsMemoryDb == Unsharded!Spec
=============================================================================
