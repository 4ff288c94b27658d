---------------------------- MODULE ChunkedSearch ----------------------------
(***************************************************************************)
(* How one GPU compares a batch with its shard                             *)
(* (compare_query_against_db_and_self in actor.rs): chunk after chunk, on  *)
(* two streams in turn, so that the transfer and the first phase of a      *)
(* chunk overlap with the second phase of the one before.  The streams     *)
(* share all buffers but the transfer buffers and are ordered by events.   *)
(*                                                                         *)
(* The host never waits for the GPU inside the loop, so it issues the      *)
(* commands of a chunk in one step.  The devices differ only in their      *)
(* sizes; another device matters as the one with more entries, for which   *)
(* the loop goes on.  A buffer holds the number of the chunk its contents  *)
(* were computed from, or Garbage.                                         *)
(***************************************************************************)
EXTENDS Integers, Sequences

CONSTANTS ChunkSize,  \* DB_CHUNK_SIZE
          Pad,        \* chunks are padded to a multiple of this (64)
          W,          \* width of usize
          Query,      \* 0 .. number of queries - 1
          Match,      \* the pairs <<query, entry>> that match
          MaxSize     \* bound on the size of a shard

ASSUME SizesAssumption == /\ {ChunkSize, Pad} \subseteq Nat \ {0} /\ {MaxSize, 2^W} \subseteq Nat
                          /\ MaxSize + 2 * ChunkSize < 2^W
ASSUME MatchAssumption == Query \subseteq Nat /\ Match \subseteq Nat \X Nat

VARIABLES size,       \* current_db_sizes of this device
          maxSize,    \* the largest of all devices
          chunk,      \* db_chunk_idx: the chunks issued so far
          queue,      \* commands of each stream, the first may be running
          running,    \* is it?
          recorded,   \* times an event has been recorded, by the host's count
          completed,  \* the last of these the GPU has reached
          holds,      \* contents of the buffers
          bits        \* the match bitmap, as the set of bits set

vars == <<size, maxSize, chunk, queue, running, recorded, completed, holds, bits>>

Stream == {0, 1}
Event == {"dot", "exchange", "phase2"}
Buffer == {"buffer0", "buffer1", "intermediate", "results", "peer", "lifted"}
Garbage == -1

TransferBuffer(k) == IF k % 2 = 0 THEN "buffer0" ELSE "buffer1"

Clamp(n, lo, hi) == IF n < lo THEN lo ELSE IF n > hi THEN hi ELSE n

\* The subtraction wraps when the device has no entry left, one that is just
\* used up counts as one entry.
chunk_size(k) == Clamp((size - ChunkSize * k) % 2^W, 1, ChunkSize)

dot_chunk_size(k) == ((chunk_size(k) + Pad - 1) \div Pad) * Pad

PrefetchOffset(k) == IF k = 0 THEN 0 ELSE ChunkSize * (k - 1) + chunk_size(k - 1)

-----------------------------------------------------------------------------
(* The commands of the host.                                               *)

Kernel(op, k) == [op |-> op, chunk |-> k]

\* A record completes as the number it has in the order of issue, a wait is for
\* the last record issued before it.  In a chunk an event is awaited first.
Await(e) == [op |-> "await", event |-> e, number |-> recorded[e]]
Record(e) == [op |-> "record", event |-> e, number |-> recorded[e] + 1]

\* Both event arrays are clones of one vector of handles, so the two entries
\* are the same event.
First == <<Kernel("prefetch", 0), Record("dot"), Record("exchange"), Record("phase2")>>

\* Mutant: the reduction does not wait for phase 2 to release the results.
ChunkNoExchangeWait(k) ==
    <<Await("dot"), Kernel("dot", k), Kernel("reduce", k), Record("dot"), Kernel("reshare", k),
      Await("phase2"), Kernel("threshold", k), Record("exchange"), Kernel("open", k), Record("phase2")>>

Chunk(k) ==
    <<Await("dot"), Kernel("dot", k),
      Await("exchange"), Kernel("reduce", k), Record("dot"),
      Kernel("reshare", k),
      Await("phase2"), Kernel("threshold", k), Record("exchange"),
      Kernel("open", k), Record("phase2")>>

-----------------------------------------------------------------------------
Init ==
    /\ size \in 0 .. MaxSize
    /\ maxSize \in {size, size + 1} \ {0}
    /\ chunk = 0
    /\ queue = [s \in Stream |-> <<>>]
    /\ running = [s \in Stream |-> FALSE]
    /\ recorded = [e \in Event |-> 0]
    /\ completed = [e \in Event |-> 0]
    /\ holds = [b \in Buffer |-> Garbage]
    /\ bits = {}

\* Mutant: the loop ends with the last full chunk.
MoreFullOnly(k) == k = 0 \/ (k + 1) * ChunkSize <= maxSize

\* The loop ends when all entries of the largest device have been seen.
More(k) == k = 0 \/ k * ChunkSize < maxSize

\* Before the loop, and in its first round: there is nothing to wait for.
IssueFirst ==
    /\ chunk = 0 /\ recorded["dot"] = 0
    /\ queue' = [queue EXCEPT ![0] = First]
    /\ recorded' = [e \in Event |-> recorded[e] + 1]
    /\ UNCHANGED <<size, maxSize, chunk, running, completed, holds, bits>>

\* A round of the loop: the next chunk is prefetched on the other stream.
IssueChunk ==
    /\ More(chunk) /\ recorded["dot"] > 0
    /\ queue' = [s \in Stream |-> queue[s] \o IF s = chunk % 2 THEN Chunk(chunk)
                                                              ELSE <<Kernel("prefetch", chunk + 1)>>]
    /\ recorded' = [e \in Event |-> recorded[e] + 1]
    /\ chunk' = chunk + 1
    /\ UNCHANGED <<size, maxSize, running, completed, holds, bits>>

\* Commands that are no kernel.
AwaitEvent(s) ==
    /\ queue[s] # <<>>
    /\ LET c == Head(queue[s]) IN c.op = "await" /\ completed[c.event] >= c.number
    /\ queue' = [queue EXCEPT ![s] = Tail(@)]
    /\ UNCHANGED <<size, maxSize, chunk, running, recorded, completed, holds, bits>>

RecordEvent(s) ==
    /\ queue[s] # <<>>
    /\ LET c == Head(queue[s])
       IN  /\ c.op = "record"
           /\ completed' = [completed EXCEPT ![c.event] = c.number]
    /\ queue' = [queue EXCEPT ![s] = Tail(@)]
    /\ UNCHANGED <<size, maxSize, chunk, running, recorded, holds, bits>>

Launch(s) ==
    /\ queue[s] # <<>>
    /\ ~running[s]
    /\ Head(queue[s]).op \notin {"await", "record"}
    /\ running' = [running EXCEPT ![s] = TRUE]
    /\ UNCHANGED <<size, maxSize, chunk, queue, recorded, completed, holds, bits>>

\* The kernel (or transfer) op of stream s ends.
Ends(s, op) ==
    /\ running[s]
    /\ Head(queue[s]).op = op
    /\ queue' = [queue EXCEPT ![s] = Tail(@)]
    /\ running' = [running EXCEPT ![s] = FALSE]
    /\ UNCHANGED <<size, maxSize, chunk, recorded, completed>>

\* Chunks that do not lie inside the shard are not transferred.
Prefetch(s) ==
    /\ Ends(s, "prefetch")
    /\ LET k == Head(queue[s]).chunk
           offset == PrefetchOffset(k)
       IN  IF offset >= size \/ offset + chunk_size(k) > size THEN UNCHANGED holds
           ELSE holds' = [holds EXCEPT ![TransferBuffer(k)] = k]
    /\ UNCHANGED bits

Reads(c) ==
    CASE c.op = "prefetch" -> {}
      [] c.op = "dot" -> {TransferBuffer(c.chunk)}
      [] c.op = "reduce" -> {"intermediate"}
      [] c.op = "reshare" -> {"results"}
      [] c.op = "threshold" -> {"results", "peer"}
      [] c.op = "open" -> {"lifted"}

Writes(c) ==
    CASE c.op = "prefetch" -> {TransferBuffer(c.chunk)}
      [] c.op = "dot" -> {"intermediate"}
      [] c.op = "reduce" -> {"results"}
      [] c.op = "reshare" -> {"peer"}
      [] c.op = "threshold" -> {"lifted"}
      [] c.op = "open" -> {}

\* dot, reduce (which adds the sums of chunk k), reshare and threshold turn
\* contents of their own chunk into such, and others into garbage.
Compute(s) ==
    /\ \E op \in {"dot", "reduce", "reshare", "threshold"} : Ends(s, op)
    /\ LET c == Head(queue[s])
           result == IF \A b \in Reads(c) : holds[b] = c.chunk THEN c.chunk ELSE Garbage
       IN  holds' = [b \in Buffer |-> IF b \in Writes(c) THEN result ELSE holds[b]]
    /\ UNCHANGED bits

\* openResults: the places of a chunk that are looked at, without padding.
Opened(k) == {d \in 0 .. dot_chunk_size(k) - 1 : d < chunk_size(k)}

\* A device without entries is ignored.  What garbage opens to may be anything.
Open(s) ==
    /\ Ends(s, "open")
    /\ LET k == Head(queue[s]).chunk
           offset == ChunkSize * k
           places == IF size = 0 THEN {} ELSE Query \X Opened(k)
           Bit(x) == size * x[1] + x[2] + offset
           Known(x) == holds["lifted"] = k /\ x[2] < chunk_size(k)
       IN  \E set \in SUBSET places :
              /\ \A x \in places : Known(x) => (x \in set <=> <<x[1], offset + x[2]>> \in Match)
              /\ bits' = bits \cup {Bit(x) : x \in set}
    /\ UNCHANGED holds

Next ==
    \/ IssueFirst \/ IssueChunk
    \/ \E s \in Stream : \/ AwaitEvent(s) \/ RecordEvent(s) \/ Launch(s)
                         \/ Prefetch(s) \/ Compute(s) \/ Open(s)

Spec == Init /\ [][Next]_vars

-----------------------------------------------------------------------------
Finished == ~More(chunk) /\ \A s \in Stream : queue[s] = <<>>

\* The events keep the streams apart: no two kernels that run at the same time
\* use one buffer, unless both only read it (dot_events, exchange_events,
\* phase2_events and the two transfer buffers).
RaceFree ==
    running[0] /\ running[1] =>
        LET a == Head(queue[0])
            b == Head(queue[1])
        IN  /\ Writes(a) \cap (Reads(b) \cup Writes(b)) = {}
            /\ Writes(b) \cap Reads(a) = {}

TrueBits == {size * x[1] + x[2] : x \in {y \in Match : y[1] \in Query /\ y[2] < size}}

\* No enrolled iris is overlooked: whatever the sizes of the shards, every
\* match with an entry of this one is in the bitmap (chunk bounds, prefetch
\* offsets, loop condition).
SearchComplete == Finished => TrueBits \subseteq bits

\* The shard ends exactly at a chunk while another device has an entry more.
UsedUp == size > 0 /\ size % ChunkSize = 0 /\ size < maxSize

\* And, when no shard is used up early, nothing else is: padding and stale
\* buffers never show (realChunkLen in openResults, ignore_device_results).
SearchExact == Finished /\ ~UsedUp => bits = TrueBits

\* "We filter out potential "phantom matches" for the padded data in the `open`
\* later" (actor.rs:1191): what is in the bitmap is a match with an entry.
NoPhantomMatches == Finished => bits = TrueBits

\* The search finds every match and, but for shards used up at a chunk, no more.
SearchIsRight == SearchComplete /\ SearchExact
=============================================================================
