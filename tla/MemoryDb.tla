------------------------------ MODULE MemoryDb ------------------------------
(***************************************************************************)
(* What the in-memory iris database of one party promises, with no GPU in  *)
(* sight: a sequence of irises indexed from 0 by the order of insertion, a *)
(* batch of queries answered against it, and the queries that match        *)
(* nothing appended in the order of the batch.                             *)
(***************************************************************************)
EXTENDS Integers, Sequences, FiniteSets

CONSTANTS Iris,                 \* the iris pairs (left and right eye) in play
          LeftMatch(_, _),      \* do the left eyes of a query and an entry match
          RightMatch(_, _),     \* the same for the right eyes
          Dummy,                \* what a deletion leaves behind; matches nothing
          SupermatchThreshold,  \* one-eye matches a query may have and be inserted
          MaxDbSize,
          MaxBatchSize,
          NoIndex, NoJob

VARIABLES phase, \* "loading", "serving" or "failed"
          job,   \* the batch waiting for an answer, or NoJob
          mem,   \* the database: mem[i + 1] is the entry of index i
          out    \* the answers to the last batch

vars == <<phase, job, mem, out>>

Matches(q, e) == LeftMatch(q, e) /\ RightMatch(q, e)

Hits(m, q) == {i \in 0 .. Len(m) - 1 : Matches(q, m[i + 1])}

OneEyed(m, q, EyeMatch(_, _)) == {i \in 0 .. Len(m) - 1 : EyeMatch(q, m[i + 1])}

Twins(batch, j) == {i \in 1 .. j - 1 : Matches(batch[j], batch[i])}

Supermatcher(m, q) ==
    \/ Cardinality(OneEyed(m, q, LeftMatch)) > SupermatchThreshold
    \/ Cardinality(OneEyed(m, q, RightMatch)) > SupermatchThreshold

IsNew(m, batch, j) ==
    /\ Hits(m, batch[j]) = {}
    /\ Twins(batch, j) = {}
    /\ ~Supermatcher(m, batch[j])

\* The numbers in S, in ascending order.
Ascending(S) ==
    CHOOSE s \in [1 .. Cardinality(S) -> S] : \A a, b \in DOMAIN s : a < b => s[a] < s[b]

\* The positions of the new queries, in batch order.
NewOnes(m, batch) == Ascending({j \in DOMAIN batch : IsNew(m, batch, j)})

Delete(m, deletions) ==
    [i \in DOMAIN m |-> IF i - 1 \in deletions THEN Dummy ELSE m[i]]

\* What query j may be told: whether it is a duplicate, the index it got when it
\* is not, and evidence (indices, or earlier queries of the batch) when it is.
RightAnswer(m, batch, news, j, a) ==
    LET hits == Hits(m, batch[j])
        twins == Twins(batch, j)
    IN  /\ a.matched = (\A k \in DOMAIN news : news[k] # j)
        /\ \A k \in DOMAIN news : news[k] = j => a.index = Len(m) + k - 1
        /\ a.matched => a.index = NoIndex
        /\ a.ids \subseteq hits
        /\ a.twins \subseteq twins
        /\ (hits \cup twins # {}) => (a.ids \cup a.twins # {})

-----------------------------------------------------------------------------
Init ==
    /\ phase = "loading"
    /\ job = NoJob
    /\ mem = <<>>
    /\ out = <<>>

Load ==
    /\ phase = "loading"
    /\ phase' = "serving"
    /\ mem' \in Seq(Iris \cup {Dummy})
    /\ UNCHANGED <<job, out>>

Submit ==
    /\ phase = "serving"
    /\ job = NoJob
    /\ job' \in [batch : Seq(Iris), deletions : SUBSET Nat]
    /\ Len(job'.batch) <= MaxBatchSize
    /\ out' = <<>>
    /\ UNCHANGED <<phase, mem>>

Answer ==
    LET m == Delete(mem, job.deletions)
        news == NewOnes(m, job.batch)
    IN  /\ Len(m) + Len(news) <= MaxDbSize
        /\ mem' = m \o [k \in DOMAIN news |-> job.batch[news[k]]]
        /\ DOMAIN out' = DOMAIN job.batch
        /\ \A j \in DOMAIN job.batch : RightAnswer(m, job.batch, news, j, out'[j])
        /\ UNCHANGED phase

\* The batch does not fit: its deletions are done and the actor stops.
Overflow ==
    LET m == Delete(mem, job.deletions)
    IN  /\ Len(m) + Len(NewOnes(m, job.batch)) > MaxDbSize
        /\ phase' = "failed"
        /\ mem' = m
        /\ UNCHANGED out

Process ==
    /\ phase = "serving"
    /\ job # NoJob
    /\ job' = NoJob
    /\ Answer \/ Overflow

Next == Load \/ Submit \/ Process

Spec == Init /\ [][Next]_vars
=============================================================================
