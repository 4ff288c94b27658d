---------------------------- MODULE ReshareProofs ----------------------------
(***************************************************************************)
(* What the resharing server stores is correct for any number of rows,     *)
(* settings, restarts and any size of the buffers: a row is never the sum  *)
(* of shares of two irises or under two seeds.                             *)
(*                                                                         *)
(* The invariant says of everything on its way to the table what it is     *)
(* made of.  A batch in a buffer was built by a client (Built), so that    *)
(* its range and its seed determine its shares; the pair of a call that    *)
(* inserts is one of built batches that check_requests_matching compared.  *)
(*                                                                         *)
(* And what a client was told Ok for is kept, while the settings are the   *)
(* same and nothing fails: both buffers then begin at the same row, each   *)
(* goes on without a gap to where its client has sent, and all before is   *)
(* stored or being inserted (KeptInv).                                     *)
(***************************************************************************)
EXTENDS Reshare, TLAPS

Whole(c, lo, hi, seed) ==
    [sender |-> c, lo |-> lo, hi |-> hi, seed |-> seed,
     shares |-> [i \in 1 .. hi - lo |-> [id |-> lo + i - 1, seed |-> seed]]]

Built == {Whole(c, lo, lo + n, seed) : c \in Client, lo \in Int, n \in Nat, seed \in Seeds}

Sessions == [pc : {"ready", "waiting", "done", "failed"}, next : Int, size : Nat \ {0}, seed : Seeds, session : Int]

Calls == [client : Client, session : Int, phase : {"added", "inserting"}, pair : Seq(Built)]

Paired(h) == /\ Len(h.pair) = 2
             /\ Matching(h.pair[1], h.pair[2])

\* The inductive invariant.
WholeInv ==
    /\ client \in [Client -> Sessions]
    /\ buffer \in [Client -> Seq(Built)]
    /\ handlers \in SUBSET Calls
    /\ \A h \in handlers : h.phase = "inserting" => Paired(h)
    /\ StoredIsCorrect

\* There is another client.
LEMMA OtherClient == \A c \in Client : Other(c) \in Client
  BY ClientAssumption DEF Other

\* What a client builds from the rows that are left is whole.
LEMMA BatchBuilt ==
    ASSUME client \in [Client -> Sessions], NEW c \in Client, client[c].next <= LastId
    PROVE  Batch(c) \in Built
<1> DEFINE lo == client[c].next
           hi == IF lo + client[c].size - 1 < LastId THEN lo + client[c].size ELSE LastId + 1
           n == hi - lo
<1>1. lo \in Int /\ n \in Nat /\ hi = lo + n /\ client[c].seed \in Seeds
  BY BoundsAssumption DEF Sessions
<1>2. Batch(c) = Whole(c, lo, hi, client[c].seed)
  BY DEF Batch, Whole
<1> QED
  BY <1>1, <1>2 DEF Built

\* The answer to a call leaves its client one.
LEMMA AnswerTyped ==
    ASSUME client \in [Client -> Sessions], NEW h \in Calls, NEW status, Answer(h, status)
    PROVE  client' \in [Client -> Sessions]
<1>1. h.client \in Client
  BY DEF Calls
<1>2. Batch(h.client).hi \in Int
  BY <1>1, BoundsAssumption DEF Batch, Sessions
<1> QED
  BY <1>1, <1>2 DEF Answer, Sessions

\* Two whole batches that match are, row by row, two shares of one iris under
\* one seed: what reshare_code_batch adds up.
LEMMA RecombinedCorrect ==
    ASSUME NEW r \in Built, NEW s \in Built, Matching(r, s)
    PROVE  \A i \in DOMAIN Recombined(<<r, s>>) :
               Recombined(<<r, s>>)[i] = {[id |-> i, seed |-> r.seed]}
<1>1. PICK c \in Client, lo \in Int, n \in Nat, seed \in Seeds : r = Whole(c, lo, lo + n, seed)
  BY DEF Built
<1>2. PICK d \in Client, lo2 \in Int, n2 \in Nat, seed2 \in Seeds : s = Whole(d, lo2, lo2 + n2, seed2)
  BY DEF Built
<1>3. lo2 = lo /\ n2 = n /\ seed2 = seed
  BY <1>1, <1>2 DEF Matching, Whole
<1> DEFINE shares == [i \in 1 .. n |-> [id |-> lo + i - 1, seed |-> seed]]
<1>4. r.shares = shares /\ s.shares = shares /\ r.lo = lo /\ r.seed = seed
  BY <1>1, <1>2, <1>3 DEF Whole
<1>5. Len(shares) = n
  OBVIOUS
<1>6. \A i \in lo .. lo + n - 1 : shares[i - lo + 1] = [id |-> i, seed |-> seed]
  OBVIOUS
<1> HIDE DEF shares
<1>7. Recombined(<<r, s>>) = [i \in lo .. lo + n - 1 |-> {shares[i - lo + 1], shares[i - lo + 1]}]
  BY <1>4, <1>5, SMTT(20) DEF Recombined
<1>8. DOMAIN Recombined(<<r, s>>) = lo .. lo + n - 1
  BY <1>7
<1>9. ASSUME NEW i \in lo .. lo + n - 1
      PROVE  Recombined(<<r, s>>)[i] = {[id |-> i, seed |-> seed]}
  <2>1. Recombined(<<r, s>>)[i] = {shares[i - lo + 1], shares[i - lo + 1]}
    BY <1>7
  <2>2. shares[i - lo + 1] = [id |-> i, seed |-> seed]
    BY <1>6
  <2> QED
    BY <2>1, <2>2
<1> QED
  BY <1>4, <1>8, <1>9

\* Init establishes the invariant.
LEMMA InitWhole == Init => WholeInv
<1> SUFFICES ASSUME Init PROVE WholeInv
  OBVIOUS
<1>1. client \in [Client -> Sessions]
  <2>1. \A size \in Sizes, seed \in Seeds : Session(size, seed, 0) \in Sessions
    BY BoundsAssumption DEF Session, Sessions
  <2> QED
    BY <2>1 DEF Init
<1>2. buffer \in [Client -> Seq(Built)] /\ handlers = {}
  BY DEF Init
<1>3. StoredIsCorrect
  BY DEF Init, StoredIsCorrect
<1> QED
  BY <1>1, <1>2, <1>3 DEF WholeInv

\* A call is buffered with a batch that is whole, or turned down.
LEMMA CallKeeps ==
    ASSUME WholeInv, NEW c \in Client, Call(c)
    PROVE  WholeInv'
<1>1. CASE Full(c)
  BY <1>1 DEF Call, WholeInv, StoredIsCorrect
<1>2. CASE ~Full(c)
  <2> DEFINE new == [client |-> c, session |-> client[c].session, phase |-> "added", pair |-> <<>>]
  <2>1. client' \in [Client -> Sessions]
    <3>1. client' = [client EXCEPT ![c].pc = "waiting"]
      BY <1>2 DEF Call
    <3>2. client \in [Client -> Sessions]
      BY DEF WholeInv
    <3> QED
      BY <3>1, <3>2 DEF Sessions
  <2>2. Batch(c) \in Built
    BY BatchBuilt DEF WholeInv, Call
  <2>3. buffer' \in [Client -> Seq(Built)]
    <3>1. buffer' = [buffer EXCEPT ![c] = Append(@, Batch(c))]
      BY <1>2 DEF Call
    <3>2. buffer \in [Client -> Seq(Built)]
      BY DEF WholeInv
    <3> QED
      BY <2>2, <3>1, <3>2
  <2>4. new \in Calls /\ new.phase = "added"
    BY DEF WholeInv, Calls, Sessions
  <2>5. handlers' = handlers \cup {new}
    BY <1>2 DEF Call
  <2>6. handlers' \in SUBSET Calls
    BY <2>4, <2>5 DEF WholeInv
  <2>7. \A h \in handlers' : h.phase = "inserting" => Paired(h)
    BY <2>4, <2>5 DEF WholeInv
  <2>8. StoredIsCorrect'
    BY DEF Call, WholeInv, StoredIsCorrect
  <2>9. (\A h \in handlers : h.phase = "inserting" => Paired(h))'
    BY <2>7 DEF Paired, Matching
  <2> QED
    BY <2>1, <2>3, <2>6, <2>8, <2>9 DEF WholeInv
<1> QED
  BY <1>1, <1>2

\* What a call takes off the buffers is inserted only if it matches.
LEMMA TryHandleBatchKeeps ==
    ASSUME WholeInv, NEW h \in handlers, TryHandleBatch(h)
    PROVE  WholeInv'
<1>1. h \in Calls /\ h.client \in Client /\ Other(h.client) \in Client
  BY OtherClient DEF WholeInv, Calls
<1>2. StoredIsCorrect'
  BY DEF TryHandleBatch, HandleIf, WholeInv, StoredIsCorrect
<1> DEFINE ready == \A c \in Client : buffer[c] # <<>>
           pair == <<Head(buffer[h.client]), Head(buffer[Other(h.client)])>>
<1>3. CASE ~ready
  <2>1. Answer(h, "Ok") /\ handlers' = handlers \ {h} /\ buffer' = buffer
    BY <1>3 DEF TryHandleBatch, HandleIf
  <2>2. client' \in [Client -> Sessions]
    BY <1>1, <2>1, AnswerTyped DEF WholeInv
  <2> QED
    BY <1>2, <2>1, <2>2 DEF WholeInv, Paired, Matching
<1>4. CASE ready
  <2>1. buffer' = [c \in Client |-> Tail(buffer[c])]
    BY <1>4 DEF TryHandleBatch, HandleIf
  <2>2. buffer' \in [Client -> Seq(Built)]
    BY <1>4, <2>1 DEF WholeInv
  <2>3. CASE Matching(pair[1], pair[2])
    <3> DEFINE new == [h EXCEPT !.phase = "inserting", !.pair = pair]
    <3>1. handlers' = (handlers \ {h}) \cup {new} /\ client' = client
      BY <1>4, <2>3 DEF TryHandleBatch, HandleIf
    <3>2. pair \in Seq(Built) /\ Len(pair) = 2
      BY <1>1, <1>4 DEF WholeInv
    <3> HIDE DEF pair
    <3>3. new \in Calls /\ new.pair = pair
      BY <1>1, <3>2, Zenon DEF Calls
    <3>4. Paired(new)
      BY <2>3, <3>2, <3>3 DEF Paired
    <3> HIDE DEF new
    <3>5. handlers' \in SUBSET Calls
      BY <3>1, <3>3 DEF WholeInv
    <3>6. \A g \in handlers' : g.phase = "inserting" => Paired(g)
      BY <3>1, <3>4 DEF WholeInv
    <3> QED
      BY <1>2, <2>2, <3>1, <3>5, <3>6 DEF WholeInv, Paired, Matching
  <2>4. CASE ~Matching(pair[1], pair[2])
    <3>1. Answer(h, "Error") /\ handlers' = handlers \ {h}
      BY <1>4, <2>4 DEF TryHandleBatch, HandleIf
    <3>2. client' \in [Client -> Sessions]
      BY <1>1, <3>1, AnswerTyped DEF WholeInv
    <3> QED
      BY <1>2, <2>2, <3>1, <3>2 DEF WholeInv, Paired, Matching
  <2> QED
    BY <2>3, <2>4
<1> QED
  BY <1>3, <1>4

\* A batch that a client builds carries a seed that a client may be started with.
LEMMA BuiltSeed == ASSUME NEW b \in Built PROVE b.seed \in Seeds
<1>1. PICK c \in Client, lo \in Int, n \in Nat, seed \in Seeds : b = Whole(c, lo, lo + n, seed)
  BY DEF Built
<1>2. b.seed = seed
  BY <1>1 DEF Whole
<1> QED
  BY <1>2

\* What is inserted is two whole batches that match, row by row.
LEMMA InsertKeeps ==
    ASSUME WholeInv, NEW h \in handlers, InsertIntoStore(h)
    PROVE  WholeInv'
<1>1. h \in Calls /\ h.phase = "inserting" /\ Paired(h)
  BY DEF WholeInv, InsertIntoStore
<1>2. client' \in [Client -> Sessions]
  BY <1>1, AnswerTyped DEF WholeInv, InsertIntoStore
<1>3. StoredIsCorrect'
  <2> DEFINE r == h.pair[1]
             s == h.pair[2]
             rows == Recombined(h.pair)
  <2>1. h.pair = <<r, s>> /\ r \in Built /\ s \in Built /\ Matching(r, s)
    BY <1>1 DEF Calls, Paired
  <2>2. \A i \in DOMAIN rows : rows[i] = {[id |-> i, seed |-> r.seed]}
    BY <2>1, RecombinedCorrect
  <2>3. r.seed \in Seeds
    <3> HIDE DEF r
    <3> QED
      BY <2>1, BuiltSeed
  <2>4. stored' = [i \in DOMAIN stored \cup DOMAIN rows |-> IF i \in DOMAIN rows THEN rows[i] ELSE stored[i]]
    BY DEF InsertIntoStore
  <2> HIDE DEF r, s, rows
  <2>5. ASSUME NEW i \in DOMAIN stored'
        PROVE  \E seed \in Seeds : stored'[i] = {[id |-> i, seed |-> seed]}
    <3>1. CASE i \in DOMAIN rows
      BY <2>2, <2>3, <2>4, <3>1
    <3>2. CASE i \notin DOMAIN rows
      BY <2>4, <3>2 DEF WholeInv, StoredIsCorrect
    <3> QED
      BY <3>1, <3>2
  <2> QED
    BY <2>5 DEF StoredIsCorrect
<1> QED
  BY <1>2, <1>3 DEF InsertIntoStore, WholeInv, Paired, Matching

\* A call that fails or is dropped stores nothing; clients and the server start afresh.
LEMMA OthersKeep ==
    ASSUME WholeInv,
           \/ \E h \in handlers : FailInsert(h) \/ DropCall(h)
           \/ \E c \in Client : Finish(c) \/ RestartClient(c)
           \/ RestartServer
    PROVE  WholeInv'
<1>0. client \in [Client -> Sessions] /\ StoredIsCorrect
  BY DEF WholeInv
<1>1. ASSUME NEW h \in handlers, FailInsert(h) PROVE WholeInv'
  <2>1. h \in Calls
    BY DEF WholeInv
  <2>2. client' \in [Client -> Sessions]
    BY <1>0, <1>1, <2>1, AnswerTyped DEF FailInsert
  <2> QED
    BY <1>1, <2>2 DEF FailInsert, WholeInv, StoredIsCorrect, Paired, Matching
<1>2. ASSUME NEW h \in handlers, DropCall(h) PROVE WholeInv'
  BY <1>2 DEF DropCall, WholeInv, StoredIsCorrect, Paired, Matching
<1>3. ASSUME NEW c \in Client, Finish(c) PROVE WholeInv'
  <2>1. client' = [client EXCEPT ![c].pc = "done"]
    BY <1>3 DEF Finish
  <2>2. client' \in [Client -> Sessions]
    BY <1>0, <2>1 DEF Sessions
  <2> QED
    BY <1>3, <2>2 DEF Finish, WholeInv, StoredIsCorrect, Paired, Matching
<1>4. ASSUME NEW c \in Client, RestartClient(c) PROVE WholeInv'
  <2>1. PICK size \in Sizes, seed \in Seeds : client' = [client EXCEPT ![c] = Session(size, seed, @.session + 1)]
    BY <1>4, Zenon DEF RestartClient
  <2>2. Session(size, seed, client[c].session + 1) \in Sessions
    BY <1>0, BoundsAssumption DEF Session, Sessions
  <2>3. client' \in [Client -> Sessions]
    BY <1>0, <2>1, <2>2
  <2> QED
    BY <1>4, <2>3 DEF RestartClient, WholeInv, StoredIsCorrect, Paired, Matching
<1>5. ASSUME RestartServer PROVE WholeInv'
  <2>1. ASSUME NEW c \in Client PROVE client'[c] \in Sessions
    BY <1>0, <1>5, Zenon DEF RestartServer, Sessions
  <2>2. client' \in [Client -> Sessions]
    BY <1>5, <2>1, SMTT(20) DEF RestartServer
  <2>3. buffer' \in [Client -> Seq(Built)] /\ handlers' = {}
    BY <1>5 DEF RestartServer
  <2>4. StoredIsCorrect'
    BY <1>0, <1>5 DEF RestartServer, StoredIsCorrect
  <2> QED
    BY <2>2, <2>3, <2>4 DEF WholeInv
<1> QED
  BY <1>1, <1>2, <1>3, <1>4, <1>5

\* Every step keeps the invariant.
LEMMA WholeNext == WholeInv /\ [Next]_vars => WholeInv'
<1> SUFFICES ASSUME WholeInv, [Next]_vars PROVE WholeInv'
  OBVIOUS
<1>1. ASSUME NEW c \in Client, Call(c) PROVE WholeInv'
  BY <1>1, CallKeeps
<1>2. ASSUME NEW h \in handlers, TryHandleBatch(h) PROVE WholeInv'
  BY <1>2, TryHandleBatchKeeps
<1>3. ASSUME NEW h \in handlers, InsertIntoStore(h) PROVE WholeInv'
  BY <1>3, InsertKeeps
<1>4. CASE UNCHANGED vars
  BY <1>4 DEF vars, WholeInv, StoredIsCorrect, Paired, Matching
<1> QED
  BY <1>1, <1>2, <1>3, <1>4, OthersKeep DEF Next

\* Whatever two clients send, in whatever order sessions, retries, insertions
\* and restarts overlap, a stored row is the sum of two shares of that iris
\* under one seed (try_handle_batch, insert_into_store).
THEOREM StoredAlwaysCorrect == Spec => []StoredIsCorrect
<1>1. WholeInv => StoredIsCorrect
  BY DEF WholeInv
<1> QED
  BY <1>1, InitWhole, WholeNext, PTL DEF Spec
-----------------------------------------------------------------------------
(* What a client was told Ok for is not lost.  While the clients agree and *)
(* nothing fails, the two buffers begin at the same row: what comes before *)
(* it is stored or being inserted, and each buffer holds, batch after      *)
(* batch, what its client has sent from there on.                          *)

\* Where the batch that starts at lo ends.
End(lo, size) == IF lo + size - 1 < LastId THEN lo + size ELSE LastId + 1

\* The batches b are those of a client from `from` up to `to`, without a gap.
Chain(b, from, to, size, seed) ==
    /\ \A k \in DOMAIN b : b[k].seed = seed /\ b[k].hi = End(b[k].lo, size)
    /\ \A k, l \in DOMAIN b : l = k + 1 => b[l].lo = b[k].hi
    /\ b = <<>> => from = to
    /\ b # <<>> => b[1].lo = from /\ b[Len(b)].hi = to
    /\ \A i \in Int : from <= i /\ i < to => \E k \in DOMAIN b : b[k].lo <= i /\ i < b[k].hi

\* The row up to which client c has sent its batches.
Sent(c) == IF client[c].pc = "waiting" THEN End(client[c].next, client[c].size) ELSE client[c].next

InTable(i) ==
    \/ i \in DOMAIN stored
    \/ \E h \in handlers : h.phase = "inserting" /\ h.pair[1].lo <= i /\ i < h.pair[1].hi

Calm == SameSettings /\ restarts = 0 /\ ~refused

\* The buffers begin at row `from`, and all before it is taken care of.
Begin(from) ==
    /\ \A c \in Client : Chain(buffer[c], from, Sent(c), client[c].size, client[c].seed)
    /\ \A i \in Int : 1 <= i /\ i < from => InTable(i)

InOrder ==
    /\ \A c \in Client : /\ client[c].session = 0 /\ client[c].pc # "failed"
                         /\ client[c].pc = "waiting" => client[c].next <= LastId
    /\ \A h \in handlers : h.session = 0 /\ client[h.client].pc = "waiting"
    /\ \A g, h \in handlers : g.client = h.client => g = h
    /\ \E from \in Int : Begin(from)

KeptInv == restarts \in Nat /\ (Calm => InOrder)

\* The range of a batch.
LEMMA BuiltRange == ASSUME NEW b \in Built PROVE b.lo \in Int /\ b.hi \in Int /\ b.lo <= b.hi
<1>1. PICK c \in Client, lo \in Int, n \in Nat, seed \in Seeds : b = Whole(c, lo, lo + n, seed)
  BY DEF Built
<1>2. b.lo = lo /\ b.hi = lo + n
  BY <1>1 DEF Whole
<1> QED
  BY <1>2

\* A batch that starts where a chain ends makes it longer.
LEMMA ChainAppend ==
    ASSUME NEW b \in Seq(Built), NEW r \in Built, NEW from \in Int, NEW to \in Int, NEW size, NEW seed,
           Chain(b, from, to, size, seed), r.lo = to, r.seed = seed, r.hi = End(to, size)
    PROVE  Chain(Append(b, r), from, r.hi, size, seed)
<1> DEFINE a == Append(b, r)
           n == Len(b)
<1>1. n \in Nat /\ DOMAIN b = 1 .. n /\ DOMAIN a = 1 .. n + 1 /\ Len(a) = n + 1 /\ a # <<>>
  OBVIOUS
<1>2. a[n + 1] = r /\ \A k \in 1 .. n : a[k] = b[k]
  OBVIOUS
<1>3. b = <<>> <=> n = 0
  OBVIOUS
<1>4. r.lo \in Int /\ r.hi \in Int
  BY BuiltRange
<1> HIDE DEF a, n
<1>5. \A k \in DOMAIN a : a[k].seed = seed /\ a[k].hi = End(a[k].lo, size)
  BY <1>1, <1>2 DEF Chain
<1>6. ASSUME NEW k \in DOMAIN a, NEW l \in DOMAIN a, l = k + 1 PROVE a[l].lo = a[k].hi
  <2>1. CASE l = n + 1
    <3>1. k = n /\ n # 0
      BY <1>1, <1>6, <2>1
    <3>2. b[Len(b)].hi = to
      BY <1>3, <3>1 DEF Chain
    <3> QED
      BY <1>1, <1>2, <2>1, <3>1, <3>2 DEF n
  <2>2. CASE l # n + 1
    <3>1. l \in 1 .. n /\ k \in 1 .. n
      BY <1>1, <1>6, <2>2
    <3> QED
      BY <1>1, <1>2, <1>6, <3>1 DEF Chain
  <2> QED
    BY <2>1, <2>2
<1>7. a[1].lo = from
  <2>1. CASE n = 0
    BY <1>2, <1>3, <2>1 DEF Chain
  <2>2. CASE n # 0
    <3>1. 1 \in 1 .. n
      BY <1>1, <2>2
    <3> QED
      BY <1>2, <1>3, <2>2, <3>1 DEF Chain
  <2> QED
    BY <2>1, <2>2
<1>8. ASSUME NEW i \in Int, from <= i, i < r.hi PROVE \E k \in DOMAIN a : a[k].lo <= i /\ i < a[k].hi
  <2>1. CASE i < to
    <3>1. PICK k \in DOMAIN b : b[k].lo <= i /\ i < b[k].hi
      BY <1>8, <2>1 DEF Chain
    <3> QED
      BY <1>1, <1>2, <3>1
  <2>2. CASE to <= i
    <3>1. a[n + 1].lo <= i /\ i < a[n + 1].hi /\ n + 1 \in DOMAIN a
      BY <1>1, <1>2, <1>8, <2>2
    <3> QED
      BY <3>1
  <2> QED
    BY <2>1, <2>2
<1> QED
  BY <1>1, <1>2, <1>5, <1>6, <1>7, <1>8 DEF Chain, a

\* Without its first batch a chain starts where that one ends.
LEMMA ChainTail ==
    ASSUME NEW b \in Seq(Built), b # <<>>, NEW from \in Int, NEW to \in Int, NEW size, NEW seed,
           Chain(b, from, to, size, seed)
    PROVE  /\ Head(b).lo = from /\ Head(b).hi = End(from, size) /\ Head(b).seed = seed
           /\ Chain(Tail(b), Head(b).hi, to, size, seed)
<1> DEFINE t == Tail(b)
           n == Len(b)
<1>1. n \in Nat \ {0} /\ DOMAIN b = 1 .. n /\ DOMAIN t = 1 .. n - 1 /\ Len(t) = n - 1 /\ Head(b) = b[1]
  OBVIOUS
<1>2. \A k \in 1 .. n - 1 : t[k] = b[k + 1]
  OBVIOUS
<1>3. t = <<>> <=> n = 1
  <2>1. t \in Seq(Built) /\ Len(t) = n - 1 /\ n \in Nat
    OBVIOUS
  <2> HIDE DEF t, n
  <2> QED
    BY <2>1
<1>4. \A k \in 1 .. n : b[k] \in Built
  BY <1>1
<1>5. \A k \in 1 .. n : b[k].lo \in Int /\ b[k].hi \in Int
  BY <1>4, BuiltRange
<1> HIDE DEF t, n
<1>6. b[1].lo = from /\ b[n].hi = to
  BY <1>1 DEF Chain, n
<1>7. b[1].hi = End(from, size) /\ b[1].seed = seed
  BY <1>1, <1>6 DEF Chain
<1>8. ASSUME NEW k \in DOMAIN t PROVE t[k].seed = seed /\ t[k].hi = End(t[k].lo, size)
  <2>1. k + 1 \in DOMAIN b /\ t[k] = b[k + 1]
    BY <1>1, <1>2
  <2>2. \A j \in DOMAIN b : b[j].seed = seed /\ b[j].hi = End(b[j].lo, size)
    BY DEF Chain
  <2> QED
    BY <2>1, <2>2
<1>9. ASSUME NEW k \in DOMAIN t, NEW l \in DOMAIN t, l = k + 1 PROVE t[l].lo = t[k].hi
  <2>1. k + 1 \in DOMAIN b /\ t[k] = b[k + 1] /\ l + 1 \in DOMAIN b /\ t[l] = b[l + 1] /\ l + 1 = (k + 1) + 1
    BY <1>1, <1>2, <1>9
  <2>2. \A i, j \in DOMAIN b : j = i + 1 => b[j].lo = b[i].hi
    BY DEF Chain
  <2> QED
    BY <2>1, <2>2
<1>10. t = <<>> => b[1].hi = to
  BY <1>3, <1>6
<1>11. ASSUME t # <<>> PROVE t[1].lo = b[1].hi /\ t[Len(t)].hi = to
  <2>1. n > 1 /\ t[1] = b[2] /\ t[Len(t)] = b[n] /\ 1 \in DOMAIN b /\ 2 \in DOMAIN b
    BY <1>1, <1>2, <1>3, <1>11
  <2> QED
    BY <1>6, <2>1 DEF Chain
<1>12. ASSUME NEW i \in Int, b[1].hi <= i, i < to PROVE \E k \in DOMAIN t : t[k].lo <= i /\ i < t[k].hi
  <2>1. b[1].lo <= b[1].hi
    BY <1>1, <1>4, BuiltRange
  <2>2. from <= i
    BY <1>1, <1>5, <1>6, <1>12, <2>1
  <2>3. PICK k \in DOMAIN b : b[k].lo <= i /\ i < b[k].hi
    BY <1>12, <2>2 DEF Chain
  <2>4. k # 1
    BY <1>1, <1>5, <1>12, <2>3
  <2>5. k - 1 \in DOMAIN t /\ t[k - 1] = b[k]
    BY <1>1, <1>2, <2>4
  <2> QED
    BY <2>3, <2>5
<1>13. Chain(t, b[1].hi, to, size, seed)
  BY <1>8, <1>9, <1>10, <1>11, <1>12 DEF Chain
<1> QED
  BY <1>1, <1>6, <1>7, <1>13 DEF t

\* What a client sends next, and how far it has sent.
LEMMA BatchFields ==
    ASSUME client \in [Client -> Sessions], NEW c \in Client
    PROVE  /\ Batch(c).lo = client[c].next /\ Batch(c).seed = client[c].seed
           /\ Batch(c).hi = End(client[c].next, client[c].size)
           /\ client[c].next \in Int /\ Batch(c).hi \in Int /\ Sent(c) \in Int
<1>1. client[c].next \in Int /\ client[c].size \in Nat /\ LastId \in Nat
  BY BoundsAssumption DEF Sessions
<1>2. End(client[c].next, client[c].size) \in Int
  BY <1>1 DEF End
<1> QED
  BY <1>1, <1>2 DEF Batch, End, Sent

\* An answer Ok changes nothing about how far a client has sent.
LEMMA AnswerOk ==
    ASSUME client \in [Client -> Sessions], NEW h \in Calls, Answer(h, "Ok"),
           client[h.client].session = h.session, client[h.client].pc = "waiting"
    PROVE  /\ \A c \in Client : /\ client'[c].size = client[c].size /\ client'[c].seed = client[c].seed
                                /\ client'[c].session = client[c].session /\ Sent(c)' = Sent(c)
           /\ \A c \in Client \ {h.client} : client'[c] = client[c]
           /\ client'[h.client].pc = "ready"
<1>1. h.client \in Client
  BY DEF Calls
<1>2. client' = [client EXCEPT ![h.client].pc = "ready", ![h.client].next = Batch(h.client).hi]
  BY DEF Answer
<1>3. \A c \in Client : client[c] \in Sessions
  OBVIOUS
<1>4. \A c \in Client \ {h.client} : client'[c] = client[c]
  BY <1>1, <1>2
<1>5. /\ client'[h.client].pc = "ready" /\ client'[h.client].next = Batch(h.client).hi
      /\ client'[h.client].size = client[h.client].size /\ client'[h.client].seed = client[h.client].seed
      /\ client'[h.client].session = client[h.client].session
  BY <1>1, <1>2, <1>3 DEF Sessions
<1>6. Sent(h.client)' = Sent(h.client)
  BY <1>1, <1>5, BatchFields DEF Sent
<1>7. \A c \in Client \ {h.client} : Sent(c)' = Sent(c)
  BY <1>4 DEF Sent
<1> QED
  BY <1>4, <1>5, <1>6, <1>7

\* No answer changes the settings of a client.
LEMMA AnswerSettings ==
    ASSUME client \in [Client -> Sessions], NEW h \in Calls, NEW status, Answer(h, status)
    PROVE  \A c \in Client : client'[c].size = client[c].size /\ client'[c].seed = client[c].seed
<1>1. \A c \in Client : client[c] \in Sessions
  OBVIOUS
<1>2. h.client \in Client
  BY DEF Calls
<1> QED
  BY <1>1, <1>2 DEF Answer, Sessions

\* The clients began calm if they are calm, and their settings are as they were.
LEMMA CalmBefore ==
    ASSUME Calm', restarts' = restarts, refused' = refused,
           \A c \in Client : client'[c].size = client[c].size /\ client'[c].seed = client[c].seed
    PROVE  Calm
BY DEF Calm, SameSettings

\* A call that is answered Ok leaves all in order, if it loses no row.
LEMMA Answered ==
    ASSUME WholeInv, InOrder, NEW h \in handlers, Answer(h, "Ok"), handlers' = handlers \ {h},
           buffer' = buffer, \A i \in Int : InTable(i) => InTable(i)'
    PROVE  InOrder'
<1>1. h \in Calls /\ h.client \in Client /\ client \in [Client -> Sessions]
  BY DEF WholeInv, Calls
<1>2. client[h.client].session = h.session /\ client[h.client].pc = "waiting"
  BY <1>1 DEF InOrder
<1>3. /\ \A c \in Client : /\ client'[c].size = client[c].size /\ client'[c].seed = client[c].seed
                           /\ client'[c].session = client[c].session /\ Sent(c)' = Sent(c)
      /\ \A c \in Client \ {h.client} : client'[c] = client[c]
      /\ client'[h.client].pc = "ready"
  BY <1>1, <1>2, AnswerOk
<1>4. (\A c \in Client : /\ client[c].session = 0 /\ client[c].pc # "failed"
                         /\ client[c].pc = "waiting" => client[c].next <= LastId)'
  BY <1>3 DEF InOrder
<1>5. ASSUME NEW g \in handlers' PROVE g.session = 0 /\ client'[g.client].pc = "waiting"
  <2>1. g \in handlers /\ g # h
    OBVIOUS
  <2>2. g.client \in Client /\ g.client # h.client
    BY <2>1 DEF InOrder, WholeInv, Calls
  <2> QED
    BY <1>3, <2>1, <2>2 DEF InOrder
<1>6. \A f, g \in handlers' : f.client = g.client => f = g
  BY DEF InOrder
<1>7. PICK from \in Int : Begin(from)
  BY DEF InOrder
<1>8. Begin(from)'
  BY <1>3, <1>7 DEF Begin
<1> QED
  BY <1>4, <1>5, <1>6, <1>7, <1>8 DEF InOrder

\* A batch that is buffered continues the chain of its client.
LEMMA CallInOrder ==
    ASSUME WholeInv, InOrder, NEW c \in Client, Call(c)
    PROVE  InOrder'
<1>0. client \in [Client -> Sessions] /\ buffer \in [Client -> Seq(Built)]
  BY DEF WholeInv
<1>1. CASE Full(c)
  BY <1>1 DEF Call, InOrder, Begin, Sent, InTable
<1>2. CASE ~Full(c)
  <2> DEFINE new == [client |-> c, session |-> client[c].session, phase |-> "added", pair |-> <<>>]
  <2>1. /\ buffer' = [buffer EXCEPT ![c] = Append(@, Batch(c))]
        /\ handlers' = handlers \cup {new}
        /\ client' = [client EXCEPT ![c].pc = "waiting"]
        /\ client[c].pc = "ready" /\ client[c].next <= LastId /\ stored' = stored
    BY <1>2 DEF Call
  <2>2. /\ client'[c].pc = "waiting" /\ client'[c].next = client[c].next
        /\ \A d \in Client : /\ client'[d].size = client[d].size /\ client'[d].seed = client[d].seed
                             /\ client'[d].session = client[d].session
        /\ \A d \in Client \ {c} : client'[d] = client[d]
    <3>1. \A d \in Client : client[d] \in Sessions
      BY <1>0
    <3> QED
      BY <1>0, <2>1, <3>1 DEF Sessions
  <2>3. new.client = c /\ new.session = client[c].session /\ new.phase = "added"
    OBVIOUS
  <2> HIDE DEF new
  <2>4. (\A d \in Client : /\ client[d].session = 0 /\ client[d].pc # "failed"
                           /\ client[d].pc = "waiting" => client[d].next <= LastId)'
    BY <2>1, <2>2 DEF InOrder
  <2>5. \A g \in handlers : g.client # c
    BY <2>1 DEF InOrder
  <2>6. \A g \in handlers' : g.session = 0 /\ client'[g.client].pc = "waiting"
    BY <2>1, <2>2, <2>3, <2>5 DEF InOrder, WholeInv, Calls
  <2>7. \A f, g \in handlers' : f.client = g.client => f = g
    BY <2>1, <2>3, <2>5 DEF InOrder
  <2>8. PICK from \in Int : Begin(from)
    BY DEF InOrder
  <2>9. ASSUME NEW d \in Client
        PROVE  Chain(buffer'[d], from, Sent(d)', client'[d].size, client'[d].seed)
    <3>1. CASE d = c
      <4>1. Batch(c) \in Built
        BY <1>0, <2>1, BatchBuilt
      <4>2. Sent(c) = client[c].next /\ Sent(c)' = End(client[c].next, client[c].size)
        BY <2>1, <2>2 DEF Sent
      <4>3. /\ Batch(c).lo = Sent(c) /\ Batch(c).seed = client[c].seed
            /\ Batch(c).hi = End(Sent(c), client[c].size) /\ Batch(c).hi = Sent(c)' /\ Sent(c) \in Int
        BY <1>0, <4>2, BatchFields
      <4>4. Chain(buffer[c], from, Sent(c), client[c].size, client[c].seed) /\ buffer[c] \in Seq(Built)
        BY <1>0, <2>8 DEF Begin
      <4>5. Chain(Append(buffer[c], Batch(c)), from, Batch(c).hi, client[c].size, client[c].seed)
        <5> DEFINE r == Batch(c)
                   b == buffer[c]
                   to == Sent(c)
                   size == client[c].size
                   seed == client[c].seed
        <5>1. /\ b \in Seq(Built) /\ r \in Built /\ to \in Int /\ Chain(b, from, to, size, seed)
              /\ r.lo = to /\ r.seed = seed /\ r.hi = End(to, size)
          BY <4>1, <4>3, <4>4
        <5> HIDE DEF r, b, to, size, seed
        <5>2. Chain(Append(b, r), from, r.hi, size, seed)
          BY <5>1, ChainAppend
        <5> QED
          BY <5>2 DEF r, b, size, seed
      <4>6. buffer'[c] = Append(buffer[c], Batch(c))
        BY <1>0, <2>1
      <4> QED
        BY <2>2, <3>1, <4>3, <4>5, <4>6
    <3>2. CASE d # c
      <4>1. Sent(d)' = Sent(d) /\ buffer'[d] = buffer[d]
        BY <1>0, <2>1, <2>2, <3>2 DEF Sent
      <4> QED
        BY <2>2, <2>8, <4>1 DEF Begin
    <3> QED
      BY <3>1, <3>2
  <2>10. \A i \in Int : InTable(i) => InTable(i)'
    BY <2>1 DEF InTable
  <2>11. Begin(from)'
    BY <2>8, <2>9, <2>10 DEF Begin
  <2> QED
    BY <2>4, <2>6, <2>7, <2>8, <2>11 DEF InOrder
<1> QED
  BY <1>1, <1>2

\* With the same settings the heads of the two buffers match, and what is
\* taken off them is inserted.
LEMMA TryHandleBatchInOrder ==
    ASSUME WholeInv, InOrder, SameSettings, NEW h \in handlers, TryHandleBatch(h)
    PROVE  InOrder'
<1>1. /\ h \in Calls /\ h.client \in Client /\ Other(h.client) \in Client
      /\ client \in [Client -> Sessions] /\ buffer \in [Client -> Seq(Built)]
  BY OtherClient DEF WholeInv, Calls
<1> DEFINE ready == \A c \in Client : buffer[c] # <<>>
           d == Other(h.client)
           pair == <<Head(buffer[h.client]), Head(buffer[d])>>
<1>2. h.phase = "added" /\ stored' = stored
  BY DEF TryHandleBatch, HandleIf
<1>3. CASE ~ready
  <2>1. Answer(h, "Ok") /\ handlers' = handlers \ {h} /\ buffer' = buffer
    BY <1>3 DEF TryHandleBatch, HandleIf
  <2>2. \A i \in Int : InTable(i) => InTable(i)'
    BY <1>2, <2>1 DEF InTable
  <2> QED
    BY <2>1, <2>2, Answered
<1>4. CASE ready
  <2>1. PICK from \in Int : Begin(from)
    BY DEF InOrder
  <2>2. ASSUME NEW c \in Client
        PROVE  /\ Head(buffer[c]).lo = from /\ Head(buffer[c]).hi = End(from, client[c].size)
               /\ Head(buffer[c]).seed = client[c].seed
               /\ Chain(Tail(buffer[c]), Head(buffer[c]).hi, Sent(c), client[c].size, client[c].seed)
    <3> DEFINE b == buffer[c]
               to == Sent(c)
               size == client[c].size
               seed == client[c].seed
    <3>1. b \in Seq(Built) /\ b # <<>> /\ to \in Int /\ Chain(b, from, to, size, seed)
      BY <1>1, <1>4, <2>1, BatchFields DEF Begin
    <3> HIDE DEF b, to, size, seed
    <3>2. /\ Head(b).lo = from /\ Head(b).hi = End(from, size) /\ Head(b).seed = seed
          /\ Chain(Tail(b), Head(b).hi, to, size, seed)
      BY <3>1, ChainTail
    <3> QED
      BY <3>2 DEF b, to, size, seed
  <2>3. \A c, e \in Client : client[c].size = client[e].size /\ client[c].seed = client[e].seed
    BY DEF SameSettings
  <2>5. PICK till \in Int : till = End(from, client[h.client].size) /\ from <= till
    <3>1. Head(buffer[h.client]) \in Built
      BY <1>1, <1>4
    <3>2. Head(buffer[h.client]).lo = from /\ Head(buffer[h.client]).hi = End(from, client[h.client].size)
      BY <1>1, <2>2
    <3>3. End(from, client[h.client].size) \in Int /\ from <= End(from, client[h.client].size)
      BY <3>1, <3>2, BuiltRange
    <3> QED
      BY <3>3
  <2> DEFINE new == [h EXCEPT !.phase = "inserting", !.pair = pair]
  <2>4. ASSUME NEW c \in Client
        PROVE  /\ Head(buffer[c]).lo = from /\ Head(buffer[c]).hi = till
               /\ Head(buffer[c]).seed = client[h.client].seed
               /\ Chain(Tail(buffer[c]), till, Sent(c), client[c].size, client[c].seed)
    <3>1. client[c].size = client[h.client].size /\ client[c].seed = client[h.client].seed
      BY <1>1, <2>3
    <3>2. Head(buffer[c]).hi = till
      BY <2>2, <2>5, <3>1
    <3> QED
      BY <2>2, <3>1, <3>2
  <2>6. Matching(pair[1], pair[2])
    BY <1>1, <2>4, SMTT(20) DEF Matching
  <2>7. handlers' = (handlers \ {h}) \cup {new} /\ client' = client /\ buffer' = [c \in Client |-> Tail(buffer[c])]
    BY <1>4, <2>6 DEF TryHandleBatch, HandleIf
  <2>8. /\ new.phase = "inserting" /\ new.client = h.client /\ new.session = h.session
        /\ new.pair[1].lo = from /\ new.pair[1].hi = till
    BY <1>1, <2>4 DEF Calls
  <2> HIDE DEF new
  <2>9. (\A c \in Client : /\ client[c].session = 0 /\ client[c].pc # "failed"
                           /\ client[c].pc = "waiting" => client[c].next <= LastId)'
    BY <2>7 DEF InOrder
  <2>10. \A g \in handlers' : g.session = 0 /\ client'[g.client].pc = "waiting"
    BY <2>7, <2>8 DEF InOrder
  <2>11. \A f, g \in handlers' : f.client = g.client => f = g
    BY <2>7, <2>8 DEF InOrder
  <2>12. \A c \in Client : Chain(buffer'[c], till, Sent(c)', client'[c].size, client'[c].seed)
    BY <2>4, <2>7 DEF Sent
  <2>13. ASSUME NEW i \in Int, 1 <= i, i < till PROVE InTable(i)'
    <3>1. CASE i < from
      <4>1. InTable(i)
        BY <2>1, <2>13, <3>1 DEF Begin
      <4> QED
        BY <1>2, <2>7, <4>1 DEF InTable
    <3>2. CASE from <= i
      BY <2>7, <2>8, <2>13, <3>2 DEF InTable
    <3> QED
      BY <3>1, <3>2
  <2>14. Begin(till)'
    BY <2>12, <2>13 DEF Begin
  <2> QED
    BY <2>5, <2>9, <2>10, <2>11, <2>14 DEF InOrder
<1> QED
  BY <1>3, <1>4

\* All the rows of a pair that matches are inserted.
LEMMA RecombinedDomain ==
    ASSUME NEW r \in Built, NEW s \in Built, Matching(r, s)
    PROVE  \A i \in Int : r.lo <= i /\ i < r.hi => i \in DOMAIN Recombined(<<r, s>>)
<1>1. PICK c \in Client, lo \in Int, n \in Nat, seed \in Seeds : r = Whole(c, lo, lo + n, seed)
  BY DEF Built
<1>2. PICK e \in Client, lo2 \in Int, n2 \in Nat, seed2 \in Seeds : s = Whole(e, lo2, lo2 + n2, seed2)
  BY DEF Built
<1>3. lo2 = lo /\ n2 = n
  BY <1>1, <1>2 DEF Matching, Whole
<1>4. r.lo = lo /\ r.hi = lo + n /\ Len(r.shares) = n /\ Len(s.shares) = n
  BY <1>1, <1>2, <1>3 DEF Whole
<1>5. DOMAIN Recombined(<<r, s>>) = lo .. lo + n - 1
  BY <1>4 DEF Recombined
<1> QED
  BY <1>4, <1>5

\* What was being inserted is in the table.
LEMMA InsertInOrder ==
    ASSUME WholeInv, InOrder, NEW h \in handlers, InsertIntoStore(h)
    PROVE  InOrder'
<1>1. h \in Calls /\ h.phase = "inserting" /\ Paired(h)
  BY DEF WholeInv, InsertIntoStore
<1>2. Answer(h, "Ok") /\ handlers' = handlers \ {h} /\ buffer' = buffer
  BY DEF InsertIntoStore
<1> DEFINE r == h.pair[1]
           s == h.pair[2]
<1>3. h.pair = <<r, s>> /\ r \in Built /\ s \in Built /\ Matching(r, s)
  BY <1>1 DEF Calls, Paired
<1>4. DOMAIN stored' = DOMAIN stored \cup DOMAIN Recombined(h.pair)
  BY DEF InsertIntoStore
<1> HIDE DEF s
<1>5. \A i \in Int : r.lo <= i /\ i < r.hi => i \in DOMAIN stored'
  <2> HIDE DEF r
  <2> QED
    BY <1>3, <1>4, RecombinedDomain
<1>6. \A i \in Int : InTable(i) => InTable(i)'
  BY <1>2, <1>4, <1>5 DEF InTable
<1> QED
  BY <1>2, <1>6, Answered

\* A client that ends has sent what it had sent.
LEMMA FinishInOrder ==
    ASSUME WholeInv, InOrder, NEW c \in Client, Finish(c)
    PROVE  InOrder'
<1>1. /\ client' = [client EXCEPT ![c].pc = "done"] /\ client[c].pc = "ready"
      /\ buffer' = buffer /\ handlers' = handlers /\ stored' = stored
      /\ client \in [Client -> Sessions]
  BY DEF Finish, WholeInv
<1>2. /\ client'[c].pc = "done" /\ client'[c].next = client[c].next
      /\ \A d \in Client : /\ client'[d].size = client[d].size /\ client'[d].seed = client[d].seed
                           /\ client'[d].session = client[d].session
      /\ \A d \in Client \ {c} : client'[d] = client[d]
  <2>1. \A d \in Client : client[d] \in Sessions
    BY <1>1
  <2> QED
    BY <1>1, <2>1 DEF Sessions
<1>3. \A d \in Client : Sent(d)' = Sent(d)
  BY <1>1, <1>2 DEF Sent
<1>4. (\A d \in Client : /\ client[d].session = 0 /\ client[d].pc # "failed"
                         /\ client[d].pc = "waiting" => client[d].next <= LastId)'
  BY <1>2 DEF InOrder
<1>5. \A g \in handlers' : g.session = 0 /\ client'[g.client].pc = "waiting"
  BY <1>1, <1>2 DEF InOrder, WholeInv, Calls
<1>6. \A f, g \in handlers' : f.client = g.client => f = g
  BY <1>1 DEF InOrder
<1>7. PICK from \in Int : Begin(from)
  BY DEF InOrder
<1>8. Begin(from)'
  BY <1>1, <1>2, <1>3, <1>7 DEF Begin, InTable
<1> QED
  BY <1>4, <1>5, <1>6, <1>7, <1>8 DEF InOrder

\* What a client was told Ok for is in its buffer, being inserted or stored,
\* for any number of rows, any batch size and any size of the buffers, as long
\* as the clients agree on the settings and nothing fails (re_share).
THEOREM AckedAlwaysKept == Spec => []AckedIsKept
<1>1. Init => KeptInv
  <2> SUFFICES ASSUME Init PROVE KeptInv
    OBVIOUS
  <2>1. client \in [Client -> {Session(size, seed, 0) : size \in Sizes, seed \in Seeds}]
    BY DEF Init
  <2>2. ASSUME NEW c \in Client PROVE client[c].session = 0 /\ client[c].pc = "ready" /\ client[c].next = 1
    <3>1. client[c] \in {Session(size, seed, 0) : size \in Sizes, seed \in Seeds}
      BY <2>1
    <3>2. PICK size \in Sizes, seed \in Seeds : client[c] = Session(size, seed, 0)
      BY <3>1
    <3> QED
      BY <3>2 DEF Session
  <2>3. ASSUME NEW c \in Client PROVE Chain(buffer[c], 1, Sent(c), client[c].size, client[c].seed)
    <3>1. buffer[c] = <<>> /\ Sent(c) = 1
      BY <2>2 DEF Init, Sent
    <3>2. Chain(<<>>, 1, 1, client[c].size, client[c].seed)
      BY DEF Chain
    <3> QED
      BY <3>1, <3>2
  <2>4. Begin(1)
    BY <2>3 DEF Begin
  <2>5. InOrder
    BY <2>2, <2>4 DEF InOrder, Init
  <2> QED
    BY <2>5 DEF KeptInv, Init
<1>2. WholeInv /\ KeptInv /\ [Next]_vars => KeptInv'
  <2> SUFFICES ASSUME WholeInv, KeptInv, [Next]_vars PROVE KeptInv'
    OBVIOUS
  <2>0. client \in [Client -> Sessions] /\ restarts \in Nat
    BY DEF WholeInv, KeptInv
  <2>1. ASSUME NEW c \in Client, Call(c) PROVE KeptInv'
    <3>1. \A d \in Client : client'[d].size = client[d].size /\ client'[d].seed = client[d].seed
      <4>1. client' = client \/ client' = [client EXCEPT ![c].pc = "waiting"]
        BY <2>1 DEF Call
      <4> QED
        BY <2>0, <4>1 DEF Sessions
    <3>2. restarts' = restarts /\ refused' = refused
      BY <2>1 DEF Call
    <3> QED
      BY <2>0, <2>1, <3>1, <3>2, CalmBefore, CallInOrder DEF KeptInv
  <2>2. ASSUME NEW h \in handlers, TryHandleBatch(h) PROVE KeptInv'
    <3>1. \A d \in Client : client'[d].size = client[d].size /\ client'[d].seed = client[d].seed
      <4>1. client' = client \/ Answer(h, "Ok") \/ Answer(h, "Error")
        BY <2>2 DEF TryHandleBatch, HandleIf
      <4> QED
        BY <2>0, <4>1, AnswerSettings DEF WholeInv
    <3>2. restarts' = restarts /\ refused' = refused
      BY <2>2 DEF TryHandleBatch, HandleIf
    <3> QED
      BY <2>0, <2>2, <3>1, <3>2, CalmBefore, TryHandleBatchInOrder DEF KeptInv, Calm
  <2>3. ASSUME NEW h \in handlers, InsertIntoStore(h) PROVE KeptInv'
    <3>1. \A d \in Client : client'[d].size = client[d].size /\ client'[d].seed = client[d].seed
      BY <2>0, <2>3, AnswerSettings DEF InsertIntoStore, WholeInv
    <3>2. restarts' = restarts /\ refused' = refused
      BY <2>3 DEF InsertIntoStore
    <3> QED
      BY <2>0, <2>3, <3>1, <3>2, CalmBefore, InsertInOrder DEF KeptInv
  <2>4. ASSUME NEW h \in handlers, FailInsert(h) PROVE KeptInv'
    BY <2>0, <2>4 DEF FailInsert, KeptInv, Calm
  <2>5. ASSUME NEW h \in handlers, DropCall(h) PROVE KeptInv'
    <3>1. client' = client /\ restarts' = restarts /\ refused' = refused
      BY <2>5 DEF DropCall
    <3>2. InOrder => FALSE
      <4>1. h.client \in Client /\ client[h.client].session # h.session
        BY <2>5 DEF DropCall, WholeInv, Calls
      <4> QED
        BY <4>1 DEF InOrder
    <3> QED
      BY <2>0, <3>1, <3>2, CalmBefore DEF KeptInv
  <2>6. ASSUME NEW c \in Client, Finish(c) PROVE KeptInv'
    <3>1. \A d \in Client : client'[d].size = client[d].size /\ client'[d].seed = client[d].seed
      BY <2>0, <2>6 DEF Finish
    <3>2. restarts' = restarts /\ refused' = refused
      BY <2>6 DEF Finish
    <3> QED
      BY <2>0, <2>6, <3>1, <3>2, CalmBefore, FinishInOrder DEF KeptInv
  <2>7. ASSUME (\E c \in Client : RestartClient(c)) \/ RestartServer PROVE KeptInv'
    BY <2>0, <2>7, SMTT(20) DEF RestartClient, RestartServer, KeptInv, Calm
  <2>8. CASE UNCHANGED vars
    BY <2>8 DEF vars, KeptInv, Calm, SameSettings, InOrder, Begin, Sent, InTable
  <2> QED
    BY <2>1, <2>2, <2>3, <2>4, <2>5, <2>6, <2>7, <2>8 DEF Next
<1>3. WholeInv /\ KeptInv => AckedIsKept
  <2> SUFFICES ASSUME WholeInv, KeptInv, Calm, NEW c \in Client, NEW i \in 1 .. client[c].next - 1
               PROVE  \/ i \in DOMAIN stored
                      \/ \E k \in DOMAIN buffer[c] : i \in buffer[c][k].lo .. buffer[c][k].hi - 1
                      \/ \E h \in handlers : h.phase = "inserting" /\ i \in h.pair[1].lo .. h.pair[1].hi - 1
    BY DEF AckedIsKept, Calm
  <2>1. client[c].next \in Int /\ i \in Int /\ 1 <= i /\ i < client[c].next /\ buffer[c] \in Seq(Built)
    BY DEF WholeInv, Sessions
  <2>2. client[c].next <= Sent(c) /\ Sent(c) \in Int
    <3>1. client \in [Client -> Sessions] /\ client[c].size \in Nat \ {0} /\ LastId \in Nat
      BY BoundsAssumption DEF WholeInv, Sessions
    <3>2. client[c].pc = "waiting" => client[c].next <= LastId
      BY DEF KeptInv, InOrder
    <3> QED
      BY <2>1, <3>1, <3>2 DEF Sent, End
  <2>3. PICK from \in Int : Begin(from)
    BY DEF KeptInv, InOrder
  <2>4. CASE i < from
    <3>1. InTable(i)
      BY <2>1, <2>3, <2>4 DEF Begin
    <3>2. ASSUME NEW h \in handlers, h.phase = "inserting", h.pair[1].lo <= i, i < h.pair[1].hi
          PROVE  i \in h.pair[1].lo .. h.pair[1].hi - 1
      <4>1. h.pair[1] \in Built
        BY <3>2 DEF WholeInv, Paired, Calls
      <4> QED
        BY <2>1, <3>2, <4>1, BuiltRange
    <3> QED
      BY <3>1, <3>2 DEF InTable
  <2>5. CASE from <= i
    <3>1. Chain(buffer[c], from, Sent(c), client[c].size, client[c].seed)
      BY <2>3 DEF Begin
    <3>2. PICK k \in DOMAIN buffer[c] : buffer[c][k].lo <= i /\ i < buffer[c][k].hi
      BY <2>1, <2>2, <2>5, <3>1 DEF Chain
    <3>3. buffer[c][k] \in Built
      BY <2>1
    <3>4. i \in buffer[c][k].lo .. buffer[c][k].hi - 1
      BY <2>1, <3>2, <3>3, BuiltRange
    <3> QED
      BY <3>4
  <2> QED
    BY <2>1, <2>4, <2>5
<1> QED
  BY <1>1, <1>2, <1>3, InitWhole, WholeNext, PTL DEF Spec
=============================================================================
