------------------------------- MODULE Reshare -------------------------------
(***************************************************************************)
(* Resharing: two clients read their shares in batches and send them,      *)
(* masked by a common seed, to a server that adds up the two batches of a  *)
(* range and stores the result as the shares of a third party (reshare.rs, *)
(* reshare-client.rs).  Clients may be restarted with other settings while *)
(* the server still holds, or handles, requests of an earlier session.     *)
(*                                                                         *)
(* The share of an iris is its id with the seed of its mask: the masks of  *)
(* two shares cancel when both are the same.                               *)
(***************************************************************************)
EXTENDS Integers, Sequences

CONSTANTS Client,          \* the two senders
          LastId,          \* db_end - 1; ids start at 1
          Sizes, Seeds,    \* settings a client may be started with
          max_buffer_size,
          MaxRestarts

ASSUME ClientAssumption == \E c, d \in Client : c # d /\ Client = {c, d}
ASSUME BoundsAssumption == LastId \in Nat /\ Sizes \subseteq Nat \ {0} /\ max_buffer_size \in Nat

VARIABLES client,    \* per client: where it is, its next id and its settings
          buffer,    \* sender_1_buffer, sender_2_buffer
          handlers,  \* calls of re_share under way
          stored,    \* the irises table: id -> the two shares added up
          restarts,  \* sessions started again so far
          refused,   \* whether the database has refused an insertion
          turnedDown \* lengths of the buffers a FullQueue was sent for

vars == <<client, buffer, handlers, stored, restarts, refused, turnedDown>>

Other(c) == CHOOSE d \in Client : d # c
Session(size, seed, n) == [pc |-> "ready", next |-> 1, size |-> size, seed |-> seed, session |-> n]

\* The batch a client builds: start_reshare_batch .. finalize_reshare_batch.
Batch(c) ==
    LET lo == client[c].next
        hi == IF lo + client[c].size - 1 < LastId THEN lo + client[c].size ELSE LastId + 1
    IN  [sender |-> c, lo |-> lo, hi |-> hi, seed |-> client[c].seed,
         shares |-> [i \in 1 .. hi - lo |-> [id |-> lo + i - 1, seed |-> client[c].seed]]]

Init ==
    /\ client \in [Client -> {Session(size, seed, 0) : size \in Sizes, seed \in Seeds}]
    /\ buffer = [c \in Client |-> <<>>]
    /\ handlers = {}
    /\ stored = [i \in {} |-> {}]
    /\ restarts = 0
    /\ refused = FALSE
    /\ turnedDown = {}

-----------------------------------------------------------------------------
Full(c) == Len(buffer[c]) + 1 >= max_buffer_size

\* A client calls re_share.  add_request_batch: on FullQueue the client sleeps
\* and calls again with the same batch.
Call(c) ==
    /\ client[c].pc = "ready"
    /\ client[c].next <= LastId
    /\ IF Full(c)
       THEN /\ turnedDown' = turnedDown \cup {Len(buffer[c])}
            /\ UNCHANGED <<client, buffer, handlers>>
       ELSE /\ buffer' = [buffer EXCEPT ![c] = Append(@, Batch(c))]
            /\ handlers' = handlers \cup
                   {[client |-> c, session |-> client[c].session, phase |-> "added", pair |-> <<>>]}
            /\ client' = [client EXCEPT ![c].pc = "waiting"]
            /\ UNCHANGED turnedDown
    /\ UNCHANGED <<stored, restarts, refused>>

\* The client that made the call gets the answer, if it is still there.
Answer(h, status) ==
    LET c == h.client
    IN  client' = IF client[c].session # h.session THEN client
                  ELSE IF status = "Error" THEN [client EXCEPT ![c].pc = "failed"]
                  ELSE [client EXCEPT ![c].pc = "ready", ![c].next = Batch(c).hi]

\* Mutant: the sanity check on the seed is left out.
MatchingRange(r, s) == r.lo = s.lo /\ r.hi = s.hi

\* check_requests_matching
Matching(r, s) == r.lo = s.lo /\ r.hi = s.hi /\ r.seed = s.seed

\* Both heads are gone also when they do not match.
HandleIf(ready, h) ==
    LET d == Other(h.client)
        pair == <<Head(buffer[h.client]), Head(buffer[d])>>
    IN  /\ h.phase = "added"
        /\ \/ /\ ~ready
              /\ Answer(h, "Ok")
              /\ handlers' = handlers \ {h}
              /\ UNCHANGED buffer
           \/ /\ ready
              /\ buffer' = [c \in Client |-> Tail(buffer[c])]
              /\ IF Matching(pair[1], pair[2])
                 THEN /\ handlers' = (handlers \ {h}) \cup
                             {[h EXCEPT !.phase = "inserting", !.pair = pair]}
                      /\ UNCHANGED client
                 ELSE /\ Answer(h, "Error")
                      /\ handlers' = handlers \ {h}
        /\ UNCHANGED <<stored, restarts, refused, turnedDown>>

\* Mutants: one batch in each buffer is not enough; a batch is taken off the
\* buffer before that of the other client is looked at.
TryHandleBatchLazy(h) == HandleIf(\A c \in Client : Len(buffer[c]) > 1, h)

TryHandleBatchEager(h) ==
    IF buffer[Other(h.client)] # <<>> THEN HandleIf(buffer[h.client] # <<>>, h)
    ELSE /\ h.phase = "added"
         /\ Answer(h, "Ok")
         /\ buffer' = [buffer EXCEPT ![h.client] = <<>>]
         /\ handlers' = handlers \ {h}
         /\ UNCHANGED <<stored, restarts, refused, turnedDown>>

\* try_handle_batch
TryHandleBatch(h) == HandleIf(\A c \in Client : buffer[c] # <<>>, h)

\* reshare_code_batch, and insert_into_store: later rows replace earlier ones.
Recombined(pair) ==
    LET r == pair[1]
        s == pair[2]
        n == IF Len(r.shares) < Len(s.shares) THEN Len(r.shares) ELSE Len(s.shares)
    IN  [id \in r.lo .. r.lo + n - 1 |-> {r.shares[id - r.lo + 1], s.shares[id - r.lo + 1]}]

InsertIntoStore(h) ==
    LET rows == Recombined(h.pair)
    IN  /\ h.phase = "inserting"
        /\ stored' = [i \in DOMAIN stored \cup DOMAIN rows |->
                          IF i \in DOMAIN rows THEN rows[i] ELSE stored[i]]
        /\ Answer(h, "Ok")
        /\ handlers' = handlers \ {h}
        /\ UNCHANGED <<buffer, restarts, refused, turnedDown>>

\* An error of the database is logged, and the client told Ok.
FailInsert(h) ==
    /\ refused' = TRUE
    /\ h.phase = "inserting"
    /\ Answer(h, "Ok")
    /\ handlers' = handlers \ {h}
    /\ UNCHANGED <<buffer, stored, restarts, turnedDown>>

\* A call whose client has gone may be dropped while it waits for the database.
DropCall(h) ==
    /\ h.phase = "inserting"
    /\ client[h.client].session # h.session
    /\ handlers' = handlers \ {h}
    /\ UNCHANGED <<client, buffer, stored, restarts, refused, turnedDown>>

Finish(c) ==
    /\ client[c].pc = "ready"
    /\ client[c].next > LastId
    /\ client' = [client EXCEPT ![c].pc = "done"]
    /\ UNCHANGED <<buffer, handlers, stored, restarts, refused, turnedDown>>

\* A client ends, or is ended, at any point and is started again.
RestartClient(c) ==
    /\ restarts < MaxRestarts
    /\ restarts' = restarts + 1
    /\ \E size \in Sizes, seed \in Seeds :
           client' = [client EXCEPT ![c] = Session(size, seed, @.session + 1)]
    /\ UNCHANGED <<buffer, handlers, stored, refused, turnedDown>>

\* The server is restarted: its buffers are gone, calls under way fail.
RestartServer ==
    /\ restarts < MaxRestarts
    /\ restarts' = restarts + 1
    /\ buffer' = [c \in Client |-> <<>>]
    /\ handlers' = {}
    /\ client' = [c \in Client |-> IF client[c].pc = "waiting" THEN [client[c] EXCEPT !.pc = "failed"]
                                   ELSE client[c]]
    /\ UNCHANGED <<stored, refused, turnedDown>>

Handle(h) == TryHandleBatch(h) \/ InsertIntoStore(h)

Next ==
    \/ \E c \in Client : Call(c) \/ Finish(c) \/ RestartClient(c)
    \/ \E h \in handlers : TryHandleBatch(h) \/ InsertIntoStore(h) \/ FailInsert(h) \/ DropCall(h)
    \/ RestartServer

Spec == Init /\ [][Next]_vars

\* Clients call and call again, the server answers; nothing need fail.
FairSpec ==
    /\ Spec
    /\ \A c \in Client : WF_vars(Call(c)) /\ WF_vars(Finish(c))
    /\ WF_vars(\E h \in handlers : Handle(h))

-----------------------------------------------------------------------------
Share == [id : 1 .. LastId, seed : Seeds]
IsBatch(r) == /\ r.sender \in Client /\ r.seed \in Seeds
              /\ 1 <= r.lo /\ r.lo < r.hi /\ r.hi <= LastId + 1
              /\ r.shares \in [1 .. r.hi - r.lo -> Share]

\* Types, with the ranges check_valid asks of a batch and the bound on buffers.
TypeOK ==
    /\ \A c \in Client :
           /\ client[c].pc \in {"ready", "waiting", "done", "failed"}
           /\ client[c].next \in 1 .. LastId + 1
           /\ client[c].size \in Sizes /\ client[c].seed \in Seeds
           /\ Len(buffer[c]) <= max_buffer_size
           /\ \A i \in DOMAIN buffer[c] : IsBatch(buffer[c][i]) /\ buffer[c][i].sender = c
    /\ \A h \in handlers : /\ h.client \in Client /\ h.phase \in {"added", "inserting"}
                           /\ h.phase = "inserting" => IsBatch(h.pair[1]) /\ IsBatch(h.pair[2])
    /\ DOMAIN stored \subseteq 1 .. LastId
    /\ restarts \in 0 .. MaxRestarts /\ refused \in BOOLEAN

\* A stored row is the sum of the two shares of that iris under one seed, in
\* whatever order sessions, retries and insertions overlap: a wrong pairing
\* would store noise (check_requests_matching, insert_into_store).
StoredIsCorrect ==
    \A i \in DOMAIN stored : \E seed \in Seeds : stored[i] = {[id |-> i, seed |-> seed]}

SameSettings == \A c, d \in Client : client[c].size = client[d].size /\ client[c].seed = client[d].seed

\* A batch a client was told Ok for is waiting in the buffer, being inserted or
\* stored (re_share), as long as the clients agree on the settings and nothing fails.
AckedIsKept ==
    SameSettings /\ restarts = 0 /\ ~refused => \A c \in Client : \A i \in 1 .. client[c].next - 1 :
        \/ i \in DOMAIN stored
        \/ \E k \in DOMAIN buffer[c] : i \in buffer[c][k].lo .. buffer[c][k].hi - 1
        \/ \E h \in handlers : h.phase = "inserting" /\ i \in h.pair[1].lo .. h.pair[1].hi - 1

\* Two clients started with the same settings finish, however often they are
\* turned down, and then all is stored, unless one is restarted or the database
\* refuses an insertion (the retry loop of reshare-client.rs).
Completes ==
    SameSettings => <>(\/ restarts > 0 \/ refused
                       \/ DOMAIN stored = 1 .. LastId /\ \A c \in Client : client[c].pc = "done")

\* "This should be inserted into the database": when both clients have been told
\* Ok for all of their batches, all of the range is stored.
FinishedIsStored ==
    (\A c \in Client : client[c].pc = "done") /\ handlers = {} => DOMAIN stored = 1 .. LastId

\* "how many messages are accepted from one client without receving corresponding
\* messages from the other client": nobody is turned down before that many.
AcceptsMaxBuffer ==
    \A n \in turnedDown : n >= max_buffer_size

=============================================================================
