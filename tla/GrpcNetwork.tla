------------------------------- MODULE GrpcNetwork -------------------------------
(***************************************************************************)
(* The sessions of the CPU parties over gRPC (iris-mpc-cpu network/grpc.rs)*)
(* and their start (execution/local.rs, new_with_network_type): in each    *)
(* session every party opens a stream to every other party; once the three *)
(* calls have been joined, the parties exchange the seeds of their PRFs    *)
(* (protocol/ops.rs, setup_replicated_prf).                                *)
(*                                                                         *)
(* The tasks run on the worker threads of one tokio runtime, as they do    *)
(* under new_with_network_type.  The maps are DashMaps: a guard is held    *)
(* over an await, and a task that needs an entry under another task's guard*)
(* does not yield, it blocks its worker thread.                            *)
(***************************************************************************)
EXTENDS Naturals, Sequences, FiniteSets

CONSTANTS Session,     \* the sessions that are started
          clients(_),  \* the order in which a party's map of clients is iterated
          Shard(_),    \* the shard of message_queues a session falls in
          Workers      \* worker threads of the runtime

ASSUME WorkersAssumption == Workers \in Nat \ {0}

Role == 0 .. 2
next(p) == (p + 1) % 3
prev(p) == (p + 2) % 3
ASSUME ClientsAssumption == \A p \in Role : clients(p) \in {<<next(p), prev(p)>>, <<prev(p), next(p)>>}

VARIABLES pc,              \* session -> party -> where its task is
          cur,             \* session -> party -> the client create_session is at
          guard,           \* <<party, client>> entries some create_session holds
          outgoing,        \* <<session, sender, receiver>> that have an outgoing stream
          message_queues,  \* party -> session -> senders with an incoming stream
          request,         \* <<session, sender, receiver>> of the calls under way
          stuck,           \* the calls whose handler blocks its worker thread
          stream,          \* session -> sender -> receiver -> messages under way
          prf              \* session -> party -> the seeds <<mine, previous party's>>

vars == <<pc, cur, guard, outgoing, message_queues, request, stuck, stream, prf>>
calls == <<guard, outgoing, request, cur>>

Seed(s, p) == <<s, p>>

TypeOK ==
    /\ pc \in [Session -> [Role -> {"start", "refused", "blocked", "calling", "answered",
                                    "created", "receiving", "timeout", "ready", "failed"}]]
    /\ cur \in [Session -> [Role -> 1 .. 2]]
    /\ guard \subseteq Role \X Role
    /\ outgoing \subseteq Session \X Role \X Role
    /\ message_queues \in [Role -> [Session -> SUBSET Role]]
    /\ stuck \subseteq request /\ request \subseteq outgoing
    /\ \A s \in Session : \A p, q \in Role : Len(stream[s][p][q]) <= 1

(* setup_local_grpc_networking: every server is up and every party has a   *)
(* client for every other party.                                           *)
Init ==
    /\ pc = [s \in Session |-> [p \in Role |-> "start"]]
    /\ cur = [s \in Session |-> [p \in Role |-> 1]]
    /\ guard = {} /\ outgoing = {} /\ request = {} /\ stuck = {}
    /\ message_queues = [p \in Role |-> [s \in Session |-> {}]]
    /\ stream = [s \in Session |-> [p \in Role |-> [q \in Role |-> <<>>]]]
    /\ prf = [s \in Session |-> [p \in Role |-> <<>>]]

-----------------------------------------------------------------------------
(* A task that does not sit on a worker thread already can only run when   *)
(* some worker is not blocked.                                             *)
Blocked == {t \in Session \X Role : pc[t[1]][t[2]] = "blocked"}
WorkerFree == Cardinality(Blocked) + Cardinality(stuck) < Workers

Goto(s, p, l) == pc' = [pc EXCEPT ![s][p] = l]
Client(s, p) == clients(p)[cur[s][p]]

(* The loop of create_session takes the i-th client under a guard of the  *)
(* map (or blocks its thread until the guard is free), registers the      *)
(* outgoing stream and calls send_message; the await is the call.          *)
Connect(s, p, i, held) ==
    LET c == clients(p)[i] IN
    /\ cur' = [cur EXCEPT ![s][p] = i]
    /\ IF <<p, c>> \notin held
         THEN /\ Goto(s, p, "calling")
              /\ guard' = held \cup {<<p, c>>}
              /\ outgoing' = outgoing \cup {<<s, p, c>>}
              /\ request' = request \cup {<<s, p, c>>}
         ELSE Goto(s, p, "blocked") /\ guard' = held /\ UNCHANGED <<outgoing, request>>

(* create_session is refused when the session has message queues.          *)
create_session(s, p) ==
    /\ pc[s][p] = "start" /\ WorkerFree
    /\ IF message_queues[p][s] # {}
         THEN Goto(s, p, "refused") /\ UNCHANGED calls
         ELSE Connect(s, p, 1, guard)
    /\ UNCHANGED <<message_queues, stuck, stream, prf>>

Unblock(s, p) ==
    /\ pc[s][p] = "blocked" /\ <<p, Client(s, p)>> \notin guard
    /\ Connect(s, p, cur[s][p], guard)
    /\ UNCHANGED <<message_queues, stuck, stream, prf>>

(* A receive keeps a read guard on the shard of its session while it waits.*)
ReadGuard(q, s) == \E t \in Session : Shard(t) = Shard(s) /\ pc[t][q] = "receiving"

(* The handler of send_message at q: it needs the shard of the session for *)
(* writing, creates the session's queues if there are none and stores the  *)
(* stream, unless that sender has one.                                     *)
send_message(s, p, q) ==
    /\ <<s, p, q>> \in request
    /\ IF ReadGuard(q, s)
         THEN /\ WorkerFree /\ <<s, p, q>> \notin stuck
              /\ stuck' = stuck \cup {<<s, p, q>>}
              /\ UNCHANGED <<pc, guard, message_queues, request>>
         ELSE /\ WorkerFree \/ <<s, p, q>> \in stuck
              /\ Goto(s, p, IF p \in message_queues[q][s] THEN "failed" ELSE "answered")
              /\ guard' = IF p \in message_queues[q][s] THEN guard \ {<<p, q>>} ELSE guard
              /\ message_queues' = [message_queues EXCEPT ![q][s] = @ \cup {p}]
              /\ request' = request \ {<<s, p, q>>}
              /\ stuck' = stuck \ {<<s, p, q>>}
    /\ UNCHANGED <<cur, outgoing, stream, prf>>

\* Mutant: the loop ends one client early.
Answered_early(s, p) ==
    /\ pc[s][p] = "answered" /\ WorkerFree
    /\ Goto(s, p, "created")
    /\ guard' = guard \ {<<p, Client(s, p)>>}
    /\ UNCHANGED <<cur, outgoing, request, message_queues, stuck, stream, prf>>

\* Mutant: the entry of the last client is kept.
Answered_leak(s, p) ==
    /\ pc[s][p] = "answered" /\ WorkerFree
    /\ IF cur[s][p] < Len(clients(p))
         THEN Connect(s, p, cur[s][p] + 1, guard \ {<<p, Client(s, p)>>})
         ELSE Goto(s, p, "created") /\ UNCHANGED <<guard, cur, outgoing, request>>
    /\ UNCHANGED <<message_queues, stuck, stream, prf>>

(* The response is back: the entry is released and the loop goes on.       *)
Answered(s, p) ==
    /\ pc[s][p] = "answered" /\ WorkerFree
    /\ IF cur[s][p] < Len(clients(p))
         THEN Connect(s, p, cur[s][p] + 1, guard \ {<<p, Client(s, p)>>})
         ELSE /\ Goto(s, p, "created")
              /\ guard' = guard \ {<<p, Client(s, p)>>}
              /\ UNCHANGED <<cur, outgoing, request>>
    /\ UNCHANGED <<message_queues, stuck, stream, prf>>

-----------------------------------------------------------------------------
(* join_all of the three create_session tasks, each of which unwraps.      *)
Joined(s) == \A p \in Role : pc[s][p] \in {"created", "receiving", "timeout", "ready", "failed"}

(* setup_replicated_prf: my seed goes to the next party, then a receive    *)
(* from the previous one starts.  A send fails without a stream for the    *)
(* session and the receiver, a receive without queues for the session or   *)
(* for the sender.                                                         *)
CanSend(s, p, q) == <<s, p, q>> \in outgoing
Send(s, p, q, msg) == [stream EXCEPT ![s][p][q] = Append(@, msg)]
CanReceive(s, p, q) == q \in message_queues[p][s]

\* Mutant: a party does not wait for the sessions of the others.
setup_replicated_prf_alone(s, p) ==
    /\ pc[s][p] = "created" /\ WorkerFree
    /\ stream' = IF CanSend(s, p, next(p)) THEN Send(s, p, next(p), Seed(s, p)) ELSE stream
    /\ Goto(s, p, IF CanSend(s, p, next(p)) /\ CanReceive(s, p, prev(p)) THEN "receiving" ELSE "failed")
    /\ UNCHANGED <<calls, message_queues, stuck, prf>>

setup_replicated_prf(s, p) ==
    /\ pc[s][p] = "created" /\ Joined(s) /\ WorkerFree
    /\ stream' = IF CanSend(s, p, next(p)) THEN Send(s, p, next(p), Seed(s, p)) ELSE stream
    /\ Goto(s, p, IF CanSend(s, p, next(p)) /\ CanReceive(s, p, prev(p)) THEN "receiving" ELSE "failed")
    /\ UNCHANGED <<calls, message_queues, stuck, prf>>

Prf_new(my_key, prev_key) == <<my_key, prev_key>>

\* Mutant: the two keys are swapped.
pop_swapped(s, p) ==
    /\ pc[s][p] = "receiving" /\ WorkerFree
    /\ stream[s][prev(p)][p] # <<>>
    /\ prf' = [prf EXCEPT ![s][p] = <<Head(stream[s][prev(p)][p]), Seed(s, p)>>]
    /\ stream' = [stream EXCEPT ![s][prev(p)][p] = Tail(@)]
    /\ Goto(s, p, "ready")
    /\ UNCHANGED <<calls, message_queues, stuck>>

(* The seed of the previous party arrives ...                              *)
pop(s, p) ==
    /\ pc[s][p] = "receiving" /\ WorkerFree
    /\ stream[s][prev(p)][p] # <<>>
    /\ prf' = [prf EXCEPT ![s][p] = Prf_new(Seed(s, p), Head(stream[s][prev(p)][p]))]
    /\ stream' = [stream EXCEPT ![s][prev(p)][p] = Tail(@)]
    /\ Goto(s, p, "ready")
    /\ UNCHANGED <<calls, message_queues, stuck>>

(* ... or comes too late.                                                  *)
Timeout(s, p) ==
    /\ pc[s][p] = "receiving" /\ WorkerFree
    /\ Goto(s, p, "timeout")
    /\ UNCHANGED <<calls, message_queues, stuck, stream, prf>>

-----------------------------------------------------------------------------
Ended(s, p) ==
    \/ pc[s][p] \in {"refused", "timeout", "ready", "failed"}
    \/ pc[s][p] = "created" /\ \E q \in Role : pc[s][q] \in {"refused", "failed"}
AllEnded == \A s \in Session, p \in Role : Ended(s, p)

Next ==
    \/ \E s \in Session, p \in Role :
          \/ create_session(s, p) \/ Unblock(s, p) \/ Answered(s, p)
          \/ setup_replicated_prf(s, p) \/ pop(s, p) \/ Timeout(s, p)
    \/ \E s \in Session, p, q \in Role : send_message(s, p, q)

(* Fairness: tokio polls a task that can run, a thread blocked on a map    *)
(* gets the entry once it is free, and the timer fires.                    *)
Spec == Init /\ [][Next]_vars /\ WF_vars(Next)

(* The seed a party holds for the previous party is the one that party     *)
(* draws its own stream from, in the same session (setup_replicated_prf:   *)
(* "each party will hold two seeds which are the basis of the replicated   *)
(* protocols").                                                            *)
SeedsPaired ==
    \A s \in Session, p \in Role :
       prf[s][p] # <<>> /\ prf[s][prev(p)] # <<>> => prf[s][p][2] = prf[s][prev(p)][1]

(* When the three create_session calls of a session have succeeded, every  *)
(* party can reach every other: no send or receive of the session fails    *)
(* because a stream or a queue is missing.                                 *)
JoinedConnected ==
    \A s \in Session : Joined(s) =>
       \A p \in Role : /\ pc[s][p] # "failed"
                       /\ message_queues[p][s] = Role \ {p}
                       /\ \A q \in Role \ {p} : <<s, p, q>> \in outgoing

(* A party that create_session refuses in one session has opened no stream *)
(* in it, and no party of that session goes on to the PRFs.                *)
RefusedStops ==
    \A s \in Session, p \in Role :
       pc[s][p] = "refused" =>
          /\ \A q \in Role : <<s, p, q>> \notin outgoing
          /\ \A q \in Role : prf[s][q] = <<>> /\ stream[s][q][next(q)] = <<>>

(* Every task comes to an end - the runtime never has all its workers      *)
(* blocked on guards of tasks that wait for a worker - and the guards of   *)
(* the maps are then free.                                                 *)
TasksEnd == <>[](AllEnded /\ guard = {})

(* create_session reports "Player has already created session" only to a   *)
(* party that has.                                                         *)
RefusedHasCreated ==
    \A s \in Session, p \in Role : pc[s][p] = "refused" => \E q \in Role : <<s, p, q>> \in outgoing
================================================================================
