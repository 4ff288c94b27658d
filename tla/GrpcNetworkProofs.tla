-------------------------- MODULE GrpcNetworkProofs --------------------------
(***************************************************************************)
(* The start of sessions over gRPC, for any number of sessions and worker  *)
(* threads, any sharding of the maps and any order of the clients.         *)
(*                                                                         *)
(* The invariant says of every party and session which streams there are,  *)
(* by how far its create_session has come (Linked); nobody is past         *)
(* join_all unless all three calls have succeeded (Gated); and a stream    *)
(* carries nothing but the seed of its sender in its session (Seeded).     *)
(***************************************************************************)
EXTENDS GrpcNetwork, TLAPS

Labels == {"start", "refused", "blocked", "calling", "answered", "created",
           "receiving", "timeout", "ready", "failed"}
Connected == {"created", "receiving", "timeout", "ready"}

\* Client i of party p has been reached when the task is at one of the labels
\* and client cur, or past it.
Reached(s, p, q, labels) ==
    \/ pc[s][p] \in Connected /\ q # p
    \/ pc[s][p] \in {"blocked", "calling", "answered"} /\ cur[s][p] = 2 /\ q = clients(p)[1]
    \/ pc[s][p] \in labels /\ q = clients(p)[cur[s][p]]

Linked(s, p) ==
    /\ pc[s][p] # "failed"
    /\ \A q \in Role :
          /\ <<s, p, q>> \in outgoing <=> Reached(s, p, q, {"calling", "answered"})
          /\ p \in message_queues[q][s] <=> Reached(s, p, q, {"answered"})
          /\ <<s, p, q>> \in request => pc[s][p] = "calling" /\ q = clients(p)[cur[s][p]]

Gated(s) ==
    (\E q \in Role : prf[s][q] # <<>> \/ stream[s][q][next(q)] # <<>>
                        \/ pc[s][q] \in {"receiving", "timeout", "ready"})
        => Joined(s)

Seeded(s, p) ==
    /\ stream[s][p][next(p)] \in Seq({Seed(s, p)})
    /\ prf[s][p] = <<>> \/ prf[s][p] = <<Seed(s, p), Seed(s, prev(p))>>

AllSeeds == Session \X Role

Typed ==
    /\ pc \in [Session -> [Role -> Labels]]
    /\ cur \in [Session -> [Role -> 1 .. 2]]
    /\ message_queues \in [Role -> [Session -> SUBSET Role]]
    /\ stream \in [Session -> [Role -> [Role -> Seq(AllSeeds)]]]
    /\ DOMAIN prf = Session /\ \A s \in Session : DOMAIN prf[s] = Role

\* The inductive invariant.
SessionInv ==
    /\ Typed
    /\ \A s \in Session : Gated(s)
    /\ \A s \in Session, p \in Role : Linked(s, p) /\ Seeded(s, p)

-----------------------------------------------------------------------------
\* The two clients of a party are the two others.
LEMMA ClientsAre ==
    ASSUME NEW p \in Role
    PROVE  /\ Len(clients(p)) = 2
           /\ clients(p)[1] \in Role /\ clients(p)[2] \in Role /\ clients(p)[1] # clients(p)[2]
           /\ \A q \in Role : q # p <=> q = clients(p)[1] \/ q = clients(p)[2]
           /\ next(p) \in Role /\ prev(p) \in Role /\ next(p) # p /\ prev(p) # p
           /\ next(prev(p)) = p /\ prev(next(p)) = p
<1>1. p = 0 \/ p = 1 \/ p = 2
  BY DEF Role
<1>2. /\ next(p) = IF p = 2 THEN 0 ELSE p + 1
      /\ prev(p) = IF p = 0 THEN 2 ELSE p - 1
  BY <1>1 DEF next, prev
<1>3. /\ next(p) \in Role /\ prev(p) \in Role /\ next(p) # p /\ prev(p) # p /\ next(p) # prev(p)
      /\ \A q \in Role : q # p <=> q = next(p) \/ q = prev(p)
  BY <1>1, <1>2 DEF Role
<1>4. next(prev(p)) = p /\ prev(next(p)) = p
  BY <1>1, <1>2 DEF next, prev
<1>5. clients(p) = <<next(p), prev(p)>> \/ clients(p) = <<prev(p), next(p)>>
  BY ClientsAssumption
<1> QED
  BY <1>3, <1>4, <1>5

\* Going to a label changes that of one task.
LEMMA GotoIs ==
    ASSUME Typed, NEW s \in Session, NEW p \in Role, NEW l \in Labels, Goto(s, p, l)
    PROVE  /\ pc' \in [Session -> [Role -> Labels]]
           /\ pc'[s][p] = l
           /\ \A t \in Session, r \in Role : t # s \/ r # p => pc'[t][r] = pc[t][r]
  BY DEF Typed, Goto

\* A task whose own label, client and streams stay is linked as before.
LEMMA LinkedStays ==
    ASSUME NEW t \in Session, NEW r \in Role, Linked(t, r),
           pc'[t][r] = pc[t][r], cur'[t][r] = cur[t][r],
           \A q \in Role : /\ <<t, r, q>> \in outgoing' <=> <<t, r, q>> \in outgoing
                           /\ r \in message_queues'[q][t] <=> r \in message_queues[q][t]
                           /\ <<t, r, q>> \in request' => <<t, r, q>> \in request
    PROVE  Linked(t, r)'
  BY DEF Linked, Reached

-----------------------------------------------------------------------------
\* Taking client i, when the streams are those of the clients before it.
LEMMA ConnectKeeps ==
    ASSUME SessionInv, NEW s \in Session, NEW p \in Role, NEW i \in 1 .. 2, NEW held,
           Connect(s, p, i, held), ~Joined(s),
           UNCHANGED <<message_queues, stream, prf>>,
           \A q \in Role : /\ <<s, p, q>> \in outgoing <=> i = 2 /\ q = clients(p)[1]
                           /\ p \in message_queues[q][s] <=> i = 2 /\ q = clients(p)[1]
                           /\ <<s, p, q>> \notin request
    PROVE  SessionInv'
<1> DEFINE c == clients(p)[i]
           l == IF <<p, c>> \notin held THEN "calling" ELSE "blocked"
<1>1. Typed /\ Goto(s, p, l) /\ l \in Labels
  BY DEF SessionInv, Connect, Labels
<1>2. /\ pc' \in [Session -> [Role -> Labels]]
      /\ pc'[s][p] = l
      /\ \A t \in Session, r \in Role : t # s \/ r # p => pc'[t][r] = pc[t][r]
  BY <1>1, GotoIs
<1>3. /\ cur' \in [Session -> [Role -> 1 .. 2]]
      /\ cur'[s][p] = i
      /\ \A t \in Session, r \in Role : t # s \/ r # p => cur'[t][r] = cur[t][r]
  BY <1>1 DEF Typed, Connect
<1>4. Typed'
  BY <1>1, <1>2, <1>3 DEF Typed
<1>5. \A t \in Session, r, q \in Role : t # s \/ r # p =>
          /\ <<t, r, q>> \in outgoing' <=> <<t, r, q>> \in outgoing
          /\ <<t, r, q>> \in request' => <<t, r, q>> \in request
  BY DEF Connect
<1>6. ASSUME NEW t \in Session, NEW r \in Role, t # s \/ r # p
      PROVE  Linked(t, r)'
  BY <1>2, <1>3, <1>5, <1>6, LinkedStays DEF SessionInv
<1>7. Linked(s, p)'
  <2>1. CASE <<p, c>> \notin held
    <3>1. pc'[s][p] = "calling"
      BY <1>2, <2>1
    <3>2. outgoing' = outgoing \cup {<<s, p, c>>} /\ request' = request \cup {<<s, p, c>>}
      BY <2>1 DEF Connect
    <3> QED
      BY <1>3, <3>1, <3>2 DEF Linked, Reached, Connected
  <2>2. CASE <<p, c>> \in held
    <3>1. pc'[s][p] = "blocked"
      BY <1>2, <2>2
    <3>2. outgoing' = outgoing /\ request' = request
      BY <2>2 DEF Connect
    <3> QED
      BY <1>3, <3>1, <3>2 DEF Linked, Reached, Connected
  <2> QED
    BY <2>1, <2>2
<1>8. ASSUME NEW t \in Session PROVE Gated(t)'
  <2>1. CASE t = s
    <3>1. \A q \in Role : /\ prf[s][q] = <<>> /\ stream[s][q][next(q)] = <<>>
                          /\ pc[s][q] \notin {"receiving", "timeout", "ready"}
      BY DEF SessionInv, Gated
    <3>2. \A q \in Role : pc'[s][q] \notin {"receiving", "timeout", "ready"}
      BY <1>2, <3>1
    <3> QED
      BY <2>1, <3>1, <3>2 DEF Gated
  <2>2. CASE t # s
    BY <1>2, <2>2 DEF SessionInv, Gated, Joined
  <2> QED
    BY <2>1, <2>2
<1>9. ASSUME NEW t \in Session, NEW r \in Role PROVE Seeded(t, r)'
  BY DEF SessionInv, Seeded
<1> QED
  BY <1>4, <1>6, <1>7, <1>8, <1>9 DEF SessionInv

\* A party that has not created its session is not past join_all.
LEMMA NotJoined ==
    ASSUME NEW s \in Session, NEW p \in Role, pc[s][p] \in {"start", "refused", "blocked", "calling", "answered"}
    PROVE  ~Joined(s)
  BY DEF Joined

\* A step to a label before or at the end of create_session keeps the gate shut or open.
LEMMA GatedStays ==
    ASSUME SessionInv, NEW s \in Session, NEW p \in Role, NEW l \in {"refused", "answered", "created"},
           ~Joined(s), Goto(s, p, l), UNCHANGED <<stream, prf>>, NEW t \in Session
    PROVE  Gated(t)'
<1>1. /\ pc'[s][p] = l
      /\ \A u \in Session, r \in Role : u # s \/ r # p => pc'[u][r] = pc[u][r]
  BY GotoIs DEF SessionInv, Labels
<1>2. CASE t = s
  BY <1>1, <1>2 DEF SessionInv, Gated
<1>3. CASE t # s
  BY <1>1, <1>3 DEF SessionInv, Gated, Joined
<1> QED
  BY <1>2, <1>3

\* The first client is taken, or the call is refused and no stream opened.
LEMMA CreateKeeps ==
    ASSUME SessionInv, NEW s \in Session, NEW p \in Role, create_session(s, p)
    PROVE  SessionInv'
<1>1. pc[s][p] = "start" /\ ~Joined(s) /\ Linked(s, p) /\ Typed
  BY NotJoined DEF create_session, SessionInv
<1>2. CASE message_queues[p][s] # {}
  <2>1. Goto(s, p, "refused") /\ UNCHANGED <<cur, outgoing, request, message_queues, stream, prf>>
    BY <1>2 DEF create_session, calls
  <2>2. /\ pc' \in [Session -> [Role -> Labels]]
        /\ pc'[s][p] = "refused"
        /\ \A t \in Session, r \in Role : t # s \/ r # p => pc'[t][r] = pc[t][r]
    BY <1>1, <2>1, GotoIs DEF Labels
  <2>3. ASSUME NEW t \in Session, NEW r \in Role PROVE Linked(t, r)' /\ Seeded(t, r)'
    <3>1. CASE t = s /\ r = p
      BY <1>1, <2>1, <2>2, <3>1 DEF SessionInv, Linked, Reached, Connected, Seeded
    <3>2. CASE t # s \/ r # p
      BY <2>1, <2>2, <3>2, LinkedStays DEF SessionInv, Seeded
    <3> QED
      BY <3>1, <3>2
  <2>4. \A t \in Session : Gated(t)'
    BY <1>1, <2>1, GatedStays
  <2>5. Typed'
    BY <1>1, <2>1, <2>2 DEF Typed
  <2> QED
    BY <2>3, <2>4, <2>5 DEF SessionInv
<1>3. CASE message_queues[p][s] = {}
  <2>1. Connect(s, p, 1, guard) /\ UNCHANGED <<message_queues, stream, prf>>
    BY <1>3 DEF create_session
  <2>2. \A q \in Role : <<s, p, q>> \notin outgoing /\ p \notin message_queues[q][s] /\ <<s, p, q>> \notin request
    BY <1>1 DEF Linked, Reached, Connected
  <2> QED
    BY <1>1, <2>1, <2>2, ConnectKeeps
<1> QED
  BY <1>2, <1>3

\* The entry a task waited for is free.
LEMMA UnblockKeeps ==
    ASSUME SessionInv, NEW s \in Session, NEW p \in Role, Unblock(s, p)
    PROVE  SessionInv'
<1>1. pc[s][p] = "blocked" /\ ~Joined(s) /\ Linked(s, p) /\ cur[s][p] \in 1 .. 2
  BY NotJoined DEF Unblock, SessionInv, Typed
<1>2. Connect(s, p, cur[s][p], guard) /\ UNCHANGED <<message_queues, stream, prf>>
  BY DEF Unblock
<1>3. \A q \in Role : /\ <<s, p, q>> \in outgoing <=> cur[s][p] = 2 /\ q = clients(p)[1]
                      /\ p \in message_queues[q][s] <=> cur[s][p] = 2 /\ q = clients(p)[1]
                      /\ <<s, p, q>> \notin request
  BY <1>1 DEF Linked, Reached, Connected
<1> QED
  BY <1>1, <1>2, <1>3, ConnectKeeps

\* The stream is stored; the sender cannot have one already.
LEMMA SendMessageKeeps ==
    ASSUME SessionInv, NEW s \in Session, NEW p \in Role, NEW q \in Role, send_message(s, p, q)
    PROVE  SessionInv'
<1>1. /\ Linked(s, p) /\ Typed
      /\ <<s, p, q>> \in request /\ pc[s][p] = "calling" /\ q = clients(p)[cur[s][p]] /\ cur[s][p] \in 1 .. 2
      /\ UNCHANGED <<cur, outgoing, stream, prf>>
  <2>1. <<s, p, q>> \in request /\ UNCHANGED <<cur, outgoing, stream, prf>>
    BY DEF send_message
  <2>2. Linked(s, p) /\ Typed
    BY DEF SessionInv
  <2>3. pc[s][p] = "calling" /\ q = clients(p)[cur[s][p]]
    BY <2>1, <2>2 DEF Linked
  <2>4. cur[s][p] \in 1 .. 2
    BY <2>2 DEF Typed
  <2> QED
    BY <2>1, <2>2, <2>3, <2>4
<1>2. ~Joined(s) /\ p \notin message_queues[q][s]
  <2>1. cur[s][p] = 2 => q # clients(p)[1]
    BY <1>1, ClientsAre
  <2>2. ~Reached(s, p, q, {"answered"})
    BY <1>1, <2>1 DEF Reached, Connected
  <2> QED
    BY <1>1, <2>2, NotJoined DEF Linked
<1>3. CASE ReadGuard(q, s)
  <2>1. UNCHANGED <<pc, message_queues, request>>
    BY <1>3 DEF send_message
  <2>2. ASSUME NEW t \in Session, NEW r \in Role PROVE Linked(t, r)' /\ Seeded(t, r)'
    <3>1. Linked(t, r) /\ Seeded(t, r)
      BY DEF SessionInv
    <3>2. Linked(t, r)'
      BY <1>1, <2>1, <3>1, LinkedStays
    <3> QED
      BY <1>1, <3>1, <3>2 DEF Seeded
  <2>3. Typed'
    BY <1>1, <2>1 DEF Typed
  <2>4. \A t \in Session : Gated(t)'
    BY <1>1, <2>1 DEF SessionInv, Gated, Joined
  <2> QED
    BY <2>2, <2>3, <2>4 DEF SessionInv
<1>4. CASE ~ReadGuard(q, s)
  <2>1. /\ Goto(s, p, "answered")
        /\ message_queues' = [message_queues EXCEPT ![q][s] = @ \cup {p}]
        /\ request' = request \ {<<s, p, q>>}
    BY <1>2, <1>4 DEF send_message
  <2>2. /\ pc' \in [Session -> [Role -> Labels]]
        /\ pc'[s][p] = "answered"
        /\ \A t \in Session, r \in Role : t # s \/ r # p => pc'[t][r] = pc[t][r]
    BY <1>1, <2>1, GotoIs DEF Labels
  <2>3. /\ message_queues' \in [Role -> [Session -> SUBSET Role]]
        /\ \A x \in Role, t \in Session, r \in Role :
              r \in message_queues'[x][t] <=> r \in message_queues[x][t] \/ (x = q /\ t = s /\ r = p)
    <3>1. message_queues \in [Role -> [Session -> SUBSET Role]]
      BY <1>1 DEF Typed
    <3> QED
      BY <2>1, <3>1
  <2>4. Linked(s, p)'
    <3>1. \A x \in Role : <<s, p, x>> \notin request'
      BY <1>1, <2>1 DEF Linked
    <3>2. pc'[s][p] # "failed" /\ cur'[s][p] = cur[s][p]
      BY <1>1, <2>2
    <3>3. ASSUME NEW x \in Role
          PROVE  /\ <<s, p, x>> \in outgoing' <=> Reached(s, p, x, {"calling", "answered"})'
                 /\ p \in message_queues'[x][s] <=> Reached(s, p, x, {"answered"})'
      BY <1>1, <2>2, <2>3 DEF Linked, Reached, Connected
    <3> QED
      BY <3>1, <3>2, <3>3 DEF Linked
  <2>5. ASSUME NEW t \in Session, NEW r \in Role, t # s \/ r # p PROVE Linked(t, r)'
    <3>1. Linked(t, r) /\ pc'[t][r] = pc[t][r] /\ cur'[t][r] = cur[t][r] /\ outgoing' = outgoing
      BY <1>1, <2>2, <2>5 DEF SessionInv
    <3>2. \A x \in Role : r \in message_queues'[x][t] <=> r \in message_queues[x][t]
      BY <2>3, <2>5
    <3>3. \A x \in Role : <<t, r, x>> \in request' => <<t, r, x>> \in request
      BY <2>1
    <3> QED
      BY <3>1, <3>2, <3>3, LinkedStays
  <2>6. \A t \in Session : Gated(t)'
    BY <1>1, <1>2, <2>1, GatedStays
  <2>7. \A t \in Session, r \in Role : Seeded(t, r)'
    BY <1>1 DEF SessionInv, Seeded
  <2>8. Typed'
    BY <1>1, <2>2, <2>3 DEF Typed
  <2> QED
    BY <2>4, <2>5, <2>6, <2>7, <2>8 DEF SessionInv
<1> QED
  BY <1>3, <1>4

\* The next client is taken, or there is none and all are connected.
LEMMA AnsweredKeeps ==
    ASSUME SessionInv, NEW s \in Session, NEW p \in Role, Answered(s, p)
    PROVE  SessionInv'
<1>1. /\ Typed /\ Linked(s, p) /\ pc[s][p] = "answered" /\ cur[s][p] \in 1 .. 2 /\ ~Joined(s)
      /\ UNCHANGED <<message_queues, stream, prf>>
  BY NotJoined DEF Answered, SessionInv, Typed
<1>2. CASE cur[s][p] = 1
  <2>1. Connect(s, p, 2, guard \ {<<p, Client(s, p)>>})
    BY <1>2, ClientsAre DEF Answered
  <2>2. \A q \in Role : /\ <<s, p, q>> \in outgoing <=> q = clients(p)[1]
                        /\ p \in message_queues[q][s] <=> q = clients(p)[1]
                        /\ <<s, p, q>> \notin request
    BY <1>1, <1>2 DEF Linked, Reached, Connected
  <2> QED
    BY <1>1, <2>1, <2>2, ConnectKeeps
<1>3. CASE cur[s][p] = 2
  <2>1. Goto(s, p, "created") /\ UNCHANGED <<cur, outgoing, request>>
    <3>1. ~(cur[s][p] < Len(clients(p)))
      <4>1. Len(clients(p)) = 2
        BY ClientsAre
      <4> QED
        BY <1>3, <4>1
    <3> QED
      BY <3>1 DEF Answered
  <2>2. /\ pc' \in [Session -> [Role -> Labels]]
        /\ pc'[s][p] = "created"
        /\ \A t \in Session, r \in Role : t # s \/ r # p => pc'[t][r] = pc[t][r]
    BY <1>1, <2>1, GotoIs DEF Labels
  <2>3. Linked(s, p)'
    <3>1. \A q \in Role : q # p <=> q = clients(p)[1] \/ q = clients(p)[2]
      BY ClientsAre
    <3> QED
      BY <1>1, <1>3, <2>1, <2>2, <3>1 DEF Linked, Reached, Connected
  <2>4. ASSUME NEW t \in Session, NEW r \in Role, t # s \/ r # p PROVE Linked(t, r)'
    BY <1>1, <2>1, <2>2, <2>4, LinkedStays DEF SessionInv
  <2>5. \A t \in Session : Gated(t)'
    BY <1>1, <2>1, GatedStays
  <2>6. \A t \in Session, r \in Role : Seeded(t, r)'
    BY <1>1 DEF SessionInv, Seeded
  <2>7. Typed'
    BY <1>1, <2>1, <2>2 DEF Typed
  <2> QED
    BY <2>3, <2>4, <2>5, <2>6, <2>7 DEF SessionInv
<1> QED
  BY <1>1, <1>2, <1>3

\* Once a session is joined its tasks go on from label to label.
LEMMA JoinedStays ==
    ASSUME SessionInv, NEW s \in Session, NEW p \in Role, Joined(s),
           NEW l \in {"receiving", "timeout", "ready"}, Goto(s, p, l),
           UNCHANGED <<cur, outgoing, request, message_queues>>
    PROVE  /\ pc' \in [Session -> [Role -> Labels]]
           /\ Joined(s)'
           /\ \A t \in Session, r \in Role : Linked(t, r)'
           /\ \A t \in Session, r \in Role : t # s => pc'[t][r] = pc[t][r]
<1>1. Typed /\ pc[s][p] \in Connected /\ l \in Labels
  BY DEF SessionInv, Joined, Connected, Linked, Labels
<1>2. /\ pc' \in [Session -> [Role -> Labels]]
      /\ pc'[s][p] = l
      /\ \A t \in Session, r \in Role : t # s \/ r # p => pc'[t][r] = pc[t][r]
  BY <1>1, GotoIs
<1>3. Linked(s, p)'
  BY <1>1, <1>2 DEF SessionInv, Linked, Reached, Connected
<1>4. ASSUME NEW t \in Session, NEW r \in Role, t # s \/ r # p PROVE Linked(t, r)'
  BY <1>2, <1>4, LinkedStays DEF SessionInv
<1>5. Joined(s)'
  BY <1>2 DEF Joined
<1> QED
  BY <1>2, <1>3, <1>4, <1>5

\* All streams being there, the seed is sent and a receive started.
LEMMA SetupKeeps ==
    ASSUME SessionInv, NEW s \in Session, NEW p \in Role, setup_replicated_prf(s, p)
    PROVE  SessionInv'
<1>1. /\ Typed /\ Joined(s) /\ UNCHANGED <<cur, outgoing, request, message_queues, prf>>
      /\ \A r \in Role : Linked(s, r) /\ pc[s][r] \in Connected
  BY DEF SessionInv, setup_replicated_prf, calls, Joined, Connected, Linked
<1>2. CanSend(s, p, next(p)) /\ CanReceive(s, p, prev(p))
  BY <1>1, ClientsAre DEF Linked, Reached, CanSend, CanReceive
<1>3. Goto(s, p, "receiving") /\ stream' = Send(s, p, next(p), Seed(s, p))
  BY <1>2 DEF setup_replicated_prf
<1>4. /\ pc' \in [Session -> [Role -> Labels]]
      /\ Joined(s)'
      /\ \A t \in Session, r \in Role : Linked(t, r)'
      /\ \A t \in Session, r \in Role : t # s => pc'[t][r] = pc[t][r]
  BY <1>1, <1>3, JoinedStays
<1>5. /\ stream' \in [Session -> [Role -> [Role -> Seq(AllSeeds)]]]
      /\ stream'[s][p][next(p)] = Append(stream[s][p][next(p)], Seed(s, p))
      /\ \A t \in Session, r \in Role : t # s \/ r # p => stream'[t][r] = stream[t][r]
  <2> DEFINE new == Append(stream[s][p][next(p)], Seed(s, p))
  <2>1. next(p) \in Role /\ Seed(s, p) \in AllSeeds
    BY ClientsAre DEF Seed, AllSeeds
  <2>0. stream \in [Session -> [Role -> [Role -> Seq(AllSeeds)]]]
    BY <1>1 DEF Typed
  <2>2. new \in Seq(AllSeeds)
    <3>1. stream[s][p][next(p)] \in Seq(AllSeeds)
      BY <2>0, <2>1
    <3> QED
      BY <2>1, <3>1
  <2>3. stream' = [stream EXCEPT ![s][p][next(p)] = new]
    BY <1>3 DEF Send
  <2> HIDE DEF new
  <2>4. /\ stream' \in [Session -> [Role -> [Role -> Seq(AllSeeds)]]]
        /\ stream'[s][p][next(p)] = new
        /\ \A t \in Session, r \in Role : t # s \/ r # p => stream'[t][r] = stream[t][r]
    BY <2>0, <2>1, <2>2, <2>3
  <2> QED
    BY <2>4 DEF new
<1>6. Typed'
  BY <1>1, <1>4, <1>5 DEF Typed
<1>7. ASSUME NEW t \in Session PROVE Gated(t)'
  <2>1. CASE t = s
    BY <1>4, <2>1 DEF Gated
  <2>2. CASE t # s
    <3>1. Gated(t) /\ \A q \in Role : next(q) \in Role
      BY ClientsAre DEF SessionInv
    <3>2. \A q \in Role : pc'[t][q] = pc[t][q] /\ stream'[t][q] = stream[t][q] /\ prf'[t][q] = prf[t][q]
      BY <1>1, <1>4, <1>5, <2>2
    <3> QED
      BY <3>1, <3>2 DEF Gated, Joined
  <2> QED
    BY <2>1, <2>2
<1>8. ASSUME NEW t \in Session, NEW r \in Role PROVE Seeded(t, r)'
  <2>1. Seeded(t, r)
    BY DEF SessionInv
  <2>2. CASE t = s /\ r = p
    <3>1. stream'[s][p][next(p)] \in Seq({Seed(s, p)})
      <4>1. stream[s][p][next(p)] \in Seq({Seed(s, p)}) /\ Seed(s, p) \in {Seed(s, p)}
        BY <2>1, <2>2 DEF Seeded
      <4>2. Append(stream[s][p][next(p)], Seed(s, p)) \in Seq({Seed(s, p)})
        BY <4>1
      <4> QED
        BY <1>5, <4>2
    <3>2. prf'[s][p] = prf[s][p]
      BY <1>1
    <3> QED
      BY <2>1, <2>2, <3>1, <3>2 DEF Seeded
  <2>3. CASE t # s \/ r # p
    BY <1>1, <1>5, <2>1, <2>3 DEF Seeded
  <2> QED
    BY <2>2, <2>3
<1> QED
  BY <1>4, <1>6, <1>7, <1>8 DEF SessionInv

\* The receive ends with the seed of the previous party in that session.
LEMMA PopKeeps ==
    ASSUME SessionInv, NEW s \in Session, NEW p \in Role, pop(s, p)
    PROVE  SessionInv'
<1> DEFINE r0 == prev(p)
<1>1. r0 \in Role /\ next(r0) = p
  BY ClientsAre
<1>2. Typed /\ Gated(s) /\ Seeded(s, r0) /\ pc[s][p] = "receiving"
  BY <1>1 DEF SessionInv, pop
<1>3. Joined(s)
  BY <1>2 DEF Gated
<1>4. Goto(s, p, "ready") /\ UNCHANGED <<cur, outgoing, request, message_queues>>
  BY DEF pop, calls
<1>5. /\ pc' \in [Session -> [Role -> Labels]]
      /\ Joined(s)'
      /\ \A t \in Session, r \in Role : Linked(t, r)'
      /\ \A t \in Session, r \in Role : t # s => pc'[t][r] = pc[t][r]
  BY <1>3, <1>4, JoinedStays
<1>6. stream[s][r0][p] \in Seq({Seed(s, r0)}) /\ stream[s][r0][p] # <<>>
  BY <1>1, <1>2 DEF Seeded, pop
<1>7. Head(stream[s][r0][p]) = Seed(s, r0) /\ Tail(stream[s][r0][p]) \in Seq({Seed(s, r0)})
  BY <1>6
<1>8. /\ stream' \in [Session -> [Role -> [Role -> Seq(AllSeeds)]]]
      /\ stream'[s][r0][p] \in Seq({Seed(s, r0)})
      /\ \A t \in Session, r \in Role : t # s \/ r # r0 => stream'[t][r] = stream[t][r]
  <2>1. stream \in [Session -> [Role -> [Role -> Seq(AllSeeds)]]]
    BY <1>2 DEF Typed
  <2> DEFINE rest == Tail(stream[s][r0][p])
  <2>2. stream[s][r0][p] \in Seq(AllSeeds)
    BY <1>1, <2>1
  <2>3. rest \in Seq(AllSeeds) /\ rest \in Seq({Seed(s, r0)})
    BY <1>6, <1>7, <2>2
  <2>4. stream' = [stream EXCEPT ![s][r0][p] = rest]
    BY DEF pop
  <2> HIDE DEF rest, r0
  <2> QED
    BY <1>1, <2>1, <2>3, <2>4
<1>9. prf' = [prf EXCEPT ![s][p] = <<Seed(s, p), Seed(s, r0)>>]
  BY <1>7 DEF pop, Prf_new
<1>10. /\ DOMAIN prf' = Session /\ \A t \in Session : DOMAIN prf'[t] = Role
       /\ prf'[s][p] = <<Seed(s, p), Seed(s, r0)>>
       /\ \A t \in Session, r \in Role : t # s \/ r # p => prf'[t][r] = prf[t][r]
  BY <1>2, <1>9 DEF Typed
<1>11. Typed'
  BY <1>2, <1>4, <1>5, <1>8, <1>10 DEF Typed
<1>12. ASSUME NEW t \in Session PROVE Gated(t)'
  <2>1. CASE t = s
    BY <1>5, <2>1 DEF Gated
  <2>2. CASE t # s
    <3>1. Gated(t)
      BY DEF SessionInv
    <3>2. \A q \in Role : pc'[t][q] = pc[t][q] /\ stream'[t][q] = stream[t][q] /\ prf'[t][q] = prf[t][q]
      BY <1>5, <1>8, <1>10, <2>2
    <3> QED
      BY <3>1, <3>2 DEF Gated, Joined
  <2> QED
    BY <2>1, <2>2
<1>13. ASSUME NEW t \in Session, NEW r \in Role PROVE Seeded(t, r)'
  <2>1. Seeded(t, r)
    BY DEF SessionInv
  <2>2. stream'[t][r][next(r)] \in Seq({Seed(t, r)})
    <3>1. CASE t = s /\ r = r0
      BY <1>1, <1>8, <3>1
    <3>2. CASE t # s \/ r # r0
      BY <1>8, <2>1, <3>2 DEF Seeded
    <3> QED
      BY <3>1, <3>2
  <2>3. prf'[t][r] = <<>> \/ prf'[t][r] = <<Seed(t, r), Seed(t, prev(r))>>
    <3>1. CASE t = s /\ r = p
      BY <1>10, <3>1
    <3>2. CASE t # s \/ r # p
      BY <1>10, <2>1, <3>2 DEF Seeded
    <3> QED
      BY <3>1, <3>2
  <2> QED
    BY <2>2, <2>3 DEF Seeded
<1> QED
  BY <1>5, <1>11, <1>12, <1>13 DEF SessionInv

\* The receive ends with the timeout.
LEMMA TimeoutKeeps ==
    ASSUME SessionInv, NEW s \in Session, NEW p \in Role, Timeout(s, p)
    PROVE  SessionInv'
<1>1. Typed /\ Gated(s) /\ pc[s][p] = "receiving"
  BY DEF SessionInv, Timeout
<1>2. Joined(s)
  BY <1>1 DEF Gated
<1>3. Goto(s, p, "timeout") /\ UNCHANGED <<cur, outgoing, request, message_queues, stream, prf>>
  BY DEF Timeout, calls
<1>4. /\ pc' \in [Session -> [Role -> Labels]]
      /\ Joined(s)'
      /\ \A t \in Session, r \in Role : Linked(t, r)'
      /\ \A t \in Session, r \in Role : t # s => pc'[t][r] = pc[t][r]
  BY <1>2, <1>3, JoinedStays
<1>5. Typed'
  BY <1>1, <1>3, <1>4 DEF Typed
<1>6. ASSUME NEW t \in Session PROVE Gated(t)'
  <2>1. CASE t = s
    BY <1>4, <2>1 DEF Gated
  <2>2. CASE t # s
    BY <1>3, <1>4, <2>2 DEF SessionInv, Gated, Joined
  <2> QED
    BY <2>1, <2>2
<1>7. ASSUME NEW t \in Session, NEW r \in Role PROVE Seeded(t, r)'
  BY <1>3 DEF SessionInv, Seeded
<1> QED
  BY <1>4, <1>5, <1>6, <1>7 DEF SessionInv

-----------------------------------------------------------------------------
\* Nothing is open at first.
LEMMA InitSessions == Init => SessionInv
<1> SUFFICES ASSUME Init PROVE SessionInv
  OBVIOUS
<1>0. \A p \in Role : next(p) \in Role
  BY ClientsAre
<1>1. Typed
  BY DEF Init, Typed, Labels
<1>2. ASSUME NEW s \in Session, NEW p \in Role PROVE Linked(s, p)
  BY DEF Init, Linked, Reached, Connected
<1>3. ASSUME NEW s \in Session, NEW p \in Role PROVE Seeded(s, p)
  BY <1>0 DEF Init, Seeded
<1>4. ASSUME NEW s \in Session PROVE Gated(s)
  BY <1>0 DEF Init, Gated
<1> QED
  BY <1>1, <1>2, <1>3, <1>4 DEF SessionInv

\* Every step keeps the invariant.
LEMMA NextSessions == SessionInv /\ [Next]_vars => SessionInv'
<1> SUFFICES ASSUME SessionInv, [Next]_vars PROVE SessionInv'
  OBVIOUS
<1>1. ASSUME NEW s \in Session, NEW p \in Role,
             \/ create_session(s, p) \/ Unblock(s, p) \/ Answered(s, p)
             \/ setup_replicated_prf(s, p) \/ pop(s, p) \/ Timeout(s, p)
      PROVE  SessionInv'
  BY <1>1, CreateKeeps, UnblockKeeps, AnsweredKeeps, SetupKeeps, PopKeeps, TimeoutKeeps
<1>2. ASSUME NEW s \in Session, NEW p \in Role, NEW q \in Role, send_message(s, p, q)
      PROVE  SessionInv'
  BY <1>2, SendMessageKeeps
<1>3. CASE UNCHANGED vars
  <2>1. UNCHANGED <<pc, cur, outgoing, message_queues, request, stream, prf>>
    BY <1>3 DEF vars
  <2>2. Typed'
    BY <2>1 DEF SessionInv, Typed
  <2>3. \A s \in Session : Gated(s)'
    BY <2>1 DEF SessionInv, Gated, Joined
  <2>4. ASSUME NEW s \in Session, NEW p \in Role PROVE Linked(s, p)' /\ Seeded(s, p)'
    <3>1. Linked(s, p) /\ Seeded(s, p)
      BY DEF SessionInv
    <3>2. Linked(s, p)'
      BY <2>1, <3>1, LinkedStays
    <3> QED
      BY <2>1, <3>1, <3>2 DEF Seeded
  <2> QED
    BY <2>2, <2>3, <2>4 DEF SessionInv
<1> QED
  BY <1>1, <1>2, <1>3 DEF Next

\* The seeds of two neighbours are those of one stream, in every session
\* (setup_replicated_prf).
THEOREM SeedsAlwaysPaired == Spec => []SeedsPaired
<1>1. SessionInv => SeedsPaired
  <2> SUFFICES ASSUME SessionInv, NEW s \in Session, NEW p \in Role,
                      prf[s][p] # <<>>, prf[s][prev(p)] # <<>>
               PROVE  prf[s][p][2] = prf[s][prev(p)][1]
    BY DEF SeedsPaired
  <2>1. prev(p) \in Role
    BY ClientsAre
  <2>2. prf[s][p] = <<Seed(s, p), Seed(s, prev(p))>>
    BY DEF SessionInv, Seeded
  <2>3. prf[s][prev(p)] = <<Seed(s, prev(p)), Seed(s, prev(prev(p)))>>
    BY <2>1 DEF SessionInv, Seeded
  <2> QED
    BY <2>2, <2>3
<1> QED
  BY <1>1, InitSessions, NextSessions, PTL DEF Spec

\* A joined session has all of its streams and queues, in both directions, so
\* that no send or receive of it fails (create_session, send_message).
THEOREM JoinedAlwaysConnected == Spec => []JoinedConnected
<1>1. SessionInv => JoinedConnected
  <2> SUFFICES ASSUME SessionInv, NEW s \in Session, Joined(s), NEW p \in Role
               PROVE  /\ pc[s][p] # "failed"
                      /\ message_queues[p][s] = Role \ {p}
                      /\ \A q \in Role \ {p} : <<s, p, q>> \in outgoing
    BY DEF JoinedConnected
  <2>1. \A r \in Role : Linked(s, r) /\ pc[s][r] \in Connected
    BY DEF SessionInv, Linked, Joined, Connected
  <2>2. \A r \in Role : r \in message_queues[p][s] <=> r # p
    BY <2>1 DEF Linked, Reached, Connected
  <2>3. message_queues[p][s] \subseteq Role
    BY DEF SessionInv, Typed
  <2>4. message_queues[p][s] = Role \ {p}
    BY <2>2, <2>3
  <2>5. \A q \in Role \ {p} : <<s, p, q>> \in outgoing
    BY <2>1 DEF Linked, Reached
  <2> QED
    BY <2>1, <2>4, <2>5 DEF Linked
<1> QED
  BY <1>1, InitSessions, NextSessions, PTL DEF Spec

\* A session in which one party was refused gets no further: that party has
\* opened no stream, and no seed is sent (create_session, join_all).
THEOREM RefusedAlwaysStops == Spec => []RefusedStops
<1>1. SessionInv => RefusedStops
  <2> SUFFICES ASSUME SessionInv, NEW s \in Session, NEW p \in Role, pc[s][p] = "refused", NEW q \in Role
               PROVE  /\ <<s, p, q>> \notin outgoing
                      /\ prf[s][q] = <<>> /\ stream[s][q][next(q)] = <<>>
    BY DEF RefusedStops
  <2>1. ~Joined(s) /\ Linked(s, p) /\ Gated(s)
    BY NotJoined DEF SessionInv
  <2>2. <<s, p, q>> \notin outgoing
    BY <2>1 DEF Linked, Reached, Connected
  <2> QED
    BY <2>1, <2>2 DEF Gated
<1> QED
  BY <1>1, InitSessions, NextSessions, PTL DEF Spec
=============================================================================
