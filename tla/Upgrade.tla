--------------------------------- MODULE Upgrade ---------------------------------
(***************************************************************************)
(* The upgrade of the two-party database to three parties over TCP         *)
(* (iris-mpc-upgrade, bin/tcp_ssl_upgrade_client.rs and                    *)
(* bin/tcp_upgrade_server.rs).  Each of the two clients streams its rows,  *)
(* reshared for the servers, in batches; a server adds the two shares of a *)
(* row, stores the result and acknowledges the batch.                      *)
(*                                                                         *)
(* In each attempt one process may fail, at any point, and any client may  *)
(* time out; this closes its connections, and what was written before      *)
(* still arrives. When an upgrade has ended without success all processes  *)
(* are started again, with fresh randomness, over the tables of the        *)
(* servers as they are. A share is abstracted to the row's id and the      *)
(* attempt whose randomness it was made with.                              *)
(***************************************************************************)
EXTENDS Integers, Sequences, SequencesExt, FiniteSetsExt

CONSTANTS Server,       \* the servers, in the order in which the clients wait for them
          Setups,       \* command lines (start, end, batch size, eye) and databases of the clients
          Eye,          \* the eye the servers were started for
          MaxAttempts   \* bound on the number of times the upgrade is run

Client == {0, 1}
Other(c) == 1 - c

VARIABLES setup,  \* client -> command line, rows with a share, rows with a mask
          att,    \* the number of this attempt
          cl,     \* client -> its state: where it is, rows done, server it waits for
          sv,     \* server -> its state: where it is, batches done, rows to read, batch
          up,     \* client -> server -> what is under way
          down,   \* server -> client -> acknowledgements under way
          db,     \* server -> id -> the row stored, <<>> if none
          fault   \* some process has failed, or was too slow for a timeout

vars == <<setup, att, cl, sv, up, down, db, fault>>

args == setup.args
Ids == 0 .. Max({x.args[c].end : x \in Setups, c \in Client}) - 1
Ack == 1
FinalAck == 42

(* The two streams, in the order of the ids.                               *)
Rows(c) == SelectSeq(setup.shares[c], LAMBDA i : args[c].start <= i /\ i < args[c].end)
Masks(c) == SelectSeq(setup.masks[c], LAMBDA i : args[c].start <= i /\ i < args[c].end)

(* The batch a client sends next, and what it writes for it: the size, then*)
(* a share per row, followed by a share of the mask from party 0.          *)
Batch(c) == SubSeq(Rows(c), cl[c].pos + 1, Min({cl[c].pos + args[c].batch_size, Len(Rows(c))}))
get_shares(c, batch) ==
    IF c = 1 THEN [i \in 1 .. Len(batch) |-> <<"iris", batch[i]>>]
    ELSE [j \in 1 .. 2 * Len(batch) |-> <<IF j % 2 = 1 THEN "iris" ELSE "mask", batch[(j + 1) \div 2]>>]
Message(c) == <<<<"size", Len(Batch(c))>>>> \o get_shares(c, Batch(c))

(* The share stream and the mask stream are read in step.                  *)
InSync(c) ==
    \A i \in cl[c].pos + 1 .. cl[c].pos + Len(Batch(c)) : i <= Len(Masks(c)) /\ Rows(c)[i] = Masks(c)[i]

NewClient == [st |-> "send", pos |-> 0, wait |-> 1]
NewServer == [st |-> "hello", num |-> 0, left |-> 0, batch |-> <<>>]

TypeOK ==
    /\ att \in 1 .. MaxAttempts /\ fault \in BOOLEAN
    /\ \A c \in Client : /\ cl[c].st \in {"send", "ack", "final", "ok", "err"}
                         /\ cl[c].pos \in 0 .. Len(Rows(c))
                         /\ cl[c].wait \in 1 .. Len(Server)
    /\ \A s \in ToSet(Server) :
          /\ sv[s].st \in {"hello", "size", "rows", "store", "acks", "final", "ok", "err"}
          /\ Len(sv[s].batch) + sv[s].left <= args[0].batch_size
          /\ \A c \in Client : Len(down[s][c]) <= 2

Init ==
    /\ setup \in Setups
    /\ att = 1 /\ fault = FALSE
    /\ cl = [c \in Client |-> NewClient]
    /\ sv = [s \in ToSet(Server) |-> NewServer]
    /\ up = [c \in Client |-> [s \in ToSet(Server) |-> <<>>]]
    /\ down = [s \in ToSet(Server) |-> [c \in Client |-> <<>>]]
    /\ db = [s \in ToSet(Server) |-> [i \in Ids |-> <<>>]]

-----------------------------------------------------------------------------
ClientEnded(c) == cl[c].st \in {"ok", "err"}
ServerEnded(s) == sv[s].st \in {"ok", "err"}
Closed(c, s) == ClientEnded(c) /\ up[c][s] = <<>>

(* A client takes its next batch from the two streams and sends it, or goes*)
(* on to the final acknowledgements when the streams have ended.           *)
send_batch(c) ==
    /\ cl[c].st = "send"
    /\ IF InSync(c) /\ Batch(c) # <<>>
         THEN up' = [up EXCEPT ![c] = [s \in DOMAIN @ |-> @[s] \o Message(c)]]
         ELSE UNCHANGED up
    /\ cl' = [cl EXCEPT ![c].st = IF ~InSync(c) THEN "err" ELSE IF Batch(c) # <<>> THEN "ack" ELSE "final"]
    /\ UNCHANGED <<setup, att, sv, down, db, fault>>

(* An acknowledgement of either kind from the server it waits for; after   *)
(* the last server it goes on with the next batch, or is done.             *)
wait_for_ack(c) ==
    LET s == Server[cl[c].wait] last == cl[c].wait = Len(Server) IN
    /\ cl[c].st \in {"ack", "final"}
    /\ down[s][c] # <<>>
    /\ Head(down[s][c]) \in {Ack, FinalAck}
    /\ down' = [down EXCEPT ![s][c] = Tail(@)]
    /\ cl' = [cl EXCEPT ![c] =
                IF ~last THEN [@ EXCEPT !.wait = @ + 1]
                ELSE IF @.st = "ack" THEN [st |-> "send", pos |-> @.pos + Len(Batch(c)), wait |-> 1]
                ELSE [@ EXCEPT !.st = "ok"]]
    /\ UNCHANGED <<setup, att, sv, up, db, fault>>

(* The server it waits for has closed the connection.                      *)
ack_eof(c) ==
    /\ cl[c].st \in {"ack", "final"}
    /\ ServerEnded(Server[cl[c].wait]) /\ down[Server[cl[c].wait]][c] = <<>>
    /\ cl' = [cl EXCEPT ![c].st = "err"]
    /\ UNCHANGED <<setup, att, sv, up, down, db, fault>>

(* The acknowledgement does not come within the timeout: because something *)
(* is too slow, or because everyone is waiting for someone else.           *)
Stalled ==
    /\ \A c \in Client : cl[c].st # "send"
    /\ \A s \in ToSet(Server) :
          /\ sv[s].st = "size" /\ \E c \in Client : up[c][s] = <<>> /\ ~ClientEnded(c)
          /\ \A c \in Client : down[s][c] = <<>>

\* Mutant: the final acknowledgements are waited for without a timeout.
ack_timeout_batch(c) ==
    /\ cl[c].st = "ack"
    /\ cl' = [cl EXCEPT ![c].st = "err"] /\ fault' = (fault \/ ~Stalled)
    /\ UNCHANGED <<setup, att, sv, up, down, db>>

ack_timeout(c) ==
    /\ cl[c].st \in {"ack", "final"}
    /\ cl' = [cl EXCEPT ![c].st = "err"] /\ fault' = (fault \/ ~Stalled)
    /\ UNCHANGED <<setup, att, sv, up, down, db>>

(* A client fails while it writes a batch: each server gets a beginning.   *)
client_fails(c) ==
    /\ cl[c].st = "send" /\ InSync(c) /\ Batch(c) # <<>> /\ ~fault
    /\ \E k \in [ToSet(Server) -> 0 .. Len(Message(c)) - 1] :
          up' = [up EXCEPT ![c] = [s \in DOMAIN @ |-> @[s] \o SubSeq(Message(c), 1, k[s])]]
    /\ cl' = [cl EXCEPT ![c].st = "err"] /\ fault' = TRUE
    /\ UNCHANGED <<setup, att, sv, down, db>>

-----------------------------------------------------------------------------
Stop(s) == sv' = [sv EXCEPT ![s].st = "err"]
Pop(s, n) == up' = [c \in Client |-> [up[c] EXCEPT ![s] = SubSeq(@, n[c] + 1, Len(@))]]
Ready(c, s) == up[c][s] # <<>> \/ Closed(c, s)

(* The server compares what the two clients announce with each other and   *)
(* the eye with its own.                                                   *)

NumBatches == (args[0].end - args[0].start) \div args[0].batch_size
hello(s) ==
    /\ sv[s].st = "hello"
    /\ sv' = [sv EXCEPT ![s].st = IF args[0] = args[1] /\ args[0].eye = Eye THEN "size" ELSE "err"]
    /\ UNCHANGED <<setup, att, cl, up, down, db, fault>>

(* The size of the next batch, from both.                                  *)
read_size(s) ==
    /\ sv[s].st = "size"
    /\ Closed(0, s) \/ (up[0][s] # <<>> /\ Ready(1, s))
    /\ IF \E c \in Client : up[c][s] = <<>> THEN Stop(s) /\ UNCHANGED up
       ELSE /\ Pop(s, [c \in Client |-> 1])
            /\ IF up[0][s][1] # up[1][s][1] THEN Stop(s)
               ELSE sv' = [sv EXCEPT ![s].st = "rows", ![s].left = up[0][s][1][2]]
    /\ UNCHANGED <<setup, att, cl, down, db, fault>>

(* The ids of the next row's two shares and of its mask.                   *)
RowIds(s) == <<up[0][s][1][2], up[1][s][1][2], up[0][s][2][2]>>

SameIds(row) == row[1] = row[2] /\ row[1] = row[3]

(* The next row from both, then its mask.  A connection that has ended     *)
(* ends the batch, one that ends before the mask ends the server, and so   *)
(* do ids that differ.                                                     *)
recv(s) ==
    LET gone == \E c \in Client : up[c][s] = <<>>
        nomask == Len(up[0][s]) = 1
    IN  /\ sv[s].st = "rows" /\ sv[s].left > 0 /\ \A c \in Client : Ready(c, s)
        /\ ~gone /\ nomask => ClientEnded(0)
        /\ IF gone THEN /\ Pop(s, [c \in Client |-> IF up[c][s] = <<>> THEN 0 ELSE 1])
                        /\ sv' = [sv EXCEPT ![s].st = "store"]
           ELSE IF nomask THEN Pop(s, [c \in Client |-> 1]) /\ Stop(s)
           ELSE /\ Pop(s, [c \in Client |-> IF c = 0 THEN 2 ELSE 1])
                /\ IF ~SameIds(RowIds(s)) THEN Stop(s)
                   ELSE sv' = [sv EXCEPT ![s].left = @ - 1, ![s].batch = Append(@, RowIds(s))]
        /\ UNCHANGED <<setup, att, cl, down, db, fault>>

recv_done(s) ==
    /\ sv[s].st = "rows" /\ sv[s].left = 0
    /\ sv' = [sv EXCEPT ![s].st = "store"]
    /\ UNCHANGED <<setup, att, cl, up, down, db, fault>>

\* Mutant: a row that is there is left alone.
insert_or_update_once(s, row) == [db EXCEPT ![s][row[1]] = IF @ = <<>> THEN <<row, att>> ELSE @]

insert_or_update(s, row) == [db EXCEPT ![s][row[1]] = <<row, att>>]

(* finalize of the next row of the batch: the two shares are added and the *)
(* row is inserted or updated, committed.                                  *)
finalize(s) ==
    /\ sv[s].st = "store" /\ sv[s].batch # <<>>
    /\ LET row == Head(sv[s].batch) IN
       IF SameIds(row) THEN db' = insert_or_update(s, row) /\ sv' = [sv EXCEPT ![s].batch = Tail(@)]
       ELSE Stop(s) /\ UNCHANGED db
    /\ UNCHANGED <<setup, att, cl, up, down, fault>>

(* Writing a byte to both clients, first then second: a client that has    *)
(* gone may make the write fail, and then the second gets nothing.         *)
WriteBoth(s, first, byte, st) ==
    \/ /\ down' = [down EXCEPT ![s] = [c \in Client |-> Append(@[c], byte)]]
       /\ sv' = [sv EXCEPT ![s].st = st, ![s].left = 0, ![s].num = @ + 1]
    \/ ClientEnded(first) /\ Stop(s) /\ UNCHANGED down
    \/ ClientEnded(Other(first)) /\ Stop(s) /\ down' = [down EXCEPT ![s][first] = Append(@, byte)]

send_ack(s) ==
    /\ sv[s].st = "store" /\ sv[s].batch = <<>>
    /\ WriteBoth(s, 0, Ack, IF sv[s].num = NumBatches THEN "final" ELSE "size")
    /\ UNCHANGED <<setup, att, cl, up, db, fault>>

send_final_ack(s) ==
    /\ sv[s].st = "final"
    /\ WriteBoth(s, 1, FinalAck, "ok")
    /\ UNCHANGED <<setup, att, cl, up, db, fault>>

(* A server fails: between two rows, or with an error of its database.     *)
server_fails(s) ==
    /\ ~ServerEnded(s) /\ ~fault
    /\ Stop(s) /\ fault' = TRUE
    /\ UNCHANGED <<setup, att, cl, up, down, db>>

-----------------------------------------------------------------------------
Ended == (\A c \in Client : ClientEnded(c)) /\ \A s \in ToSet(Server) : ServerEnded(s)
Success == (\A c \in Client : cl[c].st = "ok") /\ \A s \in ToSet(Server) : sv[s].st = "ok"

(* The upgrade is run again.                                               *)
rerun ==
    /\ Ended /\ ~Success /\ att < MaxAttempts
    /\ att' = att + 1 /\ fault' = FALSE
    /\ cl' = [c \in Client |-> NewClient]
    /\ sv' = [s \in ToSet(Server) |-> NewServer]
    /\ up' = [c \in Client |-> [s \in ToSet(Server) |-> <<>>]]
    /\ down' = [s \in ToSet(Server) |-> [c \in Client |-> <<>>]]
    /\ UNCHANGED <<setup, db>>

ClientStep(c) == send_batch(c) \/ wait_for_ack(c) \/ ack_eof(c)
ServerStep(s) ==
    hello(s) \/ read_size(s) \/ recv(s) \/ recv_done(s) \/ finalize(s) \/ send_ack(s) \/ send_final_ack(s)

Next ==
    \/ \E c \in Client : ClientStep(c) \/ ack_timeout(c) \/ client_fails(c)
    \/ \E s \in ToSet(Server) : ServerStep(s) \/ server_fails(s)
    \/ rerun

(* Fairness: a process that can go on does, and a timeout fires.           *)
Spec ==
    /\ Init /\ [][Next]_vars
    /\ \A c \in Client : WF_vars(ClientStep(c)) /\ WF_vars(ack_timeout(c))
    /\ \A s \in ToSet(Server) : WF_vars(ServerStep(s))

-----------------------------------------------------------------------------
(* A stored row was made of shares and a mask of that row: rows of         *)
(* databases that are out of step are never added to each other.           *)
RowsMatch ==
    \A s \in ToSet(Server), i \in Ids : db[s][i] # <<>> => db[s][i][1] = <<i, i, i>>

(* When both clients report success, every row of the range is stored on   *)
(* every server, from the same attempt on all of them, whatever earlier    *)
(* attempts left behind.                                                   *)
SuccessMeansStored ==
    (\A c \in Client : cl[c].st = "ok") =>
       \A s \in ToSet(Server), i \in ToSet(Rows(0)) : db[s][i] = <<<<i, i, i>>, att>>

(* A client clears a batch only when every server has stored its rows in   *)
(* this attempt, unless the other client has failed.                       *)
AckMeansStored ==
    \A c \in Client : cl[Other(c)].st # "err" =>
       \A s \in ToSet(Server), i \in 1 .. cl[c].pos :
          db[s][Rows(c)[i]] = <<<<Rows(c)[i], Rows(c)[i], Rows(c)[i]>>, att>>

(* An attempt over databases that agree, in which nothing fails, succeeds, *)
(* provided the clients send the number of batches the servers count on:   *)
(* one more than the range holds full ones.                                *)
Fits ==
    /\ args[0] = args[1] /\ args[0].eye = Eye /\ Rows(0) = Rows(1) /\ \A c \in Client : Rows(c) = Masks(c)
    /\ (Len(Rows(0)) + args[0].batch_size - 1) \div args[0].batch_size
          = (args[0].end - args[0].start) \div args[0].batch_size + 1
Completes == (Fits /\ ~fault) ~> (Success \/ fault)

(* No attempt waits for ever: whatever fails, every process ends.          *)
AttemptsEnd == []<>Ended

(* Rows are put together right, and neither an acknowledgement nor the     *)
(* reported success promises a row that is not stored.                     *)
AcksAreTrue == RowsMatch /\ AckMeansStored /\ SuccessMeansStored

(* Every attempt ends, and with success if nothing fails.                  *)
AttemptsComplete == AttemptsEnd /\ Completes
===================================================================================
