------------------------- MODULE ChunkedSearchProofs -------------------------
(***************************************************************************)
(* The search of a shard is free of races and right for every size of the  *)
(* shard and of its chunks, every set of queries and of matches.           *)
(*                                                                         *)
(* A stream executes a fixed program, so its queue is determined by the    *)
(* number of commands it has executed (QueuesInv).  Each of the three      *)
(* events is a token that the two streams hand to each other: a stream     *)
(* that has waited for it in chunk k finds it recorded for chunk k - 1 and *)
(* for no later one until it records it itself (EventsInv).  The chunks of *)
(* the two streams are of different parity, so both never hold one token.  *)
(*                                                                         *)
(* So a stream finds in the buffers what it has put there (DataInv), the   *)
(* chunks it has opened have their matches in the bitmap and nothing else  *)
(* (BitsInv), and at the end every chunk with entries has been opened.     *)
(***************************************************************************)
EXTENDS ChunkedSearch, TLAPS

\* The commands of a stream are numbered.  Command y >= 1 of stream s is step
\* Stage(y) of chunk ChunkOf(s, y); stream 0 begins at -3 with First.
ChunkOf(s, y) == IF y <= 0 THEN s ELSE s + 2 * (y \div 12)
Stage(y) == IF y <= 0 THEN 0 ELSE y % 12

\* Where an event is awaited and where it is recorded: what the event protects
\* is used between the two.
AwaitAt(e) == IF e = "dot" THEN 1 ELSE IF e = "exchange" THEN 3 ELSE 7
RecordAt(e) == IF e = "dot" THEN 5 ELSE IF e = "exchange" THEN 9 ELSE 11
FirstAt(e) == IF e = "dot" THEN -2 ELSE IF e = "exchange" THEN -1 ELSE 0

Awaits(e, n) == [op |-> "await", event |-> e, number |-> n]
Records(e, n) == [op |-> "record", event |-> e, number |-> n]

StepOf(k, j) ==
    CASE j = 0 -> Kernel("prefetch", k)
      [] j = 1 -> Awaits("dot", k + 1)
      [] j = 2 -> Kernel("dot", k)
      [] j = 3 -> Awaits("exchange", k + 1)
      [] j = 4 -> Kernel("reduce", k)
      [] j = 5 -> Records("dot", k + 2)
      [] j = 6 -> Kernel("reshare", k)
      [] j = 7 -> Awaits("phase2", k + 1)
      [] j = 8 -> Kernel("threshold", k)
      [] j = 9 -> Records("exchange", k + 2)
      [] j = 10 -> Kernel("open", k)
      [] OTHER -> Records("phase2", k + 2)

Command(s, y) ==
    IF s = 0 /\ y <= 0
    THEN CASE y = -3 -> Kernel("prefetch", 0)
           [] y = -2 -> Records("dot", 1)
           [] y = -1 -> Records("exchange", 1)
           [] OTHER -> Records("phase2", 1)
    ELSE StepOf(ChunkOf(s, y), Stage(y))

Kernels == {"prefetch", "dot", "reduce", "reshare", "threshold", "open"}
Commands == [op : Kernels, chunk : Nat] \cup [op : {"await", "record"}, event : Event, number : Nat]

Started == recorded["dot"] > 0

\* The number of the command that is issued next on stream s, and of the one
\* that is executed next.
Issued(s) ==
    IF ~Started THEN (IF s = 0 THEN -3 ELSE 0)
    ELSE IF s = chunk % 2 THEN 6 * (chunk - s) + 1 ELSE 6 * (chunk + 1 - s)

At(s) == Issued(s) - Len(queue[s])

AtChunk(s) == ChunkOf(s, At(s))
AtStage(s) == Stage(At(s))

\* The host's counts, and the queues: what is left of the program.
QueuesInv ==
    /\ chunk \in Nat /\ recorded \in [Event -> Nat]
    /\ queue \in [Stream -> Seq(Commands)] /\ running \in [Stream -> BOOLEAN]
    /\ \A e \in Event : recorded[e] = IF Started THEN chunk + 1 ELSE 0
    /\ ~Started => chunk = 0
    /\ \A s \in Stream : /\ At(s) >= (IF s = 0 THEN -3 ELSE 0)
                         /\ \A i \in DOMAIN queue[s] : queue[s][i] = Command(s, At(s) + i - 1)
                         /\ running[s] => queue[s] # <<>> /\ queue[s][1].op \notin {"await", "record"}

Inside(s, e) == AwaitAt(e) < AtStage(s) /\ AtStage(s) <= RecordAt(e)
NextRecord(s, e) == IF AtStage(s) <= RecordAt(e) THEN AtChunk(s) ELSE AtChunk(s) + 2

\* An event is recorded chunk after chunk, and a stream that has not yet
\* recorded it for the chunk it is at holds back the other one.
EventsInv ==
    /\ completed \in [Event -> Nat]
    /\ \A e \in Event :
        /\ At(0) <= FirstAt(e) => completed[e] = 0
        /\ \A s \in Stream : /\ completed[e] <= NextRecord(s, e) + 1
                             /\ Inside(s, e) => completed[e] = AtChunk(s) + 1

-----------------------------------------------------------------------------
(* The program                                                             *)

\* A number and the one after it are of different parity.
LEMMA Parity ==
    ASSUME NEW k \in Nat
    PROVE  /\ k % 2 = 0 \/ k % 2 = 1
           /\ (k + 1) % 2 = 1 - (k % 2)
           /\ \E m \in Nat : k = (k % 2) + 2 * m
           /\ \E m \in Nat : k + 1 = 1 - (k % 2) + 2 * m
<1> DEFINE m == k \div 2
<1>1. m \in Nat /\ k = (k % 2) + 2 * m /\ (k % 2 = 0 \/ k % 2 = 1) /\ (k + 1) % 2 = 1 - (k % 2)
  OBVIOUS
<1> HIDE DEF m
<1>2. \E n \in Nat : k + 1 = 1 - (k % 2) + 2 * n
  <2>1. CASE k % 2 = 0
    BY <1>1, <2>1
  <2>2. CASE k % 2 = 1
    <3>1. k + 1 = 1 - (k % 2) + 2 * (m + 1) /\ m + 1 \in Nat
      BY <1>1, <2>2
    <3> QED
      BY <3>1
  <2> QED
    BY <1>1, <2>1, <2>2
<1> QED
  BY <1>1, <1>2

\* A chunk or the one after it is of a given stream, according to its parity.
LEMMA Halves ==
    ASSUME NEW s \in Stream, NEW k \in Nat
    PROVE  /\ s = k % 2 => \E m \in Nat : k = s + 2 * m
           /\ s # k % 2 => \E m \in Nat : k + 1 = s + 2 * m
<1>1. s # k % 2 => s = 1 - (k % 2)
  BY Parity DEF Stream
<1> QED
  BY <1>1, Parity

\* The stages of a chunk follow each other, then comes the stream's next chunk.
LEMMA Stages ==
    ASSUME NEW s \in Stream, NEW y \in Int
    PROVE  /\ Stage(y) \in 0 .. 11 /\ ChunkOf(s, y) \in Nat /\ ChunkOf(s, y) % 2 = s
           /\ y < 0 => Stage(y + 1) = 0 /\ Stage(y) = 0 /\ ChunkOf(s, y + 1) = s /\ ChunkOf(s, y) = s
           /\ y >= 0 /\ Stage(y) < 11 => Stage(y + 1) = Stage(y) + 1 /\ ChunkOf(s, y + 1) = ChunkOf(s, y)
           /\ y >= 0 /\ Stage(y) = 11 => Stage(y + 1) = 0 /\ ChunkOf(s, y + 1) = ChunkOf(s, y) + 2
<1>1. s = 0 \/ s = 1
  BY DEF Stream
<1>2. CASE y <= 0
  BY <1>1, <1>2 DEF Stage, ChunkOf
<1>3. CASE y > 0
  <2>1. PICK m \in Nat, j \in 0 .. 11 : y = 12 * m + j
    <3>1. y \div 12 \in Nat /\ y % 12 \in 0 .. 11 /\ y = 12 * (y \div 12) + (y % 12)
      BY <1>3
    <3> QED
      BY <3>1
  <2>2. y \div 12 = m /\ y % 12 = j
    BY <2>1
  <2>3. j < 11 => (y + 1) \div 12 = m /\ (y + 1) % 12 = j + 1
    BY <2>1
  <2>4. j = 11 => (y + 1) \div 12 = m + 1 /\ (y + 1) % 12 = 0
    BY <2>1
  <2>5. (s + 2 * m) % 2 = s
    BY <1>1, <2>1
  <2> QED
    BY <1>1, <1>3, <2>1, <2>2, <2>3, <2>4, <2>5 DEF Stage, ChunkOf
<1> QED
  BY <1>2, <1>3

\* The chunk and the stage tell the number of a command.
LEMMA Numbers ==
    ASSUME NEW s \in Stream, NEW m \in Nat, NEW j \in 0 .. 11
    PROVE  Stage(12 * m + j) = j /\ ChunkOf(s, 12 * m + j) = s + 2 * m
<1>1. s = 0 \/ s = 1
  BY DEF Stream
<1>2. (12 * m + j) \div 12 = m /\ (12 * m + j) % 12 = j
  OBVIOUS
<1>3. 12 * m + j <= 0 => m = 0 /\ j = 0
  OBVIOUS
<1> QED
  BY <1>1, <1>2, <1>3 DEF Stage, ChunkOf

\* Command c is what is done at stage j of chunk k.
IsStep(c, k, j) ==
    /\ c \in Commands
    /\ c.op = "await" => c.event \in Event /\ j = AwaitAt(c.event) /\ c.number = k + 1
    /\ c.op = "record" => c.event \in Event /\ j = RecordAt(c.event) /\ c.number = k + 2
    /\ c.op \notin {"await", "record"} => c.chunk = k /\ c.op \in Kernels
    /\ (c.op = "prefetch" <=> j = 0) /\ (c.op = "dot" <=> j = 2) /\ (c.op = "reduce" <=> j = 4)
    /\ (c.op = "reshare" <=> j = 6) /\ (c.op = "threshold" <=> j = 8) /\ (c.op = "open" <=> j = 10)

\* StepOf gives the command of every one of the twelve stages of a chunk.
LEMMA StepOps == ASSUME NEW k \in Nat, NEW j \in 0 .. 11 PROVE IsStep(StepOf(k, j), k, j)
<1>1. j = 0 \/ j = 1 \/ j = 2 \/ j = 3 \/ j = 4 \/ j = 5 \/ j = 6 \/ j = 7 \/ j = 8 \/ j = 9 \/ j = 10 \/ j = 11
  OBVIOUS
<1> USE DEF IsStep, StepOf, Kernel, Awaits, Records, Commands, Kernels, Event, AwaitAt, RecordAt
<1>2. CASE j = 0   BY <1>2
<1>3. CASE j = 1   BY <1>3
<1>4. CASE j = 2   BY <1>4
<1>5. CASE j = 3   BY <1>5
<1>6. CASE j = 4   BY <1>6
<1>7. CASE j = 5   BY <1>7
<1>8. CASE j = 6   BY <1>8
<1>9. CASE j = 7   BY <1>9
<1>10. CASE j = 8   BY <1>10
<1>11. CASE j = 9   BY <1>11
<1>12. CASE j = 10   BY <1>12
<1>13. CASE j = 11   BY <1>13
<1> HIDE DEF IsStep, StepOf, Kernel, Awaits, Records, Commands, Kernels, Event, AwaitAt, RecordAt
<1> QED
  BY <1>1, <1>2, <1>3, <1>4, <1>5, <1>6, <1>7, <1>8, <1>9, <1>10, <1>11, <1>12, <1>13

\* And with the commands before the loop.
LEMMA CommandOps ==
    ASSUME NEW s \in Stream, NEW y \in Int, y >= (IF s = 0 THEN -3 ELSE 0), NEW c, c = Command(s, y)
    PROVE  /\ c \in Commands
           /\ c.op = "await" => /\ c.event \in Event /\ y >= 1 /\ Stage(y) = AwaitAt(c.event)
                                /\ c.number = ChunkOf(s, y) + 1
           /\ c.op = "record" => /\ c.event \in Event
                                 /\ \/ y >= 1 /\ Stage(y) = RecordAt(c.event) /\ c.number = ChunkOf(s, y) + 2
                                    \/ s = 0 /\ y = FirstAt(c.event) /\ c.number = 1
           /\ c.op \notin {"await", "record"} => c.chunk = ChunkOf(s, y) /\ c.op \in Kernels
           /\ c.op = "prefetch" => Stage(y) = 0 /\ (s = 0 => y = -3 \/ y >= 1)
           /\ c.op = "dot" => y >= 1 /\ Stage(y) = 2
           /\ c.op = "reduce" => y >= 1 /\ Stage(y) = 4
           /\ c.op = "reshare" => y >= 1 /\ Stage(y) = 6
           /\ c.op = "threshold" => y >= 1 /\ Stage(y) = 8
           /\ c.op = "open" => y >= 1 /\ Stage(y) = 10
<1>1. CASE s = 0 /\ y <= 0
  <2>1. y = -3 \/ y = -2 \/ y = -1 \/ y = 0
    BY <1>1
  <2>2. Stage(y) = 0 /\ ChunkOf(s, y) = 0
    BY <1>1 DEF Stage, ChunkOf
  <2> USE DEF Command, Kernel, Records, Commands, Kernels, Event, FirstAt
  <2>3. CASE y = -3   BY <1>1, <2>2, <2>3
  <2>4. CASE y = -2   BY <1>1, <2>2, <2>4
  <2>5. CASE y = -1   BY <1>1, <2>2, <2>5
  <2>6. CASE y = 0   BY <1>1, <2>2, <2>6
  <2> QED
    BY <2>1, <2>3, <2>4, <2>5, <2>6
<1>2. CASE ~(s = 0 /\ y <= 0)
  <2>1. c = StepOf(ChunkOf(s, y), Stage(y))
    BY <1>2 DEF Command
  <2>2. Stage(y) \in 0 .. 11 /\ ChunkOf(s, y) \in Nat
    BY Stages
  <2>3. y >= 1 \/ (s = 1 /\ y = 0)
    BY <1>2 DEF Stream
  <2>4. y = 0 => Stage(y) = 0
    BY DEF Stage
  <2>5. \A e \in Event : AwaitAt(e) # 0 /\ RecordAt(e) # 0
    BY DEF AwaitAt, RecordAt
  <2>6. /\ c \in Commands
        /\ c.op = "await" => c.event \in Event /\ Stage(y) = AwaitAt(c.event) /\ c.number = ChunkOf(s, y) + 1
        /\ c.op = "record" => c.event \in Event /\ Stage(y) = RecordAt(c.event) /\ c.number = ChunkOf(s, y) + 2
        /\ c.op \notin {"await", "record"} => c.chunk = ChunkOf(s, y) /\ c.op \in Kernels
        /\ (c.op = "prefetch" <=> Stage(y) = 0) /\ (c.op = "dot" <=> Stage(y) = 2)
        /\ (c.op = "reduce" <=> Stage(y) = 4) /\ (c.op = "reshare" <=> Stage(y) = 6)
        /\ (c.op = "threshold" <=> Stage(y) = 8) /\ (c.op = "open" <=> Stage(y) = 10)
    <3>1. IsStep(c, ChunkOf(s, y), Stage(y))
      BY <2>1, <2>2, StepOps
    <3> QED
      BY <3>1 DEF IsStep
  <2> HIDE DEF Commands
  <2> QED
    BY <1>2, <2>3, <2>4, <2>5, <2>6
<1> QED
  BY <1>1, <1>2

-----------------------------------------------------------------------------
(* The queues                                                              *)

\* Numbers of commands are numbers.
LEMMA AtTyped == ASSUME QueuesInv PROVE \A s \in Stream : At(s) \in Int /\ Issued(s) \in Int /\ Len(queue[s]) \in Nat
<1> SUFFICES ASSUME NEW s \in Stream PROVE At(s) \in Int /\ Issued(s) \in Int /\ Len(queue[s]) \in Nat
  OBVIOUS
<1>1. chunk \in Nat /\ (s = 0 \/ s = 1) /\ Len(queue[s]) \in Nat
  BY DEF QueuesInv, Stream
<1>2. Issued(s) \in Int
  BY <1>1 DEF Issued
<1> QED
  BY <1>1, <1>2 DEF At

\* The head of a queue.
LEMMA HeadCommand ==
    ASSUME QueuesInv, NEW s \in Stream, queue[s] # <<>>
    PROVE  Head(queue[s]) = Command(s, At(s)) /\ Head(queue[s]) = queue[s][1]
<1>1. queue[s] \in Seq(Commands)
  BY DEF QueuesInv
<1>2. Head(queue[s]) = queue[s][1] /\ 1 \in DOMAIN queue[s]
  BY <1>1
<1>3. At(s) \in Int
  BY AtTyped
<1> QED
  BY <1>2, <1>3 DEF QueuesInv

\* The command at the head of a queue, and where its stream is.
LEMMA HeadOps ==
    ASSUME QueuesInv, NEW s \in Stream, queue[s] # <<>>, NEW c, c = Head(queue[s])
    PROVE  /\ c \in Commands
           /\ c.op = "await" => /\ c.event \in Event /\ At(s) >= 1 /\ AtStage(s) = AwaitAt(c.event)
                                /\ c.number = AtChunk(s) + 1
           /\ c.op = "record" => /\ c.event \in Event
                                 /\ \/ At(s) >= 1 /\ AtStage(s) = RecordAt(c.event) /\ c.number = AtChunk(s) + 2
                                    \/ s = 0 /\ At(s) = FirstAt(c.event) /\ c.number = 1
           /\ c.op \notin {"await", "record"} => c.chunk = AtChunk(s) /\ c.op \in Kernels
           /\ c.op = "prefetch" => AtStage(s) = 0 /\ (s = 0 => At(s) = -3 \/ At(s) >= 1)
           /\ c.op = "dot" => At(s) >= 1 /\ AtStage(s) = 2
           /\ c.op = "reduce" => At(s) >= 1 /\ AtStage(s) = 4
           /\ c.op = "reshare" => At(s) >= 1 /\ AtStage(s) = 6
           /\ c.op = "threshold" => At(s) >= 1 /\ AtStage(s) = 8
           /\ c.op = "open" => At(s) >= 1 /\ AtStage(s) = 10
<1>1. c = Command(s, At(s))
  BY HeadCommand
<1>2. PICK y \in Int : y = At(s) /\ y >= (IF s = 0 THEN -3 ELSE 0)
  BY AtTyped DEF QueuesInv
<1>3. c = Command(s, y) /\ AtStage(s) = Stage(y) /\ AtChunk(s) = ChunkOf(s, y)
  BY <1>1, <1>2 DEF AtStage, AtChunk
<1> QED
  BY <1>2, <1>3, CommandOps

\* Stream s goes on to its next command.
Moves(s) ==
    /\ At(s)' = At(s) + 1 /\ At(s) \in Int
    /\ At(s) < 0 => AtStage(s)' = 0 /\ AtStage(s) = 0 /\ AtChunk(s)' = AtChunk(s)
    /\ At(s) >= 0 /\ AtStage(s) < 11 => AtStage(s)' = AtStage(s) + 1 /\ AtChunk(s)' = AtChunk(s)
    /\ At(s) >= 0 /\ AtStage(s) = 11 => AtStage(s)' = 0 /\ AtChunk(s)' = AtChunk(s) + 2
    /\ \A t \in Stream : /\ AtStage(t) \in 0 .. 11 /\ AtChunk(t) \in Nat /\ AtChunk(t) % 2 = t
                         /\ t # s => /\ At(t)' = At(t) /\ queue'[t] = queue[t]
                                     /\ AtStage(t)' = AtStage(t) /\ AtChunk(t)' = AtChunk(t)

\* Where a stream is after a step of its own or of the other one.
LEMMA AtNext ==
    ASSUME QueuesInv, NEW s \in Stream, queue[s] # <<>>, queue' = [queue EXCEPT ![s] = Tail(@)],
           chunk' = chunk, recorded' = recorded
    PROVE  Moves(s)
<1>1. \A t \in Stream : Issued(t)' = Issued(t) /\ At(t) \in Int /\ Issued(t) \in Int /\ Len(queue[t]) \in Nat
  BY AtTyped DEF Issued, Started
<1>2. queue \in [Stream -> Seq(Commands)]
  BY DEF QueuesInv
<1>3. queue'[s] = Tail(queue[s]) /\ \A t \in Stream \ {s} : queue'[t] = queue[t]
  BY <1>2
<1>4. Len(queue'[s]) = Len(queue[s]) - 1
  BY <1>2, <1>3
<1>5. At(s)' = At(s) + 1
  BY <1>1, <1>4 DEF At
<1>6. \A t \in Stream \ {s} : At(t)' = At(t)
  BY <1>1, <1>3 DEF At
<1>7. PICK y \in Int : y = At(s)
  BY <1>1
<1>8. /\ AtStage(s) = Stage(y) /\ AtChunk(s) = ChunkOf(s, y)
      /\ AtStage(s)' = Stage(y + 1) /\ AtChunk(s)' = ChunkOf(s, y + 1)
  BY <1>5, <1>7 DEF AtStage, AtChunk
<1>9. ASSUME NEW t \in Stream PROVE AtStage(t) \in 0 .. 11 /\ AtChunk(t) \in Nat /\ AtChunk(t) % 2 = t
  BY <1>1, Stages DEF AtStage, AtChunk
<1>10. \A t \in Stream \ {s} : AtStage(t)' = AtStage(t) /\ AtChunk(t)' = AtChunk(t)
  BY <1>6 DEF AtStage, AtChunk
<1>11. /\ y < 0 => Stage(y + 1) = 0 /\ Stage(y) = 0 /\ ChunkOf(s, y + 1) = s /\ ChunkOf(s, y) = s
       /\ y >= 0 /\ Stage(y) < 11 => Stage(y + 1) = Stage(y) + 1 /\ ChunkOf(s, y + 1) = ChunkOf(s, y)
       /\ y >= 0 /\ Stage(y) = 11 => Stage(y + 1) = 0 /\ ChunkOf(s, y + 1) = ChunkOf(s, y) + 2
  BY Stages, Zenon
<1> QED
  BY <1>1, <1>3, <1>5, <1>6, <1>7, <1>8, <1>9, <1>10, <1>11 DEF Moves

\* A command that is executed leaves the rest of the program.
LEMMA PopQueues ==
    ASSUME QueuesInv, NEW s \in Stream, queue[s] # <<>>, queue' = [queue EXCEPT ![s] = Tail(@)],
           chunk' = chunk, recorded' = recorded, running' \in [Stream -> BOOLEAN],
           ~running'[s], \A t \in Stream \ {s} : running'[t] = running[t]
    PROVE  QueuesInv'
<1>1. queue \in [Stream -> Seq(Commands)] /\ queue[s] \in Seq(Commands)
  BY DEF QueuesInv
<1>2. queue' \in [Stream -> Seq(Commands)] /\ queue'[s] = Tail(queue[s])
  BY <1>1
<1>3. /\ At(s)' = At(s) + 1 /\ At(s) \in Int
      /\ \A t \in Stream : t # s => At(t)' = At(t) /\ queue'[t] = queue[t]
  <2>1. Moves(s)
    BY AtNext, Zenon
  <2> QED
    BY <2>1 DEF Moves
<1>4. ASSUME NEW i \in DOMAIN queue'[s] PROVE queue'[s][i] = Command(s, At(s)' + i - 1)
  <2>1. i \in Nat /\ i >= 1 /\ i + 1 \in DOMAIN queue[s] /\ queue'[s][i] = queue[s][i + 1]
    BY <1>1, <1>2
  <2>2. queue[s][i + 1] = Command(s, At(s) + (i + 1) - 1)
    BY <2>1 DEF QueuesInv
  <2>3. At(s) + (i + 1) - 1 = At(s)' + i - 1
    BY <1>3, <2>1
  <2> QED
    BY <2>1, <2>2, <2>3
<1>5. ASSUME NEW t \in Stream
      PROVE  /\ At(t)' >= (IF t = 0 THEN -3 ELSE 0)
             /\ \A i \in DOMAIN queue'[t] : queue'[t][i] = Command(t, At(t)' + i - 1)
             /\ running'[t] => queue'[t] # <<>> /\ queue'[t][1].op \notin {"await", "record"}
  <2>1. CASE t = s
    BY <1>3, <1>4, <2>1 DEF QueuesInv
  <2>2. CASE t # s
    BY <1>3, <2>2 DEF QueuesInv
  <2> QED
    BY <2>1, <2>2
<1>6. Started' = Started
  BY DEF Started
<1> QED
  BY <1>2, <1>5, <1>6 DEF QueuesInv

\* What the host issues in a round is the next part of the two programs.
LEMMA ChunkSteps ==
    ASSUME QueuesInv, Started
    PROVE  /\ Chunk(chunk) \in Seq(Commands) /\ Len(Chunk(chunk)) = 11
           /\ \A i \in 1 .. 11 : Chunk(chunk)[i] = StepOf(chunk, i)
<1>1. chunk \in Nat /\ recorded["dot"] = chunk + 1 /\ recorded["exchange"] = chunk + 1 /\ recorded["phase2"] = chunk + 1
  BY DEF QueuesInv, Event
<1> DEFINE k == chunk
           a(e) == [op |-> "await", event |-> e, number |-> k + 1]
           r(e) == [op |-> "record", event |-> e, number |-> k + 2]
<1>2. Chunk(k) = <<a("dot"), Kernel("dot", k), a("exchange"), Kernel("reduce", k), r("dot"), Kernel("reshare", k),
                   a("phase2"), Kernel("threshold", k), r("exchange"), Kernel("open", k), r("phase2")>>
  BY <1>1 DEF Chunk, Await, Record
<1>3. ASSUME NEW e \in Event PROVE a(e) \in Commands /\ r(e) \in Commands
  BY <1>1 DEF Commands
<1>4. ASSUME NEW op \in Kernels PROVE Kernel(op, k) \in Commands
  BY <1>1 DEF Commands, Kernel
<1>5. Chunk(k) \in Seq(Commands) /\ Len(Chunk(k)) = 11
  <2>1. "dot" \in Event /\ "exchange" \in Event /\ "phase2" \in Event
    BY DEF Event
  <2>2. \A op \in {"dot", "reduce", "reshare", "threshold", "open"} : op \in Kernels
    BY DEF Kernels
  <2> HIDE DEF a, r, k
  <2> QED
    BY <1>2, <1>3, <1>4, <2>1, <2>2
<1>6. ASSUME NEW i \in 1 .. 11 PROVE Chunk(k)[i] = StepOf(k, i)
  <2>1. i = 1 \/ i = 2 \/ i = 3 \/ i = 4 \/ i = 5 \/ i = 6 \/ i = 7 \/ i = 8 \/ i = 9 \/ i = 10 \/ i = 11
    OBVIOUS
  <2> HIDE DEF k
  <2> QED
    BY <1>2, <2>1 DEF StepOf, Awaits, Records
<1> QED
  BY <1>5, <1>6

\* Appending what comes next to a queue.
LEMMA AppendQueue ==
    ASSUME NEW s \in Stream, NEW q \in Seq(Commands), NEW new \in Seq(Commands), NEW y \in Int,
           \A i \in DOMAIN q : q[i] = Command(s, y + i - 1),
           \A i \in DOMAIN new : new[i] = Command(s, y + Len(q) + i - 1)
    PROVE  /\ q \o new \in Seq(Commands) /\ Len(q \o new) = Len(q) + Len(new)
           /\ q # <<>> => q \o new # <<>> /\ (q \o new)[1] = q[1]
           /\ \A i \in DOMAIN (q \o new) : (q \o new)[i] = Command(s, y + i - 1)
<1>1. Len(q) \in Nat /\ DOMAIN q = 1 .. Len(q) /\ Len(new) \in Nat /\ DOMAIN new = 1 .. Len(new)
  OBVIOUS
<1>2. /\ q \o new \in Seq(Commands) /\ Len(q \o new) = Len(q) + Len(new)
      /\ DOMAIN (q \o new) = 1 .. Len(q) + Len(new)
  OBVIOUS
<1>3. \A i \in 1 .. Len(q) : (q \o new)[i] = q[i]
  OBVIOUS
<1>4. \A i \in 1 .. Len(new) : (q \o new)[Len(q) + i] = new[i]
  OBVIOUS
<1>5. q # <<>> => q \o new # <<>> /\ (q \o new)[1] = q[1]
  <2>1. q # <<>> => Len(q) > 0
    OBVIOUS
  <2>2. q \o new = <<>> => Len(q \o new) = 0
    OBVIOUS
  <2> QED
    BY <1>1, <1>2, <1>3, <2>1, <2>2
<1>6. ASSUME NEW i \in 1 .. Len(q) + Len(new) PROVE (q \o new)[i] = Command(s, y + i - 1)
  <2>1. CASE i <= Len(q)
    BY <1>1, <1>3, <2>1
  <2>2. CASE i > Len(q)
    <3> DEFINE j == i - Len(q)
    <3>1. j \in 1 .. Len(new) /\ i = Len(q) + j
      BY <1>1, <2>2
    <3> HIDE DEF j
    <3>2. (q \o new)[i] = new[j]
      BY <1>4, <3>1
    <3>3. new[j] = Command(s, y + Len(q) + j - 1)
      BY <1>1, <3>1
    <3>4. y + Len(q) + j - 1 = y + i - 1
      BY <1>1, <3>1
    <3> QED
      BY <3>2, <3>3, <3>4
  <2> QED
    BY <1>1, <2>1, <2>2
<1>7. \A i \in DOMAIN (q \o new) : (q \o new)[i] = Command(s, y + i - 1)
  BY <1>2, <1>6
<1> QED
  BY <1>2, <1>5, <1>7, Zenon

\* A round of the loop moves no stream.
LEMMA IssueChunkQueues ==
    ASSUME QueuesInv, IssueChunk
    PROVE  QueuesInv' /\ \A s \in Stream : At(s)' = At(s)
<1>1. /\ Started /\ chunk \in Nat /\ queue \in [Stream -> Seq(Commands)] /\ recorded \in [Event -> Nat]
      /\ running' = running /\ chunk' = chunk + 1
      /\ \A e \in Event : recorded[e] = chunk + 1
  BY DEF QueuesInv, IssueChunk, Started
<1>2. recorded' = [e \in Event |-> recorded[e] + 1]
  BY DEF IssueChunk
<1>3. recorded' \in [Event -> Nat] /\ Started' /\ \A e \in Event : recorded'[e] = chunk' + 1
  <2>1. "dot" \in Event
    BY DEF Event
  <2> QED
    BY <1>1, <1>2, <2>1 DEF Started
<1> DEFINE new(s) == IF s = chunk % 2 THEN Chunk(chunk) ELSE <<Kernel("prefetch", chunk + 1)>>
<1>4. queue' = [s \in Stream |-> queue[s] \o new(s)]
  BY DEF IssueChunk
<1>5. ASSUME NEW s \in Stream
      PROVE  /\ new(s) \in Seq(Commands) /\ Issued(s)' = Issued(s) + Len(new(s)) /\ Len(new(s)) \in Nat
             /\ \A i \in DOMAIN new(s) : new(s)[i] = Command(s, Issued(s) + i - 1)
  <2>1. s = 0 \/ s = 1
    BY DEF Stream
  <2>2. CASE s = chunk % 2
    <3>1. PICK m \in Nat : chunk = s + 2 * m
      BY <1>1, <2>2, Halves, Zenon
    <3>2. Issued(s) = 12 * m + 1 /\ Issued(s)' = 12 * m + 12
      <4>1. s # chunk' % 2
        BY <1>1, <2>1, <2>2
      <4>2. Issued(s) = 6 * (chunk - s) + 1 /\ Issued(s)' = 6 * (chunk' + 1 - s)
        BY <1>1, <1>3, <2>2, <4>1 DEF Issued
      <4> QED
        BY <1>1, <2>1, <3>1, <4>2
    <3>3. new(s) = Chunk(chunk)
      BY <2>2
    <3>4. /\ Chunk(chunk) \in Seq(Commands) /\ Len(Chunk(chunk)) = 11
          /\ \A i \in 1 .. 11 : Chunk(chunk)[i] = StepOf(chunk, i)
      BY <1>1, ChunkSteps
    <3> HIDE DEF new
    <3>5. ASSUME NEW i \in 1 .. 11 PROVE new(s)[i] = Command(s, Issued(s) + i - 1)
      <4>1. Issued(s) + i - 1 = 12 * m + i /\ i \in 0 .. 11 /\ 12 * m + i > 0
        BY <3>2
      <4>2. Stage(12 * m + i) = i /\ ChunkOf(s, 12 * m + i) = s + 2 * m
        BY <4>1, Numbers
      <4>3. PICK y \in Int : y = 12 * m + i
        OBVIOUS
      <4>4. Command(s, y) = StepOf(chunk, i)
        BY <3>1, <4>1, <4>2, <4>3 DEF Command
      <4> QED
        BY <3>3, <3>4, <4>1, <4>3, <4>4
    <3>6. DOMAIN new(s) = 1 .. 11 /\ Len(new(s)) = 11 /\ new(s) \in Seq(Commands)
      BY <3>3, <3>4
    <3>7. Issued(s)' = Issued(s) + Len(new(s))
      BY <3>2, <3>6
    <3> QED
      BY <3>5, <3>6, <3>7
  <2>3. CASE s # chunk % 2
    <3>1. PICK m \in Nat : chunk + 1 = s + 2 * m
      BY <1>1, <2>3, Halves, Zenon
    <3>2. Issued(s) = 12 * m /\ Issued(s)' = 12 * m + 1
      <4>1. s = chunk' % 2
        BY <1>1, <2>1, <2>3, Parity
      <4>2. Issued(s) = 6 * (chunk + 1 - s) /\ Issued(s)' = 6 * (chunk' - s) + 1
        BY <1>1, <1>3, <2>3, <4>1 DEF Issued
      <4> QED
        BY <1>1, <2>1, <3>1, <4>2
    <3>3. new(s) = <<Kernel("prefetch", chunk + 1)>>
      BY <2>3
    <3>4. Kernel("prefetch", chunk + 1) \in Commands
      BY <1>1 DEF Commands, Kernel, Kernels
    <3> HIDE DEF new
    <3>5. Command(s, 12 * m) = Kernel("prefetch", chunk + 1)
      <4>1. Stage(12 * m + 0) = 0 /\ ChunkOf(s, 12 * m + 0) = s + 2 * m
        BY Numbers
      <4>2. 12 * m + 0 = 12 * m /\ ~(s = 0 /\ 12 * m <= 0)
        BY <1>1, <2>1, <3>1
      <4> QED
        BY <3>1, <4>1, <4>2 DEF Command, StepOf
    <3>6. DOMAIN new(s) = {1} /\ new(s)[1] = Command(s, Issued(s) + 1 - 1) /\ Len(new(s)) = 1
      BY <3>2, <3>3, <3>5
    <3>7. new(s) \in Seq(Commands)
      BY <3>3, <3>4
    <3> QED
      BY <3>2, <3>6, <3>7
  <2> QED
    BY <2>2, <2>3
<1> HIDE DEF new
<1>6. ASSUME NEW s \in Stream
      PROVE  /\ queue'[s] \in Seq(Commands) /\ At(s)' = At(s)
             /\ queue[s] # <<>> => queue'[s] # <<>> /\ queue'[s][1] = queue[s][1]
             /\ \A i \in DOMAIN queue'[s] : queue'[s][i] = Command(s, At(s)' + i - 1)
  <2>1. PICK y \in Int, q \in Seq(Commands), n \in Seq(Commands) : y = At(s) /\ q = queue[s] /\ n = new(s)
    BY <1>1, <1>5, AtTyped
  <2>2. y + Len(q) = Issued(s) /\ Len(q) \in Nat
    BY <2>1, AtTyped DEF At
  <2>3. \A i \in DOMAIN q : q[i] = Command(s, y + i - 1)
    BY <2>1 DEF QueuesInv
  <2>4. \A i \in DOMAIN n : n[i] = Command(s, y + Len(q) + i - 1)
    BY <1>5, <2>1, <2>2
  <2>5. /\ q \o n \in Seq(Commands) /\ Len(q \o n) = Len(q) + Len(n)
        /\ q # <<>> => q \o n # <<>> /\ (q \o n)[1] = q[1]
        /\ \A i \in DOMAIN (q \o n) : (q \o n)[i] = Command(s, y + i - 1)
    BY <2>3, <2>4, AppendQueue, Zenon
  <2>6. queue'[s] = q \o n
    BY <1>4, <2>1
  <2>7. At(s)' = y
    <3>1. Issued(s)' = Issued(s) + Len(n) /\ Len(n) \in Nat
      BY <1>5, <2>1
    <3> QED
      BY <2>2, <2>5, <2>6, <3>1 DEF At
  <2> QED
    BY <2>1, <2>5, <2>6, <2>7
<1>7. queue' \in [Stream -> Seq(Commands)]
  BY <1>4, <1>6
<1>8. chunk' \in Nat
  BY <1>1
<1>9. ASSUME NEW s \in Stream
      PROVE  /\ At(s)' >= (IF s = 0 THEN -3 ELSE 0)
             /\ running'[s] => queue'[s] # <<>> /\ queue'[s][1].op \notin {"await", "record"}
  BY <1>1, <1>6 DEF QueuesInv
<1>10. running' \in [Stream -> BOOLEAN]
  BY <1>1 DEF QueuesInv
<1> QED
  BY <1>3, <1>6, <1>7, <1>8, <1>9, <1>10 DEF QueuesInv

\* Nor do the commands before the loop.
LEMMA IssueFirstQueues ==
    ASSUME QueuesInv, IssueFirst
    PROVE  QueuesInv' /\ \A s \in Stream : At(s)' = At(s)
<1>1. /\ ~Started /\ chunk = 0 /\ chunk' = 0 /\ recorded \in [Event -> Nat] /\ \A e \in Event : recorded[e] = 0
      /\ queue \in [Stream -> Seq(Commands)] /\ running' = running
  BY DEF QueuesInv, IssueFirst, Started
<1>2. recorded' \in [Event -> Nat] /\ Started' /\ \A e \in Event : recorded'[e] = 1
  <2>1. recorded' = [e \in Event |-> recorded[e] + 1] /\ "dot" \in Event
    BY DEF IssueFirst, Event
  <2> QED
    BY <1>1, <2>1 DEF Started
<1>3. Issued(0) = -3 /\ Issued(1) = 0 /\ Issued(0)' = 1 /\ Issued(1)' = 0
  BY <1>1, <1>2 DEF Issued
<1>4. \A s \in Stream : queue[s] = <<>> /\ At(s) = Issued(s)
  <2>1. ASSUME NEW s \in Stream PROVE queue[s] = <<>> /\ At(s) = Issued(s)
    <3>1. s = 0 \/ s = 1
      BY DEF Stream
    <3>2. queue[s] \in Seq(Commands) /\ Len(queue[s]) \in Nat
      BY <1>1
    <3>3. Issued(s) - Len(queue[s]) >= (IF s = 0 THEN -3 ELSE 0)
      BY DEF QueuesInv, At
    <3>4. Len(queue[s]) = 0
      BY <1>3, <3>1, <3>2, <3>3
    <3> QED
      BY <1>3, <3>1, <3>2, <3>4 DEF At
  <2> QED
    BY <2>1
<1>5. queue'[0] = First /\ queue'[1] = <<>> /\ queue' = [queue EXCEPT ![0] = First]
  BY <1>1, <1>4 DEF IssueFirst, Stream
<1>6. First = <<Kernel("prefetch", 0), Records("dot", 1), Records("exchange", 1), Records("phase2", 1)>>
  <2>1. recorded["dot"] = 0 /\ recorded["exchange"] = 0 /\ recorded["phase2"] = 0
    BY <1>1 DEF Event
  <2> QED
    BY <2>1 DEF First, Record, Records
<1>7. /\ First \in Seq(Commands) /\ Len(First) = 4
      /\ \A i \in 1 .. 4 : First[i] = Command(0, -3 + i - 1)
  <2>1. Kernel("prefetch", 0) \in Commands
    BY DEF Kernel, Commands, Kernels
  <2>2. \A e \in {"dot", "exchange", "phase2"} : Records(e, 1) \in Commands
    BY DEF Records, Commands, Event
  <2>3. First[1] = Command(0, -3) /\ First[2] = Command(0, -2) /\ First[3] = Command(0, -1) /\ First[4] = Command(0, 0)
    BY <1>6 DEF Command
  <2>4. \A i \in 1 .. 4 : i = 1 \/ i = 2 \/ i = 3 \/ i = 4
    OBVIOUS
  <2>5. ASSUME NEW i \in 1 .. 4 PROVE First[i] = Command(0, -3 + i - 1)
    BY <2>3, <2>4
  <2> QED
    BY <1>6, <2>1, <2>2, <2>5
<1>8. At(0)' = -3 /\ At(1)' = 0 /\ At(0) = -3 /\ At(1) = 0
  BY <1>3, <1>4, <1>5, <1>7 DEF At, Stream
<1>9. \A s \in Stream : s = 0 \/ s = 1
  BY DEF Stream
<1>10. \A s \in Stream : ~running[s]
  BY <1>4 DEF QueuesInv
<1>11. ASSUME NEW s \in Stream, NEW i \in DOMAIN queue'[s] PROVE queue'[s][i] = Command(s, At(s)' + i - 1)
  BY <1>5, <1>7, <1>8, <1>9
<1>12. queue' \in [Stream -> Seq(Commands)]
  <2>1. First \in Seq(Commands) /\ queue \in [Stream -> Seq(Commands)] /\ queue' = [queue EXCEPT ![0] = First]
    BY <1>1, <1>5, <1>7
  <2> HIDE DEF First
  <2> QED
    BY <2>1 DEF Stream
<1>13. (\A s \in Stream : At(s) >= (IF s = 0 THEN -3 ELSE 0))' /\ \A s \in Stream : At(s)' = At(s)
  BY <1>8, <1>9
<1>14. running' \in [Stream -> BOOLEAN] /\ \A s \in Stream : ~running'[s]
  BY <1>1, <1>10 DEF QueuesInv
<1> QED
  BY <1>1, <1>2, <1>11, <1>12, <1>13, <1>14 DEF QueuesInv

-----------------------------------------------------------------------------
(* The events                                                              *)

\* Stages and chunks of the streams.
LEMMA Places ==
    ASSUME QueuesInv
    PROVE  \A s \in Stream : AtStage(s) \in 0 .. 11 /\ AtChunk(s) \in Nat /\ AtChunk(s) % 2 = s
<1>1. \A s \in Stream : At(s) \in Int
  BY AtTyped
<1> QED
  BY <1>1, Stages DEF AtStage, AtChunk

\* Both streams never use what one event protects.
LEMMA Exclusive ==
    ASSUME QueuesInv, EventsInv, NEW e \in Event, NEW s \in Stream, NEW t \in Stream, Inside(s, e), Inside(t, e)
    PROVE  s = t
<1>1. AtChunk(s) + 1 = AtChunk(t) + 1
  BY DEF EventsInv
<1>2. AtChunk(s) \in Nat /\ AtChunk(t) \in Nat /\ AtChunk(s) % 2 = s /\ AtChunk(t) % 2 = t
  BY Places
<1>3. AtChunk(s) = AtChunk(t)
  BY <1>1, <1>2
<1> QED
  BY <1>2, <1>3

\* What changes neither the places of the streams nor the events.
LEMMA EventsStay ==
    ASSUME EventsInv, completed' = completed, \A s \in Stream : At(s)' = At(s)
    PROVE  EventsInv'
<1>1. \A s \in Stream : AtStage(s)' = AtStage(s) /\ AtChunk(s)' = AtChunk(s) /\ 0 \in Stream
  BY DEF AtStage, AtChunk, Stream
<1> QED
  BY <1>1 DEF EventsInv, Inside, NextRecord, Stream

\* The stages of the events.
LEMMA EventStages ==
    \A e \in Event : /\ AwaitAt(e) \in 1 .. 7 /\ RecordAt(e) \in 5 .. 11 /\ FirstAt(e) \in -2 .. 0
                     /\ AwaitAt(e) < RecordAt(e)
BY DEF AwaitAt, RecordAt, FirstAt

\* A kernel that ends hands on nothing.
LEMMA KernelEvents ==
    ASSUME QueuesInv, EventsInv, NEW s \in Stream, queue[s] # <<>>, queue' = [queue EXCEPT ![s] = Tail(@)],
           chunk' = chunk, recorded' = recorded, completed' = completed,
           Head(queue[s]).op \notin {"await", "record"}
    PROVE  EventsInv'
<1>1. PICK c : c = Head(queue[s])
  OBVIOUS
<1>2. AtStage(s) \in {0, 2, 4, 6, 8, 10}
  BY <1>1, HeadOps DEF Kernels
<1>3. /\ At(s)' = At(s) + 1 /\ At(s) \in Int
      /\ AtChunk(s)' = AtChunk(s) /\ AtStage(s)' \in {AtStage(s), AtStage(s) + 1}
      /\ AtStage(s)' = AtStage(s) => AtStage(s) = 0
      /\ \A t \in Stream : /\ AtStage(t) \in 0 .. 11 /\ AtChunk(t) \in Nat
                           /\ t # s => At(t)' = At(t) /\ AtStage(t)' = AtStage(t) /\ AtChunk(t)' = AtChunk(t)
  <2>1. Moves(s)
    BY AtNext, Zenon
  <2> QED
    BY <1>2, <2>1 DEF Moves
<1>4. completed' \in [Event -> Nat]
  BY DEF EventsInv
<1>5. ASSUME NEW e \in Event
      PROVE  At(0)' <= FirstAt(e) => completed'[e] = 0
  <2>1. At(0)' <= FirstAt(e) => At(0) <= FirstAt(e)
    BY <1>3, EventStages DEF Stream
  <2> QED
    BY <1>5, <2>1 DEF EventsInv
<1>6. ASSUME NEW e \in Event, NEW t \in Stream
      PROVE  /\ completed'[e] <= NextRecord(t, e)' + 1
             /\ Inside(t, e)' => completed'[e] = AtChunk(t)' + 1
  <2>1. completed[e] <= NextRecord(t, e) + 1 /\ (Inside(t, e) => completed[e] = AtChunk(t) + 1) /\ completed[e] \in Nat
    BY DEF EventsInv
  <2>2. CASE t # s
    BY <1>3, <2>1, <2>2 DEF NextRecord, Inside
  <2>3. CASE t = s
    <3>1. /\ AwaitAt(e) \in Nat /\ RecordAt(e) \in Nat /\ AwaitAt(e) < RecordAt(e)
          /\ AtStage(s) # AwaitAt(e) /\ AtStage(s) # RecordAt(e)
      BY <1>2 DEF AwaitAt, RecordAt
    <3>2. AtStage(s) \in Nat /\ AtStage(s)' \in {AtStage(s), AtStage(s) + 1} /\ AtChunk(s)' = AtChunk(s)
      BY <1>3
    <3>3. (Inside(s, e)' => Inside(s, e)) /\ NextRecord(s, e)' = NextRecord(s, e)
      BY <3>1, <3>2 DEF Inside, NextRecord
    <3> QED
      BY <2>1, <2>3, <3>2, <3>3
  <2> QED
    BY <2>2, <2>3
<1> QED
  BY <1>4, <1>5, <1>6 DEF EventsInv

\* A stream that has waited for an event finds it recorded for the chunk before.
LEMMA AwaitEvents ==
    ASSUME QueuesInv, EventsInv, NEW s \in Stream, AwaitEvent(s)
    PROVE  EventsInv'
<1>1. PICK c : c = Head(queue[s])
  OBVIOUS
<1>2. /\ queue[s] # <<>> /\ queue' = [queue EXCEPT ![s] = Tail(@)] /\ chunk' = chunk /\ recorded' = recorded
      /\ completed' = completed /\ c.op = "await" /\ completed[c.event] >= c.number
  BY <1>1 DEF AwaitEvent
<1>3. PICK f \in Event : f = c.event /\ AtStage(s) = AwaitAt(f) /\ At(s) >= 1 /\ c.number = AtChunk(s) + 1
  BY <1>1, <1>2, HeadOps
<1>4. /\ At(s)' = At(s) + 1 /\ At(s) \in Int
      /\ AtChunk(s)' = AtChunk(s) /\ AtStage(s)' = AtStage(s) + 1
      /\ \A t \in Stream : /\ AtStage(t) \in 0 .. 11 /\ AtChunk(t) \in Nat
                           /\ t # s => At(t)' = At(t) /\ AtStage(t)' = AtStage(t) /\ AtChunk(t)' = AtChunk(t)
  <2>1. AtStage(s) < 11 /\ At(s) >= 0
    BY <1>3, EventStages, AtTyped
  <2>2. Moves(s)
    BY <1>2, AtNext, Zenon
  <2> QED
    BY <2>1, <2>2 DEF Moves
<1>5. completed' \in [Event -> Nat] /\ completed[f] >= AtChunk(s) + 1
  BY <1>2, <1>3 DEF EventsInv
<1>6. ASSUME NEW e \in Event
      PROVE  At(0)' <= FirstAt(e) => completed'[e] = 0
  <2>1. At(0)' <= FirstAt(e) => At(0) <= FirstAt(e)
    BY <1>4, EventStages DEF Stream
  <2> QED
    BY <1>2, <1>6, <2>1 DEF EventsInv
<1>7. ASSUME NEW e \in Event, NEW t \in Stream
      PROVE  /\ completed'[e] <= NextRecord(t, e)' + 1
             /\ Inside(t, e)' => completed'[e] = AtChunk(t)' + 1
  <2>1. completed[e] <= NextRecord(t, e) + 1 /\ (Inside(t, e) => completed[e] = AtChunk(t) + 1) /\ completed[e] \in Nat
    BY DEF EventsInv
  <2>2. CASE t # s
    BY <1>2, <1>4, <2>1, <2>2 DEF NextRecord, Inside
  <2>3. CASE t = s
    <3>1. AwaitAt(f) \in {1, 3, 7} /\ RecordAt(e) \in {5, 9, 11} /\ AwaitAt(e) \in {1, 3, 7} /\ AwaitAt(e) < RecordAt(e)
      BY DEF AwaitAt, RecordAt
    <3>2. NextRecord(s, e)' = NextRecord(s, e)
      BY <1>3, <1>4, <3>1 DEF NextRecord
    <3>3. CASE e = f
      <4>1. NextRecord(s, e) = AtChunk(s)
        BY <1>3, <1>4, <3>1, <3>3 DEF NextRecord
      <4>2. completed[e] = AtChunk(s) + 1
        BY <1>4, <1>5, <2>1, <2>3, <3>3, <4>1
      <4> QED
        BY <1>2, <1>4, <2>1, <2>3, <3>2, <4>2
    <3>4. CASE e # f
      <4>1. AwaitAt(e) # AwaitAt(f)
        BY <3>4 DEF AwaitAt, Event
      <4>2. Inside(s, e)' => Inside(s, e)
        BY <1>3, <1>4, <3>1, <4>1 DEF Inside
      <4> QED
        BY <1>2, <1>4, <2>1, <2>3, <3>2, <4>2
    <3> QED
      BY <3>3, <3>4
  <2> QED
    BY <2>2, <2>3
<1> QED
  BY <1>5, <1>6, <1>7 DEF EventsInv

\* A stream that records an event gives it to the other stream.
LEMMA RecordEvents ==
    ASSUME QueuesInv, EventsInv, NEW s \in Stream, RecordEvent(s)
    PROVE  EventsInv'
<1>1. PICK c : c = Head(queue[s])
  OBVIOUS
<1>2. /\ queue[s] # <<>> /\ queue' = [queue EXCEPT ![s] = Tail(@)] /\ chunk' = chunk /\ recorded' = recorded
      /\ c.op = "record" /\ completed' = [completed EXCEPT ![c.event] = c.number]
  BY <1>1 DEF RecordEvent
<1>3. PICK f \in Event : /\ f = c.event
                         /\ \/ At(s) >= 1 /\ AtStage(s) = RecordAt(f) /\ c.number = AtChunk(s) + 2
                            \/ s = 0 /\ At(s) = FirstAt(f) /\ c.number = 1
  BY <1>1, <1>2, HeadOps
<1>4. /\ Moves(s) /\ completed \in [Event -> Nat] /\ 0 \in Stream
      /\ \A t \in Stream : AtStage(t) \in 0 .. 11 /\ AtChunk(t) \in Nat /\ AtChunk(t) % 2 = t
      /\ \A t \in Stream \ {s} : At(t)' = At(t) /\ AtStage(t)' = AtStage(t) /\ AtChunk(t)' = AtChunk(t)
      /\ At(s)' = At(s) + 1 /\ At(s) \in Int
  <2>1. Moves(s)
    BY <1>2, AtNext, Zenon
  <2> QED
    BY <2>1 DEF Moves, EventsInv, Stream
<1>5. \A e \in Event : /\ AwaitAt(e) \in {1, 3, 7} /\ RecordAt(e) \in {5, 9, 11} /\ FirstAt(e) \in -2 .. 0
                       /\ AwaitAt(e) < RecordAt(e)
  BY DEF AwaitAt, RecordAt, FirstAt
<1>6. \A e \in Event : e # f => RecordAt(e) # RecordAt(f)
  BY DEF RecordAt, Event
<1>7. ASSUME NEW e \in Event, NEW t \in Stream
      PROVE  /\ completed[e] <= NextRecord(t, e) + 1 /\ (Inside(t, e) => completed[e] = AtChunk(t) + 1)
             /\ completed[e] \in Nat /\ (At(0) <= FirstAt(e) => completed[e] = 0)
             /\ NextRecord(t, e) \in {AtChunk(t), AtChunk(t) + 2}
             /\ t # s => (Inside(t, e)' <=> Inside(t, e)) /\ NextRecord(t, e)' = NextRecord(t, e)
  BY <1>4 DEF EventsInv, NextRecord, Inside
<1>8. ASSUME NEW e \in Event, e # f
      PROVE  /\ At(0)' <= FirstAt(e) => completed'[e] = 0
             /\ \A t \in Stream : t # s => /\ completed'[e] <= NextRecord(t, e)' + 1
                                           /\ Inside(t, e)' => completed'[e] = AtChunk(t)' + 1
  <2>1. completed'[e] = completed[e]
    BY <1>2, <1>3, <1>4, <1>8
  <2>2. At(0)' <= FirstAt(e) => At(0) <= FirstAt(e)
    BY <1>4, <1>5
  <2> QED
    BY <1>4, <1>7, <2>1, <2>2
<1>9. completed' \in [Event -> Nat] /\ completed'[f] = c.number /\ c.number \in Nat
  BY <1>2, <1>3, <1>4
<1>10. CASE At(s) >= 1 /\ AtStage(s) = RecordAt(f) /\ c.number = AtChunk(s) + 2
  <2>1. \/ AtStage(s) < 11 /\ AtStage(s)' = AtStage(s) + 1 /\ AtChunk(s)' = AtChunk(s)
        \/ AtStage(s) = 11 /\ AtStage(s)' = 0 /\ AtChunk(s)' = AtChunk(s) + 2
    BY <1>4, <1>10 DEF Moves
  <2>2. Inside(s, f) /\ completed[f] = AtChunk(s) + 1
    <3>1. Inside(s, f)
      BY <1>5, <1>10 DEF Inside
    <3> QED
      BY <1>7, <3>1
  <2>3. ~(At(0)' <= FirstAt(f))
    BY <1>4, <1>5, <1>7, <2>2
  <2>4. NextRecord(s, f)' = AtChunk(s) + 2 /\ ~Inside(s, f)'
    BY <1>4, <1>5, <1>10, <2>1 DEF NextRecord, Inside
  <2>5. ASSUME NEW e \in Event, e # f
        PROVE  /\ completed'[e] <= NextRecord(s, e)' + 1
               /\ Inside(s, e)' => completed'[e] = AtChunk(s)' + 1
    <3>1. completed'[e] = completed[e]
      BY <1>2, <1>3, <1>4, <2>5
    <3>2. NextRecord(s, e)' = NextRecord(s, e)
      BY <1>4, <1>5, <1>6, <1>10, <2>1, <2>5 DEF NextRecord
    <3>3. Inside(s, e)' => Inside(s, e) /\ AtChunk(s)' = AtChunk(s)
      BY <1>4, <1>5, <1>6, <1>10, <2>1, <2>5 DEF Inside
    <3> QED
      BY <1>7, <3>1, <3>2, <3>3
  <2>6. ASSUME NEW t \in Stream, t # s
        PROVE  completed'[f] <= NextRecord(t, f)' + 1 /\ ~Inside(t, f)'
    <3>1. ~Inside(t, f)
      BY <2>2, <2>6, Exclusive
    <3>2. AtChunk(t) # AtChunk(s) /\ AtChunk(t) + 2 # AtChunk(s)
      BY <1>4, <2>6
    <3>3. AtChunk(s) <= NextRecord(t, f) /\ AtChunk(s) # NextRecord(t, f)
      BY <1>4, <1>7, <2>2, <3>2
    <3>4. AtChunk(s) + 2 <= NextRecord(t, f) + 1
      BY <1>4, <1>7, <3>3
    <3> QED
      BY <1>7, <1>9, <1>10, <2>6, <3>1, <3>4
  <2>7. completed'[f] <= NextRecord(s, f)' + 1
    BY <1>4, <1>9, <1>10, <2>4
  <2>8. ASSUME NEW e \in Event, NEW t \in Stream
        PROVE  /\ completed'[e] <= NextRecord(t, e)' + 1
               /\ Inside(t, e)' => completed'[e] = AtChunk(t)' + 1
    BY <1>8, <2>4, <2>5, <2>6, <2>7
  <2>9. ASSUME NEW e \in Event PROVE At(0)' <= FirstAt(e) => completed'[e] = 0
    BY <1>8, <2>3
  <2> QED
    BY <1>9, <2>8, <2>9 DEF EventsInv
<1>11. CASE s = 0 /\ At(s) = FirstAt(f) /\ c.number = 1
  <2>1. completed[f] = 0 /\ ~(At(0)' <= FirstAt(f))
    BY <1>4, <1>5, <1>7, <1>11
  <2>2. AtStage(s) = 0 /\ AtStage(s)' \in {0, 1} /\ AtChunk(s)' = AtChunk(s)
    <3>1. AtStage(s) = 0
      BY <1>4, <1>5, <1>11 DEF AtStage, Stage
    <3> QED
      BY <1>4, <1>5, <1>11, <3>1 DEF Moves
  <2>3. \A e \in Event : ~Inside(s, e)' /\ NextRecord(s, e)' = NextRecord(s, e)
    BY <1>5, <2>2 DEF Inside, NextRecord
  <2>4. ASSUME NEW t \in Stream PROVE completed'[f] <= NextRecord(t, f)' + 1 /\ ~Inside(t, f)'
    <3>1. NextRecord(t, f) \in Nat /\ ~Inside(t, f)
      BY <1>4, <1>7, <2>1
    <3> QED
      BY <1>7, <1>9, <1>11, <2>3, <3>1
  <2>5. ASSUME NEW e \in Event, e # f PROVE completed'[e] <= NextRecord(s, e)' + 1
    BY <1>2, <1>3, <1>4, <1>7, <2>3, <2>5
  <2>6. ASSUME NEW e \in Event, NEW t \in Stream
        PROVE  /\ completed'[e] <= NextRecord(t, e)' + 1
               /\ Inside(t, e)' => completed'[e] = AtChunk(t)' + 1
    BY <1>8, <2>3, <2>4, <2>5
  <2>7. ASSUME NEW e \in Event PROVE At(0)' <= FirstAt(e) => completed'[e] = 0
    BY <1>8, <2>1
  <2> QED
    BY <1>9, <2>6, <2>7 DEF EventsInv
<1> QED
  BY <1>3, <1>10, <1>11

-----------------------------------------------------------------------------
(* The streams                                                             *)

\* A kernel that ends.
LEMMA EndsStreams ==
    ASSUME QueuesInv, EventsInv, NEW s \in Stream, NEW op \in Kernels, Ends(s, op)
    PROVE  QueuesInv' /\ EventsInv' /\ Moves(s)
<1>1. /\ queue' = [queue EXCEPT ![s] = Tail(@)] /\ chunk' = chunk /\ recorded' = recorded /\ completed' = completed
      /\ running' = [running EXCEPT ![s] = FALSE] /\ running[s] /\ Head(queue[s]).op = op
  BY DEF Ends
<1>2. queue[s] # <<>> /\ running \in [Stream -> BOOLEAN]
  BY <1>1 DEF QueuesInv
<1>3. running' \in [Stream -> BOOLEAN] /\ ~running'[s] /\ \A t \in Stream \ {s} : running'[t] = running[t]
  BY <1>1, <1>2
<1>4. op \notin {"await", "record"}
  BY DEF Kernels
<1>5. QueuesInv'
  BY <1>1, <1>2, <1>3, PopQueues, Zenon
<1>6. EventsInv'
  BY <1>1, <1>2, <1>4, KernelEvents, Zenon
<1>7. Moves(s)
  BY <1>1, <1>2, AtNext, Zenon
<1> QED
  BY <1>5, <1>6, <1>7

\* A kernel that starts.
LEMMA LaunchStreams ==
    ASSUME QueuesInv, EventsInv, NEW s \in Stream, Launch(s)
    PROVE  QueuesInv' /\ EventsInv' /\ \A t \in Stream : At(t)' = At(t)
<1>1. /\ queue' = queue /\ chunk' = chunk /\ recorded' = recorded /\ completed' = completed
      /\ running' = [running EXCEPT ![s] = TRUE] /\ queue[s] # <<>>
      /\ Head(queue[s]).op \notin {"await", "record"}
  BY DEF Launch
<1>2. \A t \in Stream : At(t)' = At(t)
  BY <1>1 DEF At, Issued, Started
<1>3. Head(queue[s]) = queue[s][1]
  BY <1>1, HeadCommand
<1>4. running' \in [Stream -> BOOLEAN] /\ \A t \in Stream : running'[t] => t = s \/ running[t]
  BY <1>1 DEF QueuesInv
<1>5. Started' = Started
  BY <1>1 DEF Started
<1>6. QueuesInv'
  BY <1>1, <1>2, <1>3, <1>4, <1>5 DEF QueuesInv
<1>7. EventsInv'
  BY <1>1, <1>2, EventsStay
<1> QED
  BY <1>2, <1>6, <1>7

\* An event command is executed: none is running.
LEMMA EventStreams ==
    ASSUME QueuesInv, EventsInv, NEW s \in Stream, AwaitEvent(s) \/ RecordEvent(s)
    PROVE  QueuesInv' /\ EventsInv' /\ Moves(s)
<1>1. /\ queue' = [queue EXCEPT ![s] = Tail(@)] /\ chunk' = chunk /\ recorded' = recorded /\ running' = running
      /\ queue[s] # <<>> /\ Head(queue[s]).op \in {"await", "record"}
  BY DEF AwaitEvent, RecordEvent
<1>2. Head(queue[s]) = queue[s][1]
  BY <1>1, HeadCommand
<1>3. ~running'[s] /\ running' \in [Stream -> BOOLEAN] /\ \A t \in Stream \ {s} : running'[t] = running[t]
  BY <1>1, <1>2 DEF QueuesInv
<1>4. QueuesInv'
  BY <1>1, <1>3, PopQueues, Zenon
<1>5. Moves(s)
  BY <1>1, AtNext, Zenon
<1> QED
  BY <1>4, <1>5, AwaitEvents, RecordEvents

\* The streams begin with their programs.
LEMMA InitStreams == Init => QueuesInv /\ EventsInv /\ At(0) = -3 /\ At(1) = 0
<1> SUFFICES ASSUME Init PROVE QueuesInv /\ EventsInv /\ At(0) = -3 /\ At(1) = 0
  OBVIOUS
<1>1. /\ chunk = 0 /\ queue = [s \in Stream |-> <<>>] /\ running = [s \in Stream |-> FALSE]
      /\ recorded = [e \in Event |-> 0] /\ completed = [e \in Event |-> 0]
  BY DEF Init
<1>2. ~Started
  BY <1>1 DEF Started, Event
<1>3. \A s \in Stream : (s = 0 \/ s = 1) /\ queue[s] = <<>>
  BY <1>1 DEF Stream
<1>4. At(0) = -3 /\ At(1) = 0
  <2>1. Len(queue[0]) = 0 /\ Len(queue[1]) = 0
    BY <1>3 DEF Stream
  <2>2. Issued(0) = -3 /\ Issued(1) = 0
    BY <1>2 DEF Issued
  <2> QED
    BY <2>1, <2>2 DEF At
<1>5. \A s \in Stream : DOMAIN queue[s] = {}
  BY <1>3
<1>6. QueuesInv
  BY <1>1, <1>2, <1>3, <1>4, <1>5 DEF QueuesInv
<1>7. AtStage(0) = 0 /\ AtStage(1) = 0 /\ AtChunk(0) = 0 /\ AtChunk(1) = 1
  BY <1>4 DEF AtStage, Stage, AtChunk, ChunkOf
<1>8. EventsInv
  BY <1>1, <1>3, <1>7, EventStages DEF EventsInv, NextRecord, Inside
<1> QED
  BY <1>4, <1>6, <1>8

\* Stream s may use buffer b.
MayUse(s, b) ==
    \/ b = TransferBuffer(s)
    \/ b = "intermediate" /\ Inside(s, "dot")
    \/ b \in {"results", "peer"} /\ Inside(s, "exchange")
    \/ b = "lifted" /\ Inside(s, "phase2")

\* No buffer may be used by both.
LEMMA Apart ==
    ASSUME QueuesInv, EventsInv, NEW s \in Stream, NEW t \in Stream, NEW b, MayUse(s, b), MayUse(t, b)
    PROVE  s = t
<1>1. TransferBuffer(s) = TransferBuffer(t) => s = t
  BY DEF TransferBuffer, Stream
<1>2. \A u \in Stream : TransferBuffer(u) \in {"buffer0", "buffer1"}
  BY DEF TransferBuffer
<1>3. \A e \in Event : Inside(s, e) /\ Inside(t, e) => s = t
  BY Exclusive
<1> QED
  BY <1>1, <1>2, <1>3 DEF Event, MayUse

\* The kernels of a stream use a buffer only while they may.
LEMMA Users ==
    ASSUME QueuesInv, NEW s \in Stream, running[s], NEW c, c = Head(queue[s]), NEW b \in Reads(c) \cup Writes(c)
    PROVE  MayUse(s, b)
<1> USE DEF MayUse
<1>1. queue[s] # <<>> /\ c.op \notin {"await", "record"}
  BY HeadCommand DEF QueuesInv
<1>2. /\ c.chunk = AtChunk(s) /\ c.op \in Kernels
      /\ c.op = "dot" => AtStage(s) = 2
      /\ c.op = "reduce" => AtStage(s) = 4
      /\ c.op = "reshare" => AtStage(s) = 6
      /\ c.op = "threshold" => AtStage(s) = 8
      /\ c.op = "open" => AtStage(s) = 10
  BY <1>1, HeadOps
<1>3. TransferBuffer(c.chunk) = TransferBuffer(s)
  <2>1. AtChunk(s) % 2 = s /\ s % 2 = s
    BY Places DEF Stream
  <2> QED
    BY <1>2, <2>1 DEF TransferBuffer
<1>4. CASE c.op = "prefetch"
  BY <1>3, <1>4 DEF Reads, Writes
<1>5. CASE c.op = "dot"
  BY <1>2, <1>3, <1>5 DEF Reads, Writes, Inside, AwaitAt, RecordAt
<1>6. CASE c.op = "reduce"
  BY <1>2, <1>6 DEF Reads, Writes, Inside, AwaitAt, RecordAt
<1>7. CASE c.op = "reshare"
  BY <1>2, <1>7 DEF Reads, Writes, Inside, AwaitAt, RecordAt
<1>8. CASE c.op = "threshold"
  BY <1>2, <1>8 DEF Reads, Writes, Inside, AwaitAt, RecordAt
<1>9. CASE c.op = "open"
  BY <1>2, <1>9 DEF Reads, Writes, Inside, AwaitAt, RecordAt
<1> QED
  BY <1>2, <1>4, <1>5, <1>6, <1>7, <1>8, <1>9 DEF Kernels

\* A step of the host or of a stream keeps both invariants.
LEMMA StreamsNext ==
    ASSUME QueuesInv, EventsInv, [Next]_vars
    PROVE  QueuesInv' /\ EventsInv'
<1>1. CASE IssueFirst
  BY <1>1, IssueFirstQueues, EventsStay DEF IssueFirst
<1>2. CASE IssueChunk
  BY <1>2, IssueChunkQueues, EventsStay DEF IssueChunk
<1>3. ASSUME NEW s \in Stream, AwaitEvent(s) \/ RecordEvent(s) PROVE QueuesInv' /\ EventsInv'
  BY <1>3, EventStreams
<1>4. ASSUME NEW s \in Stream, Launch(s) PROVE QueuesInv' /\ EventsInv'
  BY <1>4, LaunchStreams
<1>5. ASSUME NEW s \in Stream, Prefetch(s) \/ Compute(s) \/ Open(s) PROVE QueuesInv' /\ EventsInv'
  <2>1. PICK op \in Kernels : Ends(s, op)
    BY <1>5, Zenon DEF Prefetch, Compute, Open, Kernels
  <2> QED
    BY <2>1, EndsStreams
<1>6. CASE UNCHANGED vars
  <2>1. \A s \in Stream : At(s)' = At(s)
    BY <1>6 DEF vars, At, Issued, Started
  <2>2. EventsInv'
    BY <1>6, <2>1, EventsStay DEF vars
  <2>3. QueuesInv'
    BY <1>6, <2>1 DEF vars, QueuesInv, Started
  <2> QED
    BY <2>2, <2>3
<1> QED
  BY <1>1, <1>2, <1>3, <1>4, <1>5, <1>6 DEF Next

\* The two streams never use one buffer at the same time, however the host, the
\* streams and their kernels interleave (dot_events, exchange_events and
\* phase2_events of compare_query_against_db_and_self).
THEOREM RaceFreeAlways == Spec => []RaceFree
<1>1. Init => QueuesInv /\ EventsInv
  BY InitStreams
<1>2. (QueuesInv /\ EventsInv) /\ [Next]_vars => (QueuesInv /\ EventsInv)'
  BY StreamsNext
<1>3. QueuesInv /\ EventsInv => RaceFree
  <2> SUFFICES ASSUME QueuesInv, EventsInv, running[0], running[1]
               PROVE  /\ Writes(Head(queue[0])) \cap (Reads(Head(queue[1])) \cup Writes(Head(queue[1]))) = {}
                      /\ Writes(Head(queue[1])) \cap Reads(Head(queue[0])) = {}
    BY DEF RaceFree
  <2>1. 0 \in Stream /\ 1 \in Stream
    BY DEF Stream
  <2>2. \A b \in Reads(Head(queue[0])) \cup Writes(Head(queue[0])) :
            b \notin Reads(Head(queue[1])) \cup Writes(Head(queue[1]))
    BY <2>1, Users, Apart
  <2> QED
    BY <2>2
<1> QED
  BY <1>1, <1>2, <1>3, PTL DEF Spec

-----------------------------------------------------------------------------
(* The buffers                                                             *)

\* Chunk k has entries of the shard; entry e lies in chunk k.
Holds(k) == ChunkSize * k < size
InChunk(e, k) == ChunkSize * k <= e /\ e < ChunkSize * k + ChunkSize

\* What stream s has computed and will still read.
Needs(s, b) ==
    \/ b = TransferBuffer(s) /\ (AtStage(s) \in 1 .. 2 \/ (s = 0 /\ At(s) \in -2 .. 0))
    \/ b = "intermediate" /\ AtStage(s) \in 3 .. 4
    \/ b = "results" /\ AtStage(s) \in 5 .. 8
    \/ b = "peer" /\ AtStage(s) \in 7 .. 8
    \/ b = "lifted" /\ AtStage(s) \in 9 .. 10

\* It is there.
DataInv ==
    /\ holds \in [Buffer -> Int]
    /\ \A s \in Stream : Holds(AtChunk(s)) => \A b \in Buffer : Needs(s, b) => holds[b] = AtChunk(s)

\* The host has not gone past the largest device.
HostInv ==
    /\ size \in 0 .. MaxSize /\ maxSize \in {size, size + 1}
    /\ chunk > 1 => ChunkSize * (chunk - 1) < maxSize

\* Stream s has opened chunk k.
HasOpened(s, k) == k < AtChunk(s) \/ (k = AtChunk(s) /\ AtStage(s) = 11)

\* The matches of an opened chunk are in the bitmap, and nothing else is.
BitsInv ==
    /\ \A s \in Stream, k \in Nat : k % 2 = s /\ HasOpened(s, k) =>
           \A m \in Match : m[1] \in Query /\ m[2] < size /\ InChunk(m[2], k) => size * m[1] + m[2] \in bits
    /\ ~UsedUp => bits \subseteq TrueBits

\* A remainder, a division and a product.
LEMMA Small == ASSUME NEW a \in Nat, NEW n \in Nat \ {0}, a < n PROVE a % n = a
OBVIOUS

\* A size rounded up to a multiple is not below it.
LEMMA RoundedUp == ASSUME NEW n \in Nat, NEW p \in Nat \ {0}
                   PROVE  ((n + p - 1) \div p) * p >= n /\ ((n + p - 1) \div p) * p \in Nat
OBVIOUS

\* A multiple leaves no remainder.
LEMMA Multiple == ASSUME NEW k \in Nat, NEW n \in Nat \ {0} PROVE (n * k) % n = 0
OBVIOUS

\* Multiples grow with their factor.
LEMMA Grows == ASSUME NEW a \in Nat, NEW b \in Nat, NEW n \in Nat, a <= b PROVE n * a <= n * b /\ n * a \in Nat
OBVIOUS

\* A chunk with entries has its entries in it and nothing else.
LEMMA ChunkFacts ==
    ASSUME size \in 0 .. MaxSize, NEW k \in Nat, Holds(k)
    PROVE  /\ chunk_size(k) \in 1 .. ChunkSize /\ ChunkSize * k + chunk_size(k) <= size
           /\ \A e \in Nat : InChunk(e, k) /\ e < size => e < ChunkSize * k + chunk_size(k)
           /\ PrefetchOffset(k) = ChunkSize * k
           /\ Opened(k) = 0 .. chunk_size(k) - 1
<1>1. PICK n \in Nat \ {0}, lim \in Nat, p \in Nat \ {0} : n = ChunkSize /\ lim = 2^W /\ p = Pad
  BY SizesAssumption
<1>2. MaxSize \in Nat /\ MaxSize + 2 * n < lim /\ size \in Nat /\ size <= MaxSize
  BY <1>1, SizesAssumption
<1>3. PICK o \in Nat : o = ChunkSize * k /\ o < size
  BY <1>1 DEF Holds
<1>4. (size - o) % lim = size - o
  BY <1>2, <1>3, Small
<1>5. chunk_size(k) = IF size - o > n THEN n ELSE size - o
  BY <1>1, <1>2, <1>3, <1>4 DEF chunk_size, Clamp
<1>6. k > 0 => chunk_size(k - 1) = n /\ ChunkSize * (k - 1) + n = o
  <2> SUFFICES ASSUME k > 0 PROVE chunk_size(k - 1) = n /\ ChunkSize * (k - 1) + n = o
    OBVIOUS
  <2>1. PICK l \in Nat : l = ChunkSize * (k - 1)
    BY <1>1
  <2>2. l + n = o
    BY <1>1, <1>3, <2>1
  <2>3. (size - l) % lim = size - l
    BY <1>2, <1>3, <2>2, Small
  <2>4. size - l > n
    BY <1>2, <1>3, <2>2
  <2> QED
    BY <1>1, <1>2, <2>1, <2>2, <2>3, <2>4 DEF chunk_size, Clamp
<1>7. PrefetchOffset(k) = o
  BY <1>1, <1>3, <1>6 DEF PrefetchOffset
<1>8. PICK w \in Nat : w = chunk_size(k) /\ w = IF size - o > n THEN n ELSE size - o
  <2>1. (IF size - o > n THEN n ELSE size - o) \in Nat
    BY <1>2, <1>3
  <2> QED
    BY <1>5, <2>1
<1>9. Opened(k) = 0 .. w - 1
  <2>1. dot_chunk_size(k) >= w /\ dot_chunk_size(k) \in Nat
    BY <1>1, <1>8, RoundedUp DEF dot_chunk_size
  <2>2. PICK r \in Nat : r = dot_chunk_size(k) /\ r >= w
    BY <2>1
  <2> QED
    BY <1>8, <2>2 DEF Opened
<1>10. w \in 1 .. n /\ o + w <= size
  BY <1>2, <1>3, <1>8
<1>11. ASSUME NEW e \in Nat, InChunk(e, k), e < size PROVE e < o + w
  BY <1>1, <1>2, <1>3, <1>8, <1>11 DEF InChunk
<1> QED
  BY <1>1, <1>3, <1>7, <1>8, <1>9, <1>10, <1>11

\* What is needed may be used, and is not touched by the other stream.
LEMMA NeedsUse == ASSUME QueuesInv, NEW s \in Stream, NEW b, Needs(s, b) PROVE MayUse(s, b)
<1>1. AtStage(s) \in 0 .. 11
  BY Places
<1> QED
  BY <1>1 DEF Needs, MayUse, Inside, AwaitAt, RecordAt

\* A kernel reads what its stream needs, and leaves what it needs next.
LEMMA KernelNeeds ==
    ASSUME QueuesInv, NEW s \in Stream, running[s], NEW c, c = Head(queue[s]), Moves(s)
    PROVE  /\ \A b \in Reads(c) : Needs(s, b) /\ b \in Buffer
           /\ \A b \in Buffer : Needs(s, b)' => b \in Writes(c) \/ Needs(s, b)
           /\ c.chunk = AtChunk(s) /\ AtChunk(s)' = AtChunk(s) /\ TransferBuffer(c.chunk) = TransferBuffer(s)
<1>1. queue[s] # <<>> /\ c.op \notin {"await", "record"}
  BY HeadCommand DEF QueuesInv
<1>2. /\ c.chunk = AtChunk(s) /\ c.op \in Kernels
      /\ c.op = "prefetch" => AtStage(s) = 0 /\ (s = 0 => At(s) = -3 \/ At(s) >= 1)
      /\ c.op = "dot" => At(s) >= 1 /\ AtStage(s) = 2
      /\ c.op = "reduce" => At(s) >= 1 /\ AtStage(s) = 4
      /\ c.op = "reshare" => At(s) >= 1 /\ AtStage(s) = 6
      /\ c.op = "threshold" => At(s) >= 1 /\ AtStage(s) = 8
      /\ c.op = "open" => At(s) >= 1 /\ AtStage(s) = 10
  BY <1>1, HeadOps
<1>3. TransferBuffer(c.chunk) = TransferBuffer(s) /\ TransferBuffer(s) \in {"buffer0", "buffer1"}
  <2>1. AtChunk(s) % 2 = s /\ s % 2 = s
    BY Places DEF Stream
  <2> QED
    BY <1>2, <2>1 DEF TransferBuffer
<1>4. /\ At(s)' = At(s) + 1 /\ At(s) \in Int /\ AtStage(s) \in 0 .. 11 /\ (s = 1 => At(s) >= 0)
      /\ At(s) < 0 => AtStage(s)' = 0 /\ AtChunk(s)' = AtChunk(s)
      /\ At(s) >= 0 /\ AtStage(s) < 11 => AtStage(s)' = AtStage(s) + 1 /\ AtChunk(s)' = AtChunk(s)
  BY DEF Moves, QueuesInv
<1>5. s = 0 \/ s = 1
  BY DEF Stream
<1>6. ASSUME At(s) >= 1, NEW j \in 1 .. 10, AtStage(s) = j
      PROVE  AtStage(s)' = j + 1 /\ AtChunk(s)' = AtChunk(s) /\ At(s)' \notin -2 .. 0
  <2>1. At(s) >= 0 /\ AtStage(s) < 11
    BY <1>4, <1>6
  <2> QED
    BY <1>4, <1>6, <2>1
<1> DEFINE Goal == /\ \A b \in Reads(c) : Needs(s, b) /\ b \in Buffer
                   /\ \A b \in Buffer : Needs(s, b)' => b \in Writes(c) \/ Needs(s, b)
                   /\ AtChunk(s)' = AtChunk(s)
<1>7. ASSUME c.op = "prefetch" PROVE Goal
  <2>1. AtStage(s) = 0 /\ (s = 0 => At(s) = -3 \/ At(s) >= 1)
    BY <1>2, <1>7
  <2>2. \/ AtStage(s)' = 0 /\ At(s)' = -2 /\ s = 0 /\ AtChunk(s)' = AtChunk(s)
        \/ AtStage(s)' = 1 /\ AtChunk(s)' = AtChunk(s)
    BY <1>4, <1>5, <2>1
  <2>3. \A b \in Buffer : Needs(s, b)' => b = TransferBuffer(s)
    BY <2>2, SMTT(20) DEF Needs
  <2> QED
    BY <1>3, <1>7, <2>2, <2>3 DEF Reads, Writes
<1>8. ASSUME c.op = "dot" PROVE Goal
  <2>1. AtStage(s) = 2 /\ AtStage(s)' = 3 /\ AtChunk(s)' = AtChunk(s) /\ At(s)' \notin -2 .. 0
    BY <1>2, <1>6, <1>8, SMTT(20)
  <2> QED
    BY <1>3, <1>8, <2>1 DEF Reads, Writes, Needs, Buffer
<1>9. ASSUME c.op = "reduce" PROVE Goal
  <2>1. AtStage(s) = 4 /\ AtStage(s)' = 5 /\ AtChunk(s)' = AtChunk(s) /\ At(s)' \notin -2 .. 0
    BY <1>2, <1>6, <1>9, SMTT(20)
  <2> QED
    BY <1>9, <2>1 DEF Reads, Writes, Needs, Buffer
<1>10. ASSUME c.op = "reshare" PROVE Goal
  <2>1. AtStage(s) = 6 /\ AtStage(s)' = 7 /\ AtChunk(s)' = AtChunk(s) /\ At(s)' \notin -2 .. 0
    BY <1>2, <1>6, <1>10, SMTT(20)
  <2> QED
    BY <1>10, <2>1 DEF Reads, Writes, Needs, Buffer
<1>11. ASSUME c.op = "threshold" PROVE Goal
  <2>1. AtStage(s) = 8 /\ AtStage(s)' = 9 /\ AtChunk(s)' = AtChunk(s) /\ At(s)' \notin -2 .. 0
    BY <1>2, <1>6, <1>11, SMTT(20)
  <2> QED
    BY <1>11, <2>1 DEF Reads, Writes, Needs, Buffer
<1>12. ASSUME c.op = "open" PROVE Goal
  <2>1. AtStage(s) = 10 /\ AtStage(s)' = 11 /\ AtChunk(s)' = AtChunk(s) /\ At(s)' \notin -2 .. 0
    BY <1>2, <1>6, <1>12, SMTT(20)
  <2> QED
    BY <1>12, <2>1 DEF Reads, Writes, Needs, Buffer
<1>13. c.op = "prefetch" \/ c.op = "dot" \/ c.op = "reduce" \/ c.op = "reshare" \/ c.op = "threshold" \/ c.op = "open"
  BY <1>2 DEF Kernels
<1> HIDE DEF Goal
<1>14. Goal
  BY <1>7, <1>8, <1>9, <1>10, <1>11, <1>12, <1>13
<1> QED
  BY <1>2, <1>3, <1>14 DEF Goal

\* A kernel that ends and has written what it had to write.
LEMMA KernelData ==
    ASSUME QueuesInv, EventsInv, DataInv, NEW s \in Stream, running[s], NEW c, c = Head(queue[s]), Moves(s),
           size' = size, holds' \in [Buffer -> Int],
           Holds(c.chunk) => \A b \in Buffer : b \in Writes(c) => holds'[b] = c.chunk,
           \A b \in Buffer : b \notin Writes(c) => holds'[b] = holds[b]
    PROVE  DataInv'
<1>1. /\ \A b \in Buffer : Needs(s, b)' => b \in Writes(c) \/ Needs(s, b)
      /\ c.chunk = AtChunk(s) /\ AtChunk(s)' = AtChunk(s)
  BY KernelNeeds, Zenon
<1>2. \A t \in Stream : Holds(AtChunk(t))' <=> Holds(AtChunk(t)')
  BY DEF Holds
<1>3. \A k : Holds(k)' <=> Holds(k)
  BY DEF Holds
<1>4. ASSUME NEW t \in Stream, Holds(AtChunk(t)'), NEW b \in Buffer, Needs(t, b)' PROVE holds'[b] = AtChunk(t)'
  <2>1. CASE t = s
    BY <1>1, <1>4, <2>1 DEF DataInv
  <2>2. CASE t # s
    <3>1. AtChunk(t)' = AtChunk(t) /\ (Needs(t, b)' <=> Needs(t, b))
      <4>1. At(t)' = At(t) /\ AtStage(t)' = AtStage(t) /\ AtChunk(t)' = AtChunk(t)
        BY <2>2 DEF Moves
      <4> QED
        BY <4>1 DEF Needs
    <3>2. b \notin Writes(c)
      BY <1>4, <2>2, <3>1, NeedsUse, Users, Apart
    <3> QED
      BY <1>4, <3>1, <3>2 DEF DataInv
  <2> QED
    BY <2>1, <2>2
<1> QED
  BY <1>2, <1>3, <1>4 DEF DataInv

\* An event command loses nothing.
LEMMA EventData ==
    ASSUME QueuesInv, DataInv, NEW s \in Stream, AwaitEvent(s) \/ RecordEvent(s), Moves(s)
    PROVE  DataInv'
<1>1. PICK c : c = Head(queue[s])
  OBVIOUS
<1>2. queue[s] # <<>> /\ c.op \in {"await", "record"} /\ size' = size /\ holds' = holds
  BY <1>1 DEF AwaitEvent, RecordEvent
<1>3. \/ At(s) >= 1 /\ AtStage(s) \in {1, 3, 5, 7, 9, 11}
      \/ s = 0 /\ At(s) \in -2 .. 0 /\ AtStage(s) = 0
  <2>1. \A e \in Event : AwaitAt(e) \in {1, 3, 7} /\ RecordAt(e) \in {5, 9, 11} /\ FirstAt(e) \in -2 .. 0
    BY DEF AwaitAt, RecordAt, FirstAt
  <2>2. \/ c.event \in Event /\ At(s) >= 1 /\ AtStage(s) = AwaitAt(c.event)
        \/ c.event \in Event /\ At(s) >= 1 /\ AtStage(s) = RecordAt(c.event)
        \/ c.event \in Event /\ s = 0 /\ At(s) = FirstAt(c.event)
    BY <1>1, <1>2, HeadOps, Zenon
  <2>3. At(s) \in -2 .. 0 => AtStage(s) = 0
    BY DEF AtStage, Stage
  <2> QED
    BY <2>1, <2>2, <2>3
<1>4. /\ At(s)' = At(s) + 1 /\ At(s) \in Int /\ AtStage(s) \in 0 .. 11
      /\ At(s) < 0 => AtStage(s)' = 0 /\ AtStage(s) = 0 /\ AtChunk(s)' = AtChunk(s)
      /\ At(s) >= 0 /\ AtStage(s) < 11 => AtStage(s)' = AtStage(s) + 1 /\ AtChunk(s)' = AtChunk(s)
      /\ At(s) >= 0 /\ AtStage(s) = 11 => AtStage(s)' = 0
  BY DEF Moves
<1>5. ASSUME NEW b \in Buffer, Needs(s, b)' PROVE Needs(s, b) /\ AtChunk(s)' = AtChunk(s)
  BY <1>3, <1>4, <1>5 DEF Needs
<1>6. ASSUME NEW t \in Stream, t # s, NEW b \in Buffer, Needs(t, b)' PROVE Needs(t, b) /\ AtChunk(t)' = AtChunk(t)
  BY <1>6 DEF Needs, Moves
<1>7. \A t \in Stream, b \in Buffer : Needs(t, b)' => Needs(t, b) /\ AtChunk(t)' = AtChunk(t)
  BY <1>5, <1>6
<1> QED
  BY <1>2, <1>7 DEF DataInv, Holds

\* The host is where its last chunk of entries is, or past it.
LEMMA OpenedIssued ==
    ASSUME QueuesInv, NEW s \in Stream, queue[s] # <<>>, AtStage(s) >= 1
    PROVE  AtChunk(s) < chunk
<1>1. /\ s = 0 \/ s = 1
      /\ chunk \in Nat /\ Len(queue[s]) \in Nat \ {0} /\ At(s) \in Int /\ Issued(s) \in Int
      /\ At(s) = Issued(s) - Len(queue[s]) /\ At(s) >= (IF s = 0 THEN -3 ELSE 0)
  <2>1. queue[s] \in Seq(Commands)
    BY DEF QueuesInv
  <2>2. Len(queue[s]) # 0
    BY <2>1
  <2> QED
    BY <2>2, AtTyped DEF QueuesInv, Stream, At
<1>1a. chunk \in Nat /\ s \in Nat /\ (s = 0 \/ s = 1)
  BY <1>1
<1>2. At(s) > 0
  BY <1>1 DEF AtStage, Stage
<1>3. Started
  BY <1>1, <1>2 DEF Issued
<1>4. PICK m \in Nat, j \in 1 .. 11 : At(s) = 12 * m + j /\ AtChunk(s) = s + 2 * m
  <2>1. PICK y \in Nat : y = At(s) /\ y > 0
    BY <1>1, <1>2
  <2>2. y \div 12 \in Nat /\ y % 12 \in 0 .. 11 /\ y = 12 * (y \div 12) + (y % 12)
    OBVIOUS
  <2>3. y % 12 >= 1 /\ AtChunk(s) = s + 2 * (y \div 12)
    BY <2>1 DEF AtStage, Stage, AtChunk, ChunkOf
  <2>4. PICK m \in Nat, j \in 0 .. 11 : m = y \div 12 /\ j = y % 12
    BY <2>2
  <2>5. j \in 1 .. 11 /\ At(s) = 12 * m + j /\ AtChunk(s) = s + 2 * m
    BY <2>1, <2>2, <2>3, <2>4
  <2> QED
    BY <2>5
<1>5. 12 * m + j < Issued(s)
  BY <1>1, <1>4
<1>6. CASE s = chunk % 2
  <2>1. PICK h \in Nat : chunk = s + 2 * h
    BY <1>1a, <1>6, Halves, Zenon
  <2>2. Issued(s) = 12 * h + 1
    <3>1. Issued(s) = 6 * (chunk - s) + 1
      BY <1>3, <1>6 DEF Issued
    <3>2. chunk - s = 2 * h
      BY <1>1a, <2>1
    <3> QED
      BY <3>1, <3>2
  <2> QED
    BY <1>1a, <1>4, <1>5, <2>1, <2>2
<1>7. CASE s # chunk % 2
  <2>2. PICK h \in Nat : chunk + 1 = s + 2 * h
    BY <1>1a, <1>7, Halves, Zenon
  <2>3. Issued(s) = 12 * h
    <3>1. Issued(s) = 6 * (chunk + 1 - s)
      BY <1>3, <1>7 DEF Issued
    <3>2. chunk + 1 - s = 2 * h
      BY <1>1a, <2>2
    <3> QED
      BY <3>1, <3>2
  <2> QED
    BY <1>1a, <1>4, <1>5, <2>2, <2>3
<1> QED
  BY <1>6, <1>7

\* At the end both streams are past the last chunk.
LEMMA FinishedPlaces ==
    ASSUME QueuesInv, Finished, NEW s \in Stream
    PROVE  AtChunk(s) >= chunk /\ chunk > 0
<1>1. /\ s = 0 \/ s = 1
      /\ chunk \in Nat /\ chunk # 0 /\ queue[s] = <<>> /\ Started
  BY DEF QueuesInv, Stream, Finished, More
<1>2. Len(queue[s]) = 0 /\ Issued(s) \in Int
  BY <1>1, AtTyped
<1>3. At(s) = Issued(s)
  BY <1>2 DEF At
<1>4. CASE s = chunk % 2
  <2>1. PICK h \in Nat : chunk = s + 2 * h
    BY <1>1, <1>4, Halves, Zenon
  <2>2. At(s) = 12 * h + 1
    BY <1>1, <1>3, <1>4, <2>1 DEF Issued
  <2>3. ChunkOf(s, 12 * h + 1) = s + 2 * h
    BY Numbers
  <2> QED
    BY <1>1, <2>1, <2>2, <2>3 DEF AtChunk
<1>5. CASE s # chunk % 2
  <2>2. PICK h \in Nat : chunk + 1 = s + 2 * h
    BY <1>1, <1>5, Halves, Zenon
  <2>3. At(s) = 12 * h
    BY <1>1, <1>3, <1>5, <2>2 DEF Issued
  <2>4. ChunkOf(s, 12 * h + 0) = s + 2 * h /\ 12 * h + 0 = 12 * h
    BY Numbers
  <2> QED
    BY <1>1, <2>2, <2>3, <2>4 DEF AtChunk
<1> QED
  BY <1>1, <1>4, <1>5

\* A match is a pair of numbers.
LEMMA MatchPairs == \A m \in Match : m[1] \in Nat /\ m[2] \in Nat /\ m = <<m[1], m[2]>>
BY MatchAssumption

\* The bits of a chunk with entries: all its matches, and no others.
LEMMA OpenBits ==
    ASSUME HostInv, NEW s \in Stream, Open(s), NEW k \in Nat, k = Head(queue[s]).chunk,
           Holds(k), holds["lifted"] = k
    PROVE  /\ \A m \in Match : m[1] \in Query /\ m[2] < size /\ InChunk(m[2], k) => size * m[1] + m[2] \in bits'
           /\ bits' \subseteq bits \cup TrueBits
<1>1. size \in 0 .. MaxSize /\ MaxSize \in Nat
  BY SizesAssumption DEF HostInv
<1>2. size \in Nat /\ size # 0
  BY <1>1, SizesAssumption DEF Holds
<1>3. PICK o \in Nat, w \in Nat : /\ o = ChunkSize * k /\ w = chunk_size(k) /\ o + w <= size
                                  /\ \A e \in Nat : InChunk(e, k) /\ e < size => e < o + w
                                  /\ Opened(k) = 0 .. w - 1
  <2>1. ChunkSize * k \in Nat /\ chunk_size(k) \in Nat
    <3>1. chunk_size(k) \in 1 .. ChunkSize
      BY <1>1, ChunkFacts, Zenon
    <3>2. ChunkSize \in Nat
      BY SizesAssumption
    <3> QED
      BY <3>1, <3>2
  <2>2. /\ ChunkSize * k + chunk_size(k) <= size
        /\ \A e \in Nat : InChunk(e, k) /\ e < size => e < ChunkSize * k + chunk_size(k)
        /\ Opened(k) = 0 .. chunk_size(k) - 1
    BY <1>1, ChunkFacts, Zenon
  <2> QED
    BY <2>1, <2>2
<1>4. PICK set \in SUBSET (Query \X Opened(k)) :
         /\ \A x \in Query \X Opened(k) : x[2] < chunk_size(k) => (x \in set <=> <<x[1], ChunkSize * k + x[2]>> \in Match)
         /\ bits' = bits \cup {size * x[1] + x[2] + ChunkSize * k : x \in set}
  BY <1>2 DEF Open
<1>4a. o = ChunkSize * k /\ w = chunk_size(k) /\ o + w <= size
  BY <1>3
<1>5. ASSUME NEW m \in Match, m[1] \in Query, m[2] < size, InChunk(m[2], k) PROVE size * m[1] + m[2] \in bits'
  <2>1. PICK q \in Nat, e \in Nat : q = m[1] /\ e = m[2] /\ m = <<q, e>>
    BY MatchPairs
  <2>2. o <= e /\ e < o + w
    BY <1>3, <1>5, <2>1 DEF InChunk
  <2>3. PICK d \in 0 .. w - 1 : e = o + d
    <3>1. e - o \in 0 .. w - 1 /\ e = o + (e - o)
      BY <2>2
    <3> QED
      BY <3>1
  <2>4. <<q, d>> \in Query \X Opened(k) /\ <<q, d>>[1] = q /\ <<q, d>>[2] = d /\ d < chunk_size(k)
    <3>1. q \in Query /\ d \in Opened(k) /\ d < chunk_size(k)
      BY <1>3, <1>5, <2>1
    <3> QED
      BY <3>1
  <2>5. <<q, d>> \in set
    <3>1. <<q, ChunkSize * k + d>> \in Match
      BY <1>4a, <2>1, <2>3
    <3> QED
      BY <1>4, <2>4, <3>1
  <2>6. size * q + d + ChunkSize * k \in bits'
    BY <1>4, <2>4, <2>5
  <2>7. size * q + d + ChunkSize * k = size * q + e
    <3>1. PICK p \in Nat : p = size * q
      BY <1>2
    <3> QED
      BY <1>4a, <2>3, <3>1
  <2> QED
    BY <2>1, <2>6, <2>7
<1>6. ASSUME NEW x \in set PROVE size * x[1] + x[2] + ChunkSize * k \in TrueBits
  <2>1. PICK q \in Query, d \in 0 .. w - 1 : x = <<q, d>>
    BY <1>3, <1>6
  <2>2. x[1] = q /\ x[2] = d /\ q \in Nat /\ x \in Query \X Opened(k)
    BY <2>1, MatchAssumption
  <2>3. <<q, o + d>> \in Match
    <3>1. x[2] < chunk_size(k)
      BY <1>4a, <2>2
    <3>2. <<x[1], ChunkSize * k + x[2]>> \in Match
      BY <1>4, <1>6, <2>2, <3>1
    <3> QED
      BY <1>4a, <2>2, <3>2
  <2>4. PICK m \in Match : m = <<q, o + d>>
    BY <2>3
  <2>5. m[1] = q /\ m[2] = o + d /\ m[1] \in Query /\ m[2] < size
    <3>1. o + d < size
      BY <1>2, <1>4a
    <3> QED
      BY <2>4, <3>1
  <2>6. size * m[1] + m[2] \in TrueBits
    BY <2>5 DEF TrueBits
  <2>7. size * m[1] + m[2] = size * x[1] + x[2] + ChunkSize * k
    <3>1. PICK p \in Nat : p = size * q
      BY <1>2, <2>2
    <3> QED
      BY <1>4a, <2>2, <2>5, <3>1
  <2> QED
    BY <2>6, <2>7
<1>7. bits' \subseteq bits \cup TrueBits
  BY <1>4, <1>6
<1> QED
  BY <1>5, <1>7

\* The stream that moves on has opened nothing more, unless it is at its open.
LEMMA OpenedBefore ==
    ASSUME NEW s \in Stream, Moves(s), AtStage(s) # 10, NEW t \in Stream, NEW k \in Nat, k % 2 = t, HasOpened(t, k)'
    PROVE  HasOpened(t, k)
<1>1. CASE t # s
  BY <1>1 DEF Moves, HasOpened
<1>2. CASE t = s
  <2>1. /\ At(s) \in Int /\ AtStage(s) \in 0 .. 11 /\ AtChunk(s) \in Nat /\ AtChunk(s) % 2 = s
        /\ \/ AtStage(s)' \in {0, AtStage(s) + 1} /\ AtStage(s) < 11 /\ AtChunk(s)' = AtChunk(s)
           \/ AtStage(s)' = 0 /\ AtStage(s) = 11 /\ AtChunk(s)' = AtChunk(s) + 2
    BY DEF Moves
  <2>2. k # AtChunk(s) + 1
    BY <1>2, <2>1, Parity DEF Stream
  <2> QED
    BY <1>2, <2>1, <2>2 DEF HasOpened
<1> QED
  BY <1>1, <1>2

\* What opens no chunk leaves the bitmap right.
LEMMA BitsStay ==
    ASSUME BitsInv, size' = size, maxSize' = maxSize, bits' = bits,
           \A t \in Stream, k \in Nat : k % 2 = t /\ HasOpened(t, k)' => HasOpened(t, k)
    PROVE  BitsInv'
<1>1. TrueBits' = TrueBits /\ (UsedUp' <=> UsedUp)
  BY DEF TrueBits, UsedUp
<1>2. \A e, k : InChunk(e, k)' <=> InChunk(e, k)
  BY DEF InChunk
<1> QED
  BY <1>1, <1>2 DEF BitsInv

\* A chunk without entries is opened only on a device that is used up.
LEMMA EmptyChunk ==
    ASSUME QueuesInv, HostInv, NEW s \in Stream, queue[s] # <<>>, AtStage(s) >= 1, ~Holds(AtChunk(s)), size # 0
    PROVE  UsedUp
<1>1. PICK k \in Nat, n \in Nat \ {0}, h \in Nat : k = AtChunk(s) /\ n = ChunkSize /\ h = chunk /\ k < h
  BY OpenedIssued, Places, SizesAssumption DEF QueuesInv
<1>2. size \in Nat /\ size > 0 /\ maxSize \in {size, size + 1} /\ (h > 1 => n * (h - 1) < maxSize)
  BY <1>1, SizesAssumption DEF HostInv
<1>3. ~(n * k < size)
  BY <1>1 DEF Holds
<1>4. k >= 1 /\ h > 1
  BY <1>1, <1>2, <1>3
<1>5. PICK o \in Nat, p \in Nat : o = n * k /\ p = n * (h - 1) /\ o <= p
  <2>1. h - 1 \in Nat /\ k <= h - 1
    BY <1>1, <1>4
  <2> QED
    BY <1>1, <2>1, Grows
<1>6. o = size /\ maxSize = size + 1
  BY <1>2, <1>3, <1>4, <1>5
<1>7. (n * k) % n = 0
  BY <1>1, Multiple
<1> QED
  BY <1>1, <1>2, <1>5, <1>6, <1>7 DEF UsedUp

\* The bitmap after a chunk has been opened.
LEMMA OpenKeeps ==
    ASSUME QueuesInv, EventsInv, DataInv, HostInv, BitsInv, NEW s \in Stream, Open(s), Moves(s)
    PROVE  BitsInv'
<1>1. PICK c : c = Head(queue[s])
  OBVIOUS
<1>2. running[s] /\ c.op = "open" /\ size' = size /\ maxSize' = maxSize
  BY <1>1 DEF Open, Ends
<1>3. queue[s] # <<>>
  BY <1>2 DEF QueuesInv
<1>4. AtStage(s) = 10 /\ At(s) >= 1 /\ c.chunk = AtChunk(s)
  BY <1>1, <1>2, <1>3, HeadOps
<1>5. PICK n \in Nat : n = AtChunk(s) /\ n = c.chunk
  BY <1>4, Places
<1>6. AtStage(s)' = 11 /\ AtChunk(s)' = n
  <2>1. At(s) \in Int
    BY DEF Moves
  <2> QED
    BY <1>4, <1>5, <2>1 DEF Moves
<1>7. Holds(n) => holds["lifted"] = n
  BY <1>4, <1>5 DEF DataInv, Needs, Buffer
<1>8. Holds(n) => /\ \A m \in Match : m[1] \in Query /\ m[2] < size /\ InChunk(m[2], n) => size * m[1] + m[2] \in bits'
                  /\ bits' \subseteq bits \cup TrueBits
  BY <1>1, <1>5, <1>7, OpenBits
<1>9. bits \subseteq bits'
  BY DEF Open
<1>10. ASSUME ~Holds(n), ~UsedUp PROVE bits' = bits
  <2>1. size = 0
    BY <1>3, <1>4, <1>5, <1>10, EmptyChunk
  <2> QED
    BY <2>1 DEF Open
<1>11. ASSUME NEW t \in Stream, NEW k \in Nat, k % 2 = t, HasOpened(t, k)', NEW m \in Match,
              m[1] \in Query, m[2] < size, InChunk(m[2], k)
       PROVE  size * m[1] + m[2] \in bits'
  <2>1. CASE HasOpened(t, k)
    BY <1>9, <1>11, <2>1 DEF BitsInv
  <2>2. CASE ~HasOpened(t, k)
    <3>1. t = s /\ k = n
      <4>1. t # s => (HasOpened(t, k)' <=> HasOpened(t, k))
        BY DEF HasOpened, Moves
      <4>2. t = s
        BY <1>11, <2>2, <4>1
      <4>3. HasOpened(s, k)' /\ ~HasOpened(s, k)
        BY <1>11, <2>2, <4>2
      <4>4. k < n \/ k = n
        BY <1>6, <4>3 DEF HasOpened
      <4>5. ~(k < n)
        BY <1>5, <4>3 DEF HasOpened
      <4> QED
        BY <4>2, <4>4, <4>5
    <3>2. Holds(n)
      <4>1. PICK o \in Nat, e \in Nat : o = ChunkSize * n /\ e = m[2]
        BY <1>5, MatchPairs, SizesAssumption
      <4>2. size \in Nat
        BY SizesAssumption DEF HostInv
      <4> QED
        BY <1>11, <3>1, <4>1, <4>2 DEF InChunk, Holds
    <3> QED
      BY <1>8, <1>11, <3>1, <3>2
  <2> QED
    BY <2>1, <2>2
<1>12. TrueBits' = TrueBits /\ (UsedUp' <=> UsedUp)
  BY <1>2 DEF TrueBits, UsedUp
<1>13. ~UsedUp' => bits' \subseteq TrueBits'
  BY <1>8, <1>10, <1>12 DEF BitsInv
<1>14. \A e, k : InChunk(e, k)' <=> InChunk(e, k)
  BY DEF InChunk
<1> QED
  BY <1>2, <1>11, <1>13, <1>14 DEF BitsInv

\* A chunk with entries lies inside the shard and is transferred.
LEMMA PrefetchKeeps ==
    ASSUME QueuesInv, EventsInv, DataInv, HostInv, NEW s \in Stream, Prefetch(s), Moves(s)
    PROVE  DataInv'
<1>1. PICK c : c = Head(queue[s])
  OBVIOUS
<1>2. running[s] /\ c.op = "prefetch" /\ size' = size
  BY <1>1 DEF Prefetch, Ends
<1>3. PICK k \in Nat, b \in Buffer : k = c.chunk /\ b = TransferBuffer(k)
  <2>1. c.chunk \in Nat
    BY <1>1, <1>2, KernelNeeds, Places
  <2> QED
    BY <2>1 DEF TransferBuffer, Buffer
<1>4. holds \in [Buffer -> Int] /\ size \in 0 .. MaxSize /\ Writes(c) = {b}
  BY <1>2, <1>3 DEF DataInv, HostInv, Writes
<1>5. holds' = holds \/ holds' = [holds EXCEPT ![b] = k]
  BY <1>1, <1>3 DEF Prefetch
<1>6. Holds(k) => holds' = [holds EXCEPT ![b] = k]
  <2> SUFFICES ASSUME Holds(k) PROVE holds' = [holds EXCEPT ![b] = k]
    OBVIOUS
  <2>1. PICK o \in Nat, w \in Nat : o = PrefetchOffset(k) /\ w = chunk_size(k) /\ o < size /\ o + w <= size
    <3>1. /\ chunk_size(k) \in 1 .. ChunkSize /\ ChunkSize \in Nat /\ ChunkSize * k + chunk_size(k) <= size
          /\ PrefetchOffset(k) = ChunkSize * k
      BY <1>4, ChunkFacts, SizesAssumption
    <3>2. PICK o \in Nat : o = ChunkSize * k
      BY <3>1
    <3> QED
      BY <3>1, <3>2 DEF Holds
  <2>2. size \in Nat /\ ~(o >= size \/ o + w > size)
    BY <1>4, <2>1, SizesAssumption
  <2> QED
    BY <1>1, <1>3, <2>1, <2>2 DEF Prefetch
<1>7. holds' \in [Buffer -> Int] /\ \A a \in Buffer : a # b => holds'[a] = holds[a]
  BY <1>3, <1>4, <1>5
<1>8. Holds(c.chunk) => \A a \in Buffer : a \in Writes(c) => holds'[a] = c.chunk
  BY <1>3, <1>4, <1>6
<1>9. \A a \in Buffer : a \notin Writes(c) => holds'[a] = holds[a]
  BY <1>4, <1>7
<1> QED
  BY <1>1, <1>2, <1>7, <1>8, <1>9, KernelData

\* A kernel computes from what its stream needs.
LEMMA ComputeKeeps ==
    ASSUME QueuesInv, EventsInv, DataInv, NEW s \in Stream, Compute(s), Moves(s)
    PROVE  DataInv'
<1>1. PICK c : c = Head(queue[s])
  OBVIOUS
<1>2. running[s] /\ size' = size
  BY DEF Compute, Ends
<1>3. c.chunk = AtChunk(s) /\ AtChunk(s) \in Nat /\ \A b \in Reads(c) : Needs(s, b) /\ b \in Buffer
  <2>1. c.chunk = AtChunk(s) /\ \A b \in Reads(c) : Needs(s, b) /\ b \in Buffer
    BY <1>1, <1>2, KernelNeeds, Zenon
  <2> QED
    BY <2>1, Places
<1>4. PICK result \in Int : /\ result = IF \A b \in Reads(c) : holds[b] = c.chunk THEN c.chunk ELSE Garbage
                            /\ holds' = [b \in Buffer |-> IF b \in Writes(c) THEN result ELSE holds[b]]
  <2>1. (IF \A b \in Reads(c) : holds[b] = c.chunk THEN c.chunk ELSE Garbage) \in Int
    BY <1>3 DEF Garbage
  <2> QED
    BY <1>1, <2>1 DEF Compute
<1>5. Holds(c.chunk) => result = c.chunk
  BY <1>3, <1>4 DEF DataInv
<1>6. holds' \in [Buffer -> Int]
  BY <1>4 DEF DataInv
<1>7. Holds(c.chunk) => \A b \in Buffer : b \in Writes(c) => holds'[b] = c.chunk
  BY <1>4, <1>5
<1>8. \A b \in Buffer : b \notin Writes(c) => holds'[b] = holds[b]
  BY <1>4
<1> QED
  BY <1>1, <1>2, <1>6, <1>7, <1>8, KernelData

\* Opening writes no buffer.
LEMMA OpenKeepsData ==
    ASSUME QueuesInv, EventsInv, DataInv, NEW s \in Stream, Open(s), Moves(s)
    PROVE  DataInv'
<1>1. PICK c : c = Head(queue[s])
  OBVIOUS
<1>2. running[s] /\ size' = size /\ c.op = "open" /\ holds' = holds
  BY <1>1 DEF Open, Ends
<1>3. Writes(c) = {}
  BY <1>2 DEF Writes
<1>4. holds' \in [Buffer -> Int]
  BY <1>2 DEF DataInv
<1> QED
  BY <1>1, <1>2, <1>3, <1>4, KernelData

SearchInv == QueuesInv /\ EventsInv /\ DataInv /\ HostInv /\ BitsInv

\* What moves no stream and touches no buffer.
LEMMA SearchStays ==
    ASSUME DataInv, BitsInv, \A s \in Stream : At(s)' = At(s),
           size' = size, maxSize' = maxSize, holds' = holds, bits' = bits
    PROVE  DataInv' /\ BitsInv'
<1>1. \A s \in Stream : AtStage(s)' = AtStage(s) /\ AtChunk(s)' = AtChunk(s)
  BY DEF AtStage, AtChunk
<1>2. \A s \in Stream, b \in Buffer : Needs(s, b)' <=> Needs(s, b)
  BY <1>1 DEF Needs
<1>3. \A s \in Stream, k \in Nat : HasOpened(s, k)' <=> HasOpened(s, k)
  BY <1>1 DEF HasOpened
<1>4. BitsInv'
  BY <1>3, BitsStay
<1>5. DataInv'
  BY <1>1, <1>2 DEF DataInv, Holds
<1> QED
  BY <1>4, <1>5

\* The search starts with nothing computed and nothing found.
LEMMA InitSearch == Init => SearchInv
<1> SUFFICES ASSUME Init PROVE SearchInv
  OBVIOUS
<1>1. QueuesInv /\ EventsInv /\ At(0) = -3 /\ At(1) = 0 /\ \A s \in Stream : s = 0 \/ s = 1
  BY InitStreams DEF Stream
<1>2. AtStage(0) = 0 /\ AtStage(1) = 0 /\ AtChunk(0) = 0 /\ AtChunk(1) = 1
  BY <1>1 DEF AtStage, Stage, AtChunk, ChunkOf
<1>3. \A s \in Stream, b \in Buffer : ~Needs(s, b)
  BY <1>1, <1>2 DEF Needs
<1>4. DataInv
  BY <1>3 DEF DataInv, Init, Garbage
<1>5. \A s \in Stream, k \in Nat : k % 2 = s => ~HasOpened(s, k)
  BY <1>1, <1>2 DEF HasOpened
<1>6. BitsInv
  BY <1>5 DEF BitsInv, Init
<1>7. HostInv
  BY DEF HostInv, Init
<1> QED
  BY <1>1, <1>4, <1>6, <1>7 DEF SearchInv

\* A command that ends, other than an open, leaves the bitmap.
LEMMA MovesBits ==
    ASSUME BitsInv, NEW s \in Stream, Moves(s), AtStage(s) # 10,
           size' = size, maxSize' = maxSize, bits' = bits
    PROVE  BitsInv'
<1>1. \A t \in Stream, k \in Nat : k % 2 = t /\ HasOpened(t, k)' => HasOpened(t, k)
  BY OpenedBefore
<1> QED
  BY <1>1, BitsStay

\* Every step keeps the invariant.
LEMMA SearchNext == ASSUME SearchInv, [Next]_vars PROVE SearchInv'
<1>1. QueuesInv /\ EventsInv /\ DataInv /\ HostInv /\ BitsInv
  BY DEF SearchInv
<1>2. QueuesInv' /\ EventsInv'
  BY <1>1, StreamsNext
<1>3. size' = size /\ maxSize' = maxSize /\ (chunk' = chunk \/ IssueChunk)
  <2>1. IssueFirst \/ UNCHANGED vars => size' = size /\ maxSize' = maxSize /\ chunk' = chunk
    BY DEF IssueFirst, vars
  <2>2. ASSUME NEW s \in Stream, AwaitEvent(s) \/ RecordEvent(s) \/ Launch(s)
        PROVE  size' = size /\ maxSize' = maxSize /\ chunk' = chunk
    BY <2>2 DEF AwaitEvent, RecordEvent, Launch
  <2>3. ASSUME NEW s \in Stream, Prefetch(s) \/ Compute(s) \/ Open(s)
        PROVE  size' = size /\ maxSize' = maxSize /\ chunk' = chunk
    BY <2>3, Zenon DEF Prefetch, Compute, Open, Ends
  <2>4. IssueChunk => size' = size /\ maxSize' = maxSize
    BY DEF IssueChunk
  <2> QED
    BY <2>1, <2>2, <2>3, <2>4 DEF Next
<1>4. HostInv'
  <2>1. CASE chunk' = chunk
    BY <1>1, <1>3, <2>1 DEF HostInv
  <2>2. CASE IssueChunk
    <3>1. chunk \in Nat /\ chunk' = chunk + 1 /\ (chunk = 0 \/ chunk * ChunkSize < maxSize) /\ ChunkSize \in Nat
      BY <1>1, <2>2, SizesAssumption DEF IssueChunk, More, QueuesInv
    <3>2. chunk * ChunkSize = ChunkSize * (chunk' - 1)
      BY <3>1
    <3>3. chunk' > 1 => chunk # 0
      BY <3>1
    <3> QED
      BY <1>1, <1>3, <3>1, <3>2, <3>3 DEF HostInv
  <2> QED
    BY <1>3, <2>1, <2>2
<1>5. DataInv' /\ BitsInv'
  <2>1. CASE IssueFirst
    BY <1>1, <2>1, IssueFirstQueues, SearchStays DEF IssueFirst
  <2>2. CASE IssueChunk
    BY <1>1, <2>2, IssueChunkQueues, SearchStays DEF IssueChunk
  <2>3. ASSUME NEW s \in Stream, AwaitEvent(s) \/ RecordEvent(s) PROVE DataInv' /\ BitsInv'
    <3>1. Moves(s)
      BY <1>1, <2>3, EventStreams
    <3>2. DataInv'
      BY <1>1, <2>3, <3>1, EventData
    <3>3. queue[s] # <<>> /\ Head(queue[s]).op \in {"await", "record"} /\ bits' = bits
      BY <2>3 DEF AwaitEvent, RecordEvent
    <3>4. AtStage(s) # 10
      <4>1. PICK c : c = Head(queue[s])
        OBVIOUS
      <4>2. \/ c.event \in Event /\ AtStage(s) = AwaitAt(c.event)
            \/ c.event \in Event /\ AtStage(s) = RecordAt(c.event)
            \/ c.event \in Event /\ At(s) = FirstAt(c.event)
        BY <1>1, <3>3, <4>1, HeadOps, Zenon
      <4>3. At(s) <= 0 => AtStage(s) = 0
        BY DEF AtStage, Stage
      <4> QED
        BY <4>2, <4>3 DEF AwaitAt, RecordAt, FirstAt
    <3> QED
      BY <1>1, <1>3, <3>1, <3>2, <3>3, <3>4, MovesBits
  <2>4. ASSUME NEW s \in Stream, Launch(s) PROVE DataInv' /\ BitsInv'
    <3>1. holds' = holds /\ bits' = bits
      BY <2>4 DEF Launch
    <3>2. \A t \in Stream : At(t)' = At(t)
      BY <1>1, <2>4, LaunchStreams
    <3> QED
      BY <1>1, <1>3, <3>1, <3>2, SearchStays
  <2>5. ASSUME NEW s \in Stream, Prefetch(s) \/ Compute(s) \/ Open(s) PROVE DataInv' /\ BitsInv'
    <3>1. PICK op \in Kernels : Ends(s, op)
      BY <2>5, Zenon DEF Prefetch, Compute, Open, Kernels
    <3>2. Moves(s)
      BY <1>1, <3>1, EndsStreams
    <3>3. CASE Open(s)
      BY <1>1, <3>2, <3>3, OpenKeeps, OpenKeepsData
    <3>4. CASE Prefetch(s) \/ Compute(s)
      <4>1. DataInv'
        BY <1>1, <3>2, <3>4, PrefetchKeeps, ComputeKeeps
      <4>2. running[s] /\ Head(queue[s]).op \in {"prefetch", "dot", "reduce", "reshare", "threshold"} /\ bits' = bits
        BY <3>4, Zenon DEF Prefetch, Compute, Ends
      <4>3. queue[s] # <<>>
        BY <1>1, <4>2 DEF QueuesInv
      <4>4. AtStage(s) \in {0, 2, 4, 6, 8}
        BY <1>1, <4>2, <4>3, HeadOps
      <4> QED
        BY <1>1, <1>3, <3>2, <4>1, <4>2, <4>4, MovesBits
    <3> QED
      BY <2>5, <3>3, <3>4
  <2>6. CASE UNCHANGED vars
    <3>1. \A s \in Stream : At(s)' = At(s)
      BY <2>6 DEF vars, At, Issued, Started
    <3> QED
      BY <1>1, <2>6, <3>1, SearchStays DEF vars
  <2> QED
    BY <2>1, <2>2, <2>3, <2>4, <2>5, <2>6 DEF Next
<1> QED
  BY <1>2, <1>4, <1>5 DEF SearchInv

\* At the end every entry's chunk has been opened.
LEMMA SearchEnds == SearchInv => SearchIsRight
<1> SUFFICES ASSUME SearchInv, Finished PROVE TrueBits \subseteq bits /\ (~UsedUp => bits = TrueBits)
  BY DEF SearchIsRight, SearchComplete, SearchExact
<1>1. QueuesInv /\ HostInv /\ BitsInv
  BY DEF SearchInv
<1>2. PICK n \in Nat \ {0}, h \in Nat : n = ChunkSize /\ h = chunk /\ h > 0
  BY <1>1, FinishedPlaces, SizesAssumption DEF QueuesInv, Stream
<1>3. size \in Nat /\ maxSize \in {size, size + 1} /\ ~(h * n < maxSize)
  BY <1>1, <1>2, SizesAssumption DEF HostInv, Finished, More
<1>4. ASSUME NEW m \in Match, m[1] \in Query, m[2] < size PROVE size * m[1] + m[2] \in bits
  <2>1. PICK e \in Nat : e = m[2]
    BY MatchPairs
  <2>2. e \div n \in Nat /\ n * (e \div n) <= e /\ e < n * (e \div n) + n
    BY <1>2
  <2>3. PICK k \in Nat : k = e \div n
    BY <2>2
  <2>4. InChunk(m[2], k)
    BY <1>2, <2>1, <2>2, <2>3 DEF InChunk
  <2>5. k < h
    <3> SUFFICES ASSUME h <= k PROVE FALSE
      BY <1>2
    <3>1. PICK p \in Nat, o \in Nat : p = n * h /\ o = n * k /\ p <= o
      BY <1>2, Grows
    <3>2. p = h * n
      BY <1>2, <3>1
    <3> QED
      BY <1>3, <1>4, <2>1, <2>2, <2>3, <3>1, <3>2
  <2>6. PICK s \in Stream : s = k % 2
    BY Parity DEF Stream
  <2>7. AtChunk(s) >= h /\ AtChunk(s) \in Nat
    BY <1>1, <1>2, FinishedPlaces, Places
  <2>8. HasOpened(s, k)
    BY <1>2, <2>5, <2>7 DEF HasOpened
  <2> QED
    BY <1>1, <1>4, <2>4, <2>6, <2>8 DEF BitsInv
<1>5. TrueBits \subseteq bits
  BY <1>4 DEF TrueBits
<1> QED
  BY <1>1, <1>5 DEF BitsInv

\* Whatever the size of the shard and of its chunks, and however the streams
\* interleave: when compare_query_against_db_and_self is done, every match with
\* an entry of this shard is in the bitmap, and, unless the shard ended at a
\* chunk before that of another device, nothing else is.
THEOREM SearchIsAlwaysRight == Spec => []SearchIsRight
<1>1. Init => SearchInv
  BY InitSearch
<1>2. SearchInv /\ [Next]_vars => SearchInv'
  BY SearchNext
<1>3. SearchInv => SearchIsRight
  BY SearchEnds
<1> QED
  BY <1>1, <1>2, <1>3, PTL DEF Spec

=============================================================================
