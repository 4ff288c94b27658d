---------------------------- MODULE MCCpuProtocol ----------------------------
(* Dot products of at most MaxMask, whose trimmed masks count twice, under a *)
(* few sharings.  Timeouts are allowed on a few inputs of every operation.   *)
EXTENDS CpuProtocol, Bitwise

MCXor(x, y) == x ^^ y
MCKeystream(seed, at, i) == 7 * (seed + 1) + at * at + 3 * at * i + 5 * i + (at * (seed + 2)) \div 3

MaxMask == (2^(K + 1) - 1) \div 5
Dots == {<<c, t>> \in (-MaxMask .. MaxMask) \X (0 .. MaxMask \div 2) : c <= 2 * t /\ -c <= 2 * t}

Shared(w, m0, m1) == [p \in Role |-> CASE p = 0 -> m0 [] p = 1 -> m1 [] OTHER -> (w - m0 - m1) % U16]

Ask(op, pairs, m, timeouts) ==
    LET n == Len(pairs)
    IN  [op |-> op, timeouts |-> timeouts,
         code |-> [p \in Role |-> [i \in 1 .. n |-> Shared(pairs[i][1], m, 2^(K - 1) + i)[p]]],
         mask |-> [p \in Role |-> [i \in 1 .. n |-> Shared(pairs[i][2], 2 * m + 1, m)[p]]]]

MCInputs ==
    {Ask(op, <<d>>, m, FALSE) : op \in {"is_match", "threshold"}, d \in Dots, m \in {0, 5, 2^K - 1}}
    \cup {Ask("less_than", <<d, e>>, 6, FALSE) : d \in Dots, e \in Dots}
    \cup {Ask(op, <<<<2, 1>>, <<1, 2>>>>, 3, TRUE) : op \in {"is_match", "threshold", "less_than"}}
=============================================================================
