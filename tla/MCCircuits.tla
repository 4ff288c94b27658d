----------------------------- MODULE MCCircuits -----------------------------
(* Every pair of dot products within range and every sharing of the mask by *)
(* the first party; then, with a match and with a non-match, the or-tree     *)
(* over other lanes of which at most two hold a match.  The keystream is a   *)
(* fixed one without a short period.                                         *)
EXTENDS Circuits, Bitwise

MCXor(x, y) == x ^^ y
MCKeystream(seed, at, i) == 7 * (seed + 1) + at * at + 3 * at * i + 5 * i + (at * (seed + 2)) \div 3

Shared(w, m0, m1) == [p \in Party |-> CASE p = 0 -> m0 [] p = 1 -> m1 [] OTHER -> (w - m0 - m1) % 2^K]

\* |code| <= mask, and mask * (A + B) is within the lifted ring.
MaxMask == (2^(K + 1) - 1) \div 5
Dots == {d \in (-MaxMask .. MaxMask) \X (0 .. MaxMask) : d[1] <= d[2] /\ -d[1] <= d[2]}

Lanes == 0 .. words(chunk_size) - 1
Pad(d, p) == [i \in Lanes |-> (MCKeystream(p, d + 5, i) \div 2) % 2]
Others(S) == [d \in Device |-> [p \in Party |->
    IF p < 2 THEN Pad(d, p)
    ELSE [i \in Lanes |-> (Pad(d, 0)[i] + Pad(d, 1)[i] + (IF <<d, i>> \in S THEN 1 ELSE 0)) % 2]]]

MCInputs ==
    {[code |-> Shared(d[1], 1, 2), mask |-> Shared(d[2], m0, 2^K - 5),
      with_or_tree |-> FALSE, others |-> <<>>] : d \in Dots, m0 \in Word}
    \cup
    {[code |-> Shared(c, 1, 2), mask |-> Shared(MaxMask, 3, 2),
      with_or_tree |-> TRUE, others |-> Others(S)] :
         c \in {0, MaxMask}, S \in {{}} \cup {{x, <<0, 3>>} : x \in Device \X Lanes}
                                 \cup {{x} : x \in Device \X Lanes}}
=============================================================================
