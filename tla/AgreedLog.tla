------------------------------ MODULE AgreedLog ------------------------------
(***************************************************************************)
(* What the parties' databases promise together: one log of requests,      *)
(* appended to and erased from, never shortened or rewritten.              *)
(***************************************************************************)
EXTENDS Naturals, Sequences

CONSTANTS Request, Seed, Dummy

VARIABLE log

Init == log = Seed

\* Entries become common to all parties.
Extend ==
    /\ Len(log') > Len(log)
    /\ \A k \in 1 .. Len(log) : log'[k] = log[k]
    /\ \A k \in Len(log) + 1 .. Len(log') : log'[k] \in Request \cup {Dummy}

Erase(k) == log' = [log EXCEPT ![k] = Dummy]

Next == Extend \/ \E k \in 1 .. Len(log) : Erase(k)

Spec == Init /\ [][Next]_log
=============================================================================
