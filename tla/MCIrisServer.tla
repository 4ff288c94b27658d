----------------------------- MODULE MCIrisServer -----------------------------
(* Instances of IrisServer for TLC.                                        *)
EXTENDS IrisServer, TLC

CONSTANTS r0, r1, r2, r3, r4, r5, r6

MCRequest == {r0, r1, r2, r3, r4, r5, r6}
MCSeed == <<r0>>
PartySymmetry == Permutations(Party)

U(r) == [kind |-> "uniqueness", id |-> r, size |-> 0]
Sized(r, n) == [kind |-> "uniqueness", id |-> r, size |-> n]
D(k) == [kind |-> "deletion", serial |-> k]
Breaker(n) == [kind |-> "circuit_breaker", size |-> n]

Plain3 == <<U(r1), U(r2), U(r3)>>
Plain6 == <<U(r1), U(r2), U(r3), U(r4), U(r5), U(r6)>>

\* Serial id 1 is in the seed, 2 is given to the first request found unique.
WithDeletions == <<U(r1), D(2), U(r2)>>

\* The batch size goes down to 1 and up again, past the maximum.
MixedMessages == <<Breaker(1), D(1), U(r1), Sized(r2, 7), U(r3)>>
=============================================================================
