------------------------------ MODULE Circuits ------------------------------
(***************************************************************************)
(* The circuits of a party as its actor and its tests use them: a batch of *)
(* comparisons whose results are opened (compare_threshold_masked_many and *)
(* open), or reduced to one bit (compare_threshold_masked_many_with_or_    *)
(* tree).  In the second case the lane that is followed is the first of the*)
(* first device, and `others` holds the shares of the results of the other *)
(* lanes.                                                                  *)
(***************************************************************************)
EXTENDS ThresholdRing, OrReduce

vars == <<compareVars, orVars>>

Init == CompareInit /\ OrInit

\* The result buffer of a device: its own lane 0 only on the first device.
ResultBuffer(p, d) ==
    LET w == input.others[d]
        lane == d = 0
    IN  [a |-> [i \in DOMAIN w[p] |-> IF lane /\ i = 0 THEN reg[p].carry.a[0] ELSE w[p][i]],
         b |-> [i \in DOMAIN w[p] |-> IF lane /\ i = 0 THEN reg[p].carry.b[0] ELSE w[prev_id(p)][i]]]

\* compare_threshold_masked_many_with_or_tree, after the comparison.
reduce(p) ==
    /\ At(p, "result")
    /\ input.with_or_tree
    /\ or_reduce_result(p, [d \in Device |-> ResultBuffer(p, d)], [d \in Device |-> ctr[p]])
    /\ Goto(p, "or_tree")
    /\ UNCHANGED <<input, reg, half, chan, ctr, buffers>>

reduced(p) ==
    /\ At(p, "or_tree")
    /\ stage[p] = "reduced"
    /\ ReturnAndTake(p, {"split1_result"}, {})
    /\ Goto(p, "or_done")
    /\ UNCHANGED <<input, reg, half, chan, ctr, orVars>>

Finished(p) == pc[p] \in {"done", "or_done"}

Done == (\A p \in Party : Finished(p)) /\ UNCHANGED vars

Step(p) ==
    \/ CompareStep(p) /\ UNCHANGED orVars
    \/ ~input.with_or_tree /\ OpenStep(p) /\ UNCHANGED orVars
    \/ reduce(p) \/ reduced(p)
    \/ OrStep(p) /\ UNCHANGED compareVars

Next == (\E p \in Party : Step(p)) \/ Done

Spec == Init /\ [][Next]_vars

-----------------------------------------------------------------------------
Through == {"result", "opening", "done", "or_tree", "or_done"}

Opened == XorBit(XorBit(bits[0][0].a[0], bits[1][0].a[0]), bits[2][0].a[0])

\* When the three parties are through the or-tree, their shares of the lowest
\* bit of the first device open to the disjunction of the results of all lanes
\* of all devices, and each party holds the part of the previous one.
OpensToOr ==
    (\A p \in Party : pc[p] = "or_done") =>
        /\ Opened = 1 <=>
               \/ Mask * A <= Code * 2^B_BITS
               \/ \E d \in Device : \E i \in DOMAIN input.others[d][0] :
                      /\ <<d, i>> # <<0, 0>>
                      /\ XorBit(XorBit(input.others[d][0][i], input.others[d][1][i]), input.others[d][2][i]) = 1
        /\ \A p \in Party : bits[p][0].b[0] = bits[prev_id(p)][0].a[0]

\* When neighbours have the result of a comparison, the keystream they share is
\* at the same block on both sides: the or-tree, or the next batch, starts in
\* step, whatever the two drew and encrypted on the way.
StreamsInStep ==
    \A p \in Party : LET q == next_id(p) IN
        (pc[p] \in Through /\ pc[q] \in Through) => ctr[p].my = ctr[q].their

\* The same for the or-tree, on every device.
TreeStreamsInStep ==
    \A p \in Party : LET q == next_id(p) IN
        (pc[p] = "or_done" /\ pc[q] = "or_done") => \A d \in Device : dctr[p][d].my = dctr[q][d].their

\* A party that has its result has all other buffers back, as check_buffers
\* asserts, one that is through has them all, and when all are through no
\* message is left undelivered.
NothingLeftOver ==
    /\ \A p \in Party : pc[p] = "result" => buffers[p] = Buffers \ {"split1_result"}
    /\ \A p \in Party : Finished(p) => buffers[p] = Buffers
    /\ (\A p \in Party : Finished(p)) => \A p, q \in Party : chan[p][q] = <<>> /\ wire[p][q] = <<>>

\* The lift and the comparison compute what they would in the clear, whatever
\* the shares and however the parties interleave.
ComparisonIsRight == LiftIsExact /\ ResultIsComparison

\* Whatever two neighbours hold in common is the same on both sides when they
\* stand at the same point: parts of shares, and both kinds of keystreams.
NeighboursInStep == Replicated /\ StreamsInStep /\ TreeStreamsInStep
=============================================================================
