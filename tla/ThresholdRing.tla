----------------------------- MODULE ThresholdRing -----------------------------
(***************************************************************************)
(* The comparison of a masked distance with the threshold, under replicated*)
(* sharing (threshold_ring/protocol.rs, threshold_ring/cuda/kernel.cu):    *)
(* three parties lift the shares of the mask dot product from K to BITS    *)
(* bits, subtract the code dot product, extract the sign and open it.  The *)
(* parties run on their own and meet only in their messages, which are     *)
(* encrypted with keystreams that two parties advance in step.             *)
(*                                                                         *)
(* One lane (one code and one mask) stands for the 64 * chunk_size lanes of*)
(* a device, and one device for all: every kernel works lane by lane, and  *)
(* every device has its own communicator and its own generators.           *)
(***************************************************************************)
EXTENDS RepShares

CONSTANTS K, B_BITS,   \* SHARE_RING_BITSIZE and B_BITS, 16 in the code
          XorWord(_, _),   \* bitwise xor of two words
          Inputs       \* [code, mask |-> the three additive shares of each]

ASSUME BitsAssumption == K \in Nat \ {0, 1} /\ B_BITS \in 2 .. K
ASSUME XorAssumption == \A x, y \in 0 .. 2^K - 1 : XorWord(x, y) \in 0 .. 2^K - 1 /\ XorWord(XorWord(x, y), y) = x

BITS == K + B_BITS

\* (1 - 2 * MATCH_THRESHOLD_RATIO) * B, with the ratio 0.375
A == 2^B_BITS \div 4

Buffers == {"lifted_shares", "lifting_corrections", "split1_result", "split2", "split3",
            "adder_s", "adder_c", "ot_m0", "ot_m1", "ot_wc"}

VARIABLES input,    \* the shares the computation started from
          pc,       \* party -> where it is
          reg,      \* party -> the values its buffers hold
          half,     \* party -> its part a of the product it is resharing
          chan,     \* from -> to -> the messages NCCL has yet to deliver
          ctr,      \* party -> the counters of chacha1 and chacha2
          buffers   \* party -> the buffers that are not taken

compareVars == <<input, pc, reg, half, chan, ctr, buffers>>

NoShare == [a |-> <<>>, b |-> <<>>]

Share(w, p) == [a |-> w[p], b |-> w[prev_id(p)]]

CompareInit ==
    /\ input \in Inputs
    /\ pc = [p \in Party |-> "idle"]
    /\ reg = [p \in Party |-> [lifted |-> Share(input.mask, p), s |-> NoShare, b |-> NoShare,
                               x3 |-> NoShare, carry |-> NoShare, res |-> NoShare, k |-> 0,
                               corr |-> <<>>, opened |-> 2]]
    /\ half = [p \in Party |-> <<>>]
    /\ chan = [p \in Party |-> [q \in Party |-> <<>>]]
    /\ ctr = [p \in Party |-> [my |-> 0, their |-> 0]]
    /\ buffers = [p \in Party |-> Buffers]

-----------------------------------------------------------------------------
(* Buffers, randomness and messages                                        *)

\* return_buffer asserts that the slot is empty, take_buffer that it is full.
ReturnAndTake(p, back, taken) ==
    /\ back \cap buffers[p] = {}
    /\ taken \subseteq buffers[p] \cup back
    /\ buffers' = [buffers EXCEPT ![p] = (@ \cup back) \ taken]

\* The local part of an AND of n words, and chacha1_encrypt_u64 of the result
\* for the next party.
SendAnd(p, x, y, n) ==
    LET at == ctr[p]
        z == shared_and_pre(x, y, fill_rng(p, at, n))
    IN  /\ half' = [half EXCEPT ![p] = z]
        /\ chan' = send(chan, p, next_id(p), chacha1_encrypt_u64(p, at.my + Blocks(n), z))
        /\ ctr' = [ctr EXCEPT ![p] = [my |-> at.my + 2 * Blocks(n), their |-> at.their + Blocks(n)]]

\* The other half of send_receive_view: receive from the previous party and
\* chacha2_decrypt_u64.
ReceiveAnd(p) ==
    LET q == prev_id(p)
        n == Cardinality(DOMAIN half[p])
    IN  /\ n > 0
        /\ chan[q][p] # <<>>
        /\ reg' = [reg EXCEPT ![p].res =
                       [a |-> half[p], b |-> chacha2_decrypt_u64(p, ctr[p].their, Head(chan[q][p]))]]
        /\ half' = [half EXCEPT ![p] = <<>>]
        /\ chan' = receive(chan, q, p)
        /\ ctr' = [ctr EXCEPT ![p].their = @ + Blocks(n)]
        /\ UNCHANGED <<input, pc, buffers>>

\* Where party p may go on: it has the result of its last AND.
At(p, label) == pc[p] = label /\ half[p] = <<>>

Goto(p, label) == pc' = [pc EXCEPT ![p] = label]

-----------------------------------------------------------------------------
(* binary_add_3: a full adder on the three vectors, then a ripple of its    *)
(* two outputs.  The first bit of s is never needed.                       *)

\* The full adder of n of the bits, of which the carries are an AND.
FullAdder(p, x, n) ==
    LET x2x3 == shared_xor(x.x2, x.x3)
        x1x3 == shared_xor(x.x1, x.x3)
    IN  /\ SendAnd(p, x1x3, x2x3, n)
        /\ reg' = [reg EXCEPT ![p].x3 = x.x3, ![p].k = 0,
                              ![p].s = get_range(shared_xor(x.x1, x2x3), 1, Cardinality(DOMAIN x.x1.a))]

\* The carries are corrected by x3; the first carry of the ripple is an AND.
FirstCarry(p) ==
    LET c == shared_xor(reg[p].res, reg[p].x3)
    IN  /\ SendAnd(p, get_range(reg[p].s, 0, 1), get_range(c, 0, 1), 1)
        /\ reg' = [reg EXCEPT ![p].b = c, ![p].k = 1]

\* The carry into bit k: that of the last round, xored with its new product.
Carry(p) == IF reg[p].k = 1 THEN reg[p].res ELSE shared_xor(reg[p].carry, reg[p].res)

\* One round k of the ripple.
RippleCarry(p) ==
    LET k == reg[p].k
        c == Carry(p)
    IN  /\ SendAnd(p, shared_xor(get_range(reg[p].s, k, k + 1), c),
                      shared_xor(get_range(reg[p].b, k, k + 1), c), 1)
        /\ reg' = [reg EXCEPT ![p].carry = c, ![p].k = k + 1]

-----------------------------------------------------------------------------
(* lift_mpc: the two carries of the sum of the three shares of the mask    *)

\* The three vectors of the mask.  Widening its shares to BITS bits, which the
\* kernel does in passing, leaves their values as they are.
lift_split(p) == split_inner(p, transpose_pack_with_len(reg[p].lifted, K))

lift_mpc(p) ==
    /\ At(p, "idle")
    /\ ReturnAndTake(p, {}, {"lifted_shares", "lifting_corrections", "split1_result", "split2", "split3"})
    /\ FullAdder(p, lift_split(p), K)
    /\ Goto(p, "lift_adder")
    /\ UNCHANGED input

get_two_carries_first(p) ==
    /\ At(p, "lift_adder")
    /\ FirstCarry(p)
    /\ Goto(p, "lift_ripple")
    /\ UNCHANGED <<input, buffers>>

get_two_carries_round(p) ==
    /\ At(p, "lift_ripple")
    /\ reg[p].k < K - 1
    /\ RippleCarry(p)
    /\ UNCHANGED <<input, pc, buffers>>

\* The last bit of a is 0: c2 is b & c1 and c1 becomes c1 ^ b.
get_two_carries_last(p) ==
    LET c1 == Carry(p)
        b == get_range(reg[p].b, K - 1, K)
    IN  /\ At(p, "lift_ripple")
        /\ reg[p].k = K - 1
        /\ SendAnd(p, b, c1, 1)
        /\ reg' = [reg EXCEPT ![p].carry = shared_xor(c1, b)]
        /\ Goto(p, "inject")
        /\ UNCHANGED <<input, buffers>>
-----------------------------------------------------------------------------
(* bit_inject_ot: the two carries become shares modulo 2^K.  Party 2 sends *)
(* both outcomes, party 0 the mask of the right one, party 1 opens it.     *)

Word == 0 .. 2^K - 1

\* One call of fill_rng_into_u16 fills 128 elements per chunk: 32 words.
ot_blocks == Blocks(32)

my_words(p, at) == [j \in 1 .. 2 |-> Keystream(p, at, j) % 2^K]

their_words(p, at) == [j \in 1 .. 2 |-> Keystream(prev_id(p), at, j) % 2^K]

\* Both encrypt and decrypt: w xored with one's own stream, or the other one.
chacha1_u16(p, at, w) == [j \in 1 .. 2 |-> XorWord(w[j], my_words(p, at)[j])]

chacha2_u16(p, at, w) == [j \in 1 .. 2 |-> XorWord(w[j], their_words(p, at)[j])]

\* The shares of the carries: 1 of 2^K, 2 of 2^(K + 1).
CarryBits(p) == [j \in 1 .. 2 |-> IF j = 1 THEN [a |-> reg[p].carry.a[0], b |-> reg[p].carry.b[0]]
                                  ELSE [a |-> reg[p].res.a[0], b |-> reg[p].res.b[0]]]

packed_ot_sender(bits, ca, cb, w0, w1) ==
    [m0 |-> [j \in 1 .. 2 |-> XorWord((XorBit(bits[j].a, bits[j].b) - ca[j] - cb[j]) % 2^K, w0[j])],
     m1 |-> [j \in 1 .. 2 |-> XorWord((1 - XorBit(bits[j].a, bits[j].b) - ca[j] - cb[j]) % 2^K, w1[j])]]

packed_ot_receiver(bits, m0, m1, wc) ==
    [j \in 1 .. 2 |-> XorWord(wc[j], IF bits[j].b = 1 THEN m1[j] ELSE m0[j])]

packed_ot_helper(bits, w0, w1) == [j \in 1 .. 2 |-> IF bits[j].a = 1 THEN w1[j] ELSE w0[j]]

Corrections(ca, cb) == [j \in 1 .. 2 |-> [a |-> ca[j], b |-> cb[j]]]

bit_inject_ot_sender(p) ==
    LET at == ctr[p]
        ca == my_words(p, at.my)
        cb == their_words(p, at.their)
        m == packed_ot_sender(CarryBits(p), ca, cb, my_words(p, at.my + ot_blocks),
                                                    my_words(p, at.my + 2 * ot_blocks))
    IN  /\ p = 2
        /\ At(p, "inject")
        /\ {"ot_m0", "ot_m1"} \subseteq buffers[p]
        /\ ReturnAndTake(p, {"split1_result", "split2", "split3"}, {})
        /\ chan' = send(send(chan, p, prev_id(p), chacha2_u16(p, at.their + ot_blocks, m.m0)),
                        p, prev_id(p), chacha2_u16(p, at.their + 2 * ot_blocks, m.m1))
        /\ ctr' = [ctr EXCEPT ![p] = [my |-> at.my + 3 * ot_blocks, their |-> at.their + 3 * ot_blocks]]
        /\ reg' = [reg EXCEPT ![p].corr = Corrections(ca, cb)]
        /\ Goto(p, "lifted")
        /\ UNCHANGED <<input, half>>

bit_inject_ot_receiver(p) ==
    LET at == ctr[p]
        from == chan[next_id(p)][p]
        wc == chacha2_u16(p, at.their, Head(chan[prev_id(p)][p]))
        m0 == chacha1_u16(p, at.my + ot_blocks, from[1])
        m1 == chacha1_u16(p, at.my + 2 * ot_blocks, from[2])
        out == packed_ot_receiver(CarryBits(p), m0, m1, wc)
    IN  /\ p = 1
        /\ At(p, "inject")
        /\ Len(from) >= 2
        /\ chan[prev_id(p)][p] # <<>>
        /\ {"ot_m0", "ot_m1", "ot_wc"} \subseteq buffers[p]
        /\ ReturnAndTake(p, {"split1_result", "split2", "split3"}, {})
        /\ LET taken == receive(receive(chan, next_id(p), p), next_id(p), p)
           IN  chan' = send(receive(taken, prev_id(p), p), p, prev_id(p),
                            chacha2_u16(p, at.their + ot_blocks, out))
        /\ ctr' = [ctr EXCEPT ![p] = [my |-> at.my + 3 * ot_blocks, their |-> at.their + 2 * ot_blocks]]
        /\ reg' = [reg EXCEPT ![p].corr = Corrections(my_words(p, at.my), out)]
        /\ Goto(p, "lifted")
        /\ UNCHANGED <<input, half>>

\* The helper sends the mask and keeps the buffer it is in ...
bit_inject_ot_helper(p) ==
    LET at == ctr[p]
        wc == packed_ot_helper(CarryBits(p), their_words(p, at.their + ot_blocks),
                                             their_words(p, at.their + 2 * ot_blocks))
        cb == their_words(p, at.their)
    IN  /\ p = 0
        /\ At(p, "inject")
        /\ ReturnAndTake(p, {"split3"}, {"ot_wc"})
        /\ chan' = send(chan, p, next_id(p), chacha1_u16(p, at.my, wc))
        /\ ctr' = [ctr EXCEPT ![p] = [my |-> at.my + ot_blocks, their |-> at.their + 3 * ot_blocks]]
        /\ reg' = [reg EXCEPT ![p].corr = Corrections([j \in 1 .. 2 |-> 0], cb)]
        /\ Goto(p, "helper")
        /\ UNCHANGED <<input, half>>

\* ... until it has the part a of the result from the receiver.
bit_inject_ot_helper_done(p) ==
    LET q == next_id(p)
        out == chacha1_u16(p, ctr[p].my, Head(chan[q][p]))
    IN  /\ At(p, "helper")
        /\ chan[q][p] # <<>>
        /\ ReturnAndTake(p, {"split1_result", "split2", "ot_wc"}, {})
        /\ chan' = receive(chan, q, p)
        /\ ctr' = [ctr EXCEPT ![p].my = @ + ot_blocks]
        /\ reg' = [reg EXCEPT ![p].corr = [j \in 1 .. 2 |-> [a |-> out[j], b |-> @[j].b]]]
        /\ Goto(p, "lifted")
        /\ UNCHANGED <<input, half>>
-----------------------------------------------------------------------------
(* lift_mul_sub and extract_msb                                            *)

\* Mutant: the second correction is taken off at the weight of the first.
lift_mul_sub_weight(mask, corr1, corr2, code) ==
    ((mask - corr1 * 2^K - corr2 * 2^K) * A - code * 2^B_BITS) % 2^BITS

lift_mul_sub(mask, corr1, corr2, code) ==
    ((mask - corr1 * 2^K - corr2 * 2^(K + 1)) * A - code * 2^B_BITS) % 2^BITS

\* Parties 0 and 1 take 1 off the part they share, "Transforms the <= into <".
shared_lift_mul_sub(p) ==
    LET code == Share(input.code, p)
        c == reg[p].corr
        lifted == reg[p].lifted
    IN  [a |-> (lift_mul_sub(lifted.a, c[1].a, c[2].a, code.a) - (IF p = 0 THEN 1 ELSE 0)) % 2^BITS,
         b |-> (lift_mul_sub(lifted.b, c[1].b, c[2].b, code.b) - (IF p = 1 THEN 1 ELSE 0)) % 2^BITS]

split(p, x) == split_inner(p, transpose_pack_with_len(x, BITS))

extract_msb(p) ==
    /\ At(p, "lifted")
    /\ ReturnAndTake(p, {}, {"split1_result", "split2", "split3", "adder_s", "adder_c"})
    /\ FullAdder(p, split(p, shared_lift_mul_sub(p)), BITS - 1)
    /\ Goto(p, "msb_adder")
    /\ UNCHANGED input

get_msb_first(p) ==
    /\ At(p, "msb_adder")
    /\ FirstCarry(p)
    /\ Goto(p, "msb_ripple")
    /\ UNCHANGED <<input, buffers>>

MsbRounds == BITS - 2

get_msb_round(p) ==
    /\ At(p, "msb_ripple")
    /\ reg[p].k < MsbRounds
    /\ RippleCarry(p)
    /\ UNCHANGED <<input, pc, buffers>>

\* Mutant: the corrections are not given back.
get_msb_last_keeping(p) ==
    LET last == BITS - 2
    IN  /\ At(p, "msb_ripple")
        /\ reg[p].k = MsbRounds
        /\ ReturnAndTake(p, {"lifted_shares", "split1_result", "split2", "split3", "adder_s", "adder_c"},
                         {"split1_result"})
        /\ reg' = [reg EXCEPT ![p].carry =
                       shared_xor(shared_xor(Carry(p), get_range(reg[p].s, last, last + 1)),
                                  get_range(reg[p].b, last, last + 1))]
        /\ Goto(p, "result")
        /\ UNCHANGED <<input, half, chan, ctr>>

\* Mutant: the last round draws from its own stream like the others.
get_msb_last_drawing(p) ==
    LET last == BITS - 2
    IN  /\ At(p, "msb_ripple")
        /\ reg[p].k = MsbRounds
        /\ ReturnAndTake(p, {"lifted_shares", "lifting_corrections", "split1_result", "split2", "split3",
                             "adder_s", "adder_c"}, {"split1_result"})
        /\ ctr' = [ctr EXCEPT ![p].my = @ + Blocks(1)]
        /\ reg' = [reg EXCEPT ![p].carry =
                       shared_xor(shared_xor(Carry(p), get_range(reg[p].s, last, last + 1)),
                                  get_range(reg[p].b, last, last + 1))]
        /\ Goto(p, "result")
        /\ UNCHANGED <<input, half, chan>>

\* The last round only xors; the buffers go back, and the caller takes the one
\* with the result.
get_msb_last(p) ==
    LET last == BITS - 2
    IN  /\ At(p, "msb_ripple")
        /\ reg[p].k = MsbRounds
        /\ ReturnAndTake(p, {"lifted_shares", "lifting_corrections", "split1_result", "split2", "split3",
                             "adder_s", "adder_c"}, {"split1_result"})
        /\ reg' = [reg EXCEPT ![p].carry =
                       shared_xor(shared_xor(Carry(p), get_range(reg[p].s, last, last + 1)),
                                  get_range(reg[p].b, last, last + 1))]
        /\ Goto(p, "result")
        /\ UNCHANGED <<input, half, chan, ctr>>

\* open: the part b goes to the next party ...
open(p) ==
    /\ At(p, "result")
    /\ chan' = send(chan, p, next_id(p), reg[p].carry.b)
    /\ Goto(p, "opening")
    /\ UNCHANGED <<input, reg, half, ctr, buffers>>

\* openResults
OpenedBit(a, b, c) == XorBit(XorBit(a, b), c)

\* ... and with that of the previous one the three parts are known.
open_results(p) ==
    LET q == prev_id(p)
        c == reg[p].carry
    IN  /\ At(p, "opening")
        /\ chan[q][p] # <<>>
        /\ reg' = [reg EXCEPT ![p].opened = OpenedBit(c.a[0], c.b[0], Head(chan[q][p])[0])]
        /\ chan' = receive(chan, q, p)
        /\ ReturnAndTake(p, {"split1_result"}, {})
        /\ Goto(p, "done")
        /\ UNCHANGED <<input, half, ctr>>

CompareStep(p) ==
    \/ ReceiveAnd(p) \/ lift_mpc(p)
    \/ get_two_carries_first(p) \/ get_two_carries_round(p) \/ get_two_carries_last(p)
    \/ bit_inject_ot_sender(p) \/ bit_inject_ot_receiver(p)
    \/ bit_inject_ot_helper(p) \/ bit_inject_ot_helper_done(p)
    \/ extract_msb(p) \/ get_msb_first(p) \/ get_msb_round(p) \/ get_msb_last(p)

OpenStep(p) == open(p) \/ open_results(p)

-----------------------------------------------------------------------------
(* What the protocol computes                                              *)

Sum(w) == w[0] + w[1] + w[2]
Signed(w, bits) == IF w >= 2^(bits - 1) THEN w - 2^bits ELSE w

\* The dot products the shares stand for.
Code == Signed(Sum(input.code) % 2^K, K)
Mask == Sum(input.mask) % 2^K

TypeOK ==
    /\ pc \in [Party -> {"idle", "lift_adder", "lift_ripple", "inject", "helper", "lifted",
                         "msb_adder", "msb_ripple", "result", "opening", "done", "or_tree", "or_done"}]
    /\ \A p \in Party : reg[p].k \in 0 .. BITS /\ reg[p].opened \in 0 .. 2
    /\ ctr \in [Party -> [my : Nat, their : Nat]]
    /\ buffers \in [Party -> SUBSET Buffers]

\* The lift: once the three parties have their corrections (bit_inject_ot),
\* the corrected shares add up, modulo 2^BITS, to the mask dot product itself,
\* whatever shares of it modulo 2^K the parties had.
LiftIsExact ==
    (\A p \in Party : pc[p] = "lifted") =>
        Sum([p \in Party |-> reg[p].lifted.a - reg[p].corr[1].a * 2^K - reg[p].corr[2].a * 2^(K + 1)])
            % 2^BITS = Mask

\* The bit a party opens is 1 exactly if mask * A <= code * B, at every party.
ResultIsComparison ==
    \A p \in Party : pc[p] = "done" =>
        (reg[p].opened = 1) <=> (Mask * A <= Code * 2^B_BITS)

\* The parts of every share a party holds are replicated: its b is the a of
\* the previous party, for the corrections and for the result.
Replicated ==
    \A p \in Party : LET q == prev_id(p) IN
        /\ (pc[p] = "lifted" /\ pc[q] = "lifted") =>
               \A j \in 1 .. 2 : reg[p].corr[j].b = reg[q].corr[j].a
        /\ (pc[p] = "result" /\ pc[q] = "result") => reg[p].carry.b = reg[q].carry.a

\* What tests/threshold.rs computes in the clear: the most significant bit of
\* mask * A - code * B, which is 0 when the two are equal.
ResultAsTested ==
    \A p \in Party : pc[p] = "done" =>
        reg[p].opened = transpose_pack((Mask * A - Code * 2^B_BITS) % 2^BITS, BITS)[BITS - 1]
=============================================================================
