------------------------------ MODULE CpuProtocol ------------------------------
(***************************************************************************)
(* The replicated protocol of the CPU parties (iris-mpc-cpu protocol/ops.rs*)
(* and protocol/binary.rs), as the vector store of the HNSW search         *)
(* (hawkers/galois_store.rs) and galois_ring_is_match use it: dot products *)
(* become replicated shares, are lifted from K to 2K bits, compared with   *)
(* the threshold or with another distance, and the sign is opened.         *)
(*                                                                         *)
(* A message is a NetworkValue: its variant and its contents.  The channel *)
(* of a session delivers the messages of one party to another in order;    *)
(* a receive that finds none may time out, and the operation then fails.   *)
(* The lanes of a batch are the bits of the packed words, and a word of the*)
(* circuit is a function from lanes to bits.                               *)
(***************************************************************************)
EXTENDS Integers, Sequences

CONSTANTS K,                   \* bits of the dot products (16); they are lifted to 2K
          Keystream(_, _, _),  \* AesRng: seed, position, lane |-> a number
          XorWord(_, _),       \* bitwise xor of two words
          Inputs               \* what the store is asked, see Init

ASSUME WidthAssumption == K \in Nat \ {0, 1, 2}
ASSUME XorWordAssumption == \A x, y \in 0 .. 2^K - 1 : XorWord(XorWord(x, y), y) = x

Role == 0 .. 2
next(p) == (p + 1) % 3
prev(p) == IF p = 0 THEN 2 ELSE p - 1

U16 == 2^K
U32 == 2^(2 * K)
B == 2^K
A == B \div 4      \* (1 - 2 * MATCH_THRESHOLD_RATIO) * B, with the ratio 0.375

\* Every role is asked about the same pairs.
ASSUME InputsAssumption ==
    \A x \in Inputs : \A p \in Role :
        x.code[p] \in Seq(0 .. U16 - 1) /\ Len(x.code[p]) = Len(x.code[0])

VARIABLES input,   \* the operation and the additive shares of the dot products
          pc,      \* role -> where the operation is
          reg,     \* role -> its values
          chan,    \* from -> to -> messages under way
          prf,     \* role -> positions of my_prf and prev_prf
          late     \* some receive has timed out

vars == <<input, pc, reg, chan, prf, late>>

-----------------------------------------------------------------------------
(* Prf: a draw of a u64 takes two positions, of a u16 or a u32 one         *)

gen_zero_share(p, i, ring) == (Keystream(p, prf[p].my + i, 0) - Keystream(prev(p), prf[p].prev + i, 0)) % ring

gen_binary_zero_share(p, i, lanes) ==
    [l \in lanes |-> (Keystream(p, prf[p].my + 2 * i, l) + Keystream(prev(p), prf[p].prev + 2 * i, l)) % 2]

my_prf(p, i) == Keystream(p, prf[p].my + i, 0) % U16

prev_prf(p, i) == Keystream(prev(p), prf[p].prev + i, 0) % U16

Advance(p, my, other) == prf' = [prf EXCEPT ![p] = [my |-> @.my + my, prev |-> @.prev + other]]

\* get_owner_session clones the session: the next operation of the store draws
\* from the beginning of the two streams again.
get_owner_session(p) == prf' = [prf EXCEPT ![p] = [my |-> 0, prev |-> 0]]

-----------------------------------------------------------------------------
(* Shares, and packed words of shares                                      *)

add_assign_const_role(x, c, p, ring) ==
    [a |-> IF p = 0 THEN (x.a + c) % ring ELSE x.a, b |-> IF p = 1 THEN (x.b + c) % ring ELSE x.b]

\* The local part of a multiplication.
MulLocal(x, y) == x.a * y.a + x.b * y.a + x.a * y.b

Minus(x, y) == [a |-> (x.a - y.a) % U32, b |-> (x.b - y.b) % U32]

Times(x, c) == [a |-> (x.a * c) % U32, b |-> (x.b * c) % U32]

mul_lift_2k(x, k) == Times(x, 2^k)

XorBits(u, v) == [l \in DOMAIN u |-> (u[l] + v[l]) % 2]

XorShare(x, y) == [a |-> XorBits(x.a, y.a), b |-> XorBits(x.b, y.b)]

transposed_pack_xor(x, y) == [i \in DOMAIN x |-> XorShare(x[i], y[i])]

AndLocal(x, y) == [l \in DOMAIN x.a |-> (x.a[l] * y.a[l] + x.b[l] * y.a[l] + x.a[l] * y.b[l]) % 2]

\* Bit i of the word l becomes lane l of the packed word i.
transpose_pack_u64(xs, bits) ==
    LET bit(w, i) == (w \div 2^i) % 2
    IN  [i \in 1 .. bits |-> [a |-> [l \in DOMAIN xs |-> bit(xs[l].a, i - 1)],
                              b |-> [l \in DOMAIN xs |-> bit(xs[l].b, i - 1)]]]

\* A share x = x_0 + x_1 + x_2 as three shared words.
a2b_pre(p, x) ==
    LET zero == [l \in DOMAIN x.a |-> 0]
        part(own, other) == [a |-> IF own THEN x.a ELSE zero, b |-> IF other THEN x.b ELSE zero]
    IN  <<part(p = 0, p = 1), part(p = 1, p = 2), part(p = 2, p = 0)>>

-----------------------------------------------------------------------------
(* Messages                                                                *)

Value(type, v) == [type |-> type, v |-> v]

Send(ch, p, q, m) == [ch EXCEPT ![p][q] = Append(@, m)]

\* Whom a party that waits receives from, and the variant it accepts.
Expected(p) ==
    CASE pc[p] \in {"rep3", "receiver_wc"} -> <<prev(p), "VecRing16">>
      [] pc[p] = "helper"                  -> <<next(p), "VecRing16">>
      [] pc[p] = "receiver"                -> <<next(p), "Vec">>
      [] pc[p] = "cross"                   -> <<prev(p), "RingElement32">>
      [] pc[p] = "open"                    -> <<prev(p), "RingElementBit">>
      [] OTHER                             -> <<prev(p), "VecRing64">>

Local == {"idle", "lift", "injected", "ready", "msb", "done", "failed"}

Waits(p) == pc[p] \notin Local

Queue(p) == chan[Expected(p)[1]][p]

Arrived(p, label) == pc[p] = label /\ Queue(p) # <<>> /\ Head(Queue(p)).type = Expected(p)[2]

Message(p) == Head(Queue(p)).v

\* The channels when p has taken its message.
Taken(p) == [chan EXCEPT ![Expected(p)[1]][p] = Tail(@)]

Goto(p, label) == pc' = [pc EXCEPT ![p] = label]

\* The part of p of the products of the words x and y.
and_many_send(p, x, y) ==
    [i \in DOMAIN x |-> XorBits(AndLocal(x[i], y[i]), gen_binary_zero_share(p, i - 1, DOMAIN x[i].a))]

SendAnd(ch, p, z) ==
    /\ chan' = Send(ch, p, next(p), Value("VecRing64", z))
    /\ Advance(p, 2 * Len(z), 2 * Len(z))

\* and_many_receive: the products of which p has sent its part.
and_many_receive(p) == [i \in DOMAIN reg[p].z |-> [a |-> reg[p].z[i], b |-> Message(p)[i]]]

-----------------------------------------------------------------------------
(* The adder of three words: the first n of the `bits` carries             *)

FullAdder(p, xs, bits, n) ==
    LET x == [i \in 1 .. bits |-> a2b_pre(p, transpose_pack_u64(xs, bits)[i])]
        part(j) == [i \in 1 .. bits |-> x[i][j]]
        x2x3 == transposed_pack_xor(part(2), part(3))
        x1x3 == transposed_pack_xor(part(1), part(3))
        z == and_many_send(p, SubSeq(x1x3, 1, n), SubSeq(x2x3, 1, n))
    IN  /\ SendAnd(chan, p, z)
        /\ reg' = [reg EXCEPT ![p].z = z, ![p].x3 = SubSeq(part(3), 1, n),
                              ![p].s = transposed_pack_xor(part(1), x2x3), ![p].xs = xs]

\* The first carry of the ripple is an AND.
FirstCarry(p) ==
    LET c == transposed_pack_xor(and_many_receive(p), reg[p].x3)
        z == and_many_send(p, <<reg[p].s[2]>>, <<c[1]>>)
    IN  /\ SendAnd(Taken(p), p, z)
        /\ reg' = [reg EXCEPT ![p].z = z, ![p].b = c, ![p].k = 2]

\* The carry when the product of the last round has come back.
Carry(p) == IF reg[p].k = 2 THEN and_many_receive(p)[1] ELSE XorShare(reg[p].c, and_many_receive(p)[1])

RippleRound(p) ==
    LET k == reg[p].k
        c == Carry(p)
        z == and_many_send(p, <<XorShare(reg[p].s[k + 1], c)>>, <<XorShare(reg[p].b[k], c)>>)
    IN  /\ SendAnd(Taken(p), p, z)
        /\ reg' = [reg EXCEPT ![p].z = z, ![p].c = c, ![p].k = k + 1]

-----------------------------------------------------------------------------
(* The dot products as replicated shares                                   *)

\* An input: the operation ("is_match", "threshold" or "less_than"), whether
\* receives may time out, and for every role its additive shares of the code
\* and of the (trimmed) mask dot product of every pair.
Init ==
    /\ input \in Inputs
    /\ pc = [p \in Role |-> "idle"]
    /\ reg = [p \in Role |-> [dots |-> <<>>, xs |-> <<>>, z |-> <<>>, s |-> <<>>, b |-> <<>>, x3 |-> <<>>,
                              c |-> <<>>, k |-> 0, corr |-> <<>>, m |-> <<>>, bit |-> 2]]
    /\ chan = [p \in Role |-> [q \in Role |-> <<>>]]
    /\ prf = [p \in Role |-> [my |-> 0, prev |-> 0]]
    /\ late = FALSE

\* Codes at odd places, masks at even ones; a trimmed mask counts twice.
galois_ring_pairwise_distance(p) ==
    [j \in 1 .. 2 * Len(input.code[p]) |->
        IF j % 2 = 1 THEN input.code[p][(j + 1) \div 2] ELSE (2 * input.mask[p][j \div 2]) % U16]

galois_ring_to_rep3(p) ==
    LET items == galois_ring_pairwise_distance(p)
        masked == [j \in DOMAIN items |-> (items[j] + gen_zero_share(p, j - 1, U16)) % U16]
    IN  /\ pc[p] = "idle"
        /\ chan' = Send(chan, p, next(p), Value("VecRing16", masked))
        /\ Advance(p, Len(items), Len(items))
        /\ reg' = [reg EXCEPT ![p].dots = masked]
        /\ Goto(p, "rep3")
        /\ UNCHANGED <<input, late>>

\* galois_ring_is_match goes on with its session, the store with a new clone.
galois_ring_to_rep3_receive(p) ==
    /\ Arrived(p, "rep3")
    /\ reg' = [reg EXCEPT ![p].dots = [j \in DOMAIN @ |-> [a |-> @[j], b |-> Message(p)[j]]]]
    /\ chan' = Taken(p)
    /\ IF input.op = "is_match" THEN UNCHANGED prf ELSE get_owner_session(p)
    /\ Goto(p, "lift")
    /\ UNCHANGED <<input, late>>

-----------------------------------------------------------------------------
(* lift                                                                    *)

\* Mutant: negative numbers are lifted as they are.
PreLiftUnsigned(p) ==
    IF input.op = "is_match" THEN <<reg[p].dots[2]>> ELSE reg[p].dots

\* The store lifts all dot products, as signed numbers (batch_signed_lift).
PreLift(p) ==
    IF input.op = "is_match" THEN <<reg[p].dots[2]>>
    ELSE [j \in DOMAIN reg[p].dots |-> add_assign_const_role(reg[p].dots[j], 2^(K - 1), p, U16)]

lift(p) ==
    /\ pc[p] = "lift"
    /\ FullAdder(p, PreLift(p), K, K)
    /\ Goto(p, "lift_adder")
    /\ UNCHANGED <<input, late>>

two_carries_first(p) ==
    /\ Arrived(p, "lift_adder")
    /\ FirstCarry(p)
    /\ Goto(p, "lift_ripple")
    /\ UNCHANGED <<input, late>>

two_carries_round(p) ==
    /\ Arrived(p, "lift_ripple")
    /\ reg[p].k < K
    /\ RippleRound(p)
    /\ UNCHANGED <<input, pc, late>>

\* The last bit of the sum is 0.
two_carries_last(p) ==
    LET c == Carry(p)
        z == and_many_send(p, <<reg[p].b[K]>>, <<c>>)
    IN  /\ Arrived(p, "lift_ripple")
        /\ reg[p].k = K
        /\ SendAnd(Taken(p), p, z)
        /\ reg' = [reg EXCEPT ![p].z = z, ![p].c = XorShare(reg[p].b[K], c)]
        /\ Goto(p, "inject")
        /\ UNCHANGED <<input, late>>

\* The shares of the two carries of every lane, first all of the first.
CarryBits(p) ==
    LET n == Len(reg[p].xs)
        word(j) == IF j <= n THEN reg[p].c ELSE and_many_receive(p)[1]
        lane(j) == IF j <= n THEN j ELSE j - n
    IN  [j \in 1 .. 2 * n |-> [a |-> word(j).a[lane(j)], b |-> word(j).b[lane(j)]]]

\* c3 and the masks w0 and w1 of the choice come from the stream that the
\* helper and the sender have in common, c2 from that of sender and receiver.
bit_inject_ot_2round_helper(p) ==
    LET bits == CarryBits(p)
        wc == [j \in DOMAIN bits |-> prev_prf(p, 3 * (j - 1) + (IF bits[j].a = 1 THEN 2 ELSE 1))]
    IN  /\ p = 0
        /\ Arrived(p, "inject")
        /\ chan' = Send(Taken(p), p, next(p), Value("VecRing16", wc))
        /\ Advance(p, 0, 3 * Len(bits))
        /\ reg' = [reg EXCEPT ![p].corr = [j \in DOMAIN bits |-> [a |-> 0, b |-> prev_prf(p, 3 * (j - 1))]]]
        /\ Goto(p, "helper")
        /\ UNCHANGED <<input, late>>

bit_inject_ot_2round_helper_done(p) ==
    /\ Arrived(p, "helper")
    /\ reg' = [reg EXCEPT ![p].corr = [j \in DOMAIN @ |-> [a |-> Message(p)[j], b |-> @[j].b]]]
    /\ chan' = Taken(p)
    /\ Goto(p, "injected")
    /\ UNCHANGED <<input, prf, late>>

\* Mutant: the two outcomes go out as two messages.
bit_inject_ot_2round_sender_split(p) ==
    LET bits == CarryBits(p)
        c(j) == my_prf(p, 3 * (j - 1)) + prev_prf(p, j - 1)
        xor(j) == (bits[j].a + bits[j].b) % 2
        m0 == [j \in DOMAIN bits |-> XorWord((xor(j) - c(j)) % U16, my_prf(p, 3 * (j - 1) + 1))]
        m1 == [j \in DOMAIN bits |-> XorWord((1 - xor(j) - c(j)) % U16, my_prf(p, 3 * (j - 1) + 2))]
    IN  /\ p = 2
        /\ Arrived(p, "inject")
        /\ chan' = Send(Send(Taken(p), p, prev(p), Value("VecRing16", m0)), p, prev(p), Value("VecRing16", m1))
        /\ Advance(p, 3 * Len(bits), Len(bits))
        /\ reg' = [reg EXCEPT ![p].corr =
                       [j \in DOMAIN bits |-> [a |-> my_prf(p, 3 * (j - 1)), b |-> prev_prf(p, j - 1)]]]
        /\ Goto(p, "injected")
        /\ UNCHANGED <<input, late>>

bit_inject_ot_2round_sender(p) ==
    LET bits == CarryBits(p)
        c(j) == my_prf(p, 3 * (j - 1)) + prev_prf(p, j - 1)
        xor(j) == (bits[j].a + bits[j].b) % 2
        m0 == [j \in DOMAIN bits |-> XorWord((xor(j) - c(j)) % U16, my_prf(p, 3 * (j - 1) + 1))]
        m1 == [j \in DOMAIN bits |-> XorWord((1 - xor(j) - c(j)) % U16, my_prf(p, 3 * (j - 1) + 2))]
    IN  /\ p = 2
        /\ Arrived(p, "inject")
        /\ chan' = Send(Taken(p), p, prev(p), Value("Vec", <<m0, m1>>))
        /\ Advance(p, 3 * Len(bits), Len(bits))
        /\ reg' = [reg EXCEPT ![p].corr =
                       [j \in DOMAIN bits |-> [a |-> my_prf(p, 3 * (j - 1)), b |-> prev_prf(p, j - 1)]]]
        /\ Goto(p, "injected")
        /\ UNCHANGED <<input, late>>

bit_inject_ot_2round(p) ==
    /\ p = 1
    /\ Arrived(p, "inject")
    /\ reg' = [reg EXCEPT ![p].corr = CarryBits(p)]
    /\ chan' = Taken(p)
    /\ Goto(p, "receiver")
    /\ UNCHANGED <<input, prf, late>>

bit_inject_ot_2round_receiver_m(p) ==
    /\ Arrived(p, "receiver")
    /\ reg' = [reg EXCEPT ![p].m = Message(p)]
    /\ chan' = Taken(p)
    /\ Goto(p, "receiver_wc")
    /\ UNCHANGED <<input, prf, late>>

bit_inject_ot_2round_receiver(p) ==
    LET bits == reg[p].corr
        xor == [j \in DOMAIN bits |-> XorWord(Message(p)[j], reg[p].m[bits[j].b + 1][j])]
    IN  /\ Arrived(p, "receiver_wc")
        /\ chan' = Send(Taken(p), p, prev(p), Value("VecRing16", xor))
        /\ Advance(p, Len(bits), 0)
        /\ reg' = [reg EXCEPT ![p].corr = [j \in DOMAIN bits |-> [a |-> my_prf(p, j - 1), b |-> xor[j]]]]
        /\ Goto(p, "injected")
        /\ UNCHANGED <<input, late>>

\* The shares in the large ring, without the carries of the small one.
LiftedShares(p) ==
    LET n == Len(reg[p].xs)
    IN  [j \in 1 .. n |-> Minus(Minus(reg[p].xs[j], mul_lift_2k(reg[p].corr[j], K)),
                                mul_lift_2k(reg[p].corr[n + j], K + 1))]

\* lift_and_compare_threshold, with the mask lifted.
lift_and_compare_threshold(p) ==
    /\ pc[p] = "injected"
    /\ input.op = "is_match"
    /\ reg' = [reg EXCEPT ![p].xs = <<Minus(Times(LiftedShares(p)[1], A), mul_lift_2k(reg[p].dots[1], K))>>]
    /\ Goto(p, "msb")
    /\ UNCHANGED <<input, chan, prf, late>>

\* The end of batch_signed_lift; the distances are the store's.
lift_distances(p) ==
    /\ pc[p] = "injected"
    /\ input.op # "is_match"
    /\ reg' = [reg EXCEPT ![p].dots = [j \in DOMAIN reg[p].xs |->
                   add_assign_const_role(LiftedShares(p)[j], U32 - 2^(K - 1), p, U32)]]
    /\ get_owner_session(p)
    /\ Goto(p, "ready")
    /\ UNCHANGED <<input, chan, late>>

-----------------------------------------------------------------------------
(* is_match and less_than of the store                                     *)

compare_threshold(p) ==
    /\ pc[p] = "ready"
    /\ input.op = "threshold"
    /\ reg' = [reg EXCEPT ![p].xs = <<Minus(Times(reg[p].dots[2], A), Times(reg[p].dots[1], B))>>]
    /\ Goto(p, "msb")
    /\ UNCHANGED <<input, chan, prf, late>>

\* d2 * t1 - t2 * d1
CrossProduct(d) == MulLocal(d[3], d[2]) - MulLocal(d[4], d[1])

cross_mul(p) ==
    LET res_a == (gen_zero_share(p, 0, U32) + CrossProduct(reg[p].dots)) % U32
    IN  /\ pc[p] = "ready"
        /\ input.op = "less_than"
        /\ chan' = Send(chan, p, next(p), Value("RingElement32", res_a))
        /\ Advance(p, 1, 1)
        /\ reg' = [reg EXCEPT ![p].z = res_a]
        /\ Goto(p, "cross")
        /\ UNCHANGED <<input, late>>

cross_compare(p) ==
    /\ Arrived(p, "cross")
    /\ reg' = [reg EXCEPT ![p].xs = <<[a |-> reg[p].z, b |-> Message(p)]>>]
    /\ chan' = Taken(p)
    /\ Goto(p, "msb")
    /\ UNCHANGED <<input, prf, late>>

-----------------------------------------------------------------------------
(* single_extract_msb_u32 and open_bin                                     *)

extract_msb(p) ==
    /\ pc[p] = "msb"
    /\ FullAdder(p, reg[p].xs, 2 * K, 2 * K - 1)
    /\ Goto(p, "msb_adder")
    /\ UNCHANGED <<input, late>>

get_msb_first(p) ==
    /\ Arrived(p, "msb_adder")
    /\ FirstCarry(p)
    /\ Goto(p, "msb_ripple")
    /\ UNCHANGED <<input, late>>

LastRound == 2 * K - 1

get_msb_round(p) ==
    /\ Arrived(p, "msb_ripple")
    /\ reg[p].k < LastRound
    /\ RippleRound(p)
    /\ UNCHANGED <<input, pc, late>>

\* Mutant: a value of the own stream is drawn for the opening.
get_msb_last_drawing(p) ==
    LET sign == XorShare(XorShare(reg[p].s[2 * K], reg[p].b[2 * K - 1]), Carry(p))
    IN  /\ Arrived(p, "msb_ripple")
        /\ reg[p].k = LastRound
        /\ chan' = Send(Taken(p), p, next(p), Value("RingElementBit", sign.b[1]))
        /\ reg' = [reg EXCEPT ![p].c = sign]
        /\ Advance(p, 1, 0)
        /\ Goto(p, "open")
        /\ UNCHANGED <<input, late>>

\* The sign, of which open_bin sends the part b to the next party.
get_msb_last(p) ==
    LET sign == XorShare(XorShare(reg[p].s[2 * K], reg[p].b[2 * K - 1]), Carry(p))
    IN  /\ Arrived(p, "msb_ripple")
        /\ reg[p].k = LastRound
        /\ chan' = Send(Taken(p), p, next(p), Value("RingElementBit", sign.b[1]))
        /\ reg' = [reg EXCEPT ![p].c = sign]
        /\ Goto(p, "open")
        /\ UNCHANGED <<input, prf, late>>

OpenedBit(a, b, c) == (a + b + c) % 2

open_bin(p) ==
    /\ Arrived(p, "open")
    /\ reg' = [reg EXCEPT ![p].bit = OpenedBit(reg[p].c.a[1], reg[p].c.b[1], Message(p))]
    /\ chan' = Taken(p)
    /\ Goto(p, "done")
    /\ UNCHANGED <<input, prf, late>>

-----------------------------------------------------------------------------
(* Errors: the caller unwraps the result, which ends its task              *)

\* A receive times out, or from_network gives another variant than the one the
\* operation accepts.
Fails(p) ==
    LET empty == Queue(p) = <<>>
    IN  /\ Waits(p)
        /\ IF empty THEN input.timeouts ELSE Head(Queue(p)).type # Expected(p)[2]
        /\ late' = (late \/ empty)
        /\ chan' = IF empty THEN chan ELSE Taken(p)
        /\ Goto(p, "failed")
        /\ UNCHANGED <<input, reg, prf>>

Returned(p) == pc[p] \in {"done", "failed"}

Done == (\A p \in Role : Returned(p)) /\ UNCHANGED vars

Step(p) ==
    \/ galois_ring_to_rep3(p) \/ galois_ring_to_rep3_receive(p)
    \/ lift(p) \/ two_carries_first(p) \/ two_carries_round(p) \/ two_carries_last(p)
    \/ bit_inject_ot_2round_helper(p) \/ bit_inject_ot_2round_helper_done(p)
    \/ bit_inject_ot_2round_sender(p) \/ bit_inject_ot_2round(p)
    \/ bit_inject_ot_2round_receiver_m(p) \/ bit_inject_ot_2round_receiver(p)
    \/ lift_and_compare_threshold(p) \/ lift_distances(p)
    \/ compare_threshold(p) \/ cross_mul(p) \/ cross_compare(p)
    \/ extract_msb(p) \/ get_msb_first(p) \/ get_msb_round(p) \/ get_msb_last(p) \/ open_bin(p)
    \/ Fails(p)

Next == (\E p \in Role : Step(p)) \/ Done

Spec == Init /\ [][Next]_vars

-----------------------------------------------------------------------------
(* What the operations compute                                             *)

Sum(w) == w[0] + w[1] + w[2]

Signed(w, ring) == IF w >= ring \div 2 THEN w - ring ELSE w

\* The dot products of pair i.
Code(i) == Signed(Sum([p \in Role |-> input.code[p][i]]) % U16, U16)
Mask(i) == (2 * Sum([p \in Role |-> input.mask[p][i]])) % U16

Labels == Local \cup {"rep3", "lift_adder", "lift_ripple", "inject", "helper", "receiver", "receiver_wc",
                      "cross", "msb_adder", "msb_ripple", "open"}

TypeOK ==
    /\ pc \in [Role -> Labels]
    /\ prf \in [Role -> [my : Nat, prev : Nat]]
    /\ \A p \in Role : reg[p].k \in 0 .. 2 * K /\ reg[p].bit \in 0 .. 2
    /\ late \in BOOLEAN

\* A party that gets to an answer, whatever became of the others, has that of
\* the clear: a match if mask * A < code * B (compare_threshold), and "less"
\* if the first distance is below the second, code1 / mask1 > code2 / mask2.
AnswerIsRight ==
    \A p \in Role : pc[p] = "done" =>
        (reg[p].bit = 1) <=>
            IF input.op = "less_than" THEN Code(1) * Mask(2) > Code(2) * Mask(1)
            ELSE Mask(1) * A < Code(1) * B

\* batch_signed_lift: the distances of the store are replicated shares of the
\* signed dot products modulo the large ring.
LiftIsSigned ==
    (\A p \in Role : pc[p] = "ready") =>
        \A j \in DOMAIN reg[0].dots :
            /\ Signed(Sum([p \in Role |-> reg[p].dots[j].a]) % U32, U32)
                   = IF j % 2 = 1 THEN Code((j + 1) \div 2) ELSE Mask(j \div 2)
            /\ \A p \in Role : reg[p].dots[j].b = reg[prev(p)].dots[j].a

\* No party is ever handed a message of another step than the one it waits in,
\* even when the others have given up: an operation fails only for a timeout.
FailsOnlyLate == (\E p \in Role : pc[p] = "failed") => late

\* A party and the next one that are through have drawn the same number of
\* values of the stream they share, and have left no message behind.
InStepWhenDone ==
    \A p \in Role : (pc[p] = "done" /\ pc[next(p)] = "done") =>
        /\ prf[p].my = prf[next(p)].prev
        /\ chan[p][next(p)] = <<>> /\ chan[next(p)][p] = <<>>

\* The distances of the store and the answers of both operations are those of
\* the clear.
ValuesAreRight == LiftIsSigned /\ AnswerIsRight
=============================================================================
