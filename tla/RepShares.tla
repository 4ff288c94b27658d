------------------------------- MODULE RepShares -------------------------------
(***************************************************************************)
(* The blocks of the GPU circuits: three parties hold replicated shares,   *)
(* party p the parts a (its own) and b (the a of the previous party), of   *)
(* bits packed in 64-bit words.  Every kernel works element by element, so *)
(* a vector of bits is a function from positions to {0, 1}.                *)
(* Sources: threshold_ring/cuda/kernel.cu, threshold_ring/protocol.rs,     *)
(* rng/chacha_corr.rs, rng/chacha.rs.                                      *)
(***************************************************************************)
EXTENDS Integers, Sequences, FiniteSets

CONSTANTS Keystream(_, _, _),  \* ChaCha: seed, block, element |-> a word
          WordsPerBlock        \* 64-bit words one ChaCha block fills (8)

Party == 0 .. 2

next_id(p) == (p + 1) % 3

prev_id(p) == (p + 2) % 3

-----------------------------------------------------------------------------
(* Bits of one element                                                     *)

XorBit(x, y) == (x + y) % 2

and_pre_inner(la, lb, ra, rb, r) == (la * ra + lb * ra + la * rb + r) % 2

or_pre_inner(la, lb, ra, rb, r) == (and_pre_inner(la, lb, ra, rb, r) + la + ra) % 2

-----------------------------------------------------------------------------
(* Vectors of bits, and shares of them                                     *)

XorBits(u, v) == [i \in DOMAIN u |-> XorBit(u[i], v[i])]

shared_xor(x, y) == [a |-> XorBits(x.a, y.a), b |-> XorBits(x.b, y.b)]

shared_and_pre(x, y, r) ==
    [i \in DOMAIN r |-> and_pre_inner(x.a[i], x.b[i], y.a[i], y.b[i], r[i])]

shared_or_pre(x, y, r) ==
    [i \in DOMAIN r |-> or_pre_inner(x.a[i], x.b[i], y.a[i], y.b[i], r[i])]

\* get_range and get_offset: the elements from .. to - 1, numbered from 0.
get_range(x, from, to) ==
    [a |-> [i \in 0 .. to - from - 1 |-> x.a[from + i]],
     b |-> [i \in 0 .. to - from - 1 |-> x.b[from + i]]]

\* The transposes: bit i of a word becomes element i of a packed vector.
transpose_pack(w, bits) == [i \in 0 .. bits - 1 |-> (w \div 2^i) % 2]

transpose_pack_with_len(x, bits) == [a |-> transpose_pack(x.a, bits), b |-> transpose_pack(x.b, bits)]

\* split_inner: a word w = w_0 + w_1 + w_2 becomes three shared bit vectors,
\* of which party id holds the parts it knows and zeroes.
split_inner(id, t) ==
    LET zero == [i \in DOMAIN t.a |-> 0]
    IN  [x1 |-> [a |-> IF id = 0 THEN t.a ELSE zero, b |-> IF id = 1 THEN t.b ELSE zero],
         x2 |-> [a |-> IF id = 1 THEN t.a ELSE zero, b |-> IF id = 2 THEN t.b ELSE zero],
         x3 |-> [a |-> IF id = 2 THEN t.a ELSE zero, b |-> IF id = 0 THEN t.b ELSE zero]]

-----------------------------------------------------------------------------
(* The two keystreams of a party: chacha1 is its own, chacha2 that of the  *)
(* previous party.  A call advances the counter by whole blocks.           *)

Blocks(n) == (n + WordsPerBlock - 1) \div WordsPerBlock

fill_my_rng(p, at, n) == [i \in 0 .. n - 1 |-> Keystream(p, at, i) % 2]

fill_their_rng(p, at, n) == [i \in 0 .. n - 1 |-> Keystream(prev_id(p), at, i) % 2]

\* fill_rng_into: both streams xored, a share of zero.
fill_rng(p, at, n) == XorBits(fill_my_rng(p, at.my, n), fill_their_rng(p, at.their, n))

\* A message is encrypted under the stream its two ends have in common.
chacha1_encrypt_u64(p, at, v) == XorBits(v, fill_my_rng(p, at, Cardinality(DOMAIN v)))

chacha2_decrypt_u64(p, at, v) == XorBits(v, fill_their_rng(p, at, Cardinality(DOMAIN v)))

-----------------------------------------------------------------------------
(* NCCL delivers the messages from one party to another in order: ch[p][q] *)
(* are those from p to q that are under way.                               *)

send(ch, p, q, m) == [ch EXCEPT ![p][q] = Append(@, m)]

receive(ch, p, q) == [ch EXCEPT ![p][q] = Tail(@)]
=============================================================================
