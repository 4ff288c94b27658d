------------------------------- MODULE OrReduce -------------------------------
(***************************************************************************)
(* or_reduce_result (threshold_ring/protocol.rs): three parties turn the   *)
(* shared result bits of all lanes, on all devices, into one shared bit,   *)
(* their disjunction.  Words are or-ed pairwise on every device, the first *)
(* words of the devices are collected on device 0 and or-ed there, and the *)
(* last word is folded onto its lowest bit.                                *)
(*                                                                         *)
(* A device holds chunk_size words of WordBits bits, as one vector of bits.*)
(***************************************************************************)
EXTENDS RepShares

CONSTANTS n_devices, chunk_size,
          WordBits,   \* 64 in the code
          IntBits     \* width of the literal 1 in the kernel's mask, 32

ASSUME SizesAssumption == n_devices \in Nat \ {0} /\ n_devices <= chunk_size /\ chunk_size >= 2

Device == 0 .. n_devices - 1

VARIABLES stage,   \* party -> "waiting", "tree", "collect", "collapse", "reduced"
          bits,    \* party -> device -> its share of the words
          num,     \* party -> words left in the tree, or bits in the word
          sent,    \* party -> words of the exchange under way
          wire,    \* from -> to -> messages under way
          dctr,    \* party -> device -> counters of its two keystreams
          rand     \* party -> where collapse_u64 drew its randomness, and the word it is at

orVars == <<stage, bits, num, sent, wire, dctr, rand>>

words(n) == n * WordBits

\* v with its elements from words(i) on replaced by those of u.
Put(v, i, u) == [j \in DOMAIN v |-> IF j - words(i) \in DOMAIN u THEN u[j - words(i)] ELSE v[j]]

OrInit ==
    /\ stage = [p \in Party |-> "waiting"]
    /\ bits = [p \in Party |-> <<>>]
    /\ num = [p \in Party |-> 0]
    /\ sent = [p \in Party |-> 0]
    /\ wire = [p \in Party |-> [q \in Party |-> <<>>]]
    /\ dctr = [p \in Party |-> <<>>]
    /\ rand = [p \in Party |-> [at |-> [my |-> 0, their |-> 0], word |-> 0]]

\* or_reduce_result is called with the shares x and the generators at `at`.
or_reduce_result(p, x, at) ==
    /\ stage[p] = "waiting"
    /\ stage' = [stage EXCEPT ![p] = "tree"]
    /\ bits' = [bits EXCEPT ![p] = x]
    /\ num' = [num EXCEPT ![p] = chunk_size]
    /\ dctr' = [dctr EXCEPT ![p] = at]
    /\ UNCHANGED <<sent, wire, rand>>

\* The devices an exchange of party p is on.
Active(p) == IF stage[p] = "tree" THEN Device ELSE {0}

\* chacha1_encrypt_u64 of the first n words of the a parts, to the next party;
\* zeroes(d) blocks of shares of zero have been drawn before.
SendWords(p, as, n, zeroes) ==
    /\ wire' = send(wire, p, next_id(p), [d \in Active(p) |->
           chacha1_encrypt_u64(p, dctr[p][d].my + zeroes, [i \in 0 .. words(n) - 1 |-> as[d][i]])])
    /\ dctr' = [dctr EXCEPT ![p] = [d \in Device |->
           IF d \in Active(p) THEN [my |-> @[d].my + zeroes + Blocks(n), their |-> @[d].their + zeroes]
           ELSE @[d]]]
    /\ sent' = [sent EXCEPT ![p] = n]

\* The rest of the exchange: the b parts from the previous party, decrypted.
ReceiveWords(p) ==
    LET q == prev_id(p)
        n == sent[p]
    IN  /\ n > 0
        /\ wire[q][p] # <<>>
        /\ bits' = [bits EXCEPT ![p] = [d \in Device |->
               IF d \notin Active(p) THEN @[d]
               ELSE [a |-> @[d].a,
                     b |-> Put(@[d].b, 0, chacha2_decrypt_u64(p, dctr[p][d].their, Head(wire[q][p])[d]))]]]
        /\ wire' = receive(wire, q, p)
        /\ dctr' = [dctr EXCEPT ![p] = [d \in Device |->
               IF d \in Active(p) THEN [@[d] EXCEPT !.their = @ + Blocks(n)] ELSE @[d]]]
        /\ sent' = [sent EXCEPT ![p] = 0]
        /\ UNCHANGED <<stage, num, rand>>

\* assign_view copies src, and whatever follows it, to des: the kernel takes a
\* size_t where the call passes an i32, so how much follows is not determined.
assign_view(x, des, src, extent) ==
    [a |-> Put(x.a, des, get_range(src, 0, words(extent)).a),
     b |-> Put(x.b, des, get_range(src, 0, words(extent)).b)]

\* Mutant: the odd word out is dropped.
OrLevelEven(x, z, half, odd, extent) == [a |-> Put(x.a, 0, z), b |-> x.b]

\* One level on one device: the first half or-ed with the second, and the odd
\* word out moved behind them.
OrLevel(x, z, half, odd, extent) ==
    LET y == [a |-> Put(x.a, 0, z), b |-> x.b]
    IN  IF odd = 0 THEN y
        ELSE assign_view(y, half, get_range(y, words(2 * half), words(chunk_size)), extent)

\* or_tree_on_gpus, and or_tree_on_gpu on device 0.
or_tree(p) ==
    LET half == num[p] \div 2
        odd == num[p] % 2
        z(d) == shared_or_pre(get_range(bits[p][d], 0, words(half)),
                              get_range(bits[p][d], words(half), words(2 * half)),
                              fill_rng(p, dctr[p][d], words(half)))
    IN  /\ stage[p] \in {"tree", "collect"}
        /\ sent[p] = 0
        /\ num[p] > 1
        /\ \E extent \in (IF odd = 0 THEN {0} ELSE 1 .. chunk_size - 2 * half) :
               bits' = [bits EXCEPT ![p] = [d \in Device |->
                           IF d \in Active(p) THEN OrLevel(@[d], z(d), half, odd, extent) ELSE @[d]]]
        /\ SendWords(p, [d \in Active(p) |-> z(d)], half, Blocks(half))
        /\ num' = [num EXCEPT ![p] = half + odd]
        /\ UNCHANGED <<stage, rand>>
\* collect_graphic_result: the first words of the other devices follow the
\* first word of device 0.  With one device there is nothing to collect.
collect_graphic_result(p) ==
    LET b0 == bits[p][0]
        others == [i \in 0 .. words(n_devices - 1) - 1 |-> <<1 + i \div WordBits, i % WordBits>>]
        x == [a |-> [i \in DOMAIN others |-> bits[p][others[i][1]].a[others[i][2]]],
              b |-> [i \in DOMAIN others |-> bits[p][others[i][1]].b[others[i][2]]]]
    IN  /\ stage[p] = "tree"
        /\ sent[p] = 0
        /\ num[p] = 1
        /\ bits' = [bits EXCEPT ![p][0] = assign_view(b0, 1, x, n_devices - 1)]
        /\ stage' = [stage EXCEPT ![p] = "collect"]
        /\ num' = [num EXCEPT ![p] = n_devices]
        /\ UNCHANGED <<sent, wire, dctr, rand>>

\* The randomness of collapse_u64 is drawn once, 16 words on device 0.
start_collapse(p) ==
    /\ stage[p] = "collect"
    /\ sent[p] = 0
    /\ num[p] = 1
    /\ stage' = [stage EXCEPT ![p] = "collapse"]
    /\ num' = [num EXCEPT ![p] = WordBits]
    /\ dctr' = [dctr EXCEPT ![p][0] = [my |-> @.my + Blocks(16), their |-> @.their + Blocks(16)]]
    /\ rand' = [rand EXCEPT ![p].at = dctr[p][0]]
    /\ UNCHANGED <<bits, sent, wire>>

\* Bits of the word the kernel's mask keeps: `1 << 32` is out of the range of
\* an int, and the mask is then all ones.
kept(next) == IF next >= IntBits THEN WordBits ELSE next

\* collapse_u64_helper: the word is or-ed with itself shifted; the shifted word
\* is left in the second word of the device.
collapse_u64_helper(p, next, r) ==
    LET w == get_range(bits[p][0], 0, words(1))
        shifted(v) == [i \in 0 .. WordBits - 1 |-> IF i + next < WordBits THEN v[i + next] ELSE 0]
        h == [a |-> shifted(w.a), b |-> shifted(w.b)]
        z == shared_or_pre(w, h, r)
    IN  [res |-> [i \in DOMAIN z |-> IF i < kept(next) THEN z[i] ELSE 0], helper |-> h]

collapse_u64(p) ==
    LET next == num[p] \div 2
        at == rand[p].at
        r == [i \in 0 .. WordBits - 1 |->
                  XorBit(Keystream(p, at.my, words(rand[p].word) + i) % 2,
                         Keystream(prev_id(p), at.their, words(rand[p].word) + i) % 2)]
        out == collapse_u64_helper(p, next, r)
    IN  /\ stage[p] = "collapse"
        /\ sent[p] = 0
        /\ num[p] > 1
        /\ bits' = [bits EXCEPT ![p][0] = [a |-> Put(Put(@.a, 0, out.res), 1, out.helper.a),
                                           b |-> Put(@.b, 1, out.helper.b)]]
        /\ SendWords(p, [d \in {0} |-> out.res], 1, 0)
        /\ num' = [num EXCEPT ![p] = next]
        /\ rand' = [rand EXCEPT ![p].word = @ + (next + 7) \div 8]
        /\ UNCHANGED <<stage>>

finish_collapse(p) ==
    /\ stage[p] = "collapse"
    /\ sent[p] = 0
    /\ num[p] = 1
    /\ stage' = [stage EXCEPT ![p] = "reduced"]
    /\ UNCHANGED <<bits, num, sent, wire, dctr, rand>>

OrStep(p) ==
    ReceiveWords(p) \/ or_tree(p) \/ collect_graphic_result(p) \/ start_collapse(p)
        \/ collapse_u64(p) \/ finish_collapse(p)
=============================================================================
