------------------------------- MODULE IrisDot -------------------------------
(***************************************************************************)
(* The GPU comparison of an iris with a database of shares, chunk by chunk *)
(* (iris-mpc-gpu: dot/share_db.rs, dot/kernel.cu).  Every party multiplies *)
(* in bytes, masks its result with the streams it has in common with its   *)
(* two neighbours, and sends it to the next party under a one-time pad of  *)
(* the same streams, so that each result is held by two parties.  The      *)
(* stored shares of one party may be ones rebuilt from the other two's.    *)
(*                                                                         *)
(* Codes and masks have engines of their own, with seeds of their own.     *)
(* Commands of a party run in the order of their launch; the send and the  *)
(* receive of a chunk are one NCCL group, so the next chunk waits for both.*)
(***************************************************************************)
EXTENDS IrisShares, SequencesExt, Bitwise

CONSTANTS Queries,            \* irises: code, mask and the client's seed
          Galleries,          \* databases: sequences of irises
          ChunkSize,          \* records compared at a time
          Block,              \* what the generator's lengths are rounded to (64)
          Keystream(_, _, _)  \* u16 words: engine, party sharing it with the next, position

Party == 0 .. 2
next_peer(p) == (p + 1) % 3
prev_peer(p) == (p + 2) % 3
Engine == {"codes", "masks"}
Rotations == 1 .. 2 * MaxRotation + 1
BatchLen == ChunkSize * Cardinality(Rotations)

\* Mask bits come in pairs: only half of them is compared.
ASSUME PairwiseMasks ==
    \A iris \in Queries \union UNION {Range(g) : g \in Galleries} :
        \A i \in 0 .. CodeLength - 1 : iris.mask[i] = iris.mask[2 * (i \div 2)]

VARIABLES query, gallery,  \* the irises, in plain
          queried, stored, \* party -> its shares of them, those of the query prepared
          rebuilt,         \* the parties whose stored shares were rebuilt
          rngs,            \* party -> engine -> generator of the pair with next, with prev
          wire,            \* party -> what it has sent that next has not received
          results,         \* party -> chunk -> engine -> masked sums
          results_peer     \* the same of the previous party

vars == <<query, gallery, queried, stored, rebuilt, rngs, wire, results, results_peer>>

\* The shares of an iris for every party (the client).
encode(iris) ==
    LET code == encode_iris_code(iris.code, iris.mask, 2 * iris.seed)
        mask == encode_mask_code(iris.mask, 2 * iris.seed + 1)
    IN  [p \in Party |-> [codes |-> code[p], masks |-> Trimmed(mask[p])]]

\* As it came, and in every rotation of what it is with its Lagrange coefficient.
preprocess_iris_message_shares(p, share) ==
    [store |-> share, rotations |-> all_rotations(preprocess_coefs(p + 1, share))]

\* seed: the party whose next one has it too; at: words produced; chunk: the buffer.
ChaCha(seed) == [seed |-> seed, at |-> 0, chunk |-> [i \in 1 .. BatchLen |-> 0]]

Init ==
    /\ query \in Queries
    /\ gallery \in Galleries
    /\ LET shares == encode(query)
       IN  queried = [p \in Party |-> [g \in Engine |->
                         preprocess_iris_message_shares(p, shares[p][g])]]
    /\ LET all == [r \in DOMAIN gallery |-> encode(gallery[r])]
       IN  stored = [p \in Party |-> [r \in DOMAIN gallery |-> all[r][p]]]
    /\ rebuilt = {}
    /\ rngs = [p \in Party |-> [g \in Engine |->
                  [mine |-> ChaCha(p), their |-> ChaCha(prev_peer(p))]]]
    /\ wire = [p \in Party |-> << >>]
    /\ results = [p \in Party |-> << >>]
    /\ results_peer = [p \in Party |-> << >>]

-----------------------------------------------------------------------------
(* Multiplication in bytes                                                 *)

Signed(byte) == IF byte >= 128 THEN byte - 256 ELSE byte

\* Mutant: the bytes are read as signed ones without the shift by 128.
preprocess_unshifted(word) == <<Signed(word % 256), Signed(word \div 256)>>

\* The two bytes of a word, each less 128.
preprocess(word) == <<(word % 256) - 128, (word \div 256) - 128>>

Limbs(share) == [e \in DOMAIN share |-> <<preprocess(share[e][1]), preprocess(share[e][2]),
                                           preprocess(share[e][3]), preprocess(share[e][4])>>]

gemm(a, i, b, j) ==
    MapThenSumSet(LAMBDA e : a[e][1][i] * b[e][1][j] + a[e][2][i] * b[e][2][j]
                                 + a[e][3][i] * b[e][3][j] + a[e][4][i] * b[e][4][j], DOMAIN a)

Sum(a, i) == MapThenSumSet(LAMBDA e : a[e][1][i] + a[e][2][i] + a[e][3][i] + a[e][4][i], DOMAIN a)

\* The product of the high bytes is a multiple of 2^16.
dot(a, b) == gemm(a, 1, b, 1) + 256 * (gemm(a, 1, b, 2) + gemm(a, 2, b, 1))

\* What the shifts by 128 took away; without a constant, the length being 0 mod 4.
matmul_correct(c, s0, s1) == (c + 128 * s0 + 32768 * ((s0 + s1) % 2)) % 65536

GpuDot(x, y) ==
    LET a == Limbs(x)
        b == Limbs(y)
    IN  matmul_correct(dot(a, b), Sum(a, 1) + Sum(b, 1), Sum(a, 2) + Sum(b, 2))

\* The masks were counted on one half.
multiplier(g) == IF g = "codes" THEN 1 ELSE 2

-----------------------------------------------------------------------------
(* The generators                                                          *)

Words(g, rng, n) == [i \in 1 .. n |-> Keystream(g, rng.seed, rng.at + i - 1)]

\* The length is in bytes; what lies beyond it keeps its contents.
fill_rng_no_host_copy(g, rng, bytes) ==
    [rng EXCEPT !.chunk = Words(g, rng, bytes \div 2) \o SubSeq(@, bytes \div 2 + 1, BatchLen),
                !.at = @ + bytes \div 2]

\* Past n words of pad.
Drawn(rng, n) == [rng EXCEPT !.at = @ + n]

Pad(g, rng, words) == [i \in DOMAIN words |-> words[i] ^^ Keystream(g, rng.seed, rng.at + i - 1)]

-----------------------------------------------------------------------------
(* Actions                                                                 *)

\* Before any comparison: what the two others send is put together.
Rebuild(t) ==
    /\ rebuilt = {} /\ \A p \in Party : rngs[p]["codes"].mine.at = 0
    /\ rebuilt' = {t}
    /\ LET a == next_peer(t)
           b == prev_peer(t)
           Share(r, g, seed) ==
               reshare_code_batch(reshare_code(a, b, t, stored[a][r][g], seed),
                                  reshare_code(b, a, t, stored[b][r][g], seed))
       IN  stored' = [stored EXCEPT ![t] = [r \in DOMAIN gallery |->
                         [codes |-> Share(r, "codes", 2 * r), masks |-> Share(r, "masks", 2 * r + 1)]]]
    /\ UNCHANGED <<query, gallery, queried, rngs, wire, results, results_peer>>

\* Rotation by rotation, the records of chunk c.
RawDots(p, g, c) ==
    [i \in 1 .. BatchLen |->
        GpuDot(stored[p][(c - 1) * ChunkSize + ((i - 1) % ChunkSize) + 1][g],
               queried[p][g].rotations[(i - 1) \div ChunkSize + 1])]

Reduce(dots, g, r) ==
    [i \in DOMAIN dots |-> (dots[i] * multiplier(g) + r.mine.chunk[i] - r.their.chunk[i]) % 65536]

\* dot, dot_reduce_and_multiply, and the sending half of reshare_results.
Compare(p) ==
    LET c == Len(results[p]) + 1
        refill == ((BatchLen + Block - 1) \div Block) * Block
        filled == [g \in Engine |->
            [mine |-> fill_rng_no_host_copy(g, rngs[p][g].mine, refill),
             their |-> fill_rng_no_host_copy(g, rngs[p][g].their, refill)]]
        sums == [g \in Engine |-> Reduce(RawDots(p, g, c), g, filled[g])]
    IN  /\ c * ChunkSize <= Len(gallery)
        /\ Len(results_peer[p]) = Len(results[p])
        /\ results' = [results EXCEPT ![p] = Append(@, sums)]
        /\ wire' = [wire EXCEPT ![p] = Append(@, [g \in Engine |-> Pad(g, filled[g].mine, sums[g])])]
        /\ rngs' = [rngs EXCEPT ![p] = [g \in Engine |->
                       [filled[g] EXCEPT !.mine = Drawn(@, BatchLen)]]]
        /\ UNCHANGED <<query, gallery, queried, stored, rebuilt, results_peer>>

\* Mutant: the stream shared with the sender is not advanced by the pad.
Receive_again(p) ==
    LET from == prev_peer(p)
    IN  /\ Len(results_peer[p]) < Len(results[p])
        /\ wire[from] /= << >>
        /\ results_peer' = [results_peer EXCEPT ![p] =
               Append(@, [g \in Engine |-> Pad(g, rngs[p][g].their, Head(wire[from])[g])])]
        /\ wire' = [wire EXCEPT ![from] = Tail(@)]
        /\ UNCHANGED <<query, gallery, queried, stored, rebuilt, rngs, results>>

\* The receiving half of reshare_results.
Receive(p) ==
    LET from == prev_peer(p)
    IN  /\ Len(results_peer[p]) < Len(results[p])
        /\ wire[from] /= << >>
        /\ results_peer' = [results_peer EXCEPT ![p] =
               Append(@, [g \in Engine |-> Pad(g, rngs[p][g].their, Head(wire[from])[g])])]
        /\ wire' = [wire EXCEPT ![from] = Tail(@)]
        /\ rngs' = [rngs EXCEPT ![p] = [g \in Engine |->
                       [rngs[p][g] EXCEPT !.their = Drawn(@, BatchLen)]]]
        /\ UNCHANGED <<query, gallery, queried, stored, rebuilt, results>>

Finished == \A p \in Party : Len(results_peer[p]) * ChunkSize = Len(gallery)

Terminated == Finished /\ UNCHANGED vars

Next ==
    \/ \E p \in Party : Rebuild(p) \/ Compare(p) \/ Receive(p)
    \/ Terminated

Spec == Init /\ [][Next]_vars

-----------------------------------------------------------------------------
(* Properties                                                              *)

U16 == 0 .. 65535

\* Results are words; a party receives a chunk after it has sent its own.
TypeOK ==
    /\ query \in Queries /\ gallery \in Galleries
    /\ \A p \in Party :
          /\ Len(results_peer[p]) <= Len(results[p])
          /\ \A c \in DOMAIN results[p] : \A g \in Engine : results[p][c][g] \in [1 .. BatchLen -> U16]
          /\ \A g \in Engine : rngs[p][g].mine.at \in Nat /\ rngs[p][g].their.at \in Nat
    /\ rebuilt \subseteq Party

\* The bits of an iris, row, column, wavelet and part, its columns moved right.
Rotated(bits, by) == [i \in DOMAIN bits |->
    LET row == i \div (4 * CODE_COLS)
        col == (i \div 4) % CODE_COLS
    IN  bits[4 * CODE_COLS * row + 4 * ((col - by) % CODE_COLS) + (i % 4)]]

\* Once every party has compared a chunk, their masked code results add up
\* to the agreements less the disagreements of the two irises under their
\* common mask, and the mask results to the size of that mask, for every
\* rotation of the query: what IrisCode::get_distance computes in plain,
\* whatever the shares, the masks of the results, and whoever was rebuilt.
DistanceIsPlain ==
    \A c \in 1 .. Len(gallery) \div ChunkSize :
      (\A p \in Party : c <= Len(results[p])) =>
        \A n \in Rotations, s \in 1 .. ChunkSize :
          LET other == gallery[(c - 1) * ChunkSize + s]
              code == Rotated(query.code, n - 1 - MaxRotation)
              mask == Rotated(query.mask, n - 1 - MaxRotation)
              common == {i \in DOMAIN mask : mask[i] = 1 /\ other.mask[i] = 1}
              differ == {i \in common : code[i] /= other.code[i]}
              Opened(g) == LET i == (n - 1) * ChunkSize + s
                           IN  (results[0][c][g][i] + results[1][c][g][i] + results[2][c][g][i]) % 65536
          IN  /\ Opened("codes") = (Cardinality(common) - 2 * Cardinality(differ)) % 65536
              /\ Opened("masks") = Cardinality(common)

\* What a party decrypts is what the previous one computed, chunk by chunk:
\* the two use one stream both to mask results and to encrypt them, and it
\* never gets out of step, however far one of them runs ahead.
Replicated ==
    \A p \in Party : \A c \in DOMAIN results_peer[p] :
        results_peer[p][c] = results[prev_peer(p)][c]

\* The shares rebuilt from the two other parties' are those that the client
\* made for the party: the senders' masks cancel, and the record opens with
\* either of them to the same iris (reshare_code, reshare_code_batch).
RebuiltIsSame ==
    \A t \in rebuilt : \A r \in DOMAIN gallery : stored[t][r] = encode(gallery[r])[t]

\* On the shares of a party, the product in signed bytes, the plain inner
\* product of a prepared query with a record (trick_dot) and the product in
\* the ring (full_dot) are one number.
DotsAgree ==
    (\A p \in Party : results[p] = << >>) =>
        \A p \in Party, r \in DOMAIN gallery :
            LET x == stored[p][r].codes
                y == queried[p].codes.rotations[MaxRotation + 1]
            IN  /\ GpuDot(x, y) = trick_dot(x, y)
                /\ GpuDot(x, y) = full_dot(p + 1, x, queried[p].codes.store)
=============================================================================
