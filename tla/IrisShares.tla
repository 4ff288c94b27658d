------------------------------ MODULE IrisShares ------------------------------
(***************************************************************************)
(* How an iris is shared among three parties: its bits are the coordinates *)
(* of elements of the Galois ring Z_2^16[x] / (x^4 - x - 1), each of them  *)
(* a Shamir secret of degree 1.  With a Lagrange coefficient and a change  *)
(* of basis applied to one side, the plain inner products of the           *)
(* parties' coefficients add up to that of the secrets                     *)
(* (iris-mpc-common: galois.rs, galois_engine.rs; the shares rebuilt in    *)
(* iris-mpc-upgrade: reshare.rs).                                          *)
(*                                                                         *)
(* A bit array is a function on 0 .. CodeLength - 1; the coefficients of a *)
(* share are those of its elements, numbered from 0, four to an element.   *)
(***************************************************************************)
EXTENDS Integers, Sequences, FiniteSets, FiniteSetsExt

CONSTANTS CODE_COLS,      \* columns of an iris code (200)
          RowGroups,      \* a quarter of its rows (4)
          MaxRotation,    \* columns a query is rotated by, at most (15)
          Random(_, _, _) \* the generator of a client: seed, element, word

CodeLength == 2 * 2 * RowGroups * CODE_COLS * 4
MaskLength == CodeLength \div 2
Elements(length) == 0 .. length \div 4 - 1

-----------------------------------------------------------------------------
(* u16 and the ring, an element being its four coefficients                *)

\* The product is put together from bytes, to stay within the checker's integers.
wrapping_mul(a, b) == (a * (b % 256) + 256 * ((a * (b \div 256)) % 256)) % 65536

add(x, y) == <<(x[1] + y[1]) % 65536, (x[2] + y[2]) % 65536, (x[3] + y[3]) % 65536, (x[4] + y[4]) % 65536>>

sub(x, y) == <<(x[1] - y[1]) % 65536, (x[2] - y[2]) % 65536, (x[3] - y[3]) % 65536, (x[4] - y[4]) % 65536>>

\* x^4 = x + 1, so what is of degree d >= 4 counts for degrees d - 4 and d - 3.
mul(x, y) ==
    LET P(i, j) == wrapping_mul(x[i + 1], y[j + 1])
        d0 == P(0, 0)
        d1 == P(0, 1) + P(1, 0)
        d2 == P(0, 2) + P(1, 1) + P(2, 0)
        d3 == P(0, 3) + P(1, 2) + P(2, 1) + P(3, 0)
        d4 == P(1, 3) + P(2, 2) + P(3, 1)
        d5 == P(2, 3) + P(3, 2)
        d6 == P(3, 3)
    IN  <<(d0 + d4) % 65536, (d1 + d4 + d5) % 65536, (d2 + d5 + d6) % 65536, (d3 + d6) % 65536>>

ONE == <<1, 0, 0, 0>>

\* Element i has the binary digits of i as coefficients.
EXCEPTIONAL_SEQUENCE(i) == <<i % 2, (i \div 2) % 2, (i \div 4) % 2, (i \div 8) % 2>>

\* By squaring.
pow(x, exp) ==
    LET p[e \in Nat] ==
            IF e = 0 THEN ONE
            ELSE LET h == p[e \div 2]
                     odd == IF e % 2 = 1 THEN x ELSE ONE
                 IN  IF h = ONE THEN odd ELSE mul(odd, mul(h, h))
    IN  p[exp]

\* The units have order (2^4 - 1) * 2^15.
inverse(x) == pow(x, 15 * 2^15 - 1)

Dot4(x, y) == (wrapping_mul(x[1], y[1]) + wrapping_mul(x[2], y[2])
                  + wrapping_mul(x[3], y[3]) + wrapping_mul(x[4], y[4])) % 65536

Apply(M, x) == <<Dot4(M[1], x), Dot4(M[2], x), Dot4(M[3], x), Dot4(M[4], x)>>

\* From basis A to monomials, the matrix S.
to_monomial(x) == Apply(<<<<    1,     0,     0, 0>>,
                          <<58082,     1,     0, 0>>,
                          <<60579, 25194,     1, 0>>,
                          <<17325, 51956, 57011, 1>>>>, x)

\* From monomials to basis B, dual to the monomials; A is dual to itself.
to_basis_B(x) == Apply(<<<<16038, 45700, 28361, 37176>>,
                         <<45700, 28361, 37176, 61738>>,
                         <<28361, 37176, 61738,  8525>>,
                         <<37176, 61738,  8525,     1>>>>, x)

-----------------------------------------------------------------------------
(* Shamir shares; party i, 0-based, holds the value at point i + 1         *)

\* v + r * e for e = 1, x, x + 1.
encode_3_mat(v, r) ==
    LET share2 == add(v, <<r[4], (r[1] + r[4]) % 65536, r[2], r[3]>>)
    IN  <<add(v, r), share2, add(share2, r)>>

\* The Lagrange polynomial of point i among the points of S, at the point v.
lagrange_at(i, S, v) ==
    LET e(k) == EXCEPTIONAL_SEQUENCE(k)
        Factor(j) == mul(sub(e(v), e(j)), inverse(sub(e(i), e(j))))
    IN  FoldSet(LAMBDA j, acc : mul(Factor(j), acc), ONE, S \ {i})

deg_2_lagrange_polys_at_zero == [i \in 1 .. 3 |-> lagrange_at(i, 1 .. 3, 0)]

deg_1_lagrange_poly_at_v(my_id, other_id, v) == lagrange_at(my_id + 1, {my_id + 1, other_id + 1}, v + 1)

-----------------------------------------------------------------------------
(* The shares of an iris                                                   *)

\* New shape (b, w, r % RowGroups, c, r \div RowGroups) to the original (r, c, w, b).
remap_index(i) ==
    LET b == i \div MaskLength
        w == (i % MaskLength) \div (MaskLength \div 2)
        r1 == (i % (MaskLength \div 2)) \div (4 * CODE_COLS)
        c == (i % (4 * CODE_COLS)) \div 4
        r == (i % 4) * RowGroups + r1
    IN  4 * CODE_COLS * r + 4 * c + 2 * w + b

\* Every element of a bit array, mapped by word, is shared with fresh randomness.
\* The result has the shares of parties 0, 1, 2.
Encode(word, seed) ==
    LET Shares(e) == encode_3_mat(
            to_monomial([k \in 1 .. 4 |-> word[remap_index(4 * e + k - 1)]]),
            [k \in 1 .. 4 |-> Random(seed, e, k)])
        all == [e \in Elements(CodeLength) |-> Shares(e)]
    IN  [p \in 0 .. 2 |-> [e \in Elements(CodeLength) |-> all[e][p + 1]]]

\* A masked bit is 0, the others 1 and -1.
encode_iris_code(code, mask, seed) ==
    Encode([i \in DOMAIN code |-> (mask[i] - 2 * (code[i] * mask[i])) % 65536], seed)

encode_mask_code(mask, seed) == Encode(mask, seed)

\* Of the share of a mask the first half is kept: b = 0.
Trimmed(share) == [e \in Elements(MaskLength) |-> share[e]]

preprocess_coefs(id, share) ==
    [e \in DOMAIN share |-> to_basis_B(mul(share[e], deg_2_lagrange_polys_at_zero[id]))]

\* Mutant: the columns wrap around at the end of the share, not of each row.
rotate_coefs_right_whole(share, by) == [e \in DOMAIN share |-> share[(e - by) % Cardinality(DOMAIN share)]]

\* Within each CODE_COLS elements; to the left for a negative by.
rotate_coefs_right(share, by) ==
    [e \in DOMAIN share |-> share[(e \div CODE_COLS) * CODE_COLS + ((e - by) % CODE_COLS)]]

\* One further to the left than asked for, then to the right step by step.
all_rotations(share) ==
    [n \in 1 .. 2 * MaxRotation + 1 |->
        rotate_coefs_right(rotate_coefs_right(share, -(MaxRotation + 1)), n)]

trick_dot(x, y) == MapThenSumSet(LAMBDA e : Dot4(x[e], y[e]), DOMAIN x) % 65536

full_dot(id, x, y) ==
    MapThenSumSet(LAMBDA e : to_basis_B(mul(mul(x[e], y[e]), deg_2_lagrange_polys_at_zero[id]))[1],
                  DOMAIN x) % 65536

-----------------------------------------------------------------------------
(* Rebuilding the share of a party from those of the two others            *)

\* Mutant: both add the mask.
reshare_with_random_additive_zero_both(my, other, share, r) == add(share, r)

\* The masks of the two senders cancel.
reshare_with_random_additive_zero(my, other, share, r) ==
    IF my < other THEN add(share, r) ELSE sub(share, r)

reshare_code(my, other, target, share, seed) ==
    LET helper == deg_1_lagrange_poly_at_v(my, other, target)
    IN  [e \in DOMAIN share |->
            reshare_with_random_additive_zero(my, other, mul(share[e], helper),
                                              [k \in 1 .. 4 |-> Random(seed, e, k)])]

reshare_code_batch(share1, share2) == [e \in DOMAIN share1 |-> add(share1[e], share2[e])]
=============================================================================
