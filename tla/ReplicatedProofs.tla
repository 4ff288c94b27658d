--------------------------- MODULE ReplicatedProofs ---------------------------
(***************************************************************************)
(* Theorems about the two implementations of three-party replicated secret *)
(* sharing: what the gates of the GPU circuits compute (RepShares), and    *)
(* that the roles of the CPU protocol stay in step (CpuProtocol).          *)
(***************************************************************************)
EXTENDS CpuProtocol, TLAPS

CONSTANT WordsPerBlock

GPU == INSTANCE RepShares

-----------------------------------------------------------------------------
(* The gates, for every sharing and every randomness.  A value is shared   *)
(* as x0, x1, x2 with party p holding x_p and that of the previous party.  *)

Bit == {0, 1}

Open(z0, z1, z2) == (z0 + z1 + z2) % 2

\* What the local parts of three parties open to, at one position: from the
\* parts x and y and the randomness r.
OpenedAnd(x, y, r) ==
    Open(GPU!and_pre_inner(x[0], x[2], y[0], y[2], r[0]), GPU!and_pre_inner(x[1], x[0], y[1], y[0], r[1]),
         GPU!and_pre_inner(x[2], x[1], y[2], y[1], r[2]))

OpenedOr(x, y, r) ==
    Open(GPU!or_pre_inner(x[0], x[2], y[0], y[2], r[0]), GPU!or_pre_inner(x[1], x[0], y[1], y[0], r[1]),
         GPU!or_pre_inner(x[2], x[1], y[2], y[1], r[2]))

\* A sum of residues.
LEMMA OpenResidues ==
    ASSUME NEW a \in Int, NEW b \in Int, NEW c \in Int
    PROVE  Open(a % 2, b % 2, c % 2) = (a + b + c) % 2
BY DEF Open

\* The residue of a product, and something even.
LEMMA ProductResidue ==
    ASSUME NEW u \in 0 .. 3, NEW v \in 0 .. 3, NEW w \in Int, w % 2 = 0
    PROVE  (u * v + w) % 2 = (u % 2) * (v % 2)
<1>1. u = 0 \/ u = 1 \/ u = 2 \/ u = 3  OBVIOUS
<1>2. v = 0 \/ v = 1 \/ v = 2 \/ v = 3  OBVIOUS
<1> QED  BY <1>1, <1>2

\* What a party multiplies are numbers.
LEMMA Products ==
    ASSUME NEW a \in {0, 1}, NEW b \in {0, 1}, NEW c \in {0, 1}, NEW d \in {0, 1}, NEW s \in {0, 1}
    PROVE  a * c + b * c + a * d + s \in Int /\ GPU!and_pre_inner(a, b, c, d, s) \in Int
<1>1. a * c + b * c + a * d + s \in Int  OBVIOUS
<1> DEFINE e == a * c + b * c + a * d + s
<1> HIDE DEF e
<1>2. e % 2 \in Int  BY <1>1 DEF e
<1> QED  BY <1>1, <1>2, Zenon DEF e, GPU!and_pre_inner

\* With randomness that is a sharing of zero, they open to the conjunction ...
LEMMA AndOpens ==
    ASSUME NEW x \in [GPU!Party -> Bit], NEW y \in [GPU!Party -> Bit], NEW r \in [GPU!Party -> Bit],
           Open(r[0], r[1], r[2]) = 0
    PROVE  OpenedAnd(x, y, r) = Open(x[0], x[1], x[2]) * Open(y[0], y[1], y[2])
<1> DEFINE e(p, q) == x[p] * y[p] + x[q] * y[p] + x[p] * y[q] + r[p]
           X == x[0] + x[1] + x[2]
           Y == y[0] + y[1] + y[2]
           R == r[0] + r[1] + r[2]
<1>1. \A p \in {0, 1, 2} : x[p] \in {0, 1} /\ y[p] \in {0, 1} /\ r[p] \in {0, 1}
  BY DEF GPU!Party, Bit
<1>2. e(0, 2) \in Int /\ e(1, 0) \in Int /\ e(2, 1) \in Int
  BY SMTT(30), Z3, <1>1, Products
<1>3. e(0, 2) + e(1, 0) + e(2, 1) = X * Y + R
  <2>1. PICK x0 \in Int, x1 \in Int, x2 \in Int : x0 = x[0] /\ x1 = x[1] /\ x2 = x[2]
    BY <1>1
  <2>2. PICK y0 \in Int, y1 \in Int, y2 \in Int : y0 = y[0] /\ y1 = y[1] /\ y2 = y[2]
    BY <1>1
  <2>3. PICK r0 \in Int, r1 \in Int, r2 \in Int : r0 = r[0] /\ r1 = r[1] /\ r2 = r[2]
    BY <1>1
  <2>4. (x0 * y0 + x2 * y0 + x0 * y2 + r0) + (x1 * y1 + x0 * y1 + x1 * y0 + r1)
            + (x2 * y2 + x1 * y2 + x2 * y1 + r2) = (x0 + x1 + x2) * (y0 + y1 + y2) + (r0 + r1 + r2)
    OBVIOUS
  <2> QED
    BY <2>1, <2>2, <2>3, <2>4, Zenon
<1>4. X \in 0 .. 3 /\ Y \in 0 .. 3 /\ R \in Int /\ R % 2 = 0
  <2>1. X \in 0 .. 3 /\ Y \in 0 .. 3 /\ R \in Int  BY <1>1
  <2>2. R % 2 = 0  BY Zenon DEF Open
  <2> QED  BY <2>1, <2>2, Zenon
<1>5. OpenedAnd(x, y, r) = Open(e(0, 2) % 2, e(1, 0) % 2, e(2, 1) % 2)
  BY Zenon DEF OpenedAnd, GPU!and_pre_inner
<1> HIDE DEF e, X, Y, R
<1>6. OpenedAnd(x, y, r) = (X * Y + R) % 2
  BY <1>2, <1>3, <1>5, OpenResidues
<1> QED
  BY <1>4, <1>6, ProductResidue, Zenon DEF X, Y, Open

\* The residue of two numbers and their product.
LEMMA SumResidue ==
    ASSUME NEW u \in 0 .. 3, NEW v \in 0 .. 3, NEW w \in Int, w % 2 = (u % 2) * (v % 2)
    PROVE  (w + u + v) % 2 = 1 - (1 - (u % 2)) * (1 - (v % 2))
<1>1. u = 0 \/ u = 1 \/ u = 2 \/ u = 3  OBVIOUS
<1>2. v = 0 \/ v = 1 \/ v = 2 \/ v = 3  OBVIOUS
<1> QED  BY <1>1, <1>2

\* ... and to the disjunction, which is 0 only if both values are.
LEMMA OrOpens ==
    ASSUME NEW x \in [GPU!Party -> Bit], NEW y \in [GPU!Party -> Bit], NEW r \in [GPU!Party -> Bit],
           Open(r[0], r[1], r[2]) = 0
    PROVE  OpenedOr(x, y, r) = 1 - (1 - Open(x[0], x[1], x[2])) * (1 - Open(y[0], y[1], y[2]))
<1> DEFINE z(p, q) == GPU!and_pre_inner(x[p], x[q], y[p], y[q], r[p])
           X == x[0] + x[1] + x[2]
           Y == y[0] + y[1] + y[2]
           Z == z(0, 2) + z(1, 0) + z(2, 1)
<1>1. \A p \in {0, 1, 2} : x[p] \in {0, 1} /\ y[p] \in {0, 1} /\ r[p] \in {0, 1}
  BY DEF GPU!Party, Bit
<1>2. z(0, 2) \in Int /\ z(1, 0) \in Int /\ z(2, 1) \in Int
  BY <1>1, Products
<1>3. OpenedOr(x, y, r) = Open((z(0, 2) + x[0] + y[0]) % 2, (z(1, 0) + x[1] + y[1]) % 2,
                               (z(2, 1) + x[2] + y[2]) % 2)
  BY Zenon DEF OpenedOr, GPU!or_pre_inner
<1>4. Z % 2 = Open(x[0], x[1], x[2]) * Open(y[0], y[1], y[2])
  BY AndOpens, Zenon DEF OpenedAnd, Open
<1>5. X \in 0 .. 3 /\ Y \in 0 .. 3 /\ Z \in Int
  BY <1>1, <1>2
<1> HIDE DEF z
<1>6. OpenedOr(x, y, r) = (Z + X + Y) % 2
  <2>1. z(0, 2) + x[0] + y[0] \in Int /\ z(1, 0) + x[1] + y[1] \in Int /\ z(2, 1) + x[2] + y[2] \in Int
    BY <1>1, <1>2
  <2>2. (z(0, 2) + x[0] + y[0]) + (z(1, 0) + x[1] + y[1]) + (z(2, 1) + x[2] + y[2]) = Z + X + Y
    BY <1>1, <1>2
  <2> QED
    BY <1>3, <2>1, <2>2, OpenResidues
<1> HIDE DEF X, Y, Z
<1> QED
  BY ZenonT(30), <1>4, <1>5, <1>6, SumResidue DEF X, Y, Open

\* The generators of three parties that are in step (the second of a party is
\* at the block of the first of the previous party) give shares of zero.
THEOREM ZeroShares ==
    ASSUME NEW at \in [GPU!Party -> [my : Nat, their : Nat]], NEW n \in Nat, NEW i \in 0 .. n - 1,
           \A p \in GPU!Party : at[GPU!next_id(p)].their = at[p].my,
           \A p \in GPU!Party, b \in Nat, j \in Nat : Keystream(p, b, j) \in Int
    PROVE  Open(GPU!fill_rng(0, at[0], n)[i], GPU!fill_rng(1, at[1], n)[i], GPU!fill_rng(2, at[2], n)[i]) = 0
<1> DEFINE k0 == Keystream(0, at[0].my, i)
           k1 == Keystream(1, at[1].my, i)
           k2 == Keystream(2, at[2].my, i)
<1>1. k0 \in Int /\ k1 \in Int /\ k2 \in Int  BY DEF GPU!Party
<1>2. at[1].their = at[0].my /\ at[2].their = at[1].my /\ at[0].their = at[2].my
  BY DEF GPU!Party, GPU!next_id
<1>3. GPU!fill_rng(0, at[0], n)[i] = ((k0 % 2) + (k2 % 2)) % 2
  BY <1>2 DEF GPU!fill_rng, GPU!fill_my_rng, GPU!fill_their_rng, GPU!XorBits, GPU!XorBit, GPU!prev_id
<1>4. GPU!fill_rng(1, at[1], n)[i] = ((k1 % 2) + (k0 % 2)) % 2
  BY <1>2 DEF GPU!fill_rng, GPU!fill_my_rng, GPU!fill_their_rng, GPU!XorBits, GPU!XorBit, GPU!prev_id
<1>5. GPU!fill_rng(2, at[2], n)[i] = ((k2 % 2) + (k1 % 2)) % 2
  BY <1>2 DEF GPU!fill_rng, GPU!fill_my_rng, GPU!fill_their_rng, GPU!XorBits, GPU!XorBit, GPU!prev_id
<1> HIDE DEF k0, k1, k2
<1> QED  BY <1>1, <1>3, <1>4, <1>5 DEF Open

\* The share of party p in the additive parts w.
Replicated(w, p) == [a |-> w[p], b |-> w[GPU!prev_id(p)]]

\* Every element a party draws is a bit.
LEMMA RandomBits ==
    ASSUME NEW at \in [GPU!Party -> [my : Nat, their : Nat]], NEW n \in Nat, NEW i \in 0 .. n - 1,
           \A p \in GPU!Party, b \in Nat, j \in Nat : Keystream(p, b, j) \in Int
    PROVE  \A p \in GPU!Party : /\ DOMAIN GPU!fill_rng(p, at[p], n) = 0 .. n - 1
                            /\ GPU!fill_rng(p, at[p], n)[i] \in Bit
<1> SUFFICES ASSUME NEW p \in GPU!Party
             PROVE  /\ DOMAIN GPU!fill_rng(p, at[p], n) = 0 .. n - 1
                    /\ GPU!fill_rng(p, at[p], n)[i] \in Bit
  BY Zenon
<1> DEFINE k == Keystream(p, at[p].my, i)
           l == Keystream(GPU!prev_id(p), at[p].their, i)
<1>1. GPU!prev_id(p) \in GPU!Party  BY DEF GPU!prev_id, GPU!Party
<1>2. k \in Int /\ l \in Int  BY <1>1
<1>3. GPU!fill_rng(p, at[p], n)[i] = ((k % 2) + (l % 2)) % 2
  BY Zenon DEF GPU!fill_rng, GPU!fill_my_rng, GPU!fill_their_rng, GPU!XorBits, GPU!XorBit
<1>4. DOMAIN GPU!fill_rng(p, at[p], n) = 0 .. n - 1
  BY Zenon DEF GPU!fill_rng, GPU!fill_my_rng, GPU!XorBits
<1> HIDE DEF k, l
<1>5. ((k % 2) + (l % 2)) % 2 \in Bit  BY <1>2 DEF Bit
<1> QED  BY <1>3, <1>4, <1>5, Zenon

\* An AND of the circuits, on vectors of any length: three parties with
\* replicated shares of x and y and generators in step each compute
\* shared_and_pre with their own randomness, and at every position the three
\* results are a sharing of the conjunction (packed_and_many_pre).
THEOREM SharedAndOpens ==
    ASSUME NEW n \in Nat, NEW i \in 0 .. n - 1,
           NEW x \in [GPU!Party -> [0 .. n - 1 -> Bit]], NEW y \in [GPU!Party -> [0 .. n - 1 -> Bit]],
           NEW at \in [GPU!Party -> [my : Nat, their : Nat]],
           \A p \in GPU!Party : at[GPU!next_id(p)].their = at[p].my,
           \A p \in GPU!Party, b \in Nat, j \in Nat : Keystream(p, b, j) \in Int
    PROVE  LET z(p) == GPU!shared_and_pre(Replicated(x, p), Replicated(y, p), GPU!fill_rng(p, at[p], n))[i]
           IN  Open(z(0), z(1), z(2))
                 = Open(x[0][i], x[1][i], x[2][i]) * Open(y[0][i], y[1][i], y[2][i])
<1> DEFINE r(p) == GPU!fill_rng(p, at[p], n)
<1>1. \A p \in GPU!Party : DOMAIN r(p) = 0 .. n - 1 /\ r(p)[i] \in Bit
  BY ZenonT(30), RandomBits
<1>2. Open(r(0)[i], r(1)[i], r(2)[i]) = 0
  BY ZenonT(30), ZeroShares
<1>3. \A p \in GPU!Party : x[p][i] \in Bit /\ y[p][i] \in Bit
  BY Zenon
<1> HIDE DEF r
<1>4. \A p \in GPU!Party : GPU!shared_and_pre(Replicated(x, p), Replicated(y, p), r(p))[i]
          = GPU!and_pre_inner(x[p][i], x[GPU!prev_id(p)][i], y[p][i], y[GPU!prev_id(p)][i], r(p)[i])
  BY ZenonT(30), <1>1 DEF GPU!shared_and_pre, Replicated
<1>5. GPU!prev_id(0) = 2 /\ GPU!prev_id(1) = 0 /\ GPU!prev_id(2) = 1 /\ 0 \in GPU!Party /\ 1 \in GPU!Party /\ 2 \in GPU!Party
  BY DEF GPU!prev_id, GPU!Party
<1> DEFINE xi == [p \in GPU!Party |-> x[p][i]]
           yi == [p \in GPU!Party |-> y[p][i]]
           ri == [p \in GPU!Party |-> r(p)[i]]
<1>6. xi \in [GPU!Party -> Bit] /\ yi \in [GPU!Party -> Bit] /\ ri \in [GPU!Party -> Bit]
  BY <1>1, <1>3, Zenon
<1>7. /\ xi[0] = x[0][i] /\ xi[1] = x[1][i] /\ xi[2] = x[2][i]
      /\ yi[0] = y[0][i] /\ yi[1] = y[1][i] /\ yi[2] = y[2][i]
      /\ ri[0] = r(0)[i] /\ ri[1] = r(1)[i] /\ ri[2] = r(2)[i]
  BY <1>5, Zenon
<1> HIDE DEF xi, yi, ri
<1>8. OpenedAnd(xi, yi, ri) = Open(x[0][i], x[1][i], x[2][i]) * Open(y[0][i], y[1][i], y[2][i])
  BY ZenonT(30), <1>2, <1>6, <1>7, AndOpens
<1> DEFINE z(p) == GPU!shared_and_pre(Replicated(x, p), Replicated(y, p), r(p))[i]
<1>9. OpenedAnd(xi, yi, ri) = Open(z(0), z(1), z(2))
  <2>1. z(0) = GPU!and_pre_inner(xi[0], xi[2], yi[0], yi[2], ri[0])
    BY ZenonT(30), <1>4, <1>5, <1>7
  <2>2. z(1) = GPU!and_pre_inner(xi[1], xi[0], yi[1], yi[0], ri[1])
    BY ZenonT(30), <1>4, <1>5, <1>7
  <2>3. z(2) = GPU!and_pre_inner(xi[2], xi[1], yi[2], yi[1], ri[2])
    BY ZenonT(30), <1>4, <1>5, <1>7
  <2> HIDE DEF z
  <2> QED
    BY <2>1, <2>2, <2>3, Zenon DEF OpenedAnd
<1> QED
  BY <1>8, <1>9, Zenon DEF r

\* An OR of the circuits, on vectors of any length: three parties with
\* replicated shares of x and y and generators in step each compute
\* shared_or_pre with their own randomness, and at every position the three
\* results are a sharing of the disjunction (or_many_pre_assign).
THEOREM SharedOrOpens ==
    ASSUME NEW n \in Nat, NEW i \in 0 .. n - 1,
           NEW x \in [GPU!Party -> [0 .. n - 1 -> Bit]], NEW y \in [GPU!Party -> [0 .. n - 1 -> Bit]],
           NEW at \in [GPU!Party -> [my : Nat, their : Nat]],
           \A p \in GPU!Party : at[GPU!next_id(p)].their = at[p].my,
           \A p \in GPU!Party, b \in Nat, j \in Nat : Keystream(p, b, j) \in Int
    PROVE  LET z(p) == GPU!shared_or_pre(Replicated(x, p), Replicated(y, p), GPU!fill_rng(p, at[p], n))[i]
           IN  Open(z(0), z(1), z(2))
                 = 1 - (1 - Open(x[0][i], x[1][i], x[2][i])) * (1 - Open(y[0][i], y[1][i], y[2][i]))
<1> DEFINE r(p) == GPU!fill_rng(p, at[p], n)
<1>1. \A p \in GPU!Party : DOMAIN r(p) = 0 .. n - 1 /\ r(p)[i] \in Bit
  BY ZenonT(30), RandomBits
<1>2. Open(r(0)[i], r(1)[i], r(2)[i]) = 0
  BY ZenonT(30), ZeroShares
<1>3. \A p \in GPU!Party : x[p][i] \in Bit /\ y[p][i] \in Bit
  OBVIOUS
<1> HIDE DEF r
<1>4. \A p \in GPU!Party : GPU!shared_or_pre(Replicated(x, p), Replicated(y, p), r(p))[i]
          = GPU!or_pre_inner(x[p][i], x[GPU!prev_id(p)][i], y[p][i], y[GPU!prev_id(p)][i], r(p)[i])
  BY ZenonT(30), <1>1 DEF GPU!shared_or_pre, Replicated
<1>5. GPU!prev_id(0) = 2 /\ GPU!prev_id(1) = 0 /\ GPU!prev_id(2) = 1 /\ 0 \in GPU!Party /\ 1 \in GPU!Party /\ 2 \in GPU!Party
  BY DEF GPU!prev_id, GPU!Party
<1> DEFINE xi == [p \in GPU!Party |-> x[p][i]]
           yi == [p \in GPU!Party |-> y[p][i]]
           ri == [p \in GPU!Party |-> r(p)[i]]
<1>6. xi \in [GPU!Party -> Bit] /\ yi \in [GPU!Party -> Bit] /\ ri \in [GPU!Party -> Bit]
  BY <1>1, <1>3
<1>7. /\ xi[0] = x[0][i] /\ xi[1] = x[1][i] /\ xi[2] = x[2][i]
      /\ yi[0] = y[0][i] /\ yi[1] = y[1][i] /\ yi[2] = y[2][i]
      /\ ri[0] = r(0)[i] /\ ri[1] = r(1)[i] /\ ri[2] = r(2)[i]
  BY <1>5
<1> HIDE DEF xi, yi, ri
<1>8. OpenedOr(xi, yi, ri) = 1 - (1 - Open(x[0][i], x[1][i], x[2][i])) * (1 - Open(y[0][i], y[1][i], y[2][i]))
  BY ZenonT(30), <1>2, <1>6, <1>7, OrOpens
<1> DEFINE z(p) == GPU!shared_or_pre(Replicated(x, p), Replicated(y, p), r(p))[i]
<1>9. OpenedOr(xi, yi, ri) = Open(z(0), z(1), z(2))
  <2>1. z(0) = GPU!or_pre_inner(xi[0], xi[2], yi[0], yi[2], ri[0])
    BY ZenonT(30), <1>4, <1>5, <1>7
  <2>2. z(1) = GPU!or_pre_inner(xi[1], xi[0], yi[1], yi[0], ri[1])
    BY ZenonT(30), <1>4, <1>5, <1>7
  <2>3. z(2) = GPU!or_pre_inner(xi[2], xi[1], yi[2], yi[1], ri[2])
    BY ZenonT(30), <1>4, <1>5, <1>7
  <2> HIDE DEF z
  <2> QED
    BY <2>1, <2>2, <2>3 DEF OpenedOr
<1> QED
  BY <1>8, <1>9, Zenon DEF r

\* The full adder of binary_add_3, which has one product: the exclusive or of
\* the three bits, and (x1 ^ x3)(x2 ^ x3) ^ x3, are the two bits of their sum.
\* A round of the ripple computes the same of sum bit, carry bit and carry.
THEOREM FullAdderAdds ==
    ASSUME NEW x1 \in Bit, NEW x2 \in Bit, NEW x3 \in Bit
    PROVE  x1 + x2 + x3 = GPU!XorBit(x1, GPU!XorBit(x2, x3)) + 2 * GPU!XorBit(GPU!XorBit(x1, x3) * GPU!XorBit(x2, x3), x3)
BY DEF Bit, GPU!XorBit

-----------------------------------------------------------------------------
(* Where a role is.  Everything here depends on the operation, the number  *)
(* of pairs, and the label and round of the role alone.                    *)

\* A message before the comparison, when two distances are compared.
CrossMessages == IF input.op = "less_than" THEN 1 ELSE 0

\* The roles that are through the injection of the carries.
Injected == {"injected", "ready", "cross", "msb", "msb_adder", "msb_ripple", "open", "done"}

\* Messages to the next role up to the injection: the helper has sent one more.
LiftSent(p) == IF p = 0 THEN K + 3 ELSE K + 2

\* How many messages p has sent to the next role at label l and in round k,
\* with x those of CrossMessages ...
SentAt(p, l, k, x) ==
    CASE l = "idle"                                -> 0
      [] l \in {"rep3", "lift"}                    -> 1
      [] l = "lift_adder"                          -> 2
      [] l = "lift_ripple"                         -> k + 1
      [] l \in {"inject", "receiver", "receiver_wc"} -> K + 2
      [] l \in {"helper", "injected", "ready"}     -> LiftSent(p)
      [] l = "cross"                               -> LiftSent(p) + 1
      [] l = "msb"                                 -> LiftSent(p) + x
      [] l = "msb_adder"                           -> LiftSent(p) + x + 1
      [] l = "msb_ripple"                          -> LiftSent(p) + x + k
      [] OTHER                                     -> LiftSent(p) + x + 2 * K

\* ... and how many it has taken from the previous one.
GotAt(p, l, k, x) ==
    CASE l \in {"idle", "rep3"}                    -> 0
      [] l \in {"lift", "lift_adder"}              -> 1
      [] l = "lift_ripple"                         -> k
      [] l = "inject"                              -> K + 1
      [] l \in {"helper", "receiver", "receiver_wc"} -> K + 2
      [] l \in {"injected", "ready", "cross"}      -> LiftSent(prev(p))
      [] l \in {"msb", "msb_adder"}                -> LiftSent(prev(p)) + x
      [] l = "msb_ripple"                          -> LiftSent(prev(p)) + x + k - 1
      [] l = "open"                                -> LiftSent(prev(p)) + x + 2 * K - 1
      [] OTHER                                     -> LiftSent(prev(p)) + x + 2 * K

Sent(p) == SentAt(p, pc[p], reg[p].k, CrossMessages)
Got(p) == GotAt(p, pc[p], reg[p].k, CrossMessages)

\* Messages from p to q that p has sent, and that q has taken: against the
\* direction of the ring only the injection sends.
Out(p, q) ==
    IF q = next(p) THEN Sent(p) ELSE IF p # 0 /\ pc[p] \in Injected THEN 1 ELSE 0
In(p, q) ==
    IF q = next(p) THEN Got(q)
    ELSE IF q # 2 /\ (pc[q] \in Injected \/ pc[q] = "receiver_wc") THEN 1 ELSE 0

\* The variant of message n from p to q.
Kind(p, q, n) ==
    IF q # next(p) THEN IF p = 2 THEN "Vec" ELSE "VecRing16"
    ELSE IF n = 1 \/ (p = 0 /\ n = K + 3) THEN "VecRing16"
    ELSE IF CrossMessages = 1 /\ n = LiftSent(p) + 1 THEN "RingElement32"
    ELSE IF n = LiftSent(p) + CrossMessages + 2 * K THEN "RingElementBit"
    ELSE "VecRing64"

-----------------------------------------------------------------------------
(* The values a role has drawn from its two streams                        *)

Items == 2 * Len(input.code[0])
Lifts == IF input.op = "is_match" THEN 1 ELSE Items

\* Draws of the injection, from the own stream and from that of the previous
\* role: three per carry from that of helper and sender, one from the other.
InjectMy(p) == IF p = 0 THEN 0 ELSE IF p = 1 THEN 2 * Lifts ELSE 6 * Lifts
InjectPrev(p) == InjectMy(prev(p))

\* Draws before the lift, and before the comparison: the store begins again,
\* galois_ring_is_match goes on.  The injection has drawn i.
LiftDrawn == IF input.op = "is_match" THEN Items ELSE 0
MsbDrawn(i) == IF input.op = "is_match" THEN Items + 4 * K + i ELSE CrossMessages

\* Draws up to label l and round k, with n those of the dot products, d those
\* before the lift, e those before the comparison and i those of the injection.
DrawnAt(l, k, n, d, e, i) ==
    CASE l = "idle"                              -> 0
      [] l = "rep3"                              -> n
      [] l = "lift"                              -> d
      [] l = "lift_adder"                        -> d + 2 * K
      [] l = "lift_ripple"                       -> d + 2 * K + 2 * (k - 1)
      [] l \in {"inject", "receiver", "receiver_wc"} -> d + 4 * K
      [] l \in {"helper", "injected"}            -> d + 4 * K + i
      [] l = "ready"                             -> 0
      [] l \in {"cross", "msb"}                  -> e
      [] l = "msb_adder"                         -> e + 4 * K - 2
      [] l = "msb_ripple"                        -> e + 4 * K - 2 + 2 * (k - 1)
      [] OTHER                                   -> e + 8 * K - 6

Drawn(p, i) == DrawnAt(pc[p], reg[p].k, Items, LiftDrawn, MsbDrawn(i), i)

-----------------------------------------------------------------------------
(* The invariant                                                           *)

HasLen(s, n) == s = [i \in 1 .. n |-> s[i]]

Fields == {"dots", "xs", "z", "s", "b", "x3", "c", "k", "corr", "m", "bit"}

\* The round, the lengths and the draws fit the label.
RoleOf(p) ==
    /\ pc[p] \in Labels
    /\ DOMAIN reg[p] = Fields /\ DOMAIN prf[p] = {"my", "prev"}
    /\ pc[p] = "lift_ripple" => reg[p].k \in 2 .. K
    /\ pc[p] = "msb_ripple" => reg[p].k \in 2 .. 2 * K - 1
    /\ pc[p] = "helper" => p = 0
    /\ pc[p] \in {"receiver", "receiver_wc"} => p = 1
    /\ pc[p] = "cross" => input.op = "less_than"
    /\ pc[p] = "ready" => input.op # "is_match"
    /\ pc[p] \in {"rep3", "lift"} => HasLen(reg[p].dots, Items)
    /\ pc[p] \in {"lift_adder", "lift_ripple", "inject"} => HasLen(reg[p].xs, Lifts)
    /\ pc[p] \in {"receiver", "receiver_wc"} => HasLen(reg[p].corr, 2 * Lifts)
    /\ pc[p] # "failed" => prf[p].my = Drawn(p, InjectMy(p)) /\ prf[p].prev = Drawn(p, InjectPrev(p))

\* What is under way from one role to another, of the states a and b: the
\* messages from the one after the last taken to the last sent.
Wired(c, p, q, out, in, a, b) ==
    /\ c \in Seq({c[i] : i \in DOMAIN c})
    /\ b # "failed" => \A i \in 1 .. Len(c) : c[i].type = Kind(p, q, in + i)
    /\ a # "failed" /\ b # "failed" => Len(c) = out - in

WiresOf(p, q) == Wired(chan[p][q], p, q, Out(p, q), In(p, q), pc[p], pc[q])

LockStep ==
    /\ input \in Inputs
    /\ DOMAIN pc = Role /\ DOMAIN reg = Role /\ DOMAIN prf = Role
    /\ DOMAIN chan = Role /\ \A p \in Role : DOMAIN chan[p] = Role
    /\ \A p \in Role : RoleOf(p)
    /\ \A p \in Role : \A q \in Role \ {p} : WiresOf(p, q)
    /\ FailsOnlyLate

-----------------------------------------------------------------------------
(* Roles, lengths and channels                                             *)

\* The three roles in a ring.
LEMMA Ring ==
    ASSUME NEW p \in Role
    PROVE  /\ next(p) \in Role \ {p} /\ prev(p) \in Role \ {p} /\ next(p) # prev(p)
           /\ next(prev(p)) = p /\ prev(next(p)) = p
           /\ Role \ {p} = {next(p), prev(p)}
<1>1. p = 0 \/ p = 1 \/ p = 2
  BY DEF Role
<1>2. /\ next(0) = 1 /\ next(1) = 2 /\ next(2) = 0
      /\ prev(0) = 2 /\ prev(1) = 0 /\ prev(2) = 1
  BY DEF next, prev
<1>3. Role = {0, 1, 2}
  BY DEF Role
<1> QED
  BY <1>1, <1>2, <1>3

\* Two roles are neighbours.
LEMMA Neighbours ==
    ASSUME NEW p \in Role, NEW q \in Role \ {p}
    PROVE  (q = next(p) /\ p = prev(q)) \/ (q = prev(p) /\ p = next(q))
<1>1. (p = 0 \/ p = 1 \/ p = 2) /\ (q = 0 \/ q = 1 \/ q = 2) /\ p # q
  BY DEF Role
<1>2. /\ next(0) = 1 /\ next(1) = 2 /\ next(2) = 0
      /\ prev(0) = 2 /\ prev(1) = 0 /\ prev(2) = 1
  BY DEF next, prev
<1> QED
  BY <1>1, <1>2

\* Lengths of sequences given by their elements.
LEMMA Lengths ==
    ASSUME NEW n \in Nat, NEW s, HasLen(s, n)
    PROVE  DOMAIN s = 1 .. n /\ Len(s) = n
<1> DEFINE S == {s[i] : i \in 1 .. n}
<1>1. s = [i \in 1 .. n |-> s[i]]
  BY Zenon DEF HasLen
<1>2. DOMAIN s = 1 .. n
  BY <1>1, Zenon
<1>3. s \in [1 .. n -> S]
  BY <1>1, Zenon
<1> HIDE DEF S
<1>4. s \in Seq(S)
  BY <1>3
<1>5. Len(s) = n
  BY <1>2, <1>4
<1> QED
  BY <1>2, <1>5, Zenon

\* A single element.
LEMMA OneHasLen == ASSUME NEW e PROVE HasLen(<<e>>, 1)
<1>1. 1 .. 1 = {1} /\ DOMAIN <<e>> = {1} /\ <<e>>[1] = e
  OBVIOUS
<1>2. <<e>> \in [1 .. 1 -> {e}]
  BY <1>1
<1> QED
  BY <1>1, <1>2, Zenon DEF HasLen

\* A role that runs on, or not, and sends and takes nothing.
LEMMA WiredSame ==
    ASSUME NEW c, NEW p, NEW q, NEW out, NEW in, NEW a, NEW b, Wired(c, p, q, out, in, a, b),
           NEW d, NEW e, d # "failed" => a # "failed", e # "failed" => b # "failed"
    PROVE  Wired(c, p, q, out, in, d, e)
BY Zenon DEF Wired

\* A message is sent.
LEMMA WiredSend ==
    ASSUME NEW c, NEW p, NEW q, NEW out \in Nat, NEW in \in Nat, NEW a, NEW b,
           Wired(c, p, q, out, in, a, b),
           NEW m, m.type = Kind(p, q, out + 1), NEW d, a # "failed"
    PROVE  Wired(Append(c, m), p, q, out + 1, in, d, b)
<1> DEFINE S == {c[i] : i \in DOMAIN c} \cup {m}
<1>1. c \in Seq({c[i] : i \in DOMAIN c})
  BY Zenon DEF Wired
<1>2. c \in Seq(S) /\ m \in S
  BY <1>1
<1>3. PICK e : e = Append(c, m)
  BY Zenon
<1> HIDE DEF S
<1>4. /\ e \in Seq(S) /\ Len(c) \in Nat /\ Len(e) = Len(c) + 1 /\ DOMAIN e = 1 .. Len(e)
      /\ \A i \in 1 .. Len(c) : e[i] = c[i]
      /\ e[Len(c) + 1] = m
  BY <1>2, <1>3
<1>5. e \in Seq({e[i] : i \in DOMAIN e})
  BY <1>4
<1>6. PICK n \in Nat : n = Len(c) /\ Len(e) = n + 1 /\ e[n + 1] = m
  BY <1>4, Zenon
<1>7. ASSUME b # "failed"
      PROVE  /\ \A i \in 1 .. Len(e) : e[i].type = Kind(p, q, in + i)
             /\ Len(e) = (out + 1) - in
  <2>1. n = out - in /\ \A i \in 1 .. n : c[i].type = Kind(p, q, in + i)
    BY <1>6, <1>7, Zenon DEF Wired
  <2>2. in + (n + 1) = out + 1 /\ n + 1 = (out + 1) - in
    BY <2>1
  <2>3. \A i \in 1 .. n + 1 : i \in 1 .. n \/ i = n + 1
    OBVIOUS
  <2>4. \A i \in 1 .. n : e[i] = c[i]
    BY <1>4, <1>6, Zenon
  <2>5. e[n + 1].type = Kind(p, q, in + (n + 1))
    BY <1>6, <2>2, Zenon
  <2> QED
    BY <1>6, <2>1, <2>2, <2>3, <2>4, <2>5, Zenon
<1> QED
  BY <1>3, <1>5, <1>7, Zenon DEF Wired

\* A message is taken.
LEMMA WiredTake ==
    ASSUME NEW c, NEW p, NEW q, NEW out \in Nat, NEW in \in Nat, NEW a, NEW b,
           Wired(c, p, q, out, in, a, b), c # <<>>, NEW d, b # "failed"
    PROVE  Wired(Tail(c), p, q, out, in + 1, a, d)
<1> DEFINE S == {c[i] : i \in DOMAIN c}
<1>1. c \in Seq(S)
  BY Zenon DEF Wired
<1>3. PICK e : e = Tail(c)
  BY Zenon
<1> HIDE DEF S
<1>4. /\ e \in Seq(S) /\ Len(c) \in Nat /\ Len(e) = Len(c) - 1 /\ DOMAIN e = 1 .. Len(e)
      /\ Len(c) >= 1 /\ \A i \in 1 .. Len(e) : e[i] = c[i + 1]
  BY <1>1, <1>3
<1>5. e \in Seq({e[i] : i \in DOMAIN e})
  BY <1>4
<1>6. PICK n \in Nat : n = Len(e) /\ Len(c) = n + 1
  BY <1>4
<1>7. \A i \in 1 .. Len(e) : e[i].type = Kind(p, q, (in + 1) + i)
  <2> SUFFICES ASSUME NEW i \in 1 .. n PROVE e[i].type = Kind(p, q, (in + 1) + i)
    BY <1>6, Zenon
  <2>1. i + 1 \in 1 .. n + 1 /\ in + (i + 1) = (in + 1) + i
    OBVIOUS
  <2>2. c[i + 1].type = Kind(p, q, in + (i + 1))
    BY <1>6, <2>1, Zenon DEF Wired
  <2> QED
    BY <1>4, <1>6, <2>1, <2>2, Zenon
<1>8. a # "failed" => Len(e) = out - (in + 1)
  <2>1. a # "failed" => n + 1 = out - in
    BY <1>6, Zenon DEF Wired
  <2>2. n + 1 = out - in => n = out - (in + 1)
    OBVIOUS
  <2> QED
    BY <1>6, <2>1, <2>2, Zenon
<1> QED
  BY <1>3, <1>5, <1>7, <1>8, Zenon DEF Wired

\* What is counted in the whole operation.
LEMMA Fixed ==
    ASSUME input' = input
    PROVE  /\ CrossMessages' = CrossMessages /\ Items' = Items /\ Lifts' = Lifts
           /\ LiftDrawn' = LiftDrawn
           /\ \A p \in Role : /\ InjectMy(p)' = InjectMy(p) /\ InjectPrev(p)' = InjectPrev(p)
                              /\ MsbDrawn(InjectMy(p))' = MsbDrawn(InjectMy(p))
                              /\ MsbDrawn(InjectPrev(p))' = MsbDrawn(InjectPrev(p))
BY Zenon DEF CrossMessages, Items, Lifts, InjectMy, InjectPrev, LiftDrawn, MsbDrawn

\* Messages against the direction of the ring: sent, and taken.
BackSent(p) == IF p # 0 /\ pc[p] \in Injected THEN 1 ELSE 0
BackGot(p) == IF p # 2 /\ (pc[p] \in Injected \/ pc[p] = "receiver_wc") THEN 1 ELSE 0

\* The counts of a role are the counts of its four channels.
LEMMA Counts ==
    ASSUME NEW p \in Role
    PROVE  /\ Out(p, next(p)) = Sent(p) /\ Out(p, prev(p)) = BackSent(p)
           /\ In(prev(p), p) = Got(p) /\ In(next(p), p) = BackGot(p)
<1>1. /\ next(prev(p)) = p /\ prev(p) # next(p) /\ next(next(p)) # p
      /\ next(p) \in Role /\ prev(next(p)) = p
  <2>1. next(p) \in Role
    BY Ring, Zenon
  <2>2. next(next(p)) # prev(next(p))
    BY <2>1, Ring, Zenon
  <2> QED
    BY <2>1, <2>2, Ring, Zenon
<1> QED
  BY <1>1, Zenon DEF Out, In, BackSent, BackGot

\* The same after a step.
LEMMA CountsNext ==
    ASSUME NEW p \in Role
    PROVE  /\ Out(p, next(p))' = Sent(p)' /\ Out(p, prev(p))' = BackSent(p)'
           /\ In(prev(p), p)' = Got(p)' /\ In(next(p), p)' = BackGot(p)'
<1>1. /\ next(prev(p)) = p /\ prev(p) # next(p) /\ next(next(p)) # p
      /\ next(p) \in Role /\ prev(next(p)) = p
  <2>1. next(p) \in Role
    BY Ring, Zenon
  <2>2. next(next(p)) # prev(next(p))
    BY <2>1, Ring, Zenon
  <2> QED
    BY <2>1, <2>2, Ring, Zenon
<1> QED
  BY <1>1, Zenon DEF Out, In, BackSent, BackGot

\* Counts are natural numbers.
LEMMA CountTypes ==
    ASSUME NEW p \in Role, RoleOf(p)
    PROVE  Sent(p) \in Nat /\ Got(p) \in Nat /\ BackSent(p) \in Nat /\ BackGot(p) \in Nat
<1>1. K \in Nat /\ K >= 3
  BY WidthAssumption
<1>2. LiftSent(p) \in Nat /\ LiftSent(prev(p)) \in Nat /\ CrossMessages \in Nat
      /\ LiftSent(prev(p)) >= 1
  BY <1>1 DEF LiftSent, CrossMessages
<1>3. pc[p] \in {"lift_ripple", "msb_ripple"} => reg[p].k \in Nat /\ reg[p].k >= 2
  BY <1>1 DEF RoleOf
<1>4. Sent(p) \in Nat
  BY <1>1, <1>2, <1>3 DEF Sent, SentAt
<1>5. Got(p) \in Nat
  BY <1>1, <1>2, <1>3 DEF Got, GotAt
<1> QED
  BY <1>4, <1>5, Zenon DEF BackSent, BackGot

\* Role q stands still.
Quiet(q) == pc'[q] = pc[q] /\ reg'[q] = reg[q] /\ prf'[q] = prf[q]

\* What is said of a role that stands still.
LEMMA RoleQuiet ==
    ASSUME NEW p \in Role, Quiet(p), input' = input
    PROVE  /\ RoleOf(p) => RoleOf(p)'
           /\ Sent(p)' = Sent(p) /\ Got(p)' = Got(p)
           /\ BackSent(p)' = BackSent(p) /\ BackGot(p)' = BackGot(p)
<1>1. /\ CrossMessages' = CrossMessages /\ Items' = Items /\ Lifts' = Lifts
      /\ InjectMy(p)' = InjectMy(p) /\ InjectPrev(p)' = InjectPrev(p)
  BY Fixed, Zenon
<1>3. Sent(p)' = Sent(p) /\ Got(p)' = Got(p)
  BY <1>1, Zenon DEF Quiet, Sent, Got
<1>4. BackSent(p)' = BackSent(p) /\ BackGot(p)' = BackGot(p)
  BY Zenon DEF Quiet, BackSent, BackGot
<1>5. Drawn(p, InjectMy(p))' = Drawn(p, InjectMy(p)) /\ Drawn(p, InjectPrev(p))' = Drawn(p, InjectPrev(p))
  BY Fixed, Zenon DEF Quiet, Drawn
<1>6. RoleOf(p) => RoleOf(p)'
  BY <1>1, <1>5, Zenon DEF Quiet, RoleOf
<1> QED
  BY <1>3, <1>4, <1>6, Zenon

\* What p does to the channels to q and from q.
Sends(p, q) ==
    \/ chan'[p][q] = chan[p][q] /\ Out(p, q)' = Out(p, q)
    \/ \E m : /\ chan'[p][q] = Append(chan[p][q], m)
              /\ m.type = Kind(p, q, Out(p, q) + 1)
              /\ Out(p, q)' = Out(p, q) + 1
Takes(p, q) ==
    \/ chan'[q][p] = chan[q][p] /\ In(q, p)' = In(q, p)
    \/ /\ chan[q][p] # <<>>
       /\ chan'[q][p] = Tail(chan[q][p])
       /\ In(q, p)' = In(q, p) + 1

\* A step of p alone.
Alone(p) ==
    /\ input' = input
    /\ DOMAIN pc' = Role /\ DOMAIN reg' = Role /\ DOMAIN prf' = Role
    /\ DOMAIN chan' = Role /\ \A q \in Role : DOMAIN chan'[q] = Role
    /\ \A q \in Role \ {p} : Quiet(q)
    /\ \A q, r \in Role \ {p} : chan'[q][r] = chan[q][r]

\* Counts of a channel are natural numbers.
LEMMA ChannelCounts ==
    ASSUME LockStep, NEW p \in Role, NEW q \in Role \ {p}
    PROVE  Out(p, q) \in Nat /\ In(p, q) \in Nat
<1>1. q = next(p) \/ q = prev(p)
  BY Neighbours, Zenon
<1>2. p = prev(q) \/ p = next(q)
  BY Neighbours, Zenon
<1>3. RoleOf(p) /\ RoleOf(q)
  BY Zenon DEF LockStep
<1> QED
  BY <1>1, <1>2, <1>3, Counts, CountTypes, Zenon

\* The counts of a channel between roles that stand still.
LEMMA ChannelQuiet ==
    ASSUME NEW p \in Role, NEW q \in Role \ {p}, input' = input
    PROVE  /\ Quiet(p) => Out(p, q)' = Out(p, q)
           /\ Quiet(q) => In(p, q)' = In(p, q)
<1>1. q = next(p) \/ q = prev(p)
  BY Neighbours, Zenon
<1>2. p = prev(q) \/ p = next(q)
  BY Neighbours, Zenon
<1> QED
  BY <1>1, <1>2, Counts, CountsNext, RoleQuiet, Zenon

\* A role that runs on.
LEMMA RunOn ==
    ASSUME LockStep, NEW p \in Role, Alone(p), late' = late,
           pc[p] # "failed", pc'[p] # "failed", RoleOf(p)',
           \A q \in Role \ {p} : Sends(p, q) /\ Takes(p, q)
    PROVE  LockStep'
<1>1. ASSUME NEW q \in Role PROVE RoleOf(q)'
  BY RoleQuiet, Zenon DEF Alone, LockStep
<1>2. ASSUME NEW x \in Role, NEW y \in Role \ {x} PROVE WiresOf(x, y)'
  <2>0. Wired(chan[x][y], x, y, Out(x, y), In(x, y), pc[x], pc[y])
    BY Zenon DEF LockStep, WiresOf
  <2>1. Out(x, y) \in Nat /\ In(x, y) \in Nat
    BY ChannelCounts, Zenon
  <2>2. \A c, n, o, d, e : Wired(c, x, y, n, o, d, e)' <=> Wired(c, x, y, n, o, d, e)
    <3>1. \A n : Kind(x, y, n)' = Kind(x, y, n)
      BY Zenon DEF Kind, CrossMessages, Alone
    <3> QED
      BY <3>1, ZenonT(30) DEF Wired
  <2>3. SUFFICES Wired(chan'[x][y], x, y, Out(x, y)', In(x, y)', pc'[x], pc'[y])
    BY <2>2, Zenon DEF WiresOf, Wired, Kind, CrossMessages, Alone
  <2>7. Wired(chan[x][y], x, y, Out(x, y), In(x, y), pc'[x], pc'[y])
    <3>1. (pc'[x] # "failed" => pc[x] # "failed") /\ (pc'[y] # "failed" => pc[y] # "failed")
      BY Zenon DEF Alone, Quiet
    <3> QED
      BY ONLY <2>0, <3>1, WiredSame, Zenon
  <2>4. CASE x = p
    <3>1. Quiet(y) /\ pc'[y] = pc[y] /\ In(x, y)' = In(x, y) /\ Sends(x, y)
      BY <2>4, ChannelQuiet, Zenon DEF Alone, Quiet
    <3>2. CASE chan'[x][y] = chan[x][y] /\ Out(x, y)' = Out(x, y)
      BY <2>7, <3>1, <3>2, Zenon
    <3>3. ASSUME NEW m, chan'[x][y] = Append(chan[x][y], m),
                 m.type = Kind(x, y, Out(x, y) + 1), Out(x, y)' = Out(x, y) + 1
          PROVE  Wired(chan'[x][y], x, y, Out(x, y)', In(x, y)', pc'[x], pc'[y])
      <4>1. Wired(Append(chan[x][y], m), x, y, Out(x, y) + 1, In(x, y), pc'[x], pc[y])
        BY ONLY <2>0, <2>1, <2>4, pc[p] # "failed", <3>3, WiredSend, Zenon
      <4> QED
        BY <3>1, <3>3, <4>1, Zenon
    <3> QED
      BY <3>1, <3>2, <3>3, Zenon DEF Sends
  <2>5. CASE y = p
    <3>1. Quiet(x) /\ pc'[x] = pc[x] /\ Out(x, y)' = Out(x, y) /\ Takes(y, x)
      BY <2>5, ChannelQuiet, Zenon DEF Alone, Quiet
    <3>2. CASE chan'[x][y] = chan[x][y] /\ In(x, y)' = In(x, y)
      BY <2>7, <3>1, <3>2, Zenon
    <3>3. CASE chan[x][y] # <<>> /\ chan'[x][y] = Tail(chan[x][y]) /\ In(x, y)' = In(x, y) + 1
      <4>1. Wired(Tail(chan[x][y]), x, y, Out(x, y), In(x, y) + 1, pc[x], pc'[y])
        BY ONLY <2>0, <2>1, <2>5, pc[p] # "failed", <3>3, WiredTake, Zenon
      <4> QED
        BY <3>1, <3>3, <4>1, Zenon
    <3> QED
      BY <3>1, <3>2, <3>3, Zenon DEF Takes
  <2>6. CASE x # p /\ y # p
    <3>1. /\ Quiet(x) /\ Quiet(y) /\ pc'[x] = pc[x] /\ pc'[y] = pc[y]
          /\ chan'[x][y] = chan[x][y] /\ Out(x, y)' = Out(x, y) /\ In(x, y)' = In(x, y)
      BY <2>6, ChannelQuiet, ZenonT(30) DEF Alone, Quiet
    <3> QED
      BY <2>7, <3>1, Zenon
  <2> QED
    BY <2>4, <2>5, <2>6, Zenon
<1>3. FailsOnlyLate'
  BY Zenon DEF LockStep, FailsOnlyLate, Alone, Quiet
<1>4. input' \in Inputs
  BY Zenon DEF LockStep, Alone
<1> QED
  BY <1>1, <1>2, <1>3, <1>4, Zenon DEF LockStep, Alone

-----------------------------------------------------------------------------
(* What a step does to the channels                                        *)

\* A channel for every pair of roles.
Channels(c) == DOMAIN c = Role /\ \A p \in Role : DOMAIN c[p] = Role

\* The channels when p has taken a message from q.
Take(c, q, p) == [c EXCEPT ![q][p] = Tail(@)]

\* Sending changes one channel.
LEMMA SendShape ==
    ASSUME NEW c, Channels(c), NEW p \in Role, NEW q \in Role, NEW m, NEW d, d = Send(c, p, q, m)
    PROVE  /\ Channels(d) /\ d[p][q] = Append(c[p][q], m)
           /\ \A x, y \in Role : x # p \/ y # q => d[x][y] = c[x][y]
BY Zenon DEF Channels, Send

\* The channels after a step of p.
ChannelStep(p) ==
    /\ Channels(chan') /\ \A q, r \in Role \ {p} : chan'[q][r] = chan[q][r]
    /\ \A q \in Role \ {p} : Sends(p, q) /\ Takes(p, q)

\* p sends n messages to the next role and o to the previous one, and takes as
\* many from them.
Moves(p, toNext, toPrev, fromPrev, fromNext) ==
    /\ Sent(p)' = Sent(p) + toNext /\ BackSent(p)' = BackSent(p) + toPrev
    /\ Got(p)' = Got(p) + fromPrev /\ BackGot(p)' = BackGot(p) + fromNext

\* Sends and Takes by the counts of p.
LEMMA ByCounts ==
    ASSUME LockStep, NEW p \in Role
    PROVE  /\ Sends(p, next(p)) <=>
                \/ chan'[p][next(p)] = chan[p][next(p)] /\ Sent(p)' = Sent(p)
                \/ \E m : /\ chan'[p][next(p)] = Append(chan[p][next(p)], m)
                          /\ m.type = Kind(p, next(p), Sent(p) + 1)
                          /\ Sent(p)' = Sent(p) + 1
           /\ Sends(p, prev(p)) <=>
                \/ chan'[p][prev(p)] = chan[p][prev(p)] /\ BackSent(p)' = BackSent(p)
                \/ \E m : /\ chan'[p][prev(p)] = Append(chan[p][prev(p)], m)
                          /\ m.type = Kind(p, prev(p), BackSent(p) + 1)
                          /\ BackSent(p)' = BackSent(p) + 1
           /\ Takes(p, prev(p)) <=>
                \/ chan'[prev(p)][p] = chan[prev(p)][p] /\ Got(p)' = Got(p)
                \/ /\ chan[prev(p)][p] # <<>> /\ chan'[prev(p)][p] = Tail(chan[prev(p)][p])
                   /\ Got(p)' = Got(p) + 1
           /\ Takes(p, next(p)) <=>
                \/ chan'[next(p)][p] = chan[next(p)][p] /\ BackGot(p)' = BackGot(p)
                \/ /\ chan[next(p)][p] # <<>> /\ chan'[next(p)][p] = Tail(chan[next(p)][p])
                   /\ BackGot(p)' = BackGot(p) + 1
BY Counts, CountsNext, Zenon DEF Sends, Takes

\* The step of p from what it does to its four channels.
LEMMA FourChannels ==
    ASSUME NEW p \in Role, Channels(chan'),
           \A q, r \in Role \ {p} : chan'[q][r] = chan[q][r],
           Sends(p, next(p)), Sends(p, prev(p)), Takes(p, next(p)), Takes(p, prev(p))
    PROVE  ChannelStep(p)
<1>1. ASSUME NEW q \in Role \ {p} PROVE q = next(p) \/ q = prev(p)
  BY Neighbours, Zenon
<1> QED
  BY <1>1, Zenon DEF ChannelStep

\* Counts without messages.
LEMMA NoMove ==
    ASSUME NEW p \in Role, RoleOf(p)
    PROVE  /\ Sent(p) + 0 = Sent(p) /\ BackSent(p) + 0 = BackSent(p)
           /\ Got(p) + 0 = Got(p) /\ BackGot(p) + 0 = BackGot(p)
BY CountTypes

\* Nothing is sent or taken.
LEMMA LocalStep ==
    ASSUME LockStep, NEW p \in Role, chan' = chan, Moves(p, 0, 0, 0, 0)
    PROVE  ChannelStep(p)
<1>1. Channels(chan') /\ RoleOf(p)
  BY Zenon DEF LockStep, Channels
<1>2. /\ Sent(p)' = Sent(p) /\ BackSent(p)' = BackSent(p)
      /\ Got(p)' = Got(p) /\ BackGot(p)' = BackGot(p)
  BY <1>1, NoMove, Zenon DEF Moves
<1>3. Sends(p, next(p)) /\ Sends(p, prev(p)) /\ Takes(p, next(p)) /\ Takes(p, prev(p))
  BY <1>2, ByCounts, Zenon
<1> QED
  BY <1>1, <1>3, FourChannels, Zenon

\* A message to the next role.
LEMMA SendNext ==
    ASSUME LockStep, NEW p \in Role, Moves(p, 1, 0, 0, 0), NEW m,
           chan' = Send(chan, p, next(p), m), m.type = Kind(p, next(p), Sent(p) + 1)
    PROVE  ChannelStep(p)
<1>1. Channels(chan) /\ RoleOf(p)
  BY Zenon DEF LockStep, Channels
<1>2. /\ Sent(p)' = Sent(p) + 1 /\ BackSent(p)' = BackSent(p)
      /\ Got(p)' = Got(p) /\ BackGot(p)' = BackGot(p)
  BY <1>1, NoMove, Zenon DEF Moves
<1>3. next(p) \in Role \ {p} /\ prev(p) \in Role \ {p} /\ next(p) # prev(p)
  BY Ring, Zenon
<1>4. /\ Channels(chan') /\ chan'[p][next(p)] = Append(chan[p][next(p)], m)
      /\ \A x, y \in Role : x # p \/ y # next(p) => chan'[x][y] = chan[x][y]
  BY ONLY <1>1, <1>3, p \in Role, chan' = Send(chan, p, next(p), m), SendShape
<1>5. Sends(p, next(p)) /\ Sends(p, prev(p)) /\ Takes(p, next(p)) /\ Takes(p, prev(p))
  BY <1>2, <1>3, <1>4, ByCounts, Zenon
<1>6. \A q, r \in Role \ {p} : chan'[q][r] = chan[q][r]
  BY <1>4, Zenon
<1> QED
  BY <1>4, <1>5, <1>6, FourChannels, Zenon

\* A message from the previous role.
LEMMA TakePrev ==
    ASSUME LockStep, NEW p \in Role, Moves(p, 0, 0, 1, 0), chan[prev(p)][p] # <<>>,
           chan' = Take(chan, prev(p), p)
    PROVE  ChannelStep(p)
<1>1. Channels(chan) /\ RoleOf(p)
  BY Zenon DEF LockStep, Channels
<1>2. /\ Sent(p)' = Sent(p) /\ BackSent(p)' = BackSent(p)
      /\ Got(p)' = Got(p) + 1 /\ BackGot(p)' = BackGot(p)
  BY <1>1, NoMove, Zenon DEF Moves
<1>3. next(p) \in Role \ {p} /\ prev(p) \in Role \ {p} /\ next(p) # prev(p)
  BY Ring, Zenon
<1>4. /\ Channels(chan') /\ chan'[prev(p)][p] = Tail(chan[prev(p)][p])
      /\ \A x, y \in Role : x # prev(p) \/ y # p => chan'[x][y] = chan[x][y]
  BY ONLY <1>1, <1>3, p \in Role, chan' = Take(chan, prev(p), p), Zenon DEF Take, Channels
<1>5. Sends(p, next(p)) /\ Sends(p, prev(p)) /\ Takes(p, next(p)) /\ Takes(p, prev(p))
  BY <1>2, <1>3, <1>4, ByCounts, Zenon
<1>6. \A q, r \in Role \ {p} : chan'[q][r] = chan[q][r]
  BY <1>4, Zenon
<1> QED
  BY <1>4, <1>5, <1>6, FourChannels, Zenon

\* A message from the next role.
LEMMA TakeNext ==
    ASSUME LockStep, NEW p \in Role, Moves(p, 0, 0, 0, 1), chan[next(p)][p] # <<>>,
           chan' = Take(chan, next(p), p)
    PROVE  ChannelStep(p)
<1>1. Channels(chan) /\ RoleOf(p)
  BY Zenon DEF LockStep, Channels
<1>2. /\ Sent(p)' = Sent(p) /\ BackSent(p)' = BackSent(p)
      /\ Got(p)' = Got(p) /\ BackGot(p)' = BackGot(p) + 1
  BY <1>1, NoMove, Zenon DEF Moves
<1>3. next(p) \in Role \ {p} /\ prev(p) \in Role \ {p} /\ next(p) # prev(p)
  BY Ring, Zenon
<1>4. /\ Channels(chan') /\ chan'[next(p)][p] = Tail(chan[next(p)][p])
      /\ \A x, y \in Role : x # next(p) \/ y # p => chan'[x][y] = chan[x][y]
  BY ONLY <1>1, <1>3, p \in Role, chan' = Take(chan, next(p), p), Zenon DEF Take, Channels
<1>5. Sends(p, next(p)) /\ Sends(p, prev(p)) /\ Takes(p, next(p)) /\ Takes(p, prev(p))
  BY <1>2, <1>3, <1>4, ByCounts, Zenon
<1>6. \A q, r \in Role \ {p} : chan'[q][r] = chan[q][r]
  BY <1>4, Zenon
<1> QED
  BY <1>4, <1>5, <1>6, FourChannels, Zenon

\* A message from the previous role, and one to the next.
LEMMA TakePrevSendNext ==
    ASSUME LockStep, NEW p \in Role, Moves(p, 1, 0, 1, 0), chan[prev(p)][p] # <<>>, NEW m,
           chan' = Send(Take(chan, prev(p), p), p, next(p), m),
           m.type = Kind(p, next(p), Sent(p) + 1)
    PROVE  ChannelStep(p)
<1>1. Channels(chan) /\ RoleOf(p)
  BY Zenon DEF LockStep, Channels
<1>2. /\ Sent(p)' = Sent(p) + 1 /\ BackSent(p)' = BackSent(p)
      /\ Got(p)' = Got(p) + 1 /\ BackGot(p)' = BackGot(p)
  BY <1>1, NoMove, Zenon DEF Moves
<1>3. next(p) \in Role \ {p} /\ prev(p) \in Role \ {p} /\ next(p) # prev(p)
  BY Ring, Zenon
<1>4. PICK c : c = Take(chan, prev(p), p)
  BY Zenon
<1>5. /\ Channels(c) /\ c[prev(p)][p] = Tail(chan[prev(p)][p])
      /\ \A x, y \in Role : x # prev(p) \/ y # p => c[x][y] = chan[x][y]
  BY ONLY <1>1, <1>3, <1>4, p \in Role, Zenon DEF Take, Channels
<1>6. chan' = Send(c, p, next(p), m)
  BY <1>4, Zenon
<1>7. /\ Channels(chan') /\ chan'[p][next(p)] = Append(c[p][next(p)], m)
      /\ \A x, y \in Role : x # p \/ y # next(p) => chan'[x][y] = c[x][y]
  BY ONLY <1>3, <1>5, <1>6, p \in Role, SendShape
<1>8. /\ chan'[p][next(p)] = Append(chan[p][next(p)], m) /\ chan'[p][prev(p)] = chan[p][prev(p)]
      /\ chan'[prev(p)][p] = Tail(chan[prev(p)][p]) /\ chan'[next(p)][p] = chan[next(p)][p]
      /\ \A q, r \in Role \ {p} : chan'[q][r] = chan[q][r]
  BY ONLY SMTT(30), Z3, <1>3, <1>5, <1>7, p \in Role
<1>9. Sends(p, next(p)) /\ Sends(p, prev(p)) /\ Takes(p, next(p)) /\ Takes(p, prev(p))
  BY <1>2, <1>8, ByCounts, Zenon
<1> QED
  BY <1>7, <1>8, <1>9, FourChannels, Zenon

\* A message from the previous role, and one back to it.
LEMMA TakePrevSendPrev ==
    ASSUME LockStep, NEW p \in Role, Moves(p, 0, 1, 1, 0), chan[prev(p)][p] # <<>>, NEW m,
           chan' = Send(Take(chan, prev(p), p), p, prev(p), m),
           m.type = Kind(p, prev(p), BackSent(p) + 1)
    PROVE  ChannelStep(p)
<1>1. Channels(chan) /\ RoleOf(p)
  BY Zenon DEF LockStep, Channels
<1>2. /\ Sent(p)' = Sent(p) /\ BackSent(p)' = BackSent(p) + 1
      /\ Got(p)' = Got(p) + 1 /\ BackGot(p)' = BackGot(p)
  BY <1>1, NoMove, Zenon DEF Moves
<1>3. next(p) \in Role \ {p} /\ prev(p) \in Role \ {p} /\ next(p) # prev(p)
  BY Ring, Zenon
<1>4. PICK c : c = Take(chan, prev(p), p)
  BY Zenon
<1>5. /\ Channels(c) /\ c[prev(p)][p] = Tail(chan[prev(p)][p])
      /\ \A x, y \in Role : x # prev(p) \/ y # p => c[x][y] = chan[x][y]
  BY ONLY <1>1, <1>3, <1>4, p \in Role DEF Take, Channels
<1>6. chan' = Send(c, p, prev(p), m)
  BY <1>4, Zenon
<1>7. /\ Channels(chan') /\ chan'[p][prev(p)] = Append(c[p][prev(p)], m)
      /\ \A x, y \in Role : x # p \/ y # prev(p) => chan'[x][y] = c[x][y]
  BY ONLY <1>3, <1>5, <1>6, p \in Role, SendShape
<1>8. /\ chan'[p][prev(p)] = Append(chan[p][prev(p)], m) /\ chan'[p][next(p)] = chan[p][next(p)]
      /\ chan'[prev(p)][p] = Tail(chan[prev(p)][p]) /\ chan'[next(p)][p] = chan[next(p)][p]
      /\ \A q, r \in Role \ {p} : chan'[q][r] = chan[q][r]
  BY ONLY <1>3, <1>5, <1>7, p \in Role
<1>9. Sends(p, next(p)) /\ Sends(p, prev(p)) /\ Takes(p, next(p)) /\ Takes(p, prev(p))
  BY <1>2, <1>8, ByCounts, Zenon
<1> QED
  BY <1>7, <1>8, <1>9, FourChannels, Zenon

-----------------------------------------------------------------------------
(* One lemma per action                                                    *)

\* The labels at which a role waits for the previous one, and the next one.
FromPrev == {"rep3", "receiver_wc", "cross", "open", "lift_adder", "lift_ripple", "inject",
             "msb_adder", "msb_ripple"}
FromNext == {"helper", "receiver"}

\* The message that has arrived is the first of the channel.
LEMMA ArrivedPrev ==
    ASSUME NEW p \in Role, NEW l \in FromPrev, Arrived(p, l)
    PROVE  pc[p] = l /\ chan[prev(p)][p] # <<>> /\ Taken(p) = Take(chan, prev(p), p)
<1>1. pc[p] = l
  BY Zenon DEF Arrived
<1>2. Expected(p)[1] = prev(p)
  BY <1>1, Zenon DEF Expected, FromPrev
<1> QED
  BY <1>1, <1>2, Zenon DEF Arrived, Queue, Taken, Take

\* The same for a message of the next role.
LEMMA ArrivedNext ==
    ASSUME NEW p \in Role, NEW l \in FromNext, Arrived(p, l)
    PROVE  pc[p] = l /\ chan[next(p)][p] # <<>> /\ Taken(p) = Take(chan, next(p), p)
<1>1. pc[p] = l
  BY DEF Arrived
<1>2. Expected(p)[1] = next(p)
  BY <1>1, Zenon DEF Expected, FromNext
<1> QED
  BY <1>1, <1>2, Zenon DEF Arrived, Queue, Taken, Take

\* Facts about the constants and the lengths.
LEMMA Sizes ==
    ASSUME LockStep
    PROVE  /\ K \in Nat /\ K >= 3 /\ Items \in Nat /\ Lifts \in Nat /\ CrossMessages \in {0, 1}
           /\ \A p \in Role : Len(input.code[p]) \in Nat /\ 2 * Len(input.code[p]) = Items
<1>1. K \in Nat /\ K >= 3
  BY WidthAssumption
<1>2. input \in Inputs /\ 0 \in Role
  BY DEF LockStep, Role
<1>3. \A p \in Role : input.code[p] \in Seq(0 .. U16 - 1) /\ Len(input.code[p]) = Len(input.code[0])
  BY <1>2, InputsAssumption, Zenon
<1>4. \A p \in Role : Len(input.code[p]) \in Nat
  BY <1>3
<1>5. Items \in Nat
  BY <1>2, <1>4 DEF Items
<1> QED
  BY <1>1, <1>3, <1>4, <1>5, Zenon DEF Items, Lifts, CrossMessages

\* A step of p, seen from its variables.
LEMMA StepOf ==
    ASSUME LockStep, NEW p \in Role, UNCHANGED <<input, late>>,
           pc[p] # "failed", pc'[p] # "failed",
           DOMAIN pc' = Role, DOMAIN reg' = Role, DOMAIN prf' = Role,
           \A q \in Role \ {p} : Quiet(q), ChannelStep(p), RoleOf(p)'
    PROVE  LockStep'
<1>1. Alone(p) /\ \A q \in Role \ {p} : Sends(p, q) /\ Takes(p, q)
  BY Zenon DEF Alone, ChannelStep, Channels
<1> QED
  BY <1>1, RunOn, Zenon

\* Every role sends its dot products, masked with a sharing of zero.
LEMMA StepRep3 ==
    ASSUME LockStep, NEW p \in Role, galois_ring_to_rep3(p)
    PROVE  LockStep'
<1> DEFINE items == galois_ring_pairwise_distance(p)
           masked == [j \in DOMAIN items |-> (items[j] + gen_zero_share(p, j - 1, U16)) % U16]
<1>1. /\ pc[p] = "idle" /\ UNCHANGED <<input, late>>
      /\ chan' = Send(chan, p, next(p), Value("VecRing16", masked))
      /\ prf' = [prf EXCEPT ![p] = [my |-> @.my + Len(items), prev |-> @.prev + Len(items)]]
      /\ reg' = [reg EXCEPT ![p].dots = masked]
      /\ pc' = [pc EXCEPT ![p] = "rep3"]
  BY Zenon DEF galois_ring_to_rep3, Advance, Goto
<1>2. HasLen(items, Items) /\ HasLen(masked, Items) /\ Len(items) = Items
  <2>1. DOMAIN items = 1 .. Items /\ HasLen(items, Items)
    BY Sizes, Zenon DEF galois_ring_pairwise_distance, HasLen
  <2>2. HasLen(masked, Items)
    BY <2>1, Zenon DEF HasLen
  <2> QED
    BY <2>1, <2>2, Sizes, Lengths, Zenon
<1> HIDE DEF items, masked
<1>3. /\ DOMAIN pc = Role /\ DOMAIN reg = Role /\ DOMAIN prf = Role
      /\ DOMAIN reg[p] = Fields /\ DOMAIN prf[p] = {"my", "prev"}
      /\ prf[p].my = 0 /\ prf[p].prev = 0
  BY <1>1, Zenon DEF LockStep, RoleOf, Drawn, DrawnAt
<1>4. /\ DOMAIN pc' = Role /\ DOMAIN reg' = Role /\ DOMAIN prf' = Role
      /\ pc'[p] = "rep3" /\ reg'[p].dots = masked /\ DOMAIN reg'[p] = Fields
      /\ prf'[p] = [my |-> Items, prev |-> Items]
      /\ \A q \in Role \ {p} : Quiet(q)
  BY <1>1, <1>2, <1>3, Sizes DEF Quiet, Fields
<1>5. Items' = Items
  BY <1>1, Zenon DEF Items
<1>6. RoleOf(p)'
  BY <1>2, <1>4, <1>5 DEF RoleOf, Drawn, DrawnAt, Labels
<1>7. Moves(p, 1, 0, 0, 0) /\ Sent(p) = 0
  BY <1>1, <1>4 DEF Moves, Sent, SentAt, Got, GotAt, BackSent, BackGot, Injected
<1>8. ChannelStep(p)
  <2>1. Value("VecRing16", masked).type = Kind(p, next(p), Sent(p) + 1)
    BY <1>7 DEF Value, Kind
  <2> QED
    BY <1>1, <1>7, <2>1, SendNext, Zenon
<1> QED
  BY <1>1, <1>4, <1>6, <1>8, StepOf, Zenon

\* The beginning of a sequence.
LEMMA Beginning ==
    ASSUME NEW b \in Nat, NEW s, HasLen(s, b), NEW n \in Nat, n <= b
    PROVE  DOMAIN SubSeq(s, 1, n) = 1 .. n
<1> DEFINE S == {s[i] : i \in 1 .. b}
<1>1. s = [i \in 1 .. b |-> s[i]]
  BY Zenon DEF HasLen
<1>2. s \in [1 .. b -> S]
  BY <1>1, Zenon
<1>3. Len(s) = b
  BY Lengths, Zenon
<1> HIDE DEF S
<1>4. s \in Seq(S)
  BY <1>2
<1> QED
  BY <1>3, <1>4

\* What the variables of p are in a state of the invariant.
LEMMA Here ==
    ASSUME LockStep, NEW p \in Role
    PROVE  /\ DOMAIN pc = Role /\ DOMAIN reg = Role /\ DOMAIN prf = Role
           /\ DOMAIN reg[p] = Fields /\ DOMAIN prf[p] = {"my", "prev"} /\ RoleOf(p)
BY Zenon DEF LockStep, RoleOf

\* The positions of the streams after a draw.
LEMMA Draws ==
    ASSUME LockStep, NEW p \in Role, NEW a \in Nat, NEW b \in Nat,
           prf' = [prf EXCEPT ![p] = [my |-> @.my + a, prev |-> @.prev + b]]
    PROVE  /\ DOMAIN prf' = Role /\ DOMAIN prf'[p] = {"my", "prev"}
           /\ prf'[p].my = prf[p].my + a /\ prf'[p].prev = prf[p].prev + b
           /\ \A q \in Role \ {p} : prf'[q] = prf[q]
BY Here, Zenon

\* What p sends of the products of n words, and draws for it.
LEMMA AndSent ==
    ASSUME LockStep, NEW p \in Role, NEW n \in Nat, NEW z, HasLen(z, n), NEW c, SendAnd(c, p, z)
    PROVE  /\ chan' = Send(c, p, next(p), Value("VecRing64", z))
           /\ DOMAIN prf' = Role /\ DOMAIN prf'[p] = {"my", "prev"}
           /\ prf'[p].my = prf[p].my + 2 * n /\ prf'[p].prev = prf[p].prev + 2 * n
           /\ \A q \in Role \ {p} : prf'[q] = prf[q]
<1>1. Len(z) = n
  BY Lengths, Zenon
<1>2. prf' = [prf EXCEPT ![p] = [my |-> @.my + 2 * n, prev |-> @.prev + 2 * n]]
  BY <1>1, Zenon DEF SendAnd, Advance
<1>3. 2 * n \in Nat
  OBVIOUS
<1>4. chan' = Send(c, p, next(p), Value("VecRing64", z))
  BY Zenon DEF SendAnd
<1>5. PICK m \in Nat : m = 2 * n
  BY <1>3, Zenon
<1> QED
  BY <1>2, <1>4, <1>5, Draws, Zenon

\* The products of n words are n words.
LEMMA ProductsHaveLen ==
    ASSUME NEW n \in Nat, NEW p, NEW x, NEW y, DOMAIN x = 1 .. n
    PROVE  HasLen(and_many_send(p, x, y), n)
BY Zenon DEF and_many_send, HasLen

\* The registers p writes before it sends the products of the adder.
LEMMA Adder ==
    ASSUME LockStep, NEW p \in Role, NEW xs, NEW bits \in Nat, NEW n \in Nat, n <= bits,
           FullAdder(p, xs, bits, n)
    PROVE  \E z : /\ HasLen(z, n) /\ SendAnd(chan, p, z)
                  /\ DOMAIN reg' = Role /\ DOMAIN reg'[p] = Fields /\ reg'[p].xs = xs
                  /\ \A q \in Role \ {p} : reg'[q] = reg[q]
<1> DEFINE x == [i \in 1 .. bits |-> a2b_pre(p, transpose_pack_u64(xs, bits)[i])]
           part(j) == [i \in 1 .. bits |-> x[i][j]]
           x2x3 == transposed_pack_xor(part(2), part(3))
           x1x3 == transposed_pack_xor(part(1), part(3))
           z == and_many_send(p, SubSeq(x1x3, 1, n), SubSeq(x2x3, 1, n))
           u == SubSeq(part(3), 1, n)
           v == transposed_pack_xor(part(1), x2x3)
<1>1. /\ SendAnd(chan, p, z)
      /\ reg' = [reg EXCEPT ![p].z = z, ![p].x3 = u, ![p].s = v, ![p].xs = xs]
  BY Zenon DEF FullAdder
<1>2. HasLen(x1x3, bits)
  <2>1. DOMAIN part(1) = 1 .. bits
    BY Zenon
  <2> HIDE DEF part
  <2> QED
    BY <2>1, Zenon DEF transposed_pack_xor, HasLen
<1> HIDE DEF x1x3, x2x3, u, v, part
<1>3. DOMAIN SubSeq(x1x3, 1, n) = 1 .. n
  BY <1>2, Beginning, Zenon
<1>4. HasLen(z, n)
  BY <1>3, ProductsHaveLen, Zenon
<1> HIDE DEF z
<1>5. DOMAIN reg' = Role /\ DOMAIN reg'[p] = Fields /\ reg'[p].xs = xs
      /\ \A q \in Role \ {p} : reg'[q] = reg[q]
  BY <1>1, Here, Zenon DEF Fields
<1> QED
  BY <1>1, <1>4, <1>5, Zenon

\* The label of p changes.
LEMMA Labelled ==
    ASSUME LockStep, NEW p \in Role, NEW l, Goto(p, l)
    PROVE  DOMAIN pc' = Role /\ pc'[p] = l /\ \A q \in Role \ {p} : pc'[q] = pc[q]
BY Here, Zenon DEF Goto

\* Draws are natural numbers.
LEMMA DrawTypes ==
    ASSUME LockStep, NEW p \in Role
    PROVE  /\ InjectMy(p) \in Nat /\ InjectPrev(p) \in Nat
           /\ LiftDrawn \in Nat /\ MsbDrawn(InjectMy(p)) \in Nat /\ MsbDrawn(InjectPrev(p)) \in Nat
<1>1. \A q : InjectMy(q) \in Nat
  BY Sizes DEF InjectMy
<1>2. InjectMy(p) \in Nat /\ InjectPrev(p) \in Nat
  BY <1>1, Zenon DEF InjectPrev
<1>3. 0 \in Nat /\ LiftDrawn \in Nat
  BY Sizes, Zenon DEF LiftDrawn
<1>4. \A i \in Nat : MsbDrawn(i) \in Nat
  BY Sizes DEF MsbDrawn
<1> QED
  BY <1>2, <1>3, <1>4, Zenon

\* Messages up to the injection.
LEMMA LiftCounts ==
    ASSUME LockStep, NEW p \in Role
    PROVE  /\ LiftSent(p) \in Nat /\ LiftSent(p) >= 1 /\ LiftSent(prev(p)) \in Nat
           /\ (p = 0 /\ LiftSent(p) = K + 3) \/ (p # 0 /\ LiftSent(p) = K + 2)
BY Sizes DEF LiftSent

\* p has taken the part of the previous role of the last products and sends
\* its own of the next one.
LEMMA AndRound ==
    ASSUME LockStep, NEW p \in Role, NEW l \in FromPrev, Arrived(p, l),
           NEW z, HasLen(z, 1), SendAnd(Taken(p), p, z),
           Moves(p, 1, 0, 1, 0), Kind(p, next(p), Sent(p) + 1) = "VecRing64"
    PROVE  ChannelStep(p)
<1>1. chan[prev(p)][p] # <<>> /\ Taken(p) = Take(chan, prev(p), p)
  BY ArrivedPrev, Zenon
<1>2. chan' = Send(Take(chan, prev(p), p), p, next(p), Value("VecRing64", z))
  BY <1>1, Zenon DEF SendAnd
<1>3. Value("VecRing64", z).type = Kind(p, next(p), Sent(p) + 1)
  BY Zenon DEF Value
<1> QED
  BY <1>1, <1>2, <1>3, TakePrevSendNext, Zenon

\* A word takes two positions of each stream.
LEMMA OneAnd ==
    ASSUME LockStep, NEW p \in Role, NEW z, HasLen(z, 1), NEW c, SendAnd(c, p, z)
    PROVE  /\ DOMAIN prf' = Role /\ DOMAIN prf'[p] = {"my", "prev"}
           /\ prf'[p].my = prf[p].my + 2 /\ prf'[p].prev = prf[p].prev + 2
           /\ \A q \in Role \ {p} : prf'[q] = prf[q]
<1>1. 1 \in Nat /\ 2 * 1 = 2
  OBVIOUS
<1> QED
  BY <1>1, AndSent, ZenonT(30)

\* The product of one pair of words.
LEMMA OneProduct ==
    ASSUME NEW p, NEW x, NEW y
    PROVE  HasLen(and_many_send(p, <<x>>, <<y>>), 1)
<1>1. DOMAIN <<x>> = 1 .. 1 /\ 1 \in Nat
  OBVIOUS
<1> QED
  BY <1>1, ProductsHaveLen, Zenon

\* The registers in the rounds of the ripple.
LEMMA FirstRegisters ==
    ASSUME LockStep, NEW p \in Role, FirstCarry(p)
    PROVE  \E z : /\ HasLen(z, 1) /\ SendAnd(Taken(p), p, z)
                  /\ DOMAIN reg' = Role /\ DOMAIN reg'[p] = Fields
                  /\ reg'[p].xs = reg[p].xs /\ reg'[p].k = 2
                  /\ \A q \in Role \ {p} : reg'[q] = reg[q]
<1> DEFINE c == transposed_pack_xor(and_many_receive(p), reg[p].x3)
           z == and_many_send(p, <<reg[p].s[2]>>, <<c[1]>>)
<1>1. SendAnd(Taken(p), p, z) /\ reg' = [reg EXCEPT ![p].z = z, ![p].b = c, ![p].k = 2]
  BY Zenon DEF FirstCarry
<1>2. HasLen(z, 1)
  BY OneProduct, Zenon
<1> HIDE DEF c, z
<1>3. /\ DOMAIN reg' = Role /\ DOMAIN reg'[p] = Fields
      /\ reg'[p].xs = reg[p].xs /\ reg'[p].k = 2
      /\ \A q \in Role \ {p} : reg'[q] = reg[q]
  BY <1>1, Here, Zenon DEF Fields
<1> QED
  BY <1>1, <1>2, <1>3, Zenon

\* A round of the ripple sends one word and counts on.
LEMMA RoundRegisters ==
    ASSUME LockStep, NEW p \in Role, RippleRound(p)
    PROVE  \E z : /\ HasLen(z, 1) /\ SendAnd(Taken(p), p, z)
                  /\ DOMAIN reg' = Role /\ DOMAIN reg'[p] = Fields
                  /\ reg'[p].xs = reg[p].xs /\ reg'[p].k = reg[p].k + 1
                  /\ \A q \in Role \ {p} : reg'[q] = reg[q]
<1> DEFINE k == reg[p].k
           c == Carry(p)
           z == and_many_send(p, <<XorShare(reg[p].s[k + 1], c)>>, <<XorShare(reg[p].b[k], c)>>)
<1>1. SendAnd(Taken(p), p, z) /\ reg' = [reg EXCEPT ![p].z = z, ![p].c = c, ![p].k = k + 1]
  BY Zenon DEF RippleRound
<1>2. HasLen(z, 1)
  BY OneProduct, Zenon
<1> HIDE DEF c, z
<1>3. /\ DOMAIN reg' = Role /\ DOMAIN reg'[p] = Fields
      /\ reg'[p].xs = reg[p].xs /\ reg'[p].k = reg[p].k + 1
      /\ \A q \in Role \ {p} : reg'[q] = reg[q]
  BY <1>1, Here, Zenon DEF Fields
<1> QED
  BY <1>1, <1>2, <1>3, Zenon

\* The numbers of which the counts are made.
LEMMA Numbers ==
    ASSUME LockStep, NEW p \in Role
    PROVE  /\ K \in Nat /\ K >= 3 /\ Items \in Nat /\ Lifts \in Nat /\ CrossMessages \in {0, 1}
           /\ LiftSent(p) \in Nat /\ LiftSent(p) >= 1 /\ LiftSent(prev(p)) \in Nat
           /\ (p = 0 /\ LiftSent(p) = K + 3) \/ (p # 0 /\ LiftSent(p) = K + 2)
           /\ InjectMy(p) \in Nat /\ InjectPrev(p) \in Nat
           /\ LiftDrawn \in Nat /\ MsbDrawn(InjectMy(p)) \in Nat /\ MsbDrawn(InjectPrev(p)) \in Nat
BY Sizes, LiftCounts, DrawTypes, Zenon

\* The words of the circuits are in the middle of each part.
LEMMA KindOfWords ==
    ASSUME LockStep, NEW p \in Role, NEW n \in Nat, n > 1,
           \/ n <= K + 2
           \/ LiftSent(p) + CrossMessages < n /\ n < LiftSent(p) + CrossMessages + 2 * K
    PROVE  Kind(p, next(p), n) = "VecRing64"
<1>1. /\ K \in Nat /\ K >= 3 /\ CrossMessages \in {0, 1} /\ LiftSent(p) \in Nat
      /\ (p = 0 /\ LiftSent(p) = K + 3) \/ (p # 0 /\ LiftSent(p) = K + 2)
  BY Numbers, Zenon
<1> QED
  BY <1>1 DEF Kind

\* The carries of the full adder arrive, and the ripple of the lift begins.
LEMMA StepTwoCarriesFirst ==
    ASSUME LockStep, NEW p \in Role, two_carries_first(p)
    PROVE  LockStep'
<1>1. /\ Arrived(p, "lift_adder") /\ UNCHANGED <<input, late>> /\ Goto(p, "lift_ripple")
      /\ FirstCarry(p)
  BY Zenon DEF two_carries_first
<1>2. pc[p] = "lift_adder" /\ RoleOf(p) /\ "lift_adder" \in FromPrev /\ DOMAIN pc = Role
  BY <1>1, Here, Zenon DEF Arrived, FromPrev
<1>3. PICK z : /\ HasLen(z, 1) /\ SendAnd(Taken(p), p, z)
               /\ DOMAIN reg' = Role /\ DOMAIN reg'[p] = Fields
               /\ reg'[p].xs = reg[p].xs /\ reg'[p].k = 2
               /\ \A q \in Role \ {p} : reg'[q] = reg[q]
  BY <1>1, FirstRegisters, Zenon
<1>4. /\ DOMAIN prf' = Role /\ DOMAIN prf'[p] = {"my", "prev"}
      /\ prf'[p].my = prf[p].my + 2 /\ prf'[p].prev = prf[p].prev + 2
      /\ \A q \in Role \ {p} : prf'[q] = prf[q]
  BY <1>3, OneAnd, Zenon
<1>5. DOMAIN pc' = Role /\ pc'[p] = "lift_ripple" /\ \A q \in Role \ {p} : Quiet(q)
  <2>1. DOMAIN pc' = Role /\ pc'[p] = "lift_ripple" /\ \A q \in Role \ {p} : pc'[q] = pc[q]
    BY <1>1, Labelled, Zenon
  <2> QED
    BY <2>1, <1>3, <1>4, Zenon DEF Quiet
<1>6. /\ K \in Nat /\ K >= 3 /\ Items \in Nat /\ Lifts \in Nat /\ CrossMessages \in {0, 1}
      /\ LiftSent(p) \in Nat /\ LiftSent(p) >= 1 /\ LiftSent(prev(p)) \in Nat
      /\ InjectMy(p) \in Nat /\ InjectPrev(p) \in Nat
      /\ LiftDrawn \in Nat /\ MsbDrawn(InjectMy(p)) \in Nat /\ MsbDrawn(InjectPrev(p)) \in Nat
  BY Numbers, Zenon
<1>7. RoleOf(p)'
  <2>1. prf[p].my = LiftDrawn + 2 * K /\ prf[p].prev = LiftDrawn + 2 * K
    <3>1. /\ prf[p].my = DrawnAt("lift_adder", reg[p].k, Items, LiftDrawn, MsbDrawn(InjectMy(p)), InjectMy(p))
          /\ prf[p].prev = DrawnAt("lift_adder", reg[p].k, Items, LiftDrawn, MsbDrawn(InjectPrev(p)), InjectPrev(p))
      BY <1>2, Zenon DEF RoleOf, Drawn
    <3> QED
      BY ONLY <3>1, SMTT(30) DEF DrawnAt
  <2>2. /\ Drawn(p, InjectMy(p))' = LiftDrawn + 2 * K + 2 * (reg'[p].k - 1)
        /\ Drawn(p, InjectPrev(p))' = LiftDrawn + 2 * K + 2 * (reg'[p].k - 1)
    <3>1. /\ Drawn(p, InjectMy(p))' = DrawnAt("lift_ripple", reg'[p].k, Items, LiftDrawn, MsbDrawn(InjectMy(p)), InjectMy(p))
          /\ Drawn(p, InjectPrev(p))' = DrawnAt("lift_ripple", reg'[p].k, Items, LiftDrawn, MsbDrawn(InjectPrev(p)), InjectPrev(p))
      BY <1>1, <1>5, Fixed, Zenon DEF Drawn
    <3> QED
      BY ONLY <3>1, Zenon DEF DrawnAt
  <2>3. prf'[p].my = Drawn(p, InjectMy(p))' /\ prf'[p].prev = Drawn(p, InjectPrev(p))'
    BY ONLY <1>6, <1>3, <1>4, <2>1, <2>2, SMTT(30), Z3
  <2>4. HasLen(reg[p].xs, Lifts)
    BY <1>1, <1>2, Zenon DEF RoleOf
  <2>5. Items' = Items /\ Lifts' = Lifts
    BY <1>1, Fixed, Zenon
  <2>6. reg'[p].k \in 2 .. K
    BY ONLY <1>6, <1>3, SMTT(30)
  <2> QED
    BY <1>1, <1>3, <1>4, <1>5, <2>3, <2>4, <2>5, <2>6, Zenon DEF RoleOf, Labels, Local
<1>8. Moves(p, 1, 0, 1, 0) /\ Sent(p) = 2
  <2>1. Sent(p) = 2 /\ Got(p) = 1
    <3>1. /\ Sent(p) = SentAt(p, "lift_adder", reg[p].k, CrossMessages)
          /\ Got(p) = GotAt(p, "lift_adder", reg[p].k, CrossMessages)
      BY <1>2, Zenon DEF Sent, Got
    <3> QED
      BY ONLY <3>1, Zenon DEF SentAt, GotAt
  <2>2. Sent(p)' = reg'[p].k + 1 /\ Got(p)' = reg'[p].k
    <3>1. /\ Sent(p)' = SentAt(p, "lift_ripple", reg'[p].k, CrossMessages)
          /\ Got(p)' = GotAt(p, "lift_ripple", reg'[p].k, CrossMessages)
      BY <1>1, <1>5, Fixed, Zenon DEF Sent, Got
    <3> QED
      BY ONLY <3>1, Zenon DEF SentAt, GotAt
  <2>3. BackSent(p)' = BackSent(p) + 0 /\ BackGot(p)' = BackGot(p) + 0
    BY <1>1, <1>2, <1>5, SMTT(30), Z3 DEF BackSent, BackGot, Injected
  <2>4. Sent(p)' = Sent(p) + 1 /\ Got(p)' = Got(p) + 1
    BY ONLY <1>6, <1>3, <2>1, <2>2, SMTT(30)
  <2> QED
    BY <2>1, <2>3, <2>4, Zenon DEF Moves
<1>9. Kind(p, next(p), Sent(p) + 1) = "VecRing64"
  <2>1. /\ 2 + 1 \in Nat /\ 2 + 1 > 1
        /\ \/ 2 + 1 <= K + 2
           \/ LiftSent(p) + CrossMessages < 2 + 1 /\ 2 + 1 < LiftSent(p) + CrossMessages + 2 * K
    BY ONLY <1>6, SMTT(30)
  <2> QED
    BY <1>8, <2>1, KindOfWords, Zenon
<1>10. ChannelStep(p)
  BY <1>1, <1>2, <1>3, <1>8, <1>9, AndRound, Zenon
<1>11. pc[p] # "failed" /\ pc'[p] # "failed"
  BY <1>2, <1>5, Zenon
<1> QED
  BY <1>1, <1>3, <1>4, <1>5, <1>7, <1>10, <1>11, StepOf, Zenon

\* One more round of the ripple of the lift.
LEMMA StepTwoCarriesRound ==
    ASSUME LockStep, NEW p \in Role, two_carries_round(p)
    PROVE  LockStep'
<1>1. /\ Arrived(p, "lift_ripple") /\ UNCHANGED <<input, late>> /\ pc' = pc
      /\ reg[p].k < K /\ RippleRound(p)
  BY Zenon DEF two_carries_round
<1>2. pc[p] = "lift_ripple" /\ RoleOf(p) /\ "lift_ripple" \in FromPrev /\ DOMAIN pc = Role
  BY <1>1, Here, Zenon DEF Arrived, FromPrev
<1>3. PICK z : /\ HasLen(z, 1) /\ SendAnd(Taken(p), p, z)
               /\ DOMAIN reg' = Role /\ DOMAIN reg'[p] = Fields
               /\ reg'[p].xs = reg[p].xs /\ reg'[p].k = reg[p].k + 1
               /\ \A q \in Role \ {p} : reg'[q] = reg[q]
  BY <1>1, RoundRegisters, Zenon
<1>4. /\ DOMAIN prf' = Role /\ DOMAIN prf'[p] = {"my", "prev"}
      /\ prf'[p].my = prf[p].my + 2 /\ prf'[p].prev = prf[p].prev + 2
      /\ \A q \in Role \ {p} : prf'[q] = prf[q]
  BY <1>3, OneAnd, Zenon
<1>5. DOMAIN pc' = Role /\ pc'[p] = "lift_ripple" /\ \A q \in Role \ {p} : Quiet(q)
  <2>1. DOMAIN pc' = Role /\ pc'[p] = "lift_ripple" /\ \A q \in Role \ {p} : pc'[q] = pc[q]
    BY <1>1, <1>2, Zenon
  <2> QED
    BY <2>1, <1>3, <1>4, Zenon DEF Quiet
<1>6. /\ K \in Nat /\ K >= 3 /\ Items \in Nat /\ Lifts \in Nat /\ CrossMessages \in {0, 1}
      /\ LiftSent(p) \in Nat /\ LiftSent(p) >= 1 /\ LiftSent(prev(p)) \in Nat
      /\ InjectMy(p) \in Nat /\ InjectPrev(p) \in Nat
      /\ LiftDrawn \in Nat /\ MsbDrawn(InjectMy(p)) \in Nat /\ MsbDrawn(InjectPrev(p)) \in Nat
  BY Numbers, Zenon
<1>k. reg[p].k \in Nat /\ reg[p].k >= 2 /\ reg[p].k <= K /\ reg[p].k < K
  <2>1. reg[p].k \in 2 .. K
    BY <1>2, Zenon DEF RoleOf
  <2> QED
    BY ONLY <1>1, <1>6, <2>1, SMTT(30)
<1>7. RoleOf(p)'
  <2>1. prf[p].my = LiftDrawn + 2 * K + 2 * (reg[p].k - 1) /\ prf[p].prev = LiftDrawn + 2 * K + 2 * (reg[p].k - 1)
    <3>1. /\ prf[p].my = DrawnAt("lift_ripple", reg[p].k, Items, LiftDrawn, MsbDrawn(InjectMy(p)), InjectMy(p))
          /\ prf[p].prev = DrawnAt("lift_ripple", reg[p].k, Items, LiftDrawn, MsbDrawn(InjectPrev(p)), InjectPrev(p))
      BY <1>2, Zenon DEF RoleOf, Drawn
    <3> QED
      BY ONLY <3>1, SMTT(30) DEF DrawnAt
  <2>2. /\ Drawn(p, InjectMy(p))' = LiftDrawn + 2 * K + 2 * (reg'[p].k - 1)
        /\ Drawn(p, InjectPrev(p))' = LiftDrawn + 2 * K + 2 * (reg'[p].k - 1)
    <3>1. /\ Drawn(p, InjectMy(p))' = DrawnAt("lift_ripple", reg'[p].k, Items, LiftDrawn, MsbDrawn(InjectMy(p)), InjectMy(p))
          /\ Drawn(p, InjectPrev(p))' = DrawnAt("lift_ripple", reg'[p].k, Items, LiftDrawn, MsbDrawn(InjectPrev(p)), InjectPrev(p))
      BY <1>1, <1>5, Fixed, Zenon DEF Drawn
    <3> QED
      BY ONLY <3>1, SMTT(30) DEF DrawnAt
  <2>3. prf'[p].my = Drawn(p, InjectMy(p))' /\ prf'[p].prev = Drawn(p, InjectPrev(p))'
    BY ONLY <1>6, <1>k, <1>3, <1>4, <2>1, <2>2, SMTT(30)
  <2>4. HasLen(reg[p].xs, Lifts)
    BY <1>1, <1>2, Zenon DEF RoleOf
  <2>5. Items' = Items /\ Lifts' = Lifts
    BY <1>1, Fixed, Zenon
  <2>6. reg'[p].k \in 2 .. K
    BY ONLY <1>6, <1>k, <1>3, SMTT(30)
  <2> QED
    BY <1>1, <1>3, <1>4, <1>5, <2>3, <2>4, <2>5, <2>6, Zenon DEF RoleOf, Labels, Local
<1>8. Moves(p, 1, 0, 1, 0) /\ Sent(p) = reg[p].k + 1
  <2>1. Sent(p) = reg[p].k + 1 /\ Got(p) = reg[p].k
    <3>1. /\ Sent(p) = SentAt(p, "lift_ripple", reg[p].k, CrossMessages)
          /\ Got(p) = GotAt(p, "lift_ripple", reg[p].k, CrossMessages)
      BY <1>2, Zenon DEF Sent, Got
    <3> QED
      BY ONLY <3>1, Zenon DEF SentAt, GotAt
  <2>2. Sent(p)' = reg'[p].k + 1 /\ Got(p)' = reg'[p].k
    <3>1. /\ Sent(p)' = SentAt(p, "lift_ripple", reg'[p].k, CrossMessages)
          /\ Got(p)' = GotAt(p, "lift_ripple", reg'[p].k, CrossMessages)
      BY <1>1, <1>5, Fixed, Zenon DEF Sent, Got
    <3> QED
      BY ONLY <3>1, SMTT(30) DEF SentAt, GotAt
  <2>3. BackSent(p)' = BackSent(p) + 0 /\ BackGot(p)' = BackGot(p) + 0
    BY <1>1, <1>2, <1>5, SMTT(30), Z3 DEF BackSent, BackGot, Injected
  <2>4. Sent(p)' = Sent(p) + 1 /\ Got(p)' = Got(p) + 1
    BY ONLY <1>6, <1>k, <1>3, <2>1, <2>2, Zenon
  <2> QED
    BY <2>1, <2>3, <2>4, Zenon DEF Moves
<1>9. Kind(p, next(p), Sent(p) + 1) = "VecRing64"
  <2>1. /\ reg[p].k + 1 + 1 \in Nat /\ reg[p].k + 1 + 1 > 1
        /\ \/ reg[p].k + 1 + 1 <= K + 2
           \/ LiftSent(p) + CrossMessages < reg[p].k + 1 + 1 /\ reg[p].k + 1 + 1 < LiftSent(p) + CrossMessages + 2 * K
    BY ONLY <1>6, <1>k, SMTT(30)
  <2> QED
    BY <1>8, <2>1, KindOfWords, Zenon
<1>10. ChannelStep(p)
  BY <1>1, <1>2, <1>3, <1>8, <1>9, AndRound, Zenon
<1>11. pc[p] # "failed" /\ pc'[p] # "failed"
  BY <1>2, <1>5, Zenon
<1> QED
  BY <1>1, <1>3, <1>4, <1>5, <1>7, <1>10, <1>11, StepOf, Zenon

\* The last round of the lift: the second carry is sent.
LEMMA StepTwoCarriesLast ==
    ASSUME LockStep, NEW p \in Role, two_carries_last(p)
    PROVE  LockStep'
<1>1. /\ Arrived(p, "lift_ripple") /\ UNCHANGED <<input, late>> /\ Goto(p, "inject")
      /\ reg[p].k = K
  BY Zenon DEF two_carries_last
<1>2. pc[p] = "lift_ripple" /\ RoleOf(p) /\ "lift_ripple" \in FromPrev /\ DOMAIN pc = Role
  BY <1>1, Here, Zenon DEF Arrived, FromPrev
<1>3. PICK z : /\ HasLen(z, 1) /\ SendAnd(Taken(p), p, z)
               /\ DOMAIN reg' = Role /\ DOMAIN reg'[p] = Fields
               /\ reg'[p].xs = reg[p].xs
               /\ \A q \in Role \ {p} : reg'[q] = reg[q]
  <2> DEFINE c == Carry(p)
             z == and_many_send(p, <<reg[p].b[K]>>, <<c>>)
             d == XorShare(reg[p].b[K], c)
  <2>1. SendAnd(Taken(p), p, z) /\ reg' = [reg EXCEPT ![p].z = z, ![p].c = d]
    BY Zenon DEF two_carries_last
  <2>2. HasLen(z, 1)
    BY OneProduct, Zenon
  <2> HIDE DEF z, d
  <2>3. /\ DOMAIN reg' = Role /\ DOMAIN reg'[p] = Fields
        /\ reg'[p].xs = reg[p].xs
        /\ \A q \in Role \ {p} : reg'[q] = reg[q]
    BY <2>1, Here, Zenon DEF Fields
  <2> QED
    BY <2>1, <2>2, <2>3, Zenon
<1>4. /\ DOMAIN prf' = Role /\ DOMAIN prf'[p] = {"my", "prev"}
      /\ prf'[p].my = prf[p].my + 2 /\ prf'[p].prev = prf[p].prev + 2
      /\ \A q \in Role \ {p} : prf'[q] = prf[q]
  BY <1>3, OneAnd, Zenon
<1>5. DOMAIN pc' = Role /\ pc'[p] = "inject" /\ \A q \in Role \ {p} : Quiet(q)
  <2>1. DOMAIN pc' = Role /\ pc'[p] = "inject" /\ \A q \in Role \ {p} : pc'[q] = pc[q]
    BY <1>1, Labelled, Zenon
  <2> QED
    BY <2>1, <1>3, <1>4, Zenon DEF Quiet
<1>6. /\ K \in Nat /\ K >= 3 /\ Items \in Nat /\ Lifts \in Nat /\ CrossMessages \in {0, 1}
      /\ LiftSent(p) \in Nat /\ LiftSent(p) >= 1 /\ LiftSent(prev(p)) \in Nat
      /\ InjectMy(p) \in Nat /\ InjectPrev(p) \in Nat
      /\ LiftDrawn \in Nat /\ MsbDrawn(InjectMy(p)) \in Nat /\ MsbDrawn(InjectPrev(p)) \in Nat
  BY Numbers, Zenon
<1>k. reg[p].k \in Nat /\ reg[p].k >= 2 /\ reg[p].k <= K /\ reg[p].k = K
  <2>1. reg[p].k \in 2 .. K
    BY <1>2, Zenon DEF RoleOf
  <2> QED
    BY ONLY <1>1, <1>6, <2>1, SMTT(30)
<1>7. RoleOf(p)'
  <2>1. prf[p].my = LiftDrawn + 2 * K + 2 * (reg[p].k - 1) /\ prf[p].prev = LiftDrawn + 2 * K + 2 * (reg[p].k - 1)
    <3>1. /\ prf[p].my = DrawnAt("lift_ripple", reg[p].k, Items, LiftDrawn, MsbDrawn(InjectMy(p)), InjectMy(p))
          /\ prf[p].prev = DrawnAt("lift_ripple", reg[p].k, Items, LiftDrawn, MsbDrawn(InjectPrev(p)), InjectPrev(p))
      BY <1>2, Zenon DEF RoleOf, Drawn
    <3> QED
      BY ONLY <3>1, SMTT(30) DEF DrawnAt
  <2>2. /\ Drawn(p, InjectMy(p))' = LiftDrawn + 4 * K
        /\ Drawn(p, InjectPrev(p))' = LiftDrawn + 4 * K
    <3>1. /\ Drawn(p, InjectMy(p))' = DrawnAt("inject", reg'[p].k, Items, LiftDrawn, MsbDrawn(InjectMy(p)), InjectMy(p))
          /\ Drawn(p, InjectPrev(p))' = DrawnAt("inject", reg'[p].k, Items, LiftDrawn, MsbDrawn(InjectPrev(p)), InjectPrev(p))
      BY <1>1, <1>5, Fixed, ZenonT(30) DEF Drawn
    <3> QED
      BY ONLY <3>1, Zenon DEF DrawnAt
  <2>3. prf'[p].my = Drawn(p, InjectMy(p))' /\ prf'[p].prev = Drawn(p, InjectPrev(p))'
    BY ONLY <1>6, <1>k, <1>3, <1>4, <2>1, <2>2, SMTT(30), Z3
  <2>4. HasLen(reg[p].xs, Lifts)
    BY <1>1, <1>2, Zenon DEF RoleOf
  <2>5. Items' = Items /\ Lifts' = Lifts
    BY <1>1, Fixed, Zenon
  <2> QED
    BY <1>1, <1>6, <1>k, <1>3, <1>4, <1>5, <2>3, <2>4, <2>5, Zenon DEF RoleOf, Labels, Local
<1>8. Moves(p, 1, 0, 1, 0) /\ Sent(p) = reg[p].k + 1
  <2>1. Sent(p) = reg[p].k + 1 /\ Got(p) = reg[p].k
    <3>1. /\ Sent(p) = SentAt(p, "lift_ripple", reg[p].k, CrossMessages)
          /\ Got(p) = GotAt(p, "lift_ripple", reg[p].k, CrossMessages)
      BY <1>2, Zenon DEF Sent, Got
    <3> QED
      BY ONLY <3>1, SMTT(30) DEF SentAt, GotAt
  <2>2. Sent(p)' = K + 2 /\ Got(p)' = K + 1
    <3>1. /\ Sent(p)' = SentAt(p, "inject", reg'[p].k, CrossMessages)
          /\ Got(p)' = GotAt(p, "inject", reg'[p].k, CrossMessages)
      BY <1>1, <1>5, Fixed, Zenon DEF Sent, Got
    <3> QED
      BY ONLY <3>1, Zenon DEF SentAt, GotAt
  <2>3. BackSent(p)' = BackSent(p) + 0 /\ BackGot(p)' = BackGot(p) + 0
    BY <1>1, <1>2, <1>5, SMTT(30), Z3 DEF BackSent, BackGot, Injected
  <2>4. Sent(p)' = Sent(p) + 1 /\ Got(p)' = Got(p) + 1
    BY ONLY <1>6, <1>k, <1>3, <2>1, <2>2, SMTT(30), Z3
  <2> QED
    BY <2>1, <2>3, <2>4, Zenon DEF Moves
<1>9. Kind(p, next(p), Sent(p) + 1) = "VecRing64"
  <2>1. /\ reg[p].k + 1 + 1 \in Nat /\ reg[p].k + 1 + 1 > 1
        /\ \/ reg[p].k + 1 + 1 <= K + 2
           \/ LiftSent(p) + CrossMessages < reg[p].k + 1 + 1 /\ reg[p].k + 1 + 1 < LiftSent(p) + CrossMessages + 2 * K
    BY ONLY <1>6, <1>k, SMTT(30)
  <2> QED
    BY <1>8, <2>1, KindOfWords, Zenon
<1>10. ChannelStep(p)
  BY <1>1, <1>2, <1>3, <1>8, <1>9, AndRound, Zenon
<1>11. pc[p] # "failed" /\ pc'[p] # "failed"
  BY <1>2, <1>5, Zenon
<1> QED
  BY <1>1, <1>3, <1>4, <1>5, <1>7, <1>10, <1>11, StepOf, Zenon

\* The ripple of the comparison begins.
LEMMA StepGetMsbFirst ==
    ASSUME LockStep, NEW p \in Role, get_msb_first(p)
    PROVE  LockStep'
<1>1. /\ Arrived(p, "msb_adder") /\ UNCHANGED <<input, late>> /\ Goto(p, "msb_ripple")
      /\ FirstCarry(p)
  BY Zenon DEF get_msb_first
<1>2. pc[p] = "msb_adder" /\ RoleOf(p) /\ "msb_adder" \in FromPrev /\ DOMAIN pc = Role
  BY <1>1, Here, Zenon DEF Arrived, FromPrev
<1>3. PICK z : /\ HasLen(z, 1) /\ SendAnd(Taken(p), p, z)
               /\ DOMAIN reg' = Role /\ DOMAIN reg'[p] = Fields
               /\ reg'[p].k = 2
               /\ \A q \in Role \ {p} : reg'[q] = reg[q]
  BY <1>1, FirstRegisters, Zenon
<1>4. /\ DOMAIN prf' = Role /\ DOMAIN prf'[p] = {"my", "prev"}
      /\ prf'[p].my = prf[p].my + 2 /\ prf'[p].prev = prf[p].prev + 2
      /\ \A q \in Role \ {p} : prf'[q] = prf[q]
  BY <1>3, OneAnd, Zenon
<1>5. DOMAIN pc' = Role /\ pc'[p] = "msb_ripple" /\ \A q \in Role \ {p} : Quiet(q)
  <2>1. DOMAIN pc' = Role /\ pc'[p] = "msb_ripple" /\ \A q \in Role \ {p} : pc'[q] = pc[q]
    BY <1>1, Labelled, ZenonT(30)
  <2> QED
    BY <2>1, <1>3, <1>4, Zenon DEF Quiet
<1>6. /\ K \in Nat /\ K >= 3 /\ Items \in Nat /\ Lifts \in Nat /\ CrossMessages \in {0, 1}
      /\ LiftSent(p) \in Nat /\ LiftSent(p) >= 1 /\ LiftSent(prev(p)) \in Nat
      /\ InjectMy(p) \in Nat /\ InjectPrev(p) \in Nat
      /\ LiftDrawn \in Nat /\ MsbDrawn(InjectMy(p)) \in Nat /\ MsbDrawn(InjectPrev(p)) \in Nat
  BY Numbers, Zenon
<1>7. RoleOf(p)'
  <2>1. prf[p].my = MsbDrawn(InjectMy(p)) + 4 * K - 2 /\ prf[p].prev = MsbDrawn(InjectPrev(p)) + 4 * K - 2
    <3>1. /\ prf[p].my = DrawnAt("msb_adder", reg[p].k, Items, LiftDrawn, MsbDrawn(InjectMy(p)), InjectMy(p))
          /\ prf[p].prev = DrawnAt("msb_adder", reg[p].k, Items, LiftDrawn, MsbDrawn(InjectPrev(p)), InjectPrev(p))
      BY <1>2, Zenon DEF RoleOf, Drawn
    <3> QED
      BY ONLY <3>1, SMTT(30) DEF DrawnAt
  <2>2. /\ Drawn(p, InjectMy(p))' = MsbDrawn(InjectMy(p)) + 4 * K - 2 + 2 * (reg'[p].k - 1)
        /\ Drawn(p, InjectPrev(p))' = MsbDrawn(InjectPrev(p)) + 4 * K - 2 + 2 * (reg'[p].k - 1)
    <3>1. /\ Drawn(p, InjectMy(p))' = DrawnAt("msb_ripple", reg'[p].k, Items, LiftDrawn, MsbDrawn(InjectMy(p)), InjectMy(p))
          /\ Drawn(p, InjectPrev(p))' = DrawnAt("msb_ripple", reg'[p].k, Items, LiftDrawn, MsbDrawn(InjectPrev(p)), InjectPrev(p))
      BY <1>1, <1>5, Fixed, Zenon DEF Drawn
    <3> QED
      BY ONLY <3>1, Zenon DEF DrawnAt
  <2>3. prf'[p].my = Drawn(p, InjectMy(p))' /\ prf'[p].prev = Drawn(p, InjectPrev(p))'
    BY ONLY <1>6, <1>3, <1>4, <2>1, <2>2, SMTT(30)
  <2>5. Items' = Items /\ Lifts' = Lifts
    BY <1>1, Fixed, Zenon
  <2>6. reg'[p].k \in 2 .. 2 * K - 1
    BY ONLY <1>6, <1>3, SMTT(30)
  <2> QED
    BY <1>1, <1>3, <1>4, <1>5, <2>3, <2>5, <2>6, Zenon DEF RoleOf, Labels, Local
<1>8. Moves(p, 1, 0, 1, 0) /\ Sent(p) = LiftSent(p) + CrossMessages + 1
  <2>1. Sent(p) = LiftSent(p) + CrossMessages + 1 /\ Got(p) = LiftSent(prev(p)) + CrossMessages
    <3>1. /\ Sent(p) = SentAt(p, "msb_adder", reg[p].k, CrossMessages)
          /\ Got(p) = GotAt(p, "msb_adder", reg[p].k, CrossMessages)
      BY <1>2, Zenon DEF Sent, Got
    <3> QED
      BY ONLY <3>1, Zenon DEF SentAt, GotAt
  <2>2. Sent(p)' = LiftSent(p) + CrossMessages + reg'[p].k /\ Got(p)' = LiftSent(prev(p)) + CrossMessages + reg'[p].k - 1
    <3>1. /\ Sent(p)' = SentAt(p, "msb_ripple", reg'[p].k, CrossMessages)
          /\ Got(p)' = GotAt(p, "msb_ripple", reg'[p].k, CrossMessages)
      BY <1>1, <1>5, Fixed, Zenon DEF Sent, Got
    <3> QED
      BY ONLY <3>1, Zenon DEF SentAt, GotAt
  <2>3. BackSent(p)' = BackSent(p) + 0 /\ BackGot(p)' = BackGot(p) + 0
    BY <1>1, <1>2, <1>5, SMTT(30), Z3 DEF BackSent, BackGot, Injected
  <2>4. Sent(p)' = Sent(p) + 1 /\ Got(p)' = Got(p) + 1
    BY ONLY <1>6, <1>3, <2>1, <2>2, SMTT(30)
  <2> QED
    BY <2>1, <2>3, <2>4, Zenon DEF Moves
<1>9. Kind(p, next(p), Sent(p) + 1) = "VecRing64"
  <2>1. /\ LiftSent(p) + CrossMessages + 1 + 1 \in Nat /\ LiftSent(p) + CrossMessages + 1 + 1 > 1
        /\ \/ LiftSent(p) + CrossMessages + 1 + 1 <= K + 2
           \/ LiftSent(p) + CrossMessages < LiftSent(p) + CrossMessages + 1 + 1 /\ LiftSent(p) + CrossMessages + 1 + 1 < LiftSent(p) + CrossMessages + 2 * K
    BY ONLY <1>6, SMTT(30)
  <2> QED
    BY <1>8, <2>1, KindOfWords, Zenon
<1>10. ChannelStep(p)
  BY <1>1, <1>2, <1>3, <1>8, <1>9, AndRound, ZenonT(30)
<1>11. pc[p] # "failed" /\ pc'[p] # "failed"
  BY <1>2, <1>5, Zenon
<1> QED
  BY <1>1, <1>3, <1>4, <1>5, <1>7, <1>10, <1>11, StepOf, Zenon

\* One more round of the ripple of the comparison.
LEMMA StepGetMsbRound ==
    ASSUME LockStep, NEW p \in Role, get_msb_round(p)
    PROVE  LockStep'
<1>1. /\ Arrived(p, "msb_ripple") /\ UNCHANGED <<input, late>> /\ pc' = pc
      /\ reg[p].k < 2 * K - 1 /\ RippleRound(p)
  BY Zenon DEF get_msb_round, LastRound
<1>2. pc[p] = "msb_ripple" /\ RoleOf(p) /\ "msb_ripple" \in FromPrev /\ DOMAIN pc = Role
  BY <1>1, Here, Zenon DEF Arrived, FromPrev
<1>3. PICK z : /\ HasLen(z, 1) /\ SendAnd(Taken(p), p, z)
               /\ DOMAIN reg' = Role /\ DOMAIN reg'[p] = Fields
               /\ reg'[p].k = reg[p].k + 1
               /\ \A q \in Role \ {p} : reg'[q] = reg[q]
  BY <1>1, RoundRegisters, Zenon
<1>4. /\ DOMAIN prf' = Role /\ DOMAIN prf'[p] = {"my", "prev"}
      /\ prf'[p].my = prf[p].my + 2 /\ prf'[p].prev = prf[p].prev + 2
      /\ \A q \in Role \ {p} : prf'[q] = prf[q]
  BY <1>3, OneAnd, Zenon
<1>5. DOMAIN pc' = Role /\ pc'[p] = "msb_ripple" /\ \A q \in Role \ {p} : Quiet(q)
  <2>1. DOMAIN pc' = Role /\ pc'[p] = "msb_ripple" /\ \A q \in Role \ {p} : pc'[q] = pc[q]
    BY <1>1, <1>2, ZenonT(30)
  <2> QED
    BY <2>1, <1>3, <1>4, Zenon DEF Quiet
<1>6. /\ K \in Nat /\ K >= 3 /\ Items \in Nat /\ Lifts \in Nat /\ CrossMessages \in {0, 1}
      /\ LiftSent(p) \in Nat /\ LiftSent(p) >= 1 /\ LiftSent(prev(p)) \in Nat
      /\ InjectMy(p) \in Nat /\ InjectPrev(p) \in Nat
      /\ LiftDrawn \in Nat /\ MsbDrawn(InjectMy(p)) \in Nat /\ MsbDrawn(InjectPrev(p)) \in Nat
  BY Numbers, Zenon
<1>k. reg[p].k \in Nat /\ reg[p].k >= 2 /\ reg[p].k <= 2 * K - 1 /\ reg[p].k < 2 * K - 1
  <2>1. reg[p].k \in 2 .. 2 * K - 1
    BY <1>2, Zenon DEF RoleOf
  <2> QED
    BY ONLY <1>1, <1>6, <2>1, SMTT(30)
<1>7. RoleOf(p)'
  <2>1. prf[p].my = MsbDrawn(InjectMy(p)) + 4 * K - 2 + 2 * (reg[p].k - 1) /\ prf[p].prev = MsbDrawn(InjectPrev(p)) + 4 * K - 2 + 2 * (reg[p].k - 1)
    <3>1. /\ prf[p].my = DrawnAt("msb_ripple", reg[p].k, Items, LiftDrawn, MsbDrawn(InjectMy(p)), InjectMy(p))
          /\ prf[p].prev = DrawnAt("msb_ripple", reg[p].k, Items, LiftDrawn, MsbDrawn(InjectPrev(p)), InjectPrev(p))
      BY <1>2, Zenon DEF RoleOf, Drawn
    <3> QED
      BY ONLY <3>1, SMTT(30) DEF DrawnAt
  <2>2. /\ Drawn(p, InjectMy(p))' = MsbDrawn(InjectMy(p)) + 4 * K - 2 + 2 * (reg'[p].k - 1)
        /\ Drawn(p, InjectPrev(p))' = MsbDrawn(InjectPrev(p)) + 4 * K - 2 + 2 * (reg'[p].k - 1)
    <3>1. /\ Drawn(p, InjectMy(p))' = DrawnAt("msb_ripple", reg'[p].k, Items, LiftDrawn, MsbDrawn(InjectMy(p)), InjectMy(p))
          /\ Drawn(p, InjectPrev(p))' = DrawnAt("msb_ripple", reg'[p].k, Items, LiftDrawn, MsbDrawn(InjectPrev(p)), InjectPrev(p))
      BY <1>1, <1>5, Fixed, ZenonT(30) DEF Drawn
    <3> QED
      BY ONLY <3>1, SMTT(30) DEF DrawnAt
  <2>3. prf'[p].my = Drawn(p, InjectMy(p))' /\ prf'[p].prev = Drawn(p, InjectPrev(p))'
    BY ONLY <1>6, <1>k, <1>3, <1>4, <2>1, <2>2, SMTT(30)
  <2>5. Items' = Items /\ Lifts' = Lifts
    BY <1>1, Fixed, Zenon
  <2>6. reg'[p].k \in 2 .. 2 * K - 1
    BY ONLY <1>6, <1>k, <1>3, SMTT(30)
  <2> QED
    BY <1>1, <1>3, <1>4, <1>5, <2>3, <2>5, <2>6, Zenon DEF RoleOf, Labels, Local
<1>8. Moves(p, 1, 0, 1, 0) /\ Sent(p) = LiftSent(p) + CrossMessages + reg[p].k
  <2>1. Sent(p) = LiftSent(p) + CrossMessages + reg[p].k /\ Got(p) = LiftSent(prev(p)) + CrossMessages + reg[p].k - 1
    <3>1. /\ Sent(p) = SentAt(p, "msb_ripple", reg[p].k, CrossMessages)
          /\ Got(p) = GotAt(p, "msb_ripple", reg[p].k, CrossMessages)
      BY <1>2, Zenon DEF Sent, Got
    <3> QED
      BY ONLY <3>1, Zenon DEF SentAt, GotAt
  <2>2. Sent(p)' = LiftSent(p) + CrossMessages + reg'[p].k /\ Got(p)' = LiftSent(prev(p)) + CrossMessages + reg'[p].k - 1
    <3>1. /\ Sent(p)' = SentAt(p, "msb_ripple", reg'[p].k, CrossMessages)
          /\ Got(p)' = GotAt(p, "msb_ripple", reg'[p].k, CrossMessages)
      BY <1>1, <1>5, Fixed, Zenon DEF Sent, Got
    <3> QED
      BY ONLY <3>1, SMTT(30) DEF SentAt, GotAt
  <2>3. BackSent(p)' = BackSent(p) + 0 /\ BackGot(p)' = BackGot(p) + 0
    BY SMTT(30), Z3, <1>1, <1>2, <1>5 DEF BackSent, BackGot, Injected
  <2>4. Sent(p)' = Sent(p) + 1 /\ Got(p)' = Got(p) + 1
    BY ONLY <1>6, <1>k, <1>3, <2>1, <2>2, SMTT(30)
  <2> QED
    BY <2>1, <2>3, <2>4, Zenon DEF Moves
<1>9. Kind(p, next(p), Sent(p) + 1) = "VecRing64"
  <2>1. /\ LiftSent(p) + CrossMessages + reg[p].k + 1 \in Nat /\ LiftSent(p) + CrossMessages + reg[p].k + 1 > 1
        /\ \/ LiftSent(p) + CrossMessages + reg[p].k + 1 <= K + 2
           \/ LiftSent(p) + CrossMessages < LiftSent(p) + CrossMessages + reg[p].k + 1 /\ LiftSent(p) + CrossMessages + reg[p].k + 1 < LiftSent(p) + CrossMessages + 2 * K
    BY ONLY <1>6, <1>k, SMTT(30)
  <2> QED
    BY <1>8, <2>1, KindOfWords, Zenon
<1>10. ChannelStep(p)
  BY <1>1, <1>2, <1>3, <1>8, <1>9, AndRound, ZenonT(30)
<1>11. pc[p] # "failed" /\ pc'[p] # "failed"
  BY <1>2, <1>5, Zenon
<1> QED
  BY <1>1, <1>3, <1>4, <1>5, <1>7, <1>10, <1>11, StepOf, Zenon

\* It takes those of the previous role: galois_ring_to_rep3.
LEMMA StepRep3Receive ==
    ASSUME LockStep, NEW p \in Role, galois_ring_to_rep3_receive(p)
    PROVE  LockStep'
<1> DEFINE v == [j \in DOMAIN reg[p].dots |-> [a |-> reg[p].dots[j], b |-> Message(p)[j]]]
<1>1. /\ Arrived(p, "rep3") /\ UNCHANGED <<input, late>> /\ Goto(p, "lift")
      /\ TRUE
      /\ reg' = [reg EXCEPT ![p].dots = v]
      /\ chan' = Taken(p)
      /\ IF input.op = "is_match" THEN UNCHANGED prf ELSE get_owner_session(p)
  BY Zenon DEF galois_ring_to_rep3_receive
<1>a. pc[p] = "rep3" /\ chan[prev(p)][p] # <<>> /\ Taken(p) = Take(chan, prev(p), p)
  <2>1. "rep3" \in FromPrev
    BY Zenon DEF FromPrev
  <2> QED
    BY <1>1, <2>1, ArrivedPrev, Zenon
<1>2. pc[p] = "rep3" /\ RoleOf(p) /\ DOMAIN pc = Role
  BY <1>a, Here, Zenon
<1>b. HasLen(v, Items)
  <2>1. HasLen(reg[p].dots, Items)
    BY <1>2, Zenon DEF RoleOf
  <2> QED
    BY <2>1, Zenon DEF HasLen
<1> HIDE DEF v
<1>3. /\ DOMAIN reg' = Role /\ DOMAIN reg'[p] = Fields
      /\ reg'[p].dots = v
      /\ \A q \in Role \ {p} : reg'[q] = reg[q]
  BY <1>1, Here, Zenon DEF Fields
<1>4. /\ DOMAIN prf' = Role /\ DOMAIN prf'[p] = {"my", "prev"}
      /\ prf'[p].my = LiftDrawn /\ prf'[p].prev = LiftDrawn
      /\ \A q \in Role \ {p} : prf'[q] = prf[q]
  <2>1. prf[p].my = Items /\ prf[p].prev = Items
    <3>1. /\ prf[p].my = DrawnAt("rep3", reg[p].k, Items, LiftDrawn, MsbDrawn(InjectMy(p)), InjectMy(p))
          /\ prf[p].prev = DrawnAt("rep3", reg[p].k, Items, LiftDrawn, MsbDrawn(InjectPrev(p)), InjectPrev(p))
      BY <1>2, Zenon DEF RoleOf, Drawn
    <3> QED
      BY ONLY <3>1, SMTT(30) DEF DrawnAt
  <2> QED
    BY SMTT(30), Z3, <1>1, <2>1, Here DEF get_owner_session, LiftDrawn
<1>5. DOMAIN pc' = Role /\ pc'[p] = "lift" /\ \A q \in Role \ {p} : Quiet(q)
  <2>1. DOMAIN pc' = Role /\ pc'[p] = "lift" /\ \A q \in Role \ {p} : pc'[q] = pc[q]
    BY <1>1, Labelled, Zenon
  <2> QED
    BY <2>1, <1>3, <1>4, Zenon DEF Quiet
<1>6. /\ K \in Nat /\ K >= 3 /\ Items \in Nat /\ Lifts \in Nat /\ CrossMessages \in {0, 1}
      /\ LiftSent(p) \in Nat /\ LiftSent(p) >= 1 /\ LiftSent(prev(p)) \in Nat
      /\ InjectMy(p) \in Nat /\ InjectPrev(p) \in Nat
      /\ LiftDrawn \in Nat /\ MsbDrawn(InjectMy(p)) \in Nat /\ MsbDrawn(InjectPrev(p)) \in Nat
  BY Numbers, Zenon
<1>7. RoleOf(p)'
  <2>1. prf[p].my = Items /\ prf[p].prev = Items
    <3>1. /\ prf[p].my = DrawnAt("rep3", reg[p].k, Items, LiftDrawn, MsbDrawn(InjectMy(p)), InjectMy(p))
          /\ prf[p].prev = DrawnAt("rep3", reg[p].k, Items, LiftDrawn, MsbDrawn(InjectPrev(p)), InjectPrev(p))
      BY <1>2, Zenon DEF RoleOf, Drawn
    <3> QED
      BY ONLY <3>1, SMTT(30) DEF DrawnAt
  <2>2. /\ Drawn(p, InjectMy(p))' = LiftDrawn
        /\ Drawn(p, InjectPrev(p))' = LiftDrawn
    <3>1. /\ Drawn(p, InjectMy(p))' = DrawnAt("lift", reg'[p].k, Items, LiftDrawn, MsbDrawn(InjectMy(p)), InjectMy(p))
          /\ Drawn(p, InjectPrev(p))' = DrawnAt("lift", reg'[p].k, Items, LiftDrawn, MsbDrawn(InjectPrev(p)), InjectPrev(p))
      BY <1>1, <1>5, Fixed, Zenon DEF Drawn
    <3> QED
      BY ONLY <3>1, Zenon DEF DrawnAt
  <2>3. prf'[p].my = Drawn(p, InjectMy(p))' /\ prf'[p].prev = Drawn(p, InjectPrev(p))'
    BY ONLY <1>6, <1>3, <1>4, <2>1, <2>2, Zenon
  <2>4. HasLen(reg'[p].dots, Items)
    BY <1>b, <1>3, Zenon DEF RoleOf
  <2>5. Items' = Items /\ Lifts' = Lifts
    BY <1>1, Fixed, Zenon
  <2> QED
    BY <1>1, <1>6, <1>3, <1>4, <1>5, <2>3, <2>4, <2>5, Zenon DEF RoleOf, Labels, Local
<1>8. Moves(p, 0, 0, 1, 0) /\ Sent(p) = 1
  <2>1. Sent(p) = 1 /\ Got(p) = 0
    <3>1. /\ Sent(p) = SentAt(p, "rep3", reg[p].k, CrossMessages)
          /\ Got(p) = GotAt(p, "rep3", reg[p].k, CrossMessages)
      BY <1>2, Zenon DEF Sent, Got
    <3> QED
      BY ONLY <3>1, Zenon DEF SentAt, GotAt
  <2>2. Sent(p)' = 1 /\ Got(p)' = 1
    <3>1. /\ Sent(p)' = SentAt(p, "lift", reg'[p].k, CrossMessages)
          /\ Got(p)' = GotAt(p, "lift", reg'[p].k, CrossMessages)
      BY <1>1, <1>5, Fixed, Zenon DEF Sent, Got
    <3> QED
      BY ONLY <3>1, Zenon DEF SentAt, GotAt
  <2>3. BackSent(p)' = BackSent(p) + 0 /\ BackGot(p)' = BackGot(p) + 0
    BY <1>1, <1>2, <1>5, SMTT(30), Z3 DEF BackSent, BackGot, Injected
  <2>4. Sent(p)' = Sent(p) + 0 /\ Got(p)' = Got(p) + 1
    BY ONLY <1>6, <1>3, <2>1, <2>2, SMTT(30)
  <2> QED
    BY <2>1, <2>3, <2>4, Zenon DEF Moves
<1>10. ChannelStep(p)
  BY <1>1, <1>a, <1>8, TakePrev, Zenon
<1>11. pc[p] # "failed" /\ pc'[p] # "failed"
  BY <1>2, <1>5, Zenon
<1> QED
  BY <1>1, <1>3, <1>4, <1>5, <1>7, <1>10, <1>11, StepOf, ZenonT(30)

\* The cross product of the previous role arrives.
LEMMA StepCrossCompare ==
    ASSUME LockStep, NEW p \in Role, cross_compare(p)
    PROVE  LockStep'
<1> DEFINE v == <<[a |-> reg[p].z, b |-> Message(p)]>>
<1>1. /\ Arrived(p, "cross") /\ UNCHANGED <<input, late>> /\ Goto(p, "msb")
      /\ TRUE
      /\ reg' = [reg EXCEPT ![p].xs = v]
      /\ chan' = Taken(p)
      /\ prf' = prf
  BY Zenon DEF cross_compare
<1>a. pc[p] = "cross" /\ chan[prev(p)][p] # <<>> /\ Taken(p) = Take(chan, prev(p), p)
  <2>1. "cross" \in FromPrev
    BY Zenon DEF FromPrev
  <2> QED
    BY <1>1, <2>1, ArrivedPrev, Zenon
<1>2. pc[p] = "cross" /\ RoleOf(p) /\ DOMAIN pc = Role
  BY <1>a, Here, Zenon
<1> HIDE DEF v
<1>3. /\ DOMAIN reg' = Role /\ DOMAIN reg'[p] = Fields
      /\ \A q \in Role \ {p} : reg'[q] = reg[q]
  BY <1>1, Here, Zenon DEF Fields
<1>4. /\ DOMAIN prf' = Role /\ DOMAIN prf'[p] = {"my", "prev"}
      /\ prf'[p].my = prf[p].my /\ prf'[p].prev = prf[p].prev
      /\ \A q \in Role \ {p} : prf'[q] = prf[q]
  BY <1>1, Here, Zenon
<1>5. DOMAIN pc' = Role /\ pc'[p] = "msb" /\ \A q \in Role \ {p} : Quiet(q)
  <2>1. DOMAIN pc' = Role /\ pc'[p] = "msb" /\ \A q \in Role \ {p} : pc'[q] = pc[q]
    BY <1>1, Labelled, Zenon
  <2> QED
    BY <2>1, <1>3, <1>4, Zenon DEF Quiet
<1>6. /\ K \in Nat /\ K >= 3 /\ Items \in Nat /\ Lifts \in Nat /\ CrossMessages \in {0, 1}
      /\ LiftSent(p) \in Nat /\ LiftSent(p) >= 1 /\ LiftSent(prev(p)) \in Nat
      /\ InjectMy(p) \in Nat /\ InjectPrev(p) \in Nat
      /\ LiftDrawn \in Nat /\ MsbDrawn(InjectMy(p)) \in Nat /\ MsbDrawn(InjectPrev(p)) \in Nat
  BY Numbers, Zenon
<1>k. CrossMessages = 1
  BY <1>1, <1>2, <1>3, <1>6, Zenon DEF RoleOf, CrossMessages
<1>7. RoleOf(p)'
  <2>1. prf[p].my = MsbDrawn(InjectMy(p)) /\ prf[p].prev = MsbDrawn(InjectPrev(p))
    <3>1. /\ prf[p].my = DrawnAt("cross", reg[p].k, Items, LiftDrawn, MsbDrawn(InjectMy(p)), InjectMy(p))
          /\ prf[p].prev = DrawnAt("cross", reg[p].k, Items, LiftDrawn, MsbDrawn(InjectPrev(p)), InjectPrev(p))
      BY <1>2, Zenon DEF RoleOf, Drawn
    <3> QED
      BY ONLY <3>1, SMTT(30) DEF DrawnAt
  <2>2. /\ Drawn(p, InjectMy(p))' = MsbDrawn(InjectMy(p))
        /\ Drawn(p, InjectPrev(p))' = MsbDrawn(InjectPrev(p))
    <3>1. /\ Drawn(p, InjectMy(p))' = DrawnAt("msb", reg'[p].k, Items, LiftDrawn, MsbDrawn(InjectMy(p)), InjectMy(p))
          /\ Drawn(p, InjectPrev(p))' = DrawnAt("msb", reg'[p].k, Items, LiftDrawn, MsbDrawn(InjectPrev(p)), InjectPrev(p))
      BY <1>1, <1>5, Fixed, Zenon DEF Drawn
    <3> QED
      BY ONLY <3>1, Zenon DEF DrawnAt
  <2>3. prf'[p].my = Drawn(p, InjectMy(p))' /\ prf'[p].prev = Drawn(p, InjectPrev(p))'
    BY ONLY <1>6, <1>k, <1>3, <1>4, <2>1, <2>2, Zenon
  <2>5. Items' = Items /\ Lifts' = Lifts
    BY <1>1, Fixed, Zenon
  <2> QED
    BY <1>1, <1>6, <1>k, <1>3, <1>4, <1>5, <2>3, <2>5, Zenon DEF RoleOf, Labels, Local
<1>8. Moves(p, 0, 0, 1, 0) /\ Sent(p) = LiftSent(p) + 1
  <2>1. Sent(p) = LiftSent(p) + 1 /\ Got(p) = LiftSent(prev(p))
    <3>1. /\ Sent(p) = SentAt(p, "cross", reg[p].k, CrossMessages)
          /\ Got(p) = GotAt(p, "cross", reg[p].k, CrossMessages)
      BY <1>2, Zenon DEF Sent, Got
    <3> QED
      BY ONLY <3>1, Zenon DEF SentAt, GotAt
  <2>2. Sent(p)' = LiftSent(p) + CrossMessages /\ Got(p)' = LiftSent(prev(p)) + CrossMessages
    <3>1. /\ Sent(p)' = SentAt(p, "msb", reg'[p].k, CrossMessages)
          /\ Got(p)' = GotAt(p, "msb", reg'[p].k, CrossMessages)
      BY <1>1, <1>5, Fixed, Zenon DEF Sent, Got
    <3> QED
      BY ONLY <3>1, Zenon DEF SentAt, GotAt
  <2>3. BackSent(p)' = BackSent(p) + 0 /\ BackGot(p)' = BackGot(p) + 0
    BY <1>1, <1>2, <1>5, SMTT(30), Z3 DEF BackSent, BackGot, Injected
  <2>4. Sent(p)' = Sent(p) + 0 /\ Got(p)' = Got(p) + 1
    BY ONLY <1>6, <1>k, <1>3, <2>1, <2>2, SMTT(30)
  <2> QED
    BY <2>1, <2>3, <2>4, Zenon DEF Moves
<1>10. ChannelStep(p)
  BY <1>1, <1>a, <1>8, TakePrev, Zenon
<1>11. pc[p] # "failed" /\ pc'[p] # "failed"
  BY <1>2, <1>5, Zenon
<1> QED
  BY <1>1, <1>3, <1>4, <1>5, <1>7, <1>10, <1>11, StepOf, ZenonT(30)

\* The bit is opened and the operation is over.
LEMMA StepOpenBin ==
    ASSUME LockStep, NEW p \in Role, open_bin(p)
    PROVE  LockStep'
<1> DEFINE v == OpenedBit(reg[p].c.a[1], reg[p].c.b[1], Message(p))
<1>1. /\ Arrived(p, "open") /\ UNCHANGED <<input, late>> /\ Goto(p, "done")
      /\ TRUE
      /\ reg' = [reg EXCEPT ![p].bit = v]
      /\ chan' = Taken(p)
      /\ prf' = prf
  BY Zenon DEF open_bin
<1>a. pc[p] = "open" /\ chan[prev(p)][p] # <<>> /\ Taken(p) = Take(chan, prev(p), p)
  <2>1. "open" \in FromPrev
    BY Zenon DEF FromPrev
  <2> QED
    BY <1>1, <2>1, ArrivedPrev, Zenon
<1>2. pc[p] = "open" /\ RoleOf(p) /\ DOMAIN pc = Role
  BY <1>a, Here, Zenon
<1> HIDE DEF v
<1>3. /\ DOMAIN reg' = Role /\ DOMAIN reg'[p] = Fields
      /\ \A q \in Role \ {p} : reg'[q] = reg[q]
  BY <1>1, Here, Zenon DEF Fields
<1>4. /\ DOMAIN prf' = Role /\ DOMAIN prf'[p] = {"my", "prev"}
      /\ prf'[p].my = prf[p].my /\ prf'[p].prev = prf[p].prev
      /\ \A q \in Role \ {p} : prf'[q] = prf[q]
  BY <1>1, Here, Zenon
<1>5. DOMAIN pc' = Role /\ pc'[p] = "done" /\ \A q \in Role \ {p} : Quiet(q)
  <2>1. DOMAIN pc' = Role /\ pc'[p] = "done" /\ \A q \in Role \ {p} : pc'[q] = pc[q]
    BY <1>1, Labelled, Zenon
  <2> QED
    BY <2>1, <1>3, <1>4, Zenon DEF Quiet
<1>6. /\ K \in Nat /\ K >= 3 /\ Items \in Nat /\ Lifts \in Nat /\ CrossMessages \in {0, 1}
      /\ LiftSent(p) \in Nat /\ LiftSent(p) >= 1 /\ LiftSent(prev(p)) \in Nat
      /\ InjectMy(p) \in Nat /\ InjectPrev(p) \in Nat
      /\ LiftDrawn \in Nat /\ MsbDrawn(InjectMy(p)) \in Nat /\ MsbDrawn(InjectPrev(p)) \in Nat
  BY Numbers, Zenon
<1>7. RoleOf(p)'
  <2>1. prf[p].my = MsbDrawn(InjectMy(p)) + 8 * K - 6 /\ prf[p].prev = MsbDrawn(InjectPrev(p)) + 8 * K - 6
    <3>1. /\ prf[p].my = DrawnAt("open", reg[p].k, Items, LiftDrawn, MsbDrawn(InjectMy(p)), InjectMy(p))
          /\ prf[p].prev = DrawnAt("open", reg[p].k, Items, LiftDrawn, MsbDrawn(InjectPrev(p)), InjectPrev(p))
      BY <1>2, Zenon DEF RoleOf, Drawn
    <3> QED
      BY ONLY <3>1, SMTT(30) DEF DrawnAt
  <2>2. /\ Drawn(p, InjectMy(p))' = MsbDrawn(InjectMy(p)) + 8 * K - 6
        /\ Drawn(p, InjectPrev(p))' = MsbDrawn(InjectPrev(p)) + 8 * K - 6
    <3>1. /\ Drawn(p, InjectMy(p))' = DrawnAt("done", reg'[p].k, Items, LiftDrawn, MsbDrawn(InjectMy(p)), InjectMy(p))
          /\ Drawn(p, InjectPrev(p))' = DrawnAt("done", reg'[p].k, Items, LiftDrawn, MsbDrawn(InjectPrev(p)), InjectPrev(p))
      BY <1>1, <1>5, Fixed, Zenon DEF Drawn
    <3> QED
      BY ONLY <3>1, Zenon DEF DrawnAt
  <2>3. prf'[p].my = Drawn(p, InjectMy(p))' /\ prf'[p].prev = Drawn(p, InjectPrev(p))'
    BY ONLY <1>6, <1>3, <1>4, <2>1, <2>2, Zenon
  <2>5. Items' = Items /\ Lifts' = Lifts
    BY <1>1, Fixed, Zenon
  <2> QED
    BY <1>1, <1>6, <1>3, <1>4, <1>5, <2>3, <2>5, Zenon DEF RoleOf, Labels, Local
<1>8. Moves(p, 0, 0, 1, 0) /\ Sent(p) = LiftSent(p) + CrossMessages + 2 * K
  <2>1. Sent(p) = LiftSent(p) + CrossMessages + 2 * K /\ Got(p) = LiftSent(prev(p)) + CrossMessages + 2 * K - 1
    <3>1. /\ Sent(p) = SentAt(p, "open", reg[p].k, CrossMessages)
          /\ Got(p) = GotAt(p, "open", reg[p].k, CrossMessages)
      BY <1>2, Zenon DEF Sent, Got
    <3> QED
      BY ONLY <3>1, Zenon DEF SentAt, GotAt
  <2>2. Sent(p)' = LiftSent(p) + CrossMessages + 2 * K /\ Got(p)' = LiftSent(prev(p)) + CrossMessages + 2 * K
    <3>1. /\ Sent(p)' = SentAt(p, "done", reg'[p].k, CrossMessages)
          /\ Got(p)' = GotAt(p, "done", reg'[p].k, CrossMessages)
      BY <1>1, <1>5, Fixed, Zenon DEF Sent, Got
    <3> QED
      BY ONLY <3>1, Zenon DEF SentAt, GotAt
  <2>3. BackSent(p)' = BackSent(p) + 0 /\ BackGot(p)' = BackGot(p) + 0
    BY <1>1, <1>2, <1>5, SMTT(30), Z3 DEF BackSent, BackGot, Injected
  <2>4. Sent(p)' = Sent(p) + 0 /\ Got(p)' = Got(p) + 1
    BY ONLY <1>6, <1>3, <2>1, <2>2, SMTT(30)
  <2> QED
    BY <2>1, <2>3, <2>4, Zenon DEF Moves
<1>10. ChannelStep(p)
  BY <1>1, <1>a, <1>8, TakePrev, Zenon
<1>11. pc[p] # "failed" /\ pc'[p] # "failed"
  BY <1>2, <1>5, Zenon
<1> QED
  BY <1>1, <1>3, <1>4, <1>5, <1>7, <1>10, <1>11, StepOf, ZenonT(30)

\* galois_ring_is_match goes on from the lift to the comparison.
LEMMA StepLiftAndCompare ==
    ASSUME LockStep, NEW p \in Role, lift_and_compare_threshold(p)
    PROVE  LockStep'
<1> DEFINE v == <<Minus(Times(LiftedShares(p)[1], A), mul_lift_2k(reg[p].dots[1], K))>>
<1>1. /\ pc[p] = "injected" /\ UNCHANGED <<input, late>> /\ Goto(p, "msb")
      /\ input.op = "is_match"
      /\ reg' = [reg EXCEPT ![p].xs = v]
      /\ chan' = chan
      /\ prf' = prf
  BY Zenon DEF lift_and_compare_threshold
<1>2. pc[p] = "injected" /\ RoleOf(p) /\ DOMAIN pc = Role
  BY <1>1, Here, Zenon
<1> HIDE DEF v
<1>3. /\ DOMAIN reg' = Role /\ DOMAIN reg'[p] = Fields
      /\ \A q \in Role \ {p} : reg'[q] = reg[q]
  BY <1>1, Here, Zenon DEF Fields
<1>4. /\ DOMAIN prf' = Role /\ DOMAIN prf'[p] = {"my", "prev"}
      /\ prf'[p].my = prf[p].my /\ prf'[p].prev = prf[p].prev
      /\ \A q \in Role \ {p} : prf'[q] = prf[q]
  BY <1>1, Here, Zenon
<1>5. DOMAIN pc' = Role /\ pc'[p] = "msb" /\ \A q \in Role \ {p} : Quiet(q)
  <2>1. DOMAIN pc' = Role /\ pc'[p] = "msb" /\ \A q \in Role \ {p} : pc'[q] = pc[q]
    BY <1>1, Labelled, Zenon
  <2> QED
    BY <2>1, <1>3, <1>4, Zenon DEF Quiet
<1>6. /\ K \in Nat /\ K >= 3 /\ Items \in Nat /\ Lifts \in Nat /\ CrossMessages \in {0, 1}
      /\ LiftSent(p) \in Nat /\ LiftSent(p) >= 1 /\ LiftSent(prev(p)) \in Nat
      /\ InjectMy(p) \in Nat /\ InjectPrev(p) \in Nat
      /\ LiftDrawn \in Nat /\ MsbDrawn(InjectMy(p)) \in Nat /\ MsbDrawn(InjectPrev(p)) \in Nat
  BY Numbers, Zenon
<1>k. /\ CrossMessages = 0 /\ LiftDrawn = Items
      /\ MsbDrawn(InjectMy(p)) = Items + 4 * K + InjectMy(p)
      /\ MsbDrawn(InjectPrev(p)) = Items + 4 * K + InjectPrev(p)
  BY <1>1, <1>2, <1>3, <1>6, Zenon DEF RoleOf, CrossMessages, LiftDrawn, MsbDrawn
<1>7. RoleOf(p)'
  <2>1. prf[p].my = LiftDrawn + 4 * K + InjectMy(p) /\ prf[p].prev = LiftDrawn + 4 * K + InjectPrev(p)
    <3>1. /\ prf[p].my = DrawnAt("injected", reg[p].k, Items, LiftDrawn, MsbDrawn(InjectMy(p)), InjectMy(p))
          /\ prf[p].prev = DrawnAt("injected", reg[p].k, Items, LiftDrawn, MsbDrawn(InjectPrev(p)), InjectPrev(p))
      BY <1>2, Zenon DEF RoleOf, Drawn
    <3> QED
      BY ONLY <3>1, SMTT(30) DEF DrawnAt
  <2>2. /\ Drawn(p, InjectMy(p))' = MsbDrawn(InjectMy(p))
        /\ Drawn(p, InjectPrev(p))' = MsbDrawn(InjectPrev(p))
    <3>1. /\ Drawn(p, InjectMy(p))' = DrawnAt("msb", reg'[p].k, Items, LiftDrawn, MsbDrawn(InjectMy(p)), InjectMy(p))
          /\ Drawn(p, InjectPrev(p))' = DrawnAt("msb", reg'[p].k, Items, LiftDrawn, MsbDrawn(InjectPrev(p)), InjectPrev(p))
      BY <1>1, <1>5, Fixed, Zenon DEF Drawn
    <3> QED
      BY ONLY <3>1, SMTT(30) DEF DrawnAt
  <2>3. prf'[p].my = Drawn(p, InjectMy(p))' /\ prf'[p].prev = Drawn(p, InjectPrev(p))'
    BY ONLY <1>6, <1>k, <1>3, <1>4, <2>1, <2>2, Zenon
  <2>5. Items' = Items /\ Lifts' = Lifts
    BY <1>1, Fixed, Zenon
  <2> QED
    BY <1>1, <1>6, <1>k, <1>3, <1>4, <1>5, <2>3, <2>5, Zenon DEF RoleOf, Labels, Local
<1>8. Moves(p, 0, 0, 0, 0) /\ Sent(p) = LiftSent(p)
  <2>1. Sent(p) = LiftSent(p) /\ Got(p) = LiftSent(prev(p))
    <3>1. /\ Sent(p) = SentAt(p, "injected", reg[p].k, CrossMessages)
          /\ Got(p) = GotAt(p, "injected", reg[p].k, CrossMessages)
      BY <1>2, Zenon DEF Sent, Got
    <3> QED
      BY ONLY <3>1, Zenon DEF SentAt, GotAt
  <2>2. Sent(p)' = LiftSent(p) + CrossMessages /\ Got(p)' = LiftSent(prev(p)) + CrossMessages
    <3>1. /\ Sent(p)' = SentAt(p, "msb", reg'[p].k, CrossMessages)
          /\ Got(p)' = GotAt(p, "msb", reg'[p].k, CrossMessages)
      BY <1>1, <1>5, Fixed, Zenon DEF Sent, Got
    <3> QED
      BY ONLY <3>1, SMTT(30) DEF SentAt, GotAt
  <2>3. BackSent(p)' = BackSent(p) + 0 /\ BackGot(p)' = BackGot(p) + 0
    BY <1>1, <1>2, <1>5, SMTT(30), Z3 DEF BackSent, BackGot, Injected
  <2>4. Sent(p)' = Sent(p) + 0 /\ Got(p)' = Got(p) + 0
    BY ONLY <1>6, <1>k, <1>3, <2>1, <2>2, Zenon
  <2> QED
    BY <2>1, <2>3, <2>4, Zenon DEF Moves
<1>10. ChannelStep(p)
  BY <1>1, <1>8, LocalStep, Zenon
<1>11. pc[p] # "failed" /\ pc'[p] # "failed"
  BY <1>2, <1>5, Zenon
<1> QED
  BY <1>1, <1>3, <1>4, <1>5, <1>7, <1>10, <1>11, StepOf, Zenon

\* The store keeps the lifted distances.
LEMMA StepLiftDistances ==
    ASSUME LockStep, NEW p \in Role, lift_distances(p)
    PROVE  LockStep'
<1> DEFINE v == [j \in DOMAIN reg[p].xs |->
                 add_assign_const_role(LiftedShares(p)[j], U32 - 2^(K - 1), p, U32)]
<1>1. /\ pc[p] = "injected" /\ UNCHANGED <<input, late>> /\ Goto(p, "ready")
      /\ input.op # "is_match"
      /\ reg' = [reg EXCEPT ![p].dots = v]
      /\ chan' = chan
      /\ get_owner_session(p)
  BY Zenon DEF lift_distances
<1>2. pc[p] = "injected" /\ RoleOf(p) /\ DOMAIN pc = Role
  BY <1>1, Here, Zenon
<1> HIDE DEF v
<1>3. /\ DOMAIN reg' = Role /\ DOMAIN reg'[p] = Fields
      /\ \A q \in Role \ {p} : reg'[q] = reg[q]
  BY <1>1, Here, Zenon DEF Fields
<1>4. /\ DOMAIN prf' = Role /\ DOMAIN prf'[p] = {"my", "prev"}
      /\ prf'[p].my = 0 /\ prf'[p].prev = 0
      /\ \A q \in Role \ {p} : prf'[q] = prf[q]
  BY <1>1, Here, Zenon DEF get_owner_session
<1>5. DOMAIN pc' = Role /\ pc'[p] = "ready" /\ \A q \in Role \ {p} : Quiet(q)
  <2>1. DOMAIN pc' = Role /\ pc'[p] = "ready" /\ \A q \in Role \ {p} : pc'[q] = pc[q]
    BY <1>1, Labelled, Zenon
  <2> QED
    BY <2>1, <1>3, <1>4, Zenon DEF Quiet
<1>6. /\ K \in Nat /\ K >= 3 /\ Items \in Nat /\ Lifts \in Nat /\ CrossMessages \in {0, 1}
      /\ LiftSent(p) \in Nat /\ LiftSent(p) >= 1 /\ LiftSent(prev(p)) \in Nat
      /\ InjectMy(p) \in Nat /\ InjectPrev(p) \in Nat
      /\ LiftDrawn \in Nat /\ MsbDrawn(InjectMy(p)) \in Nat /\ MsbDrawn(InjectPrev(p)) \in Nat
  BY Numbers, Zenon
<1>7. RoleOf(p)'
  <2>1. prf[p].my = LiftDrawn + 4 * K + InjectMy(p) /\ prf[p].prev = LiftDrawn + 4 * K + InjectPrev(p)
    <3>1. /\ prf[p].my = DrawnAt("injected", reg[p].k, Items, LiftDrawn, MsbDrawn(InjectMy(p)), InjectMy(p))
          /\ prf[p].prev = DrawnAt("injected", reg[p].k, Items, LiftDrawn, MsbDrawn(InjectPrev(p)), InjectPrev(p))
      BY <1>2, Zenon DEF RoleOf, Drawn
    <3> QED
      BY ONLY <3>1, SMTT(30) DEF DrawnAt
  <2>2. /\ Drawn(p, InjectMy(p))' = 0
        /\ Drawn(p, InjectPrev(p))' = 0
    <3>1. /\ Drawn(p, InjectMy(p))' = DrawnAt("ready", reg'[p].k, Items, LiftDrawn, MsbDrawn(InjectMy(p)), InjectMy(p))
          /\ Drawn(p, InjectPrev(p))' = DrawnAt("ready", reg'[p].k, Items, LiftDrawn, MsbDrawn(InjectPrev(p)), InjectPrev(p))
      BY <1>1, <1>5, Fixed, Zenon DEF Drawn
    <3> QED
      BY ONLY <3>1, Zenon DEF DrawnAt
  <2>3. prf'[p].my = Drawn(p, InjectMy(p))' /\ prf'[p].prev = Drawn(p, InjectPrev(p))'
    BY ONLY <1>6, <1>3, <1>4, <2>1, <2>2, Zenon
  <2>5. Items' = Items /\ Lifts' = Lifts
    BY <1>1, Fixed, Zenon
  <2> QED
    BY <1>1, <1>6, <1>3, <1>4, <1>5, <2>3, <2>5, Zenon DEF RoleOf, Labels, Local
<1>8. Moves(p, 0, 0, 0, 0) /\ Sent(p) = LiftSent(p)
  <2>1. Sent(p) = LiftSent(p) /\ Got(p) = LiftSent(prev(p))
    <3>1. /\ Sent(p) = SentAt(p, "injected", reg[p].k, CrossMessages)
          /\ Got(p) = GotAt(p, "injected", reg[p].k, CrossMessages)
      BY <1>2, Zenon DEF Sent, Got
    <3> QED
      BY ONLY <3>1, SMTT(30) DEF SentAt, GotAt
  <2>2. Sent(p)' = LiftSent(p) /\ Got(p)' = LiftSent(prev(p))
    <3>1. /\ Sent(p)' = SentAt(p, "ready", reg'[p].k, CrossMessages)
          /\ Got(p)' = GotAt(p, "ready", reg'[p].k, CrossMessages)
      BY <1>1, <1>5, Fixed, Zenon DEF Sent, Got
    <3> QED
      BY ONLY <3>1, Zenon DEF SentAt, GotAt
  <2>3. BackSent(p)' = BackSent(p) + 0 /\ BackGot(p)' = BackGot(p) + 0
    BY <1>1, <1>2, <1>5, SMTT(30), Z3 DEF BackSent, BackGot, Injected
  <2>4. Sent(p)' = Sent(p) + 0 /\ Got(p)' = Got(p) + 0
    BY ONLY <1>6, <1>3, <2>1, <2>2, SMTT(30)
  <2> QED
    BY <2>1, <2>3, <2>4, Zenon DEF Moves
<1>10. ChannelStep(p)
  BY <1>1, <1>8, LocalStep, Zenon
<1>11. pc[p] # "failed" /\ pc'[p] # "failed"
  BY <1>2, <1>5, Zenon
<1> QED
  BY <1>1, <1>3, <1>4, <1>5, <1>7, <1>10, <1>11, StepOf, Zenon

\* The store compares a distance with the threshold, in a new session.
LEMMA StepCompareThreshold ==
    ASSUME LockStep, NEW p \in Role, compare_threshold(p)
    PROVE  LockStep'
<1> DEFINE v == <<Minus(Times(reg[p].dots[2], A), Times(reg[p].dots[1], B))>>
<1>1. /\ pc[p] = "ready" /\ UNCHANGED <<input, late>> /\ Goto(p, "msb")
      /\ input.op = "threshold"
      /\ reg' = [reg EXCEPT ![p].xs = v]
      /\ chan' = chan
      /\ prf' = prf
  BY Zenon DEF compare_threshold
<1>2. pc[p] = "ready" /\ RoleOf(p) /\ DOMAIN pc = Role
  BY <1>1, Here, Zenon
<1> HIDE DEF v
<1>3. /\ DOMAIN reg' = Role /\ DOMAIN reg'[p] = Fields
      /\ \A q \in Role \ {p} : reg'[q] = reg[q]
  BY <1>1, Here, Zenon DEF Fields
<1>4. /\ DOMAIN prf' = Role /\ DOMAIN prf'[p] = {"my", "prev"}
      /\ prf'[p].my = prf[p].my /\ prf'[p].prev = prf[p].prev
      /\ \A q \in Role \ {p} : prf'[q] = prf[q]
  BY <1>1, Here, Zenon
<1>5. DOMAIN pc' = Role /\ pc'[p] = "msb" /\ \A q \in Role \ {p} : Quiet(q)
  <2>1. DOMAIN pc' = Role /\ pc'[p] = "msb" /\ \A q \in Role \ {p} : pc'[q] = pc[q]
    BY <1>1, Labelled, Zenon
  <2> QED
    BY <2>1, <1>3, <1>4, Zenon DEF Quiet
<1>6. /\ K \in Nat /\ K >= 3 /\ Items \in Nat /\ Lifts \in Nat /\ CrossMessages \in {0, 1}
      /\ LiftSent(p) \in Nat /\ LiftSent(p) >= 1 /\ LiftSent(prev(p)) \in Nat
      /\ InjectMy(p) \in Nat /\ InjectPrev(p) \in Nat
      /\ LiftDrawn \in Nat /\ MsbDrawn(InjectMy(p)) \in Nat /\ MsbDrawn(InjectPrev(p)) \in Nat
  BY Numbers, Zenon
<1>k. CrossMessages = 0 /\ MsbDrawn(InjectMy(p)) = 0 /\ MsbDrawn(InjectPrev(p)) = 0
  BY <1>1, <1>2, <1>3, <1>6, Zenon DEF RoleOf, CrossMessages, MsbDrawn
<1>7. RoleOf(p)'
  <2>1. prf[p].my = 0 /\ prf[p].prev = 0
    <3>1. /\ prf[p].my = DrawnAt("ready", reg[p].k, Items, LiftDrawn, MsbDrawn(InjectMy(p)), InjectMy(p))
          /\ prf[p].prev = DrawnAt("ready", reg[p].k, Items, LiftDrawn, MsbDrawn(InjectPrev(p)), InjectPrev(p))
      BY <1>2, Zenon DEF RoleOf, Drawn
    <3> QED
      BY ONLY <3>1, SMTT(30) DEF DrawnAt
  <2>2. /\ Drawn(p, InjectMy(p))' = MsbDrawn(InjectMy(p))
        /\ Drawn(p, InjectPrev(p))' = MsbDrawn(InjectPrev(p))
    <3>1. /\ Drawn(p, InjectMy(p))' = DrawnAt("msb", reg'[p].k, Items, LiftDrawn, MsbDrawn(InjectMy(p)), InjectMy(p))
          /\ Drawn(p, InjectPrev(p))' = DrawnAt("msb", reg'[p].k, Items, LiftDrawn, MsbDrawn(InjectPrev(p)), InjectPrev(p))
      BY <1>1, <1>5, Fixed, Zenon DEF Drawn
    <3> QED
      BY ONLY <3>1, SMTT(30) DEF DrawnAt
  <2>3. prf'[p].my = Drawn(p, InjectMy(p))' /\ prf'[p].prev = Drawn(p, InjectPrev(p))'
    BY ONLY <1>6, <1>k, <1>3, <1>4, <2>1, <2>2, Zenon
  <2>5. Items' = Items /\ Lifts' = Lifts
    BY <1>1, Fixed, Zenon
  <2> QED
    BY <1>1, <1>6, <1>k, <1>3, <1>4, <1>5, <2>3, <2>5, Zenon DEF RoleOf, Labels, Local
<1>8. Moves(p, 0, 0, 0, 0) /\ Sent(p) = LiftSent(p)
  <2>1. Sent(p) = LiftSent(p) /\ Got(p) = LiftSent(prev(p))
    <3>1. /\ Sent(p) = SentAt(p, "ready", reg[p].k, CrossMessages)
          /\ Got(p) = GotAt(p, "ready", reg[p].k, CrossMessages)
      BY <1>2, Zenon DEF Sent, Got
    <3> QED
      BY ONLY <3>1, Zenon DEF SentAt, GotAt
  <2>2. Sent(p)' = LiftSent(p) + CrossMessages /\ Got(p)' = LiftSent(prev(p)) + CrossMessages
    <3>1. /\ Sent(p)' = SentAt(p, "msb", reg'[p].k, CrossMessages)
          /\ Got(p)' = GotAt(p, "msb", reg'[p].k, CrossMessages)
      BY <1>1, <1>5, Fixed, Zenon DEF Sent, Got
    <3> QED
      BY ONLY <3>1, SMTT(30) DEF SentAt, GotAt
  <2>3. BackSent(p)' = BackSent(p) + 0 /\ BackGot(p)' = BackGot(p) + 0
    BY <1>1, <1>2, <1>5, SMTT(30), Z3 DEF BackSent, BackGot, Injected
  <2>4. Sent(p)' = Sent(p) + 0 /\ Got(p)' = Got(p) + 0
    BY ONLY <1>6, <1>k, <1>3, <2>1, <2>2, Zenon
  <2> QED
    BY <2>1, <2>3, <2>4, Zenon DEF Moves
<1>10. ChannelStep(p)
  BY <1>1, <1>8, LocalStep, Zenon
<1>11. pc[p] # "failed" /\ pc'[p] # "failed"
  BY <1>2, <1>5, Zenon
<1> QED
  BY <1>1, <1>3, <1>4, <1>5, <1>7, <1>10, <1>11, StepOf, Zenon

\* The two carries of every lane.
LEMMA CarriesHaveLen ==
    ASSUME LockStep, NEW p \in Role, pc[p] = "inject"
    PROVE  HasLen(CarryBits(p), 2 * Lifts) /\ DOMAIN CarryBits(p) = 1 .. 2 * Lifts
           /\ Len(CarryBits(p)) = 2 * Lifts
<1>1. HasLen(reg[p].xs, Lifts) /\ Lifts \in Nat /\ 2 * Lifts \in Nat
  BY Here, Sizes DEF RoleOf
<1>2. Len(reg[p].xs) = Lifts
  BY <1>1, Lengths, Zenon
<1>3. HasLen(CarryBits(p), 2 * Lifts)
  BY <1>2, Zenon DEF CarryBits, HasLen
<1> QED
  BY <1>1, <1>3, Lengths, Zenon

\* The lift sends the products of its full adder.
LEMMA StepLift ==
    ASSUME LockStep, NEW p \in Role, lift(p)
    PROVE  LockStep'
<1>1. /\ pc[p] = "lift" /\ UNCHANGED <<input, late>> /\ Goto(p, "lift_adder")
      /\ FullAdder(p, PreLift(p), K, K)
  BY Zenon DEF lift
<1>2. pc[p] = "lift" /\ RoleOf(p) /\ DOMAIN pc = Role
  BY <1>1, Here, Zenon
<1>a. K \in Nat /\ K \in Nat /\ K <= K
  BY WidthAssumption
<1>b. HasLen(PreLift(p), Lifts)
  <2>1. HasLen(reg[p].dots, Items)
    BY <1>1, <1>2, Zenon DEF RoleOf
  <2>2. DOMAIN reg[p].dots = 1 .. Items
    BY <2>1, Zenon DEF HasLen
  <2>3. CASE input.op = "is_match"
    BY <2>3, OneHasLen, Zenon DEF PreLift, Lifts
  <2>4. CASE input.op # "is_match"
    BY <2>2, <2>4, Zenon DEF PreLift, Lifts, HasLen
  <2> QED
    BY <2>3, <2>4, Zenon
<1>3. PICK z : /\ HasLen(z, K) /\ SendAnd(chan, p, z)
               /\ DOMAIN reg' = Role /\ DOMAIN reg'[p] = Fields /\ reg'[p].xs = PreLift(p)
               /\ \A q \in Role \ {p} : reg'[q] = reg[q]
  BY <1>1, <1>a, Adder, Zenon
<1>4. /\ chan' = Send(chan, p, next(p), Value("VecRing64", z))
      /\ DOMAIN prf' = Role /\ DOMAIN prf'[p] = {"my", "prev"}
      /\ prf'[p].my = prf[p].my + 2 * (K) /\ prf'[p].prev = prf[p].prev + 2 * (K)
      /\ \A q \in Role \ {p} : prf'[q] = prf[q]
  BY <1>3, <1>a, AndSent, Zenon
<1>5. DOMAIN pc' = Role /\ pc'[p] = "lift_adder" /\ \A q \in Role \ {p} : Quiet(q)
  <2>1. DOMAIN pc' = Role /\ pc'[p] = "lift_adder" /\ \A q \in Role \ {p} : pc'[q] = pc[q]
    BY <1>1, Labelled, ZenonT(30)
  <2> QED
    BY <2>1, <1>3, <1>4, Zenon DEF Quiet
<1>6. /\ K \in Nat /\ K >= 3 /\ Items \in Nat /\ Lifts \in Nat /\ CrossMessages \in {0, 1}
      /\ LiftSent(p) \in Nat /\ LiftSent(p) >= 1 /\ LiftSent(prev(p)) \in Nat
      /\ InjectMy(p) \in Nat /\ InjectPrev(p) \in Nat
      /\ LiftDrawn \in Nat /\ MsbDrawn(InjectMy(p)) \in Nat /\ MsbDrawn(InjectPrev(p)) \in Nat
  BY Numbers, Zenon
<1>7. RoleOf(p)'
  <2>1. prf[p].my = LiftDrawn /\ prf[p].prev = LiftDrawn
    <3>1. /\ prf[p].my = DrawnAt("lift", reg[p].k, Items, LiftDrawn, MsbDrawn(InjectMy(p)), InjectMy(p))
          /\ prf[p].prev = DrawnAt("lift", reg[p].k, Items, LiftDrawn, MsbDrawn(InjectPrev(p)), InjectPrev(p))
      BY <1>2, Zenon DEF RoleOf, Drawn
    <3> QED
      BY ONLY <3>1, SMTT(30) DEF DrawnAt
  <2>2. /\ Drawn(p, InjectMy(p))' = LiftDrawn + 2 * K
        /\ Drawn(p, InjectPrev(p))' = LiftDrawn + 2 * K
    <3>1. /\ Drawn(p, InjectMy(p))' = DrawnAt("lift_adder", reg'[p].k, Items, LiftDrawn, MsbDrawn(InjectMy(p)), InjectMy(p))
          /\ Drawn(p, InjectPrev(p))' = DrawnAt("lift_adder", reg'[p].k, Items, LiftDrawn, MsbDrawn(InjectPrev(p)), InjectPrev(p))
      BY <1>1, <1>5, Fixed, ZenonT(30) DEF Drawn
    <3> QED
      BY ONLY <3>1, Zenon DEF DrawnAt
  <2>3. prf'[p].my = Drawn(p, InjectMy(p))' /\ prf'[p].prev = Drawn(p, InjectPrev(p))'
    BY ONLY <1>6, <1>3, <1>4, <2>1, <2>2, Zenon
  <2>4. HasLen(reg'[p].xs, Lifts)
    BY <1>b, <1>3, Zenon DEF RoleOf
  <2>5. Items' = Items /\ Lifts' = Lifts
    BY <1>1, Fixed, Zenon
  <2> QED
    BY <1>1, <1>6, <1>3, <1>4, <1>5, <2>3, <2>4, <2>5, Zenon DEF RoleOf, Labels, Local
<1>8. Moves(p, 1, 0, 0, 0) /\ Sent(p) = 1
  <2>1. Sent(p) = 1 /\ Got(p) = 1
    <3>1. /\ Sent(p) = SentAt(p, "lift", reg[p].k, CrossMessages)
          /\ Got(p) = GotAt(p, "lift", reg[p].k, CrossMessages)
      BY <1>2, Zenon DEF Sent, Got
    <3> QED
      BY ONLY <3>1, Zenon DEF SentAt, GotAt
  <2>2. Sent(p)' = 2 /\ Got(p)' = 1
    <3>1. /\ Sent(p)' = SentAt(p, "lift_adder", reg'[p].k, CrossMessages)
          /\ Got(p)' = GotAt(p, "lift_adder", reg'[p].k, CrossMessages)
      BY <1>1, <1>5, Fixed, Zenon DEF Sent, Got
    <3> QED
      BY ONLY <3>1, Zenon DEF SentAt, GotAt
  <2>3. BackSent(p)' = BackSent(p) + 0 /\ BackGot(p)' = BackGot(p) + 0
    BY SMTT(30), Z3, <1>1, <1>2, <1>5 DEF BackSent, BackGot, Injected
  <2>4. Sent(p)' = Sent(p) + 1 /\ Got(p)' = Got(p) + 0
    BY ONLY <1>6, <1>3, <2>1, <2>2, SMTT(30)
  <2> QED
    BY <2>1, <2>3, <2>4, Zenon DEF Moves
<1>9. Kind(p, next(p), Sent(p) + 1) = "VecRing64"
  <2>1. /\ 1 + 1 \in Nat /\ 1 + 1 > 1
        /\ \/ 1 + 1 <= K + 2
           \/ LiftSent(p) + CrossMessages < 1 + 1 /\ 1 + 1 < LiftSent(p) + CrossMessages + 2 * K
    BY ONLY <1>6, SMTT(30)
  <2> QED
    BY <1>8, <2>1, KindOfWords, Zenon
<1>10. ChannelStep(p)
  <2>1. Value("VecRing64", z).type = Kind(p, next(p), Sent(p) + 1)
    BY <1>9, Zenon DEF Value
  <2> QED
    BY <1>4, <1>8, <2>1, SendNext, Zenon
<1>11. pc[p] # "failed" /\ pc'[p] # "failed"
  BY <1>2, <1>5, Zenon
<1> QED
  BY <1>1, <1>3, <1>4, <1>5, <1>7, <1>10, <1>11, StepOf, ZenonT(30)

\* The comparison sends the products of its full adder.
LEMMA StepExtractMsb ==
    ASSUME LockStep, NEW p \in Role, extract_msb(p)
    PROVE  LockStep'
<1>1. /\ pc[p] = "msb" /\ UNCHANGED <<input, late>> /\ Goto(p, "msb_adder")
      /\ FullAdder(p, reg[p].xs, 2 * K, 2 * K - 1)
  BY Zenon DEF extract_msb
<1>2. pc[p] = "msb" /\ RoleOf(p) /\ DOMAIN pc = Role
  BY <1>1, Here, Zenon
<1>a. 2 * K \in Nat /\ 2 * K - 1 \in Nat /\ 2 * K - 1 <= 2 * K
  BY WidthAssumption
<1>3. PICK z : /\ HasLen(z, 2 * K - 1) /\ SendAnd(chan, p, z)
               /\ DOMAIN reg' = Role /\ DOMAIN reg'[p] = Fields /\ reg'[p].xs = reg[p].xs
               /\ \A q \in Role \ {p} : reg'[q] = reg[q]
  BY <1>1, <1>a, Adder, Zenon
<1>4. /\ chan' = Send(chan, p, next(p), Value("VecRing64", z))
      /\ DOMAIN prf' = Role /\ DOMAIN prf'[p] = {"my", "prev"}
      /\ prf'[p].my = prf[p].my + 2 * (2 * K - 1) /\ prf'[p].prev = prf[p].prev + 2 * (2 * K - 1)
      /\ \A q \in Role \ {p} : prf'[q] = prf[q]
  BY <1>3, <1>a, AndSent, Zenon
<1>5. DOMAIN pc' = Role /\ pc'[p] = "msb_adder" /\ \A q \in Role \ {p} : Quiet(q)
  <2>1. DOMAIN pc' = Role /\ pc'[p] = "msb_adder" /\ \A q \in Role \ {p} : pc'[q] = pc[q]
    BY <1>1, Labelled, ZenonT(30)
  <2> QED
    BY <2>1, <1>3, <1>4, Zenon DEF Quiet
<1>6. /\ K \in Nat /\ K >= 3 /\ Items \in Nat /\ Lifts \in Nat /\ CrossMessages \in {0, 1}
      /\ LiftSent(p) \in Nat /\ LiftSent(p) >= 1 /\ LiftSent(prev(p)) \in Nat
      /\ InjectMy(p) \in Nat /\ InjectPrev(p) \in Nat
      /\ LiftDrawn \in Nat /\ MsbDrawn(InjectMy(p)) \in Nat /\ MsbDrawn(InjectPrev(p)) \in Nat
  BY Numbers, Zenon
<1>7. RoleOf(p)'
  <2>1. prf[p].my = MsbDrawn(InjectMy(p)) /\ prf[p].prev = MsbDrawn(InjectPrev(p))
    <3>1. /\ prf[p].my = DrawnAt("msb", reg[p].k, Items, LiftDrawn, MsbDrawn(InjectMy(p)), InjectMy(p))
          /\ prf[p].prev = DrawnAt("msb", reg[p].k, Items, LiftDrawn, MsbDrawn(InjectPrev(p)), InjectPrev(p))
      BY <1>2, Zenon DEF RoleOf, Drawn
    <3> QED
      BY ONLY <3>1, SMTT(30) DEF DrawnAt
  <2>2. /\ Drawn(p, InjectMy(p))' = MsbDrawn(InjectMy(p)) + 4 * K - 2
        /\ Drawn(p, InjectPrev(p))' = MsbDrawn(InjectPrev(p)) + 4 * K - 2
    <3>1. /\ Drawn(p, InjectMy(p))' = DrawnAt("msb_adder", reg'[p].k, Items, LiftDrawn, MsbDrawn(InjectMy(p)), InjectMy(p))
          /\ Drawn(p, InjectPrev(p))' = DrawnAt("msb_adder", reg'[p].k, Items, LiftDrawn, MsbDrawn(InjectPrev(p)), InjectPrev(p))
      BY <1>1, <1>5, Fixed, ZenonT(30) DEF Drawn
    <3> QED
      BY ONLY <3>1, Zenon DEF DrawnAt
  <2>3. prf'[p].my = Drawn(p, InjectMy(p))' /\ prf'[p].prev = Drawn(p, InjectPrev(p))'
    BY ONLY <1>6, <1>3, <1>4, <2>1, <2>2, SMTT(30)
  <2>5. Items' = Items /\ Lifts' = Lifts
    BY <1>1, Fixed, Zenon
  <2> QED
    BY <1>1, <1>6, <1>3, <1>4, <1>5, <2>3, <2>5, Zenon DEF RoleOf, Labels, Local
<1>8. Moves(p, 1, 0, 0, 0) /\ Sent(p) = LiftSent(p) + CrossMessages
  <2>1. Sent(p) = LiftSent(p) + CrossMessages /\ Got(p) = LiftSent(prev(p)) + CrossMessages
    <3>1. /\ Sent(p) = SentAt(p, "msb", reg[p].k, CrossMessages)
          /\ Got(p) = GotAt(p, "msb", reg[p].k, CrossMessages)
      BY <1>2, Zenon DEF Sent, Got
    <3> QED
      BY ONLY <3>1, Zenon DEF SentAt, GotAt
  <2>2. Sent(p)' = LiftSent(p) + CrossMessages + 1 /\ Got(p)' = LiftSent(prev(p)) + CrossMessages
    <3>1. /\ Sent(p)' = SentAt(p, "msb_adder", reg'[p].k, CrossMessages)
          /\ Got(p)' = GotAt(p, "msb_adder", reg'[p].k, CrossMessages)
      BY <1>1, <1>5, Fixed, Zenon DEF Sent, Got
    <3> QED
      BY ONLY <3>1, Zenon DEF SentAt, GotAt
  <2>3. BackSent(p)' = BackSent(p) + 0 /\ BackGot(p)' = BackGot(p) + 0
    BY SMTT(30), Z3, <1>1, <1>2, <1>5 DEF BackSent, BackGot, Injected
  <2>4. Sent(p)' = Sent(p) + 1 /\ Got(p)' = Got(p) + 0
    BY ONLY <1>6, <1>3, <2>1, <2>2, SMTT(30)
  <2> QED
    BY <2>1, <2>3, <2>4, Zenon DEF Moves
<1>9. Kind(p, next(p), Sent(p) + 1) = "VecRing64"
  <2>1. /\ LiftSent(p) + CrossMessages + 1 \in Nat /\ LiftSent(p) + CrossMessages + 1 > 1
        /\ \/ LiftSent(p) + CrossMessages + 1 <= K + 2
           \/ LiftSent(p) + CrossMessages < LiftSent(p) + CrossMessages + 1 /\ LiftSent(p) + CrossMessages + 1 < LiftSent(p) + CrossMessages + 2 * K
    BY ONLY <1>6, SMTT(30)
  <2> QED
    BY <1>8, <2>1, KindOfWords, Zenon
<1>10. ChannelStep(p)
  <2>1. Value("VecRing64", z).type = Kind(p, next(p), Sent(p) + 1)
    BY <1>9 DEF Value
  <2> QED
    BY <1>4, <1>8, <2>1, SendNext, ZenonT(30)
<1>11. pc[p] # "failed" /\ pc'[p] # "failed"
  BY <1>2, <1>5, Zenon
<1> QED
  BY <1>1, <1>3, <1>4, <1>5, <1>7, <1>10, <1>11, StepOf, ZenonT(30)

\* Two distances are compared: every role sends its cross product.
LEMMA StepCrossMul ==
    ASSUME LockStep, NEW p \in Role, cross_mul(p)
    PROVE  LockStep'
<1> DEFINE v == (gen_zero_share(p, 0, U32) + CrossProduct(reg[p].dots)) % U32
<1>1. /\ pc[p] = "ready" /\ UNCHANGED <<input, late>> /\ Goto(p, "cross")
      /\ input.op = "less_than"
      /\ reg' = [reg EXCEPT ![p].z = v]
      /\ chan' = Send(chan, p, next(p), Value("RingElement32", v))
      /\ Advance(p, 1, 1)
  BY Zenon DEF cross_mul
<1>2. pc[p] = "ready" /\ RoleOf(p) /\ DOMAIN pc = Role
  BY <1>1, Here, Zenon
<1> HIDE DEF v
<1>3. /\ DOMAIN reg' = Role /\ DOMAIN reg'[p] = Fields
      /\ \A q \in Role \ {p} : reg'[q] = reg[q]
  BY <1>1, Here, Zenon DEF Fields
<1>4. /\ DOMAIN prf' = Role /\ DOMAIN prf'[p] = {"my", "prev"}
      /\ prf'[p].my = prf[p].my + 1 /\ prf'[p].prev = prf[p].prev + 1
      /\ \A q \in Role \ {p} : prf'[q] = prf[q]
  <2>1. 1 \in Nat /\ prf' = [prf EXCEPT ![p] = [my |-> @.my + 1, prev |-> @.prev + 1]]
    BY <1>1, Zenon DEF Advance
  <2> QED
    BY <2>1, Draws, Zenon
<1>5. DOMAIN pc' = Role /\ pc'[p] = "cross" /\ \A q \in Role \ {p} : Quiet(q)
  <2>1. DOMAIN pc' = Role /\ pc'[p] = "cross" /\ \A q \in Role \ {p} : pc'[q] = pc[q]
    BY <1>1, Labelled, Zenon
  <2> QED
    BY <2>1, <1>3, <1>4, Zenon DEF Quiet
<1>6. /\ K \in Nat /\ K >= 3 /\ Items \in Nat /\ Lifts \in Nat /\ CrossMessages \in {0, 1}
      /\ LiftSent(p) \in Nat /\ LiftSent(p) >= 1 /\ LiftSent(prev(p)) \in Nat
      /\ InjectMy(p) \in Nat /\ InjectPrev(p) \in Nat
      /\ LiftDrawn \in Nat /\ MsbDrawn(InjectMy(p)) \in Nat /\ MsbDrawn(InjectPrev(p)) \in Nat
  BY Numbers, Zenon
<1>k. CrossMessages = 1 /\ MsbDrawn(InjectMy(p)) = 1 /\ MsbDrawn(InjectPrev(p)) = 1
  BY <1>1, <1>2, <1>3, <1>6, Zenon DEF RoleOf, CrossMessages, MsbDrawn
<1>7. RoleOf(p)'
  <2>1. prf[p].my = 0 /\ prf[p].prev = 0
    <3>1. /\ prf[p].my = DrawnAt("ready", reg[p].k, Items, LiftDrawn, MsbDrawn(InjectMy(p)), InjectMy(p))
          /\ prf[p].prev = DrawnAt("ready", reg[p].k, Items, LiftDrawn, MsbDrawn(InjectPrev(p)), InjectPrev(p))
      BY <1>2, Zenon DEF RoleOf, Drawn
    <3> QED
      BY ONLY <3>1, SMTT(30) DEF DrawnAt
  <2>2. /\ Drawn(p, InjectMy(p))' = MsbDrawn(InjectMy(p))
        /\ Drawn(p, InjectPrev(p))' = MsbDrawn(InjectPrev(p))
    <3>1. /\ Drawn(p, InjectMy(p))' = DrawnAt("cross", reg'[p].k, Items, LiftDrawn, MsbDrawn(InjectMy(p)), InjectMy(p))
          /\ Drawn(p, InjectPrev(p))' = DrawnAt("cross", reg'[p].k, Items, LiftDrawn, MsbDrawn(InjectPrev(p)), InjectPrev(p))
      BY <1>1, <1>5, Fixed, Zenon DEF Drawn
    <3> QED
      BY ONLY <3>1, Zenon DEF DrawnAt
  <2>3. prf'[p].my = Drawn(p, InjectMy(p))' /\ prf'[p].prev = Drawn(p, InjectPrev(p))'
    BY ONLY <1>6, <1>k, <1>3, <1>4, <2>1, <2>2, SMTT(30)
  <2>4. input'.op = "less_than"
    BY <1>1, <1>2, Zenon DEF RoleOf
  <2>5. Items' = Items /\ Lifts' = Lifts
    BY <1>1, Fixed, Zenon
  <2> QED
    BY <1>1, <1>6, <1>k, <1>3, <1>4, <1>5, <2>3, <2>4, <2>5, Zenon DEF RoleOf, Labels, Local
<1>8. Moves(p, 1, 0, 0, 0) /\ Sent(p) = LiftSent(p)
  <2>1. Sent(p) = LiftSent(p) /\ Got(p) = LiftSent(prev(p))
    <3>1. /\ Sent(p) = SentAt(p, "ready", reg[p].k, CrossMessages)
          /\ Got(p) = GotAt(p, "ready", reg[p].k, CrossMessages)
      BY <1>2, Zenon DEF Sent, Got
    <3> QED
      BY ONLY <3>1, SMTT(30) DEF SentAt, GotAt
  <2>2. Sent(p)' = LiftSent(p) + 1 /\ Got(p)' = LiftSent(prev(p))
    <3>1. /\ Sent(p)' = SentAt(p, "cross", reg'[p].k, CrossMessages)
          /\ Got(p)' = GotAt(p, "cross", reg'[p].k, CrossMessages)
      BY <1>1, <1>5, Fixed, Zenon DEF Sent, Got
    <3> QED
      BY ONLY <3>1, Zenon DEF SentAt, GotAt
  <2>3. BackSent(p)' = BackSent(p) + 0 /\ BackGot(p)' = BackGot(p) + 0
    BY <1>1, <1>2, <1>5, SMTT(30), Z3 DEF BackSent, BackGot, Injected
  <2>4. Sent(p)' = Sent(p) + 1 /\ Got(p)' = Got(p) + 0
    BY ONLY <1>6, <1>k, <1>3, <2>1, <2>2, SMTT(30)
  <2> QED
    BY <2>1, <2>3, <2>4, Zenon DEF Moves
<1>9. Kind(p, next(p), Sent(p) + 1) = "RingElement32"
  BY <1>1, <1>2, <1>6, <1>k, <1>8, Numbers DEF Kind
<1>10. ChannelStep(p)
  <2>1. Value("RingElement32", v).type = Kind(p, next(p), Sent(p) + 1)
    BY <1>9, Zenon DEF Value
  <2> QED
    BY <1>1, <1>8, <2>1, SendNext, Zenon
<1>11. pc[p] # "failed" /\ pc'[p] # "failed"
  BY <1>2, <1>5, Zenon
<1> QED
  BY <1>1, <1>3, <1>4, <1>5, <1>7, <1>10, <1>11, StepOf, ZenonT(30)

\* The sign is there and is sent to be opened.
LEMMA StepGetMsbLast ==
    ASSUME LockStep, NEW p \in Role, get_msb_last(p)
    PROVE  LockStep'
<1> DEFINE v == XorShare(XorShare(reg[p].s[2 * K], reg[p].b[2 * K - 1]), Carry(p))
<1>1. /\ Arrived(p, "msb_ripple") /\ UNCHANGED <<input, late>> /\ Goto(p, "open")
      /\ reg[p].k = 2 * K - 1
      /\ reg' = [reg EXCEPT ![p].c = v]
      /\ chan' = Send(Taken(p), p, next(p), Value("RingElementBit", v.b[1]))
      /\ prf' = prf
  BY Zenon DEF get_msb_last, LastRound
<1>a. pc[p] = "msb_ripple" /\ chan[prev(p)][p] # <<>> /\ Taken(p) = Take(chan, prev(p), p)
  <2>1. "msb_ripple" \in FromPrev
    BY Zenon DEF FromPrev
  <2> QED
    BY <1>1, <2>1, ArrivedPrev, Zenon
<1>2. pc[p] = "msb_ripple" /\ RoleOf(p) /\ DOMAIN pc = Role
  BY <1>a, Here, Zenon
<1> HIDE DEF v
<1>3. /\ DOMAIN reg' = Role /\ DOMAIN reg'[p] = Fields
      /\ \A q \in Role \ {p} : reg'[q] = reg[q]
  BY <1>1, Here, Zenon DEF Fields
<1>4. /\ DOMAIN prf' = Role /\ DOMAIN prf'[p] = {"my", "prev"}
      /\ prf'[p].my = prf[p].my /\ prf'[p].prev = prf[p].prev
      /\ \A q \in Role \ {p} : prf'[q] = prf[q]
  BY <1>1, Here, Zenon
<1>5. DOMAIN pc' = Role /\ pc'[p] = "open" /\ \A q \in Role \ {p} : Quiet(q)
  <2>1. DOMAIN pc' = Role /\ pc'[p] = "open" /\ \A q \in Role \ {p} : pc'[q] = pc[q]
    BY <1>1, Labelled, Zenon
  <2> QED
    BY <2>1, <1>3, <1>4, Zenon DEF Quiet
<1>6. /\ K \in Nat /\ K >= 3 /\ Items \in Nat /\ Lifts \in Nat /\ CrossMessages \in {0, 1}
      /\ LiftSent(p) \in Nat /\ LiftSent(p) >= 1 /\ LiftSent(prev(p)) \in Nat
      /\ InjectMy(p) \in Nat /\ InjectPrev(p) \in Nat
      /\ LiftDrawn \in Nat /\ MsbDrawn(InjectMy(p)) \in Nat /\ MsbDrawn(InjectPrev(p)) \in Nat
  BY Numbers, Zenon
<1>k. reg[p].k = 2 * K - 1
  BY <1>1, <1>2, <1>3, <1>6, Zenon DEF RoleOf
<1>7. RoleOf(p)'
  <2>1. prf[p].my = MsbDrawn(InjectMy(p)) + 4 * K - 2 + 2 * (reg[p].k - 1) /\ prf[p].prev = MsbDrawn(InjectPrev(p)) + 4 * K - 2 + 2 * (reg[p].k - 1)
    <3>1. /\ prf[p].my = DrawnAt("msb_ripple", reg[p].k, Items, LiftDrawn, MsbDrawn(InjectMy(p)), InjectMy(p))
          /\ prf[p].prev = DrawnAt("msb_ripple", reg[p].k, Items, LiftDrawn, MsbDrawn(InjectPrev(p)), InjectPrev(p))
      BY <1>2, Zenon DEF RoleOf, Drawn
    <3> QED
      BY ONLY <3>1, SMTT(30) DEF DrawnAt
  <2>2. /\ Drawn(p, InjectMy(p))' = MsbDrawn(InjectMy(p)) + 8 * K - 6
        /\ Drawn(p, InjectPrev(p))' = MsbDrawn(InjectPrev(p)) + 8 * K - 6
    <3>1. /\ Drawn(p, InjectMy(p))' = DrawnAt("open", reg'[p].k, Items, LiftDrawn, MsbDrawn(InjectMy(p)), InjectMy(p))
          /\ Drawn(p, InjectPrev(p))' = DrawnAt("open", reg'[p].k, Items, LiftDrawn, MsbDrawn(InjectPrev(p)), InjectPrev(p))
      BY <1>1, <1>5, Fixed, Zenon DEF Drawn
    <3> QED
      BY ONLY <3>1, Zenon DEF DrawnAt
  <2>3. prf'[p].my = Drawn(p, InjectMy(p))' /\ prf'[p].prev = Drawn(p, InjectPrev(p))'
    BY ONLY <1>6, <1>k, <1>3, <1>4, <2>1, <2>2, SMTT(30)
  <2>5. Items' = Items /\ Lifts' = Lifts
    BY <1>1, Fixed, Zenon
  <2> QED
    BY <1>1, <1>6, <1>k, <1>3, <1>4, <1>5, <2>3, <2>5, Zenon DEF RoleOf, Labels, Local
<1>8. Moves(p, 1, 0, 1, 0) /\ Sent(p) = LiftSent(p) + CrossMessages + reg[p].k
  <2>1. Sent(p) = LiftSent(p) + CrossMessages + reg[p].k /\ Got(p) = LiftSent(prev(p)) + CrossMessages + reg[p].k - 1
    <3>1. /\ Sent(p) = SentAt(p, "msb_ripple", reg[p].k, CrossMessages)
          /\ Got(p) = GotAt(p, "msb_ripple", reg[p].k, CrossMessages)
      BY <1>2, Zenon DEF Sent, Got
    <3> QED
      BY ONLY <3>1, SMTT(30) DEF SentAt, GotAt
  <2>2. Sent(p)' = LiftSent(p) + CrossMessages + 2 * K /\ Got(p)' = LiftSent(prev(p)) + CrossMessages + 2 * K - 1
    <3>1. /\ Sent(p)' = SentAt(p, "open", reg'[p].k, CrossMessages)
          /\ Got(p)' = GotAt(p, "open", reg'[p].k, CrossMessages)
      BY <1>1, <1>5, Fixed, Zenon DEF Sent, Got
    <3> QED
      BY ONLY <3>1, Zenon DEF SentAt, GotAt
  <2>3. BackSent(p)' = BackSent(p) + 0 /\ BackGot(p)' = BackGot(p) + 0
    BY <1>1, <1>2, <1>5, SMTT(30), Z3 DEF BackSent, BackGot, Injected
  <2>4. Sent(p)' = Sent(p) + 1 /\ Got(p)' = Got(p) + 1
    BY ONLY <1>6, <1>k, <1>3, <2>1, <2>2, SMTT(30)
  <2> QED
    BY <2>1, <2>3, <2>4, Zenon DEF Moves
<1>9. Kind(p, next(p), Sent(p) + 1) = "RingElementBit"
  BY <1>1, <1>2, <1>6, <1>k, <1>8, Numbers DEF Kind
<1>10. ChannelStep(p)
  <2>1. Value("RingElementBit", v.b[1]).type = Kind(p, next(p), Sent(p) + 1)
    BY <1>9, Zenon DEF Value
  <2> QED
    BY <1>1, <1>a, <1>8, <2>1, TakePrevSendNext, Zenon
<1>11. pc[p] # "failed" /\ pc'[p] # "failed"
  BY <1>2, <1>5, Zenon
<1> QED
  BY <1>1, <1>3, <1>4, <1>5, <1>7, <1>10, <1>11, StepOf, Zenon

\* The helper of the injection sends the masks its bits choose.
LEMMA StepHelper ==
    ASSUME LockStep, NEW p \in Role, bit_inject_ot_2round_helper(p)
    PROVE  LockStep'
<1> DEFINE bits == CarryBits(p)
           wc == [j \in DOMAIN bits |-> prev_prf(p, 3 * (j - 1) + (IF bits[j].a = 1 THEN 2 ELSE 1))]
           v == [j \in DOMAIN bits |-> [a |-> 0, b |-> prev_prf(p, 3 * (j - 1))]]
<1>1. /\ Arrived(p, "inject") /\ UNCHANGED <<input, late>> /\ Goto(p, "helper")
      /\ p = 0
      /\ reg' = [reg EXCEPT ![p].corr = v]
      /\ chan' = Send(Taken(p), p, next(p), Value("VecRing16", wc))
      /\ Advance(p, 0, 3 * Len(bits))
  BY Zenon DEF bit_inject_ot_2round_helper
<1>a. pc[p] = "inject" /\ chan[prev(p)][p] # <<>> /\ Taken(p) = Take(chan, prev(p), p)
  <2>1. "inject" \in FromPrev
    BY Zenon DEF FromPrev
  <2> QED
    BY <1>1, <2>1, ArrivedPrev, Zenon
<1>2. pc[p] = "inject" /\ RoleOf(p) /\ DOMAIN pc = Role
  BY <1>a, Here, Zenon
<1>b. DOMAIN bits = 1 .. 2 * Lifts /\ Len(bits) = 2 * Lifts /\ HasLen(bits, 2 * Lifts)
  BY <1>2, CarriesHaveLen, Zenon
<1> HIDE DEF bits, wc, v
<1>3. /\ DOMAIN reg' = Role /\ DOMAIN reg'[p] = Fields
      /\ \A q \in Role \ {p} : reg'[q] = reg[q]
  BY <1>1, Here, Zenon DEF Fields
<1>4. /\ DOMAIN prf' = Role /\ DOMAIN prf'[p] = {"my", "prev"}
      /\ prf'[p].my = prf[p].my + 0 /\ prf'[p].prev = prf[p].prev + 6 * Lifts
      /\ \A q \in Role \ {p} : prf'[q] = prf[q]
  <2>1. 0 \in Nat /\ 6 * Lifts \in Nat
    BY Sizes
  <2>2. 0 = 0 /\ 3 * Len(bits) = 6 * Lifts
    BY <1>b, Sizes
  <2>3. prf' = [prf EXCEPT ![p] = [my |-> @.my + 0, prev |-> @.prev + 6 * Lifts]]
    BY <1>1, <2>2, Zenon DEF Advance
  <2> QED
    BY <2>1, <2>3, Draws, Zenon
<1>5. DOMAIN pc' = Role /\ pc'[p] = "helper" /\ \A q \in Role \ {p} : Quiet(q)
  <2>1. DOMAIN pc' = Role /\ pc'[p] = "helper" /\ \A q \in Role \ {p} : pc'[q] = pc[q]
    BY <1>1, Labelled, Zenon
  <2> QED
    BY <2>1, <1>3, <1>4, Zenon DEF Quiet
<1>6. /\ K \in Nat /\ K >= 3 /\ Items \in Nat /\ Lifts \in Nat /\ CrossMessages \in {0, 1}
      /\ LiftSent(p) \in Nat /\ LiftSent(p) >= 1 /\ LiftSent(prev(p)) \in Nat
      /\ InjectMy(p) \in Nat /\ InjectPrev(p) \in Nat
      /\ LiftDrawn \in Nat /\ MsbDrawn(InjectMy(p)) \in Nat /\ MsbDrawn(InjectPrev(p)) \in Nat
  BY Numbers, Zenon
<1>k. p = 0 /\ LiftSent(p) = K + 3 /\ LiftSent(prev(p)) = K + 2 /\ InjectMy(p) = 0 /\ InjectPrev(p) = 6 * Lifts
  BY <1>1, <1>2, <1>3, <1>6 DEF RoleOf, LiftSent, InjectMy, InjectPrev, prev
<1>7. RoleOf(p)'
  <2>1. prf[p].my = LiftDrawn + 4 * K /\ prf[p].prev = LiftDrawn + 4 * K
    <3>1. /\ prf[p].my = DrawnAt("inject", reg[p].k, Items, LiftDrawn, MsbDrawn(InjectMy(p)), InjectMy(p))
          /\ prf[p].prev = DrawnAt("inject", reg[p].k, Items, LiftDrawn, MsbDrawn(InjectPrev(p)), InjectPrev(p))
      BY <1>2, Zenon DEF RoleOf, Drawn
    <3> QED
      BY ONLY <3>1, SMTT(30) DEF DrawnAt
  <2>2. /\ Drawn(p, InjectMy(p))' = LiftDrawn + 4 * K + InjectMy(p)
        /\ Drawn(p, InjectPrev(p))' = LiftDrawn + 4 * K + InjectPrev(p)
    <3>1. /\ Drawn(p, InjectMy(p))' = DrawnAt("helper", reg'[p].k, Items, LiftDrawn, MsbDrawn(InjectMy(p)), InjectMy(p))
          /\ Drawn(p, InjectPrev(p))' = DrawnAt("helper", reg'[p].k, Items, LiftDrawn, MsbDrawn(InjectPrev(p)), InjectPrev(p))
      BY <1>1, <1>5, Fixed, ZenonT(30) DEF Drawn
    <3> QED
      BY ONLY <3>1, Zenon DEF DrawnAt
  <2>3. prf'[p].my = Drawn(p, InjectMy(p))' /\ prf'[p].prev = Drawn(p, InjectPrev(p))'
    BY ONLY <1>6, <1>k, <1>3, <1>4, <2>1, <2>2, Zenon
  <2>5. Items' = Items /\ Lifts' = Lifts
    BY <1>1, Fixed, Zenon
  <2> QED
    BY <1>1, <1>6, <1>k, <1>3, <1>4, <1>5, <2>3, <2>5, Zenon DEF RoleOf, Labels, Local
<1>8. Moves(p, 1, 0, 1, 0) /\ Sent(p) = K + 2
  <2>1. Sent(p) = K + 2 /\ Got(p) = K + 1
    <3>1. /\ Sent(p) = SentAt(p, "inject", reg[p].k, CrossMessages)
          /\ Got(p) = GotAt(p, "inject", reg[p].k, CrossMessages)
      BY <1>2, Zenon DEF Sent, Got
    <3> QED
      BY ONLY <3>1, Zenon DEF SentAt, GotAt
  <2>2. Sent(p)' = LiftSent(p) /\ Got(p)' = K + 2
    <3>1. /\ Sent(p)' = SentAt(p, "helper", reg'[p].k, CrossMessages)
          /\ Got(p)' = GotAt(p, "helper", reg'[p].k, CrossMessages)
      BY <1>1, <1>5, Fixed, Zenon DEF Sent, Got
    <3> QED
      BY ONLY <3>1, Zenon DEF SentAt, GotAt
  <2>3. BackSent(p)' = BackSent(p) + 0 /\ BackGot(p)' = BackGot(p) + 0
    BY <1>1, <1>2, <1>5, SMTT(30), Z3 DEF BackSent, BackGot, Injected
  <2>4. Sent(p)' = Sent(p) + 1 /\ Got(p)' = Got(p) + 1
    BY ONLY <1>6, <1>k, <1>3, <2>1, <2>2, SMTT(30)
  <2> QED
    BY <2>1, <2>3, <2>4, Zenon DEF Moves
<1>9. Kind(p, next(p), Sent(p) + 1) = "VecRing16"
  BY <1>1, <1>2, <1>6, <1>k, <1>8, Numbers DEF Kind
<1>10. ChannelStep(p)
  <2>1. Value("VecRing16", wc).type = Kind(p, next(p), Sent(p) + 1)
    BY <1>9, Zenon DEF Value
  <2> QED
    BY <1>1, <1>a, <1>8, <2>1, TakePrevSendNext, ZenonT(30)
<1>11. pc[p] # "failed" /\ pc'[p] # "failed"
  BY <1>2, <1>5, Zenon
<1> QED
  BY <1>1, <1>3, <1>4, <1>5, <1>7, <1>10, <1>11, StepOf, Zenon

\* The helper takes the shares of the receiver.
LEMMA StepHelperDone ==
    ASSUME LockStep, NEW p \in Role, bit_inject_ot_2round_helper_done(p)
    PROVE  LockStep'
<1> DEFINE v == [j \in DOMAIN reg[p].corr |-> [a |-> Message(p)[j], b |-> reg[p].corr[j].b]]
<1>1. /\ Arrived(p, "helper") /\ UNCHANGED <<input, late>> /\ Goto(p, "injected")
      /\ TRUE
      /\ reg' = [reg EXCEPT ![p].corr = v]
      /\ chan' = Taken(p)
      /\ prf' = prf
  BY Zenon DEF bit_inject_ot_2round_helper_done
<1>a. pc[p] = "helper" /\ chan[next(p)][p] # <<>> /\ Taken(p) = Take(chan, next(p), p)
  <2>1. "helper" \in FromNext
    BY Zenon DEF FromNext
  <2> QED
    BY <1>1, <2>1, ArrivedNext, Zenon
<1>2. pc[p] = "helper" /\ RoleOf(p) /\ DOMAIN pc = Role
  BY <1>a, Here, Zenon
<1> HIDE DEF v
<1>3. /\ DOMAIN reg' = Role /\ DOMAIN reg'[p] = Fields
      /\ \A q \in Role \ {p} : reg'[q] = reg[q]
  BY <1>1, Here, Zenon DEF Fields
<1>4. /\ DOMAIN prf' = Role /\ DOMAIN prf'[p] = {"my", "prev"}
      /\ prf'[p].my = prf[p].my /\ prf'[p].prev = prf[p].prev
      /\ \A q \in Role \ {p} : prf'[q] = prf[q]
  BY <1>1, Here, Zenon
<1>5. DOMAIN pc' = Role /\ pc'[p] = "injected" /\ \A q \in Role \ {p} : Quiet(q)
  <2>1. DOMAIN pc' = Role /\ pc'[p] = "injected" /\ \A q \in Role \ {p} : pc'[q] = pc[q]
    BY <1>1, Labelled, Zenon
  <2> QED
    BY <2>1, <1>3, <1>4, Zenon DEF Quiet
<1>6. /\ K \in Nat /\ K >= 3 /\ Items \in Nat /\ Lifts \in Nat /\ CrossMessages \in {0, 1}
      /\ LiftSent(p) \in Nat /\ LiftSent(p) >= 1 /\ LiftSent(prev(p)) \in Nat
      /\ InjectMy(p) \in Nat /\ InjectPrev(p) \in Nat
      /\ LiftDrawn \in Nat /\ MsbDrawn(InjectMy(p)) \in Nat /\ MsbDrawn(InjectPrev(p)) \in Nat
  BY Numbers, Zenon
<1>k. p = 0 /\ LiftSent(p) = K + 3 /\ LiftSent(prev(p)) = K + 2 /\ InjectMy(p) = 0 /\ InjectPrev(p) = 6 * Lifts
  BY <1>1, <1>2, <1>3, <1>6 DEF RoleOf, LiftSent, InjectMy, InjectPrev, prev
<1>7. RoleOf(p)'
  <2>1. prf[p].my = LiftDrawn + 4 * K + InjectMy(p) /\ prf[p].prev = LiftDrawn + 4 * K + InjectPrev(p)
    <3>1. /\ prf[p].my = DrawnAt("helper", reg[p].k, Items, LiftDrawn, MsbDrawn(InjectMy(p)), InjectMy(p))
          /\ prf[p].prev = DrawnAt("helper", reg[p].k, Items, LiftDrawn, MsbDrawn(InjectPrev(p)), InjectPrev(p))
      BY <1>2, Zenon DEF RoleOf, Drawn
    <3> QED
      BY ONLY <3>1, SMTT(30) DEF DrawnAt
  <2>2. /\ Drawn(p, InjectMy(p))' = LiftDrawn + 4 * K + InjectMy(p)
        /\ Drawn(p, InjectPrev(p))' = LiftDrawn + 4 * K + InjectPrev(p)
    <3>1. /\ Drawn(p, InjectMy(p))' = DrawnAt("injected", reg'[p].k, Items, LiftDrawn, MsbDrawn(InjectMy(p)), InjectMy(p))
          /\ Drawn(p, InjectPrev(p))' = DrawnAt("injected", reg'[p].k, Items, LiftDrawn, MsbDrawn(InjectPrev(p)), InjectPrev(p))
      BY <1>1, <1>5, Fixed, ZenonT(30) DEF Drawn
    <3> QED
      BY ONLY <3>1, Zenon DEF DrawnAt
  <2>3. prf'[p].my = Drawn(p, InjectMy(p))' /\ prf'[p].prev = Drawn(p, InjectPrev(p))'
    BY ONLY <1>6, <1>k, <1>3, <1>4, <2>1, <2>2, Zenon
  <2>5. Items' = Items /\ Lifts' = Lifts
    BY <1>1, Fixed, Zenon
  <2> QED
    BY <1>1, <1>6, <1>k, <1>3, <1>4, <1>5, <2>3, <2>5, Zenon DEF RoleOf, Labels, Local
<1>8. Moves(p, 0, 0, 0, 1) /\ Sent(p) = LiftSent(p)
  <2>1. Sent(p) = LiftSent(p) /\ Got(p) = K + 2
    <3>1. /\ Sent(p) = SentAt(p, "helper", reg[p].k, CrossMessages)
          /\ Got(p) = GotAt(p, "helper", reg[p].k, CrossMessages)
      BY <1>2, Zenon DEF Sent, Got
    <3> QED
      BY ONLY <3>1, Zenon DEF SentAt, GotAt
  <2>2. Sent(p)' = LiftSent(p) /\ Got(p)' = LiftSent(prev(p))
    <3>1. /\ Sent(p)' = SentAt(p, "injected", reg'[p].k, CrossMessages)
          /\ Got(p)' = GotAt(p, "injected", reg'[p].k, CrossMessages)
      BY <1>1, <1>5, Fixed, Zenon DEF Sent, Got
    <3> QED
      BY ONLY <3>1, Zenon DEF SentAt, GotAt
  <2>3. BackSent(p)' = BackSent(p) + 0 /\ BackGot(p)' = BackGot(p) + 1
    BY <1>1, <1>2, <1>5, SMTT(30), Z3 DEF BackSent, BackGot, Injected, RoleOf
  <2>4. Sent(p)' = Sent(p) + 0 /\ Got(p)' = Got(p) + 0
    BY ONLY <1>6, <1>k, <1>3, <2>1, <2>2, SMTT(30)
  <2> QED
    BY <2>1, <2>3, <2>4, Zenon DEF Moves
<1>10. ChannelStep(p)
  BY <1>1, <1>a, <1>8, TakeNext, Zenon
<1>11. pc[p] # "failed" /\ pc'[p] # "failed"
  BY <1>2, <1>5, Zenon
<1> QED
  BY <1>1, <1>3, <1>4, <1>5, <1>7, <1>10, <1>11, StepOf, ZenonT(30)

\* The sender sends both outcomes of every bit, masked.
LEMMA StepSender ==
    ASSUME LockStep, NEW p \in Role, bit_inject_ot_2round_sender(p)
    PROVE  LockStep'
<1> DEFINE bits == CarryBits(p)
           c(j) == my_prf(p, 3 * (j - 1)) + prev_prf(p, j - 1)
           xor(j) == (bits[j].a + bits[j].b) % 2
           m0 == [j \in DOMAIN bits |-> XorWord((xor(j) - c(j)) % U16, my_prf(p, 3 * (j - 1) + 1))]
           m1 == [j \in DOMAIN bits |-> XorWord((1 - xor(j) - c(j)) % U16, my_prf(p, 3 * (j - 1) + 2))]
           v == [j \in DOMAIN bits |-> [a |-> my_prf(p, 3 * (j - 1)), b |-> prev_prf(p, j - 1)]]
<1>1. /\ Arrived(p, "inject") /\ UNCHANGED <<input, late>> /\ Goto(p, "injected")
      /\ p = 2
      /\ reg' = [reg EXCEPT ![p].corr = v]
      /\ chan' = Send(Taken(p), p, prev(p), Value("Vec", <<m0, m1>>))
      /\ Advance(p, 3 * Len(bits), Len(bits))
  BY Zenon DEF bit_inject_ot_2round_sender
<1>a. pc[p] = "inject" /\ chan[prev(p)][p] # <<>> /\ Taken(p) = Take(chan, prev(p), p)
  <2>1. "inject" \in FromPrev
    BY DEF FromPrev
  <2> QED
    BY <1>1, <2>1, ArrivedPrev, ZenonT(30)
<1>2. pc[p] = "inject" /\ RoleOf(p) /\ DOMAIN pc = Role
  BY <1>a, Here, Zenon
<1>b. DOMAIN bits = 1 .. 2 * Lifts /\ Len(bits) = 2 * Lifts /\ HasLen(bits, 2 * Lifts)
  BY <1>2, CarriesHaveLen, Zenon
<1> HIDE DEF bits, m0, m1, v
<1>3. /\ DOMAIN reg' = Role /\ DOMAIN reg'[p] = Fields
      /\ \A q \in Role \ {p} : reg'[q] = reg[q]
  BY <1>1, Here, Zenon DEF Fields
<1>4. /\ DOMAIN prf' = Role /\ DOMAIN prf'[p] = {"my", "prev"}
      /\ prf'[p].my = prf[p].my + 6 * Lifts /\ prf'[p].prev = prf[p].prev + 2 * Lifts
      /\ \A q \in Role \ {p} : prf'[q] = prf[q]
  <2>1. 6 * Lifts \in Nat /\ 2 * Lifts \in Nat
    BY Sizes
  <2>2. 3 * Len(bits) = 6 * Lifts /\ Len(bits) = 2 * Lifts
    BY <1>b, Sizes
  <2>3. prf' = [prf EXCEPT ![p] = [my |-> @.my + 6 * Lifts, prev |-> @.prev + 2 * Lifts]]
    BY <1>1, <2>2, Zenon DEF Advance
  <2> QED
    BY <2>1, <2>3, Draws, Zenon
<1>5. DOMAIN pc' = Role /\ pc'[p] = "injected" /\ \A q \in Role \ {p} : Quiet(q)
  <2>1. DOMAIN pc' = Role /\ pc'[p] = "injected" /\ \A q \in Role \ {p} : pc'[q] = pc[q]
    BY <1>1, Labelled, Zenon
  <2> QED
    BY <2>1, <1>3, <1>4, Zenon DEF Quiet
<1>6. /\ K \in Nat /\ K >= 3 /\ Items \in Nat /\ Lifts \in Nat /\ CrossMessages \in {0, 1}
      /\ LiftSent(p) \in Nat /\ LiftSent(p) >= 1 /\ LiftSent(prev(p)) \in Nat
      /\ InjectMy(p) \in Nat /\ InjectPrev(p) \in Nat
      /\ LiftDrawn \in Nat /\ MsbDrawn(InjectMy(p)) \in Nat /\ MsbDrawn(InjectPrev(p)) \in Nat
  BY Numbers, Zenon
<1>k. p = 2 /\ LiftSent(p) = K + 2 /\ LiftSent(prev(p)) = K + 2 /\ InjectMy(p) = 6 * Lifts /\ InjectPrev(p) = 2 * Lifts
  BY <1>1, <1>2, <1>3, <1>6 DEF RoleOf, LiftSent, InjectMy, InjectPrev, prev
<1>7. RoleOf(p)'
  <2>1. prf[p].my = LiftDrawn + 4 * K /\ prf[p].prev = LiftDrawn + 4 * K
    <3>1. /\ prf[p].my = DrawnAt("inject", reg[p].k, Items, LiftDrawn, MsbDrawn(InjectMy(p)), InjectMy(p))
          /\ prf[p].prev = DrawnAt("inject", reg[p].k, Items, LiftDrawn, MsbDrawn(InjectPrev(p)), InjectPrev(p))
      BY <1>2, Zenon DEF RoleOf, Drawn
    <3> QED
      BY ONLY <3>1, SMTT(30) DEF DrawnAt
  <2>2. /\ Drawn(p, InjectMy(p))' = LiftDrawn + 4 * K + InjectMy(p)
        /\ Drawn(p, InjectPrev(p))' = LiftDrawn + 4 * K + InjectPrev(p)
    <3>1. /\ Drawn(p, InjectMy(p))' = DrawnAt("injected", reg'[p].k, Items, LiftDrawn, MsbDrawn(InjectMy(p)), InjectMy(p))
          /\ Drawn(p, InjectPrev(p))' = DrawnAt("injected", reg'[p].k, Items, LiftDrawn, MsbDrawn(InjectPrev(p)), InjectPrev(p))
      BY <1>1, <1>5, Fixed, ZenonT(30) DEF Drawn
    <3> QED
      BY ONLY <3>1, SMTT(30) DEF DrawnAt
  <2>3. prf'[p].my = Drawn(p, InjectMy(p))' /\ prf'[p].prev = Drawn(p, InjectPrev(p))'
    BY ONLY <1>6, <1>k, <1>3, <1>4, <2>1, <2>2, Zenon
  <2>5. Items' = Items /\ Lifts' = Lifts
    BY <1>1, Fixed, Zenon
  <2> QED
    BY <1>1, <1>6, <1>k, <1>3, <1>4, <1>5, <2>3, <2>5, Zenon DEF RoleOf, Labels, Local
<1>8. Moves(p, 0, 1, 1, 0) /\ Sent(p) = K + 2
  <2>1. Sent(p) = K + 2 /\ Got(p) = K + 1
    <3>1. /\ Sent(p) = SentAt(p, "inject", reg[p].k, CrossMessages)
          /\ Got(p) = GotAt(p, "inject", reg[p].k, CrossMessages)
      BY <1>2, Zenon DEF Sent, Got
    <3> QED
      BY ONLY <3>1, SMTT(30) DEF SentAt, GotAt
  <2>2. Sent(p)' = LiftSent(p) /\ Got(p)' = LiftSent(prev(p))
    <3>1. /\ Sent(p)' = SentAt(p, "injected", reg'[p].k, CrossMessages)
          /\ Got(p)' = GotAt(p, "injected", reg'[p].k, CrossMessages)
      BY <1>1, <1>5, Fixed, Zenon DEF Sent, Got
    <3> QED
      BY ONLY <3>1, SMTT(30) DEF SentAt, GotAt
  <2>3. BackSent(p)' = BackSent(p) + 1 /\ BackGot(p)' = BackGot(p) + 0
    BY <1>1, <1>2, <1>5, SMTT(30), Z3 DEF BackSent, BackGot, Injected
  <2>4. Sent(p)' = Sent(p) + 0 /\ Got(p)' = Got(p) + 1
    BY ONLY <1>6, <1>k, <1>3, <2>1, <2>2, SMTT(30), Z3
  <2> QED
    BY <2>1, <2>3, <2>4, ZenonT(30) DEF Moves
<1>9. Kind(p, prev(p), BackSent(p) + 1) = "Vec"
  BY <1>1, <1>2, Ring, Zenon DEF Kind, RoleOf
<1>10. ChannelStep(p)
  <2>1. Value("Vec", <<m0, m1>>).type = Kind(p, prev(p), BackSent(p) + 1)
    BY <1>9, Zenon DEF Value
  <2> QED
    BY <1>1, <1>a, <1>8, <2>1, TakePrevSendPrev, ZenonT(30)
<1>11. pc[p] # "failed" /\ pc'[p] # "failed"
  BY <1>2, <1>5, Zenon
<1> QED
  BY <1>1, <1>3, <1>4, <1>5, <1>7, <1>10, <1>11, StepOf, ZenonT(30)

\* The receiver takes the last carries and begins to wait.
LEMMA StepInject ==
    ASSUME LockStep, NEW p \in Role, bit_inject_ot_2round(p)
    PROVE  LockStep'
<1>1. /\ Arrived(p, "inject") /\ UNCHANGED <<input, late>> /\ Goto(p, "receiver")
      /\ p = 1
      /\ reg' = [reg EXCEPT ![p].corr = CarryBits(p)]
      /\ chan' = Taken(p)
      /\ prf' = prf
  BY Zenon DEF bit_inject_ot_2round
<1>a. pc[p] = "inject" /\ chan[prev(p)][p] # <<>> /\ Taken(p) = Take(chan, prev(p), p)
  <2>1. "inject" \in FromPrev
    BY DEF FromPrev
  <2> QED
    BY <1>1, <2>1, ArrivedPrev, Zenon
<1>2. pc[p] = "inject" /\ RoleOf(p) /\ DOMAIN pc = Role
  BY <1>a, Here, Zenon
<1>b. DOMAIN CarryBits(p) = 1 .. 2 * Lifts /\ Len(CarryBits(p)) = 2 * Lifts /\ HasLen(CarryBits(p), 2 * Lifts)
  BY <1>2, CarriesHaveLen, Zenon
<1>3. /\ DOMAIN reg' = Role /\ DOMAIN reg'[p] = Fields
      /\ reg'[p].corr = CarryBits(p)
      /\ \A q \in Role \ {p} : reg'[q] = reg[q]
  BY <1>1, Here, Zenon DEF Fields
<1>4. /\ DOMAIN prf' = Role /\ DOMAIN prf'[p] = {"my", "prev"}
      /\ prf'[p].my = prf[p].my /\ prf'[p].prev = prf[p].prev
      /\ \A q \in Role \ {p} : prf'[q] = prf[q]
  BY <1>1, Here, Zenon
<1>5. DOMAIN pc' = Role /\ pc'[p] = "receiver" /\ \A q \in Role \ {p} : Quiet(q)
  <2>1. DOMAIN pc' = Role /\ pc'[p] = "receiver" /\ \A q \in Role \ {p} : pc'[q] = pc[q]
    BY <1>1, Labelled, Zenon
  <2> QED
    BY <2>1, <1>3, <1>4, Zenon DEF Quiet
<1>6. /\ K \in Nat /\ K >= 3 /\ Items \in Nat /\ Lifts \in Nat /\ CrossMessages \in {0, 1}
      /\ LiftSent(p) \in Nat /\ LiftSent(p) >= 1 /\ LiftSent(prev(p)) \in Nat
      /\ InjectMy(p) \in Nat /\ InjectPrev(p) \in Nat
      /\ LiftDrawn \in Nat /\ MsbDrawn(InjectMy(p)) \in Nat /\ MsbDrawn(InjectPrev(p)) \in Nat
  BY Numbers, Zenon
<1>k. p = 1
  BY <1>1, <1>2, <1>3, <1>6, Zenon DEF RoleOf
<1>7. RoleOf(p)'
  <2>1. prf[p].my = LiftDrawn + 4 * K /\ prf[p].prev = LiftDrawn + 4 * K
    <3>1. /\ prf[p].my = DrawnAt("inject", reg[p].k, Items, LiftDrawn, MsbDrawn(InjectMy(p)), InjectMy(p))
          /\ prf[p].prev = DrawnAt("inject", reg[p].k, Items, LiftDrawn, MsbDrawn(InjectPrev(p)), InjectPrev(p))
      BY <1>2, Zenon DEF RoleOf, Drawn
    <3> QED
      BY ONLY <3>1, SMTT(30) DEF DrawnAt
  <2>2. /\ Drawn(p, InjectMy(p))' = LiftDrawn + 4 * K
        /\ Drawn(p, InjectPrev(p))' = LiftDrawn + 4 * K
    <3>1. /\ Drawn(p, InjectMy(p))' = DrawnAt("receiver", reg'[p].k, Items, LiftDrawn, MsbDrawn(InjectMy(p)), InjectMy(p))
          /\ Drawn(p, InjectPrev(p))' = DrawnAt("receiver", reg'[p].k, Items, LiftDrawn, MsbDrawn(InjectPrev(p)), InjectPrev(p))
      BY <1>1, <1>5, Fixed, Zenon DEF Drawn
    <3> QED
      BY ONLY <3>1, Zenon DEF DrawnAt
  <2>3. prf'[p].my = Drawn(p, InjectMy(p))' /\ prf'[p].prev = Drawn(p, InjectPrev(p))'
    BY ONLY <1>6, <1>k, <1>3, <1>4, <2>1, <2>2, Zenon
  <2>4. HasLen(reg'[p].corr, 2 * Lifts)
    BY <1>b, <1>3, Zenon DEF RoleOf
  <2>5. Items' = Items /\ Lifts' = Lifts
    BY <1>1, Fixed, Zenon
  <2> QED
    BY <1>1, <1>6, <1>k, <1>3, <1>4, <1>5, <2>3, <2>4, <2>5, Zenon DEF RoleOf, Labels, Local
<1>8. Moves(p, 0, 0, 1, 0) /\ Sent(p) = K + 2
  <2>1. Sent(p) = K + 2 /\ Got(p) = K + 1
    <3>1. /\ Sent(p) = SentAt(p, "inject", reg[p].k, CrossMessages)
          /\ Got(p) = GotAt(p, "inject", reg[p].k, CrossMessages)
      BY <1>2, Zenon DEF Sent, Got
    <3> QED
      BY ONLY <3>1, SMTT(30) DEF SentAt, GotAt
  <2>2. Sent(p)' = K + 2 /\ Got(p)' = K + 2
    <3>1. /\ Sent(p)' = SentAt(p, "receiver", reg'[p].k, CrossMessages)
          /\ Got(p)' = GotAt(p, "receiver", reg'[p].k, CrossMessages)
      BY <1>1, <1>5, Fixed, Zenon DEF Sent, Got
    <3> QED
      BY ONLY <3>1, Zenon DEF SentAt, GotAt
  <2>3. BackSent(p)' = BackSent(p) + 0 /\ BackGot(p)' = BackGot(p) + 0
    BY <1>1, <1>2, <1>5, SMTT(30), Z3 DEF BackSent, BackGot, Injected
  <2>4. Sent(p)' = Sent(p) + 0 /\ Got(p)' = Got(p) + 1
    BY ONLY <1>6, <1>k, <1>3, <2>1, <2>2, SMTT(30)
  <2> QED
    BY <2>1, <2>3, <2>4, Zenon DEF Moves
<1>10. ChannelStep(p)
  BY <1>1, <1>a, <1>8, TakePrev, ZenonT(30)
<1>11. pc[p] # "failed" /\ pc'[p] # "failed"
  BY <1>2, <1>5, Zenon
<1> QED
  BY <1>1, <1>3, <1>4, <1>5, <1>7, <1>10, <1>11, StepOf, ZenonT(30)

\* The receiver takes the two masked outcomes.
LEMMA StepReceiverM ==
    ASSUME LockStep, NEW p \in Role, bit_inject_ot_2round_receiver_m(p)
    PROVE  LockStep'
<1>1. /\ Arrived(p, "receiver") /\ UNCHANGED <<input, late>> /\ Goto(p, "receiver_wc")
      /\ TRUE
      /\ reg' = [reg EXCEPT ![p].m = Message(p)]
      /\ chan' = Taken(p)
      /\ prf' = prf
  BY Zenon DEF bit_inject_ot_2round_receiver_m
<1>a. pc[p] = "receiver" /\ chan[next(p)][p] # <<>> /\ Taken(p) = Take(chan, next(p), p)
  <2>1. "receiver" \in FromNext
    BY Zenon DEF FromNext
  <2> QED
    BY <1>1, <2>1, ArrivedNext, Zenon
<1>2. pc[p] = "receiver" /\ RoleOf(p) /\ DOMAIN pc = Role
  BY <1>a, Here, Zenon
<1>3. /\ DOMAIN reg' = Role /\ DOMAIN reg'[p] = Fields
      /\ reg'[p].corr = reg[p].corr
      /\ \A q \in Role \ {p} : reg'[q] = reg[q]
  BY <1>1, Here, Zenon DEF Fields
<1>4. /\ DOMAIN prf' = Role /\ DOMAIN prf'[p] = {"my", "prev"}
      /\ prf'[p].my = prf[p].my /\ prf'[p].prev = prf[p].prev
      /\ \A q \in Role \ {p} : prf'[q] = prf[q]
  BY <1>1, Here, Zenon
<1>5. DOMAIN pc' = Role /\ pc'[p] = "receiver_wc" /\ \A q \in Role \ {p} : Quiet(q)
  <2>1. DOMAIN pc' = Role /\ pc'[p] = "receiver_wc" /\ \A q \in Role \ {p} : pc'[q] = pc[q]
    BY <1>1, Labelled, Zenon
  <2> QED
    BY <2>1, <1>3, <1>4, Zenon DEF Quiet
<1>6. /\ K \in Nat /\ K >= 3 /\ Items \in Nat /\ Lifts \in Nat /\ CrossMessages \in {0, 1}
      /\ LiftSent(p) \in Nat /\ LiftSent(p) >= 1 /\ LiftSent(prev(p)) \in Nat
      /\ InjectMy(p) \in Nat /\ InjectPrev(p) \in Nat
      /\ LiftDrawn \in Nat /\ MsbDrawn(InjectMy(p)) \in Nat /\ MsbDrawn(InjectPrev(p)) \in Nat
  BY Numbers, Zenon
<1>k. p = 1
  BY <1>1, <1>2, <1>3, <1>6, Zenon DEF RoleOf
<1>7. RoleOf(p)'
  <2>1. prf[p].my = LiftDrawn + 4 * K /\ prf[p].prev = LiftDrawn + 4 * K
    <3>1. /\ prf[p].my = DrawnAt("receiver", reg[p].k, Items, LiftDrawn, MsbDrawn(InjectMy(p)), InjectMy(p))
          /\ prf[p].prev = DrawnAt("receiver", reg[p].k, Items, LiftDrawn, MsbDrawn(InjectPrev(p)), InjectPrev(p))
      BY <1>2, Zenon DEF RoleOf, Drawn
    <3> QED
      BY ONLY <3>1, SMTT(30) DEF DrawnAt
  <2>2. /\ Drawn(p, InjectMy(p))' = LiftDrawn + 4 * K
        /\ Drawn(p, InjectPrev(p))' = LiftDrawn + 4 * K
    <3>1. /\ Drawn(p, InjectMy(p))' = DrawnAt("receiver_wc", reg'[p].k, Items, LiftDrawn, MsbDrawn(InjectMy(p)), InjectMy(p))
          /\ Drawn(p, InjectPrev(p))' = DrawnAt("receiver_wc", reg'[p].k, Items, LiftDrawn, MsbDrawn(InjectPrev(p)), InjectPrev(p))
      BY <1>1, <1>5, Fixed, ZenonT(30) DEF Drawn
    <3> QED
      BY ONLY <3>1, Zenon DEF DrawnAt
  <2>3. prf'[p].my = Drawn(p, InjectMy(p))' /\ prf'[p].prev = Drawn(p, InjectPrev(p))'
    BY ONLY <1>6, <1>k, <1>3, <1>4, <2>1, <2>2, Zenon
  <2>4. HasLen(reg[p].corr, 2 * Lifts)
    BY <1>1, <1>2, Zenon DEF RoleOf
  <2>5. Items' = Items /\ Lifts' = Lifts
    BY <1>1, Fixed, Zenon
  <2> QED
    BY <1>1, <1>6, <1>k, <1>3, <1>4, <1>5, <2>3, <2>4, <2>5, Zenon DEF RoleOf, Labels, Local
<1>8. Moves(p, 0, 0, 0, 1) /\ Sent(p) = K + 2
  <2>1. Sent(p) = K + 2 /\ Got(p) = K + 2
    <3>1. /\ Sent(p) = SentAt(p, "receiver", reg[p].k, CrossMessages)
          /\ Got(p) = GotAt(p, "receiver", reg[p].k, CrossMessages)
      BY <1>2, Zenon DEF Sent, Got
    <3> QED
      BY ONLY <3>1, Zenon DEF SentAt, GotAt
  <2>2. Sent(p)' = K + 2 /\ Got(p)' = K + 2
    <3>1. /\ Sent(p)' = SentAt(p, "receiver_wc", reg'[p].k, CrossMessages)
          /\ Got(p)' = GotAt(p, "receiver_wc", reg'[p].k, CrossMessages)
      BY <1>1, <1>5, Fixed, Zenon DEF Sent, Got
    <3> QED
      BY ONLY <3>1, Zenon DEF SentAt, GotAt
  <2>3. BackSent(p)' = BackSent(p) + 0 /\ BackGot(p)' = BackGot(p) + 1
    BY <1>1, <1>2, <1>5, SMTT(30), Z3 DEF BackSent, BackGot, Injected, RoleOf
  <2>4. Sent(p)' = Sent(p) + 0 /\ Got(p)' = Got(p) + 0
    BY ONLY <1>6, <1>k, <1>3, <2>1, <2>2, SMTT(30)
  <2> QED
    BY <2>1, <2>3, <2>4, Zenon DEF Moves
<1>10. ChannelStep(p)
  BY <1>1, <1>a, <1>8, TakeNext, ZenonT(30)
<1>11. pc[p] # "failed" /\ pc'[p] # "failed"
  BY <1>2, <1>5, Zenon
<1> QED
  BY <1>1, <1>3, <1>4, <1>5, <1>7, <1>10, <1>11, StepOf, ZenonT(30)

\* The receiver takes the masks of the helper, unmasks and sends the helper the shares.
LEMMA StepReceiver ==
    ASSUME LockStep, NEW p \in Role, bit_inject_ot_2round_receiver(p)
    PROVE  LockStep'
<1> DEFINE bits == reg[p].corr
           xor == [j \in DOMAIN bits |-> XorWord(Message(p)[j], reg[p].m[bits[j].b + 1][j])]
           v == [j \in DOMAIN bits |-> [a |-> my_prf(p, j - 1), b |-> xor[j]]]
<1>1. /\ Arrived(p, "receiver_wc") /\ UNCHANGED <<input, late>> /\ Goto(p, "injected")
      /\ TRUE
      /\ reg' = [reg EXCEPT ![p].corr = v]
      /\ chan' = Send(Taken(p), p, prev(p), Value("VecRing16", xor))
      /\ Advance(p, Len(bits), 0)
  BY Zenon DEF bit_inject_ot_2round_receiver
<1>a. pc[p] = "receiver_wc" /\ chan[prev(p)][p] # <<>> /\ Taken(p) = Take(chan, prev(p), p)
  <2>1. "receiver_wc" \in FromPrev
    BY Zenon DEF FromPrev
  <2> QED
    BY <1>1, <2>1, ArrivedPrev, Zenon
<1>2. pc[p] = "receiver_wc" /\ RoleOf(p) /\ DOMAIN pc = Role
  BY <1>a, Here, Zenon
<1>b. Len(bits) = 2 * Lifts
  <2>1. HasLen(bits, 2 * Lifts) /\ 2 * Lifts \in Nat
    BY <1>2, Sizes DEF RoleOf
  <2> QED
    BY <2>1, Lengths, ZenonT(30)
<1> HIDE DEF bits, xor, v
<1>3. /\ DOMAIN reg' = Role /\ DOMAIN reg'[p] = Fields
      /\ \A q \in Role \ {p} : reg'[q] = reg[q]
  BY <1>1, Here, Zenon DEF Fields
<1>4. /\ DOMAIN prf' = Role /\ DOMAIN prf'[p] = {"my", "prev"}
      /\ prf'[p].my = prf[p].my + 2 * Lifts /\ prf'[p].prev = prf[p].prev + 0
      /\ \A q \in Role \ {p} : prf'[q] = prf[q]
  <2>1. 2 * Lifts \in Nat /\ 0 \in Nat
    BY Sizes
  <2>2. Len(bits) = 2 * Lifts /\ 0 = 0
    BY <1>b, Sizes, Zenon
  <2>3. prf' = [prf EXCEPT ![p] = [my |-> @.my + 2 * Lifts, prev |-> @.prev + 0]]
    BY <1>1, <2>2, Zenon DEF Advance
  <2> QED
    BY <2>1, <2>3, Draws, Zenon
<1>5. DOMAIN pc' = Role /\ pc'[p] = "injected" /\ \A q \in Role \ {p} : Quiet(q)
  <2>1. DOMAIN pc' = Role /\ pc'[p] = "injected" /\ \A q \in Role \ {p} : pc'[q] = pc[q]
    BY <1>1, Labelled, Zenon
  <2> QED
    BY <2>1, <1>3, <1>4, Zenon DEF Quiet
<1>6. /\ K \in Nat /\ K >= 3 /\ Items \in Nat /\ Lifts \in Nat /\ CrossMessages \in {0, 1}
      /\ LiftSent(p) \in Nat /\ LiftSent(p) >= 1 /\ LiftSent(prev(p)) \in Nat
      /\ InjectMy(p) \in Nat /\ InjectPrev(p) \in Nat
      /\ LiftDrawn \in Nat /\ MsbDrawn(InjectMy(p)) \in Nat /\ MsbDrawn(InjectPrev(p)) \in Nat
  BY Numbers, Zenon
<1>k. p = 1 /\ LiftSent(p) = K + 2 /\ LiftSent(prev(p)) = K + 3 /\ InjectMy(p) = 2 * Lifts /\ InjectPrev(p) = 0
  BY <1>1, <1>2, <1>3, <1>6 DEF RoleOf, LiftSent, InjectMy, InjectPrev, prev
<1>7. RoleOf(p)'
  <2>1. prf[p].my = LiftDrawn + 4 * K /\ prf[p].prev = LiftDrawn + 4 * K
    <3>1. /\ prf[p].my = DrawnAt("receiver_wc", reg[p].k, Items, LiftDrawn, MsbDrawn(InjectMy(p)), InjectMy(p))
          /\ prf[p].prev = DrawnAt("receiver_wc", reg[p].k, Items, LiftDrawn, MsbDrawn(InjectPrev(p)), InjectPrev(p))
      BY <1>2, Zenon DEF RoleOf, Drawn
    <3> QED
      BY ONLY <3>1, SMTT(30) DEF DrawnAt
  <2>2. /\ Drawn(p, InjectMy(p))' = LiftDrawn + 4 * K + InjectMy(p)
        /\ Drawn(p, InjectPrev(p))' = LiftDrawn + 4 * K + InjectPrev(p)
    <3>1. /\ Drawn(p, InjectMy(p))' = DrawnAt("injected", reg'[p].k, Items, LiftDrawn, MsbDrawn(InjectMy(p)), InjectMy(p))
          /\ Drawn(p, InjectPrev(p))' = DrawnAt("injected", reg'[p].k, Items, LiftDrawn, MsbDrawn(InjectPrev(p)), InjectPrev(p))
      BY <1>1, <1>5, Fixed, ZenonT(30) DEF Drawn
    <3> QED
      BY ONLY <3>1, SMTT(30) DEF DrawnAt
  <2>3. prf'[p].my = Drawn(p, InjectMy(p))' /\ prf'[p].prev = Drawn(p, InjectPrev(p))'
    BY ONLY <1>6, <1>k, <1>3, <1>4, <2>1, <2>2, Zenon
  <2>5. Items' = Items /\ Lifts' = Lifts
    BY <1>1, Fixed, Zenon
  <2> QED
    BY <1>1, <1>6, <1>k, <1>3, <1>4, <1>5, <2>3, <2>5, Zenon DEF RoleOf, Labels, Local
<1>8. Moves(p, 0, 1, 1, 0) /\ Sent(p) = K + 2
  <2>1. Sent(p) = K + 2 /\ Got(p) = K + 2
    <3>1. /\ Sent(p) = SentAt(p, "receiver_wc", reg[p].k, CrossMessages)
          /\ Got(p) = GotAt(p, "receiver_wc", reg[p].k, CrossMessages)
      BY <1>2, Zenon DEF Sent, Got
    <3> QED
      BY ONLY <3>1, Zenon DEF SentAt, GotAt
  <2>2. Sent(p)' = LiftSent(p) /\ Got(p)' = LiftSent(prev(p))
    <3>1. /\ Sent(p)' = SentAt(p, "injected", reg'[p].k, CrossMessages)
          /\ Got(p)' = GotAt(p, "injected", reg'[p].k, CrossMessages)
      BY <1>1, <1>5, Fixed, Zenon DEF Sent, Got
    <3> QED
      BY ONLY <3>1, SMTT(30) DEF SentAt, GotAt
  <2>3. BackSent(p)' = BackSent(p) + 1 /\ BackGot(p)' = BackGot(p) + 0
    BY <1>1, <1>2, <1>5, SMTT(30), Z3 DEF BackSent, BackGot, Injected, RoleOf
  <2>4. Sent(p)' = Sent(p) + 0 /\ Got(p)' = Got(p) + 1
    BY ONLY <1>6, <1>k, <1>3, <2>1, <2>2, SMTT(30)
  <2> QED
    BY <2>1, <2>3, <2>4, Zenon DEF Moves
<1>9. Kind(p, prev(p), BackSent(p) + 1) = "VecRing16"
  BY <1>1, <1>2, Ring DEF Kind, RoleOf
<1>10. ChannelStep(p)
  <2>1. Value("VecRing16", xor).type = Kind(p, prev(p), BackSent(p) + 1)
    BY <1>9, Zenon DEF Value
  <2> QED
    BY <1>1, <1>a, <1>8, <2>1, TakePrevSendPrev, Zenon
<1>11. pc[p] # "failed" /\ pc'[p] # "failed"
  BY <1>2, <1>5, Zenon
<1> QED
  BY <1>1, <1>3, <1>4, <1>5, <1>7, <1>10, <1>11, StepOf, ZenonT(30)

-----------------------------------------------------------------------------
(* A role that waits is never handed another message than the one it       *)
(* accepts                                                                 *)

\* The type of the first message under way.
LEMMA Heads ==
    ASSUME LockStep, NEW p \in Role, NEW q \in Role \ {p}, pc[p] # "failed", chan[q][p] # <<>>
    PROVE  Head(chan[q][p]).type = Kind(q, p, In(q, p) + 1)
<1>1. WiresOf(q, p)
  <2>1. p \in Role \ {q}
    BY Zenon
  <2> QED
    BY <2>1, Zenon DEF LockStep
<1>2. PICK c : c = chan[q][p]
  BY Zenon
<1>3. PICK S : c \in Seq(S)
  BY <1>1, <1>2, Zenon DEF WiresOf, Wired
<1>4. \A i \in 1 .. Len(c) : c[i].type = Kind(q, p, In(q, p) + i)
  BY <1>1, <1>2, Zenon DEF WiresOf, Wired
<1>5. 1 \in 1 .. Len(c) /\ Head(c) = c[1]
  BY ONLY SMTT(30), Z3, <1>2, <1>3, chan[q][p] # <<>>
<1> QED
  BY <1>2, <1>4, <1>5, Zenon

\* What comes from the previous role, by the label of the one that waits.
LEMMA NextFromPrev ==
    ASSUME LockStep, NEW p \in Role, pc[p] \in FromPrev
    PROVE  Kind(prev(p), p, Got(p) + 1) = Expected(p)[2]
<1>1. RoleOf(p) /\ prev(p) \in Role /\ next(prev(p)) = p
  BY Here, Ring, Zenon
<1>2. /\ K \in Nat /\ K >= 3 /\ CrossMessages \in {0, 1} /\ LiftSent(prev(p)) \in Nat /\ LiftSent(prev(p)) >= 1
      /\ \/ prev(p) = 0 /\ LiftSent(prev(p)) = K + 3
         \/ prev(p) # 0 /\ LiftSent(prev(p)) = K + 2
  BY <1>1, Numbers, Zenon
<1>3. PICK x \in {0, 1} : x = CrossMessages
  BY <1>2, Zenon
<1>4. PICK s \in Nat : s = LiftSent(prev(p)) /\ s >= K + 2 /\ s >= 1
  BY <1>2
<1>w. ASSUME NEW n \in Nat, n > 1, n <= K + 2 \/ (s + x < n /\ n < s + x + 2 * K)
      PROVE  Kind(prev(p), p, n) = "VecRing64"
  BY <1>1, <1>3, <1>4, <1>w, KindOfWords, Zenon
<1>5. CASE pc[p] = "rep3"
  <2>1. Got(p) + 1 = 1
    BY <1>5 DEF Got, GotAt
  <2> QED
    BY <1>1, <1>5, <2>1, Zenon DEF Kind, Expected
<1>6. CASE pc[p] = "receiver_wc"
  <2>1. p = 1 /\ prev(p) = 0
    BY <1>1, <1>6 DEF RoleOf, prev
  <2>2. Got(p) + 1 = K + 3
    BY <1>2, <1>6 DEF Got, GotAt
  <2> QED
    BY <1>1, <1>6, <2>1, <2>2, Zenon DEF Kind, Expected
<1>7. CASE pc[p] = "lift_adder"
  <2>1. Got(p) + 1 = 2 /\ 2 <= K + 2
    BY <1>2, <1>7 DEF Got, GotAt
  <2> QED
    BY <1>7, <1>w, <2>1 DEF Expected
<1>8. CASE pc[p] = "lift_ripple"
  <2>1. PICK k \in Nat : k = reg[p].k /\ 2 <= k /\ k <= K
    BY <1>1, <1>2, <1>8 DEF RoleOf
  <2>2. Got(p) + 1 = k + 1
    BY <1>8, <2>1, Zenon DEF Got, GotAt
  <2>3. k + 1 \in Nat /\ k + 1 > 1 /\ k + 1 <= K + 2
    BY ONLY <1>2, <2>1, SMTT(30)
  <2>4. Kind(prev(p), p, Got(p) + 1) = "VecRing64"
    BY <1>w, <2>2, <2>3, Zenon
  <2> QED
    BY <1>8, <2>4, Zenon DEF Expected
<1>9. CASE pc[p] = "inject"
  <2>1. Got(p) + 1 = K + 2
    BY <1>2, <1>9 DEF Got, GotAt
  <2>2. K + 2 \in Nat /\ K + 2 > 1 /\ K + 2 <= K + 2
    BY ONLY <1>2, SMTT(30)
  <2>3. Kind(prev(p), p, Got(p) + 1) = "VecRing64"
    BY <1>w, <2>1, <2>2, Zenon
  <2> QED
    BY <1>9, <2>3, Zenon DEF Expected
<1>10. CASE pc[p] = "cross"
  <2>1. Got(p) + 1 = s + 1
    BY <1>4, <1>10, Zenon DEF Got, GotAt
  <2>2. x = 1
    BY <1>1, <1>3, <1>10, Zenon DEF RoleOf, CrossMessages
  <2>3. Kind(prev(p), p, s + 1) = "RingElement32"
    BY <1>1, <1>2, <1>3, <1>4, <2>2 DEF Kind
  <2> QED
    BY <1>10, <2>1, <2>3, Zenon DEF Expected
<1>11. CASE pc[p] = "msb_adder"
  <2>1. Got(p) + 1 = s + x + 1
    BY <1>3, <1>4, <1>11, Zenon DEF Got, GotAt
  <2>2. s + x + 1 \in Nat /\ s + x + 1 > 1 /\ s + x < s + x + 1 /\ s + x + 1 < s + x + 2 * K
    BY ONLY <1>2, x \in {0, 1}, s \in Nat, <1>4
  <2>3. Kind(prev(p), p, Got(p) + 1) = "VecRing64"
    BY <1>w, <2>1, <2>2, Zenon
  <2> QED
    BY <1>11, <2>3, Zenon DEF Expected
<1>12. CASE pc[p] = "msb_ripple"
  <2>1. PICK k \in Nat : k = reg[p].k /\ 2 <= k /\ k <= 2 * K - 1
    BY <1>1, <1>2, <1>12 DEF RoleOf
  <2>2. Got(p) = s + x + k - 1
    BY <1>3, <1>4, <1>12, <2>1, Zenon DEF Got, GotAt
  <2>3. /\ Got(p) + 1 = s + x + k
        /\ s + x + k \in Nat /\ s + x + k > 1 /\ s + x < s + x + k /\ s + x + k < s + x + 2 * K
    BY ONLY <1>2, x \in {0, 1}, s \in Nat, <2>1, <2>2
  <2>4. Kind(prev(p), p, Got(p) + 1) = "VecRing64"
    BY <1>w, <2>3, Zenon
  <2> QED
    BY <1>12, <2>4, Zenon DEF Expected
<1>13. CASE pc[p] = "open"
  <2>1. Got(p) = s + x + 2 * K - 1
    BY <1>3, <1>4, <1>13, Zenon DEF Got, GotAt
  <2>2. Got(p) + 1 = s + x + 2 * K
    BY ONLY SMTT(30), Z3, <1>2, x \in {0, 1}, s \in Nat, <2>1
  <2>3. Kind(prev(p), p, s + x + 2 * K) = "RingElementBit"
    BY SMTT(30), Z3, <1>1, <1>2, <1>3, <1>4 DEF Kind
  <2> QED
    BY <1>13, <2>2, <2>3, Zenon DEF Expected
<1> QED
  BY <1>5, <1>6, <1>7, <1>8, <1>9, <1>10, <1>11, <1>12, <1>13, Zenon DEF FromPrev

\* The message that has come is the one p waits for.
LEMMA RightMessage ==
    ASSUME LockStep, NEW p \in Role, Waits(p), Queue(p) # <<>>
    PROVE  Head(Queue(p)).type = Expected(p)[2]
<1>1. pc[p] \in FromPrev \cup FromNext /\ pc[p] # "failed"
  BY Here, Zenon DEF RoleOf, Labels, Local, Waits, FromPrev, FromNext
<1>2. /\ next(p) \in Role \ {p} /\ prev(p) \in Role \ {p}
      /\ In(prev(p), p) = Got(p) /\ In(next(p), p) = BackGot(p)
  BY Ring, Counts, Zenon
<1>3. CASE pc[p] \in FromPrev
  <2>1. Expected(p)[1] = prev(p)
    BY <1>3, Zenon DEF Expected, FromPrev
  <2>2. Queue(p) = chan[prev(p)][p]
    BY <2>1, Zenon DEF Queue
  <2>3. Head(chan[prev(p)][p]).type = Kind(prev(p), p, Got(p) + 1)
    BY <1>1, <1>2, <2>2, Heads, Zenon
  <2> QED
    BY <1>3, <2>2, <2>3, NextFromPrev, Zenon
<1>4. CASE pc[p] \in FromNext
  <2>1. Expected(p)[1] = next(p)
    BY <1>4, Zenon DEF Expected, FromNext
  <2>2. Queue(p) = chan[next(p)][p]
    BY <2>1, Zenon DEF Queue
  <2>3. Head(chan[next(p)][p]).type = Kind(next(p), p, BackGot(p) + 1)
    BY <1>1, <1>2, <2>2, Heads, ZenonT(30)
  <2>4. (pc[p] = "helper" /\ p = 0) \/ (pc[p] = "receiver" /\ p = 1)
    BY <1>4, Here, Zenon DEF FromNext, RoleOf
  <2>5. p # next(next(p)) /\ (p = 0 => next(p) = 1) /\ (p = 1 => next(p) = 2)
    BY <1>2, Ring DEF next
  <2>6. Kind(next(p), p, BackGot(p) + 1) = Expected(p)[2]
    BY <2>4, <2>5 DEF Kind, Expected
  <2> QED
    BY <2>2, <2>3, <2>6, Zenon
<1> QED
  BY <1>1, <1>3, <1>4, Zenon

\* A receive that fails has timed out, and takes nothing.
LEMMA StepFails ==
    ASSUME LockStep, NEW p \in Role, Fails(p)
    PROVE  LockStep'
<1>1. Waits(p) /\ Goto(p, "failed") /\ UNCHANGED <<input, reg, prf>>
  BY Zenon DEF Fails
<1>2. Queue(p) = <<>>
  BY <1>1, RightMessage, Zenon DEF Fails
<1>3. late' /\ chan' = chan
  BY <1>2, Zenon DEF Fails
<1>4. /\ DOMAIN pc' = Role /\ pc'[p] = "failed"
      /\ \A q \in Role \ {p} : Quiet(q)
  <2>1. DOMAIN pc' = Role /\ pc'[p] = "failed" /\ \A q \in Role \ {p} : pc'[q] = pc[q]
    BY <1>1, Labelled, Zenon
  <2> QED
    BY <1>1, <2>1, Zenon DEF Quiet
<1>5. ASSUME NEW q \in Role PROVE RoleOf(q)'
  <2>1. CASE q = p
    <3>1. DOMAIN reg'[p] = Fields /\ DOMAIN prf'[p] = {"my", "prev"}
      BY <1>1, Here, Zenon
    <3> QED
      BY <1>4, <2>1, <3>1, Zenon DEF RoleOf, Labels, Local
  <2>2. CASE q # p
    BY <1>1, <1>4, <2>2, RoleQuiet, Zenon DEF LockStep
  <2> QED
    BY <2>1, <2>2, Zenon
<1>6. ASSUME NEW x \in Role, NEW y \in Role \ {x} PROVE WiresOf(x, y)'
  <2>1. Wired(chan[x][y], x, y, Out(x, y), In(x, y), pc[x], pc[y])
    BY Zenon DEF LockStep, WiresOf
  <2>2. \A c, n, o, d, e : Wired(c, x, y, n, o, d, e)' <=> Wired(c, x, y, n, o, d, e)
    <3>1. \A n : Kind(x, y, n)' = Kind(x, y, n)
      BY <1>1, Zenon DEF Kind, CrossMessages
    <3> QED
      BY <3>1, ZenonT(30) DEF Wired
  <2>3. SUFFICES Wired(chan[x][y], x, y, Out(x, y)', In(x, y)', pc'[x], pc'[y])
    <3>1. Wired(chan'[x][y], x, y, Out(x, y)', In(x, y)', pc'[x], pc'[y]) => WiresOf(x, y)'
      BY <1>1, <2>2, Zenon DEF WiresOf, Wired, Kind, CrossMessages
    <3> QED
      BY <1>3, <3>1, Zenon
  <2>4. CASE y = p
    BY <1>4, <2>1, <2>4, Zenon DEF Wired
  <2>5. CASE y # p /\ x = p
    <3>1. pc'[y] = pc[y] /\ In(x, y)' = In(x, y)
      BY <1>1, <1>4, <2>5, ChannelQuiet, Zenon DEF Quiet
    <3> QED
      BY <1>4, <2>1, <2>5, <3>1, Zenon DEF Wired
  <2>6. CASE y # p /\ x # p
    <3>1. pc'[y] = pc[y] /\ pc'[x] = pc[x] /\ In(x, y)' = In(x, y) /\ Out(x, y)' = Out(x, y)
      BY <1>1, <1>4, <2>6, ChannelQuiet, Zenon DEF Quiet
    <3> QED
      BY <2>1, <3>1, Zenon
  <2> QED
    BY <2>4, <2>5, <2>6, Zenon
<1>7. FailsOnlyLate'
  BY <1>3, Zenon DEF FailsOnlyLate
<1> QED
  BY <1>1, <1>3, <1>4, <1>5, <1>6, <1>7, Zenon DEF LockStep

-----------------------------------------------------------------------------
(* The invariant, and the theorems                                         *)

\* A step of any role preserves the invariant, and so does stuttering.
LEMMA LockStepNext ==
    ASSUME LockStep, [Next]_vars
    PROVE  LockStep'
<1>1. ASSUME NEW p \in Role, Step(p) PROVE LockStep'
  BY <1>1, StepRep3, StepRep3Receive, StepLift, StepTwoCarriesFirst, StepTwoCarriesRound,
     StepTwoCarriesLast, StepHelper, StepHelperDone, StepSender, StepInject, StepReceiverM,
     StepReceiver, StepLiftAndCompare, StepLiftDistances, StepCompareThreshold, StepCrossMul,
     StepCrossCompare, StepExtractMsb, StepGetMsbFirst, StepGetMsbRound, StepGetMsbLast,
     StepOpenBin, StepFails, ZenonT(30) DEF Step
<1>2. CASE UNCHANGED vars
  <2>1. /\ input' = input /\ pc' = pc /\ reg' = reg /\ chan' = chan /\ prf' = prf /\ late' = late
    BY <1>2, Zenon DEF vars
  <2>2. ASSUME NEW q \in Role PROVE Quiet(q) /\ RoleOf(q)'
    BY <2>1, RoleQuiet, Zenon DEF Quiet, LockStep
  <2>3. ASSUME NEW x \in Role, NEW y \in Role \ {x} PROVE WiresOf(x, y)'
    <3>1. Wired(chan[x][y], x, y, Out(x, y), In(x, y), pc[x], pc[y])
      BY Zenon DEF LockStep, WiresOf
    <3>2. In(x, y)' = In(x, y) /\ Out(x, y)' = Out(x, y)
      BY <2>1, <2>2, ChannelQuiet, Zenon
    <3>3. \A n : Kind(x, y, n)' = Kind(x, y, n)
      BY <2>1, Zenon DEF Kind, CrossMessages
    <3> QED
      BY <2>1, <3>1, <3>2, <3>3, Zenon DEF WiresOf, Wired
  <2>4. FailsOnlyLate'
    BY <2>1, Zenon DEF LockStep, FailsOnlyLate
  <2> QED
    BY <2>1, <2>2, <2>3, <2>4, ZenonT(30) DEF LockStep
<1> QED
  BY <1>1, <1>2, Zenon DEF Next, Done

\* It holds at first.
LEMMA LockStepInit ==
    ASSUME Init
    PROVE  LockStep
<1>1. /\ input \in Inputs /\ DOMAIN pc = Role /\ DOMAIN reg = Role /\ DOMAIN prf = Role
      /\ DOMAIN chan = Role /\ \A p \in Role : DOMAIN chan[p] = Role
  BY Zenon DEF Init
<1>2. ASSUME NEW p \in Role PROVE RoleOf(p) /\ pc[p] = "idle"
  <2>1. pc[p] = "idle" /\ prf[p] = [my |-> 0, prev |-> 0] /\ DOMAIN reg[p] = Fields
    BY Zenon DEF Init, Fields
  <2> QED
    BY <2>1 DEF RoleOf, Labels, Local, Drawn, DrawnAt
<1>3. ASSUME NEW x \in Role, NEW y \in Role \ {x} PROVE WiresOf(x, y)
  <2>1. chan[x][y] = <<>> /\ pc[x] = "idle" /\ pc[y] = "idle"
    BY Zenon DEF Init
  <2>2. Out(x, y) = 0 /\ In(x, y) = 0
    BY <2>1, Zenon DEF Out, In, Sent, SentAt, Got, GotAt, Injected
  <2>3. PICK c : c = chan[x][y]
    BY Zenon
  <2>4. c \in Seq({c[i] : i \in DOMAIN c}) /\ Len(c) = 0
    BY <2>1, <2>3
  <2> QED
    BY <2>2, <2>3, <2>4 DEF WiresOf, Wired
<1>4. FailsOnlyLate
  BY <1>2, Zenon DEF FailsOnlyLate
<1> QED
  BY <1>1, <1>2, <1>3, <1>4, ZenonT(30) DEF LockStep

\* Two neighbours that are through: the counts of both directions agree.
LEMMA DoneInStep == LockStep => InStepWhenDone
<1> SUFFICES ASSUME LockStep, NEW p \in Role, pc[p] = "done", pc[next(p)] = "done"
             PROVE  /\ prf[p].my = prf[next(p)].prev
                    /\ chan[p][next(p)] = <<>> /\ chan[next(p)][p] = <<>>
  BY Zenon DEF InStepWhenDone
<1>1. PICK q \in Role : q = next(p) /\ prev(q) = p /\ q # p
  BY Ring, Zenon
<1>2. RoleOf(p) /\ RoleOf(q) /\ pc[p] = "done" /\ pc[q] = "done"
  BY <1>1, Here, Zenon
<1>3. prf[p].my = prf[q].prev
  <2>1. prf[p].my = Drawn(p, InjectMy(p)) /\ prf[q].prev = Drawn(q, InjectPrev(q))
    BY <1>2, Zenon DEF RoleOf
  <2>2. InjectPrev(q) = InjectMy(p)
    BY <1>1, Zenon DEF InjectPrev
  <2>3. \A i : Drawn(p, i) = MsbDrawn(i) + 8 * K - 6 /\ Drawn(q, i) = MsbDrawn(i) + 8 * K - 6
    BY <1>2, Zenon DEF Drawn, DrawnAt
  <2> QED
    BY <2>1, <2>2, <2>3, ZenonT(30)
<1>4. Len(chan[p][q]) = Out(p, q) - In(p, q) /\ Len(chan[q][p]) = Out(q, p) - In(q, p)
  <2>1. p \in Role \ {q} /\ q \in Role \ {p}
    BY <1>1, Zenon
  <2>2. WiresOf(p, q) /\ WiresOf(q, p)
    BY <2>1, Zenon DEF LockStep
  <2> QED
    BY <1>2, <2>2, Zenon DEF WiresOf, Wired
<1>5. Out(p, q) = In(p, q) /\ Out(q, p) = In(q, p) /\ Out(p, q) \in Nat /\ Out(q, p) \in Nat
  <2>1. Out(p, q) = LiftSent(p) + CrossMessages + 2 * K /\ In(p, q) = LiftSent(p) + CrossMessages + 2 * K
    BY <1>1, <1>2, Zenon DEF Out, In, Sent, SentAt, Got, GotAt
  <2>2. Out(q, p) = BackSent(q) /\ In(q, p) = BackGot(p)
    BY <1>1, Counts, Zenon
  <2>3. BackSent(q) = BackGot(p) /\ BackSent(q) \in Nat
    <3>1. q # 0 <=> p # 2
      BY <1>1 DEF Role, next
    <3> QED
      BY <1>2, <3>1, Zenon DEF BackSent, BackGot, Injected
  <2>4. LiftSent(p) + CrossMessages + 2 * K \in Nat
    BY Sizes, LiftCounts
  <2> QED
    BY <2>1, <2>2, <2>3, <2>4, ZenonT(30)
<1>6. Len(chan[p][q]) = 0 /\ Len(chan[q][p]) = 0
  BY <1>4, <1>5
<1>7. chan[p][q] = <<>> /\ chan[q][p] = <<>>
  <2>1. p \in Role \ {q} /\ q \in Role \ {p}
    BY <1>1
  <2>2. WiresOf(p, q) /\ WiresOf(q, p)
    BY <2>1, Zenon DEF LockStep
  <2>3. ASSUME NEW c, c \in Seq({c[i] : i \in DOMAIN c}), Len(c) = 0 PROVE c = <<>>
    BY ONLY <2>3, SMTT(30)
  <2> QED
    BY <1>6, <2>2, <2>3, ZenonT(30) DEF WiresOf, Wired
<1> QED
  BY <1>1, <1>3, <1>7, Zenon

\* FailsOnlyLate, for every bit width, every keystream and every set of
\* inputs: no role is ever handed a message of another variant than the one
\* its receive accepts, at whatever pace the roles run and whichever of them
\* have given up, so an operation fails only for a timeout.
THEOREM MessagesMatch == Spec => []FailsOnlyLate
<1>1. LockStep /\ [Next]_vars => LockStep'
  BY LockStepNext, Zenon
<1>2. Init => LockStep
  BY LockStepInit, Zenon
<1>3. LockStep => FailsOnlyLate
  BY Zenon DEF LockStep
<1> QED
  BY <1>1, <1>2, <1>3, PTL DEF Spec

\* InStepWhenDone, for every bit width, every keystream and every set of
\* inputs: two neighbours that are through have drawn as many values of the
\* stream they share and have taken every message sent between them, so their
\* next operation starts in step.
THEOREM NeighboursEndInStep == Spec => []InStepWhenDone
<1>1. LockStep /\ [Next]_vars => LockStep'
  BY LockStepNext
<1>2. Init => LockStep
  BY LockStepInit
<1> QED
  BY <1>1, <1>2, DoneInStep, PTL DEF Spec
==============================================================================
