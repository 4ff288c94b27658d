------------------------------ MODULE MCIrisDot ------------------------------
(***************************************************************************)
(* Irises of 8 rows, 3 columns, 2 wavelets and 2 parts.  The random words  *)
(* are those of fixed functions.                                           *)
(***************************************************************************)
EXTENDS IrisDot

Scrambled(x) == ((x % 9973) * 40503 + (x \div 7) * 25717) % 65536

MCRandom(seed, e, k) == Scrambled(211 * seed + 4 * e + k)

MCKeystream(g, seed, at) == Scrambled(IF g = "codes" THEN 5003 + 401 * seed + at ELSE 7001 + 503 * seed + at)

Bit(x) == (Scrambled(x) \div 64) % 2

Sample(s) == [code |-> [i \in 0 .. CodeLength - 1 |-> Bit(97 * s + i)],
              mask |-> [i \in 0 .. CodeLength - 1 |->
                           IF Bit(89 * s + 13 + i \div 2) + Bit(61 * s + 7 + i \div 2) > 0 THEN 1 ELSE 0],
              seed |-> s]

\* Agrees with the sample nowhere; nothing is visible; everything is.
Opposite(s) == [Sample(s) EXCEPT !.code = [i \in DOMAIN @ |-> 1 - @[i]]]
Hidden(s) == [Sample(s) EXCEPT !.mask = [i \in DOMAIN @ |-> 0]]
Visible(s) == [Sample(s) EXCEPT !.mask = [i \in DOMAIN @ |-> 1]]

MCQueries == {Sample(1), Visible(2), Opposite(5), Hidden(4)}
MCGalleries == {<<Sample(1), Opposite(1), Visible(2), Hidden(3)>>, <<Sample(5), Visible(6)>>}
=============================================================================
