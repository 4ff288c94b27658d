-------------------------- MODULE ServerActorProofs --------------------------
(***************************************************************************)
(* What ServerActor promises, proved for every number of devices, every    *)
(* limit and every relation of similarity: no duplicates in the database,  *)
(* no write past the allocated slots, and the unsharded database MemoryDb  *)
(* implemented by the shards.                                              *)
(*                                                                         *)
(* All three rest on one invariant.  While the actor serves there is a     *)
(* number t of records such that the devices hold t records dealt out in   *)
(* turn (Served).  Hence the first of the smallest devices, from which     *)
(* distribute_insertions starts, is the device on which index t is looked  *)
(* for, and the k-th insertion lands where index t + k is looked for.      *)
(***************************************************************************)
EXTENDS ServerActor, FiniteSetTheorems, TLAPS

-----------------------------------------------------------------------------
(* Arithmetic of the sharding.                                             *)

\* Multiples of n are ordered as their factors, and at least n apart.
LEMMA Order ==
    ASSUME NEW n \in Nat \ {0}, NEW a \in Int, NEW b \in Int
    PROVE  /\ a * n \in Int /\ b * n \in Int
           /\ a <= b <=> a * n <= b * n
           /\ a < b <=> a * n + n <= b * n
  <1>1. a * n \in Int /\ b * n \in Int
    OBVIOUS
  <1>2. a <= b => a * n <= b * n
    OBVIOUS
  <1>3. a < b => a * n + n <= b * n
    <2> SUFFICES ASSUME a < b PROVE a * n + n <= b * n
      BY Zenon
    <2>1. (a + 1) * n <= b * n
      OBVIOUS
    <2>2. (a + 1) * n = a * n + n
      OBVIOUS
    <2> QED BY <2>1, <2>2, Zenon
  <1>4. b < a => b * n + n <= a * n
    <2> SUFFICES ASSUME b < a PROVE b * n + n <= a * n
      BY Zenon
    <2>1. (b + 1) * n <= a * n
      OBVIOUS
    <2>2. (b + 1) * n = b * n + n
      OBVIOUS
    <2> QED BY <2>1, <2>2, Zenon
  <1>5. PICK x \in Int : x = a * n
    BY <1>1, Zenon
  <1>6. PICK y \in Int : y = b * n
    BY <1>1, Zenon
  <1> QED BY <1>2, <1>3, <1>4, <1>5, <1>6

\* Quotient and remainder are the only numbers that make up a.
LEMMA Unique ==
    ASSUME NEW n \in Nat \ {0}, NEW q \in Int, NEW r \in 0 .. n - 1, NEW a \in Int, a = q * n + r
    PROVE  a \div n = q /\ a % n = r
  OBVIOUS

\* Where the loader and the deletions look for index i.
LEMMA Place ==
    ASSUME NEW i \in Nat
    PROVE  /\ i % DeviceCount \in Device
           /\ i \div DeviceCount \in Nat
           /\ i = (i \div DeviceCount) * DeviceCount + (i % DeviceCount)
           /\ i \div DeviceCount <= i
  <1>1. DeviceCount \in Nat \ {0}
    BY DeviceCountAssumption, Zenon
  <1>2. i % DeviceCount \in Device /\ i \div DeviceCount \in Nat /\ i \div DeviceCount <= i
    BY <1>1 DEF Device
  <1>3. i = (i \div DeviceCount) * DeviceCount + (i % DeviceCount)
    BY <1>1
  <1> QED BY <1>2, <1>3, Zenon

\* Which index is looked for in slot s of device d.
LEMMA Index ==
    ASSUME NEW d \in Device, NEW s \in Nat
    PROVE  /\ s * DeviceCount + d \in Nat
           /\ (s * DeviceCount + d) % DeviceCount = d
           /\ (s * DeviceCount + d) \div DeviceCount = s
  <1>1. DeviceCount \in Nat \ {0} /\ d \in 0 .. DeviceCount - 1
    BY DeviceCountAssumption, Zenon DEF Device
  <1>2. PICK a \in Nat : a = s * DeviceCount + d
    BY <1>1
  <1> QED BY <1>1, <1>2, Unique

\* The size of device d when t records are dealt out.
Shard(t, d) == t \div DeviceCount + (IF d < t % DeviceCount THEN 1 ELSE 0)

\* Of the indices below t, device d holds the slots below Shard(t, d).
LEMMA ShardLess ==
    ASSUME NEW t \in Nat, NEW d \in Device, NEW s \in Int
    PROVE  Shard(t, d) \in Nat /\ (s * DeviceCount + d < t <=> s < Shard(t, d))
  <1> DEFINE n == DeviceCount
             q == t \div n
             r == t % n
  <1>1. n \in Nat \ {0} /\ q \in Nat /\ r \in 0 .. n - 1 /\ t = q * n + r /\ d \in 0 .. n - 1
    BY DeviceCountAssumption, Place, Zenon DEF Device
  <1>2. Shard(t, d) = q + (IF d < r THEN 1 ELSE 0)
    BY Zenon DEF Shard
  <1> HIDE DEF n, q, r
  <1>3. PICK x \in Int : x = s * n
    BY <1>1
  <1>4. PICK y \in Int : y = q * n
    BY <1>1
  <1>5. s < q => x + n <= y
    BY <1>1, <1>3, <1>4, Order
  <1>6. s <= q => x <= y
    BY <1>1, <1>3, <1>4, Order
  <1>7. q < s => y + n <= x
    BY <1>1, <1>3, <1>4, Order
  <1>8. q <= s => y <= x
    BY <1>1, <1>3, <1>4, Order
  <1>9. x + d < t <=> s < Shard(t, d)
    <2>1. t = y + r /\ x \in Int /\ y \in Int
      BY <1>1, <1>3, <1>4, Zenon
    <2>2. CASE d < r
      <3>1. Shard(t, d) = q + 1
        BY <1>2, <2>2, Zenon
      <3> QED BY <1>1, <2>1, <2>2, <3>1, <1>6, <1>7
    <2>3. CASE ~(d < r)
      <3>1. Shard(t, d) = q
        BY <1>1, <1>2, <2>3
      <3> QED BY <1>1, <2>1, <2>3, <3>1, <1>5, <1>8
    <2> QED BY <2>2, <2>3, Zenon
  <1> QED BY <1>1, <1>2, <1>3, <1>9 DEF n

\* The next free slot of device d is that of the first index from t on that
\* device d takes in turn.
Ahead(t, d) == (d - (t % DeviceCount)) % DeviceCount

\* The slot after the last of a device belongs to the next index dealt to it.
LEMMA ShardNext ==
    ASSUME NEW t \in Nat, NEW d \in Device
    PROVE  /\ Ahead(t, d) \in 0 .. DeviceCount - 1
           /\ t + Ahead(t, d) = Shard(t, d) * DeviceCount + d
  <1> DEFINE n == DeviceCount
             q == t \div n
             r == t % n
  <1>1. n \in Nat \ {0} /\ q \in Nat /\ r \in 0 .. n - 1 /\ t = q * n + r /\ d \in 0 .. n - 1
    BY DeviceCountAssumption, Place, Zenon DEF Device
  <1>2. Shard(t, d) = q + (IF d < r THEN 1 ELSE 0)
    BY Zenon DEF Shard
  <1>3. Ahead(t, d) = (d - r) % n
    BY Zenon DEF Ahead
  <1> HIDE DEF n, q, r
  <1>4. CASE d < r
    <2>1. d - r = (-1) * n + (d - r + n) /\ d - r + n \in 0 .. n - 1
      BY <1>1, <1>4
    <2>2. Ahead(t, d) = d - r + n
      <3>1. PICK a \in Int : a = d - r
        BY <1>1
      <3>2. PICK b \in 0 .. n - 1 : b = d - r + n
        BY <2>1, Zenon
      <3>3. a = (-1) * n + b
        BY <2>1, <3>1, <3>2, Zenon
      <3>4. a % n = b
        BY <1>1, <3>3, Unique
      <3> QED BY <1>3, <3>1, <3>2, <3>4, Zenon
    <2>3. (q + 1) * n = q * n + n
      BY <1>1
    <2> QED BY <1>1, <1>2, <1>4, <2>1, <2>2, <2>3, SMTT(20) DEF n
  <1>5. CASE ~(d < r)
    <2>1. d - r \in 0 .. n - 1
      BY <1>1, <1>5
    <2>2. Ahead(t, d) = d - r
      <3>1. PICK a \in 0 .. n - 1 : a = d - r
        BY <2>1, Zenon
      <3>2. a % n = a
        BY <1>1
      <3> QED BY <1>3, <3>1, <3>2, Zenon
    <2> QED BY <1>1, <1>2, <1>5, <2>1, <2>2 DEF n
  <1> QED BY <1>4, <1>5, Zenon

-----------------------------------------------------------------------------
(* Counting.                                                               *)

\* The records from t to t + m, counted by device.
LEMMA SumOfShards ==
    ASSUME NEW t \in Nat, NEW m \in Nat, NEW numbers,
           \A d \in Device : numbers[d] = Shard(t + m, d) - Shard(t, d)
    PROVE  SumOver(numbers) = m
  <1> DEFINE n == DeviceCount
             V == t .. t + m - 1
             P == UNION {{d} \X (1 .. numbers[d]) : d \in Device}
             f == [i \in V |-> <<i % n, (i \div n) - Shard(t, i % n) + 1>>]
  <1>1. ASSUME NEW d \in Device, NEW x
        PROVE  <<d, x>> \in P <=> x \in 1 .. Shard(t + m, d) - Shard(t, d)
    OBVIOUS
  <1>2. ASSUME NEW p \in P
        PROVE  \E d \in Device : \E x \in 1 .. Shard(t + m, d) - Shard(t, d) : p = <<d, x>>
    OBVIOUS
  <1> HIDE DEF P
  <1>3. ASSUME NEW i \in V
        PROVE  /\ i \in Nat /\ i % n \in Device /\ i \div n \in Nat
               /\ i = (i \div n) * n + (i % n)
               /\ Shard(t, i % n) \in Nat /\ Shard(t + m, i % n) \in Nat
               /\ Shard(t, i % n) <= i \div n /\ i \div n < Shard(t + m, i % n)
    <2>1. i \in Nat /\ t + m \in Nat /\ t <= i /\ i < t + m
      OBVIOUS
    <2>2. PICK d \in Device : d = i % n
      BY <2>1, Place, Zenon
    <2>3. PICK s \in Nat : s = i \div n
      BY <2>1, Place, Zenon
    <2>4. i = s * n + d
      BY <2>1, <2>2, <2>3, Place, Zenon
    <2>5. Shard(t, d) \in Nat /\ (s * n + d < t <=> s < Shard(t, d))
      BY ShardLess
    <2>6. Shard(t + m, d) \in Nat /\ (s * n + d < t + m <=> s < Shard(t + m, d))
      BY <2>1, ShardLess
    <2>7. ~(s < Shard(t, d)) /\ s < Shard(t + m, d)
      BY <2>1, <2>4, <2>5, <2>6
    <2> QED BY <2>1, <2>2, <2>3, <2>4, <2>5, <2>6, <2>7
  <1>4. f \in [V -> P]
    <2> SUFFICES ASSUME NEW i \in V PROVE f[i] \in P
      BY Zenon
    <2>1. (i \div n) - Shard(t, i % n) + 1 \in 1 .. Shard(t + m, i % n) - Shard(t, i % n)
      BY <1>3
    <2>2. i % n \in Device
      BY <1>3, Zenon
    <2> QED BY <2>1, <2>2, <1>1, Zenon
  <1>5. \A i, j \in V : f[i] = f[j] => i = j
    <2> SUFFICES ASSUME NEW i \in V, NEW j \in V, f[i] = f[j] PROVE i = j
      BY Zenon
    <2>1. i % n = j % n /\ (i \div n) - Shard(t, i % n) + 1 = (j \div n) - Shard(t, j % n) + 1
      BY Zenon
    <2>2. PICK d \in Device : d = i % n
      BY <1>3, Zenon
    <2>3. PICK a \in Nat : a = i \div n
      BY <1>3, Zenon
    <2>4. PICK b \in Nat : b = j \div n
      BY <1>3, Zenon
    <2>5. Shard(t, d) \in Nat
      BY <1>3, <2>2, Zenon
    <2>6. a = b
      BY <2>1, <2>2, <2>3, <2>4, <2>5
    <2>7. i = a * n + d /\ j = b * n + d
      BY <1>3, <2>1, <2>2, <2>3, <2>4, Zenon
    <2> QED BY <2>6, <2>7, Zenon
  <1>6. \A p \in P : \E i \in V : f[i] = p
    <2> SUFFICES ASSUME NEW p \in P PROVE \E i \in V : f[i] = p
      BY Zenon
    <2>9. PICK d \in Device : \E x \in 1 .. Shard(t + m, d) - Shard(t, d) : p = <<d, x>>
      BY <1>2, Zenon
    <2>1. PICK x \in 1 .. Shard(t + m, d) - Shard(t, d) : p = <<d, x>>
      BY <2>9, Zenon
    <2>2. Shard(t, d) \in Nat /\ Shard(t + m, d) \in Nat
      BY ShardLess
    <2>3. PICK s \in Nat : s = Shard(t, d) + x - 1
      BY <2>2
    <2>4. s < Shard(t + m, d) /\ ~(s < Shard(t, d)) /\ s - Shard(t, d) + 1 = x
      BY <2>2, <2>3
    <2>5. PICK i \in Nat : i = s * n + d /\ i % n = d /\ i \div n = s
      BY Index, Zenon
    <2>6. i < t + m /\ ~(i < t)
      BY <2>4, <2>5, ShardLess
    <2>7. i \in V
      BY <2>6
    <2>8. f[i] = <<d, x>>
      BY <2>4, <2>5, <2>7, Zenon
    <2> QED BY <2>1, <2>7, <2>8, Zenon
  <1>7. ExistsBijection(V, P)
    <2> HIDE DEF f, V
    <2>1. f \in Injection(V, P)
      BY <1>4, <1>5, Zenon DEF Injection, IsInjective
    <2>2. f \in Surjection(V, P)
      BY <1>4, <1>6, Zenon DEF Surjection
    <2> QED BY <2>1, <2>2, Zenon DEF ExistsBijection, Bijection
  <1>8. IsFiniteSet(V) /\ Cardinality(V) = m
    BY FS_Interval
  <1>9. Cardinality(P) = m
    BY <1>7, <1>8, FS_Bijection, Zenon
  <1> QED BY <1>9, Zenon DEF SumOver, P

\* The devices together hold the t records dealt to them.
LEMMA SumOfSizes ==
    ASSUME NEW t \in Nat
    PROVE  SumOver([d \in Device |-> Shard(t, d)]) = t
  <1> DEFINE numbers == [d \in Device |-> Shard(t, d)]
  <1>1. ASSUME NEW d \in Device PROVE Shard(0, d) = 0 /\ Shard(0 + t, d) \in Nat
    <2>1. 0 \div DeviceCount = 0 /\ 0 % DeviceCount = 0
      BY DeviceCountAssumption
    <2> QED BY <2>1, ShardLess DEF Shard, Device
  <1>2. \A d \in Device : numbers[d] = Shard(0 + t, d) - Shard(0, d)
    BY <1>1
  <1> HIDE DEF numbers
  <1>3. SumOver(numbers) = t
    BY <1>2, SumOfShards, Zenon
  <1> QED BY <1>3, Zenon DEF numbers

\* A set of naturals that is not empty has a least element.
LEMMA LeastOf ==
    ASSUME NEW S \in SUBSET Nat, S # {}
    PROVE  Min(S) \in S /\ \A y \in S : Min(S) <= y
  <1> DEFINE R == {ss \in Nat \X Nat : ss[1] < ss[2]}
  <1>1. IsWellFoundedOn(R, Nat)
    BY NatLessThanWellFounded, Zenon DEF OpToRel
  <1> HIDE DEF R
  <1>2. PICK x \in S : \A y \in S : ~(<<y, x>> \in R)
    BY <1>1, WFMin, Zenon
  <1>3. \A y \in S : <<y, x>> \in Nat \X Nat /\ <<y, x>>[1] = y /\ <<y, x>>[2] = x
    BY Zenon
  <1>4. \A y \in S : ~(y < x)
    BY <1>2, <1>3, Zenon DEF R
  <1>5. \A y \in S : x <= y
    BY <1>4
  <1> QED BY <1>5, Zenon DEF Min

\* The least element is the only one that is not above any other.
LEMMA LeastIs ==
    ASSUME NEW S \in SUBSET Nat, NEW x \in S, \A y \in S : x <= y
    PROVE  Min(S) = x
  <1>1. Min(S) \in S /\ Min(S) <= x
    BY LeastOf, Zenon
  <1>2. x <= Min(S) /\ x \in Nat /\ Min(S) \in Nat
    BY <1>1, Zenon
  <1> QED BY <1>1, <1>2

\* A finite set of numbers can be listed in ascending order.
LEMMA AscendingLists ==
    ASSUME NEW k \in Nat, NEW S \in SUBSET (1 .. k)
    PROVE  LET m == Cardinality(S)
               list == Ascending(S)
           IN  /\ m \in Nat
               /\ list \in [1 .. m -> S]
               /\ \A a, b \in 1 .. m : a < b => list[a] < list[b]
               /\ \A j \in S : \E a \in 1 .. m : list[a] = j
  <1> DEFINE m == Cardinality(S)
             Below(j) == {i \in S : i < j}
             pos == [j \in S |-> Cardinality(Below(j))]
             Up(s) == \A a, b \in 1 .. m : a < b => s[a] < s[b]
  <1>16. \A j \in S : j \in Int
    OBVIOUS
  <1>1. IsFiniteSet(S)
    <2>1. IsFiniteSet(1 .. k)
      BY FS_Interval
    <2> QED BY <2>1, FS_Subset, Zenon
  <1>2. m \in Nat
    BY <1>1, FS_CardinalityType, Zenon
  <1>3. ASSUME NEW j \in S
        PROVE  IsFiniteSet(Below(j)) /\ Cardinality(Below(j)) \in Nat
    <2>1. Below(j) \in SUBSET S
      BY Zenon
    <2> QED BY <1>1, <2>1, FS_Subset, FS_CardinalityType, Zenon
  <1>4. ASSUME NEW j \in S, NEW T \in SUBSET S, Below(j) \cup {j} \subseteq T
        PROVE  Cardinality(Below(j)) < Cardinality(T)
    <2>1. IsFiniteSet(T)
      BY <1>1, FS_Subset, Zenon
    <2>2. Cardinality(Below(j) \cup {j}) = Cardinality(Below(j)) + 1
      BY <1>3, FS_AddElement
    <2>3. Cardinality(Below(j) \cup {j}) <= Cardinality(T)
      BY <2>1, <1>4, FS_Subset, Zenon
    <2>4. Cardinality(T) \in Nat /\ Cardinality(Below(j)) \in Nat
      BY <1>3, <2>1, FS_CardinalityType, Zenon
    <2> QED BY <2>2, <2>3, <2>4
  <1>5. ASSUME NEW j \in S PROVE pos[j] \in 0 .. m - 1
    <2>1. Below(j) \cup {j} \subseteq S
      BY Zenon
    <2>2. Cardinality(Below(j)) < m
      BY <1>4, <2>1, Zenon
    <2> QED BY <1>2, <1>3, <2>2
  <1>6. ASSUME NEW i \in S, NEW j \in S, i < j PROVE pos[i] < pos[j]
    <2>1. Below(i) \cup {i} \subseteq Below(j)
      <3>1. ASSUME NEW e \in S, e < i PROVE e < j
        <4>1. e \in Int /\ i \in Int /\ j \in Int
          BY <1>16, Zenon
        <4> QED BY <1>6, <3>1, <4>1, SMTT(20)
      <3> QED BY <1>6, <3>1, Zenon
    <2>2. Below(j) \in SUBSET S
      BY Zenon
    <2>3. Cardinality(Below(i)) < Cardinality(Below(j))
      BY <1>4, <2>1, <2>2, Zenon
    <2> QED BY <2>3, Zenon
  <1> HIDE DEF pos, m, Below
  <1>7. pos \in [S -> 0 .. m - 1]
    BY <1>5, Zenon DEF pos
  <1>8. \A i, j \in S : pos[i] = pos[j] => i = j
    BY <1>5, <1>6
  <1>9. pos \in Injection(S, 0 .. m - 1)
    BY <1>7, <1>8, Zenon DEF Injection, IsInjective
  <1>10. IsFiniteSet(0 .. m - 1) /\ Cardinality(0 .. m - 1) = m
    BY <1>2, FS_Interval
  <1>11. pos \in Surjection(S, 0 .. m - 1)
    BY <1>9, <1>10, FS_Injection, Zenon DEF m
  <1>12. \A a \in 1 .. m : \E j \in S : pos[j] = a - 1
    <2>1. \A a \in 1 .. m : a - 1 \in 0 .. m - 1
      BY <1>2
    <2> QED BY <1>11, <2>1, Zenon DEF Surjection
  <1>13. \E s \in [1 .. m -> S] : Up(s)
    <2> DEFINE s == [a \in 1 .. m |-> CHOOSE j \in S : pos[j] = a - 1]
    <2>1. ASSUME NEW a \in 1 .. m PROVE s[a] \in S /\ pos[s[a]] = a - 1
      BY <1>12, Zenon
    <2>2. s \in [1 .. m -> S]
      BY <2>1, Zenon
    <2> HIDE DEF s
    <2>3. ASSUME NEW a \in 1 .. m, NEW b \in 1 .. m, a < b PROVE s[a] < s[b]
      <3>1. PICK x \in S : x = s[a] /\ pos[x] = a - 1
        BY <2>1, Zenon
      <3>2. PICK y \in S : y = s[b] /\ pos[y] = b - 1
        BY <2>1, Zenon
      <3>3. x \in Int /\ y \in Int
        BY <1>16, Zenon
      <3>4. ~(y < x) /\ x # y
        BY <1>2, <1>6, <2>3, <3>1, <3>2
      <3> QED BY <3>1, <3>2, <3>3, <3>4
    <2> QED BY <2>2, <2>3, Zenon
  <1> DEFINE list == Ascending(S)
  <1>14. list \in [1 .. m -> S] /\ Up(list)
    <2>1. \A s \in [1 .. m -> S] : DOMAIN s = 1 .. m
      BY Zenon
    <2>2. list = CHOOSE s \in [1 .. m -> S] : \A a, b \in DOMAIN s : a < b => s[a] < s[b]
      BY Zenon DEF Ascending, m
    <2> HIDE DEF list
    <2>3. \E s \in [1 .. m -> S] : \A a, b \in DOMAIN s : a < b => s[a] < s[b]
      BY <1>13, <2>1, Zenon
    <2>4. list \in [1 .. m -> S] /\ \A a, b \in DOMAIN list : a < b => list[a] < list[b]
      BY <2>2, <2>3, Zenon
    <2> QED BY <2>4, Zenon
  <1> HIDE DEF list
  <1>15. \A j \in S : \E a \in 1 .. m : list[a] = j
    <2>1. \A a, b \in 1 .. m : list[a] = list[b] => a = b
      <3> SUFFICES ASSUME NEW a \in 1 .. m, NEW b \in 1 .. m, list[a] = list[b], a # b PROVE FALSE
        BY Zenon
      <3>3. list[a] \in S
        BY <1>14, Zenon
      <3>1. list[a] \in Int
        BY <1>16, <3>3, Zenon
      <3>2. a < b \/ b < a
        BY <1>2
      <3> QED BY <1>14, <3>1, <3>2
    <2>2. list \in Injection(1 .. m, S)
      BY <1>14, <2>1, Zenon DEF Injection, IsInjective
    <2>3. Cardinality(1 .. m) = Cardinality(S)
      BY <1>2, FS_Interval DEF m
    <2>4. list \in Surjection(1 .. m, S)
      BY <1>1, <2>2, <2>3, FS_Injection, Zenon
    <2> QED BY <2>4, Zenon DEF Surjection
  <1> QED BY <1>2, <1>14, <1>15, Zenon DEF m, list

-----------------------------------------------------------------------------
(* Placing the insertions.                                                 *)

Sizes(t) == [d \in Device |-> Shard(t, d)]

\* The first of the smallest devices is the one whose turn it is.
LEMMA StartIs ==
    ASSUME NEW t \in Nat
    PROVE  Min({d \in Device : \A e \in Device : Sizes(t)[d] <= Sizes(t)[e]}) = t % DeviceCount
  <1> DEFINE r == t % DeviceCount
             q == t \div DeviceCount
             S == {d \in Device : \A e \in Device : Sizes(t)[d] <= Sizes(t)[e]}
  <1>1. r \in Device /\ q \in Nat
    BY Place, Zenon
  <1>2. \A d \in Device : Sizes(t)[d] = q + (IF d < r THEN 1 ELSE 0) /\ d \in Nat
    BY DEF Sizes, Shard, Device
  <1> HIDE DEF r, q
  <1>3. r \in S
    BY <1>1, <1>2
  <1>4. ASSUME NEW y \in S PROVE r <= y
    <2>1. y \in Device /\ Sizes(t)[y] <= Sizes(t)[r]
      BY <1>1, Zenon
    <2>2. Sizes(t)[r] = q /\ r \in Nat /\ y \in Nat
      BY <1>1, <1>2
    <2> QED BY <1>1, <1>2, <2>1, <2>2
  <1>5. S \in SUBSET Nat
    BY <1>2, Zenon
  <1> HIDE DEF S
  <1> QED BY <1>3, <1>4, <1>5, LeastIs, Zenon DEF S, r

\* The list of each device: every DeviceCount-th insertion.
Dealt(dist, list, t, m) ==
    dist = [d \in Device |->
               [x \in 1 .. Shard(t + m, d) - Shard(t, d) |->
                   list[(Shard(t, d) + x - 1) * DeviceCount + d - t + 1]]]

\* distribute_insertions deals the k-th entry of its list to the device
\* on which index t + k is looked for.
LEMMA Distributed ==
    ASSUME NEW t \in Nat, NEW m \in Nat, NEW V, NEW list \in [1 .. m -> V]
    PROVE  Dealt(distribute_insertions(list, Sizes(t)), list, t, m)
  <1> DEFINE n == DeviceCount
             Turns(d) == {i \in 1 .. Len(list) : Ahead(t, d) + (i - 1) * n < Len(list)}
  <1>1. Len(list) = m
    OBVIOUS
  <1>2. distribute_insertions(list, Sizes(t)) =
            [d \in Device |-> [i \in Turns(d) |-> list[Ahead(t, d) + (i - 1) * n + 1]]]
    BY StartIs, Zenon DEF distribute_insertions, Ahead
  <1>3. n \in Nat \ {0}
    BY DeviceCountAssumption, Zenon
  <1>4. ASSUME NEW d \in Device, NEW i \in Int
        PROVE  (Shard(t, d) + i - 1) * n + d - t = Ahead(t, d) + (i - 1) * n
    <2>1. PICK s \in Nat : s = Shard(t, d)
      BY ShardLess, Zenon
    <2>2. PICK a \in Int : a = Ahead(t, d) /\ t + a = s * n + d
      BY <2>1, ShardNext
    <2>3. (s + i - 1) * n = s * n + (i - 1) * n
      BY <1>3
    <2>4. d \in Int
      BY <1>3 DEF Device
    <2>5. PICK x \in Int, y \in Int : x = s * n /\ y = (i - 1) * n
      BY <1>3
    <2>6. PICK w \in Int : w = (s + i - 1) * n
      BY <1>3
    <2>8. w = x + y /\ t + a = x + d
      BY <2>2, <2>3, <2>5, <2>6, Zenon
    <2>7. w + d - t = a + y
      BY <2>4, <2>8
    <2> QED BY <2>1, <2>2, <2>5, <2>6, <2>7, Zenon
  <1>5. ASSUME NEW d \in Device
        PROVE  Turns(d) = 1 .. Shard(t + m, d) - Shard(t, d)
    <2>1. PICK s \in Nat : s = Shard(t, d)
      BY ShardLess
    <2>2. PICK z \in Nat : z = Shard(t + m, d)
      BY ShardLess
    <2>3. PICK a \in Nat : a = Ahead(t, d)
      BY ShardNext
    <2>4. ASSUME NEW i \in Int PROVE a + (i - 1) * n < m <=> i <= z - s
      <3>1. PICK x \in Int : x = (s + i - 1) * n
        BY <1>3
      <3>2. PICK y \in Int : y = (i - 1) * n
        BY <1>3
      <3>3. x + d - t = a + y
        BY <1>4, <2>1, <2>3, <3>1, <3>2, Zenon
      <3>6. d \in Int
        BY <1>3 DEF Device
      <3>4. x + d < t + m <=> s + i - 1 < z
        BY <2>2, <3>1, ShardLess, SMTT(20)
      <3>5. a + y < m <=> x + d < t + m
        BY <3>3, <3>6
      <3> QED BY <3>2, <3>4, <3>5
    <2>5. ASSUME NEW i \in Nat \ {0}, a + (i - 1) * n < m PROVE i <= m
      <3>1. PICK y \in Int : y = (i - 1) * n
        BY <1>3
      <3>2. i - 1 <= y
        BY <1>3, <3>1
      <3> QED BY <2>5, <3>1, <3>2
    <2>6. Turns(d) = {i \in 1 .. m : a + (i - 1) * n < m}
      BY <1>1, <2>3, Zenon
    <2> HIDE DEF Turns
    <2>7. \A i : i \in Turns(d) <=> i \in 1 .. z - s
      <3>1. \A i \in Turns(d) : i \in 1 .. z - s
        BY <2>4, <2>6
      <3>2. ASSUME NEW i \in 1 .. z - s PROVE i \in Turns(d)
        <4>1. i \in Nat \ {0} /\ a + (i - 1) * n < m
          BY <2>4
        <4>2. i \in 1 .. m
          BY <2>5, <4>1
        <4> QED BY <2>6, <4>1, <4>2, Zenon
      <3> QED BY <3>1, <3>2, Zenon
    <2> QED BY <2>1, <2>2, <2>7, Zenon
  <1> HIDE DEF Turns
  <1>6. ASSUME NEW d \in Device
        PROVE  [i \in Turns(d) |-> list[Ahead(t, d) + (i - 1) * n + 1]]
                 = [x \in 1 .. Shard(t + m, d) - Shard(t, d) |->
                       list[(Shard(t, d) + x - 1) * n + d - t + 1]]
    <2>1. \A i \in 1 .. Shard(t + m, d) - Shard(t, d) :
              (Shard(t, d) + i - 1) * n + d - t + 1 = Ahead(t, d) + (i - 1) * n + 1
      BY <1>4
    <2> QED BY <1>5, <2>1, Zenon
  <1> QED BY <1>2, <1>6, Zenon DEF Dealt, n

\* The entry of index i, where the loader and the deletions look for it.
At(sl, i) == sl[i % DeviceCount][i \div DeviceCount]

\* An index within the limit has a slot.
LEMMA HasSlot ==
    ASSUME NEW i \in Nat, i < MaxDbSize
    PROVE  i % DeviceCount \in Device /\ i \div DeviceCount \in SlotNumbers
  <1>1. i % DeviceCount \in Device /\ i \div DeviceCount \in Nat /\ i \div DeviceCount <= i
    BY Place, Zenon
  <1> QED BY <1>1, LimitsAssumption DEF SlotNumbers

\* The index of a slot tells whether the slot is in use.
LEMMA InUse ==
    ASSUME NEW t \in Nat, NEW i \in Nat
    PROVE  i \div DeviceCount < Sizes(t)[i % DeviceCount] <=> i < t
  <1>1. PICK d \in Device : d = i % DeviceCount
    BY Place, Zenon
  <1>2. PICK s \in Nat : s = i \div DeviceCount
    BY Place, Zenon
  <1>3. i = s * DeviceCount + d
    BY <1>1, <1>2, Place, Zenon
  <1>4. i < t <=> s < Shard(t, d)
    BY <1>3, ShardLess
  <1> QED BY <1>1, <1>2, <1>4, Zenon DEF Sizes

\* The length of a function on 1 .. c.
LEMMA LenOf == ASSUME NEW c \in Nat, NEW V, NEW f \in [1 .. c -> V] PROVE Len(f) = c
  OBVIOUS

\* Insertion number k (from 0) is written where index t + k is looked for, and
\* what was there before stays.
LEMMA Written ==
    ASSUME NEW t \in Nat, NEW m \in Nat, t + m <= MaxDbSize,
           NEW list, NEW dist, Dealt(dist, list, t, m), NEW sl, NEW batch,
           NEW i \in 0 .. t + m - 1
    PROVE  At(WriteBack(sl, Sizes(t), dist, batch), i)
             = IF i < t THEN At(sl, i) ELSE batch[list[i - t + 1]]
  <1> DEFINE n == DeviceCount
  <1>1. i \in Nat /\ i < MaxDbSize /\ t + m \in Nat
    BY LimitsAssumption
  <1>2. PICK d \in Device : d = i % n
    BY <1>1, Place, Zenon
  <1>3. PICK s \in SlotNumbers : s = i \div n
    BY <1>1, HasSlot, Zenon
  <1>4. s \in Nat /\ i = s * n + d
    BY <1>1, <1>2, <1>3, Place, Zenon
  <1>5. PICK a \in Nat : a = Shard(t, d)
    BY ShardLess
  <1>6. PICK z \in Nat : z = Shard(t + m, d)
    BY <1>1, ShardLess
  <1>7. s < z /\ (i < t <=> s < a)
    BY <1>1, <1>4, <1>5, <1>6, ShardLess
  <1>8. dist[d] = [x \in 1 .. z - a |-> list[(a + x - 1) * n + d - t + 1]]
    BY <1>5, <1>6, Zenon DEF Dealt
  <1>9. Sizes(t)[d] = a
    BY <1>5, Zenon DEF Sizes
  <1>10. At(WriteBack(sl, Sizes(t), dist, batch), i)
           = IF s \in a .. a + Len(dist[d]) - 1 THEN batch[dist[d][s - a + 1]] ELSE sl[d][s]
    BY <1>2, <1>3, <1>9, Zenon DEF At, WriteBack
  <1>11. CASE i < t
    <2>1. s < a
      BY <1>7, <1>11, Zenon
    <2>2. ~(s \in a .. a + Len(dist[d]) - 1)
      BY <1>4, <2>1
    <2> QED BY <1>2, <1>3, <1>10, <1>11, <2>2, Zenon DEF At
  <1>12. CASE ~(i < t)
    <2>1. a <= s /\ s < z
      BY <1>4, <1>7, <1>12
    <2>2. Len(dist[d]) = z - a
      <3>1. PICK c \in Nat : c = z - a
        BY <1>4, <2>1
      <3>2. dist[d] \in [1 .. c -> {dist[d][x] : x \in 1 .. c}]
        BY <1>8, <3>1, Zenon
      <3> QED BY <3>1, <3>2, LenOf, Zenon
    <2>3. s \in a .. a + Len(dist[d]) - 1
      BY <1>4, <2>1, <2>2
    <2>4. PICK x \in 1 .. z - a : x = s - a + 1
      BY <1>4, <2>1
    <2>5. dist[d][x] = list[(a + x - 1) * n + d - t + 1]
      BY <1>8, <2>4, Zenon
    <2>6. a + x - 1 = s
      BY <1>4, <2>4
    <2>7. (a + x - 1) * n + d - t + 1 = i - t + 1
      <3>1. (a + x - 1) * n + d - t + 1 = s * n + d - t + 1
        BY <2>6, Zenon
      <3>2. s * n + d - t + 1 = i - t + 1
        <4>1. d \in Int /\ n \in Int
          BY DeviceCountAssumption DEF Device
        <4>2. PICK w \in Int : w = s * n
          BY <1>4, <4>1
        <4> QED BY <1>4, <4>1, <4>2
      <3> QED BY <3>1, <3>2, Zenon
    <2> QED BY <1>10, <1>12, <2>3, <2>4, <2>5, <2>7, Zenon
  <1> QED BY <1>11, <1>12, Zenon

\* A deletion hits the entry it names and no other.
LEMMA Deleted ==
    ASSUME NEW t \in Nat, t <= MaxDbSize, NEW sl, NEW dels \in SUBSET Nat,
           NEW i \in 0 .. t - 1
    PROVE  At(PerformDeletions(sl, Sizes(t), dels), i) = IF i \in dels THEN Dummy ELSE At(sl, i)
  <1> DEFINE n == DeviceCount
  <1>1. i \in Nat /\ i < MaxDbSize /\ i < t
    BY LimitsAssumption
  <1>2. PICK d \in Device : d = i % n
    BY <1>1, Place, Zenon
  <1>3. PICK s \in SlotNumbers : s = i \div n
    BY <1>1, HasSlot, Zenon
  <1>4. s < Sizes(t)[d]
    BY <1>1, <1>2, <1>3, InUse, Zenon
  <1>5. (\E k \in dels : k % n = d /\ k \div n = s) <=> i \in dels
    <2>1. ASSUME NEW k \in dels, k % n = d, k \div n = s PROVE k = i
      <3>1. k = s * n + d
        BY <2>1, Place, Zenon
      <3>2. i = s * n + d
        BY <1>1, <1>2, <1>3, Place, Zenon
      <3> QED BY <3>1, <3>2, Zenon
    <2> QED BY <1>2, <1>3, <2>1, Zenon
  <1>6. At(PerformDeletions(sl, Sizes(t), dels), i)
          = IF s < Sizes(t)[d] /\ \E k \in dels : k % n = d /\ k \div n = s THEN Dummy ELSE sl[d][s]
    BY <1>2, <1>3, Zenon DEF At, PerformDeletions
  <1> QED BY <1>2, <1>3, <1>4, <1>5, <1>6, Zenon DEF At

-----------------------------------------------------------------------------
(* The results of the comparison.                                          *)

\* The words are wide enough for indices and batch positions side by side.
LEMMA Wide ==
    /\ U32 \in Nat
    /\ MaxDbSize + MaxBatchSize + 2 < U32
    /\ 2 * DeviceCount < U32
  <1>1. PICK u \in Nat : u = 2^W /\ DeviceCount * (MaxDbSize + 2) + MaxBatchSize < u
    BY WidthAssumption, Zenon
  <1>2. PICK n \in Nat \ {0} : n = DeviceCount
    BY DeviceCountAssumption, Zenon
  <1>3. PICK k \in Nat : k = MaxDbSize + 2 /\ 2 <= k
    BY LimitsAssumption
  <1>4. PICK x \in Int : x = n * k
    OBVIOUS
  <1>5. k <= x
    BY <1>4
  <1>6. 2 * n <= x
    BY <1>3, <1>4
  <1>7. x + MaxBatchSize < u
    BY <1>1, <1>2, <1>3, <1>4, Zenon
  <1> QED BY <1>1, <1>2, <1>3, <1>5, <1>6, <1>7, LimitsAssumption DEF U32

\* The hits on a device are the slots in use that match in both eyes.
LEMMA DbHitsAre ==
    ASSUME NEW t \in Nat, NEW sl, NEW d \in Device, NEW q
    PROVE  DbHits(sl, Sizes(t), d, q)
             = {s \in 0 .. Shard(t, d) - 1 : LeftMatch(q, sl[d][s]) /\ RightMatch(q, sl[d][s])}
  <1>1. EyeHits(sl, Sizes(t), d, q, "left") = {s \in 0 .. Shard(t, d) - 1 : LeftMatch(q, sl[d][s])}
    BY Zenon DEF EyeHits, Sizes
  <1>2. EyeHits(sl, Sizes(t), d, q, "right") = {s \in 0 .. Shard(t, d) - 1 : RightMatch(q, sl[d][s])}
    BY Zenon DEF EyeHits, Sizes
  <1> QED BY <1>1, <1>2, Zenon DEF DbHits

\* A hit is a slot in use.
LEMMA DbHitsAreSlots ==
    ASSUME NEW t \in Nat, NEW sl, NEW d \in Device, NEW q, NEW s \in DbHits(sl, Sizes(t), d, q)
    PROVE  s \in 0 .. Shard(t, d) - 1
  <1>1. s \in EyeHits(sl, Sizes(t), d, q, "left")
    BY Zenon DEF DbHits
  <1>2. s \in 0 .. Sizes(t)[d] - 1
    BY <1>1, Zenon DEF EyeHits
  <1>3. Sizes(t)[d] = Shard(t, d)
    BY Zenon DEF Sizes
  <1> QED BY <1>2, <1>3, Zenon

\* A slot that matches is the slot of an index below t, so it is below u32::MAX,
\* also when it is made an index.
LEMMA SlotIsSmall ==
    ASSUME NEW t \in Nat, t <= MaxDbSize, NEW d \in Device, NEW s \in 0 .. Shard(t, d) - 1
    PROVE  s \in Nat /\ s <= s * DeviceCount + d /\ s * DeviceCount + d \in Nat /\ s * DeviceCount + d < t
  <1>1. Shard(t, d) \in Nat /\ s \in Nat
    BY ShardLess
  <1>2. s * DeviceCount + d < t
    BY <1>1, ShardLess
  <1>3. s * DeviceCount + d \in Nat /\ (s * DeviceCount + d) \div DeviceCount = s
    BY <1>1, Index, Zenon
  <1> QED BY <1>1, <1>2, <1>3, Place, Zenon

\* What a device reports of a query: nothing exactly if it has no hit and the
\* batch no earlier match, else one of its hits or the mark of a match in the batch.
LEMMA HostResultIs ==
    ASSUME NEW t \in Nat, t <= MaxDbSize, NEW sl, NEW batch, NEW d \in Device, NEW j
    PROVE  LET h == HostResult(sl, Sizes(t), batch, d, j)
               hits == DbHits(sl, Sizes(t), d, batch[j])
               twins == BatchHits(batch, j)
           IN  /\ h = NON_MATCH_ID \/ h \in hits \/ h = NON_MATCH_ID - 1
               /\ h = NON_MATCH_ID <=> hits = {} /\ twins = {}
  <1> DEFINE h == HostResult(sl, Sizes(t), batch, d, j)
             hits == DbHits(sl, Sizes(t), d, batch[j])
             twins == BatchHits(batch, j)
             X == {NON_MATCH_ID} \cup hits \cup {MAX - 1 : i \in twins}
  <1>1. h = Min(X)
    BY Zenon DEF HostResult
  <1>2. PICK x \in Nat : x = NON_MATCH_ID /\ x = MAX /\ MaxDbSize < x - 1 /\ x - 1 \in Nat
    BY Wide, LimitsAssumption DEF NON_MATCH_ID, MAX
  <1>3. \A s \in hits : s \in Nat /\ s < x - 1
    <2> SUFFICES ASSUME NEW s \in hits PROVE s \in Nat /\ s < x - 1
      BY Zenon
    <2>1. s \in 0 .. Shard(t, d) - 1
      BY DbHitsAre
    <2> HIDE DEF hits
    <2>2. PICK y \in Nat : s \in Nat /\ s <= y /\ y < t
      BY <2>1, SlotIsSmall, Zenon
    <2> QED BY <1>2, <2>2, LimitsAssumption
  <1> HIDE DEF h, hits, twins
  <1>4. X \in SUBSET Nat /\ X # {} /\ x \in X
    BY <1>2, <1>3, Zenon
  <1>5. h \in X /\ \A y \in X : h <= y
    BY <1>1, <1>4, LeastOf, Zenon
  <1>6. h = NON_MATCH_ID \/ h \in hits \/ h = NON_MATCH_ID - 1
    BY <1>2, <1>5, Zenon
  <1>7. ASSUME h = NON_MATCH_ID PROVE hits = {} /\ twins = {}
    <2>1. ASSUME NEW s \in hits PROVE FALSE
      <3>1. s \in X
        BY Zenon
      <3>2. x <= s
        BY <1>2, <1>5, <1>7, <3>1, Zenon
      <3> QED BY <1>2, <1>3, <3>2
    <2>2. \A i \in twins : x - 1 \in X
      BY <1>2, Zenon
    <2>3. ~(x - 1 \in X)
      <3> SUFFICES ASSUME x - 1 \in X PROVE FALSE
        BY Zenon
      <3>1. x <= x - 1
        BY <1>2, <1>5, <1>7, Zenon
      <3> QED BY <3>1
    <2> QED BY <2>1, <2>2, <2>3, Zenon
  <1>8. ASSUME hits = {}, twins = {} PROVE h = NON_MATCH_ID
    <2>1. X = {NON_MATCH_ID}
      BY <1>8, Zenon
    <2> QED BY <1>5, <2>1, Zenon
  <1> QED BY <1>6, <1>7, <1>8, Zenon DEF h, hits, twins

\* A query has no merged result when no device and no earlier query matches:
\* no result of a device becomes u32::MAX when it is made an index.
LEMMA MergedIs ==
    ASSUME NEW t \in Nat, t <= MaxDbSize, NEW sl, NEW batch, NEW j
    PROVE  get_merged_results(sl, Sizes(t), batch, j) = NON_MATCH_ID
             <=> /\ \A d \in Device : DbHits(sl, Sizes(t), d, batch[j]) = {}
                 /\ BatchHits(batch, j) = {}
  <1> DEFINE Host(d) == HostResult(sl, Sizes(t), batch, d, j)
             Hit == {d \in Device : Host(d) # NON_MATCH_ID}
             Global(d) == (Host(d) * DeviceCount + d) % U32
             X == {NON_MATCH_ID} \cup {Global(d) : d \in Hit}
  <1>1. get_merged_results(sl, Sizes(t), batch, j) = Min(X)
    BY Zenon DEF get_merged_results
  <1>2. PICK u \in Nat : u = U32 /\ NON_MATCH_ID = u - 1 /\ u - 1 \in Nat /\ MaxDbSize + 2 < u
                         /\ 2 * DeviceCount < u
    BY Wide, LimitsAssumption DEF NON_MATCH_ID, MAX
  <1>3. PICK n \in Nat \ {0} : n = DeviceCount
    BY DeviceCountAssumption, Zenon
  <1>4. ASSUME NEW d \in Hit PROVE Global(d) \in Nat /\ Global(d) < u - 1
    <2>1. d \in Device /\ d \in 0 .. n - 1
      BY <1>3, Zenon DEF Device
    <2>2. Host(d) \in DbHits(sl, Sizes(t), d, batch[j]) \/ Host(d) = NON_MATCH_ID - 1
      BY <2>1, HostResultIs, Zenon
    <2> HIDE DEF Host
    <2>3. CASE Host(d) \in DbHits(sl, Sizes(t), d, batch[j])
      <3>1. Host(d) \in 0 .. Shard(t, d) - 1
        <4>1. PICK s : s = Host(d)
          BY Zenon
        <4>2. s \in DbHits(sl, Sizes(t), d, batch[j])
          BY <2>3, <4>1, Zenon
        <4>3. s \in 0 .. Shard(t, d) - 1
          BY <2>1, <4>2, DbHitsAreSlots, Zenon
        <4> QED BY <4>1, <4>3, Zenon
      <3>2. PICK y \in Nat : y = Host(d) * DeviceCount + d /\ y < t
        BY <2>1, <3>1, SlotIsSmall, Zenon
      <3>3. y % u = y /\ y < u - 1
        BY <1>2, <3>2, LimitsAssumption
      <3> QED BY <1>2, <3>2, <3>3, Zenon
    <2>4. CASE Host(d) = NON_MATCH_ID - 1
      <3>1. Host(d) = u - 2
        BY <1>2, <2>4
      <3>2. PICK r \in 0 .. u - 1 : r = u - 2 * n + d /\ r < u - 1
        BY <1>2, <1>3, <2>1
      <3>3. PICK a \in Int : a = (u - 2) * n + d
        BY <2>1
      <3>4. a = (n - 1) * u + r
        <4>1. PICK w \in Int : w = u * n
          OBVIOUS
        <4>2. (u - 2) * n = w - 2 * n /\ (n - 1) * u = w - u
          BY <4>1
        <4> QED BY <2>1, <3>2, <3>3, <4>2
      <3>5. u \in Nat \ {0} /\ n - 1 \in Int
        BY <1>2, LimitsAssumption
      <3>6. a % u = r
        BY <3>4, <3>5, Unique
      <3> QED BY <1>2, <1>3, <3>1, <3>2, <3>3, <3>6
    <2> QED BY <2>2, <2>3, <2>4, Zenon
  <1>5. (\A d \in Device : Host(d) = NON_MATCH_ID)
          <=> /\ \A d \in Device : DbHits(sl, Sizes(t), d, batch[j]) = {}
              /\ BatchHits(batch, j) = {}
    <2>1. Device # {}
      BY DeviceCountAssumption DEF Device
    <2>2. \A d \in Device : Host(d) = NON_MATCH_ID
                              <=> DbHits(sl, Sizes(t), d, batch[j]) = {} /\ BatchHits(batch, j) = {}
      BY HostResultIs, Zenon
    <2> QED BY <2>1, <2>2, Zenon
  <1> HIDE DEF Global, Host
  <1>6. X \in SUBSET Nat /\ X # {}
    BY <1>2, <1>4, Zenon
  <1>7. Min(X) \in X /\ \A y \in X : Min(X) <= y
    BY <1>6, LeastOf, Zenon
  <1>8. Min(X) = NON_MATCH_ID <=> Hit = {}
    <2>1. ASSUME Min(X) = NON_MATCH_ID, NEW d \in Hit PROVE FALSE
      <3>1. PICK g \in Nat : g = Global(d) /\ g < u - 1 /\ g \in X
        BY <1>4, Zenon
      <3> QED BY <1>2, <1>7, <2>1, <3>1
    <2>2. ASSUME Hit = {} PROVE Min(X) = NON_MATCH_ID
      <3>1. X = {NON_MATCH_ID}
        BY <2>2, Zenon
      <3> QED BY <1>7, <3>1, Zenon
    <2> QED BY <2>1, <2>2, Zenon
  <1> QED BY <1>1, <1>5, <1>8, Zenon

-----------------------------------------------------------------------------
(* The invariant.                                                          *)

Match(q, e) == LeftMatch(q, e) /\ RightMatch(q, e)

Loaded == (0 .. Len(store) - 1) \ pending

Loading ==
    phase = "loading" =>
        /\ slots \in [Device -> [SlotNumbers -> Iris \cup {Dummy, Empty}]]
        /\ current_db_sizes \in [Device -> Nat]
        /\ \A i \in Loaded : At(slots, i) = store[i + 1]
        /\ \A d \in Device : current_db_sizes[d] = Cardinality({i \in Loaded : i % DeviceCount = d})

\* The devices hold t records, dealt out in turn, and none matches an earlier
\* one.
Served(t) ==
    /\ t <= MaxDbSize
    /\ current_db_sizes = Sizes(t)
    /\ \A i \in 0 .. t - 1 : At(slots, i) \in Iris \cup {Dummy}
    /\ \A k \in 0 .. t - 1 : \A i \in 0 .. k - 1 : ~Match(At(slots, k), At(slots, i))

Inv ==
    /\ phase \in {"loading", "serving", "failed"}
    /\ store \in Stores /\ pending \subseteq 0 .. Len(store) - 1
    /\ job # NoJob => job \in [batch : Batches, deletions : DeletionRequests]
    /\ Loading
    /\ phase # "loading" => \E t \in Nat : Served(t)

\* The invariant holds at the start, when nothing is loaded.
LEMMA InitInv == Init => Inv
  <1> SUFFICES ASSUME Init PROVE Inv
    BY Zenon
  <1>1. Loaded = {}
    BY Zenon DEF Init, Loaded
  <1>2. \A d \in Device : {i \in Loaded : i % DeviceCount = d} = {}
    BY <1>1, Zenon
  <1>3. Loading
    BY <1>1, <1>2, FS_EmptySet, Zenon DEF Init, Loading
  <1> QED BY <1>3, Zenon DEF Init, Inv

\* How many of the first t indices are looked for on device d.
LEMMA ShardCount ==
    ASSUME NEW t \in Nat, NEW d \in Device
    PROVE  Cardinality({i \in 0 .. t - 1 : i % DeviceCount = d}) = Shard(t, d)
  <1> DEFINE n == DeviceCount
             S == 0 .. Shard(t, d) - 1
             T == {i \in 0 .. t - 1 : i % n = d}
             f == [s \in S |-> s * n + d]
  <1>1. Shard(t, d) \in Nat
    BY ShardLess
  <1>2. ASSUME NEW s \in S PROVE f[s] \in T /\ f[s] \div n = s
    <2>1. PICK i \in Nat : i = s * n + d /\ i % n = d /\ i \div n = s
      BY <1>1, Index
    <2>2. i < t
      BY <1>1, <2>1, ShardLess
    <2> QED BY <2>1, <2>2
  <1>3. ASSUME NEW i \in T PROVE \E s \in S : f[s] = i
    <2>1. PICK s \in Nat : s = i \div n /\ i = s * n + d
      BY Place
    <2>2. s \in S
      BY <1>1, <2>1, ShardLess
    <2> QED BY <2>1, <2>2, Zenon
  <1>4. IsFiniteSet(S) /\ Cardinality(S) = Shard(t, d)
    <2>1. PICK c \in Nat : c = Shard(t, d)
      BY <1>1, Zenon
    <2>2. IsFiniteSet(0 .. c - 1) /\ Cardinality(0 .. c - 1) = c
      <3>1. c - 1 \in Int /\ 0 \in Int
        OBVIOUS
      <3>2. Cardinality(0 .. c - 1) = IF 0 > c - 1 THEN 0 ELSE (c - 1) - 0 + 1
        BY <3>1, FS_Interval, Zenon
      <3>3. IsFiniteSet(0 .. c - 1)
        BY <3>1, FS_Interval, Zenon
      <3> QED BY <3>2, <3>3
    <2> QED BY <2>1, <2>2, Zenon
  <1>5. f \in [S -> T]
    BY <1>2, Zenon
  <1> HIDE DEF f, S, T
  <1>6. f \in Injection(S, T)
    <2>1. \A a, b \in S : f[a] = f[b] => a = b
      BY <1>2, Zenon
    <2> QED BY <1>5, <2>1, Zenon DEF Injection, IsInjective
  <1>7. f \in Surjection(S, T)
    BY <1>3, <1>5, Zenon DEF Surjection
  <1>8. ExistsBijection(S, T)
    BY <1>6, <1>7, Zenon DEF ExistsBijection, Bijection
  <1> QED BY <1>4, <1>8, FS_Bijection, Zenon DEF T

\* A record is loaded into the slot its index belongs to.
LEMMA LoadRecordInv == ASSUME Inv, NEW i \in pending, LoadRecord(i) PROVE Inv'
  <1> DEFINE n == DeviceCount
             Of(d) == {k \in Loaded : k % n = d}
  <1>0. /\ slots \in [Device -> [SlotNumbers -> Iris \cup {Dummy, Empty}]]
        /\ current_db_sizes \in [Device -> Nat]
    BY Zenon DEF LoadRecord, Inv, Loading
  <1>1. /\ phase = "loading" /\ UNCHANGED <<phase, store, job>>
        /\ pending' = pending \ {i}
        /\ slots' = [slots EXCEPT ![i % n][i \div n] = store[i + 1]]
        /\ current_db_sizes' = [current_db_sizes EXCEPT ![i % n] = @ + 1]
    BY Zenon DEF LoadRecord
  <1>2. store \in Seq(Iris \cup {Dummy}) /\ Len(store) \in Nat /\ Len(store) <= MaxDbSize
    BY StoresAssumption DEF Inv
  <1>3. i \in 0 .. Len(store) - 1 /\ i \in Nat /\ i < MaxDbSize /\ i + 1 \in 1 .. Len(store)
    BY <1>2, LimitsAssumption DEF Inv
  <1>4. i % n \in Device /\ i \div n \in SlotNumbers /\ store[i + 1] \in Iris \cup {Dummy}
    BY <1>2, <1>3, HasSlot
  <1>5. Loaded' = Loaded \cup {i} /\ i \notin Loaded /\ Loaded \subseteq 0 .. Len(store) - 1
    BY <1>1, <1>3, Zenon DEF Loaded
  <1>6. slots' \in [Device -> [SlotNumbers -> Iris \cup {Dummy, Empty}]]
    BY <1>0, <1>1, <1>4, Zenon
  <1>7. \A k \in Loaded' : At(slots', k) = store[k + 1]
    <2>1. At(slots', i) = store[i + 1]
      BY <1>0, <1>1, <1>4, Zenon DEF At
    <2>2. ASSUME NEW k \in Loaded PROVE At(slots', k) = store[k + 1]
      <3>1. k \in Nat /\ k < MaxDbSize /\ k # i
        BY <1>2, <1>5, LimitsAssumption
      <3>2. k % n \in Device /\ k \div n \in SlotNumbers
        BY <3>1, HasSlot, Zenon
      <3>3. ~(k % n = i % n /\ k \div n = i \div n)
        BY <1>3, <3>1, Place, Zenon
      <3>4. At(slots', k) = At(slots, k)
        BY <1>0, <1>1, <1>4, <3>2, <3>3, Zenon DEF At
      <3> QED BY <1>1, <3>4, Zenon DEF Inv, Loading
    <2> QED BY <1>5, <2>1, <2>2, Zenon
  <1>8. \A d \in Device : current_db_sizes'[d] = Cardinality({k \in Loaded' : k % n = d})
    <2> SUFFICES ASSUME NEW d \in Device
                 PROVE  current_db_sizes'[d] = Cardinality({k \in Loaded' : k % n = d})
      BY Zenon
    <2>1. IsFiniteSet(Of(d))
      <3>1. IsFiniteSet(0 .. Len(store) - 1)
        BY <1>2, FS_Interval
      <3>2. Of(d) \in SUBSET (0 .. Len(store) - 1)
        BY <1>5, Zenon
      <3> QED BY <3>1, <3>2, FS_Subset, Zenon
    <2>2. current_db_sizes[d] = Cardinality(Of(d)) /\ current_db_sizes[d] \in Nat
      BY <1>1, Zenon DEF Inv, Loading
    <2>3. CASE d = i % n
      <3>1. {k \in Loaded' : k % n = d} = Of(d) \cup {i} /\ i \notin Of(d)
        BY <1>5, <2>3, Zenon
      <3>2. Cardinality(Of(d) \cup {i}) = Cardinality(Of(d)) + 1
        BY <2>1, <3>1, FS_AddElement, Zenon
      <3>3. current_db_sizes'[d] = current_db_sizes[d] + 1
        BY <1>0, <1>1, <2>3, Zenon
      <3> QED BY <2>2, <3>1, <3>2, <3>3, Zenon
    <2>4. CASE d # i % n
      <3>1. {k \in Loaded' : k % n = d} = Of(d)
        BY <1>5, <2>4, Zenon
      <3>2. current_db_sizes'[d] = current_db_sizes[d]
        BY <1>0, <1>1, <2>4, Zenon
      <3> QED BY <2>2, <3>1, <3>2, Zenon
    <2> QED BY <2>3, <2>4, Zenon
  <1>9. current_db_sizes' \in [Device -> Nat]
    BY <1>0, <1>1, <1>4
  <1>10. Loading'
    BY <1>1, <1>6, <1>7, <1>8, <1>9, Zenon DEF Loading
  <1> QED BY <1>1, <1>10, Zenon DEF Inv

\* The loader leaves the store of the start on the devices.
LEMMA FinishLoadingServes == ASSUME Inv, FinishLoading PROVE Served(Len(store)) /\ Len(store) \in Nat
  <1> DEFINE t == Len(store)
  <1>1. phase = "loading" /\ pending = {}
    BY Zenon DEF FinishLoading
  <1>2. store \in Seq(Iris \cup {Dummy}) /\ t \in Nat /\ t <= MaxDbSize
    BY StoresAssumption DEF Inv
  <1>3. Loaded = 0 .. t - 1
    BY <1>1, Zenon DEF Loaded
  <1>4. current_db_sizes = Sizes(t)
    <2>1. \A d \in Device : current_db_sizes[d] = Shard(t, d)
      BY <1>1, <1>2, <1>3, ShardCount, Zenon DEF Inv, Loading
    <2> QED BY <1>1, <2>1, Zenon DEF Inv, Loading, Sizes
  <1>5. \A i \in 0 .. t - 1 : At(slots, i) = store[i + 1] /\ i + 1 \in 1 .. t
    BY <1>1, <1>2, <1>3 DEF Inv, Loading
  <1>6. \A i \in 0 .. t - 1 : At(slots, i) \in Iris \cup {Dummy}
    BY <1>2, <1>5
  <1>7. ASSUME NEW k \in 0 .. t - 1, NEW i \in 0 .. k - 1 PROVE ~Match(At(slots, k), At(slots, i))
    <2>1. k + 1 \in 1 .. t /\ i + 1 \in 1 .. (k + 1) - 1 /\ i \in 0 .. t - 1
      BY <1>2
    <2>2. ~(LeftMatch(store[k + 1], store[i + 1]) /\ RightMatch(store[k + 1], store[i + 1]))
      BY <2>1, StoresAssumption, Zenon DEF Inv
    <2> QED BY <1>5, <2>1, <2>2, Zenon DEF Match
  <1> QED BY <1>2, <1>4, <1>6, <1>7, Zenon DEF Served

\* When nothing is pending the store is dealt out in turn.
LEMMA FinishLoadingInv == Inv /\ FinishLoading => Inv'
  <1> SUFFICES ASSUME Inv, FinishLoading PROVE Inv'
    BY Zenon
  <1>1. Served(Len(store)) /\ Len(store) \in Nat
    BY FinishLoadingServes, Zenon
  <1>2. phase' = "serving" /\ UNCHANGED <<pending, store, slots, current_db_sizes, job>>
    BY Zenon DEF FinishLoading
  <1>3. Served(Len(store))'
    BY <1>1, <1>2, Zenon DEF Served
  <1>4. Loading'
    BY <1>2, Zenon DEF Loading
  <1> QED BY <1>1, <1>2, <1>3, <1>4, Zenon DEF Inv

\* Handing over a job leaves the database alone.
LEMMA SubmitInv ==
    ASSUME Inv, NEW batch \in Batches, NEW deletions \in DeletionRequests,
           submit_batch_query(batch, deletions)
    PROVE  Inv'
  <1>1. /\ phase = "serving"
        /\ UNCHANGED <<phase, pending, store, slots, current_db_sizes>>
        /\ job' = [batch |-> batch, deletions |-> deletions]
    BY Zenon DEF submit_batch_query
  <1>2. \E t \in Nat : Served(t)'
    BY <1>1, Zenon DEF Inv, Served
  <1>3. Loading'
    BY <1>1, Zenon DEF Loading
  <1> QED BY <1>1, <1>2, <1>3, Zenon DEF Inv

-----------------------------------------------------------------------------
(* A batch.                                                                *)

\* No device has a hit when no index has one.
LEMMA NoHits ==
    ASSUME NEW t \in Nat, NEW sl, NEW q
    PROVE  (\A d \in Device : DbHits(sl, Sizes(t), d, q) = {})
             <=> \A i \in 0 .. t - 1 : ~Match(q, At(sl, i))
  <1> DEFINE n == DeviceCount
  <1>1. ASSUME NEW d \in Device, NEW s
        PROVE  s \in DbHits(sl, Sizes(t), d, q) <=> s \in 0 .. Shard(t, d) - 1 /\ Match(q, sl[d][s])
    BY DbHitsAre DEF Match
  <1>2. ASSUME NEW i \in 0 .. t - 1, Match(q, At(sl, i))
        PROVE  \E d \in Device : DbHits(sl, Sizes(t), d, q) # {}
    <2>1. PICK d \in Device : d = i % n
      BY Place
    <2>2. PICK s \in Nat : s = i \div n
      BY Place
    <2>3. s < Shard(t, d) /\ Shard(t, d) \in Nat
      <3>1. i \in Nat /\ i < t
        OBVIOUS
      <3>2. s < Sizes(t)[d]
        BY <2>1, <2>2, <3>1, InUse, Zenon
      <3> QED BY <3>2, ShardLess DEF Sizes
    <2>4. s \in 0 .. Shard(t, d) - 1
      BY <2>3
    <2>5. Match(q, sl[d][s])
      BY <1>2, <2>1, <2>2, Zenon DEF At
    <2> QED BY <1>1, <2>4, <2>5, Zenon
  <1>3. ASSUME NEW d \in Device, NEW s \in DbHits(sl, Sizes(t), d, q)
        PROVE  \E i \in 0 .. t - 1 : Match(q, At(sl, i))
    <2>1. s \in 0 .. Shard(t, d) - 1 /\ Match(q, sl[d][s])
      BY <1>1, Zenon
    <2>2. Shard(t, d) \in Nat /\ s \in Nat /\ s < Shard(t, d)
      BY <2>1, ShardLess
    <2>3. PICK i \in Nat : i = s * n + d /\ i % n = d /\ i \div n = s /\ i < t
      BY <2>2, Index, ShardLess
    <2>4. Match(q, At(sl, i))
      BY <2>1, <2>3, Zenon DEF At
    <2> QED BY <2>3, <2>4
  <1> QED BY <1>2, <1>3, Zenon

\* The batch has no earlier match of a query exactly if mergeBatchResults finds none.
LEMMA NoTwins ==
    ASSUME NEW batch, NEW j \in Nat
    PROVE  BatchHits(batch, j) = {} <=> \A i \in 1 .. j - 1 : ~Match(batch[j], batch[i])
  <1>1. ASSUME NEW i \in 1 .. j - 1, Match(batch[j], batch[i]) PROVE i - 1 \in BatchHits(batch, j)
    <2>1. i - 1 \in 0 .. j - 2 /\ (i - 1) + 1 = i
      OBVIOUS
    <2> QED BY <1>1, <2>1, Zenon DEF BatchHits, Match
  <1>2. ASSUME NEW i \in BatchHits(batch, j) PROVE \E k \in 1 .. j - 1 : Match(batch[j], batch[k])
    <2>1. i \in 0 .. j - 2 /\ Match(batch[j], batch[i + 1])
      BY Zenon DEF BatchHits, Match
    <2>2. i + 1 \in 1 .. j - 1
      BY <2>1
    <2> QED BY <2>1, <2>2, Zenon
  <1> QED BY <1>1, <1>2, Zenon

\* A batch is a sequence of at most MaxBatchSize irises.
LEMMA BatchLength ==
    ASSUME NEW batch \in Batches
    PROVE  \E k \in Nat : k <= MaxBatchSize /\ k = Len(batch) /\ DOMAIN batch = 1 .. k
                          /\ batch \in [1 .. k -> Iris]
  <1>1. PICK k \in 0 .. MaxBatchSize : batch \in [1 .. k -> Iris]
    BY Zenon DEF Batches
  <1>2. k \in Nat /\ k <= MaxBatchSize
    BY LimitsAssumption
  <1>3. Len(batch) = k
    BY <1>1, <1>2, LenOf, Zenon
  <1> QED BY <1>1, <1>2, <1>3, Zenon

\* The list of one device.
DeviceList(l, list, t, d, c) ==
    l = [x \in 1 .. c |-> list[(Shard(t, d) + x - 1) * DeviceCount + d - t + 1]]

\* What is dealt to one device, and how much.
LEMMA DealtList ==
    ASSUME NEW t \in Nat, NEW m \in Nat, NEW list, NEW dist, Dealt(dist, list, t, m),
           NEW d \in Device
    PROVE  \E c \in Nat :
               /\ c = Shard(t + m, d) - Shard(t, d)
               /\ DeviceList(dist[d], list, t, d, c)
               /\ Len(dist[d]) = c
  <1>1. PICK u \in Nat : u = t + m
    OBVIOUS
  <1>2. PICK a \in Nat, z \in Nat : a = Shard(t, d) /\ z = Shard(u, d)
    BY ShardLess
  <1>3. a <= z
    <2> SUFFICES ASSUME z < a PROVE FALSE
      OBVIOUS
    <2>1. z * DeviceCount + d < t
      BY <1>2, ShardLess
    <2>2. ~(z * DeviceCount + d < u)
      BY <1>2, ShardLess
    <2>3. PICK x \in Int : x = z * DeviceCount + d
      BY Index
    <2> QED BY <1>1, <2>1, <2>2, <2>3
  <1>4. PICK c \in Nat : c = z - a
    BY <1>3
  <1>5. dist[d] = [x \in 1 .. Shard(t + m, d) - Shard(t, d) |->
                      list[(Shard(t, d) + x - 1) * DeviceCount + d - t + 1]]
    BY Zenon DEF Dealt
  <1>6. c = Shard(t + m, d) - Shard(t, d)
    BY <1>1, <1>2, <1>4, Zenon
  <1>7. dist[d] = [x \in 1 .. c |-> list[(Shard(t, d) + x - 1) * DeviceCount + d - t + 1]]
    BY <1>5, <1>6, Zenon
  <1>8. dist[d] \in [1 .. c -> {dist[d][x] : x \in 1 .. c}]
    BY <1>7, Zenon
  <1>9. Len(dist[d]) = c
    BY <1>8, LenOf, Zenon
  <1> QED BY <1>6, <1>7, <1>9, Zenon DEF DeviceList

\* The new queries of a batch, listed in order and dealt out over the devices.
Placed(sl, t, batch, list, dist, m) ==
    /\ m <= MaxBatchSize
    /\ list \in [1 .. m -> DOMAIN batch]
    /\ \A a, b \in 1 .. m : a < b => list[a] < list[b]
    /\ \A v \in 1 .. m : /\ \A i \in 0 .. t - 1 : ~Match(batch[list[v]], At(sl, i))
                         /\ \A i \in 1 .. list[v] - 1 : ~Match(batch[list[v]], batch[i])
    /\ Dealt(dist, list, t, m)
    /\ [d \in Device |-> Sizes(t)[d] + Len(dist[d])] = Sizes(t + m)
    /\ SumOver([d \in Device |-> Len(dist[d])]) = m

\* The insertion list of a batch, dealt out, is in place: ascending, new, and
\* each entry where its index is looked for.
LEMMA Insertions ==
    ASSUME NEW t \in Nat, t <= MaxDbSize, NEW batch \in Batches, NEW sl,
           NEW list, list = insertion_list(sl, Sizes(t), batch),
           NEW dist, dist = distribute_insertions(list, Sizes(t))
    PROVE  \E m \in Nat : Placed(sl, t, batch, list, dist, m)
  <1> DEFINE S == {j \in DOMAIN batch :
                      /\ get_merged_results(sl, Sizes(t), batch, j) = NON_MATCH_ID
                      /\ PartialMatches(sl, Sizes(t), batch[j], "left") <= SupermatchThreshold
                      /\ PartialMatches(sl, Sizes(t), batch[j], "right") <= SupermatchThreshold}
  <1>1. list = Ascending(S)
    BY Zenon DEF insertion_list
  <1>2. PICK k \in Nat : DOMAIN batch = 1 .. k /\ k <= MaxBatchSize
    BY BatchLength, Zenon
  <1>3. S \in SUBSET (1 .. k)
    BY <1>2, Zenon
  <1>4. ASSUME NEW j \in S
        PROVE  /\ \A i \in 0 .. t - 1 : ~Match(batch[j], At(sl, i))
               /\ \A i \in 1 .. j - 1 : ~Match(batch[j], batch[i])
    <2>1. get_merged_results(sl, Sizes(t), batch, j) = NON_MATCH_ID /\ j \in Nat
      BY <1>3
    <2> HIDE DEF S
    <2>2. /\ \A d \in Device : DbHits(sl, Sizes(t), d, batch[j]) = {}
          /\ BatchHits(batch, j) = {}
      BY <2>1, MergedIs, Zenon
    <2> QED BY <2>1, <2>2, NoHits, NoTwins, Zenon
  <1> HIDE DEF S
  <1>5. PICK m \in Nat : /\ m <= MaxBatchSize
                         /\ list \in [1 .. m -> S]
                         /\ \A a, b \in 1 .. m : a < b => list[a] < list[b]
    <2>1. PICK m : m = Cardinality(S)
      BY Zenon
    <2>2. m \in Nat
      BY <1>3, <2>1, AscendingLists, Zenon
    <2>3. list \in [1 .. m -> S]
      BY <1>1, <1>3, <2>1, AscendingLists, Zenon
    <2>4. \A a, b \in 1 .. m : a < b => list[a] < list[b]
      BY <1>1, <1>3, <2>1, AscendingLists, Zenon
    <2>5. m <= MaxBatchSize
      <3>1. IsFiniteSet(1 .. k) /\ Cardinality(1 .. k) = k
        BY FS_Interval
      <3>2. Cardinality(S) <= Cardinality(1 .. k)
        BY <1>3, <3>1, FS_Subset, Zenon
      <3> QED BY <1>2, <2>1, <2>2, <3>1, <3>2, LimitsAssumption
    <2> QED BY <2>2, <2>3, <2>4, <2>5, Zenon
  <1>6. Dealt(dist, list, t, m)
    BY <1>5, Distributed, Zenon
  <1>7. ASSUME NEW d \in Device PROVE Len(dist[d]) = Shard(t + m, d) - Shard(t, d)
    BY <1>6, DealtList, SMTT(20)
  <1>8. SumOver([d \in Device |-> Len(dist[d])]) = m
    <2>1. PICK numbers : numbers = [d \in Device |-> Len(dist[d])]
      BY Zenon
    <2>2. \A d \in Device : numbers[d] = Shard(t + m, d) - Shard(t, d)
      BY <1>7, <2>1, Zenon
    <2> QED BY <2>1, <2>2, SumOfShards, Zenon
  <1>9. [d \in Device |-> Sizes(t)[d] + Len(dist[d])] = Sizes(t + m)
    <2>1. \A d \in Device : Sizes(t)[d] + Len(dist[d]) = Shard(t + m, d)
      <3> SUFFICES ASSUME NEW d \in Device PROVE Sizes(t)[d] + Len(dist[d]) = Shard(t + m, d)
        BY Zenon
      <3>1. PICK a \in Nat, z \in Nat : a = Shard(t, d) /\ z = Shard(t + m, d)
        BY ShardLess
      <3>2. Sizes(t)[d] = a
        BY <3>1, Zenon DEF Sizes
      <3> QED BY <1>7, <3>1, <3>2
    <2> QED BY <2>1, Zenon DEF Sizes
  <1>10. list \in [1 .. m -> DOMAIN batch]
    BY <1>2, <1>3, <1>5, Zenon
  <1>11. \A v \in 1 .. m : list[v] \in S
    BY <1>5, Zenon
  <1> QED BY <1>4, <1>5, <1>6, <1>8, <1>9, <1>10, <1>11, Zenon DEF Placed

\* What the deletions leave is still in order and without duplicates.
LEMMA ServedAfterDeletions ==
    ASSUME NEW t \in Nat, Served(t), NEW dels \in SUBSET Nat,
           NEW sl, sl = PerformDeletions(slots, Sizes(t), dels)
    PROVE  /\ \A i \in 0 .. t - 1 : At(sl, i) \in Iris \cup {Dummy}
           /\ \A k \in 0 .. t - 1 : \A i \in 0 .. k - 1 : ~Match(At(sl, k), At(sl, i))
  <1>1. \A i \in 0 .. t - 1 : At(sl, i) = IF i \in dels THEN Dummy ELSE At(slots, i)
    BY Deleted DEF Served
  <1>2. \A i \in 0 .. t - 1 : At(sl, i) \in Iris \cup {Dummy}
    BY <1>1, Zenon DEF Served
  <1>3. ASSUME NEW k \in 0 .. t - 1, NEW i \in 0 .. k - 1 PROVE ~Match(At(sl, k), At(sl, i))
    <2>1. i \in 0 .. t - 1
      OBVIOUS
    <2>2. At(sl, k) \in Iris \cup {Dummy} /\ At(sl, i) \in Iris \cup {Dummy}
      BY <1>2, <2>1, Zenon
    <2>3. CASE k \in dels \/ i \in dels
      <3>1. At(sl, k) = Dummy \/ At(sl, i) = Dummy
        BY <1>1, <2>1, <2>3, Zenon
      <3> QED BY <2>2, <3>1, DummyAssumption, Zenon DEF Match
    <2>4. CASE k \notin dels /\ i \notin dels
      <3>1. At(sl, k) = At(slots, k) /\ At(sl, i) = At(slots, i)
        BY <1>1, <2>1, <2>4, Zenon
      <3> QED BY <3>1, Zenon DEF Served
    <2> QED BY <2>3, <2>4, Zenon
  <1> QED BY <1>2, <1>3, Zenon

\* What the insertions add neither, whether the earlier entry is old or of the
\* same batch.
LEMMA ServedAfterInsertions ==
    ASSUME NEW t \in Nat, NEW m \in Nat, t + m <= MaxDbSize, NEW batch \in Batches,
           NEW sl, NEW list, NEW dist, Placed(sl, t, batch, list, dist, m),
           \A i \in 0 .. t - 1 : At(sl, i) \in Iris \cup {Dummy},
           \A k \in 0 .. t - 1 : \A i \in 0 .. k - 1 : ~Match(At(sl, k), At(sl, i)),
           NEW sl2, sl2 = WriteBack(sl, Sizes(t), dist, batch)
    PROVE  /\ \A i \in 0 .. t + m - 1 : At(sl2, i) \in Iris \cup {Dummy}
           /\ \A k \in 0 .. t + m - 1 : \A i \in 0 .. k - 1 : ~Match(At(sl2, k), At(sl2, i))
  <1>1. ASSUME NEW i \in 0 .. t + m - 1
        PROVE  At(sl2, i) = IF i < t THEN At(sl, i) ELSE batch[list[i - t + 1]]
    <2>1. Dealt(dist, list, t, m)
      BY Zenon DEF Placed
    <2> QED BY <2>1, Written
  <1>2. PICK c \in Nat : DOMAIN batch = 1 .. c /\ batch \in [1 .. c -> Iris]
    BY BatchLength, Zenon
  <1>3. \A v \in 1 .. m : list[v] \in 1 .. c
    BY <1>2, Zenon DEF Placed
  <1>4. ASSUME NEW i \in 0 .. t + m - 1, ~(i < t)
        PROVE  i - t + 1 \in 1 .. m /\ At(sl2, i) = batch[list[i - t + 1]]
    BY <1>1, <1>4
  <1>5. \A i \in 0 .. t + m - 1 : i < t => At(sl2, i) = At(sl, i) /\ i \in 0 .. t - 1
    BY <1>1
  <1>6. \A i \in 0 .. t + m - 1 : At(sl2, i) \in Iris \cup {Dummy}
    BY <1>2, <1>3, <1>4, <1>5, Zenon
  <1>7. ASSUME NEW k \in 0 .. t + m - 1, NEW i \in 0 .. k - 1 PROVE ~Match(At(sl2, k), At(sl2, i))
    <2>1. i \in 0 .. t + m - 1 /\ k \in Nat /\ i \in Nat /\ i < k
      OBVIOUS
    <2>2. CASE k < t
      <3>1. i < t
        BY <2>1, <2>2
      <3>2. At(sl2, k) = At(sl, k) /\ At(sl2, i) = At(sl, i) /\ k \in 0 .. t - 1
        BY <1>5, <2>1, <2>2, <3>1, Zenon
      <3> QED BY <3>2, Zenon
    <2>3. CASE ~(k < t)
      <3>1. PICK v \in 1 .. m : v = k - t + 1 /\ At(sl2, k) = batch[list[v]]
        BY <1>4, <2>3, Zenon
      <3>2. CASE i < t
        <4>1. At(sl2, i) = At(sl, i) /\ i \in 0 .. t - 1
          BY <1>5, <2>1, <3>2, Zenon
        <4> QED BY <3>1, <4>1, Zenon DEF Placed
      <3>3. CASE ~(i < t)
        <4>1. PICK w \in 1 .. m : w = i - t + 1 /\ At(sl2, i) = batch[list[w]]
          BY <1>4, <2>1, <3>3, Zenon
        <4>2. w < v
          BY <2>1, <3>1, <4>1
        <4>3. list[w] < list[v]
          BY <4>2, Zenon DEF Placed
        <4>4. list[w] \in 1 .. list[v] - 1
          BY <1>3, <4>3
        <4> QED BY <3>1, <4>1, <4>4, Zenon DEF Placed
      <3> QED BY <3>2, <3>3, Zenon
    <2> QED BY <2>2, <2>3, Zenon
  <1> QED BY <1>6, <1>7, Zenon

\* What is reported for query j when the insertions got these indices.
NewIn(inserted) == {p[1] : p \in inserted}

MergedOf(sl, sizes, batch, inserted, j) ==
    IF j \in NewIn(inserted) THEN (CHOOSE p \in inserted : p[1] = j)[2]
    ELSE get_merged_results(sl, sizes, batch, j)

Reports(sl, sizes, batch, inserted, j) ==
    {JobResult(batch, MergedOf(sl, sizes, batch, inserted, j), j \notin NewIn(inserted), kept) :
        kept \in KeptLists(sl, sizes, batch, j)}

Results(sl, sizes, batch, inserted) ==
    OneOfEach([j \in DOMAIN batch |-> Reports(sl, sizes, batch, inserted, j)])

\* A job in one formula: the deletions, then the insertions if they fit.
Job(t, sl, list, dist, m) ==
    /\ job.batch \in Batches /\ job.deletions \in SUBSET Nat
    /\ DbTotal = t
    /\ sl = PerformDeletions(slots, Sizes(t), job.deletions)
    /\ list = insertion_list(sl, Sizes(t), job.batch)
    /\ Placed(sl, t, job.batch, list, dist, m)
    /\ \/ /\ t + m > MaxDbSize
          /\ phase' = "failed" /\ slots' = sl /\ UNCHANGED <<current_db_sizes, result>>
       \/ /\ t + m <= MaxDbSize
          /\ UNCHANGED phase
          /\ slots' = WriteBack(sl, Sizes(t), dist, job.batch)
          /\ current_db_sizes' = Sizes(t + m)
          /\ result' \in Results(sl, Sizes(t), job.batch, calculate_insertion_indices(dist, t))

\* What a step of process_batch_query does, in terms of the records dealt.
LEMMA ProcessIs ==
    ASSUME Inv, process_batch_query, NEW t \in Nat, Served(t)
    PROVE  \E sl, list, dist : \E m \in Nat : Job(t, sl, list, dist, m)
  <1>1. job.batch \in Batches /\ job.deletions \in SUBSET Nat
    <2>1. job \in [batch : Batches, deletions : DeletionRequests]
      BY Zenon DEF Inv, process_batch_query
    <2>2. job.batch \in Batches /\ job.deletions \in DeletionRequests
      BY <2>1, Zenon
    <2> QED BY <2>2, DeletionsAssumption, Zenon
  <1>2. current_db_sizes = Sizes(t) /\ t <= MaxDbSize
    BY Zenon DEF Served
  <1>3. PICK sl : sl = PerformDeletions(slots, Sizes(t), job.deletions)
    BY Zenon
  <1>4. PICK list : list = insertion_list(sl, Sizes(t), job.batch)
    BY Zenon
  <1>5. PICK dist : dist = distribute_insertions(list, Sizes(t))
    BY Zenon
  <1>6. PICK m \in Nat : Placed(sl, t, job.batch, list, dist, m)
    BY <1>1, <1>2, <1>4, <1>5, Insertions, Zenon
  <1>7. DbTotal = t
    BY <1>2, SumOfSizes, Zenon DEF DbTotal, Sizes
  <1>8. IF ~SpaceLeft(DbTotal, SumOver([d \in Device |-> Len(dist[d])]))
        THEN phase' = "failed" /\ slots' = sl /\ UNCHANGED <<current_db_sizes, result>>
        ELSE /\ UNCHANGED phase
             /\ slots' = WriteBack(sl, Sizes(t), dist, job.batch)
             /\ current_db_sizes' = [d \in Device |-> Sizes(t)[d] + Len(dist[d])]
    BY <1>2, <1>3, <1>4, <1>5, Zenon DEF process_batch_query
  <1>9. SpaceLeft(DbTotal, SumOver([d \in Device |-> Len(dist[d])]))
          => result' \in Results(sl, Sizes(t), job.batch, calculate_insertion_indices(dist, DbTotal))
    <2> DEFINE sz == current_db_sizes
               s == PerformDeletions(slots, sz, job.deletions)
               l == distribute_insertions(insertion_list(s, sz, job.batch), sz)
    <2>1. SpaceLeft(DbTotal, SumOver([d \in Device |-> Len(l[d])]))
            => result' \in Results(s, sz, job.batch, calculate_insertion_indices(l, DbTotal))
      BY Zenon DEF process_batch_query, Results, Reports, MergedOf, NewIn
    <2>2. sz = Sizes(t) /\ s = sl /\ l = dist
      BY <1>2, <1>3, <1>4, <1>5, Zenon
    <2> HIDE DEF sz, s, l
    <2> QED BY <2>1, <2>2, Zenon
  <1>10. SpaceLeft(DbTotal, SumOver([d \in Device |-> Len(dist[d])])) <=> t + m <= MaxDbSize
    BY <1>6, <1>7, Zenon DEF Placed, SpaceLeft
  <1>11. CASE t + m <= MaxDbSize
    <2>1. /\ current_db_sizes' = Sizes(t + m) /\ slots' = WriteBack(sl, Sizes(t), dist, job.batch)
          /\ UNCHANGED phase
      BY <1>6, <1>8, <1>10, <1>11, Zenon DEF Placed
    <2>2. result' \in Results(sl, Sizes(t), job.batch, calculate_insertion_indices(dist, t))
      BY <1>7, <1>9, <1>10, <1>11, Zenon
    <2>3. Job(t, sl, list, dist, m)
      BY <1>1, <1>3, <1>4, <1>6, <1>7, <1>11, <2>1, <2>2, Zenon DEF Job
    <2> QED BY <2>3, Zenon
  <1>12. CASE ~(t + m <= MaxDbSize)
    <2>1. phase' = "failed" /\ slots' = sl /\ UNCHANGED <<current_db_sizes, result>>
      BY <1>8, <1>10, <1>12, Zenon
    <2>2. t + m > MaxDbSize
      BY <1>12, LimitsAssumption
    <2>3. Job(t, sl, list, dist, m)
      BY <1>1, <1>3, <1>4, <1>6, <1>7, <2>1, <2>2, Zenon DEF Job
    <2> QED BY <2>3, Zenon
  <1> QED BY <1>11, <1>12, Zenon

\* Processing a batch keeps the invariant.
LEMMA ProcessInv ==
    ASSUME Inv, process_batch_query PROVE Inv'
  <1>1. phase = "serving" /\ job' = NoJob /\ UNCHANGED <<pending, store>>
    BY Zenon DEF process_batch_query
  <1>2. PICK t \in Nat : Served(t)
    BY <1>1, Zenon DEF Inv
  <1>3. PICK sl, list, dist : \E m \in Nat : Job(t, sl, list, dist, m)
    BY <1>2, ProcessIs, Zenon
  <1>4. PICK m \in Nat : Job(t, sl, list, dist, m)
    BY <1>3, Zenon
  <1>5. /\ \A i \in 0 .. t - 1 : At(sl, i) \in Iris \cup {Dummy}
        /\ \A k \in 0 .. t - 1 : \A i \in 0 .. k - 1 : ~Match(At(sl, k), At(sl, i))
    BY <1>2, <1>4, ServedAfterDeletions, Zenon DEF Job
  <1>6. CASE phase' = "failed" /\ slots' = sl /\ UNCHANGED current_db_sizes
    <2>1. Served(t)'
      BY <1>2, <1>5, <1>6, Zenon DEF Served, Sizes
    <2>2. Loading'
      BY <1>6, Zenon DEF Loading
    <2> QED BY <1>1, <1>2, <1>6, <2>1, <2>2, Zenon DEF Inv
  <1>7. CASE /\ t + m <= MaxDbSize
             /\ UNCHANGED phase
             /\ slots' = WriteBack(sl, Sizes(t), dist, job.batch)
             /\ current_db_sizes' = Sizes(t + m)
    <2>1. /\ \A i \in 0 .. t + m - 1 : At(slots', i) \in Iris \cup {Dummy}
          /\ \A k \in 0 .. t + m - 1 : \A i \in 0 .. k - 1 : ~Match(At(slots', k), At(slots', i))
      BY <1>4, <1>5, <1>7, ServedAfterInsertions, Zenon DEF Job
    <2>2. PICK u \in Nat : u = t + m
      OBVIOUS
    <2>3. Served(u)'
      <3>1. u <= MaxDbSize /\ current_db_sizes' = Sizes(u)
        BY <1>7, <2>2, Zenon
      <3>2. /\ \A i \in 0 .. u - 1 : At(slots', i) \in Iris \cup {Dummy}
            /\ \A k \in 0 .. u - 1 : \A i \in 0 .. k - 1 : ~Match(At(slots', k), At(slots', i))
        BY <2>1, <2>2
      <3> QED BY <3>1, <3>2, Zenon DEF Served, Sizes
    <2>4. Loading'
      BY <1>1, <1>7, Zenon DEF Loading
    <2> QED BY <1>1, <1>7, <2>2, <2>3, <2>4, Zenon DEF Inv
  <1> QED BY <1>4, <1>6, <1>7, Zenon DEF Job

\* Inv is inductive.
LEMMA NextInv == Inv /\ [Next]_vars => Inv'
  <1> SUFFICES ASSUME Inv, [Next]_vars PROVE Inv'
    BY Zenon
  <1>1. CASE UNCHANGED vars
    <2>1. UNCHANGED <<phase, pending, store, slots, current_db_sizes, job>>
      BY <1>1, Zenon DEF vars
    <2>2. Loading'
      BY <2>1, Zenon DEF Inv, Loading, Loaded
    <2>3. phase # "loading" => \E t \in Nat : Served(t)'
      BY <2>1, Zenon DEF Inv, Served
    <2> QED BY <2>1, <2>2, <2>3, Zenon DEF Inv
  <1>2. CASE Next
    <2>1. CASE \E i \in pending : LoadRecord(i)
      BY <2>1, LoadRecordInv, Zenon
    <2>2. CASE FinishLoading
      BY <2>2, FinishLoadingInv, Zenon
    <2>3. CASE \E batch \in Batches, deletions \in DeletionRequests :
                  submit_batch_query(batch, deletions)
      BY <2>3, SubmitInv, Zenon
    <2>4. CASE process_batch_query
      BY <2>4, ProcessInv, Zenon
    <2> QED BY <1>2, <2>1, <2>2, <2>3, <2>4, Zenon DEF Next
  <1> QED BY <1>1, <1>2, Zenon

\* The database by index.
LEMMA EntriesAre ==
    ASSUME NEW t \in Nat, Served(t)
    PROVE  /\ DbTotal = t /\ Len(Entries) = t /\ DOMAIN Entries = 1 .. t
           /\ \A i \in 1 .. t : Entries[i] = At(slots, i - 1)
           /\ Entries \in Seq(Iris \cup {Dummy})
  <1>1. DbTotal = t
    BY SumOfSizes, Zenon DEF Served, DbTotal, Sizes
  <1>2. Entries = [i \in 1 .. t |-> At(slots, i - 1)]
    BY <1>1, Zenon DEF Entries, Entry, At
  <1>3. \A i \in 1 .. t : At(slots, i - 1) \in Iris \cup {Dummy}
    <2>1. \A i \in 1 .. t : i - 1 \in 0 .. t - 1
      OBVIOUS
    <2> QED BY <2>1, Zenon DEF Served
  <1>4. Entries \in [1 .. t -> Iris \cup {Dummy}]
    BY <1>2, <1>3, Zenon
  <1>5. Entries \in Seq(Iris \cup {Dummy})
    BY <1>4
  <1> QED BY <1>1, <1>2, <1>4, <1>5, LenOf, Zenon

\* The invariant excludes duplicates.
LEMMA InvNoDuplicates == Inv => NoDuplicates
  <1> SUFFICES ASSUME Inv, phase = "serving",
                      NEW k \in DOMAIN Entries, NEW i \in 1 .. k - 1
               PROVE  ~(LeftMatch(Entries[k], Entries[i]) /\ RightMatch(Entries[k], Entries[i]))
    BY Zenon DEF NoDuplicates
  <1>1. PICK t \in Nat : Served(t)
    BY Zenon DEF Inv
  <1>2. k \in 1 .. t /\ \A x \in 1 .. t : Entries[x] = At(slots, x - 1)
    BY <1>1, EntriesAre, Zenon
  <1>3. i \in 1 .. t /\ k - 1 \in 0 .. t - 1 /\ i - 1 \in 0 .. (k - 1) - 1
    BY <1>2
  <1>4. ~Match(At(slots, k - 1), At(slots, i - 1))
    BY <1>1, <1>3, Zenon DEF Served
  <1> QED BY <1>2, <1>3, <1>4, Zenon DEF Match

\* Whatever the devices, the limits and the batches, no two entries of the
\* database match: not the loaded ones, and not those that process_batch_query
\* inserts from the same batch or from different ones.
THEOREM NoDuplicatesAlways == Spec => []NoDuplicates
  <1>1. Inv /\ [Next]_vars => Inv'
    BY NextInv, Zenon
  <1> QED BY InitInv, <1>1, InvNoDuplicates, PTL DEF Spec

\* No shard outgrows its allocation, if the limit divides evenly.
LEMMA ShardFits ==
    ASSUME MaxDbSize % DeviceCount = 0,
           NEW t \in Nat, t <= MaxDbSize, NEW d \in Device
    PROVE  Shard(t, d) <= AllocatedSlots
  <1>1. PICK n \in Nat \ {0} : n = DeviceCount
    BY DeviceCountAssumption, Zenon
  <1>2. PICK q \in Nat : q = AllocatedSlots /\ MaxDbSize = q * n
    <2>1. MaxDbSize = (MaxDbSize \div DeviceCount) * DeviceCount + (MaxDbSize % DeviceCount)
          /\ MaxDbSize \div DeviceCount \in Nat
      BY LimitsAssumption, Place, Zenon
    <2>2. PICK q \in Nat : q = MaxDbSize \div DeviceCount
      BY <2>1, Zenon
    <2>3. PICK x \in Int : x = q * n
      OBVIOUS
    <2> QED BY <1>1, <2>1, <2>2, <2>3 DEF AllocatedSlots
  <1>3. PICK a \in Nat : a = Shard(t, d)
    BY ShardLess
  <1> SUFFICES ASSUME q < a PROVE FALSE
    BY <1>2, <1>3
  <1>4. q * DeviceCount + d < t
    BY <1>3, ShardLess
  <1>5. PICK x \in Int : x = q * n
    OBVIOUS
  <1>6. d \in Nat
    BY DeviceCountAssumption DEF Device
  <1> QED BY <1>1, <1>2, <1>4, <1>5, <1>6

\* With a size that the devices share evenly, the slots in use are allocated.
LEMMA InvSlotsAllocated == ASSUME MaxDbSize % DeviceCount = 0 PROVE Inv => SlotsAllocated
  <1> SUFFICES ASSUME Inv, NEW d \in Device PROVE current_db_sizes[d] <= AllocatedSlots
    BY Zenon DEF SlotsAllocated
  <1>1. CASE phase # "loading"
    <2>1. PICK t \in Nat : Served(t)
      BY <1>1, Zenon DEF Inv
    <2>2. current_db_sizes[d] = Shard(t, d) /\ t <= MaxDbSize
      BY <2>1, Zenon DEF Served, Sizes
    <2> QED BY <2>2, ShardFits, Zenon
  <1>2. CASE phase = "loading"
    <2> DEFINE S == {i \in Loaded : i % DeviceCount = d}
               T == {i \in 0 .. Len(store) - 1 : i % DeviceCount = d}
    <2>1. Len(store) \in Nat /\ Len(store) <= MaxDbSize
      BY StoresAssumption DEF Inv
    <2>2. IsFiniteSet(T)
      <3>1. IsFiniteSet(0 .. Len(store) - 1)
        BY <2>1, FS_Interval
      <3>2. T \in SUBSET (0 .. Len(store) - 1)
        BY Zenon
      <3> QED BY <3>1, <3>2, FS_Subset, Zenon
    <2>3. S \in SUBSET T
      BY Zenon DEF Loaded
    <2>4. Cardinality(T) = Shard(Len(store), d)
      BY <2>1, ShardCount, Zenon
    <2>5. current_db_sizes[d] = Cardinality(S)
      BY <1>2, Zenon DEF Inv, Loading
    <2> HIDE DEF S, T
    <2>6. Cardinality(S) \in Nat /\ Cardinality(T) \in Nat /\ Cardinality(S) <= Cardinality(T)
      BY <2>2, <2>3, FS_Subset, FS_CardinalityType, Zenon
    <2>7. Shard(Len(store), d) <= AllocatedSlots
      BY <2>1, ShardFits, Zenon
    <2>8. AllocatedSlots \in Nat
      BY LimitsAssumption, Place, Zenon DEF AllocatedSlots
    <2> QED BY <2>4, <2>5, <2>6, <2>7, <2>8
  <1> QED BY <1>1, <1>2, Zenon

\* If the limit on the database is a multiple of the number of devices, no
\* device ever holds more records than alloc_db has reserved slots for, during
\* the load and after any number of insertions.
THEOREM SlotsAlwaysAllocated ==
    ASSUME MaxDbSize % DeviceCount = 0 PROVE Spec => []SlotsAllocated
  <1>1. Inv /\ [Next]_vars => Inv'
    BY NextInv, Zenon
  <1>2. Inv => SlotsAllocated
    BY InvSlotsAllocated, Zenon
  <1> QED BY InitInv, <1>1, <1>2, PTL DEF Spec

-----------------------------------------------------------------------------
(* The refinement of MemoryDb: which queries are new.                      *)

\* The match count of one eye, added over the devices, is the number of indices
\* that match with that eye.
EyeMatch(eye, q, e) == IF eye = "left" THEN LeftMatch(q, e) ELSE RightMatch(q, e)

\* The partial matches counted on all devices are those among the records.
LEMMA OneEyeCount ==
    ASSUME NEW t \in Nat, NEW sl, NEW q, NEW eye
    PROVE  PartialMatches(sl, Sizes(t), q, eye)
             = Cardinality({i \in 0 .. t - 1 : EyeMatch(eye, q, At(sl, i))})
  <1> DEFINE n == DeviceCount
             V == {i \in 0 .. t - 1 : EyeMatch(eye, q, At(sl, i))}
             P == UNION {{d} \X EyeHits(sl, Sizes(t), d, q, eye) : d \in Device}
             f == [i \in V |-> <<i % n, i \div n>>]
  <1>1. ASSUME NEW d \in Device
        PROVE  EyeHits(sl, Sizes(t), d, q, eye)
                 = {s \in 0 .. Shard(t, d) - 1 : EyeMatch(eye, q, sl[d][s])}
    BY Zenon DEF EyeHits, Sizes, EyeMatch
  <1>2. ASSUME NEW d \in Device, NEW s \in 0 .. Shard(t, d) - 1, EyeMatch(eye, q, sl[d][s])
        PROVE  <<d, s>> \in P
    <2>1. s \in EyeHits(sl, Sizes(t), d, q, eye)
      BY <1>1, <1>2, Zenon
    <2> QED BY <2>1
  <1>3. ASSUME NEW p \in P
        PROVE  \E d \in Device : \E s \in 0 .. Shard(t, d) - 1 :
                   EyeMatch(eye, q, sl[d][s]) /\ p = <<d, s>>
    <2>1. PICK d \in Device : p \in {d} \X EyeHits(sl, Sizes(t), d, q, eye)
      BY Zenon
    <2>2. PICK s \in EyeHits(sl, Sizes(t), d, q, eye) : p = <<d, s>>
      BY <2>1
    <2>3. s \in 0 .. Shard(t, d) - 1 /\ EyeMatch(eye, q, sl[d][s])
      BY <1>1, <2>2, Zenon
    <2> QED BY <2>2, <2>3, Zenon
  <1> HIDE DEF P
  <1>4. ASSUME NEW i \in V
        PROVE  \E d \in Device, s \in Nat :
                   d = i % n /\ s = i \div n /\ i = s * n + d /\ <<d, s>> \in P
    <2>1. i \in Nat /\ i < t /\ EyeMatch(eye, q, At(sl, i))
      OBVIOUS
    <2>2. PICK d \in Device, s \in Nat : d = i % n /\ s = i \div n
      BY <2>1, Place, Zenon
    <2>3. i = s * n + d
      BY <2>1, <2>2, Place, Zenon
    <2>4. s < Shard(t, d) /\ Shard(t, d) \in Nat
      BY <2>1, <2>3, ShardLess
    <2>5. s \in 0 .. Shard(t, d) - 1
      BY <2>4
    <2>6. EyeMatch(eye, q, sl[d][s])
      BY <2>1, <2>2, Zenon DEF At
    <2>7. <<d, s>> \in P
      BY <1>2, <2>5, <2>6, Zenon
    <2> QED BY <2>2, <2>3, <2>7, Zenon
  <1>5. f \in [V -> P]
    <2>1. \A i \in V : <<i % n, i \div n>> \in P
      BY <1>4, Zenon
    <2> QED BY <2>1, Zenon
  <1>6. \A i, j \in V : f[i] = f[j] => i = j
    <2> SUFFICES ASSUME NEW i \in V, NEW j \in V, f[i] = f[j] PROVE i = j
      BY Zenon
    <2>1. i % n = j % n /\ i \div n = j \div n
      BY Zenon
    <2>2. i = (i \div n) * n + (i % n) /\ j = (j \div n) * n + (j % n)
      BY Place
    <2> QED BY <2>1, <2>2, Zenon
  <1>7. \A p \in P : \E i \in V : f[i] = p
    <2> SUFFICES ASSUME NEW p \in P PROVE \E i \in V : f[i] = p
      BY Zenon
    <2>1. PICK d \in Device : \E s \in 0 .. Shard(t, d) - 1 : EyeMatch(eye, q, sl[d][s]) /\ p = <<d, s>>
      BY <1>3, Zenon
    <2>2. PICK s \in 0 .. Shard(t, d) - 1 : EyeMatch(eye, q, sl[d][s]) /\ p = <<d, s>>
      BY <2>1, Zenon
    <2>3. Shard(t, d) \in Nat /\ s \in Nat /\ s < Shard(t, d)
      BY ShardLess
    <2>4. PICK i \in Nat : i = s * n + d /\ i % n = d /\ i \div n = s
      BY <2>3, Index, Zenon
    <2>5. i < t
      BY <2>3, <2>4, ShardLess
    <2>6. EyeMatch(eye, q, At(sl, i))
      BY <2>2, <2>4, Zenon DEF At
    <2>7. i \in V
      BY <2>5, <2>6
    <2> QED BY <2>2, <2>4, <2>7, Zenon
  <1>8. IsFiniteSet(V)
    <2>1. IsFiniteSet(0 .. t - 1)
      BY FS_Interval
    <2>2. V \in SUBSET (0 .. t - 1)
      BY Zenon
    <2> QED BY <2>1, <2>2, FS_Subset, Zenon
  <1>9. ExistsBijection(V, P)
    <2> HIDE DEF f, V
    <2>1. f \in Injection(V, P)
      BY <1>5, <1>6, Zenon DEF Injection, IsInjective
    <2>2. f \in Surjection(V, P)
      BY <1>5, <1>7, Zenon DEF Surjection
    <2> QED BY <2>1, <2>2, Zenon DEF ExistsBijection, Bijection
  <1> HIDE DEF V
  <1>10. Cardinality(P) = Cardinality(V)
    BY <1>8, <1>9, FS_Bijection, Zenon
  <1> QED BY <1>10, Zenon DEF PartialMatches, P, V

\* m is the database sl holds, read by index.
Mirrors(m, sl, t) == Len(m) = t /\ DOMAIN m = 1 .. t /\ \A i \in 0 .. t - 1 : m[i + 1] = At(sl, i)

\* The abstract specification counts as the detailed one does.
LEMMA SameCardinality == ASSUME NEW S PROVE Unsharded!Cardinality(S) = Cardinality(S)
  BY Zenon DEF Unsharded!Cardinality, Cardinality

\* The lists of insertions agree.
LEMMA NewOnesAre ==
    ASSUME NEW t \in Nat, t <= MaxDbSize, NEW sl, NEW batch \in Batches,
           NEW m, Mirrors(m, sl, t)
    PROVE  Unsharded!NewOnes(m, batch) = insertion_list(sl, Sizes(t), batch)
  <1> DEFINE New(j) == /\ get_merged_results(sl, Sizes(t), batch, j) = NON_MATCH_ID
                       /\ PartialMatches(sl, Sizes(t), batch[j], "left") <= SupermatchThreshold
                       /\ PartialMatches(sl, Sizes(t), batch[j], "right") <= SupermatchThreshold
  <1>1. PICK k \in Nat : DOMAIN batch = 1 .. k
    BY BatchLength, Zenon
  <1>2. ASSUME NEW j \in DOMAIN batch PROVE New(j) <=> Unsharded!IsNew(m, batch, j)
    <2>1. j \in Nat
      BY <1>1
    <2>2. Unsharded!Hits(m, batch[j]) = {} <=> \A i \in 0 .. t - 1 : ~Match(batch[j], At(sl, i))
      BY Zenon DEF Unsharded!Hits, Unsharded!Matches, Match, Mirrors
    <2>3. Unsharded!Twins(batch, j) = {} <=> \A i \in 1 .. j - 1 : ~Match(batch[j], batch[i])
      BY Zenon DEF Unsharded!Twins, Unsharded!Matches, Match
    <2>4. get_merged_results(sl, Sizes(t), batch, j) = NON_MATCH_ID
            <=> Unsharded!Hits(m, batch[j]) = {} /\ Unsharded!Twins(batch, j) = {}
      BY <2>1, <2>2, <2>3, MergedIs, NoHits, NoTwins, Zenon
    <2>5. \A eye : /\ PartialMatches(sl, Sizes(t), batch[j], eye) \in Nat
                   /\ PartialMatches(sl, Sizes(t), batch[j], eye)
                        = Cardinality({i \in 0 .. t - 1 : EyeMatch(eye, batch[j], m[i + 1])})
      <3> SUFFICES ASSUME NEW eye
                   PROVE  /\ PartialMatches(sl, Sizes(t), batch[j], eye) \in Nat
                          /\ PartialMatches(sl, Sizes(t), batch[j], eye)
                               = Cardinality({i \in 0 .. t - 1 : EyeMatch(eye, batch[j], m[i + 1])})
        BY Zenon
      <3> DEFINE V == {i \in 0 .. t - 1 : EyeMatch(eye, batch[j], At(sl, i))}
      <3>1. V = {i \in 0 .. t - 1 : EyeMatch(eye, batch[j], m[i + 1])}
        BY Zenon DEF Mirrors
      <3>2. IsFiniteSet(V)
        <4>1. IsFiniteSet(0 .. t - 1)
          BY FS_Interval
        <4>2. V \in SUBSET (0 .. t - 1)
          BY Zenon
        <4> QED BY <4>1, <4>2, FS_Subset, Zenon
      <3>3. PartialMatches(sl, Sizes(t), batch[j], eye) = Cardinality(V)
        BY OneEyeCount
      <3>4. Cardinality(V) \in Nat
        BY <3>2, FS_CardinalityType, Zenon
      <3> QED BY <3>1, <3>3, <3>4, Zenon
    <2>6. Unsharded!OneEyed(m, batch[j], LeftMatch) = {i \in 0 .. t - 1 : EyeMatch("left", batch[j], m[i + 1])}
      BY Zenon DEF Unsharded!OneEyed, EyeMatch, Mirrors
    <2>7. Unsharded!OneEyed(m, batch[j], RightMatch) = {i \in 0 .. t - 1 : EyeMatch("right", batch[j], m[i + 1])}
      BY "left" # "right", Zenon DEF Unsharded!OneEyed, EyeMatch, Mirrors
    <2>8. Unsharded!Supermatcher(m, batch[j])
            <=> \/ PartialMatches(sl, Sizes(t), batch[j], "left") > SupermatchThreshold
                \/ PartialMatches(sl, Sizes(t), batch[j], "right") > SupermatchThreshold
      BY <2>5, <2>6, <2>7, SameCardinality, Zenon DEF Unsharded!Supermatcher
    <2>9. \A eye : PartialMatches(sl, Sizes(t), batch[j], eye) > SupermatchThreshold
                     <=> ~(PartialMatches(sl, Sizes(t), batch[j], eye) <= SupermatchThreshold)
      BY <2>5, LimitsAssumption
    <2> QED BY <2>4, <2>8, <2>9, Zenon DEF Unsharded!IsNew
  <1>3. {j \in DOMAIN batch : New(j)} = {j \in DOMAIN batch : Unsharded!IsNew(m, batch, j)}
    BY <1>2, Zenon
  <1>4. \A S : Unsharded!Ascending(S) = Ascending(S)
    BY SameCardinality, Zenon DEF Unsharded!Ascending, Ascending
  <1> QED BY <1>3, <1>4, Zenon DEF Unsharded!NewOnes, insertion_list

\* Append, as a function.
Added(r, x) == Append(r, x)
IsList(r, c) == r = [j \in 1 .. c |-> r[j]]
Longer(r, c, x) == [j \in 1 .. c + 1 |-> IF j = c + 1 THEN x ELSE r[j]]

Extended(A, B) == {Added(r, x) : r \in A, x \in B}

\* Appending to a function on 1 .. c gives one on 1 .. c + 1.
LEMMA AppendIs ==
    ASSUME NEW c \in Nat, NEW r, IsList(r, c), NEW x
    PROVE  Added(r, x) = Longer(r, c, x)
  <1> DEFINE V == {r[j] : j \in 1 .. c} \cup {x}
             y == [j \in 1 .. c + 1 |-> IF j = c + 1 THEN x ELSE r[j]]
  <1>1. r \in [1 .. c -> V] /\ x \in V
    BY Zenon DEF IsList
  <1> HIDE DEF V
  <1>2. r \in Seq(V) /\ Len(r) = c
    BY <1>1
  <1>3. Added(r, x) \in Seq(V) /\ Len(Added(r, x)) = c + 1
    BY <1>1, <1>2 DEF Added
  <1>4. Added(r, x)[c + 1] = x /\ \A j \in 1 .. c : Added(r, x)[j] = r[j]
    BY <1>2 DEF Added
  <1>5. PICK s \in Seq(V) : s = Added(r, x) /\ Len(s) = c + 1
    BY <1>3, Zenon
  <1>6. s = [j \in 1 .. c + 1 |-> s[j]]
    BY <1>5
  <1>7. \A j \in 1 .. c + 1 : s[j] = y[j]
    BY <1>4, <1>5
  <1>8. s = y
    BY <1>6, <1>7, Zenon
  <1> QED BY <1>5, <1>8, Zenon DEF Longer

\* OneOfEach is the product of its options.
LEMMA OneOfEachIs ==
    ASSUME NEW K \in Nat, NEW V, NEW options \in [1 .. K -> SUBSET V]
    PROVE  OneOfEach(options) = {r \in [1 .. K -> V] : \A j \in 1 .. K : r[j] \in options[j]}
  <1> DEFINE Step(g, k) == IF k = 0 THEN {<<>>}
                           ELSE Extended(g[k - 1], options[k])
             Lists(k) == {r \in [1 .. k -> V] : \A j \in 1 .. k : r[j] \in options[j]}
             h == [k \in 0 .. K |-> Lists(k)]
             f == CHOOSE g : g = [k \in 0 .. K |-> Step(g, k)]
  <1>1. Len(options) = K
    OBVIOUS
  <1>2. OneOfEach(options) = f[K]
    BY <1>1 DEF OneOfEach, Extended, Added
  <1>3. Lists(0) = {<<>>}
    <2>1. <<>> \in [1 .. 0 -> V]
      OBVIOUS
    <2>2. \A r \in [1 .. 0 -> V] : r = <<>>
      OBVIOUS
    <2>3. \A j : ~(j \in 1 .. 0)
      OBVIOUS
    <2> QED BY <2>1, <2>2, <2>3, Zenon
  <1>4. ASSUME NEW k \in 1 .. K
        PROVE  Lists(k) = Extended(Lists(k - 1), options[k])
    <2>1. ASSUME NEW r \in Lists(k - 1), NEW x \in options[k] PROVE Added(r, x) \in Lists(k)
      <3>1. r \in [1 .. k - 1 -> V] /\ x \in V /\ \A j \in 1 .. k - 1 : r[j] \in options[j]
        BY Zenon
      <3>2. PICK c \in Nat : c = k - 1 /\ c + 1 = k
        OBVIOUS
      <3>3. IsList(r, c)
        BY <3>1, <3>2, Zenon DEF IsList
      <3>4. Added(r, x) = [j \in 1 .. k |-> IF j = k THEN x ELSE r[j]]
        <4>1. Added(r, x) = Longer(r, c, x)
          BY <3>3, AppendIs, Zenon
        <4> QED BY <3>2, <4>1, Zenon DEF Longer
      <3>5. \A j \in 1 .. k : j # k => j \in 1 .. k - 1
        OBVIOUS
      <3>6. \A j \in 1 .. k : (IF j = k THEN x ELSE r[j]) \in V \cap options[j]
        BY <3>1, <3>5, Zenon
      <3> QED BY <3>4, <3>6, Zenon
    <2>2. ASSUME NEW s \in Lists(k)
          PROVE  \E r \in Lists(k - 1), x \in options[k] : s = Added(r, x)
      <3> DEFINE r == [j \in 1 .. k - 1 |-> s[j]]
      <3>1. s \in [1 .. k -> V] /\ \A j \in 1 .. k : s[j] \in options[j]
        BY Zenon
      <3>2. r \in Lists(k - 1) /\ s[k] \in options[k]
        BY <3>1
      <3>3. PICK c \in Nat : c = k - 1 /\ c + 1 = k
        OBVIOUS
      <3>4. IsList(r, c)
        BY <3>3, Zenon DEF IsList
      <3>5. \A j \in 1 .. k : j # k => r[j] = s[j]
        OBVIOUS
      <3> HIDE DEF r
      <3>6. Added(r, s[k]) = [j \in 1 .. k |-> IF j = k THEN s[k] ELSE r[j]]
        <4>1. Added(r, s[k]) = Longer(r, c, s[k])
          BY <3>4, AppendIs, Zenon
        <4> QED BY <3>3, <4>1, Zenon DEF Longer
      <3>7. s = [j \in 1 .. k |-> IF j = k THEN s[k] ELSE r[j]]
        BY <3>1, <3>5, Zenon
      <3> QED BY <3>2, <3>6, <3>7, Zenon
    <2> HIDE DEF Lists
    <2> QED BY <2>1, <2>2 DEF Extended
  <1> HIDE DEF Lists
  <1>5. \A k \in 0 .. K : h[k] = Step(h, k)
    <2> SUFFICES ASSUME NEW k \in 0 .. K PROVE h[k] = Step(h, k)
      BY Zenon
    <2>1. CASE k = 0
      BY <1>3, <2>1, Zenon
    <2>2. CASE k # 0
      <3>1. k \in 1 .. K /\ k - 1 \in 0 .. K
        BY <2>2
      <3>2. h[k] = Lists(k) /\ h[k - 1] = Lists(k - 1)
        BY <3>1, Zenon
      <3> QED BY <1>4, <2>2, <3>1, <3>2, Zenon
    <2> QED BY <2>1, <2>2, Zenon
  <1>6. f = [k \in 0 .. K |-> Step(f, k)]
    <2>1. h = [k \in 0 .. K |-> Step(h, k)]
      BY <1>5, Zenon
    <2> HIDE DEF h, Step
    <2> QED BY <2>1, Zenon DEF f
  <1> HIDE DEF f
  <1>7. \A k \in 0 .. K : f[k] = Lists(k)
    <2> DEFINE Bad == {k \in 0 .. K : f[k] # Lists(k)}
    <2> SUFFICES ASSUME Bad # {} PROVE FALSE
      BY Zenon
    <2>1. Bad \in SUBSET Nat
      OBVIOUS
    <2>2. PICK k \in Bad : \A i \in Bad : k <= i
      BY <2>1, LeastOf, Zenon
    <2>3. k \in 0 .. K /\ f[k] # Lists(k)
      BY Zenon
    <2>4. f[k] = Step(f, k)
      BY <1>6, <2>3, Zenon
    <2>5. k # 0
      BY <1>3, <2>3, <2>4, Zenon
    <2>6. k - 1 \in 0 .. K /\ ~(k <= k - 1) /\ k \in 1 .. K
      BY <2>3, <2>5
    <2>7. f[k - 1] = Lists(k - 1)
      BY <2>2, <2>6, Zenon
    <2>8. Step(f, k) = Lists(k)
      BY <1>4, <2>5, <2>6, <2>7, Zenon
    <2> QED BY <2>3, <2>4, <2>8, Zenon
  <1> QED BY <1>2, <1>7 DEF Lists

-----------------------------------------------------------------------------
(* The refinement of MemoryDb: the numbers of the insertions.              *)

\* Remainders may be taken before or after a sum.
LEMMA SumMod ==
    ASSUME NEW n \in Nat \ {0}, NEW a \in Nat, NEW b \in Nat
    PROVE  ((a % n) + (b % n)) % n = (a + b) % n
  <1>1. PICK a1 \in Int, a0 \in Nat : a = a1 * n + a0 /\ a0 = a % n
    OBVIOUS
  <1>2. PICK b1 \in Int, b0 \in Nat : b = b1 * n + b0 /\ b0 = b % n
    OBVIOUS
  <1>3. PICK w \in Nat : w = a0 + b0
    OBVIOUS
  <1>4. PICK c1 \in Int, c0 \in 0 .. n - 1 : w = c1 * n + c0 /\ c0 = w % n
    <2>1. w = (w \div n) * n + (w % n)
      OBVIOUS
    <2>2. w % n \in 0 .. n - 1 /\ w \div n \in Int
      OBVIOUS
    <2> QED BY <2>1, <2>2, Zenon
  <1>5. PICK x \in Int, y \in Int, z \in Int : x = a1 * n /\ y = b1 * n /\ z = c1 * n
    OBVIOUS
  <1>6. (a1 + b1 + c1) * n = x + y + z
    BY <1>5
  <1>7. a = x + a0 /\ b = y + b0 /\ w = z + c0
    BY <1>1, <1>2, <1>4, <1>5, Zenon
  <1>8. a + b = x + y + z + c0
    BY <1>3, <1>7
  <1>9. PICK q \in Int : q = a1 + b1 + c1
    OBVIOUS
  <1>10. a + b = q * n + c0
    BY <1>6, <1>8, <1>9, Zenon
  <1>11. (a + b) % n = c0
    <2>1. PICK s \in Int : s = a + b
      OBVIOUS
    <2>2. s = q * n + c0
      BY <1>10, <2>1, Zenon
    <2>3. s % n = c0
      BY <2>2, Unique
    <2> QED BY <2>1, <2>3, Zenon
  <1> QED BY <1>1, <1>2, <1>3, <1>4, <1>11, Zenon

VisitedDevice(t, v) == ((v % DeviceCount) + (t % DeviceCount)) % DeviceCount
VisitedRow(v) == (v \div DeviceCount) + 1

\* Visit v finds insertion number v, or a list that is too short.
Finds(dist, list, t, m, v) ==
    /\ VisitedRow(v) > Len(dist[VisitedDevice(t, v)]) <=> v >= m
    /\ v < m => dist[VisitedDevice(t, v)][VisitedRow(v)] = list[v + 1]

\* The lists are visited row after row, from the device whose turn it was.
LEMMA VisitIs ==
    ASSUME NEW t \in Nat, NEW m \in Nat, NEW list, NEW dist,
           Dealt(dist, list, t, m), NEW v \in Nat
    PROVE  Finds(dist, list, t, m, v)
  <1> DEFINE n == DeviceCount
  <1>1. n \in Nat \ {0}
    BY DeviceCountAssumption, Zenon
  <1>2. PICK i \in Nat : i = t + v
    OBVIOUS
  <1>3. PICK d \in Device, s \in Nat : d = i % n /\ s = i \div n
    BY Place, Zenon
  <1>4. i = s * n + d
    BY <1>3, Place, Zenon
  <1>5. VisitedDevice(t, v) = d
    <2>1. ((v % n) + (t % n)) % n = (v + t) % n
      BY <1>1, SumMod, Zenon
    <2>2. v + t = i
      BY <1>2
    <2> QED BY <1>3, <2>1, <2>2, Zenon DEF VisitedDevice
  <1>6. PICK a \in Nat : a = Shard(t, d)
    BY ShardLess
  <1>7. PICK z \in Nat : z = Shard(t + m, d)
    <2>1. t + m \in Nat
      OBVIOUS
    <2> QED BY <2>1, ShardLess
  <1>8. PICK h \in 0 .. n - 1 : h = Ahead(t, d) /\ t + h = a * n + d
    BY <1>6, ShardNext, Zenon
  <1>9. v \div n = s - a
    <2>1. d \in Int
      BY <1>1 DEF Device
    <2>2. PICK x \in Int, y \in Int : x = s * n /\ y = a * n
      BY <1>1
    <2>3. (s - a) * n = x - y
      BY <1>1, <2>2
    <2>7. i = x + d /\ t + h = y + d
      BY <1>4, <1>8, <2>2, Zenon
    <2>4. v = (x - y) + h
      BY <1>2, <2>1, <2>7
    <2>5. v = (s - a) * n + h
      BY <2>3, <2>4, Zenon
    <2>6. PICK q \in Int : q = s - a
      OBVIOUS
    <2>8. v = q * n + h
      BY <2>5, <2>6, Zenon
    <2>9. v \div n = q
      BY <1>1, <2>8, Unique
    <2> QED BY <2>6, <2>9, Zenon
  <1>10. s - a \in Nat
    BY <1>1, <1>9
  <1>11. s < z <=> v < m
    <2>1. PICK u \in Nat : u = t + m
      OBVIOUS
    <2>2. z = Shard(u, d)
      BY <1>7, <2>1, Zenon
    <2>3. s * n + d < u <=> s < z
      <3>1. s \in Int
        OBVIOUS
      <3>2. s * DeviceCount + d < u <=> s < Shard(u, d)
        BY <3>1, ShardLess, Zenon
      <3> QED BY <2>2, <3>2, Zenon
    <2>4. i < u <=> s < z
      BY <1>4, <2>3, Zenon
    <2> QED BY <1>2, <2>1, <2>4
  <1>12. PICK c \in Nat :
             /\ c = Shard(t + m, d) - Shard(t, d)
             /\ DeviceList(dist[d], list, t, d, c)
             /\ Len(dist[d]) = c
    BY DealtList, SMTT(20)
  <1>13. c = z - a
    BY <1>6, <1>7, <1>12, Zenon
  <1>14. dist[d] = [x \in 1 .. c |-> list[(a + x - 1) * n + d - t + 1]]
    BY <1>6, <1>12, Zenon DEF DeviceList
  <1>15. Len(dist[d]) = c
    BY <1>12, Zenon
  <1>16. PICK row \in Nat : row = VisitedRow(v) /\ row = s - a + 1
    BY <1>9, <1>10 DEF VisitedRow
  <1>17. row > Len(dist[d]) <=> v >= m
    BY <1>11, <1>13, <1>15, <1>16
  <1>18. ASSUME v < m PROVE dist[d][row] = list[v + 1]
    <2>1. row \in 1 .. c
      BY <1>10, <1>11, <1>13, <1>16, <1>18
    <2>2. dist[d][row] = list[(a + row - 1) * n + d - t + 1]
      BY <1>14, <2>1, Zenon
    <2>3. a + row - 1 = s
      BY <1>16
    <2>4. (a + row - 1) * n + d - t + 1 = v + 1
      <3>1. PICK x \in Int : x = s * n
        BY <1>1
      <3>2. (a + row - 1) * n = x /\ i = x + d
        BY <1>4, <2>3, <3>1, Zenon
      <3>3. d \in Int
        BY <1>1 DEF Device
      <3> QED BY <1>2, <3>2, <3>3
    <2> QED BY <2>2, <2>4, Zenon
  <1> QED BY <1>5, <1>16, <1>17, <1>18, Zenon DEF Finds

Ordered(list, m) == list \in [1 .. m -> Nat] /\ \A a, b \in 1 .. m : a < b => list[a] < list[b]

\* The device visited first has the first insertion, and no other device has an
\* earlier one.
LEMMA MinIndexIs ==
    ASSUME NEW t \in Nat, NEW m \in Nat \ {0}, NEW list, Ordered(list, m), NEW dist, Dealt(dist, list, t, m)
    PROVE  MinIndex(dist) = t % DeviceCount
  <1> DEFINE n == DeviceCount
             r == t % n
             used == {d \in Device : dist[d] # <<>>}
  <1>1. n \in Nat \ {0} /\ m \in Nat /\ 0 \in Nat /\ 0 < m
    BY DeviceCountAssumption
  <1>2. r \in Device
    BY Place, Zenon
  <1>3. dist[r][1] = list[1] /\ Len(dist[r]) # 0
    <2>1. r = ((0 % n) + (t % n)) % n /\ 1 = (0 \div n) + 1
      <3>1. 0 % n = 0 /\ 0 \div n = 0
        BY <1>1
      <3>2. PICK x \in 0 .. n - 1 : x = r
        BY <1>2, Zenon DEF Device
      <3>3. (0 + x) % n = x
        BY <1>1
      <3> QED BY <3>1, <3>2, <3>3
    <2>2. /\ 1 > Len(dist[r]) <=> 0 >= m
          /\ 0 < m => dist[r][1] = list[0 + 1]
      <3>1. VisitedDevice(t, 0) = r /\ VisitedRow(0) = 1
        BY <2>1, Zenon DEF VisitedDevice, VisitedRow
      <3>2. m \in Nat
        BY <1>1, Zenon
      <3>3. Finds(dist, list, t, m, 0)
        BY <3>2, VisitIs, Zenon
      <3> QED BY <3>1, <3>3, Zenon DEF Finds
    <2>3. 0 + 1 = 1 /\ ~(0 >= m) /\ 1 > 0
      OBVIOUS
    <2> QED BY <1>1, <2>2, <2>3, Zenon
  <1>4. r \in used
    <2>1. Len(<<>>) = 0
      BY Zenon
    <2> QED BY <1>2, <1>3, <2>1, Zenon
  <1>5. ASSUME NEW d \in used PROVE dist[d][1] \in Nat /\ (d # r => list[1] < dist[d][1])
    <2>1. d \in Device /\ dist[d] # <<>> /\ d \in Int
      BY <1>1 DEF Device
    <2>2. PICK c \in Nat :
             /\ c = Shard(t + m, d) - Shard(t, d)
             /\ DeviceList(dist[d], list, t, d, c)
      BY <2>1, DealtList, Zenon
    <2>3. c # 0
      <3> SUFFICES ASSUME c = 0 PROVE FALSE
        BY Zenon
      <3>1. dist[d] \in [1 .. 0 -> {}]
        BY <2>2 DEF DeviceList
      <3>2. \A f \in [1 .. 0 -> {}] : f = <<>>
        OBVIOUS
      <3> QED BY <2>1, <3>1, <3>2, Zenon
    <2>4. PICK a \in Nat, z \in Nat : a = Shard(t, d) /\ z = Shard(t + m, d)
      BY <1>1, <2>1, ShardLess
    <2>5. PICK h \in Nat : h = Ahead(t, d) /\ t + h = a * n + d /\ h \in 0 .. n - 1
      BY <2>1, <2>4, ShardNext
    <2>6. dist[d][1] = list[(a + 1 - 1) * n + d - t + 1]
      BY <2>2, <2>3, <2>4 DEF DeviceList
    <2>7. (a + 1 - 1) * n + d - t + 1 = h + 1
      <3>1. a + 1 - 1 = a
        OBVIOUS
      <3>2. PICK x \in Int : x = a * n /\ (a + 1 - 1) * n = x
        BY <1>1, <3>1
      <3>3. t + h = x + d
        BY <2>5, <3>2, Zenon
      <3> QED BY <2>1, <3>2, <3>3
    <2>8. h < m
      <3>1. a < z
        BY <2>2, <2>3, <2>4
      <3>2. PICK u \in Nat : u = t + m
        OBVIOUS
      <3>3. z = Shard(u, d)
        BY <2>4, <3>2, Zenon
      <3>4. a * n + d < u
        BY <2>1, <3>1, <3>3, ShardLess
      <3>5. t + h < u
        BY <2>5, <3>4, Zenon
      <3> QED BY <3>2, <3>5
    <2>9. dist[d][1] = list[h + 1]
      BY <2>6, <2>7, Zenon
    <2>10. h + 1 \in 1 .. m /\ 1 \in 1 .. m
      BY <2>8
    <2>11. ASSUME d # r PROVE 1 < h + 1
      <3> SUFFICES ASSUME h = 0 PROVE FALSE
        OBVIOUS
      <3>1. t = a * n + d
        <4>1. PICK x \in Int : x = a * n + d
          BY <1>1, <2>1
        <4> QED BY <2>5, <4>1
      <3>2. t % n = d
        BY <2>1, <3>1, Index, Zenon
      <3> QED BY <2>11, <3>2, Zenon
    <2>12. d # r => list[1] < list[h + 1]
      BY <2>10, <2>11, Zenon DEF Ordered
    <2>13. list[h + 1] \in Nat
      BY <2>10, Zenon DEF Ordered
    <2> QED BY <2>9, <2>12, <2>13, Zenon
  <1>6. list[1] \in Nat
    BY DEF Ordered
  <1> HIDE DEF used
  <1>7. \A e \in used : dist[r][1] <= dist[e][1]
    <2> SUFFICES ASSUME NEW e \in used PROVE dist[r][1] <= dist[e][1]
      BY Zenon
    <2>1. PICK x \in Nat, y \in Nat : x = list[1] /\ y = dist[e][1]
      BY <1>5, <1>6, Zenon
    <2> QED BY <1>3, <1>5, <2>1
  <1>8. ASSUME NEW d \in used, \A e \in used : dist[d][1] <= dist[e][1] PROVE d = r
    <2> SUFFICES ASSUME d # r PROVE FALSE
      BY Zenon
    <2>1. PICK x \in Nat, y \in Nat : x = list[1] /\ y = dist[d][1]
      BY <1>5, <1>6, Zenon
    <2>2. x < y
      BY <1>5, <2>1, Zenon
    <2>3. y <= x
      BY <1>3, <1>4, <1>8, <2>1, Zenon
    <2> QED BY <2>2, <2>3
  <1>9. (CHOOSE d \in used : \A e \in used : dist[d][1] <= dist[e][1]) = r
    BY <1>4, <1>7, <1>8, Zenon
  <1>10. MinIndex(dist) = IF used = {} THEN 0
                          ELSE CHOOSE d \in used : \A e \in used : dist[d][1] <= dist[e][1]
    BY Zenon DEF MinIndex, used
  <1> QED BY <1>4, <1>9, <1>10, Zenon

\* Insertion number v is numbered t + v.
LEMMA InsertionIndices ==
    ASSUME NEW t \in Nat, NEW m \in Nat, m <= MaxBatchSize, NEW list, Ordered(list, m),
           NEW dist, Dealt(dist, list, t, m)
    PROVE  calculate_insertion_indices(dist, t) = {<<list[v + 1], t + v>> : v \in 0 .. m - 1}
  <1> DEFINE n == DeviceCount
             Dev(v) == ((v % n) + MinIndex(dist)) % n
             Row(v) == (v \div n) + 1
             X == {v \in 0 .. n * (MaxBatchSize + 1) : Row(v) > Len(dist[Dev(v)])}
             stop == Min(X)
  <1>1. n \in Nat \ {0}
    BY DeviceCountAssumption, Zenon
  <1>2. PICK k \in Nat : k = n * (MaxBatchSize + 1) /\ m <= k
    <2>1. PICK b \in Nat : b = MaxBatchSize + 1 /\ m <= b
      BY LimitsAssumption
    <2>2. PICK k \in Nat : k = n * b
      BY <1>1
    <2>3. b <= k
      BY <1>1, <2>2
    <2> QED BY <2>1, <2>2, <2>3
  <1>3. calculate_insertion_indices(dist, t) = {<<dist[Dev(v)][Row(v)], t + v>> : v \in 0 .. stop - 1}
    BY Zenon DEF calculate_insertion_indices
  <1>4. X \in SUBSET Nat
    BY <1>2
  <1>5. CASE m = 0
    <2>1. ASSUME NEW d \in Device PROVE dist[d] = <<>> /\ Len(dist[d]) = 0
      <3>1. PICK c \in Nat : c = Shard(t + m, d) - Shard(t, d) /\ DeviceList(dist[d], list, t, d, c)
        BY DealtList, Zenon
      <3>2. c = 0
        <4>1. PICK a \in Nat : a = Shard(t, d)
          BY ShardLess
        <4>2. t + m = t
          BY <1>5
        <4>3. c = a - a
          BY <3>1, <4>1, <4>2, Zenon
        <4> QED BY <4>3
      <3>3. dist[d] \in [1 .. 0 -> {}]
        BY <3>1, <3>2 DEF DeviceList
      <3>4. \A f \in [1 .. 0 -> {}] : f = <<>> /\ Len(f) = 0
        OBVIOUS
      <3> QED BY <3>3, <3>4, Zenon
    <2>2. MinIndex(dist) = 0
      BY <2>1, Zenon DEF MinIndex
    <2>3. Dev(0) \in Device /\ Row(0) = 1
      BY <1>1, <2>2 DEF Device
    <2> HIDE DEF Dev, Row
    <2>4. Row(0) > Len(dist[Dev(0)])
      BY <2>1, <2>3
    <2>5. 0 \in 0 .. n * (MaxBatchSize + 1)
      BY <1>2
    <2>6. 0 \in X
      BY <2>4, <2>5, Zenon
    <2>7. \A y \in X : 0 <= y
      BY <1>2
    <2> HIDE DEF X
    <2>8. stop = 0
      BY <1>4, <2>6, <2>7, LeastIs, Zenon
    <2> HIDE DEF stop
    <2>9. 0 .. stop - 1 = {} /\ 0 .. m - 1 = {}
      BY <1>5, <2>8
    <2> QED BY <1>3, <2>9, Zenon
  <1>6. CASE m # 0
    <2>1. MinIndex(dist) = t % n
      BY <1>6, MinIndexIs, Zenon
    <2>2. ASSUME NEW v \in Nat PROVE Dev(v) = VisitedDevice(t, v) /\ Row(v) = VisitedRow(v)
      BY <2>1, Zenon DEF VisitedDevice, VisitedRow
    <2>3. \A v \in Nat : Finds(dist, list, t, m, v)
      BY VisitIs, Zenon
    <2>4. ASSUME NEW v \in Nat
          PROVE  /\ Row(v) > Len(dist[Dev(v)]) <=> v >= m
                 /\ v < m => dist[Dev(v)][Row(v)] = list[v + 1]
      <3>1. Finds(dist, list, t, m, v)
        BY <2>3, Zenon
      <3>2. Dev(v) = VisitedDevice(t, v) /\ Row(v) = VisitedRow(v)
        BY <2>2, Zenon
      <3> HIDE DEF Dev, Row
      <3> QED BY <3>1, <3>2, Zenon DEF Finds
    <2> HIDE DEF Dev, Row
    <2>5. m \in X
      BY <1>2, <2>4
    <2>6. \A y \in X : m <= y
      BY <1>2, <2>4
    <2> HIDE DEF X
    <2>7. stop = m
      BY <1>4, <2>5, <2>6, LeastIs, Zenon
    <2> HIDE DEF stop
    <2>8. \A v \in 0 .. m - 1 : v \in Nat /\ v < m
      OBVIOUS
    <2>9. \A v \in 0 .. m - 1 : dist[Dev(v)][Row(v)] = list[v + 1]
      BY <2>4, <2>8, Zenon
    <2> QED BY <1>3, <2>7, <2>9, Zenon
  <1> QED BY <1>5, <1>6, Zenon

-----------------------------------------------------------------------------
(* The refinement of MemoryDb: the evidence for a duplicate.               *)

\* Something is kept of what a device has found.
LEMMA KeptIsNotEmpty ==
    ASSUME NEW t \in Nat, NEW sl, NEW batch, NEW d \in Device, NEW j \in Nat,
           NEW kept \in KeptIds(sl, Sizes(t), batch, d, j),
           DbHits(sl, Sizes(t), d, batch[j]) # {} \/ BatchHits(batch, j) # {}
    PROVE  kept # {}
  <1> DEFINE hits == DbHits(sl, Sizes(t), d, batch[j])
             twins == {MAX - i : i \in BatchHits(batch, j)}
             S == hits \cup twins
  <1>1. Cardinality(kept) = Min({MatchesLen, Cardinality(S)})
    BY Zenon DEF KeptIds
  <1>2. IsFiniteSet(hits)
    <2>1. hits \in SUBSET (0 .. Shard(t, d) - 1)
      <3>1. ASSUME NEW s \in DbHits(sl, Sizes(t), d, batch[j]) PROVE s \in 0 .. Shard(t, d) - 1
        BY DbHitsAreSlots, Zenon
      <3> QED BY <3>1, Zenon
    <2>2. 0 \in Int /\ Shard(t, d) - 1 \in Int
      BY ShardLess
    <2>3. IsFiniteSet(0 .. Shard(t, d) - 1)
      BY <2>2, FS_Interval, Zenon
    <2> QED BY <2>1, <2>3, FS_Subset, Zenon
  <1>3. IsFiniteSet(twins)
    <2> DEFINE B == BatchHits(batch, j)
               f == [i \in B |-> MAX - i]
    <2>1. B \in SUBSET (0 .. j - 2)
      BY Zenon DEF BatchHits
    <2>2. IsFiniteSet(0 .. j - 2)
      BY FS_Interval
    <2>3. IsFiniteSet(B)
      BY <2>1, <2>2, FS_Subset, Zenon
    <2> HIDE DEF B
    <2>4. f \in Surjection(B, {f[i] : i \in B})
      BY Zenon DEF Surjection
    <2>5. {f[i] : i \in B} = twins
      BY Zenon DEF B
    <2> QED BY <2>3, <2>4, <2>5, FS_Surjection, Zenon
  <1>4. hits # {} \/ twins # {}
    BY Zenon
  <1> HIDE DEF hits, twins
  <1>5. IsFiniteSet(S) /\ S # {}
    BY <1>2, <1>3, <1>4, FS_Union, Zenon
  <1>6. Cardinality(S) \in Nat /\ Cardinality(S) # 0
    BY <1>5, FS_CardinalityType, FS_EmptySet, Zenon
  <1> HIDE DEF S
  <1>7. PICK c \in Nat : c = Cardinality(S) /\ c # 0
    BY <1>6, Zenon
  <1>8. {MatchesLen, c} \in SUBSET Nat /\ {MatchesLen, c} # {} /\ ~(0 \in {MatchesLen, c})
    BY <1>7, LimitsAssumption, Zenon
  <1>9. Min({MatchesLen, c}) \in {MatchesLen, c}
    BY <1>8, LeastOf, Zenon
  <1>10. Cardinality(kept) # 0
    BY <1>1, <1>7, <1>8, <1>9, Zenon
  <1> QED BY <1>10, FS_EmptySet, Zenon

\* An id of a device, made an id of the database or of the batch.
GlobalId(d, idx) ==
    IF idx > MAX - MaxBatchSize THEN idx ELSE (idx * DeviceCount + d) % U32

\* A slot becomes the index of a record that matches.
LEMMA HitId ==
    ASSUME NEW t \in Nat, t <= MaxDbSize, NEW sl, NEW q, NEW d \in Device,
           NEW idx \in DbHits(sl, Sizes(t), d, q)
    PROVE  /\ GlobalId(d, idx) \in 0 .. t - 1
           /\ Match(q, At(sl, GlobalId(d, idx)))
           /\ GlobalId(d, idx) < MAX - MaxBatchSize
  <1>1. idx \in 0 .. Shard(t, d) - 1 /\ Match(q, sl[d][idx])
    BY DbHitsAre DEF Match
  <1>2. PICK i \in Nat : i = idx * DeviceCount + d /\ idx <= i /\ i < t /\ idx \in Nat
    BY <1>1, SlotIsSmall, Zenon
  <1>3. PICK u \in Nat : u = U32 /\ MaxDbSize + MaxBatchSize + 2 < u
    BY Wide, Zenon
  <1>4. MAX - MaxBatchSize = u - 1 - MaxBatchSize
    BY <1>3, Zenon DEF MAX
  <1>5. i < u - 1 - MaxBatchSize /\ i < u
    BY <1>2, <1>3, LimitsAssumption
  <1>6. ~(idx > MAX - MaxBatchSize)
    BY <1>2, <1>3, <1>4, <1>5, LimitsAssumption
  <1>7. i % u = i
    BY <1>3, <1>5
  <1>8. GlobalId(d, idx) = i
    BY <1>2, <1>3, <1>6, <1>7, Zenon DEF GlobalId
  <1>9. i % DeviceCount = d /\ i \div DeviceCount = idx
    BY <1>2, Index, Zenon
  <1>10. At(sl, i) = sl[d][idx]
    BY <1>9, Zenon DEF At
  <1>11. i \in 0 .. t - 1 /\ i < MAX - MaxBatchSize
    BY <1>2, <1>4, <1>5
  <1> QED BY <1>1, <1>8, <1>10, <1>11, Zenon

\* The id of a match inside the batch stays, and tells which query it is.
TwinAs(batch, j, i, d) ==
    /\ GlobalId(d, MAX - i) = MAX - i
    /\ MAX - i > MAX - Len(batch)
    /\ MAX - i > MAX - MaxBatchSize
    /\ MAX - (MAX - i) + 1 = i + 1
    /\ i + 1 \in 1 .. j - 1
    /\ Match(batch[j], batch[i + 1])

\* The id reported for a match in the batch is that of the batch position.
LEMMA TwinId ==
    ASSUME NEW batch \in Batches, NEW j \in DOMAIN batch, NEW i \in BatchHits(batch, j), NEW d
    PROVE  TwinAs(batch, j, i, d)
  <1>1. PICK k \in Nat : k <= MaxBatchSize /\ k = Len(batch) /\ j \in 1 .. k
    BY BatchLength, Zenon
  <1>2. i \in 0 .. j - 2 /\ Match(batch[j], batch[i + 1])
    BY Zenon DEF BatchHits, Match
  <1>3. MAX \in Int /\ MaxBatchSize \in Int
    BY Wide, LimitsAssumption DEF MAX
  <1>4. /\ MAX - i > MAX - k /\ MAX - i > MAX - MaxBatchSize
        /\ MAX - (MAX - i) + 1 = i + 1 /\ i + 1 \in 1 .. j - 1
    BY <1>1, <1>2, <1>3
  <1>5. GlobalId(d, MAX - i) = MAX - i
    BY <1>4, Zenon DEF GlobalId
  <1> QED BY <1>1, <1>2, <1>4, <1>5, Zenon DEF TwinAs


\* What a query is told about the matches found for it: only matches, and some
\* if there are any.
Evidence(rep, m, batch, j) ==
    /\ rep.ids \subseteq Unsharded!Hits(m, batch[j])
    /\ rep.twins \subseteq Unsharded!Twins(batch, j)
    /\ Unsharded!Hits(m, batch[j]) \cup Unsharded!Twins(batch, j) # {} => rep.ids \cup rep.twins # {}

IsReport(rep, batch, merged, matched, kept) == rep = JobResult(batch, merged, matched, kept)

Tells(rep, merged, matched, m, batch, j) ==
    rep.merged = merged /\ rep.matched = matched /\ Evidence(rep, m, batch, j)

\* What is reported of a query tells whether it matched, and each id reported is
\* that of a match.
LEMMA Reported ==
    ASSUME NEW t \in Nat, t <= MaxDbSize, NEW sl, NEW batch \in Batches, NEW j \in DOMAIN batch,
           NEW m, Mirrors(m, sl, t), NEW kept \in KeptLists(sl, Sizes(t), batch, j),
           NEW merged, NEW matched, NEW rep, IsReport(rep, batch, merged, matched, kept)
    PROVE  Tells(rep, merged, matched, m, batch, j)
  <1> DEFINE Hit(d) == DbHits(sl, Sizes(t), d, batch[j])
             B == BatchHits(batch, j)
             ids == fetch_all_match_ids(kept)
             hits == Unsharded!Hits(m, batch[j])
             twins == Unsharded!Twins(batch, j)
  <1>1. PICK k \in Nat : k <= MaxBatchSize /\ k = Len(batch) /\ j \in 1 .. k /\ j \in Nat
    BY BatchLength, SMTT(20)
  <1>2. /\ rep.merged = merged /\ rep.matched = matched
        /\ rep.ids = {x \in ids : x <= MAX - MaxBatchSize}
        /\ rep.twins = {MAX - x + 1 : x \in {y \in ids : y > MAX - Len(batch)}}
    BY Zenon DEF IsReport, JobResult
  <1>3. \A d \in Device : kept[d] \in KeptIds(sl, Sizes(t), batch, d, j)
    BY Zenon DEF KeptLists
  <1>4. \A d \in Device : kept[d] \subseteq Hit(d) \cup {MAX - i : i \in B}
    <2> SUFFICES ASSUME NEW d \in Device PROVE kept[d] \subseteq Hit(d) \cup {MAX - i : i \in B}
      BY Zenon
    <2>1. kept[d] \in KeptIds(sl, Sizes(t), batch, d, j)
      BY <1>3, Zenon
    <2> QED BY <2>1, Zenon DEF KeptIds
  <1>5. \A x : x \in ids <=> \E d \in Device : \E idx \in kept[d] :
                                x = GlobalId(d, idx) /\ (x < MAX - MaxBatchSize \/ d = 0)
    <2> DEFINE Of(d) == {x \in {GlobalId(d, idx) : idx \in kept[d]} : x < MAX - MaxBatchSize \/ d = 0}
    <2>1. ids = UNION {Of(d) : d \in Device}
      BY Zenon DEF fetch_all_match_ids, GlobalId
    <2>2. \A d, x : x \in Of(d) <=> \E idx \in kept[d] :
                        x = GlobalId(d, idx) /\ (x < MAX - MaxBatchSize \/ d = 0)
      BY Zenon
    <2> HIDE DEF Of, ids
    <2> SUFFICES ASSUME NEW x
                 PROVE  x \in ids <=> \E d \in Device : \E idx \in kept[d] :
                                         x = GlobalId(d, idx) /\ (x < MAX - MaxBatchSize \/ d = 0)
      BY Zenon
    <2>3. x \in ids <=> \E d \in Device : x \in Of(d)
      BY <2>1, Zenon
    <2> QED BY <2>2, <2>3, Zenon
  <1>6. \A i : i \in hits <=> i \in 0 .. t - 1 /\ Match(batch[j], At(sl, i))
    BY Zenon DEF Unsharded!Hits, Unsharded!Matches, Match, Mirrors
  <1>7. \A i : i \in twins <=> i \in 1 .. j - 1 /\ Match(batch[j], batch[i])
    BY Zenon DEF Unsharded!Twins, Unsharded!Matches, Match
  <1>8. \A d \in Device : \A idx \in Hit(d) :
            GlobalId(d, idx) \in hits /\ GlobalId(d, idx) < MAX - MaxBatchSize
    BY <1>6, HitId, Zenon
  <1>9. \A d \in Device : \A i \in B :
            /\ GlobalId(d, MAX - i) = MAX - i /\ MAX - i > MAX - Len(batch)
            /\ MAX - i > MAX - MaxBatchSize /\ MAX - (MAX - i) + 1 \in twins
    <2> SUFFICES ASSUME NEW d \in Device, NEW i \in B
                 PROVE  /\ GlobalId(d, MAX - i) = MAX - i /\ MAX - i > MAX - Len(batch)
                        /\ MAX - i > MAX - MaxBatchSize /\ MAX - (MAX - i) + 1 \in twins
      BY Zenon
    <2>1. TwinAs(batch, j, i, d)
      BY TwinId, Zenon
    <2>2. i + 1 \in twins
      BY <1>7, <2>1, Zenon DEF TwinAs
    <2> QED BY <2>1, <2>2, Zenon DEF TwinAs
  <1>10. MAX \in Int /\ MAX - MaxBatchSize \in Int /\ MaxBatchSize \in Nat
         /\ \A i \in hits : i \in Int
    BY <1>6, Wide, LimitsAssumption DEF MAX
  <1>11. \A i \in B : MAX - i \in Int
    BY <1>10 DEF BatchHits
  <1> HIDE DEF ids, hits, twins, B, Hit
  <1>12. ASSUME NEW x \in ids
         PROVE  \/ x \in hits /\ x < MAX - MaxBatchSize
                \/ /\ x > MAX - MaxBatchSize /\ x > MAX - Len(batch)
                   /\ MAX - x + 1 \in twins /\ x \in Int
    <2>0. PICK d \in Device : \E idx \in kept[d] : x = GlobalId(d, idx)
      BY <1>5, Zenon
    <2>1. PICK idx \in kept[d] : x = GlobalId(d, idx)
      BY <2>0, Zenon
    <2>2. CASE idx \in Hit(d)
      BY <1>8, <2>1, <2>2, Zenon
    <2>3. CASE \E i \in B : idx = MAX - i
      BY <1>9, <1>11, <2>1, <2>3, Zenon
    <2> QED BY <1>4, <2>1, <2>2, <2>3, Zenon
  <1>13. rep.ids \subseteq hits
    <2> SUFFICES ASSUME NEW x \in ids, x <= MAX - MaxBatchSize PROVE x \in hits
      BY <1>2, Zenon
    <2>1. x \in Int => ~(x > MAX - MaxBatchSize)
      BY <1>10
    <2> QED BY <1>12, <2>1, Zenon
  <1>14. rep.twins \subseteq twins
    <2> SUFFICES ASSUME NEW x \in ids, x > MAX - Len(batch) PROVE MAX - x + 1 \in twins
      BY <1>2, Zenon
    <2>1. ~(x \in Int /\ x < MAX - MaxBatchSize)
      BY <1>1, <1>10
    <2> QED BY <1>10, <1>12, <2>1, Zenon
  <1>15. ASSUME hits \cup twins # {} PROVE rep.ids \cup rep.twins # {}
    <2>1. ids # {}
      <3>1. CASE B # {}
        <4>1. 0 \in Device
          BY DeviceCountAssumption DEF Device
        <4>2. kept[0] # {}
          BY <1>1, <1>3, <3>1, <4>1, KeptIsNotEmpty, Zenon DEF B
        <4> QED BY <1>5, <4>1, <4>2, Zenon
      <3>2. CASE B = {}
        <4>1. twins = {}
          BY <1>1, <1>7, <3>2, NoTwins, Zenon DEF B
        <4>2. PICK d \in Device : Hit(d) # {}
          BY <1>6, <1>15, <4>1, NoHits, Zenon DEF Hit
        <4>3. kept[d] # {}
          BY <1>1, <1>3, <4>2, KeptIsNotEmpty, Zenon DEF Hit
        <4>4. PICK idx \in kept[d] : idx \in Hit(d)
          BY <1>4, <3>2, <4>3, Zenon
        <4>5. GlobalId(d, idx) < MAX - MaxBatchSize
          BY <1>8, <4>4, Zenon
        <4> QED BY <1>5, <4>4, <4>5, Zenon
      <3> QED BY <3>1, <3>2, Zenon
    <2>2. PICK x \in ids : TRUE
      BY <2>1, Zenon
    <2>3. CASE x \in hits /\ x < MAX - MaxBatchSize
      <3>1. x <= MAX - MaxBatchSize
        BY <1>10, <2>3
      <3> QED BY <1>2, <3>1, Zenon
    <2>4. CASE x > MAX - Len(batch)
      <3>1. MAX - x + 1 \in rep.twins
        BY <1>2, <2>4, Zenon
      <3> QED BY <3>1, Zenon
    <2> QED BY <1>12, <2>3, <2>4, Zenon
  <1> QED BY <1>2, <1>13, <1>14, <1>15, Zenon DEF Tells, Evidence, hits, twins

-----------------------------------------------------------------------------
(* The refinement of MemoryDb: the answers.                                *)

\* There is one report for each query.
ReportsEach(r, sl, sizes, batch, inserted) ==
    /\ DOMAIN r = DOMAIN batch
    /\ \A j \in DOMAIN batch : r[j] \in Reports(sl, sizes, batch, inserted, j)

\* The result of a batch has a report for each of its queries.
LEMMA ResultsAre ==
    ASSUME NEW sl, NEW sizes, NEW batch \in Batches, NEW inserted,
           NEW r \in Results(sl, sizes, batch, inserted)
    PROVE  ReportsEach(r, sl, sizes, batch, inserted)
  <1> DEFINE Rep(j) == Reports(sl, sizes, batch, inserted, j)
             V == UNION {Rep(j) : j \in DOMAIN batch}
             options == [j \in DOMAIN batch |-> Rep(j)]
  <1>1. PICK k \in Nat : DOMAIN batch = 1 .. k
    BY BatchLength, Zenon
  <1>2. r \in OneOfEach(options)
    BY Zenon DEF Results
  <1> HIDE DEF Rep
  <1>3. options \in [1 .. k -> SUBSET V]
    BY <1>1, Zenon
  <1>4. \A j \in DOMAIN batch : options[j] = Rep(j)
    BY Zenon
  <1> HIDE DEF V, options
  <1>5. OneOfEach(options) = {s \in [1 .. k -> V] : \A j \in 1 .. k : s[j] \in options[j]}
    BY <1>3, OneOfEachIs, Zenon
  <1>6. r \in [1 .. k -> V] /\ \A j \in 1 .. k : r[j] \in options[j]
    BY <1>2, <1>5, Zenon
  <1> QED BY <1>1, <1>4, <1>6, Zenon DEF ReportsEach, Rep

\* An insertion is reported under its place in the list, counted from t.
Numbered(inserted, list, t, m) == inserted = {<<list[v + 1], t + v>> : v \in 0 .. m - 1}

Gives(inserted, list, t, m, sl, sizes, batch, j) ==
    /\ j \in NewIn(inserted) <=> \E k \in 1 .. m : list[k] = j
    /\ \A k \in 1 .. m : list[k] = j => MergedOf(sl, sizes, batch, inserted, j) = t + k - 1

\* calculate_insertion_indices gives the entry at k of the list the index t + k.
LEMMA IndexOf ==
    ASSUME NEW t \in Nat, NEW m \in Nat, NEW list, Ordered(list, m),
           NEW inserted, Numbered(inserted, list, t, m),
           NEW sl, NEW sizes, NEW batch, NEW j
    PROVE  Gives(inserted, list, t, m, sl, sizes, batch, j)
  <1>1. \A v \in 0 .. m - 1 : v + 1 \in 1 .. m
    OBVIOUS
  <1>2. \A k \in 1 .. m : k - 1 \in 0 .. m - 1 /\ (k - 1) + 1 = k /\ t + (k - 1) = t + k - 1
    OBVIOUS
  <1>3. \A v \in 0 .. m - 1 : <<list[v + 1], t + v>> \in inserted
    BY Zenon DEF Numbered
  <1>4. \A p \in inserted : \E v \in 0 .. m - 1 : p[1] = list[v + 1] /\ p[2] = t + v
    BY DEF Numbered
  <1>5. \A v \in 0 .. m - 1 : <<list[v + 1], t + v>>[1] = list[v + 1]
    BY Zenon
  <1>6. ASSUME NEW k \in 1 .. m, list[k] = j PROVE j \in NewIn(inserted)
    BY <1>2, <1>3, <1>5, <1>6, Zenon DEF NewIn
  <1>7. ASSUME j \in NewIn(inserted) PROVE \E k \in 1 .. m : list[k] = j
    BY <1>1, <1>4, <1>7, Zenon DEF NewIn
  <1>8. ASSUME NEW k \in 1 .. m, list[k] = j PROVE MergedOf(sl, sizes, batch, inserted, j) = t + k - 1
    <2>1. PICK p : p = CHOOSE q \in inserted : q[1] = j
      BY Zenon
    <2>2. p \in inserted /\ p[1] = j
      BY <1>6, <1>8, <2>1, Zenon DEF NewIn
    <2>3. PICK v \in 0 .. m - 1 : list[v + 1] = j /\ p[2] = t + v
      BY <1>4, <2>2, Zenon
    <2>4. v + 1 = k
      <3>1. list[k] \in Nat /\ v + 1 \in 1 .. m
        BY DEF Ordered
      <3>2. v + 1 < k => FALSE
        BY <1>8, <2>3, <3>1 DEF Ordered
      <3>3. k < v + 1 => FALSE
        BY <1>8, <2>3, <3>1 DEF Ordered
      <3> QED BY <3>2, <3>3
    <2>5. MergedOf(sl, sizes, batch, inserted, j) = p[2]
      BY <1>6, <1>8, <2>1, Zenon DEF MergedOf
    <2> QED BY <2>3, <2>4, <2>5
  <1> QED BY <1>6, <1>7, <1>8, Zenon DEF Gives

\* What the submitter sees of a report.
Seen(rep) ==
    [matched |-> rep.matched, index |-> IF rep.matched THEN NoIndex ELSE rep.merged,
     ids |-> rep.ids, twins |-> rep.twins]

\* What a client sees of a report is a right answer of the unsharded database.
LEMMA SeenIsRight ==
    ASSUME NEW t \in Nat, t <= MaxDbSize, NEW sl, NEW batch \in Batches, NEW mem, Mirrors(mem, sl, t),
           NEW list, NEW dist, NEW m \in Nat, Placed(sl, t, batch, list, dist, m),
           NEW j \in DOMAIN batch,
           NEW rep \in Reports(sl, Sizes(t), batch, calculate_insertion_indices(dist, t), j)
    PROVE  Unsharded!RightAnswer(mem, batch, list, j, Seen(rep))
  <1>1. PICK inserted : inserted = calculate_insertion_indices(dist, t)
    BY Zenon
  <1>2. Ordered(list, m) /\ m <= MaxBatchSize /\ Dealt(dist, list, t, m) /\ DOMAIN list = 1 .. m
    <2>1. PICK k \in Nat : DOMAIN batch = 1 .. k
      BY BatchLength, Zenon
    <2>2. list \in [1 .. m -> 1 .. k]
      BY <2>1, Zenon DEF Placed
    <2>3. list \in [1 .. m -> Nat] /\ DOMAIN list = 1 .. m
      BY <2>2
    <2> QED BY <2>3, Zenon DEF Placed, Ordered
  <1>3. Numbered(inserted, list, t, m)
    BY <1>1, <1>2, InsertionIndices, Zenon DEF Numbered
  <1> DEFINE new == NewIn(inserted)
             mg == MergedOf(sl, Sizes(t), batch, inserted, j)
  <1>4. (j \in new <=> \E k \in 1 .. m : list[k] = j)
        /\ \A k \in 1 .. m : list[k] = j => mg = t + k - 1
    <2>1. Gives(inserted, list, t, m, sl, Sizes(t), batch, j)
      BY <1>2, <1>3, IndexOf, Zenon
    <2> QED BY <2>1, Zenon DEF Gives
  <1>5. PICK kept \in KeptLists(sl, Sizes(t), batch, j) : rep = JobResult(batch, mg, j \notin new, kept)
    BY <1>1, Zenon DEF Reports
  <1> HIDE DEF new, mg
  <1>6. rep.merged = mg /\ rep.matched = (j \notin new) /\ Evidence(rep, mem, batch, j)
    <2>1. PICK b : b = (j \notin new)
      BY Zenon
    <2>2. IsReport(rep, batch, mg, b, kept)
      BY <1>5, <2>1, Zenon DEF IsReport
    <2>3. Tells(rep, mg, b, mem, batch, j)
      BY <2>2, Reported, Zenon
    <2> QED BY <2>1, <2>3, Zenon DEF Tells
  <1>7. /\ Seen(rep).matched = rep.matched
        /\ Seen(rep).index = IF rep.matched THEN NoIndex ELSE rep.merged
        /\ Seen(rep).ids = rep.ids /\ Seen(rep).twins = rep.twins
    BY Zenon DEF Seen
  <1>8. PICK a : a = Seen(rep)
    BY Zenon
  <1>9. a.matched = (\A k \in DOMAIN list : list[k] # j)
    BY <1>2, <1>4, <1>6, <1>7, <1>8, Zenon
  <1>10. \A k \in DOMAIN list : list[k] = j => a.index = Len(mem) + k - 1
    <2> SUFFICES ASSUME NEW k \in 1 .. m, list[k] = j PROVE a.index = Len(mem) + k - 1
      BY <1>2, Zenon
    <2>1. j \in new /\ mg = t + k - 1
      BY <1>4, Zenon
    <2>2. a.index = mg
      <3>1. ~rep.matched
        BY <1>6, <2>1, ZenonT(30)
      <3> QED BY <1>6, <1>7, <1>8, <3>1, Zenon
    <2> QED BY <2>1, <2>2, Zenon DEF Mirrors
  <1>11. a.matched => a.index = NoIndex
    BY <1>7, <1>8, Zenon
  <1>12. /\ a.ids \subseteq Unsharded!Hits(mem, batch[j]) /\ a.twins \subseteq Unsharded!Twins(batch, j)
         /\ (Unsharded!Hits(mem, batch[j]) \cup Unsharded!Twins(batch, j) # {}) => (a.ids \cup a.twins # {})
    BY <1>6, <1>7, <1>8, Zenon DEF Evidence
  <1> QED BY <1>8, <1>9, <1>10, <1>11, <1>12, Zenon DEF Unsharded!RightAnswer

-----------------------------------------------------------------------------
(* The refinement of MemoryDb: the steps.                                  *)

Mem == IF phase = "loading" THEN <<>> ELSE Entries

Out == [j \in DOMAIN result |-> Seen(result[j])]

EntriesOf(sl, sizes) == [i \in 1 .. SumOver(sizes) |-> At(sl, i - 1)]

\* The entries of the shards, in the order of their indices.
LEMMA EntriesOfIs ==
    ASSUME NEW t \in Nat, NEW sl
    PROVE  EntriesOf(sl, Sizes(t)) = [i \in 1 .. t |-> At(sl, i - 1)]
  <1>1. SumOver(Sizes(t)) = t
    BY SumOfSizes, Zenon DEF Sizes
  <1> QED BY <1>1, Zenon DEF EntriesOf

\* The entries of the actor are those of its slots and sizes.
LEMMA EntriesAreOf == Entries = EntriesOf(slots, current_db_sizes)
  BY Zenon DEF Entries, Entry, EntriesOf, DbTotal, At

\* mm is the sequence of the first t entries.
Listed(mm, sl, t) ==
    mm = [i \in 1 .. t |-> At(sl, i - 1)] /\ mm \in [1 .. t -> Iris \cup {Dummy}]

\* The deletions hit the entries they name.
LEMMA DeletedMirrors ==
    ASSUME NEW t \in Nat, Served(t), NEW dels \in SUBSET Nat,
           NEW sl, sl = PerformDeletions(slots, Sizes(t), dels)
    PROVE  /\ Mirrors(Unsharded!Delete(Entries, dels), sl, t)
           /\ Listed(Unsharded!Delete(Entries, dels), sl, t)
  <1>1. DOMAIN Entries = 1 .. t /\ \A i \in 1 .. t : Entries[i] = At(slots, i - 1)
    BY EntriesAre, Zenon
  <1>2. \A i \in 1 .. t : i - 1 \in 0 .. t - 1
    OBVIOUS
  <1>3. \A i \in 0 .. t - 1 : At(sl, i) = IF i \in dels THEN Dummy ELSE At(slots, i)
    BY Deleted DEF Served
  <1>4. Unsharded!Delete(Entries, dels) = [i \in 1 .. t |-> At(sl, i - 1)]
    <2>1. \A i \in 1 .. t : (IF i - 1 \in dels THEN Dummy ELSE Entries[i]) = At(sl, i - 1)
      BY <1>1, <1>2, <1>3, Zenon
    <2> QED BY <1>1, <2>1, Zenon DEF Unsharded!Delete
  <1>5. \A i \in 0 .. t - 1 : At(sl, i) \in Iris \cup {Dummy}
    BY ServedAfterDeletions, Zenon
  <1>6. PICK mm : mm = Unsharded!Delete(Entries, dels)
    BY Zenon
  <1>7. mm \in [1 .. t -> Iris \cup {Dummy}]
    BY <1>2, <1>4, <1>5, <1>6, Zenon
  <1>8. Len(mm) = t /\ DOMAIN mm = 1 .. t
    BY <1>7
  <1>9. \A i \in 0 .. t - 1 : mm[i + 1] = At(sl, i)
    <2>1. \A i \in 0 .. t - 1 : i + 1 \in 1 .. t /\ (i + 1) - 1 = i
      OBVIOUS
    <2> QED BY <1>4, <1>6, <2>1, Zenon
  <1> QED BY <1>4, <1>6, <1>7, <1>8, <1>9, Zenon DEF Mirrors, Listed

Joins(x, y, z, a, c, V) ==
    /\ x \in [1 .. a -> V] /\ y \in [1 .. c -> V] /\ z \in [1 .. a + c -> V]
    /\ \A i \in 1 .. a : z[i] = x[i]
    /\ \A i \in 1 .. c : z[a + i] = y[i]

\* A concatenation, entry by entry.
LEMMA ConcatIs ==
    ASSUME NEW a \in Nat, NEW c \in Nat, NEW V, NEW x, NEW y, NEW z, Joins(x, y, z, a, c, V)
    PROVE  x \o y = z
  <1>0. x \in [1 .. a -> V] /\ y \in [1 .. c -> V]
    BY Zenon DEF Joins
  <1>1. x \in Seq(V) /\ Len(x) = a /\ y \in Seq(V) /\ Len(y) = c
    BY <1>0
  <1>2. x \o y \in Seq(V) /\ Len(x \o y) = a + c
    BY <1>1
  <1>3. \A i \in 1 .. a + c : (x \o y)[i] = IF i <= a THEN x[i] ELSE y[i - a]
    BY <1>1
  <1>4. \A i \in 1 .. a + c : z[i] = IF i <= a THEN x[i] ELSE y[i - a]
    <2> SUFFICES ASSUME NEW i \in 1 .. a + c PROVE z[i] = IF i <= a THEN x[i] ELSE y[i - a]
      BY Zenon
    <2>1. CASE i <= a
      <3>1. i \in 1 .. a
        BY <2>1
      <3> QED BY <2>1, <3>1, Zenon DEF Joins
    <2>2. CASE ~(i <= a)
      <3>1. i - a \in 1 .. c /\ a + (i - a) = i
        BY <2>2
      <3>2. z[a + (i - a)] = y[i - a]
        BY <3>1, Zenon DEF Joins
      <3> QED BY <2>2, <3>1, <3>2, Zenon
    <2> QED BY <2>1, <2>2, Zenon
  <1>5. PICK s \in Seq(V) : s = x \o y /\ Len(s) = a + c
    BY <1>2, Zenon
  <1>6. s = [i \in 1 .. a + c |-> s[i]]
    <2>1. s = [i \in 1 .. Len(s) |-> s[i]]
      OBVIOUS
    <2> QED BY <1>5, <2>1, Zenon
  <1>7. z = [i \in 1 .. a + c |-> z[i]]
    BY Zenon DEF Joins
  <1> QED BY <1>3, <1>4, <1>5, <1>6, <1>7, Zenon

\* The insertions are appended in the order of the list.
Chosen(batch, list) == [k \in DOMAIN list |-> batch[list[k]]]

\* Writing back appends the new entries to the unsharded database.
LEMMA Appended ==
    ASSUME NEW t \in Nat, NEW m \in Nat, t + m <= MaxDbSize, NEW batch \in Batches,
           NEW sl, NEW list, NEW dist, Placed(sl, t, batch, list, dist, m),
           NEW mm, Listed(mm, sl, t)
    PROVE  mm \o Chosen(batch, list) = EntriesOf(WriteBack(sl, Sizes(t), dist, batch), Sizes(t + m))
  <1> DEFINE V == Iris \cup {Dummy}
             sl2 == WriteBack(sl, Sizes(t), dist, batch)
             y == [k \in DOMAIN list |-> batch[list[k]]]
             z == [i \in 1 .. t + m |-> At(sl2, i - 1)]
  <1>0. mm = [i \in 1 .. t |-> At(sl, i - 1)] /\ mm \in [1 .. t -> V]
    BY Zenon DEF Listed
  <1>1. PICK u \in Nat : u = t + m
    OBVIOUS
  <1> HIDE DEF sl2
  <1>2. EntriesOf(sl2, Sizes(t + m)) = z
    <2>1. EntriesOf(sl2, Sizes(u)) = [i \in 1 .. u |-> At(sl2, i - 1)]
      BY EntriesOfIs, Zenon
    <2> QED BY <1>1, <2>1, Zenon
  <1>3. ASSUME NEW i \in 0 .. t + m - 1
        PROVE  At(sl2, i) = IF i < t THEN At(sl, i) ELSE batch[list[i - t + 1]]
    <2>1. Dealt(dist, list, t, m)
      BY Zenon DEF Placed
    <2> QED BY <2>1, Written DEF sl2
  <1>4. list \in [1 .. m -> DOMAIN batch] /\ DOMAIN list = 1 .. m
    BY Zenon DEF Placed
  <1>5. \A j \in DOMAIN batch : batch[j] \in V
    BY BatchLength, Zenon
  <1>6. y \in [1 .. m -> V] /\ \A k \in 1 .. m : y[k] = batch[list[k]]
    BY <1>4, <1>5, Zenon
  <1>7. \A i \in 1 .. t : z[i] = mm[i]
    <2>1. \A i \in 1 .. t : i \in 1 .. t + m /\ i - 1 \in 0 .. t + m - 1 /\ i - 1 < t
      OBVIOUS
    <2> QED BY <1>0, <1>3, <2>1, Zenon
  <1>8. \A k \in 1 .. m : z[t + k] = y[k]
    <2>1. \A k \in 1 .. m : /\ t + k \in 1 .. t + m /\ t + k - 1 \in 0 .. t + m - 1
                            /\ ~(t + k - 1 < t) /\ (t + k - 1) - t + 1 = k
      OBVIOUS
    <2> HIDE DEF y
    <2> SUFFICES ASSUME NEW k \in 1 .. m PROVE z[t + k] = y[k]
      BY Zenon
    <2>2. z[t + k] = At(sl2, t + k - 1)
      BY <2>1
    <2>3. At(sl2, t + k - 1) = batch[list[(t + k - 1) - t + 1]]
      BY <1>3, <2>1, Zenon
    <2>4. (t + k - 1) - t + 1 = k
      BY <2>1, Zenon
    <2> QED BY <1>6, <2>2, <2>3, <2>4, Zenon
  <1>9. z \in [1 .. t + m -> V]
    <2>1. \A i \in 1 .. t + m : z[i] \in V
      <3> SUFFICES ASSUME NEW i \in 1 .. t + m PROVE z[i] \in V
        BY Zenon
      <3> HIDE DEF z, y, V
      <3>1. CASE i <= t
        <4>1. i \in 1 .. t
          BY <3>1
        <4> QED BY <1>0, <1>7, <4>1, Zenon DEF V
      <3>2. CASE ~(i <= t)
        <4>1. i - t \in 1 .. m /\ t + (i - t) = i
          BY <3>2
        <4>2. z[t + (i - t)] = y[i - t] /\ y[i - t] \in V
          BY <1>6, <1>8, <4>1, Zenon
        <4> QED BY <4>1, <4>2, Zenon
      <3> QED BY <3>1, <3>2, Zenon
    <2> QED BY <2>1, Zenon
  <1> HIDE DEF V, y, z
  <1>10. mm \in [1 .. t -> V]
    BY <1>0, Zenon DEF V
  <1>11. mm \o y = z
    <2>1. Joins(mm, y, z, t, m, V)
      BY <1>6, <1>7, <1>8, <1>9, <1>10, Zenon DEF Joins
    <2> QED BY <2>1, ConcatIs, Zenon
  <1> QED BY <1>2, <1>11, Zenon DEF y, sl2, Chosen

\* MemoryDb's steps, read through the mapping.
LEMMA AnswerMapped ==
    ASSUME NEW mm, mm = Unsharded!Delete(Mem, job.deletions),
           NEW news, news = Unsharded!NewOnes(mm, job.batch),
           Len(mm) + Len(news) <= MaxDbSize,
           Mem' = mm \o Chosen(job.batch, news),
           DOMAIN Out' = DOMAIN job.batch,
           \A j \in DOMAIN job.batch : Unsharded!RightAnswer(mm, job.batch, news, j, Out'[j]),
           UNCHANGED phase
    PROVE  Unsharded!Answer
  BY Zenon DEF Unsharded!Answer, Chosen, Mem, Out, Seen

\* A batch that does not fit is the overflow of the unsharded database.
LEMMA OverflowMapped ==
    ASSUME NEW mm, mm = Unsharded!Delete(Mem, job.deletions),
           NEW news, news = Unsharded!NewOnes(mm, job.batch),
           Len(mm) + Len(news) > MaxDbSize,
           Mem' = mm, phase' = "failed", UNCHANGED Out
    PROVE  Unsharded!Overflow
  BY Zenon DEF Unsharded!Overflow, Mem, Out, Seen

\* Processing a batch is a step of the unsharded database.
LEMMA ProcessRefines == ASSUME Inv, process_batch_query PROVE Unsharded!Process
  <1>1. phase = "serving" /\ job # NoJob /\ job' = NoJob
    BY Zenon DEF process_batch_query
  <1>2. PICK t \in Nat : Served(t)
    BY <1>1, Zenon DEF Inv
  <1>3. PICK sl, list, dist : \E m \in Nat : Job(t, sl, list, dist, m)
    BY <1>2, ProcessIs, Zenon
  <1>4. PICK m \in Nat : Job(t, sl, list, dist, m)
    BY <1>3, Zenon
  <1>5. Mem = Entries
    BY <1>1, Zenon DEF Mem
  <1>6. PICK mm : mm = Unsharded!Delete(Entries, job.deletions)
    BY Zenon
  <1>7. Mirrors(mm, sl, t) /\ Listed(mm, sl, t)
    BY <1>2, <1>4, <1>6, DeletedMirrors, Zenon DEF Job
  <1>8. t <= MaxDbSize /\ job.batch \in Batches /\ Placed(sl, t, job.batch, list, dist, m)
    BY <1>2, <1>4, Zenon DEF Served, Job
  <1>9. list = Unsharded!NewOnes(mm, job.batch)
    <2>1. Unsharded!NewOnes(mm, job.batch) = insertion_list(sl, Sizes(t), job.batch)
      BY <1>7, <1>8, NewOnesAre, Zenon
    <2> QED BY <1>4, <2>1, Zenon DEF Job
  <1>10. Len(mm) = t /\ Len(list) = m
    <2>1. list \in [1 .. m -> DOMAIN job.batch]
      BY <1>8, Zenon DEF Placed
    <2> QED BY <1>7, <2>1, LenOf, Zenon DEF Mirrors
  <1>11. Entries' = EntriesOf(slots', current_db_sizes')
    BY Zenon DEF Entries, Entry, EntriesOf, DbTotal, At
  <1>12. CASE t + m > MaxDbSize /\ phase' = "failed" /\ slots' = sl /\ UNCHANGED <<current_db_sizes, result>>
    <2>1. Mem' = Entries'
      BY <1>12, Zenon DEF Mem
    <2>2. current_db_sizes' = Sizes(t)
      BY <1>2, <1>12, Zenon DEF Served
    <2>3. EntriesOf(sl, Sizes(t)) = [i \in 1 .. t |-> At(sl, i - 1)]
      BY EntriesOfIs, Zenon
    <2>4. Mem' = mm
      BY <1>7, <1>11, <1>12, <2>1, <2>2, <2>3, Zenon DEF Listed
    <2>5. UNCHANGED Out
      BY <1>12, Zenon DEF Out
    <2>6. Unsharded!Overflow
      BY <1>5, <1>6, <1>9, <1>10, <1>12, <2>4, <2>5, OverflowMapped, Zenon
    <2> QED BY <1>1, <2>6, Zenon DEF Unsharded!Process
  <1>13. CASE /\ t + m <= MaxDbSize
              /\ UNCHANGED phase
              /\ slots' = WriteBack(sl, Sizes(t), dist, job.batch)
              /\ current_db_sizes' = Sizes(t + m)
              /\ result' \in Results(sl, Sizes(t), job.batch, calculate_insertion_indices(dist, t))
    <2>1. Mem' = Entries'
      BY <1>1, <1>13, Zenon DEF Mem
    <2>2. mm \o Chosen(job.batch, list) = EntriesOf(slots', Sizes(t + m))
      <3>1. t + m <= MaxDbSize
        BY <1>13, Zenon
      <3>2. mm \o Chosen(job.batch, list) = EntriesOf(WriteBack(sl, Sizes(t), dist, job.batch), Sizes(t + m))
        BY <1>7, <1>8, <3>1, Appended, SMTT(20)
      <3> QED BY <1>13, <3>2, Zenon
    <2>3. Mem' = mm \o Chosen(job.batch, list)
      BY <1>11, <1>13, <2>1, <2>2, Zenon
    <2>4. PICK inserted : inserted = calculate_insertion_indices(dist, t)
      BY Zenon
    <2>5. ReportsEach(result', sl, Sizes(t), job.batch, inserted)
      BY <1>8, <1>13, <2>4, ResultsAre, Zenon
    <2>6. DOMAIN Out' = DOMAIN job.batch /\ \A j \in DOMAIN job.batch : Out'[j] = Seen(result'[j])
      BY <2>5, Zenon DEF ReportsEach, Out, Seen
    <2>7. \A j \in DOMAIN job.batch : Unsharded!RightAnswer(mm, job.batch, list, j, Out'[j])
      <3> SUFFICES ASSUME NEW j \in DOMAIN job.batch
                   PROVE  Unsharded!RightAnswer(mm, job.batch, list, j, Out'[j])
        BY Zenon
      <3>1. PICK rep : rep = result'[j]
        BY Zenon
      <3>2. Unsharded!RightAnswer(mm, job.batch, list, j, Seen(rep))
        BY <1>7, <1>8, <2>4, <2>5, <3>1, SeenIsRight, Zenon DEF ReportsEach
      <3> QED BY <2>6, <3>1, <3>2, Zenon
    <2>8. Unsharded!Answer
      BY <1>5, <1>6, <1>9, <1>10, <1>13, <2>3, <2>6, <2>7, AnswerMapped, Zenon
    <2> QED BY <1>1, <2>8, ZenonT(30) DEF Unsharded!Process
  <1> QED BY <1>4, <1>12, <1>13, ZenonT(30) DEF Job

\* Every step is a step of the unsharded database or leaves it alone.
LEMMA StepRefines == Inv /\ [Next]_vars => [Unsharded!Next]_(Unsharded!vars)
  <1> SUFFICES ASSUME Inv, [Next]_vars PROVE Unsharded!Next \/ UNCHANGED <<phase, job, Mem, Out>>
    BY Zenon DEF Unsharded!vars, Mem, Out, Seen
  <1>1. CASE UNCHANGED vars
    BY <1>1, Zenon DEF vars, Mem, Out, Entries, Entry, DbTotal
  <1>2. CASE \E i \in pending : LoadRecord(i)
    BY <1>2, Zenon DEF LoadRecord, Mem, Out
  <1>3. CASE FinishLoading
    <2>1. /\ phase = "loading" /\ phase' = "serving"
          /\ UNCHANGED <<slots, current_db_sizes, job, result>>
      BY <1>3, Zenon DEF FinishLoading
    <2>2. PICK t \in Nat : Served(t)'
      <3>1. Inv'
        BY <1>3, FinishLoadingInv
      <3> QED BY <2>1, <3>1, Zenon DEF Inv
    <2>3. PICK u \in Nat : Served(u)
      <3>1. Served(t)
        BY <2>1, <2>2, Zenon DEF Served
      <3> QED BY <3>1, Zenon
    <2>4. Entries \in Seq(Iris \cup {Dummy})
      BY <2>3, EntriesAre, Zenon
    <2>5. Mem' = Entries
      BY <2>1, Zenon DEF Mem, Entries, Entry, DbTotal
    <2>6. Unsharded!Load
      BY <2>1, <2>4, <2>5, Zenon DEF Unsharded!Load, Mem
    <2> QED BY <2>6, Zenon DEF Unsharded!Next
  <1>4. CASE \E batch \in Batches, deletions \in DeletionRequests : submit_batch_query(batch, deletions)
    <2>1. PICK batch \in Batches, deletions \in DeletionRequests : submit_batch_query(batch, deletions)
      BY <1>4, Zenon
    <2>2. /\ phase = "serving" /\ job = NoJob /\ result' = <<>>
          /\ job' = [batch |-> batch, deletions |-> deletions]
          /\ UNCHANGED <<phase, slots, current_db_sizes>>
      BY <2>1, Zenon DEF submit_batch_query
    <2>3. PICK k \in Nat : k <= MaxBatchSize /\ k = Len(batch) /\ batch \in [1 .. k -> Iris]
      BY BatchLength, Zenon
    <2>4. batch \in Seq(Iris) /\ deletions \in SUBSET Nat
      BY <2>3, DeletionsAssumption
    <2>5. job' \in [batch : Seq(Iris), deletions : SUBSET Nat] /\ Len(job'.batch) <= MaxBatchSize
      BY <2>2, <2>3, <2>4, Zenon
    <2>6. Mem' = Mem
      BY <2>2, Zenon DEF Mem, Entries, Entry, DbTotal
    <2>7. Out' = <<>>
      BY <2>2 DEF Out
    <2>8. Unsharded!Submit
      BY <2>2, <2>5, <2>6, <2>7, Zenon DEF Unsharded!Submit, Mem, Out, Seen
    <2> QED BY <2>8, Zenon DEF Unsharded!Next
  <1>5. CASE process_batch_query
    BY <1>5, ProcessRefines, Zenon DEF Unsharded!Next
  <1> QED BY <1>1, <1>2, <1>3, <1>4, <1>5, ZenonT(30) DEF Next

\* The actor starts with the unsharded database of an initial state.
LEMMA InitRefines == Init => Unsharded!Init
  <1> SUFFICES ASSUME Init PROVE Unsharded!Init
    OBVIOUS
  <1>1. phase = "loading" /\ job = NoJob /\ result = <<>>
    BY Zenon DEF Init
  <1>2. Mem = <<>> /\ Out = <<>>
    BY <1>1 DEF Mem, Out
  <1> QED BY <1>1, <1>2, ZenonT(30) DEF Unsharded!Init, Mem, Out, Seen

\* Whatever the devices, the limits and the batches, the sharding over the
\* devices cannot be seen from outside: the actor loads, deletes, answers and
\* inserts as the unsharded database does.
THEOREM ShardingIsInvisible == Spec => ImplementsMemoryDb
  <1>1. Inv /\ [Next]_vars => Inv'
    BY NextInv
  <1>2. Inv /\ [Next]_vars => [Unsharded!Next]_(Unsharded!vars)
    BY StepRefines, Zenon
  <1> QED BY InitInv, <1>1, <1>2, InitRefines, PTL DEF Spec, ImplementsMemoryDb, Unsharded!Spec

=============================================================================
