-------------------------- MODULE RecordLogProofs --------------------------
(***************************************************************************)
(* What the proofs of a log of any length promise: the inclusion and the   *)
(* consistency proofs of record/tree.go verify exactly for what they prove, *)
(* in every tree, and a checkpoint kept exposes every rewrite of the store. *)
(***************************************************************************)
EXTENDS RecordLog, TLAPS, WellFoundedInduction

\* Induction over the sizes of slices: a set that has every size whose smaller sizes it has.
LEMMA EverySize ==
    ASSUME NEW N \in Nat, NEW G,
           \A n \in 1..N : (\A j \in 1..n - 1 : j \in G) => n \in G
    PROVE  \A n \in 1..N : n \in G
<1> DEFINE Bad == (1..N) \ G
<1>1. SUFFICES ASSUME Bad # {} PROVE FALSE
  OBVIOUS
<1>2. Bad \in SUBSET Nat
  OBVIOUS
<1>3. PICK m \in Bad : \A k \in Bad : ~(<<k, m>> \in OpToRel(<, Nat))
  <2> HIDE DEF Bad
  <2>1. QED
    BY <1>1, <1>2, NatLessThanWellFounded, WFMin
<1>4. m \in 1..N /\ m \notin G
  OBVIOUS
<1>5. ASSUME NEW j \in 1..m - 1 PROVE j \in G
  <2>1. j \in Nat /\ m \in Nat /\ j < m /\ j \in 1..N
    BY <1>4
  <2>2. <<j, m>> \in OpToRel(<, Nat)
    BY <2>1 DEF OpToRel
  <2>3. j \notin Bad
    <3> HIDE DEF Bad
    <3>1. QED
      BY <2>2, <1>3
  <2>4. QED
    BY <2>1, <2>3
<1>6. QED
  BY <1>4, <1>5

-----------------------------------------------------------------------------
(* Where a tree splits. *)

Doubled(k, i) == IF 2 * k < i THEN 2 * k ELSE k
Splits(f, N) == f = [i \in 1..N |-> IF i = 1 THEN 1 ELSE Doubled(f[i - 1], i)]

LEMMA SplitsExist ==
    ASSUME NEW N \in Nat
    PROVE  \A n \in 1..N : \E f : Splits(f, n)
<1> DEFINE G == {n \in 1..N : \E f : Splits(f, n)}
<1>1. ASSUME NEW n \in 1..N, \A j \in 1..n - 1 : j \in G PROVE n \in G
  <2>1. CASE n = 1
    <3> DEFINE g == [i \in 1..1 |-> 1]
    <3>1. Splits(g, 1)
      BY DEF Splits
    <3> HIDE DEF g
    <3>2. QED
      BY <2>1, <3>1
  <2>2. CASE n # 1
    <3>1. n - 1 \in 1..n - 1
      BY <2>2
    <3>2. PICK f : Splits(f, n - 1)
      BY <1>1, <3>1
    <3> DEFINE g == [i \in 1..n |-> IF i = n THEN Doubled(f[n - 1], n) ELSE f[i]]
    <3>3. ASSUME NEW i \in 1..n PROVE g[i] = IF i = 1 THEN 1 ELSE Doubled(g[i - 1], i)
      <4>1. CASE i = n
        BY <4>1, <2>2, <3>1
      <4>2. CASE i # n
        <5>1. i \in 1..n - 1
          BY <4>2
        <5>2. f[i] = IF i = 1 THEN 1 ELSE Doubled(f[i - 1], i)
          BY <3>2, <5>1 DEF Splits
        <5>3. i # 1 => i - 1 \in 1..n /\ i - 1 # n
          BY <5>1
        <5>4. QED
          BY <5>2, <5>3, <4>2
      <4>3. QED
        BY <4>1, <4>2
    <3>4. g = [i \in 1..n |-> g[i]]
      OBVIOUS
    <3> HIDE DEF g
    <3>5. Splits(g, n)
      BY <3>3, <3>4 DEF Splits
    <3>6. QED
      BY <3>5
  <2>3. QED
    BY <2>1, <2>2
<1> HIDE DEF G
<1>2. \A n \in 1..N : n \in G
  BY <1>1, EverySize
<1>3. QED
  BY <1>2 DEF G

LEMMA SplitUnfolds ==
    ASSUME NEW n \in Nat, n >= 1
    PROVE  \E f : Splits(f, n) /\ largestPow2LT(n) = f[n]
<1> DEFINE f == CHOOSE g : Splits(g, n)
<1>1. largestPow2LT(n) = f[n]
  BY DEF largestPow2LT, f, Splits, Doubled
<1>2. \E g : Splits(g, n)
  <2>1. n \in 1..n
    OBVIOUS
  <2>2. QED
    BY <2>1, SplitsExist
<1>3. Splits(f, n)
  BY <1>2
<1>4. QED
  BY <1>1, <1>3

\* The splits of a run of sizes: each is a split of its size, and stays until the size
\* passes its double.
LEMMA SplitsOf ==
    ASSUME NEW N \in Nat, NEW f, Splits(f, N)
    PROVE  \A n \in 1..N : /\ f[n] \in Nat /\ f[n] >= 1 /\ n <= 2 * f[n]
                           /\ n # 1 => f[n] < n /\ (f[n] = f[n - 1] \/ f[n] = n - 1)
<1> DEFINE Good(n) == /\ f[n] \in Nat /\ f[n] >= 1 /\ n <= 2 * f[n]
                      /\ n # 1 => f[n] < n /\ (f[n] = f[n - 1] \/ f[n] = n - 1)
           G == {n \in 1..N : Good(n)}
<1>1. ASSUME NEW n \in 1..N, \A j \in 1..n - 1 : j \in G PROVE n \in G
  <2>1. f[n] = IF n = 1 THEN 1 ELSE Doubled(f[n - 1], n)
    BY DEF Splits
  <2>2. CASE n = 1
    BY <2>1, <2>2
  <2>3. CASE n # 1
    <3>1. n - 1 \in 1..n - 1
      BY <2>3
    <3>2. Good(n - 1)
      BY <3>1, <1>1
    <3>3. f[n - 1] \in Nat /\ f[n - 1] >= 1 /\ n - 1 <= 2 * f[n - 1] /\ (n - 1 # 1 => f[n - 1] < n - 1)
      BY <3>2
    <3>4. n - 1 = 1 => f[n - 1] = 1
      <4>1. n - 1 = 1 => 1 \in 1..N
        OBVIOUS
      <4>2. QED
        BY <4>1 DEF Splits
    <3>5. QED
      BY <2>1, <2>3, <3>3, <3>4 DEF Doubled
  <2>4. QED
    BY <2>2, <2>3
<1> HIDE DEF G
<1>2. \A n \in 1..N : n \in G
  BY <1>1, EverySize
<1>3. QED
  BY <1>2 DEF G

\* Two runs of splits agree where both are defined.
LEMMA SplitsAgree ==
    ASSUME NEW N \in Nat, NEW M \in Nat, M <= N, NEW f, NEW g, Splits(f, N), Splits(g, M)
    PROVE  \A n \in 1..M : f[n] = g[n]
<1> DEFINE G == {n \in 1..M : f[n] = g[n]}
<1>1. ASSUME NEW n \in 1..M, \A j \in 1..n - 1 : j \in G PROVE n \in G
  <2>1. f[n] = IF n = 1 THEN 1 ELSE Doubled(f[n - 1], n)
    BY DEF Splits
  <2>2. g[n] = IF n = 1 THEN 1 ELSE Doubled(g[n - 1], n)
    BY DEF Splits
  <2>3. n # 1 => n - 1 \in 1..n - 1
    OBVIOUS
  <2>4. n # 1 => f[n - 1] = g[n - 1]
    BY <2>3, <1>1
  <2>5. QED
    BY <2>1, <2>2, <2>4
<1> HIDE DEF G
<1>2. \A n \in 1..M : n \in G
  BY <1>1, EverySize
<1>3. QED
  BY <1>2 DEF G

\* largestPow2LT(n) leaves leaves on both sides.
LEMMA SplitInside ==
    ASSUME NEW n \in Nat, n >= 2
    PROVE  /\ largestPow2LT(n) \in 1..n - 1
           /\ n - largestPow2LT(n) \in 1..n - 1
<1>1. PICK f : Splits(f, n) /\ largestPow2LT(n) = f[n]
  BY SplitUnfolds
<1>2. n \in 1..n /\ n # 1
  OBVIOUS
<1>3. f[n] \in Nat /\ f[n] >= 1 /\ f[n] < n
  BY <1>1, <1>2, SplitsOf
<1>4. QED
  BY <1>1, <1>3

\* An older tree that reaches past the split of a newer one splits where it does.
LEMMA SplitShared ==
    ASSUME NEW n \in Nat, n >= 2, NEW m \in Nat, largestPow2LT(n) < m, m <= n
    PROVE  largestPow2LT(m) = largestPow2LT(n)
<1>1. PICK f : Splits(f, n) /\ largestPow2LT(n) = f[n]
  BY SplitUnfolds
<1>2. f[n] \in Nat /\ f[n] >= 1
  BY <1>1, SplitsOf
<1>3. m >= 1
  BY <1>1, <1>2
<1>4. PICK g : Splits(g, m) /\ largestPow2LT(m) = g[m]
  BY <1>3, SplitUnfolds
<1>5. f[m] = g[m]
  BY <1>1, <1>3, <1>4, SplitsAgree
<1> DEFINE G == {d \in 1..n : f[n] <= n - d => f[n + 1 - d] = f[n]}
<1>6. ASSUME NEW d \in 1..n, \A j \in 1..d - 1 : j \in G PROVE d \in G
  <2>1. CASE d = 1
    BY <2>1
  <2>2. CASE d # 1
    <3>1. SUFFICES ASSUME f[n] <= n - d PROVE f[n + 1 - d] = f[n]
      OBVIOUS
    <3>2. d - 1 \in 1..d - 1
      BY <2>2
    <3>3. f[n + 1 - (d - 1)] = f[n]
      BY <3>1, <3>2, <1>2, <1>6
    <3> DEFINE i == n + 1 - (d - 1)
    <3>4. i \in 1..n /\ i # 1 /\ i - 1 = n + 1 - d
      BY <2>2
    <3>5. f[i] = f[i - 1] \/ f[i] = i - 1
      <4> HIDE DEF i
      <4>1. QED
        BY <1>1, <3>4, SplitsOf
    <3>6. f[i] # i - 1
      BY <3>1, <3>3, <3>4, <1>2
    <3>7. QED
      BY <3>3, <3>4, <3>5, <3>6
  <2>3. QED
    BY <2>1, <2>2
<1> HIDE DEF G
<1>7. \A d \in 1..n : d \in G
  BY <1>6, EverySize
<1>8. f[m] = f[n]
  <2>1. n + 1 - m \in 1..n
    BY <1>3
  <2>2. f[n] <= n - (n + 1 - m) /\ n + 1 - (n + 1 - m) = m
    BY <1>1, <1>2
  <2>3. QED
    BY <2>1, <2>2, <1>7 DEF G
<1>9. QED
  BY <1>1, <1>4, <1>5, <1>8

-----------------------------------------------------------------------------
(* The recursions: each family of results over the slices is one step of its *)
(* recursion over itself.  One existence proof serves the five.               *)

HeadOf(ls, n, left, right) ==
    [lo \in 0..Len(ls) - n |->
        IF n = 1 THEN ls[lo + 1] ELSE nodeHash(left[lo], right[lo + largestPow2LT(n)])]

PathOf(m, ls, n, left, right) ==
    [lo \in 0..Len(ls) - n |->
        IF n = 1 THEN <<>>
        ELSE IF m < lo + largestPow2LT(n)
        THEN Append(left[lo], Heads(ls)[n - largestPow2LT(n)][lo + largestPow2LT(n)])
        ELSE Append(right[lo + largestPow2LT(n)], Heads(ls)[largestPow2LT(n)][lo])]

RootOf(leaf, seq, size, path, n, left, right) ==
    [lo \in 0..size - n |-> [p \in 0..Len(path) |->
        IF n = 1 THEN IF p = 0 THEN leaf ELSE Nothing
        ELSE IF p = 0 THEN Nothing
        ELSE IF seq < lo + largestPow2LT(n)
        THEN IF left[lo][p - 1] = Nothing THEN Nothing ELSE nodeHash(left[lo][p - 1], path[p])
        ELSE IF right[lo + largestPow2LT(n)][p - 1] = Nothing THEN Nothing
             ELSE nodeHash(path[p], right[lo + largestPow2LT(n)][p - 1])]]

ProofOf(m, ls, n, left, right) ==
    [lo \in 0..Len(ls) - n |->
        IF m = lo + n \/ n = 1 THEN IF lo = 0 THEN <<>> ELSE <<Heads(ls)[n][lo]>>
        ELSE IF m <= lo + largestPow2LT(n)
        THEN Append(left[lo], Heads(ls)[n - largestPow2LT(n)][lo + largestPow2LT(n)])
        ELSE Append(right[lo + largestPow2LT(n)], Heads(ls)[largestPow2LT(n)][lo])]

WithLeft(sub, h) == IF ~sub.ok THEN NoRoots ELSE Both(sub.older, nodeHash(sub.newer, h), sub.rest)
WithRight(sub, h) ==
    IF ~sub.ok THEN NoRoots ELSE Both(nodeHash(h, sub.older), nodeHash(h, sub.newer), sub.rest)

ConsOf(m, size, proof, seed, n, left, right) ==
    [lo \in 0..size - n |-> [p \in 0..Len(proof) |->
        IF m = lo + n
        THEN IF lo = 0 THEN Both(seed, seed, p)
             ELSE IF p = 0 THEN NoRoots
             ELSE Both(proof[p], proof[p], p - 1)
        ELSE IF m > lo + n \/ p = 0 \/ n = 1 THEN NoRoots
        ELSE IF m <= lo + largestPow2LT(n)
        THEN WithLeft(left[lo][p - 1], proof[p])
        ELSE WithRight(right[lo + largestPow2LT(n)][p - 1], proof[p])]]

Join(kind, a, b, c, d, n, left, right) ==
    IF kind = "head" THEN HeadOf(a, n, left, right)
    ELSE IF kind = "path" THEN PathOf(a, b, n, left, right)
    ELSE IF kind = "root" THEN RootOf(a, b, c, d, n, left, right)
    ELSE IF kind = "proof" THEN ProofOf(a, b, n, left, right)
    ELSE ConsOf(a, b, c, d, n, left, right)

Family(f, N, kind, a, b, c, d) ==
    f = [n \in 1..N |-> Join(kind, a, b, c, d, n, f[largestPow2LT(n)], f[n - largestPow2LT(n)])]

\* A slice of one leaf is not split.
LEMMA OneLeaf ==
    ASSUME NEW kind, NEW a, NEW b, NEW c, NEW d, NEW l1, NEW r1, NEW l2, NEW r2
    PROVE  Join(kind, a, b, c, d, 1, l1, r1) = Join(kind, a, b, c, d, 1, l2, r2)
<1>1. HeadOf(a, 1, l1, r1) = HeadOf(a, 1, l2, r2)
  BY DEF HeadOf
<1>2. PathOf(a, b, 1, l1, r1) = PathOf(a, b, 1, l2, r2)
  BY DEF PathOf
<1>3. RootOf(a, b, c, d, 1, l1, r1) = RootOf(a, b, c, d, 1, l2, r2)
  BY DEF RootOf
<1>4. ProofOf(a, b, 1, l1, r1) = ProofOf(a, b, 1, l2, r2)
  BY DEF ProofOf
<1>5. ConsOf(a, b, c, d, 1, l1, r1) = ConsOf(a, b, c, d, 1, l2, r2)
  BY DEF ConsOf
<1>6. QED
  BY <1>1, <1>2, <1>3, <1>4, <1>5 DEF Join

LEMMA FamiliesExist ==
    ASSUME NEW N \in Nat, NEW kind, NEW a, NEW b, NEW c, NEW d
    PROVE  \E f : Family(f, N, kind, a, b, c, d)
<1> DEFINE J(n, f) == Join(kind, a, b, c, d, n, f[largestPow2LT(n)], f[n - largestPow2LT(n)])
           Solves(f, i) == f = [n \in 1..i |-> J(n, f)]
           G == {j \in 1..N + 1 : \E f : Solves(f, j - 1)}
<1>1. ASSUME NEW j \in 1..N + 1, \A i \in 1..j - 1 : i \in G PROVE j \in G
  <2>1. CASE j = 1
    <3> DEFINE g == [n \in 1..0 |-> 0]
    <3>1. Solves(g, 0)
      <4> HIDE DEF J
      <4>1. QED
        OBVIOUS
    <3> HIDE DEF g, Solves
    <3>2. Solves(g, j - 1)
      BY <2>1, <3>1
    <3>3. QED
      BY <3>2
  <2>2. CASE j # 1
    <3> DEFINE i == j - 1
    <3>1. i \in 1..j - 1 /\ i \in Nat /\ i >= 1 /\ j = i + 1
      BY <2>2
    <3>2. PICK f : Solves(f, i - 1)
      <4> HIDE DEF i, J
      <4>1. QED
        BY <1>1, <3>1
    <3> DEFINE g == [n \in 1..i |-> IF n = i THEN J(i, f) ELSE f[n]]
    <3> HIDE DEF i
    <3>3. ASSUME NEW n \in 1..i PROVE J(n, g) = J(n, f)
      <4>1. CASE n = 1
        <5>1. \A l1, r1, l2, r2 : Join(kind, a, b, c, d, 1, l1, r1) = Join(kind, a, b, c, d, 1, l2, r2)
          BY OneLeaf
        <5> HIDE DEF g
        <5>2. QED
          BY <5>1, <4>1
      <4>2. CASE n # 1
        <5>1. n \in Nat /\ n >= 2
          BY <4>2, <3>1
        <5>2. largestPow2LT(n) \in 1..n - 1 /\ n - largestPow2LT(n) \in 1..n - 1
          BY <5>1, SplitInside
        <5>3. \A x \in 1..n - 1 : x \in 1..i /\ x # i
          BY <3>1
        <5>4. \A x \in 1..n - 1 : g[x] = f[x]
          BY <5>3
        <5> HIDE DEF g
        <5>5. QED
          BY <5>2, <5>4
      <4>3. QED
        BY <4>1, <4>2
    <3>4. ASSUME NEW n \in 1..i PROVE g[n] = J(n, f)
      <4> HIDE DEF J
      <4>1. n # i => n \in 1..i - 1
        BY <3>1
      <4>2. QED
        BY <4>1, <3>2
    <3>5. g = [n \in 1..i |-> g[n]]
      OBVIOUS
    <3> HIDE DEF g, J
    <3>6. Solves(g, i)
      BY <3>3, <3>4, <3>5
    <3>7. QED
      BY <3>1, <3>6
  <2>3. QED
    BY <2>1, <2>2
<1> HIDE DEF G
<1>2. \A j \in 1..N + 1 : j \in G
  BY <1>1, EverySize
<1>3. \E f : Solves(f, N)
  <2>1. N + 1 \in 1..N + 1 /\ (N + 1) - 1 = N
    OBVIOUS
  <2> HIDE DEF Solves
  <2>2. QED
    BY <1>2, <2>1 DEF G
<1>4. QED
  BY <1>3 DEF Family

LEMMA HeadsUnfold ==
    ASSUME NEW ls, Len(ls) \in Nat, NEW n \in 1..Len(ls), NEW lo \in 0..Len(ls) - n
    PROVE  /\ n = 1 => Heads(ls)[n][lo] = ls[lo + 1]
           /\ n # 1 => Heads(ls)[n][lo] = nodeHash(Heads(ls)[largestPow2LT(n)][lo],
                            Heads(ls)[n - largestPow2LT(n)][lo + largestPow2LT(n)])
<1> DEFINE Solves(f) ==
        f = [i \in 1..Len(ls) |-> HeadOf(ls, i, f[largestPow2LT(i)], f[i - largestPow2LT(i)])]
<1>1. Heads(ls) = CHOOSE f : Solves(f)
  BY Zenon DEF Heads, HeadOf
<1>2. \E f : Solves(f)
  <2>1. PICK f : Family(f, Len(ls), "head", ls, ls, ls, ls)
    BY FamiliesExist
  <2>2. Solves(f)
    BY <2>1 DEF Family, Join
  <2>3. QED
    BY <2>2
<1>3. Solves(Heads(ls))
  <2> HIDE DEF Solves
  <2>1. QED
    BY <1>1, <1>2
<1>4. Heads(ls)[n] = HeadOf(ls, n, Heads(ls)[largestPow2LT(n)], Heads(ls)[n - largestPow2LT(n)])
  BY <1>3
<1>5. QED
  BY <1>4 DEF HeadOf

LEMMA PathsUnfold ==
    ASSUME NEW m, NEW ls, Len(ls) \in Nat, NEW n \in 1..Len(ls), NEW lo \in 0..Len(ls) - n
    PROVE  LET k == largestPow2LT(n) IN
           /\ n = 1 => Paths(m, ls)[n][lo] = <<>>
           /\ n # 1 => Paths(m, ls)[n][lo] =
                           IF m < lo + k THEN Append(Paths(m, ls)[k][lo], Heads(ls)[n - k][lo + k])
                           ELSE Append(Paths(m, ls)[n - k][lo + k], Heads(ls)[k][lo])
<1> DEFINE Solves(f) ==
        f = [i \in 1..Len(ls) |-> PathOf(m, ls, i, f[largestPow2LT(i)], f[i - largestPow2LT(i)])]
<1>1. Paths(m, ls) = CHOOSE f : Solves(f)
  BY Zenon DEF Paths, PathOf
<1>2. \E f : Solves(f)
  <2>1. PICK f : Family(f, Len(ls), "path", m, ls, ls, ls)
    BY FamiliesExist
  <2>2. Solves(f)
    BY <2>1 DEF Family, Join
  <2>3. QED
    BY <2>2
<1>3. Solves(Paths(m, ls))
  <2> HIDE DEF Solves
  <2>1. QED
    BY <1>1, <1>2
<1>4. Paths(m, ls)[n] = PathOf(m, ls, n, Paths(m, ls)[largestPow2LT(n)], Paths(m, ls)[n - largestPow2LT(n)])
  BY <1>3
<1>5. QED
  BY <1>4 DEF PathOf

LEMMA RootsUnfold ==
    ASSUME NEW leaf, NEW seq, NEW size \in Nat, NEW path,
           NEW n \in 1..size, NEW lo \in 0..size - n, NEW p \in 0..Len(path)
    PROVE  LET R == Roots(leaf, seq, size, path)
               k == largestPow2LT(n)
           IN /\ n = 1 => R[n][lo][p] = IF p = 0 THEN leaf ELSE Nothing
              /\ n # 1 => R[n][lo][p] =
                     IF p = 0 THEN Nothing
                     ELSE IF seq < lo + k
                     THEN IF R[k][lo][p - 1] = Nothing THEN Nothing ELSE nodeHash(R[k][lo][p - 1], path[p])
                     ELSE IF R[n - k][lo + k][p - 1] = Nothing THEN Nothing
                          ELSE nodeHash(path[p], R[n - k][lo + k][p - 1])
<1> DEFINE Solves(f) ==
        f = [i \in 1..size |-> RootOf(leaf, seq, size, path, i, f[largestPow2LT(i)], f[i - largestPow2LT(i)])]
           R == Roots(leaf, seq, size, path)
<1>1. R = CHOOSE f : Solves(f)
  BY Zenon DEF Roots, RootOf
<1>2. \E f : Solves(f)
  <2>1. PICK f : Family(f, size, "root", leaf, seq, size, path)
    BY FamiliesExist
  <2>2. Solves(f)
    BY <2>1 DEF Family, Join
  <2>3. QED
    BY <2>2
<1>3. Solves(R)
  <2> HIDE DEF Solves, R
  <2>1. QED
    BY <1>1, <1>2
<1> HIDE DEF R
<1>4. R[n] = RootOf(leaf, seq, size, path, n, R[largestPow2LT(n)], R[n - largestPow2LT(n)])
  BY <1>3
<1>5. QED
  BY <1>4 DEF RootOf, R

LEMMA ProofsUnfold ==
    ASSUME NEW m, NEW ls, Len(ls) \in Nat, NEW n \in 1..Len(ls)
    PROVE  LET Q == subProof(m, ls)
           IN  Q[n] = ProofOf(m, ls, n, Q[largestPow2LT(n)], Q[n - largestPow2LT(n)])
<1> DEFINE Solves(f) ==
        f = [i \in 1..Len(ls) |-> ProofOf(m, ls, i, f[largestPow2LT(i)], f[i - largestPow2LT(i)])]
<1>1. subProof(m, ls) = CHOOSE f : Solves(f)
  BY Zenon DEF subProof, ProofOf
<1>2. \E f : Solves(f)
  <2>1. PICK f : Family(f, Len(ls), "proof", m, ls, ls, ls)
    BY FamiliesExist
  <2>2. Solves(f)
    BY <2>1 DEF Family, Join
  <2>3. QED
    BY <2>2
<1>3. Solves(subProof(m, ls))
  <2> HIDE DEF Solves
  <2>1. QED
    BY <1>1, <1>2
<1>4. QED
  BY <1>3

LEMMA ConsUnfold ==
    ASSUME NEW m, NEW size \in Nat, NEW proof, NEW seed, NEW n \in 1..size
    PROVE  LET C == consRoots(m, size, proof, seed)
           IN  C[n] = ConsOf(m, size, proof, seed, n, C[largestPow2LT(n)], C[n - largestPow2LT(n)])
<1> DEFINE Solves(f) ==
        f = [i \in 1..size |-> ConsOf(m, size, proof, seed, i, f[largestPow2LT(i)], f[i - largestPow2LT(i)])]
           C == consRoots(m, size, proof, seed)
<1>1. C = CHOOSE f : Solves(f)
  BY Zenon DEF consRoots, ConsOf, WithLeft, WithRight
<1>2. \E f : Solves(f)
  <2>1. PICK f : Family(f, size, "cons", m, size, proof, seed)
    BY FamiliesExist
  <2>2. Solves(f)
    BY <2>1 DEF Family, Join
  <2>3. QED
    BY <2>2
<1>3. Solves(C)
  <2> HIDE DEF Solves, C
  <2>1. QED
    BY <1>1, <1>2
<1> HIDE DEF C
<1>4. C[n] = ConsOf(m, size, proof, seed, n, C[largestPow2LT(n)], C[n - largestPow2LT(n)])
  BY <1>3
<1>5. QED
  BY <1>4 DEF C

LEMMA ProofWhole ==
    ASSUME NEW m \in Nat, NEW ls, Len(ls) \in Nat, NEW n \in 1..Len(ls), NEW lo \in 0..Len(ls) - n, m = lo + n
    PROVE  subProof(m, ls)[n][lo] = IF lo = 0 THEN <<>> ELSE <<Heads(ls)[n][lo]>>
<1> DEFINE Q == subProof(m, ls)
<1>1. Q[n] = ProofOf(m, ls, n, Q[largestPow2LT(n)], Q[n - largestPow2LT(n)])
  BY ProofsUnfold
<1> HIDE DEF Q
<1>2. QED
  BY <1>1 DEF ProofOf, Q

LEMMA ProofSplit ==
    ASSUME NEW m \in Nat, NEW ls, Len(ls) \in Nat, NEW n \in 1..Len(ls), NEW lo \in 0..Len(ls) - n,
           m # lo + n, n # 1
    PROVE  LET k == largestPow2LT(n) IN
           subProof(m, ls)[n][lo] =
               IF m <= lo + k THEN Append(subProof(m, ls)[k][lo], Heads(ls)[n - k][lo + k])
               ELSE Append(subProof(m, ls)[n - k][lo + k], Heads(ls)[k][lo])
<1> DEFINE Q == subProof(m, ls)
<1>1. Q[n] = ProofOf(m, ls, n, Q[largestPow2LT(n)], Q[n - largestPow2LT(n)])
  BY ProofsUnfold
<1> HIDE DEF Q
<1>2. QED
  BY <1>1 DEF ProofOf, Q

LEMMA ConsWhole ==
    ASSUME NEW m \in Nat, NEW size \in Nat, NEW S, NEW proof \in Seq(S), NEW seed,
           NEW n \in 1..size, NEW lo \in 0..size - n, NEW p \in 0..Len(proof), m = lo + n
    PROVE  consRoots(m, size, proof, seed)[n][lo][p] =
               IF lo = 0 THEN Both(seed, seed, p)
               ELSE IF p = 0 THEN NoRoots
               ELSE Both(proof[p], proof[p], p - 1)
<1> DEFINE C == consRoots(m, size, proof, seed)
<1>1. C[n] = ConsOf(m, size, proof, seed, n, C[largestPow2LT(n)], C[n - largestPow2LT(n)])
  BY ConsUnfold
<1> HIDE DEF C
<1>2. QED
  BY <1>1 DEF ConsOf, C

LEMMA ConsNone ==
    ASSUME NEW m \in Nat, NEW size \in Nat, NEW S, NEW proof \in Seq(S), NEW seed,
           NEW n \in 1..size, NEW lo \in 0..size - n, NEW p \in 0..Len(proof),
           m # lo + n, ~(m > lo + n), n # 1, p = 0
    PROVE  consRoots(m, size, proof, seed)[n][lo][p] = NoRoots
<1> DEFINE C == consRoots(m, size, proof, seed)
<1>1. C[n] = ConsOf(m, size, proof, seed, n, C[largestPow2LT(n)], C[n - largestPow2LT(n)])
  BY ConsUnfold
<1> HIDE DEF C
<1>2. QED
  BY <1>1 DEF ConsOf, C

LEMMA ConsLeft ==
    ASSUME NEW m \in Nat, NEW size \in Nat, NEW S, NEW proof \in Seq(S), NEW seed,
           NEW n \in 1..size, NEW lo \in 0..size - n, NEW p \in 0..Len(proof),
           m # lo + n, ~(m > lo + n), n # 1, p # 0, m <= lo + largestPow2LT(n)
    PROVE  consRoots(m, size, proof, seed)[n][lo][p] =
               WithLeft(consRoots(m, size, proof, seed)[largestPow2LT(n)][lo][p - 1], proof[p])
<1> DEFINE C == consRoots(m, size, proof, seed)
<1>1. C[n] = ConsOf(m, size, proof, seed, n, C[largestPow2LT(n)], C[n - largestPow2LT(n)])
  BY ConsUnfold
<1> HIDE DEF C
<1>2. QED
  BY <1>1 DEF ConsOf, C

LEMMA ConsRight ==
    ASSUME NEW m \in Nat, NEW size \in Nat, NEW S, NEW proof \in Seq(S), NEW seed,
           NEW n \in 1..size, NEW lo \in 0..size - n, NEW p \in 0..Len(proof),
           m # lo + n, ~(m > lo + n), n # 1, p # 0, ~(m <= lo + largestPow2LT(n))
    PROVE  consRoots(m, size, proof, seed)[n][lo][p] =
               WithRight(consRoots(m, size, proof, seed)[n - largestPow2LT(n)][lo + largestPow2LT(n)][p - 1],
                         proof[p])
<1> DEFINE C == consRoots(m, size, proof, seed)
<1>1. C[n] = ConsOf(m, size, proof, seed, n, C[largestPow2LT(n)], C[n - largestPow2LT(n)])
  BY ConsUnfold
<1> HIDE DEF C
<1>2. QED
  BY <1>1 DEF ConsOf, C

-----------------------------------------------------------------------------
(* Heads. *)

Leafy(ls) == Len(ls) \in Nat /\ \A i \in 1..Len(ls) : \E x : ls[i] = leafHash(x)
Distinct(ls) == \A i, j \in 1..Len(ls) : ls[i] = ls[j] => i = j

LEMMA NodesDiffer ==
    \A a, b, c, d : nodeHash(a, b) = nodeHash(c, d) => a = c /\ b = d
BY DEF nodeHash

LEMMA KindsDiffer ==
    ASSUME NEW x, NEW a, NEW b
    PROVE  leafHash(x) # nodeHash(a, b) /\ leafHash(x) # Nothing /\ nodeHash(a, b) # Nothing
<1>1. leafHash(x)[1] = "leaf" /\ nodeHash(a, b)[1] = "node" /\ Nothing[1] = "nothing"
  BY DEF leafHash, nodeHash, Nothing
<1>2. "leaf" # "node" /\ "leaf" # "nothing" /\ "node" # "nothing"
  OBVIOUS
<1>3. QED
  BY <1>1, <1>2

\* Both halves of a slice are slices, and smaller.
LEMMA Halves ==
    ASSUME NEW N \in Nat, NEW n \in 1..N, NEW lo \in 0..N - n, n # 1
    PROVE  LET k == largestPow2LT(n) IN
           /\ k \in 1..n - 1 /\ n - k \in 1..n - 1
           /\ k \in 1..N /\ n - k \in 1..N
           /\ lo \in 0..N - k /\ lo + k \in 0..N - (n - k)
<1>1. n \in Nat /\ n >= 2
  OBVIOUS
<1>2. largestPow2LT(n) \in 1..n - 1 /\ n - largestPow2LT(n) \in 1..n - 1
  BY <1>1, SplitInside
<1>3. QED
  BY <1>2

\* A head is a leaf or a node by the size of its slice, and never Nothing.
LEMMA HeadKind ==
    ASSUME NEW ls, Leafy(ls), NEW n \in 1..Len(ls), NEW lo \in 0..Len(ls) - n
    PROVE  /\ n = 1 => \E x : Heads(ls)[n][lo] = leafHash(x)
           /\ n # 1 => \E a, b : Heads(ls)[n][lo] = nodeHash(a, b)
           /\ Heads(ls)[n][lo] # Nothing
<1>1. Len(ls) \in Nat
  BY DEF Leafy
<1>2. n = 1 => Heads(ls)[n][lo] = ls[lo + 1] /\ lo + 1 \in 1..Len(ls)
  BY <1>1, HeadsUnfold
<1>3. n = 1 => \E x : Heads(ls)[n][lo] = leafHash(x)
  BY <1>2 DEF Leafy
<1>4. n # 1 => \E a, b : Heads(ls)[n][lo] = nodeHash(a, b)
  BY <1>1, HeadsUnfold
<1>5. QED
  BY <1>3, <1>4, KindsDiffer

\* The head of a slice commits its size and every leaf in it.
LEMMA HeadsCommit ==
    ASSUME NEW l1, NEW l2, Leafy(l1), Leafy(l2),
           NEW n1 \in 1..Len(l1), NEW lo1 \in 0..Len(l1) - n1,
           NEW n2 \in 1..Len(l2), NEW lo2 \in 0..Len(l2) - n2,
           Heads(l1)[n1][lo1] = Heads(l2)[n2][lo2]
    PROVE  n1 = n2 /\ \A i \in 1..n1 : l1[lo1 + i] = l2[lo2 + i]
<1> DEFINE Same(a, x, b, y) == a = b /\ \A i \in 1..a : l1[x + i] = l2[y + i]
           Commits(a, x, b, y) == Heads(l1)[a][x] = Heads(l2)[b][y] => Same(a, x, b, y)
           G == {a \in 1..Len(l1) : \A x \in 0..Len(l1) - a : \A b \in 1..Len(l2) :
                     \A y \in 0..Len(l2) - b : Commits(a, x, b, y)}
<1>1. Len(l1) \in Nat /\ Len(l2) \in Nat
  BY DEF Leafy
<1>2. ASSUME NEW a \in 1..Len(l1), \A j \in 1..a - 1 : j \in G PROVE a \in G
  <2>1. SUFFICES ASSUME NEW x \in 0..Len(l1) - a, NEW b \in 1..Len(l2), NEW y \in 0..Len(l2) - b,
                        Heads(l1)[a][x] = Heads(l2)[b][y]
                 PROVE  Same(a, x, b, y)
    OBVIOUS
  <2>2. (a = 1) <=> (b = 1)
    BY <2>1, HeadKind, KindsDiffer
  <2>3. CASE a = 1
    <3>1. b = 1
      BY <2>2, <2>3
    <3>2. l1[x + 1] = l2[y + 1]
      BY <2>1, <2>3, <3>1, <1>1, HeadsUnfold
    <3>3. QED
      BY <2>3, <3>1, <3>2
  <2>4. CASE a # 1
    <3>1. b # 1
      BY <2>2, <2>4
    <3> DEFINE k == largestPow2LT(a)
               h == largestPow2LT(b)
    <3>2. /\ k \in 1..a - 1 /\ a - k \in 1..a - 1 /\ k \in 1..Len(l1) /\ a - k \in 1..Len(l1)
          /\ x \in 0..Len(l1) - k /\ x + k \in 0..Len(l1) - (a - k)
      BY <1>1, <2>4, Halves
    <3>3. /\ h \in 1..b - 1 /\ b - h \in 1..b - 1 /\ h \in 1..Len(l2) /\ b - h \in 1..Len(l2)
          /\ y \in 0..Len(l2) - h /\ y + h \in 0..Len(l2) - (b - h)
      BY <1>1, <3>1, Halves
    <3>4. /\ Heads(l1)[a][x] = nodeHash(Heads(l1)[k][x], Heads(l1)[a - k][x + k])
          /\ Heads(l2)[b][y] = nodeHash(Heads(l2)[h][y], Heads(l2)[b - h][y + h])
      BY <1>1, <2>4, <3>1, HeadsUnfold
    <3> HIDE DEF k, h
    <3>5. Heads(l1)[k][x] = Heads(l2)[h][y] /\ Heads(l1)[a - k][x + k] = Heads(l2)[b - h][y + h]
      <4>1. nodeHash(Heads(l1)[k][x], Heads(l1)[a - k][x + k])
                = nodeHash(Heads(l2)[h][y], Heads(l2)[b - h][y + h])
        BY <2>1, <3>4, Zenon
      <4>2. QED
        BY <4>1 DEF nodeHash
    <3>6. Same(k, x, h, y) /\ Same(a - k, x + k, b - h, y + h)
      <4>1. k \in G /\ a - k \in G
        BY <1>2, <3>2
      <4>2. Commits(k, x, h, y) /\ Commits(a - k, x + k, b - h, y + h)
        <5> HIDE DEF Commits
        <5>1. QED
          BY <4>1, <3>2, <3>3
      <4>3. QED
        BY <4>2, <3>5
    <3>7. k = h /\ a = b
      <4>1. k = h /\ a - k = b - h
        BY <3>6, Zenon
      <4>2. a \in Int /\ b \in Int /\ k \in Int /\ h \in Int
        BY <3>2, <3>3
      <4> HIDE DEF G, Commits, Same
      <4>3. QED
        BY <4>1, <4>2
    <3>8. ASSUME NEW i \in 1..a PROVE l1[x + i] = l2[y + i]
      <4>1. CASE i <= k
        <5>1. i \in 1..k
          BY <4>1, <3>2
        <5>2. QED
          BY <5>1, <3>6
      <4>2. CASE i > k
        <5>1. i - k \in 1..a - k
          BY <4>2, <3>2
        <5>2. l1[x + k + (i - k)] = l2[y + h + (i - k)]
          BY <5>1, <3>6
        <5>3. x + k + (i - k) = x + i /\ y + h + (i - k) = y + i
          BY <3>7, <3>2
        <5>4. QED
          BY <5>2, <5>3
      <4>3. QED
        BY <4>1, <4>2, <3>2
    <3>9. QED
      BY <3>7, <3>8
  <2>5. QED
    BY <2>3, <2>4
<1> HIDE DEF G
<1>3. \A a \in 1..Len(l1) : a \in G
  BY <1>1, <1>2, EverySize
<1>4. Commits(n1, lo1, n2, lo2)
  <2> HIDE DEF Commits
  <2>1. QED
    BY <1>3 DEF G
<1>5. QED
  BY <1>4

Slice(ls, n, lo) == n \in 1..Len(ls) /\ lo \in 0..Len(ls) - n
SameLeaves(l1, lo1, l2, lo2, n) == \A i \in 1..n : l1[lo1 + i] = l2[lo2 + i]

LEMMA SlicesCommit ==
    ASSUME NEW l1, NEW l2, Leafy(l1), Leafy(l2), NEW n1, NEW lo1, NEW n2, NEW lo2,
           Slice(l1, n1, lo1), Slice(l2, n2, lo2), Heads(l1)[n1][lo1] = Heads(l2)[n2][lo2]
    PROVE  n1 = n2 /\ SameLeaves(l1, lo1, l2, lo2, n1)
<1>1. n1 = n2
  BY HeadsCommit DEF Slice
<1>2. SameLeaves(l1, lo1, l2, lo2, n1)
  BY HeadsCommit DEF Slice, SameLeaves
<1>3. QED
  BY <1>1, <1>2

\* Where no leaf occurs twice, no two slices have one head.
LEMMA SlicesDiffer ==
    ASSUME NEW ls, Leafy(ls), Distinct(ls),
           NEW n1 \in 1..Len(ls), NEW lo1 \in 0..Len(ls) - n1,
           NEW n2 \in 1..Len(ls), NEW lo2 \in 0..Len(ls) - n2,
           n1 # n2 \/ lo1 # lo2
    PROVE  Heads(ls)[n1][lo1] # Heads(ls)[n2][lo2]
<1>1. SUFFICES ASSUME Heads(ls)[n1][lo1] = Heads(ls)[n2][lo2] PROVE FALSE
  OBVIOUS
<1>2. n1 = n2
  BY <1>1, HeadsCommit
<1>3. \A i \in 1..n1 : ls[lo1 + i] = ls[lo2 + i]
  BY <1>1, HeadsCommit
<1>4. Len(ls) \in Nat
  BY DEF Leafy
<1>5. ls[lo1 + 1] = ls[lo2 + 1] /\ lo1 + 1 \in 1..Len(ls) /\ lo2 + 1 \in 1..Len(ls)
  BY <1>3, <1>4
<1>6. QED
  BY <1>2, <1>4, <1>5 DEF Distinct

\* Slices with the same leaves have the same head, whatever logs they are in.
LEMMA HeadsAgree ==
    ASSUME NEW l1, NEW l2, Len(l1) \in Nat, Len(l2) \in Nat,
           NEW m \in Nat, m <= Len(l1), m <= Len(l2),
           \A i \in 1..m : l1[i] = l2[i]
    PROVE  \A n \in 1..m : \A lo \in 0..m - n : Heads(l1)[n][lo] = Heads(l2)[n][lo]
<1> DEFINE G == {n \in 1..m : \A lo \in 0..m - n : Heads(l1)[n][lo] = Heads(l2)[n][lo]}
<1>1. ASSUME NEW n \in 1..m, \A j \in 1..n - 1 : j \in G PROVE n \in G
  <2>1. SUFFICES ASSUME NEW lo \in 0..m - n PROVE Heads(l1)[n][lo] = Heads(l2)[n][lo]
    OBVIOUS
  <2>2. n \in 1..Len(l1) /\ lo \in 0..Len(l1) - n /\ n \in 1..Len(l2) /\ lo \in 0..Len(l2) - n
    OBVIOUS
  <2>3. CASE n = 1
    <3>1. Heads(l1)[n][lo] = l1[lo + 1] /\ Heads(l2)[n][lo] = l2[lo + 1]
      BY <2>2, <2>3, HeadsUnfold
    <3>2. lo + 1 \in 1..m
      BY <2>3
    <3>3. QED
      BY <3>1, <3>2
  <2>4. CASE n # 1
    <3> DEFINE k == largestPow2LT(n)
    <3>1. /\ k \in 1..n - 1 /\ n - k \in 1..n - 1 /\ lo \in 0..m - k /\ lo + k \in 0..m - (n - k)
      BY <2>4, Halves
    <3>2. /\ Heads(l1)[n][lo] = nodeHash(Heads(l1)[k][lo], Heads(l1)[n - k][lo + k])
          /\ Heads(l2)[n][lo] = nodeHash(Heads(l2)[k][lo], Heads(l2)[n - k][lo + k])
      BY <2>2, <2>4, HeadsUnfold
    <3> HIDE DEF k
    <3>3. Heads(l1)[k][lo] = Heads(l2)[k][lo]
      BY <1>1, <3>1
    <3>4. Heads(l1)[n - k][lo + k] = Heads(l2)[n - k][lo + k]
      BY <1>1, <3>1
    <3>5. QED
      BY <3>2, <3>3, <3>4
  <2>5. QED
    BY <2>3, <2>4
<1> HIDE DEF G
<1>2. \A n \in 1..m : n \in G
  BY <1>1, EverySize
<1>3. QED
  BY <1>2 DEF G

-----------------------------------------------------------------------------
(* Inclusion. *)

HeadSet(ls) == {Heads(ls)[n][lo] : n \in 1..Len(ls), lo \in 0..Len(ls)}

FirstOf(s, p) == SubSeq(s, 1, p)
Then(x, h) == Append(x, h)
IsSeq(x) == \E T : x \in Seq(T)

\* A sequence read from its end: its last element and what comes before.
LEMMA FrontAndLast ==
    ASSUME NEW s, NEW x, NEW h, NEW p \in 1..Len(s), IsSeq(s), IsSeq(x)
    PROVE  FirstOf(s, p) = Then(x, h) <=> (s[p] = h /\ FirstOf(s, p - 1) = x)
<1> USE DEF FirstOf, Then
<1>1. PICK S : s \in Seq(S)
  BY DEF IsSeq
<1>2. PICK T : x \in Seq(T)
  BY DEF IsSeq
<1> DEFINE u == SubSeq(s, 1, p)
           v == SubSeq(s, 1, p - 1)
           w == Append(x, h)
<1>3. u = [i \in 1..p |-> s[i]] /\ v = [i \in 1..p - 1 |-> s[i]]
  BY <1>1
<1>4. Len(x) \in Nat /\ x = [i \in 1..Len(x) |-> x[i]]
  BY <1>2
<1>5. w = [i \in 1..Len(x) + 1 |-> IF i = Len(x) + 1 THEN h ELSE x[i]]
  <2>1. x \in Seq(T \cup {h}) /\ h \in T \cup {h}
    BY <1>2
  <2>2. w \in Seq(T \cup {h}) /\ Len(w) = Len(x) + 1 /\ w[Len(x) + 1] = h
    BY <2>1
  <2>3. \A i \in 1..Len(x) : w[i] = x[i]
    BY <2>1
  <2> HIDE DEF w
  <2>4. w = [i \in 1..Len(w) |-> w[i]]
    BY <2>2
  <2>5. ASSUME NEW i \in 1..Len(x) + 1 PROVE w[i] = IF i = Len(x) + 1 THEN h ELSE x[i]
    BY <1>4, <2>2, <2>3
  <2>6. QED
    BY <2>2, <2>4, <2>5
<1>6. Len(u) = p /\ Len(v) = p - 1 /\ Len(w) = Len(x) + 1
  BY <1>1, <1>2
<1> HIDE DEF u, v, w
<1>7. ASSUME u = w PROVE s[p] = h /\ v = x
  <2>1. p = Len(x) + 1
    BY <1>6, <1>7, <1>4
  <2>2. u[p] = s[p] /\ w[p] = h
    BY <1>3, <1>4, <1>5, <2>1
  <2>3. ASSUME NEW i \in 1..p - 1 PROVE s[i] = x[i]
    <3>1. u[i] = s[i] /\ w[i] = x[i]
      BY <1>3, <1>4, <1>5, <2>1
    <3>2. QED
      BY <3>1, <1>7
  <2>4. QED
    BY <1>3, <1>4, <1>7, <2>1, <2>2, <2>3
<1>8. ASSUME s[p] = h, v = x PROVE u = w
  <2>1. p = Len(x) + 1
    BY <1>6, <1>8, <1>4
  <2>2. ASSUME NEW i \in 1..p PROVE s[i] = IF i = Len(x) + 1 THEN h ELSE x[i]
    BY <1>3, <1>8, <2>1
  <2>3. QED
    BY <1>3, <1>5, <2>1, <2>2
<1>9. QED
  BY <1>7, <1>8 DEF u, v, w

LEMMA AppendInjective ==
    \A T : \A x, y \in Seq(T) : \A g, h : Append(x, g) = Append(y, h) => x = y /\ g = h
<1> TAKE T
<1> TAKE x, y \in Seq(T)
<1> TAKE g, h
<1>1. HAVE Append(x, g) = Append(y, h)
<1>2. /\ Len(Append(x, g)) = Len(x) + 1 /\ Append(x, g)[Len(x) + 1] = g
      /\ \A i \in 1..Len(x) : Append(x, g)[i] = x[i]
  OBVIOUS
<1>3. /\ Len(Append(y, h)) = Len(y) + 1 /\ Append(y, h)[Len(y) + 1] = h
      /\ \A i \in 1..Len(y) : Append(y, h)[i] = y[i]
  OBVIOUS
<1>4. Len(x) = Len(y)
  BY <1>1, <1>2, <1>3
<1>5. QED
  BY <1>1, <1>2, <1>3, <1>4

LEMMA AppendNonempty == \A T : \A x \in Seq(T) : \A h : Append(x, h) # <<>>
<1> TAKE T
<1> TAKE x \in Seq(T)
<1> TAKE h
<1>1. Len(Append(x, h)) = Len(x) + 1 /\ Len(x) \in Nat
  OBVIOUS
<1>2. QED
  BY <1>1

LEMMA InHeadSet ==
    ASSUME NEW ls, Len(ls) \in Nat, NEW n \in 1..Len(ls), NEW lo \in 0..Len(ls) - n
    PROVE  Heads(ls)[n][lo] \in HeadSet(ls)
<1>1. lo \in 0..Len(ls)
  OBVIOUS
<1>2. QED
  BY <1>1 DEF HeadSet

LEMMA PathsTyped ==
    ASSUME NEW m, NEW ls, Len(ls) \in Nat
    PROVE  \A n \in 1..Len(ls) : \A lo \in 0..Len(ls) - n : Paths(m, ls)[n][lo] \in Seq(HeadSet(ls))
<1> DEFINE G == {n \in 1..Len(ls) : \A lo \in 0..Len(ls) - n : Paths(m, ls)[n][lo] \in Seq(HeadSet(ls))}
<1>1. ASSUME NEW n \in 1..Len(ls), \A j \in 1..n - 1 : j \in G PROVE n \in G
  <2>1. SUFFICES ASSUME NEW lo \in 0..Len(ls) - n PROVE Paths(m, ls)[n][lo] \in Seq(HeadSet(ls))
    OBVIOUS
  <2>2. CASE n = 1
    <3>1. Paths(m, ls)[n][lo] = <<>>
      BY <2>2, PathsUnfold
    <3>2. <<>> \in Seq(HeadSet(ls))
      OBVIOUS
    <3>3. QED
      BY <3>1, <3>2
  <2>3. CASE n # 1
    <3> DEFINE k == largestPow2LT(n)
    <3>1. /\ k \in 1..n - 1 /\ n - k \in 1..n - 1 /\ k \in 1..Len(ls) /\ n - k \in 1..Len(ls)
          /\ lo \in 0..Len(ls) - k /\ lo + k \in 0..Len(ls) - (n - k)
      BY <2>3, Halves
    <3>2. Paths(m, ls)[n][lo] =
              IF m < lo + k THEN Append(Paths(m, ls)[k][lo], Heads(ls)[n - k][lo + k])
              ELSE Append(Paths(m, ls)[n - k][lo + k], Heads(ls)[k][lo])
      BY <2>3, PathsUnfold
    <3> HIDE DEF k
    <3>3. Paths(m, ls)[k][lo] \in Seq(HeadSet(ls)) /\ Paths(m, ls)[n - k][lo + k] \in Seq(HeadSet(ls))
      BY <1>1, <3>1
    <3>4. Heads(ls)[k][lo] \in HeadSet(ls) /\ Heads(ls)[n - k][lo + k] \in HeadSet(ls)
      BY <3>1, InHeadSet
    <3>5. QED
      BY <3>2, <3>3, <3>4
  <2>4. QED
    BY <2>2, <2>3
<1> HIDE DEF G
<1>2. \A n \in 1..Len(ls) : n \in G
  BY <1>1, EverySize
<1>3. QED
  BY <1>2 DEF G

\* A path leads from a leaf to the head of a slice exactly when the leaf is the one at
\* its place in the slice and the path is the one provePath gives for that place.
LEMMA RootIff ==
    ASSUME NEW ls, Leafy(ls), NEW leaf, NEW seq \in Nat, NEW S, NEW path \in Seq(S)
    PROVE  \A n \in 1..Len(ls) : \A lo \in 0..Len(ls) - n : \A p \in 0..Len(path) :
               seq \in lo..lo + n - 1 =>
               (Roots(leaf, seq, Len(ls), path)[n][lo][p] = Heads(ls)[n][lo]
                <=> leaf = ls[seq + 1] /\ FirstOf(path, p) = Paths(seq, ls)[n][lo])
<1> DEFINE N == Len(ls)
           R == Roots(leaf, seq, N, path)
           P == Paths(seq, ls)
           H == Heads(ls)
           Iff(n, lo, p) == R[n][lo][p] = H[n][lo]
                            <=> leaf = ls[seq + 1] /\ FirstOf(path, p) = P[n][lo]
           G == {n \in 1..N : \A lo \in 0..N - n : \A p \in 0..Len(path) :
                     seq \in lo..lo + n - 1 => Iff(n, lo, p)}
<1>1. N \in Nat /\ Len(path) \in Nat
  BY DEF Leafy
<1>2. ASSUME NEW n \in 1..N, \A j \in 1..n - 1 : j \in G PROVE n \in G
  <2>1. SUFFICES ASSUME NEW lo \in 0..N - n, NEW p \in 0..Len(path), seq \in lo..lo + n - 1
                 PROVE  Iff(n, lo, p)
    <3> HIDE DEF Iff
    <3>1. QED
      OBVIOUS
  <2>2. CASE n = 1
    <3>1. R[n][lo][p] = IF p = 0 THEN leaf ELSE Nothing
      BY <1>1, <2>2, RootsUnfold
    <3>2. P[n][lo] = <<>> /\ H[n][lo] = ls[lo + 1] /\ H[n][lo] # Nothing
      BY <1>1, <2>2, PathsUnfold, HeadsUnfold, HeadKind
    <3>3. seq = lo
      BY <1>1, <2>1, <2>2
    <3>4. FirstOf(path, p) = <<>> <=> p = 0
      <4>1. Len(FirstOf(path, p)) = p
        BY <1>1 DEF FirstOf
      <4>2. p = 0 => FirstOf(path, p) = <<>>
        BY DEF FirstOf
      <4>3. QED
        BY <4>1, <4>2
    <3> HIDE DEF R, P, H, N
    <3>5. QED
      BY <3>1, <3>2, <3>3, <3>4
  <2>3. CASE n # 1
    <3> DEFINE k == largestPow2LT(n)
    <3>1. /\ k \in 1..n - 1 /\ n - k \in 1..n - 1 /\ k \in 1..N /\ n - k \in 1..N
          /\ lo \in 0..N - k /\ lo + k \in 0..N - (n - k)
      BY <1>1, <2>3, Halves
    <3>2. /\ P[n][lo] = IF seq < lo + k THEN Append(P[k][lo], H[n - k][lo + k])
                        ELSE Append(P[n - k][lo + k], H[k][lo])
          /\ H[n][lo] = nodeHash(H[k][lo], H[n - k][lo + k])
      BY <1>1, <2>3, PathsUnfold, HeadsUnfold
    <3>3. R[n][lo][p] =
              IF p = 0 THEN Nothing
              ELSE IF seq < lo + k
              THEN IF R[k][lo][p - 1] = Nothing THEN Nothing ELSE nodeHash(R[k][lo][p - 1], path[p])
              ELSE IF R[n - k][lo + k][p - 1] = Nothing THEN Nothing
                   ELSE nodeHash(path[p], R[n - k][lo + k][p - 1])
      BY <1>1, <2>3, RootsUnfold
    <3> HIDE DEF k
    <3>4. P[k][lo] \in Seq(HeadSet(ls)) /\ P[n - k][lo + k] \in Seq(HeadSet(ls))
      BY <1>1, <3>1, PathsTyped
    <3>5. H[n][lo] # Nothing /\ H[k][lo] # Nothing /\ H[n - k][lo + k] # Nothing
      BY <3>1, HeadKind
    <3>6. k \in G /\ n - k \in G
      BY <1>2, <3>1
    <3>7. seq < lo + k => seq \in lo..lo + k - 1
      BY <1>1, <2>1, <3>1
    <3>8. ~(seq < lo + k) => seq \in (lo + k)..(lo + k) + (n - k) - 1
      BY <1>1, <2>1, <3>1
    <3>9. CASE p = 0
      <4>1. FirstOf(path, p) = <<>>
        BY <3>9 DEF FirstOf
      <4> HIDE DEF R, P, H, N
      <4>2. P[n][lo] # <<>>
        BY <3>2, <3>4, AppendNonempty
      <4>3. QED
        BY <3>3, <3>5, <3>9, <4>1, <4>2
    <3>10. CASE p # 0
      <4>1. p \in 1..Len(path) /\ p - 1 \in 0..Len(path)
        BY <1>1, <3>10
      <4>2. CASE seq < lo + k
        <5>1. Iff(k, lo, p - 1)
          <6> HIDE DEF Iff
          <6>1. QED
            BY <3>1, <3>6, <3>7, <4>1, <4>2
        <5>2. FirstOf(path, p) = P[n][lo]
              <=> (path[p] = H[n - k][lo + k] /\ FirstOf(path, p - 1) = P[k][lo])
          <6> DEFINE x == P[k][lo]
                     h == H[n - k][lo + k]
          <6>1. P[n][lo] = Then(x, h)
            BY <3>2, <4>2 DEF Then
          <6>2. IsSeq(path) /\ IsSeq(x)
            BY <3>4 DEF IsSeq
          <6> HIDE DEF x, h, P, N, H, R, Iff, G
          <6>3. FirstOf(path, p) = Then(x, h) <=> (path[p] = h /\ FirstOf(path, p - 1) = x)
            BY <4>1, <6>2, FrontAndLast
          <6>4. QED
            BY <6>1, <6>3 DEF x, h
        <5>3. R[n][lo][p] = H[n][lo]
              <=> (R[k][lo][p - 1] = H[k][lo] /\ path[p] = H[n - k][lo + k])
          <6> HIDE DEF R, P, H, N
          <6>1. QED
            BY <3>2, <3>3, <3>5, <3>10, <4>2, NodesDiffer
        <5> HIDE DEF R, P, H, N
        <5>4. QED
          BY <5>1, <5>2, <5>3
      <4>3. CASE ~(seq < lo + k)
        <5>1. Iff(n - k, lo + k, p - 1)
          <6> HIDE DEF Iff
          <6>1. QED
            BY <3>1, <3>6, <3>8, <4>1, <4>3
        <5>2. FirstOf(path, p) = P[n][lo]
              <=> (path[p] = H[k][lo] /\ FirstOf(path, p - 1) = P[n - k][lo + k])
          <6> DEFINE x == P[n - k][lo + k]
                     h == H[k][lo]
          <6>1. P[n][lo] = Then(x, h)
            BY <3>2, <4>3 DEF Then
          <6>2. IsSeq(path) /\ IsSeq(x)
            BY <3>4 DEF IsSeq
          <6> HIDE DEF x, h, P, N, H, R, Iff, G
          <6>3. FirstOf(path, p) = Then(x, h) <=> (path[p] = h /\ FirstOf(path, p - 1) = x)
            BY <4>1, <6>2, FrontAndLast
          <6>4. QED
            BY <6>1, <6>3 DEF x, h
        <5>3. R[n][lo][p] = H[n][lo]
              <=> (R[n - k][lo + k][p - 1] = H[n - k][lo + k] /\ path[p] = H[k][lo])
          <6> HIDE DEF R, P, H, N
          <6>1. QED
            BY <3>2, <3>3, <3>5, <3>10, <4>3, NodesDiffer
        <5> HIDE DEF R, P, H, N
        <5>4. QED
          BY <5>1, <5>2, <5>3
      <4>4. QED
        BY <4>2, <4>3
    <3>11. QED
      BY <3>9, <3>10
  <2>4. QED
    BY <2>2, <2>3
<1> HIDE DEF G
<1>3. \A n \in 1..N : n \in G
  BY <1>1, <1>2, EverySize
<1>4. QED
  BY <1>3 DEF G

\* Different leaves of a slice have different paths.
LEMMA PathsDiffer ==
    ASSUME NEW ls, Leafy(ls), Distinct(ls), NEW a \in Nat, NEW b \in Nat
    PROVE  \A n \in 1..Len(ls) : \A lo \in 0..Len(ls) - n :
               a \in lo..lo + n - 1 /\ b \in lo..lo + n - 1 /\ Paths(a, ls)[n][lo] = Paths(b, ls)[n][lo]
               => a = b
<1> DEFINE N == Len(ls)
           P(m) == Paths(m, ls)
           H == Heads(ls)
           G == {n \in 1..N : \A lo \in 0..N - n :
                     a \in lo..lo + n - 1 /\ b \in lo..lo + n - 1 /\ P(a)[n][lo] = P(b)[n][lo] => a = b}
<1>1. N \in Nat
  BY DEF Leafy
<1>2. ASSUME NEW n \in 1..N, \A j \in 1..n - 1 : j \in G PROVE n \in G
  <2>1. SUFFICES ASSUME NEW lo \in 0..N - n, a \in lo..lo + n - 1, b \in lo..lo + n - 1,
                        P(a)[n][lo] = P(b)[n][lo]
                 PROVE  a = b
    OBVIOUS
  <2>2. CASE n = 1
    BY <1>1, <2>1, <2>2
  <2>3. CASE n # 1
    <3> DEFINE k == largestPow2LT(n)
    <3>1. /\ k \in 1..n - 1 /\ n - k \in 1..n - 1 /\ k \in 1..N /\ n - k \in 1..N
          /\ lo \in 0..N - k /\ lo + k \in 0..N - (n - k)
      BY <1>1, <2>3, Halves
    <3>2. ASSUME NEW m PROVE P(m)[n][lo] = IF m < lo + k THEN Append(P(m)[k][lo], H[n - k][lo + k])
                                           ELSE Append(P(m)[n - k][lo + k], H[k][lo])
      BY <1>1, <2>3, PathsUnfold
    <3>3. H[n - k][lo + k] # H[k][lo]
      <4> DEFINE r == n - k
                 mid == lo + k
      <4>1. /\ r \in 1..Len(ls) /\ mid \in 0..Len(ls) - r /\ k \in 1..Len(ls) /\ lo \in 0..Len(ls) - k
            /\ mid # lo
        BY <3>1
      <4> HIDE DEF k, G, r, mid
      <4>2. Heads(ls)[r][mid] # Heads(ls)[k][lo]
        BY <4>1, SlicesDiffer
      <4>3. QED
        BY <4>2 DEF r, mid
    <3> HIDE DEF k
    <3>4. \A m : P(m)[k][lo] \in Seq(HeadSet(ls)) /\ P(m)[n - k][lo + k] \in Seq(HeadSet(ls))
      BY <1>1, <3>1, PathsTyped
    <3>5. /\ a \in lo..lo + k - 1 /\ b \in lo..lo + k - 1 /\ P(a)[k][lo] = P(b)[k][lo] => a = b
          /\ /\ a \in (lo + k)..(lo + k) + (n - k) - 1
             /\ b \in (lo + k)..(lo + k) + (n - k) - 1
             /\ P(a)[n - k][lo + k] = P(b)[n - k][lo + k]
             => a = b
      <4>1. k \in G /\ n - k \in G
        BY <1>2, <3>1
      <4>2. QED
        BY <3>1, <4>1
    <3> HIDE DEF G, H, P, N
    <3> DEFINE al == P(a)[k][lo]
               ar == P(a)[n - k][lo + k]
               bl == P(b)[k][lo]
               br == P(b)[n - k][lo + k]
               hl == H[k][lo]
               hr == H[n - k][lo + k]
    <3>6. /\ al \in Seq(HeadSet(ls)) /\ ar \in Seq(HeadSet(ls))
          /\ bl \in Seq(HeadSet(ls)) /\ br \in Seq(HeadSet(ls))
      BY <3>4
    <3>7. (IF a < lo + k THEN Append(al, hr) ELSE Append(ar, hl))
            = (IF b < lo + k THEN Append(bl, hr) ELSE Append(br, hl))
      BY <2>1, <3>2
    <3>8. hr # hl
      BY <3>3
    <3>9. /\ a \in lo..lo + k - 1 /\ b \in lo..lo + k - 1 /\ al = bl => a = b
          /\ /\ a \in (lo + k)..(lo + k) + (n - k) - 1
             /\ b \in (lo + k)..(lo + k) + (n - k) - 1
             /\ ar = br
             => a = b
      BY <3>5
    <3> HIDE DEF al, ar, bl, br, hl, hr
    <3>10. CASE a < lo + k /\ b < lo + k
      <4>1. a \in lo..lo + k - 1 /\ b \in lo..lo + k - 1
        BY <1>1, <2>1, <3>1, <3>10
      <4>2. al = bl
        BY <3>6, <3>7, <3>10, AppendInjective
      <4>3. QED
        BY <3>9, <4>1, <4>2
    <3>11. CASE ~(a < lo + k) /\ ~(b < lo + k)
      <4>1. a \in (lo + k)..(lo + k) + (n - k) - 1 /\ b \in (lo + k)..(lo + k) + (n - k) - 1
        BY <1>1, <2>1, <3>1, <3>11
      <4>2. ar = br
        BY <3>6, <3>7, <3>11, AppendInjective
      <4>3. QED
        BY <3>9, <4>1, <4>2
    <3>12. CASE (a < lo + k) # (b < lo + k)
      <4>1. CASE a < lo + k /\ ~(b < lo + k)
        BY <3>6, <3>7, <3>8, <4>1, AppendInjective
      <4>2. CASE ~(a < lo + k) /\ b < lo + k
        BY <3>6, <3>7, <3>8, <4>2, AppendInjective
      <4>3. QED
        BY <3>12, <4>1, <4>2
    <3>13. QED
      BY <3>10, <3>11, <3>12
  <2>4. QED
    BY <2>2, <2>3
<1> HIDE DEF G
<1>3. \A n \in 1..N : n \in G
  BY <1>1, <1>2, EverySize
<1>4. QED
  BY <1>3 DEF G

-----------------------------------------------------------------------------
(* Consistency. *)

LEMMA RootsFields ==
    /\ ~NoRoots.ok
    /\ \A o, w, r : LET c == Both(o, w, r) IN c.ok /\ c.older = o /\ c.newer = w /\ c.rest = r
BY DEF NoRoots, Both

LEMMA LeftFields ==
    \A sub, h : LET c == WithLeft(sub, h) IN
        /\ c.ok <=> sub.ok
        /\ sub.ok => c.older = sub.older /\ c.newer = nodeHash(sub.newer, h) /\ c.rest = sub.rest
BY RootsFields DEF WithLeft

LEMMA RightFields ==
    \A sub, h : LET c == WithRight(sub, h) IN
        /\ c.ok <=> sub.ok
        /\ sub.ok => /\ c.older = nodeHash(h, sub.older)
                     /\ c.newer = nodeHash(h, sub.newer)
                     /\ c.rest = sub.rest
BY RootsFields DEF WithRight

\* Whatever the proof and the seed: a proof that recomputes the head of a slice
\* recomputes with it the head of the older tree's leaves in that slice.
LEMMA ConsSound ==
    ASSUME NEW ls, Len(ls) \in Nat, NEW m \in Nat, NEW S, NEW proof \in Seq(S), NEW seed
    PROVE  \A n \in 1..Len(ls) : \A lo \in 0..Len(ls) - n : \A p \in 0..Len(proof) :
               LET c == consRoots(m, Len(ls), proof, seed)[n][lo][p] IN
               lo < m /\ m <= lo + n /\ c.ok /\ c.newer = Heads(ls)[n][lo]
               => c.older = Heads(ls)[m - lo][lo]
<1> DEFINE N == Len(ls)
           C == consRoots(m, N, proof, seed)
           H == Heads(ls)
           Sound(n, lo, p) == C[n][lo][p].ok /\ C[n][lo][p].newer = H[n][lo]
                              => C[n][lo][p].older = H[m - lo][lo]
           G == {n \in 1..N : \A lo \in 0..N - n : \A p \in 0..Len(proof) :
                     lo < m /\ m <= lo + n => Sound(n, lo, p)}
<1>1. N \in Nat /\ Len(proof) \in Nat
  OBVIOUS
<1>2. ASSUME NEW n \in 1..N, \A j \in 1..n - 1 : j \in G PROVE n \in G
  <2>1. SUFFICES ASSUME NEW lo \in 0..N - n, NEW p \in 0..Len(proof), lo < m, m <= lo + n,
                        C[n][lo][p].ok, C[n][lo][p].newer = H[n][lo]
                 PROVE  C[n][lo][p].older = H[m - lo][lo]
    OBVIOUS
  <2>2. CASE m = lo + n
    <3>1. C[n][lo][p] = IF lo = 0 THEN Both(seed, seed, p)
                        ELSE IF p = 0 THEN NoRoots
                        ELSE Both(proof[p], proof[p], p - 1)
      BY <1>1, <2>2, ConsWhole
    <3>2. m - lo = n
      BY <1>1, <2>2
    <3> HIDE DEF C, H, N
    <3>3. C[n][lo][p].older = C[n][lo][p].newer
      BY <2>1, <3>1, RootsFields
    <3>4. QED
      BY <2>1, <3>2, <3>3
  <2>3. CASE m # lo + n
    <3> DEFINE k == largestPow2LT(n)
               r == n - k
               mid == lo + k
               h == proof[p]
    <3>1. n # 1 /\ n \in Nat /\ n >= 2 /\ ~(m > lo + n)
      BY <1>1, <2>1, <2>3
    <3>2. /\ k \in 1..n - 1 /\ r \in 1..n - 1 /\ k \in 1..N /\ r \in 1..N
          /\ lo \in 0..N - k /\ mid \in 0..N - r
      BY <1>1, <3>1, Halves
    <3>3. p = 0 => C[n][lo][p] = NoRoots
      BY <1>1, <2>3, <3>1, ConsNone
    <3>4. p # 0
      <4> HIDE DEF C, k, r, mid, h
      <4>1. QED
        BY <2>1, <3>3, RootsFields
    <3>5. p - 1 \in 0..Len(proof)
      BY <1>1, <3>4
    <3>6. H[n][lo] = nodeHash(H[k][lo], H[r][mid])
      BY <1>1, <3>1, HeadsUnfold
    <3>7. CASE m <= mid
      <4> DEFINE sub == C[k][lo][p - 1]
      <4>1. sub.ok /\ sub.newer = H[k][lo] => sub.older = H[m - lo][lo]
        <5>1. k \in G /\ m <= lo + k
          BY <1>2, <3>2, <3>7
        <5> HIDE DEF C, H, k, r, mid, h
        <5>2. QED
          BY <2>1, <3>2, <3>5, <5>1
      <4>2. C[n][lo][p] = WithLeft(sub, h)
        BY <1>1, <2>3, <3>1, <3>4, <3>7, ConsLeft
      <4> HIDE DEF C, H, k, r, mid, h, sub, G, Sound
      <4>3. sub.ok /\ nodeHash(sub.newer, h) = nodeHash(H[k][lo], H[r][mid])
        BY <2>1, <3>6, <4>2, LeftFields
      <4>4. sub.newer = H[k][lo]
        BY <4>3, NodesDiffer
      <4>5. QED
        BY <4>1, <4>2, <4>3, <4>4, LeftFields
    <3>8. CASE ~(m <= mid)
      <4> DEFINE sub == C[r][mid][p - 1]
                 rest == m - mid
      <4>1. sub.ok /\ sub.newer = H[r][mid] => sub.older = H[rest][mid]
        <5>1. r \in G /\ mid < m /\ m <= mid + r
          <6>1. r \in G
            BY <1>2, <3>2
          <6> HIDE DEF C, H, G, sub
          <6>2. mid < m /\ m <= mid + r
            BY <1>1, <2>1, <3>2, <3>8
          <6>3. QED
            BY <6>1, <6>2
        <5> HIDE DEF C, H, k, r, mid, h
        <5>2. QED
          BY <3>2, <3>5, <5>1
      <4>2. C[n][lo][p] = WithRight(sub, h)
        <5> HIDE DEF G, Sound, H, rest
        <5>1. ~(m <= lo + largestPow2LT(n))
          BY <3>8
        <5>2. consRoots(m, N, proof, seed)[n][lo][p]
                = WithRight(consRoots(m, N, proof, seed)[n - largestPow2LT(n)][lo + largestPow2LT(n)][p - 1],
                            proof[p])
          <6> HIDE DEF N, k, r, mid, h, C, sub
          <6>1. QED
            BY <1>1, <2>3, <3>1, <3>4, <5>1, ConsRight
        <5>3. QED
          BY <5>2
      <4>3. H[m - lo][lo] = nodeHash(H[k][lo], H[rest][mid])
        <5> DEFINE q == m - lo
        <5>1. q \in Nat /\ q >= 2 /\ k < q /\ q <= n /\ q - k = rest /\ q \in 1..N /\ lo \in 0..N - q
          <6> HIDE DEF C, H, G, sub, k
          <6>1. QED
            BY <1>1, <2>1, <3>1, <3>2, <3>8
        <5>2. largestPow2LT(q) = k
          <6> HIDE DEF q
          <6>1. QED
            BY <3>1, <5>1, SplitShared
        <5>3. H[q][lo] = nodeHash(H[largestPow2LT(q)][lo], H[q - largestPow2LT(q)][lo + largestPow2LT(q)])
          <6> HIDE DEF q
          <6>1. q # 1
            BY <5>1
          <6>2. QED
            BY <1>1, <5>1, <6>1, HeadsUnfold
        <5> HIDE DEF q, k, rest, H
        <5>4. H[q][lo] = nodeHash(H[k][lo], H[rest][mid])
          BY <5>1, <5>2, <5>3
        <5>5. QED
          BY <5>4 DEF q
      <4> HIDE DEF C, H, k, r, mid, h, sub, rest, G, Sound
      <4>4. sub.ok /\ nodeHash(h, sub.newer) = nodeHash(H[k][lo], H[r][mid])
        BY <2>1, <3>6, <4>2, RightFields
      <4>5. h = H[k][lo] /\ sub.newer = H[r][mid]
        BY <4>4, NodesDiffer
      <4>6. C[n][lo][p].older = nodeHash(h, sub.older)
        BY <4>2, <4>4, RightFields
      <4>7. QED
        BY <4>1, <4>3, <4>4, <4>5, <4>6
    <3>9. QED
      BY <3>7, <3>8
  <2>4. QED
    BY <2>2, <2>3
<1> HIDE DEF G
<1>3. \A n \in 1..N : n \in G
  BY <1>1, <1>2, EverySize
<1>4. QED
  BY <1>3 DEF G

LEMMA ProofsTyped ==
    ASSUME NEW m \in Nat, NEW ls, Len(ls) \in Nat
    PROVE  \A n \in 1..Len(ls) : \A lo \in 0..Len(ls) - n :
               lo < m /\ m <= lo + n => subProof(m, ls)[n][lo] \in Seq(HeadSet(ls))
<1> DEFINE N == Len(ls)
           Q == subProof(m, ls)
           H == Heads(ls)
           G == {n \in 1..N : \A lo \in 0..N - n :
                     lo < m /\ m <= lo + n => Q[n][lo] \in Seq(HeadSet(ls))}
<1>1. ASSUME NEW n \in 1..N, \A j \in 1..n - 1 : j \in G PROVE n \in G
  <2>1. SUFFICES ASSUME NEW lo \in 0..N - n, lo < m, m <= lo + n
                 PROVE  Q[n][lo] \in Seq(HeadSet(ls))
    OBVIOUS
  <2>2. CASE m = lo + n
    <3>1. Q[n][lo] = IF lo = 0 THEN <<>> ELSE <<H[n][lo]>>
      BY <2>2, ProofWhole
    <3>2. H[n][lo] \in HeadSet(ls)
      BY InHeadSet
    <3> HIDE DEF Q, H, N
    <3>3. QED
      BY <3>1, <3>2
  <2>3. CASE m # lo + n
    <3> DEFINE k == largestPow2LT(n)
               r == n - k
               mid == lo + k
    <3>1. n # 1
      BY <2>1, <2>3
    <3>2. /\ k \in 1..n - 1 /\ r \in 1..n - 1 /\ k \in 1..N /\ r \in 1..N
          /\ lo \in 0..N - k /\ mid \in 0..N - r
      BY <3>1, Halves
    <3>3. Q[n][lo] = IF m <= mid THEN Append(Q[k][lo], H[r][mid]) ELSE Append(Q[r][mid], H[k][lo])
      BY <2>3, <3>1, ProofSplit
    <3>4. m <= mid => Q[k][lo] \in Seq(HeadSet(ls))
      BY <1>1, <2>1, <3>2
    <3>5. ~(m <= mid) => Q[r][mid] \in Seq(HeadSet(ls))
      <4>1. ~(m <= mid) => mid < m /\ m <= mid + r
        BY <2>1, <3>2
      <4>2. QED
        BY <1>1, <3>2, <4>1
    <3>6. H[k][lo] \in HeadSet(ls) /\ H[r][mid] \in HeadSet(ls)
      BY <3>2, InHeadSet
    <3> HIDE DEF Q, H, N, k, r, mid
    <3>7. QED
      BY <3>3, <3>4, <3>5, <3>6
  <2>4. QED
    BY <2>2, <2>3
<1> HIDE DEF G
<1>2. \A n \in 1..N : n \in G
  BY <1>1, EverySize
<1>3. QED
  BY <1>2 DEF G

LEMMA FirstOfNone ==
    ASSUME NEW S, NEW s \in Seq(S), NEW p \in 0..Len(s)
    PROVE  FirstOf(s, p) = <<>> <=> p = 0
<1>1. Len(FirstOf(s, p)) = p
  BY DEF FirstOf
<1>2. p = 0 => FirstOf(s, p) = <<>>
  BY DEF FirstOf
<1>3. QED
  BY <1>1, <1>2

\* Seeded with the head of the older tree, a proof recomputes the head of a slice, with
\* nothing left over, exactly when it is the one subProof gives.
LEMMA ConsIff ==
    ASSUME NEW ls, Len(ls) \in Nat, NEW m \in Nat, NEW S, NEW proof \in Seq(S),
           NEW seed, seed = Heads(ls)[m][0]
    PROVE  \A n \in 1..Len(ls) : \A lo \in 0..Len(ls) - n : \A p \in 0..Len(proof) :
               LET c == consRoots(m, Len(ls), proof, seed)[n][lo][p] IN
               lo < m /\ m <= lo + n =>
               (c.ok /\ c.rest = 0 /\ c.newer = Heads(ls)[n][lo]
                <=> FirstOf(proof, p) = subProof(m, ls)[n][lo])
<1> DEFINE N == Len(ls)
           C == consRoots(m, N, proof, seed)
           H == Heads(ls)
           Q == subProof(m, ls)
           Good(c, h) == c.ok /\ c.rest = 0 /\ c.newer = h
           Iff(n, lo, p) == Good(C[n][lo][p], H[n][lo]) <=> FirstOf(proof, p) = Q[n][lo]
           G == {n \in 1..N : \A lo \in 0..N - n : \A p \in 0..Len(proof) :
                     lo < m /\ m <= lo + n => Iff(n, lo, p)}
<1>1. N \in Nat /\ Len(proof) \in Nat
  OBVIOUS
<1>2. ASSUME NEW n \in 1..N, \A j \in 1..n - 1 : j \in G PROVE n \in G
  <2>1. SUFFICES ASSUME NEW lo \in 0..N - n, NEW p \in 0..Len(proof), lo < m, m <= lo + n
                 PROVE  Iff(n, lo, p)
    <3> HIDE DEF Iff
    <3>1. QED
      OBVIOUS
  <2> DEFINE h == proof[p]
             c == C[n][lo][p]
  <2>2. CASE m = lo + n
    <3>1. c = IF lo = 0 THEN Both(seed, seed, p) ELSE IF p = 0 THEN NoRoots ELSE Both(h, h, p - 1)
      BY <1>1, <2>2, ConsWhole
    <3>2. Q[n][lo] = IF lo = 0 THEN <<>> ELSE <<H[n][lo]>>
      BY <1>1, <2>2, ProofWhole
    <3>3. FirstOf(proof, p) = <<>> <=> p = 0
      BY FirstOfNone
    <3>4. CASE lo = 0
      <4>1. H[n][lo] = seed
        BY <1>1, <2>2, <3>4
      <4> HIDE DEF C, H, Q, N, h, c
      <4>2. QED
        BY <3>1, <3>2, <3>3, <3>4, <4>1, RootsFields DEF c
    <3>5. CASE lo # 0 /\ p = 0
      <4> HIDE DEF C, H, Q, N, h, c
      <4>1. ~Good(c, H[n][lo])
        BY <3>1, <3>5, RootsFields
      <4>2. Q[n][lo] # <<>>
        BY <3>2, <3>5
      <4>3. FirstOf(proof, p) # Q[n][lo]
        BY <3>3, <3>5, <4>2, Zenon
      <4>4. QED
        BY <4>1, <4>3 DEF c
    <3>6. CASE lo # 0 /\ p # 0
      <4> DEFINE g == H[n][lo]
      <4>1. p \in 1..Len(proof) /\ p - 1 \in 0..Len(proof)
        BY <1>1, <3>6
      <4>2. FirstOf(proof, p - 1) = <<>> <=> p - 1 = 0
        BY <4>1, FirstOfNone
      <4> HIDE DEF C, H, Q, N, c, g
      <4>3. FirstOf(proof, p) = Then(<<>>, g) <=> (proof[p] = g /\ FirstOf(proof, p - 1) = <<>>)
        <5>1. IsSeq(<<>>) /\ IsSeq(proof)
          <6>1. <<>> \in Seq({g})
            OBVIOUS
          <6>2. QED
            BY <6>1 DEF IsSeq
        <5> HIDE DEF G, Iff
        <5>2. QED
          BY <4>1, <5>1, FrontAndLast
      <4>4. Q[n][lo] = Then(<<>>, g)
        BY <3>2, <3>6 DEF g, Then
      <4>5. Good(c, g) <=> p - 1 = 0 /\ h = g
        BY <3>1, <3>6, RootsFields
      <4>6. QED
        BY <4>2, <4>3, <4>4, <4>5 DEF c, g
    <3>7. QED
      BY <3>4, <3>5, <3>6
  <2>3. CASE m # lo + n
    <3> DEFINE k == largestPow2LT(n)
               r == n - k
               mid == lo + k
    <3>1. n # 1 /\ n \in Nat /\ n >= 2 /\ ~(m > lo + n)
      BY <1>1, <2>1, <2>3
    <3>2. /\ k \in 1..n - 1 /\ r \in 1..n - 1 /\ k \in 1..N /\ r \in 1..N
          /\ lo \in 0..N - k /\ mid \in 0..N - r
      BY <1>1, <3>1, Halves
    <3>3. H[n][lo] = nodeHash(H[k][lo], H[r][mid])
      BY <1>1, <3>1, HeadsUnfold
    <3>4. Q[n][lo] = IF m <= mid THEN Append(Q[k][lo], H[r][mid]) ELSE Append(Q[r][mid], H[k][lo])
      BY <1>1, <2>3, <3>1, ProofSplit
    <3>5. CASE p = 0
      <4>1. c = NoRoots
        BY <1>1, <2>3, <3>1, <3>5, ConsNone
      <4>2. FirstOf(proof, p) = <<>>
        BY <3>5, FirstOfNone
      <4>3. Q[n][lo] # <<>>
        <5>1. m <= mid => Q[k][lo] \in Seq(HeadSet(ls))
          BY <1>1, <2>1, <3>2, ProofsTyped
        <5>2. ~(m <= mid) => mid < m /\ m <= mid + r
          <6> HIDE DEF C, H, Q, G, Iff, c, h
          <6>1. QED
            BY <1>1, <2>1, <3>2
        <5>3. ~(m <= mid) => Q[r][mid] \in Seq(HeadSet(ls))
          <6> HIDE DEF r, mid, G, Iff
          <6>1. QED
            BY <1>1, <3>2, <5>2, ProofsTyped
        <5> HIDE DEF C, H, Q, N, k, r, mid, G, Iff
        <5>4. QED
          BY <3>4, <5>1, <5>3, AppendNonempty
      <4> HIDE DEF C, H, Q, N, c, k, r, mid
      <4>4. QED
        BY <4>1, <4>2, <4>3, RootsFields DEF c
    <3>6. CASE p # 0 /\ m <= mid
      <4> DEFINE sub == C[k][lo][p - 1]
                 x == Q[k][lo]
                 g == H[r][mid]
                 f == H[k][lo]
      <4>1. p \in 1..Len(proof) /\ p - 1 \in 0..Len(proof)
        BY <1>1, <3>6
      <4>2. Good(sub, f) <=> FirstOf(proof, p - 1) = x
        <5>1. k \in G /\ m <= lo + k
          BY <1>2, <3>2, <3>6
        <5>2. Iff(k, lo, p - 1)
          <6> HIDE DEF Iff
          <6>1. QED
            BY <2>1, <3>2, <4>1, <5>1
        <5>3. QED
          BY <5>2
      <4>3. c = WithLeft(sub, h)
        <5> HIDE DEF G, Iff, H, Q
        <5>1. QED
          BY <1>1, <2>3, <3>1, <3>6, ConsLeft
      <4>4. IsSeq(x) /\ IsSeq(proof)
        <5>1. x \in Seq(HeadSet(ls))
          BY <1>1, <2>1, <3>2, <3>6, ProofsTyped
        <5> HIDE DEF x, G, Iff
        <5>2. QED
          BY <5>1 DEF IsSeq
      <4>5. Q[n][lo] = Then(x, g) /\ H[n][lo] = nodeHash(f, g)
        BY <3>3, <3>4, <3>6 DEF Then
      <4> HIDE DEF C, H, Q, N, c, k, r, mid, sub, x, g, f, G, Iff
      <4>6. FirstOf(proof, p) = Then(x, g) <=> (proof[p] = g /\ FirstOf(proof, p - 1) = x)
        BY <4>1, <4>4, FrontAndLast
      <4>7. Good(c, nodeHash(f, g)) <=> Good(sub, f) /\ h = g
        BY <4>3, LeftFields, NodesDiffer
      <4>8. QED
        BY <4>2, <4>5, <4>6, <4>7 DEF c, Iff
    <3>7. CASE p # 0 /\ ~(m <= mid)
      <4> DEFINE sub == C[r][mid][p - 1]
                 x == Q[r][mid]
                 g == H[k][lo]
                 f == H[r][mid]
      <4>1. p \in 1..Len(proof) /\ p - 1 \in 0..Len(proof)
        BY <1>1, <3>7
      <4>2. mid < m /\ m <= mid + r
        <5> HIDE DEF C, H, Q, G, Iff, c, h, sub, x, g, f
        <5>1. QED
          BY <1>1, <2>1, <3>2, <3>7
      <4>3. Good(sub, f) <=> FirstOf(proof, p - 1) = x
        <5>1. r \in G
          BY <1>2, <3>2
        <5>2. Iff(r, mid, p - 1)
          <6> HIDE DEF Iff, r, mid
          <6>1. QED
            BY <3>2, <4>1, <4>2, <5>1
        <5>3. QED
          BY <5>2
      <4>4. c = WithRight(sub, h)
        <5> HIDE DEF G, Iff, H, Q
        <5>1. QED
          BY <1>1, <2>3, <3>1, <3>7, ConsRight
      <4>5. IsSeq(x) /\ IsSeq(proof)
        <5> HIDE DEF r, mid, G, Iff
        <5>1. x \in Seq(HeadSet(ls))
          BY <1>1, <3>2, <4>2, ProofsTyped
        <5> HIDE DEF x
        <5>2. QED
          BY <5>1 DEF IsSeq
      <4>6. Q[n][lo] = Then(x, g) /\ H[n][lo] = nodeHash(g, f)
        BY <3>3, <3>4, <3>7 DEF Then
      <4> HIDE DEF C, H, Q, N, c, k, r, mid, sub, x, g, f, G, Iff
      <4>7. FirstOf(proof, p) = Then(x, g) <=> (proof[p] = g /\ FirstOf(proof, p - 1) = x)
        BY <4>1, <4>5, FrontAndLast
      <4>8. Good(c, nodeHash(g, f)) <=> Good(sub, f) /\ h = g
        BY <4>4, RightFields, NodesDiffer
      <4>9. QED
        BY <4>3, <4>6, <4>7, <4>8 DEF c, Iff
    <3>8. QED
      BY <3>5, <3>6, <3>7
  <2>4. QED
    BY <2>2, <2>3
<1> HIDE DEF G
<1>3. \A n \in 1..N : n \in G
  BY <1>1, <1>2, EverySize
<1>4. QED
  BY <1>3 DEF G

\* Two older sizes have different proofs in every slice both end in.
LEMMA ProofsDiffer ==
    ASSUME NEW ls, Leafy(ls), Distinct(ls), NEW a \in Nat, NEW b \in Nat
    PROVE  \A n \in 1..Len(ls) : \A lo \in 0..Len(ls) - n :
               /\ lo < a /\ a <= lo + n /\ lo < b /\ b <= lo + n
               /\ subProof(a, ls)[n][lo] = subProof(b, ls)[n][lo]
               => a = b
<1> DEFINE N == Len(ls)
           Q(m) == subProof(m, ls)
           H == Heads(ls)
           Ends(m, n, lo) == lo < m /\ m <= lo + n
           Differ(n, lo) == Ends(a, n, lo) /\ Ends(b, n, lo) /\ Q(a)[n][lo] = Q(b)[n][lo] => a = b
           G == {n \in 1..N : \A lo \in 0..N - n : Differ(n, lo)}
<1>1. N \in Nat
  BY DEF Leafy
<1>2. ASSUME NEW n \in 1..N, \A j \in 1..n - 1 : j \in G PROVE n \in G
  <2>1. SUFFICES ASSUME NEW lo \in 0..N - n, Ends(a, n, lo), Ends(b, n, lo), Q(a)[n][lo] = Q(b)[n][lo]
                 PROVE  a = b
    OBVIOUS
  <2>2. CASE n = 1
    BY <1>1, <2>1, <2>2
  <2>3. CASE n # 1
    <3> DEFINE k == largestPow2LT(n)
               r == n - k
               mid == lo + k
               hl == H[k][lo]
               hr == H[r][mid]
               hn == H[n][lo]
    <3>1. /\ k \in 1..n - 1 /\ r \in 1..n - 1 /\ k \in 1..N /\ r \in 1..N
          /\ lo \in 0..N - k /\ mid \in 0..N - r /\ mid # lo /\ k # n /\ r # n
      <4>1. /\ k \in 1..n - 1 /\ r \in 1..n - 1 /\ k \in 1..N /\ r \in 1..N
            /\ lo \in 0..N - k /\ mid \in 0..N - r
        BY <1>1, <2>3, Halves
      <4> HIDE DEF k, G, H, Q
      <4>2. mid # lo /\ k # n /\ r # n
        BY <1>1, <4>1
      <4>3. QED
        BY <4>1, <4>2
    <3>2. ASSUME NEW m \in Nat, m = lo + n PROVE Q(m)[n][lo] = IF lo = 0 THEN <<>> ELSE <<hn>>
      BY <1>1, <3>2, ProofWhole
    <3>3. ASSUME NEW m \in Nat, m # lo + n
          PROVE  Q(m)[n][lo] = IF m <= mid THEN Append(Q(m)[k][lo], hr) ELSE Append(Q(m)[r][mid], hl)
      <4> HIDE DEF G, Differ
      <4>1. QED
        BY <1>1, <2>3, <3>3, ProofSplit
    <3>4. hr # hl /\ hr # hn /\ hl # hn
      <4> HIDE DEF G, Differ, k, r, mid
      <4>1. H[r][mid] # H[k][lo]
        BY <3>1, SlicesDiffer
      <4>2. H[r][mid] # H[n][lo]
        BY <3>1, SlicesDiffer
      <4>3. H[k][lo] # H[n][lo]
        BY <3>1, SlicesDiffer
      <4>4. QED
        BY <4>1, <4>2, <4>3
    <3>5. ASSUME NEW m \in Nat, Ends(m, n, lo), m <= mid
          PROVE  Ends(m, k, lo) /\ Q(m)[k][lo] \in Seq(HeadSet(ls))
      <4>1. Ends(m, k, lo)
        BY <3>5
      <4> HIDE DEF G, Differ, k, r, mid
      <4>2. QED
        BY <1>1, <3>1, <4>1, ProofsTyped
    <3>6. ASSUME NEW m \in Nat, Ends(m, n, lo), ~(m <= mid)
          PROVE  Ends(m, r, mid) /\ Q(m)[r][mid] \in Seq(HeadSet(ls))
      <4>1. Ends(m, r, mid)
        <5> HIDE DEF G, Differ, k, H, Q
        <5>1. QED
          BY <1>1, <3>1, <3>6
      <4> HIDE DEF G, Differ, k, r, mid
      <4>2. QED
        BY <1>1, <3>1, <4>1, ProofsTyped
    <3>7. Differ(k, lo) /\ Differ(r, mid)
      <4>1. k \in G /\ r \in G
        BY <1>2, <3>1
      <4> HIDE DEF Differ, k, r, mid
      <4>2. QED
        BY <3>1, <4>1
    <3> HIDE DEF G, H, N, k, r, mid, hl, hr, hn, Q
    <3>8. ASSUME NEW s \in Nat, NEW t \in Nat, Ends(s, n, lo), Ends(t, n, lo),
                 Q(s)[n][lo] = Q(t)[n][lo], s = lo + n
          PROVE  t = lo + n
      <4>1. SUFFICES ASSUME t # lo + n PROVE FALSE
        OBVIOUS
      <4> DEFINE x == IF t <= mid THEN Q(t)[k][lo] ELSE Q(t)[r][mid]
                 h == IF t <= mid THEN hr ELSE hl
                 whole == IF lo = 0 THEN <<>> ELSE <<hn>>
      <4>2. x \in Seq(HeadSet(ls)) /\ h # hn
        BY <3>4, <3>5, <3>6, <3>8
      <4>3. whole = Append(x, h)
        BY <3>2, <3>3, <3>8, <4>1
      <4> HIDE DEF x, h
      <4>4. lo # 0
        BY <4>2, <4>3, AppendNonempty
      <4>5. Append(<<>>, hn) = Append(x, h)
        BY <4>3, <4>4
      <4>6. <<>> \in Seq(HeadSet(ls))
        OBVIOUS
      <4> HIDE DEF whole
      <4>7. QED
        BY <4>2, <4>5, <4>6, AppendInjective
    <3>9. CASE a = lo + n \/ b = lo + n
      BY <2>1, <3>8, <3>9
    <3>10. CASE a # lo + n /\ b # lo + n
      <4> DEFINE al == Q(a)[k][lo]
                 ar == Q(a)[r][mid]
                 bl == Q(b)[k][lo]
                 br == Q(b)[r][mid]
      <4>1. (IF a <= mid THEN Append(al, hr) ELSE Append(ar, hl))
              = (IF b <= mid THEN Append(bl, hr) ELSE Append(br, hl))
        BY <2>1, <3>3, <3>10
      <4>2. /\ a <= mid => Ends(a, k, lo) /\ al \in Seq(HeadSet(ls))
            /\ ~(a <= mid) => Ends(a, r, mid) /\ ar \in Seq(HeadSet(ls))
            /\ b <= mid => Ends(b, k, lo) /\ bl \in Seq(HeadSet(ls))
            /\ ~(b <= mid) => Ends(b, r, mid) /\ br \in Seq(HeadSet(ls))
        BY <2>1, <3>5, <3>6
      <4>3. /\ Ends(a, k, lo) /\ Ends(b, k, lo) /\ al = bl => a = b
            /\ Ends(a, r, mid) /\ Ends(b, r, mid) /\ ar = br => a = b
        BY <3>7
      <4> HIDE DEF al, ar, bl, br, Ends
      <4>4. CASE a <= mid /\ b <= mid
        <5>1. al = bl
          BY <4>1, <4>2, <4>4, AppendInjective
        <5>2. QED
          BY <4>2, <4>3, <4>4, <5>1
      <4>5. CASE ~(a <= mid) /\ ~(b <= mid)
        <5>1. ar = br
          BY <4>1, <4>2, <4>5, AppendInjective
        <5>2. QED
          BY <4>2, <4>3, <4>5, <5>1
      <4>6. CASE a <= mid /\ ~(b <= mid)
        BY <3>4, <4>1, <4>2, <4>6, AppendInjective
      <4>7. CASE ~(a <= mid) /\ b <= mid
        BY <3>4, <4>1, <4>2, <4>7, AppendInjective
      <4>8. QED
        BY <4>4, <4>5, <4>6, <4>7
    <3>11. QED
      BY <3>9, <3>10
  <2>4. QED
    BY <2>2, <2>3
<1> HIDE DEF G
<1>3. \A n \in 1..N : n \in G
  BY <1>1, <1>2, EverySize
<1>4. QED
  BY <1>3 DEF G

-----------------------------------------------------------------------------
(* Verification, over any leaves. *)

LEMMA CheckpointFields ==
    ASSUME NEW ls
    PROVE  /\ CheckpointOver(ls).size = Len(ls)
           /\ ls # <<>> => CheckpointOver(ls).head = Heads(ls)[Len(ls)][0]
BY DEF CheckpointOver, mth

\* Between the first and the last entry, a verifier accepts only when it holds the head
\* of the log's own beginning, and then only the log's own proof for its size.
LEMMA VerifyBetween ==
    ASSUME NEW ls, Leafy(ls), NEW older, NEW S, NEW proof \in Seq(S),
           older.size \in Nat, 0 < older.size, older.size < Len(ls)
    PROVE  VerifyConsistency(older, CheckpointOver(ls), proof)
           <=> /\ older.head = Heads(ls)[older.size][0]
               /\ proof = proveConsistency(older.size, ls)
<1> DEFINE N == Len(ls)
           m == older.size
           seed == older.head
           C == consRoots(m, N, proof, seed)[N][0][Len(proof)]
           H == Heads(ls)[N][0]
<1>1. N \in Nat /\ Len(proof) \in Nat /\ N \in 1..N /\ 0 \in 0..N - N /\ Len(proof) \in 0..Len(proof)
  BY DEF Leafy
<1>2. 0 < m /\ m <= 0 + N /\ m \in Nat /\ m - 0 = m
  BY <1>1
<1>3. CheckpointOver(ls).size = N /\ CheckpointOver(ls).head = H
  <2>1. ls # <<>>
    BY <1>1
  <2>2. QED
    BY <2>1, CheckpointFields
<1>4. VerifyConsistency(older, CheckpointOver(ls), proof)
      <=> C.ok /\ C.rest = 0 /\ C.older = seed /\ C.newer = H
  BY <1>1, <1>2, <1>3 DEF VerifyConsistency
<1>5. C.ok /\ C.newer = H => C.older = Heads(ls)[m][0]
  <2> HIDE DEF m, seed
  <2>1. C.ok /\ C.newer = H => C.older = Heads(ls)[m - 0][0]
    BY <1>1, <1>2, ConsSound
  <2>2. QED
    BY <1>2, <2>1
<1>6. FirstOf(proof, Len(proof)) = proof
  BY DEF FirstOf
<1>7. seed = Heads(ls)[m][0] =>
          (C.ok /\ C.rest = 0 /\ C.newer = H <=> FirstOf(proof, Len(proof)) = subProof(m, ls)[N][0])
  <2> HIDE DEF m, seed
  <2>1. QED
    BY <1>1, <1>2, ConsIff
<1>8. proveConsistency(m, ls) = subProof(m, ls)[N][0]
  BY DEF proveConsistency
<1> HIDE DEF C, H, m, seed, N
<1>9. QED
  BY <1>4, <1>5, <1>6, <1>7, <1>8 DEF m, seed

LEMMA ProofOfSize ==
    ASSUME NEW ls, Leafy(ls), NEW m \in Nat, 0 < m, m < Len(ls)
    PROVE  proveConsistency(m, ls) \in Seq(HeadSet(ls)) /\ proveConsistency(m, ls) # <<>>
<1> DEFINE N == Len(ls)
           k == largestPow2LT(N)
           r == N - k
           Q == subProof(m, ls)
           H == Heads(ls)
<1>1. N \in Nat /\ N \in 1..N /\ 0 \in 0..N - N /\ N # 1 /\ m # 0 + N /\ 0 < m /\ m <= 0 + N
  BY DEF Leafy
<1>2. proveConsistency(m, ls) = Q[N][0]
  BY DEF proveConsistency
<1>3. Q[N][0] \in Seq(HeadSet(ls))
  BY <1>1, ProofsTyped
<1>4. k \in 1..N - 1 /\ r \in 1..N - 1 /\ k \in 1..N /\ r \in 1..N /\ 0 \in 0..N - k /\ 0 + k \in 0..N - r
  BY <1>1, Halves
<1>5. Q[N][0] = IF m <= 0 + k THEN Append(Q[k][0], H[r][0 + k]) ELSE Append(Q[r][0 + k], H[k][0])
  BY <1>1, ProofSplit
<1>6. m <= 0 + k => Q[k][0] \in Seq(HeadSet(ls))
  BY <1>1, <1>4, ProofsTyped
<1>7. ~(m <= 0 + k) => Q[r][0 + k] \in Seq(HeadSet(ls))
  <2> DEFINE mid == 0 + k
  <2>1. ~(m <= mid) => mid < m /\ m <= mid + r
    <3> HIDE DEF k
    <3>1. QED
      BY <1>1, <1>4
  <2> HIDE DEF mid, k, r
  <2>2. mid \in 0..N - r
    BY <1>4 DEF mid
  <2>3. ~(m <= mid) => Q[r][mid] \in Seq(HeadSet(ls))
    BY <1>1, <1>4, <2>1, <2>2, ProofsTyped
  <2>4. QED
    BY <2>3 DEF mid
<1> HIDE DEF N, k, r, Q, H
<1>8. Q[N][0] # <<>>
  BY <1>5, <1>6, <1>7, AppendNonempty
<1>9. QED
  BY <1>2, <1>3, <1>8

\* The heads of the checkpoints of two beginnings agree exactly when the leaves do.
LEMMA SameHead ==
    ASSUME NEW l1, NEW l2, Leafy(l1), Leafy(l2), Len(l1) # 0, Len(l1) <= Len(l2)
    PROVE  /\ Heads(l1)[Len(l1)][0] = Heads(l2)[Len(l1)][0] => \A i \in 1..Len(l1) : l1[i] = l2[i]
           /\ (\A i \in 1..Len(l1) : l1[i] = l2[i]) => Heads(l1)[Len(l1)][0] = Heads(l2)[Len(l1)][0]
<1> DEFINE m == Len(l1)
<1>1. m \in Nat /\ Len(l2) \in Nat
  BY DEF Leafy
<1>2. ASSUME Heads(l1)[m][0] = Heads(l2)[m][0], NEW i \in 1..m PROVE l1[i] = l2[i]
  <2>1. m \in 1..Len(l1) /\ 0 \in 0..Len(l1) - m /\ m \in 1..Len(l2) /\ 0 \in 0..Len(l2) - m
    BY <1>1, <1>2
  <2>2. \A j \in 1..m : l1[0 + j] = l2[0 + j]
    <3> DEFINE z == 0
    <3>1. /\ m \in 1..Len(l1) /\ z \in 0..Len(l1) - m /\ m \in 1..Len(l2) /\ z \in 0..Len(l2) - m
          /\ Heads(l1)[m][z] = Heads(l2)[m][z]
      BY <1>2, <2>1
    <3>2. Slice(l1, m, z) /\ Slice(l2, m, z)
      BY <3>1 DEF Slice
    <3> HIDE DEF m, z
    <3>3. SameLeaves(l1, z, l2, z, m)
      BY <3>1, <3>2, SlicesCommit
    <3>4. QED
      BY <3>3 DEF z, SameLeaves
  <2>3. 0 + i = i
    BY <1>1
  <2>4. QED
    BY <2>2, <2>3
<1>3. ASSUME \A i \in 1..m : l1[i] = l2[i] PROVE Heads(l1)[m][0] = Heads(l2)[m][0]
  <2>1. m = 0 \/ m \in 1..m
    BY <1>1
  <2>2. m # 0
    OBVIOUS
  <2>3. 0 \in 0..m - m
    BY <1>1
  <2>4. \A n \in 1..m : \A lo \in 0..m - n : Heads(l1)[n][lo] = Heads(l2)[n][lo]
    BY <1>1, <1>3, HeadsAgree
  <2>5. QED
    BY <2>1, <2>2, <2>3, <2>4
<1>4. QED
  BY <1>2, <1>3

-----------------------------------------------------------------------------
(* The inductive invariant.  A stopped log's store may be anything; a running *)
(* log has admitted every entry of its store, and each only once.             *)

LeafSet == {leafID(e) : e \in Entries}
Admitted(es) ==
    /\ \A i \in 1..Len(es) : EntryVerifies(es[i]) /\ es[i].log = LogID
    /\ Distinct(Leaves(es))

IInv ==
    /\ up \in BOOLEAN
    /\ rewrites \in 0..MaxRewrites
    /\ store \in Seq(Entries)
    /\ leafs = IF up THEN Leaves(store) ELSE <<>>
    /\ up => Admitted(store)
    /\ covered \in Seq(LeafSet)
    /\ held = NoCp \/ held = CheckpointOver(covered)

LEMMA LeavesOf ==
    ASSUME NEW es \in Seq(Entries)
    PROVE  /\ Leaves(es) \in Seq(LeafSet)
           /\ Len(Leaves(es)) = Len(es)
           /\ \A i \in 1..Len(es) : Leaves(es)[i] = leafID(es[i])
<1> DEFINE n == Len(es)
<1>1. n \in Nat /\ \A i \in 1..n : es[i] \in Entries
  OBVIOUS
<1>2. \A i \in 1..n : leafID(es[i]) \in LeafSet
  BY <1>1 DEF LeafSet
<1>3. Leaves(es) = [i \in 1..n |-> leafID(es[i])]
  BY DEF Leaves
<1> HIDE DEF n
<1>4. Leaves(es) \in [1..n -> LeafSet]
  BY <1>2, <1>3
<1>5. Leaves(es) \in Seq(LeafSet) /\ Len(Leaves(es)) = n
  BY <1>1, <1>4
<1>6. QED
  BY <1>3, <1>5 DEF n

LEMMA LeavesAppend ==
    ASSUME NEW es \in Seq(Entries), NEW e \in Entries
    PROVE  Leaves(Append(es, e)) = Append(Leaves(es), leafID(e))
<1> DEFINE n == Len(es)
           longer == Append(es, e)
           l == Leaves(es)
           x == leafID(e)
<1>1. n \in Nat /\ longer \in Seq(Entries) /\ Len(longer) = n + 1
  OBVIOUS
<1>2. longer[n + 1] = e /\ \A i \in 1..n : longer[i] = es[i]
  OBVIOUS
<1>3. l \in Seq(LeafSet) /\ Len(l) = n /\ \A i \in 1..n : l[i] = leafID(es[i])
  BY LeavesOf
<1>4. x \in LeafSet
  BY DEF LeafSet
<1>5. Leaves(longer) = [i \in 1..n + 1 |-> leafID(longer[i])]
  BY <1>1 DEF Leaves
<1> HIDE DEF longer, l, x, n
<1>6. /\ Len(Append(l, x)) = n + 1 /\ Append(l, x)[n + 1] = x
      /\ \A i \in 1..n : Append(l, x)[i] = l[i]
  <2>1. Len(Append(l, x)) = n + 1
    BY <1>3
  <2>2. Append(l, x)[n + 1] = x
    BY <1>3
  <2>3. ASSUME NEW i \in 1..n PROVE Append(l, x)[i] = l[i]
    BY <1>3
  <2>4. QED
    BY <2>1, <2>2, <2>3
<1>7. Append(l, x) = [i \in 1..n + 1 |-> Append(l, x)[i]]
  <2> DEFINE more == Append(l, x)
  <2>1. more \in Seq(LeafSet)
    BY <1>3, <1>4
  <2> HIDE DEF more
  <2>2. more = [i \in 1..Len(more) |-> more[i]]
    BY <2>1
  <2>3. QED
    BY <1>6, <2>2 DEF more
<1>8. ASSUME NEW i \in 1..n + 1 PROVE Append(l, x)[i] = leafID(longer[i])
  <2>1. CASE i = n + 1
    BY <1>2, <1>6, <2>1 DEF x
  <2>2. CASE i # n + 1
    <3>1. i \in 1..n
      BY <1>1, <2>2
    <3>2. QED
      BY <3>1, <1>2, <1>3, <1>6
  <2>3. QED
    BY <2>1, <2>2
<1>9. QED
  BY <1>5, <1>7, <1>8 DEF longer, l, x

\* What replay admits is admitted once.
LEMMA ReplayAdmits ==
    ASSUME NEW es \in Seq(Entries), ReVerifies(es)
    PROVE  Admitted(es)
<1> DEFINE l == Leaves(es)
           n == Len(es)
<1>1. n \in Nat /\ l \in Seq(LeafSet) /\ Len(l) = n /\ \A i \in 1..n : l[i] = leafID(es[i])
  BY LeavesOf
<1>2. \A i \in 1..n : check(es[i], SubSeq(l, 1, i - 1))
  BY DEF ReVerifies
<1> HIDE DEF l, n
<1>3. ASSUME NEW i \in 1..n, NEW j \in 1..n, i < j PROVE l[i] # l[j]
  <2> DEFINE s == SubSeq(l, 1, j - 1)
  <2>1. Len(s) = j - 1 /\ s[i] = l[i]
    BY <1>1, <1>3
  <2>2. check(es[j], s)
    BY <1>2
  <2> HIDE DEF s
  <2>3. \A k \in 1..Len(s) : s[k] # leafID(es[j])
    BY <2>2 DEF check
  <2>4. i \in 1..Len(s)
    BY <1>1, <1>3, <2>1
  <2>5. QED
    BY <1>1, <2>1, <2>3, <2>4
<1>4. Distinct(l)
  <2>1. SUFFICES ASSUME NEW i \in 1..n, NEW j \in 1..n, l[i] = l[j] PROVE i = j
    BY <1>1 DEF Distinct
  <2>2. ~(i < j) /\ ~(j < i)
    BY <1>3, <2>1
  <2>3. QED
    BY <1>1, <2>2
<1>5. \A i \in 1..n : EntryVerifies(es[i]) /\ es[i].log = LogID
  BY <1>2 DEF check
<1>6. QED
  BY <1>4, <1>5 DEF Admitted, l, n

LEMMA AppendAdmits ==
    ASSUME NEW es \in Seq(Entries), NEW e \in Entries, Admitted(es), check(e, Leaves(es))
    PROVE  Admitted(Append(es, e))
<1> DEFINE l == Leaves(es)
           n == Len(es)
           x == leafID(e)
           more == Append(l, x)
           longer == Append(es, e)
<1>1. n \in Nat /\ l \in Seq(LeafSet) /\ Len(l) = n
  BY LeavesOf
<1>2. Leaves(longer) = more
  BY LeavesAppend
<1>3. Len(longer) = n + 1 /\ longer[n + 1] = e /\ \A i \in 1..n : longer[i] = es[i]
  OBVIOUS
<1>4. /\ \A i \in 1..n : EntryVerifies(es[i]) /\ es[i].log = LogID
      /\ \A i, j \in 1..n : l[i] = l[j] => i = j
  BY <1>1 DEF Admitted, Distinct
<1>5. EntryVerifies(e) /\ e.log = LogID /\ \A i \in 1..n : l[i] # x
  BY <1>1 DEF check
<1> HIDE DEF l, n, x, longer
<1>6. Len(more) = n + 1 /\ more[n + 1] = x /\ \A i \in 1..n : more[i] = l[i]
  BY <1>1
<1> HIDE DEF more
<1>7. ASSUME NEW i \in 1..n + 1 PROVE EntryVerifies(longer[i]) /\ longer[i].log = LogID
  <2>1. i = n + 1 \/ i \in 1..n
    BY <1>1
  <2>2. QED
    BY <1>3, <1>4, <1>5, <2>1
<1>8. ASSUME NEW i \in 1..n + 1, NEW j \in 1..n + 1, more[i] = more[j] PROVE i = j
  <2>1. (i = n + 1 \/ i \in 1..n) /\ (j = n + 1 \/ j \in 1..n)
    BY <1>1
  <2>2. QED
    BY <1>4, <1>5, <1>6, <1>8, <2>1
<1>9. QED
  BY <1>2, <1>3, <1>6, <1>7, <1>8 DEF Admitted, Distinct, longer

LEMMA InitInv == Init => IInv
<1>1. 0 \in 0..MaxRewrites
  BY RewritesAssumption
<1>2. Leaves(<<>>) = <<>>
  BY DEF Leaves
<1>3. Admitted(<<>>)
  BY <1>2 DEF Admitted, Distinct
<1>4. QED
  BY <1>1, <1>2, <1>3 DEF Init, IInv

LEMMA StepInv == IInv /\ [Next]_vars => IInv'
<1> SUFFICES ASSUME IInv, [Next]_vars PROVE IInv'
  OBVIOUS
<1> USE DEF IInv
<1>1. ASSUME NEW e \in Entries, AppendEntry(e) PROVE IInv'
  <2>1. store' \in Seq(Entries) /\ store' = Append(store, e) /\ up /\ leafs = Leaves(store)
    BY <1>1 DEF AppendEntry
  <2>2. leafs' = Leaves(store')
    BY <1>1, <2>1, LeavesAppend DEF AppendEntry
  <2>3. Admitted(store')
    BY <1>1, <2>1, AppendAdmits DEF AppendEntry
  <2>4. QED
    BY <1>1, <2>1, <2>2, <2>3 DEF AppendEntry
<1>2. CASE Checkpoint
  <2>1. leafs \in Seq(LeafSet)
    BY <1>2, LeavesOf DEF Checkpoint
  <2>2. QED
    BY <1>2, <2>1 DEF Checkpoint
<1>3. CASE Stop
  <2>1. 0 \in 0..MaxRewrites
    BY RewritesAssumption
  <2>2. QED
    BY <1>3, <2>1 DEF Stop
<1>4. CASE Tamper
  <2>1. rewrites' \in 0..MaxRewrites
    BY <1>4, RewritesAssumption DEF Tamper
  <2>2. store' \in Seq(Entries)
    <3>1. ASSUME NEW i \in 1..Len(store),
                 store' = SubSeq(store, 1, i - 1) \o SubSeq(store, i + 1, Len(store))
          PROVE  store' \in Seq(Entries)
      <4>1. SubSeq(store, 1, i - 1) \in Seq(Entries)
        OBVIOUS
      <4>2. SubSeq(store, i + 1, Len(store)) \in Seq(Entries)
        OBVIOUS
      <4>3. QED
        BY <3>1, <4>1, <4>2
    <3>2. ASSUME NEW i \in 1..(Len(store) - 1),
                 store' = [store EXCEPT ![i] = store[i + 1], ![i + 1] = store[i]]
          PROVE  store' \in Seq(Entries)
      <4>1. store[i] \in Entries /\ store[i + 1] \in Entries
        OBVIOUS
      <4>2. store \in [1..Len(store) -> Entries] /\ Len(store) \in Nat
        OBVIOUS
      <4>3. store' \in [1..Len(store) -> Entries]
        BY <3>2, <4>1, <4>2
      <4>4. QED
        BY <4>2, <4>3
    <3>3. ASSUME NEW i \in 1..Len(store), NEW e \in Entries, store' = [store EXCEPT ![i] = e]
          PROVE  store' \in Seq(Entries)
      <4>1. store \in [1..Len(store) -> Entries] /\ Len(store) \in Nat
        OBVIOUS
      <4>2. store' \in [1..Len(store) -> Entries]
        BY <3>3, <4>1
      <4>3. QED
        BY <4>1, <4>2
    <3>4. QED
      BY <1>4, <3>1, <3>2, <3>3 DEF Tamper
  <2>3. QED
    BY <1>4, <2>1, <2>2 DEF Tamper
<1>5. CASE OpenLog
  <2>1. 0 \in 0..MaxRewrites
    BY RewritesAssumption
  <2>2. Admitted(store)
    BY <1>5, ReplayAdmits DEF OpenLog
  <2>3. QED
    BY <1>5, <2>1, <2>2 DEF OpenLog
<1>6. CASE UNCHANGED vars
  BY <1>6 DEF vars
<1>7. QED
  BY <1>1, <1>2, <1>3, <1>4, <1>5, <1>6 DEF Next

LEMMA Invariant == Spec => []IInv
<1>1. Init => IInv
  BY InitInv
<1>2. IInv /\ [Next]_vars => IInv'
  BY StepInv
<1>3. QED
  BY <1>1, <1>2, PTL DEF Spec

\* A running log's leaves are its store's, one for one, and a kept checkpoint is over
\* the leaves it was cut from, through every stop, rewrite and replay.
THEOREM LogIsItsStore == Spec => []TypeOK
<1>1. IInv => TypeOK
  BY DEF IInv, TypeOK
<1>2. QED
  BY <1>1, Invariant, PTL

-----------------------------------------------------------------------------
(* What the log's own proofs show, in every state. *)

LEMMA LeafyLeaves ==
    ASSUME NEW ls \in Seq(LeafSet)
    PROVE  Leafy(ls)
<1>1. Len(ls) \in Nat
  OBVIOUS
<1>2. ASSUME NEW i \in 1..Len(ls) PROVE \E x : ls[i] = leafHash(x)
  <2>1. ls[i] \in LeafSet
    OBVIOUS
  <2>2. PICK e \in Entries : ls[i] = leafID(e)
    BY <2>1 DEF LeafSet
  <2>3. QED
    BY <2>2 DEF leafID
<1>3. QED
  BY <1>1, <1>2 DEF Leafy

LEMMA Running ==
    ASSUME IInv, up
    PROVE  /\ leafs \in Seq(LeafSet) /\ Leafy(leafs) /\ Distinct(leafs)
           /\ Len(leafs) = Len(store)
           /\ \A i \in 1..Len(leafs) : leafs[i] = leafID(store[i])
           /\ \A i \in 1..Len(leafs) : EntryVerifies(store[i]) /\ store[i].log = LogID
<1>1. store \in Seq(Entries) /\ leafs = Leaves(store) /\ Admitted(store)
  BY DEF IInv
<1>2. /\ leafs \in Seq(LeafSet) /\ Len(leafs) = Len(store)
      /\ \A i \in 1..Len(leafs) : leafs[i] = leafID(store[i])
  BY <1>1, LeavesOf
<1>3. Leafy(leafs)
  BY <1>2, LeafyLeaves
<1>4. QED
  BY <1>1, <1>2, <1>3 DEF Admitted

LEMMA InclusionHolds ==
    ASSUME IInv, up, NEW i \in 0..(Len(leafs) - 1), NEW seq \in 0..(Len(leafs) - 1),
           NEW at \in 0..(Len(leafs) - 1)
    PROVE  VerifyInclusion(store[i + 1], seq, provePath(at, leafs), CheckpointOver(leafs))
           <=> (i = seq /\ seq = at)
<1> DEFINE n == Len(leafs)
           path == Paths(at, leafs)[n][0]
           e == store[i + 1]
           cp == CheckpointOver(leafs)
           HS == HeadSet(leafs)
           root == Roots(leafID(e), seq, n, path)[n][0][Len(path)]
<1>1. /\ leafs \in Seq(LeafSet) /\ Leafy(leafs) /\ Distinct(leafs)
      /\ \A j \in 1..n : leafs[j] = leafID(store[j])
      /\ \A j \in 1..n : EntryVerifies(store[j]) /\ store[j].log = LogID
  BY Running
<1>2. n \in Nat /\ n \in 1..n /\ 0 \in 0..n - n
  BY <1>1
<1>3. i + 1 \in 1..n /\ seq + 1 \in 1..n /\ seq \in 0..0 + n - 1 /\ at \in 0..0 + n - 1
  BY <1>2
<1>4. EntryVerifies(e) /\ e.log = LogID /\ leafID(e) = leafs[i + 1]
  BY <1>1, <1>3
<1>5. cp.size = n /\ cp.head = Heads(leafs)[n][0]
  <2>1. leafs # <<>>
    BY <1>1, <1>2
  <2>2. QED
    BY <2>1, CheckpointFields
<1>6. path \in Seq(HS)
  BY <1>2, PathsTyped
<1>7. rootFromPath(leafID(e), seq, cp.size, path) = root
  <2>1. ~(seq >= n)
    BY <1>2
  <2>2. QED
    BY <1>5, <2>1 DEF rootFromPath
<1>8. VerifyInclusion(e, seq, path, cp) <=> root = Heads(leafs)[n][0]
  BY <1>4, <1>5, <1>7 DEF VerifyInclusion
<1>9. Len(path) \in 0..Len(path) /\ FirstOf(path, Len(path)) = path
  <2> HIDE DEF path, HS
  <2>1. QED
    BY <1>6 DEF FirstOf
<1>10. root = Heads(leafs)[n][0]
       <=> leafID(e) = leafs[seq + 1] /\ path = Paths(seq, leafs)[n][0]
  <2> DEFINE leaf == leafID(e)
             it == path
  <2>1. it \in Seq(HS) /\ Len(it) \in 0..Len(it) /\ FirstOf(it, Len(it)) = it
    BY <1>6, <1>9
  <2>2. seq \in Nat /\ seq \in 0..0 + n - 1
    BY <1>3
  <2> HIDE DEF leaf, it, HS
  <2>3. Roots(leaf, seq, Len(leafs), it)[n][0][Len(it)] = Heads(leafs)[n][0]
        <=> leaf = leafs[seq + 1] /\ FirstOf(it, Len(it)) = Paths(seq, leafs)[n][0]
    BY <1>1, <1>2, <2>1, <2>2, RootIff
  <2>4. QED
    BY <2>1, <2>3 DEF leaf, it
<1>11. leafID(e) = leafs[seq + 1] <=> i = seq
  <2>1. leafs[i + 1] = leafs[seq + 1] => i + 1 = seq + 1
    BY <1>1, <1>3 DEF Distinct
  <2>2. QED
    BY <1>4, <2>1
<1>12. path = Paths(seq, leafs)[n][0] <=> seq = at
  <2>1. at \in Nat /\ seq \in Nat
    OBVIOUS
  <2>2. path = Paths(seq, leafs)[n][0] => at = seq
    BY <1>1, <1>2, <1>3, <2>1, PathsDiffer
  <2>3. QED
    BY <2>2
<1>13. provePath(at, leafs) = path
  BY DEF provePath
<1> HIDE DEF path, e, cp, root
<1>14. QED
  BY <1>8, <1>10, <1>11, <1>12, <1>13 DEF e, cp

\* Log.Prove and VerifyInclusion agree for a log of any length: an entry verifies at a
\* position with an audit path exactly when it is the entry there and the path its own.
THEOREM InclusionExact == Spec => []InclusionIffMember
<1>1. IInv => InclusionIffMember
  BY InclusionHolds DEF InclusionIffMember
<1>2. QED
  BY <1>1, Invariant, PTL

LEMMA PrefixIff ==
    ASSUME NEW S, NEW a \in Seq(S), NEW b \in Seq(S), Len(a) <= Len(b)
    PROVE  SubSeq(b, 1, Len(a)) = a <=> \A i \in 1..Len(a) : a[i] = b[i]
<1> DEFINE m == Len(a)
           front == SubSeq(b, 1, m)
<1>1. m \in Nat /\ a = [i \in 1..m |-> a[i]]
  OBVIOUS
<1>2. front \in Seq(S) /\ Len(front) = m
  OBVIOUS
<1>3. \A i \in 1..m : front[i] = b[i]
  OBVIOUS
<1> HIDE DEF front
<1>4. front = [i \in 1..m |-> front[i]]
  BY <1>2
<1>5. QED
  BY <1>1, <1>3, <1>4 DEF front

\* Only the whole log and the empty one have the empty proof.
LEMMA ProofServed ==
    ASSUME Leafy(leafs), NEW size \in 0..Len(leafs)
    PROVE  /\ ProveConsistency(size) \in Seq(HeadSet(leafs))
           /\ ProveConsistency(size) = <<>> <=> size = 0 \/ size = Len(leafs)
           /\ size # 0 /\ size # Len(leafs) => ProveConsistency(size) = proveConsistency(size, leafs)
<1>1. Len(leafs) \in Nat
  BY DEF Leafy
<1>2. CASE size = 0 \/ size = Len(leafs)
  <2>1. ProveConsistency(size) = <<>>
    BY <1>2 DEF ProveConsistency
  <2>2. QED
    BY <1>2, <2>1
<1>3. CASE ~(size = 0 \/ size = Len(leafs))
  <2>1. ProveConsistency(size) = proveConsistency(size, leafs)
    BY <1>3 DEF ProveConsistency
  <2>2. size \in Nat /\ 0 < size /\ size < Len(leafs)
    BY <1>1, <1>3
  <2>3. proveConsistency(size, leafs) \in Seq(HeadSet(leafs)) /\ proveConsistency(size, leafs) # <<>>
    BY <2>2, ProofOfSize
  <2>4. QED
    BY <1>3, <2>1, <2>3
<1>4. QED
  BY <1>2, <1>3

\* At the two ends of the log only the empty proof is taken.
LEMMA VerifyEnds ==
    ASSUME NEW older, NEW ls, older.size \in Nat, Len(ls) \in Nat, NEW proof
    PROVE  /\ older.size > Len(ls) => ~VerifyConsistency(older, CheckpointOver(ls), proof)
           /\ older.size = 0 => (VerifyConsistency(older, CheckpointOver(ls), proof) <=> proof = <<>>)
           /\ older.size = Len(ls) /\ older.size # 0 =>
                (VerifyConsistency(older, CheckpointOver(ls), proof)
                 <=> proof = <<>> /\ older.head = CheckpointOver(ls).head)
<1> DEFINE now == CheckpointOver(ls)
<1>1. now.size = Len(ls)
  BY CheckpointFields
<1> HIDE DEF now
<1>2. older.size > Len(ls) => ~VerifyConsistency(older, now, proof)
  BY <1>1 DEF VerifyConsistency
<1>3. older.size = 0 => (VerifyConsistency(older, now, proof) <=> proof = <<>>)
  BY <1>1 DEF VerifyConsistency
<1>4. older.size = Len(ls) /\ older.size # 0 =>
        (VerifyConsistency(older, now, proof) <=> proof = <<>> /\ older.head = now.head)
  BY <1>1 DEF VerifyConsistency
<1>5. QED
  BY <1>2, <1>3, <1>4 DEF now

\* The log's proof of a size passes a checkpoint over some leaves exactly when those
\* leaves begin the log and the proof is the one for their number.
LEMMA Accepts ==
    ASSUME IInv, up, NEW old \in Seq(LeafSet), NEW size \in 0..Len(leafs)
    PROVE  VerifyConsistency(CheckpointOver(old), CheckpointOver(leafs), ProveConsistency(size))
           <=> /\ Len(old) <= Len(leafs) /\ SubSeq(leafs, 1, Len(old)) = old
               /\ \/ Len(old) = size
                  \/ Len(old) \in {0, Len(leafs)} /\ size \in {0, Len(leafs)}
<1> DEFINE n == Len(leafs)
           m == Len(old)
           HS == HeadSet(leafs)
           older == CheckpointOver(old)
           now == CheckpointOver(leafs)
           proof == ProveConsistency(size)
           begins == \A i \in 1..m : old[i] = leafs[i]
           ok == VerifyConsistency(older, now, proof)
<1>1. leafs \in Seq(LeafSet) /\ Leafy(leafs) /\ Distinct(leafs) /\ Leafy(old)
  BY Running, LeafyLeaves
<1>2. n \in Nat /\ m \in Nat
  BY <1>1
<1>3. /\ proof \in Seq(HS)
      /\ proof = <<>> <=> size = 0 \/ size = n
      /\ size # 0 /\ size # n => proof = proveConsistency(size, leafs)
  BY <1>1, ProofServed
<1>4. older.size = m /\ now.size = n
  BY CheckpointFields
<1>5. m # 0 => older.head = Heads(old)[m][0]
  <2>1. m # 0 => old # <<>>
    BY <1>1
  <2>2. QED
    BY <2>1, CheckpointFields
<1>6. n # 0 => now.head = Heads(leafs)[n][0]
  <2>1. n # 0 => leafs # <<>>
    BY <1>1
  <2>2. QED
    BY <2>1, CheckpointFields
<1>7. m <= n => (SubSeq(leafs, 1, m) = old <=> begins)
  BY <1>1, PrefixIff
<1>8. m # 0 /\ m <= n => (Heads(old)[m][0] = Heads(leafs)[m][0] <=> begins)
  BY <1>1, SameHead
<1>9. CASE m > n
  <2>1. ~ok
    BY <1>2, <1>4, <1>9, VerifyEnds
  <2>2. ~(m <= n)
    BY <1>2, <1>9
  <2>3. QED
    BY <2>1, <2>2
<1>10. CASE m = 0
  <2>1. ok <=> proof = <<>>
    BY <1>2, <1>4, <1>10, VerifyEnds
  <2>2. begins /\ m <= n
    BY <1>2, <1>10
  <2> HIDE DEF older, now, proof, HS, begins, ok
  <2>3. QED
    BY <1>2, <1>3, <1>7, <1>10, <2>1, <2>2 DEF ok, older, now, proof
<1>11. CASE m = n /\ m # 0
  <2>1. ok <=> proof = <<>> /\ older.head = now.head
    BY <1>2, <1>4, <1>11, VerifyEnds
  <2>2. older.head = now.head <=> begins
    <3> HIDE DEF older, now, begins
    <3>1. QED
      BY <1>2, <1>5, <1>6, <1>8, <1>11
  <2> HIDE DEF older, now, proof, HS, begins, ok
  <2>3. QED
    BY <1>2, <1>3, <1>7, <1>11, <2>1, <2>2 DEF ok, older, now, proof
<1>12. CASE 0 < m /\ m < n
  <2>1. ok <=> older.head = Heads(leafs)[m][0] /\ proof = proveConsistency(m, leafs)
    <3>1. older.size \in Nat /\ 0 < older.size /\ older.size < Len(leafs)
      BY <1>2, <1>4, <1>12
    <3> HIDE DEF older, proof, HS
    <3>2. QED
      BY <1>1, <1>3, <1>4, <3>1, VerifyBetween
  <2>2. older.head = Heads(leafs)[m][0] <=> begins
    <3> HIDE DEF older, begins
    <3>1. QED
      BY <1>2, <1>5, <1>8, <1>12
  <2>3. proof = proveConsistency(m, leafs) <=> m = size
    <3>1. proveConsistency(m, leafs) # <<>>
      BY <1>1, <1>2, <1>12, ProofOfSize
    <3>2. CASE size = 0 \/ size = n
      BY <1>3, <1>12, <3>1, <3>2
    <3>3. CASE size # 0 /\ size # n
      <4>1. size \in Nat /\ 0 < size /\ size <= 0 + n /\ 0 < m /\ m <= 0 + n
        BY <1>2, <1>12, <3>3
      <4>2. n \in 1..n /\ 0 \in 0..n - n
        BY <1>2, <1>12
      <4>3. subProof(m, leafs)[n][0] = subProof(size, leafs)[n][0] => m = size
        BY <1>1, <1>2, <4>1, <4>2, ProofsDiffer
      <4>4. QED
        BY <1>3, <3>3, <4>3 DEF proveConsistency
    <3>4. QED
      BY <3>2, <3>3
  <2> HIDE DEF older, now, proof, HS, begins, ok
  <2>4. m <= n /\ ~(m \in {0, n})
    BY <1>2, <1>12
  <2>5. QED
    BY <1>7, <2>1, <2>2, <2>3, <2>4 DEF ok, older, now, proof
<1>13. QED
  BY <1>2, <1>9, <1>10, <1>11, <1>12

\* "Failure against two operator-signed checkpoints is portable fork evidence": for
\* every log and every checkpoint a member kept, the log's own proof links the two
\* exactly when nothing the checkpoint covered was edited, moved or removed.
THEOREM ForkEvidence == Spec => []ForkIsEvident
<1>1. ASSUME IInv, up, held # NoCp
      PROVE  LET now == CheckpointOver(leafs)
                 intact == Len(covered) <= Len(leafs) /\ SubSeq(leafs, 1, Len(covered)) = covered
                 accepts(size) == VerifyConsistency(held, now, ProveConsistency(size))
             IN /\ \A size \in 0..Len(leafs) : accepts(size) => intact
                /\ intact => accepts(Len(covered))
  <2>1. held = CheckpointOver(covered) /\ covered \in Seq(LeafSet)
    BY <1>1 DEF IInv
  <2>2. Len(covered) \in Nat /\ Len(leafs) \in Nat
    BY <1>1, <2>1, Running
  <2>3. Len(covered) <= Len(leafs) => Len(covered) \in 0..Len(leafs)
    BY <2>2
  <2>4. QED
    BY <1>1, <2>1, <2>3, Accepts
<1>2. IInv => ForkIsEvident
  BY <1>1 DEF ForkIsEvident
<1>3. QED
  BY <1>2, Invariant, PTL

LEMMA SamePair ==
    \A a, b, c, d : (a = b \/ (a \in {c, d} /\ b \in {c, d})) <=> (a = b \/ {a, b} = {c, d})
<1>1. SUFFICES ASSUME NEW a, NEW b, NEW c, NEW d, a # b
               PROVE  (a \in {c, d} /\ b \in {c, d}) <=> {a, b} = {c, d}
  OBVIOUS
<1>2. ASSUME a \in {c, d}, b \in {c, d} PROVE {a, b} = {c, d}
  <2>1. (a = c /\ b = d) \/ (a = d /\ b = c)
    BY <1>1, <1>2
  <2>2. QED
    BY <2>1
<1>3. ASSUME {a, b} = {c, d} PROVE a \in {c, d} /\ b \in {c, d}
  <2>1. a \in {a, b} /\ b \in {a, b}
    OBVIOUS
  <2>2. QED
    BY <1>3, <2>1
<1>4. QED
  BY <1>2, <1>3

\* Log.ProveConsistency's proof for a size is taken by VerifyConsistency from a holder
\* of that size alone, in a log of any length; the empty proof also links the empty log
\* and the whole one.
THEOREM ProofFits == Spec => []ProofFitsOneSize
<1>1. ASSUME IInv, up, NEW m \in 0..Len(leafs), NEW size \in 0..Len(leafs)
      PROVE  VerifyConsistency(CheckpointOver(SubSeq(leafs, 1, m)), CheckpointOver(leafs),
                               ProveConsistency(size))
             <=> (m = size \/ {m, size} = {0, Len(leafs)})
  <2> DEFINE n == Len(leafs)
             old == SubSeq(leafs, 1, m)
  <2>1. leafs \in Seq(LeafSet) /\ n \in Nat
    BY <1>1, Running
  <2>2. old \in Seq(LeafSet) /\ Len(old) = m /\ m <= n
    BY <2>1
  <2>3. (m = size \/ (m \in {0, n} /\ size \in {0, n})) <=> (m = size \/ {m, size} = {0, n})
    BY SamePair
  <2>4. SubSeq(leafs, 1, Len(old)) = old
    BY <2>2
  <2> HIDE DEF old, n
  <2>5. VerifyConsistency(CheckpointOver(old), CheckpointOver(leafs), ProveConsistency(size))
        <=> /\ Len(old) <= n /\ SubSeq(leafs, 1, Len(old)) = old
            /\ Len(old) = size \/ (Len(old) \in {0, n} /\ size \in {0, n})
    BY <1>1, <2>2, Accepts DEF n
  <2>6. QED
    BY <2>2, <2>3, <2>4, <2>5 DEF old, n
<1>2. IInv => ProofFitsOneSize
  BY <1>1 DEF ProofFitsOneSize
<1>3. QED
  BY <1>2, Invariant, PTL
=============================================================================
