------------------------------- MODULE Merkle -------------------------------
(***************************************************************************)
(* internal/record/tree.go and verify.go: the RFC 6962 Merkle tree over    *)
(* the leaf ids of a log, its inclusion and consistency proofs, and their  *)
(* verifiers.                                                              *)
(*                                                                         *)
(* Hashes are terms: a leaf is a pair and an interior node a triple, so    *)
(* distinct inputs have distinct hashes and the two kinds never meet, which *)
(* is what SHA-256 under the two domain tags is relied on for.  Sequences  *)
(* start at 1 here; seq and size keep the code's zero-based meaning.       *)
(*                                                                         *)
(* The code recurs over slices.  Here a function of the size n of a slice  *)
(* does, whose value is a function of where the slice begins: at [n][lo]   *)
(* is the result for leaves[lo:lo+n].  A path or proof is consumed from    *)
(* its end, and [p] stands for its first p hashes.                         *)
(***************************************************************************)
EXTENDS Integers, Sequences

leafHash(id) == <<"leaf", id>>
nodeHash(l, r) == <<"node", l, r>>
Nothing == <<"nothing">>

\* k := 1, doubled while 2k < n: what the loop leaves for n - 1 is doubled at most once more.
largestPow2LT(n) ==
    LET doubled(k, i) == IF 2 * k < i THEN 2 * k ELSE k
        split[i \in 1..n] == IF i = 1 THEN 1 ELSE doubled(split[i - 1], i)
    IN split[n]

\* mth of every slice of the leaves.
Heads(leaves) ==
    LET head[n \in 1..Len(leaves)] ==
            LET k == largestPow2LT(n)
            IN [lo \in 0..Len(leaves) - n |->
                   IF n = 1 THEN leaves[lo + 1] ELSE nodeHash(head[k][lo], head[n - k][lo + k])]
    IN head

mth(leaves) == Heads(leaves)[Len(leaves)][0]

provePathRootFirst(m, leaves) ==
    LET path[n \in 1..Len(leaves)] ==
            LET k == largestPow2LT(n)
            IN [lo \in 0..Len(leaves) - n |->
                   IF n = 1 THEN <<>>
                   ELSE IF m < lo + k THEN <<Heads(leaves)[n - k][lo + k]>> \o path[k][lo]
                   ELSE <<Heads(leaves)[k][lo]>> \o path[n - k][lo + k]]
    IN path[Len(leaves)][0]

\* provePath within every slice; the index of the leaf in the slice at lo is m - lo.
Paths(m, leaves) ==
    LET head == Heads(leaves)
        path[n \in 1..Len(leaves)] ==
            LET k == largestPow2LT(n)
            IN [lo \in 0..Len(leaves) - n |->
                   IF n = 1 THEN <<>>
                   ELSE IF m < lo + k THEN Append(path[k][lo], head[n - k][lo + k])
                   ELSE Append(path[n - k][lo + k], head[k][lo])]
    IN path

provePath(m, leaves) == Paths(m, leaves)[Len(leaves)][0]

\* The head of a slice implied by leaf at index seq and the first p hashes of the
\* path, Nothing when they do not have the slice's shape.
Roots(leaf, seq, size, path) ==
    LET root[n \in 1..size] ==
            LET k == largestPow2LT(n)
            IN [lo \in 0..size - n |-> [p \in 0..Len(path) |->
                   IF n = 1 THEN IF p = 0 THEN leaf ELSE Nothing
                   ELSE IF p = 0 THEN Nothing
                   ELSE IF seq < lo + k
                   THEN LET sub == root[k][lo][p - 1]
                        IN IF sub = Nothing THEN Nothing ELSE nodeHash(sub, path[p])
                   ELSE LET sub == root[n - k][lo + k][p - 1]
                        IN IF sub = Nothing THEN Nothing ELSE nodeHash(path[p], sub)]]
    IN root

rootFromPath(leaf, seq, size, path) ==
    IF seq >= size THEN Nothing ELSE Roots(leaf, seq, size, path)[size][0][Len(path)]

subProofSplitEarly(m, leaves) ==
    LET head == Heads(leaves)
        proof[n \in 1..Len(leaves)] ==
            LET k == largestPow2LT(n)
            IN [lo \in 0..Len(leaves) - n |->
                   IF m = lo + n \/ n = 1 THEN IF lo = 0 THEN <<>> ELSE <<head[n][lo]>>
                   ELSE IF m < lo + k THEN Append(proof[k][lo], head[n - k][lo + k])
                   ELSE Append(IF m = lo + k THEN <<>> ELSE proof[n - k][lo + k], head[k][lo])]
    IN proof

\* subProof of every slice, in which the old tree has m - lo leaves: at least one, so
\* a slice of one leaf is within it.  `complete` holds until the recursion first turns
\* right, which is while lo = 0.
subProof(m, leaves) ==
    LET head == Heads(leaves)
        proof[n \in 1..Len(leaves)] ==
            LET k == largestPow2LT(n)
            IN [lo \in 0..Len(leaves) - n |->
                   IF m = lo + n \/ n = 1 THEN IF lo = 0 THEN <<>> ELSE <<head[n][lo]>>
                   ELSE IF m <= lo + k THEN Append(proof[k][lo], head[n - k][lo + k])
                   ELSE Append(proof[n - k][lo + k], head[k][lo])]
    IN proof

proveConsistency(m, leaves) == subProof(m, leaves)[Len(leaves)][0]

\* The (older, newer) heads of a slice that the first p hashes of a consistency proof
\* from m to size imply, and how many are left over; not ok on a shape mismatch.
NoRoots == [ok |-> FALSE]
Both(older, newer, rest) == [ok |-> TRUE, older |-> older, newer |-> newer, rest |-> rest]
consRoots(m, size, proof, seed) ==
    LET roots[n \in 1..size] ==
            LET k == largestPow2LT(n)
            IN [lo \in 0..size - n |-> [p \in 0..Len(proof) |->
                   IF m = lo + n
                   THEN IF lo = 0 THEN Both(seed, seed, p)
                        ELSE IF p = 0 THEN NoRoots
                        ELSE Both(proof[p], proof[p], p - 1)
                   ELSE IF m > lo + n \/ p = 0 \/ n = 1 THEN NoRoots
                   ELSE IF m <= lo + k
                   THEN LET sub == roots[k][lo][p - 1]
                        IN IF ~sub.ok THEN NoRoots
                           ELSE Both(sub.older, nodeHash(sub.newer, proof[p]), sub.rest)
                   ELSE LET sub == roots[n - k][lo + k][p - 1]
                        IN IF ~sub.ok THEN NoRoots
                           ELSE Both(nodeHash(proof[p], sub.older), nodeHash(proof[p], sub.newer),
                                     sub.rest)]]
    IN roots

VerifyConsistencyNewHeadOnly(older, newer, proof) ==
    \/ older.size = 0 /\ proof = <<>>
    \/ older.size = newer.size /\ proof = <<>> /\ older.head = newer.head
    \/ /\ 0 < older.size /\ older.size < newer.size
       /\ LET all == consRoots(older.size, newer.size, proof, older.head)
              roots == all[newer.size][0][Len(proof)] IN
          /\ roots.ok
          /\ roots.rest = 0 /\ roots.newer = newer.head

\* VerifyConsistencyAs, for two checkpoints whose signatures verify for one log.
VerifyConsistency(older, newer, proof) ==
    /\ older.size <= newer.size
    /\ \/ older.size = 0 /\ proof = <<>>
       \/ older.size # 0 /\ older.size = newer.size /\ proof = <<>> /\ older.head = newer.head
       \/ /\ 0 < older.size /\ older.size < newer.size
          /\ LET all == consRoots(older.size, newer.size, proof, older.head)
                 roots == all[newer.size][0][Len(proof)] IN
             /\ roots.ok
             /\ roots.rest = 0
             /\ roots.older = older.head
             /\ roots.newer = newer.head
=============================================================================
