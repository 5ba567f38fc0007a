-------------------------- MODULE StorefrontProofs --------------------------
(***************************************************************************)
(* Proofs about module Storefront, for any members, claims, edges,         *)
(* listings, sales and texts, and logs of any length.                      *)
(*                                                                         *)
(* The tree and the catalog are values that the handlers replace, so most  *)
(* of what follows is about values: a search of as many rounds as there    *)
(* are claims sees all it can reach; a head determines the log it chains;  *)
(* replaying a log gives back the value that grew with it.                 *)
(***************************************************************************)
EXTENDS Storefront, FiniteSetTheorems, TLAPS, WellFoundedInduction

-----------------------------------------------------------------------------
(* Recursive functions over 0..N.  The provers cannot instantiate an induction *)
(* rule with a predicate, nor show that a recursive definition defines         *)
(* anything; they can be given a set that is closed under adding one, and a    *)
(* function that satisfies the definition.                                     *)

\* Induction up to a bound, over a set.
LEMMA UpTo ==
    ASSUME NEW N \in Nat, NEW G,
           0 \in G,
           \A n \in 1..N : n - 1 \in G => n \in G
    PROVE  0..N \subseteq G
<1> DEFINE Bad == (0..N) \ G
<1>1. SUFFICES ASSUME Bad # {} PROVE FALSE
  OBVIOUS
<1>2. Bad \in SUBSET Nat
  OBVIOUS
<1>3. PICK m \in Bad : \A k \in Bad : ~(<<k, m>> \in OpToRel(<, Nat))
  <2> HIDE DEF Bad
  <2>1. QED
    BY <1>1, <1>2, NatLessThanWellFounded, WFMin
<1>4. m \in 1..N /\ m \notin G
  OBVIOUS
<1>5. m - 1 \in Bad
  BY <1>4
<1>6. m - 1 \in Nat /\ m \in Nat /\ m - 1 < m
  BY <1>4
<1>7. <<m - 1, m>> \in OpToRel(<, Nat)
  BY <1>6 DEF OpToRel
<1> HIDE DEF Bad
<1>8. QED
  BY <1>3, <1>5, <1>7

StepsIn(S, N) == [1..N -> [S -> S]]
Iterates(f, a, F, S, N) ==
    f \in [0..N -> S] /\ f[0] = a /\ \A n \in 1..N : f[n] = F[n][f[n - 1]]

\* Steps within a set can be taken one after the other.
LEMMA Iterated ==
    ASSUME NEW N \in Nat, NEW S, NEW a \in S, NEW F \in StepsIn(S, N)
    PROVE  \E f : Iterates(f, a, F, S, N)
<1> USE DEF StepsIn, Iterates
<1> DEFINE Runs(f, n) == f[0] = a /\ \A k \in 1..n : f[k] = F[k][f[k - 1]]
           G == {n \in 0..N : \E f \in [0..n -> S] : Runs(f, n)}
<1>1. 0 \in G
  <2> DEFINE g == [k \in 0..0 |-> a]
  <2>1. g \in [0..0 -> S] /\ g[0] = a
    OBVIOUS
  <2>2. Runs(g, 0)
    BY <2>1
  <2> HIDE DEF g, Runs
  <2>3. 0 \in 0..N
    OBVIOUS
  <2>4. QED
    BY <2>1, <2>2, <2>3
<1>2. ASSUME NEW n \in 1..N, n - 1 \in G PROVE n \in G
  <2>1. PICK f \in [0..n - 1 -> S] : Runs(f, n - 1)
    BY <1>2
  <2> DEFINE g == [k \in 0..n |-> IF k = n THEN F[n][f[n - 1]] ELSE f[k]]
  <2>2. n - 1 \in 0..n - 1 /\ F[n] \in [S -> S]
    OBVIOUS
  <2>3. F[n][f[n - 1]] \in S
    BY <2>2
  <2>4. g \in [0..n -> S]
    BY <2>3
  <2>5. g[0] = a
    BY <2>1
  <2>6. ASSUME NEW k \in 1..n PROVE g[k] = F[k][g[k - 1]]
    <3>1. CASE k = n
      BY <3>1, <2>2
    <3>2. CASE k # n
      <4>1. k \in 1..n - 1 /\ k - 1 \in 0..n - 1 /\ k \in 0..n /\ k - 1 \in 0..n /\ k - 1 # n
        BY <3>2
      <4>2. QED
        BY <2>1, <4>1, <3>2
    <3>3. QED
      BY <3>1, <3>2
  <2>7. Runs(g, n)
    BY <2>5, <2>6
  <2> HIDE DEF g, Runs
  <2>8. n \in 0..N
    OBVIOUS
  <2>9. QED
    BY <2>4, <2>7, <2>8
<1>3. N \in G
  <2> HIDE DEF G
  <2>1. 0..N \subseteq G
    BY <1>1, <1>2, UpTo
  <2>2. QED
    BY <2>1
<1>4. QED
  BY <1>3


-----------------------------------------------------------------------------
(* What builds on what. *)

\* What a set of claims builds on, with the set.
Onward(E, R) == R \cup {e[2] : e \in {e \in E : e[1] \in R}}

\* The search takes every edge there is: after as many rounds as there are claims,
\* what it has seen is closed under builds_on.
LEMMA SearchIsComplete ==
    ASSUME NEW t, NEW start,
           IsFiniteSet(t.claims),
           start \in Ids(t.claims),
           BuildsOn(t) \subseteq Ids(t.claims) \X Ids(t.claims)
    PROVE  \E R \in SUBSET Ids(t.claims) :
              /\ start \in R
              /\ \A e \in BuildsOn(t) : e[1] \in R => e[2] \in R
              /\ \A target : buildsOnReaches(t, start, target) <=> target \in R
<1> DEFINE N == Cardinality(t.claims)
           I == Ids(t.claims)
           E == BuildsOn(t)
           Solves(f) == f = [n \in 0..N |->
                                IF n = 0 THEN {start}
                                ELSE f[n - 1] \cup {e[2] : e \in {e \in BuildsOn(t) : e[1] \in f[n - 1]}}]
           r == CHOOSE f : Solves(f)
<1>1. N \in Nat
  BY FS_CardinalityType
<1>2. IsFiniteSet(I) /\ Cardinality(I) <= N
  <2> DEFINE g == [c \in t.claims |-> c.id]
  <2>1. g \in Surjection(t.claims, I)
    BY DEF Surjection, Ids
  <2>2. QED
    BY <2>1, FS_Surjection
<1>3. PICK s \in [0..N -> SUBSET I] :
          s[0] = {start} /\ \A n \in 1..N : s[n] = Onward(E, s[n - 1])
  <2> DEFINE F == [n \in 1..N |-> [R \in SUBSET I |-> Onward(E, R)]]
  <2>1. \A R \in SUBSET I : Onward(E, R) \in SUBSET I
    BY DEF Onward
  <2>2. F \in [1..N -> [SUBSET I -> SUBSET I]]
    BY <2>1
  <2>3. {start} \in SUBSET I
    OBVIOUS
  <2>4. PICK f \in [0..N -> SUBSET I] :
            f[0] = {start} /\ \A n \in 1..N : f[n] = F[n][f[n - 1]]
    <3>1. F \in StepsIn(SUBSET I, N)
      BY <2>2 DEF StepsIn
    <3> HIDE DEF F, N, I
    <3>2. \E f : Iterates(f, {start}, F, SUBSET I, N)
      BY <1>1, <2>3, <3>1, Iterated
    <3>3. QED
      BY <3>2 DEF Iterates
  <2>5. ASSUME NEW n \in 1..N PROVE F[n][f[n - 1]] = Onward(E, f[n - 1])
    <3>1. n - 1 \in 0..N
      BY <1>1
    <3>2. f[n - 1] \in SUBSET I
      BY <3>1
    <3>3. QED
      BY <3>2
  <2>6. QED
    BY <2>4, <2>5
<1>4. Solves(s)
  <2>1. ASSUME NEW n \in 0..N
        PROVE  s[n] = IF n = 0 THEN {start}
                      ELSE s[n - 1] \cup {e[2] : e \in {e \in BuildsOn(t) : e[1] \in s[n - 1]}}
    BY <1>1, <1>3 DEF Onward
  <2>2. QED
    BY <1>3, <2>1
<1>5. Solves(r)
  <2> HIDE DEF Solves
  <2>1. QED
    BY <1>4
<1>6. r[N] = s[N]
  <2>1. \A n \in 0..N : r[n] = IF n = 0 THEN {start} ELSE Onward(E, r[n - 1])
    <3> HIDE DEF r
    <3>1. QED
      BY <1>5 DEF Onward
  <2> HIDE DEF r, Solves, N, E
  <2> DEFINE G == {n \in 0..N : r[n] = s[n]}
  <2>2. 0 \in G
    <3>1. 0 \in 0..N
      BY <1>1
    <3>2. r[0] = {start}
      BY <2>1, <3>1
    <3>3. QED
      BY <1>3, <3>1, <3>2
  <2>3. ASSUME NEW n \in 1..N, n - 1 \in G PROVE n \in G
    <3>1. n \in 0..N /\ n # 0
      BY <1>1
    <3>2. r[n] = Onward(E, r[n - 1]) /\ s[n] = Onward(E, s[n - 1])
      BY <1>3, <2>1, <3>1
    <3>3. QED
      BY <2>3, <3>1, <3>2
  <2>4. 0..N \subseteq G
    <3> HIDE DEF G
    <3>1. QED
      BY <1>1, <2>2, <2>3, UpTo
  <2>5. QED
    BY <1>1, <2>4
<1>7. ASSUME NEW target PROVE buildsOnReaches(t, start, target) <=> target \in s[N]
  <2>1. buildsOnReaches(t, start, target) <=> target \in r[N]
    BY DEF buildsOnReaches, r, Solves
  <2>2. QED
    BY <1>6, <2>1
<1> HIDE DEF N, I, E, r, Solves
<1> DEFINE Closed(R) == \A e \in E : e[1] \in R => e[2] \in R
<1>8. ASSUME NEW n \in 1..N PROVE s[n - 1] \subseteq s[n] /\ (Closed(s[n - 1]) => s[n] = s[n - 1])
  <2>1. s[n] = Onward(E, s[n - 1])
    BY <1>3
  <2>2. ASSUME NEW R PROVE R \subseteq Onward(E, R) /\ (Closed(R) => Onward(E, R) = R)
    <3>1. R \subseteq Onward(E, R)
      BY DEF Onward
    <3>2. ASSUME Closed(R) PROVE Onward(E, R) \subseteq R
      BY <3>2 DEF Onward
    <3>3. QED
      BY <3>1, <3>2
  <2>3. s[n - 1] \subseteq Onward(E, s[n - 1]) /\ (Closed(s[n - 1]) => Onward(E, s[n - 1]) = s[n - 1])
    <3> HIDE DEF Closed
    <3>1. QED
      BY <2>2
  <2>4. QED
    BY <2>1, <2>3
<1>9. start \in s[N]
  <2> DEFINE G == {n \in 0..N : start \in s[n]}
  <2>1. 0 \in G
    BY <1>1, <1>3
  <2>2. \A n \in 1..N : n - 1 \in G => n \in G
    BY <1>1, <1>8
  <2>3. 0..N \subseteq G
    <3> HIDE DEF G
    <3>1. QED
      BY <1>1, <2>1, <2>2, UpTo
  <2>4. QED
    BY <1>1, <2>3
<1>10. Closed(s[N])
  <2> SUFFICES ASSUME ~Closed(s[N]) PROVE FALSE
    OBVIOUS
  <2>1. ASSUME NEW n \in 0..N PROVE IsFiniteSet(s[n]) /\ Cardinality(s[n]) \in Nat /\ Cardinality(s[n]) <= N
    <3>1. s[n] \in SUBSET I
      BY <1>3
    <3>2. IsFiniteSet(s[n]) /\ Cardinality(s[n]) <= Cardinality(I)
      BY <3>1, <1>2, FS_Subset
    <3>3. Cardinality(s[n]) \in Nat /\ Cardinality(I) \in Nat
      BY <3>2, <1>2, FS_CardinalityType
    <3>4. QED
      BY <3>2, <3>3, <1>1, <1>2
  \* Until it is closed it grows by a claim each round.
  <2> DEFINE G == {n \in 0..N : Closed(s[n]) \/ Cardinality(s[n]) >= n + 1}
  <2>2. 0 \in G
    <3>1. Cardinality(s[0]) = 1
      BY <1>3, FS_Singleton
    <3>2. QED
      BY <3>1, <1>1
  <2>3. ASSUME NEW n \in 1..N, n - 1 \in G PROVE n \in G
    <3>1. n - 1 \in 0..N /\ n \in 0..N
      BY <1>1
    <3>2. CASE Closed(s[n - 1])
      BY <3>1, <3>2, <1>8
    <3>3. CASE ~Closed(s[n - 1])
      <4>1. PICK e \in E : e[1] \in s[n - 1] /\ e[2] \notin s[n - 1]
        BY <3>3
      <4>2. e[2] \in s[n]
        BY <4>1, <1>3 DEF Onward
      <4>3. s[n - 1] \subseteq s[n] /\ s[n] # s[n - 1]
        BY <4>1, <4>2, <1>8
      <4>4. Cardinality(s[n - 1]) <= Cardinality(s[n]) /\ Cardinality(s[n - 1]) # Cardinality(s[n])
        BY <4>3, <3>1, <2>1, FS_Subset
      <4>5. Cardinality(s[n - 1]) >= n
        BY <2>3, <3>3, <1>1
      <4>6. Cardinality(s[n]) >= n + 1
        BY <4>4, <4>5, <2>1, <3>1, <1>1
      <4>7. QED
        BY <4>6, <3>1
    <3>4. QED
      BY <3>2, <3>3
  <2>4. N \in G
    <3> HIDE DEF G
    <3>1. 0..N \subseteq G
      BY <1>1, <2>2, <2>3, UpTo
    <3>2. QED
      BY <1>1, <3>1
  <2>5. N \in 0..N
    BY <1>1
  <2>6. QED
    BY <2>1, <2>4, <2>5, <1>1
<1>11. s[N] \in SUBSET I
  BY <1>1, <1>3
<1>12. QED
  BY <1>7, <1>9, <1>10, <1>11 DEF I, E

ReferencesIn(log) == {log[i].reference : i \in {i \in DOMAIN log : log[i].reference # None}}

\* What a tree is, when no claim or edge got into it but by its log.
TreeOK(t) ==
    /\ t.claims \in SUBSET Claims /\ IsFiniteSet(t.claims)
    /\ t.log \in Seq(TreeItems)
    /\ t.refs = ReferencesIn(t.log)
    /\ \A r \in t.refs : r.from \in Ids(t.claims) /\ r.to \in Ids(t.claims)

Acyclic(t) ==
    \A S \in (SUBSET Ids(t.claims)) \ {{}} :
        \E a \in S : \A b \in S : <<a, b>> \notin BuildsOn(t)

LEMMA EdgesBetweenClaims ==
    ASSUME NEW t, TreeOK(t)
    PROVE  BuildsOn(t) \subseteq Ids(t.claims) \X Ids(t.claims)
BY DEF TreeOK, BuildsOn

\* The references of a log with one more item.
LEMMA ReferencesAppend ==
    ASSUME NEW log \in Seq(TreeItems), NEW x \in TreeItems
    PROVE  ReferencesIn(Append(log, x))
               = ReferencesIn(log) \cup (IF x.reference # None THEN {x.reference} ELSE {})
<1> DEFINE new == Append(log, x)
           n == Len(log)
<1>1. n \in Nat /\ DOMAIN log = 1..n /\ DOMAIN new = 1..n + 1
  OBVIOUS
<1>2. (\A i \in 1..n : new[i] = log[i]) /\ new[n + 1] = x
  OBVIOUS
<1> HIDE DEF new, n
<1>3. ReferencesIn(new) \subseteq ReferencesIn(log) \cup (IF x.reference # None THEN {x.reference} ELSE {})
  <2>1. SUFFICES ASSUME NEW i \in DOMAIN new, new[i].reference # None
                 PROVE  new[i].reference \in ReferencesIn(log) \cup (IF x.reference # None THEN {x.reference} ELSE {})
    BY DEF ReferencesIn
  <2>2. CASE i \in 1..n
    BY <2>1, <2>2, <1>1, <1>2 DEF ReferencesIn
  <2>3. CASE i = n + 1
    BY <2>1, <2>3, <1>2
  <2>4. QED
    BY <1>1, <2>2, <2>3
<1>4. ReferencesIn(log) \subseteq ReferencesIn(new)
  <2>1. SUFFICES ASSUME NEW i \in DOMAIN log, log[i].reference # None
                 PROVE  log[i].reference \in ReferencesIn(new)
    BY DEF ReferencesIn
  <2>2. i \in DOMAIN new /\ new[i] = log[i]
    BY <1>1, <1>2
  <2>3. QED
    BY <2>1, <2>2 DEF ReferencesIn
<1>5. x.reference # None => x.reference \in ReferencesIn(new)
  <2>1. n + 1 \in DOMAIN new
    BY <1>1
  <2>2. QED
    BY <2>1, <1>2 DEF ReferencesIn
<1>6. QED
  BY <1>3, <1>4, <1>5 DEF new

LEMMA ItemFacts ==
    /\ \A c \in Claims : [claim |-> c, reference |-> None] \in TreeItems
    /\ \A r \in References : [claim |-> None, reference |-> r] \in TreeItems
    /\ None \notin Claims /\ None \notin References
BY ArtifactAssumption DEF TreeItems

LEMMA ClaimKeepsTree ==
    ASSUME NEW t, TreeOK(t), Acyclic(t), NEW c \in Claims
    PROVE  TreeOK(AddClaim(t, c)) /\ Acyclic(AddClaim(t, c))
<1> DEFINE u == AddClaim(t, c)
           x == [claim |-> c, reference |-> None]
<1>1. /\ u.claims = t.claims \cup {c} /\ u.refs = t.refs /\ u.log = Append(t.log, x)
  BY DEF AddClaim
<1>2. x \in TreeItems /\ x.reference = None
  BY ItemFacts
<1> HIDE DEF u, x
<1>3. IsFiniteSet(u.claims)
  <2>1. IsFiniteSet(t.claims)
    BY DEF TreeOK
  <2>2. IsFiniteSet(t.claims \cup {c})
    BY <2>1, FS_AddElement
  <2>3. QED
    BY <2>2, <1>1
<1>4. u.log \in Seq(TreeItems)
  BY <1>1, <1>2 DEF TreeOK
<1>5. u.refs = ReferencesIn(u.log)
  BY <1>1, <1>2, ReferencesAppend DEF TreeOK
<1>6. Ids(t.claims) \subseteq Ids(u.claims)
  BY <1>1 DEF Ids
<1>7. TreeOK(u)
  BY <1>1, <1>3, <1>4, <1>5, <1>6 DEF TreeOK
<1>8. BuildsOn(u) = BuildsOn(t)
  BY <1>1 DEF BuildsOn
<1>9. Acyclic(u)
  <2>1. SUFFICES ASSUME NEW S \in SUBSET Ids(u.claims), S # {}
                 PROVE  \E a \in S : \A b \in S : <<a, b>> \notin BuildsOn(t)
    BY <1>8 DEF Acyclic
  <2> DEFINE Old == S \cap Ids(t.claims)
  <2>2. \A a, b : <<a, b>> \in BuildsOn(t) => a \in Ids(t.claims) /\ b \in Ids(t.claims)
    BY EdgesBetweenClaims
  <2>3. CASE Old = {}
    BY <2>1, <2>2, <2>3
  <2>4. CASE Old # {}
    <3>1. PICK a \in Old : \A b \in Old : <<a, b>> \notin BuildsOn(t)
      BY <2>4 DEF Acyclic
    <3>2. QED
      BY <2>2, <3>1
  <2>5. QED
    BY <2>3, <2>4
<1>10. QED
  BY <1>7, <1>9 DEF u

\* An edge whose end does not reach its beginning closes no cycle: a set that meets
\* what the end reaches has, within that, a claim that builds on none of it.
LEMMA ReferenceKeepsTree ==
    ASSUME NEW t, TreeOK(t), Acyclic(t), NEW r \in References, AdmitsReference(t, r)
    PROVE  TreeOK(AddReference(t, r)) /\ Acyclic(AddReference(t, r))
<1> DEFINE u == AddReference(t, r)
           x == [claim |-> None, reference |-> r]
<1>1. /\ u.claims = t.claims /\ u.refs = t.refs \cup {r} /\ u.log = Append(t.log, x)
  BY DEF AddReference
<1>2. x \in TreeItems /\ x.reference = r /\ r # None
  BY ItemFacts
<1> HIDE DEF u, x
<1>3. u.log \in Seq(TreeItems)
  BY <1>1, <1>2 DEF TreeOK
<1>4. u.refs = ReferencesIn(u.log)
  BY <1>1, <1>2, ReferencesAppend DEF TreeOK
<1>5. r.from \in Ids(t.claims) /\ r.to \in Ids(t.claims)
  BY DEF AdmitsReference, Ids
<1>6. TreeOK(u)
  BY <1>1, <1>3, <1>4, <1>5 DEF TreeOK
<1>7. BuildsOn(u) \subseteq BuildsOn(t) \cup {<<r.from, r.to>>}
  BY <1>1 DEF BuildsOn
<1>8. CASE r.kind # "builds_on"
  <2>1. BuildsOn(u) = BuildsOn(t)
    BY <1>1, <1>8 DEF BuildsOn
  <2>2. QED
    BY <2>1, <1>1, <1>6 DEF Acyclic, u
<1>9. CASE r.kind = "builds_on"
  <2>1. PICK R \in SUBSET Ids(t.claims) :
            /\ r.to \in R
            /\ \A e \in BuildsOn(t) : e[1] \in R => e[2] \in R
            /\ \A target : buildsOnReaches(t, r.to, target) <=> target \in R
    BY <1>5, EdgesBetweenClaims, SearchIsComplete DEF TreeOK
  <2>2. r.from \notin R
    BY <1>9, <2>1 DEF AdmitsReference
  <2>3. \A a, b : <<a, b>> \in BuildsOn(u) => <<a, b>> \in BuildsOn(t) \/ (a = r.from /\ b = r.to)
    BY <1>7
  <2>4. ASSUME NEW a \in R, NEW b, <<a, b>> \in BuildsOn(t) PROVE b \in R
    BY <2>1, <2>4
  <2>5. ASSUME NEW S \in SUBSET Ids(t.claims), S # {}
        PROVE  \E a \in S : \A b \in S : <<a, b>> \notin BuildsOn(u)
    <3>1. CASE S \cap R = {}
      <4>1. PICK a \in S : \A b \in S : <<a, b>> \notin BuildsOn(t)
        BY <2>5 DEF Acyclic
      <4>2. QED
        BY <4>1, <3>1, <2>1, <2>3
    <3>2. CASE S \cap R # {}
      <4>1. PICK a \in S \cap R : \A b \in S \cap R : <<a, b>> \notin BuildsOn(t)
        BY <3>2 DEF Acyclic
      <4>2. QED
        BY <4>1, <2>2, <2>3, <2>4
    <3>3. QED
      BY <3>1, <3>2
  <2>6. Acyclic(u)
    BY <2>5, <1>1 DEF Acyclic
  <2>7. QED
    BY <2>6, <1>6 DEF u
<1>10. QED
  BY <1>8, <1>9

-----------------------------------------------------------------------------
(* Hash chains. *)

\* p holds the heads of the chain over the first n leaves of a.
Chained(p, a, n) == p[0] = <<>> /\ \A k \in 1..n : p[k] = Chain(p[k - 1], a[k])

LEMMA ChainInjective ==
    ASSUME NEW h, NEW l, NEW g, NEW m, Chain(h, l) = Chain(g, m)
    PROVE  h = g /\ l = m
<1>1. <<h, l>>[1] = h /\ <<h, l>>[2] = l /\ <<g, m>>[1] = g /\ <<g, m>>[2] = m
  OBVIOUS
<1>2. <<h, l>> = <<g, m>>
  BY Zenon DEF Chain
<1>3. QED
  BY <1>1, <1>2, Zenon

LEMMA ChainsAgreeUpTo ==
    ASSUME NEW N \in Nat, NEW M \in Nat, N <= M, NEW p, NEW q, NEW a, NEW b,
           Chained(p, a, N), Chained(q, b, M), p[N] = q[M]
    PROVE  N = M /\ \A k \in 1..N : a[k] = b[k]
<1> DEFINE G == {j \in 0..N : p[N - j] = q[M - j]}
<1>1. 0 \in G
  OBVIOUS
<1>2. ASSUME NEW j \in 1..N, j - 1 \in G
      PROVE  j \in G /\ a[N - (j - 1)] = b[M - (j - 1)]
  <2> DEFINE k == N - (j - 1)
             m == M - (j - 1)
  <2>1. k \in 1..N /\ m \in 1..M /\ k - 1 = N - j /\ m - 1 = M - j /\ j \in 0..N
    OBVIOUS
  <2>2. p[k] = q[m]
    BY <1>2
  <2> HIDE DEF k, m
  <2>3. p[k] = Chain(p[k - 1], a[k]) /\ q[m] = Chain(q[m - 1], b[m])
    BY <2>1 DEF Chained
  <2>4. p[k - 1] = q[m - 1] /\ a[k] = b[m]
    <3>1. Chain(p[k - 1], a[k]) = Chain(q[m - 1], b[m])
      BY <2>2, <2>3
    <3>2. QED
      BY <3>1, ChainInjective
  <2>5. QED
    BY <2>1, <2>4 DEF k, m
<1>3. 0..N \subseteq G
  <2> HIDE DEF G
  <2>1. QED
    BY <1>1, <1>2, UpTo
<1>4. M = N
  <2>1. N \in G /\ N - N = 0
    BY <1>3
  <2>2. q[M - N] = <<>>
    <3>1. p[N - N] = q[M - N]
      BY <2>1
    <3>2. p[0] = <<>>
      BY DEF Chained
    <3>3. QED
      BY <2>1, <3>1, <3>2
  <2>3. CASE M - N \in 1..M
    <3>1. q[M - N] = Chain(q[(M - N) - 1], b[M - N])
      BY <2>3 DEF Chained
    <3>2. \A h, l : Chain(h, l) # <<>>
      BY DEF Chain
    <3>3. QED
      BY <2>2, <3>1, <3>2
  <2>4. QED
    BY <2>3
<1>5. ASSUME NEW k \in 1..N PROVE a[k] = b[k]
  <2> DEFINE j == (N - k) + 1
  <2>1. j \in 1..N /\ j - 1 \in 0..N /\ N - (j - 1) = k
    OBVIOUS
  <2> HIDE DEF j
  <2>2. j - 1 \in G
    BY <2>1, <1>3
  <2>3. a[N - (j - 1)] = b[M - (j - 1)]
    <3> HIDE DEF G
    <3>1. QED
      BY <2>1, <2>2, <1>2
  <2>4. QED
    BY <2>1, <2>3, <1>4
<1>6. QED
  BY <1>4, <1>5

\* Equal heads chain the same leaves.
LEMMA ChainsAgree ==
    ASSUME NEW N \in Nat, NEW M \in Nat, NEW p, NEW q, NEW a, NEW b,
           Chained(p, a, N), Chained(q, b, M), p[N] = q[M]
    PROVE  N = M /\ \A k \in 1..N : a[k] = b[k]
<1>1. CASE N <= M
  BY <1>1, ChainsAgreeUpTo
<1>2. CASE M <= N
  <2>1. M = N /\ \A k \in 1..M : b[k] = a[k]
    BY <1>2, ChainsAgreeUpTo
  <2>2. QED
    BY <2>1
<1>3. QED
  BY <1>1, <1>2

-----------------------------------------------------------------------------
(* Replay of the tree's log. *)

OpenStep(s, item) ==
    IF s.ok /\ AdmitsItem(s.tree, item)
    THEN [ok |-> TRUE, tree |-> AddItem(s.tree, item)]
    ELSE [ok |-> FALSE, tree |-> NewTree]

\* The states OpenTree goes through over the first n items.
Opening(f, items, n) ==
    /\ f = [k \in 0..n |-> f[k]]
    /\ f[0] = [ok |-> TRUE, tree |-> NewTree]
    /\ \A k \in 1..n : f[k] = OpenStep(f[k - 1], items[k])

LEMMA OpeningExists ==
    ASSUME NEW items, NEW N \in Nat
    PROVE  \E f : Opening(f, items, N)
<1> DEFINE G == {n \in 0..N : \E f : Opening(f, items, n)}
<1>1. 0 \in G
  <2> DEFINE g == [k \in 0..0 |-> [ok |-> TRUE, tree |-> NewTree]]
  <2>1. g = [k \in 0..0 |-> g[k]] /\ g[0] = [ok |-> TRUE, tree |-> NewTree]
    OBVIOUS
  <2> HIDE DEF g
  <2>2. Opening(g, items, 0)
    BY <2>1 DEF Opening
  <2>3. 0 \in 0..N
    OBVIOUS
  <2>4. QED
    BY <2>2, <2>3
<1>2. ASSUME NEW n \in 1..N, n - 1 \in G PROVE n \in G
  <2>1. PICK f : Opening(f, items, n - 1)
    BY <1>2
  <2> DEFINE last == OpenStep(f[n - 1], items[n])
             g == [k \in 0..n |-> IF k = n THEN last ELSE f[k]]
  <2> HIDE DEF last
  <2>2. /\ g = [k \in 0..n |-> g[k]]
        /\ g[n] = last
        /\ \A k \in 0..n - 1 : g[k] = f[k]
    OBVIOUS
  <2> HIDE DEF g
  <2>3. g[0] = [ok |-> TRUE, tree |-> NewTree]
    <3>1. 0 \in 0..n - 1
      OBVIOUS
    <3>2. QED
      BY <2>1, <2>2, <3>1 DEF Opening
  <2>4. ASSUME NEW k \in 1..n PROVE g[k] = OpenStep(g[k - 1], items[k])
    <3>1. CASE k = n
      <4>1. n - 1 \in 0..n - 1
        OBVIOUS
      <4>2. QED
        BY <4>1, <3>1, <2>2 DEF last
    <3>2. CASE k # n
      <4>1. k \in 1..n - 1 /\ k - 1 \in 0..n - 1 /\ k \in 0..n - 1
        BY <3>2
      <4>2. f[k] = OpenStep(f[k - 1], items[k])
        BY <2>1, <4>1 DEF Opening
      <4>3. QED
        BY <2>2, <4>1, <4>2
    <3>3. QED
      BY <3>1, <3>2
  <2>5. Opening(g, items, n)
    BY <2>2, <2>3, <2>4 DEF Opening
  <2>6. n \in 0..N
    OBVIOUS
  <2>7. QED
    BY <2>5, <2>6
<1>3. N \in G
  <2> HIDE DEF G
  <2>1. 0..N \subseteq G
    BY <1>1, <1>2, UpTo
  <2>2. QED
    BY <2>1
<1>4. QED
  BY <1>3

\* One history only.
LEMMA OpeningUnique ==
    ASSUME NEW items, NEW copy, NEW N \in Nat, NEW M \in Nat, N <= M,
           \A k \in 1..N : copy[k] = items[k],
           NEW f, Opening(f, items, N), NEW g, Opening(g, copy, M)
    PROVE  \A k \in 0..N : f[k] = g[k]
<1> DEFINE G == {k \in 0..N : f[k] = g[k]}
<1>1. 0 \in G
  <2>1. f[0] = g[0]
    BY Zenon DEF Opening
  <2>2. 0 \in 0..N
    OBVIOUS
  <2>3. QED
    BY <2>1, <2>2
<1>2. ASSUME NEW n \in 1..N, n - 1 \in G PROVE n \in G
  <2>1. n \in 1..M /\ n \in 0..N
    OBVIOUS
  <2>2. f[n] = OpenStep(f[n - 1], items[n]) /\ g[n] = OpenStep(g[n - 1], copy[n])
    BY <2>1 DEF Opening
  <2>3. QED
    BY <1>2, <2>1, <2>2
<1>3. 0..N \subseteq G
  <2> HIDE DEF G
  <2>1. QED
    BY <1>1, <1>2, UpTo
<1>4. QED
  BY <1>3

LEMMA OpenTreeUnfolds ==
    ASSUME NEW items, Len(items) \in Nat
    PROVE  \E f : Opening(f, items, Len(items)) /\ OpenTree(items) = f[Len(items)]
<1> DEFINE N == Len(items)
           Solves(f) == f = [n \in 0..N |->
                                IF n = 0
                                THEN [ok |-> TRUE, tree |-> NewTree]
                                ELSE IF f[n - 1].ok /\ AdmitsItem(f[n - 1].tree, items[n])
                                THEN [ok |-> TRUE, tree |-> AddItem(f[n - 1].tree, items[n])]
                                ELSE [ok |-> FALSE, tree |-> NewTree]]
           r == CHOOSE f : Solves(f)
<1>1. OpenTree(items) = r[N]
  BY DEF OpenTree, r, Solves
<1>2. PICK s : Opening(s, items, N)
  BY OpeningExists
<1>3. Solves(s)
  <2>1. ASSUME NEW n \in 0..N
        PROVE  s[n] = IF n = 0
                      THEN [ok |-> TRUE, tree |-> NewTree]
                      ELSE IF s[n - 1].ok /\ AdmitsItem(s[n - 1].tree, items[n])
                      THEN [ok |-> TRUE, tree |-> AddItem(s[n - 1].tree, items[n])]
                      ELSE [ok |-> FALSE, tree |-> NewTree]
    <3>1. CASE n = 0
      BY <1>2, <3>1 DEF Opening
    <3>2. CASE n # 0
      <4>1. n \in 1..N
        BY <3>2
      <4>2. s[n] = OpenStep(s[n - 1], items[n])
        BY <1>2, <4>1 DEF Opening
      <4>3. QED
        BY <4>2, <3>2 DEF OpenStep
    <3>3. QED
      BY <3>1, <3>2
  <2>2. s = [k \in 0..N |-> s[k]]
    BY <1>2 DEF Opening
  <2>3. QED
    BY <2>1, <2>2
<1>4. Solves(r)
  <2> HIDE DEF Solves
  <2>1. QED
    BY <1>3
<1>5. Opening(r, items, N)
  <2> HIDE DEF r
  <2>1. r = [k \in 0..N |-> r[k]]
    BY <1>4
  <2>2. r[0] = [ok |-> TRUE, tree |-> NewTree]
    BY <1>4
  <2>3. ASSUME NEW k \in 1..N PROVE r[k] = OpenStep(r[k - 1], items[k])
    <3>1. k \in 0..N /\ k # 0
      OBVIOUS
    <3>2. r[k] = IF k = 0
                 THEN [ok |-> TRUE, tree |-> NewTree]
                 ELSE IF r[k - 1].ok /\ AdmitsItem(r[k - 1].tree, items[k])
                 THEN [ok |-> TRUE, tree |-> AddItem(r[k - 1].tree, items[k])]
                 ELSE [ok |-> FALSE, tree |-> NewTree]
      BY <1>4, <3>1
    <3>3. QED
      BY <3>1, <3>2 DEF OpenStep
  <2>4. QED
    BY <2>1, <2>2, <2>3, Zenon DEF Opening
<1> HIDE DEF r, Solves, N
<1>6. QED
  BY <1>1, <1>5 DEF N

\* Replay of a log with one more item.
LEMMA OpenTreeAppend ==
    ASSUME NEW items \in Seq(TreeItems), NEW x \in TreeItems
    PROVE  OpenTree(Append(items, x)) = OpenStep(OpenTree(items), x)
<1> DEFINE N == Len(items)
           longer == Append(items, x)
<1>1. N \in Nat /\ Len(longer) = N + 1 /\ longer[N + 1] = x /\ \A k \in 1..N : longer[k] = items[k]
  OBVIOUS
<1> HIDE DEF longer, N
<1>2. PICK f : Opening(f, items, N) /\ OpenTree(items) = f[N]
  BY <1>1, OpenTreeUnfolds DEF N
<1>3. PICK g : Opening(g, longer, N + 1) /\ OpenTree(longer) = g[N + 1]
  BY <1>1, OpenTreeUnfolds
<1>4. f[N] = g[N]
  <2>1. N + 1 \in Nat /\ N <= N + 1 /\ N \in 0..N
    BY <1>1
  <2>2. \A k \in 0..N : f[k] = g[k]
    BY <1>1, <1>2, <1>3, <2>1, OpeningUnique
  <2>3. QED
    BY <2>1, <2>2
<1>5. g[N + 1] = OpenStep(g[N], x)
  <2>1. N + 1 \in 1..N + 1 /\ (N + 1) - 1 = N
    BY <1>1
  <2>2. QED
    BY <1>1, <1>3, <2>1 DEF Opening
<1>6. QED
  BY <1>2, <1>3, <1>4, <1>5 DEF longer

LeafOf(item) == IF item.claim # None THEN item.claim.id ELSE item.reference.id

LEMMA LeafNamesItem ==
    ASSUME NEW x \in TreeItems, NEW y \in TreeItems, LeafOf(x) = LeafOf(y)
    PROVE  x = y
<1>1. ASSUME NEW z \in TreeItems
      PROVE  \/ z.claim \in Claims /\ z.reference = None /\ LeafOf(z) = z.claim.id
             \/ z.claim = None /\ z.reference \in References /\ LeafOf(z) = z.reference.id
  BY ItemFacts DEF TreeItems, LeafOf
<1>2. \A a, b \in Claims \cup References : a.id = b.id => a = b
  BY ArtifactAssumption
<1>3. \A z \in TreeItems : z = [claim |-> z.claim, reference |-> z.reference]
  BY DEF TreeItems
<1>4. \A c \in Claims, r \in References : c.id # r.id
  BY <1>2, ArtifactAssumption
<1>5. x.claim = y.claim /\ x.reference = y.reference
  BY <1>1, <1>2, <1>4
<1>6. QED
  BY <1>3, <1>5

\* A log that replays chains its own leaves.
LEMMA OpenedHeads ==
    ASSUME NEW items \in Seq(TreeItems), NEW f, Opening(f, items, Len(items)),
           f[Len(items)].ok
    PROVE  Chained([k \in 0..Len(items) |-> f[k].tree.head],
                   [k \in 1..Len(items) |-> LeafOf(items[k])], Len(items))
<1> DEFINE N == Len(items)
           G == {j \in 0..N : f[N - j].ok}
<1>1. N \in Nat /\ \A k \in 1..N : items[k] \in TreeItems
  OBVIOUS
<1>2. \A k \in 1..N : f[k] = OpenStep(f[k - 1], items[k])
  BY DEF Opening
<1> HIDE DEF N
<1>3. 0 \in G
  BY <1>1 DEF N
<1>4. ASSUME NEW j \in 1..N, j - 1 \in G PROVE j \in G
  <2> DEFINE k == N - (j - 1)
  <2>1. k \in 1..N /\ k - 1 = N - j /\ j \in 0..N
    BY <1>1
  <2>2. f[k].ok
    BY <1>4
  <2> HIDE DEF k
  <2>3. f[k - 1].ok
    <3>1. OpenStep(f[k - 1], items[k]).ok
      BY <1>2, <2>1, <2>2
    <3>2. ASSUME NEW s, NEW x, OpenStep(s, x).ok, ~s.ok PROVE FALSE
      BY <3>2 DEF OpenStep
    <3>3. QED
      BY <3>1, <3>2
  <2>4. QED
    BY <2>1, <2>3
<1>5. 0..N \subseteq G
  <2> HIDE DEF G
  <2>1. QED
    BY <1>1, <1>3, <1>4, UpTo
<1>6. ASSUME NEW k \in 0..N PROVE f[k].ok
  <2>1. N - k \in 0..N /\ N - (N - k) = k
    BY <1>1
  <2>2. QED
    BY <1>5, <2>1
<1>7. ASSUME NEW k \in 1..N PROVE f[k].tree.head = Chain(f[k - 1].tree.head, LeafOf(items[k]))
  <2> DEFINE t == f[k - 1].tree
             x == items[k]
  <2>1. f[k].ok /\ f[k] = OpenStep(f[k - 1], items[k]) /\ items[k] \in TreeItems
    BY <1>1, <1>2, <1>6
  <2>2. f[k].tree = AddItem(t, x)
    BY <2>1 DEF OpenStep
  <2> HIDE DEF t
  <2>3. AddItem(t, x).head = Chain(t.head, LeafOf(x))
    BY DEF AddItem, AddClaim, AddReference, LeafOf
  <2>4. QED
    BY <2>2, <2>3 DEF t, x
<1>8. f[0].tree.head = <<>>
  BY DEF Opening, NewTree
<1> DEFINE p == [k \in 0..N |-> f[k].tree.head]
           a == [k \in 1..N |-> LeafOf(items[k])]
<1>9. p[0] = <<>>
  BY <1>1, <1>8
<1>10. ASSUME NEW k \in 1..N PROVE p[k] = Chain(p[k - 1], a[k])
  <2>1. k \in 0..N /\ k - 1 \in 0..N
    BY <1>1
  <2>2. QED
    BY <2>1, <1>7
<1>11. Chained(p, a, N)
  <2> HIDE DEF p, a
  <2>1. QED
    BY <1>9, <1>10 DEF Chained
<1>12. QED
  BY <1>11 DEF N

\* Two logs that replay to one head are one log.
LEMMA HeadNamesTree ==
    ASSUME NEW items \in Seq(TreeItems), NEW copy \in Seq(TreeItems),
           OpenTree(items).ok, OpenTree(copy).ok,
           OpenTree(copy).tree.head = OpenTree(items).tree.head
    PROVE  copy = items
<1> DEFINE N == Len(items)
           M == Len(copy)
<1>1. N \in Nat /\ M \in Nat
  OBVIOUS
<1>2. PICK f : Opening(f, items, N) /\ OpenTree(items) = f[N]
  BY <1>1, OpenTreeUnfolds
<1>3. PICK g : Opening(g, copy, M) /\ OpenTree(copy) = g[M]
  BY <1>1, OpenTreeUnfolds
<1> DEFINE p == [k \in 0..N |-> f[k].tree.head]
           a == [k \in 1..N |-> LeafOf(items[k])]
           q == [k \in 0..M |-> g[k].tree.head]
           b == [k \in 1..M |-> LeafOf(copy[k])]
<1>4. Chained(p, a, N) /\ Chained(q, b, M)
  BY <1>2, <1>3, OpenedHeads
<1>5. p[N] = q[M]
  BY <1>1, <1>2, <1>3
<1>6. N = M /\ \A k \in 1..N : a[k] = b[k]
  <2> HIDE DEF p, q, a, b, N, M
  <2>1. QED
    BY <1>1, <1>4, <1>5, ChainsAgree
<1>7. ASSUME NEW k \in 1..N PROVE items[k] = copy[k]
  <2>1. k \in 1..M /\ items[k] \in TreeItems /\ copy[k] \in TreeItems
    BY <1>6
  <2>2. LeafOf(items[k]) = LeafOf(copy[k])
    BY <1>6, <2>1
  <2>3. QED
    BY <2>1, <2>2, LeafNamesItem
<1>8. QED
  BY <1>6, <1>7

-----------------------------------------------------------------------------
(* Replay of the catalog's log. *)

CatalogStep(s, item) ==
    IF s.ok /\ AdmitsEntry(s.catalog, item)
    THEN [ok |-> TRUE, catalog |-> AddEntry(s.catalog, item)]
    ELSE [ok |-> FALSE, catalog |-> NewCatalog]

\* The states OpenCatalog goes through over the first n items.
CatalogOpening(f, items, n) ==
    /\ f = [k \in 0..n |-> f[k]]
    /\ f[0] = [ok |-> TRUE, catalog |-> NewCatalog]
    /\ \A k \in 1..n : f[k] = CatalogStep(f[k - 1], items[k])

LEMMA CatalogOpeningExists ==
    ASSUME NEW items, NEW N \in Nat
    PROVE  \E f : CatalogOpening(f, items, N)
<1> DEFINE G == {n \in 0..N : \E f : CatalogOpening(f, items, n)}
<1>1. 0 \in G
  <2> DEFINE g == [k \in 0..0 |-> [ok |-> TRUE, catalog |-> NewCatalog]]
  <2>1. g = [k \in 0..0 |-> g[k]] /\ g[0] = [ok |-> TRUE, catalog |-> NewCatalog]
    OBVIOUS
  <2> HIDE DEF g
  <2>2. CatalogOpening(g, items, 0)
    BY <2>1 DEF CatalogOpening
  <2>3. 0 \in 0..N
    OBVIOUS
  <2>4. QED
    BY <2>2, <2>3
<1>2. ASSUME NEW n \in 1..N, n - 1 \in G PROVE n \in G
  <2>1. PICK f : CatalogOpening(f, items, n - 1)
    BY <1>2
  <2> DEFINE last == CatalogStep(f[n - 1], items[n])
             g == [k \in 0..n |-> IF k = n THEN last ELSE f[k]]
  <2> HIDE DEF last
  <2>2. /\ g = [k \in 0..n |-> g[k]]
        /\ g[n] = last
        /\ \A k \in 0..n - 1 : g[k] = f[k]
    OBVIOUS
  <2> HIDE DEF g
  <2>3. g[0] = [ok |-> TRUE, catalog |-> NewCatalog]
    <3>1. 0 \in 0..n - 1
      OBVIOUS
    <3>2. QED
      BY <2>1, <2>2, <3>1 DEF CatalogOpening
  <2>4. ASSUME NEW k \in 1..n PROVE g[k] = CatalogStep(g[k - 1], items[k])
    <3>1. CASE k = n
      <4>1. n - 1 \in 0..n - 1
        OBVIOUS
      <4>2. QED
        BY <4>1, <3>1, <2>2 DEF last
    <3>2. CASE k # n
      <4>1. k \in 1..n - 1 /\ k - 1 \in 0..n - 1 /\ k \in 0..n - 1
        BY <3>2
      <4>2. f[k] = CatalogStep(f[k - 1], items[k])
        BY <2>1, <4>1 DEF CatalogOpening
      <4>3. QED
        BY <2>2, <4>1, <4>2
    <3>3. QED
      BY <3>1, <3>2
  <2>5. CatalogOpening(g, items, n)
    BY <2>2, <2>3, <2>4 DEF CatalogOpening
  <2>6. n \in 0..N
    OBVIOUS
  <2>7. QED
    BY <2>5, <2>6
<1>3. N \in G
  <2> HIDE DEF G
  <2>1. 0..N \subseteq G
    BY <1>1, <1>2, UpTo
  <2>2. QED
    BY <2>1
<1>4. QED
  BY <1>3

\* One history only.
LEMMA CatalogOpeningUnique ==
    ASSUME NEW items, NEW copy, NEW N \in Nat, NEW M \in Nat, N <= M,
           \A k \in 1..N : copy[k] = items[k],
           NEW f, CatalogOpening(f, items, N), NEW g, CatalogOpening(g, copy, M)
    PROVE  \A k \in 0..N : f[k] = g[k]
<1> DEFINE G == {k \in 0..N : f[k] = g[k]}
<1>1. 0 \in G
  <2>1. f[0] = g[0]
    BY Zenon DEF CatalogOpening
  <2>2. 0 \in 0..N
    OBVIOUS
  <2>3. QED
    BY <2>1, <2>2
<1>2. ASSUME NEW n \in 1..N, n - 1 \in G PROVE n \in G
  <2>1. n \in 1..M /\ n \in 0..N
    OBVIOUS
  <2>2. f[n] = CatalogStep(f[n - 1], items[n]) /\ g[n] = CatalogStep(g[n - 1], copy[n])
    BY <2>1 DEF CatalogOpening
  <2>3. QED
    BY <1>2, <2>1, <2>2
<1>3. 0..N \subseteq G
  <2> HIDE DEF G
  <2>1. QED
    BY <1>1, <1>2, UpTo
<1>4. QED
  BY <1>3

LEMMA OpenCatalogUnfolds ==
    ASSUME NEW items, Len(items) \in Nat
    PROVE  \E f : CatalogOpening(f, items, Len(items)) /\ OpenCatalog(items) = f[Len(items)]
<1> DEFINE N == Len(items)
           Solves(f) == f = [n \in 0..N |->
                                IF n = 0
                                THEN [ok |-> TRUE, catalog |-> NewCatalog]
                                ELSE IF f[n - 1].ok /\ AdmitsEntry(f[n - 1].catalog, items[n])
                                THEN [ok |-> TRUE, catalog |-> AddEntry(f[n - 1].catalog, items[n])]
                                ELSE [ok |-> FALSE, catalog |-> NewCatalog]]
           r == CHOOSE f : Solves(f)
<1>1. OpenCatalog(items) = r[N]
  BY DEF OpenCatalog, r, Solves
<1>2. PICK s : CatalogOpening(s, items, N)
  BY CatalogOpeningExists
<1>3. Solves(s)
  <2>1. ASSUME NEW n \in 0..N
        PROVE  s[n] = IF n = 0
                      THEN [ok |-> TRUE, catalog |-> NewCatalog]
                      ELSE IF s[n - 1].ok /\ AdmitsEntry(s[n - 1].catalog, items[n])
                      THEN [ok |-> TRUE, catalog |-> AddEntry(s[n - 1].catalog, items[n])]
                      ELSE [ok |-> FALSE, catalog |-> NewCatalog]
    <3>1. CASE n = 0
      BY <1>2, <3>1 DEF CatalogOpening
    <3>2. CASE n # 0
      <4>1. n \in 1..N
        BY <3>2
      <4>2. s[n] = CatalogStep(s[n - 1], items[n])
        BY <1>2, <4>1 DEF CatalogOpening
      <4>3. QED
        BY <4>2, <3>2 DEF CatalogStep
    <3>3. QED
      BY <3>1, <3>2
  <2>2. s = [k \in 0..N |-> s[k]]
    BY <1>2 DEF CatalogOpening
  <2>3. QED
    BY <2>1, <2>2
<1>4. Solves(r)
  <2> HIDE DEF Solves
  <2>1. QED
    BY <1>3
<1>5. CatalogOpening(r, items, N)
  <2> HIDE DEF r
  <2>1. r = [k \in 0..N |-> r[k]]
    BY <1>4
  <2>2. r[0] = [ok |-> TRUE, catalog |-> NewCatalog]
    BY <1>4
  <2>3. ASSUME NEW k \in 1..N PROVE r[k] = CatalogStep(r[k - 1], items[k])
    <3>1. k \in 0..N /\ k # 0
      OBVIOUS
    <3>2. r[k] = IF k = 0
                 THEN [ok |-> TRUE, catalog |-> NewCatalog]
                 ELSE IF r[k - 1].ok /\ AdmitsEntry(r[k - 1].catalog, items[k])
                 THEN [ok |-> TRUE, catalog |-> AddEntry(r[k - 1].catalog, items[k])]
                 ELSE [ok |-> FALSE, catalog |-> NewCatalog]
      BY <1>4, <3>1
    <3>3. QED
      BY <3>1, <3>2 DEF CatalogStep
  <2>4. QED
    BY <2>1, <2>2, <2>3, Zenon DEF CatalogOpening
<1> HIDE DEF r, Solves, N
<1>6. QED
  BY <1>1, <1>5 DEF N

\* Replay of a log with one more item.
LEMMA OpenCatalogAppend ==
    ASSUME NEW items \in Seq(CatalogItems), NEW x \in CatalogItems
    PROVE  OpenCatalog(Append(items, x)) = CatalogStep(OpenCatalog(items), x)
<1> DEFINE N == Len(items)
           longer == Append(items, x)
<1>1. N \in Nat /\ Len(longer) = N + 1 /\ longer[N + 1] = x /\ \A k \in 1..N : longer[k] = items[k]
  OBVIOUS
<1> HIDE DEF longer, N
<1>2. PICK f : CatalogOpening(f, items, N) /\ OpenCatalog(items) = f[N]
  BY <1>1, OpenCatalogUnfolds DEF N
<1>3. PICK g : CatalogOpening(g, longer, N + 1) /\ OpenCatalog(longer) = g[N + 1]
  BY <1>1, OpenCatalogUnfolds
<1>4. f[N] = g[N]
  <2>1. N + 1 \in Nat /\ N <= N + 1 /\ N \in 0..N
    BY <1>1
  <2>2. \A k \in 0..N : f[k] = g[k]
    BY <1>1, <1>2, <1>3, <2>1, CatalogOpeningUnique
  <2>3. QED
    BY <2>1, <2>2
<1>5. g[N + 1] = CatalogStep(g[N], x)
  <2>1. N + 1 \in 1..N + 1 /\ (N + 1) - 1 = N
    BY <1>1
  <2>2. QED
    BY <1>1, <1>3, <2>1 DEF CatalogOpening
<1>6. QED
  BY <1>2, <1>3, <1>4, <1>5 DEF longer

EntryLeaf(item) ==
    IF item.listing # None
    THEN <<item.listing.id>>
    ELSE <<item.sale.listing, item.sale.exchange, item.sale.at>>

LEMMA EntryFacts ==
    /\ \A l \in Listings : [listing |-> l, sale |-> None] \in CatalogItems
    /\ \A s \in Sales : [listing |-> None, sale |-> s] \in CatalogItems
    /\ None \notin Listings /\ None \notin Sales
BY ArtifactAssumption DEF CatalogItems

LEMMA LeafNamesEntry ==
    ASSUME NEW x \in CatalogItems, NEW y \in CatalogItems, EntryLeaf(x) = EntryLeaf(y)
    PROVE  x = y
<1>1. ASSUME NEW z \in CatalogItems
      PROVE  \/ z.listing \in Listings /\ z.sale = None /\ EntryLeaf(z) = <<z.listing.id>>
             \/ /\ z.listing = None /\ z.sale \in Sales
                /\ EntryLeaf(z) = <<z.sale.listing, z.sale.exchange, z.sale.at>>
  BY EntryFacts DEF CatalogItems, EntryLeaf
<1>2. \A z \in CatalogItems : z = [listing |-> z.listing, sale |-> z.sale]
  BY DEF CatalogItems
<1>3. \A l, m \in Listings : <<l.id>> = <<m.id>> => l = m
  BY ArtifactAssumption
<1>4. \A s, u \in Sales : <<s.listing, s.exchange, s.at>> = <<u.listing, u.exchange, u.at>> => s = u
  BY ArtifactAssumption
<1>5. \A l \in Listings, s \in Sales : <<l.id>> # <<s.listing, s.exchange, s.at>>
  OBVIOUS
<1>6. x.listing = y.listing /\ x.sale = y.sale
  BY <1>1, <1>3, <1>4, <1>5, Zenon
<1>7. QED
  BY <1>2, <1>6

\* A log that replays chains its own leaves.
LEMMA CatalogHeads ==
    ASSUME NEW items \in Seq(CatalogItems), NEW f, CatalogOpening(f, items, Len(items)),
           f[Len(items)].ok
    PROVE  Chained([k \in 0..Len(items) |-> f[k].catalog.head],
                   [k \in 1..Len(items) |-> EntryLeaf(items[k])], Len(items))
<1> DEFINE N == Len(items)
           G == {j \in 0..N : f[N - j].ok}
<1>1. N \in Nat /\ \A k \in 1..N : items[k] \in CatalogItems
  OBVIOUS
<1>2. \A k \in 1..N : f[k] = CatalogStep(f[k - 1], items[k])
  BY DEF CatalogOpening
<1> HIDE DEF N
<1>3. 0 \in G
  BY <1>1 DEF N
<1>4. ASSUME NEW j \in 1..N, j - 1 \in G PROVE j \in G
  <2> DEFINE k == N - (j - 1)
  <2>1. k \in 1..N /\ k - 1 = N - j /\ j \in 0..N
    BY <1>1
  <2>2. f[k].ok
    BY <1>4
  <2> HIDE DEF k
  <2>3. f[k - 1].ok
    <3>1. CatalogStep(f[k - 1], items[k]).ok
      BY <1>2, <2>1, <2>2
    <3>2. ASSUME NEW s, NEW x, CatalogStep(s, x).ok, ~s.ok PROVE FALSE
      BY <3>2 DEF CatalogStep
    <3>3. QED
      BY <3>1, <3>2
  <2>4. QED
    BY <2>1, <2>3
<1>5. 0..N \subseteq G
  <2> HIDE DEF G
  <2>1. QED
    BY <1>1, <1>3, <1>4, UpTo
<1>6. ASSUME NEW k \in 0..N PROVE f[k].ok
  <2>1. N - k \in 0..N /\ N - (N - k) = k
    BY <1>1
  <2>2. QED
    BY <1>5, <2>1
<1>7. ASSUME NEW k \in 1..N PROVE f[k].catalog.head = Chain(f[k - 1].catalog.head, EntryLeaf(items[k]))
  <2> DEFINE t == f[k - 1].catalog
             x == items[k]
  <2>1. f[k].ok /\ f[k] = CatalogStep(f[k - 1], items[k]) /\ items[k] \in CatalogItems
    BY <1>1, <1>2, <1>6
  <2>2. f[k].catalog = AddEntry(t, x)
    BY <2>1 DEF CatalogStep
  <2> HIDE DEF t
  <2>3. AddEntry(t, x).head = Chain(t.head, EntryLeaf(x))
    BY DEF AddEntry, AddListing, RecordSale, EntryLeaf
  <2>4. QED
    BY <2>2, <2>3 DEF t, x
<1>8. f[0].catalog.head = <<>>
  BY DEF CatalogOpening, NewCatalog
<1> DEFINE p == [k \in 0..N |-> f[k].catalog.head]
           a == [k \in 1..N |-> EntryLeaf(items[k])]
<1>9. p[0] = <<>>
  BY <1>1, <1>8
<1>10. ASSUME NEW k \in 1..N PROVE p[k] = Chain(p[k - 1], a[k])
  <2>1. k \in 0..N /\ k - 1 \in 0..N
    BY <1>1
  <2>2. QED
    BY <2>1, <1>7
<1>11. Chained(p, a, N)
  <2> HIDE DEF p, a
  <2>1. QED
    BY <1>9, <1>10 DEF Chained
<1>12. QED
  BY <1>11 DEF N

\* Two logs that replay to one head are one log.
LEMMA HeadNamesCatalog ==
    ASSUME NEW items \in Seq(CatalogItems), NEW copy \in Seq(CatalogItems),
           OpenCatalog(items).ok, OpenCatalog(copy).ok,
           OpenCatalog(copy).catalog.head = OpenCatalog(items).catalog.head
    PROVE  copy = items
<1> DEFINE N == Len(items)
           M == Len(copy)
<1>1. N \in Nat /\ M \in Nat
  OBVIOUS
<1>2. PICK f : CatalogOpening(f, items, N) /\ OpenCatalog(items) = f[N]
  BY <1>1, OpenCatalogUnfolds
<1>3. PICK g : CatalogOpening(g, copy, M) /\ OpenCatalog(copy) = g[M]
  BY <1>1, OpenCatalogUnfolds
<1> DEFINE p == [k \in 0..N |-> f[k].catalog.head]
           a == [k \in 1..N |-> EntryLeaf(items[k])]
           q == [k \in 0..M |-> g[k].catalog.head]
           b == [k \in 1..M |-> EntryLeaf(copy[k])]
<1>4. Chained(p, a, N) /\ Chained(q, b, M)
  BY <1>2, <1>3, CatalogHeads
<1>5. p[N] = q[M]
  BY <1>1, <1>2, <1>3
<1>6. N = M /\ \A k \in 1..N : a[k] = b[k]
  <2> HIDE DEF p, q, a, b, N, M
  <2>1. QED
    BY <1>1, <1>4, <1>5, ChainsAgree
<1>7. ASSUME NEW k \in 1..N PROVE items[k] = copy[k]
  <2>1. k \in 1..M /\ items[k] \in CatalogItems /\ copy[k] \in CatalogItems
    BY <1>6
  <2>2. EntryLeaf(items[k]) = EntryLeaf(copy[k])
    BY <1>6, <2>1
  <2>3. QED
    BY <2>1, <2>2, LeafNamesEntry
<1>8. QED
  BY <1>6, <1>7

\* Swapping, dropping, inserting and replacing items leaves a log of such items.
LEMMA AlteredIsALog ==
    ASSUME NEW items, NEW log \in Seq(items)
    PROVE  \A copy \in Altered(log, items) : copy \in Seq(items) /\ copy # log
<1>1. ASSUME NEW copy \in Reordered(log) PROVE copy \in Seq(items)
  <2>1. PICK i, j \in DOMAIN log : copy = [log EXCEPT ![i] = log[j], ![j] = log[i]]
    BY DEF Reordered
  <2>2. log[i] \in items /\ log[j] \in items
    OBVIOUS
  <2>3. [log EXCEPT ![i] = log[j]] \in Seq(items)
    BY <2>2
  <2>4. QED
    BY <2>1, <2>2, <2>3
<1>2. ASSUME NEW i \in DOMAIN log PROVE RemoveAt(log, i) \in Seq(items)
  <2>1. i \in 1..Len(log) /\ Len(log) \in Nat
    OBVIOUS
  <2>2. SubSeq(log, 1, i - 1) \in Seq(items)
    BY <2>1
  <2>3. SubSeq(log, i + 1, Len(log)) \in Seq(items)
    BY <2>1
  <2>4. QED
    BY <2>2, <2>3 DEF RemoveAt
<1>3. ASSUME NEW i \in DOMAIN log, NEW x \in items PROVE ReplaceAt(log, i, x) \in Seq(items)
  BY DEF ReplaceAt
<1>3a. ASSUME NEW i \in 1..(Len(log) + 1), NEW x \in items PROVE InsertAt(log, i, x) \in Seq(items)
  <2>1. SubSeq(log, 1, i - 1) \in Seq(items)
    OBVIOUS
  <2>2. SubSeq(log, i, Len(log)) \in Seq(items)
    OBVIOUS
  <2>3. <<x>> \in Seq(items)
    OBVIOUS
  <2>4. QED
    BY <2>1, <2>2, <2>3 DEF InsertAt
<1>4. ASSUME NEW copy \in Altered(log, items) PROVE copy \in Seq(items) /\ copy # log
  <2> DEFINE all == UNION {Reordered(log),
                           {RemoveAt(log, i) : i \in DOMAIN log},
                           {InsertAt(log, i, x) : i \in 1..(Len(log) + 1), x \in items},
                           {ReplaceAt(log, i, x) : i \in DOMAIN log, x \in items}}
  <2>1. copy # log
    <3>1. copy \in all \ {log}
      BY DEF Altered
    <3> HIDE DEF all
    <3>2. QED
      BY <3>1
  <2>2. \/ copy \in Reordered(log)
        \/ copy \in {RemoveAt(log, i) : i \in DOMAIN log}
        \/ copy \in {InsertAt(log, i, x) : i \in 1..(Len(log) + 1), x \in items}
        \/ copy \in {ReplaceAt(log, i, x) : i \in DOMAIN log, x \in items}
    BY DEF Altered
  <2>3. CASE copy \in {RemoveAt(log, i) : i \in DOMAIN log}
    BY <2>1, <2>3, <1>2
  <2>4. CASE copy \in {ReplaceAt(log, i, x) : i \in DOMAIN log, x \in items}
    BY <2>1, <2>4, <1>3
  <2>5. CASE copy \in {InsertAt(log, i, x) : i \in 1..(Len(log) + 1), x \in items}
    BY <2>1, <2>5, <1>3a
  <2>6. QED
    BY <2>1, <2>2, <2>3, <2>4, <2>5, <1>1
<1>5. QED
  BY <1>4

-----------------------------------------------------------------------------
(* The shelves. *)

Shelved(item, cat) == item.listing # None /\ item.listing.category = cat

LEMMA ByCategoryUnfolds ==
    ASSUME NEW c, NEW cat, c.log \in Seq(CatalogItems)
    PROVE  \E f \in [0..Len(c.log) -> Seq(CatalogItems)] :
              /\ f[0] = <<>>
              /\ \A n \in 1..Len(c.log) :
                    f[n] = IF Shelved(c.log[n], cat) THEN Append(f[n - 1], c.log[n]) ELSE f[n - 1]
              /\ ByCategory(c, cat) = f[Len(c.log)]
<1> DEFINE N == Len(c.log)
           S == Seq(CatalogItems)
           Solves(f) == f = [n \in 0..N |->
                                IF n = 0
                                THEN <<>>
                                ELSE IF c.log[n].listing # None /\ c.log[n].listing.category = cat
                                THEN Append(f[n - 1], c.log[n])
                                ELSE f[n - 1]]
           r == CHOOSE f : Solves(f)
           F == [n \in 1..N |-> [x \in S |->
                    IF Shelved(c.log[n], cat) THEN Append(x, c.log[n]) ELSE x]]
<1>1. N \in Nat /\ \A n \in 1..N : c.log[n] \in CatalogItems
  OBVIOUS
<1>2. ByCategory(c, cat) = r[N]
  BY DEF ByCategory, r, Solves
<1>3. F \in StepsIn(S, N)
  BY <1>1 DEF StepsIn
<1>4. PICK s : Iterates(s, <<>>, F, S, N)
  <2>1. <<>> \in S
    OBVIOUS
  <2> HIDE DEF F, S, N
  <2>2. QED
    BY <1>1, <1>3, <2>1, Iterated
<1>5. ASSUME NEW n \in 1..N
      PROVE  s[n] = IF Shelved(c.log[n], cat) THEN Append(s[n - 1], c.log[n]) ELSE s[n - 1]
  <2>1. n - 1 \in 0..N
    BY <1>1
  <2>2. s[n - 1] \in S /\ s[n] = F[n][s[n - 1]]
    BY <2>1, <1>4 DEF Iterates
  <2>3. QED
    BY <2>2
<1>6. s \in [0..N -> S] /\ s[0] = <<>>
  BY <1>4 DEF Iterates
<1>7. Solves(s)
  <2>1. ASSUME NEW n \in 0..N
        PROVE  s[n] = IF n = 0
                      THEN <<>>
                      ELSE IF c.log[n].listing # None /\ c.log[n].listing.category = cat
                      THEN Append(s[n - 1], c.log[n])
                      ELSE s[n - 1]
    <3>1. CASE n = 0
      BY <1>6, <3>1
    <3>2. CASE n # 0
      <4>1. n \in 1..N
        BY <3>2, <1>1
      <4>2. QED
        BY <4>1, <3>2, <1>5 DEF Shelved
    <3>3. QED
      BY <3>1, <3>2
  <2>2. QED
    BY <1>6, <2>1
<1>8. Solves(r)
  <2> HIDE DEF Solves
  <2>1. QED
    BY <1>7
<1>9. \A n \in 0..N : r[n] = s[n]
  <2> DEFINE G == {n \in 0..N : r[n] = s[n]}
  <2>1. ASSUME NEW n \in 0..N
        PROVE  r[n] = IF n = 0
                      THEN <<>>
                      ELSE IF c.log[n].listing # None /\ c.log[n].listing.category = cat
                      THEN Append(r[n - 1], c.log[n])
                      ELSE r[n - 1]
    <3> HIDE DEF r
    <3>1. QED
      BY <1>8
  <2> HIDE DEF r, Solves, N, F, S
  <2>2. 0 \in G
    <3>1. 0 \in 0..N
      BY <1>1
    <3>2. QED
      BY <3>1, <2>1, <1>6
  <2>3. ASSUME NEW n \in 1..N, n - 1 \in G PROVE n \in G
    <3>1. n \in 0..N /\ n # 0
      BY <1>1
    <3>2. r[n] = IF Shelved(c.log[n], cat) THEN Append(r[n - 1], c.log[n]) ELSE r[n - 1]
      BY <2>1, <3>1 DEF Shelved
    <3>3. QED
      BY <2>3, <3>1, <3>2, <1>5
  <2>4. 0..N \subseteq G
    <3> HIDE DEF G
    <3>1. QED
      BY <1>1, <2>2, <2>3, UpTo
  <2>5. QED
    BY <2>4
<1>10. ByCategory(c, cat) = s[N]
  <2> HIDE DEF r, N, Solves, F, S
  <2>1. N \in 0..N
    BY <1>1
  <2>2. QED
    BY <1>2, <1>9, <2>1
<1> HIDE DEF r, Solves, F
<1>11. QED
  BY <1>5, <1>6, <1>10

ListingsIn(log) == {log[i].listing : i \in {i \in DOMAIN log : log[i].listing # None}}

\* A catalog whose listings and sales are those of its log, each listing once.
CatalogOK(c) ==
    /\ c.log \in Seq(CatalogItems)
    /\ c.listings = ListingsIn(c.log)
    /\ c.sales = {SaleKey(s) : s \in SalesIn(c.log)}
    /\ IsFiniteSet(c.sales)
    /\ \A i, j \in DOMAIN c.log :
          c.log[i].listing # None /\ c.log[j].listing # None
              /\ c.log[i].listing.id = c.log[j].listing.id => i = j

LEMMA AppendFacts ==
    ASSUME NEW T, NEW log \in Seq(T), NEW x \in T
    PROVE  /\ Len(log) \in Nat /\ DOMAIN log = 1..Len(log)
           /\ DOMAIN Append(log, x) = 1..Len(log) + 1
           /\ Append(log, x)[Len(log) + 1] = x
           /\ \A i \in 1..Len(log) : Append(log, x)[i] = log[i]
           /\ Append(log, x) \in Seq(T)
           /\ \A i \in DOMAIN Append(log, x) : i \in DOMAIN log \/ i = Len(log) + 1
OBVIOUS

LEMMA EntriesAppend ==
    ASSUME NEW log \in Seq(CatalogItems), NEW x \in CatalogItems
    PROVE  /\ ListingsIn(Append(log, x))
                  = ListingsIn(log) \cup (IF x.listing # None THEN {x.listing} ELSE {})
           /\ SalesIn(Append(log, x))
                  = SalesIn(log) \cup (IF x.sale # None THEN {x.sale} ELSE {})
<1> DEFINE new == Append(log, x)
           n == Len(log)
<1>1. /\ n \in Nat /\ DOMAIN log = 1..n /\ DOMAIN new = 1..n + 1
      /\ new[n + 1] = x /\ \A i \in 1..n : new[i] = log[i]
  BY AppendFacts
<1> HIDE DEF new, n
<1>2. \A i \in DOMAIN new : i \in DOMAIN log \/ i = n + 1
  BY <1>1
<1>3. n + 1 \in DOMAIN new /\ \A i \in DOMAIN log : i \in DOMAIN new
  BY <1>1
<1>4. ListingsIn(new) = ListingsIn(log) \cup (IF x.listing # None THEN {x.listing} ELSE {})
  BY <1>1, <1>2, <1>3 DEF ListingsIn
<1>5. SalesIn(new) = SalesIn(log) \cup (IF x.sale # None THEN {x.sale} ELSE {})
  BY <1>1, <1>2, <1>3 DEF SalesIn
<1>6. QED
  BY <1>4, <1>5 DEF new

LEMMA ListingKeepsCatalog ==
    ASSUME NEW c, CatalogOK(c), NEW l \in Listings, AdmitsListing(c, l)
    PROVE  CatalogOK(AddListing(c, l))
<1> DEFINE d == AddListing(c, l)
           x == [listing |-> l, sale |-> None]
           n == Len(c.log)
<1>1. /\ d.listings = c.listings \cup {l} /\ d.sales = c.sales /\ d.log = Append(c.log, x)
  BY DEF AddListing
<1>2. x \in CatalogItems /\ x.listing = l /\ x.sale = None /\ l # None
  BY EntryFacts
<1> HIDE DEF d, x
<1>3. c.log \in Seq(CatalogItems)
  BY DEF CatalogOK
<1>4. /\ n \in Nat /\ DOMAIN c.log = 1..n
      /\ d.log[n + 1] = x /\ \A i \in 1..n : d.log[i] = c.log[i]
      /\ d.log \in Seq(CatalogItems)
      /\ \A i \in DOMAIN d.log : i \in DOMAIN c.log \/ i = n + 1
  BY <1>1, <1>2, <1>3, AppendFacts
<1>5. d.listings = ListingsIn(d.log) /\ SalesIn(d.log) = SalesIn(c.log)
  BY <1>1, <1>2, <1>3, EntriesAppend DEF CatalogOK
<1> HIDE DEF n
<1>6. ASSUME NEW i \in DOMAIN c.log, c.log[i].listing # None
      PROVE  c.log[i].listing.id # l.id
  <2>1. c.log[i].listing \in c.listings
    BY <1>6 DEF CatalogOK, ListingsIn
  <2>2. QED
    BY <2>1 DEF AdmitsListing
<1>7. ASSUME NEW i \in DOMAIN d.log, NEW j \in DOMAIN d.log,
             d.log[i].listing # None, d.log[j].listing # None,
             d.log[i].listing.id = d.log[j].listing.id
      PROVE  i = j
  <2>1. CASE i \in DOMAIN c.log /\ j \in DOMAIN c.log
    BY <1>4, <1>7, <2>1 DEF CatalogOK
  <2>2. CASE i \in DOMAIN c.log /\ j = n + 1
    BY <1>2, <1>4, <1>6, <1>7, <2>2
  <2>3. CASE i = n + 1 /\ j \in DOMAIN c.log
    BY <1>2, <1>4, <1>6, <1>7, <2>3
  <2>4. QED
    BY <1>4, <2>1, <2>2, <2>3
<1>8. d.sales = {SaleKey(s) : s \in SalesIn(d.log)} /\ IsFiniteSet(d.sales)
  BY <1>1, <1>5 DEF CatalogOK
<1>9. CatalogOK(d)
  BY <1>4, <1>5, <1>7, <1>8 DEF CatalogOK
<1>10. QED
  BY <1>9 DEF d

LEMMA SaleKeepsCatalog ==
    ASSUME NEW c, CatalogOK(c), NEW u \in Sales
    PROVE  CatalogOK(RecordSale(c, u))
<1> DEFINE d == RecordSale(c, u)
           x == [listing |-> None, sale |-> u]
           n == Len(c.log)
<1>1. /\ d.listings = c.listings /\ d.sales = c.sales \cup {SaleKey(u)} /\ d.log = Append(c.log, x)
  BY DEF RecordSale
<1>2. x \in CatalogItems /\ x.listing = None /\ x.sale = u /\ u # None
  BY EntryFacts
<1> HIDE DEF d, x
<1>3. c.log \in Seq(CatalogItems)
  BY DEF CatalogOK
<1>4. /\ n \in Nat /\ DOMAIN c.log = 1..n
      /\ d.log[n + 1] = x /\ \A i \in 1..n : d.log[i] = c.log[i]
      /\ d.log \in Seq(CatalogItems)
      /\ \A i \in DOMAIN d.log : i \in DOMAIN c.log \/ i = n + 1
  BY <1>1, <1>2, <1>3, AppendFacts
<1>5. d.listings = ListingsIn(d.log) /\ SalesIn(d.log) = SalesIn(c.log) \cup {u}
  BY <1>1, <1>2, <1>3, EntriesAppend DEF CatalogOK
<1> HIDE DEF n
<1>6. \A i \in DOMAIN d.log : d.log[i].listing # None => i \in DOMAIN c.log /\ d.log[i] = c.log[i]
  BY <1>2, <1>4
<1>7. \A i, j \in DOMAIN d.log :
          d.log[i].listing # None /\ d.log[j].listing # None
              /\ d.log[i].listing.id = d.log[j].listing.id => i = j
  BY <1>6 DEF CatalogOK
<1>8. d.sales = {SaleKey(s) : s \in SalesIn(d.log)}
  BY <1>1, <1>5 DEF CatalogOK
<1>9. IsFiniteSet(d.sales)
  <2>1. IsFiniteSet(c.sales)
    BY DEF CatalogOK
  <2>2. IsFiniteSet(c.sales \cup {SaleKey(u)})
    BY <2>1, FS_AddElement
  <2>3. QED
    BY <2>2, <1>1
<1>10. CatalogOK(d)
  BY <1>4, <1>5, <1>7, <1>8, <1>9 DEF CatalogOK
<1>11. QED
  BY <1>10 DEF d

\* A shelf holds each listing of its category, once.
LEMMA ShelvedOnce ==
    ASSUME NEW c, CatalogOK(c), NEW cat
    PROVE  /\ ByCategory(c, cat) \in Seq(CatalogItems)
           /\ \A l \in c.listings : l.category = cat =>
                 \E i \in DOMAIN ByCategory(c, cat) : ByCategory(c, cat)[i].listing.id = l.id
           /\ \A i, j \in DOMAIN ByCategory(c, cat) :
                 ByCategory(c, cat)[i].listing.id = ByCategory(c, cat)[j].listing.id => i = j
<1> DEFINE N == Len(c.log)
           log == c.log
<1>1. log \in Seq(CatalogItems) /\ N \in Nat /\ DOMAIN log = 1..N /\ \A n \in 1..N : log[n] \in CatalogItems
  BY DEF CatalogOK
<1>2. PICK f \in [0..N -> Seq(CatalogItems)] :
          /\ f[0] = <<>>
          /\ \A n \in 1..N :
                f[n] = IF Shelved(log[n], cat) THEN Append(f[n - 1], log[n]) ELSE f[n - 1]
          /\ ByCategory(c, cat) = f[N]
  BY <1>1, ByCategoryUnfolds
<1> HIDE DEF log, N
<1> DEFINE Drawn(s, n) == \A i \in DOMAIN s : \E j \in 1..n : Shelved(log[j], cat) /\ s[i] = log[j]
           Full(s, n) == \A j \in 1..n : Shelved(log[j], cat) => \E i \in DOMAIN s : s[i] = log[j]
           Once(s) == \A i, j \in DOMAIN s : s[i].listing.id = s[j].listing.id => i = j
           G == {n \in 0..N : Drawn(f[n], n) /\ Full(f[n], n) /\ Once(f[n])}
<1>3. 0 \in G
  BY <1>1, <1>2
<1>4. ASSUME NEW n \in 1..N, n - 1 \in G PROVE n \in G
  <2> DEFINE s == f[n - 1]
             x == log[n]
  <2>1. n - 1 \in 0..N /\ n \in 0..N /\ s \in Seq(CatalogItems) /\ x \in CatalogItems
    BY <1>1
  <2>2. Drawn(s, n - 1) /\ Full(s, n - 1) /\ Once(s)
    BY <1>4
  <2>3. f[n] = IF Shelved(x, cat) THEN Append(s, x) ELSE s
    BY <1>2
  <2>4. \A j \in 1..n : j \in 1..n - 1 \/ j = n
    BY <1>1
  <2>5. \A j \in 1..n - 1 : j \in 1..n
    BY <1>1
  <2>6. CASE ~Shelved(x, cat)
    <3>1. f[n] = s
      BY <2>3, <2>6
    <3>2. Drawn(s, n)
      BY <2>2, <2>5
    <3>3. Full(s, n)
      BY <2>2, <2>4, <2>6
    <3>4. Drawn(f[n], n) /\ Full(f[n], n) /\ Once(f[n])
      <4> HIDE DEF Drawn, Full, Once, s
      <4>1. QED
        BY <3>1, <3>2, <3>3, <2>2
    <3>5. QED
      BY <3>4, <2>1
  <2>7. CASE Shelved(x, cat)
    <3> DEFINE r == Append(s, x)
               m == Len(s)
    <3>1. f[n] = r
      BY <2>3, <2>7
    <3>2. /\ m \in Nat /\ DOMAIN s = 1..m /\ DOMAIN r = 1..m + 1 /\ r[m + 1] = x
          /\ \A i \in 1..m : r[i] = s[i]
          /\ \A i \in DOMAIN r : i \in DOMAIN s \/ i = m + 1
      BY <2>1, AppendFacts
    <3> HIDE DEF r, m
    <3>3. n \in 1..n
      BY <1>1
    <3>4. Drawn(r, n)
      <4>1. SUFFICES ASSUME NEW i \in DOMAIN r
                     PROVE  \E j \in 1..n : Shelved(log[j], cat) /\ r[i] = log[j]
        OBVIOUS
      <4>2. CASE i = m + 1
        BY <4>2, <3>2, <3>3, <2>7
      <4>3. CASE i \in DOMAIN s
        <5>1. PICK j \in 1..n - 1 : Shelved(log[j], cat) /\ s[i] = log[j]
          BY <2>2, <4>3
        <5>2. QED
          BY <5>1, <2>5, <3>2, <4>3
      <4>4. QED
        BY <3>2, <4>2, <4>3
    <3>5. Full(r, n)
      <4>1. SUFFICES ASSUME NEW j \in 1..n, Shelved(log[j], cat)
                     PROVE  \E i \in DOMAIN r : r[i] = log[j]
        OBVIOUS
      <4>2. CASE j = n
        <5>1. m + 1 \in DOMAIN r
          BY <3>2
        <5>2. QED
          BY <5>1, <4>2, <3>2
      <4>3. CASE j \in 1..n - 1
        <5>1. PICK i \in DOMAIN s : s[i] = log[j]
          BY <2>2, <4>1, <4>3
        <5>2. i \in DOMAIN r /\ r[i] = log[j]
          BY <5>1, <3>2
        <5>3. QED
          BY <5>2
      <4>4. QED
        BY <2>4, <4>2, <4>3
    <3>6. ASSUME NEW i \in DOMAIN s PROVE s[i].listing.id # x.listing.id
      <4>1. PICK j \in 1..n - 1 : Shelved(log[j], cat) /\ s[i] = log[j]
        BY <2>2
      <4>2. j \in DOMAIN log /\ n \in DOMAIN log /\ j # n
        BY <1>1
      <4>3. log[j].listing # None /\ log[n].listing # None
        BY <4>1, <2>7 DEF Shelved
      <4>4. \A k, l \in DOMAIN log :
                log[k].listing # None /\ log[l].listing # None
                    /\ log[k].listing.id = log[l].listing.id => k = l
        BY DEF CatalogOK, log
      <4>5. QED
        BY <4>1, <4>2, <4>3, <4>4
    <3>7. Once(r)
      <4>1. SUFFICES ASSUME NEW i \in DOMAIN r, NEW j \in DOMAIN r, r[i].listing.id = r[j].listing.id
                     PROVE  i = j
        OBVIOUS
      <4>2. CASE i \in DOMAIN s /\ j \in DOMAIN s
        <5>1. r[i] = s[i] /\ r[j] = s[j]
          BY <4>2, <3>2
        <5>2. s[i].listing.id = s[j].listing.id
          BY <4>1, <5>1
        <5> HIDE DEF s
        <5>3. QED
          BY <4>2, <5>2, <2>2
      <4>3. CASE i \in DOMAIN s /\ j = m + 1
        BY <4>1, <4>3, <3>2, <3>6
      <4>4. CASE i = m + 1 /\ j \in DOMAIN s
        BY <4>1, <4>4, <3>2, <3>6
      <4>5. QED
        BY <3>2, <4>2, <4>3, <4>4
    <3>8. QED
      BY <3>1, <3>4, <3>5, <3>7, <2>1
  <2>8. QED
    BY <2>6, <2>7
<1>5. N \in G
  <2> HIDE DEF G
  <2>1. 0..N \subseteq G
    BY <1>1, <1>3, <1>4, UpTo
  <2>2. QED
    BY <1>1, <2>1
<1>6. ASSUME NEW l \in c.listings, l.category = cat
      PROVE  \E i \in DOMAIN f[N] : f[N][i].listing.id = l.id
  <2>1. PICK j \in DOMAIN log : log[j].listing # None /\ log[j].listing = l
    BY DEF CatalogOK, ListingsIn, log
  <2>2. j \in 1..N /\ Shelved(log[j], cat)
    BY <1>1, <1>6, <2>1 DEF Shelved
  <2>3. PICK i \in DOMAIN f[N] : f[N][i] = log[j]
    BY <1>5, <2>2
  <2>4. QED
    BY <2>1, <2>3
<1>7. f[N] \in Seq(CatalogItems)
  BY <1>1, <1>2
<1>8. Once(f[N])
  BY <1>5
<1>9. QED
  BY <1>2, <1>6, <1>7, <1>8

Keys(c, id) == {k \in c.sales : k[1] = id}
ExchangesOf(c, id) == {s.exchange : s \in {s \in SalesIn(c.log) : s.listing = id}}

\* The sales counted of a listing are its distinct exchanges.
LEMMA SalesCounted ==
    ASSUME NEW c, CatalogOK(c), NEW id
    PROVE  Cardinality(Keys(c, id)) = Cardinality(ExchangesOf(c, id))
<1> USE DEF Keys, ExchangesOf
<1> DEFINE K == Keys(c, id)
           X == ExchangesOf(c, id)
           g == [k \in K |-> k[2]]
<1>1. IsFiniteSet(K)
  <2>1. IsFiniteSet(c.sales) /\ K \in SUBSET c.sales
    BY DEF CatalogOK
  <2>2. QED
    BY <2>1, FS_Subset
<1>2. c.sales = {SaleKey(s) : s \in SalesIn(c.log)}
  BY DEF CatalogOK
<1>3. ASSUME NEW k \in K
      PROVE  \E s \in SalesIn(c.log) : s.listing = id /\ k = <<id, s.exchange>> /\ k[2] = s.exchange
  <2>1. k \in c.sales /\ k[1] = id
    OBVIOUS
  <2>2. PICK s \in SalesIn(c.log) : k = <<s.listing, s.exchange>>
    BY <1>2, <2>1 DEF SaleKey
  <2>3. QED
    BY <2>1, <2>2
<1>4. ASSUME NEW s \in SalesIn(c.log), s.listing = id
      PROVE  \E k \in K : k[2] = s.exchange
  <2>1. SaleKey(s) \in c.sales
    BY <1>2
  <2>2. SaleKey(s)[1] = id /\ SaleKey(s)[2] = s.exchange
    BY <1>4 DEF SaleKey
  <2>3. QED
    BY <2>1, <2>2
<1>5. \A k \in K : k[2] \in X /\ k = <<id, k[2]>>
  BY <1>3
<1>6. \A e \in X : \E k \in K : k[2] = e
  BY <1>4
<1> HIDE DEF K, X
<1>7. g \in Bijection(K, X)
  <2>1. g \in [K -> X]
    BY <1>5
  <2>2. \A e \in X : \E k \in K : g[k] = e
    BY <1>6
  <2>3. ASSUME NEW k \in K, NEW m \in K, g[k] = g[m] PROVE k = m
    <3>1. k[2] = m[2]
      BY <2>3
    <3>2. QED
      BY <3>1, <1>5, Zenon
  <2> HIDE DEF g
  <2>4. QED
    BY <2>1, <2>2, <2>3 DEF Bijection, Injection, Surjection, IsInjective
<1>8. QED
  BY <1>1, <1>7, FS_Bijection DEF ExistsBijection, K, X

-----------------------------------------------------------------------------
(* The weight of a claim. *)

Asserters(log, id, k) ==
    {log[i].reference.asserter :
        i \in {i \in DOMAIN log : /\ log[i].reference # None
                                 /\ log[i].reference.kind = k
                                 /\ log[i].reference.to = id}}

LEMMA WeightIsAsserters ==
    ASSUME NEW t, NEW id, NEW k \in RefKinds
    PROVE  CitationWeight(t, id)[k] = Cardinality(Asserters(t.log, id, k))
BY DEF CitationWeight, Asserters

LEMMA AssertersFinite ==
    ASSUME NEW log \in Seq(TreeItems), NEW id, NEW k
    PROVE  IsFiniteSet(Asserters(log, id, k))
<1> DEFINE D == {i \in DOMAIN log : /\ log[i].reference # None
                                   /\ log[i].reference.kind = k
                                   /\ log[i].reference.to = id}
           g == [i \in D |-> log[i].reference.asserter]
<1>1. IsFiniteSet(1..Len(log)) /\ D \in SUBSET (1..Len(log))
  BY FS_Interval
<1>2. IsFiniteSet(D)
  BY <1>1, FS_Subset
<1>3. Asserters(log, id, k) = {log[i].reference.asserter : i \in D}
  BY DEF Asserters
<1> HIDE DEF D
<1>4. g \in Surjection(D, Asserters(log, id, k))
  BY <1>3 DEF Surjection
<1>5. QED
  BY <1>2, <1>4, FS_Surjection

LEMMA AssertersAppend ==
    ASSUME NEW log \in Seq(TreeItems), NEW x \in TreeItems, NEW id, NEW k
    PROVE  Asserters(Append(log, x), id, k)
               = Asserters(log, id, k) \cup
                     (IF x.reference # None /\ x.reference.kind = k /\ x.reference.to = id
                      THEN {x.reference.asserter} ELSE {})
<1> DEFINE new == Append(log, x)
           n == Len(log)
<1>1. /\ n \in Nat /\ DOMAIN log = 1..n /\ DOMAIN new = 1..n + 1
      /\ new[n + 1] = x /\ \A i \in 1..n : new[i] = log[i]
  BY AppendFacts
<1> HIDE DEF new, n
<1>2. \A i \in DOMAIN new : i \in DOMAIN log \/ i = n + 1
  BY <1>1
<1>3. n + 1 \in DOMAIN new /\ \A i \in DOMAIN log : i \in DOMAIN new
  BY <1>1
<1>4. QED
  BY <1>1, <1>2, <1>3 DEF Asserters, new

-----------------------------------------------------------------------------
(* The inductive invariant. *)

Replays ==
    /\ OpenTree(tree.log) = [ok |-> TRUE, tree |-> tree]
    /\ OpenCatalog(catalog.log) = [ok |-> TRUE, catalog |-> catalog]

\* The manifest of every claim is the narrative its claimant signed.
ManifestOK ==
    \A c \in tree.claims : c.id \in DOMAIN manifest /\ manifest[c.id] = c.narrative

\* Behind each listing are its maker, a member, and the maker's specification.
Specified ==
    \A l \in catalog.listings :
        /\ l.maker \in members
        /\ \E c \in tree.claims : c.id = l.spec /\ c.kind = "product_spec" /\ c.claimant = l.maker

IInv ==
    /\ TreeOK(tree)
    /\ Acyclic(tree)
    /\ CatalogOK(catalog)
    /\ Replays
    /\ ManifestOK
    /\ Specified

LEMMA InitIInv == Init => IInv
<1> SUFFICES ASSUME Init PROVE IInv
  OBVIOUS
<1>1. tree = NewTree /\ catalog = NewCatalog
  BY DEF Init
<1>2. /\ tree.claims = {} /\ tree.refs = {} /\ tree.log = <<>>
      /\ catalog.listings = {} /\ catalog.sales = {} /\ catalog.log = <<>>
  BY <1>1 DEF NewTree, NewCatalog
<1>3. TreeOK(tree)
  <2>1. ReferencesIn(<<>>) = {} /\ <<>> \in Seq(TreeItems)
    BY DEF ReferencesIn
  <2>2. QED
    BY <1>2, <2>1, FS_EmptySet DEF TreeOK
<1>4. Acyclic(tree)
  BY <1>2 DEF Acyclic, Ids
<1>5. CatalogOK(catalog)
  <2>1. ListingsIn(<<>>) = {} /\ SalesIn(<<>>) = {} /\ <<>> \in Seq(CatalogItems)
    BY DEF ListingsIn, SalesIn
  <2>2. QED
    BY <1>2, <2>1, FS_EmptySet DEF CatalogOK
<1>6. Replays
  <2>1. Len(<<>>) = 0 /\ Len(<<>>) \in Nat
    OBVIOUS
  <2>2. OpenTree(<<>>) = [ok |-> TRUE, tree |-> NewTree]
    <3>1. PICK f : Opening(f, <<>>, 0) /\ OpenTree(<<>>) = f[0]
      BY <2>1, OpenTreeUnfolds
    <3>2. QED
      BY <3>1, Zenon DEF Opening
  <2>3. OpenCatalog(<<>>) = [ok |-> TRUE, catalog |-> NewCatalog]
    <3>1. PICK f : CatalogOpening(f, <<>>, 0) /\ OpenCatalog(<<>>) = f[0]
      BY <2>1, OpenCatalogUnfolds
    <3>2. QED
      BY <3>1, Zenon DEF CatalogOpening
  <2>4. QED
    BY <1>1, <1>2, <2>2, <2>3 DEF Replays
<1>7. ManifestOK /\ Specified
  BY <1>2 DEF ManifestOK, Specified
<1>8. QED
  BY <1>3, <1>4, <1>5, <1>6, <1>7 DEF IInv

\* A step that adds an admitted item replays to the tree it leaves.
LEMMA TreeReplays ==
    ASSUME NEW t, TreeOK(t), OpenTree(t.log) = [ok |-> TRUE, tree |-> t]
    PROVE  /\ \A c \in Claims : AdmitsClaim(t, c) =>
                 OpenTree(AddClaim(t, c).log) = [ok |-> TRUE, tree |-> AddClaim(t, c)]
           /\ \A r \in References : AdmitsReference(t, r) =>
                 OpenTree(AddReference(t, r).log) = [ok |-> TRUE, tree |-> AddReference(t, r)]
<1>1. t.log \in Seq(TreeItems)
  BY DEF TreeOK
<1>2. ASSUME NEW x \in TreeItems, AdmitsItem(t, x)
      PROVE  OpenTree(Append(t.log, x)) = [ok |-> TRUE, tree |-> AddItem(t, x)]
  <2> DEFINE s == [ok |-> TRUE, tree |-> t]
  <2>1. s.ok /\ s.tree = t
    OBVIOUS
  <2>2. OpenTree(Append(t.log, x)) = OpenStep(s, x)
    BY <1>1, OpenTreeAppend
  <2> HIDE DEF s
  <2>3. QED
    BY <1>2, <2>1, <2>2 DEF OpenStep
<1>3. ASSUME NEW c \in Claims, AdmitsClaim(t, c)
      PROVE  OpenTree(AddClaim(t, c).log) = [ok |-> TRUE, tree |-> AddClaim(t, c)]
  <2> DEFINE x == [claim |-> c, reference |-> None]
  <2>1. x \in TreeItems /\ x.claim = c /\ x.reference = None /\ c # None
    BY ItemFacts
  <2>2. AddClaim(t, c).log = Append(t.log, x)
    BY DEF AddClaim
  <2> HIDE DEF x
  <2>3. AdmitsItem(t, x) /\ AddItem(t, x) = AddClaim(t, c)
    BY <1>3, <2>1 DEF AdmitsItem, AddItem
  <2>4. QED
    BY <1>2, <2>1, <2>2, <2>3
<1>4. ASSUME NEW r \in References, AdmitsReference(t, r)
      PROVE  OpenTree(AddReference(t, r).log) = [ok |-> TRUE, tree |-> AddReference(t, r)]
  <2> DEFINE x == [claim |-> None, reference |-> r]
  <2>1. x \in TreeItems /\ x.claim = None /\ x.reference = r /\ r # None
    BY ItemFacts
  <2>2. AddReference(t, r).log = Append(t.log, x)
    BY DEF AddReference
  <2> HIDE DEF x
  <2>3. AdmitsItem(t, x) /\ AddItem(t, x) = AddReference(t, r)
    BY <1>4, <2>1 DEF AdmitsItem, AddItem
  <2>4. QED
    BY <1>2, <2>1, <2>2, <2>3
<1>5. QED
  BY <1>3, <1>4

LEMMA CatalogReplays ==
    ASSUME NEW c, CatalogOK(c), OpenCatalog(c.log) = [ok |-> TRUE, catalog |-> c]
    PROVE  /\ \A l \in Listings : AdmitsListing(c, l) =>
                 OpenCatalog(AddListing(c, l).log) = [ok |-> TRUE, catalog |-> AddListing(c, l)]
           /\ \A s \in Sales : AdmitsSale(c, s) =>
                 OpenCatalog(RecordSale(c, s).log) = [ok |-> TRUE, catalog |-> RecordSale(c, s)]
<1>1. c.log \in Seq(CatalogItems)
  BY DEF CatalogOK
<1>2. ASSUME NEW x \in CatalogItems, AdmitsEntry(c, x)
      PROVE  OpenCatalog(Append(c.log, x)) = [ok |-> TRUE, catalog |-> AddEntry(c, x)]
  <2> DEFINE s == [ok |-> TRUE, catalog |-> c]
  <2>1. s.ok /\ s.catalog = c
    OBVIOUS
  <2>2. OpenCatalog(Append(c.log, x)) = CatalogStep(s, x)
    BY <1>1, OpenCatalogAppend
  <2> HIDE DEF s
  <2>3. QED
    BY <1>2, <2>1, <2>2 DEF CatalogStep
<1>3. ASSUME NEW l \in Listings, AdmitsListing(c, l)
      PROVE  OpenCatalog(AddListing(c, l).log) = [ok |-> TRUE, catalog |-> AddListing(c, l)]
  <2> DEFINE x == [listing |-> l, sale |-> None]
  <2>1. x \in CatalogItems /\ x.listing = l /\ x.sale = None /\ l # None
    BY EntryFacts
  <2>2. AddListing(c, l).log = Append(c.log, x)
    BY DEF AddListing
  <2> HIDE DEF x
  <2>3. AdmitsEntry(c, x) /\ AddEntry(c, x) = AddListing(c, l)
    BY <1>3, <2>1 DEF AdmitsEntry, AddEntry
  <2>4. QED
    BY <1>2, <2>1, <2>2, <2>3
<1>4. ASSUME NEW s \in Sales, AdmitsSale(c, s)
      PROVE  OpenCatalog(RecordSale(c, s).log) = [ok |-> TRUE, catalog |-> RecordSale(c, s)]
  <2> DEFINE x == [listing |-> None, sale |-> s]
  <2>1. x \in CatalogItems /\ x.listing = None /\ x.sale = s /\ s # None
    BY EntryFacts
  <2>2. RecordSale(c, s).log = Append(c.log, x)
    BY DEF RecordSale
  <2> HIDE DEF x
  <2>3. AdmitsEntry(c, x) /\ AddEntry(c, x) = RecordSale(c, s)
    BY <1>4, <2>1 DEF AdmitsEntry, AddEntry
  <2>4. QED
    BY <1>2, <2>1, <2>2, <2>3
<1>5. QED
  BY <1>3, <1>4

LEMMA NextIInv == IInv /\ [Next]_vars => IInv'
<1> SUFFICES ASSUME IInv, [Next]_vars PROVE IInv'
  OBVIOUS
<1>0. /\ TreeOK(tree) /\ Acyclic(tree) /\ CatalogOK(catalog) /\ Replays /\ ManifestOK /\ Specified
      /\ OpenTree(tree.log) = [ok |-> TRUE, tree |-> tree]
      /\ OpenCatalog(catalog.log) = [ok |-> TRUE, catalog |-> catalog]
  BY DEF IInv, Replays
<1>1. ASSUME NEW m \in Members, Register(m) PROVE IInv'
  <2>1. tree' = tree /\ catalog' = catalog /\ manifest' = manifest /\ members \subseteq members'
    BY <1>1 DEF Register
  <2>2. (ManifestOK /\ Specified)'
    BY <1>0, <2>1 DEF ManifestOK, Specified
  <2>3. QED
    BY <1>0, <2>1, <2>2 DEF IInv, Replays
<1>2. ASSUME NEW c \in Claims, NEW n, handleAnchorClaim(c, n) PROVE IInv'
  <2>1. /\ tree' = AddClaim(tree, c) /\ catalog' = catalog /\ members' = members
        /\ AdmitsClaim(tree, c) /\ n = c.narrative
        /\ manifest' = [id \in DOMAIN manifest \cup {c.id} |->
                            IF id = c.id THEN n ELSE manifest[id]]
    BY <1>2 DEF handleAnchorClaim
  <2>2. tree'.claims = tree.claims \cup {c}
    BY <2>1 DEF AddClaim
  <2>3. TreeOK(tree') /\ Acyclic(tree')
    BY <1>0, <2>1, ClaimKeepsTree
  <2>4. OpenTree(tree'.log) = [ok |-> TRUE, tree |-> tree']
    BY <1>0, <2>1, TreeReplays
  <2>5. ManifestOK'
    <3>1. ASSUME NEW d \in tree.claims PROVE d.id # c.id /\ d.id \in DOMAIN manifest /\ manifest[d.id] = d.narrative
      BY <1>0, <2>1 DEF ManifestOK, AdmitsClaim
    <3>2. QED
      BY <2>1, <2>2, <3>1 DEF ManifestOK
  <2>6. Specified'
    BY <1>0, <2>1, <2>2 DEF Specified
  <2>7. QED
    BY <1>0, <2>1, <2>3, <2>4, <2>5, <2>6 DEF IInv, Replays
<1>3. ASSUME NEW r \in References, handleAddReference(r) PROVE IInv'
  <2>1. /\ tree' = AddReference(tree, r) /\ catalog' = catalog /\ members' = members
        /\ manifest' = manifest /\ AdmitsReference(tree, r)
    BY <1>3 DEF handleAddReference
  <2>2. tree'.claims = tree.claims
    BY <2>1 DEF AddReference
  <2>3. TreeOK(tree') /\ Acyclic(tree')
    BY <1>0, <2>1, ReferenceKeepsTree
  <2>4. OpenTree(tree'.log) = [ok |-> TRUE, tree |-> tree']
    BY <1>0, <2>1, TreeReplays
  <2>5. (ManifestOK /\ Specified)'
    BY <1>0, <2>1, <2>2 DEF ManifestOK, Specified
  <2>6. QED
    BY <1>0, <2>1, <2>3, <2>4, <2>5 DEF IInv, Replays
<1>4. ASSUME NEW l \in Listings, handleCreateListing(l) PROVE IInv'
  <2>1. /\ catalog' = AddListing(catalog, l) /\ tree' = tree /\ members' = members
        /\ manifest' = manifest /\ AdmitsListing(catalog, l) /\ l.maker \in members
        /\ \E c \in tree.claims : c.id = l.spec /\ c.kind = "product_spec" /\ c.claimant = l.maker
    BY <1>4 DEF handleCreateListing
  <2>2. catalog'.listings = catalog.listings \cup {l}
    BY <2>1 DEF AddListing
  <2>3. CatalogOK(catalog')
    BY <1>0, <2>1, ListingKeepsCatalog
  <2>4. OpenCatalog(catalog'.log) = [ok |-> TRUE, catalog |-> catalog']
    BY <1>0, <2>1, CatalogReplays
  <2>5. (ManifestOK /\ Specified)'
    BY <1>0, <2>1, <2>2 DEF ManifestOK, Specified
  <2>6. QED
    BY <1>0, <2>1, <2>3, <2>4, <2>5 DEF IInv, Replays
<1>5. ASSUME NEW s \in Sales, Settle(s) PROVE IInv'
  <2>1. /\ catalog' = RecordSale(catalog, s) /\ tree' = tree /\ members' = members
        /\ manifest' = manifest /\ AdmitsSale(catalog, s)
    BY <1>5 DEF Settle
  <2>2. catalog'.listings = catalog.listings
    BY <2>1 DEF RecordSale
  <2>3. CatalogOK(catalog')
    BY <1>0, <2>1, SaleKeepsCatalog
  <2>4. OpenCatalog(catalog'.log) = [ok |-> TRUE, catalog |-> catalog']
    BY <1>0, <2>1, CatalogReplays
  <2>5. (ManifestOK /\ Specified)'
    BY <1>0, <2>1, <2>2 DEF ManifestOK, Specified
  <2>6. QED
    BY <1>0, <2>1, <2>3, <2>4, <2>5 DEF IInv, Replays
<1>6. ASSUME NEW text \in Texts, Erase(text) PROVE IInv'
  BY <1>0, <1>6 DEF Erase, IInv, Replays, ManifestOK, Specified
<1>7. CASE UNCHANGED vars
  BY <1>0, <1>7 DEF vars, IInv, Replays, ManifestOK, Specified
<1>8. QED
  BY <1>1, <1>2, <1>3, <1>4, <1>5, <1>6, <1>7 DEF Next

LEMMA Invariance == Spec => []IInv
BY InitIInv, NextIInv, PTL DEF Spec

-----------------------------------------------------------------------------
(* The theorems. *)

\* AddReference's search keeps builds_on well-founded: in no set of claims does every
\* claim build on another of the set, however the edges came.
THEOREM NothingBuildsOnItself == Spec => []BuildsOnAcyclic
<1>1. IInv => BuildsOnAcyclic
  BY DEF IInv, Acyclic, BuildsOnAcyclic
<1>2. QED
  BY <1>1, Invariance, PTL

\* The head of the tree's and of the catalog's chain tells its log from every copy with
\* items swapped, dropped, inserted or replaced that OpenLog takes, and the log replays to the very tree or catalog.
THEOREM HeadsIdentify == Spec => []HeadIdentifiesLog
<1>1. ASSUME IInv PROVE HeadIdentifiesLog
  <2>1. /\ OpenTree(tree.log) = [ok |-> TRUE, tree |-> tree]
        /\ OpenCatalog(catalog.log) = [ok |-> TRUE, catalog |-> catalog]
        /\ tree.log \in Seq(TreeItems) /\ catalog.log \in Seq(CatalogItems)
    BY <1>1 DEF IInv, Replays, TreeOK, CatalogOK
  <2>2. OpenTree(tree.log).ok /\ OpenTree(tree.log).tree = tree
    BY <2>1
  <2>3. OpenCatalog(catalog.log).ok /\ OpenCatalog(catalog.log).catalog = catalog
    BY <2>1
  <2>4. ASSUME NEW copy \in Altered(tree.log, TreeItems), OpenTree(copy).ok
        PROVE  OpenTree(copy).tree.head # tree.head
    <3>1. copy \in Seq(TreeItems) /\ copy # tree.log
      BY <2>1, AlteredIsALog
    <3>2. QED
      BY <2>1, <2>2, <2>4, <3>1, HeadNamesTree
  <2>5. ASSUME NEW copy \in Altered(catalog.log, CatalogItems), OpenCatalog(copy).ok
        PROVE  OpenCatalog(copy).catalog.head # catalog.head
    <3>1. copy \in Seq(CatalogItems) /\ copy # catalog.log
      BY <2>1, AlteredIsALog
    <3>2. QED
      BY <2>1, <2>3, <2>5, <3>1, HeadNamesCatalog
  <2>6. QED
    BY <2>1, <2>4, <2>5 DEF HeadIdentifiesLog
<1>2. QED
  BY <1>1, Invariance, PTL

\* Whoever browses finds each listing once, with its distinct settled exchanges, and
\* behind it its own maker's product_spec claim with the narrative signed, or none.
THEOREM ListingsRest == Spec => []ListingsRestOnSpecs
<1>1. ASSUME IInv PROVE ListingsRestOnSpecs
  <2>1. SUFFICES ASSUME NEW l \in catalog.listings
                 PROVE  /\ Cardinality({i \in DOMAIN Browse(l.category) :
                                Browse(l.category)[i] = <<l.id,
                                    Cardinality({s.exchange : s \in {s \in SalesIn(catalog.log) :
                                                                        s.listing = l.id}})>>}) = 1
                        /\ l.maker \in members
                        /\ \E c \in tree.claims :
                              /\ c.id = l.spec /\ c.kind = "product_spec" /\ c.claimant = l.maker
                              /\ ServedNarrative(c.id) \in {c.narrative, None}
    BY DEF ListingsRestOnSpecs
  <2> DEFINE found == ByCategory(catalog, l.category)
             Sold(id) == Cardinality(Keys(catalog, id))
             sold == Cardinality(ExchangesOf(catalog, l.id))
  <2>2. CatalogOK(catalog)
    BY <1>1 DEF IInv
  <2>3. Sold(l.id) = sold
    BY <2>2, SalesCounted
  <2>4. PICK i \in DOMAIN found : found[i].listing.id = l.id
    BY <2>2, ShelvedOnce
  <2>5. \A j \in DOMAIN found : found[j].listing.id = l.id => j = i
    BY <2>2, <2>4, ShelvedOnce
  <2>6. Browse(l.category) = [j \in DOMAIN found |-> <<found[j].listing.id, Sold(found[j].listing.id)>>]
    BY DEF Browse, Keys
  <2> HIDE DEF found, Sold, sold
  <2>7. {j \in DOMAIN Browse(l.category) : Browse(l.category)[j] = <<l.id, sold>>} = {i}
    <3>2. DOMAIN Browse(l.category) = DOMAIN found
      BY <2>6
    <3>3. \A j \in DOMAIN found : Browse(l.category)[j] = <<found[j].listing.id, Sold(found[j].listing.id)>>
      BY <2>6
    <3>4. ASSUME NEW j \in DOMAIN found
          PROVE  Browse(l.category)[j] = <<l.id, sold>> <=> found[j].listing.id = l.id
      <4> DEFINE id == found[j].listing.id
                 n == Sold(id)
      <4>1. Browse(l.category)[j] = <<id, n>>
        BY <3>3
      <4>2. id = l.id => n = sold
        BY <2>3
      <4> HIDE DEF id, n
      <4>3. <<id, n>> = <<l.id, sold>> <=> id = l.id /\ n = sold
        OBVIOUS
      <4>4. QED
        BY <4>1, <4>2, <4>3 DEF id
    <3>5. QED
      BY <2>4, <2>5, <3>2, <3>4
  <2>8. Cardinality({j \in DOMAIN Browse(l.category) : Browse(l.category)[j] = <<l.id, sold>>}) = 1
    BY <2>7, FS_Singleton
  <2>9. PICK c \in tree.claims : c.id = l.spec /\ c.kind = "product_spec" /\ c.claimant = l.maker
    BY <1>1, <2>1 DEF IInv, Specified
  <2>10. ServedNarrative(c.id) \in {c.narrative, None}
    BY <1>1 DEF IInv, ManifestOK, ServedNarrative
  <2>11. l.maker \in members
    BY <1>1, <2>1 DEF IInv, Specified
  <2>12. QED
    BY <2>8, <2>9, <2>10, <2>11 DEF sold, ExchangesOf
<1>2. QED
  BY <1>1, Invariance, PTL

\* A step adds at most one to a claim's weight of each kind, and only by a new edge of
\* that kind of a member that had drawn none to it.
THEOREM MembersWeighOnce == Spec => WeightPerMember
<1> DEFINE Weighs ==
        \A c \in tree.claims, k \in RefKinds :
          LET before == CitationWeight(tree, c.id)[k]
              after == CitationWeight(tree', c.id)[k]
          IN /\ after \in {before, before + 1}
             /\ after > before => \E r \in tree'.refs \ tree.refs :
                   /\ r.to = c.id /\ r.kind = k
                   /\ \A q \in tree.refs :
                         ~(q.to = c.id /\ q.kind = k /\ q.asserter = r.asserter)
<1>1. ASSUME IInv, [Next]_vars PROVE Weighs
  <2>1. TreeOK(tree) /\ tree.log \in Seq(TreeItems) /\ tree.refs = ReferencesIn(tree.log)
    BY <1>1 DEF IInv, TreeOK
  <2> SUFFICES ASSUME NEW c \in tree.claims, NEW k \in RefKinds
               PROVE  LET before == CitationWeight(tree, c.id)[k]
                          after == CitationWeight(tree', c.id)[k]
                      IN /\ after \in {before, before + 1}
                         /\ after > before => \E r \in tree'.refs \ tree.refs :
                               /\ r.to = c.id /\ r.kind = k
                               /\ \A q \in tree.refs :
                                     ~(q.to = c.id /\ q.kind = k /\ q.asserter = r.asserter)
    OBVIOUS
  <2> DEFINE A == Asserters(tree.log, c.id, k)
             B == Asserters(tree'.log, c.id, k)
  <2>2. CitationWeight(tree, c.id)[k] = Cardinality(A) /\ CitationWeight(tree', c.id)[k] = Cardinality(B)
    BY WeightIsAsserters
  <2>3. IsFiniteSet(A) /\ Cardinality(A) \in Nat
    BY <2>1, AssertersFinite, FS_CardinalityType
  <2> HIDE DEF A, B
  <2>4. CASE B = A
    BY <2>2, <2>3, <2>4
  <2>5. CASE \E d \in Claims : tree' = AddClaim(tree, d)
    <3>1. PICK d \in Claims : tree' = AddClaim(tree, d)
      BY <2>5
    <3> DEFINE x == [claim |-> d, reference |-> None]
    <3>2. x \in TreeItems /\ x.reference = None
      BY ItemFacts
    <3>3. tree'.log = Append(tree.log, x)
      BY <3>1 DEF AddClaim
    <3> HIDE DEF x
    <3>4. B = A
      <4>1. x \in TreeItems
        BY <3>2
      <4>2. Asserters(Append(tree.log, x), c.id, k)
                = A \cup (IF x.reference # None /\ x.reference.kind = k /\ x.reference.to = c.id
                         THEN {x.reference.asserter} ELSE {})
        BY <2>1, <4>1, AssertersAppend DEF A
      <4>3. QED
        BY <3>2, <3>3, <4>2 DEF B
    <3>5. QED
      BY <2>4, <3>4
  <2>6. CASE \E r \in References : tree' = AddReference(tree, r) /\ AdmitsReference(tree, r)
    <3>1. PICK r \in References : tree' = AddReference(tree, r) /\ AdmitsReference(tree, r)
      BY <2>6
    <3> DEFINE x == [claim |-> None, reference |-> r]
    <3>2. x \in TreeItems /\ x.reference = r /\ r # None
      BY ItemFacts
    <3>3. tree'.log = Append(tree.log, x) /\ tree'.refs = tree.refs \cup {r}
      BY <3>1 DEF AddReference
    <3> HIDE DEF x
    <3>4. B = A \cup (IF r.kind = k /\ r.to = c.id THEN {r.asserter} ELSE {})
      BY <2>1, <3>2, <3>3, AssertersAppend DEF A, B
    <3>5. CASE ~(r.kind = k /\ r.to = c.id) \/ r.asserter \in A
      <4>1. B = A
        BY <3>4, <3>5
      <4>2. QED
        BY <2>4, <4>1
    <3>6. CASE r.kind = k /\ r.to = c.id /\ r.asserter \notin A
      <4>1. Cardinality(B) = Cardinality(A) + 1
        <5>1. B = A \cup {r.asserter}
          BY <3>4, <3>6
        <5>2. Cardinality(A \cup {r.asserter}) = Cardinality(A) + 1
          BY <2>3, <3>6, FS_AddElement
        <5>3. QED
          BY <5>1, <5>2
      <4>2. r \in tree'.refs \ tree.refs
        BY <3>1, <3>3 DEF AdmitsReference
      <4>3. ASSUME NEW q \in tree.refs, q.to = c.id, q.kind = k PROVE q.asserter # r.asserter
        <5>1. PICK i \in DOMAIN tree.log : tree.log[i].reference # None /\ tree.log[i].reference = q
          BY <2>1 DEF ReferencesIn
        <5>2. q.asserter \in A
          BY <4>3, <5>1 DEF A, Asserters
        <5>3. QED
          BY <3>6, <5>2
      <4>4. QED
        BY <2>2, <3>6, <4>1, <4>2, <4>3
    <3>7. QED
      BY <3>5, <3>6
  <2>7. CASE tree' = tree
    BY <2>4, <2>7 DEF A, B
  <2>8. QED
    BY <1>1, <2>5, <2>6, <2>7 DEF Next, vars, Register, handleAnchorClaim, handleAddReference,
       handleCreateListing, Settle, Erase
<1>2. IInv /\ [Next]_vars => [Weighs]_vars
  BY <1>1
<1>3. QED
  BY <1>2, Invariance, PTL DEF Spec, WeightPerMember
=============================================================================
