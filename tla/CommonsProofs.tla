--------------------------- MODULE CommonsProofs ---------------------------
(***************************************************************************)
(* Proofs about module Commons, for any members, drops, openings, panel,   *)
(* verdicts and answers.                                                   *)
(*                                                                         *)
(* A handler changes the registry first and the lifecycle log second, so   *)
(* the argument is that the log never refuses what the registry took: the  *)
(* log's state of a claim is the furthest and the last of its transitions, *)
(* and the registry's state of the case says which of them it can be.      *)
(***************************************************************************)
EXTENDS Commons, FiniteSetTheorems, TLAPS, WellFoundedInduction

-----------------------------------------------------------------------------
(* Recursive functions over 0..N.  The provers cannot instantiate an induction *)
(* rule with a predicate, nor show that a recursive definition defines         *)
(* anything; they can be given a set that is closed under adding one, and a    *)
(* function that satisfies the definition.                                     *)

\* Induction up to a bound, over a set.
LEMMA UpTo ==
    ASSUME NEW N \in Nat, NEW G,
           0 \in G,
           \A n \in 1..N : n - 1 \in G => n \in G
    PROVE  0..N \subseteq G
<1> DEFINE Bad == (0..N) \ G
<1>1. SUFFICES ASSUME Bad # {} PROVE FALSE
  OBVIOUS
<1>2. Bad \in SUBSET Nat
  OBVIOUS
<1>3. PICK m \in Bad : \A k \in Bad : ~(<<k, m>> \in OpToRel(<, Nat))
  <2> HIDE DEF Bad
  <2>1. QED
    BY <1>1, <1>2, NatLessThanWellFounded, WFMin
<1>4. m \in 1..N /\ m \notin G
  OBVIOUS
<1>5. m - 1 \in Bad
  BY <1>4
<1>6. m - 1 \in Nat /\ m \in Nat /\ m - 1 < m
  BY <1>4
<1>7. <<m - 1, m>> \in OpToRel(<, Nat)
  BY <1>6 DEF OpToRel
<1> HIDE DEF Bad
<1>8. QED
  BY <1>3, <1>5, <1>7

StepsIn(S, N) == [1..N -> [S -> S]]
Iterates(f, a, F, S, N) ==
    f \in [0..N -> S] /\ f[0] = a /\ \A n \in 1..N : f[n] = F[n][f[n - 1]]

\* Steps within a set can be taken one after the other.
LEMMA Iterated ==
    ASSUME NEW N \in Nat, NEW S, NEW a \in S, NEW F \in StepsIn(S, N)
    PROVE  \E f : Iterates(f, a, F, S, N)
<1> USE DEF StepsIn, Iterates
<1> DEFINE Runs(f, n) == f[0] = a /\ \A k \in 1..n : f[k] = F[k][f[k - 1]]
           G == {n \in 0..N : \E f \in [0..n -> S] : Runs(f, n)}
<1>1. 0 \in G
  <2> DEFINE g == [k \in 0..0 |-> a]
  <2>1. g \in [0..0 -> S] /\ g[0] = a
    OBVIOUS
  <2>2. Runs(g, 0)
    BY <2>1
  <2> HIDE DEF g, Runs
  <2>3. 0 \in 0..N
    OBVIOUS
  <2>4. QED
    BY <2>1, <2>2, <2>3
<1>2. ASSUME NEW n \in 1..N, n - 1 \in G PROVE n \in G
  <2>1. PICK f \in [0..n - 1 -> S] : Runs(f, n - 1)
    BY <1>2
  <2> DEFINE g == [k \in 0..n |-> IF k = n THEN F[n][f[n - 1]] ELSE f[k]]
  <2>2. n - 1 \in 0..n - 1 /\ F[n] \in [S -> S]
    OBVIOUS
  <2>3. F[n][f[n - 1]] \in S
    BY <2>2
  <2>4. g \in [0..n -> S]
    BY <2>3
  <2>5. g[0] = a
    BY <2>1
  <2>6. ASSUME NEW k \in 1..n PROVE g[k] = F[k][g[k - 1]]
    <3>1. CASE k = n
      BY <3>1, <2>2
    <3>2. CASE k # n
      <4>1. k \in 1..n - 1 /\ k - 1 \in 0..n - 1 /\ k \in 0..n /\ k - 1 \in 0..n /\ k - 1 # n
        BY <3>2
      <4>2. QED
        BY <2>1, <4>1, <3>2
    <3>3. QED
      BY <3>1, <3>2
  <2>7. Runs(g, n)
    BY <2>5, <2>6
  <2> HIDE DEF g, Runs
  <2>8. n \in 0..N
    OBVIOUS
  <2>9. QED
    BY <2>4, <2>7, <2>8
<1>3. N \in G
  <2> HIDE DEF G
  <2>1. 0..N \subseteq G
    BY <1>1, <1>2, UpTo
  <2>2. QED
    BY <2>1
<1>4. QED
  BY <1>3


Kinds == KindFiled..KindSealed

\* The transitions that the two handlers and the other callers hand to the log.
Transitions ==
    {t \in Panel
           \cup {transition(o.id, KindFiled, "opening", o.exchange) : o \in Openings}
           \cup {transition(w.dispute, KindResolved, w.artifact, OpeningOf(w.dispute).exchange) :
                    w \in Withdrawals} :
        t.claim \in Claims /\ t.kind \in Kinds}

LifeLogs == [transitions : Seq(Transitions), state : [Claims -> 0..KindSealed]]

Books == [bySubject : [Members -> Seq(Assessments)],
          seen : SUBSET {StoreKey(a) : a \in Assessments},
          answers : SUBSET Answers]

\* The state.
Typed ==
    /\ byMember \subseteq Members
    /\ log \in Seq(Entries)
    /\ pending \subseteq {o \in Openings : FilingVerifies(o)}
    /\ cases \in [Claims -> {"none", "open", "withdrawn"}]
    /\ disputesByExchange \in [Exchanges -> SUBSET Claims]
    /\ life \in LifeLogs
    /\ book \in Books
    /\ given \subseteq Claims

\* The log's state map: the furthest kind of each claim, which is also its last.
Furthest(l) ==
    /\ \A i \in DOMAIN l.transitions : l.transitions[i].kind <= l.state[l.transitions[i].claim]
    /\ \A c \in Claims :
          LET ks == KindsOf(l, c)
          IN /\ ks \in Seq(Kinds)
             /\ IF l.state[c] = 0 THEN ks = <<>> ELSE ks # <<>> /\ ks[Len(ks)] = l.state[c]

Ordered(l) ==
    /\ Replay(l.transitions) = [ok |-> TRUE, log |-> l]
    /\ Furthest(l)
    /\ \A c \in Claims : Monotonic(KindsOf(l, c))

\* Registry, receipts and lifecycle log agree on a claim, and a claim that was filed has
\* an id and an exchange.
Agrees(c) ==
    /\ cases[c] = "none" <=> life.state[c] = 0
    /\ cases[c] = "open" <=> life.state[c] \in {KindFiled, KindAdjudicated}
    /\ c \in given <=> life.state[c] > 0
    /\ life.state[c] > 0 => c # ZeroHash /\ OpeningOf(c).exchange # ZeroHash

\* The drop that a claim on an exchange rests on, and its filing.
Rests(x, c) ==
    /\ c \in given
    /\ \E i \in DOMAIN log :
          /\ log[i].id = x
          /\ {log[i].proposer, log[i].acceptor} = {OpeningOf(c).complainant, OpeningOf(c).respondent}
    /\ \E t \in Range(life.transitions) : t.kind = KindFiled /\ t.exchange = x /\ t.claim = c

\* What a verdict rests on.
Grounded(a) ==
    \E i \in DOMAIN log :
        LET parties == {log[i].proposer, log[i].acceptor}
        IN /\ log[i].id = a.exchange
           /\ a.assessor \in parties
           /\ IF a.relation = "trade"
              THEN a.subject \in parties
              ELSE /\ a.subject = Operator
                   /\ \E t \in Range(life.transitions) :
                         /\ t.kind = KindFiled /\ t.exchange = a.exchange
                         /\ t.claim \in given
                         /\ parties = {OpeningOf(t.claim).complainant, OpeningOf(t.claim).respondent}

\* The verdicts about a member have distinct keys, all of them taken.
KeysDiffer(b) ==
    \A m \in Members :
        /\ \A i \in DOMAIN b.bySubject[m] : StoreKey(b.bySubject[m][i]) \in b.seen
        /\ \A i, j \in DOMAIN b.bySubject[m] :
              StoreKey(b.bySubject[m][i]) = StoreKey(b.bySubject[m][j]) => i = j

IInv ==
    /\ Typed
    /\ Ordered(life)
    /\ \A c \in Claims : Agrees(c)
    /\ \A x \in Exchanges : \A c \in disputesByExchange[x] : Rests(x, c)
    /\ KeysDiffer(book)
    /\ \A a \in Verdicts(book) : Grounded(a)

-----------------------------------------------------------------------------
(* Replaying the store of the lifecycle log. *)

Replaying(f, ts, N) ==
    /\ f = [k \in 0..N |-> f[k]]
    /\ f[0] = EmptyLog
    /\ \A k \in 1..N : f[k] = admit(f[k - 1], ts[k])

LEMMA AdmitTyped ==
    ASSUME NEW l \in LifeLogs, NEW t \in Transitions
    PROVE  admit(l, t) \in LifeLogs
<1>1. t.claim \in Claims /\ t.kind \in 0..KindSealed
  BY DEF Transitions, Kinds, KindFiled, KindSealed
<1>2. l.transitions \in Seq(Transitions) /\ l.state \in [Claims -> 0..KindSealed]
  BY DEF LifeLogs
<1>3. Append(l.transitions, t) \in Seq(Transitions)
  BY <1>2
<1>4. [l.state EXCEPT ![t.claim] = IF t.kind > @ THEN t.kind ELSE @] \in [Claims -> 0..KindSealed]
  BY <1>1, <1>2
<1>5. QED
  BY <1>3, <1>4 DEF admit, LifeLogs

LEMMA EmptyLogTyped == EmptyLog \in LifeLogs
<1>1. 0 \in 0..KindSealed
  BY DEF KindSealed
<1>2. [c \in Claims |-> 0] \in [Claims -> 0..KindSealed]
  BY <1>1
<1>3. <<>> \in Seq(Transitions)
  OBVIOUS
<1>4. QED
  BY <1>2, <1>3 DEF EmptyLog, LifeLogs

LEMMA ReplayUnfolds ==
    ASSUME NEW ts \in Seq(Transitions)
    PROVE  \E f : /\ Replaying(f, ts, Len(ts))
                 /\ Replay(ts) = [ok |-> \A n \in 1..Len(ts) : check(f[n - 1], ts[n]),
                                  log |-> f[Len(ts)]]
<1> DEFINE N == Len(ts)
           Solves(f) == f = [n \in 0..N |-> IF n = 0 THEN EmptyLog ELSE admit(f[n - 1], ts[n])]
           r == CHOOSE f : Solves(f)
           F == [n \in 1..N |-> [l \in LifeLogs |-> admit(l, ts[n])]]
<1>1. N \in Nat /\ \A n \in 1..N : ts[n] \in Transitions
  OBVIOUS
<1>2. Replay(ts) = [ok |-> \A n \in 1..N : check(r[n - 1], ts[n]), log |-> r[N]]
  BY DEF Replay, r, Solves
<1>3. F \in StepsIn(LifeLogs, N)
  BY <1>1, AdmitTyped DEF StepsIn
<1>4. PICK s : Iterates(s, EmptyLog, F, LifeLogs, N)
  <2> HIDE DEF F, N
  <2>1. QED
    BY <1>1, <1>3, EmptyLogTyped, Iterated
<1>5. s \in [0..N -> LifeLogs] /\ s[0] = EmptyLog
  BY <1>4 DEF Iterates
<1>6. ASSUME NEW n \in 1..N PROVE s[n] = admit(s[n - 1], ts[n])
  <2>1. n - 1 \in 0..N
    BY <1>1
  <2>2. s[n - 1] \in LifeLogs /\ s[n] = F[n][s[n - 1]]
    BY <2>1, <1>4 DEF Iterates
  <2>3. QED
    BY <2>2
<1>7. Solves(s)
  <2>1. ASSUME NEW n \in 0..N
        PROVE  s[n] = IF n = 0 THEN EmptyLog ELSE admit(s[n - 1], ts[n])
    <3>1. CASE n = 0
      BY <1>5, <3>1
    <3>2. CASE n # 0
      <4>1. n \in 1..N
        BY <3>2, <1>1
      <4>2. QED
        BY <4>1, <3>2, <1>6
    <3>3. QED
      BY <3>1, <3>2
  <2>2. s = [k \in 0..N |-> s[k]]
    BY <1>5
  <2>3. QED
    BY <2>1, <2>2
<1>8. Solves(r)
  <2> HIDE DEF Solves
  <2>1. QED
    BY <1>7
<1>9. Replaying(r, ts, N)
  <2> HIDE DEF r
  <2>1. r = [k \in 0..N |-> r[k]]
    BY <1>8
  <2>2. r[0] = EmptyLog
    BY <1>8
  <2>3. ASSUME NEW k \in 1..N PROVE r[k] = admit(r[k - 1], ts[k])
    <3>1. k \in 0..N /\ k # 0
      OBVIOUS
    <3>2. r[k] = IF k = 0 THEN EmptyLog ELSE admit(r[k - 1], ts[k])
      BY <1>8, <3>1
    <3>3. QED
      BY <3>1, <3>2
  <2>4. QED
    BY <2>1, <2>2, <2>3, Zenon DEF Replaying
<1> HIDE DEF r, Solves, N
<1>10. QED
  BY <1>2, <1>9 DEF N

\* A store with one more transition replays as the log it was, and the gate once more.
LEMMA ReplayAppend ==
    ASSUME NEW ts \in Seq(Transitions), NEW t \in Transitions, NEW l,
           Replay(ts) = [ok |-> TRUE, log |-> l],
           check(l, t)
    PROVE  Replay(Append(ts, t)) = [ok |-> TRUE, log |-> admit(l, t)]
<1> DEFINE N == Len(ts)
           longer == Append(ts, t)
<1>1. N \in Nat /\ Len(longer) = N + 1 /\ longer[N + 1] = t /\ \A k \in 1..N : longer[k] = ts[k]
  OBVIOUS
<1>2. longer \in Seq(Transitions)
  OBVIOUS
<1> HIDE DEF longer, N
<1>3. PICK f : /\ Replaying(f, ts, N)
               /\ Replay(ts) = [ok |-> \A n \in 1..N : check(f[n - 1], ts[n]), log |-> f[N]]
  BY ReplayUnfolds DEF N
<1>4. PICK g : /\ Replaying(g, longer, N + 1)
               /\ Replay(longer) = [ok |-> \A n \in 1..N + 1 : check(g[n - 1], longer[n]),
                                    log |-> g[N + 1]]
  BY <1>1, <1>2, ReplayUnfolds
<1>5. 0..N \subseteq {n \in 0..N : f[n] = g[n]}
  <2> DEFINE G == {n \in 0..N : f[n] = g[n]}
  <2>1. 0 \in G
    BY <1>1, <1>3, <1>4 DEF Replaying
  <2>2. ASSUME NEW n \in 1..N, n - 1 \in G PROVE n \in G
    <3>1. n \in 1..N + 1 /\ n \in 0..N
      BY <1>1
    <3>2. f[n] = admit(f[n - 1], ts[n]) /\ g[n] = admit(g[n - 1], longer[n])
      BY <1>3, <1>4, <3>1 DEF Replaying
    <3>3. QED
      BY <1>1, <2>2, <3>1, <3>2
  <2> HIDE DEF G
  <2>3. 0..N \subseteq G
    BY <1>1, <2>1, <2>2, UpTo
  <2>4. QED
    BY <2>3 DEF G
<1>6. f[N] = l /\ \A n \in 1..N : check(f[n - 1], ts[n])
  BY <1>3
<1>7. g[N] = l
  <2>1. N \in 0..N
    BY <1>1
  <2>2. QED
    BY <2>1, <1>5, <1>6
<1>8. g[N + 1] = admit(l, t)
  <2>1. N + 1 \in 1..N + 1 /\ (N + 1) - 1 = N
    BY <1>1
  <2>2. QED
    BY <1>1, <1>4, <1>7, <2>1 DEF Replaying
<1>9. ASSUME NEW n \in 1..N + 1 PROVE check(g[n - 1], longer[n])
  <2>1. CASE n = N + 1
    <3>1. n - 1 = N
      BY <1>1, <2>1
    <3>2. QED
      BY <1>1, <1>7, <2>1, <3>1
  <2>2. CASE n # N + 1
    <3>1. n \in 1..N /\ n - 1 \in 0..N
      BY <1>1, <2>2
    <3>2. g[n - 1] = f[n - 1] /\ longer[n] = ts[n]
      BY <1>1, <1>5, <3>1
    <3>3. QED
      BY <1>6, <3>1, <3>2
  <2>3. QED
    BY <2>1, <2>2
<1>10. QED
  <2>1. (\A n \in 1..N + 1 : check(g[n - 1], longer[n])) = TRUE
    BY <1>9
  <2>2. QED
    BY <1>4, <1>8, <2>1 DEF longer

-----------------------------------------------------------------------------
(* The kinds of a claim. *)

Listing(f, ts, claim, N) ==
    /\ f \in [0..N -> Seq(Kinds)]
    /\ f[0] = <<>>
    /\ \A k \in 1..N :
          f[k] = IF ts[k].claim = claim THEN Append(f[k - 1], ts[k].kind) ELSE f[k - 1]

LEMMA KindsUnfold ==
    ASSUME NEW l, NEW claim, l.transitions \in Seq(Transitions)
    PROVE  \E f : /\ Listing(f, l.transitions, claim, Len(l.transitions))
                  /\ KindsOf(l, claim) = f[Len(l.transitions)]
<1> DEFINE ts == l.transitions
           N == Len(ts)
           S == Seq(Kinds)
           Solves(f) == f = [n \in 0..N |->
                                IF n = 0
                                THEN <<>>
                                ELSE IF ts[n].claim = claim
                                THEN Append(f[n - 1], ts[n].kind)
                                ELSE f[n - 1]]
           r == CHOOSE f : Solves(f)
           F == [n \in 1..N |-> [x \in S |->
                    IF ts[n].claim = claim THEN Append(x, ts[n].kind) ELSE x]]
<1>1. N \in Nat /\ \A n \in 1..N : ts[n].kind \in Kinds
  BY DEF Transitions
<1>2. KindsOf(l, claim) = r[N]
  BY DEF KindsOf, r, Solves
<1>3. F \in StepsIn(S, N)
  BY <1>1 DEF StepsIn
<1>4. PICK s : Iterates(s, <<>>, F, S, N)
  <2>1. <<>> \in S
    OBVIOUS
  <2> HIDE DEF F, S, N
  <2>2. QED
    BY <1>1, <1>3, <2>1, Iterated
<1>5. s \in [0..N -> S] /\ s[0] = <<>>
  BY <1>4 DEF Iterates
<1>6. ASSUME NEW n \in 1..N
      PROVE  s[n] = IF ts[n].claim = claim THEN Append(s[n - 1], ts[n].kind) ELSE s[n - 1]
  <2>1. n - 1 \in 0..N
    BY <1>1
  <2>2. s[n - 1] \in S /\ s[n] = F[n][s[n - 1]]
    BY <2>1, <1>4 DEF Iterates
  <2>3. QED
    BY <2>2
<1> HIDE DEF F
<1>7. Solves(s)
  <2>1. ASSUME NEW n \in 0..N
        PROVE  s[n] = IF n = 0
                      THEN <<>>
                      ELSE IF ts[n].claim = claim THEN Append(s[n - 1], ts[n].kind) ELSE s[n - 1]
    <3>1. CASE n = 0
      BY <1>5, <3>1
    <3>2. CASE n # 0
      <4>1. n \in 1..N
        BY <3>2, <1>1
      <4>2. QED
        BY <4>1, <3>2, <1>6
    <3>3. QED
      BY <3>1, <3>2
  <2>2. s = [k \in 0..N |-> s[k]]
    BY <1>5
  <2>3. QED
    BY <2>1, <2>2
<1>8. Solves(r)
  <2> HIDE DEF Solves
  <2>1. QED
    BY <1>7
<1>9. \A n \in 0..N : r[n] = s[n]
  <2> DEFINE G == {n \in 0..N : r[n] = s[n]}
  <2>1. ASSUME NEW n \in 0..N
        PROVE  r[n] = IF n = 0
                      THEN <<>>
                      ELSE IF ts[n].claim = claim THEN Append(r[n - 1], ts[n].kind) ELSE r[n - 1]
    <3> HIDE DEF r
    <3>1. QED
      BY <1>8
  <2> HIDE DEF r, Solves, N, S, ts
  <2>2. 0 \in G
    <3>1. 0 \in 0..N
      BY <1>1
    <3>2. QED
      BY <3>1, <2>1, <1>5
  <2>3. ASSUME NEW n \in 1..N, n - 1 \in G PROVE n \in G
    <3>1. n \in 0..N /\ n # 0
      BY <1>1
    <3>2. QED
      BY <3>1, <2>1, <2>3, <1>6
  <2> HIDE DEF G
  <2>4. 0..N \subseteq G
    BY <1>1, <2>2, <2>3, UpTo
  <2>5. QED
    BY <2>4 DEF G
<1>10. Listing(s, ts, claim, N)
  BY <1>5, <1>6 DEF Listing
<1>11. KindsOf(l, claim) = s[N]
  <2>1. N \in 0..N
    BY <1>1
  <2> HIDE DEF r, N
  <2>2. QED
    BY <1>2, <1>9, <2>1
<1>12. QED
  BY <1>10, <1>11

LEMMA KindsAppend ==
    ASSUME NEW l \in LifeLogs, NEW t \in Transitions, NEW claim
    PROVE  /\ KindsOf(l, claim) \in Seq(Kinds)
           /\ KindsOf(admit(l, t), claim)
                = IF t.claim = claim THEN Append(KindsOf(l, claim), t.kind) ELSE KindsOf(l, claim)
<1> DEFINE ts == l.transitions
           N == Len(ts)
           longer == admit(l, t).transitions
<1>1. ts \in Seq(Transitions)
  BY DEF LifeLogs
<1>2. longer = Append(ts, t)
  BY DEF admit
<1>3. /\ N \in Nat /\ longer \in Seq(Transitions)
      /\ Len(longer) = N + 1 /\ longer[N + 1] = t /\ \A k \in 1..N : longer[k] = ts[k]
  BY <1>1, <1>2
<1>4. PICK f : Listing(f, ts, claim, N) /\ KindsOf(l, claim) = f[N]
  BY <1>1, KindsUnfold
<1> HIDE DEF longer
<1>5. PICK g : Listing(g, longer, claim, N + 1) /\ KindsOf(admit(l, t), claim) = g[N + 1]
  <2>1. PICK g : Listing(g, longer, claim, Len(longer)) /\ KindsOf(admit(l, t), claim) = g[Len(longer)]
    BY <1>3, KindsUnfold DEF longer
  <2>2. QED
    BY <2>1, <1>3
<1> HIDE DEF N, ts
<1>6. f[N] = g[N]
  <2> DEFINE G == {n \in 0..N : f[n] = g[n]}
  <2>1. 0 \in G
    BY <1>3, <1>4, <1>5 DEF Listing
  <2>2. ASSUME NEW n \in 1..N, n - 1 \in G PROVE n \in G
    <3>1. n \in 1..N + 1 /\ n \in 0..N
      BY <1>3
    <3>2. f[n] = IF ts[n].claim = claim THEN Append(f[n - 1], ts[n].kind) ELSE f[n - 1]
      BY <1>4 DEF Listing
    <3>3. g[n] = IF longer[n].claim = claim THEN Append(g[n - 1], longer[n].kind) ELSE g[n - 1]
      BY <1>5, <3>1 DEF Listing
    <3>4. QED
      BY <1>3, <2>2, <3>1, <3>2, <3>3
  <2> HIDE DEF G
  <2>3. 0..N \subseteq G
    BY <1>3, <2>1, <2>2, UpTo
  <2>4. N \in 0..N
    BY <1>3
  <2>5. QED
    BY <2>3, <2>4 DEF G
<1>7. f[N] \in Seq(Kinds)
  <2>1. N \in 0..N
    BY <1>3
  <2>2. QED
    BY <1>4, <2>1 DEF Listing
<1>8. g[N + 1] = IF t.claim = claim THEN Append(g[N], t.kind) ELSE g[N]
  <2>1. N + 1 \in 1..N + 1 /\ (N + 1) - 1 = N
    BY <1>3
  <2>2. g[N + 1] = IF longer[N + 1].claim = claim
                   THEN Append(g[(N + 1) - 1], longer[N + 1].kind)
                   ELSE g[(N + 1) - 1]
    BY <1>5, <2>1 DEF Listing
  <2>3. QED
    BY <1>3, <2>1, <2>2
<1>9. QED
  BY <1>4, <1>5, <1>6, <1>7, <1>8

-----------------------------------------------------------------------------
(* What the gate keeps. *)

Gate(last, kind) ==
    \/ last = 0 /\ kind = KindFiled
    \/ last > 0 /\ kind = KindAdjudicated /\ last < KindResolved
    \/ /\ last > 0 /\ kind > KindAdjudicated /\ kind > last
       /\ kind = KindSealed => last >= KindResolved

Ends(ks, last) == IF last = 0 THEN ks = <<>> ELSE ks # <<>> /\ ks[Len(ks)] = last

LEMMA MonotonicAppend ==
    ASSUME NEW ks \in Seq(Kinds), NEW last \in 0..KindSealed, NEW kind \in Kinds,
           Monotonic(ks), Ends(ks, last), Gate(last, kind)
    PROVE  Monotonic(Append(ks, kind)) /\ Ends(Append(ks, kind), kind)
<1> USE DEF Kinds, KindFiled, KindAdjudicated, KindResolved, KindSealed
<1> DEFINE n == Len(ks)
           longer == Append(ks, kind)
<1>1. n \in Nat /\ DOMAIN ks = 1..n /\ \A i \in 1..n : ks[i] \in 1..4
  OBVIOUS
<1>2. /\ DOMAIN longer = 1..n + 1 /\ Len(longer) = n + 1 /\ longer[n + 1] = kind
      /\ \A i \in 1..n : longer[i] = ks[i]
  OBVIOUS
<1>3. \/ n = 0 /\ last = 0
      \/ n \in 1..n /\ last > 0 /\ ks[n] = last
  <2>1. CASE last = 0
    BY <2>1 DEF Ends
  <2>2. CASE last # 0
    BY <1>1, <2>2 DEF Ends
  <2>3. QED
    BY <2>1, <2>2
<1> HIDE DEF n, longer
<1>4. ASSUME NEW i \in 1..n PROVE ks[i] <= last
  <2>1. last > 0 /\ ks[n] = last /\ n \in 1..n
    BY <1>1, <1>3
  <2>2. CASE i = n
    BY <1>1, <2>1, <2>2
  <2>3. CASE i # n
    <3>1. i < n
      BY <1>1, <2>3
    <3>2. ks[i] < ks[n] \/ (ks[i] = KindAdjudicated /\ ks[n] = KindAdjudicated)
      BY <1>1, <2>1, <3>1 DEF Monotonic
    <3>3. QED
      BY <1>1, <2>1, <3>2
  <2>4. QED
    BY <2>2, <2>3
<1>5. ASSUME NEW i \in 1..n + 1 PROVE (longer[i] = KindFiled) = (i = 1)
  <2>1. CASE i \in 1..n
    BY <1>1, <1>2, <2>1 DEF Monotonic
  <2>2. CASE i = n + 1
    <3>1. (kind = KindFiled) <=> last = 0
      BY DEF Gate
    <3>2. last = 0 <=> i = 1
      BY <1>1, <1>3, <2>2
    <3>3. QED
      BY <1>2, <2>2, <3>1, <3>2
  <2>3. QED
    BY <1>1, <2>1, <2>2
<1>6. ASSUME NEW i \in 1..n + 1, NEW j \in 1..n + 1, i < j
      PROVE  \/ longer[i] < longer[j]
             \/ longer[i] = KindAdjudicated /\ longer[j] = KindAdjudicated
  <2>1. i \in 1..n
    BY <1>1, <1>6
  <2>2. CASE j \in 1..n
    BY <1>1, <1>2, <1>6, <2>1, <2>2 DEF Monotonic
  <2>3. CASE j = n + 1
    <3>1. longer[i] = ks[i] /\ longer[j] = kind
      BY <1>2, <2>1, <2>3
    <3>2. ks[i] \in 1..4 /\ ks[i] <= last
      BY <1>1, <1>4, <2>1
    <3>3. QED
      BY <3>1, <3>2 DEF Gate
  <2>4. QED
    BY <1>1, <2>2, <2>3
<1>7. ASSUME NEW i \in 1..n + 1, longer[i] = KindSealed PROVE longer[i - 1] = KindResolved
  <2>1. CASE i \in 1..n
    <3>1. ks[i] = KindSealed /\ ks[i] # KindFiled
      BY <1>2, <1>7, <2>1
    <3>2. i # 1
      BY <1>1, <3>1, <2>1 DEF Monotonic
    <3>3. i - 1 \in 1..n
      BY <1>1, <2>1, <3>2
    <3>4. ks[i - 1] = KindResolved
      BY <1>1, <2>1, <3>1 DEF Monotonic
    <3>5. QED
      BY <1>2, <3>3, <3>4
  <2>2. CASE i = n + 1
    <3>1. last = KindResolved
      BY <1>2, <1>7, <2>2 DEF Gate
    <3>2. n \in 1..n /\ ks[n] = KindResolved /\ i - 1 = n
      BY <1>1, <1>3, <2>2, <3>1
    <3>3. QED
      BY <1>2, <3>2
  <2>3. QED
    BY <1>1, <2>1, <2>2
<1>8. Monotonic(longer)
  BY <1>2, <1>5, <1>6, <1>7 DEF Monotonic
<1>9. Ends(longer, kind)
  <2>1. kind # 0 /\ longer # <<>> /\ longer[Len(longer)] = kind
    BY <1>1, <1>2
  <2>2. QED
    BY <2>1 DEF Ends
<1>10. QED
  BY <1>8, <1>9 DEF longer

\* A transition that the gate passes becomes its claim's last and furthest.
LEMMA GateKeepsOrder ==
    ASSUME NEW l \in LifeLogs, NEW t \in Transitions,
           check(l, t), Furthest(l), \A c \in Claims : Monotonic(KindsOf(l, c))
    PROVE  /\ Furthest(admit(l, t))
           /\ \A c \in Claims : Monotonic(KindsOf(admit(l, t), c))
           /\ admit(l, t).transitions = Append(l.transitions, t)
           /\ admit(l, t).state = [l.state EXCEPT ![t.claim] = t.kind]
           /\ l.state[t.claim] <= t.kind
<1> DEFINE last == l.state[t.claim]
           m == admit(l, t)
<1>1. t.claim \in Claims /\ t.kind \in Kinds
  BY DEF Transitions
<1>2. l.transitions \in Seq(Transitions) /\ l.state \in [Claims -> 0..KindSealed]
  BY DEF LifeLogs
<1>3. last \in 0..KindSealed /\ Gate(last, t.kind)
  BY <1>1, <1>2 DEF check, Gate
<1> HIDE DEF last
<1>4. last <= t.kind
  BY <1>1, <1>3 DEF Gate, Kinds, KindFiled, KindAdjudicated, KindResolved, KindSealed
<1>5. m.transitions = Append(l.transitions, t)
  BY DEF admit
<1>6. m.state = [l.state EXCEPT ![t.claim] = t.kind]
  <2>1. m.state = [l.state EXCEPT ![t.claim] = IF t.kind > last THEN t.kind ELSE last]
    BY DEF admit, last
  <2>2. (IF t.kind > last THEN t.kind ELSE last) = t.kind
    BY <1>1, <1>3, <1>4 DEF Kinds, KindFiled, KindSealed
  <2>3. QED
    BY <2>1, <2>2
<1>7. ASSUME NEW c \in Claims
      PROVE  /\ KindsOf(m, c) \in Seq(Kinds) /\ Monotonic(KindsOf(m, c))
             /\ Ends(KindsOf(m, c), m.state[c])
  <2>1. KindsOf(l, c) \in Seq(Kinds) /\ Monotonic(KindsOf(l, c)) /\ Ends(KindsOf(l, c), l.state[c])
    BY DEF Furthest, Ends
  <2>2. CASE t.claim = c
    <3>1. KindsOf(m, c) = Append(KindsOf(l, c), t.kind)
      BY <2>2, KindsAppend
    <3>2. m.state[c] = t.kind
      BY <1>2, <1>6, <2>2
    <3>3. l.state[c] = last
      BY <2>2 DEF last
    <3>4. Monotonic(Append(KindsOf(l, c), t.kind)) /\ Ends(Append(KindsOf(l, c), t.kind), t.kind)
      BY <1>1, <1>3, <2>1, <3>3, MonotonicAppend
    <3>5. Append(KindsOf(l, c), t.kind) \in Seq(Kinds)
      BY <1>1, <2>1
    <3>6. QED
      BY <3>1, <3>2, <3>4, <3>5
  <2>3. CASE t.claim # c
    <3>1. KindsOf(m, c) = KindsOf(l, c)
      BY <2>3, KindsAppend
    <3>2. m.state[c] = l.state[c]
      BY <1>2, <1>6, <2>3
    <3>3. QED
      BY <2>1, <3>1, <3>2
  <2>4. QED
    BY <2>2, <2>3
<1>8. ASSUME NEW i \in DOMAIN m.transitions
      PROVE  m.transitions[i].kind <= m.state[m.transitions[i].claim]
  <2> DEFINE n == Len(l.transitions)
  <2>1. n \in Nat /\ i \in 1..n + 1 /\ DOMAIN l.transitions = 1..n
    BY <1>2, <1>5, <1>8
  <2>2. CASE i = n + 1
    <3>1. m.transitions[i] = t
      BY <1>2, <1>5, <2>2
    <3>2. m.state[t.claim] = t.kind /\ t.kind \in Int
      BY <1>1, <1>2, <1>6 DEF Kinds, KindFiled, KindSealed
    <3>3. QED
      BY <3>1, <3>2
  <2>3. CASE i # n + 1
    <3> DEFINE u == l.transitions[i]
    <3>1. i \in 1..n /\ m.transitions[i] = u /\ u \in Transitions
      BY <1>2, <1>5, <2>1, <2>3
    <3>2. u.claim \in Claims /\ u.kind \in Int /\ u.kind <= l.state[u.claim]
      BY <2>1, <3>1 DEF Furthest, Transitions, Kinds, KindFiled, KindSealed
    <3> HIDE DEF u
    <3>3. l.state[u.claim] \in Int /\ t.kind \in Int /\ last \in Int
      BY <1>1, <1>2, <1>3, <3>2 DEF Kinds, KindFiled, KindSealed
    <3>4. CASE u.claim = t.claim
      <4>1. m.state[u.claim] = t.kind /\ l.state[u.claim] = last
        BY <1>1, <1>2, <1>6, <3>4 DEF last
      <4>2. QED
        BY <1>4, <3>1, <3>2, <3>3, <4>1
    <3>5. CASE u.claim # t.claim
      <4>1. m.state[u.claim] = l.state[u.claim]
        BY <1>2, <1>6, <3>2, <3>5
      <4>2. QED
        BY <3>1, <3>2, <4>1
    <3>6. QED
      BY <3>4, <3>5
  <2>4. QED
    BY <2>2, <2>3
<1> HIDE DEF m
<1>9. Furthest(m)
  BY <1>7, <1>8 DEF Furthest, Ends
<1>10. QED
  BY <1>4, <1>5, <1>6, <1>7, <1>9 DEF m, last

-----------------------------------------------------------------------------
(* Standing. *)

\* Counting the places of a sequence without repetitions counts its elements.
LEMMA PlacesCountElements ==
    ASSUME NEW s \in Seq(Assessments), NEW W,
           \A i, j \in DOMAIN s : s[i] = s[j] => i = j
    PROVE  Cardinality({i \in DOMAIN s : s[i] \in W}) = Cardinality({a \in Range(s) : a \in W})
<1> DEFINE I == {i \in DOMAIN s : s[i] \in W}
           J == {a \in Range(s) : a \in W}
           f == [i \in I |-> s[i]]
<1>1. IsFiniteSet(I)
  <2>1. Len(s) \in Nat /\ I \in SUBSET (1..Len(s))
    OBVIOUS
  <2>2. IsFiniteSet(1..Len(s))
    BY <2>1, FS_Interval
  <2> HIDE DEF I
  <2>3. QED
    BY <2>1, <2>2, FS_Subset
<1>2. ASSUME NEW i \in I PROVE s[i] \in J
  BY DEF Range
<1>3. ASSUME NEW a \in J PROVE \E i \in I : s[i] = a
  BY DEF Range
<1>4. \A i, j \in I : s[i] = s[j] => i = j
  OBVIOUS
<1> HIDE DEF I, J
<1>5. f \in Bijection(I, J)
  <2>1. f \in [I -> J]
    BY <1>2
  <2>2. \A a \in J : \E i \in I : f[i] = a
    BY <1>3
  <2>3. \A i, j \in I : f[i] = f[j] => i = j
    BY <1>4
  <2> HIDE DEF f
  <2>4. QED
    BY <2>1, <2>2, <2>3 DEF Bijection, Injection, Surjection, IsInjective
<1>6. Cardinality(J) = Cardinality(I)
  <2>1. ExistsBijection(I, J)
    BY <1>5 DEF ExistsBijection
  <2>2. QED
    BY <1>1, <2>1, FS_Bijection
<1>7. QED
  BY <1>6 DEF I, J

\* The store's uniqueness leaves Standing's own key nothing to drop.
LEMMA EachCounted ==
    ASSUME NEW b \in Books, KeysDiffer(b), NEW m \in Members
    PROVE  /\ b.bySubject[m] \in Seq(Assessments)
           /\ Counted(b, m) = DOMAIN b.bySubject[m]
           /\ \A i, j \in DOMAIN b.bySubject[m] : b.bySubject[m][i] = b.bySubject[m][j] => i = j
<1> DEFINE about == b.bySubject[m]
<1>1. about \in Seq(Assessments)
  BY DEF Books
<1>2. \A i, j \in DOMAIN about : StoreKey(about[i]) = StoreKey(about[j]) => i = j
  BY DEF KeysDiffer
<1>3. \A a : StandingKey(a) = StoreKey(a)
  BY DEF StandingKey, StoreKey
<1> HIDE DEF about
<1>4. ASSUME NEW i \in DOMAIN about, NEW j \in 1..i - 1
      PROVE  StandingKey(about[j]) # StandingKey(about[i])
  <2>1. j \in DOMAIN about /\ j # i
    BY <1>1
  <2>2. QED
    BY <1>2, <1>3, <2>1
<1>5. {i \in DOMAIN about : \A j \in 1..i - 1 : StandingKey(about[j]) # StandingKey(about[i])}
        = DOMAIN about
  BY <1>4
<1>6. \A i, j \in DOMAIN about : about[i] = about[j] => i = j
  BY <1>2
<1>7. QED
  BY <1>1, <1>5, <1>6 DEF about, Counted

LEMMA StandingCounts ==
    ASSUME book \in Books, KeysDiffer(book)
    PROVE  StandingCountsEach
<1>1. SUFFICES
        ASSUME NEW m \in Members, NEW r \in Relations
        PROVE  LET about == {a \in Range(book.bySubject[m]) : a.relation = r}
                   served == ServedStanding(m)[r]
               IN /\ \A v \in Levels :
                        /\ served.overall[v] = Cardinality({a \in about : a.level = v})
                        /\ \A c \in Categories :
                              served.byCategory[c][v]
                                = Cardinality({a \in about : a.category = c /\ a.level = v})
                  /\ served.harm = Cardinality({a \in about : a.level = LevelNoTrust})
  BY DEF StandingCountsEach
<1> DEFINE s == book.bySubject[m]
           about == {a \in Range(s) : a.relation = r}
           served == ServedStanding(m)[r]
<1>2. /\ s \in Seq(Assessments) /\ Counted(book, m) = DOMAIN s
      /\ \A i, j \in DOMAIN s : s[i] = s[j] => i = j
  BY EachCounted
<1>3. \A i \in DOMAIN s : s[i] \in Assessments
  BY <1>2
<1>4. ASSUME NEW v
      PROVE  Overall(book, m, r, v) = Cardinality({a \in about : a.level = v})
  <2> DEFINE W == {a \in Assessments : a.relation = r /\ a.level = v}
  <2>1. Overall(book, m, r, v)
          = Cardinality({i \in Counted(book, m) : s[i].relation = r /\ s[i].level = v})
    BY DEF Overall
  <2> HIDE DEF s
  <2>2. {i \in Counted(book, m) : s[i].relation = r /\ s[i].level = v} = {i \in DOMAIN s : s[i] \in W}
    BY <1>2, <1>3
  <2>3. {a \in about : a.level = v} = {a \in Range(s) : a \in W}
    BY <1>3 DEF Range
  <2> HIDE DEF W, about
  <2>4. Cardinality({i \in DOMAIN s : s[i] \in W}) = Cardinality({a \in Range(s) : a \in W})
    BY <1>2, PlacesCountElements
  <2>5. QED
    BY <2>1, <2>2, <2>3, <2>4, Zenon
<1>5. ASSUME NEW v, NEW c
      PROVE  Count(book, m, r, c, v) = Cardinality({a \in about : a.category = c /\ a.level = v})
  <2> DEFINE W == {a \in Assessments : a.relation = r /\ a.category = c /\ a.level = v}
  <2>1. Count(book, m, r, c, v)
          = Cardinality({i \in Counted(book, m) :
                            s[i].relation = r /\ s[i].category = c /\ s[i].level = v})
    BY DEF Count
  <2> HIDE DEF s
  <2>2. {i \in Counted(book, m) : s[i].relation = r /\ s[i].category = c /\ s[i].level = v}
          = {i \in DOMAIN s : s[i] \in W}
    BY <1>2, <1>3
  <2>3. {a \in about : a.category = c /\ a.level = v} = {a \in Range(s) : a \in W}
    BY <1>3 DEF Range
  <2> HIDE DEF W, about
  <2>4. Cardinality({i \in DOMAIN s : s[i] \in W}) = Cardinality({a \in Range(s) : a \in W})
    BY <1>2, PlacesCountElements
  <2>5. QED
    BY <2>1, <2>2, <2>3, <2>4, Zenon
<1>6. /\ \A v \in Levels : served.overall[v] = Overall(book, m, r, v)
      /\ \A v \in Levels, c \in Categories : served.byCategory[c][v] = Count(book, m, r, c, v)
      /\ served.harm = Overall(book, m, r, LevelNoTrust)
  BY DEF ServedStanding, Harm
<1> HIDE DEF s, about, served
<1>7. /\ \A v \in Levels :
            /\ served.overall[v] = Cardinality({a \in about : a.level = v})
            /\ \A c \in Categories :
                  served.byCategory[c][v] = Cardinality({a \in about : a.category = c /\ a.level = v})
      /\ served.harm = Cardinality({a \in about : a.level = LevelNoTrust})
  BY <1>4, <1>5, <1>6
<1>8. QED
  BY <1>7 DEF served, about, s

-----------------------------------------------------------------------------
(* The steps. *)

LEMMA OpeningOfClaim ==
    ASSUME NEW o \in Openings
    PROVE  /\ o.id \in Claims
           /\ OpeningOf(o.id).complainant = o.complainant
           /\ OpeningOf(o.id).respondent = o.respondent
           /\ OpeningOf(o.id).exchange = o.exchange
<1> DEFINE p == OpeningOf(o.id)
<1>1. p \in Openings /\ p.id = o.id
  BY DEF OpeningOf
<1>2. o.id \in Claims
  BY RequestAssumption
<1> HIDE DEF p
<1>3. <<o.complainant, o.respondent, o.exchange, o.signer>>
        = <<p.complainant, p.respondent, p.exchange, p.signer>>
  BY <1>1, RequestAssumption
<1>4. p.complainant = o.complainant /\ p.respondent = o.respondent /\ p.exchange = o.exchange
  BY <1>3
<1>5. QED
  BY <1>2, <1>4 DEF p

LEMMA RangeAppend ==
    ASSUME NEW S, NEW s \in Seq(S), NEW x \in S
    PROVE  Range(Append(s, x)) = Range(s) \cup {x}
<1> DEFINE n == Len(s)
           longer == Append(s, x)
<1>1. /\ n \in Nat /\ DOMAIN s = 1..n /\ DOMAIN longer = 1..n + 1
      /\ longer[n + 1] = x /\ \A i \in 1..n : longer[i] = s[i]
  OBVIOUS
<1> HIDE DEF longer, n
<1>2. \A i : i \in 1..n + 1 <=> i \in 1..n \/ i = n + 1
  BY <1>1
<1>3. Range(longer) \subseteq Range(s) \cup {x}
  BY <1>1, <1>2 DEF Range
<1>4. Range(s) \subseteq Range(longer) /\ x \in Range(longer)
  BY <1>1, <1>2 DEF Range
<1>5. QED
  BY <1>3, <1>4 DEF longer

\* A transition that the gate passes leaves the log in order and holds on to the others.
LEMMA TransitionTaken ==
    ASSUME NEW l \in LifeLogs, Ordered(l), NEW t \in Transitions, check(l, t)
    PROVE  /\ AppendTransition(l, t) \in LifeLogs
           /\ Ordered(AppendTransition(l, t))
           /\ AppendTransition(l, t).state = [l.state EXCEPT ![t.claim] = t.kind]
           /\ Range(AppendTransition(l, t).transitions) = Range(l.transitions) \cup {t}
<1> DEFINE m == admit(l, t)
<1>1. AppendTransition(l, t) = m
  BY DEF AppendTransition
<1>2. /\ Furthest(m) /\ \A c \in Claims : Monotonic(KindsOf(m, c))
      /\ m.transitions = Append(l.transitions, t)
      /\ m.state = [l.state EXCEPT ![t.claim] = t.kind]
  BY GateKeepsOrder DEF Ordered
<1>3. m \in LifeLogs
  BY AdmitTyped
<1>4. l.transitions \in Seq(Transitions)
  BY DEF LifeLogs
<1>5. Replay(Append(l.transitions, t)) = [ok |-> TRUE, log |-> m]
  BY <1>4, ReplayAppend DEF Ordered
<1>6. Range(Append(l.transitions, t)) = Range(l.transitions) \cup {t}
  BY <1>4, RangeAppend
<1> HIDE DEF m
<1>7. Ordered(m)
  BY <1>2, <1>5 DEF Ordered
<1>8. QED
  BY <1>1, <1>2, <1>3, <1>6, <1>7

\* Nothing a verdict or a claim rests on goes away.
Grows ==
    /\ \A i \in DOMAIN log : i \in DOMAIN log' /\ log'[i] = log[i]
    /\ Range(life.transitions) \subseteq Range(life.transitions)'
    /\ given \subseteq given'

LEMMA GroundsKept ==
    ASSUME Grows, NEW a, Grounded(a)
    PROVE  Grounded(a)'
<1>1. PICK i \in DOMAIN log :
         LET parties == {log[i].proposer, log[i].acceptor}
         IN /\ log[i].id = a.exchange
            /\ a.assessor \in parties
            /\ IF a.relation = "trade"
               THEN a.subject \in parties
               ELSE /\ a.subject = Operator
                    /\ \E t \in Range(life.transitions) :
                          /\ t.kind = KindFiled /\ t.exchange = a.exchange
                          /\ t.claim \in given
                          /\ parties = {OpeningOf(t.claim).complainant, OpeningOf(t.claim).respondent}
  BY DEF Grounded
<1>2. i \in DOMAIN log' /\ log'[i] = log[i]
  BY DEF Grows
<1>3. Range(life.transitions) \subseteq Range(life.transitions)' /\ given \subseteq given'
  BY DEF Grows
<1>4. CASE a.relation = "trade"
  BY <1>1, <1>2, <1>4 DEF Grounded
<1>5. CASE a.relation # "trade"
  BY <1>1, <1>2, <1>3, <1>5 DEF Grounded
<1>6. QED
  BY <1>4, <1>5

LEMMA RestsKept ==
    ASSUME Grows, NEW x, NEW c, Rests(x, c)
    PROVE  Rests(x, c)'
BY DEF Grows, Rests

LEMMA InitIInv == Init => IInv
<1> SUFFICES ASSUME Init PROVE IInv
  OBVIOUS
<1> USE DEF Init
<1>1. KindSealed \in Nat /\ KindSealed = 4
  BY DEF KindSealed
<1>2. Typed
  <2>1. life \in LifeLogs
    BY EmptyLogTyped
  <2>2. book \in Books
    BY DEF EmptyBook, Books
  <2>3. byMember \subseteq Members
    BY RequestAssumption
  <2>4. QED
    BY <2>1, <2>2, <2>3 DEF Typed
<1>3. life.transitions = <<>> /\ life.state = [c \in Claims |-> 0] /\ life \in LifeLogs
  BY EmptyLogTyped DEF EmptyLog
<1>4. Ordered(life)
  <2>1. <<>> \in Seq(Transitions) /\ Len(<<>>) = 0 /\ DOMAIN <<>> = {}
    OBVIOUS
  <2>2. Replay(<<>>) = [ok |-> TRUE, log |-> life]
    <3>1. PICK f : /\ Replaying(f, <<>>, 0)
                   /\ Replay(<<>>) = [ok |-> \A n \in 1..0 : check(f[n - 1], <<>>[n]), log |-> f[0]]
      BY <2>1, ReplayUnfolds
    <3>2. f[0] = life
      BY <3>1 DEF Replaying
    <3>3. (\A n \in 1..0 : check(f[n - 1], <<>>[n])) = TRUE
      OBVIOUS
    <3>4. QED
      BY <3>1, <3>2, <3>3
  <2>3. ASSUME NEW c \in Claims PROVE KindsOf(life, c) = <<>>
    <3>1. life.transitions \in Seq(Transitions) /\ Len(life.transitions) = 0
      BY <1>3, <2>1
    <3>2. PICK f : /\ Listing(f, life.transitions, c, Len(life.transitions))
                   /\ KindsOf(life, c) = f[Len(life.transitions)]
      BY <3>1, KindsUnfold
    <3>3. QED
      BY <3>1, <3>2 DEF Listing
  <2>4. Monotonic(<<>>)
    BY DEF Monotonic
  <2>5. Furthest(life)
    <3>1. \A c \in Claims : life.state[c] = 0 /\ KindsOf(life, c) = <<>>
      BY <1>3, <2>3
    <3>2. <<>> \in Seq(Kinds)
      OBVIOUS
    <3>3. DOMAIN life.transitions = {}
      BY <1>3, <2>1
    <3>4. QED
      BY <3>1, <3>2, <3>3, Zenon DEF Furthest
  <2>6. QED
    BY <1>3, <2>2, <2>3, <2>4, <2>5 DEF Ordered
<1>5. \A c \in Claims : Agrees(c)
  BY <1>3 DEF Agrees, KindFiled, KindAdjudicated
<1>6. \A x \in Exchanges : \A c \in disputesByExchange[x] : Rests(x, c)
  OBVIOUS
<1>7. \A m \in Members : book.bySubject[m] = <<>> /\ DOMAIN book.bySubject[m] = {}
  BY DEF EmptyBook
<1>8. KeysDiffer(book)
  BY <1>7 DEF KeysDiffer
<1>9. \A a \in Verdicts(book) : Grounded(a)
  BY <1>7 DEF Verdicts, Range
<1>10. QED
  BY <1>2, <1>4, <1>5, <1>6, <1>8, <1>9 DEF IInv

\* A step that leaves the claims and the book alone.
LEMMA Untouched ==
    ASSUME IInv, Typed', Grows,
           UNCHANGED <<cases, disputesByExchange, life, book, given>>
    PROVE  IInv'
<1>1. Ordered(life)'
  BY DEF IInv
<1>2. (\A c \in Claims : Agrees(c))'
  BY DEF IInv, Agrees
<1>3. (\A x \in Exchanges : \A c \in disputesByExchange[x] : Rests(x, c))'
  <2>1. \A x \in Exchanges : \A c \in disputesByExchange[x] : Rests(x, c)'
    BY RestsKept DEF IInv
  <2>2. QED
    BY <2>1
<1>4. KeysDiffer(book)'
  BY DEF IInv
<1>5. (\A a \in Verdicts(book) : Grounded(a))'
  <2>1. \A a \in Verdicts(book) : Grounded(a)'
    BY GroundsKept DEF IInv
  <2>2. Verdicts(book)' = Verdicts(book)
    OBVIOUS
  <2>3. QED
    BY <2>1, <2>2
<1>6. QED
  BY <1>1, <1>2, <1>3, <1>4, <1>5 DEF IInv

\* A step of a claim: one transition that the gate passes, recorded by the registry and
\* the receipts as it is in the log.
LEMMA ClaimStep ==
    ASSUME IInv, NEW t \in Transitions, check(life, t),
           life' = AppendTransition(life, t),
           UNCHANGED <<byMember, log, index, book>>,
           pending' \subseteq pending,
           cases' \in [Claims -> {"none", "open", "withdrawn"}],
           disputesByExchange' \in [Exchanges -> SUBSET Claims],
           given \subseteq given', given' \subseteq Claims,
           \A c \in Claims \ {t.claim} : cases'[c] = cases[c] /\ (c \in given' <=> c \in given),
           Agrees(t.claim)',
           \A x \in Exchanges : \A c \in disputesByExchange'[x] :
               c \in disputesByExchange[x] \/ Rests(x, c)'
    PROVE  IInv'
<1>1. life \in LifeLogs /\ Ordered(life) /\ t.claim \in Claims
  BY DEF IInv, Typed, Transitions
<1>2. /\ life' \in LifeLogs /\ Ordered(life')
      /\ life'.state = [life.state EXCEPT ![t.claim] = t.kind]
      /\ Range(life'.transitions) = Range(life.transitions) \cup {t}
  BY <1>1, TransitionTaken
<1>3. Grows
  BY <1>2 DEF Grows
<1>4. Typed'
  BY <1>2 DEF IInv, Typed
<1>5. Ordered(life)'
  BY <1>2
<1>6. (\A c \in Claims : Agrees(c))'
  <2>1. ASSUME NEW c \in Claims, c # t.claim PROVE Agrees(c)'
    <3>1. life'.state[c] = life.state[c]
      BY <1>1, <1>2, <2>1 DEF LifeLogs
    <3>2. cases'[c] = cases[c] /\ (c \in given' <=> c \in given)
      BY <2>1
    <3>3. Agrees(c)
      BY DEF IInv
    <3>4. QED
      BY <3>1, <3>2, <3>3 DEF Agrees
  <2>2. \A c \in Claims : Agrees(c)'
    BY <2>1
  <2>3. QED
    BY <2>2
<1>7. (\A x \in Exchanges : \A c \in disputesByExchange[x] : Rests(x, c))'
  <2>1. \A x \in Exchanges : \A c \in disputesByExchange'[x] : Rests(x, c)'
    BY <1>3, RestsKept DEF IInv
  <2>2. QED
    BY <2>1
<1>8. KeysDiffer(book)'
  BY DEF IInv
<1>9. (\A a \in Verdicts(book) : Grounded(a))'
  <2>1. \A a \in Verdicts(book) : Grounded(a)'
    BY <1>3, GroundsKept DEF IInv
  <2>2. Verdicts(book)' = Verdicts(book)
    OBVIOUS
  <2>3. QED
    BY <2>1, <2>2
<1>10. QED
  BY <1>4, <1>5, <1>6, <1>7, <1>8, <1>9 DEF IInv

LEMMA OpenDisputeStep ==
    ASSUME IInv, NEW o \in Openings, OpenDispute(o)
    PROVE  IInv'
<1> DEFINE t == transition(o.id, KindFiled, "opening", o.exchange)
<1> USE DEF KindFiled, KindAdjudicated, KindResolved, KindSealed
<1>1. CASE ~Opens(o)
  <2>1. UNCHANGED <<byMember, log, index, cases, disputesByExchange, life, book, given>>
        /\ pending' \subseteq pending
    BY <1>1 DEF OpenDispute
  <2>2. Typed'
    BY <2>1 DEF IInv, Typed
  <2>3. Grows
    BY <2>1 DEF Grows
  <2>4. QED
    BY <2>1, <2>2, <2>3, Untouched
<1>2. CASE Opens(o)
  <2>1. /\ o \in pending /\ pending' \subseteq pending
        /\ cases' = [cases EXCEPT ![o.id] = "open"]
        /\ disputesByExchange' = [disputesByExchange EXCEPT ![o.exchange] = @ \cup {o.id}]
        /\ life' = AppendTransition(life, t)
        /\ given' = given \cup (IF check(life, t) THEN {o.id} ELSE {})
        /\ UNCHANGED <<byMember, log, index, book>>
    BY <1>2 DEF OpenDispute
  <2>2. /\ o.id \in Claims
        /\ OpeningOf(o.id).complainant = o.complainant
        /\ OpeningOf(o.id).respondent = o.respondent
        /\ OpeningOf(o.id).exchange = o.exchange
    BY OpeningOfClaim
  <2>3. /\ t.log = LifeID /\ t.claim = o.id /\ t.kind = KindFiled /\ t.exchange = o.exchange
    BY DEF transition
  <2>4. t \in Transitions
    BY <2>2, <2>3 DEF Transitions, Kinds
  <2>5. o.id # ZeroHash /\ o.exchange # ZeroHash
    BY <2>1 DEF IInv, Typed, FilingVerifies
  <2>6. /\ cases \in [Claims -> {"none", "open", "withdrawn"}]
        /\ disputesByExchange \in [Exchanges -> SUBSET Claims]
        /\ life \in LifeLogs /\ Ordered(life) /\ given \subseteq Claims
    BY DEF IInv, Typed
  <2>7. life.state[o.id] = 0
    <3>1. cases[o.id] = "none" /\ Agrees(o.id)
      BY <1>2, <2>2 DEF Opens, IInv
    <3>2. QED
      BY <3>1 DEF Agrees
  <2> HIDE DEF t
  <2>8. t \notin Range(life.transitions)
    <3>1. ASSUME NEW i \in DOMAIN life.transitions PROVE life.transitions[i] # t
      <4>1. life.transitions[i].kind <= life.state[life.transitions[i].claim]
        BY <2>6 DEF Ordered, Furthest
      <4>2. QED
        BY <4>1, <2>3, <2>7
    <3>2. QED
      BY <3>1 DEF Range
  <2>9. check(life, t)
    BY <2>3, <2>5, <2>7, <2>8 DEF check
  <2>10. o.exchange \in Exchanges
    BY DEF Exchanges
  <2>11. given' = given \cup {o.id}
    BY <2>1, <2>9
  <2>12. /\ life'.state = [life.state EXCEPT ![o.id] = KindFiled]
         /\ Range(life'.transitions) = Range(life.transitions) \cup {t}
    BY <2>1, <2>3, <2>4, <2>6, <2>9, TransitionTaken
  <2>13. Agrees(t.claim)'
    <3>1. life'.state[o.id] = KindFiled
      BY <2>2, <2>6, <2>12 DEF LifeLogs
    <3>2. cases'[o.id] = "open"
      BY <2>1, <2>2, <2>6
    <3>3. Agrees(o.id)'
      BY <3>1, <3>2, <2>2, <2>5, <2>11 DEF Agrees
    <3>4. QED
      BY <3>3, <2>3
  <2>14. Rests(o.exchange, o.id)'
    <3>1. /\ index[o.exchange] \in DOMAIN log
          /\ log[index[o.exchange]].id = o.exchange
          /\ {log[index[o.exchange]].proposer, log[index[o.exchange]].acceptor}
               = {o.complainant, o.respondent}
      BY <1>2 DEF Opens, SealedBetween
    <3>2. \E i \in DOMAIN log' :
             /\ log'[i].id = o.exchange
             /\ {log'[i].proposer, log'[i].acceptor}
                  = {OpeningOf(o.id).complainant, OpeningOf(o.id).respondent}
      BY <2>1, <2>2, <3>1
    <3>3. \E u \in Range(life.transitions)' :
             u.kind = KindFiled /\ u.exchange = o.exchange /\ u.claim = o.id
      BY <2>3, <2>12
    <3>4. o.id \in given'
      BY <2>11
    <3>5. QED
      BY <3>2, <3>3, <3>4 DEF Rests
  <2>15. ASSUME NEW x \in Exchanges, NEW c \in disputesByExchange'[x]
         PROVE  c \in disputesByExchange[x] \/ Rests(x, c)'
    <3>1. CASE x = o.exchange /\ c = o.id
      BY <2>14, <3>1
    <3>2. CASE ~(x = o.exchange /\ c = o.id)
      BY <2>1, <2>6, <2>15, <3>2
    <3>3. QED
      BY <3>1, <3>2
  <2>16. \A c \in Claims \ {t.claim} : cases'[c] = cases[c] /\ (c \in given' <=> c \in given)
    BY <2>1, <2>3, <2>6, <2>11
  <2>17. cases' \in [Claims -> {"none", "open", "withdrawn"}]
    BY <2>1, <2>6
  <2>18. disputesByExchange' \in [Exchanges -> SUBSET Claims]
    BY <2>1, <2>2, <2>6
  <2>19. given \subseteq given' /\ given' \subseteq Claims
    BY <2>2, <2>6, <2>11
  <2>20. QED
    BY <2>1, <2>4, <2>9, <2>13, <2>15, <2>16, <2>17, <2>18, <2>19, ClaimStep
<1>3. QED
  BY <1>1, <1>2

LEMMA WithdrawDisputeStep ==
    ASSUME IInv, NEW w \in Withdrawals, WithdrawDispute(w)
    PROVE  IInv'
<1> DEFINE d == w.dispute
           t == transition(d, KindResolved, w.artifact, OpeningOf(d).exchange)
<1> USE DEF KindFiled, KindAdjudicated, KindResolved, KindSealed
<1>1. /\ cases[d] = "open"
      /\ cases' = [cases EXCEPT ![d] = "withdrawn"]
      /\ life' = AppendTransition(life, t)
      /\ UNCHANGED <<byMember, log, index, pending, disputesByExchange, book, given>>
  BY DEF WithdrawDispute
<1>2. d \in Claims
  BY RequestAssumption
<1>3. /\ t.log = LifeID /\ t.claim = d /\ t.kind = KindResolved /\ t.exchange = OpeningOf(d).exchange
  BY DEF transition
<1>4. t \in Transitions
  BY <1>2, <1>3 DEF Transitions, Kinds
<1>5. /\ cases \in [Claims -> {"none", "open", "withdrawn"}]
      /\ life \in LifeLogs /\ Ordered(life) /\ given \subseteq Claims
      /\ disputesByExchange \in [Exchanges -> SUBSET Claims]
  BY DEF IInv, Typed
<1> HIDE DEF t, d
<1>6. /\ life.state[d] \in {KindFiled, KindAdjudicated}
      /\ d \in given /\ d # ZeroHash /\ OpeningOf(d).exchange # ZeroHash
  BY <1>1, <1>2 DEF IInv, Agrees
<1>7. t \notin Range(life.transitions)
  <2>1. ASSUME NEW i \in DOMAIN life.transitions PROVE life.transitions[i] # t
    <3>1. life.transitions[i].kind <= life.state[life.transitions[i].claim]
      BY <1>5 DEF Ordered, Furthest
    <3>2. QED
      BY <3>1, <1>3, <1>6
  <2>2. QED
    BY <2>1 DEF Range
<1>8. check(life, t)
  BY <1>3, <1>6, <1>7 DEF check
<1>9. life'.state = [life.state EXCEPT ![d] = KindResolved]
  BY <1>1, <1>3, <1>4, <1>5, <1>8, TransitionTaken
<1>10. Agrees(t.claim)'
  <2>1. life'.state[d] = KindResolved
    BY <1>2, <1>5, <1>9 DEF LifeLogs
  <2>2. cases'[d] = "withdrawn"
    BY <1>1, <1>2, <1>5
  <2>3. Agrees(d)'
    BY <2>1, <2>2, <1>1, <1>6 DEF Agrees
  <2>4. QED
    BY <2>3, <1>3
<1>11. \A c \in Claims \ {t.claim} : cases'[c] = cases[c] /\ (c \in given' <=> c \in given)
  BY <1>1, <1>3, <1>5
<1>12. cases' \in [Claims -> {"none", "open", "withdrawn"}]
  BY <1>1, <1>5
<1>13. QED
  BY <1>1, <1>4, <1>5, <1>8, <1>10, <1>11, <1>12, ClaimStep

LEMMA AdjudicateStep ==
    ASSUME IInv, NEW t \in Panel, Adjudicate(t)
    PROVE  IInv'
<1> USE DEF KindFiled, KindAdjudicated, KindResolved, KindSealed
<1>1. /\ check(life, t)
      /\ life' = AppendTransition(life, t)
      /\ UNCHANGED <<byMember, log, index, pending, cases, disputesByExchange, book, given>>
  BY DEF Adjudicate
<1>2. t.claim \in Claims /\ t.kind \in {KindAdjudicated, KindSealed}
  BY <1>1, RequestAssumption DEF check
<1>3. t \in Transitions
  BY <1>2 DEF Transitions, Kinds
<1>4. /\ cases \in [Claims -> {"none", "open", "withdrawn"}]
      /\ life \in LifeLogs /\ Ordered(life) /\ given \subseteq Claims
      /\ disputesByExchange \in [Exchanges -> SUBSET Claims]
  BY DEF IInv, Typed
<1>5. life'.state[t.claim] = t.kind
  <2>1. life'.state = [life.state EXCEPT ![t.claim] = t.kind]
    BY <1>1, <1>3, <1>4, TransitionTaken
  <2>2. QED
    BY <2>1, <1>2, <1>4 DEF LifeLogs
<1>6. Agrees(t.claim)'
  <2>1. Agrees(t.claim) /\ life.state[t.claim] \in 0..4
    BY <1>2, <1>4 DEF IInv, LifeLogs
  <2>2. \/ t.kind = KindAdjudicated /\ life.state[t.claim] \in {KindFiled, KindAdjudicated}
        \/ t.kind = KindSealed /\ life.state[t.claim] = KindResolved
    BY <1>1, <1>2, <2>1 DEF check
  <2>3. QED
    BY <1>1, <1>5, <2>1, <2>2 DEF Agrees
<1>7. QED
  BY <1>1, <1>3, <1>4, <1>6, ClaimStep

LEMMA RecordAssessmentStep ==
    ASSUME IInv, NEW a \in Assessments, RecordAssessment(a)
    PROVE  IInv'
<1> DEFINE s == book.bySubject[a.subject]
<1>1. /\ WellFormed(a, byMember)
      /\ IF a.relation = "trade"
         THEN SealedMembers(a.exchange, a.assessor, a.subject)
         ELSE Adjudicated(a.exchange, a.assessor, a.subject)
      /\ StoreKey(a) \notin book.seen
      /\ book' = AppendVerdict(book, a)
      /\ UNCHANGED <<byMember, log, index, pending, cases, disputesByExchange, life, given>>
  BY DEF RecordAssessment
<1>2. a.subject \in Members
  BY <1>1 DEF WellFormed, IInv, Typed
<1>3. /\ book \in Books /\ book.bySubject \in [Members -> Seq(Assessments)]
      /\ KeysDiffer(book) /\ s \in Seq(Assessments)
  BY <1>2 DEF IInv, Typed, Books
<1>4. /\ book'.bySubject = [book.bySubject EXCEPT ![a.subject] = Append(s, a)]
      /\ book'.seen = book.seen \cup {StoreKey(a)}
      /\ book'.answers = book.answers
  BY <1>1 DEF AppendVerdict
<1>5. /\ book'.bySubject[a.subject] = Append(s, a)
      /\ \A m \in Members \ {a.subject} : book'.bySubject[m] = book.bySubject[m]
  BY <1>2, <1>3, <1>4
<1>6. Typed'
  <2>1. book'.bySubject \in [Members -> Seq(Assessments)]
    <3>1. Append(s, a) \in Seq(Assessments)
      BY <1>3
    <3>2. QED
      BY <1>3, <1>4, <3>1
  <2>2. book'.seen \in SUBSET {StoreKey(x) : x \in Assessments}
    BY <1>3, <1>4 DEF Books
  <2>3. book' \in Books
    BY <1>1, <1>3, <1>4, <2>1, <2>2 DEF Books, AppendVerdict
  <2>4. QED
    BY <1>1, <2>3 DEF IInv, Typed
<1>7. KeysDiffer(book')
  <2> DEFINE n == Len(s)
  <2>1. /\ n \in Nat /\ DOMAIN s = 1..n
        /\ DOMAIN Append(s, a) = 1..n + 1 /\ Append(s, a)[n + 1] = a
        /\ \A i \in 1..n : Append(s, a)[i] = s[i]
    BY <1>3
  <2>2. \A i \in 1..n : StoreKey(s[i]) \in book.seen
    BY <1>2, <1>3, <2>1 DEF KeysDiffer
  <2>3. \A i, j \in 1..n : StoreKey(s[i]) = StoreKey(s[j]) => i = j
    BY <1>2, <1>3, <2>1 DEF KeysDiffer
  <2> HIDE DEF n
  <2>4. ASSUME NEW m \in Members
        PROVE  /\ \A i \in DOMAIN book'.bySubject[m] : StoreKey(book'.bySubject[m][i]) \in book'.seen
               /\ \A i, j \in DOMAIN book'.bySubject[m] :
                     StoreKey(book'.bySubject[m][i]) = StoreKey(book'.bySubject[m][j]) => i = j
    <3>1. CASE m # a.subject
      BY <1>3, <1>4, <1>5, <3>1 DEF KeysDiffer
    <3>2. CASE m = a.subject
      <4> DEFINE longer == Append(s, a)
      <4>1. book'.bySubject[m] = longer
        BY <1>5, <3>2
      <4>2. DOMAIN longer = 1..n + 1 /\ longer[n + 1] = a /\ \A i \in 1..n : longer[i] = s[i]
        BY <2>1
      <4> HIDE DEF longer, s
      <4>3. \A i \in 1..n + 1 : i \in 1..n \/ i = n + 1
        BY <2>1
      <4>4. \A i \in 1..n : StoreKey(longer[i]) # StoreKey(a)
        BY <1>1, <2>2, <4>2
      <4>5. \A i \in 1..n + 1 : StoreKey(longer[i]) \in book'.seen
        BY <1>4, <2>2, <4>2, <4>3
      <4>6. ASSUME NEW i \in 1..n + 1, NEW j \in 1..n + 1, StoreKey(longer[i]) = StoreKey(longer[j])
            PROVE  i = j
        <5>1. CASE i \in 1..n /\ j \in 1..n
          BY <2>3, <4>2, <4>6, <5>1
        <5>2. CASE i = n + 1 \/ j = n + 1
          BY <4>2, <4>3, <4>4, <4>6, <5>2
        <5>3. QED
          BY <4>3, <5>1, <5>2
      <4>7. QED
        BY <4>1, <4>2, <4>5, <4>6
    <3>3. QED
      BY <3>1, <3>2
  <2>5. QED
    BY <2>4 DEF KeysDiffer
<1>8. ASSUME NEW v \in Verdicts(book') PROVE v \in Verdicts(book) \/ v = a
  <2>1. PICK m \in Members : v \in Range(book'.bySubject[m])
    BY <1>8 DEF Verdicts
  <2>2. CASE m # a.subject
    BY <1>5, <2>1, <2>2 DEF Verdicts
  <2>3. CASE m = a.subject
    <3>1. v \in Range(s) \cup {a}
      <4>1. Range(Append(s, a)) = Range(s) \cup {a}
        BY <1>3, RangeAppend
      <4>2. QED
        BY <1>5, <2>1, <2>3, <4>1
    <3>2. QED
      BY <1>2, <3>1 DEF Verdicts
  <2>4. QED
    BY <2>2, <2>3
<1>9. Grounded(a)
  <2>1. CASE a.relation = "trade"
    <3>1. SealedBetween(a.exchange, a.assessor, a.subject)
      BY <1>1, <2>1 DEF SealedMembers
    <3>2. /\ index[a.exchange] \in DOMAIN log
          /\ log[index[a.exchange]].id = a.exchange
          /\ {log[index[a.exchange]].proposer, log[index[a.exchange]].acceptor}
               = {a.assessor, a.subject}
      BY <3>1 DEF SealedBetween
    <3>3. QED
      BY <2>1, <3>2 DEF Grounded
  <2>2. CASE a.relation # "trade"
    <3>1. PICK c \in disputesByExchange[a.exchange] :
             a.assessor \in {OpeningOf(c).complainant, OpeningOf(c).respondent}
      BY <1>1, <2>2 DEF Adjudicated
    <3>2. a.subject = Operator
      BY <1>1, <2>2 DEF Adjudicated
    <3>3. a.exchange \in Exchanges
      BY DEF Exchanges
    <3>4. Rests(a.exchange, c)
      BY <3>1, <3>3 DEF IInv
    <3>5. PICK i \in DOMAIN log :
             /\ log[i].id = a.exchange
             /\ {log[i].proposer, log[i].acceptor} = {OpeningOf(c).complainant, OpeningOf(c).respondent}
      BY <3>4 DEF Rests
    <3>6. PICK t \in Range(life.transitions) : t.kind = KindFiled /\ t.exchange = a.exchange /\ t.claim = c
      BY <3>4 DEF Rests
    <3>7. c \in given
      BY <3>4 DEF Rests
    <3>8. QED
      BY <2>2, <3>1, <3>2, <3>5, <3>6, <3>7 DEF Grounded
  <2>3. QED
    BY <2>1, <2>2
<1>10. (\A v \in Verdicts(book) : Grounded(v))'
  <2>1. Grows
    BY <1>1 DEF Grows
  <2>2. \A v \in Verdicts(book') : Grounded(v)'
    BY <1>8, <1>9, <2>1, GroundsKept DEF IInv
  <2>3. QED
    BY <2>2
<1>11. (\A x \in Exchanges : \A c \in disputesByExchange[x] : Rests(x, c))'
  BY <1>1 DEF IInv, Rests
<1>12. (\A c \in Claims : Agrees(c))'
  BY <1>1 DEF IInv, Agrees
<1>13. Ordered(life)'
  BY <1>1 DEF IInv
<1>14. QED
  BY <1>6, <1>7, <1>10, <1>11, <1>12, <1>13 DEF IInv

LEMMA AnswerAssessmentStep ==
    ASSUME IInv, NEW an \in Answers, AnswerAssessment(an)
    PROVE  IInv'
<1>1. /\ book' = [book EXCEPT !.answers = @ \cup {an}]
      /\ UNCHANGED <<byMember, log, index, pending, cases, disputesByExchange, life, given>>
  BY DEF AnswerAssessment
<1>2. book \in Books
  BY DEF IInv, Typed
<1>3. book' \in Books /\ book'.bySubject = book.bySubject /\ book'.seen = book.seen
  BY <1>1, <1>2 DEF Books
<1>4. Typed'
  BY <1>1, <1>3 DEF IInv, Typed
<1>5. KeysDiffer(book)'
  BY <1>3 DEF IInv, KeysDiffer
<1>6. (\A v \in Verdicts(book) : Grounded(v))'
  <2>1. Verdicts(book') = Verdicts(book)
    BY <1>3 DEF Verdicts
  <2>2. Grows
    BY <1>1 DEF Grows
  <2>3. \A v \in Verdicts(book') : Grounded(v)'
    BY <2>1, <2>2, GroundsKept DEF IInv
  <2>4. QED
    BY <2>3
<1>7. (\A x \in Exchanges : \A c \in disputesByExchange[x] : Rests(x, c))'
  BY <1>1 DEF IInv, Rests
<1>8. (\A c \in Claims : Agrees(c))'
  BY <1>1 DEF IInv, Agrees
<1>9. Ordered(life)'
  BY <1>1 DEF IInv
<1>10. QED
  BY <1>4, <1>5, <1>6, <1>7, <1>8, <1>9 DEF IInv

LEMMA NextIInv == IInv /\ [Next]_vars => IInv'
<1> SUFFICES ASSUME IInv, [Next]_vars PROVE IInv'
  OBVIOUS
<1>1. ASSUME NEW m \in Members, Register(m) PROVE IInv'
  <2>1. /\ byMember' = byMember \cup {m}
        /\ UNCHANGED <<log, index, pending, cases, disputesByExchange, life, book, given>>
    BY <1>1 DEF Register
  <2>2. Typed'
    BY <2>1 DEF IInv, Typed
  <2>3. Grows
    BY <2>1 DEF Grows
  <2>4. QED
    BY <2>1, <2>2, <2>3, Untouched
<1>2. ASSUME NEW e \in Entries, AppendDrop(e) PROVE IInv'
  <2>1. /\ log' = Append(log, e)
        /\ UNCHANGED <<byMember, pending, cases, disputesByExchange, life, book, given>>
    BY <1>2 DEF AppendDrop, appendEntry
  <2>2. log \in Seq(Entries)
    BY DEF IInv, Typed
  <2>3. log' \in Seq(Entries) /\ \A i \in DOMAIN log : i \in DOMAIN log' /\ log'[i] = log[i]
    BY <2>1, <2>2
  <2>4. Typed'
    BY <2>1, <2>3 DEF IInv, Typed
  <2>5. Grows
    BY <2>1, <2>3 DEF Grows
  <2>6. QED
    BY <2>1, <2>4, <2>5, Untouched
<1>3. ASSUME NEW o \in Openings, AcceptFiling(o) PROVE IInv'
  <2>1. /\ FilingVerifies(o) /\ pending' = pending \cup {o}
        /\ UNCHANGED <<byMember, log, index, cases, disputesByExchange, life, book, given>>
    BY <1>3 DEF AcceptFiling
  <2>2. Typed'
    BY <2>1 DEF IInv, Typed
  <2>3. Grows
    BY <2>1 DEF Grows
  <2>4. QED
    BY <2>1, <2>2, <2>3, Untouched
<1>4. ASSUME NEW o \in Openings, OpenDispute(o) PROVE IInv'
  BY <1>4, OpenDisputeStep
<1>5. ASSUME NEW w \in Withdrawals, WithdrawDispute(w) PROVE IInv'
  BY <1>5, WithdrawDisputeStep
<1>6. ASSUME NEW t \in Panel, Adjudicate(t) PROVE IInv'
  BY <1>6, AdjudicateStep
<1>7. ASSUME NEW a \in Assessments, RecordAssessment(a) PROVE IInv'
  BY <1>7, RecordAssessmentStep
<1>8. ASSUME NEW an \in Answers, AnswerAssessment(an) PROVE IInv'
  BY <1>8, AnswerAssessmentStep
<1>9. CASE UNCHANGED vars
  <2>1. UNCHANGED <<byMember, log, index, pending, cases, disputesByExchange, life, book, given>>
    BY <1>9 DEF vars
  <2>2. Typed'
    BY <2>1 DEF IInv, Typed
  <2>3. Grows
    BY <2>1 DEF Grows
  <2>4. QED
    BY <2>1, <2>2, <2>3, Untouched
<1>10. QED
  BY <1>1, <1>2, <1>3, <1>4, <1>5, <1>6, <1>7, <1>8, <1>9 DEF Next

LEMMA Invariance == Spec => []IInv
BY InitIInv, NextIInv, PTL DEF Spec

\* The registry, the receipts and the lifecycle log stay in step whatever is opened,
\* withdrawn, ruled on or sealed in whatever order: handleOpenDispute and
\* handleWithdrawDispute change the registry before the log, and the log never refuses
\* what the registry took; the log reopens from its store as it was left.
THEOREM LifecycleFollows == Spec => []LifecycleFollowsCases
<1>1. IInv => LifecycleFollowsCases
  BY DEF IInv, Ordered, Agrees, LifecycleFollowsCases
<1>2. QED
  BY <1>1, Invariance, PTL

\* Every verdict that handleRecordAssessment ever admitted rests on a drop of its
\* parties, and one about the operator on a filed and receipted claim of the assessor.
THEOREM VerdictsGrounded == Spec => []VerdictsAreGrounded
<1>1. IInv => VerdictsAreGrounded
  BY DEF IInv, Grounded, VerdictsAreGrounded
<1>2. QED
  BY <1>1, Invariance, PTL

\* What handleStanding serves of a member counts every verdict of the store once, in its
\* relation, in its category and over all: MemStore's uniqueness and Standing's own key
\* agree on which verdicts are the same.
THEOREM StandingIsComplete == Spec => []StandingCountsEach
<1>1. IInv => StandingCountsEach
  BY StandingCounts DEF IInv, Typed
<1>2. QED
  BY <1>1, Invariance, PTL
=============================================================================
