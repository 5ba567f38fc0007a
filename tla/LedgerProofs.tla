---------------------------- MODULE LedgerProofs ----------------------------
(***************************************************************************)
(* Proofs about Ledger for any number of accounts and instances, any word  *)
(* width, any spends and policy changes, and a store of any length that    *)
(* may be written around the ledgers.                                      *)
(***************************************************************************)
EXTENDS Ledger, WellFoundedInduction, TLAPS

USE NAssumption, MaxIntAssumption

-----------------------------------------------------------------------------
(* The rules. *)

\* int64 arithmetic is exact while the result is in range (applySpend).
LEMMA WrapExact ==
    ASSUME NEW x \in MinInt..MaxInt
    PROVE  Wrap(x) = x
BY DEF Wrap, MinInt

LEMMA GenesisType == Genesis \in State
<1>1. [a \in Accounts |-> 0] \in [Accounts -> MinInt..MaxInt]
  BY DEF MinInt
<1>2. [a \in Accounts |-> 0] \in [Accounts -> Nat]
  OBVIOUS
<1>3. GenesisPolicy \in [mode : Modes, cap : 0..MaxInt]
  BY GenesisAssumption
<1>4. QED
  BY <1>1, <1>2, <1>3 DEF Genesis, State

\* An admitted spend moves both balances by its exact amount (applySpend).
LEMMA ApplySpendExact ==
    ASSUME NEW g \in State, NEW s \in Spends, AdmitSpend(g, s)
    PROVE  /\ s.from \in Accounts /\ s.to \in Accounts /\ s.from # s.to
           /\ s.amount \in 1..MaxInt
           /\ g.bal[s.from] - s.amount \in MinInt..MaxInt
           /\ g.bal[s.to] + s.amount \in MinInt..MaxInt
           /\ g.bal[s.from] - s.amount >= -g.pol.cap
           /\ ApplySpend(g, s) =
                [g EXCEPT !.bal = [g.bal EXCEPT ![s.from] = g.bal[s.from] - s.amount,
                                                ![s.to] = g.bal[s.to] + s.amount],
                          !.nonce = [g.nonce EXCEPT ![s.from] = s.nonce]]
<1>1. s \in Spend
  BY SpendsAssumption
<1>2. s.from \in Accounts /\ s.to \in Accounts /\ s.amount \in Nat /\ s.nonce \in Nat
  BY <1>1 DEF Spend
<1>3. g.bal \in [Accounts -> MinInt..MaxInt] /\ g.nonce \in [Accounts -> Nat] /\ g.pol.cap \in 0..MaxInt
  BY DEF State
<1>4. s.from # s.to /\ s.amount \in 1..MaxInt
  BY <1>2 DEF AdmitSpend
<1>5. /\ g.bal[s.from] - s.amount \in MinInt..MaxInt
      /\ g.bal[s.to] + s.amount \in MinInt..MaxInt
      /\ g.bal[s.from] - s.amount >= -g.pol.cap
  BY <1>2, <1>3, <1>4 DEF AdmitSpend, MinInt
<1>6. /\ Wrap(g.bal[s.from] - s.amount) = g.bal[s.from] - s.amount
      /\ Wrap(g.bal[s.to] + s.amount) = g.bal[s.to] + s.amount
  BY <1>5, WrapExact
<1>8. [g.bal EXCEPT ![s.from] = Wrap(@ - s.amount), ![s.to] = Wrap(@ + s.amount)]
      = [g.bal EXCEPT ![s.from] = g.bal[s.from] - s.amount, ![s.to] = g.bal[s.to] + s.amount]
  BY <1>2, <1>3, <1>4, <1>6
<1>7. QED
  BY <1>2, <1>4, <1>5, <1>8 DEF ApplySpend

LEMMA ApplySpendType ==
    ASSUME NEW g \in State, NEW s \in Spends, AdmitSpend(g, s)
    PROVE  ApplySpend(g, s) \in State
<1>1. s.nonce \in Nat
  BY SpendsAssumption DEF Spend
<1> DEFINE b == [g.bal EXCEPT ![s.from] = g.bal[s.from] - s.amount,
                                                ![s.to] = g.bal[s.to] + s.amount]
           n == [g.nonce EXCEPT ![s.from] = s.nonce]
<1>2. b \in [Accounts -> MinInt..MaxInt]
  BY ApplySpendExact DEF State
<1>3. n \in [Accounts -> Nat]
  BY <1>1 DEF State
<1>4. ApplySpend(g, s) = [g EXCEPT !.bal = b, !.nonce = n]
  BY ApplySpendExact
<1> HIDE DEF b, n
<1>9. QED
  BY <1>2, <1>3, <1>4 DEF State

LEMMA ApplyPolicyChangeType ==
    ASSUME NEW g \in State, NEW c \in Changes, AdmitPolicyChange(g, c)
    PROVE  ApplyPolicyChange(g, c) \in State
<1>1. c.cap \in 0..MaxInt /\ c.version \in Nat /\ c.mode \in Modes
  BY ChangesAssumption DEF PolicyChange, AdmitPolicyChange
<1>2. [mode |-> c.mode, cap |-> c.cap] \in [mode : Modes, cap : 0..MaxInt]
  BY <1>1
<1>3. QED
  BY <1>1, <1>2 DEF ApplyPolicyChange, State

LEMMA StateFields ==
    ASSUME NEW g \in State
    PROVE  /\ g.bal \in [Accounts -> Int] /\ g.bal \in [Accounts -> MinInt..MaxInt]
           /\ g.nonce \in [Accounts -> Nat] /\ g.version \in Nat
           /\ g.pol \in [mode : Modes, cap : 0..MaxInt] /\ g.pol.cap \in Nat
<1>1. /\ g.bal \in [Accounts -> MinInt..MaxInt] /\ g.nonce \in [Accounts -> Nat]
      /\ g.version \in Nat /\ g.pol \in [mode : Modes, cap : 0..MaxInt]
  BY DEF State
<1>2. QED
  BY <1>1 DEF MinInt

\* The components of the state after a spend, and after a policy change.
LEMMA SpendFields ==
    ASSUME NEW g \in State, NEW s \in Spends, AdmitSpend(g, s)
    PROVE  /\ ApplySpend(g, s).bal = [g.bal EXCEPT ![s.from] = g.bal[s.from] - s.amount,
                                                   ![s.to] = g.bal[s.to] + s.amount]
           /\ ApplySpend(g, s).nonce = [g.nonce EXCEPT ![s.from] = s.nonce]
           /\ ApplySpend(g, s).pol = g.pol
           /\ ApplySpend(g, s).version = g.version
<1> DEFINE b == [g.bal EXCEPT ![s.from] = g.bal[s.from] - s.amount,
                              ![s.to] = g.bal[s.to] + s.amount]
           n == [g.nonce EXCEPT ![s.from] = s.nonce]
<1>1. ApplySpend(g, s) = [g EXCEPT !.bal = b, !.nonce = n]
  BY ApplySpendExact
<1> HIDE DEF b, n
<1>2. /\ ApplySpend(g, s).bal = b /\ ApplySpend(g, s).nonce = n
      /\ ApplySpend(g, s).pol = g.pol /\ ApplySpend(g, s).version = g.version
  BY <1>1 DEF State
<1>3. QED
  BY <1>2 DEF b, n

LEMMA PolicyFields ==
    ASSUME NEW g \in State, NEW c
    PROVE  /\ ApplyPolicyChange(g, c).bal = g.bal
           /\ ApplyPolicyChange(g, c).nonce = g.nonce
           /\ ApplyPolicyChange(g, c).pol = [mode |-> c.mode, cap |-> c.cap]
           /\ ApplyPolicyChange(g, c).version = c.version
BY DEF ApplyPolicyChange, State

\* Which records are admitted at all: spends and policy changes, as such.
LEMMA AdmitCases ==
    ASSUME NEW g, NEW r \in Records, Admit(g, r)
    PROVE  \/ r \in Spends /\ r.kind = "spend" /\ AdmitSpend(g, r) /\ Apply(g, r) = ApplySpend(g, r)
           \/ r \in Changes /\ r.kind = "policy" /\ AdmitPolicyChange(g, r)
                 /\ Apply(g, r) = ApplyPolicyChange(g, r)
BY SpendsAssumption, ChangesAssumption, ForeignAssumption
   DEF Admit, Apply, Records, Calls, Spend, PolicyChange

LEMMA ApplyType ==
    ASSUME NEW g \in State, NEW r \in Records, Admit(g, r)
    PROVE  Apply(g, r) \in State
BY AdmitCases, ApplySpendType, ApplyPolicyChangeType

-----------------------------------------------------------------------------
(* Sums. *)

\* s is the sequence of partial sums of b, and its last is zero.
Balanced(b) ==
    \E s \in [0..N -> Int] :
        /\ s[0] = 0
        /\ \A n \in 1..N : s[n] = s[n - 1] + b[n]
        /\ s[N] = 0

LEMMA BalancedZero == Balanced([a \in Accounts |-> 0])
<1> DEFINE s == [n \in 0..N |-> 0]
<1>1. s \in [0..N -> Int] /\ s[0] = 0 /\ s[N] = 0
  OBVIOUS
<1>2. \A n \in 1..N : s[n] = s[n - 1] + [a \in Accounts |-> 0][n]
  BY DEF Accounts
<1> HIDE DEF s
<1>3. QED
  BY <1>1, <1>2 DEF Balanced

\* A transfer shifts the partial sums between its two accounts and no others.
LEMMA BalancedTransfer ==
    ASSUME NEW b \in [Accounts -> Int], Balanced(b),
           NEW f \in Accounts, NEW t \in Accounts, f # t, NEW x \in Int
    PROVE  Balanced([b EXCEPT ![f] = b[f] - x, ![t] = b[t] + x])
<1> DEFINE c == [b EXCEPT ![f] = b[f] - x, ![t] = b[t] + x]
<1>1. PICK s \in [0..N -> Int] :
          s[0] = 0 /\ (\A n \in 1..N : s[n] = s[n - 1] + b[n]) /\ s[N] = 0
  BY DEF Balanced
<1> DEFINE d(n) == (IF n >= t THEN x ELSE 0) - (IF n >= f THEN x ELSE 0)
           u == [n \in 0..N |-> s[n] + d(n)]
<1>2. f \in 1..N /\ t \in 1..N
  BY DEF Accounts
<1>3. u \in [0..N -> Int] /\ u[0] = 0 /\ u[N] = 0
  <2>1. \A n \in 0..N : d(n) \in Int
    BY <1>2
  <2>2. d(0) = 0 /\ d(N) = 0
    BY <1>2
  <2> HIDE DEF d
  <2>3. QED
    BY <1>1, <2>1, <2>2
<1>4. ASSUME NEW n \in 1..N
      PROVE  u[n] = u[n - 1] + c[n]
  <2>1. n \in 0..N /\ n - 1 \in 0..N /\ s[n] \in Int /\ s[n - 1] \in Int /\ b[n] \in Int
    BY <1>1 DEF Accounts
  <2>2. s[n] = s[n - 1] + b[n]
    BY <1>1
  <2> DEFINE e == (IF n = t THEN x ELSE 0) - (IF n = f THEN x ELSE 0)
  <2>3. c[n] = b[n] + e
    <3>1. n \in Accounts
      BY DEF Accounts
    <3>2. CASE n = f
      BY <2>1, <3>1, <3>2
    <3>3. CASE n = t
      BY <2>1, <3>1, <3>3
    <3>4. CASE n # f /\ n # t
      BY <2>1, <3>1, <3>4
    <3>5. QED
      BY <3>2, <3>3, <3>4
  <2>4. d(n) = d(n - 1) + e
    BY <1>2, <2>1
  <2>5. u[n] = s[n] + d(n) /\ u[n - 1] = s[n - 1] + d(n - 1)
    BY <2>1
  <2>6. d(n - 1) \in Int /\ e \in Int
    BY <1>2, <2>1
  <2> HIDE DEF c, u, d, e
  <2>7. QED
    BY <2>1, <2>2, <2>3, <2>4, <2>5, <2>6
<1> HIDE DEF c, u
<1>5. QED
  BY <1>3, <1>4 DEF Balanced, c

\* Balanced says what the recursive Total computes.  The recursion has a
\* solution, the partial sums; two solutions that differ somewhere differ at a
\* least place, and there the recursion makes them equal.
LEMMA BalancedTotal ==
    ASSUME NEW b \in [Accounts -> Int], Balanced(b)
    PROVE  Total(b) = 0
<1>1. PICK s \in [0..N -> Int] :
          s[0] = 0 /\ (\A n \in 1..N : s[n] = s[n - 1] + b[n]) /\ s[N] = 0
  BY DEF Balanced
<1> DEFINE Solves(f) == f = [n \in 0..N |-> IF n = 0 THEN 0 ELSE f[n - 1] + b[n]]
           r == CHOOSE f : Solves(f)
<1>2. Solves(s)
  <2>1. ASSUME NEW n \in 0..N
        PROVE  s[n] = IF n = 0 THEN 0 ELSE s[n - 1] + b[n]
    BY <1>1
  <2>2. QED
    BY <1>1, <2>1
<1>3. Solves(r)
  <2> HIDE DEF Solves
  <2>1. QED
    BY <1>2
<1>4. \A n \in 0..N : r[n] = IF n = 0 THEN 0 ELSE r[n - 1] + b[n]
  <2> HIDE DEF r
  <2>1. QED
    BY <1>3
<1> HIDE DEF r, Solves
<1>5. r[N] = s[N]
  <2> DEFINE Bad == {n \in 0..N : r[n] # s[n]}
  <2>1. SUFFICES ASSUME Bad # {} PROVE FALSE
    OBVIOUS
  <2>2. Bad \subseteq Nat
    OBVIOUS
  <2>3. PICK m \in Bad : \A k \in Bad : ~(<<k, m>> \in OpToRel(<, Nat))
    <3> HIDE DEF Bad
    <3>1. QED
      BY <2>1, <2>2, NatLessThanWellFounded, WFMin
  <2>4. m \in 0..N /\ r[m] # s[m]
    OBVIOUS
  <2>5. m # 0
    BY <2>4, <1>1, <1>4
  <2>6. m - 1 \in 0..N /\ m - 1 \notin Bad
    <3>1. m - 1 \in Nat /\ m - 1 < m /\ m \in Nat
      BY <2>4, <2>5
    <3>2. <<m - 1, m>> \in OpToRel(<, Nat)
      BY <3>1 DEF OpToRel
    <3>3. m - 1 \in 0..N
      BY <2>4, <2>5
    <3> HIDE DEF Bad
    <3>4. QED
      BY <3>2, <3>3, <2>3
  <2>7. r[m - 1] = s[m - 1]
    BY <2>6
  <2>8. QED
    BY <2>4, <2>5, <2>7, <1>1, <1>4
<1>6. Total(b) = r[N]
  BY DEF Total, r, Solves
<1>7. QED
  BY <1>1, <1>5, <1>6

-----------------------------------------------------------------------------
(* The inductive invariant. *)

\* past folds the store, record by record, up to the first inadmissible one.
PastOK ==
    /\ Len(past) \in 1..(Len(store) + 1)
    /\ past[1] = Genesis
    /\ \A i \in 1..(Len(past) - 1) :
          /\ Admit(past[i], store[i])
          /\ past[i + 1] = Apply(past[i], store[i])
    /\ ~Verified => ~Admit(Now, store[Len(past)])

\* What an instance knows at each point of a call.
CallOK ==
    \A l \in Ledgers :
        /\ pc[l] \in {"admit", "append", "catchup"} => call[l] \in Calls
        /\ pc[l] = "append" => Admit(st[l], call[l])
        /\ target[l] <= Len(store)

IInv == TypeOK /\ PastOK /\ CallOK /\ NoFork

LEMMA NoCallFresh == NoCall \notin Calls
BY SpendsAssumption, ChangesAssumption, ForeignAssumption
   DEF Calls, Spend, PolicyChange

LEMMA InitIInv == Init => IInv
<1> SUFFICES ASSUME Init PROVE IInv
  OBVIOUS
<1>1. Genesis \in State
  BY GenesisType
<1>2. past \in Seq(State) /\ Len(past) = 1 /\ past[1] = Genesis
  BY <1>1 DEF Init
<1>3. store \in Seq(Records) /\ Len(store) = 0
  BY DEF Init
<1>4. TypeOK
  BY <1>1, <1>2, <1>3 DEF Init, TypeOK
<1>5. PastOK
  BY <1>2, <1>3 DEF PastOK, Verified
<1>6. CallOK /\ NoFork
  BY <1>2, <1>3 DEF Init, CallOK, NoFork
<1>7. QED
  BY <1>4, <1>5, <1>6 DEF IInv

\* A record lands: what was there stays, and the history goes on being the fold.
LEMMA LandFacts ==
    ASSUME TypeOK, PastOK, NEW r \in Records, Land(r)
    PROVE  /\ store' \in Seq(Records) /\ past' \in Seq(State)
           /\ Len(store') = Len(store) + 1
           /\ \A i \in 1..Len(store) : store'[i] = store[i]
           /\ store'[Len(store) + 1] = r
           /\ Len(past') \in Len(past)..(Len(past) + 1)
           /\ \A i \in 1..Len(past) : past'[i] = past[i]
           /\ PastOK'
<1>1. store \in Seq(Records) /\ past \in Seq(State)
  BY DEF TypeOK
<1>2. /\ store' \in Seq(Records)
      /\ Len(store') = Len(store) + 1
      /\ \A i \in 1..Len(store) : store'[i] = store[i]
      /\ store'[Len(store) + 1] = r
  BY <1>1 DEF Land
<1>3. Now \in State
  BY <1>1 DEF PastOK, Now
<1>4. CASE Verified /\ Admit(Now, r)
  <2>1. Apply(Now, r) \in State
    BY <1>3, <1>4, ApplyType
  <2>2. past' = Append(past, Apply(Now, r))
    BY <1>4 DEF Land
  <2>3. /\ past' \in Seq(State)
        /\ Len(past') = Len(past) + 1
        /\ \A i \in 1..Len(past) : past'[i] = past[i]
        /\ past'[Len(past) + 1] = Apply(past[Len(past)], r)
    BY <1>1, <2>1, <2>2 DEF Now
  <2>4. Len(past) = Len(store) + 1
    BY <1>4 DEF Verified
  <2>5. \A i \in 1..(Len(past') - 1) :
           Admit(past'[i], store'[i]) /\ past'[i + 1] = Apply(past'[i], store'[i])
    <3> SUFFICES ASSUME NEW i \in 1..(Len(past') - 1)
                 PROVE  Admit(past'[i], store'[i]) /\ past'[i + 1] = Apply(past'[i], store'[i])
      OBVIOUS
    <3>1. CASE i = Len(past)
      BY <3>1, <1>2, <1>4, <2>3, <2>4 DEF Now
    <3>2. CASE i # Len(past)
      <4>1. i \in 1..(Len(past) - 1) /\ i \in 1..Len(past) /\ i + 1 \in 1..Len(past) /\ i \in 1..Len(store)
        BY <1>1, <2>3, <2>4, <3>2
      <4>2. QED
        BY <4>1, <1>2, <2>3 DEF PastOK
    <3>3. QED
      BY <3>1, <3>2
  <2>6. PastOK'
    BY <1>1, <1>2, <2>3, <2>4, <2>5 DEF PastOK, Verified
  <2>7. QED
    BY <1>2, <2>3, <2>6, <1>1
<1>5. CASE ~(Verified /\ Admit(Now, r))
  <2>1. past' = past
    BY <1>5 DEF Land
  <2>2. Len(past) <= Len(store) + 1 /\ Len(past) \in Nat /\ Len(store) \in Nat
    BY <1>1 DEF PastOK
  <2>3. ~Admit(Now, store'[Len(past)])
    <3>1. CASE Verified
      BY <3>1, <1>2, <1>5 DEF Verified
    <3>2. CASE ~Verified
      BY <3>2, <1>2, <2>2 DEF Verified, PastOK
    <3>3. QED
      BY <3>1, <3>2
  <2>4. \A i \in 1..(Len(past) - 1) : store'[i] = store[i]
    BY <1>2, <2>2
  <2>5. PastOK'
    BY <1>2, <2>1, <2>2, <2>3, <2>4 DEF PastOK, Now
  <2>6. QED
    BY <1>1, <1>2, <2>1, <2>2, <2>5
<1>6. QED
  BY <1>4, <1>5

\* Land leaves the clauses about the other instances alone.
LEMMA LandFrame ==
    ASSUME IInv, NEW r \in Records, Land(r), NEW l \in Ledgers
    PROVE  /\ target[l] <= Len(store')
           /\ applied[l] + 1 \in 1..Len(past')
           /\ st[l] = past'[applied[l] + 1]
<1>1. applied[l] + 1 \in 1..Len(past) /\ st[l] = past[applied[l] + 1] /\ target[l] <= Len(store)
  BY DEF IInv, NoFork, CallOK
<1>2. /\ Len(store) \in Nat /\ Len(past) \in Nat /\ target[l] \in Nat
      /\ Len(past') \in Len(past)..(Len(past) + 1) /\ Len(store') = Len(store) + 1
      /\ \A i \in 1..Len(past) : past'[i] = past[i]
  BY LandFacts DEF IInv, TypeOK
<1>3. QED
  BY <1>1, <1>2

LEMMA NextIInv == IInv /\ [Next]_vars => IInv'
<1> SUFFICES ASSUME IInv, [Next]_vars PROVE IInv'
  OBVIOUS
<1>t. TypeOK /\ PastOK /\ CallOK /\ NoFork
  BY DEF IInv
<1>len. Len(store) \in Nat /\ Len(past) \in Nat
  BY <1>t DEF TypeOK
<1>0. ASSUME UNCHANGED <<store, past>> PROVE PastOK'
  BY <1>0, <1>t DEF PastOK, Verified, Now
<1>1. ASSUME NEW l \in Ledgers, Open(l) PROVE IInv'
  <2>1. PastOK'
    BY <1>1, <1>0 DEF Open
  <2>2. TypeOK'
    BY <1>1, <1>t, <1>len, GenesisType DEF Open, TypeOK
  <2>3. CallOK'
    BY <1>1, <1>t, <1>len DEF Open, CallOK, TypeOK
  <2>4. NoFork'
    BY <1>1, <1>t, <1>len DEF Open, NoFork, PastOK, TypeOK
  <2>5. QED
    BY <2>1, <2>2, <2>3, <2>4 DEF IInv
<1>2. ASSUME NEW l \in Ledgers, NEW r \in Calls, Call(l, r) PROVE IInv'
  <2>1. PastOK'
    BY <1>2, <1>0 DEF Call
  <2>2. TypeOK' /\ CallOK' /\ NoFork'
    BY <1>2, <1>t DEF Call, TypeOK, CallOK, NoFork
  <2>3. QED
    BY <2>1, <2>2 DEF IInv
<1>3. ASSUME NEW l \in Ledgers, Refuse(l) PROVE IInv'
  <2>1. PastOK'
    BY <1>3, <1>0 DEF Refuse
  <2>2. TypeOK' /\ CallOK' /\ NoFork'
    BY <1>3, <1>t DEF Refuse, TypeOK, CallOK, NoFork
  <2>3. QED
    BY <2>1, <2>2 DEF IInv
<1>4. ASSUME NEW l \in Ledgers, Accept(l) PROVE IInv'
  <2>1. PastOK'
    BY <1>4, <1>0 DEF Accept
  <2>2. TypeOK' /\ CallOK' /\ NoFork'
    BY <1>4, <1>t DEF Accept, TypeOK, CallOK, NoFork
  <2>3. QED
    BY <2>1, <2>2 DEF IInv
<1>5. ASSUME NEW l \in Ledgers, AppendRecord(l) PROVE IInv'
  <2>1. call[l] \in Records /\ Land(call[l]) /\ Admit(st[l], call[l]) /\ Len(store) = applied[l]
    BY <1>5, <1>t DEF AppendRecord, CallOK, Records
  <2>2. Verified /\ Now = st[l]
    BY <1>t, <1>len, <2>1 DEF NoFork, PastOK, Verified, Now, TypeOK
  <2>3. past' = Append(past, Apply(st[l], call[l]))
    BY <2>1, <2>2 DEF Land
  <2>4. Apply(st[l], call[l]) \in State
    BY <2>1, <1>t, ApplyType DEF TypeOK
  <2>5. /\ Len(past') = applied[l] + 2
        /\ past'[applied[l] + 2] = Apply(st[l], call[l])
    BY <2>1, <2>2, <2>3, <2>4, <1>t, <1>len DEF Verified, TypeOK
  <2>6. PastOK' /\ store' \in Seq(Records) /\ past' \in Seq(State)
    BY <2>1, <1>t, LandFacts
  <2>7. \A k \in Ledgers :
           /\ target[k] <= Len(store')
           /\ applied[k] + 1 \in 1..Len(past')
           /\ st[k] = past'[applied[k] + 1]
    BY <2>1, LandFrame
  <2>8. TypeOK'
    BY <1>5, <1>t, <2>4, <2>6 DEF AppendRecord, TypeOK
  <2>9. CallOK'
    BY <1>5, <1>t, <2>7 DEF AppendRecord, CallOK, TypeOK
  <2>10. NoFork'
    <3> SUFFICES ASSUME NEW k \in Ledgers
                 PROVE  applied'[k] + 1 \in 1..Len(past') /\ st'[k] = past'[applied'[k] + 1]
      BY DEF NoFork
    <3>1. CASE k = l
      <4>1. applied'[l] = applied[l] + 1 /\ st'[l] = Apply(st[l], call[l]) /\ applied[l] \in Nat
        BY <1>5, <1>t DEF AppendRecord, TypeOK
      <4>2. applied'[l] + 1 = applied[l] + 2
        BY <4>1
      <4>3. QED
        BY <3>1, <4>1, <4>2, <2>5
    <3>2. CASE k # l
      BY <3>2, <1>5, <1>t, <2>7 DEF AppendRecord, TypeOK
    <3>3. QED
      BY <3>1, <3>2
  <2>11. QED
    BY <2>6, <2>8, <2>9, <2>10 DEF IInv
<1>6. ASSUME NEW l \in Ledgers, Conflict(l) PROVE IInv'
  <2>1. PastOK'
    BY <1>6, <1>0 DEF Conflict
  <2>2. TypeOK' /\ CallOK' /\ NoFork'
    BY <1>6, <1>t DEF Conflict, TypeOK, CallOK, NoFork
  <2>3. QED
    BY <2>1, <2>2 DEF IInv
<1>7. ASSUME NEW l \in Ledgers, ReadTail(l) PROVE IInv'
  <2>1. PastOK'
    BY <1>7, <1>0 DEF ReadTail
  <2>2. TypeOK' /\ CallOK' /\ NoFork'
    BY <1>7, <1>t, <1>len DEF ReadTail, TypeOK, CallOK, NoFork
  <2>3. QED
    BY <2>1, <2>2 DEF IInv
<1>8. ASSUME NEW l \in Ledgers, Replay(l) PROVE IInv'
  <2> DEFINE i == applied[l] + 1
  <2>1. PastOK'
    BY <1>8, <1>0 DEF Replay
  <2>2. i \in 1..Len(store) /\ i \in 1..Len(past) /\ applied[l] \in Nat
    BY <1>8, <1>t, <1>len DEF Replay, CallOK, NoFork, TypeOK
  <2>3. store[i] \in Records /\ st[l] \in State /\ st[l] = past[i] /\ Admit(st[l], store[i])
    BY <1>8, <1>t, <2>2 DEF Replay, TypeOK, NoFork
  <2>4. i # Len(past)
    <3> SUFFICES ASSUME i = Len(past) PROVE FALSE
      OBVIOUS
    <3>1. ~Verified
      BY <2>2, <1>len DEF Verified
    <3>2. QED
      BY <3>1, <2>3, <1>t DEF PastOK, Now
  <2>5. i \in 1..(Len(past) - 1)
    BY <2>2, <2>4, <1>len
  <2>6. past[i + 1] = Apply(st[l], store[i]) /\ i + 1 \in 1..Len(past)
    BY <2>3, <2>5, <1>t, <1>len DEF PastOK
  <2>7. Apply(st[l], store[i]) \in State
    BY <2>3, ApplyType
  <2>8. TypeOK'
    BY <1>8, <1>t, <2>2, <2>7 DEF Replay, TypeOK
  <2>9. CallOK'
    BY <1>8, <1>t DEF Replay, TypeOK, CallOK
  <2>10. NoFork'
    <3> SUFFICES ASSUME NEW k \in Ledgers
                 PROVE  applied'[k] + 1 \in 1..Len(past') /\ st'[k] = past'[applied'[k] + 1]
      BY DEF NoFork
    <3>1. CASE k = l
      <4>1. applied'[l] + 1 = i + 1 /\ st'[l] = Apply(st[l], store[i]) /\ past' = past
        BY <1>8, <1>t, <2>2 DEF Replay, TypeOK
      <4>2. QED
        BY <3>1, <4>1, <2>6
    <3>2. CASE k # l
      BY <3>2, <1>8, <1>t DEF Replay, TypeOK, NoFork
    <3>3. QED
      BY <3>1, <3>2
  <2>11. QED
    BY <2>1, <2>8, <2>9, <2>10 DEF IInv
<1>9. ASSUME NEW l \in Ledgers, ReplayRejects(l) PROVE IInv'
  <2>1. PastOK'
    BY <1>9, <1>0 DEF ReplayRejects
  <2>2. TypeOK' /\ CallOK' /\ NoFork'
    BY <1>9, <1>t DEF ReplayRejects, TypeOK, CallOK, NoFork
  <2>3. QED
    BY <2>1, <2>2 DEF IInv
<1>10. ASSUME NEW l \in Ledgers, ReplayDone(l) PROVE IInv'
  <2>1. PastOK'
    BY <1>10, <1>0 DEF ReplayDone
  <2>2. TypeOK' /\ CallOK' /\ NoFork'
    BY <1>10, <1>t DEF ReplayDone, TypeOK, CallOK, NoFork
  <2>3. QED
    BY <2>1, <2>2 DEF IInv
<1>11. ASSUME NEW r \in Records, Bypass(r) PROVE IInv'
  <2>1. Land(r) /\ UNCHANGED <<pc, call, st, applied, target>>
    BY <1>11 DEF Bypass
  <2>2. PastOK' /\ store' \in Seq(Records) /\ past' \in Seq(State)
    BY <2>1, <1>t, LandFacts
  <2>3. \A k \in Ledgers :
           /\ target[k] <= Len(store')
           /\ applied[k] + 1 \in 1..Len(past')
           /\ st[k] = past'[applied[k] + 1]
    BY <2>1, LandFrame
  <2>4. TypeOK' /\ CallOK' /\ NoFork'
    BY <2>1, <2>2, <2>3, <1>t DEF TypeOK, CallOK, NoFork
  <2>5. QED
    BY <2>2, <2>4 DEF IInv
<1>12. CASE UNCHANGED vars
  BY <1>12, <1>t DEF vars, IInv, TypeOK, PastOK, CallOK, NoFork, Verified, Now
<1>13. QED
  BY <1>1, <1>2, <1>3, <1>4, <1>5, <1>6, <1>7, <1>8, <1>9, <1>10, <1>11, <1>12 DEF Next

\* Types, and with them the int64 range of every balance and cap, for every
\* number of instances and records (TypeOK: economy.Ledger).
THEOREM TypeCorrect == Spec => []TypeOK
<1>1. IInv => TypeOK
  BY DEF IInv
<1>2. QED
  BY <1>1, InitIInv, NextIInv, PTL DEF Spec

\* No interleaving of Post, Enact and Open forks history (economy.Ledger).
THEOREM HistoryNeverForks == Spec => []NoFork
<1>1. IInv => NoFork
  BY DEF IInv
<1>2. QED
  BY <1>1, InitIInv, NextIInv, PTL DEF Spec

-----------------------------------------------------------------------------
(* What the verified history satisfies. *)

\* Every step leaves the verified history alone or extends it by one record
\* that its last state admits.
LEMMA PastStep ==
    ASSUME IInv, [Next]_vars
    PROVE  \/ UNCHANGED past
           \/ \E r \in Records :
                 /\ Verified /\ Admit(Now, r)
                 /\ past' = Append(past, Apply(Now, r))
                 /\ store' = Append(store, r)
<1>1. ASSUME NEW r \in Records, Land(r)
      PROVE  \/ UNCHANGED past
             \/ /\ Verified /\ Admit(Now, r)
                /\ past' = Append(past, Apply(Now, r))
                /\ store' = Append(store, r)
  BY <1>1 DEF Land
<1>2. \A l \in Ledgers : AppendRecord(l) => call[l] \in Records /\ Land(call[l])
  BY DEF AppendRecord, IInv, CallOK, Records
<1>3. QED
  BY <1>1, <1>2
     DEF Next, vars, Open, Call, Refuse, Accept, Conflict, ReadTail, Replay,
         ReplayRejects, ReplayDone, Bypass

\* Balances of every state of the history sum to zero.
PastBalanced == \A i \in 1..Len(past) : Balanced(past[i].bal)

LEMMA ApplyBalanced ==
    ASSUME NEW g \in State, NEW r \in Records, Admit(g, r), Balanced(g.bal)
    PROVE  Balanced(Apply(g, r).bal)
<1>0. g.bal \in [Accounts -> Int]
  BY StateFields
<1>1. CASE r \in Spends /\ AdmitSpend(g, r) /\ Apply(g, r) = ApplySpend(g, r)
  <2>1. /\ r.from \in Accounts /\ r.to \in Accounts /\ r.from # r.to
        /\ r.amount \in Int
        /\ Apply(g, r).bal = [g.bal EXCEPT ![r.from] = g.bal[r.from] - r.amount,
                                           ![r.to] = g.bal[r.to] + r.amount]
    <3>1. ApplySpend(g, r).bal = [g.bal EXCEPT ![r.from] = g.bal[r.from] - r.amount,
                                               ![r.to] = g.bal[r.to] + r.amount]
      BY <1>1, SpendFields
    <3>2. r.from \in Accounts /\ r.to \in Accounts /\ r.from # r.to /\ r.amount \in 1..MaxInt
      BY <1>1, ApplySpendExact
    <3>3. QED
      BY <1>1, <3>1, <3>2
  <2>2. QED
    BY <2>1, <1>0, BalancedTransfer
<1>2. CASE r \in Changes /\ Apply(g, r) = ApplyPolicyChange(g, r)
  <2>1. Apply(g, r).bal = g.bal
    <3>1. ApplyPolicyChange(g, r).bal = g.bal
      BY PolicyFields
    <3>2. QED
      BY <1>2, <3>1
  <2>2. QED
    BY <2>1
<1>3. QED
  BY <1>1, <1>2, AdmitCases

LEMMA NextPastBalanced == IInv /\ PastBalanced /\ [Next]_vars => PastBalanced'
<1> SUFFICES ASSUME IInv, PastBalanced, [Next]_vars PROVE PastBalanced'
  OBVIOUS
<1>1. CASE UNCHANGED past
  BY <1>1 DEF PastBalanced
<1>2. ASSUME NEW r \in Records, Admit(Now, r), past' = Append(past, Apply(Now, r))
      PROVE  PastBalanced'
  <2>1. past \in Seq(State) /\ Len(past) \in Nat /\ Len(past) >= 1
    BY DEF IInv, TypeOK, PastOK
  <2>2. Now \in State /\ Balanced(Now.bal)
    BY <2>1 DEF Now, PastBalanced
  <2>3. Apply(Now, r) \in State /\ Balanced(Apply(Now, r).bal)
    BY <2>2, <1>2, ApplyType, ApplyBalanced
  <2>4. /\ Len(past') = Len(past) + 1
        /\ \A i \in 1..Len(past) : past'[i] = past[i]
        /\ past'[Len(past) + 1] = Apply(Now, r)
    BY <1>2, <2>1, <2>3
  <2>5. QED
    BY <2>1, <2>3, <2>4 DEF PastBalanced
<1>3. QED
  BY <1>1, <1>2, PastStep

\* The sum of balances is exactly zero in every instance at every moment,
\* whatever the word width, the accounts and the spends (applySpend, Post).
THEOREM CreditIsZeroSum == Spec => []ZeroSum
<1>1. Init => PastBalanced
  BY BalancedZero DEF Init, PastBalanced, Genesis
<1>2. IInv /\ PastBalanced => ZeroSum
  <2> SUFFICES ASSUME IInv, PastBalanced, NEW l \in Ledgers PROVE Total(st[l].bal) = 0
    BY DEF ZeroSum
  <2>1. st[l] \in State /\ Balanced(st[l].bal)
    BY DEF IInv, TypeOK, NoFork, PastBalanced
  <2>2. st[l].bal \in [Accounts -> Int]
    BY <2>1, StateFields
  <2>3. QED
    BY <2>1, <2>2, BalancedTotal
<1>3. QED
  BY <1>1, <1>2, InitIInv, NextIInv, NextPastBalanced, PTL DEF Spec

\* No state of the history is deeper in debt than a cap that preceded it.
PastDebt ==
    \A i \in 1..Len(past) : \A a \in Accounts :
        \E j \in 1..i : past[i].bal[a] >= -past[j].pol.cap

LEMMA NextPastDebt == IInv /\ PastDebt /\ [Next]_vars => PastDebt'
<1> SUFFICES ASSUME IInv, PastDebt, [Next]_vars PROVE PastDebt'
  OBVIOUS
<1>1. CASE UNCHANGED past
  BY <1>1 DEF PastDebt
<1>2. ASSUME NEW r \in Records, Admit(Now, r), past' = Append(past, Apply(Now, r))
      PROVE  PastDebt'
  <2>1. past \in Seq(State) /\ Len(past) \in Nat /\ Len(past) >= 1
    BY DEF IInv, TypeOK, PastOK
  <2>2. Now \in State
    BY <2>1 DEF Now
  <2>3. Apply(Now, r) \in State
    BY <2>2, <1>2, ApplyType
  <2>4. /\ Len(past') = Len(past) + 1
        /\ \A i \in 1..Len(past) : past'[i] = past[i]
        /\ past'[Len(past) + 1] = Apply(Now, r)
    BY <1>2, <2>1, <2>3
  <2>5. ASSUME NEW a \in Accounts
        PROVE  \E j \in 1..Len(past) : Apply(Now, r).bal[a] >= -past[j].pol.cap
    <3>1. PICK j \in 1..Len(past) : Now.bal[a] >= -past[j].pol.cap
      BY <2>1 DEF PastDebt, Now
    <3>2. past[j].pol.cap \in Nat /\ Now.bal[a] \in Int /\ Apply(Now, r).bal[a] \in Int /\ Now.pol.cap \in Nat
      BY <2>1, <2>2, <2>3, StateFields
    <3>3. CASE Apply(Now, r).bal[a] >= Now.bal[a]
      BY <3>1, <3>2, <3>3
    <3>4. CASE Apply(Now, r).bal[a] < Now.bal[a]
      <4>1. Apply(Now, r).bal # Now.bal
        BY <3>2, <3>4
      <4>2. r \in Spends /\ AdmitSpend(Now, r) /\ Apply(Now, r) = ApplySpend(Now, r)
        <5>1. ApplyPolicyChange(Now, r).bal = Now.bal
          BY <2>2, PolicyFields
        <5>2. Apply(Now, r) # ApplyPolicyChange(Now, r)
          BY <4>1, <5>1
        <5>3. QED
          BY <5>2, <1>2, AdmitCases
      <4>3. /\ r.from # r.to /\ r.amount \in 1..MaxInt
            /\ r.from \in Accounts /\ r.to \in Accounts
            /\ Now.bal[r.from] - r.amount >= -Now.pol.cap
            /\ Apply(Now, r).bal = [Now.bal EXCEPT ![r.from] = Now.bal[r.from] - r.amount,
                                                   ![r.to] = Now.bal[r.to] + r.amount]
        <5>1. ApplySpend(Now, r).bal = [Now.bal EXCEPT ![r.from] = Now.bal[r.from] - r.amount,
                                                       ![r.to] = Now.bal[r.to] + r.amount]
          BY <4>2, <2>2, SpendFields
        <5>2. /\ r.from # r.to /\ r.amount \in 1..MaxInt
              /\ r.from \in Accounts /\ r.to \in Accounts
              /\ Now.bal[r.from] - r.amount >= -Now.pol.cap
          BY <4>2, <2>2, ApplySpendExact
        <5>3. QED
          BY <4>2, <5>1, <5>2
      <4>4. a = r.from
        <5>1. Now.bal \in [Accounts -> Int]
          BY <2>2, StateFields
        <5>2. CASE a = r.to
          BY <4>3, <5>1, <5>2, <3>4
        <5>3. CASE a # r.to /\ a # r.from
          BY <4>3, <5>1, <5>3, <3>4
        <5>4. QED
          BY <5>2, <5>3
      <4>5. Apply(Now, r).bal[a] >= -Now.pol.cap
        BY <4>3, <4>4, <2>2, StateFields
      <4>6. QED
        BY <4>5, <2>1 DEF Now
    <3>5. QED
      BY <3>2, <3>3, <3>4
  <2>6. ASSUME NEW i \in 1..Len(past'), NEW a \in Accounts
        PROVE  \E j \in 1..i : past'[i].bal[a] >= -past'[j].pol.cap
    <3>1. CASE i \in 1..Len(past)
      <4>1. PICK j \in 1..i : past[i].bal[a] >= -past[j].pol.cap
        BY <3>1 DEF PastDebt
      <4>2. j \in 1..Len(past)
        BY <3>1, <2>1
      <4>3. QED
        BY <4>1, <4>2, <3>1, <2>4
    <3>2. CASE i = Len(past) + 1
      <4>1. PICK j \in 1..Len(past) : Apply(Now, r).bal[a] >= -past[j].pol.cap
        BY <2>5
      <4>2. j \in 1..i
        BY <3>2, <2>1
      <4>3. QED
        BY <4>1, <4>2, <3>2, <2>4
    <3>3. QED
      BY <3>1, <3>2, <2>1, <2>4
  <2>7. QED
    BY <2>6 DEF PastDebt
<1>3. QED
  BY <1>1, <1>2, PastStep

\* The debit cap binds at every position of the history (admitSpend).
THEOREM DebtIsBounded == Spec => []DebtWithinACap
<1>1. Init => PastDebt
  <2>1. Genesis.pol.cap \in Nat
    BY GenesisType DEF State
  <2>2. QED
    BY <2>1 DEF Init, PastDebt, Genesis
<1>2. IInv /\ PastDebt => DebtWithinACap
  <2> SUFFICES ASSUME IInv, PastDebt, NEW l \in Ledgers, NEW a \in Accounts
               PROVE  \E i \in 1..(applied[l] + 1) : st[l].bal[a] >= -past[i].pol.cap
    BY DEF DebtWithinACap
  <2>1. applied[l] + 1 \in 1..Len(past) /\ st[l] = past[applied[l] + 1]
    BY DEF IInv, NoFork
  <2>2. QED
    BY <2>1 DEF PastDebt
<1>3. QED
  BY <1>1, <1>2, InitIInv, NextIInv, NextPastDebt, PTL DEF Spec

-----------------------------------------------------------------------------
(* What a step may do. *)

\* Only AppendRecord returns success, and it does so against the whole store.
LEMMA AppendsFacts ==
    ASSUME IInv, Next, NEW l \in Ledgers, Appends(l)
    PROVE  /\ AppendRecord(l) /\ Verified /\ Now = st[l]
           /\ call[l] \in Records /\ Admit(Now, call[l]) /\ Verified'
<1>t. TypeOK /\ PastOK /\ CallOK /\ NoFork
  BY DEF IInv
<1>1. AppendRecord(l)
  BY <1>t DEF Next, Appends, TypeOK, Open, Call, Refuse, Accept, AppendRecord, Conflict,
              ReadTail, Replay, ReplayRejects, ReplayDone, Bypass
<1>2. call[l] \in Records /\ Land(call[l]) /\ Admit(st[l], call[l]) /\ Len(store) = applied[l]
  BY <1>1, <1>t DEF AppendRecord, CallOK, Records
<1>3. Len(store) \in Nat /\ Len(past) \in Nat /\ store \in Seq(Records) /\ past \in Seq(State)
  BY <1>t DEF TypeOK
<1>4. Verified /\ Now = st[l]
  BY <1>t, <1>2, <1>3 DEF NoFork, PastOK, Verified, Now
<1>5. Apply(Now, call[l]) \in State
  BY <1>2, <1>4, <1>t, ApplyType DEF TypeOK
<1>6. Len(past') = Len(past) + 1 /\ Len(store') = Len(store) + 1
  BY <1>2, <1>3, <1>4, <1>5 DEF Land
<1>7. QED
  BY <1>1, <1>2, <1>3, <1>4, <1>6 DEF Verified

\* No instance ever writes a record that a later Open would call tampered.
THEOREM NoForkIsWritable == Spec => AppendsVerify
<1>1. IInv /\ [Next]_vars =>
        [\A l \in Ledgers : Appends(l) => Verified /\ Verified']_vars
  BY AppendsFacts
<1>2. QED
  BY <1>1, InitIInv, NextIInv, PTL DEF Spec, AppendsVerify

\* ErrTampered is never a false alarm (replay, catchUp and Open).
THEOREM TamperingIsReal == Spec => RejectsOnlyTampering
<1> DEFINE Rejects(l) == pc[l] = "replay" /\ pc'[l] # "replay" /\ applied[l] < target[l]
<1>1. ASSUME IInv, Next, NEW l \in Ledgers, Rejects(l)
      PROVE  Len(past) = applied[l] + 1 /\ ~Admit(Now, store[applied[l] + 1])
  <2>t. TypeOK /\ PastOK /\ CallOK /\ NoFork
    BY <1>1 DEF IInv
  <2>n. applied[l] \in Nat /\ target[l] \in Nat
    BY <2>t DEF TypeOK
  <2>1. ReplayRejects(l)
    <3>1. applied[l] # target[l] /\ pc[l] = "replay" /\ pc'[l] # "replay"
      BY <1>1, <2>n
    <3>2. QED
      BY <1>1, <3>1, <2>t DEF Next, TypeOK, Open, Call, Refuse, Accept, AppendRecord, Conflict,
              ReadTail, Replay, ReplayRejects, ReplayDone, Bypass
  <2>2. ~Admit(st[l], store[applied[l] + 1]) /\ applied[l] < target[l]
    BY <2>1 DEF ReplayRejects
  <2>3. /\ applied[l] + 1 \in 1..Len(past) /\ st[l] = past[applied[l] + 1]
        /\ Len(past) \in Nat
    BY <2>t DEF NoFork, TypeOK
  <2>4. Len(past) = applied[l] + 1
    <3> SUFFICES ASSUME Len(past) # applied[l] + 1 PROVE FALSE
      OBVIOUS
    <3>1. applied[l] + 1 \in 1..(Len(past) - 1)
      BY <2>3, <2>n
    <3>2. QED
      BY <3>1, <2>2, <2>3, <2>t DEF PastOK
  <2>5. QED
    BY <2>2, <2>3, <2>4 DEF Now
<1>2. IInv /\ [Next]_vars =>
        [\A l \in Ledgers :
            (pc[l] = "replay" /\ pc'[l] # "replay" /\ applied[l] < target[l]) =>
               /\ Len(past) = applied[l] + 1
               /\ ~Admit(Now, store[applied[l] + 1])]_vars
  BY <1>1
<1>3. QED
  BY <1>2, InitIInv, NextIInv, PTL DEF Spec, RejectsOnlyTampering

\* In every state of the history, a payer's nonce and the policy version cover
\* every record that led to it.
PastNonces ==
    \A i \in 1..Len(past) : \A j \in 1..(i - 1) :
        /\ store[j].kind = "spend" => past[i].nonce[store[j].from] >= store[j].nonce
        /\ store[j].kind = "policy" => past[i].version >= store[j].version

\* Nonces and versions never fall, and reach those of the record just applied.
LEMMA ApplyAdvances ==
    ASSUME NEW g \in State, NEW r \in Records, Admit(g, r)
    PROVE  /\ \A a \in Accounts : Apply(g, r).nonce[a] >= g.nonce[a]
           /\ Apply(g, r).version >= g.version
           /\ r.kind = "spend" => /\ r.nonce > g.nonce[r.from]
                                  /\ Apply(g, r).nonce[r.from] = r.nonce
           /\ r.kind = "policy" => r.version > g.version /\ Apply(g, r).version = r.version
<1>0. g.nonce \in [Accounts -> Nat] /\ g.version \in Nat
  BY StateFields
<1>1. CASE r \in Spends /\ r.kind = "spend" /\ AdmitSpend(g, r) /\ Apply(g, r) = ApplySpend(g, r)
  <2>1. r.nonce \in Nat /\ r.from \in Accounts /\ r.nonce > g.nonce[r.from]
    BY <1>1, SpendsAssumption DEF Spend, AdmitSpend
  <2>2. /\ ApplySpend(g, r).nonce = [g.nonce EXCEPT ![r.from] = r.nonce]
        /\ ApplySpend(g, r).version = g.version
    BY <1>1, SpendFields
  <2>3. /\ Apply(g, r).nonce = [g.nonce EXCEPT ![r.from] = r.nonce]
        /\ Apply(g, r).version = g.version
    BY <1>1, <2>2
  <2>4. QED
    BY <1>0, <1>1, <2>1, <2>3
<1>2. CASE r \in Changes /\ r.kind = "policy" /\ AdmitPolicyChange(g, r)
           /\ Apply(g, r) = ApplyPolicyChange(g, r)
  <2>1. r.version \in Nat /\ r.version > g.version
    BY <1>2, ChangesAssumption DEF PolicyChange, AdmitPolicyChange
  <2>2. ApplyPolicyChange(g, r).nonce = g.nonce /\ ApplyPolicyChange(g, r).version = r.version
    BY PolicyFields
  <2>3. Apply(g, r).nonce = g.nonce /\ Apply(g, r).version = r.version
    BY <1>2, <2>2
  <2>4. QED
    BY <1>0, <1>2, <2>1, <2>3
<1>3. QED
  BY <1>1, <1>2, AdmitCases

\* Every stored spend has its payer among the accounts, with numbers as nonces.
LEMMA RecordTypes ==
    ASSUME NEW r \in Records
    PROVE  /\ r.kind = "spend" => r.from \in Accounts /\ r.nonce \in Nat
           /\ r.kind = "policy" => r.version \in Nat
BY SpendsAssumption, ChangesAssumption, ForeignAssumption
   DEF Records, Calls, Spend, PolicyChange

LEMMA NextPastNonces == IInv /\ PastNonces /\ [Next]_vars => PastNonces'
<1> SUFFICES ASSUME IInv, PastNonces, [Next]_vars PROVE PastNonces'
  OBVIOUS
<1>0. /\ past \in Seq(State) /\ Len(past) \in Nat /\ Len(past) >= 1
      /\ store \in Seq(Records) /\ Len(store) \in Nat /\ Len(past) <= Len(store) + 1
  BY DEF IInv, TypeOK, PastOK
<1>a. ASSUME NEW r \in Records, store' = Append(store, r)
      PROVE  /\ \A j \in 1..Len(store) : store'[j] = store[j]
             /\ store'[Len(store) + 1] = r
  BY <1>0, <1>a
<1>1. CASE UNCHANGED past
  <2>1. \A j \in 1..(Len(past) - 1) : store'[j] = store[j]
    <3>1. UNCHANGED store \/ \E r \in Records : store' = Append(store, r)
      BY DEF IInv, CallOK, Records, Next, vars, Open, Call, Refuse, Accept, AppendRecord,
             Land, Conflict, ReadTail, Replay, ReplayRejects, ReplayDone, Bypass
    <3>2. QED
      BY <3>1, <1>0, <1>a
  <2>2. QED
    BY <1>0, <1>1, <2>1 DEF PastNonces
<1>2. ASSUME NEW r \in Records, Verified, Admit(Now, r),
             past' = Append(past, Apply(Now, r)), store' = Append(store, r)
      PROVE  PastNonces'
  <2>1. Now \in State /\ Apply(Now, r) \in State
    BY <1>0, <1>2, ApplyType DEF Now
  <2>2. /\ Len(past') = Len(past) + 1
        /\ \A i \in 1..Len(past) : past'[i] = past[i]
        /\ past'[Len(past) + 1] = Apply(Now, r)
    BY <1>0, <1>2, <2>1
  <2>3. Len(past) = Len(store) + 1
    BY <1>2 DEF Verified
  <2>4. ASSUME NEW i \in 1..Len(past'), NEW j \in 1..(i - 1)
        PROVE  /\ store'[j].kind = "spend" => past'[i].nonce[store'[j].from] >= store'[j].nonce
               /\ store'[j].kind = "policy" => past'[i].version >= store'[j].version
    <3>1. CASE i # Len(past) + 1
      <4>1. i \in 1..Len(past) /\ j \in 1..Len(store)
        BY <1>0, <2>2, <2>3, <3>1
      <4>2. past'[i] = past[i] /\ store'[j] = store[j]
        BY <4>1, <2>2, <1>2, <1>a
      <4>3. QED
        BY <4>1, <4>2 DEF PastNonces
    <3>2. CASE i = Len(past) + 1 /\ j = Len(past)
      <4>1. past'[i] = Apply(Now, r) /\ store'[j] = r
        BY <3>2, <1>2, <2>2, <2>3, <1>a
      <4>2. QED
        BY <4>1, <1>2, <2>1, ApplyAdvances, RecordTypes
    <3>3. CASE i = Len(past) + 1 /\ j # Len(past)
      <4>1. j \in 1..(Len(past) - 1) /\ j \in 1..Len(store)
        BY <1>0, <2>3, <3>3
      <4>2. past'[i] = Apply(Now, r) /\ store'[j] = store[j] /\ store[j] \in Records
        BY <4>1, <3>3, <1>0, <1>2, <2>2, <1>a
      <4>3. /\ store[j].kind = "spend" => Now.nonce[store[j].from] >= store[j].nonce
            /\ store[j].kind = "policy" => Now.version >= store[j].version
        BY <4>1, <1>0 DEF PastNonces, Now
      <4>4. /\ \A a \in Accounts : Apply(Now, r).nonce[a] >= Now.nonce[a]
            /\ Apply(Now, r).version >= Now.version
        BY <1>2, <2>1, ApplyAdvances
      <4>5. /\ Now.nonce \in [Accounts -> Nat] /\ Apply(Now, r).nonce \in [Accounts -> Nat]
            /\ Now.version \in Nat /\ Apply(Now, r).version \in Nat
        BY <2>1, StateFields
      <4>6. /\ store[j].kind = "spend" => store[j].from \in Accounts /\ store[j].nonce \in Nat
            /\ store[j].kind = "policy" => store[j].version \in Nat
        BY <4>2, RecordTypes
      <4>7. QED
        BY <4>2, <4>3, <4>4, <4>5, <4>6
    <3>4. QED
      BY <3>1, <3>2, <3>3
  <2>5. QED
    BY <2>4 DEF PastNonces
<1>3. QED
  BY <1>1, <1>2, PastStep

\* A nonce or a version is accepted once, through whichever instance (Post, Enact).
THEOREM NoReplay == Spec => NonceSpentOnce
<1>1. Init => PastNonces
  BY DEF Init, PastNonces
<1>2. ASSUME IInv, PastNonces, Next, NEW l \in Ledgers, Appends(l), NEW i \in 1..Len(store)
      PROVE  /\ call[l].kind = "spend" /\ store[i].kind = "spend" /\ store[i].from = call[l].from
                   => call[l].nonce > store[i].nonce
             /\ call[l].kind = "policy" /\ store[i].kind = "policy"
                   => call[l].version > store[i].version
  <2>1. Verified /\ call[l] \in Records /\ Admit(Now, call[l])
    BY <1>2, AppendsFacts
  <2>2. /\ past \in Seq(State) /\ Len(past) \in Nat /\ Len(past) >= 1
        /\ Len(store) \in Nat /\ store[i] \in Records
    BY <1>2 DEF IInv, TypeOK, PastOK
  <2>3. Now \in State
    BY <2>2 DEF Now
  <2>4. i \in 1..(Len(past) - 1)
    BY <2>1, <2>2 DEF Verified
  <2>5. /\ store[i].kind = "spend" => Now.nonce[store[i].from] >= store[i].nonce
        /\ store[i].kind = "policy" => Now.version >= store[i].version
    BY <1>2, <2>2, <2>4 DEF PastNonces, Now
  <2>6. /\ call[l].kind = "spend" => call[l].nonce > Now.nonce[call[l].from]
        /\ call[l].kind = "policy" => call[l].version > Now.version
    BY <2>1, <2>3, ApplyAdvances
  <2>7. /\ Now.nonce \in [Accounts -> Nat] /\ Now.version \in Nat
    BY <2>3, StateFields
  <2>8. /\ call[l].kind = "spend" => call[l].from \in Accounts /\ call[l].nonce \in Nat
        /\ call[l].kind = "policy" => call[l].version \in Nat
        /\ store[i].kind = "spend" => store[i].nonce \in Nat
        /\ store[i].kind = "policy" => store[i].version \in Nat
    BY <2>1, <2>2, RecordTypes
  <2>9. QED
    BY <2>5, <2>6, <2>7, <2>8
<1>3. IInv /\ PastNonces /\ [Next]_vars =>
        [\A l \in Ledgers : Appends(l) =>
            \A i \in 1..Len(store) :
               /\ call[l].kind = "spend" /\ store[i].kind = "spend" /\ store[i].from = call[l].from
                     => call[l].nonce > store[i].nonce
               /\ call[l].kind = "policy" /\ store[i].kind = "policy"
                     => call[l].version > store[i].version]_vars
  BY <1>2
<1>4. QED
  BY <1>1, <1>3, InitIInv, NextIInv, NextPastNonces, PTL DEF Spec, NonceSpentOnce

-----------------------------------------------------------------------------
(* The detailed ledger implements the abstract one. *)

LEMMA MapsToTransfer ==
    ASSUME NEW g \in State, NEW r \in Spends, AdmitSpend(g, r), g = Now, Now' = ApplySpend(g, r)
    PROVE  OneLedger!Transfer(r.from, r.to)
<1>1. /\ r.from \in Accounts /\ r.to \in Accounts /\ r.from # r.to
      /\ r.amount \in 1..MaxInt
      /\ g.bal[r.from] - r.amount >= -g.pol.cap
  BY ApplySpendExact
<1>2. /\ ApplySpend(g, r).bal = [g.bal EXCEPT ![r.from] = g.bal[r.from] - r.amount,
                                              ![r.to] = g.bal[r.to] + r.amount]
      /\ ApplySpend(g, r).nonce = [g.nonce EXCEPT ![r.from] = r.nonce]
      /\ ApplySpend(g, r).pol = g.pol
      /\ ApplySpend(g, r).version = g.version
  BY SpendFields
<1>3. /\ Now'.bal = [g.bal EXCEPT ![r.from] = g.bal[r.from] - r.amount,
                                  ![r.to] = g.bal[r.to] + r.amount]
      /\ Now'.nonce = [g.nonce EXCEPT ![r.from] = r.nonce]
      /\ Now'.pol = g.pol
      /\ Now'.version = g.version
  BY <1>2
<1>4. g.bal \in [Accounts -> Int] /\ g.nonce \in [Accounts -> Nat]
  BY StateFields
<1>5. g.pol.mode = "credit" /\ r.nonce > g.nonce[r.from]
  BY DEF AdmitSpend, State, Modes
<1>6. Now'.bal[r.from] = g.bal[r.from] - r.amount /\ Now'.nonce[r.from] = r.nonce
  BY <1>1, <1>3, <1>4
<1>7. g.bal[r.from] - Now'.bal[r.from] = r.amount
  BY <1>1, <1>4, <1>6
<1>8. [g.bal EXCEPT ![r.from] = @ - r.amount, ![r.to] = @ + r.amount]
        = [g.bal EXCEPT ![r.from] = g.bal[r.from] - r.amount, ![r.to] = g.bal[r.to] + r.amount]
  BY <1>1, <1>4
<1>9. QED
  BY <1>1, <1>3, <1>5, <1>6, <1>7, <1>8 DEF OneLedger!Transfer

LEMMA MapsToChange ==
    ASSUME NEW g \in State, NEW c \in Changes, AdmitPolicyChange(g, c),
           g = Now, Now' = ApplyPolicyChange(g, c)
    PROVE  OneLedger!ChangePolicy
<1>1. /\ ApplyPolicyChange(g, c).bal = g.bal
      /\ ApplyPolicyChange(g, c).nonce = g.nonce
      /\ ApplyPolicyChange(g, c).pol = [mode |-> c.mode, cap |-> c.cap]
      /\ ApplyPolicyChange(g, c).version = c.version
  BY PolicyFields
<1>2. /\ Now'.bal = g.bal /\ Now'.nonce = g.nonce
      /\ Now'.pol = [mode |-> c.mode, cap |-> c.cap] /\ Now'.version = c.version
  BY <1>1
<1>3. c.cap \in Nat /\ c.version > g.version /\ c.mode \in Modes
  BY ChangesAssumption DEF PolicyChange, AdmitPolicyChange
<1>4. QED
  BY <1>2, <1>3 DEF OneLedger!ChangePolicy, Modes

\* The store's verified history behaves as one mutual-credit ledger in the
\* integers, whatever the instances do (economy.Ledger over economy.Store).
THEOREM Implementation == Spec => ImplementsCreditLedger
<1>1. Init => OneLedger!Init
  BY DEF Init, OneLedger!Init, Now, Genesis
<1>2. IInv /\ [Next]_vars => [OneLedger!Next]_(OneLedger!vars)
  <2> SUFFICES ASSUME IInv, [Next]_vars PROVE [OneLedger!Next]_(OneLedger!vars)
    OBVIOUS
  <2>1. CASE UNCHANGED past
    BY <2>1 DEF OneLedger!vars, Now
  <2>2. ASSUME NEW r \in Records, Admit(Now, r), past' = Append(past, Apply(Now, r))
        PROVE  OneLedger!Next
    <3>1. past \in Seq(State) /\ Len(past) \in Nat /\ Len(past) >= 1
      BY DEF IInv, TypeOK, PastOK
    <3>2. Now \in State /\ Apply(Now, r) \in State
      BY <3>1, <2>2, ApplyType DEF Now
    <3>3. Now' = Apply(Now, r)
      <4>1. past'[Len(past) + 1] = Apply(Now, r) /\ Len(past') = Len(past) + 1
        BY <2>2, <3>1, <3>2
      <4>2. QED
        BY <4>1 DEF Now
    <3>4. CASE r \in Spends /\ AdmitSpend(Now, r) /\ Apply(Now, r) = ApplySpend(Now, r)
      <4>1. OneLedger!Transfer(r.from, r.to)
        BY <3>2, <3>3, <3>4, MapsToTransfer
      <4>2. r.from \in Accounts /\ r.to \in Accounts
        BY <3>2, <3>4, ApplySpendExact
      <4>3. QED
        BY <4>1, <4>2 DEF OneLedger!Next
    <3>5. CASE r \in Changes /\ AdmitPolicyChange(Now, r) /\ Apply(Now, r) = ApplyPolicyChange(Now, r)
      <4>1. OneLedger!ChangePolicy
        BY <3>2, <3>3, <3>5, MapsToChange
      <4>2. QED
        BY <4>1 DEF OneLedger!Next
    <3>6. QED
      BY <2>2, <3>4, <3>5, AdmitCases
  <2>3. QED
    BY <2>1, <2>2, PastStep
<1>3. QED
  BY <1>1, <1>2, InitIInv, NextIInv, PTL DEF Spec, ImplementsCreditLedger, OneLedger!Spec

=============================================================================
