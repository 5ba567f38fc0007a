--------------------------- MODULE DisputeProofs ---------------------------
(***************************************************************************)
(* Proofs about Dispute for any charter, any artifacts and any number of   *)
(* callers that hold one mutex around a call.                              *)
(***************************************************************************)
EXTENDS Dispute, FiniteSetTheorems, TLAPS

-----------------------------------------------------------------------------
(* The inductive invariant. *)

\* A caller is between its gate and its return exactly while it holds the mutex.
MutexOK ==
    \A c \in Callers : pc[c] \in {"gate", "append"} <=> mu = c

\* What a gate has let through still holds when the store is reached.
GateOK == \A c \in Callers : pc[c] = "append" => Passes(job[c])

\* A case is nothing, an opening, or an opening and one terminal artifact; the store
\* knows the ids of what it holds, and the tuple of every case it holds.
CaseOK(d) ==
    LET ads == byDispute[d] IN
    /\ Len(ads) \in 0..2
    /\ Len(ads) = 0 <=> disputeTuple[d] = None
    /\ Len(ads) > 0 => /\ ads[1] \in Openings
                       /\ ads[1].dispute = d
                       /\ ads[1].id \in ids
                       /\ disputeTuple[d] = Tuple(ads[1])
    /\ Len(ads) = 2 => ads[2] \in Rulings \cup Withdrawals

\* The live index holds the cases that have an opening only.
LiveOK ==
    \A d \in Disputes, t \in Tuples :
        openTuple[t] = d <=> disputeTuple[d] = t /\ Len(byDispute[d]) = 1

\* A ruling in the store is the terminal artifact of its case, whose tuple is settled.
RuledOK ==
    \A r \in Rulings : r.id \in ids =>
        /\ Len(byDispute[r.dispute]) = 2
        /\ byDispute[r.dispute][2] = r
        /\ disputeTuple[r.dispute] \in adjudicated

\* A settled tuple is not live, and one ruling settled it.
SettledOK ==
    /\ \A t \in adjudicated : openTuple[t] = None
    /\ \A q, r \in Rulings :
          q.id \in ids /\ r.id \in ids /\ disputeTuple[q.dispute] = disputeTuple[r.dispute] => q = r

CasesOK == (\A d \in Disputes : CaseOK(d)) /\ LiveOK /\ RuledOK /\ SettledOK

IInv == TypeOK /\ MutexOK /\ GateOK /\ CasesOK

-----------------------------------------------------------------------------
(* Types, with or without the mutex. *)

\* What an artifact's kind says of it.
LEMMA ArtifactFacts ==
    ASSUME NEW a \in Artifacts
    PROVE  /\ a.id \in Ids /\ a.dispute \in Disputes /\ a # None
           /\ a.dispute # None
           /\ a.kind \in {"opening", "ruling", "withdrawal"}
           /\ a.kind = "opening" => /\ a \in Openings /\ a.dispute = a.id
                                    /\ Tuple(a) \in Tuples /\ Tuple(a) # None
           /\ a.kind = "ruling" => a \in Rulings
           /\ a.kind = "withdrawal" => a \in Withdrawals
           /\ a.kind # "opening" => a \notin Openings /\ a \in Rulings \cup Withdrawals
BY ArtifactAssumption, NoneAssumption DEF Artifacts, Ids, Disputes, Tuples

LEMMA InitType == Init => TypeOK
BY NoneAssumption DEF Init, TypeOK

\* StoreInsert keeps the store's maps.
LEMMA InsertType ==
    ASSUME TypeOK, NEW a \in Artifacts, StoreInsert(a)
    PROVE  /\ ids' \subseteq Ids
           /\ byDispute' \in [Disputes -> Seq(Artifacts)]
           /\ openTuple' \in [Tuples -> Disputes \cup {None}]
           /\ disputeTuple' \in [Disputes -> Tuples \cup {None}]
           /\ adjudicated' \subseteq Tuples
<1> USE ArtifactFacts DEF TypeOK
<1>1. ids' \subseteq Ids /\ byDispute' \in [Disputes -> Seq(Artifacts)]
  BY DEF StoreInsert
<1>2. CASE a.kind = "opening"
  BY <1>1, <1>2 DEF StoreInsert
<1>3. CASE a.kind # "opening"
  BY <1>1, <1>3 DEF StoreInsert
<1>4. QED
  BY <1>2, <1>3

LEMMA NextType == TypeOK /\ [Next]_vars => TypeOK'
<1> SUFFICES ASSUME TypeOK, [Next]_vars PROVE TypeOK'
  OBVIOUS
<1>1. ASSUME NEW e \in Entries, Seal(e) PROVE TypeOK'
  BY <1>1 DEF Seal, TypeOK, store
<1>2. ASSUME NEW c \in Callers, NEW a \in Artifacts, Submit(c, a) PROVE TypeOK'
  BY <1>2, NoneAssumption DEF Submit, TypeOK, store
<1>3. ASSUME NEW c \in Callers, Acquire(c) PROVE TypeOK'
  BY <1>3 DEF Acquire, TypeOK, store
<1>4. ASSUME NEW c \in Callers, Gate(c) PROVE TypeOK'
  BY <1>4 DEF Gate, Return, TypeOK, store
<1>5. ASSUME NEW c \in Callers, AppendArtifact(c) PROVE TypeOK'
  <2>1. job[c] \in Artifacts
    BY <1>5 DEF AppendArtifact, TypeOK
  <2>2. /\ ids' \subseteq Ids
        /\ byDispute' \in [Disputes -> Seq(Artifacts)]
        /\ openTuple' \in [Tuples -> Disputes \cup {None}]
        /\ disputeTuple' \in [Disputes -> Tuples \cup {None}]
        /\ adjudicated' \subseteq Tuples
    <3>1. CASE UNCHANGED store
      BY <3>1 DEF TypeOK, store
    <3>2. CASE StoreInsert(job[c])
      BY <3>2, <2>1, InsertType
    <3>3. QED
      BY <1>5, <3>1, <3>2 DEF AppendArtifact
  <2>3. QED
    BY <1>5, <2>2 DEF AppendArtifact, Return, TypeOK
<1>6. CASE UNCHANGED vars
  BY <1>6 DEF vars, store, TypeOK
<1>7. QED
  BY <1>1, <1>2, <1>3, <1>4, <1>5, <1>6 DEF Next, Step

\* The store's maps and the callers keep their shape, with or without a mutex
\* around the calls of Open, Rule and Withdraw.
THEOREM TypeCorrect == Spec => []TypeOK
BY InitType, NextType, PTL DEF Spec

-----------------------------------------------------------------------------
(* The cases, under the mutex. *)

\* An open case has its opening and no more, and is the live one of its tuple.
LEMMA OpenCase ==
    ASSUME IInv, NEW d \in Disputes, CaseState(d) = "open"
    PROVE  /\ Len(byDispute[d]) = 1
           /\ disputeTuple[d] = Tuple(byDispute[d][1])
           /\ disputeTuple[d] \in Tuples
           /\ openTuple[disputeTuple[d]] = d
           /\ disputeTuple[d] \notin adjudicated
<1>1. CaseOK(d)
  BY DEF IInv, CasesOK
<1>2. byDispute[d] \in Seq(Artifacts)
  BY DEF IInv, TypeOK
<1>3. byDispute[d] # <<>>
  BY DEF CaseState
<1>4. Len(byDispute[d]) # 2
  <2> SUFFICES ASSUME Len(byDispute[d]) = 2 PROVE FALSE
    OBVIOUS
  <2>1. byDispute[d][2] \in Artifacts /\ byDispute[d][2].kind # "opening"
    BY <1>1, ArtifactAssumption DEF CaseOK, Artifacts
  <2>2. byDispute[d][2].kind \in {"ruling", "withdrawal"}
    BY <2>1, ArtifactFacts
  <2>3. QED
    BY <2>2 DEF CaseState, StateAfter
<1>5. Len(byDispute[d]) = 1
  BY <1>1, <1>2, <1>3, <1>4 DEF CaseOK
<1>6. disputeTuple[d] = Tuple(byDispute[d][1]) /\ byDispute[d][1] \in Openings
  BY <1>1, <1>5 DEF CaseOK
<1>7. disputeTuple[d] \in Tuples
  BY <1>6 DEF Tuples
<1>8. openTuple[disputeTuple[d]] = d
  BY <1>5, <1>7 DEF IInv, CasesOK, LiveOK
<1>9. QED
  BY <1>5, <1>6, <1>7, <1>8, NoneAssumption DEF IInv, CasesOK, SettledOK

\* What the store holds of other cases stays as it is.
LEMMA OtherCases ==
    ASSUME TypeOK, NEW a \in Artifacts, StoreInsert(a), NEW d \in Disputes, d # a.dispute
    PROVE  byDispute'[d] = byDispute[d] /\ disputeTuple'[d] = disputeTuple[d]
BY ArtifactFacts DEF StoreInsert, TypeOK

\* MemStore.Append of an opening that its gate and its own checks let through.
LEMMA InsertOpening ==
    ASSUME IInv, NEW o \in Openings, ~StoreRefuses(o), StoreInsert(o)
    PROVE  CasesOK'
<1> DEFINE d == o.dispute
           t == Tuple(o)
<1>1. /\ o \in Artifacts /\ o.kind = "opening" /\ d = o.id /\ d \in Disputes /\ d # None
      /\ t \in Tuples /\ t # None /\ o \notin Rulings
  BY ArtifactAssumption, ArtifactFacts DEF Artifacts
<1>2. o.id \notin ids /\ t \notin adjudicated /\ openTuple[t] = None
  BY <1>1 DEF StoreRefuses
<1>3. TypeOK /\ (\A e \in Disputes : CaseOK(e)) /\ LiveOK /\ RuledOK /\ SettledOK
  BY DEF IInv, CasesOK
<1>4. byDispute[d] = <<>>
  <2>1. byDispute[d] \in Seq(Artifacts) /\ CaseOK(d)
    BY <1>1, <1>3 DEF TypeOK
  <2>2. ASSUME Len(byDispute[d]) > 0 PROVE FALSE
    <3>1. byDispute[d][1] \in Openings /\ byDispute[d][1].dispute = d /\ byDispute[d][1].id \in ids
      BY <2>1, <2>2 DEF CaseOK
    <3>2. byDispute[d][1].id = d
      BY <3>1, ArtifactAssumption
    <3>3. QED
      BY <3>1, <3>2, <1>1, <1>2
  <2>3. QED
    BY <2>1, <2>2
<1>5. disputeTuple[d] = None
  BY <1>1, <1>3, <1>4 DEF CaseOK
<1>6. /\ ids' = ids \cup {o.id} /\ adjudicated' = adjudicated
      /\ byDispute' = [byDispute EXCEPT ![d] = Append(@, o)]
      /\ openTuple' = [openTuple EXCEPT ![t] = d]
      /\ disputeTuple' = [disputeTuple EXCEPT ![d] = t]
  BY <1>1 DEF StoreInsert
<1>7. byDispute'[d] = <<o>> /\ disputeTuple'[d] = t /\ openTuple'[t] = d
  BY <1>1, <1>3, <1>4, <1>6 DEF TypeOK
<1>8. \A e \in Disputes \ {d} : byDispute'[e] = byDispute[e] /\ disputeTuple'[e] = disputeTuple[e]
  BY <1>3, <1>6 DEF TypeOK
<1>9. \A u \in Tuples \ {t} : openTuple'[u] = openTuple[u]
  BY <1>3, <1>6 DEF TypeOK
<1> HIDE DEF d, t
<1>10. ASSUME NEW e \in Disputes PROVE CaseOK(e)'
  <2>1. CASE e = d
    <3>1. byDispute'[e][1] = o /\ Len(byDispute'[e]) = 1 /\ disputeTuple'[e] = Tuple(o)
      BY <2>1, <1>7 DEF t
    <3>2. disputeTuple'[e] # None /\ o.dispute = e /\ o.id \in ids'
      BY <2>1, <1>1, <1>6, <1>7 DEF d
    <3>3. QED
      BY <3>1, <3>2 DEF CaseOK, Tuple
  <2>2. CASE e # d
    BY <2>2, <1>3, <1>6, <1>8 DEF CaseOK
  <2>3. QED
    BY <2>1, <2>2
<1>11. LiveOK'
  <2> SUFFICES ASSUME NEW e \in Disputes, NEW u \in Tuples
               PROVE  openTuple'[u] = e <=> disputeTuple'[e] = u /\ Len(byDispute'[e]) = 1
    BY DEF LiveOK
  <2>1. CASE e = d /\ u = t
    BY <2>1, <1>7
  <2>2. CASE e # d /\ u # t
    BY <2>2, <1>3, <1>8, <1>9 DEF LiveOK
  <2>3. CASE e = d /\ u # t
    <3>1. openTuple[u] # d
      BY <1>1, <1>3, <1>5, <1>4, NoneAssumption DEF LiveOK
    <3>2. QED
      BY <2>3, <3>1, <1>7, <1>9
  <2>4. CASE e # d /\ u = t
    <3>1. ~(disputeTuple[e] = t /\ Len(byDispute[e]) = 1)
      BY <1>1, <1>2, <1>3, NoneAssumption DEF LiveOK
    <3>2. QED
      BY <2>4, <3>1, <1>7, <1>8
  <2>5. QED
    BY <2>1, <2>2, <2>3, <2>4
<1>12. \A r \in Rulings : r.id \in ids' => r.id \in ids /\ r.dispute # d /\ r.dispute \in Disputes
  <2> SUFFICES ASSUME NEW r \in Rulings, r.id \in ids'
               PROVE  r.id \in ids /\ r.dispute # d /\ r.dispute \in Disputes
    OBVIOUS
  <2>1. r \in Artifacts /\ r # o
    BY <1>1 DEF Artifacts
  <2>2. r.id # o.id
    BY <2>1, <1>1, ArtifactAssumption
  <2>3. r.id \in ids
    BY <2>2, <1>6
  <2>4. Len(byDispute[r.dispute]) = 2
    BY <2>3, <1>3 DEF RuledOK
  <2>5. Len(byDispute[d]) = 0
    BY <1>4
  <2>6. QED
    BY <2>1, <2>3, <2>4, <2>5, ArtifactFacts
<1>13. RuledOK'
  BY <1>3, <1>6, <1>8, <1>12 DEF RuledOK
<1>14. SettledOK'
  <2>1. \A u \in adjudicated' : openTuple'[u] = None
    BY <1>2, <1>3, <1>6, <1>9 DEF SettledOK, TypeOK
  <2>2. QED
    BY <2>1, <1>3, <1>8, <1>12 DEF SettledOK
<1>15. QED
  BY <1>10, <1>11, <1>13, <1>14 DEF CasesOK

\* MemStore.Append of a ruling or a withdrawal of an open case.
LEMMA InsertTerminal ==
    ASSUME IInv, NEW a \in Rulings \cup Withdrawals, CaseState(a.dispute) = "open",
           ~StoreRefuses(a), StoreInsert(a)
    PROVE  CasesOK'
<1> DEFINE d == a.dispute
           t == disputeTuple[d]
<1>1. /\ a \in Artifacts /\ a.kind # "opening" /\ d \in Disputes /\ d # None
      /\ a.kind = "ruling" <=> a \in Rulings
  BY ArtifactAssumption, ArtifactFacts DEF Artifacts
<1>2. a.id \notin ids
  BY DEF StoreRefuses
<1>3. TypeOK /\ (\A e \in Disputes : CaseOK(e)) /\ LiveOK /\ RuledOK /\ SettledOK
  BY DEF IInv, CasesOK
<1>4. /\ Len(byDispute[d]) = 1 /\ t = Tuple(byDispute[d][1]) /\ t \in Tuples
      /\ openTuple[t] = d /\ t \notin adjudicated
  BY <1>1, OpenCase
<1>5. t # None
  BY <1>4, NoneAssumption
<1>6. /\ ids' = ids \cup {a.id} /\ disputeTuple' = disputeTuple
      /\ byDispute' = [byDispute EXCEPT ![d] = Append(@, a)]
      /\ openTuple' = [openTuple EXCEPT ![t] = None]
      /\ adjudicated' = IF a.kind = "ruling" THEN adjudicated \cup {t} ELSE adjudicated
  BY <1>1, <1>5 DEF StoreInsert
<1>7. byDispute[d] \in Seq(Artifacts) /\ byDispute'[d] = Append(byDispute[d], a)
  BY <1>1, <1>3, <1>6 DEF TypeOK
<1>8. Len(byDispute'[d]) = 2 /\ byDispute'[d][1] = byDispute[d][1] /\ byDispute'[d][2] = a
  BY <1>1, <1>4, <1>7
<1>9. \A e \in Disputes \ {d} : byDispute'[e] = byDispute[e]
  BY <1>3, <1>6 DEF TypeOK
<1>10. openTuple'[t] = None /\ \A u \in Tuples \ {t} : openTuple'[u] = openTuple[u]
  BY <1>3, <1>4, <1>6 DEF TypeOK
<1> HIDE DEF d, t
<1>11. ASSUME NEW e \in Disputes PROVE CaseOK(e)'
  <2>1. CASE e = d
    <3>1. /\ byDispute[d][1] \in Openings /\ byDispute[d][1].dispute = d
          /\ byDispute[d][1].id \in ids
      BY <1>1, <1>3, <1>4 DEF CaseOK
    <3>2. QED
      BY <2>1, <3>1, <1>4, <1>5, <1>6, <1>8 DEF CaseOK, t
  <2>2. CASE e # d
    BY <2>2, <1>3, <1>6, <1>9 DEF CaseOK
  <2>3. QED
    BY <2>1, <2>2
<1>12. LiveOK'
  <2> SUFFICES ASSUME NEW e \in Disputes, NEW u \in Tuples
               PROVE  openTuple'[u] = e <=> disputeTuple'[e] = u /\ Len(byDispute'[e]) = 1
    BY DEF LiveOK
  <2>1. openTuple[u] = e <=> disputeTuple[e] = u /\ Len(byDispute[e]) = 1
    BY <1>3 DEF LiveOK
  <2>2. openTuple[u] = d => u = t
    BY <1>1, <1>3 DEF LiveOK, t
  <2>3. CASE e = d
    BY <2>3, <2>2, <1>8, <1>10, <1>1
  <2>4. CASE e # d
    <3>1. u = t => openTuple[u] # e /\ openTuple'[u] # e
      BY <2>4, <1>4, <1>10, NoneAssumption
    <3>2. QED
      BY <2>1, <2>4, <3>1, <1>6, <1>9, <1>10
  <2>5. QED
    BY <2>3, <2>4
<1>13. \A r \in Rulings : r.id \in ids' /\ r # a => r.id \in ids /\ r.dispute # d /\ r.dispute \in Disputes
  <2> SUFFICES ASSUME NEW r \in Rulings, r.id \in ids', r # a
               PROVE  r.id \in ids /\ r.dispute # d /\ r.dispute \in Disputes
    OBVIOUS
  <2>1. r \in Artifacts
    BY DEF Artifacts
  <2>2. r.id # a.id
    BY <2>1, <1>1, ArtifactAssumption
  <2>3. r.id \in ids
    BY <2>2, <1>6
  <2>4. Len(byDispute[r.dispute]) = 2
    BY <2>3, <1>3 DEF RuledOK
  <2>5. QED
    BY <2>1, <2>3, <2>4, <1>4, ArtifactFacts
<1>14. adjudicated \subseteq adjudicated' /\ (a \in Rulings => t \in adjudicated')
  BY <1>1, <1>6
<1>15. RuledOK'
  <2> SUFFICES ASSUME NEW r \in Rulings, r.id \in ids'
               PROVE  /\ Len(byDispute'[r.dispute]) = 2
                      /\ byDispute'[r.dispute][2] = r
                      /\ disputeTuple'[r.dispute] \in adjudicated'
    BY DEF RuledOK
  <2>1. CASE r = a
    BY <2>1, <1>6, <1>8, <1>14 DEF d, t
  <2>2. CASE r # a
    <3>1. r.id \in ids /\ r.dispute # d /\ r.dispute \in Disputes
      BY <2>2, <1>13
    <3>2. /\ Len(byDispute[r.dispute]) = 2 /\ byDispute[r.dispute][2] = r
          /\ disputeTuple[r.dispute] \in adjudicated
      BY <3>1, <1>3 DEF RuledOK
    <3>3. QED
      BY <3>1, <3>2, <1>6, <1>9, <1>14
  <2>3. QED
    BY <2>1, <2>2
<1>16. SettledOK'
  <2>1. \A u \in adjudicated' : openTuple'[u] = None
    BY <1>3, <1>6, <1>10 DEF SettledOK, TypeOK
  <2>2. \A r \in Rulings : r.id \in ids' /\ r # a => disputeTuple[r.dispute] # t
    BY <1>3, <1>4, <1>13 DEF RuledOK
  <2>3. ASSUME NEW q \in Rulings, NEW r \in Rulings, q.id \in ids', r.id \in ids',
               disputeTuple'[q.dispute] = disputeTuple'[r.dispute]
        PROVE  q = r
    <3>1. CASE q = a /\ r # a
      BY <3>1, <2>2, <2>3, <1>6 DEF t, d
    <3>2. CASE q # a /\ r = a
      BY <3>2, <2>2, <2>3, <1>6 DEF t, d
    <3>3. CASE q # a /\ r # a
      BY <3>3, <2>3, <1>3, <1>6, <1>13 DEF SettledOK
    <3>4. QED
      BY <3>1, <3>2, <3>3
  <2>4. QED
    BY <2>1, <2>3 DEF SettledOK
<1>17. QED
  BY <1>11, <1>12, <1>15, <1>16 DEF CasesOK

-----------------------------------------------------------------------------
(* The steps of a call. *)

LEMMA InitInv == Init => IInv
<1> SUFFICES ASSUME Init PROVE IInv
  OBVIOUS
<1>1. TypeOK
  BY InitType
<1>2. MutexOK /\ GateOK
  BY NoneAssumption DEF Init, MutexOK, GateOK
<1>3. \A d \in Disputes : CaseOK(d)
  BY DEF Init, CaseOK
<1>4. LiveOK
  BY NoneAssumption DEF Init, LiveOK
<1>5. RuledOK /\ SettledOK
  BY DEF Init, RuledOK, SettledOK
<1>6. QED
  BY <1>1, <1>2, <1>3, <1>4, <1>5 DEF IInv, CasesOK

\* A step that leaves the store alone leaves the cases alone.
LEMMA StoreUnchanged ==
    ASSUME CasesOK, UNCHANGED store
    PROVE  CasesOK'
<1> USE DEF store
<1>1. \A d \in Disputes : CaseOK(d)'
  BY DEF CasesOK, CaseOK
<1>2. LiveOK'
  BY DEF CasesOK, LiveOK
<1>3. RuledOK' /\ SettledOK'
  BY DEF CasesOK, RuledOK, SettledOK
<1>4. QED
  BY <1>1, <1>2, <1>3 DEF CasesOK

\* The gates read the store and the anchors; an anchor once there stays.
LEMMA PassesStable ==
    ASSUME NEW a, Passes(a), UNCHANGED store, sealed \subseteq sealed'
    PROVE  Passes(a)'
<1> USE DEF store
<1>1. CASE a.kind = "opening" /\ GateOpening(a)
  BY <1>1 DEF Passes, GateOpening
<1>2. CASE a.kind = "ruling" /\ GateRuling(a)
  <2>1. CaseState(a.dispute)' = CaseState(a.dispute) /\ OpeningOf(a.dispute)' = OpeningOf(a.dispute)
    BY DEF CaseState, OpeningOf
  <2>2. QED
    BY <1>2, <2>1 DEF Passes, GateRuling, QuorumVerifies, CoherentRemedy
<1>3. CASE a.kind = "withdrawal" /\ GateWithdrawal(a)
  <2>1. CaseState(a.dispute)' = CaseState(a.dispute) /\ OpeningOf(a.dispute)' = OpeningOf(a.dispute)
    BY DEF CaseState, OpeningOf
  <2>2. QED
    BY <1>3, <2>1 DEF Passes, GateWithdrawal
<1>4. QED
  BY <1>1, <1>2, <1>3 DEF Passes

LEMMA NextInv == Serialised /\ IInv /\ [Next]_vars => IInv'
<1> SUFFICES ASSUME Serialised, IInv, [Next]_vars PROVE IInv'
  OBVIOUS
<1>t. TypeOK /\ TypeOK'
  BY NextType DEF IInv
<1>u. MutexOK /\ GateOK /\ CasesOK
  BY DEF IInv
<1>1. ASSUME NEW e \in Entries, Seal(e) PROVE IInv'
  <2>1. UNCHANGED store /\ sealed \subseteq sealed'
    BY <1>1 DEF Seal
  <2>2. MutexOK'
    BY <1>1, <1>u DEF Seal, MutexOK
  <2>3. GateOK'
    BY <1>1, <1>u, <2>1, PassesStable DEF Seal, GateOK
  <2>4. QED
    BY <1>t, <1>u, <2>1, <2>2, <2>3, StoreUnchanged DEF IInv
<1>2. ASSUME NEW c \in Callers, NEW a \in Artifacts, Submit(c, a) PROVE IInv'
  <2>1. UNCHANGED store /\ sealed \subseteq sealed'
    BY <1>2 DEF Submit
  <2>2. MutexOK'
    BY <1>2, <1>t, <1>u DEF Submit, MutexOK, TypeOK
  <2>3. \A x \in Callers : pc'[x] = "append" => x # c /\ pc[x] = "append" /\ job'[x] = job[x]
    BY <1>2, <1>t DEF Submit, TypeOK
  <2>4. GateOK'
    BY <1>u, <2>1, <2>3, PassesStable DEF GateOK
  <2>5. QED
    BY <1>t, <1>u, <2>1, <2>2, <2>4, StoreUnchanged DEF IInv
<1>3. ASSUME NEW c \in Callers, Acquire(c) PROVE IInv'
  <2>1. UNCHANGED store /\ sealed \subseteq sealed'
    BY <1>3 DEF Acquire
  <2>2. MutexOK'
    BY <1>3, <1>t, <1>u, NoneAssumption DEF Acquire, MutexOK, TypeOK
  <2>3. \A x \in Callers : pc'[x] = "append" => pc[x] = "append" /\ job'[x] = job[x]
    BY <1>3, <1>t DEF Acquire, TypeOK
  <2>4. GateOK'
    BY <1>u, <2>1, <2>3, PassesStable DEF GateOK
  <2>5. QED
    BY <1>t, <1>u, <2>1, <2>2, <2>4, StoreUnchanged DEF IInv
<1>4. ASSUME NEW c \in Callers, Gate(c) PROVE IInv'
  <2>1. UNCHANGED store /\ sealed \subseteq sealed'
    BY <1>4 DEF Gate
  <2>2. MutexOK'
    BY <1>4, <1>t, <1>u, NoneAssumption DEF Gate, Return, MutexOK, TypeOK
  <2>3. ASSUME NEW x \in Callers, pc'[x] = "append" PROVE Passes(job[x])'
    <3>1. job'[x] = job[x] /\ Passes(job[x])
      BY <1>4, <1>t, <1>u, <2>3 DEF Gate, Return, GateOK, TypeOK
    <3>2. QED
      BY <2>1, <3>1, PassesStable
  <2>4. QED
    BY <1>t, <1>u, <2>1, <2>2, <2>3, StoreUnchanged DEF IInv, GateOK
<1>5. ASSUME NEW c \in Callers, AppendArtifact(c) PROVE IInv'
  <2>1. pc[c] = "append" /\ mu = c /\ job[c] \in Artifacts /\ Passes(job[c])
    BY <1>5, <1>t, <1>u DEF AppendArtifact, MutexOK, GateOK, TypeOK
  <2>2. MutexOK'
    BY <1>5, <1>t, <1>u, <2>1, NoneAssumption DEF AppendArtifact, Return, MutexOK, TypeOK
  <2>3. GateOK'
    <3>1. \A x \in Callers \ {c} : pc[x] # "append"
      BY <1>u, <2>1 DEF MutexOK
    <3>2. QED
      BY <1>5, <1>t, <3>1 DEF AppendArtifact, Return, GateOK, TypeOK
  <2>4. CasesOK'
    <3>1. CASE UNCHANGED store
      BY <3>1, <1>u, StoreUnchanged
    <3>2. CASE ~StoreRefuses(job[c]) /\ StoreInsert(job[c])
      <4>1. CASE job[c].kind = "opening"
        <5>1. job[c] \in Openings
          BY <2>1, <4>1, ArtifactFacts
        <5>2. QED
          BY <3>2, <5>1, InsertOpening
      <4>2. CASE job[c].kind # "opening"
        <5>1. job[c] \in Rulings \cup Withdrawals
          BY <2>1, <4>2, ArtifactFacts
        <5>2. CaseState(job[c].dispute) = "open"
          BY <2>1, <4>2 DEF Passes, GateRuling, GateWithdrawal
        <5>3. QED
          BY <3>2, <5>1, <5>2, InsertTerminal
      <4>3. QED
        BY <4>1, <4>2
    <3>3. QED
      BY <1>5, <3>1, <3>2 DEF AppendArtifact
  <2>5. QED
    BY <1>t, <2>2, <2>3, <2>4 DEF IInv
<1>6. CASE UNCHANGED vars
  <2>1. UNCHANGED store /\ UNCHANGED <<sealed, mu, pc, job>>
    BY <1>6 DEF vars
  <2>2. MutexOK'
    BY <1>u, <2>1 DEF MutexOK
  <2>3. GateOK'
    BY <1>u, <2>1, PassesStable DEF GateOK
  <2>4. QED
    BY <1>t, <1>u, <2>1, <2>2, <2>3, StoreUnchanged DEF IInv
<1>7. QED
  BY <1>1, <1>2, <1>3, <1>4, <1>5, <1>6 DEF Next, Step

-----------------------------------------------------------------------------
(* What it implies. *)

LEMMA InvImpliesAgrees == IInv => LiveIndexAgrees
<1> SUFFICES ASSUME IInv, NEW d \in Disputes
             PROVE  /\ Len(byDispute[d]) <= 2
                    /\ byDispute[d] # <<>> =>
                         /\ byDispute[d][1].kind = "opening" /\ byDispute[d][1].dispute = d
                         /\ Len(byDispute[d]) = 2 => byDispute[d][2].kind # "opening"
                    /\ CaseState(d) = "open" <=>
                         \E t \in Tuples : openTuple[t] = d /\ disputeTuple[d] = t
  BY DEF LiveIndexAgrees
<1>1. byDispute[d] \in Seq(Artifacts) /\ CaseOK(d)
  BY DEF IInv, CasesOK, TypeOK
<1>2. /\ Len(byDispute[d]) <= 2
      /\ byDispute[d] # <<>> =>
           /\ byDispute[d][1].kind = "opening" /\ byDispute[d][1].dispute = d
           /\ Len(byDispute[d]) = 2 => byDispute[d][2].kind # "opening"
  <2>0. Len(byDispute[d]) <= 2
    <3>1. Len(byDispute[d]) \in 0..2
      BY <1>1 DEF CaseOK
    <3>2. \A n \in 0..2 : n <= 2
      OBVIOUS
    <3>3. QED
      BY <3>1, <3>2
  <2>1. byDispute[d] # <<>> => Len(byDispute[d]) > 0
    BY <1>1
  <2>2. Len(byDispute[d]) > 0 => byDispute[d][1] \in Openings /\ byDispute[d][1].dispute = d
    BY <1>1 DEF CaseOK
  <2>3. Len(byDispute[d]) = 2 => byDispute[d][2] \in Rulings \cup Withdrawals
    BY <1>1 DEF CaseOK
  <2>4. QED
    BY <2>0, <2>1, <2>2, <2>3, ArtifactAssumption
<1>3. CaseState(d) = "open" => \E t \in Tuples : openTuple[t] = d /\ disputeTuple[d] = t
  BY OpenCase
<1>4. ASSUME NEW t \in Tuples, openTuple[t] = d /\ disputeTuple[d] = t
      PROVE  CaseState(d) = "open"
  <2>1. Len(byDispute[d]) = 1
    BY <1>4 DEF IInv, CasesOK, LiveOK
  <2>2. byDispute[d] # <<>> /\ byDispute[d][1].kind = "opening"
    BY <1>1, <1>2, <2>1
  <2>3. \A i \in 1..Len(byDispute[d]) : byDispute[d][i].kind = "opening" <=> i = 1
    BY <2>1, <2>2
  <2>4. CaseState(d) = StateAfter("opening")
    BY <2>1, <2>2, <2>3 DEF CaseState
  <2>5. StateAfter("opening") = "open"
    BY DEF StateAfter
  <2>6. QED
    BY <2>4, <2>5
<1>5. QED
  BY <1>2, <1>3, <1>4

LEMMA InvImpliesOneRuling == IInv => OneRulingPerTuple
<1> SUFFICES ASSUME IInv, NEW t \in Tuples
             PROVE  /\ Cardinality(Ruled(t)) <= 1
                    /\ Ruled(t) # {} =>
                         \A d \in Disputes : disputeTuple[d] = t => CaseState(d) # "open"
  BY DEF OneRulingPerTuple
<1>1. \A q, r \in Ruled(t) : q = r
  BY DEF Ruled, IInv, CasesOK, SettledOK
<1>2. Cardinality(Ruled(t)) <= 1
  <2>1. CASE Ruled(t) = {}
    BY <2>1, FS_EmptySet
  <2>2. CASE Ruled(t) # {}
    <3>1. PICK r \in Ruled(t) : TRUE
      BY <2>2
    <3>2. Ruled(t) = {r}
      BY <1>1, <3>1
    <3>3. Cardinality({r}) = 1
      BY FS_Singleton
    <3>4. QED
      BY <3>2, <3>3
  <2>3. QED
    BY <2>1, <2>2
<1>3. Ruled(t) # {} => t \in adjudicated
  BY DEF Ruled, IInv, CasesOK, RuledOK
<1>4. QED
  BY <1>2, <1>3, OpenCase

\* Under the server's mutex the live index of MemStore is the fold of the artifacts:
\* a case takes one terminal artifact, and its tuple is live exactly while it is open.
THEOREM IndexIsTheFold ==
    ASSUME Serialised
    PROVE  Spec => []LiveIndexAgrees
<1>1. IInv /\ [Next]_vars => IInv'
  BY NextInv
<1>2. QED
  BY <1>1, InitInv, InvImpliesAgrees, PTL DEF Spec

\* Under the server's mutex no (exchange, complainant, respondent) is ruled on twice,
\* over all the cases ever opened on it: the double-refund guard of MemStore.Append.
THEOREM OneRuling ==
    ASSUME Serialised
    PROVE  Spec => []OneRulingPerTuple
<1>1. IInv /\ [Next]_vars => IInv'
  BY NextInv
<1>2. QED
  BY <1>1, InitInv, InvImpliesOneRuling, PTL DEF Spec

-----------------------------------------------------------------------------
(* The docket. *)

\* A tuple with a ruling in the store is settled, so it is not live.
LEMMA RemediesSettle ==
    ASSUME IInv, NEW m \in Remedies
    PROVE  m[1] \in adjudicated /\ m[1] \notin Live
BY DEF IInv, CasesOK, RuledOK, SettledOK, Remedies, Live

LEMMA OpeningIsOpen ==
    ASSUME IInv, NEW o \in Openings, ~StoreRefuses(o), StoreInsert(o)
    PROVE  /\ Tuple(o) \in Tuples \ Live
           /\ \A m \in Remedies : m[1] # Tuple(o)
           /\ Live' = Live \cup {Tuple(o)}
           /\ Remedies' = Remedies
<1>1. /\ o \in Artifacts /\ o.kind = "opening" /\ o.dispute = o.id /\ o.dispute \in Disputes
      /\ o.dispute # None /\ Tuple(o) \in Tuples /\ o \notin Rulings
  BY ArtifactAssumption, ArtifactFacts DEF Artifacts
<1>2. o.id \notin ids /\ Tuple(o) \notin adjudicated /\ openTuple[Tuple(o)] = None
  BY <1>1 DEF StoreRefuses
<1>3. /\ ids' = ids \cup {o.id}
      /\ openTuple' = [openTuple EXCEPT ![Tuple(o)] = o.dispute]
      /\ disputeTuple' = [disputeTuple EXCEPT ![o.dispute] = Tuple(o)]
  BY <1>1 DEF StoreInsert
<1>4. Tuple(o) \notin Live /\ \A m \in Remedies : m[1] # Tuple(o)
  BY <1>2, RemediesSettle DEF Live
<1>5. Live' = Live \cup {Tuple(o)}
  BY <1>1, <1>3 DEF Live, IInv, TypeOK
<1>6. \A r \in Rulings : r.id \in ids' <=> r.id \in ids
  BY <1>1, <1>3, ArtifactAssumption DEF Artifacts
<1>7. ASSUME NEW r \in Rulings, r.id \in ids PROVE disputeTuple'[r.dispute] = disputeTuple[r.dispute]
  <2>1. r.dispute \in Disputes
    BY ArtifactFacts DEF Artifacts
  <2>2. r.dispute # o.dispute
    <3> SUFFICES ASSUME r.dispute = o.dispute PROVE FALSE
      OBVIOUS
    <3>1. Len(byDispute[o.dispute]) = 2
      BY <1>7 DEF IInv, CasesOK, RuledOK
    <3>2. CaseOK(o.dispute)
      BY <1>1 DEF IInv, CasesOK
    <3>3. Len(byDispute[o.dispute]) > 0
      BY <3>1
    <3>4. /\ byDispute[o.dispute][1] \in Openings /\ byDispute[o.dispute][1].dispute = o.dispute
          /\ byDispute[o.dispute][1].id \in ids
      BY <3>2, <3>3 DEF CaseOK
    <3>5. QED
      BY <3>4, <1>1, <1>2, ArtifactAssumption
  <2>3. QED
    BY <2>1, <2>2, <1>3 DEF IInv, TypeOK
<1>8. Remedies' = Remedies
  BY <1>6, <1>7 DEF Remedies
<1>9. QED
  BY <1>1, <1>4, <1>5, <1>8

LEMMA TerminalCloses ==
    ASSUME IInv, NEW a \in Rulings \cup Withdrawals, CaseState(a.dispute) = "open",
           ~StoreRefuses(a), StoreInsert(a)
    PROVE  /\ disputeTuple[a.dispute] \in Tuples \cap Live
           /\ \A m \in Remedies : m[1] # disputeTuple[a.dispute]
           /\ Live' = Live \ {disputeTuple[a.dispute]}
           /\ a \in Withdrawals => Remedies' = Remedies
           /\ a \in Rulings => Remedies' = Remedies \cup {<<disputeTuple[a.dispute], a>>}
<1>1. /\ a \in Artifacts /\ a.kind # "opening" /\ a.dispute \in Disputes /\ a.dispute # None
      /\ a \in Withdrawals => a \notin Rulings
  BY ArtifactAssumption, ArtifactFacts DEF Artifacts
<1>2. /\ disputeTuple[a.dispute] \in Tuples
      /\ openTuple[disputeTuple[a.dispute]] = a.dispute
      /\ disputeTuple[a.dispute] \notin adjudicated
  BY <1>1, OpenCase
<1>3. disputeTuple[a.dispute] # None
  BY <1>2, NoneAssumption
<1>4. /\ ids' = ids \cup {a.id} /\ disputeTuple' = disputeTuple
      /\ openTuple' = [openTuple EXCEPT ![disputeTuple[a.dispute]] = None]
  BY <1>1, <1>3 DEF StoreInsert
<1>5. Live' = Live \ {disputeTuple[a.dispute]}
  BY <1>2, <1>4 DEF Live, IInv, TypeOK
<1>6. /\ disputeTuple[a.dispute] \in Live
      /\ \A m \in Remedies : m[1] # disputeTuple[a.dispute]
  BY <1>1, <1>2, RemediesSettle DEF Live
<1>7. \A r \in Rulings : r.id \in ids' <=> r.id \in ids \/ r = a
  BY <1>1, <1>4, ArtifactAssumption DEF Artifacts
<1>8. a \in Withdrawals => Remedies' = Remedies
  BY <1>1, <1>4, <1>7 DEF Remedies
<1>9. a \in Rulings => Remedies' = Remedies \cup {<<disputeTuple[a.dispute], a>>}
  BY <1>4, <1>7 DEF Remedies
<1>10. QED
  BY <1>2, <1>5, <1>6, <1>8, <1>9

\* The Registry over MemStore, under the server's mutex, implements Docket: a tuple is
\* free, live or settled, and one ruling settles it for good.
THEOREM Implementation ==
    ASSUME Serialised
    PROVE  Spec => ImplementsDocket
<1> USE DEF OneDocket!vars
<1>1. Init => OneDocket!Init
  BY DEF Init, OneDocket!Init, Live, Remedies
<1>2. IInv /\ [Next]_vars => IInv'
  BY NextInv
<1>3. IInv /\ [Next]_vars => [OneDocket!Next]_(OneDocket!vars)
  <2> SUFFICES ASSUME IInv, [Next]_vars PROVE [OneDocket!Next]_<<Live, Remedies>>
    OBVIOUS
  <2>1. CASE UNCHANGED store
    BY <2>1 DEF store, Live, Remedies
  <2>2. ASSUME NEW c \in Callers, AppendArtifact(c), ~StoreRefuses(job[c]), StoreInsert(job[c])
        PROVE  OneDocket!Next
    <3>1. job[c] \in Artifacts /\ Passes(job[c])
      BY <2>2 DEF AppendArtifact, IInv, TypeOK, GateOK
    <3>2. CASE job[c].kind = "opening"
      <4>1. job[c] \in Openings
        BY <3>1, <3>2, ArtifactFacts
      <4> DEFINE t == Tuple(job[c])
      <4>2. /\ t \in Tuples \ Live
            /\ \A m \in Remedies : m[1] # t
            /\ Live' = Live \cup {t}
            /\ Remedies' = Remedies
        BY <2>2, <4>1, OpeningIsOpen
      <4> HIDE DEF t
      <4>3. OneDocket!Open(t)
        BY <4>2 DEF OneDocket!Open, OneDocket!Settled
      <4>4. QED
        BY <4>2, <4>3 DEF OneDocket!Next
    <3>3. CASE job[c].kind # "opening"
      <4> DEFINE t == disputeTuple[job[c].dispute]
      <4>1. job[c] \in Rulings \cup Withdrawals
        BY <3>1, <3>3, ArtifactFacts
      <4>2. CaseState(job[c].dispute) = "open"
        BY <3>1, <3>3 DEF Passes, GateRuling, GateWithdrawal
      <4>3. /\ t \in Tuples \cap Live
            /\ \A m \in Remedies : m[1] # t
            /\ Live' = Live \ {t}
            /\ job[c] \in Withdrawals => Remedies' = Remedies
            /\ job[c] \in Rulings => Remedies' = Remedies \cup {<<t, job[c]>>}
        BY <2>2, <4>1, <4>2, TerminalCloses
      <4> HIDE DEF t
      <4>4. CASE job[c] \in Withdrawals
        <5>1. OneDocket!Withdraw(t)
          BY <4>3, <4>4 DEF OneDocket!Withdraw
        <5>2. QED
          BY <4>3, <5>1 DEF OneDocket!Next
      <4>5. CASE job[c] \in Rulings
        <5>1. OneDocket!Rule(t, job[c])
          BY <4>3, <4>5 DEF OneDocket!Rule, OneDocket!Settled
        <5>2. QED
          BY <4>3, <4>5, <5>1 DEF OneDocket!Next
      <4>6. QED
        BY <4>1, <4>4, <4>5
    <3>4. QED
      BY <3>2, <3>3
  <2>3. UNCHANGED store \/ \E c \in Callers : /\ AppendArtifact(c)
                                              /\ ~StoreRefuses(job[c]) /\ StoreInsert(job[c])
    BY DEF Next, Step, Seal, Submit, Acquire, Gate, AppendArtifact, vars
  <2>4. QED
    BY <2>1, <2>2, <2>3
<1>4. QED
  BY <1>1, <1>2, <1>3, InitInv, PTL DEF Spec, ImplementsDocket, OneDocket!Spec
=============================================================================
