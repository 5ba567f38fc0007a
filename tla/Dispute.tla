------------------------------ MODULE Dispute ------------------------------
(***************************************************************************)
(* internal/dispute: the Registry over its MemStore, used by several       *)
(* goroutines.                                                             *)
(*                                                                         *)
(* Rule and Withdraw read the case under the store's lock, let it go, and  *)
(* take it again to append: two critical sections, so two steps here, Gate *)
(* and Append.  Open has one, but its anchor check runs before it, so it   *)
(* has the same two steps.  Serialised says whether the callers hold a     *)
(* mutex of their own around the call, as consumerapi.Server does with     *)
(* s.mu; the Registry itself has none.                                     *)
(*                                                                         *)
(* An artifact's id stands for its leaf hash, so it determines the         *)
(* artifact, and a signature for the key that made it.                     *)
(***************************************************************************)
EXTENDS Integers, Sequences, FiniteSets

CONSTANTS
    Callers,       \* goroutines calling the Registry
    Platform,      \* Charter.Platform
    Adjudicators,  \* Charter.Adjudicators
    Threshold,     \* Charter.Threshold
    Entries,       \* <<exchange, {party, party}>>: entries the record log may hold
    Openings, Rulings, Withdrawals,  \* artifacts that may be presented, good and bad
    Serialised,    \* the callers hold one mutex for the whole call
    None           \* nobody, nothing, no case

Artifacts == Openings \cup Rulings \cup Withdrawals
Disputes == {a.dispute : a \in Artifacts}
Ids == {a.id : a \in Artifacts}

\* opensCase: the one-live-case key is directional in the two parties.
Tuple(o) == <<o.exchange, o.complainant, o.respondent>>
Tuples == {Tuple(o) : o \in Openings}

\* NewRegistry refuses any other charter.
ASSUME CharterAssumption ==
    /\ Platform # ""
    /\ Threshold \in 1..Cardinality(Adjudicators)
\* Opening.ID is both the artifact's id and its case's; ids are leaf hashes.
ASSUME ArtifactAssumption ==
    /\ \A o \in Openings : o.kind = "opening" /\ o.dispute = o.id
    /\ \A r \in Rulings : r.kind = "ruling"
    /\ \A w \in Withdrawals : w.kind = "withdrawal"
    /\ \A a, b \in Artifacts : a.id = b.id => a = b
ASSUME SerialisedAssumption == Serialised \in BOOLEAN
ASSUME NoneAssumption ==
    None \notin Callers /\ None \notin Artifacts /\ None \notin Disputes /\ None \notin Tuples

VARIABLES
    sealed,        \* the entries the record log holds: what Anchors.Sealed sees
    ids,           \* MemStore.ids
    byDispute,     \* MemStore.byDispute
    openTuple,     \* MemStore.openTuple, None where the key is absent
    disputeTuple,  \* MemStore.disputeTuple, None where the key is absent
    adjudicated,   \* MemStore.adjudicated
    mu,            \* the holder of the callers' mutex
    pc,            \* where each caller is
    job            \* the artifact each caller is presenting

store == <<ids, byDispute, openTuple, disputeTuple, adjudicated>>
vars == <<sealed, store, mu, pc, job>>

-----------------------------------------------------------------------------
(* The read model. *)

\* The state Case folds the artifacts of a case to: that of the last one.
StateAfter(kind) ==
    CASE kind = "opening" -> "open"
      [] kind = "ruling" -> "resolved"
      [] kind = "withdrawal" -> "withdrawn"

\* Registry.Case: "none" where it errors (no artifact, or an opening that is
\* not the first one and only).
CaseState(d) ==
    LET ads == byDispute[d] IN
    IF /\ ads # <<>>
       /\ \A i \in 1..Len(ads) : ads[i].kind = "opening" <=> i = 1
    THEN StateAfter(ads[Len(ads)].kind)
    ELSE "none"

OpeningOf(d) == byDispute[d][1]

-----------------------------------------------------------------------------
(* What Open, Rule and Withdraw check before they call Append. *)

\* Opening.Verify, the platform, and the anchor.
GateOpening(o) ==
    /\ o.complainant # o.respondent
    /\ o.signer = o.complainant
    /\ o.platform = Platform
    /\ <<o.exchange, {o.complainant, o.respondent}>> \in sealed

\* Remedy.validate: one shape per mode.
CoherentRemedy(mode, remedy) ==
    \/ /\ mode = "escrow"
       /\ remedy.escalation \in {"refund", "release", "split"}
       /\ remedy.harm = "unset" /\ ~remedy.refund
    \/ /\ mode = "credit"
       /\ remedy.escalation = "unset"
       /\ remedy.harm \in {"upheld", "expunged"}

\* Ruling.Verify: non-roster and repeated signatures count for nothing.
QuorumVerifies(r) ==
    Cardinality({k \in Adjudicators : \E i \in 1..Len(r.sigs) : r.sigs[i] = k}) >= Threshold

GateRuling(r) ==
    /\ r.platform = Platform
    /\ r.finding \in {"complainant", "respondent", "split", "nofault"}
    /\ CoherentRemedy(r.mode, r.remedy)
    /\ QuorumVerifies(r)
    /\ CaseState(r.dispute) = "open"
    /\ r.exchange = OpeningOf(r.dispute).exchange

GateWithdrawal(w) ==
    /\ w.platform = Platform
    /\ CaseState(w.dispute) = "open"
    /\ w.signer = OpeningOf(w.dispute).complainant

Passes(a) ==
    \/ a.kind = "opening" /\ GateOpening(a)
    \/ a.kind = "ruling" /\ GateRuling(a)
    \/ a.kind = "withdrawal" /\ GateWithdrawal(a)

-----------------------------------------------------------------------------
(* MemStore.Append: one critical section. *)

\* Append returns an error: a known id, a settled tuple, or a live one.
StoreRefuses(a) ==
    \/ a.id \in ids
    \/ /\ a.kind = "opening"
       /\ Tuple(a) \in adjudicated \/ openTuple[Tuple(a)] # None

StoreInsertKeepsLive(a) ==
    /\ ids' = ids \cup {a.id}
    /\ byDispute' = [byDispute EXCEPT ![a.dispute] = Append(@, a)]
    /\ IF a.kind = "opening"
       THEN /\ openTuple' = [openTuple EXCEPT ![Tuple(a)] = a.dispute]
            /\ disputeTuple' = [disputeTuple EXCEPT ![a.dispute] = Tuple(a)]
            /\ UNCHANGED adjudicated
       ELSE LET key == disputeTuple[a.dispute] IN
            /\ openTuple' = IF a.kind = "ruling" THEN [openTuple EXCEPT ![key] = None] ELSE openTuple
            /\ adjudicated' = IF a.kind = "ruling" THEN adjudicated \cup {key} ELSE adjudicated
            /\ UNCHANGED disputeTuple

StoreInsertForgetsTuple(a) ==
    /\ ids' = ids \cup {a.id}
    /\ byDispute' = [byDispute EXCEPT ![a.dispute] = Append(@, a)]
    /\ UNCHANGED disputeTuple
    /\ IF a.kind = "opening"
       THEN /\ openTuple' = [openTuple EXCEPT ![Tuple(a)] = a.dispute]
            /\ UNCHANGED adjudicated
       ELSE /\ adjudicated' = adjudicated \cup {disputeTuple[a.dispute]}
            /\ UNCHANGED openTuple

StoreInsertNeverSettles(a) ==
    /\ ids' = ids \cup {a.id}
    /\ byDispute' = [byDispute EXCEPT ![a.dispute] = Append(@, a)]
    /\ UNCHANGED adjudicated
    /\ IF a.kind = "opening"
       THEN /\ openTuple' = [openTuple EXCEPT ![Tuple(a)] = a.dispute]
            /\ disputeTuple' = [disputeTuple EXCEPT ![a.dispute] = Tuple(a)]
       ELSE /\ openTuple' = [openTuple EXCEPT ![disputeTuple[a.dispute]] = None]
            /\ UNCHANGED disputeTuple

\* An opening goes live; a terminal artifact releases its case's tuple, and a
\* ruling settles it for good.
StoreInsert(a) ==
    /\ ids' = ids \cup {a.id}
    /\ byDispute' = [byDispute EXCEPT ![a.dispute] = Append(@, a)]
    /\ IF a.kind = "opening"
       THEN /\ openTuple' = [openTuple EXCEPT ![Tuple(a)] = a.dispute]
            /\ disputeTuple' = [disputeTuple EXCEPT ![a.dispute] = Tuple(a)]
            /\ UNCHANGED adjudicated
       ELSE LET key == disputeTuple[a.dispute] IN
            /\ UNCHANGED disputeTuple
            /\ IF key # None
               THEN /\ openTuple' = [openTuple EXCEPT ![key] = None]
                    /\ adjudicated' = IF a.kind = "ruling" THEN adjudicated \cup {key}
                                                           ELSE adjudicated
               ELSE UNCHANGED <<openTuple, adjudicated>>

-----------------------------------------------------------------------------
(* The steps of a call. *)

Init ==
    /\ sealed = {}
    /\ ids = {}
    /\ byDispute = [d \in Disputes |-> <<>>]
    /\ openTuple = [t \in Tuples |-> None]
    /\ disputeTuple = [d \in Disputes |-> None]
    /\ adjudicated = {}
    /\ mu = None
    /\ pc = [c \in Callers |-> "idle"]
    /\ job = [c \in Callers |-> None]

\* The record log takes one more entry (external to this package).
Seal(e) ==
    /\ e \notin sealed
    /\ sealed' = sealed \cup {e}
    /\ UNCHANGED <<store, mu, pc, job>>

Submit(c, a) ==
    /\ pc[c] = "idle"
    /\ pc' = [pc EXCEPT ![c] = IF Serialised THEN "lock" ELSE "gate"]
    /\ job' = [job EXCEPT ![c] = a]
    /\ UNCHANGED <<sealed, store, mu>>

\* s.mu.Lock() in the caller.
Acquire(c) ==
    /\ pc[c] = "lock"
    /\ mu = None
    /\ mu' = c
    /\ pc' = [pc EXCEPT ![c] = "gate"]
    /\ UNCHANGED <<sealed, store, job>>

\* The call returns, and the caller lets its mutex go if it holds it.
ReturnHoldingMu(c) ==
    /\ pc' = [pc EXCEPT ![c] = "idle"]
    /\ job' = [job EXCEPT ![c] = None]
    /\ UNCHANGED mu

Return(c) ==
    /\ pc' = [pc EXCEPT ![c] = "idle"]
    /\ job' = [job EXCEPT ![c] = None]
    /\ mu' = IF mu = c THEN None ELSE mu

Gate(c) ==
    /\ pc[c] = "gate"
    /\ UNCHANGED <<sealed, store>>
    /\ \/ /\ Passes(job[c])
          /\ pc' = [pc EXCEPT ![c] = "append"]
          /\ UNCHANGED <<mu, job>>
       \/ /\ ~Passes(job[c])
          /\ Return(c)

AppendArtifact(c) ==
    /\ pc[c] = "append"
    /\ UNCHANGED sealed
    /\ \/ StoreRefuses(job[c]) /\ UNCHANGED store
       \/ ~StoreRefuses(job[c]) /\ StoreInsert(job[c])
    /\ Return(c)

Step(c) == Gate(c) \/ AppendArtifact(c)

Next ==
    \/ \E e \in Entries : Seal(e)
    \/ \E c \in Callers :
         \/ \E a \in Artifacts : Submit(c, a)
         \/ Acquire(c)
         \/ Step(c)

\* A goroutine that can run does, and sync.Mutex starves no waiter.
Fairness == \A c \in Callers : WF_vars(Step(c)) /\ SF_vars(Acquire(c))

Spec == Init /\ [][Next]_vars /\ Fairness

-----------------------------------------------------------------------------
(* Properties. *)

\* Every variable keeps its shape: the store's maps stay maps over the cases and
\* tuples of the artifacts presented, and a caller inside a call has a job.
TypeOK ==
    /\ sealed \subseteq Entries
    /\ ids \subseteq Ids
    /\ byDispute \in [Disputes -> Seq(Artifacts)]
    /\ openTuple \in [Tuples -> Disputes \cup {None}]
    /\ disputeTuple \in [Disputes -> Tuples \cup {None}]
    /\ adjudicated \subseteq Tuples
    /\ mu \in Callers \cup {None}
    /\ pc \in [Callers -> {"idle", "lock", "gate", "append"}]
    /\ job \in [Callers -> Artifacts \cup {None}]
    /\ \A c \in Callers : pc[c] = "idle" <=> job[c] = None

\* MemStore's live index is the fold of the artifacts: a case is its opening and at most
\* one terminal artifact ("Only an Open case accepts a Ruling or Withdrawal"), and its
\* tuple is live exactly while it is open, so there is one live case per tuple.
LiveIndexAgrees ==
    \A d \in Disputes :
        /\ Len(byDispute[d]) <= 2
        /\ byDispute[d] # <<>> =>
             /\ byDispute[d][1].kind = "opening" /\ byDispute[d][1].dispute = d
             /\ Len(byDispute[d]) = 2 => byDispute[d][2].kind # "opening"
        /\ CaseState(d) = "open" <=> \E t \in Tuples : openTuple[t] = d /\ disputeTuple[d] = t

\* Some case over the tuple was resolved by a ruling in the store.
Ruled(t) ==
    {a \in Rulings : a.id \in ids /\ disputeTuple[a.dispute] = t}

\* The double-refund guard of MemStore.Append: over all the cases ever opened on
\* one (exchange, complainant, respondent), one ruling, and no open case with it.
OneRulingPerTuple ==
    \A t \in Tuples :
        /\ Cardinality(Ruled(t)) <= 1
        /\ Ruled(t) # {} => \A d \in Disputes : disputeTuple[d] = t => CaseState(d) # "open"

Live == {t \in Tuples : openTuple[t] # None}
Remedies == {<<disputeTuple[r.dispute], r>> : r \in {r \in Rulings : r.id \in ids}}

\* The Registry and its store, used by callers that hold a mutex, are one docket: at any
\* time a tuple is free, has one live case or is settled by one ruling, and goes from one
\* to the other only by an opening, a withdrawal or a ruling (Store refuses "a second
\* live case for the same (exchange, complainant, respondent)").
OneDocket == INSTANCE Docket WITH live <- Live, remedies <- Remedies

ImplementsDocket == OneDocket!Spec

\* Every call on the Registry returns, with the callers' mutex let go on each
\* path out of it.
CallsReturn == \A c \in Callers : pc[c] # "idle" ~> pc[c] = "idle"
=============================================================================
