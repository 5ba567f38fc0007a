------------------------------ MODULE Covenant ------------------------------
(***************************************************************************)
(* internal/covenant: the Book over its MemStore, as a value with the      *)
(* gates of Record and RecordAnswer and the derived Standing.              *)
(*                                                                         *)
(* A book is [bySubject, seen, answers]: the verdicts about each member in *)
(* append order, the keys taken, and the answers admitted, by the id of    *)
(* the verdict answered.  The directory is the set of registered members   *)
(* (a member id determines its key); the anchors come from the server.     *)
(* A signature is its signer, and an id stands for Assessment.ID.          *)
(***************************************************************************)
EXTENDS Integers, Sequences, FiniteSets, Functions

CONSTANTS
    Members,     \* member ids
    Categories,  \* the Book's closed vocabulary
    NoHash       \* a zero digest: no comment, no answer text

Levels == -1..4
LevelNoTrust == -1
Relations == {"trade", "adjudication-conduct", "verdict-satisfaction"}

ASSUME CategoryAssumption == Categories # {} /\ "" \notin Categories

EmptyBook == [bySubject |-> [m \in Members |-> <<>>], seen |-> {}, answers |-> {}]

\* MemStore.Append's uniqueness key.
StoreKey(a) == <<a.assessor, a.exchange, a.relation, a.category>>

Verdicts(b) == UNION {Range(b.bySubject[m]) : m \in Members}

\* Book.Record's own checks, before the anchor.
WellFormed(a, directory) ==
    /\ a.assessor # a.subject
    /\ a.relation \in Relations
    /\ a.level \in Levels
    /\ a.category \in Categories
    /\ a.level = LevelNoTrust => a.comment # NoHash
    /\ a.assessor \in directory
    /\ a.signer = a.assessor
    /\ a.subject \in directory

\* MemStore.Append.
AppendVerdict(b, a) ==
    [bySubject |-> [b.bySubject EXCEPT ![a.subject] = Append(@, a)],
     seen |-> b.seen \cup {StoreKey(a)},
     answers |-> b.answers]

\* Book.RecordAnswer and MemStore.AppendAnswer: the rated party, once.
AdmitsAnswer(b, an, directory) ==
    /\ an.hash # NoHash
    /\ \E a \in Verdicts(b) : a.id = an.assessment /\ a.subject = an.answerer
    /\ an.answerer \in directory
    /\ an.signer = an.answerer
    /\ \A other \in b.answers : other.assessment # an.assessment

StandingKeyUntyped(a) == <<a.assessor, a.exchange, a.category>>

\* Standing's own key, for verdicts a store might replay.
StandingKey(a) == <<a.assessor, a.exchange, a.relation, a.category>>

\* Standing: of the verdicts about m, the first with each key.
Counted(b, m) ==
    LET about == b.bySubject[m]
    IN {i \in DOMAIN about : \A j \in 1..i - 1 : StandingKey(about[j]) # StandingKey(about[i])}

\* Distribution.Count in one relation and category, and over all categories.
Count(b, m, relation, category, level) ==
    LET about == b.bySubject[m]
    IN Cardinality({i \in Counted(b, m) : /\ about[i].relation = relation
                                          /\ about[i].category = category
                                          /\ about[i].level = level})

Overall(b, m, relation, level) ==
    LET about == b.bySubject[m]
    IN Cardinality({i \in Counted(b, m) : about[i].relation = relation /\ about[i].level = level})

Harm(b, m, relation) == Overall(b, m, relation, LevelNoTrust)
=============================================================================
