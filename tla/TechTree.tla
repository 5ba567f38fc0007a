------------------------------ MODULE TechTree ------------------------------
(***************************************************************************)
(* internal/techtree: the claim and citation graph as a value.             *)
(*                                                                         *)
(* A tree is [claims, refs, log, head].  A claim or a reference has an id, *)
(* its leaf hash, which covers its signature too, and `signed`, whether    *)
(* that signature verifies for its author.  Hashes do not collide, so an   *)
(* id names one artifact and the head is the term the chain hashes.  A log *)
(* item is [claim, reference], of which one is None.                       *)
(***************************************************************************)
EXTENDS Naturals, Sequences, FiniteSets

CONSTANTS
    Platform,   \* the platform the tree and the catalog are bound to
    None        \* the absent half of a log item

ClaimKinds == {"fact", "technique", "product_spec"}
RefKinds == {"builds_on", "cites", "contests", "reproduces", "refutes"}

NewTree == [claims |-> {}, refs |-> {}, log |-> <<>>, head |-> <<>>]

\* A fold that hashes the leaf alone.
ChainForgets(head, leaf) == <<leaf>>

\* fold, the hash of the head before it and the leaf; the catalog chains the same way.
Chain(head, leaf) == <<head, leaf>>

-----------------------------------------------------------------------------
(* Claims. *)

VerifyClaim(c) == c.kind \in ClaimKinds /\ c.signed

AdmitsClaim(t, c) ==
    /\ c.platform = Platform
    /\ VerifyClaim(c)
    /\ \A d \in t.claims : d.id # c.id

\* AddClaim, once it admits.
AddClaim(t, c) ==
    [claims |-> t.claims \cup {c},
     refs |-> t.refs,
     log |-> Append(t.log, [claim |-> c, reference |-> None]),
     head |-> Chain(t.head, c.id)]

-----------------------------------------------------------------------------
(* References. *)

VerifyReference(r) == r.kind \in RefKinds /\ r.from # r.to /\ r.signed

\* The builds_on edges of the log.
BuildsOn(t) ==
    {<<r.from, r.to>> : r \in {r \in t.refs : r.kind = "builds_on"}}

\* A search that stops after one edge.
ReachesDirectly(t, start, target) == start = target \/ <<start, target>> \in BuildsOn(t)

\* The search of buildsOnReaches: what `start` builds on, in as many steps as there are
\* claims.
buildsOnReaches(t, start, target) ==
    LET seen[n \in 0..Cardinality(t.claims)] ==
            IF n = 0
            THEN {start}
            ELSE seen[n - 1] \cup {e[2] : e \in {e \in BuildsOn(t) : e[1] \in seen[n - 1]}}
    IN target \in seen[Cardinality(t.claims)]

AdmitsReference(t, r) ==
    /\ r.platform = Platform
    /\ VerifyReference(r)
    /\ \E from, to \in t.claims :
          from.id = r.from /\ to.id = r.to /\ r.asserter = from.claimant
    /\ r.kind = "builds_on" => ~buildsOnReaches(t, r.to, r.from)
    /\ \A s \in t.refs : s.id # r.id

AddReference(t, r) ==
    [claims |-> t.claims,
     refs |-> t.refs \cup {r},
     log |-> Append(t.log, [claim |-> None, reference |-> r]),
     head |-> Chain(t.head, r.id)]

-----------------------------------------------------------------------------
(* Replay and reads. *)

AdmitsItem(t, item) ==
    \/ item.claim # None /\ item.reference = None /\ AdmitsClaim(t, item.claim)
    \/ item.claim = None /\ item.reference # None /\ AdmitsReference(t, item.reference)

AddItem(t, item) ==
    IF item.claim # None THEN AddClaim(t, item.claim) ELSE AddReference(t, item.reference)

\* OpenLog: every item must pass after the ones before it.
OpenTree(items) ==
    LET upTo[n \in 0..Len(items)] ==
            IF n = 0
            THEN [ok |-> TRUE, tree |-> NewTree]
            ELSE LET before == upTo[n - 1]
                 IN IF before.ok /\ AdmitsItem(before.tree, items[n])
                    THEN [ok |-> TRUE, tree |-> AddItem(before.tree, items[n])]
                    ELSE [ok |-> FALSE, tree |-> NewTree]
    IN upTo[Len(items)]

\* A weight that counts edges.
WeightOfEdges(t, id) ==
    [k \in RefKinds |-> Cardinality({r \in t.refs : r.kind = k /\ r.to = id})]

\* CitationWeight: per kind, the distinct asserters of the edges into a claim.
CitationWeight(t, id) ==
    [k \in RefKinds |->
        Cardinality({t.log[i].reference.asserter :
            i \in {i \in DOMAIN t.log :
                     /\ t.log[i].reference # None
                     /\ t.log[i].reference.kind = k
                     /\ t.log[i].reference.to = id}})]
=============================================================================
