----------------------------- MODULE Storefront -----------------------------
(***************************************************************************)
(* The tech-tree and market handlers of internal/consumerapi over one      *)
(* server: the tree, the catalog, and the member-local narratives, which   *)
(* are kept in a locker under their hash and found through a manifest.     *)
(*                                                                         *)
(* A handler decodes its request, takes the server's mutex and keeps it    *)
(* until it answers, so each is one step; a request it refuses leaves no   *)
(* trace.  Two operations have no caller in the server yet and are taken   *)
(* at any time: RecordSale, which the composition root is to call when an  *)
(* exchange settles, and the locker's Erase.                               *)
(***************************************************************************)
EXTENDS Market, SequencesExt

CONSTANTS
    Members,        \* the keys that may register
    Claims, References, Listings, Sales,    \* what clients send
    Texts,          \* narrative texts
    MaxLog,         \* bound on the items of the two logs
    MaxErased       \* bound on erasures

\* Ids are hashes, and so is what a sale is chained as: neither names two artifacts.
ASSUME ArtifactAssumption ==
    /\ None \notin UNION {Claims, References, Listings, Sales}
    /\ Claims \cap References = {}
    /\ \A x, y \in Claims \cup References : x.id = y.id => x = y
    /\ \A l, m \in Listings : l.id = m.id => l = m
    /\ \A s, u \in Sales : s.listing = u.listing /\ s.exchange = u.exchange /\ s.at = u.at => s = u

VARIABLES
    members,    \* byMember: the registered keys
    tree, catalog,
    manifest,   \* claim id -> the locker hashes of its narrative
    locker,     \* the texts held
    erased      \* erasures so far

vars == <<members, tree, catalog, manifest, locker, erased>>

Init ==
    /\ members = {}
    /\ tree = NewTree
    /\ catalog = NewCatalog
    /\ manifest = <<>>
    /\ locker = {}
    /\ erased = 0

-----------------------------------------------------------------------------
(* The handlers. *)

Room == Len(tree.log) + Len(catalog.log) < MaxLog

Register(m) ==
    /\ members' = members \cup {m}
    /\ UNCHANGED <<tree, catalog, manifest, locker, erased>>

\* A claim and the narrative <<inputs, method, result>> sent with it, hashed part by part
\* and compared with what the claimant signed.
handleAnchorClaim(c, narrative) ==
    /\ c.narrative = narrative
    /\ c.claimant \in members
    /\ AdmitsClaim(tree, c)
    /\ Room
    /\ tree' = AddClaim(tree, c)
    /\ manifest' = [id \in DOMAIN manifest \cup {c.id} |->
                       IF id = c.id THEN narrative ELSE manifest[id]]
    /\ locker' = locker \cup ToSet(narrative)
    /\ UNCHANGED <<members, catalog, erased>>

handleAddReference(r) ==
    /\ r.asserter \in members
    /\ AdmitsReference(tree, r)
    /\ Room
    /\ tree' = AddReference(tree, r)
    /\ UNCHANGED <<members, catalog, manifest, locker, erased>>

\* Lists against anyone's spec.
ListsAnySpec(l) ==
    /\ l.maker \in members
    /\ \E c \in tree.claims : c.id = l.spec /\ c.kind = "product_spec"
    /\ AdmitsListing(catalog, l)
    /\ Room
    /\ catalog' = AddListing(catalog, l)
    /\ UNCHANGED <<members, tree, manifest, locker, erased>>

handleCreateListing(l) ==
    /\ l.maker \in members
    /\ \E c \in tree.claims :
          c.id = l.spec /\ c.kind = "product_spec" /\ c.claimant = l.maker
    /\ AdmitsListing(catalog, l)
    /\ Room
    /\ catalog' = AddListing(catalog, l)
    /\ UNCHANGED <<members, tree, manifest, locker, erased>>

Settle(s) ==
    /\ AdmitsSale(catalog, s)
    /\ Room
    /\ catalog' = RecordSale(catalog, s)
    /\ UNCHANGED <<members, tree, manifest, locker, erased>>

Erase(text) ==
    /\ text \in locker
    /\ erased < MaxErased
    /\ locker' = locker \ {text}
    /\ erased' = erased + 1
    /\ UNCHANGED <<members, tree, catalog, manifest>>

\* The narrative handleGetClaim serves: all three parts, or none.
ServedNarrative(id) ==
    IF id \in DOMAIN manifest /\ ToSet(manifest[id]) \subseteq locker
    THEN manifest[id]
    ELSE None

\* handleBrowseListings: the ids of a category with the number of their sales.
Browse(cat) ==
    LET found == ByCategory(catalog, cat)
    IN [i \in DOMAIN found |->
           <<found[i].listing.id,
             Cardinality({k \in catalog.sales : k[1] = found[i].listing.id})>>]

Next ==
    \/ \E m \in Members : Register(m)
    \/ \E c \in Claims, n \in {c.narrative : c \in Claims} : handleAnchorClaim(c, n)
    \/ \E r \in References : handleAddReference(r)
    \/ \E l \in Listings : handleCreateListing(l)
    \/ \E s \in Sales : Settle(s)
    \/ \E text \in Texts : Erase(text)

Spec == Init /\ [][Next]_vars

-----------------------------------------------------------------------------
(* The properties. *)

Ids(S) == {x.id : x \in S}

TreeItems == [claim : Claims, reference : {None}] \cup [claim : {None}, reference : References]
CatalogItems == [listing : Listings, sale : {None}] \cup [listing : {None}, sale : Sales]

SalesIn(log) == {log[i].sale : i \in {i \in DOMAIN log : log[i].sale # None}}

\* AddReference's cycle check keeps what builds on what well-founded, whoever draws the
\* edges and in whatever order: every set of claims holds one that builds on none of it.
BuildsOnAcyclic ==
    \A S \in (SUBSET Ids(tree.claims)) \ {{}} :
        \E a \in S : \A b \in S : <<a, b>> \notin BuildsOn(tree)

\* A log with two items swapped.
Reordered(log) ==
    {[log EXCEPT ![i] = log[j], ![j] = log[i]] : i, j \in DOMAIN log} \ {log}

\* What may be handed to OpenLog instead of the log: one item dropped, put in or put
\* in another's place, or two swapped.
Altered(log, items) ==
    (UNION {Reordered(log),
            {RemoveAt(log, i) : i \in DOMAIN log},
            {InsertAt(log, i, x) : i \in 1..(Len(log) + 1), x \in items},
            {ReplaceAt(log, i, x) : i \in DOMAIN log, x \in items}}) \ {log}

\* The head tells a log from every such copy that OpenLog takes, and the log itself
\* replays to the very tree or catalog it was read from (tree.go and catalog.go: "any
\* reordering or tampering is detectable").
HeadIdentifiesLog ==
    /\ OpenTree(tree.log) = [ok |-> TRUE, tree |-> tree]
    /\ OpenCatalog(catalog.log) = [ok |-> TRUE, catalog |-> catalog]
    /\ \A copy \in Altered(tree.log, TreeItems) :
          LET opened == OpenTree(copy) IN opened.ok => opened.tree.head # tree.head
    /\ \A copy \in Altered(catalog.log, CatalogItems) :
          LET opened == OpenCatalog(copy) IN opened.ok => opened.catalog.head # catalog.head

\* A reader who browses finds each listing once, in its category, with a count of distinct
\* settled exchanges, and following it comes to a product_spec claim of its own maker, a
\* registered member, and reads the narrative that maker signed or none: the checks are
\* those of three handlers and two stores (handleCreateListing: "a listing always points
\* at a real, contestable product claim").
ListingsRestOnSpecs ==
    \A l \in catalog.listings :
        /\ Cardinality({i \in DOMAIN Browse(l.category) :
               Browse(l.category)[i] = <<l.id,
                   Cardinality({s.exchange : s \in {s \in SalesIn(catalog.log) :
                                                       s.listing = l.id}})>>}) = 1
        /\ l.maker \in members
        /\ \E c \in tree.claims :
              /\ c.id = l.spec /\ c.kind = "product_spec" /\ c.claimant = l.maker
              /\ ServedNarrative(c.id) \in {c.narrative, None}

\* A step raises a claim's weight of each kind by at most one, and only for a member who
\* had drawn no edge of that kind to it: however many edges one member draws, from however
\* many claims, they count once (weight.go), and no later edge takes weight away.
WeightPerMember ==
    [][\A c \in tree.claims, k \in RefKinds :
          LET before == CitationWeight(tree, c.id)[k]
              after == CitationWeight(tree', c.id)[k]
          IN /\ after \in {before, before + 1}
             /\ after > before => \E r \in tree'.refs \ tree.refs :
                   /\ r.to = c.id /\ r.kind = k
                   /\ \A q \in tree.refs :
                         ~(q.to = c.id /\ q.kind = k /\ q.asserter = r.asserter)]_vars
=============================================================================
