---------------------------- MODULE MCStorefront ----------------------------
(* Two members and a key that never registers; three claims that are anchored and four    *)
(* that are not; edges that would close cycles of two and of three, edges by one member   *)
(* from two claims, and one for each check to refuse; listings and sales likewise.        *)
EXTENDS Storefront

MCMembers == {"ann", "bob"}

Claim(id, who, kind, n) ==
    [id |-> id, platform |-> Platform, claimant |-> who, kind |-> kind, signed |-> TRUE,
     narrative |-> n]

MCClaims ==
    {Claim("spec", "ann", "product_spec", <<"t", "u", "u">>),
     Claim("tech", "bob", "technique", <<"t", "t", "u">>),
     Claim("fact", "ann", "fact", <<"u", "u", "u">>),
     Claim("eve", "eve", "fact", <<"t", "t", "t">>),
     Claim("rank", "ann", "rank", <<"t", "t", "t">>),
     [Claim("forged", "ann", "fact", <<"t", "t", "t">>) EXCEPT !.signed = FALSE],
     [Claim("foreign", "bob", "fact", <<"t", "t", "t">>) EXCEPT !.platform = "other"]}

Ref(id, who, kind, from, to) ==
    [id |-> id, platform |-> Platform, asserter |-> who, kind |-> kind, from |-> from,
     to |-> to, signed |-> TRUE]

MCReferences ==
    {Ref("r1", "ann", "builds_on", "spec", "tech"),
     Ref("r2", "bob", "builds_on", "tech", "fact"),
     Ref("r3", "ann", "builds_on", "fact", "spec"),
     Ref("r4", "bob", "builds_on", "tech", "spec"),
     Ref("r5", "ann", "refutes", "spec", "tech"),
     Ref("r6", "ann", "refutes", "fact", "tech"),
     Ref("r7", "ann", "refutes", "tech", "spec"),
     Ref("r8", "ann", "cites", "spec", "spec"),
     Ref("r9", "bob", "cites", "tech", "eve"),
     Ref("r10", "bob", "rank", "tech", "spec"),
     [Ref("r11", "bob", "cites", "tech", "spec") EXCEPT !.signed = FALSE]}

Listing(id, who, cat, spec, rails) ==
    [id |-> id, platform |-> Platform, maker |-> who, category |-> cat, spec |-> spec,
     rails |-> rails, signed |-> TRUE]

MCListings ==
    {Listing("l1", "ann", "computer", "spec", {"fiat"}),
     Listing("l2", "ann", "tablet", "spec", {"fiat", "member_credit"}),
     Listing("l3", "bob", "computer", "spec", {"fiat"}),
     Listing("l4", "ann", "computer", "fact", {"fiat"}),
     Listing("l5", "ann", "tomato", "spec", {"fiat"}),
     Listing("l6", "ann", "tablet", "spec", {}),
     Listing("l7", "ann", "tablet", ZeroSpec, {"fiat"}),
     [Listing("l8", "ann", "tablet", "spec", {"fiat"}) EXCEPT !.signed = FALSE]}

Sale(listing, exchange, at) == [listing |-> listing, exchange |-> exchange, at |-> at]

\* A first sale, its repetition at another time, a second one, an unknown listing, no exchange.
MCSales ==
    {Sale("l1", "x1", 1), Sale("l1", "x1", 2), Sale("l1", "x2", 1), Sale("l3", "x1", 1),
     Sale("l1", ZeroExchange, 1)}
=============================================================================
