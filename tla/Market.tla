------------------------------- MODULE Market -------------------------------
(***************************************************************************)
(* internal/market: the catalog of listings and their sales as a value,    *)
(* [listings, sales, log, head], chained like the tech tree.               *)
(*                                                                         *)
(* A listing has an id, its leaf hash; a sale has none but the triple its  *)
(* leaf is hashed from, and nobody signs it.                               *)
(***************************************************************************)
EXTENDS TechTree

CONSTANTS
    ZeroSpec,       \* the zero SpecRef
    ZeroExchange    \* the zero ExchangeRef

\* The hardware allowlist, and the settlement rails.
Categories ==
    {"computer", "mobile_phone", "tablet", "smart_tv", "tv_streaming_stick", "nas_storage"}
Rails == {"fiat", "member_credit"}

NewCatalog == [listings |-> {}, sales |-> {}, log |-> <<>>, head |-> <<>>]

VerifyListing(l) ==
    /\ l.category \in Categories
    /\ l.spec # ZeroSpec
    /\ l.rails \in SUBSET Rails \ {{}}
    /\ l.signed

AdmitsListing(c, l) ==
    /\ l.platform = Platform
    /\ VerifyListing(l)
    /\ \A m \in c.listings : m.id # l.id

AddListing(c, l) ==
    [listings |-> c.listings \cup {l},
     sales |-> c.sales,
     log |-> Append(c.log, [listing |-> l, sale |-> None]),
     head |-> Chain(c.head, <<l.id>>)]

SaleKey(s) == <<s.listing, s.exchange>>

AdmitsSale(c, s) ==
    /\ \E l \in c.listings : l.id = s.listing
    /\ s.exchange # ZeroExchange
    /\ SaleKey(s) \notin c.sales

RecordSale(c, s) ==
    [listings |-> c.listings,
     sales |-> c.sales \cup {SaleKey(s)},
     log |-> Append(c.log, [listing |-> None, sale |-> s]),
     head |-> Chain(c.head, <<s.listing, s.exchange, s.at>>)]

AdmitsEntry(c, item) ==
    \/ item.listing # None /\ item.sale = None /\ AdmitsListing(c, item.listing)
    \/ item.listing = None /\ item.sale # None /\ AdmitsSale(c, item.sale)

AddEntry(c, item) ==
    IF item.listing # None THEN AddListing(c, item.listing) ELSE RecordSale(c, item.sale)

\* market.OpenLog.
OpenCatalog(items) ==
    LET upTo[n \in 0..Len(items)] ==
            IF n = 0
            THEN [ok |-> TRUE, catalog |-> NewCatalog]
            ELSE LET before == upTo[n - 1]
                 IN IF before.ok /\ AdmitsEntry(before.catalog, items[n])
                    THEN [ok |-> TRUE, catalog |-> AddEntry(before.catalog, items[n])]
                    ELSE [ok |-> FALSE, catalog |-> NewCatalog]
    IN upTo[Len(items)]

\* ByCategory, in the order of the log.
ByCategory(c, cat) ==
    LET upTo[n \in 0..Len(c.log)] ==
            IF n = 0
            THEN <<>>
            ELSE IF c.log[n].listing # None /\ c.log[n].listing.category = cat
            THEN Append(upTo[n - 1], c.log[n])
            ELSE upTo[n - 1]
    IN upTo[Len(c.log)]
=============================================================================
