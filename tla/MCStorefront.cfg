\* Requests of two members to one server, in any order.
SPECIFICATION Spec
CONSTANTS
    Platform = "cloudy"
    None = None
    ZeroSpec = "zero"
    ZeroExchange = "zero"
    Members <- MCMembers
    Claims <- MCClaims
    References <- MCReferences
    Listings <- MCListings
    Sales <- MCSales
    Texts = {"t", "u"}
    MaxLog = 6
    MaxErased = 1
INVARIANTS
    BuildsOnAcyclic
    HeadIdentifiesLog
    ListingsRestOnSpecs
PROPERTIES
    WeightPerMember
