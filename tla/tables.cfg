SPECIFICATION Spec
CONSTANTS
    a = a
    b = b
    NULL = NULL
    PageIds <- FourPages
    Cells = {a, b}
    LinkExports <- AllLinks
    TagExports <- AllTags
    Unstable <- Changing
INVARIANTS
    TypeOK
    NearbyExact
    CleanRunRepairs
    BridgesAreNeighbors
    MutualBothWays
