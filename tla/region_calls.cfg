SPECIFICATION Spec
CONSTANTS
    place = place
    bridge = bridge
    next = next
    last = last
    Articles = {place, bridge, next, last}
    Blacklist = {last}
    Distances <- TwoDistances
    MaxDist = 1
    Wikis <- Worlds
    MaxDilations = 3
INVARIANTS
    TypeOK
    VisitedExpanded
    RegionIsBall
    FarOnlyIfLate
