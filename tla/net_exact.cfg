SPECIFICATION Spec
CONSTANTS
    place = place
    other = other
    topic = topic
    bridge = bridge
    Articles = {place, other, topic, bridge}
    Pool <- BridgeLinks
    Blacklist = {place}
    Distances <- TwoDistances
    MaxDist = 1
    Wikis <- AllWorlds
    Topics <- AllTopics
    Lossy = FALSE
    TrivialPaths = TRUE
    MaxEdits = 0
INVARIANTS
    TypeOK
    SeedsStay
    PathsExact
    GroupingsAgree
    StatusTellsLists
CHECK_DEADLOCK FALSE
