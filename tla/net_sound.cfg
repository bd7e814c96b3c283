SPECIFICATION Spec
CONSTANTS
    place = place
    other = other
    topic = topic
    bridge = bridge
    Articles = {place, other, topic, bridge}
    Pool <- FewLinks
    Blacklist = {other}
    Distances <- TwoDistances
    MaxDist = 1
    Wikis <- FewWorlds
    Topics <- FewTopics
    Lossy = TRUE
    TrivialPaths = FALSE
    MaxEdits = 1
INVARIANTS
    SeedsStay
    PathsSound
    GroupingsAgree
CHECK_DEADLOCK FALSE
