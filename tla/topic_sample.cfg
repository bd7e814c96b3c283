SPECIFICATION FormSpec
CONSTANTS
    Topics <- Some
    Length <- Lengths
    Gaps <- Spaces
    maxTopics = 3
    CharLimits <- Limits
INVARIANTS
    TopicsWhole
    LosesFew
