SPECIFICATION FairSpec
CONSTANTS
    first = first
    second = second
    alias = alias
    Articles = {first, second, alias}
    Keys = {1, 2, 3}
    Resolve <- Redirect
    Contents <- TwoArticles
    Limit = 2
    MaxEdits = 1
INVARIANTS
    TypeOK
    TitlesComplete
    ResultsReal
PROPERTIES
    PayloadEnds
    ImplementsApiRound
CHECK_DEADLOCK FALSE
