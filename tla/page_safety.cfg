SPECIFICATION Spec
CONSTANTS
    MaxSearches = 2
    Groupings = {"groupby-topic"}
    Tabs = {t1}
    ArticleNetworkImported = TRUE
    Templates <- Wired
INVARIANTS
    TypeOK
    DisplayMatchesState
    QueriesLag
    FirstSearchUnanswered
    AnswersAreComplete
PROPERTIES
    ImplementsLaggedSearch
