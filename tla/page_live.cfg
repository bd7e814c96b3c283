SPECIFICATION FairSpec
CONSTANTS
    MaxSearches = 1
    Groupings = {"groupby-topic", "groupby-nearby"}
    Tabs = {t1, t2}
    ArticleNetworkImported = TRUE
    Templates <- Wired
PROPERTIES
    SearchesSettle
INVARIANTS
    DisplayMatchesState
