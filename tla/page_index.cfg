SPECIFICATION Spec
CONSTANTS
    MaxSearches = 1
    Groupings = {"groupby-topic"}
    Tabs = {t1}
    ArticleNetworkImported = TRUE
    Templates <- Committed
INVARIANTS
    IndexIsDisplayed
