\* Page arithmetic, sort columns and DISTINCT, each on its own.
CONSTANTS
    MaxInt = 15
    MaxTotal = 63
    DefaultPageSize = 3
    MaxPageSizes <- MCMaxPageSizes
    Texts <- MCTexts
    Identifiers <- MCIdentifiers
    Columns <- MCColumns
    Queries <- MCQueries
    Maps <- MCMaps
    Sorts <- MCSorts
    Defaults <- MCDefaults

SPECIFICATION MCSpec
CHECK_DEADLOCK FALSE
INVARIANTS
    PageHasRows
    PagesReachEnd
    RemoteKeyConfined
    TotallyOrdered
    QualifierInFrom
    DistinctRecognised
PROPERTIES
    PagesAdjoin
