\* PageParts.cfg, for the columns of a Table expression with several tables.
CONSTANTS
    MaxInt = 15
    MaxTotal = 63
    DefaultPageSize = 3
    MaxPageSizes <- MCMaxPageSizes
    Texts <- MCTexts
    Identifiers <- MCIdentifiers
    Columns <- MCColumns
    Queries <- MCQueries
    Maps <- MCMaps
    Sorts <- MCSorts
    Defaults <- MCDefaults

SPECIFICATION MCSpec
CHECK_DEADLOCK FALSE
INVARIANTS
    UndecidableUnqualified
