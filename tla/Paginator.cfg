\* One goroutine with every scope and a writer, or two with one handle; and the
\* Statements two goroutines work on.
CONSTANTS
    c1 = c1
    c2 = c2
    Callers <- MCAlone
    Rows <- MCRows
    Key <- MCKey
    Matching <- MCMatching
    Handles <- MCHandles
    Scopes <- MCScopes
    Pages = {1, 2}
    Sizes = {0, 1}
    Totals <- MCTotals
    Sorts <- MCSorts
    MaxPageSize = 2
    MaxWrites = 1
    MaxInt = 7
    MaxTotal = 7
    DefaultPageSize = 3
    Goroutines = {goA, goB}
    Owner = owner
    Models = {"user", "order"}
    TableNames = {"audit"}

SPECIFICATION MCSpec
CHECK_DEADLOCK FALSE
INVARIANTS
    PageIsSlice
    TotalIsCount
    NoUnboundedRead
    HarmlessScopesPass
    PagesDisjoint
    OwnQueries
