----------------------------- MODULE Paginator -----------------------------
(***************************************************************************)
(* paginator.Paginate: goroutines page through a table with one GORM       *)
(* handle (paginator.go, statement_guard.go, projection.go).               *)
(*                                                                         *)
(* A call counts the rows and then reads a page, in two queries.  GORM     *)
(* runs the caller's scopes inside each query: first those on the handle   *)
(* together with the scope Paginate appends, then, in a second round, what *)
(* a scope registered itself.  A guard looks at the finished statement     *)
(* before SQL is built from it.                                            *)
(*                                                                         *)
(* The table has a primary key, the row itself, and a nullable column key  *)
(* that rows share; a restricted projection (DISTINCT, GROUP BY) is one on *)
(* key.  A column reference is its name; a WHERE is one fixed condition.   *)
(***************************************************************************)
EXTENDS PageMath, Sequences, FiniteSets, SequencesExt

CONSTANTS
    Callers,        \* goroutines, one call each
    Rows,           \* positive integers
    Key,            \* of a row: 0 is NULL
    Matching,       \* the rows that satisfy WHERE
    Handles,        \* chained conditions of the handle, see Chain
    Scopes,         \* [first, nested]: what scopes do in each round
    Pages, Sizes, Totals, Sorts,    \* parameters and options of a call
    MaxPageSize,
    MaxWrites       \* bound: rows inserted or deleted by others

None    == "none"
noLimit == -1
NotGiven == -1          \* no WithTotal, which refuses n < 0

Chain == [where : BOOLEAN, group : BOOLEAN, distinct : BOOLEAN, clauses : BOOLEAN,
          raw : BOOLEAN, error : BOOLEAN]

Edits == {"where", "limit", "offset", "unlimited", "order", "reorder", "expression", "select",
          "selectClause", "distinct", "group", "raw"}

ASSUME TableAssumption ==
    /\ Rows \subseteq Nat \ {0} /\ IsFiniteSet(Rows) /\ Cardinality(Rows) <= MaxTotal
    /\ Key \in [Rows -> Nat]

ASSUME HandleAssumption ==
    Handles \subseteq Chain /\ Scopes \subseteq [first : Seq(Edits), nested : Seq(Edits)]

ASSUME CallAssumption ==
    /\ Pages \subseteq Int /\ Sizes \subseteq Int
    /\ Totals \subseteq {NotGiven} \cup 0..MaxTotal /\ Sorts \subseteq {None, "id", "key"}
    /\ MaxPageSize \in 1..MaxInt

VARIABLES
    table,      \* the rows stored
    writes,
    handle,     \* what is chained onto the handle the goroutines share
    scopes,     \* the scopes registered on it
    call        \* of a goroutine

vars == <<table, writes, handle, scopes, call>>

-----------------------------------------------------------------------------
(* GORM (external): a statement, and how its clauses merge.                *)

Column(name, reorder) == [name |-> name, reorder |-> reorder]

(* A limit of 0 stands for a nil pointer; order is << >> without a clause. *)
Statement(chain) ==
    [where |-> chain.where, group |-> chain.group, distinct |-> chain.distinct,
     selects |-> "chain", selectClause |-> "chain", raw |-> chain.raw,
     order  |-> IF chain.clauses THEN <<Column("key", FALSE)>> ELSE << >>, expression |-> FALSE,
     limit  |-> IF chain.clauses THEN 1 ELSE 0, offset |-> IF chain.clauses THEN 1 ELSE 0]

Limit(stmt, n) == [stmt EXCEPT !.limit = IF n = 0 THEN @ ELSE n]

Offset(stmt, n) ==
    [stmt EXCEPT !.offset = IF n = 0 THEN @ ELSE IF n < 0 THEN 0 ELSE n]

(* The new columns follow the old ones, or replace them from a Reorder on. *)
OrderBy(stmt, columns, expression) ==
    [stmt EXCEPT
        !.order = IF \E i \in DOMAIN columns : columns[i].reorder THEN columns ELSE @ \o columns,
        !.expression = expression]

(* What a caller's scope may do to the statement of the query it runs in.  *)
Edit(stmt, e) ==
    CASE e = "where"        -> [stmt EXCEPT !.where = TRUE]
      [] e = "limit"        -> Limit(stmt, 1)
      [] e = "offset"       -> Offset(stmt, 1)
      [] e = "unlimited"    -> Limit(stmt, noLimit)
      [] e = "order"        -> OrderBy(stmt, <<Column("key", FALSE)>>, FALSE)
      [] e = "reorder"      -> OrderBy(stmt, <<Column("key", TRUE)>>, FALSE)
      [] e = "expression"   -> OrderBy(stmt, << >>, TRUE)
      [] e = "select"       -> [stmt EXCEPT !.selects = "scope"]
      [] e = "selectClause" -> [stmt EXCEPT !.selectClause = "scope"]
      [] e = "distinct"     -> [stmt EXCEPT !.distinct = TRUE]
      [] e = "group"        -> [stmt EXCEPT !.group = TRUE]
      [] e = "raw"          -> [stmt EXCEPT !.raw = TRUE]

(* One round of scopes.  The trailing scope of the package ends the first, *)
(* what scopes registered themselves is the second.                        *)
RunScopes(stmt, edits) ==
    LET after[i \in 0..Len(edits)] == IF i = 0 THEN stmt ELSE Edit(after[i - 1], edits[i])
    IN  after[Len(edits)]

(* What the database answers.                                              *)
Found(where) == IF where THEN table \cap Matching ELSE table

Results(stmt) ==
    IF stmt.group \/ stmt.distinct THEN {Key[r] : r \in Found(stmt.where)} ELSE Found(stmt.where)

Precedes(x, y, order, keyed) ==
    LET V(z, i) == IF order[i].name = "id" \/ keyed THEN z ELSE Key[z]
    IN  \E i \in DOMAIN order : V(x, i) < V(y, i) /\ \A j \in 1..(i - 1) : V(x, j) = V(y, j)

(* Every sequence of S the ORDER BY allows.                                *)
Sorted(S, order, keyed) ==
    {s \in SetToSeqs(S) :
        \A i, j \in DOMAIN s : i < j => ~Precedes(s[j], s[i], order, keyed)}

Slice(s, limit, offset) ==
    SubSeq(s, offset + 1, IF limit <= 0 THEN Len(s) ELSE Lesser(offset + limit, Len(s)))

Rowsets(stmt) ==
    {Slice(s, stmt.limit, stmt.offset) :
        s \in Sorted(Results(stmt), IF stmt.expression THEN << >> ELSE stmt.order,
                     stmt.group \/ stmt.distinct)}

(* A plain count is one row that an OFFSET skips; COUNT(DISTINCT key) does *)
(* not count NULL; a grouped query is counted from outside.                *)
Counted(stmt) ==
    IF stmt.group THEN Cardinality({i \in 1..Cardinality(Results(stmt)) :
                          i > stmt.offset /\ (stmt.limit > 0 => i <= stmt.offset + stmt.limit)})
    ELSE IF stmt.offset > 0 THEN 0
    ELSE IF stmt.distinct THEN Cardinality(Results(stmt) \ {0})
    ELSE Cardinality(Results(stmt))

-----------------------------------------------------------------------------
(* projection.go                                                           *)

projectionOf(stmt) ==
    [distinct |-> stmt.distinct, group |-> stmt.group,
     selects |-> stmt.selects, selectClause |-> stmt.selectClause,
     restricted |-> stmt.distinct \/ stmt.group, unreliableCount |-> stmt.distinct]

shapeIntact(p, stmt) ==
    p.distinct = stmt.distinct /\ p.group = stmt.group /\ p.selects = stmt.selects

dataIntact(p, stmt) == shapeIntact(p, stmt) /\ p.selectClause = stmt.selectClause

(* paginator.go: buildOrder for a model with a primary key; a sort column  *)
(* is one the mapping, the model or WithDefaultSort made trusted.          *)
(* Mutant: the primary key is only added when nothing was asked for.       *)
buildOrderAsked(sort, restricted) == <<Column(IF sort = None THEN "id" ELSE sort, TRUE)>>

buildOrder(sort, restricted) ==
    IF sort = None THEN <<Column("id", TRUE)>>
    ELSE IF restricted \/ sort = "id" THEN <<Column(sort, TRUE)>>
    ELSE <<Column(sort, TRUE), Column("id", FALSE)>>

(* statement_guard.go                                                      *)

(* Mutant: a left-over offset is not set to zero first.                    *)
applyWithoutReset(stmt, order, size, offset) ==
    Offset(Limit(OrderBy(stmt, order, FALSE), size), offset)

applyPaginationScope(stmt, order, size, offset) ==
    Offset(Offset(Limit(OrderBy(stmt, order, FALSE), size), noLimit), offset)

stripPaginationScope(stmt) ==
    Offset(Limit([stmt EXCEPT !.order = << >>, !.expression = FALSE], noLimit), noLimit)

paginationIntact(stmt, limit, offset) == stmt.limit = limit /\ stmt.offset = offset

(* Mutant: an expression in place of the columns is not looked for.        *)
orderColumnsIntact(stmt, order, exact) ==
    IF exact THEN stmt.order = order ELSE IsPrefix(order, stmt.order)

orderIntact(stmt, order, exact) ==
    /\ ~stmt.expression
    /\ IF exact THEN stmt.order = order ELSE IsPrefix(order, stmt.order)

countOrderSafe(stmt) ==
    ~stmt.expression /\ \A i \in DOMAIN stmt.order : ~stmt.order[i].reorder

(* ModifyStatement, in its three modes.                                    *)
(* Mutant: left to the check after the query.                              *)
guardNothing(stmt, p, order, size, offset) == ~stmt.raw

guardData(stmt, p, order, size, offset) ==
    /\ ~stmt.raw
    /\ paginationIntact(stmt, size, offset)
    /\ orderIntact(stmt, order, p.restricted)
    /\ dataIntact(p, stmt)

(* Mutant: the projection of the count is not looked at.                   *)
guardCountOrder(stmt, p) ==
    ~stmt.raw /\ paginationIntact(stmt, noLimit, 0) /\ countOrderSafe(stmt)

guardCount(stmt, p) ==
    /\ ~stmt.raw
    /\ countOrderSafe(stmt)
    /\ paginationIntact(stmt, noLimit, 0)
    /\ shapeIntact(p, stmt)
    /\ IF p.group THEN dataIntact(p, stmt) ELSE stmt.selectClause = "count"

-----------------------------------------------------------------------------
NoCall ==
    [pc |-> "idle", stmt |-> << >>, sort |-> None, given |-> NotGiven,
     asked |-> 1, size |-> 1, order |-> << >>, total |-> 0, page |-> 0, items |-> << >>,
     err |-> None, rowsRead |-> 0, countTable |-> {}, dataTable |-> {}]

Init ==
    /\ table \in SUBSET Rows
    /\ writes = 0
    /\ handle \in Handles
    /\ scopes \in Scopes
    /\ call = [c \in Callers |-> NoCall]

Set(c, r) == call' = [call EXCEPT ![c] = r]

Fail(c, r, err) == Set(c, [r EXCEPT !.pc = "done", !.err = err])

(* Entry: the checks in their order, then the order and the page size.     *)
(* The handle may be nil instead, it may carry an error, and an option may *)
(* be refused: all three end the call before anything else is looked at.   *)
(* The call works on a copy of the statement (SharedHandle).               *)
Start(c) ==
    /\ call[c].pc = "idle"
    /\ \E page \in Pages, size \in Sizes, sort \in Sorts, given \in Totals, refused \in BOOLEAN :
        LET stmt == Statement(handle)
            p    == projectionOf(stmt)
            r    == [call[c] EXCEPT !.pc = "total", !.stmt = stmt,
                        !.sort = sort, !.given = given, !.asked = page,
                        !.size = clampPageSize(size, MaxPageSize),
                        !.order = buildOrder(sort, p.restricted)]
        IN  IF handle.error \/ refused THEN Fail(c, call[c], "input")
            ELSE IF stmt.raw THEN Fail(c, r, "deferred")
            ELSE IF p.restricted /\ sort = None THEN Fail(c, r, "sort")
            ELSE Set(c, r)
    /\ UNCHANGED <<table, writes, handle, scopes>>

(* The page is known once the total is; without rows there is no query.    *)
WithPage(r, total) ==
    LET totalPage == calcTotalPage(total, r.size)
    IN  [r EXCEPT !.total = total, !.page = clampPage(r.asked, totalPage),
                  !.pc = IF total = 0 THEN "done" ELSE "data"]

(* resolveTotal: the total of WithTotal, or no way to count.               *)
TotalGiven(c) ==
    /\ call[c].pc = "total" /\ call[c].given # NotGiven
    /\ Set(c, WithPage(call[c], call[c].given))
    /\ UNCHANGED <<table, writes, handle, scopes>>

TotalRequired(c) ==
    /\ call[c].pc = "total" /\ call[c].given = NotGiven
    /\ projectionOf(call[c].stmt).unreliableCount
    /\ Fail(c, call[c], "total")
    /\ UNCHANGED <<table, writes, handle, scopes>>

(* resolveTotal and resolveGroupedTotal: the count query.                  *)
Count(c) ==
    /\ call[c].pc = "total" /\ call[c].given = NotGiven
    /\ LET p    == projectionOf(call[c].stmt)
           base == IF p.group THEN call[c].stmt
                   ELSE [call[c].stmt EXCEPT !.selectClause = "count"]
           stmt == RunScopes(stripPaginationScope(RunScopes(base, scopes.first)), scopes.nested)
           r    == [call[c] EXCEPT !.countTable = table]
       IN  /\ ~p.unreliableCount
           /\ \/ guardCount(stmt, p) /\ Set(c, WithPage(r, Counted(stmt)))
              \/ ~guardCount(stmt, p) /\ Fail(c, r, "deferred")
              \/ guardCount(stmt, p) /\ Fail(c, r, "query")
    /\ UNCHANGED <<table, writes, handle, scopes>>

(* The data query, and the check of its statement afterwards.              *)
Find(c) ==
    /\ call[c].pc = "data"
    /\ LET r      == [call[c] EXCEPT !.pc = "done", !.dataTable = table]
           p      == projectionOf(r.stmt)
           offset == offsetOf(r.page, r.size)
           first  == RunScopes(r.stmt, scopes.first)
           stmt   == RunScopes(applyPaginationScope(first, r.order, r.size, offset),
                               scopes.nested)
           intact == /\ paginationIntact(stmt, r.size, offset)
                     /\ orderIntact(stmt, r.order, p.restricted)
                     /\ shapeIntact(p, stmt)
       IN  IF guardData(stmt, p, r.order, r.size, offset)
           THEN \/ \E items \in Rowsets(stmt) :
                    LET q == [r EXCEPT !.rowsRead = Len(items)]
                    IN  IF intact THEN Set(c, [q EXCEPT !.items = items])
                        ELSE Fail(c, q, "deferred")
                \/ Fail(c, r, "query")
           ELSE Fail(c, r, "deferred")
    /\ UNCHANGED <<table, writes, handle, scopes>>

(* Another session inserts or deletes a row.                               *)
Write ==
    /\ writes < MaxWrites /\ writes' = writes + 1
    /\ \E row \in Rows :
        table' = IF row \in table THEN table \ {row} ELSE table \cup {row}
    /\ UNCHANGED <<handle, scopes, call>>

Next ==
    \/ \E c \in Callers : \/ Start(c) \/ TotalGiven(c) \/ TotalRequired(c) \/ Count(c)
                          \/ Find(c)
    \/ Write

Spec == Init /\ [][Next]_vars

-----------------------------------------------------------------------------
(* Properties.                                                             *)

(* What a call is asked for, read off the handle and the scopes without   *)
(* the statement: the rows or keys, and the order they are asked for in.   *)
Keyed == handle.group \/ handle.distinct

Where ==
    \/ handle.where
    \/ \E i \in DOMAIN scopes.first : scopes.first[i] = "where"
    \/ \E i \in DOMAIN scopes.nested : scopes.nested[i] = "where"

AskedFor(rows) ==
    LET found == IF Where THEN rows \cap Matching ELSE rows
    IN  IF Keyed THEN {Key[r] : r \in found} ELSE found

Before(x, y, sort) ==
    IF Keyed \/ sort # "key" THEN x < y ELSE Key[x] < Key[y] \/ (Key[x] = Key[y] /\ x < y)

InOrder(s, sort) == \A i, j \in DOMAIN s : i < j => Before(s[i], s[j], sort)

Asked(rows, sort) == CHOOSE s \in SetToSeqs(AskedFor(rows)) : InOrder(s, sort)

Returned(c) == call[c].pc = "done" /\ call[c].err = None

(* A call that returns no error returns exactly the slice of the page it   *)
(* names from the rows its data query saw, in the order asked for: no      *)
(* scope, left-over clause or nested scope shifts, cuts or reorders it.    *)
PageIsSlice ==
    \A c \in DOMAIN call : Returned(c) /\ call[c].total > 0 =>
        LET from == (call[c].page - 1) * call[c].size
        IN  call[c].items = Slice(Asked(call[c].dataTable, call[c].sort), call[c].size, from)

(* A total that was counted is the number of rows or groups the handle     *)
(* selects, neither cut by a LIMIT or OFFSET nor changed by a projection.  *)
TotalIsCount ==
    \A c \in DOMAIN call : (Returned(c) \/ call[c].pc = "data") /\ call[c].given = NotGiven =>
        call[c].total = Cardinality(AskedFor(call[c].countTable))

(* No data query reads more rows than the page, not even one whose result  *)
(* is then thrown away (statementGuard.ModifyStatement).                   *)
NoUnboundedRead == \A c \in DOMAIN call : call[c].rowsRead <= call[c].size

(* Goroutines that ask for different pages of an unchanged table get       *)
(* different rows (buildOrder: the primary key breaks ties).               *)
PagesDisjoint ==
    \A c, d \in DOMAIN call :
        /\ Returned(c) /\ Returned(d) /\ writes = 0
        /\ call[c].size = call[d].size /\ call[c].sort = call[d].sort
        /\ call[c].page # call[d].page
        => ToSet(call[c].items) \cap ToSet(call[d].items) = {}

(* Scopes that add conditions, whatever they order and limit in their own  *)
(* round, and nested ones that add conditions or append an order to a full *)
(* projection, are not refused (orderIntact, countOrderSafe).              *)
Harmless ==
    /\ \A i \in DOMAIN scopes.first :
        scopes.first[i] \notin {"select", "selectClause", "distinct", "group", "raw"}
    /\ \A i \in DOMAIN scopes.nested :
        scopes.nested[i] = "where" \/ (scopes.nested[i] = "order" /\ ~Keyed)

HarmlessScopesPass ==
    \A c \in DOMAIN call : call[c].err = "deferred" => ~Harmless \/ handle.raw
=============================================================================
