----------------------------- MODULE SortOrder -----------------------------
(***************************************************************************)
(* The ORDER BY of paginator.Paginate: which column of a request, of the   *)
(* options or of the model is sorted by, and by which table it is          *)
(* qualified (paginator.go: buildOrder, schemaOf, qualifierTable).         *)
(*                                                                         *)
(* A column reference is the sequence of its segments between dots, << >>  *)
(* the empty string.  A query is built on a model, with or without a Table *)
(* expression and Joins.  What MySQL makes of a column is read off FROM.   *)
(***************************************************************************)
EXTENDS Naturals, Sequences, FiniteSets

CONSTANTS
    Identifiers,    \* segments that isIdentifier accepts
    Columns,        \* of a table
    Queries,        \* see Query
    Maps,           \* what a developer's map may be, see Mapping
    Sorts,          \* Params.Sort of requests
    Defaults        \* arguments of WithDefaultSort, << >> for no such option

None == "none"
NoColumn == << >>
maxColumnSegments == 2

(* None stands for the empty string, which is no identifier.               *)
ASSUME IdentifiersAssumption == None \notin Identifiers

(* One table of FROM: its name as segments, or the columns of a subquery   *)
(* under the name of a table of Columns, and its alias.                    *)
From(name, alias, sub) == [name |-> name, alias |-> alias, sub |-> sub]

(* The model's schema, the tables of the Table expression (<< >> without   *)
(* one), how it separates and ends, and the tables added by Joins.         *)
Query == [schema : [parses : BOOLEAN, table : Seq(STRING), pkCols : SUBSET STRING,
                    fields : SUBSET STRING],
          table : Seq([name : Seq(STRING), alias : STRING, sub : BOOLEAN]),
          quoted : BOOLEAN, sep : {",", "JOIN"}, tail : {"none", "on", "words"},
          joins : Seq([name : Seq(STRING), alias : STRING, sub : BOOLEAN]),
          restricted : BOOLEAN]

(* A Go map with the zero value for a missing key; "absent" means that     *)
(* WithSortMapping is not among the options.                               *)
Mapping == [kind : {"absent", "nil", "map"}, to : [Sorts -> Seq(STRING)]]

VARIABLES
    sortMap,    \* the developer's map
    options,    \* the options built from it
    asked,      \* the last request
    result      \* what became of it

sortVars == <<sortMap, options, asked, result>>

-----------------------------------------------------------------------------
(* GORM (external): the name it remembers for the table of a statement.    *)

LastOf(s) == s[Len(s)]

(* Table(name) matches (?i)(?:.+? AS (\w+)\b|\w+ (\w+))$ : a word at the   *)
(* end of the expression that another word precedes.                       *)
Extracted(q) ==
    LET last == LastOf(q.table)
    IN  IF q.tail = "words" THEN "null"         \* ... IS NOT NULL
        ELSE IF q.tail = "on" \/ q.quoted THEN None
        ELSE IF last.alias # None THEN last.alias
        ELSE IF Len(q.table) > 1 /\ q.sep = "JOIN" /\ Len(last.name) = 1 THEN last.name[1]
        ELSE None

SingleTable(q) == Len(q.table) = 1 /\ q.table[1].alias = None /\ ~q.table[1].sub /\ q.tail = "none"

(* Statement.Table once the model is parsed, and whether TableExpr is set. *)
StatementTable(q) ==
    IF q.table = << >> THEN LastOf(q.schema.table)
    ELSE IF SingleTable(q) /\ ~q.quoted THEN LastOf(q.table[1].name)
    ELSE IF Extracted(q) # None THEN Extracted(q)
    ELSE LastOf(q.schema.table)

HasTableExpr(q) == q.table # << >> \/ Len(q.schema.table) = 2

(* Parsing a model whose table has the name of a database before it sets   *)
(* the expression, unless a name was extracted from the caller's.          *)
Replaced(q) ==
    /\ Len(q.schema.table) = 2
    /\ q.table = << >> \/ (~(SingleTable(q) /\ ~q.quoted) /\ Extracted(q) = None)

-----------------------------------------------------------------------------
(* paginator.go                                                            *)

isIdentifier(segment) == segment \in Identifiers

isSafeColumn(raw) ==
    Len(raw) \in 1..maxColumnSegments /\ \A i \in DOMAIN raw : isIdentifier(raw[i])

(* A safe column has one or two segments.                                  *)
splitColumn(raw) ==
    [table |-> IF Len(raw) = 2 THEN raw[1] ELSE None, name |-> LastOf(raw)]

(* Mutant: a base table that GORM fell back to is taken for the expression.*)
bareTableAlways(q, table) == TRUE

bareTableExpr(q, table) ==
    IF q.table = << >> \/ Replaced(q) THEN LastOf(q.schema.table) = table
    ELSE SingleTable(q) /\ LastOf(q.table[1].name) = table

qualifierTable(q) ==
    LET table == StatementTable(q)
    IN  IF ~isIdentifier(table) THEN None
        ELSE IF ~HasTableExpr(q) \/ q.schema.table # <<table>> \/ bareTableExpr(q, table)
             THEN table ELSE None

NoInfo == [table |-> None, pkCols |-> {}, fields |-> {}]

schemaOf(q) ==
    IF q.schema.parses
    THEN [table |-> qualifierTable(q), pkCols |-> q.schema.pkCols, fields |-> q.schema.fields]
    ELSE NoInfo

column(info, raw, desc) ==
    LET c == splitColumn(raw)
    IN  [table |-> IF c.table = None /\ c.name \in info.fields THEN info.table ELSE c.table,
         name |-> c.name, desc |-> desc]

(* Mutant: any safe column that has the name of a field.                   *)
allowsAnyTable(info, raw) == isSafeColumn(raw) /\ splitColumn(raw).name \in info.fields

allowsRemoteSort(info, raw) ==
    /\ isSafeColumn(raw)
    /\ splitColumn(raw).name \in info.fields
    /\ splitColumn(raw).table \in {None, info.table}

(* Mutant: the table of the sort column is not looked at.                  *)
sameName(info, sortCol, pk) == splitColumn(sortCol).name = pk

sameColumn(info, sortCol, pk) ==
    splitColumn(sortCol).name = pk /\ splitColumn(sortCol).table \in {None, info.table}

(* The column asked for in the order of trust, << >> for the default.      *)
explicitSort(info, sort, s) ==
    LET remote == IF s.sortMapping.kind = "map" THEN s.sortMapping.to[sort]
                  ELSE IF allowsRemoteSort(info, sort) THEN sort
                  ELSE NoColumn
    IN  IF remote = NoColumn THEN s.defaultSort ELSE remote

Order(first, rest) == [err |-> None, first |-> first, rest |-> rest]
NoOrder(err) == [err |-> err, first |-> [table |-> None, name |-> None, desc |-> FALSE], rest |-> {}]

restrictedOrder(q, col, desc) == Order(column(NoInfo, col, desc), {})

buildOrder(q, sort, desc, s) ==
    LET info     == schemaOf(q)
        explicit == explicitSort(info, sort, s)
        By(col)  == Order(column(info, col, desc),
                          {column(info, <<pk>>, desc) :
                              pk \in {k \in info.pkCols : ~sameColumn(info, col, k)}})
    IN  IF q.restricted
        THEN IF explicit = NoColumn THEN NoOrder("sort required")
             ELSE restrictedOrder(q, explicit, desc)
        ELSE IF explicit # NoColumn THEN By(explicit)
        ELSE IF ~q.schema.parses THEN NoOrder("parse")
        ELSE IF info.pkCols = {} THEN NoOrder("no sort column")
        ELSE By(<<CHOOSE pk \in info.pkCols : TRUE>>)

-----------------------------------------------------------------------------
(* What the closure of WithSortMapping holds: a clone.                     *)
clonedMap(opts) == opts.sortMapping

(* WithSortMapping and WithDefaultSort check when they are built and       *)
(* report when they are applied.                                           *)
optionError(s) ==
    \/ s.sortMapping.kind = "nil"
    \/ /\ s.sortMapping.kind = "map"
       /\ \E k \in Sorts : s.sortMapping.to[k] # NoColumn /\ ~isSafeColumn(s.sortMapping.to[k])
    \/ s.defaultSort # NoColumn /\ ~isSafeColumn(s.defaultSort)

NotAsked == [q |-> CHOOSE q \in Queries : TRUE, sort |-> NoColumn, desc |-> FALSE]

SortInit ==
    /\ sortMap \in Maps
    /\ options = [stage |-> "new", sortMapping |-> sortMap, defaultSort |-> NoColumn, invalid |-> FALSE]
    /\ asked = NotAsked
    /\ result = NoOrder("not asked")

(* The developer builds the options once, from the map as it is.           *)
NewOptions ==
    /\ options.stage = "new"
    /\ \E d \in Defaults :
        LET s == [stage |-> "built", sortMapping |-> sortMap, defaultSort |-> d, invalid |-> FALSE]
        IN  options' = [s EXCEPT !.invalid = optionError(s)]
    /\ UNCHANGED <<sortMap, asked, result>>

(* ... and goes on using the map, without a key gone wrong or with it.     *)
ChangeMap ==
    /\ options.stage = "built"
    /\ sortMap' \in Maps
    /\ UNCHANGED <<options, asked, result>>

(* A request is served with the options, which it does not change.         *)
PaginateSorted ==
    /\ options.stage = "built"
    /\ options' = [options EXCEPT !.stage = "served"]
    /\ \E q \in Queries, sort \in Sorts, desc \in BOOLEAN :
        /\ asked' = [q |-> q, sort |-> sort, desc |-> desc]
        /\ result' = IF options.invalid THEN NoOrder("option")
                     ELSE buildOrder(q, sort, desc,
                              [sortMapping |-> clonedMap(options),
                               defaultSort |-> options.defaultSort])
    /\ UNCHANGED sortMap

SortNext == NewOptions \/ ChangeMap \/ PaginateSorted

SortSpec == SortInit /\ [][SortNext]_sortVars

-----------------------------------------------------------------------------
(* What MySQL makes of a column (external).                                *)

Instances(q) ==
    (IF q.table = << >> \/ Replaced(q) THEN <<From(q.schema.table, None, FALSE)>> ELSE q.table)
        \o q.joins

NameOf(instance) == IF instance.alias # None THEN instance.alias ELSE LastOf(instance.name)

(* The tables of FROM a column may refer to: exactly one is right, none is *)
(* error 1054, several are error 1052.                                     *)
Refers(q, col) ==
    {i \in DOMAIN Instances(q) :
        /\ col.table \in {None, NameOf(Instances(q)[i])}
        /\ col.name \in Columns[LastOf(Instances(q)[i].name)]}

(* The order a request gets whose key is of no effect.                     *)
DefaultOrder ==
    buildOrder(asked.q, NoColumn, asked.desc,
               [sortMapping |-> [kind |-> "map", to |-> [k \in {NoColumn} |-> NoColumn]],
                defaultSort |-> options.defaultSort])

-----------------------------------------------------------------------------
(* Properties.                                                             *)

Answered == result.err = None

(* The queries whose table can be told (paginator.go:19): a model, or a    *)
(* Table expression with one table, on which Joins may follow.  An alias   *)
(* that is the name of the model's table is taken for that table.          *)
Decidable(q) ==
    /\ \A i \in DOMAIN q.schema.table : isIdentifier(q.schema.table[i])
    /\ q.table = << >> \/ (Len(q.table) = 1 /\ ~q.table[1].sub /\ q.tail = "none")
    /\ q.quoted => SingleTable(q) /\ LastOf(q.table[1].name) = LastOf(q.schema.table)
    /\ \A i \in DOMAIN q.table :
        /\ isIdentifier(NameOf(q.table[i]))
        /\ q.table[i].alias # None => q.schema.table # <<q.table[i].alias>>

(* Names in FROM are distinct (MySQL: error 1066, or two databases have a  *)
(* table of that name), and a query has the columns of its model.          *)
ASSUME QueriesAssumption ==
    \A q \in Queries :
        /\ q \in Query
        /\ Len(q.schema.table) \in 1..2 /\ q.schema.pkCols \subseteq q.schema.fields
        /\ \A t \in {Instances(q)[i] : i \in DOMAIN Instances(q)} : t.name # << >>
        /\ \A i, j \in DOMAIN Instances(q) : NameOf(Instances(q)[i]) = NameOf(Instances(q)[j]) => i = j
        /\ Decidable(q) => q.schema.fields \subseteq Columns[LastOf(Instances(q)[1].name)]

(* Without a mapping a client either changes nothing or gets a field of    *)
(* its model.  On a query whose table can be told MySQL finds that field   *)
(* in that table, and in no other: a key from outside reaches no joined    *)
(* table and makes no query fail that the default order would not          *)
(* (allowsRemoteSort, schemaInfo.column).  On a restricted projection the  *)
(* field gets no qualifier, and a joined table may have one of its name    *)
(* too, which the caller has to see to (paginator.go:43-45).               *)
(* With a mapping the key only picks among the columns the map had when    *)
(* the option was built, whatever it has become since (WithSortMapping).   *)
RemoteKeyConfined ==
    Answered /\ result # DefaultOrder =>
        IF options.sortMapping.kind = "map"
        THEN LET raw == options.sortMapping.to[asked.sort]
             IN  raw # NoColumn /\ splitColumn(raw).name = result.first.name
        ELSE /\ result.first.name \in asked.q.schema.fields
             /\ Decidable(asked.q) =>
                    IF asked.q.restricted THEN 1 \in Refers(asked.q, result.first)
                    ELSE Refers(asked.q, result.first) = {1}

(* paginator.go:31-34: without a mapping a key from outside is a field of  *)
(* the model; one that names another table is dropped.  So a key that      *)
(* names its table names the model's, if that is in FROM.                  *)
RemoteKeyOfModel ==
    LET Of(i) == LastOf(Instances(asked.q)[i].name) = LastOf(asked.q.schema.table)
    IN  /\ Answered /\ result # DefaultOrder /\ options.sortMapping.kind # "map"
        /\ result.first.table = splitColumn(asked.sort).table /\ result.first.table # None
        /\ \E i \in DOMAIN Instances(asked.q) : Of(i)
        => \A i \in Refers(asked.q, result.first) : Of(i)

(* The order decides between any two rows of a query whose table can be    *)
(* told and whose projection is not restricted (paginator.go:18-24 and     *)
(* 39-45): it holds every column of the primary key, in the direction of   *)
(* the sort column, and each is found in that table although joined tables *)
(* have columns of that name (sameColumn, qualifierTable).                 *)
TotallyOrdered ==
    Answered /\ Decidable(asked.q) /\ ~asked.q.restricted /\ asked.q.schema.parses =>
        \A pk \in asked.q.schema.pkCols :
            \E c \in {result.first} \cup result.rest :
                c.name = pk /\ c.desc = asked.desc /\ Refers(asked.q, c) = {1}

(* No column gets a qualifier that is not a table of FROM, unless the      *)
(* caller wrote it: error 1054 on every page (qualifierTable).  A Table    *)
(* expression that ends in two words which name no table is left out.      *)
QualifierInFrom ==
    Answered /\ asked.q.tail # "words" =>
        \A c \in {result.first} \cup result.rest :
            \/ c.table \in {None} \cup {NameOf(Instances(asked.q)[i]) : i \in DOMAIN Instances(asked.q)}
            \/ c = result.first /\ \E raw \in {asked.sort, options.defaultSort,
                                              options.sortMapping.to[asked.sort]} :
                    raw # NoColumn /\ splitColumn(raw).table = c.table

(* paginator.go:20: a Table expression with several tables is never used   *)
(* to qualify a column.                                                    *)
UndecidableUnqualified ==
    Answered /\ Len(asked.q.table) > 1 => \A c \in result.rest : c.table = None
=============================================================================
