----------------------------- MODULE MCPageParts -----------------------------
(* What a page is made of, for TLC: the page arithmetic (PageWalk), the     *)
(* columns it is sorted by (SortOrder), and whether its projection is a     *)
(* DISTINCT (DistinctPrefix).  The parts do not interact: a behaviour is    *)
(* one of one part, while the others stay as they are.                      *)
EXTENDS PageWalk, SortOrder, DistinctPrefix, SequencesExt

(* Ints of 5 bits and totals of 7, so that a total may exceed what an int   *)
(* can count.                                                               *)
MCMaxPageSizes == {1, 4, 6, 15}

-----------------------------------------------------------------------------
(* Tables, queries and requests.                                            *)

NoAlias == "none"
NoSort  == << >>

Table(name, alias, sub) == [name |-> name, alias |-> alias, sub |-> sub]

MCIdentifiers == {"widgets", "appdb", "others", "shard", "w", "o", "id", "name", "tenant", "kind", "null"}

(* widgets and others share id and name; tenant and id are the composite    *)
(* key of shard; the subquery "slim" has no id.                             *)
MCColumns ==
    [t \in {"widgets", "others", "shard", "my-table", "slim"} |->
        CASE t = "others" -> {"id", "name", "kind"}
          [] t = "slim"   -> {"name"}
          [] OTHER        -> {"id", "name", "tenant"}]

Schema(table, pk) ==
    [parses |-> TRUE, table |-> table, pkCols |-> pk, fields |-> {"id", "name", "tenant"}]

Widget    == Schema(<<"widgets">>, {"id"})
Composite == Schema(<<"widgets">>, {"id", "tenant"})

OnModel(schema) ==
    [schema |-> schema, table |-> << >>, quoted |-> FALSE, sep |-> ",", tail |-> "none",
     joins |-> << >>, restricted |-> FALSE]

OnTable(refs) == [OnModel(Widget) EXCEPT !.table = refs]

Others   == Table(<<"others">>, "o", FALSE)
Bare(n) == Table(n, NoAlias, FALSE)
WithJoin(q) == [q EXCEPT !.joins = <<Others>>]

(* Queries on the model, and Table expressions with one table.              *)
OneTable ==
    {OnModel(Widget), OnModel(Composite), OnModel(Schema(<<"widgets">>, {})),
     OnModel(Schema(<<"appdb", "widgets">>, {"id"})), OnModel(Schema(<<"my-table">>, {"id"})),
     OnModel([Widget EXCEPT !.parses = FALSE, !.pkCols = {}, !.fields = {}]),
     OnTable(<<Bare(<<"widgets">>)>>), OnTable(<<Bare(<<"appdb", "widgets">>)>>),
     OnTable(<<Bare(<<"shard">>)>>), OnTable(<<Table(<<"widgets">>, "w", FALSE)>>),
     OnTable(<<Bare(<<"my-table">>)>>),
     [OnTable(<<Bare(<<"widgets">>)>>) EXCEPT !.quoted = TRUE],
     [OnTable(<<Bare(<<"shard">>)>>) EXCEPT !.quoted = TRUE],
     [OnTable(<<Table(<<"widgets">>, "w", FALSE)>>) EXCEPT !.quoted = TRUE],
     OnTable(<<Table(<<"shard">>, "widgets", FALSE)>>)}

(* "widgets AS w JOIN others o ON ...", "widgets w, others o", "widgets,    *)
(* others", "widgets JOIN others", and subqueries.                          *)
ManyTables ==
    {[OnTable(<<Table(<<"widgets">>, "w", FALSE), Others>>) EXCEPT !.sep = "JOIN", !.tail = "on"],
     OnTable(<<Table(<<"widgets">>, "w", FALSE), Others>>),
     OnTable(<<Bare(<<"widgets">>), Bare(<<"others">>)>>),
     [OnTable(<<Bare(<<"widgets">>), Bare(<<"others">>)>>) EXCEPT !.sep = "JOIN"],
     OnTable(<<Table(<<"widgets">>, "w", TRUE)>>), OnTable(<<Table(<<"slim">>, "w", TRUE)>>)}

(* Table expressions on a model whose table is in another database.         *)
Elsewhere ==
    {[q EXCEPT !.schema = Schema(<<"appdb", "widgets">>, {"id"})] :
        q \in ManyTables \cup {[OnTable(<<Bare(<<"shard">>)>>) EXCEPT !.quoted = TRUE],
                               OnTable(<<Table(<<"widgets">>, "w", FALSE)>>)}}

ConditionAtEnd ==
    {[OnTable(<<Table(<<"widgets">>, "w", FALSE), Others>>) EXCEPT !.sep = "JOIN", !.tail = "words"]}

MCQueries ==
    LET qs == OneTable \cup {WithJoin(q) : q \in OneTable} \cup ManyTables \cup Elsewhere \cup ConditionAtEnd
    IN  qs \cup {[q EXCEPT !.restricted = TRUE] : q \in qs}

MCSorts ==
    {NoSort, <<"name">>, <<"id">>, <<"kind">>, <<"widgets", "name">>, <<"w", "name">>,
     <<"others", "id">>, <<"o", "id">>, <<"1">>, <<"", "id">>, <<"appdb", "widgets", "name">>}

NoKeys == [k \in MCSorts |-> NoSort]

MCMaps ==
    {[kind |-> "absent", to |-> NoKeys], [kind |-> "nil", to |-> NoKeys],
     [kind |-> "map", to |-> NoKeys],
     [kind |-> "map", to |-> [NoKeys EXCEPT ![<<"name">>] = <<"o", "kind">>, ![NoSort] = <<"id">>]],
     [kind |-> "map", to |-> [NoKeys EXCEPT ![<<"name">>] = <<"o", "id">>,
                                            ![<<"kind">>] = <<"name">>]],
     [kind |-> "map", to |-> [NoKeys EXCEPT ![<<"name">>] = <<"hacked;column">>]]}

MCDefaults == {NoSort, <<"name">>, <<"o", "id">>, <<"widgets", "id">>, <<"a", "b", "c">>}

-----------------------------------------------------------------------------
(* Projections: every text of up to four tokens, and longer ones around a   *)
(* keyword that a comment precedes.                                         *)
MCTokens ==
    {"blank", "cr", "newline", "wide", "distinct", "modifier", "word", "digits",
     "/*", "/*!", "*/", "--", "#", "(", "other"}

Around == {<<a, b, c>> : a \in {"/*", "/*!", "#", "--"}, b \in {"digits", "blank", "cr", "newline", "word"},
                         c \in {"distinct", "blank", "*/", "newline", "digits"}}

MCTexts ==
    SeqOf(MCTokens, 4)
    \cup {s \o t : s \in Around, t \in SeqOf({"distinct", "blank", "*/", "newline", "word", "/*!"}, 3)}

-----------------------------------------------------------------------------
VARIABLE part

(* A part that is not looked at does not multiply the initial states.       *)
MCInit ==
    /\ part \in {"walk", "sort", "distinct"}
    /\ Init /\ SortInit /\ ScanInit
    /\ part # "walk" => maxPageSize = 1
    /\ part # "sort" => sortMap.kind = "absent"
    /\ part # "distinct" => text = << >>

InWalk     == part = "walk" /\ UNCHANGED <<part, sortVars, scanVars>>
InSort     == part = "sort" /\ UNCHANGED <<part, vars, scanVars>>
InDistinct == part = "distinct" /\ UNCHANGED <<part, vars, sortVars>>

MCNext ==
    \/ InWalk /\ FirstPage
    \/ InWalk /\ NextPage
    \/ InSort /\ NewOptions
    \/ InSort /\ ChangeMap
    \/ InSort /\ PaginateSorted
    \/ InDistinct /\ ScanNext

MCSpec == MCInit /\ [][MCNext]_<<part, vars, sortVars, scanVars>>
=============================================================================
