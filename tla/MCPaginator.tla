---------------------------- MODULE MCPaginator ----------------------------
(* Paging for TLC: what the calls return (Paginator), and the Statements    *)
(* they work on (SharedHandle).  A behaviour is one of one part, while the  *)
(* other stays as it is.                                                    *)
EXTENDS Paginator, SharedHandle

CONSTANTS c1, c2

MCRows     == 1..3
MCKey      == <<1, 0, 1>>
MCMatching == {1, 2}

Plain == [where |-> FALSE, group |-> FALSE, distinct |-> FALSE, clauses |-> FALSE,
          raw |-> FALSE, error |-> FALSE]

MCHandles ==
    {Plain, [Plain EXCEPT !.where = TRUE, !.clauses = TRUE], [Plain EXCEPT !.group = TRUE],
     [Plain EXCEPT !.group = TRUE, !.clauses = TRUE], [Plain EXCEPT !.distinct = TRUE],
     [Plain EXCEPT !.raw = TRUE], [Plain EXCEPT !.error = TRUE]}

(* Every edit, alone or after another, in the handle's scopes, and every    *)
(* edit in a scope registered by a scope.                                   *)
MCScopes ==
    [first  : {<< >>} \cup {<<e>> : e \in Edits}
              \cup {<<"limit", "offset">>, <<"expression", "order">>, <<"where", "reorder">>},
     nested : {<< >>} \cup {<<e>> : e \in Edits}]

MCTotals == {NotGiven, 0, 3}
MCSorts  == {None, "key"}

(* For two goroutines: scopes that do not make every call fail.             *)
MildHandles ==
    {Plain, [Plain EXCEPT !.where = TRUE, !.clauses = TRUE], [Plain EXCEPT !.group = TRUE]}
MildScopes  == [first : {<< >>, <<"limit", "offset">>}, nested : {<< >>, <<"order">>}]

(* One goroutine with the constants of the run, or two that share a handle, *)
(* whose totals are all counted: no mild handle is one that needs a total.  *)
Both == INSTANCE Paginator
    WITH Callers <- {c1, c2}, Handles <- MildHandles, Scopes <- MildScopes,
         Pages <- 1..3, Sizes <- {2}, Totals <- {NotGiven}, MaxWrites <- 0

Alone   == DOMAIN call = {c1}
MCAlone == {c1}

-----------------------------------------------------------------------------
VARIABLE part

MCInit ==
    \/ part = "page" /\ (Init \/ Both!Init) /\ HandleInit
       /\ shared.clone = 1 /\ type = [g \in Goroutines |-> CHOOSE m \in Models : TRUE]
    \/ part = "handle" /\ HandleInit /\ call = [c \in Callers |-> NoCall]
       /\ table = {} /\ writes = 0 /\ handle = Plain /\ scopes = [first |-> << >>, nested |-> << >>]

InPage   == part = "page" /\ UNCHANGED <<part, handleVars>>
InAlone  == InPage /\ Alone
InBoth   == InPage /\ ~Alone
InHandle == part = "handle" /\ UNCHANGED <<part, vars>>

MCNext ==
    \/ \E c \in {c1} :
        \/ InAlone /\ Start(c)
        \/ InAlone /\ TotalGiven(c)
        \/ InAlone /\ TotalRequired(c)
        \/ InAlone /\ Count(c)
        \/ InAlone /\ Find(c)
    \/ InAlone /\ Write
    \/ \E c \in {c1, c2} :
        \/ InBoth /\ Both!Start(c)
        \/ InBoth /\ Both!Count(c)
        \/ InBoth /\ Both!Find(c)
    \/ InHandle /\ OwnerChains
    \/ \E g \in Goroutines :
        \/ InHandle /\ Enter(g)
        \/ InHandle /\ ChooseModel(g)
        \/ InHandle /\ ParseModel(g)
        \/ InHandle /\ CountQuery(g)
        \/ InHandle /\ PageQuery(g)

MCSpec == MCInit /\ [][MCNext]_<<part, vars, handleVars>>
=============================================================================
