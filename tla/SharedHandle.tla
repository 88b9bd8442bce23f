---------------------------- MODULE SharedHandle ----------------------------
(***************************************************************************)
(* Goroutines call paginator.Paginate[T], each with a T of its own, on one *)
(* *gorm.DB (paginator.go, privateSession and schemaOf): which Statement   *)
(* each step reads and writes.                                             *)
(*                                                                         *)
(* A *gorm.DB (external) points to a Statement, and clone says what the    *)
(* next chained call does: 0 goes on with that Statement, 1 (gorm.Open)    *)
(* starts a new one, 2 (Session) makes a copy.  Session itself copies at   *)
(* once only if it is given a context.  Parsing a model writes the name of *)
(* its table into the Statement unless a table is there: the name sticks.  *)
(***************************************************************************)
CONSTANTS
    Goroutines,
    Owner,      \* whoever made the handle
    Models,     \* what T can be; a model's table has its name
    TableNames  \* what Table may be called with

Unnamed == "unnamed"

ASSUME GoroutineAssumption ==
    Owner \notin Goroutines /\ Unnamed \notin Models \cup TableNames

(* What a chain of Model and Table leaves in a Statement.                  *)
Chains == [model : Models \cup {Unnamed}, table : TableNames \cup {Unnamed}]

Blank == [model |-> Unnamed, table |-> Unnamed]

Cells == (Goroutines \cup {Owner}) \X {"first", "second"}

VARIABLES
    cell,       \* the Statements in memory
    shared,     \* [clone, cell] of the *gorm.DB the goroutines are given
    chained,    \* what its owner has chained onto it
    at,         \* where a call of Paginate is
    tx,         \* the handle a call works with
    type,       \* T of a call
    asked,      \* the table a call was asked to read
    query       \* the table its last query read

handleVars == <<cell, shared, chained, at, tx, type, asked, query>>

HandleInit ==
    \E s \in Chains, n \in {0, 1, 2} :
        /\ n = 1 => s = Blank
        /\ cell = [k \in Cells |-> IF k = <<Owner, "first">> THEN s ELSE Blank]
        /\ shared = [clone |-> n, cell |-> <<Owner, "first">>]
        /\ chained = s
        /\ at = [g \in Goroutines |-> "idle"]
        /\ tx = [g \in Goroutines |-> shared]
        /\ type \in [Goroutines -> Models]
        /\ asked = [g \in Goroutines |-> Unnamed]
        /\ query = [g \in Goroutines |-> Unnamed]

-----------------------------------------------------------------------------
(* getInstance: where the next chained call on db works, given room for a  *)
(* new Statement, and what it finds there.                                 *)
instanceCell(db, new) == IF db.clone = 0 THEN db.cell ELSE new
instanceOf(db)        == IF db.clone = 1 THEN Blank ELSE cell[db.cell]

(* Statement.Parse.                                                        *)
Parsed(s) == IF s.table = Unnamed THEN [s EXCEPT !.table = s.model] ELSE s

Goes(g, place) == at' = [at EXCEPT ![g] = place]

(* Between calls the owner chains Model or Table onto the handle, or       *)
(* derives one by Session, and hands the result out.                       *)
OwnerChains ==
    /\ \A g \in Goroutines : at[g] = "idle"
    /\ \/ \E m \in Models :
            /\ cell' = [cell EXCEPT ![shared.cell] = [instanceOf(shared) EXCEPT !.model = m]]
            /\ chained' = [chained EXCEPT !.model = m]
       \/ \E n \in TableNames :
            /\ cell' = [cell EXCEPT ![shared.cell] = [instanceOf(shared) EXCEPT !.table = n]]
            /\ chained' = [chained EXCEPT !.table = n]
    /\ \E n \in {0, 2} : shared' = [shared EXCEPT !.clone = n]
    /\ UNCHANGED <<at, tx, type, asked, query>>

(* privateSession: the context, checked on entry, makes Session copy.      *)
(* Mutant: Session without it.                                             *)
plainSession(g) ==
    /\ tx' = [tx EXCEPT ![g] = [clone |-> 2, cell |-> shared.cell]]
    /\ UNCHANGED cell

privateSession(g) ==
    /\ tx' = [tx EXCEPT ![g] = [clone |-> 2, cell |-> <<g, "first">>]]
    /\ cell' = [cell EXCEPT ![<<g, "first">>] = cell[shared.cell]]

(* What a call of Paginate[T] is asked to read: the chained table, or that *)
(* of the chained model, or that of T.                                     *)
TableFor(t) ==
    IF chained.table # Unnamed THEN chained.table
    ELSE IF chained.model # Unnamed THEN chained.model ELSE t

Enter(g) ==
    /\ at[g] = "idle" /\ Goes(g, "model")
    /\ \E t \in Models :
        /\ type' = [type EXCEPT ![g] = t]
        /\ asked' = [asked EXCEPT ![g] = TableFor(t)]
    /\ privateSession(g)
    /\ query' = [query EXCEPT ![g] = Unnamed]
    /\ UNCHANGED <<shared, chained>>

(* Paginate: Model(new(T)) if there is no model yet.                       *)
ChooseModel(g) ==
    /\ at[g] = "model" /\ Goes(g, "parse")
    /\ IF cell[tx[g].cell].model # Unnamed THEN UNCHANGED <<cell, tx>>
       ELSE LET k == instanceCell(tx[g], <<g, "second">>)
            IN  /\ cell' = [cell EXCEPT ![k] = [instanceOf(tx[g]) EXCEPT !.model = type[g]]]
                /\ tx' = [tx EXCEPT ![g] = [clone |-> 0, cell |-> k]]
    /\ UNCHANGED <<shared, chained, type, asked, query>>

(* schemaOf, called by buildOrder, which may have an error to return; a    *)
(* total that is given needs no count.                                     *)
ParseModel(g) ==
    /\ at[g] = "parse"
    /\ \E place \in {"count", "page", "idle"} : Goes(g, place)
    /\ cell' = [cell EXCEPT ![tx[g].cell] = Parsed(@)]
    /\ UNCHANGED <<shared, chained, tx, type, asked, query>>

(* tx.Session(&gorm.Session{}) and Scopes: a copy that lives for one query.*)
Reads(g) == query' = [query EXCEPT ![g] = Parsed(cell[tx[g].cell]).table]

(* resolveTotal.  An error, or no rows, end the call.                      *)
CountQuery(g) ==
    /\ at[g] = "count"
    /\ \E place \in {"page", "idle"} : Goes(g, place)
    /\ Reads(g)
    /\ UNCHANGED <<cell, shared, chained, tx, type, asked>>

PageQuery(g) ==
    /\ at[g] = "page" /\ Goes(g, "idle")
    /\ Reads(g)
    /\ UNCHANGED <<cell, shared, chained, tx, type, asked>>

HandleStep(g) ==
    Enter(g) \/ ChooseModel(g) \/ ParseModel(g) \/ CountQuery(g) \/ PageQuery(g)

HandleNext == OwnerChains \/ \E g \in Goroutines : HandleStep(g)

HandleSpec == HandleInit /\ [][HandleNext]_handleVars

-----------------------------------------------------------------------------
(* Whatever other goroutines do with the handle, and whatever calls there  *)
(* were before: every query of a call reads the table its handle and its T *)
(* ask for.  The table of another T, or of a model the handle had once,    *)
(* does not stick to the handle (privateSession; paginator.go:12-15 lets   *)
(* goroutines share a handle, and use it again).                           *)
OwnQueries ==
    \A g \in Goroutines : query[g] \in {Unnamed, asked[g]}
=============================================================================
