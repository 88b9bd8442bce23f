------------------------- MODULE PageParts_proofs --------------------------
(***************************************************************************)
(* Theorems about PageWalk, for every size of int and int64, about         *)
(* SortOrder, for any queries, columns, sort keys, maps and defaults, and  *)
(* about DistinctPrefix, for any texts.                                    *)
(***************************************************************************)
EXTENDS PageWalk, SortOrder, DistinctPrefix, PageMath_proofs, SequenceTheorems, WellFoundedInduction

-----------------------------------------------------------------------------
(* What an answer was computed from, and the answer without rows.          *)
Computed ==
  answered => /\ totalPage = calcTotalPage(total, pageSize)
              /\ total = 0 => page = 0 /\ offset = 0

(* The invariant that every answered request establishes by itself: no     *)
(* request depends on the one before it but through its parameters.        *)
Inv == TypeOK /\ SizeBounded /\ PageHasRows /\ PagesReachEnd /\ Computed

(* An answer to any request, whatever it asks for.                         *)
LEMMA Answers ==
  ASSUME Inv, NEW p \in Ints, NEW s \in Ints, NEW n \in 0..MaxTotal,
         Paginate(p, s, n)
  PROVE  Inv'
<1>0. MaxInt \in Nat \ {0} /\ MaxTotal \in Nat /\ DefaultPageSize \in 1..MaxInt
  BY MaxIntAssumption, MaxTotalAssumption, DefaultAssumption
<1>1. maxPageSize \in MaxPageSizes /\ maxPageSize \in 1..MaxInt
  BY MaxPageSizesAssumption DEF Inv, TypeOK
<1>2. pageSize' \in 1..maxPageSize /\ pageSize' \in 1..MaxInt
  BY <1>0, <1>1 DEF Paginate, clampPageSize, Lesser, Ints
<1>3. CASE n = 0
  <2>1. totalPage' = 0 /\ page' = 0 /\ offset' = 0 /\ total' = 0
    BY <1>3 DEF Paginate, calcTotalPage, clampPage
  <2>2. TypeOK'
    BY <1>0, <1>1, <1>2, <2>1 DEF Paginate, TypeOK, Ints
  <2>3. SizeBounded'
    BY <1>2 DEF SizeBounded, Paginate
  <2>4. PageHasRows'
    BY <2>1 DEF PageHasRows
  <2>5. totalPage' * pageSize' \in Nat
    <3>1. totalPage' \in Nat /\ pageSize' \in Nat
      BY <1>0, <1>2, <2>1
    <3>2. QED
      BY <3>1, ProductInNat
  <2>6. PagesReachEnd'
    BY <2>1, <2>5 DEF PagesReachEnd
  <2>7. Computed'
    BY <1>3, <2>1 DEF Computed, Paginate
  <2>8. QED
    BY <2>2, <2>3, <2>4, <2>6, <2>7 DEF Inv
<1>4. CASE n # 0
  <2>1. n \in 1..MaxTotal /\ total' = n /\ totalPage' = calcTotalPage(n, pageSize')
    BY <1>0, <1>4 DEF Paginate
  <2>2. /\ totalPage' \in 1..MaxInt
        /\ n > totalPage' * pageSize' =>
             totalPage' = MaxInt \/ totalPage' * pageSize' > MaxInt
    BY <1>2, <2>1, TotalPages
  <2>3. page' \in 1..totalPage'
    BY <1>0, <2>2 DEF Paginate, clampPage, Lesser, Greater, Ints
  <2>4. /\ offset' = (page' - 1) * pageSize'
        /\ offset' \in 0..MaxInt /\ offset' < n
    <3>1. offset' = offsetOf(page', pageSize')
      BY <1>4 DEF Paginate
    <3>2. QED
      BY <1>2, <2>1, <2>3, <3>1, OffsetExact
  <2>5. TypeOK'
    BY <1>0, <1>1, <1>2, <2>1, <2>2, <2>3, <2>4 DEF Paginate, TypeOK, Ints
  <2>6. SizeBounded'
    BY <1>2 DEF SizeBounded, Paginate
  <2>7. PageHasRows'
    BY <1>0, <2>1, <2>3, <2>4 DEF PageHasRows
  <2>8. PagesReachEnd'
    BY <2>1, <2>2 DEF PagesReachEnd
  <2>9. Computed'
    BY <1>4, <2>1 DEF Computed
  <2>10. QED
    BY <2>5, <2>6, <2>7, <2>8, <2>9 DEF Inv
<1>5. QED
  BY <1>3, <1>4

(* Before the first request there is nothing to relate.                    *)
LEMMA InvInit == Init => Inv
<1>1. MaxInt \in Nat \ {0} /\ MaxTotal \in Nat
  BY MaxIntAssumption, MaxTotalAssumption
<1> SUFFICES ASSUME Init PROVE Inv
  OBVIOUS
<1>2. TypeOK
  <2>1. 0 \in Ints /\ 0 \in 0..MaxTotal /\ 0 \in 0..MaxInt
    BY <1>1 DEF Ints
  <2>2. QED
    BY <2>1 DEF Init, TypeOK
<1>3. ~answered
  BY DEF Init
<1>4. QED
  BY <1>2, <1>3 DEF Inv, SizeBounded, PageHasRows, PagesReachEnd, Computed

(* Every step is an answer or changes nothing.                             *)
LEMMA InvNext == Inv /\ [Next]_vars => Inv'
<1> SUFFICES ASSUME Inv, [Next]_vars PROVE Inv'
  OBVIOUS
<1>0. MaxInt \in Nat \ {0} /\ MaxTotal \in Nat
  BY MaxIntAssumption, MaxTotalAssumption
<1>1. CASE FirstPage
  BY <1>1, Answers DEF FirstPage
<1>2. CASE NextPage
  <2>1. page + 1 \in Ints /\ pageSize \in Ints
    BY <1>0, <1>2 DEF NextPage, Inv, TypeOK, Ints
  <2>2. PICK n \in {total - 1, total, total + 1} \cap 0..MaxTotal :
          Paginate(page + 1, pageSize, n)
    BY <1>2 DEF NextPage
  <2>3. QED
    BY <2>1, <2>2, Answers
<1>3. CASE UNCHANGED vars
  BY <1>3 DEF vars, Inv, TypeOK, SizeBounded, PageHasRows, PagesReachEnd, Computed
<1>4. QED
  BY <1>1, <1>2, <1>3 DEF Next

(* The invariant holds in every reachable state.                           *)
LEMMA Invariance == Spec => []Inv
<1>1. QED
  BY InvInit, InvNext, PTL DEF Spec

(* The variables keep their types: no answer leaves the range of an int.   *)
THEOREM TypeCorrect == Spec => []TypeOK
<1>1. Inv => TypeOK
  BY DEF Inv
<1>2. QED
  BY <1>1, Invariance, PTL

(* For every size of int: an answered page exists, begins at the exact     *)
(* product of page and size, and has a row to show (clampPages).           *)
THEOREM PagesExist == Spec => []PageHasRows
<1>1. Inv => PageHasRows
  BY DEF Inv
<1>2. QED
  BY <1>1, Invariance, PTL

(* For every size of int: pages are only left out that an int could not    *)
(* number or whose OFFSET it could not hold (calcTotalPage, clampPages).   *)
THEOREM NoPageIsLost == Spec => []PagesReachEnd
<1>1. Inv => PagesReachEnd
  BY DEF Inv
<1>2. QED
  BY <1>1, Invariance, PTL

(* No page size a client asks for exceeds the option (clampPageSize).      *)
THEOREM PageSizesAreBounded == Spec => []SizeBounded
<1>1. Inv => SizeBounded
  BY DEF Inv
<1>2. QED
  BY <1>1, Invariance, PTL

(* The step to the next page: it begins where the page before ended, or    *)
(* the page before was the last.                                           *)
LEMMA NextAdjoins ==
  ASSUME Inv, answered, NextPage, total' = total
  PROVE  \/ page' = page + 1 /\ offset' = offset + pageSize
         \/ page = totalPage /\ page' = page /\ offset' = offset
<1>0. MaxInt \in Nat \ {0} /\ MaxTotal \in Nat
  BY MaxIntAssumption, MaxTotalAssumption
<1>1. Inv'
  BY InvNext DEF Next
<1>2. /\ pageSize \in 1..maxPageSize /\ maxPageSize \in 1..MaxInt
      /\ total \in 0..MaxTotal
  BY MaxPageSizesAssumption DEF Inv, TypeOK, SizeBounded
<1>3. PICK n \in 0..MaxTotal : Paginate(page + 1, pageSize, n)
  BY DEF NextPage
<1>4. pageSize' = pageSize /\ pageSize \in Nat \ {0} /\ answered' /\ n = total
  BY <1>0, <1>2, <1>3 DEF Paginate, clampPageSize, Lesser
<1>5. totalPage' = totalPage
  BY <1>1, <1>4 DEF Inv, Computed
<1>6. CASE total = 0
  <2>1. totalPage = 0 /\ page = 0 /\ offset = 0
    BY <1>6 DEF Inv, Computed, calcTotalPage
  <2>2. page' = 0 /\ offset' = 0
    BY <1>1, <1>4, <1>6 DEF Inv, Computed
  <2>3. QED
    BY <2>1, <2>2
<1>7. CASE total # 0
  <2>1. /\ page \in 1..totalPage /\ totalPage \in 0..MaxInt
        /\ offset = (page - 1) * pageSize
    BY <1>0, <1>2, <1>7 DEF Inv, TypeOK, PageHasRows
  <2>2. offset' = (page' - 1) * pageSize
    BY <1>0, <1>1, <1>2, <1>4, <1>7 DEF Inv, PageHasRows
  <2>3. page' = Lesser(Greater(page + 1, 1), totalPage)
    BY <1>3, <1>5, <2>1 DEF Paginate, clampPage
  <2>4. CASE page = totalPage
    BY <1>0, <2>1, <2>2, <2>3, <2>4 DEF Lesser, Greater
  <2>5. CASE page # totalPage
    <3>1. page' = page + 1 /\ page \in Nat
      BY <1>0, <2>1, <2>3, <2>5 DEF Lesser, Greater
    <3>2. page' - 1 = (page - 1) + 1 /\ page - 1 \in Nat
      BY <2>1, <3>1
    <3>3. ((page - 1) + 1) * pageSize = (page - 1) * pageSize + pageSize
      BY <1>4, <3>2
    <3>4. QED
      BY <2>1, <2>2, <3>1, <3>2, <3>3
  <2>6. QED
    BY <2>4, <2>5
<1>8. QED
  BY <1>6, <1>7

(* For every size of int: turning pages over an unchanged total shows      *)
(* every row once, as far as the OFFSETs go (clampPage, calcTotalPage).    *)
THEOREM PagesAdjoinAlways == Spec => PagesAdjoin
<1>1. Inv /\ [Next]_vars =>
        [answered /\ total' = total =>
           \/ page' = page + 1 /\ offset' = offset + pageSize
           \/ page = totalPage /\ page' = page /\ offset' = offset]_vars
  BY NextAdjoins DEF Next, FirstPage
<1>2. QED
  BY <1>1, Invariance, PTL DEF Spec, PagesAdjoin

-----------------------------------------------------------------------------
(* SortOrder.  What a request is answered with depends on the request and  *)
(* the options alone, so that each property is one of buildOrder.          *)

Chosen(opts) == [sortMapping |-> opts.sortMapping, defaultSort |-> opts.defaultSort]

SortInv ==
    /\ options.stage \in {"new", "built", "served"}
    /\ DOMAIN options = {"stage", "sortMapping", "defaultSort", "invalid"}
    /\ options.stage # "served" => result = NoOrder("not asked")
    /\ options.stage = "served" =>
        /\ asked.q \in Queries /\ asked.sort \in Sorts /\ asked.desc \in BOOLEAN
        /\ result = IF options.invalid THEN NoOrder("option")
                    ELSE buildOrder(asked.q, asked.sort, asked.desc, Chosen(options))

LEMMA SortInvariant == SortSpec => []SortInv
  <1>1. SortInit => SortInv
    <2>. SUFFICES ASSUME SortInit PROVE SortInv
      OBVIOUS
    <2>1. options = [stage |-> "new", sortMapping |-> sortMap, defaultSort |-> NoColumn, invalid |-> FALSE]
          /\ result = NoOrder("not asked")
      BY DEF SortInit
    <2>2. options.stage = "new" /\ DOMAIN options = {"stage", "sortMapping", "defaultSort", "invalid"}
      BY <2>1
    <2>. QED
      BY <2>1, <2>2 DEF SortInv
  <1>2. SortInv /\ [SortNext]_sortVars => SortInv'
    <2>. SUFFICES ASSUME SortInv, [SortNext]_sortVars PROVE SortInv'
      OBVIOUS
    <2>1. CASE NewOptions
      <3>1. PICK s : /\ DOMAIN s = {"stage", "sortMapping", "defaultSort", "invalid"}
                     /\ s.stage = "built" /\ options' = [s EXCEPT !.invalid = optionError(s)]
        BY <2>1 DEF NewOptions
      <3>. QED
        BY <2>1, <3>1 DEF NewOptions, SortInv
    <2>2. CASE ChangeMap
      BY <2>2 DEF ChangeMap, SortInv
    <2>3. CASE PaginateSorted
      <3>1. /\ options'.stage = "served" /\ options'.sortMapping = options.sortMapping
            /\ options'.defaultSort = options.defaultSort /\ options'.invalid = options.invalid
            /\ DOMAIN options' = {"stage", "sortMapping", "defaultSort", "invalid"}
        BY <2>3 DEF PaginateSorted, SortInv
      <3>2. PICK q \in Queries, sort \in Sorts, desc \in BOOLEAN :
              /\ asked' = [q |-> q, sort |-> sort, desc |-> desc]
              /\ result' = IF options.invalid THEN NoOrder("option")
                           ELSE buildOrder(q, sort, desc, Chosen(options))
        BY <2>3 DEF PaginateSorted, clonedMap, Chosen
      <3>3. Chosen(options)' = Chosen(options)
        BY <3>1 DEF Chosen
      <3>4. asked'.q = q /\ asked'.sort = sort /\ asked'.desc = desc
        BY <3>2
      <3>. QED
        BY <3>1, <3>2, <3>3, <3>4 DEF SortInv
    <2>4. CASE UNCHANGED sortVars
      BY <2>4 DEF SortInv, sortVars, Chosen
    <2>. QED
      BY <2>1, <2>2, <2>3, <2>4 DEF SortNext
  <1>. QED
    BY <1>1, <1>2, PTL DEF SortSpec

-----------------------------------------------------------------------------
(* FROM and the qualifier.                                                 *)

Tables == [name : Seq(STRING), alias : STRING, sub : BOOLEAN]

LEMMA QueryTyped ==
    ASSUME NEW q \in Queries
    PROVE  /\ q.schema.table \in Seq(STRING) /\ Len(q.schema.table) \in 1..2
           /\ q.schema.pkCols \subseteq q.schema.fields /\ q.schema.fields \subseteq STRING
           /\ q.table \in Seq(Tables) /\ q.joins \in Seq(Tables)
           /\ q.quoted \in BOOLEAN /\ q.restricted \in BOOLEAN /\ q.schema.parses \in BOOLEAN
  BY QueriesAssumption DEF Query, Tables

LEMMA Appended ==
    ASSUME NEW S, NEW s \in Seq(S), NEW t \in Seq(S), s # << >>
    PROVE  /\ Len(s) \in Nat \ {0} /\ DOMAIN s = 1..Len(s)
           /\ 1 \in DOMAIN (s \o t) /\ (s \o t)[1] = s[1]
           /\ Len(s) \in DOMAIN (s \o t) /\ (s \o t)[Len(s)] = s[Len(s)]
  <1>1. Len(s) \in Nat /\ Len(t) \in Nat /\ DOMAIN s = 1..Len(s)
    OBVIOUS
  <1>2. Len(s) # 0
    BY EmptySeq
  <1>3. /\ DOMAIN (s \o t) = 1..(Len(s) + Len(t))
        /\ \A i \in 1..Len(s) : (s \o t)[i] = s[i]
    BY ConcatProperties
  <1>. QED
    BY <1>1, <1>2, <1>3

(* The first table of FROM, and the last one of a Table expression.        *)
LEMMA Names ==
    ASSUME NEW q \in Queries
    PROVE  /\ 1 \in DOMAIN Instances(q)
           /\ q.table = << >> \/ Replaced(q) => NameOf(Instances(q)[1]) = LastOf(q.schema.table)
           /\ q.table # << >> /\ ~Replaced(q) =>
                /\ Instances(q)[1] = q.table[1]
                /\ Len(q.table) \in DOMAIN Instances(q)
                /\ Instances(q)[Len(q.table)] = LastOf(q.table)
  <1>. DEFINE own == From(q.schema.table, None, FALSE)
  <1>1. q.table \in Seq(Tables) /\ q.joins \in Seq(Tables) /\ q.schema.table \in Seq(STRING)
    BY QueryTyped
  <1>. HIDE DEF own
  <1>2. <<own>> \in Seq(Tables \cup {own}) /\ q.joins \in Seq(Tables \cup {own})
    <2>1. <<own>> \in Seq({own})
      OBVIOUS
    <2>. QED
      BY <1>1, <2>1
  <1>0. <<own>> # << >> /\ <<own>>[1] = own
    OBVIOUS
  <1>3. CASE q.table = << >> \/ Replaced(q)
    <2>1. Instances(q) = <<own>> \o q.joins
      BY <1>3 DEF Instances, own
    <2>2. Instances(q)[1] = own /\ 1 \in DOMAIN Instances(q)
      BY <1>0, <1>2, <2>1, Appended
    <2>. QED
      BY <1>3, <2>2 DEF From, NameOf, own
  <1>4. CASE ~(q.table = << >> \/ Replaced(q))
    <2>1. Instances(q) = q.table \o q.joins
      BY <1>4 DEF Instances
    <2>2. q.table # << >>
      BY <1>4
    <2>3. /\ 1 \in DOMAIN (q.table \o q.joins) /\ (q.table \o q.joins)[1] = q.table[1]
          /\ Len(q.table) \in DOMAIN (q.table \o q.joins)
          /\ (q.table \o q.joins)[Len(q.table)] = q.table[Len(q.table)]
      <3>. DEFINE s == q.table
                  t == q.joins
      <3>1. s \in Seq(Tables) /\ t \in Seq(Tables) /\ s # << >>
        BY <1>1, <2>2
      <3>. HIDE DEF s, t
      <3>2. /\ 1 \in DOMAIN (s \o t) /\ (s \o t)[1] = s[1]
            /\ Len(s) \in DOMAIN (s \o t) /\ (s \o t)[Len(s)] = s[Len(s)]
        BY <3>1, Appended
      <3>. QED
        BY <3>2 DEF s, t
    <2>. QED
      BY <1>4, <2>1, <2>3 DEF LastOf
  <1>. QED
    BY <1>3, <1>4

(* A qualifier is the name of a table of FROM.                             *)
LEMMA QualifierNamed ==
    ASSUME NEW q \in Queries, q.tail # "words", qualifierTable(q) # None
    PROVE  \E i \in DOMAIN Instances(q) : NameOf(Instances(q)[i]) = qualifierTable(q)
  <1>. DEFINE table == StatementTable(q)
  <1>1. /\ qualifierTable(q) = table
        /\ ~HasTableExpr(q) \/ q.schema.table # <<table>> \/ bareTableExpr(q, table)
    BY DEF qualifierTable
  <1>2. CASE q.table = << >> \/ Replaced(q)
    <2>1. table = LastOf(q.schema.table)
      BY <1>2 DEF StatementTable, Replaced
    <2>. QED
      BY <1>1, <1>2, <2>1, Names
  <1>3. CASE q.table # << >> /\ ~Replaced(q)
    <2>1. CASE SingleTable(q) /\ ~q.quoted
      <3>1. table = LastOf(q.table[1].name) /\ q.table[1].alias = None
        BY <1>3, <2>1 DEF StatementTable, SingleTable
      <3>. QED
        BY <1>1, <1>3, <3>1, Names DEF NameOf
    <2>2. CASE ~(SingleTable(q) /\ ~q.quoted) /\ Extracted(q) # None
      <3>. DEFINE last == LastOf(q.table)
      <3>1. table = Extracted(q)
        BY <1>3, <2>2 DEF StatementTable
      <3>2. \/ last.alias # None /\ Extracted(q) = last.alias
            \/ last.alias = None /\ Len(last.name) = 1 /\ Extracted(q) = last.name[1]
        BY <2>2 DEF Extracted
      <3>3. NameOf(last) = table
        BY <3>1, <3>2 DEF NameOf, LastOf
      <3>. QED
        BY <1>1, <1>3, <3>3, Names
    <2>3. CASE ~(SingleTable(q) /\ ~q.quoted) /\ Extracted(q) = None
      <3>1. table = LastOf(q.schema.table) /\ Len(q.schema.table) = 1
        BY <1>3, <2>3, QueryTyped DEF StatementTable, Replaced
      <3>2. q.schema.table = <<table>>
        BY <3>1, QueryTyped DEF LastOf
      <3>3. SingleTable(q) /\ LastOf(q.table[1].name) = table
        BY <1>1, <1>3, <3>2 DEF HasTableExpr, bareTableExpr
      <3>4. NameOf(q.table[1]) = table
        BY <3>3 DEF SingleTable, NameOf
      <3>. QED
        BY <1>1, <1>3, <3>4, Names
    <2>. QED
      BY <2>1, <2>2, <2>3
  <1>. QED
    BY <1>2, <1>3

(* Where the table can be told, the qualifier is the name of the first     *)
(* table, and a field of the model is found in no other one.               *)
LEMMA QualifierTold ==
    ASSUME NEW q \in Queries, Decidable(q)
    PROVE  qualifierTable(q) # None /\ qualifierTable(q) = NameOf(Instances(q)[1])
  <1>. DEFINE table == StatementTable(q)
  <1>1. q.table = << >> \/ (Len(q.table) = 1 /\ ~q.table[1].sub /\ q.tail = "none")
    BY DEF Decidable
  <1>2. isIdentifier(LastOf(q.schema.table))
    BY QueryTyped DEF Decidable, LastOf
  <1>3. CASE q.table = << >> \/ Replaced(q)
    <2>1. table = LastOf(q.schema.table) /\ NameOf(Instances(q)[1]) = table
      BY <1>3, Names DEF StatementTable, Replaced
    <2>2. bareTableExpr(q, table)
      BY <1>3, <2>1 DEF bareTableExpr
    <2>. QED
      BY <1>2, <2>1, <2>2, IdentifiersAssumption DEF qualifierTable, isIdentifier
  <1>4. CASE q.table # << >> /\ ~Replaced(q)
    <2>1. /\ Len(q.table) = 1 /\ ~q.table[1].sub /\ q.tail = "none" /\ 1 \in DOMAIN q.table
          /\ LastOf(q.table) = q.table[1] /\ NameOf(Instances(q)[1]) = NameOf(q.table[1])
      BY <1>1, <1>4, Names, QueryTyped DEF LastOf
    <2>2. isIdentifier(NameOf(q.table[1]))
      BY <2>1 DEF Decidable
    <2>3. CASE q.table[1].alias = None
      <3>1. SingleTable(q) /\ NameOf(q.table[1]) = LastOf(q.table[1].name)
        BY <2>1, <2>3 DEF SingleTable, NameOf
      <3>2. table = LastOf(q.table[1].name)
        <4>1. CASE ~q.quoted
          BY <1>4, <3>1, <4>1 DEF StatementTable
        <4>2. CASE q.quoted
          <5>1. Extracted(q) = None
            BY <2>1, <4>2 DEF Extracted
          <5>. QED
            BY <1>4, <4>2, <5>1 DEF StatementTable, Decidable
        <4>. QED
          BY <4>1, <4>2
      <3>3. bareTableExpr(q, table)
        BY <1>4, <3>1, <3>2 DEF bareTableExpr
      <3>. QED
        BY <2>1, <2>2, <3>1, <3>2, <3>3, IdentifiersAssumption DEF qualifierTable, isIdentifier
    <2>4. CASE q.table[1].alias # None
      <3>1. ~SingleTable(q) /\ ~q.quoted /\ Extracted(q) = q.table[1].alias
        BY <2>1, <2>4 DEF SingleTable, Decidable, Extracted
      <3>2. table = q.table[1].alias /\ NameOf(q.table[1]) = q.table[1].alias
        BY <1>4, <2>4, <3>1 DEF StatementTable, NameOf
      <3>3. q.schema.table # <<table>>
        BY <2>1, <2>4, <3>2 DEF Decidable
      <3>. QED
        BY <2>1, <2>2, <3>2, <3>3, IdentifiersAssumption DEF qualifierTable, isIdentifier
    <2>. QED
      BY <2>3, <2>4
  <1>. QED
    BY <1>3, <1>4

LEMMA FieldFound ==
    ASSUME NEW q \in Queries, Decidable(q), NEW c,
           c.table = qualifierTable(q), c.name \in q.schema.fields
    PROVE  Refers(q, c) = {1}
  <1>1. c.table = NameOf(Instances(q)[1]) /\ c.table # None /\ 1 \in DOMAIN Instances(q)
    BY QualifierTold, Names
  <1>2. c.name \in Columns[LastOf(Instances(q)[1].name)]
    BY QueriesAssumption
  <1>3. 1 \in Refers(q, c)
    BY <1>1, <1>2 DEF Refers
  <1>4. \A i \in DOMAIN Instances(q) : NameOf(Instances(q)[i]) = NameOf(Instances(q)[1]) => i = 1
    BY <1>1, QueriesAssumption
  <1>5. \A i \in Refers(q, c) : i = 1
    BY <1>1, <1>4 DEF Refers
  <1>. QED
    BY <1>3, <1>5

-----------------------------------------------------------------------------
(* buildOrder, once the column asked for is known.                         *)

SortedBy(info, col, desc) ==
    Order(column(info, col, desc),
          {column(info, <<pk>>, desc) : pk \in {k \in info.pkCols : ~sameColumn(info, col, k)}})

Ordered(q, explicit, desc) ==
    IF q.restricted
    THEN IF explicit = NoColumn THEN NoOrder("sort required")
         ELSE restrictedOrder(q, explicit, desc)
    ELSE IF explicit # NoColumn THEN SortedBy(schemaOf(q), explicit, desc)
    ELSE IF ~q.schema.parses THEN NoOrder("parse")
    ELSE IF schemaOf(q).pkCols = {} THEN NoOrder("no sort column")
    ELSE SortedBy(schemaOf(q), <<CHOOSE pk \in schemaOf(q).pkCols : TRUE>>, desc)

LEMMA OrderOfColumn ==
    ASSUME NEW q, NEW sort, NEW desc, NEW s
    PROVE  buildOrder(q, sort, desc, s) = Ordered(q, explicitSort(schemaOf(q), sort, s), desc)
  BY DEF buildOrder, Ordered, SortedBy

LEMMA Errs ==
    ASSUME NEW e \in {"not asked", "option", "sort required", "parse", "no sort column"}
    PROVE  NoOrder(e).err # None
  BY DEF NoOrder, None

(* An order that came about is that of a column, asked for or of the key.  *)
LEMMA OrderedBy ==
    ASSUME NEW q, NEW explicit, NEW desc, Ordered(q, explicit, desc).err = None
    PROVE  \/ /\ q.restricted /\ explicit # NoColumn
              /\ Ordered(q, explicit, desc) = restrictedOrder(q, explicit, desc)
           \/ /\ ~q.restricted /\ explicit # NoColumn
              /\ Ordered(q, explicit, desc) = SortedBy(schemaOf(q), explicit, desc)
           \/ /\ ~q.restricted /\ explicit = NoColumn
              /\ \E pk \in schemaOf(q).pkCols : Ordered(q, explicit, desc) = SortedBy(schemaOf(q), <<pk>>, desc)
  <1>1. CASE q.restricted
    BY <1>1, Errs DEF Ordered
  <1>2. CASE ~q.restricted /\ explicit # NoColumn
    BY <1>2 DEF Ordered
  <1>3. CASE ~q.restricted /\ explicit = NoColumn
    <2>1. schemaOf(q).pkCols # {}
      BY <1>3, Errs DEF Ordered
    <2>2. Ordered(q, explicit, desc)
            = SortedBy(schemaOf(q), <<CHOOSE pk \in schemaOf(q).pkCols : TRUE>>, desc)
      BY <1>3, <2>1, Errs DEF Ordered
    <2>3. (CHOOSE pk \in schemaOf(q).pkCols : TRUE) \in schemaOf(q).pkCols
      BY <2>1
    <2>. QED
      BY <1>3, <2>2, <2>3
  <1>. QED
    BY <1>1, <1>2, <1>3

LEMMA ColumnOf ==
    ASSUME NEW info, NEW raw, NEW desc
    PROVE  /\ column(info, raw, desc).name = splitColumn(raw).name
           /\ column(info, raw, desc).desc = desc
           /\ splitColumn(raw).name \in info.fields /\ splitColumn(raw).table \in {None, info.table}
                => column(info, raw, desc).table = info.table
           /\ column(info, raw, desc).table \in {info.table, splitColumn(raw).table}
  BY DEF column

LEMMA KeyColumn ==
    ASSUME NEW pk
    PROVE  splitColumn(<<pk>>).table = None /\ splitColumn(<<pk>>).name = pk
  BY DEF splitColumn, LastOf

(* Where an answer comes from.                                             *)
Asked == explicitSort(schemaOf(asked.q), asked.sort, Chosen(options))

LEMMA AnsweredBy ==
    ASSUME SortInv, Answered
    PROVE  /\ asked.q \in Queries
           /\ result = Ordered(asked.q, Asked, asked.desc)
           /\ Ordered(asked.q, Asked, asked.desc).err = None
  <1>1. options.stage = "served"
    BY Errs DEF SortInv, Answered
  <1>2. ~options.invalid
    BY <1>1, Errs DEF SortInv, Answered
  <1>3. result = buildOrder(asked.q, asked.sort, asked.desc, Chosen(options)) /\ asked.q \in Queries
    BY <1>1, <1>2 DEF SortInv
  <1>4. result = Ordered(asked.q, Asked, asked.desc)
    BY <1>3, OrderOfColumn DEF Asked
  <1>. QED
    BY <1>3, <1>4 DEF Answered

LEMMA DefaultOrdered ==
    DefaultOrder = Ordered(asked.q, options.defaultSort, asked.desc)
  <1>. DEFINE s == [sortMapping |-> [kind |-> "map", to |-> [k \in {NoColumn} |-> NoColumn]],
                    defaultSort |-> options.defaultSort]
  <1>1. s.sortMapping.kind = "map" /\ s.sortMapping.to[NoColumn] = NoColumn
        /\ s.defaultSort = options.defaultSort
    OBVIOUS
  <1>2. DefaultOrder = buildOrder(asked.q, NoColumn, asked.desc, s)
    BY DEF DefaultOrder
  <1>. HIDE DEF s
  <1>3. explicitSort(schemaOf(asked.q), NoColumn, s) = options.defaultSort
    BY <1>1 DEF explicitSort
  <1>. QED
    BY <1>2, <1>3, OrderOfColumn

-----------------------------------------------------------------------------
(* RemoteKeyConfined: an order that is not the default one is that of a    *)
(* column a client or the map named, and a client's column has passed      *)
(* allowsRemoteSort.                                                       *)
THEOREM RemoteKeysConfined == SortSpec => []RemoteKeyConfined
  <1>1. ASSUME SortInv, Answered, result # DefaultOrder
        PROVE  RemoteKeyConfined
    <2>. DEFINE info == schemaOf(asked.q)
    <2>1. /\ asked.q \in Queries /\ result = Ordered(asked.q, Asked, asked.desc)
          /\ Ordered(asked.q, Asked, asked.desc).err = None
      BY <1>1, AnsweredBy
    <2>2. Asked # options.defaultSort
      BY <1>1, <2>1, DefaultOrdered
    <2>3. \/ /\ options.sortMapping.kind = "map" /\ Asked = options.sortMapping.to[asked.sort]
          \/ /\ options.sortMapping.kind # "map" /\ Asked = asked.sort
             /\ allowsRemoteSort(info, asked.sort)
      BY <2>2 DEF Asked, explicitSort, Chosen
    <2>4. Asked # NoColumn
      BY <2>2 DEF Asked, explicitSort, Chosen
    <2>5. result.first.name = splitColumn(Asked).name
      <3>1. \/ result = restrictedOrder(asked.q, Asked, asked.desc)
            \/ result = SortedBy(info, Asked, asked.desc)
        BY <2>1, <2>4, OrderedBy
      <3>. QED
        BY <3>1, ColumnOf DEF restrictedOrder, SortedBy, Order
    <2>6. CASE options.sortMapping.kind = "map"
      BY <2>3, <2>4, <2>5, <2>6 DEF RemoteKeyConfined
    <2>7. CASE options.sortMapping.kind # "map"
      <3>1. /\ splitColumn(Asked).name \in info.fields
            /\ splitColumn(Asked).table \in {None, info.table}
        BY <2>3, <2>7 DEF allowsRemoteSort
      <3>2. info.table = qualifierTable(asked.q) /\ info.fields = asked.q.schema.fields
        BY <3>1 DEF schemaOf, NoInfo
      <3>3. result.first.name \in asked.q.schema.fields
        BY <2>5, <3>1, <3>2
      <3>4. CASE Decidable(asked.q) /\ ~asked.q.restricted
        <4>1. result.first = column(info, Asked, asked.desc)
          BY <2>1, <2>4, <3>4, OrderedBy DEF SortedBy, Order
        <4>2. result.first.table = qualifierTable(asked.q)
          BY <3>1, <3>2, <4>1, ColumnOf
        <4>3. Refers(asked.q, result.first) = {1}
          BY <2>1, <3>3, <3>4, <4>2, FieldFound
        <4>. QED
          BY <2>7, <3>3, <3>4, <4>3 DEF RemoteKeyConfined
      <3>5. CASE Decidable(asked.q) /\ asked.q.restricted
        <4>1. result.first = column(NoInfo, Asked, asked.desc)
          BY <2>1, <2>4, <3>5, OrderedBy DEF restrictedOrder, Order
        <4>2. result.first.table \in {None, qualifierTable(asked.q)}
          BY <3>1, <3>2, <4>1, ColumnOf DEF NoInfo
        <4>3. [table |-> qualifierTable(asked.q), name |-> result.first.name].name = result.first.name
              /\ [table |-> qualifierTable(asked.q), name |-> result.first.name].table = qualifierTable(asked.q)
          OBVIOUS
        <4>4. 1 \in Refers(asked.q, [table |-> qualifierTable(asked.q), name |-> result.first.name])
          BY <2>1, <3>3, <3>5, <4>3, FieldFound
        <4>5. 1 \in Refers(asked.q, result.first)
          BY <4>2, <4>3, <4>4 DEF Refers
        <4>. QED
          BY <2>7, <3>3, <3>5, <4>5 DEF RemoteKeyConfined
      <3>. QED
        BY <2>7, <3>3, <3>4, <3>5 DEF RemoteKeyConfined
    <2>. QED
      BY <2>6, <2>7
  <1>2. SortInv => RemoteKeyConfined
    BY <1>1 DEF RemoteKeyConfined
  <1>. QED
    BY <1>2, SortInvariant, PTL

(* TotallyOrdered: a column of the key is the sort column itself, or is    *)
(* appended, and either way it is qualified by the model's table.          *)
THEOREM OrdersAreTotal == SortSpec => []TotallyOrdered
  <1>1. ASSUME SortInv, Answered, Decidable(asked.q), ~asked.q.restricted, asked.q.schema.parses,
               NEW pk \in asked.q.schema.pkCols
        PROVE  \E c \in {result.first} \cup result.rest :
                 c.name = pk /\ c.desc = asked.desc /\ Refers(asked.q, c) = {1}
    <2>. DEFINE info == schemaOf(asked.q)
    <2>1. /\ asked.q \in Queries /\ result = Ordered(asked.q, Asked, asked.desc)
          /\ Ordered(asked.q, Asked, asked.desc).err = None
      BY <1>1, AnsweredBy
    <2>2. PICK col : result = SortedBy(info, col, asked.desc)
      BY <1>1, <2>1, OrderedBy
    <2>3. /\ result.first = column(info, col, asked.desc)
          /\ result.rest = {column(info, <<k>>, asked.desc) :
                              k \in {k \in info.pkCols : ~sameColumn(info, col, k)}}
      BY <2>2 DEF SortedBy, Order
    <2>4. /\ info.table = qualifierTable(asked.q) /\ info.pkCols = asked.q.schema.pkCols
          /\ info.fields = asked.q.schema.fields
      BY <1>1 DEF schemaOf
    <2>5. pk \in info.fields
      BY <1>1, <2>1, <2>4, QueryTyped
    <2>6. CASE sameColumn(info, col, pk)
      <3>1. splitColumn(col).name = pk /\ splitColumn(col).table \in {None, info.table}
        BY <2>6 DEF sameColumn
      <3>2. /\ result.first.name = pk /\ result.first.desc = asked.desc
            /\ result.first.table = info.table
        BY <2>3, <2>5, <3>1, ColumnOf
      <3>3. Refers(asked.q, result.first) = {1}
        BY <1>1, <2>1, <2>4, <2>5, <3>2, FieldFound
      <3>. QED
        BY <3>2, <3>3
    <2>7. CASE ~sameColumn(info, col, pk)
      <3>. DEFINE c == column(info, <<pk>>, asked.desc)
      <3>1. c \in result.rest
        BY <1>1, <2>3, <2>4, <2>7
      <3>2. c.name = pk /\ c.desc = asked.desc /\ c.table = info.table
        BY <2>5, ColumnOf, KeyColumn
      <3>3. Refers(asked.q, c) = {1}
        BY <1>1, <2>1, <2>4, <2>5, <3>2, FieldFound
      <3>. QED
        BY <3>1, <3>2, <3>3
    <2>. QED
      BY <2>6, <2>7
  <1>2. SortInv => TotallyOrdered
    BY <1>1 DEF TotallyOrdered
  <1>. QED
    BY <1>2, SortInvariant, PTL

(* QualifierInFrom: a column is qualified by what qualifierTable found, or *)
(* by what stood before the dot in the column asked for.                   *)
THEOREM QualifiersAreInFrom == SortSpec => []QualifierInFrom
  <1>. DEFINE named == {NameOf(Instances(asked.q)[i]) : i \in DOMAIN Instances(asked.q)}
              raws  == {asked.sort, options.defaultSort, options.sortMapping.to[asked.sort]}
  <1>1. ASSUME SortInv, Answered, asked.q.tail # "words", NEW c \in {result.first} \cup result.rest
        PROVE  \/ c.table \in {None} \cup named
               \/ c = result.first /\ \E raw \in raws :
                    raw # NoColumn /\ splitColumn(raw).table = c.table
    <2>. DEFINE info == schemaOf(asked.q)
    <2>1. /\ asked.q \in Queries /\ result = Ordered(asked.q, Asked, asked.desc)
          /\ Ordered(asked.q, Asked, asked.desc).err = None
      BY <1>1, AnsweredBy
    <2>2. Asked # NoColumn => Asked \in raws
      BY DEF Asked, explicitSort, Chosen
    <2>3. info.table \in {None} \cup named
      <3>1. info.table \in {None, qualifierTable(asked.q)}
        BY DEF schemaOf, NoInfo
      <3>2. qualifierTable(asked.q) # None => qualifierTable(asked.q) \in named
        BY <1>1, <2>1, QualifierNamed
      <3>. QED
        BY <3>1, <3>2
    <2>4. CASE asked.q.restricted /\ Asked # NoColumn
               /\ result = restrictedOrder(asked.q, Asked, asked.desc)
      <3>1. c = result.first /\ c = column(NoInfo, Asked, asked.desc)
        BY <1>1, <2>4 DEF restrictedOrder, Order
      <3>2. c.table \in {None, splitColumn(Asked).table}
        BY <3>1, ColumnOf DEF NoInfo
      <3>. QED
        BY <2>2, <2>4, <3>1, <3>2
    <2>5. ASSUME NEW col, result = SortedBy(info, col, asked.desc),
                 splitColumn(col).table = None \/ (col # NoColumn /\ col \in raws)
          PROVE  \/ c.table \in {None} \cup named
                 \/ c = result.first /\ \E raw \in raws :
                      raw # NoColumn /\ splitColumn(raw).table = c.table
      <3>1. /\ result.first = column(info, col, asked.desc)
            /\ \A d \in result.rest : \E k : d = column(info, <<k>>, asked.desc)
        BY <2>5 DEF SortedBy, Order
      <3>2. CASE c = result.first
        <4>1. c.table \in {info.table, splitColumn(col).table}
          BY <3>1, <3>2, ColumnOf
        <4>. QED
          BY <2>3, <2>5, <3>2, <4>1
      <3>3. CASE c \in result.rest
        <4>1. PICK k : c = column(info, <<k>>, asked.desc)
          BY <3>1, <3>3
        <4>2. c.table \in {info.table, splitColumn(<<k>>).table}
          BY <4>1, ColumnOf
        <4>. QED
          BY <2>3, <4>2, KeyColumn
      <3>. QED
        BY <1>1, <3>2, <3>3
    <2>6. CASE Asked # NoColumn /\ result = SortedBy(info, Asked, asked.desc)
      BY <2>2, <2>5, <2>6
    <2>7. CASE \E pk \in info.pkCols : result = SortedBy(info, <<pk>>, asked.desc)
      BY <2>5, <2>7, KeyColumn
    <2>. QED
      BY <2>1, <2>4, <2>6, <2>7, OrderedBy
  <1>2. SortInv => QualifierInFrom
    BY <1>1 DEF QualifierInFrom
  <1>. QED
    BY <1>2, SortInvariant, PTL

-----------------------------------------------------------------------------
(* DistinctPrefix.  The package and MySQL read the same text, one by       *)
(* jumping from comment to comment, the other token by token.  The         *)
(* argument follows MySQL's lexer over what the package cuts off: wherever *)
(* the package goes on, the lexer stands in code again.                    *)

(* Every set of natural numbers that is not empty has a least one.         *)
LEMMA LeastNumber ==
  ASSUME NEW T, T \subseteq Nat, T # {}
  PROVE  \E n \in T : \A m \in T : n <= m
<1>. DEFINE R == OpToRel(<, Nat)
<1>1. \E n \in T : \A m \in T : <<m, n>> \notin R
  <2>1. IsWellFoundedOn(R, Nat)
    BY NatLessThanWellFounded
  <2>. HIDE DEF R
  <2>. QED
    BY <2>1, WFMin, Zenon
<1>2. \A m, n \in Nat : <<m, n>> \notin R => n <= m
  BY DEF OpToRel
<1>. QED
  BY <1>1, <1>2

(* What follows the first p tokens of a text.                              *)
LEMMA AfterFacts ==
  ASSUME NEW S, NEW t \in Seq(S), NEW p \in 0..Len(t)
  PROVE  /\ After(t, p) \in Seq(S) /\ Len(After(t, p)) = Len(t) - p
         /\ \A i \in 1..(Len(t) - p) : After(t, p)[i] = t[p + i]
<1>1. QED
  BY DEF After

(* What follows what follows.                                              *)
LEMMA AfterAfter ==
  ASSUME NEW S, NEW t \in Seq(S), NEW p \in 0..Len(t), NEW k \in 0..(Len(t) - p)
  PROVE  After(After(t, p), k) = After(t, p + k)
<1>. DEFINE u == After(t, p)
            v == After(u, k)
            w == After(t, p + k)
<1>1. u \in Seq(S) /\ Len(u) = Len(t) - p /\ \A i \in 1..(Len(t) - p) : u[i] = t[p + i]
  BY AfterFacts
<1>2. p + k \in 0..Len(t) /\ k \in 0..Len(u) /\ Len(t) \in Nat /\ p \in Nat /\ k \in Nat
  BY <1>1
<1>3. w \in Seq(S) /\ Len(w) = Len(t) - p - k /\ \A i \in 1..(Len(t) - p - k) : w[i] = t[p + k + i]
  <2>1. w \in Seq(S) /\ Len(w) = Len(t) - (p + k) /\ \A i \in 1..(Len(t) - (p + k)) : w[i] = t[(p + k) + i]
    BY <1>2, AfterFacts
  <2>. HIDE DEF w
  <2>2. QED
    BY <2>1, <1>2
<1>. HIDE DEF u
<1>4. v \in Seq(S) /\ Len(v) = Len(t) - p - k /\ \A i \in 1..(Len(t) - p - k) : v[i] = u[k + i]
  <2>1. v \in Seq(S) /\ Len(v) = Len(u) - k /\ \A i \in 1..(Len(u) - k) : v[i] = u[k + i]
    BY <1>1, <1>2, AfterFacts
  <2>. HIDE DEF v
  <2>2. QED
    BY <1>1, <2>1
<1>. HIDE DEF v, w
<1>5. \A i \in 1..Len(v) : v[i] = w[i]
  <2>. TAKE i \in 1..Len(v)
  <2>1. i \in 1..(Len(t) - p - k) /\ k + i \in 1..(Len(t) - p)
    BY <1>2, <1>4
  <2>2. v[i] = t[p + (k + i)] /\ w[i] = t[p + k + i]
    BY <1>1, <1>3, <1>4, <2>1
  <2>3. p + (k + i) = p + k + i
    BY <1>2, <2>1
  <2>. QED
    BY <2>2, <2>3
<1>6. v = w
  BY <1>3, <1>4, <1>5, SeqEqual
<1>. QED
  BY <1>6 DEF u, v, w

(* Trimming cuts off the longest part in front whose tokens are in the set. *)
LEMMA Trimmed ==
  ASSUME NEW S, NEW s \in Seq(S), NEW set
  PROVE  \E k \in 0..Len(s) :
             /\ TrimLeft(s, set) = After(s, k)
             /\ \A i \in 1..k : s[i] \in set
             /\ k < Len(s) => s[k + 1] \notin set
<1>. DEFINE kept == {i \in DOMAIN s : s[i] \notin set}
<1>0. Len(s) \in Nat /\ DOMAIN s = 1..Len(s)
  OBVIOUS
<1>1. CASE kept = {}
  <2>1. TrimLeft(s, set) = << >>
    BY <1>1 DEF TrimLeft
  <2>2. After(s, Len(s)) = << >>
    <3>1. After(s, Len(s)) \in Seq(S) /\ Len(After(s, Len(s))) = 0
      BY <1>0, AfterFacts
    <3>. QED
      BY <3>1, EmptySeq
  <2>. QED
    BY <1>0, <1>1, <2>1, <2>2
<1>2. CASE kept # {}
  <2>1. PICK n \in kept : \A m \in kept : n <= m
    <3>1. kept \subseteq Nat
      BY <1>0
    <3>. HIDE DEF kept
    <3>. QED
      BY <1>2, <3>1, LeastNumber
  <2>. DEFINE f == CHOOSE i \in kept : \A j \in kept : i <= j
  <2>2. f \in kept /\ \A j \in kept : f <= j
    BY <2>1
  <2>3. TrimLeft(s, set) = SubSeq(s, f, Len(s))
    BY <1>2 DEF TrimLeft
  <2>. HIDE DEF f
  <2>4. f \in 1..Len(s) /\ s[f] \notin set
    BY <1>0, <2>2
  <2>5. f - 1 \in 0..Len(s) /\ (f - 1) + 1 = f
    BY <1>0, <2>4
  <2>6. TrimLeft(s, set) = After(s, f - 1)
    BY <2>3, <2>5 DEF After
  <2>7. \A i \in 1..(f - 1) : s[i] \in set
    <3>. SUFFICES ASSUME NEW i \in 1..(f - 1), s[i] \notin set PROVE FALSE
      OBVIOUS
    <3>1. i \in kept /\ i < f
      BY <1>0, <2>4
    <3>. QED
      BY <1>0, <2>2, <2>4, <3>1
  <2>. QED
    BY <2>4, <2>5, <2>6, <2>7
<1>. QED
  BY <1>1, <1>2

(* Trimming what follows the first p tokens moves on to a q.               *)
LEMMA TrimmedAfter ==
  ASSUME NEW S, NEW t \in Seq(S), NEW p \in 0..Len(t), NEW set
  PROVE  \E q \in p..Len(t) :
             /\ TrimLeft(After(t, p), set) = After(t, q)
             /\ \A i \in (p + 1)..q : t[i] \in set
             /\ q < Len(t) => t[q + 1] \notin set
<1>. DEFINE u == After(t, p)
<1>1. u \in Seq(S) /\ Len(u) = Len(t) - p /\ \A i \in 1..(Len(t) - p) : u[i] = t[p + i]
  BY AfterFacts
<1>2. PICK k \in 0..Len(u) : /\ TrimLeft(u, set) = After(u, k)
                             /\ \A i \in 1..k : u[i] \in set
                             /\ k < Len(u) => u[k + 1] \notin set
  BY <1>1, Trimmed
<1>3. p \in Nat /\ Len(t) \in Nat /\ k \in Nat /\ k <= Len(t) - p /\ p + k \in p..Len(t)
  BY <1>1
<1>4. TrimLeft(u, set) = After(t, p + k)
  BY <1>1, <1>2, AfterAfter
<1>. HIDE DEF u
<1>5. \A i \in (p + 1)..(p + k) : t[i] \in set
  <2>. TAKE i \in (p + 1)..(p + k)
  <2>1. i - p \in 1..k /\ i - p \in 1..(Len(t) - p) /\ p + (i - p) = i
    BY <1>3
  <2>. QED
    BY <1>1, <1>2, <2>1
<1>6. p + k < Len(t) => t[p + k + 1] \notin set
  <2>1. ASSUME p + k < Len(t) PROVE k < Len(u) /\ k + 1 \in 1..(Len(t) - p) /\ p + (k + 1) = p + k + 1
    BY <1>1, <1>3, <2>1
  <2>. QED
    BY <1>1, <1>2, <2>1
<1>. QED
  BY <1>3, <1>4, <1>5, <1>6 DEF u

(* The place of a token, counted in the whole text.                        *)
LEMMA IndexFound ==
  ASSUME NEW S, NEW t \in Seq(S), NEW q \in 0..Len(t), NEW set
  PROVE  LET e == IndexOf(After(t, q), set) IN
         \/ e = 0 /\ \A i \in (q + 2)..Len(t) : t[i] \notin set
         \/ /\ e \in 2..(Len(t) - q) /\ t[q + e] \in set
            /\ \A i \in (q + 2)..(q + e - 1) : t[i] \notin set
            /\ After(After(t, q), e) = After(t, q + e)
<1>. DEFINE u == After(t, q)
            at == {i \in 2..Len(u) : u[i] \in set}
            e == IndexOf(u, set)
<1>1. u \in Seq(S) /\ Len(u) = Len(t) - q /\ \A i \in 1..(Len(t) - q) : u[i] = t[q + i]
  BY AfterFacts
<1>2. q \in Nat /\ Len(t) \in Nat /\ Len(u) \in Nat
  BY <1>1
<1>3. \A i \in (q + 2)..Len(t) : i - q \in 2..Len(u) /\ u[i - q] = t[i]
  <2>. TAKE i \in (q + 2)..Len(t)
  <2>1. i - q \in 1..(Len(t) - q) /\ i - q \in 2..Len(u) /\ q + (i - q) = i
    BY <1>1, <1>2
  <2>. QED
    BY <1>1, <2>1
<1>4. e = IF at = {} THEN 0 ELSE CHOOSE i \in at : \A j \in at : i <= j
  BY DEF IndexOf
<1>. HIDE DEF u, e
<1>5. CASE at = {}
  <2>1. \A i \in (q + 2)..Len(t) : t[i] \notin set
    BY <1>3, <1>5
  <2>. QED
    BY <1>4, <1>5, <2>1 DEF u, e
<1>6. CASE at # {}
  <2>1. PICK n \in at : \A m \in at : n <= m
    <3>1. at \subseteq Nat
      BY <1>2
    <3>. HIDE DEF at
    <3>. QED
      BY <1>6, <3>1, LeastNumber
  <2>2. e \in at /\ \A j \in at : e <= j
    <3>1. e = CHOOSE i \in at : \A j \in at : i <= j
      BY <1>4, <1>6
    <3>. QED
      BY <2>1, <3>1
  <2>3. e \in 2..(Len(t) - q) /\ e \in 1..(Len(t) - q) /\ u[e] \in set
    BY <1>1, <1>2, <2>2
  <2>4. t[q + e] \in set
    BY <1>1, <2>3
  <2>5. \A i \in (q + 2)..(q + e - 1) : t[i] \notin set
    <3>. SUFFICES ASSUME NEW i \in (q + 2)..(q + e - 1), t[i] \in set PROVE FALSE
      OBVIOUS
    <3>1. i \in (q + 2)..Len(t) /\ i - q < e /\ i - q \in Int
      BY <1>2, <2>3
    <3>2. i - q \in at
      BY <1>3, <3>1
    <3>. QED
      BY <2>2, <2>3, <3>1, <3>2
  <2>6. After(u, e) = After(t, q + e)
    <3>1. e \in 0..(Len(t) - q)
      BY <1>2, <2>3
    <3>. QED
      BY <3>1, AfterAfter DEF u
  <2>. QED
    BY <2>3, <2>4, <2>5, <2>6 DEF u, e
<1>. QED
  BY <1>5, <1>6

(* The same, with a name for the place.                                    *)
LEMMA IndexPlace ==
  ASSUME NEW S, NEW t \in Seq(S), NEW q \in 0..Len(t), NEW set
  PROVE  LET e == IndexOf(After(t, q), set) IN
         \/ e = 0 /\ \A i \in (q + 2)..Len(t) : t[i] \notin set
         \/ e # 0 /\ \E r \in (q + 2)..Len(t) :
              /\ r = q + e /\ e \in 2..(Len(t) - q) /\ r \in 0..Len(t)
              /\ t[r] \in set /\ \A i \in (q + 2)..(r - 1) : t[i] \notin set
              /\ After(After(t, q), e) = After(t, r)
<1>. DEFINE e == IndexOf(After(t, q), set)
<1>0. Len(t) \in Nat /\ q \in Nat
  OBVIOUS
<1>1. \/ e = 0 /\ \A i \in (q + 2)..Len(t) : t[i] \notin set
      \/ /\ e \in 2..(Len(t) - q) /\ t[q + e] \in set
         /\ \A i \in (q + 2)..(q + e - 1) : t[i] \notin set
         /\ After(After(t, q), e) = After(t, q + e)
  BY IndexFound
<1>. HIDE DEF e
<1>2. ASSUME e # 0
      PROVE  \E r \in (q + 2)..Len(t) :
              /\ r = q + e /\ e \in 2..(Len(t) - q) /\ r \in 0..Len(t)
              /\ t[r] \in set /\ \A i \in (q + 2)..(r - 1) : t[i] \notin set
              /\ After(After(t, q), e) = After(t, r)
  <2>1. /\ e \in 2..(Len(t) - q) /\ t[q + e] \in set
        /\ \A i \in (q + 2)..(q + e - 1) : t[i] \notin set
        /\ After(After(t, q), e) = After(t, q + e)
    BY <1>1, <1>2
  <2>2. q + e \in (q + 2)..Len(t) /\ q + e \in 0..Len(t)
    BY <1>0, <2>1
  <2>. QED
    BY <2>1, <2>2
<1>3. e = 0 => \A i \in (q + 2)..Len(t) : t[i] \notin set
  BY <1>1
<1>. QED
  BY <1>2, <1>3 DEF e

Modes  == {"code", "version", "block", "dashes", "line", "keyword", "yes", "no"}
Lexers == [mode : Modes, inside : BOOLEAN, prev : Tokens]

(* What Lexer makes is a state of the lexer.                               *)
LEMMA LexerTyped ==
  ASSUME NEW m \in Modes, NEW b \in BOOLEAN, NEW x \in Tokens
  PROVE  Lexer(m, b, x) \in Lexers
<1>1. QED
  BY DEF Lexer, Lexers

(* In code every token leads to a state of the lexer.                      *)
LEMMA CodeTyped ==
  ASSUME NEW s \in Lexers, NEW x \in Tokens, NEW skip \in BOOLEAN
  PROVE  Code(s, x, skip) \in Lexers
<1>1. s.inside \in BOOLEAN
  BY DEF Lexers
<1>2. \A m \in Modes, b \in BOOLEAN : Lexer(m, b, x) \in Lexers
  BY LexerTyped
<1>3. \A m \in Modes : Lexer(m, s.inside, x) \in Lexers /\ Lexer(m, TRUE, x) \in Lexers
                       /\ Lexer(m, FALSE, x) \in Lexers
  BY <1>1, <1>2
<1>4. QED
  BY <1>3 DEF Code, Modes

(* Every token keeps the lexer among its states.                           *)
LEMMA ReadTyped ==
  ASSUME NEW s \in Lexers, NEW x \in Tokens, NEW skip \in BOOLEAN
  PROVE  Read(s, x, skip) \in Lexers
<1>1. s.inside \in BOOLEAN /\ s.mode \in Modes
  BY DEF Lexers
<1>2. "blank" \in Tokens
  BY DEF Tokens, Spaces, Blanks
<1>3. Lexer("code", TRUE, "blank") \in Lexers
  BY <1>2, LexerTyped DEF Modes
<1>4. \A m \in Modes, b \in BOOLEAN : Lexer(m, b, x) \in Lexers
  BY LexerTyped
<1>5. (s.inside /\ x # "*/") \in BOOLEAN
  OBVIOUS
<1>6. \A m \in Modes : /\ Lexer(m, s.inside, x) \in Lexers
                       /\ Lexer(m, s.inside /\ x # "*/", x) \in Lexers
  BY <1>1, <1>4, <1>5
<1>7. Code(s, x, skip) \in Lexers
  BY CodeTyped
<1>. HIDE DEF Lexers
<1>8. QED
  BY <1>1, <1>3, <1>6, <1>7 DEF Read, Modes

-----------------------------------------------------------------------------
(* The lexer's states after 0, 1, ... tokens: the recursive function exists. *)
ReadingsTo(t, skipped, k) ==
  {g \in [0..k -> Lexers] :
      /\ g[0] = Lexer("code", FALSE, "blank")
      /\ \A i \in 1..k : g[i] = Read(g[i - 1], t[i], i \in skipped)}

(* The function of a text exists: no first prefix is without one.          *)
LEMMA ReadingsExist ==
  ASSUME NEW t \in Seq(Tokens), NEW skipped
  PROVE  ReadingsTo(t, skipped, Len(t)) # {}
<1>. DEFINE T == {k \in 0..Len(t) : ReadingsTo(t, skipped, k) = {}}
<1>0. Lexer("code", FALSE, "blank") \in Lexers
  <2>1. "blank" \in Tokens /\ "code" \in Modes
    BY DEF Tokens, Spaces, Blanks, Modes
  <2>. QED
    BY <2>1, LexerTyped
<1>1. Len(t) \in Nat
  OBVIOUS
<1>2. ASSUME T # {} PROVE FALSE
  <2>1. PICK k \in T : \A m \in T : k <= m
    <3>1. T \subseteq Nat
      BY <1>1
    <3>. HIDE DEF T
    <3>. QED
      BY <1>2, <3>1, LeastNumber
  <2>2. k \in 0..Len(t) /\ ReadingsTo(t, skipped, k) = {}
    OBVIOUS
  <2>. DEFINE first == Lexer("code", FALSE, "blank")
  <2>5. first \in Lexers
    BY <1>0
  <2>6. \A m \in 0..Len(t) : m < k => m \notin T
    <3>. SUFFICES ASSUME NEW m \in 0..Len(t), m < k, m \in T PROVE FALSE
      OBVIOUS
    <3>1. k <= m
      BY <2>1
    <3>. QED
      BY <1>1, <2>2, <3>1
  <2>7. \A m \in 0..Len(t) : m \notin T => ReadingsTo(t, skipped, m) # {}
    OBVIOUS
  <2>. HIDE DEF T
  <2>3. CASE k = 0
    <3>. HIDE DEF first
    <3>. DEFINE g == [i \in 0..0 |-> first]
    <3>1. g \in [0..0 -> Lexers]
      BY <2>5
    <3>2. g[0] = first
      OBVIOUS
    <3>. HIDE DEF g
    <3>3. \A i \in 1..0 : g[i] = Read(g[i - 1], t[i], i \in skipped)
      OBVIOUS
    <3>4. g \in ReadingsTo(t, skipped, 0)
      BY <3>1, <3>2, <3>3 DEF ReadingsTo, first
    <3>. QED
      BY <2>2, <2>3, <3>4
  <2>4. CASE k # 0
    <3>1. k - 1 \in 0..Len(t) /\ k - 1 \in Nat /\ k \in Nat /\ k \in 1..Len(t)
      BY <1>1, <2>2, <2>4
    <3>2. k - 1 \notin T
      BY <2>6, <3>1
    <3>3. PICK g \in ReadingsTo(t, skipped, k - 1) : TRUE
      BY <2>7, <3>1, <3>2
    <3>4. /\ g \in [0..(k - 1) -> Lexers] /\ g[0] = Lexer("code", FALSE, "blank")
          /\ \A i \in 1..(k - 1) : g[i] = Read(g[i - 1], t[i], i \in skipped)
      BY <3>3 DEF ReadingsTo
    <3>. DEFINE next == Read(g[k - 1], t[k], k \in skipped)
                h == [i \in 0..k |-> IF i = k THEN next ELSE g[i]]
    <3>5. next \in Lexers
      <4>1. g[k - 1] \in Lexers /\ t[k] \in Tokens
        BY <3>1, <3>4
      <4>2. (k \in skipped) \in BOOLEAN
        OBVIOUS
      <4>. QED
        BY <4>1, <4>2, ReadTyped
    <3>. HIDE DEF next
    <3>6. h \in [0..k -> Lexers]
      BY <3>1, <3>4, <3>5
    <3>7. h[0] = g[0] /\ h[k] = next /\ \A i \in 0..(k - 1) : h[i] = g[i]
      <4>1. 0 \in 0..k /\ k \in 0..k /\ 0 # k /\ \A i \in 0..(k - 1) : i \in 0..k /\ i # k
        BY <3>1
      <4>. QED
        BY <4>1
    <3>. HIDE DEF h
    <3>8. \A i \in 1..k : h[i] = Read(h[i - 1], t[i], i \in skipped)
      <4>1. \A i \in 1..(k - 1) : i - 1 \in 0..(k - 1) /\ i \in 0..(k - 1)
        BY <3>1
      <4>2. \A i \in 1..(k - 1) : h[i] = g[i] /\ h[i - 1] = g[i - 1]
        BY <3>7, <4>1
      <4>3. h[k - 1] = g[k - 1]
        BY <3>1, <3>7
      <4>4. \A i \in 1..k : i = k \/ i \in 1..(k - 1)
        BY <3>1
      <4>. TAKE i \in 1..k
      <4>5. CASE i = k
        BY <3>7, <4>3, <4>5 DEF next
      <4>6. CASE i \in 1..(k - 1)
        <5>1. h[i] = g[i] /\ h[i - 1] = g[i - 1] /\ g[i] = Read(g[i - 1], t[i], i \in skipped)
          BY <3>4, <4>2, <4>6
        <5>. QED
          BY <5>1
      <4>. QED
        BY <4>4, <4>5, <4>6
    <3>9. h \in ReadingsTo(t, skipped, k)
      BY <3>4, <3>6, <3>7, <3>8 DEF ReadingsTo
    <3>. QED
      BY <2>2, <3>9
  <2>. QED
    BY <2>3, <2>4
<1>. QED
  BY <1>1, <1>2

(* Reading is what its recursion says, since such a function exists.       *)
LEMMA ReadingStep ==
  ASSUME NEW t \in Seq(Tokens), NEW skipped
  PROVE  /\ Reading(t, skipped)[0] = Lexer("code", FALSE, "blank")
         /\ \A i \in 0..Len(t) : Reading(t, skipped)[i] \in Lexers
         /\ \A i \in 1..Len(t) :
              Reading(t, skipped)[i] = Read(Reading(t, skipped)[i - 1], t[i], i \in skipped)
<1>. DEFINE F(f) == [i \in 0..Len(t) |-> IF i = 0 THEN Lexer("code", FALSE, "blank")
                                        ELSE Read(f[i - 1], t[i], i \in skipped)]
            R == Reading(t, skipped)
<1>0. Len(t) \in Nat
  OBVIOUS
<1>1. PICK g \in ReadingsTo(t, skipped, Len(t)) : TRUE
  BY ReadingsExist
<1>2. /\ g \in [0..Len(t) -> Lexers] /\ g[0] = Lexer("code", FALSE, "blank")
      /\ \A i \in 1..Len(t) : g[i] = Read(g[i - 1], t[i], i \in skipped)
  BY <1>1 DEF ReadingsTo
<1>3. \A i \in 0..Len(t) : g[i] = IF i = 0 THEN Lexer("code", FALSE, "blank")
                                  ELSE Read(g[i - 1], t[i], i \in skipped)
  <2>. TAKE i \in 0..Len(t)
  <2>1. i = 0 \/ i \in 1..Len(t)
    BY <1>0
  <2>. QED
    BY <1>2, <2>1
<1>4. g = F(g)
  BY <1>2, <1>3
<1>5. R = CHOOSE f : f = F(f)
  BY DEF Reading
<1>. HIDE DEF F, R
<1>6. R = F(R)
  BY <1>4, <1>5
<1>. QED
  BY <1>6 DEF F, R

(* A set of states that no token of a piece of the text leaves.            *)
LEMMA Segment ==
  ASSUME NEW t \in Seq(Tokens), NEW skipped, NEW K,
         NEW a \in 0..Len(t), NEW b \in a..Len(t),
         Reading(t, skipped)[a] \in K,
         \A i \in (a + 1)..b : \A s \in K \cap Lexers, skip \in BOOLEAN : Read(s, t[i], skip) \in K
  PROVE  \A i \in a..b : Reading(t, skipped)[i] \in K
<1>. DEFINE R == Reading(t, skipped)
            T == {i \in a..b : R[i] \notin K}
<1>0. Len(t) \in Nat /\ a \in Nat /\ b \in Nat /\ a <= b /\ b <= Len(t)
  OBVIOUS
<1>1. /\ \A i \in 0..Len(t) : R[i] \in Lexers
      /\ \A i \in 1..Len(t) : R[i] = Read(R[i - 1], t[i], i \in skipped)
  BY ReadingStep
<1>. HIDE DEF R
<1>2. ASSUME T # {} PROVE FALSE
  <2>1. PICK k \in T : \A m \in T : k <= m
    <3>1. T \subseteq Nat
      BY <1>0
    <3>. HIDE DEF T
    <3>. QED
      BY <1>2, <3>1, LeastNumber
  <2>2. k \in a..b /\ R[k] \notin K
    OBVIOUS
  <2>3. k # a
    BY <2>2 DEF R
  <2>4. k - 1 \in a..b /\ k \in (a + 1)..b /\ k \in 1..Len(t) /\ k - 1 \in 0..Len(t)
    BY <1>0, <2>2, <2>3
  <2>5. R[k - 1] \in K
    <3>1. ASSUME k - 1 \in T PROVE FALSE
      <4>1. k <= k - 1
        BY <2>1, <3>1
      <4>. QED
        BY <1>0, <2>2, <4>1
    <3>. QED
      BY <2>4, <3>1
  <2>6. R[k] = Read(R[k - 1], t[k], k \in skipped)
    BY <1>1, <2>4
  <2>7. R[k - 1] \in K \cap Lexers
    BY <1>1, <2>4, <2>5
  <2>8. (k \in skipped) \in BOOLEAN
    OBVIOUS
  <2>9. Read(R[k - 1], t[k], k \in skipped) \in K
    BY <2>4, <2>7, <2>8
  <2>. QED
    BY <2>2, <2>6, <2>9
<1>. QED
  BY <1>2 DEF R

-----------------------------------------------------------------------------
Clear     == {s \in Lexers : s.mode = "code" /\ s.inside = FALSE /\ s.prev \notin Wordy}
Lost      == {s \in Lexers : s.mode = "no"}
Commented == {s \in Lexers : s.mode = "line" /\ s.inside = FALSE}
Blocked   == {s \in Lexers : s.mode = "block" /\ s.inside = FALSE}
Dashed    == {s \in Lexers : s.mode = "dashes" /\ s.inside = FALSE}
Opened    == {s \in Lexers : s.mode = "version" /\ s.inside = TRUE}
OpenCode  == {s \in Lexers : s.mode = "code" /\ s.inside = TRUE /\ s.prev \notin Wordy}
KeyOut    == {s \in Lexers : s.mode = "keyword" /\ s.inside = FALSE}
KeyIn     == {s \in Lexers : s.mode = "keyword" /\ s.inside = TRUE}
Taken     == {s \in Lexers : s.mode = "yes"}
TakenOut  == {s \in Lexers : s.mode = "yes" /\ s.inside = FALSE}
Within    == {s \in Lexers : s.inside = TRUE}

(* What cannot be a DISTINCT any more stays so.                            *)
LEMMA ReadLost ==
  ASSUME NEW s \in Lost, NEW x \in Tokens, NEW skip \in BOOLEAN
  PROVE  Read(s, x, skip) \in Lost
<1>1. QED
  BY DEF Lost, Read

(* What each token does in code that is not in a version comment.          *)
LEMMA ReadClear ==
  ASSUME NEW s \in Clear, NEW x \in Tokens, NEW skip \in BOOLEAN
  PROVE  /\ x \in Blanks => Read(s, x, skip) \in Clear
         /\ x \in {"wide", "word", "digits", "(", "other", "*/"} => Read(s, x, skip) \in Lost
         /\ x = "distinct" => Read(s, x, skip) \in KeyOut
         /\ x = "/*" \/ (x = "/*!" /\ skip) => Read(s, x, skip) \in Blocked
         /\ x = "/*!" /\ ~skip => Read(s, x, skip) \in Opened
         /\ x = "--" => Read(s, x, skip) \in Dashed
         /\ x = "#" => Read(s, x, skip) \in Commented
<1>1. s \in Lexers /\ s.mode = "code" /\ s.inside = FALSE /\ s.prev \notin Wordy
  BY DEF Clear
<1>2. Read(s, x, skip) = Code(s, x, skip)
  BY <1>1 DEF Read
<1>3. Read(s, x, skip) \in Lexers
  BY <1>1, ReadTyped
<1>4. QED
  BY <1>1, <1>2, <1>3 DEF Code, Lexer, Clear, Lost, KeyOut, Blocked, Opened, Dashed, Commented, Wordy, Blanks

(* Where the comments end.                                                 *)
LEMMA ReadComments ==
  ASSUME NEW s \in Lexers, NEW x \in Tokens, NEW skip \in BOOLEAN
  PROVE  /\ s \in Blocked => Read(s, x, skip) \in (IF x = "*/" THEN Clear ELSE Blocked)
         /\ s \in Commented => Read(s, x, skip) \in (IF x = "newline" THEN Clear ELSE Commented)
         /\ s \in Dashed => Read(s, x, skip) \in
              (IF x = "newline" THEN Clear ELSE IF x \in Blanks THEN Commented ELSE Lost)
<1>1. Read(s, x, skip) \in Lexers
  BY ReadTyped
<1>2. s \in Blocked => Read(s, x, skip) \in (IF x = "*/" THEN Clear ELSE Blocked)
  BY <1>1 DEF Read, Lexer, Blocked, Clear, Wordy
<1>3. s \in Commented => Read(s, x, skip) \in (IF x = "newline" THEN Clear ELSE Commented)
  BY <1>1 DEF Read, Lexer, Commented, Clear, Wordy
<1>4. s \in Dashed => Read(s, x, skip) \in
              (IF x = "newline" THEN Clear ELSE IF x \in Blanks THEN Commented ELSE Lost)
  <2>. SUFFICES ASSUME s \in Dashed
                PROVE  Read(s, x, skip) \in
                         (IF x = "newline" THEN Clear ELSE IF x \in Blanks THEN Commented ELSE Lost)
    OBVIOUS
  <2>. DEFINE m == IF x = "newline" THEN "code" ELSE IF x \in Blanks THEN "line" ELSE "no"
  <2>1. s.mode = "dashes" /\ s.inside = FALSE
    BY DEF Dashed
  <2>2. Read(s, x, skip) = Lexer(m, FALSE, x)
    BY <2>1 DEF Read
  <2>. HIDE DEF m
  <2>3. Lexer(m, FALSE, x).mode = m /\ Lexer(m, FALSE, x).inside = FALSE /\ Lexer(m, FALSE, x).prev = x
    BY DEF Lexer
  <2>4. /\ Read(s, x, skip) \in Lexers /\ Read(s, x, skip).mode = m
        /\ Read(s, x, skip).inside = FALSE /\ Read(s, x, skip).prev = x
    BY <1>1, <2>2, <2>3
  <2>. QED
    BY <2>4 DEF Clear, Commented, Lost, Wordy, m
<1>. QED
  BY <1>2, <1>3, <1>4

(* What follows the keyword.                                               *)
LEMMA ReadKeyword ==
  ASSUME NEW s \in Lexers, NEW x \in Tokens, NEW skip \in BOOLEAN
  PROVE  /\ s \in KeyOut /\ x = "*/" => Read(s, x, skip) \in Lost
         /\ s \in KeyOut /\ x \in Blanks \cup {"("} => Read(s, x, skip) \in TakenOut
         /\ s \in KeyIn /\ x = "*/" => Read(s, x, skip) \in TakenOut
         /\ s \in KeyIn /\ x \in Blanks \cup {"("} => Read(s, x, skip) \in Taken
         /\ s \in Taken => Read(s, x, skip) \in Taken
         /\ s \in Taken /\ x = "*/" => Read(s, x, skip) \in TakenOut
         /\ s \in TakenOut => Read(s, x, skip) \in TakenOut
<1>1. Read(s, x, skip) \in Lexers
  BY ReadTyped
<1>2. s \in Taken => /\ Read(s, x, skip) \in Taken
                     /\ x = "*/" \/ s \in TakenOut => Read(s, x, skip) \in TakenOut
  BY <1>1 DEF Read, Lexer, Taken, TakenOut
<1>3. s \in KeyOut \cup KeyIn =>
        /\ Read(s, x, skip).mode = IF x \in Wordy \/ (x = "*/" /\ ~s.inside) THEN "no" ELSE "yes"
        /\ Read(s, x, skip).inside <=> s.inside /\ x # "*/"
  BY DEF Read, Lexer, KeyOut, KeyIn
<1>4. s \in KeyOut => ~s.inside
  BY DEF KeyOut
<1>5. s \in KeyIn => s.inside
  BY DEF KeyIn
<1>6. Read(s, x, skip).inside \in BOOLEAN
  BY <1>1 DEF Lexers
<1>7. x \in Blanks \cup {"("} => x \notin Wordy /\ x # "*/"
  BY DEF Blanks, Wordy
<1>8. "*/" \notin Wordy
  BY DEF Wordy
<1>9. s \in KeyOut /\ x = "*/" => Read(s, x, skip) \in Lost
  <2>. SUFFICES ASSUME s \in KeyOut, x = "*/" PROVE Read(s, x, skip) \in Lost
    OBVIOUS
  <2>1. Read(s, x, skip).mode = "no"
    BY <1>6, <1>3, <1>4
  <2>. QED
    BY <1>1, <2>1 DEF Lost
<1>10. s \in KeyOut /\ x \in Blanks \cup {"("} => Read(s, x, skip) \in TakenOut
  <2>. SUFFICES ASSUME s \in KeyOut, x \in Blanks \cup {"("} PROVE Read(s, x, skip) \in TakenOut
    OBVIOUS
  <2>1. Read(s, x, skip).mode = "yes" /\ Read(s, x, skip).inside = FALSE
    BY <1>6, <1>3, <1>4, <1>7
  <2>. QED
    BY <1>1, <2>1 DEF TakenOut
<1>11. s \in KeyIn /\ x = "*/" => Read(s, x, skip) \in TakenOut
  <2>. SUFFICES ASSUME s \in KeyIn, x = "*/" PROVE Read(s, x, skip) \in TakenOut
    OBVIOUS
  <2>1. Read(s, x, skip).mode = "yes" /\ Read(s, x, skip).inside = FALSE
    BY <1>6, <1>3, <1>5, <1>8
  <2>. QED
    BY <1>1, <2>1 DEF TakenOut
<1>12. s \in KeyIn /\ x \in Blanks \cup {"("} => Read(s, x, skip) \in Taken
  BY <1>1, <1>3, <1>5, <1>7 DEF Taken
<1>. QED
  BY <1>2, <1>9, <1>10, <1>11, <1>12 DEF Taken, TakenOut

(* What each token does at the beginning of a version comment.             *)
LEMMA ReadOpened ==
  ASSUME NEW s \in Opened \cup OpenCode, NEW x \in Tokens, NEW skip \in BOOLEAN
  PROVE  /\ x \in Blanks => Read(s, x, skip) \in OpenCode
         /\ x = "digits" => Read(s, x, skip) \in OpenCode \cup Lost
         /\ x = "digits" /\ s \in Opened => Read(s, x, skip) \in OpenCode
         /\ x = "distinct" => Read(s, x, skip) \in KeyIn
         /\ x = "*/" => Read(s, x, skip) \in Clear
         /\ x \in {"wide", "word", "(", "other"} => Read(s, x, skip) \in Lost
<1>1. s \in Lexers /\ s.inside = TRUE /\ s.mode \in {"version", "code"}
      /\ (s.mode = "code" => s.prev \notin Wordy)
  BY DEF Opened, OpenCode
<1>2. Read(s, x, skip) \in Lexers
  BY <1>1, ReadTyped
<1>3. Read(s, x, skip) = IF s.mode = "version" /\ x = "digits" THEN Lexer("code", TRUE, "blank")
                         ELSE Code(s, x, skip)
  BY <1>1 DEF Read
<1>4. s \in Opened => s.mode = "version"
  BY DEF Opened
<1>5. CASE x = "digits"
  BY <1>1, <1>2, <1>3, <1>4, <1>5 DEF Code, Lexer, OpenCode, Lost, Wordy, Blanks
<1>6. CASE x # "digits"
  <2>1. Read(s, x, skip) = Code(s, x, skip)
    BY <1>3, <1>6
  <2>. QED
    BY <1>1, <1>2, <1>6, <2>1 DEF Code, Lexer, OpenCode, KeyIn, Clear, Lost, Wordy, Blanks
<1>. QED
  BY <1>5, <1>6

(* Only its end leads out of a version comment.                            *)
LEMMA ReadWithin ==
  ASSUME NEW s \in Within, NEW x \in Tokens \ {"*/"}, NEW skip \in BOOLEAN
  PROVE  Read(s, x, skip) \in Within
<1>1. s \in Lexers /\ s.inside = TRUE
  BY DEF Within
<1>2. Read(s, x, skip) \in Lexers
  BY <1>1, ReadTyped
<1>3. Code(s, x, skip).inside = TRUE
  BY <1>1 DEF Code, Lexer
<1>4. s.mode \in Modes
  BY <1>1 DEF Lexers
<1>5. Read(s, x, skip).inside = TRUE
  BY <1>1, <1>3, <1>4 DEF Read, Lexer, Modes
<1>. QED
  BY <1>2, <1>5 DEF Within

(* The lexer stands in code where the package goes on, or in a line        *)
(* comment that ends with the next token, or it has found what cannot be   *)
(* a DISTINCT, where lost allows for it.                                   *)
Follows(t, skipped, p, lost) ==
  LET s == Reading(t, skipped)[p]
  IN  s \in Clear \cup lost \/ (s \in Commented /\ (p = Len(t) \/ t[p + 1] = "newline"))

NoWide(t) == \A i \in DOMAIN t : t[i] # "wide"

(* One token, typed.                                                       *)
LEMMA ReadingOf ==
  ASSUME NEW t \in Seq(Tokens), NEW skipped, NEW i \in 1..Len(t)
  PROVE  /\ t[i] \in Tokens /\ (i \in skipped) \in BOOLEAN
         /\ Reading(t, skipped)[i - 1] \in Lexers
         /\ Reading(t, skipped)[i] = Read(Reading(t, skipped)[i - 1], t[i], i \in skipped)
<1>1. i - 1 \in 0..Len(t) /\ t[i] \in Tokens
  OBVIOUS
<1>2. (i \in skipped) \in BOOLEAN
  OBVIOUS
<1>. QED
  BY <1>1, <1>2, ReadingStep

(* White space is passed over.                                             *)
LEMMA SpacesKept ==
  ASSUME NEW lost \in {Lost, {}}, NEW s \in Clear \cup lost, NEW x \in Spaces, NEW skip \in BOOLEAN,
         lost = {} => x # "wide"
  PROVE  Read(s, x, skip) \in Clear \cup lost
<1>1. x \in Tokens
  BY DEF Tokens
<1>2. x \in Blanks \/ x = "wide"
  BY DEF Spaces
<1>3. CASE s \in Clear
  BY <1>1, <1>2, <1>3, ReadClear
<1>4. CASE s \in Lost /\ lost = Lost
  BY <1>1, <1>4, ReadLost
<1>. QED
  BY <1>3, <1>4

(* All the white space in front of a sign.                                 *)
LEMMA SpacesRead ==
  ASSUME NEW t \in Seq(Tokens), NEW skipped, NEW lost \in {Lost, {}},
         NEW p \in 0..Len(t), NEW q \in p..Len(t),
         \A i \in (p + 1)..q : t[i] \in Spaces,
         lost = {} => NoWide(t),
         Follows(t, skipped, p, lost)
  PROVE  Follows(t, skipped, q, lost)
<1>. DEFINE R == Reading(t, skipped)
            K == Clear \cup lost
<1>0. Len(t) \in Nat /\ p \in Nat /\ q \in Nat /\ p <= q /\ q <= Len(t)
  OBVIOUS
<1>1. ASSUME NEW a \in p..q, R[a] \in K PROVE R[q] \in K
  <2>1. \A i \in (a + 1)..q : i \in (p + 1)..q /\ i \in DOMAIN t
    <3>1. DOMAIN t = 1..Len(t)
      OBVIOUS
    <3>. QED
      BY <1>0, <3>1
  <2>2. \A i \in (a + 1)..q : \A s \in K \cap Lexers, skip \in BOOLEAN : Read(s, t[i], skip) \in K
    <3>. TAKE i \in (a + 1)..q
    <3>1. t[i] \in Spaces /\ (lost = {} => t[i] # "wide")
      BY <2>1 DEF NoWide
    <3>. QED
      BY <3>1, SpacesKept
  <2>3. a \in 0..Len(t) /\ q \in a..Len(t) /\ q \in a..q
    BY <1>0
  <2>. HIDE DEF K
  <2>4. \A i \in a..q : R[i] \in K
    BY <1>1, <2>2, <2>3, Segment
  <2>. QED
    BY <2>3, <2>4
<1>2. CASE R[p] \in K
  <2>1. R[q] \in K
    BY <1>0, <1>1, <1>2
  <2>. QED
    BY <2>1 DEF Follows
<1>3. CASE R[p] \notin K
  <2>1. R[p] \in Commented /\ (p = Len(t) \/ t[p + 1] = "newline")
    BY <1>3 DEF Follows
  <2>2. CASE p = q
    BY <2>2 DEF Follows
  <2>3. CASE p # q
    <3>1. p + 1 \in p..q /\ p + 1 \in 1..Len(t) /\ p # Len(t) /\ (p + 1) - 1 = p
      BY <1>0, <2>3
    <3>2. R[p + 1] = Read(R[p], t[p + 1], p + 1 \in skipped) /\ t[p + 1] \in Tokens
          /\ (p + 1 \in skipped) \in BOOLEAN /\ R[p] \in Lexers
      BY <3>1, ReadingOf
    <3>3. Read(R[p], t[p + 1], p + 1 \in skipped) \in Clear
      BY <2>1, <3>1, <3>2, ReadComments
    <3>4. R[q] \in K
      BY <1>1, <3>1, <3>2, <3>3
    <3>. QED
      BY <3>4 DEF Follows
  <2>. QED
    BY <2>2, <2>3
<1>. QED
  BY <1>2, <1>3

(* In front of a sign the lexer stands in code.                            *)
LEMMA AtSign ==
  ASSUME NEW t \in Seq(Tokens), NEW skipped, NEW lost, NEW q \in 0..Len(t),
         Follows(t, skipped, q, lost), q < Len(t), t[q + 1] \notin Spaces
  PROVE  Reading(t, skipped)[q] \in Clear \cup lost
<1>1. QED
  BY DEF Follows, Spaces, Blanks

(* A comment, or a version comment that is skipped, ends at its first end. *)
LEMMA CommentBegun ==
  ASSUME NEW t \in Seq(Tokens), NEW skipped, NEW lost \in {Lost, {}},
         NEW q \in 0..Len(t), q < Len(t),
         Reading(t, skipped)[q] \in Clear \cup lost,
         t[q + 1] = "/*" \/ (t[q + 1] = "/*!" /\ q + 1 \in skipped),
         NEW b \in (q + 1)..Len(t),
         \A i \in (q + 2)..b : t[i] # "*/"
  PROVE  Reading(t, skipped)[b] \in Blocked \cup lost
<1>. DEFINE R == Reading(t, skipped)
            K == Blocked \cup lost
<1>0. Len(t) \in Nat /\ q \in Nat /\ b \in Nat /\ q + 1 \in 1..Len(t) /\ (q + 1) - 1 = q
      /\ q + 1 \in 0..Len(t) /\ (q + 1) + 1 = q + 2 /\ b \in (q + 1)..b
  OBVIOUS
<1>1. R[q + 1] = Read(R[q], t[q + 1], q + 1 \in skipped) /\ t[q + 1] \in Tokens
      /\ (q + 1 \in skipped) \in BOOLEAN
  BY <1>0, ReadingOf
<1>2. R[q + 1] \in K
  <2>1. CASE R[q] \in Clear
    BY <1>1, <2>1, ReadClear
  <2>2. CASE R[q] \in Lost /\ lost = Lost
    BY <1>1, <2>2, ReadLost
  <2>. QED
    BY <2>1, <2>2
<1>3. \A i \in (q + 2)..b : \A s \in K \cap Lexers, skip \in BOOLEAN : Read(s, t[i], skip) \in K
  <2>. TAKE i \in (q + 2)..b
  <2>. TAKE s \in K \cap Lexers, skip \in BOOLEAN
  <2>1. i \in 1..Len(t)
    BY <1>0
  <2>2. t[i] \in Tokens /\ t[i] # "*/"
    BY <2>1
  <2>3. CASE s \in Blocked
    BY <2>2, <2>3, ReadComments
  <2>4. CASE s \in Lost /\ lost = Lost
    BY <2>2, <2>4, ReadLost
  <2>. QED
    BY <2>3, <2>4
<1>. HIDE DEF K
<1>4. \A i \in (q + 1)..b : R[i] \in K
  BY <1>0, <1>2, <1>3, Segment
<1>. QED
  BY <1>0, <1>4 DEF K

(* Behind its end MySQL reads code again, as the package does.             *)
LEMMA CommentEnded ==
  ASSUME NEW t \in Seq(Tokens), NEW skipped, NEW lost \in {Lost, {}},
         NEW q \in 0..Len(t), q < Len(t),
         Reading(t, skipped)[q] \in Clear \cup lost,
         t[q + 1] = "/*" \/ (t[q + 1] = "/*!" /\ q + 1 \in skipped),
         NEW r \in (q + 2)..Len(t), t[r] = "*/",
         \A i \in (q + 2)..(r - 1) : t[i] # "*/"
  PROVE  Follows(t, skipped, r, lost)
<1>. DEFINE R == Reading(t, skipped)
<1>0. r - 1 \in (q + 1)..Len(t) /\ r \in 1..Len(t)
  OBVIOUS
<1>1. R[r - 1] \in Blocked \cup lost
  BY <1>0, CommentBegun
<1>2. R[r] = Read(R[r - 1], t[r], r \in skipped) /\ t[r] \in Tokens
      /\ (r \in skipped) \in BOOLEAN /\ R[r - 1] \in Lexers
  BY <1>0, ReadingOf
<1>3. CASE R[r - 1] \in Blocked
  <2>1. R[r] \in Clear
    BY <1>2, <1>3, ReadComments
  <2>. QED
    BY <2>1 DEF Follows
<1>4. CASE R[r - 1] \in Lost /\ lost = Lost
  <2>1. R[r] \in Lost
    BY <1>2, <1>4, ReadLost
  <2>. QED
    BY <1>4, <2>1 DEF Follows
<1>. QED
  BY <1>1, <1>3, <1>4

(* A line comment goes on to the end of its line.                          *)
LEMMA LineBegun ==
  ASSUME NEW t \in Seq(Tokens), NEW skipped, NEW lost \in {Lost, {}},
         NEW q \in 0..Len(t), q < Len(t),
         Reading(t, skipped)[q] \in Clear \cup lost,
         t[q + 1] \in {"--", "#"},
         lost = {} /\ t[q + 1] = "--" => q + 1 < Len(t) /\ t[q + 2] \in Blanks,
         NEW b \in (q + 1)..Len(t),
         \A i \in (q + 2)..b : t[i] \notin {"cr", "newline"}
  PROVE  Reading(t, skipped)[b] \in Dashed \cup Commented \cup lost
<1>. DEFINE R == Reading(t, skipped)
            K == Commented \cup lost
<1>0. Len(t) \in Nat /\ q \in Nat /\ b \in Nat /\ q + 1 \in 1..Len(t) /\ (q + 1) - 1 = q
      /\ q + 1 \in 0..Len(t) /\ (q + 1) + 1 = q + 2 /\ b \in (q + 1)..b /\ (q + 2) - 1 = q + 1
  OBVIOUS
<1>1. R[q + 1] = Read(R[q], t[q + 1], q + 1 \in skipped) /\ t[q + 1] \in Tokens
      /\ (q + 1 \in skipped) \in BOOLEAN
  BY <1>0, ReadingOf
<1>2. R[q + 1] \in K \/ (R[q + 1] \in Dashed /\ t[q + 1] = "--")
  <2>1. CASE R[q] \in Clear
    BY <1>1, <2>1, ReadClear
  <2>2. CASE R[q] \in Lost /\ lost = Lost
    BY <1>1, <2>2, ReadLost
  <2>. QED
    BY <2>1, <2>2
<1>3. \A i \in (q + 2)..b : \A s \in K \cap Lexers, skip \in BOOLEAN : Read(s, t[i], skip) \in K
  <2>. TAKE i \in (q + 2)..b
  <2>. TAKE s \in K \cap Lexers, skip \in BOOLEAN
  <2>1. i \in 1..Len(t)
    BY <1>0
  <2>2. t[i] \in Tokens /\ t[i] # "newline"
    BY <2>1
  <2>3. CASE s \in Commented
    BY <2>2, <2>3, ReadComments
  <2>4. CASE s \in Lost /\ lost = Lost
    BY <2>2, <2>4, ReadLost
  <2>. QED
    BY <2>3, <2>4
<1>4. CASE R[q + 1] \in K
  <2>. HIDE DEF K
  <2>1. \A i \in (q + 1)..b : R[i] \in K
    BY <1>0, <1>3, <1>4, Segment
  <2>. QED
    BY <1>0, <2>1 DEF K
<1>5. CASE R[q + 1] \in Dashed /\ t[q + 1] = "--" /\ b = q + 1
  BY <1>5
<1>6. CASE R[q + 1] \in Dashed /\ t[q + 1] = "--" /\ b # q + 1
  <2>1. q + 2 \in 1..Len(t) /\ q + 2 \in 0..Len(t) /\ b \in (q + 2)..Len(t) /\ b \in (q + 2)..b
        /\ q + 2 \in (q + 2)..b
    BY <1>0, <1>6
  <2>2. R[q + 2] = Read(R[q + 1], t[q + 2], q + 2 \in skipped) /\ t[q + 2] \in Tokens
        /\ (q + 2 \in skipped) \in BOOLEAN /\ R[q + 1] \in Lexers
    BY <1>0, <2>1, ReadingOf
  <2>3. R[q + 2] \in K
    <3>1. t[q + 2] # "newline"
      BY <2>1
    <3>2. R[q + 2] \in (IF t[q + 2] \in Blanks THEN Commented ELSE Lost)
      BY <1>6, <2>2, <3>1, ReadComments
    <3>. QED
      BY <1>6, <3>2
  <2>4. \A i \in ((q + 2) + 1)..b : i \in (q + 2)..b
    BY <1>0
  <2>. HIDE DEF K
  <2>5. \A i \in (q + 2)..b : R[i] \in K
    BY <1>3, <2>1, <2>3, <2>4, Segment
  <2>. QED
    BY <2>1, <2>5 DEF K
<1>. QED
  BY <1>2, <1>4, <1>5, <1>6

(* Behind its end too, or at the newline that follows.                     *)
LEMMA LineEnded ==
  ASSUME NEW t \in Seq(Tokens), NEW skipped, NEW lost \in {Lost, {}}, ~ReturnInComment(t),
         NEW q \in 0..Len(t), q < Len(t),
         Reading(t, skipped)[q] \in Clear \cup lost,
         t[q + 1] \in {"--", "#"},
         lost = {} /\ t[q + 1] = "--" => q + 1 < Len(t) /\ t[q + 2] \in Blanks,
         NEW r \in (q + 2)..Len(t), t[r] \in {"cr", "newline"},
         \A i \in (q + 2)..(r - 1) : t[i] \notin {"cr", "newline"}
  PROVE  Follows(t, skipped, r, lost)
<1>. DEFINE R == Reading(t, skipped)
<1>0. r - 1 \in (q + 1)..Len(t) /\ r \in 1..Len(t) /\ q \in Nat /\ r \in Nat /\ Len(t) \in Nat
  OBVIOUS
<1>7. r \in DOMAIN t /\ q + 1 \in 1..(r - 1) /\ r <= Len(t)
  OBVIOUS
<1>1. R[r - 1] \in Dashed \cup Commented \cup lost
  BY <1>0, LineBegun
<1>2. R[r] = Read(R[r - 1], t[r], r \in skipped) /\ t[r] \in Tokens
      /\ (r \in skipped) \in BOOLEAN /\ R[r - 1] \in Lexers
  BY <1>0, ReadingOf
<1>3. CASE R[r - 1] \in Lost /\ lost = Lost
  <2>1. R[r] \in Lost
    BY <1>2, <1>3, ReadLost
  <2>. QED
    BY <1>3, <2>1 DEF Follows
<1>4. CASE R[r - 1] \in Dashed \cup Commented /\ t[r] = "newline"
  <2>1. R[r] \in Clear
    BY <1>2, <1>4, ReadComments
  <2>. QED
    BY <2>1 DEF Follows
<1>5. CASE R[r - 1] \in Dashed \cup Commented /\ t[r] = "cr"
  <2>1. t[r] \in Blanks
    BY <1>5 DEF Blanks
  <2>2. R[r] \in Commented
    BY <1>2, <1>5, <2>1, ReadComments
  <2>3. ASSUME r # Len(t), t[r + 1] # "newline" PROVE FALSE
    <3>1. r < Len(t)
      BY <1>0, <1>7, <2>3
    <3>2. \A k \in (q + 1)..r : t[k] # "newline"
      <4>. TAKE k \in (q + 1)..r
      <4>1. k = q + 1 \/ k = r \/ k \in (q + 2)..(r - 1)
        BY <1>0
      <4>. QED
        BY <1>5, <4>1
    <3>3. "newline" \notin {t[k] : k \in (q + 1)..r}
      BY <3>2
    <3>. QED
      BY <1>5, <1>7, <2>3, <3>1, <3>3 DEF ReturnInComment
  <2>. QED
    BY <2>2, <2>3 DEF Follows
<1>. QED
  BY <1>1, <1>3, <1>4, <1>5

(* What a version comment at q + 1 holds up to its end at q + e: m tells   *)
(* where its white space and digits end.                                   *)
VersionBody(t, q, r, m) ==
  /\ m \in (q + 1)..(r - 1)
  /\ \A i \in (q + 2)..m : t[i] \in Spaces \cup {"digits"}
  /\ m < r - 1 => t[m + 1] \notin Spaces \cup {"digits"}

KeywordAt(t, m, last) ==
  m < last /\ t[m + 1] = "distinct" /\ (m + 1 = last \/ t[m + 2] \in Spaces \cup {"("})

(* The body of a version comment, counted in the whole text.               *)
LEMMA BodyRead ==
  ASSUME NEW t \in Seq(Tokens), NEW q \in 0..Len(t), q < Len(t), NEW e \in 2..(Len(t) - q)
  PROVE  \E m : /\ VersionBody(t, q, q + e, m)
                /\ hasDistinctKeyword(bodyOf(After(t, q), e)) <=> KeywordAt(t, m, q + e - 1)
<1>. DEFINE s == After(t, q)
            u == SubSeq(s, 2, e - 1)
            set == Spaces \cup {"digits"}
<1>0. Len(t) \in Nat /\ q \in Nat /\ e \in Nat /\ e >= 2 /\ e <= Len(t) - q
  OBVIOUS
<1>1. s \in Seq(Tokens) /\ Len(s) = Len(t) - q /\ \A i \in 1..(Len(t) - q) : s[i] = t[q + i]
  BY AfterFacts
<1>. HIDE DEF s
<1>2. u \in Seq(Tokens) /\ Len(u) = e - 2 /\ \A i \in 1..(e - 2) : u[i] = s[i + 1]
  BY <1>0, <1>1
<1>. HIDE DEF u
<1>3. \A i \in 1..(e - 2) : u[i] = t[q + 1 + i]
  <2>. TAKE i \in 1..(e - 2)
  <2>1. i + 1 \in 1..(Len(t) - q) /\ q + (i + 1) = q + 1 + i
    BY <1>0
  <2>. QED
    BY <1>1, <1>2, <2>1
<1>4. PICK k \in 0..Len(u) : /\ TrimLeft(u, set) = After(u, k)
                             /\ \A i \in 1..k : u[i] \in set
                             /\ k < Len(u) => u[k + 1] \notin set
  BY <1>2, Trimmed
<1>5. k \in Nat /\ k <= e - 2
  BY <1>0, <1>2
<1>. DEFINE m == q + 1 + k
            body == After(u, k)
<1>6. VersionBody(t, q, q + e, m)
  <2>1. m \in (q + 1)..(q + e - 1)
    BY <1>0, <1>5
  <2>2. \A i \in (q + 2)..m : t[i] \in set
    <3>. TAKE i \in (q + 2)..m
    <3>1. i - (q + 1) \in 1..k /\ i - (q + 1) \in 1..(e - 2) /\ q + 1 + (i - (q + 1)) = i
      BY <1>0, <1>5
    <3>. QED
      BY <1>3, <1>4, <3>1
  <2>3. m < q + e - 1 => t[m + 1] \notin set
    <3>. SUFFICES ASSUME m < q + e - 1 PROVE t[m + 1] \notin set
      OBVIOUS
    <3>1. k < Len(u) /\ k + 1 \in 1..(e - 2) /\ q + 1 + (k + 1) = m + 1
      BY <1>0, <1>2, <1>5
    <3>. QED
      BY <1>3, <1>4, <3>1
  <2>. QED
    BY <2>1, <2>2, <2>3 DEF VersionBody
<1>7. bodyOf(s, e) = body
  BY <1>4 DEF bodyOf, u
<1>8. body \in Seq(Tokens) /\ Len(body) = e - 2 - k /\ \A i \in 1..(e - 2 - k) : body[i] = u[k + i]
  <2>1. body \in Seq(Tokens) /\ Len(body) = Len(u) - k /\ \A i \in 1..(Len(u) - k) : body[i] = u[k + i]
    BY <1>2, AfterFacts
  <2>. HIDE DEF body
  <2>. QED
    BY <1>2, <2>1
<1>. HIDE DEF body
<1>9. hasDistinctKeyword(body) <=> KeywordAt(t, m, q + e - 1)
  <2>1. CASE k = e - 2
    <3>1. body = << >>
      BY <1>0, <1>8, <2>1, EmptySeq
    <3>2. ~(m < q + e - 1)
      BY <1>0, <2>1
    <3>. QED
      BY <3>1, <3>2 DEF hasDistinctKeyword, KeywordAt
  <2>2. CASE k # e - 2
    <3>1. /\ m < q + e - 1 /\ 1 \in 1..(e - 2 - k) /\ k + 1 \in 1..(e - 2)
          /\ q + 1 + (k + 1) = m + 1 /\ Len(body) # 0
      BY <1>0, <1>5, <1>8, <2>2
    <3>2. body # << >> /\ body[1] = t[m + 1]
      BY <1>3, <1>8, <3>1
    <3>3. Len(body) = 1 <=> m + 1 = q + e - 1
      <4>1. Len(body) = e - 2 - k
        BY <1>8
      <4>. HIDE DEF u
      <4>. QED
        BY <1>0, <1>5, <4>1
    <3>4. ASSUME Len(body) # 1 PROVE body[2] = t[m + 2]
      <4>1. 2 \in 1..(e - 2 - k) /\ k + 2 \in 1..(e - 2) /\ q + 1 + (k + 2) = m + 2
        BY <1>0, <1>5, <1>8, <2>2, <3>4
      <4>. QED
        BY <1>3, <1>8, <4>1
    <3>. HIDE DEF m
    <3>. QED
      BY <3>1, <3>2, <3>3, <3>4 DEF hasDistinctKeyword, KeywordAt
  <2>. QED
    BY <2>1, <2>2
<1>. QED
  BY <1>6, <1>7, <1>9 DEF s

(* The keyword in front of what is left.                                   *)
LEMMA KeywordRead ==
  ASSUME NEW t \in Seq(Tokens), NEW q \in 0..Len(t)
  PROVE  hasDistinctKeyword(After(t, q)) <=> KeywordAt(t, q, Len(t))
<1>. DEFINE s == After(t, q)
<1>0. Len(t) \in Nat /\ q \in Nat /\ q <= Len(t)
  OBVIOUS
<1>1. s \in Seq(Tokens) /\ Len(s) = Len(t) - q /\ \A i \in 1..(Len(t) - q) : s[i] = t[q + i]
  BY AfterFacts
<1>. HIDE DEF s
<1>2. CASE q = Len(t)
  <2>1. s = << >>
    BY <1>0, <1>1, <1>2, EmptySeq
  <2>. QED
    BY <1>0, <1>2, <2>1 DEF hasDistinctKeyword, KeywordAt, s
<1>3. CASE q # Len(t)
  <2>1. q < Len(t) /\ 1 \in 1..(Len(t) - q) /\ Len(s) # 0
    BY <1>0, <1>1, <1>3
  <2>2. s # << >> /\ s[1] = t[q + 1]
    BY <1>1, <2>1
  <2>3. Len(s) = 1 <=> q + 1 = Len(t)
    BY <1>0, <1>1
  <2>4. ASSUME Len(s) # 1 PROVE s[2] = t[q + 2]
    <3>1. 2 \in 1..(Len(t) - q)
      BY <1>0, <1>1, <1>3, <2>4
    <3>. QED
      BY <1>1, <3>1
  <2>. QED
    BY <2>1, <2>2, <2>3, <2>4 DEF hasDistinctKeyword, KeywordAt, s
<1>. QED
  BY <1>2, <1>3

-----------------------------------------------------------------------------
(* Behind the begin of a version comment and before its end.               *)
LEMMA InsideFrom ==
  ASSUME NEW t \in Seq(Tokens), NEW q \in 0..Len(t), q < Len(t), t[q + 1] = "/*!",
         NEW b \in (q + 1)..Len(t), \A i \in (q + 2)..b : t[i] # "*/"
  PROVE  Inside(t, b)
<1>1. q + 1 \in 1..b
  OBVIOUS
<1>2. \A k \in (q + 1)..b : t[k] # "*/"
  <2>. TAKE k \in (q + 1)..b
  <2>1. k = q + 1 \/ k \in (q + 2)..b
    OBVIOUS
  <2>. QED
    BY <2>1
<1>3. "*/" \notin {t[k] : k \in (q + 1)..b}
  BY <1>2
<1>. QED
  BY <1>1, <1>3 DEF Inside

(* A version comment without an end.                                       *)
LEMMA VersionUnended ==
  ASSUME NEW t \in Seq(Tokens), NEW skipped, NEW q \in 0..Len(t), q < Len(t),
         Reading(t, skipped)[q] \in Clear \cup Lost, t[q + 1] = "/*!",
         \A i \in (q + 2)..Len(t) : t[i] # "*/"
  PROVE  Reading(t, skipped)[Len(t)] \in Blocked \cup Within \cup Lost
<1>. DEFINE R == Reading(t, skipped)
            K == Within \cup Lost
<1>0. Len(t) \in Nat /\ q \in Nat /\ q + 1 \in 1..Len(t) /\ (q + 1) - 1 = q /\ Len(t) \in (q + 1)..Len(t)
      /\ q + 1 \in 0..Len(t) /\ (q + 1) + 1 = q + 2
  OBVIOUS
<1>1. CASE q + 1 \in skipped
  <2>1. Lost \in {Lost, {}}
    OBVIOUS
  <2>. QED
    BY <1>0, <1>1, <2>1, CommentBegun
<1>2. CASE q + 1 \notin skipped
  <2>1. R[q + 1] = Read(R[q], t[q + 1], q + 1 \in skipped) /\ t[q + 1] \in Tokens
        /\ (q + 1 \in skipped) \in BOOLEAN
    BY <1>0, ReadingOf
  <2>2. R[q + 1] \in K
    <3>1. CASE R[q] \in Clear
      <4>1. R[q + 1] \in Opened
        BY <1>2, <2>1, <3>1, ReadClear
      <4>. QED
        BY <4>1 DEF Opened, Within
    <3>2. CASE R[q] \in Lost
      BY <2>1, <3>2, ReadLost
    <3>. QED
      BY <3>1, <3>2
  <2>3. \A i \in (q + 2)..Len(t) : \A s \in K \cap Lexers, skip \in BOOLEAN : Read(s, t[i], skip) \in K
    <3>. TAKE i \in (q + 2)..Len(t)
    <3>. TAKE s \in K \cap Lexers, skip \in BOOLEAN
    <3>1. t[i] \in Tokens \ {"*/"}
      <4>1. i \in 1..Len(t)
        BY <1>0
      <4>. QED
        BY <4>1
    <3>2. CASE s \in Within
      BY <3>1, <3>2, ReadWithin
    <3>3. CASE s \in Lost
      BY <3>1, <3>3, ReadLost
    <3>. QED
      BY <3>2, <3>3
  <2>. HIDE DEF K
  <2>4. \A i \in (q + 1)..Len(t) : R[i] \in K
    BY <1>0, <2>2, <2>3, Segment
  <2>. QED
    BY <1>0, <2>4 DEF K
<1>. QED
  BY <1>1, <1>2

(* The blanks and the version in a version comment.                        *)
LEMMA VersionBegun ==
  ASSUME NEW t \in Seq(Tokens), NEW skipped, NEW lost \in {Lost, {}}, NEW q \in 0..Len(t), q < Len(t),
         Reading(t, skipped)[q] \in Clear \cup lost, t[q + 1] = "/*!", q + 1 \notin skipped,
         NEW m \in (q + 1)..Len(t),
         \A i \in (q + 2)..m : t[i] \in Spaces \cup {"digits"},
         lost = {} => NoWide(t) /\ \A i \in (q + 3)..m : t[i] # "digits"
  PROVE  Reading(t, skipped)[m] \in Opened \cup OpenCode \cup lost
<1>. DEFINE R == Reading(t, skipped)
            K == OpenCode \cup lost
<1>0. Len(t) \in Nat /\ q \in Nat /\ m \in Nat /\ q + 1 \in 1..Len(t) /\ (q + 1) - 1 = q
      /\ (q + 2) - 1 = q + 1
  OBVIOUS
<1>9. \A i \in (q + 2)..m : i \in 1..Len(t) /\ i \in DOMAIN t
  OBVIOUS
<1>1. R[q + 1] = Read(R[q], t[q + 1], q + 1 \in skipped) /\ t[q + 1] \in Tokens
      /\ (q + 1 \in skipped) \in BOOLEAN
  BY <1>0, ReadingOf
<1>2. R[q + 1] \in Opened \cup lost
  <2>1. CASE R[q] \in Clear
    BY <1>1, <2>1, ReadClear
  <2>2. CASE R[q] \in Lost /\ lost = Lost
    BY <1>1, <2>2, ReadLost
  <2>. QED
    BY <2>1, <2>2
<1>3. CASE m = q + 1
  BY <1>2, <1>3
<1>4. CASE m # q + 1
  <2>1. q + 2 \in (q + 2)..m /\ q + 2 \in 0..Len(t) /\ m \in (q + 2)..Len(t) /\ m \in (q + 2)..m
    BY <1>0, <1>4
  <2>2. ASSUME NEW i \in (q + 2)..m
        PROVE  /\ t[i] \in Tokens /\ t[i] \in Blanks \cup {"wide", "digits"}
               /\ lost = {} => t[i] # "wide"
    BY <1>9, <2>2 DEF NoWide, Spaces
  <2>3. R[q + 2] = Read(R[q + 1], t[q + 2], q + 2 \in skipped) /\ (q + 2 \in skipped) \in BOOLEAN
        /\ R[q + 1] \in Lexers
    <3>1. q + 2 \in 1..Len(t)
      BY <1>9, <2>1
    <3>. QED
      BY <1>0, <3>1, ReadingOf
  <2>7. t[q + 2] \in Tokens /\ t[q + 2] \in Blanks \cup {"wide", "digits"} /\ (lost = {} => t[q + 2] # "wide")
    BY <2>1, <2>2
  <2>4. R[q + 2] \in K
    <3>1. CASE R[q + 1] \in Opened
      <4>0. R[q + 1] \in Opened \cup OpenCode
        BY <3>1
      <4>3. \A skip \in BOOLEAN :
              /\ t[q + 2] \in Blanks \cup {"digits"} => Read(R[q + 1], t[q + 2], skip) \in OpenCode
              /\ t[q + 2] = "wide" => Read(R[q + 1], t[q + 2], skip) \in Lost
        BY <2>7, <3>1, <4>0, ReadOpened
      <4>1. t[q + 2] \in Blanks \cup {"digits"} => R[q + 2] \in OpenCode
        BY <2>3, <4>3
      <4>2. t[q + 2] = "wide" => lost = Lost /\ R[q + 2] \in Lost
        BY <2>3, <2>7, <4>3
      <4>. QED
        BY <2>7, <4>1, <4>2
    <3>2. CASE R[q + 1] \in Lost /\ lost = Lost
      BY <2>3, <2>7, <3>2, ReadLost
    <3>. QED
      BY <1>2, <3>1, <3>2
  <2>5. \A i \in ((q + 2) + 1)..m : \A s \in K \cap Lexers, skip \in BOOLEAN : Read(s, t[i], skip) \in K
    <3>. TAKE i \in ((q + 2) + 1)..m
    <3>. TAKE s \in K \cap Lexers, skip \in BOOLEAN
    <3>1. i \in (q + 2)..m /\ i \in (q + 3)..m
      BY <1>0
    <3>2. /\ t[i] \in Tokens /\ t[i] \in Blanks \cup {"wide", "digits"}
          /\ lost = {} => t[i] \in Blanks
      BY <2>2, <3>1
    <3>3. CASE s \in OpenCode
      BY <3>2, <3>3, ReadOpened
    <3>4. CASE s \in Lost /\ lost = Lost
      BY <3>2, <3>4, ReadLost
    <3>. QED
      BY <3>3, <3>4
  <2>. HIDE DEF K
  <2>6. \A i \in (q + 2)..m : R[i] \in K
    BY <2>1, <2>4, <2>5, Segment
  <2>. QED
    BY <2>1, <2>6 DEF K
<1>. QED
  BY <1>3, <1>4

(* A plain version comment without the keyword.                            *)
LEMMA VersionEnded ==
  ASSUME NEW t \in Seq(Tokens), Plain(t), NEW skipped, NEW q \in 0..Len(t), q < Len(t),
         Reading(t, skipped)[q] \in Clear \cup Lost, t[q + 1] = "/*!",
         NEW r \in (q + 2)..Len(t), t[r] = "*/", \A i \in (q + 2)..(r - 1) : t[i] # "*/",
         NEW m, VersionBody(t, q, r, m), ~KeywordAt(t, m, r - 1)
  PROVE  Follows(t, skipped, r, Lost)
<1>. DEFINE R == Reading(t, skipped)
            K == Lost
<1>0. Len(t) \in Nat /\ q \in Nat /\ r \in Nat /\ r <= Len(t) /\ r \in 1..Len(t)
  OBVIOUS
<1>1. CASE q + 1 \in skipped
  <2>1. Lost \in {Lost, {}}
    OBVIOUS
  <2>. QED
    BY <1>1, <2>1, CommentEnded
<1>2. CASE q + 1 \notin skipped
  <2>1. m \in (q + 1)..(r - 1) /\ m \in Nat /\ m \in (q + 1)..Len(t) /\ m + 1 <= r
        /\ m + 1 \in 1..Len(t) /\ m + 1 \in DOMAIN t /\ (m + 1) - 1 = m
    <3>1. m \in (q + 1)..(r - 1)
      BY DEF VersionBody
    <3>2. m + 1 \in 1..Len(t)
      BY <1>0, <3>1
    <3>. QED
      BY <1>0, <3>1, <3>2
  <2>2. R[m] \in Opened \cup OpenCode \cup Lost
    <3>1. Lost \in {Lost, {}} /\ Lost # {}
      <4>1. "no" \in Modes /\ "blank" \in Tokens
        BY DEF Modes, Tokens, Spaces, Blanks
      <4>2. Lexer("no", FALSE, "blank") \in Lexers
        BY <4>1, LexerTyped
      <4>3. Lexer("no", FALSE, "blank").mode = "no"
        BY DEF Lexer
      <4>. QED
        BY <4>2, <4>3 DEF Lost
    <3>2. \A i \in (q + 2)..m : t[i] \in Spaces \cup {"digits"}
      BY DEF VersionBody
    <3>. QED
      BY <1>2, <2>1, <3>1, <3>2, VersionBegun
  <2>3. R[m + 1] = Read(R[m], t[m + 1], m + 1 \in skipped) /\ t[m + 1] \in Tokens
        /\ (m + 1 \in skipped) \in BOOLEAN /\ R[m] \in Lexers
    BY <2>1, ReadingOf
  <2>4. CASE m = r - 1
    <3>3. m + 1 = r
      BY <1>0, <2>4
    <3>1. CASE R[m] \in Lost
      <4>1. R[r] \in Lost
        BY <2>3, <3>3, <3>1, ReadLost
      <4>. QED
        BY <4>1 DEF Follows
    <3>2. CASE R[m] \in Opened \cup OpenCode
      <4>1. R[r] \in Clear
        BY <2>3, <3>3, <3>2, ReadOpened
      <4>. QED
        BY <4>1 DEF Follows
    <3>. QED
      BY <2>2, <3>1, <3>2
  <2>5. CASE m # r - 1
    <3>1. m < r - 1 /\ m + 1 \in (q + 2)..(r - 1) /\ m + 2 \in 1..Len(t) /\ (m + 2) - 1 = m + 1
          /\ m + 1 < Len(t) /\ m + 2 <= r
      BY <1>0, <2>1, <2>5
    <3>2. Inside(t, m)
      <4>1. \A i \in (q + 2)..m : t[i] # "*/"
        <5>1. \A i \in (q + 2)..m : i \in (q + 2)..(r - 1)
          BY <1>0, <2>1
        <5>. QED
          BY <5>1
      <4>. QED
        BY <2>1, <4>1, InsideFrom
    <3>3. t[m + 1] \notin {"/*", "/*!", "--", "#", "modifier", "*/"}
      BY <2>1, <3>1, <3>2 DEF Plain
    <3>4. t[m + 1] \notin Spaces \cup {"digits"}
      BY <3>1 DEF VersionBody
    <3>5. t[m + 1] \in {"distinct", "word", "(", "other"}
      BY <2>3, <3>3, <3>4 DEF Tokens, Wordy, Spaces
    <3>6. t[m + 1] # "distinct"
      <4>. SUFFICES ASSUME t[m + 1] = "distinct" PROVE FALSE
        OBVIOUS
      <4>1. m + 1 # r - 1 /\ t[m + 2] \notin Spaces \cup {"("}
        BY <3>1 DEF KeywordAt
      <4>2. (m + 1) + 1 = m + 2 /\ m + 2 \in (q + 2)..(r - 1)
        BY <1>0, <2>1, <3>1, <4>1
      <4>3. t[m + 2] \in Blanks \cup {"(", "*/"}
        BY <2>1, <3>1, <4>2 DEF Plain
      <4>. QED
        BY <4>1, <4>2, <4>3 DEF Spaces
    <3>7. R[m + 1] \in Lost
      <4>1. CASE R[m] \in Lost
        BY <2>3, <4>1, ReadLost
      <4>2. CASE R[m] \in Opened \cup OpenCode
        BY <2>3, <3>5, <3>6, <4>2, ReadOpened
      <4>. QED
        BY <2>2, <4>1, <4>2
    <3>8. \A i \in ((m + 1) + 1)..r : \A s \in Lost \cap Lexers, skip \in BOOLEAN : Read(s, t[i], skip) \in Lost
      <4>. TAKE i \in ((m + 1) + 1)..r
      <4>1. i \in 1..Len(t)
        BY <1>0, <2>1
      <4>2. t[i] \in Tokens
        BY <4>1
      <4>. QED
        BY <4>2, ReadLost
    <3>9. m + 1 \in 0..Len(t) /\ r \in (m + 1)..Len(t) /\ r \in (m + 1)..r
      BY <1>0, <2>1
    <3>10. \A i \in (m + 1)..r : R[i] \in Lost
      BY <3>7, <3>8, <3>9, Segment
    <3>. QED
      BY <3>9, <3>10 DEF Follows
  <2>. QED
    BY <2>4, <2>5
<1>. QED
  BY <1>1, <1>2

(* Where the package goes on: for a plain text, whatever the server skips; *)
(* and for a text to which the package is not more lenient than MySQL, if  *)
(* the server skips the version comments so far.                           *)
Scanned(t, p) ==
  /\ Plain(t) => \A skipped \in SUBSET VersionComments(t) : Follows(t, skipped, p, Lost)
  /\ ~Lenient(t) => \A skipped \in SUBSET VersionComments(t) :
       VersionComments(t) \cap (1..p) \subseteq skipped => Follows(t, skipped, p, {})

(* There is a state in which the text cannot be a DISTINCT.                *)
LEMMA Losts == Lost # {}
<1>1. "no" \in Modes /\ "blank" \in Tokens
  BY DEF Modes, Tokens, Spaces, Blanks
<1>2. Lexer("no", FALSE, "blank") \in Lexers
  BY <1>1, LexerTyped
<1>3. Lexer("no", FALSE, "blank").mode = "no"
  BY DEF Lexer
<1>. QED
  BY <1>2, <1>3 DEF Lost

(* What the package and MySQL read alike.                                  *)
LEMMA StrictFacts ==
  ASSUME NEW t \in Seq(Tokens), ~Lenient(t)
  PROVE  /\ NoWide(t) /\ ~ReturnInComment(t)
         /\ \A i \in 1..Len(t) : t[i] = "--" => i < Len(t) /\ t[i + 1] \in Blanks
         /\ \A i \in 1..Len(t) : Inside(t, i) /\ t[i] = "digits" => t[i - 1] = "/*!"
<1>1. DOMAIN t = 1..Len(t) /\ Len(t) \in Nat
  OBVIOUS
<1>2. NoWide(t) /\ ~ReturnInComment(t)
  BY DEF Lenient, NoWide
<1>3. \A i \in 1..Len(t) : t[i] = "--" => i < Len(t) /\ t[i + 1] \in Blanks
  BY <1>1 DEF Lenient
<1>4. \A i \in 1..Len(t) : Inside(t, i) /\ t[i] = "digits" => t[i - 1] = "/*!"
  BY <1>1 DEF Lenient
<1>. QED
  BY <1>2, <1>3, <1>4

(* The states in which a text ends without being a DISTINCT.               *)
LEMMA NotSelected ==
  ASSUME NEW t \in Seq(Tokens), NEW skipped,
         Reading(t, skipped)[Len(t)] \in
           Clear \cup Lost \cup Commented \cup Dashed \cup Blocked \cup Within
  PROVE  ~Selects(t, skipped)
<1>1. QED
  BY DEF Selects, Clear, Lost, Commented, Dashed, Blocked, Within

(* The package goes on behind white space.                                 *)
LEMMA ScannedSpaces ==
  ASSUME NEW t \in Seq(Tokens), NEW p \in 0..Len(t), Scanned(t, p),
         NEW q \in p..Len(t), \A i \in (p + 1)..q : t[i] \in Spaces
  PROVE  q \in 0..Len(t) /\ Scanned(t, q)
<1>0. q \in 0..Len(t) /\ 1..p \subseteq 1..q
  OBVIOUS
<1>1. ASSUME Plain(t), NEW skipped \in SUBSET VersionComments(t)
      PROVE  Follows(t, skipped, q, Lost)
  <2>1. Follows(t, skipped, p, Lost) /\ Lost \in {Lost, {}}
    BY <1>1 DEF Scanned
  <2>. QED
    BY <2>1, Losts, SpacesRead
<1>2. ASSUME ~Lenient(t), NEW skipped \in SUBSET VersionComments(t),
             VersionComments(t) \cap (1..q) \subseteq skipped
      PROVE  Follows(t, skipped, q, {})
  <2>1. Follows(t, skipped, p, {}) /\ {} \in {Lost, {}}
    BY <1>0, <1>2 DEF Scanned
  <2>2. NoWide(t)
    BY <1>2, StrictFacts
  <2>. QED
    BY <2>1, <2>2, SpacesRead
<1>. QED
  BY <1>0, <1>1, <1>2 DEF Scanned

(* In front of a sign.                                                     *)
LEMMA ScannedSign ==
  ASSUME NEW t \in Seq(Tokens), NEW q \in 0..Len(t), Scanned(t, q), q < Len(t), t[q + 1] \notin Spaces
  PROVE  /\ Plain(t) => \A skipped \in SUBSET VersionComments(t) : Reading(t, skipped)[q] \in Clear \cup Lost
         /\ ~Lenient(t) => \A skipped \in SUBSET VersionComments(t) :
              VersionComments(t) \cap (1..q) \subseteq skipped => Reading(t, skipped)[q] \in Clear \cup {}
<1>1. \A skipped, lost : Follows(t, skipped, q, lost) => Reading(t, skipped)[q] \in Clear \cup lost
  BY AtSign
<1>2. ASSUME Plain(t), NEW skipped \in SUBSET VersionComments(t)
      PROVE  Reading(t, skipped)[q] \in Clear \cup Lost
  BY <1>1, <1>2 DEF Scanned
<1>3. ASSUME ~Lenient(t), NEW skipped \in SUBSET VersionComments(t),
             VersionComments(t) \cap (1..q) \subseteq skipped
      PROVE  Reading(t, skipped)[q] \in Clear \cup {}
  BY <1>1, <1>3 DEF Scanned
<1>. QED
  BY <1>2, <1>3

(* The package goes on behind a comment.                                   *)
LEMMA ScannedComment ==
  ASSUME NEW t \in Seq(Tokens), NEW q \in 0..Len(t), Scanned(t, q), q < Len(t), t[q + 1] = "/*",
         NEW r \in (q + 2)..Len(t), t[r] = "*/", \A i \in (q + 2)..(r - 1) : t[i] # "*/"
  PROVE  Scanned(t, r)
<1>0. 1..q \subseteq 1..r
  OBVIOUS
<1>9. t[q + 1] \notin Spaces
  BY DEF Spaces, Blanks
<1>1. ASSUME Plain(t), NEW skipped \in SUBSET VersionComments(t)
      PROVE  Follows(t, skipped, r, Lost)
  <2>1. Reading(t, skipped)[q] \in Clear \cup Lost /\ Lost \in {Lost, {}}
    BY <1>1, <1>9, ScannedSign
  <2>. QED
    BY <2>1, CommentEnded
<1>2. ASSUME ~Lenient(t), NEW skipped \in SUBSET VersionComments(t),
             VersionComments(t) \cap (1..r) \subseteq skipped
      PROVE  Follows(t, skipped, r, {})
  <2>1. Reading(t, skipped)[q] \in Clear \cup {} /\ {} \in {Lost, {}}
    BY <1>0, <1>2, <1>9, ScannedSign
  <2>. QED
    BY <2>1, CommentEnded
<1>. QED
  BY <1>1, <1>2 DEF Scanned

(* The package goes on behind a line comment.                              *)
LEMMA ScannedLine ==
  ASSUME NEW t \in Seq(Tokens), NEW q \in 0..Len(t), Scanned(t, q), q < Len(t), t[q + 1] \in {"--", "#"},
         NEW r \in (q + 2)..Len(t), t[r] \in {"cr", "newline"},
         \A i \in (q + 2)..(r - 1) : t[i] \notin {"cr", "newline"}
  PROVE  Scanned(t, r)
<1>0. 1..q \subseteq 1..r /\ q + 1 \in 1..Len(t) /\ (q + 1) + 1 = q + 2
  OBVIOUS
<1>9. t[q + 1] \notin Spaces
  BY DEF Spaces, Blanks
<1>1. ASSUME Plain(t), NEW skipped \in SUBSET VersionComments(t)
      PROVE  Follows(t, skipped, r, Lost)
  <2>1. Reading(t, skipped)[q] \in Clear \cup Lost /\ Lost \in {Lost, {}}
    BY <1>1, <1>9, ScannedSign
  <2>2. ~ReturnInComment(t)
    BY <1>1 DEF Plain
  <2>. QED
    BY <2>1, <2>2, Losts, LineEnded
<1>2. ASSUME ~Lenient(t), NEW skipped \in SUBSET VersionComments(t),
             VersionComments(t) \cap (1..r) \subseteq skipped
      PROVE  Follows(t, skipped, r, {})
  <2>1. Reading(t, skipped)[q] \in Clear \cup {} /\ {} \in {Lost, {}}
    BY <1>0, <1>2, <1>9, ScannedSign
  <2>2. ~ReturnInComment(t) /\ (t[q + 1] = "--" => q + 1 < Len(t) /\ t[q + 2] \in Blanks)
    BY <1>0, <1>2, StrictFacts
  <2>. QED
    BY <2>1, <2>2, LineEnded
<1>. QED
  BY <1>1, <1>2 DEF Scanned

(* The package goes on behind a version comment without the keyword.       *)
LEMMA ScannedVersion ==
  ASSUME NEW t \in Seq(Tokens), NEW q \in 0..Len(t), Scanned(t, q), q < Len(t), t[q + 1] = "/*!",
         NEW r \in (q + 2)..Len(t), t[r] = "*/", \A i \in (q + 2)..(r - 1) : t[i] # "*/",
         NEW m, VersionBody(t, q, r, m), ~KeywordAt(t, m, r - 1)
  PROVE  Scanned(t, r)
<1>0. 1..q \subseteq 1..r /\ q + 1 \in 1..r /\ q + 1 \in DOMAIN t
  OBVIOUS
<1>9. t[q + 1] \notin Spaces
  BY DEF Spaces, Blanks
<1>1. ASSUME Plain(t), NEW skipped \in SUBSET VersionComments(t)
      PROVE  Follows(t, skipped, r, Lost)
  <2>1. Reading(t, skipped)[q] \in Clear \cup Lost
    BY <1>1, <1>9, ScannedSign
  <2>. QED
    BY <1>1, <2>1, VersionEnded
<1>2. ASSUME ~Lenient(t), NEW skipped \in SUBSET VersionComments(t),
             VersionComments(t) \cap (1..r) \subseteq skipped
      PROVE  Follows(t, skipped, r, {})
  <2>1. Reading(t, skipped)[q] \in Clear \cup {} /\ {} \in {Lost, {}}
    BY <1>0, <1>2, <1>9, ScannedSign
  <2>2. q + 1 \in skipped
    BY <1>0, <1>2 DEF VersionComments
  <2>. QED
    BY <2>1, <2>2, CommentEnded
<1>. QED
  BY <1>1, <1>2 DEF Scanned

-----------------------------------------------------------------------------
(* A comment without an end hides what follows.                            *)
LEMMA HiddenInComment ==
  ASSUME NEW t \in Seq(Tokens), Plain(t), NEW q \in 0..Len(t), Scanned(t, q), q < Len(t),
         \/ t[q + 1] \in {"/*", "/*!"} /\ \A i \in (q + 2)..Len(t) : t[i] # "*/"
         \/ t[q + 1] \in {"--", "#"} /\ \A i \in (q + 2)..Len(t) : t[i] \notin {"cr", "newline"}
  PROVE  ~IsDistinct(t)
<1>. SUFFICES ASSUME NEW skipped \in SUBSET VersionComments(t) PROVE ~Selects(t, skipped)
  BY DEF IsDistinct
<1>1. t[q + 1] \notin Spaces
  BY DEF Spaces, Blanks
<1>2. Reading(t, skipped)[q] \in Clear \cup Lost /\ Lost \in {Lost, {}} /\ Lost # {}
  BY <1>1, ScannedSign, Losts
<1>3. Len(t) \in (q + 1)..Len(t)
  OBVIOUS
<1>4. CASE t[q + 1] = "/*" /\ \A i \in (q + 2)..Len(t) : t[i] # "*/"
  <2>1. Reading(t, skipped)[Len(t)] \in Blocked \cup Lost
    BY <1>2, <1>3, <1>4, CommentBegun
  <2>. QED
    BY <2>1, NotSelected
<1>5. CASE t[q + 1] = "/*!" /\ \A i \in (q + 2)..Len(t) : t[i] # "*/"
  <2>1. Reading(t, skipped)[Len(t)] \in Blocked \cup Within \cup Lost
    BY <1>2, <1>5, VersionUnended
  <2>. QED
    BY <2>1, NotSelected
<1>6. CASE t[q + 1] \in {"--", "#"} /\ \A i \in (q + 2)..Len(t) : t[i] \notin {"cr", "newline"}
  <2>1. Reading(t, skipped)[Len(t)] \in Dashed \cup Commented \cup Lost
    BY <1>2, <1>3, <1>6, LineBegun
  <2>. QED
    BY <2>1, NotSelected
<1>. QED
  BY <1>4, <1>5, <1>6

(* Nothing, or something else than the keyword, is left.                   *)
LEMMA NoKeyword ==
  ASSUME NEW t \in Seq(Tokens), Plain(t), NEW q \in 0..Len(t), Scanned(t, q),
         q < Len(t) => t[q + 1] \notin Spaces \cup {"/*", "/*!", "--", "#"},
         ~KeywordAt(t, q, Len(t))
  PROVE  ~IsDistinct(t)
<1>. SUFFICES ASSUME NEW skipped \in SUBSET VersionComments(t) PROVE ~Selects(t, skipped)
  BY DEF IsDistinct
<1>. DEFINE R == Reading(t, skipped)
<1>0. Len(t) \in Nat /\ q \in Nat /\ q <= Len(t)
  OBVIOUS
<1>1. CASE q = Len(t)
  <2>1. R[Len(t)] \in Clear \cup Lost \cup Commented
    BY <1>1 DEF Scanned, Follows
  <2>. QED
    BY <2>1, NotSelected
<1>2. CASE q # Len(t)
  <2>0. q < Len(t) /\ q + 1 \in 1..Len(t) /\ q + 1 \in DOMAIN t /\ q + 1 \in 0..Len(t)
        /\ (q + 1) - 1 = q /\ (q + 1) + 1 = q + 2
    BY <1>0, <1>2
  <2>1. R[q] \in Clear \cup Lost
    BY <2>0, ScannedSign
  <2>2. R[q + 1] = Read(R[q], t[q + 1], q + 1 \in skipped) /\ t[q + 1] \in Tokens
        /\ (q + 1 \in skipped) \in BOOLEAN
    BY <2>0, ReadingOf
  <2>3. ASSUME NEW a \in 0..Len(t), R[a] \in Lost PROVE ~Selects(t, skipped)
    <3>1. Len(t) \in a..Len(t)
      OBVIOUS
    <3>2. \A i \in (a + 1)..Len(t) : \A s \in Lost \cap Lexers, skip \in BOOLEAN : Read(s, t[i], skip) \in Lost
      <4>. TAKE i \in (a + 1)..Len(t)
      <4>1. i \in 1..Len(t)
        OBVIOUS
      <4>2. t[i] \in Tokens
        BY <4>1
      <4>. QED
        BY <4>2, ReadLost
    <3>3. \A i \in a..Len(t) : R[i] \in Lost
      BY <2>3, <3>1, <3>2, Segment
    <3>4. R[Len(t)] \in Lost
      BY <3>1, <3>3
    <3>. QED
      BY <3>4, NotSelected
  <2>4. CASE R[q] \in Lost
    BY <2>3, <2>4
  <2>5. CASE R[q] \in Clear /\ t[q + 1] # "distinct"
    <3>1. t[q + 1] # "modifier"
      BY <2>0 DEF Plain
    <3>2. t[q + 1] \in {"word", "digits", "(", "other", "*/"}
      BY <2>0, <2>2, <2>5, <3>1 DEF Tokens, Wordy, Spaces
    <3>3. R[q + 1] \in Lost
      BY <2>2, <2>5, <3>2, ReadClear
    <3>. QED
      BY <2>0, <2>3, <3>3
  <2>6. CASE R[q] \in Clear /\ t[q + 1] = "distinct"
    <3>1. q + 1 # Len(t) /\ t[q + 2] \notin Spaces \cup {"("}
      BY <2>0, <2>6 DEF KeywordAt
    <3>2. q + 1 < Len(t) /\ q + 2 \in 1..Len(t) /\ q + 2 \in 0..Len(t) /\ (q + 2) - 1 = q + 1
      BY <1>0, <2>0, <3>1
    <3>3. t[q + 2] = "*/"
      <4>1. t[q + 2] \in Blanks \cup {"(", "*/"}
        BY <2>0, <2>6, <3>2 DEF Plain
      <4>. QED
        BY <3>1, <4>1 DEF Spaces
    <3>4. R[q + 1] \in KeyOut
      BY <2>2, <2>6, ReadClear
    <3>5. R[q + 2] = Read(R[q + 1], t[q + 2], q + 2 \in skipped) /\ t[q + 2] \in Tokens
          /\ (q + 2 \in skipped) \in BOOLEAN /\ R[q + 1] \in Lexers
      BY <3>2, ReadingOf
    <3>6. R[q + 2] \in Lost
      BY <3>3, <3>4, <3>5, ReadKeyword
    <3>. QED
      BY <2>3, <3>2, <3>6
  <2>. QED
    BY <2>1, <2>4, <2>5, <2>6
<1>. QED
  BY <1>1, <1>2

(* Once it is taken for a DISTINCT outside of a version comment, it is one. *)
LEMMA TakenStays ==
  ASSUME NEW t \in Seq(Tokens), NEW skipped, NEW K \in {Taken, TakenOut},
         NEW a \in 0..Len(t), NEW b \in a..Len(t), Reading(t, skipped)[a] \in K
  PROVE  Reading(t, skipped)[b] \in K
<1>1. b \in a..b
  OBVIOUS
<1>2. \A i \in (a + 1)..b : \A s \in K \cap Lexers, skip \in BOOLEAN : Read(s, t[i], skip) \in K
  <2>. TAKE i \in (a + 1)..b
  <2>1. i \in 1..Len(t)
    OBVIOUS
  <2>2. t[i] \in Tokens
    BY <2>1
  <2>. QED
    BY <2>2, ReadKeyword
<1>3. \A i \in a..b : Reading(t, skipped)[i] \in K
  BY <1>2, Segment
<1>. QED
  BY <1>1, <1>3

(* The keyword in front of what is left is that of a DISTINCT.             *)
LEMMA KeywordSelects ==
  ASSUME NEW t \in Seq(Tokens), ~Lenient(t), NEW q \in 0..Len(t), Scanned(t, q), KeywordAt(t, q, Len(t))
  PROVE  IsDistinct(t)
<1>. DEFINE skipped == VersionComments(t)
            R == Reading(t, skipped)
<1>0. q < Len(t) /\ t[q + 1] = "distinct" /\ t[q + 1] \notin Spaces
  BY DEF KeywordAt, Spaces, Blanks
<1>9. Len(t) \in Nat /\ q \in Nat /\ q + 1 \in 1..Len(t) /\ (q + 1) - 1 = q /\ q + 1 \in 0..Len(t)
  BY <1>0
<1>1. R[q] \in Clear
  <2>1. R[q] \in Clear \cup {}
    BY <1>0, ScannedSign
  <2>. QED
    BY <2>1
<1>2. R[q + 1] = Read(R[q], t[q + 1], q + 1 \in skipped) /\ t[q + 1] \in Tokens
      /\ (q + 1 \in skipped) \in BOOLEAN
  BY <1>9, ReadingOf
<1>3. R[q + 1] \in KeyOut
  BY <1>0, <1>1, <1>2, ReadClear
<1>4. Selects(t, skipped)
  <2>1. CASE q + 1 = Len(t)
    BY <1>3, <2>1 DEF Selects, KeyOut
  <2>2. CASE q + 1 # Len(t)
    <3>1. q + 2 \in 1..Len(t) /\ q + 2 \in 0..Len(t) /\ (q + 2) - 1 = q + 1 /\ Len(t) \in (q + 2)..Len(t)
          /\ q + 2 \in DOMAIN t
      <4>1. q + 2 \in 1..Len(t)
        BY <1>0, <1>9, <2>2
      <4>. QED
        BY <1>9, <4>1
    <3>2. t[q + 2] \in Blanks \cup {"("}
      <4>1. t[q + 2] \in Spaces \cup {"("} /\ NoWide(t)
        BY <2>2, StrictFacts DEF KeywordAt
      <4>. QED
        BY <3>1, <4>1 DEF NoWide, Spaces
    <3>3. R[q + 2] = Read(R[q + 1], t[q + 2], q + 2 \in skipped) /\ t[q + 2] \in Tokens
          /\ (q + 2 \in skipped) \in BOOLEAN /\ R[q + 1] \in Lexers
      BY <3>1, ReadingOf
    <3>4. R[q + 2] \in TakenOut
      BY <1>3, <3>2, <3>3, ReadKeyword
    <3>5. R[Len(t)] \in TakenOut
      BY <3>1, <3>4, TakenStays
    <3>. QED
      BY <3>5 DEF Selects, TakenOut
  <2>. QED
    BY <2>1, <2>2
<1>. QED
  BY <1>4 DEF IsDistinct

(* So is the keyword in a version comment, for a server that is new enough.*)
LEMMA VersionSelects ==
  ASSUME NEW t \in Seq(Tokens), ~Lenient(t), NEW q \in 0..Len(t), Scanned(t, q), q < Len(t), t[q + 1] = "/*!",
         NEW r \in (q + 2)..Len(t), t[r] = "*/", \A i \in (q + 2)..(r - 1) : t[i] # "*/",
         NEW m, VersionBody(t, q, r, m), KeywordAt(t, m, r - 1)
  PROVE  IsDistinct(t)
<1>. DEFINE skipped == VersionComments(t) \ {q + 1}
            R == Reading(t, skipped)
<1>0. Len(t) \in Nat /\ q \in Nat /\ r \in Nat /\ r <= Len(t) /\ r \in 1..Len(t) /\ r - 1 \in 1..Len(t)
      /\ r \in 0..Len(t)
  OBVIOUS
<1>1. m \in (q + 1)..(r - 1) /\ m < r - 1 /\ t[m + 1] = "distinct"
      /\ \A i \in (q + 2)..m : t[i] \in Spaces \cup {"digits"}
  BY DEF VersionBody, KeywordAt
<1>2. m \in Nat /\ m \in (q + 1)..Len(t) /\ m + 1 \in 1..Len(t) /\ (m + 1) - 1 = m /\ m + 2 \in 1..Len(t)
      /\ (m + 2) - 1 = m + 1 /\ m + 2 <= r
  BY <1>0, <1>1
<1>11. \A i \in 1..Len(t) : /\ R[i] = Read(R[i - 1], t[i], i \in skipped) /\ t[i] \in Tokens
                             /\ (i \in skipped) \in BOOLEAN /\ R[i - 1] \in Lexers
  <2>. HIDE DEF skipped
  <2>. QED
    BY ReadingOf
<1>3. R[q] \in Clear \cup {}
  <2>1. t[q + 1] \notin Spaces
    BY DEF Spaces, Blanks
  <2>2. q + 1 \notin 1..q
    BY <1>0
  <2>3. skipped \in SUBSET VersionComments(t) /\ VersionComments(t) \cap (1..q) \subseteq skipped
    BY <2>2
  <2>. QED
    BY <2>1, <2>3, ScannedSign
<1>4. R[m] \in Opened \cup OpenCode
  <2>1. NoWide(t) /\ \A i \in 1..Len(t) : Inside(t, i) /\ t[i] = "digits" => t[i - 1] = "/*!"
    BY StrictFacts
  <2>2. \A i \in (q + 3)..m : t[i] # "digits"
    <3>. SUFFICES ASSUME NEW i \in (q + 3)..m, t[i] = "digits" PROVE FALSE
      OBVIOUS
    <3>1. i \in 1..Len(t) /\ i \in (q + 1)..Len(t) /\ i - 1 \in (q + 2)..m
          /\ \A k \in (q + 2)..i : k \in (q + 2)..(r - 1)
      BY <1>0, <1>1
    <3>2. Inside(t, i)
      BY <3>1, InsideFrom
    <3>3. t[i - 1] = "/*!" /\ t[i - 1] \in Spaces \cup {"digits"}
      BY <1>1, <2>1, <3>1, <3>2
    <3>. QED
      BY <3>3 DEF Spaces, Blanks
  <2>3. {} \in {Lost, {}} /\ q + 1 \notin skipped
    OBVIOUS
  <2>4. R[m] \in Opened \cup OpenCode \cup {}
    BY <1>1, <1>2, <1>3, <2>1, <2>2, <2>3, VersionBegun
  <2>. QED
    BY <2>4
<1>5. R[m + 1] = Read(R[m], t[m + 1], m + 1 \in skipped) /\ t[m + 1] \in Tokens
      /\ (m + 1 \in skipped) \in BOOLEAN
  BY <1>2, <1>11
<1>6. R[m + 1] \in KeyIn
  <2>1. \A skip \in BOOLEAN : Read(R[m], t[m + 1], skip) \in KeyIn
    BY <1>1, <1>4, <1>5, ReadOpened
  <2>. QED
    BY <1>5, <2>1
<1>7. R[m + 2] = Read(R[m + 1], t[m + 2], m + 2 \in skipped) /\ t[m + 2] \in Tokens
      /\ (m + 2 \in skipped) \in BOOLEAN /\ R[m + 1] \in Lexers
  BY <1>2, <1>11
<1>8. R[r] \in TakenOut
  <2>1. CASE m + 1 = r - 1
    <3>1. m + 2 = r
      BY <1>0, <1>2, <2>1
    <3>2. R[m + 2] \in TakenOut
      BY <1>6, <1>7, <3>1, ReadKeyword
    <3>. QED
      BY <3>1, <3>2
  <2>2. CASE m + 1 # r - 1
    <3>1. t[m + 2] \in Blanks \cup {"("}
      <4>1. t[m + 2] \in Spaces \cup {"("} /\ NoWide(t) /\ m + 2 \in DOMAIN t
        <5>1. m + 2 \in DOMAIN t
          BY <1>2
        <5>. QED
          BY <2>2, <5>1, StrictFacts DEF KeywordAt
      <4>. QED
        BY <4>1 DEF NoWide, Spaces
    <3>2. R[m + 2] \in Taken
      BY <1>6, <1>7, <3>1, ReadKeyword
    <3>3. m + 2 \in 0..Len(t) /\ r - 1 \in (m + 2)..Len(t)
      BY <1>0, <1>1, <1>2, <2>2
    <3>4. R[r - 1] \in Taken
      BY <3>2, <3>3, TakenStays
    <3>5. R[r] = Read(R[r - 1], t[r], r \in skipped) /\ t[r] \in Tokens
          /\ (r \in skipped) \in BOOLEAN /\ R[r - 1] \in Lexers
      BY <1>0, <1>11
    <3>. QED
      BY <3>4, <3>5, ReadKeyword
  <2>. QED
    BY <2>1, <2>2
<1>9. R[Len(t)] \in TakenOut
  <2>1. Len(t) \in r..Len(t)
    BY <1>0
  <2>. QED
    BY <1>0, <1>8, <2>1, TakenStays
<1>10. Selects(t, skipped) /\ skipped \in SUBSET VersionComments(t)
  BY <1>9 DEF Selects, TakenOut
<1>. QED
  BY <1>10 DEF IsDistinct

(* The loop is at the end of a prefix that it has read as MySQL does; what *)
(* it has decided is right.                                                *)
ScanInv ==
  /\ text \in Seq(Tokens)
  /\ verdict = "scanning" => \E p \in 0..Len(text) : sql = After(text, p) /\ Scanned(text, p)
  /\ DistinctRecognised

(* Nothing has been read at first.                                         *)
LEMMA ScanInvInit == ScanInit => ScanInv
<1>. SUFFICES ASSUME ScanInit PROVE ScanInv
  OBVIOUS
<1>1. text \in Seq(Tokens) /\ sql = text /\ verdict = "scanning"
  BY TextsAssumption DEF ScanInit
<1>2. After(text, 0) = text
  <2>1. After(text, 0) \in Seq(Tokens) /\ Len(After(text, 0)) = Len(text)
        /\ \A i \in 1..Len(text) : After(text, 0)[i] = text[i]
    <3>1. 0 \in 0..Len(text) /\ Len(text) - 0 = Len(text) /\ \A i \in 1..Len(text) : 0 + i = i
      BY <1>1
    <3>2. After(text, 0) \in Seq(Tokens) /\ Len(After(text, 0)) = Len(text) - 0
          /\ \A i \in 1..(Len(text) - 0) : After(text, 0)[i] = text[0 + i]
      BY <1>1, <3>1, AfterFacts
    <3>. QED
      BY <3>1, <3>2
  <2>. QED
    BY <1>1, <2>1, SeqEqual
<1>3. Scanned(text, 0)
  <2>1. Lexer("code", FALSE, "blank") \in Clear
    <3>1. "code" \in Modes /\ "blank" \in Tokens /\ "blank" \notin Wordy
      BY DEF Modes, Tokens, Spaces, Blanks, Wordy
    <3>2. Lexer("code", FALSE, "blank") \in Lexers
      BY <3>1, LexerTyped
    <3>. QED
      BY <3>1, <3>2 DEF Clear, Lexer
  <2>2. \A skipped : Reading(text, skipped)[0] \in Clear
    BY <1>1, <2>1, ReadingStep
  <2>. QED
    BY <2>2 DEF Scanned, Follows
<1>4. 0 \in 0..Len(text)
  BY <1>1
<1>. QED
  BY <1>1, <1>2, <1>3, <1>4 DEF ScanInv, DistinctRecognised

(* The first sign of what is left.                                         *)
LEMMA FrontOf ==
  ASSUME NEW t \in Seq(Tokens), NEW q \in 0..Len(t)
  PROVE  \A x : After(t, q) # << >> /\ After(t, q)[1] = x <=> q < Len(t) /\ t[q + 1] = x
<1>. DEFINE s == After(t, q)
<1>1. s \in Seq(Tokens) /\ Len(s) = Len(t) - q /\ \A i \in 1..(Len(t) - q) : s[i] = t[q + i]
  BY AfterFacts
<1>. HIDE DEF s
<1>2. s # << >> <=> Len(t) - q # 0
  BY <1>1, EmptySeq
<1>3. q < Len(t) => s[1] = t[q + 1]
  BY <1>1
<1>4. Len(t) - q # 0 <=> q < Len(t)
  OBVIOUS
<1>. QED
  BY <1>2, <1>3, <1>4 DEF s

(* A turn of the loop, at the first sign behind the white space.           *)
Turn(q, s) ==
  /\ q \in 0..Len(text) /\ s = After(text, q) /\ Scanned(text, q)
  /\ q < Len(text) => text[q + 1] \notin Spaces

(* Every turn begins there.                                                *)
LEMMA TurnBegins ==
  ASSUME ScanInv, verdict = "scanning"
  PROVE  \E q, s : s = TrimLeft(sql, Spaces) /\ Turn(q, s)
<1>1. text \in Seq(Tokens)
  BY DEF ScanInv
<1>2. PICK p \in 0..Len(text) : sql = After(text, p) /\ Scanned(text, p)
  BY DEF ScanInv
<1>3. PICK q \in p..Len(text) : /\ TrimLeft(After(text, p), Spaces) = After(text, q)
                                /\ \A i \in (p + 1)..q : text[i] \in Spaces
                                /\ q < Len(text) => text[q + 1] \notin Spaces
  BY <1>1, TrimmedAfter
<1>4. q \in 0..Len(text) /\ Scanned(text, q)
  BY <1>1, <1>2, <1>3, ScannedSpaces
<1>. QED
  BY <1>2, <1>3, <1>4 DEF Turn

(* A turn that goes on behind a comment.                                   *)
LEMMA GoesOn ==
  ASSUME text \in Seq(Tokens), UNCHANGED text, UNCHANGED verdict, verdict = "scanning", DistinctRecognised,
         NEW r \in 0..Len(text), sql' = After(text, r), Scanned(text, r)
  PROVE  ScanInv'
<1>1. text' \in Seq(Tokens) /\ verdict' = "scanning" /\ text' = text
  OBVIOUS
<1>2. \E p \in 0..Len(text') : sql' = After(text', p) /\ Scanned(text', p)
  BY <1>1
<1>3. DistinctRecognised'
  BY <1>1 DEF DistinctRecognised
<1>. QED
  BY <1>1, <1>2, <1>3 DEF ScanInv

(* A turn that finds no DISTINCT.                                          *)
LEMMA SaysNo ==
  ASSUME text \in Seq(Tokens), UNCHANGED text, Decide(FALSE), Plain(text) => ~IsDistinct(text)
  PROVE  ScanInv'
<1>1. verdict' = "no" /\ text' = text
  BY DEF Decide
<1>. QED
  BY <1>1 DEF ScanInv, DistinctRecognised

(* A turn that finds one.                                                  *)
LEMMA SaysYes ==
  ASSUME text \in Seq(Tokens), UNCHANGED text, Decide(TRUE), ~Lenient(text) => IsDistinct(text)
  PROVE  ScanInv'
<1>1. verdict' = "yes" /\ text' = text
  BY DEF Decide
<1>. QED
  BY <1>1 DEF ScanInv, DistinctRecognised

(* A comment is skipped, or hides the rest.                                *)
LEMMA CommentTurn ==
  ASSUME ScanInv, verdict = "scanning", UNCHANGED text, NEW q, NEW s, Turn(q, s), Comment(s)
  PROVE  ScanInv'
<1>0. text \in Seq(Tokens) /\ DistinctRecognised /\ q \in 0..Len(text) /\ s = After(text, q)
      /\ Scanned(text, q)
  BY DEF ScanInv, Turn
<1>1. q < Len(text) /\ text[q + 1] = "/*"
  BY <1>0, FrontOf DEF Comment
<1>. DEFINE e == IndexOf(s, {"*/"})
<1>2. IF e = 0 THEN Decide(FALSE) ELSE sql' = After(s, e) /\ UNCHANGED verdict
  BY DEF Comment
<1>3. \/ e = 0 /\ \A i \in (q + 2)..Len(text) : text[i] \notin {"*/"}
      \/ e # 0 /\ \E r \in (q + 2)..Len(text) :
           /\ r = q + e /\ e \in 2..(Len(text) - q) /\ r \in 0..Len(text)
           /\ text[r] \in {"*/"} /\ \A i \in (q + 2)..(r - 1) : text[i] \notin {"*/"}
           /\ After(s, e) = After(text, r)
  BY <1>0, IndexPlace
<1>. HIDE DEF e
<1>4. CASE e = 0
  <2>1. \A i \in (q + 2)..Len(text) : text[i] # "*/"
    BY <1>3, <1>4
  <2>2. Plain(text) => ~IsDistinct(text)
    BY <1>0, <1>1, <2>1, HiddenInComment
  <2>. QED
    BY <1>0, <1>2, <1>4, <2>2, SaysNo
<1>5. CASE e # 0
  <2>1. PICK r \in (q + 2)..Len(text) :
          /\ r = q + e /\ e \in 2..(Len(text) - q) /\ r \in 0..Len(text)
          /\ text[r] \in {"*/"} /\ \A i \in (q + 2)..(r - 1) : text[i] \notin {"*/"}
          /\ After(s, e) = After(text, r)
    BY <1>3, <1>5
  <2>4. text[r] = "*/" /\ \A i \in (q + 2)..(r - 1) : text[i] # "*/"
    BY <2>1
  <2>5. Scanned(text, r)
    BY <1>0, <1>1, <2>1, <2>4, ScannedComment
  <2>6. sql' = After(text, r) /\ UNCHANGED verdict
    BY <1>2, <1>5, <2>1
  <2>. QED
    BY <1>0, <2>1, <2>5, <2>6, GoesOn
<1>. QED
  BY <1>4, <1>5

(* So is a line comment.                                                   *)
LEMMA LineTurn ==
  ASSUME ScanInv, verdict = "scanning", UNCHANGED text, NEW q, NEW s, Turn(q, s), LineComment(s)
  PROVE  ScanInv'
<1>0. text \in Seq(Tokens) /\ DistinctRecognised /\ q \in 0..Len(text) /\ s = After(text, q)
      /\ Scanned(text, q)
  BY DEF ScanInv, Turn
<1>1. q < Len(text) /\ text[q + 1] \in {"--", "#"}
  BY <1>0, FrontOf DEF LineComment
<1>. DEFINE ends == {"cr", "newline"}
            e == IndexOf(s, ends)
<1>2. IF e = 0 THEN Decide(FALSE) ELSE sql' = After(s, e) /\ UNCHANGED verdict
  BY DEF LineComment
<1>3. \/ e = 0 /\ \A i \in (q + 2)..Len(text) : text[i] \notin ends
      \/ e # 0 /\ \E r \in (q + 2)..Len(text) :
           /\ r = q + e /\ e \in 2..(Len(text) - q) /\ r \in 0..Len(text)
           /\ text[r] \in ends /\ \A i \in (q + 2)..(r - 1) : text[i] \notin ends
           /\ After(s, e) = After(text, r)
  BY <1>0, IndexPlace
<1>. HIDE DEF e
<1>4. CASE e = 0
  <2>1. \A i \in (q + 2)..Len(text) : text[i] \notin ends
    BY <1>3, <1>4
  <2>2. Plain(text) => ~IsDistinct(text)
    BY <1>0, <1>1, <2>1, HiddenInComment
  <2>. QED
    BY <1>0, <1>2, <1>4, <2>2, SaysNo
<1>5. CASE e # 0
  <2>1. PICK r \in (q + 2)..Len(text) :
          /\ r = q + e /\ e \in 2..(Len(text) - q) /\ r \in 0..Len(text)
          /\ text[r] \in ends /\ \A i \in (q + 2)..(r - 1) : text[i] \notin ends
          /\ After(s, e) = After(text, r)
    BY <1>3, <1>5
  <2>4. text[r] \in ends /\ \A i \in (q + 2)..(r - 1) : text[i] \notin ends
    BY <2>1
  <2>5. Scanned(text, r)
    BY <1>0, <1>1, <2>1, <2>4, ScannedLine
  <2>6. sql' = After(text, r) /\ UNCHANGED verdict
    BY <1>2, <1>5, <2>1
  <2>. QED
    BY <1>0, <2>1, <2>5, <2>6, GoesOn
<1>. QED
  BY <1>4, <1>5

(* A version comment is searched as well.                                  *)
LEMMA VersionTurn ==
  ASSUME ScanInv, verdict = "scanning", UNCHANGED text, NEW q, NEW s, Turn(q, s), VersionComment(s)
  PROVE  ScanInv'
<1>0. text \in Seq(Tokens) /\ DistinctRecognised /\ q \in 0..Len(text) /\ s = After(text, q)
      /\ Scanned(text, q)
  BY DEF ScanInv, Turn
<1>1. q < Len(text) /\ text[q + 1] = "/*!"
  BY <1>0, FrontOf DEF VersionComment
<1>. DEFINE e == IndexOf(s, {"*/"})
<1>2. IF e = 0 THEN Decide(FALSE)
      ELSE IF hasDistinctKeyword(bodyOf(s, e)) THEN Decide(TRUE)
      ELSE sql' = After(s, e) /\ UNCHANGED verdict
  BY DEF VersionComment
<1>3. \/ e = 0 /\ \A i \in (q + 2)..Len(text) : text[i] \notin {"*/"}
      \/ e # 0 /\ \E r \in (q + 2)..Len(text) :
           /\ r = q + e /\ e \in 2..(Len(text) - q) /\ r \in 0..Len(text)
           /\ text[r] \in {"*/"} /\ \A i \in (q + 2)..(r - 1) : text[i] \notin {"*/"}
           /\ After(s, e) = After(text, r)
  BY <1>0, IndexPlace
<1>. HIDE DEF e
<1>4. CASE e = 0
  <2>1. \A i \in (q + 2)..Len(text) : text[i] # "*/"
    BY <1>3, <1>4
  <2>2. Plain(text) => ~IsDistinct(text)
    BY <1>0, <1>1, <2>1, HiddenInComment
  <2>. QED
    BY <1>0, <1>2, <1>4, <2>2, SaysNo
<1>5. CASE e # 0
  <2>1. PICK r \in (q + 2)..Len(text) :
          /\ r = q + e /\ e \in 2..(Len(text) - q) /\ r \in 0..Len(text)
          /\ text[r] \in {"*/"} /\ \A i \in (q + 2)..(r - 1) : text[i] \notin {"*/"}
          /\ After(s, e) = After(text, r)
    BY <1>3, <1>5
  <2>4. text[r] = "*/" /\ \A i \in (q + 2)..(r - 1) : text[i] # "*/"
    BY <2>1
  <2>5. PICK m : /\ VersionBody(text, q, r, m)
                 /\ hasDistinctKeyword(bodyOf(s, e)) <=> KeywordAt(text, m, r - 1)
    BY <1>0, <1>1, <2>1, BodyRead
  <2>6. CASE hasDistinctKeyword(bodyOf(s, e))
    <3>1. ~Lenient(text) => IsDistinct(text)
      BY <1>0, <1>1, <2>1, <2>4, <2>5, <2>6, VersionSelects
    <3>. QED
      BY <1>0, <1>2, <1>5, <2>6, <3>1, SaysYes
  <2>7. CASE ~hasDistinctKeyword(bodyOf(s, e))
    <3>1. Scanned(text, r)
      BY <1>0, <1>1, <2>1, <2>4, <2>5, <2>7, ScannedVersion
    <3>2. sql' = After(text, r) /\ UNCHANGED verdict
      BY <1>2, <1>5, <2>1, <2>7
    <3>. QED
      BY <1>0, <2>1, <3>1, <3>2, GoesOn
  <2>. QED
    BY <2>6, <2>7
<1>. QED
  BY <1>4, <1>5

(* Anything else decides.                                                  *)
LEMMA KeywordTurn ==
  ASSUME ScanInv, verdict = "scanning", UNCHANGED text, NEW q, NEW s, Turn(q, s), Keyword(s)
  PROVE  ScanInv'
<1>0. text \in Seq(Tokens) /\ DistinctRecognised /\ q \in 0..Len(text) /\ s = After(text, q)
      /\ Scanned(text, q) /\ (q < Len(text) => text[q + 1] \notin Spaces)
  BY DEF ScanInv, Turn
<1>1. ~(s # << >> /\ s[1] \in {"/*", "/*!", "--", "#"}) /\ Decide(hasDistinctKeyword(s))
  BY DEF Keyword
<1>2. q < Len(text) => text[q + 1] \notin Spaces \cup {"/*", "/*!", "--", "#"}
  BY <1>0, <1>1, FrontOf
<1>3. hasDistinctKeyword(s) <=> KeywordAt(text, q, Len(text))
  BY <1>0, KeywordRead
<1>4. CASE hasDistinctKeyword(s)
  <2>1. Decide(TRUE)
    BY <1>1, <1>4 DEF Decide
  <2>2. ~Lenient(text) => IsDistinct(text)
    BY <1>0, <1>3, <1>4, KeywordSelects
  <2>. QED
    BY <1>0, <2>1, <2>2, SaysYes
<1>5. CASE ~hasDistinctKeyword(s)
  <2>1. Decide(FALSE)
    BY <1>1, <1>5 DEF Decide
  <2>2. Plain(text) => ~IsDistinct(text)
    BY <1>0, <1>2, <1>3, <1>5, NoKeyword
  <2>. QED
    BY <1>0, <2>1, <2>2, SaysNo
<1>. QED
  BY <1>4, <1>5

(* Every turn keeps the invariant.                                         *)
LEMMA ScanInvNext == ScanInv /\ [ScanNext]_scanVars => ScanInv'
<1>. SUFFICES ASSUME ScanInv, [ScanNext]_scanVars PROVE ScanInv'
  OBVIOUS
<1>1. CASE ScanNext
  <2>1. verdict = "scanning" /\ UNCHANGED text
    BY <1>1 DEF ScanNext
  <2>2. PICK q, s : s = TrimLeft(sql, Spaces) /\ Turn(q, s)
    BY <2>1, TurnBegins
  <2>7. VersionComment(s) \/ Comment(s) \/ LineComment(s) \/ Keyword(s)
    BY <1>1, <2>2 DEF ScanNext
  <2>3. CASE VersionComment(s)
    BY <2>1, <2>2, <2>3, VersionTurn
  <2>4. CASE Comment(s)
    BY <2>1, <2>2, <2>4, CommentTurn
  <2>5. CASE LineComment(s)
    BY <2>1, <2>2, <2>5, LineTurn
  <2>6. CASE Keyword(s)
    BY <2>1, <2>2, <2>6, KeywordTurn
  <2>. QED
    BY <2>3, <2>4, <2>5, <2>6, <2>7
<1>2. CASE UNCHANGED scanVars
  BY <1>2 DEF scanVars, ScanInv, DistinctRecognised
<1>. QED
  BY <1>1, <1>2

(* In every reachable state.                                               *)
LEMMA ScanInvariance == ScanSpec => []ScanInv
<1>1. QED
  BY ScanInvInit, ScanInvNext, PTL DEF ScanSpec

(* A plain DISTINCT is recognised behind any comments, and what is taken   *)
(* for a DISTINCT is one, whatever the caller writes (hasDistinctPrefix).  *)
THEOREM DistinctIsRecognised == ScanSpec => []DistinctRecognised
<1>1. ScanInv => DistinctRecognised
  BY DEF ScanInv
<1>. QED
  BY <1>1, ScanInvariance, PTL

(* Every turn of the loop that does not decide leaves less of the text.    *)
EveryTurnShortens ==
  [][verdict' = "scanning" => Len(sql') \in 0..(Len(sql) - 1)]_scanVars

(* What is cut off has two tokens at least.                                *)
LEMMA TurnShortens ==
  ASSUME ScanInv, ScanNext, verdict' = "scanning"
  PROVE  Len(sql') \in 0..(Len(sql) - 1)
<1>. DEFINE s == TrimLeft(sql, Spaces)
<1>1. text \in Seq(Tokens) /\ verdict = "scanning"
      /\ (VersionComment(s) \/ Comment(s) \/ LineComment(s) \/ Keyword(s))
  BY DEF ScanNext, ScanInv
<1>2. PICK p \in 0..Len(text) : sql = After(text, p)
  BY <1>1 DEF ScanInv
<1>3. sql \in Seq(Tokens)
  BY <1>1, <1>2, AfterFacts
<1>4. PICK k \in 0..Len(sql) : s = After(sql, k)
  BY <1>3, Trimmed
<1>5. s \in Seq(Tokens) /\ Len(s) = Len(sql) - k
  BY <1>3, <1>4, AfterFacts
<1>. HIDE DEF s
<1>6. \A b : Decide(b) => verdict' # "scanning"
  BY DEF Decide
<1>7. PICK set : IndexOf(s, set) # 0 /\ sql' = After(s, IndexOf(s, set))
  BY <1>1, <1>6 DEF VersionComment, Comment, LineComment, Keyword
<1>. DEFINE e == IndexOf(s, set)
<1>8. e \in 2..Len(s)
  <2>. DEFINE at == {i \in 2..Len(s) : s[i] \in set}
  <2>1. e = IF at = {} THEN 0 ELSE CHOOSE i \in at : \A j \in at : i <= j
    BY DEF IndexOf
  <2>2. at # {} /\ e = CHOOSE i \in at : \A j \in at : i <= j
    BY <1>7, <2>1
  <2>3. \E n \in at : \A m \in at : n <= m
    <3>1. at \subseteq Nat
      BY <1>5
    <3>. HIDE DEF at
    <3>. QED
      BY <2>2, <3>1, LeastNumber
  <2>4. (CHOOSE i \in at : \A j \in at : i <= j) \in at
    BY <2>3
  <2>. QED
    BY <2>2, <2>4
<1>. HIDE DEF e
<1>9. e \in 0..Len(s)
  BY <1>5, <1>8
<1>10. Len(sql') = Len(s) - e
  BY <1>5, <1>7, <1>9, AfterFacts DEF e
<1>. QED
  BY <1>3, <1>5, <1>8, <1>10

(* The loop of hasDistinctPrefix ends for every text: a comment without an *)
(* end is not read for ever.                                               *)
THEOREM EveryTurnShortensAlways == ScanSpec => EveryTurnShortens
<1>1. ScanInv /\ [ScanNext]_scanVars =>
        [verdict' = "scanning" => Len(sql') \in 0..(Len(sql) - 1)]_scanVars
  BY TurnShortens
<1>. QED
  BY <1>1, ScanInvariance, PTL DEF ScanSpec, EveryTurnShortens
=============================================================================
