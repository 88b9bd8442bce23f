-------------------------- MODULE Paginator_proofs -------------------------
(***************************************************************************)
(* What a call of paginator.Paginate returns, for every table, handle,     *)
(* scopes and number of callers, and which table its queries read.         *)
(*                                                                         *)
(* First, what a round of scopes leaves of a statement, by induction on    *)
(* its edits; then what the database answers to the statement the guards   *)
(* let through; then the inductive invariant, one lemma for each action;   *)
(* and last the Statements of goroutines that share a handle.              *)
(***************************************************************************)
EXTENDS Paginator, SharedHandle, PageMath_proofs, FiniteSetTheorems, SequenceTheorems, WellFoundedInduction

-----------------------------------------------------------------------------
(* A set of numbers that is not empty has a least one: the induction of    *)
(* this module.                                                            *)
LEMMA Least ==
    ASSUME NEW T, T \subseteq Nat, T # {}
    PROVE  \E n \in T : \A m \in T : n <= m
  <1>. DEFINE R == OpToRel(<, Nat)
  <1>1. \E n \in T : \A m \in T : <<m, n>> \notin R
    <2>1. IsWellFoundedOn(R, Nat)
      BY NatLessThanWellFounded
    <2>. HIDE DEF R
    <2>. QED
      BY <2>1, WFMin, Zenon
  <1>2. \A m, n \in Nat : <<m, n>> \notin R => n <= m
    BY DEF OpToRel
  <1>. QED
    BY <1>1, <1>2

(* What a round of scopes leaves: after every edit the statement is in the *)
(* set for that many edits, if the first one is and each edit leads from   *)
(* one set into the next.                                                  *)
LEMMA Rounds ==
    ASSUME NEW edits \in Seq(Edits), NEW stmt, NEW S, stmt \in S[0],
           \A i \in 1..Len(edits) : \A s \in S[i - 1] : Edit(s, edits[i]) \in S[i]
    PROVE  RunScopes(stmt, edits) \in S[Len(edits)]
  <1>. DEFINE n == Len(edits)
             Upto(k) == {g \in [0..k -> UNION {S[i] : i \in 0..n}] :
                           g[0] = stmt /\ \A i \in 1..k : g[i] = Edit(g[i - 1], edits[i])}
             Sound(k) == {g \in Upto(k) : \A i \in 0..k : g[i] \in S[i]}
  <1>1. n \in Nat
    OBVIOUS
  <1>. HIDE DEF n
  <1>2. \A k \in 0..n : Sound(k) # {}
    <2>. DEFINE T == {k \in 0..n : Sound(k) = {}}
    <2>. SUFFICES ASSUME T # {} PROVE FALSE
      OBVIOUS
    <2>1. PICK k \in T : \A m \in T : k <= m
      <3>1. T \subseteq Nat
        BY <1>1
      <3>. HIDE DEF T
      <3>. QED
        BY <3>1, Least
    <2>2. k \in 0..n /\ Sound(k) = {}
      OBVIOUS
    <2>3. CASE k = 0
      <3>. DEFINE g == [i \in 0..0 |-> stmt]
      <3>1. stmt \in UNION {S[i] : i \in 0..n}
        BY <1>1
      <3>2. g \in Sound(0)
        BY <1>1, <3>1
      <3>. QED
        BY <2>2, <2>3, <3>2
    <2>4. CASE k # 0
      <3>1. k - 1 \in 0..n /\ k - 1 \in Nat /\ k \in 1..n
        BY <1>1, <2>2, <2>4
      <3>2. k - 1 \notin T
        BY <2>1, <3>1
      <3>3. PICK g \in Sound(k - 1) : TRUE
        BY <3>1, <3>2
      <3>. DEFINE e == Edit(g[k - 1], edits[k])
                 h == [i \in 0..k |-> IF i = k THEN e ELSE g[i]]
      <3>4. e \in S[k]
        BY <1>1, <3>1, <3>3 DEF n
      <3>5. e \in UNION {S[i] : i \in 0..n}
        BY <1>1, <3>1, <3>4
      <3>6. h[k] = Edit(h[k - 1], edits[k])
        BY <3>1
      <3>7. \A i \in 0..(k - 1) : h[i] = g[i]
        BY <3>1
      <3>. HIDE DEF e
      <3>8. h \in Upto(k)
        <4>1. h \in [0..k -> UNION {S[i] : i \in 0..n}]
          BY <1>1, <3>1, <3>3, <3>5
        <4>2. h[0] = stmt
          BY <3>1, <3>3, <3>7
        <4>3. \A i \in 1..(k - 1) : h[i] = Edit(h[i - 1], edits[i])
          BY <3>1, <3>3, <3>7
        <4>. HIDE DEF h
        <4>4. \A i \in 1..k : i = k \/ i \in 1..(k - 1)
          BY <1>1, <3>1
        <4>5. \A i \in 1..k : h[i] = Edit(h[i - 1], edits[i])
          BY <3>6, <4>3, <4>4
        <4>. QED
          BY <4>1, <4>2, <4>5
      <3>9. \A i \in 0..k : h[i] \in S[i]
        BY <3>1, <3>3, <3>4, <3>7
      <3>. QED
        BY <2>2, <3>8, <3>9
    <2>. QED
      BY <2>3, <2>4
  <1>3. PICK g \in Sound(n) : TRUE
    <2>1. n \in 0..n
      BY <1>1
    <2>. HIDE DEF Sound
    <2>. QED
      BY <1>2, <2>1
  <1>. DEFINE F(f) == [i \in 0..n |-> IF i = 0 THEN stmt ELSE Edit(f[i - 1], edits[i])]
             after == CHOOSE f : f = F(f)
  <1>4. g = F(g)
    BY <1>1, <1>3
  <1>5. after = F(after)
    <2>. HIDE DEF F
    <2>. QED
      BY <1>4
  <1>6. after[n] = RunScopes(stmt, edits)
    BY DEF RunScopes, n
  <1>. HIDE DEF after
  <1>7. \A i \in 0..n : after[i] = IF i = 0 THEN stmt ELSE Edit(after[i - 1], edits[i])
    BY <1>5
  <1>8. after[n] \in S[n]
    <2>. SUFFICES ASSUME after[n] \notin S[n] PROVE FALSE
      OBVIOUS
    <2>. DEFINE T == {k \in 0..n : after[k] \notin S[k]}
    <2>1. n \in T
      BY <1>1
    <2>2. PICK k \in T : \A m \in T : k <= m
      <3>1. T \subseteq Nat
        BY <1>1
      <3>. HIDE DEF T
      <3>. QED
        BY <2>1, <3>1, Least
    <2>3. k \in 0..n /\ after[k] \notin S[k]
      OBVIOUS
    <2>4. k # 0
      BY <1>1, <1>7, <2>3
    <2>5. k \in 1..n /\ k - 1 \in 0..n /\ ~(k <= k - 1)
      BY <1>1, <2>3, <2>4
    <2>6. after[k - 1] \in S[k - 1]
      BY <2>2, <2>5
    <2>7. after[k] = Edit(after[k - 1], edits[k])
      BY <1>7, <2>4, <2>5
    <2>8. Edit(after[k - 1], edits[k]) \in S[k]
      BY <2>5, <2>6 DEF n
    <2>. QED
      BY <2>3, <2>7, <2>8
  <1>. QED
    BY <1>6, <1>8 DEF n

(* Sorts of columns and statements, with the limit and offset any integer. *)
Columns == [name : {"id", "key"}, reorder : BOOLEAN]

Statements ==
    [where : BOOLEAN, group : BOOLEAN, distinct : BOOLEAN, selects : {"chain", "scope"},
     selectClause : {"chain", "scope", "count"}, raw : BOOLEAN,
     order : Seq(Columns), expression : BOOLEAN, limit : Int, offset : Int]

(* Two statements that differ at most in the clauses of the page.          *)
SameBut(s, t) ==
    /\ s.group <=> t.group
    /\ s.distinct <=> t.distinct
    /\ s.raw <=> t.raw
    /\ s.selects = t.selects /\ s.selectClause = t.selectClause

(* Sets the limit and nothing else: zero leaves it.                        *)
LEMMA LimitSet ==
    ASSUME NEW s \in Statements, NEW n \in Int
    PROVE  LET t == Limit(s, n)
           IN  /\ t \in Statements /\ SameBut(t, s) /\ (t.where <=> s.where)
               /\ t.order = s.order /\ (t.expression <=> s.expression) /\ t.offset = s.offset
               /\ t.limit = IF n = 0 THEN s.limit ELSE n
  BY DEF Limit, Statements, SameBut

(* Sets the offset and nothing else: zero leaves it, a negative one clears *)
(* it.                                                                     *)
LEMMA OffsetSet ==
    ASSUME NEW s \in Statements, NEW n \in Int
    PROVE  LET t == Offset(s, n)
           IN  /\ t \in Statements /\ SameBut(t, s) /\ (t.where <=> s.where)
               /\ t.order = s.order /\ (t.expression <=> s.expression) /\ t.limit = s.limit
               /\ t.offset = IF n = 0 THEN s.offset ELSE IF n < 0 THEN 0 ELSE n
  BY DEF Offset, Statements, SameBut

(* Sets the order and nothing else: the columns replace what was there if  *)
(* one of them says so.                                                    *)
LEMMA OrderSet ==
    ASSUME NEW s \in Statements, NEW columns \in Seq(Columns), NEW expression \in BOOLEAN
    PROVE  LET t == OrderBy(s, columns, expression)
           IN  /\ t \in Statements /\ SameBut(t, s) /\ (t.where <=> s.where)
               /\ (t.expression <=> expression) /\ t.limit = s.limit /\ t.offset = s.offset
               /\ t.order = IF \E i \in DOMAIN columns : columns[i].reorder THEN columns
                            ELSE s.order \o columns
  <1>. DEFINE o == IF \E i \in DOMAIN columns : columns[i].reorder THEN columns
                   ELSE s.order \o columns
             t == [s EXCEPT !.order = o, !.expression = expression]
  <1>1. o \in Seq(Columns)
    BY DEF Statements
  <1>2. t = OrderBy(s, columns, expression)
    BY DEF OrderBy
  <1>. HIDE DEF o
  <1>3. t \in Statements /\ t.order = o
    BY <1>1 DEF Statements
  <1>4. SameBut(t, s) /\ (t.where <=> s.where) /\ t.limit = s.limit /\ t.offset = s.offset
    BY DEF Statements, SameBut
  <1>5. t.expression <=> expression
    BY DEF Statements
  <1>. HIDE DEF t
  <1>. QED
    BY <1>2, <1>3, <1>4, <1>5 DEF o

(* A column carries the name and the flag it is built from.                *)
LEMMA ColumnTyped ==
    ASSUME NEW name \in {"id", "key"}, NEW reorder \in BOOLEAN
    PROVE  /\ Column(name, reorder) \in Columns
           /\ Column(name, reorder).name = name
           /\ Column(name, reorder).reorder <=> reorder
  BY DEF Column, Columns

(* An edit leaves a statement, adds a WHERE if it says so, and changes the *)
(* projection only if it is one of five.                                   *)
LEMMA EditSet ==
    ASSUME NEW s \in Statements, NEW e \in Edits
    PROVE  LET t == Edit(s, e)
           IN  /\ t \in Statements
               /\ t.where <=> s.where \/ e = "where"
               /\ e \notin {"select", "selectClause", "distinct", "group", "raw"} => SameBut(t, s)
               /\ e = "where" => /\ t.order = s.order /\ (t.expression <=> s.expression)
                                 /\ t.limit = s.limit /\ t.offset = s.offset
               /\ e = "order" => /\ t.order = s.order \o <<Column("key", FALSE)>>
                                 /\ ~t.expression
                                 /\ t.limit = s.limit /\ t.offset = s.offset
  <1>. DEFINE t == Edit(s, e)
             appended == <<Column("key", FALSE)>>
             instead  == <<Column("key", TRUE)>>
  <1>0. /\ appended \in Seq(Columns) /\ instead \in Seq(Columns)
        /\ ~\E i \in DOMAIN appended : appended[i].reorder
    <2>1. Column("key", FALSE) \in Columns /\ ~Column("key", FALSE).reorder
      BY ColumnTyped
    <2>2. Column("key", TRUE) \in Columns
      BY ColumnTyped
    <2>3. \A c \in Columns : <<c>> \in Seq(Columns)
      OBVIOUS
    <2>4. \A c \in Columns : \A i \in DOMAIN <<c>> : <<c>>[i] = c
      OBVIOUS
    <2>. QED
      BY <2>1, <2>2, <2>3, <2>4
  <1>n. << >> \in Seq(Columns) /\ noLimit \in Int
    BY DEF noLimit
  <1>1. CASE e \in {"limit", "unlimited"}
    <2>1. t = Limit(s, 1) \/ t = Limit(s, noLimit)
      BY <1>1 DEF Edit
    <2>. QED
      BY <1>n, <1>1, <2>1, LimitSet
  <1>2. CASE e = "offset"
    <2>1. t = Offset(s, 1)
      BY <1>2 DEF Edit
    <2>. QED
      BY <1>2, <2>1, OffsetSet
  <1>3. CASE e = "order"
    <2>1. t = OrderBy(s, appended, FALSE)
      BY <1>3 DEF Edit
    <2>. HIDE DEF appended, t
    <2>2. /\ t \in Statements /\ SameBut(t, s) /\ (t.where <=> s.where) /\ ~t.expression
          /\ t.limit = s.limit /\ t.offset = s.offset /\ t.order = s.order \o appended
      BY <1>0, <2>1, OrderSet
    <2>. QED
      BY <1>3, <2>2 DEF appended, t
  <1>4. CASE e \in {"reorder", "expression"}
    <2>1. t = OrderBy(s, instead, FALSE) \/ t = OrderBy(s, << >>, TRUE)
      BY <1>4 DEF Edit
    <2>. HIDE DEF instead, t
    <2>2. \A columns \in Seq(Columns), x \in BOOLEAN :
            LET u == OrderBy(s, columns, x)
            IN  u \in Statements /\ SameBut(u, s) /\ (u.where <=> s.where)
      BY OrderSet
    <2>3. t \in Statements /\ SameBut(t, s) /\ (t.where <=> s.where)
      BY <1>0, <1>n, <2>1, <2>2
    <2>. QED
      BY <1>4, <2>3 DEF t
  <1>5. CASE e = "where"
    <2>1. t = [s EXCEPT !.where = TRUE]
      BY <1>5 DEF Edit
    <2>. QED
      BY <1>5, <2>1 DEF Statements, SameBut
  <1>6. CASE e \in {"select", "selectClause", "distinct", "group", "raw"}
    <2>1. \/ t = [s EXCEPT !.selects = "scope"]
          \/ t = [s EXCEPT !.selectClause = "scope"]
          \/ t = [s EXCEPT !.distinct = TRUE]
          \/ t = [s EXCEPT !.group = TRUE]
          \/ t = [s EXCEPT !.raw = TRUE]
      BY <1>6 DEF Edit
    <2>2. t \in Statements /\ (t.where <=> s.where)
      BY <2>1 DEF Statements
    <2>. QED
      BY <1>6, <2>2
  <1>. QED
    BY <1>1, <1>2, <1>3, <1>4, <1>5, <1>6 DEF Edits

(* A round leaves a statement, with a WHERE if it had one or an edit adds  *)
(* one.                                                                    *)
LEMMA RoundSet ==
    ASSUME NEW edits \in Seq(Edits), NEW stmt \in Statements
    PROVE  LET t == RunScopes(stmt, edits)
           IN  /\ t \in Statements
               /\ t.where <=> stmt.where \/ \E i \in DOMAIN edits : edits[i] = "where"
  <1>. DEFINE n == Len(edits)
             P(k) == {t \in Statements :
                        t.where <=> stmt.where \/ \E i \in 1..k : edits[i] = "where"}
             S == [k \in 0..n |-> P(k)]
  <1>1. n \in Nat /\ DOMAIN edits = 1..n /\ \A i \in 1..n : edits[i] \in Edits
    OBVIOUS
  <1>. HIDE DEF n
  <1>2. stmt \in S[0]
    BY <1>1
  <1>3. ASSUME NEW k \in 1..n, NEW s \in S[k - 1] PROVE Edit(s, edits[k]) \in S[k]
    <2>1. k - 1 \in 0..n /\ k \in 0..n
      BY <1>1
    <2>2. s \in Statements /\ (s.where <=> stmt.where \/ \E i \in 1..(k - 1) : edits[i] = "where")
      BY <2>1
    <2>. DEFINE t == Edit(s, edits[k])
    <2>3. t \in Statements /\ (t.where <=> s.where \/ edits[k] = "where")
      BY <1>1, <2>2, EditSet
    <2>. HIDE DEF t
    <2>4. (\E i \in 1..k : edits[i] = "where")
            <=> edits[k] = "where" \/ \E i \in 1..(k - 1) : edits[i] = "where"
      BY <1>1
    <2>5. t \in P(k)
      BY <2>2, <2>3, <2>4
    <2>. QED
      BY <2>1, <2>5 DEF t
  <1>4. RunScopes(stmt, edits) \in S[n]
    <2>. HIDE DEF S
    <2>. QED
      BY <1>2, <1>3, Rounds DEF n
  <1>. QED
    BY <1>1, <1>4

(* A round without an edit of the projection leaves the projection.        *)
LEMMA HarmlessRound ==
    ASSUME NEW edits \in Seq(Edits), NEW stmt \in Statements,
           \A i \in DOMAIN edits :
               edits[i] \notin {"select", "selectClause", "distinct", "group", "raw"}
    PROVE  SameBut(RunScopes(stmt, edits), stmt)
  <1>. DEFINE n == Len(edits)
             S == [k \in 0..n |-> {t \in Statements : SameBut(t, stmt)}]
  <1>1. n \in Nat /\ DOMAIN edits = 1..n /\ \A i \in 1..n : edits[i] \in Edits
    OBVIOUS
  <1>. HIDE DEF n
  <1>2. stmt \in S[0]
    BY <1>1 DEF SameBut
  <1>3. ASSUME NEW k \in 1..n, NEW s \in S[k - 1] PROVE Edit(s, edits[k]) \in S[k]
    <2>1. k - 1 \in 0..n /\ k \in 0..n
      BY <1>1
    <2>2. s \in Statements /\ SameBut(s, stmt)
      BY <2>1
    <2>3. Edit(s, edits[k]) \in Statements /\ SameBut(Edit(s, edits[k]), s)
      BY <1>1, <2>2, EditSet
    <2>4. SameBut(Edit(s, edits[k]), stmt)
      BY <2>2, <2>3 DEF SameBut
    <2>. QED
      BY <2>1, <2>3, <2>4
  <1>4. RunScopes(stmt, edits) \in S[n]
    <2>. HIDE DEF S
    <2>. QED
      BY <1>2, <1>3, Rounds DEF n
  <1>. QED
    BY <1>1, <1>4

(* What t keeps of s when conditions, and columns if appending, are added. *)
Adds(t, s, appending) ==
    /\ SameBut(t, s)
    /\ t.limit = s.limit /\ t.offset = s.offset
    /\ t.expression => s.expression
    /\ Len(s.order) <= Len(t.order)
    /\ \A i \in 1..Len(t.order) :
        IF i <= Len(s.order) THEN t.order[i] = s.order[i] ELSE ~t.order[i].reorder
    /\ ~appending => t.order = s.order

(* A round that adds conditions, or appends to the order.                  *)
LEMMA AddingRound ==
    ASSUME NEW edits \in Seq(Edits), NEW stmt \in Statements, NEW appending \in BOOLEAN,
           \A i \in DOMAIN edits : edits[i] = "where" \/ (edits[i] = "order" /\ appending)
    PROVE  Adds(RunScopes(stmt, edits), stmt, appending)
  <1>. DEFINE n == Len(edits)
             S == [k \in 0..n |-> {t \in Statements : Adds(t, stmt, appending)}]
  <1>1. n \in Nat /\ DOMAIN edits = 1..n /\ \A i \in 1..n : edits[i] \in Edits
    OBVIOUS
  <1>. HIDE DEF n
  <1>2. stmt \in S[0]
    <2>1. Len(stmt.order) \in Nat
      BY DEF Statements
    <2>2. Adds(stmt, stmt, appending)
      BY <2>1 DEF Adds, SameBut
    <2>. QED
      BY <1>1, <2>2
  <1>3. ASSUME NEW k \in 1..n, NEW s \in S[k - 1] PROVE Edit(s, edits[k]) \in S[k]
    <2>1. k - 1 \in 0..n /\ k \in 0..n
      BY <1>1
    <2>2. s \in Statements /\ Adds(s, stmt, appending)
      BY <2>1
    <2>. DEFINE t == Edit(s, edits[k])
    <2>n. edits[k] = "where" \/ (edits[k] = "order" /\ appending)
      BY <1>1
    <2>3. t \in Statements /\ SameBut(t, s)
      BY <1>1, <2>2, <2>n, EditSet
    <2>4. CASE edits[k] = "where"
      <3>1. /\ t.order = s.order /\ (t.expression <=> s.expression)
            /\ t.limit = s.limit /\ t.offset = s.offset
        BY <1>1, <2>2, <2>4, EditSet
      <3>. HIDE DEF t
      <3>2. Adds(t, stmt, appending)
        BY <2>2, <2>3, <3>1 DEF Adds, SameBut
      <3>. QED
        BY <2>1, <2>3, <3>2 DEF t
    <2>5. CASE edits[k] = "order" /\ appending
      <3>. DEFINE c == Column("key", FALSE)
      <3>1. t.order = s.order \o <<c>> /\ ~t.expression /\ t.limit = s.limit /\ t.offset = s.offset
        BY <1>1, <2>2, <2>5, EditSet
      <3>2. c \in Columns /\ ~c.reorder
        BY ColumnTyped
      <3>. HIDE DEF t, c
      <3>3. s.order \in Seq(Columns) /\ stmt.order \in Seq(Columns)
        BY <2>2 DEF Statements
      <3>4. /\ Len(t.order) = Len(s.order) + 1
            /\ \A i \in 1..Len(s.order) : t.order[i] = s.order[i]
            /\ t.order[Len(s.order) + 1] = c
        BY <3>1, <3>2, <3>3
      <3>5. Len(s.order) \in Nat /\ Len(stmt.order) \in Nat
        BY <3>3
      <3>6. /\ Len(stmt.order) <= Len(s.order)
            /\ \A i \in 1..Len(s.order) :
                IF i <= Len(stmt.order) THEN s.order[i] = stmt.order[i] ELSE ~s.order[i].reorder
        BY <2>2 DEF Adds
      <3>. DEFINE Kept(i, u) ==
             IF i <= Len(stmt.order) THEN u.order[i] = stmt.order[i] ELSE ~u.order[i].reorder
      <3>7. Len(stmt.order) <= Len(t.order) /\ \A i \in 1..Len(t.order) : Kept(i, t)
        <4>1. ASSUME NEW i \in 1..Len(s.order) PROVE Kept(i, t)
          BY <3>4, <3>6
        <4>2. Kept(Len(s.order) + 1, t)
          BY <3>2, <3>4, <3>5, <3>6
        <4>. HIDE DEF Kept
        <4>. QED
          BY <3>4, <3>5, <3>6, <4>1, <4>2
      <3>8. Adds(t, stmt, appending)
        BY <2>2, <2>3, <2>5, <3>1, <3>7 DEF Adds, SameBut
      <3>. QED
        BY <2>1, <2>3, <3>8 DEF t
    <2>. QED
      BY <2>n, <2>4, <2>5
  <1>4. RunScopes(stmt, edits) \in S[n]
    <2>. HIDE DEF S
    <2>. QED
      BY <1>2, <1>3, Rounds DEF n
  <1>. QED
    BY <1>1, <1>4

(* What the scopes of the package set, whatever the statement held.        *)
LEMMA ApplySet ==
    ASSUME NEW s \in Statements, NEW order \in Seq(Columns), NEW size \in Nat \ {0},
           NEW offset \in Int, \E i \in DOMAIN order : order[i].reorder
    PROVE  LET t == applyPaginationScope(s, order, size, offset)
           IN  /\ t \in Statements /\ SameBut(t, s) /\ (t.where <=> s.where)
               /\ t.order = order /\ ~t.expression /\ t.limit = size
               /\ offset >= 0 => t.offset = offset
  <1>. DEFINE a == OrderBy(s, order, FALSE)
             b == Limit(a, size)
             d == Offset(b, noLimit)
             e == Offset(d, offset)
  <1>1. /\ a \in Statements /\ SameBut(a, s) /\ (a.where <=> s.where)
        /\ a.order = order /\ ~a.expression
    BY OrderSet
  <1>n. size \in Int /\ size # 0 /\ noLimit \in Int /\ noLimit # 0 /\ noLimit < 0
    BY DEF noLimit
  <1>. HIDE DEF a, e
  <1>2. /\ b \in Statements /\ SameBut(b, a) /\ (b.where <=> a.where)
        /\ b.order = a.order /\ (b.expression <=> a.expression) /\ b.limit = size
    BY <1>n, <1>1, LimitSet
  <1>. HIDE DEF b
  <1>3. /\ d \in Statements /\ SameBut(d, b) /\ (d.where <=> b.where)
        /\ d.order = b.order /\ (d.expression <=> b.expression) /\ d.limit = b.limit
        /\ d.offset = 0
    BY <1>n, <1>2, OffsetSet
  <1>. HIDE DEF d
  <1>4. /\ e \in Statements /\ SameBut(e, d) /\ (e.where <=> d.where)
        /\ e.order = d.order /\ (e.expression <=> d.expression) /\ e.limit = d.limit
        /\ e.offset = IF offset = 0 THEN d.offset ELSE IF offset < 0 THEN 0 ELSE offset
    BY <1>3, OffsetSet DEF e
  <1>5. e = applyPaginationScope(s, order, size, offset)
    BY DEF applyPaginationScope, a, b, d, e
  <1>. QED
    BY <1>1, <1>2, <1>3, <1>4, <1>5 DEF SameBut

(* A statement without order, limit and offset, the rest as it was.        *)
LEMMA StripSet ==
    ASSUME NEW s \in Statements
    PROVE  LET t == stripPaginationScope(s)
           IN  /\ t \in Statements /\ SameBut(t, s) /\ (t.where <=> s.where)
               /\ t.order = << >> /\ ~t.expression /\ t.limit = noLimit /\ t.offset = 0
  <1>. DEFINE a == [s EXCEPT !.order = << >>, !.expression = FALSE]
             b == Limit(a, noLimit)
             d == Offset(b, noLimit)
  <1>1. /\ a \in Statements /\ SameBut(a, s) /\ (a.where <=> s.where)
        /\ a.order = << >> /\ ~a.expression
    <2>1. << >> \in Seq(Columns)
      OBVIOUS
    <2>2. a \in Statements
      BY <2>1 DEF Statements
    <2>. QED
      BY <2>2 DEF Statements, SameBut
  <1>. HIDE DEF a
  <1>2. /\ b \in Statements /\ SameBut(b, a) /\ (b.where <=> a.where)
        /\ b.order = a.order /\ (b.expression <=> a.expression) /\ b.limit = noLimit
    BY <1>1, LimitSet DEF noLimit
  <1>. HIDE DEF b
  <1>3. /\ d \in Statements /\ SameBut(d, b) /\ (d.where <=> b.where)
        /\ d.order = b.order /\ (d.expression <=> b.expression) /\ d.limit = b.limit
        /\ d.offset = 0
    BY <1>2, OffsetSet DEF noLimit
  <1>4. d = stripPaginationScope(s)
    BY DEF stripPaginationScope, a, b
  <1>. HIDE DEF d
  <1>. QED
    BY <1>1, <1>2, <1>3, <1>4 DEF SameBut

-----------------------------------------------------------------------------
(* An enumeration of a finite set lists every element once.                *)
LEMMA Enumerates ==
    ASSUME NEW S, IsFiniteSet(S), NEW s \in SetToSeqs(S)
    PROVE  /\ Cardinality(S) \in Nat /\ Len(s) = Cardinality(S)
           /\ s \in Seq(S) /\ s \in [1..Cardinality(S) -> S]
           /\ \A i, j \in 1..Cardinality(S) : s[i] = s[j] => i = j
           /\ \A x \in S : \E i \in 1..Cardinality(S) : s[i] = x
  <1>. DEFINE n == Cardinality(S)
  <1>1. n \in Nat
    BY FS_CardinalityType
  <1>2. s \in [1..n -> S] /\ \A i, j \in 1..n : i # j => s[i] # s[j]
    BY DEF SetToSeqs
  <1>3. IsFiniteSet(1..n) /\ Cardinality(1..n) = n
    BY <1>1, FS_Interval
  <1>4. s \in Injection(1..n, S)
    BY <1>2 DEF Injection, IsInjective
  <1>5. s \in Surjection(1..n, S)
    BY <1>3, <1>4, FS_Injection
  <1>6. \A x \in S : \E i \in 1..n : s[i] = x
    BY <1>5 DEF Surjection
  <1>. HIDE DEF n
  <1>7. s \in Seq(S) /\ Len(s) = n
    BY <1>1, <1>2
  <1>. QED
    BY <1>1, <1>2, <1>6, <1>7 DEF n

(* There is one enumeration in a strict order.                             *)
LEMMA OrderedOnce ==
    ASSUME NEW S, IsFiniteSet(S), NEW sort, NEW s \in SetToSeqs(S), NEW t \in SetToSeqs(S),
           \A x, y \in S : ~(Before(x, y, sort) /\ Before(y, x, sort)),
           InOrder(s, sort), InOrder(t, sort)
    PROVE  s = t
  <1>. DEFINE n == Cardinality(S)
  <1>0. ASSUME NEW u \in SetToSeqs(S)
        PROVE  /\ n \in Nat
               /\ u \in [1..n -> S]
               /\ \A i, j \in 1..n : u[i] = u[j] => i = j
               /\ \A x \in S : \E i \in 1..n : u[i] = x
    <2>1. n \in Nat /\ u \in [1..n -> S]
      BY Enumerates
    <2>2. \A i, j \in 1..n : u[i] = u[j] => i = j
      BY Enumerates
    <2>3. \A x \in S : \E i \in 1..n : u[i] = x
      BY Enumerates
    <2>. QED
      BY <2>1, <2>2, <2>3
  <1>. HIDE DEF n
  <1>1. /\ n \in Nat
        /\ s \in [1..n -> S]
        /\ \A i, j \in 1..n : s[i] = s[j] => i = j
        /\ \A x \in S : \E i \in 1..n : s[i] = x
    BY <1>0
  <1>n. /\ t \in [1..n -> S]
        /\ \A i, j \in 1..n : t[i] = t[j] => i = j
        /\ \A x \in S : \E i \in 1..n : t[i] = x
    BY <1>0
  <1>2. /\ \A i, j \in 1..n : i < j => Before(s[i], s[j], sort)
        /\ \A i, j \in 1..n : i < j => Before(t[i], t[j], sort)
    BY <1>1, <1>n DEF InOrder
  <1>. DEFINE T == {i \in 1..n : s[i] # t[i]}
  <1>. SUFFICES ASSUME s # t PROVE FALSE
    OBVIOUS
  <1>t. T # {}
    <2>1. \E i \in 1..n : s[i] # t[i]
      BY <1>1, <1>n
    <2>. QED
      BY <2>1
  <1>3. PICK m \in T : \A k \in T : m <= k
    <2>1. T \subseteq Nat
      BY <1>1
    <2>. HIDE DEF T
    <2>. QED
      BY <1>t, <2>1, Least
  <1>4. m \in 1..n /\ s[m] # t[m] /\ \A k \in 1..n : k < m => s[k] = t[k]
    BY <1>1, <1>3
  <1>5. PICK i \in 1..n : t[i] = s[m]
    BY <1>1, <1>n, <1>4
  <1>6. PICK j \in 1..n : s[j] = t[m]
    BY <1>1, <1>n, <1>4
  <1>7. m < i
    <2>1. i # m
      BY <1>4, <1>5
    <2>2. ~(i < m)
      BY <1>1, <1>4, <1>5
    <2>. QED
      BY <1>1, <1>4, <2>1, <2>2
  <1>8. m < j
    <2>1. j # m
      BY <1>4, <1>6
    <2>2. ~(j < m)
      <3>. SUFFICES ASSUME j < m PROVE FALSE
        OBVIOUS
      <3>1. s[j] = t[j]
        BY <1>4
      <3>2. t[j] = t[m]
        BY <1>6, <3>1
      <3>. QED
        BY <1>n, <1>4, <2>1, <3>2
    <2>. QED
      BY <1>1, <1>4, <2>1, <2>2
  <1>9. Before(t[m], s[m], sort)
    BY <1>2, <1>4, <1>5, <1>7
  <1>10. Before(s[m], t[m], sort)
    BY <1>2, <1>4, <1>6, <1>8
  <1>. QED
    BY <1>1, <1>n, <1>4, <1>9, <1>10

(* What a call is asked for is a finite set of numbers, no larger than the *)
(* table, which its order orders strictly.                                 *)
LEMMA AskedSet ==
    ASSUME NEW rows, rows \subseteq Rows, NEW sort
    PROVE  LET S == AskedFor(rows)
           IN  /\ IsFiniteSet(S) /\ S \subseteq Nat
               /\ Cardinality(S) \in 0..MaxTotal
               /\ \A x, y \in S : ~(Before(x, y, sort) /\ Before(y, x, sort))
  <1>. DEFINE S == AskedFor(rows)
             found == IF Where THEN rows \cap Matching ELSE rows
             keys == {Key[r] : r \in found}
  <1>0. Rows \subseteq Nat /\ Key \in [Rows -> Nat]
    BY TableAssumption
  <1>1. found \subseteq Rows
    OBVIOUS
  <1>2. S = IF Keyed THEN keys ELSE found
    BY DEF AskedFor
  <1>. HIDE DEF found
  <1>3. IsFiniteSet(found) /\ Cardinality(found) <= Cardinality(Rows) /\ Cardinality(found) \in Nat
    BY <1>1, TableAssumption, FS_Subset, FS_CardinalityType
  <1>4. IsFiniteSet(keys) /\ Cardinality(keys) <= Cardinality(found) /\ Cardinality(keys) \in Nat
    <2>. DEFINE f == [r \in found |-> Key[r]]
    <2>1. f \in Surjection(found, keys)
      BY DEF Surjection
    <2>2. IsFiniteSet(keys) /\ Cardinality(keys) <= Cardinality(found)
      <3>. HIDE DEF f, keys
      <3>. QED
        BY <1>3, <2>1, FS_Surjection
    <2>. HIDE DEF keys
    <2>. QED
      BY <2>2, FS_CardinalityType
  <1>5. keys \subseteq Nat /\ found \subseteq Nat
    BY <1>0, <1>1
  <1>6. \A x, y \in S : ~(Before(x, y, sort) /\ Before(y, x, sort))
    <2>1. CASE Keyed
      BY <1>2, <1>5, <2>1 DEF Before
    <2>2. CASE ~Keyed
      <3>1. \A x \in S : x \in Nat /\ Key[x] \in Nat
        BY <1>0, <1>1, <1>2, <2>2
      <3>. QED
        BY <3>1 DEF Before
    <2>. QED
      BY <2>1, <2>2
  <1>7. Cardinality(Rows) \in Nat /\ Cardinality(Rows) <= MaxTotal /\ MaxTotal \in Nat
    BY TableAssumption, MaxTotalAssumption, FS_CardinalityType
  <1>8. IsFiniteSet(S) /\ S \subseteq Nat /\ Cardinality(S) \in 0..MaxTotal
    <2>. HIDE DEF keys, S
    <2>. QED
      BY <1>2, <1>3, <1>4, <1>5, <1>7
  <1>. QED
    BY <1>6, <1>8

(* So an enumeration in the order asked for is the one asked for.          *)
LEMMA AskedIs ==
    ASSUME NEW rows, rows \subseteq Rows, NEW sort, NEW s \in SetToSeqs(AskedFor(rows)),
           InOrder(s, sort)
    PROVE  Asked(rows, sort) = s
  <1>1. /\ Asked(rows, sort) \in SetToSeqs(AskedFor(rows))
        /\ InOrder(Asked(rows, sort), sort)
    BY DEF Asked
  <1>2. /\ IsFiniteSet(AskedFor(rows))
        /\ \A x, y \in AskedFor(rows) : ~(Before(x, y, sort) /\ Before(y, x, sort))
    BY AskedSet
  <1>. QED
    BY <1>1, <1>2, OrderedOnce

(* A slice holds at most limit elements, those from the offset on.         *)
LEMMA SliceOf ==
    ASSUME NEW S, NEW s \in Seq(S), NEW limit \in Nat \ {0}, NEW offset \in Nat
    PROVE  LET t == Slice(s, limit, offset)
           IN  /\ t \in Seq(S) /\ Len(t) <= limit
               /\ \A i \in 1..Len(t) : t[i] = s[offset + i] /\ offset + i \in 1..Len(s)
  <1>. DEFINE m == offset + 1
             n == Lesser(offset + limit, Len(s))
             t == SubSeq(s, m, n)
  <1>1. t = Slice(s, limit, offset)
    <2>1. ~(limit <= 0)
      OBVIOUS
    <2>. QED
      BY <2>1, Zenon DEF Slice
  <1>2. m \in Nat \ {0} /\ n \in Nat /\ n <= Len(s) /\ n <= offset + limit /\ Len(s) \in Nat
    BY DEF Lesser
  <1>3. \A i \in m..n : s[i] \in S /\ i \in 1..Len(s)
    <2>. HIDE DEF m, n
    <2>1. \A i \in m..n : i \in 1..Len(s)
      BY <1>2
    <2>. QED
      BY <2>1, ElementOfSeq
  <1>4. /\ t \in Seq(S) /\ Len(t) = IF m <= n THEN n - m + 1 ELSE 0
        /\ \A i \in 1..(n - m + 1) : t[i] = s[m + i - 1]
    <2>. HIDE DEF m, n
    <2>1. m \in Int /\ n \in Int /\ \A i \in m..n : s[i] \in S
      BY <1>2, <1>3
    <2>. QED
      BY <2>1, SubSeqProperties
  <1>. HIDE DEF n, t
  <1>5. Len(t) <= limit
    BY <1>2, <1>4
  <1>6. ASSUME NEW i \in 1..Len(t) PROVE t[i] = s[offset + i] /\ offset + i \in 1..Len(s)
    <2>1. i \in 1..(n - m + 1) /\ m + i - 1 = offset + i /\ offset + i \in m..n
      BY <1>2, <1>4
    <2>. QED
      BY <1>3, <1>4, <2>1
  <1>. QED
    BY <1>1, <1>4, <1>5, <1>6

(* The order asked of the statement.                                       *)
LEMMA AskedOrder ==
    ASSUME NEW sort \in {None, "id", "key"}, NEW restricted \in BOOLEAN
    PROVE  LET o == buildOrder(sort, restricted)
           IN  /\ o \in Seq(Columns) /\ \E i \in DOMAIN o : o[i].reorder
               /\ IF sort = "key" /\ ~restricted
                  THEN o = <<Column("key", TRUE), Column("id", FALSE)>>
                  ELSE Len(o) = 1 /\ o[1].name = IF sort = None THEN "id" ELSE sort
  <1>1. /\ Column("id", TRUE) \in Columns /\ Column("id", TRUE).reorder
        /\ Column("key", TRUE) \in Columns /\ Column("key", TRUE).reorder
        /\ Column("id", FALSE) \in Columns
        /\ Column("id", TRUE).name = "id" /\ Column("key", TRUE).name = "key"
    BY ColumnTyped
  <1>4. CASE sort = "key" /\ ~restricted
    <2>1. buildOrder(sort, restricted) = <<Column("key", TRUE), Column("id", FALSE)>>
      BY <1>4 DEF buildOrder, None
    <2>. DEFINE c == Column("key", TRUE)
               d == Column("id", FALSE)
    <2>3. c \in Columns /\ d \in Columns /\ c.reorder
      BY <1>1
    <2>. HIDE DEF c, d
    <2>4. <<c, d>> \in Seq(Columns) /\ 1 \in DOMAIN <<c, d>> /\ <<c, d>>[1].reorder
      BY <2>3
    <2>. QED
      BY <1>4, <2>1, <2>4 DEF c, d
  <1>5. CASE ~(sort = "key" /\ ~restricted)
    <2>. DEFINE c == Column(IF sort = None THEN "id" ELSE sort, TRUE)
    <2>1. buildOrder(sort, restricted) = <<c>>
      BY <1>5 DEF buildOrder, None
    <2>2. c \in Columns /\ c.reorder /\ c.name = IF sort = None THEN "id" ELSE sort
      BY <1>1 DEF None
    <2>. HIDE DEF c
    <2>3. <<c>> \in Seq(Columns) /\ Len(<<c>>) = 1 /\ <<c>>[1] = c /\ 1 \in DOMAIN <<c>>
      BY <2>2
    <2>. QED
      BY <1>5, <2>1, <2>2, <2>3
  <1>. QED
    BY <1>4, <1>5

(* A prefix, position by position.                                         *)
LEMMA PrefixHas ==
    ASSUME NEW s \in Seq(Columns), NEW t \in Seq(Columns)
    PROVE  IsPrefix(s, t) <=> Len(s) <= Len(t) /\ \A i \in 1..Len(s) : t[i] = s[i]
  <1>1. Len(s) \in Nat /\ Len(t) \in Nat /\ SubSeq(s, 1, Len(s)) = s
    BY SubSeqFull
  <1>2. CASE Len(s) <= Len(t)
    <2>. DEFINE u == SubSeq(t, 1, Len(s))
    <2>1. \A i \in 1..Len(s) : t[i] \in Columns
      BY <1>1, <1>2
    <2>2. u \in Seq(Columns) /\ Len(u) = Len(s) /\ \A i \in 1..Len(s) : u[i] = t[i]
      <3>1. 1 \in Int /\ Len(s) \in Int /\ Len(s) - 1 + 1 = Len(s)
        BY <1>1
      <3>2. /\ u \in Seq(Columns) /\ Len(u) = IF 1 <= Len(s) THEN Len(s) - 1 + 1 ELSE 0
            /\ \A i \in 1..(Len(s) - 1 + 1) : u[i] = t[1 + i - 1]
        BY <2>1, <3>1, SubSeqProperties
      <3>. HIDE DEF u
      <3>. QED
        BY <1>1, <3>2
    <2>3. s = u <=> \A i \in 1..Len(s) : t[i] = s[i]
      <3>. HIDE DEF u
      <3>. QED
        BY <2>2, SeqEqual
    <2>. QED
      BY <1>1, <1>2, <2>3 DEF IsPrefix
  <1>3. CASE ~(Len(s) <= Len(t))
    BY <1>3 DEF IsPrefix
  <1>. QED
    BY <1>2, <1>3

(* What the order of the statement begins with.                            *)
LEMMA BeginsAsAsked ==
    ASSUME NEW stmt \in Statements, NEW sort \in {None, "id", "key"}, NEW restricted \in BOOLEAN,
           restricted => sort # None, orderIntact(stmt, buildOrder(sort, restricted), restricted)
    PROVE  /\ ~stmt.expression /\ 1 \in DOMAIN stmt.order
           /\ restricted => Len(stmt.order) = 1
           /\ ~restricted /\ sort # "key" => stmt.order[1].name = "id"
           /\ ~restricted /\ sort = "key" =>
                /\ 2 \in DOMAIN stmt.order
                /\ stmt.order[1].name = "key" /\ stmt.order[2].name = "id"
  <1>. DEFINE o == buildOrder(sort, restricted)
  <1>1. /\ o \in Seq(Columns)
        /\ IF sort = "key" /\ ~restricted THEN o = <<Column("key", TRUE), Column("id", FALSE)>>
           ELSE Len(o) = 1 /\ o[1].name = IF sort = None THEN "id" ELSE sort
    BY AskedOrder
  <1>2. stmt.order \in Seq(Columns) /\ ~stmt.expression
    BY DEF orderIntact, Statements
  <1>3. IF restricted THEN stmt.order = o ELSE IsPrefix(o, stmt.order)
    BY DEF orderIntact
  <1>. HIDE DEF o
  <1>4. Len(o) <= Len(stmt.order) /\ \A i \in 1..Len(o) : stmt.order[i] = o[i]
    <2>1. CASE restricted
      BY <1>1, <1>3, <2>1
    <2>2. CASE ~restricted
      BY <1>1, <1>2, <1>3, <2>2, PrefixHas
    <2>. QED
      BY <2>1, <2>2
  <1>5. CASE sort = "key" /\ ~restricted
    <2>. DEFINE c == Column("key", TRUE)
               d == Column("id", FALSE)
    <2>1. c.name = "key" /\ d.name = "id"
      BY ColumnTyped
    <2>2. o = <<c, d>>
      BY <1>1, <1>5
    <2>. HIDE DEF c, d
    <2>3. Len(o) = 2 /\ o[1].name = "key" /\ o[2].name = "id"
      BY <2>1, <2>2
    <2>. QED
      BY <1>2, <1>4, <1>5, <2>3
  <1>6. CASE ~(sort = "key" /\ ~restricted)
    <2>1. Len(o) = 1 /\ o[1].name = IF sort = None THEN "id" ELSE sort
      BY <1>1, <1>6
    <2>. QED
      BY <1>2, <1>3, <1>4, <1>6, <2>1
  <1>. QED
    BY <1>5, <1>6

(* A statement that kept what the package set answers with the slice of    *)
(* what was asked for, in the order asked for.                             *)
LEMMA PageAnswer ==
    ASSUME table \subseteq Rows, NEW stmt \in Statements, NEW sort \in {None, "id", "key"},
           Keyed \in BOOLEAN, Keyed => sort # None,
           stmt.group \/ stmt.distinct <=> Keyed, stmt.where <=> Where,
           orderIntact(stmt, buildOrder(sort, Keyed), Keyed),
           NEW items \in Rowsets(stmt)
    PROVE  \E s \in SetToSeqs(AskedFor(table)) :
               InOrder(s, sort) /\ items = Slice(s, stmt.limit, stmt.offset)
  <1>1. Results(stmt) = AskedFor(table)
    BY DEF Results, Found, AskedFor
  <1>2. /\ ~stmt.expression /\ 1 \in DOMAIN stmt.order
        /\ Keyed => Len(stmt.order) = 1
        /\ ~Keyed /\ sort # "key" => stmt.order[1].name = "id"
        /\ ~Keyed /\ sort = "key" =>
             /\ 2 \in DOMAIN stmt.order
             /\ stmt.order[1].name = "key" /\ stmt.order[2].name = "id"
    BY BeginsAsAsked
  <1>3. stmt.order \in Seq(Columns)
    BY DEF Statements
  <1>. DEFINE keyed == stmt.group \/ stmt.distinct
  <1>4. PICK s \in SetToSeqs(AskedFor(table)) :
          /\ items = Slice(s, stmt.limit, stmt.offset)
          /\ \A i, j \in DOMAIN s : i < j => ~Precedes(s[j], s[i], stmt.order, keyed)
    BY <1>1, <1>2 DEF Rowsets, Sorted
  <1>. DEFINE n == Cardinality(AskedFor(table))
  <1>5. /\ n \in Nat /\ DOMAIN s = 1..n
        /\ \A i \in 1..n : s[i] \in AskedFor(table)
        /\ \A i, j \in 1..n : s[i] = s[j] => i = j
    <2>1. IsFiniteSet(AskedFor(table))
      BY AskedSet
    <2>. QED
      BY <2>1, Enumerates
  <1>. HIDE DEF n, keyed
  <1>6. ASSUME NEW i \in 1..n, NEW j \in 1..n, i < j PROVE Before(s[i], s[j], sort)
    <2>. DEFINE x == s[i]
               y == s[j]
    <2>1. x # y /\ ~Precedes(y, x, stmt.order, keyed)
      BY <1>4, <1>5, <1>6
    <2>2. x \in AskedFor(table) /\ y \in AskedFor(table) /\ x \in Nat /\ y \in Nat
      BY <1>5, AskedSet
    <2>. HIDE DEF x, y
    <2>3. CASE Keyed
      <3>1. keyed
        BY <2>3 DEF keyed
      <3>2. ~(y < x)
        BY <1>2, <1>3, <2>1, <3>1 DEF Precedes
      <3>. QED
        BY <2>1, <2>2, <2>3, <3>2 DEF Before, x, y
    <2>4. CASE ~Keyed
      <3>1. ~keyed /\ x \in Rows /\ y \in Rows
        BY <2>2, <2>4 DEF AskedFor, keyed
      <3>2. CASE sort # "key"
        <4>1. ~(y < x)
          BY <1>2, <2>1, <2>4, <3>1, <3>2 DEF Precedes
        <4>. QED
          BY <2>1, <2>2, <3>2, <4>1 DEF Before, x, y
      <3>3. CASE sort = "key"
        <4>1. ~(Key[y] < Key[x])
          BY <1>2, <2>1, <2>4, <3>1, <3>3 DEF Precedes
        <4>2. ~(y < x /\ Key[y] = Key[x])
          BY <1>2, <2>1, <2>4, <3>1, <3>3 DEF Precedes
        <4>3. Key[x] \in Nat /\ Key[y] \in Nat
          BY <3>1, TableAssumption
        <4>4. Before(x, y, sort)
          BY <2>1, <2>2, <2>4, <3>3, <4>1, <4>2, <4>3 DEF Before
        <4>. QED
          BY <4>4 DEF x, y
      <3>. QED
        BY <3>2, <3>3
    <2>. QED
      BY <2>3, <2>4
  <1>7. InOrder(s, sort)
    BY <1>5, <1>6 DEF InOrder
  <1>. QED
    BY <1>4, <1>7

(* A statement that kept what the package set counts what was asked for.   *)
LEMMA CountAnswer ==
    ASSUME table \subseteq Rows, NEW stmt \in Statements,
           stmt.group <=> handle.group, ~stmt.distinct, ~handle.distinct,
           stmt.where <=> Where, stmt.limit = noLimit, stmt.offset = 0
    PROVE  Counted(stmt) = Cardinality(AskedFor(table))
  <1>1. Results(stmt) = AskedFor(table)
    BY DEF Results, Found, AskedFor, Keyed
  <1>2. CASE ~stmt.group
    BY <1>1, <1>2 DEF Counted
  <1>3. CASE stmt.group
    <2>. DEFINE n == Cardinality(AskedFor(table))
    <2>1. n \in Nat
      BY AskedSet, FS_CardinalityType
    <2>2. Counted(stmt) = Cardinality({i \in 1..n :
                              i > stmt.offset /\ (stmt.limit > 0 => i <= stmt.offset + stmt.limit)})
      BY <1>1, <1>3 DEF Counted
    <2>. HIDE DEF n
    <2>3. {i \in 1..n : i > stmt.offset /\ (stmt.limit > 0 => i <= stmt.offset + stmt.limit)} = 1..n
      BY <2>1 DEF noLimit
    <2>4. Cardinality(1..n) = n
      BY <2>1, FS_Interval
    <2>. QED
      BY <2>2, <2>3, <2>4 DEF n
  <1>. QED
    BY <1>2, <1>3

-----------------------------------------------------------------------------
(* The records of the calls, and the types of the variables.               *)
CallRecords ==
    [pc : {"idle", "total", "data", "done"}, stmt : Statements \cup {NoCall.stmt},
     sort : {None, "id", "key"}, given : {NotGiven} \cup 0..MaxTotal, asked : Int,
     size : 1..MaxInt, order : Seq(Columns), total : 0..MaxTotal, page : 0..MaxInt,
     items : Seq(Nat), err : {None, "input", "deferred", "sort", "total", "query"},
     rowsRead : Nat, countTable : SUBSET Rows, dataTable : SUBSET Rows]

TypeOK ==
    /\ table \subseteq Rows /\ writes \in Nat
    /\ handle \in Chain
    /\ scopes \in [first : Seq(Edits), nested : Seq(Edits)]
    /\ call \in [Callers -> CallRecords]

(* The statement of a call, until the scopes run on it.                    *)
OwnStatement == Statement(handle)

(* A call's own statement is the handle's: the projection, the WHERE and   *)
(* the raw flag the caller chained.                                        *)
LEMMA OwnIs ==
    ASSUME TypeOK
    PROVE  /\ OwnStatement \in Statements
           /\ OwnStatement.group <=> handle.group
           /\ OwnStatement.distinct <=> handle.distinct
           /\ OwnStatement.where <=> handle.where
           /\ OwnStatement.raw <=> handle.raw
           /\ OwnStatement.selectClause = "chain"
  <1>. DEFINE key == Column("key", FALSE)
             o   == IF handle.clauses THEN <<key>> ELSE << >>
             n   == IF handle.clauses THEN 1 ELSE 0
  <1>1. key \in Columns
    BY ColumnTyped
  <1>2. OwnStatement = [where |-> handle.where, group |-> handle.group,
                        distinct |-> handle.distinct, selects |-> "chain",
                        selectClause |-> "chain", raw |-> handle.raw, order |-> o,
                        expression |-> FALSE, limit |-> n, offset |-> n]
    BY DEF OwnStatement, Statement, key
  <1>. HIDE DEF key
  <1>3. o \in Seq(Columns) /\ n \in Int
    BY <1>1
  <1>4. /\ handle.where \in BOOLEAN /\ handle.group \in BOOLEAN
        /\ handle.distinct \in BOOLEAN /\ handle.raw \in BOOLEAN
    BY DEF TypeOK, Chain
  <1>. HIDE DEF o, n
  <1>. QED
    BY <1>2, <1>3, <1>4 DEF Statements

(* The projection of a statement, and what the guard compares.             *)
LEMMA ShapeIs ==
    ASSUME NEW s \in Statements, NEW t \in Statements
    PROVE  LET p == projectionOf(s)
           IN  /\ p.restricted <=> s.distinct \/ s.group
               /\ p.restricted \in BOOLEAN
               /\ p.unreliableCount <=> s.distinct
               /\ p.group <=> s.group
               /\ shapeIntact(p, t) <=>
                    (s.distinct <=> t.distinct) /\ (s.group <=> t.group) /\ s.selects = t.selects
               /\ dataIntact(p, t) <=> shapeIntact(p, t) /\ s.selectClause = t.selectClause
  <1>. DEFINE p == projectionOf(s)
  <1>1. /\ p.distinct = s.distinct /\ p.group = s.group /\ p.selects = s.selects
        /\ p.selectClause = s.selectClause
        /\ p.restricted <=> s.distinct \/ s.group
        /\ p.restricted \in BOOLEAN
        /\ p.unreliableCount = s.distinct
    BY DEF projectionOf
  <1>2. /\ s.distinct \in BOOLEAN /\ t.distinct \in BOOLEAN
        /\ s.group \in BOOLEAN /\ t.group \in BOOLEAN
    BY DEF Statements
  <1>. HIDE DEF p
  <1>. QED
    BY <1>1, <1>2 DEF shapeIntact, dataIntact, p

(* The statement of the count after both rounds of scopes.                 *)
LEMMA CountStatement ==
    ASSUME TypeOK, NEW base \in Statements, base.where <=> handle.where
    PROVE  LET t == RunScopes(stripPaginationScope(RunScopes(base, scopes.first)), scopes.nested)
           IN  /\ t \in Statements /\ (t.where <=> Where)
               /\ Harmless => /\ SameBut(t, base) /\ countOrderSafe(t)
                              /\ paginationIntact(t, noLimit, 0)
  <1>. DEFINE first  == RunScopes(base, scopes.first)
             strip  == stripPaginationScope(first)
             t      == RunScopes(strip, scopes.nested)
  <1>0. scopes.first \in Seq(Edits) /\ scopes.nested \in Seq(Edits)
    BY DEF TypeOK
  <1>1. /\ first \in Statements
        /\ first.where <=> base.where \/ \E i \in DOMAIN scopes.first : scopes.first[i] = "where"
        /\ Harmless => SameBut(first, base)
    BY <1>0, RoundSet, HarmlessRound DEF Harmless
  <1>. HIDE DEF first
  <1>2. /\ strip \in Statements /\ SameBut(strip, first) /\ (strip.where <=> first.where)
        /\ strip.order = << >> /\ ~strip.expression /\ strip.limit = noLimit /\ strip.offset = 0
    BY <1>1, StripSet
  <1>. HIDE DEF strip
  <1>3. /\ t \in Statements
        /\ t.where <=> strip.where \/ \E i \in DOMAIN scopes.nested : scopes.nested[i] = "where"
    BY <1>0, <1>2, RoundSet
  <1>4. ASSUME Harmless PROVE Adds(t, strip, TRUE)
    BY <1>0, <1>2, <1>4, AddingRound DEF Harmless
  <1>. HIDE DEF t
  <1>5. ASSUME Harmless
        PROVE  SameBut(t, base) /\ countOrderSafe(t) /\ paginationIntact(t, noLimit, 0)
    <2>1. SameBut(t, base)
      BY <1>1, <1>2, <1>4, <1>5 DEF Adds, SameBut
    <2>2. t.limit = noLimit /\ t.offset = 0 /\ ~t.expression
      BY <1>2, <1>4, <1>5 DEF Adds
    <2>3. \A i \in 1..Len(t.order) : ~t.order[i].reorder
      BY <1>2, <1>4, <1>5 DEF Adds
    <2>4. DOMAIN t.order = 1..Len(t.order)
      BY <1>3 DEF Statements
    <2>. QED
      BY <2>1, <2>2, <2>3, <2>4 DEF countOrderSafe, paginationIntact
  <1>6. t.where <=> Where
    BY <1>1, <1>2, <1>3 DEF Where
  <1>. QED
    BY <1>3, <1>5, <1>6 DEF t, strip, first

(* The statement of the data query after both rounds of scopes.            *)
LEMMA DataStatement ==
    ASSUME TypeOK, NEW base \in Statements, base.where <=> handle.where,
           NEW order \in Seq(Columns), \E i \in DOMAIN order : order[i].reorder,
           NEW size \in Nat \ {0}, NEW offset \in Nat
    PROVE  LET first == RunScopes(base, scopes.first)
               t     == RunScopes(applyPaginationScope(first, order, size, offset), scopes.nested)
           IN  /\ t \in Statements /\ (t.where <=> Where)
               /\ Harmless => /\ SameBut(t, base) /\ orderIntact(t, order, Keyed)
                              /\ paginationIntact(t, size, offset)
  <1>. DEFINE first == RunScopes(base, scopes.first)
             set   == applyPaginationScope(first, order, size, offset)
             t     == RunScopes(set, scopes.nested)
  <1>0. scopes.first \in Seq(Edits) /\ scopes.nested \in Seq(Edits)
    BY DEF TypeOK
  <1>1. /\ first \in Statements
        /\ first.where <=> base.where \/ \E i \in DOMAIN scopes.first : scopes.first[i] = "where"
        /\ Harmless => SameBut(first, base)
    BY <1>0, RoundSet, HarmlessRound DEF Harmless
  <1>. HIDE DEF first
  <1>2. /\ set \in Statements /\ SameBut(set, first) /\ (set.where <=> first.where)
        /\ set.order = order /\ ~set.expression /\ set.limit = size /\ set.offset = offset
    BY <1>1, ApplySet
  <1>. HIDE DEF set
  <1>3. /\ t \in Statements
        /\ t.where <=> set.where \/ \E i \in DOMAIN scopes.nested : scopes.nested[i] = "where"
    BY <1>0, <1>2, RoundSet
  <1>4. ASSUME Harmless PROVE Adds(t, set, ~Keyed)
    <2>1. Keyed \in BOOLEAN
      BY DEF TypeOK, Keyed, Chain
    <2>2. \A b \in BOOLEAN : (~b) \in BOOLEAN
      OBVIOUS
    <2>. QED
      BY <1>0, <1>2, <1>4, <2>1, <2>2, AddingRound DEF Harmless
  <1>. HIDE DEF t
  <1>5. ASSUME Harmless
        PROVE  SameBut(t, base) /\ orderIntact(t, order, Keyed) /\ paginationIntact(t, size, offset)
    <2>1. SameBut(t, base)
      BY <1>1, <1>2, <1>4, <1>5 DEF Adds, SameBut
    <2>2. t.limit = size /\ t.offset = offset /\ ~t.expression
      BY <1>2, <1>4, <1>5 DEF Adds
    <2>3. Keyed => t.order = order
      BY <1>2, <1>4, <1>5 DEF Adds
    <2>4. t.order \in Seq(Columns) /\ Len(order) \in Nat /\ Len(t.order) \in Nat
      BY <1>3 DEF Statements
    <2>5. Len(order) <= Len(t.order) /\ \A i \in 1..Len(order) : t.order[i] = order[i]
      BY <1>2, <1>4, <1>5, <2>4 DEF Adds
    <2>6. IsPrefix(order, t.order)
      BY <2>4, <2>5, PrefixHas
    <2>. QED
      BY <2>1, <2>2, <2>3, <2>6 DEF orderIntact, paginationIntact
  <1>6. t.where <=> Where
    BY <1>1, <1>2, <1>3 DEF Where
  <1>. QED
    BY <1>3, <1>5, <1>6 DEF t, set, first

-----------------------------------------------------------------------------
(* The inductive invariant.                                                *)

Answered(r) == r.pc = "done" /\ r.err = None

(* What is known of a call at each step: nothing is read or returned       *)
(* before the end, its statement is the handle's and its order the one     *)
(* asked for, its page exists, its total was counted on the whole, and its *)
(* items are that page of an enumeration of what it asked for, of the      *)
(* table as it still is when nobody wrote.                                 *)
Good(r) ==
    /\ r.pc # "done" => r.err = None /\ r.items = << >> /\ r.rowsRead = 0
    /\ r.rowsRead <= r.size
    /\ r.pc # "idle" /\ r.err = None =>
        /\ r.stmt = OwnStatement /\ r.order = buildOrder(r.sort, Keyed)
        /\ Keyed => r.sort # None
    /\ r.pc = "data" => r.total > 0
    /\ r.pc = "data" \/ Answered(r) =>
        /\ r.total > 0 => r.page \in 1..calcTotalPage(r.total, r.size)
        /\ r.given = NotGiven => r.total = Cardinality(AskedFor(r.countTable))
    /\ Answered(r) =>
        IF r.total = 0 THEN r.items = << >>
        ELSE /\ \E s \in SetToSeqs(AskedFor(r.dataTable)) :
                    /\ InOrder(s, r.sort)
                    /\ r.items = Slice(s, r.size, (r.page - 1) * r.size)
             /\ writes = 0 => r.dataTable = table
    /\ r.err = "deferred" => ~Harmless \/ handle.raw

Inv == TypeOK /\ \A c \in Callers : Good(call[c])

-----------------------------------------------------------------------------
(* What is known of a call stays known while the handle and the scopes do, *)
(* and the table does unless somebody wrote.                               *)
LEMMA GoodStays ==
    ASSUME UNCHANGED <<handle, scopes>>, UNCHANGED <<table, writes>> \/ writes' # 0,
           NEW r, Good(r)
    PROVE  Good(r)'
  <1>1. Keyed' = Keyed /\ Where' = Where /\ Harmless' = Harmless /\ OwnStatement' = OwnStatement
    BY DEF Keyed, Where, Harmless, OwnStatement
  <1>2. \A rows : AskedFor(rows)' = AskedFor(rows)
    BY <1>1 DEF AskedFor
  <1>3. \A x, y, sort : Before(x, y, sort)' <=> Before(x, y, sort)
    BY <1>1 DEF Before
  <1>4. \A s, sort : InOrder(s, sort)' <=> InOrder(s, sort)
    BY <1>3 DEF InOrder
  <1>. QED
    BY <1>1, <1>2, <1>4 DEF Good, Answered

(* A step of one call that leaves it as it should.                         *)
LEMMA CallStep ==
    ASSUME Inv, NEW c \in Callers, NEW r \in CallRecords, Good(r), Set(c, r),
           UNCHANGED <<table, writes, handle, scopes>>
    PROVE  Inv'
  <1>1. call' = [call EXCEPT ![c] = r] /\ call \in [Callers -> CallRecords]
    BY DEF Set, Inv, TypeOK
  <1>2. TypeOK'
    BY <1>1 DEF Inv, TypeOK
  <1>3. ASSUME NEW d \in Callers PROVE Good(call[d])'
    <2>1. PICK x : x = call'[d]
      OBVIOUS
    <2>2. Good(x)
      BY <1>1, <2>1 DEF Inv
    <2>3. Good(x)'
      BY <2>2, GoodStays
    <2>. QED
      BY <2>1, <2>3 DEF Good, Answered
  <1>. QED
    BY <1>2, <1>3 DEF Inv

(* The page that follows from a total.                                     *)
LEMMA PageOf ==
    ASSUME NEW r \in CallRecords, NEW total \in 0..MaxTotal
    PROVE  LET q == WithPage(r, total)
           IN  /\ q \in CallRecords
               /\ q.pc = IF total = 0 THEN "done" ELSE "data"
               /\ q.total = total
               /\ total > 0 => q.page \in 1..calcTotalPage(total, r.size)
               /\ q.stmt = r.stmt /\ q.sort = r.sort /\ q.given = r.given /\ q.size = r.size
               /\ q.order = r.order /\ q.items = r.items /\ q.err = r.err
               /\ q.rowsRead = r.rowsRead
               /\ q.countTable = r.countTable /\ q.dataTable = r.dataTable
  <1>. DEFINE tp == calcTotalPage(total, r.size)
             page == clampPage(r.asked, tp)
             q == [r EXCEPT !.total = total, !.page = page,
                            !.pc = IF total = 0 THEN "done" ELSE "data"]
  <1>1. q = WithPage(r, total)
    BY DEF WithPage
  <1>2. r.asked \in Int /\ r.size \in 1..MaxInt /\ MaxInt \in Nat
    BY MaxIntAssumption DEF CallRecords
  <1>3. IF total = 0 THEN tp = 0 ELSE tp \in 1..MaxInt
    <2>1. CASE total = 0
      BY <2>1 DEF calcTotalPage
    <2>2. CASE total # 0
      <3>1. total \in 1..MaxTotal
        BY <2>2, MaxTotalAssumption
      <3>. QED
        BY <1>2, <2>2, <3>1, TotalPages
    <2>. QED
      BY <2>1, <2>2
  <1>. HIDE DEF tp
  <1>4. page \in 0..MaxInt /\ (total > 0 => page \in 1..tp)
    BY <1>2, <1>3 DEF clampPage, Lesser, Greater
  <1>. HIDE DEF page
  <1>5. q \in CallRecords
    BY <1>4 DEF CallRecords
  <1>6. /\ q.pc = IF total = 0 THEN "done" ELSE "data"
        /\ q.total = total /\ q.page = page
        /\ q.stmt = r.stmt /\ q.sort = r.sort /\ q.given = r.given /\ q.size = r.size
        /\ q.order = r.order /\ q.items = r.items /\ q.err = r.err
        /\ q.rowsRead = r.rowsRead
        /\ q.countTable = r.countTable /\ q.dataTable = r.dataTable
    BY DEF CallRecords
  <1>. HIDE DEF q
  <1>. QED
    BY <1>1, <1>4, <1>5, <1>6 DEF tp

(* A call that fails before it has read anything.                          *)
LEMMA FailOf ==
    ASSUME NEW r \in CallRecords, r.pc # "done", Good(r),
           NEW err \in {"input", "deferred", "sort", "total", "query"},
           err = "deferred" => ~Harmless \/ handle.raw
    PROVE  LET q == [r EXCEPT !.pc = "done", !.err = err]
           IN  q \in CallRecords /\ Good(q)
  <1>. DEFINE q == [r EXCEPT !.pc = "done", !.err = err]
  <1>1. q \in CallRecords
    BY DEF CallRecords
  <1>2. /\ q.pc = "done" /\ q.err = err /\ err # None
        /\ q.rowsRead = r.rowsRead /\ q.size = r.size
    BY DEF CallRecords, None
  <1>. HIDE DEF q
  <1>3. Good(q)
    BY <1>2 DEF Good, Answered
  <1>. QED
    BY <1>1, <1>3 DEF q

(* Whether the projection of the handle is restricted.                     *)
LEMMA RestrictedIs ==
    ASSUME TypeOK
    PROVE  /\ Keyed \in BOOLEAN
           /\ projectionOf(OwnStatement).restricted <=> Keyed
  <1>1. Keyed \in BOOLEAN
    BY DEF TypeOK, Keyed, Chain
  <1>2. projectionOf(OwnStatement).restricted <=> OwnStatement.distinct \/ OwnStatement.group
    BY DEF projectionOf
  <1>. QED
    BY <1>1, <1>2, OwnIs DEF Keyed

(* The entry of a call keeps the invariant: what is private to it is built *)
(* from the handle, and a refusal for raw SQL is one of the handle.        *)
LEMMA StartStep ==
    ASSUME Inv, NEW c \in Callers, Start(c)
    PROVE  Inv'
  <1>1. /\ call[c].pc = "idle" /\ call[c] \in CallRecords /\ Good(call[c])
        /\ UNCHANGED <<table, writes, scopes>>
    BY DEF Inv, TypeOK, Start
  <1>2. PICK page \in Pages, size \in Sizes, sort \in Sorts, given \in Totals,
             refused \in BOOLEAN :
        LET stmt == Statement(handle)
            p    == projectionOf(stmt)
            r    == [call[c] EXCEPT !.pc = "total", !.stmt = stmt,
                        !.sort = sort, !.given = given, !.asked = page,
                        !.size = clampPageSize(size, MaxPageSize),
                        !.order = buildOrder(sort, p.restricted)]
        IN  IF handle.error \/ refused THEN Fail(c, call[c], "input")
            ELSE IF stmt.raw THEN Fail(c, r, "deferred")
            ELSE IF p.restricted /\ sort = None THEN Fail(c, r, "sort")
            ELSE Set(c, r)
    BY Zenon DEF Start
  <1>. DEFINE n == clampPageSize(size, MaxPageSize)
             order == buildOrder(sort, projectionOf(OwnStatement).restricted)
             r == [call[c] EXCEPT !.pc = "total", !.stmt = OwnStatement,
                      !.sort = sort, !.given = given, !.asked = page, !.size = n, !.order = order]
  <1>3. \/ Fail(c, call[c], "input")
        \/ Set(c, r) /\ ~(projectionOf(OwnStatement).restricted /\ sort = None)
        \/ \E err \in {"deferred", "sort"} :
              Fail(c, r, err) /\ (err = "deferred" => OwnStatement.raw)
    BY <1>2 DEF OwnStatement
  <1>4. UNCHANGED handle
    BY DEF Start
  <1>5. /\ page \in Int /\ size \in Int /\ sort \in {None, "id", "key"}
        /\ given \in {NotGiven} \cup 0..MaxTotal
    BY CallAssumption
  <1>6. n \in 1..MaxInt
    BY <1>5, CallAssumption, MaxIntAssumption, DefaultAssumption DEF clampPageSize, Lesser
  <1>7. order = buildOrder(sort, Keyed) /\ order \in Seq(Columns)
    <2>1. order = buildOrder(sort, Keyed)
      BY RestrictedIs DEF Inv, buildOrder
    <2>2. buildOrder(sort, Keyed) \in Seq(Columns)
      BY <1>5, RestrictedIs, AskedOrder DEF Inv
    <2>. QED
      BY <2>1, <2>2
  <1>8. OwnStatement \in Statements /\ (OwnStatement.raw <=> handle.raw)
    BY OwnIs DEF Inv
  <1>. HIDE DEF n, order
  <1>9. r \in CallRecords
    <2>. HIDE DEF CallRecords
    <2>1. PICK old : old = call[c]
      OBVIOUS
    <2>2. PICK own : own = OwnStatement
      OBVIOUS
    <2>3. [old EXCEPT !.pc = "total", !.stmt = own, !.sort = sort, !.given = given,
                      !.asked = page, !.size = n, !.order = order] \in CallRecords
      BY <1>1, <1>5, <1>6, <1>7, <1>8, <2>1, <2>2 DEF CallRecords
    <2>. QED
      BY <2>1, <2>2, <2>3
  <1>10. /\ r.pc = "total" /\ r.stmt = OwnStatement /\ r.sort = sort
         /\ r.size = n /\ r.order = order
         /\ r.items = call[c].items /\ r.err = call[c].err /\ r.rowsRead = call[c].rowsRead
    BY <1>1 DEF CallRecords
  <1>11. r.items = << >> /\ r.err = None /\ r.rowsRead = 0 /\ r.rowsRead <= r.size
    BY <1>1, <1>6, <1>10 DEF Good
  <1>. HIDE DEF r
  <1>12. CASE Set(c, r) /\ ~(projectionOf(OwnStatement).restricted /\ sort = None)
    <2>1. Keyed => sort # None
      BY <1>12, RestrictedIs DEF Inv
    <2>2. Good(r)
      BY <1>7, <1>10, <1>11, <2>1 DEF Good, Answered, None
    <2>. QED
      BY <1>1, <1>4, <1>9, <1>12, <2>2, CallStep
  <1>13. ASSUME NEW err \in {"deferred", "sort"}, Fail(c, r, err),
                err = "deferred" => OwnStatement.raw
         PROVE  Inv'
    <2>. DEFINE q == [r EXCEPT !.pc = "done", !.err = err]
    <2>1. q \in CallRecords
      BY <1>9 DEF CallRecords
    <2>2. q.pc = "done" /\ q.err = err /\ q.rowsRead = r.rowsRead /\ q.size = r.size
      BY <1>9 DEF CallRecords
    <2>3. Set(c, q)
      BY <1>13 DEF Fail
    <2>. HIDE DEF q
    <2>4. Good(q)
      BY <1>8, <1>11, <1>13, <2>2 DEF Good, Answered, None
    <2>. QED
      BY <1>1, <1>4, <2>1, <2>3, <2>4, CallStep
  <1>14. CASE Fail(c, call[c], "input")
    <2>. DEFINE q == [call[c] EXCEPT !.pc = "done", !.err = "input"]
    <2>1. q \in CallRecords /\ Good(q)
      BY <1>1, FailOf
    <2>2. Set(c, q)
      BY <1>14 DEF Fail
    <2>. HIDE DEF q
    <2>. QED
      BY <1>1, <1>4, <2>1, <2>2, CallStep
  <1>. QED
    BY <1>3, <1>12, <1>13, <1>14

(* So does a total of the caller.                                          *)
LEMMA TotalGivenStep ==
    ASSUME Inv, NEW c \in Callers, TotalGiven(c)
    PROVE  Inv'
  <1>. DEFINE r == call[c]
             q == WithPage(r, r.given)
  <1>1. /\ r.pc = "total" /\ r.given # NotGiven /\ r \in CallRecords /\ Good(r)
        /\ Set(c, q) /\ UNCHANGED <<table, writes, handle, scopes>>
    BY DEF Inv, TypeOK, TotalGiven
  <1>2. r.given \in 0..MaxTotal /\ MaxTotal \in Nat
    BY <1>1, MaxTotalAssumption DEF CallRecords
  <1>3. /\ q \in CallRecords
        /\ q.pc = IF r.given = 0 THEN "done" ELSE "data"
        /\ q.total = r.given
        /\ r.given > 0 => q.page \in 1..calcTotalPage(r.given, r.size)
        /\ q.stmt = r.stmt /\ q.sort = r.sort /\ q.given = r.given /\ q.size = r.size
        /\ q.order = r.order /\ q.items = r.items /\ q.err = r.err
        /\ q.rowsRead = r.rowsRead
    BY <1>1, <1>2, PageOf
  <1>. HIDE DEF q, r
  <1>4. Good(q)
    BY <1>1, <1>2, <1>3 DEF Good, Answered, None
  <1>. QED
    BY <1>1, <1>3, <1>4, CallStep

(* So does the refusal to count a DISTINCT.                                *)
LEMMA TotalRequiredStep ==
    ASSUME Inv, NEW c \in Callers, TotalRequired(c)
    PROVE  Inv'
  <1>. DEFINE r == call[c]
             q == [r EXCEPT !.pc = "done", !.err = "total"]
  <1>1. /\ r.pc = "total" /\ r \in CallRecords /\ Good(r)
        /\ Set(c, q) /\ UNCHANGED <<table, writes, handle, scopes>>
    BY DEF Inv, TypeOK, TotalRequired, Fail
  <1>2. q \in CallRecords /\ Good(q)
    BY <1>1, FailOf
  <1>. QED
    BY <1>1, <1>2, CallStep

(* So does the count: the statement its guard lets through counts all that *)
(* was asked for, and harmless scopes pass the guard.                      *)
LEMMA CountStep ==
    ASSUME Inv, NEW c \in Callers, Count(c)
    PROVE  Inv'
  <1>. DEFINE own  == call[c].stmt
             p    == projectionOf(own)
             base == IF p.group THEN own ELSE [own EXCEPT !.selectClause = "count"]
             stmt == RunScopes(stripPaginationScope(RunScopes(base, scopes.first)), scopes.nested)
             r    == [call[c] EXCEPT !.countTable = table]
  <1>1. /\ call[c].pc = "total" /\ call[c].given = NotGiven
        /\ call[c] \in CallRecords /\ Good(call[c])
        /\ ~p.unreliableCount
        /\ \/ guardCount(stmt, p) /\ Set(c, WithPage(r, Counted(stmt)))
           \/ ~guardCount(stmt, p) /\ Fail(c, r, "deferred")
           \/ guardCount(stmt, p) /\ Fail(c, r, "query")
        /\ UNCHANGED <<table, writes, handle, scopes>>
    BY DEF Inv, TypeOK, Count
  <1>2. own = OwnStatement /\ call[c].err = None
    BY <1>1 DEF Good
  <1>3. /\ own \in Statements
        /\ own.group <=> handle.group
        /\ own.distinct <=> handle.distinct
        /\ own.where <=> handle.where
        /\ own.raw <=> handle.raw
    BY <1>2, OwnIs DEF Inv
  <1>. HIDE DEF own
  <1>4. /\ base \in Statements
        /\ base.group <=> own.group
        /\ base.distinct <=> own.distinct
        /\ base.where <=> own.where
        /\ base.raw <=> own.raw
        /\ base.selects = own.selects
        /\ base.selectClause = IF p.group THEN own.selectClause ELSE "count"
    BY <1>3 DEF Statements
  <1>. HIDE DEF base
  <1>5. /\ stmt \in Statements /\ (stmt.where <=> Where)
        /\ Harmless => /\ SameBut(stmt, base) /\ countOrderSafe(stmt)
                       /\ paginationIntact(stmt, noLimit, 0)
    BY <1>3, <1>4, CountStatement DEF Inv
  <1>. HIDE DEF stmt
  <1>6. /\ p.unreliableCount <=> own.distinct
        /\ p.group <=> own.group
        /\ shapeIntact(p, stmt) <=> /\ own.distinct <=> stmt.distinct
                                    /\ own.group <=> stmt.group
                                    /\ own.selects = stmt.selects
        /\ dataIntact(p, stmt) <=> shapeIntact(p, stmt) /\ own.selectClause = stmt.selectClause
    BY <1>3, <1>5, ShapeIs
  <1>. HIDE DEF p
  <1>7. ASSUME Harmless, ~handle.raw PROVE guardCount(stmt, p)
    <2>1. ~stmt.raw /\ shapeIntact(p, stmt)
      BY <1>3, <1>4, <1>5, <1>6, <1>7 DEF SameBut
    <2>2. IF p.group THEN dataIntact(p, stmt) ELSE stmt.selectClause = "count"
      BY <1>4, <1>5, <1>6, <1>7, <2>1 DEF SameBut
    <2>. QED
      BY <1>5, <1>7, <2>1, <2>2 DEF guardCount
  <1>8. ASSUME guardCount(stmt, p)
        PROVE  /\ Counted(stmt) = Cardinality(AskedFor(table))
               /\ Counted(stmt) \in 0..MaxTotal
    <2>1. /\ stmt.group <=> handle.group
          /\ ~stmt.distinct /\ ~handle.distinct
      BY <1>1, <1>3, <1>6, <1>8 DEF guardCount
    <2>2. stmt.limit = noLimit /\ stmt.offset = 0
      BY <1>8 DEF guardCount, paginationIntact
    <2>3. table \subseteq Rows
      BY DEF Inv, TypeOK
    <2>4. Counted(stmt) = Cardinality(AskedFor(table))
      BY <1>5, <2>1, <2>2, <2>3, CountAnswer
    <2>. QED
      BY <2>3, <2>4, AskedSet
  <1>9. /\ r \in CallRecords
        /\ r.pc = "total" /\ r.given = NotGiven /\ r.countTable = table
        /\ r.stmt = own /\ r.sort = call[c].sort /\ r.size = call[c].size
        /\ r.order = call[c].order /\ r.items = call[c].items /\ r.err = call[c].err
        /\ r.rowsRead = call[c].rowsRead
    <2>1. table \in SUBSET Rows
      BY DEF Inv, TypeOK
    <2>. QED
      BY <1>1, <2>1 DEF CallRecords, own
  <1>. HIDE DEF r
  <1>10. Good(r)
    BY <1>1, <1>2, <1>9 DEF Good, Answered, own
  <1>11. CASE guardCount(stmt, p) /\ Set(c, WithPage(r, Counted(stmt)))
    <2>. DEFINE n == Counted(stmt)
               q == WithPage(r, n)
    <2>1. n \in 0..MaxTotal /\ n = Cardinality(AskedFor(table)) /\ MaxTotal \in Nat
      BY <1>8, <1>11, MaxTotalAssumption
    <2>. HIDE DEF n
    <2>2. /\ q \in CallRecords
          /\ q.pc = IF n = 0 THEN "done" ELSE "data"
          /\ q.total = n
          /\ n > 0 => q.page \in 1..calcTotalPage(n, r.size)
          /\ q.stmt = r.stmt /\ q.sort = r.sort /\ q.given = r.given /\ q.size = r.size
          /\ q.order = r.order /\ q.items = r.items /\ q.err = r.err
          /\ q.rowsRead = r.rowsRead /\ q.countTable = r.countTable
      BY <1>9, <2>1, PageOf
    <2>3. Set(c, q)
      BY <1>11 DEF n
    <2>. HIDE DEF q
    <2>4. Good(q)
      BY <1>9, <1>10, <2>1, <2>2 DEF Good, Answered, None
    <2>. QED
      BY <1>1, <2>2, <2>3, <2>4, CallStep
  <1>12. ASSUME NEW err \in {"deferred", "query"}, Fail(c, r, err),
                err = "deferred" => ~guardCount(stmt, p)
         PROVE  Inv'
    <2>. DEFINE q == [r EXCEPT !.pc = "done", !.err = err]
    <2>1. err = "deferred" => ~Harmless \/ handle.raw
      BY <1>7, <1>12
    <2>2. r.pc # "done" /\ err \in {"input", "deferred", "sort", "total", "query"}
      BY <1>9
    <2>3. q \in CallRecords /\ Good(q)
      BY <1>9, <1>10, <2>1, <2>2, FailOf
    <2>4. Set(c, q)
      BY <1>12 DEF Fail
    <2>. HIDE DEF q
    <2>. QED
      BY <1>1, <2>3, <2>4, CallStep
  <1>. QED
    BY <1>1, <1>11, <1>12

(* So does the data query: the statement its guard lets through answers    *)
(* with the slice of the page, and harmless scopes pass the guard.         *)
LEMMA FindStep ==
    ASSUME Inv, NEW c \in Callers, Find(c)
    PROVE  Inv'
  <1>. DEFINE r      == [call[c] EXCEPT !.pc = "done", !.dataTable = table]
             own    == r.stmt
             p      == projectionOf(own)
             order  == r.order
             size   == r.size
             offset == offsetOf(r.page, size)
             first  == RunScopes(own, scopes.first)
             stmt   == RunScopes(applyPaginationScope(first, order, size, offset), scopes.nested)
             intact == /\ paginationIntact(stmt, size, offset)
                       /\ orderIntact(stmt, order, p.restricted)
                       /\ shapeIntact(p, stmt)
  <1>1. /\ call[c].pc = "data" /\ call[c] \in CallRecords /\ Good(call[c])
        /\ IF guardData(stmt, p, order, size, offset)
           THEN \/ \E items \in Rowsets(stmt) :
                    LET q == [r EXCEPT !.rowsRead = Len(items)]
                    IN  IF intact THEN Set(c, [q EXCEPT !.items = items])
                        ELSE Fail(c, q, "deferred")
                \/ Fail(c, r, "query")
           ELSE Fail(c, r, "deferred")
        /\ UNCHANGED <<table, writes, handle, scopes>>
    BY Zenon DEF Inv, TypeOK, Find
  <1>2. table \subseteq Rows
    BY DEF Inv, TypeOK
  <1>3. /\ r \in CallRecords
        /\ r.pc = "done" /\ r.dataTable = table
        /\ r.stmt = call[c].stmt /\ r.sort = call[c].sort /\ r.given = call[c].given
        /\ r.size = call[c].size /\ r.order = call[c].order /\ r.total = call[c].total
        /\ r.page = call[c].page /\ r.items = call[c].items /\ r.err = call[c].err
        /\ r.rowsRead = call[c].rowsRead /\ r.countTable = call[c].countTable
    BY <1>1, <1>2 DEF CallRecords
  <1>. HIDE DEF r
  <1>4. /\ own = OwnStatement /\ order = buildOrder(r.sort, Keyed) /\ (Keyed => r.sort # None)
        /\ r.err = None /\ r.items = << >> /\ r.rowsRead = 0
        /\ r.total > 0 /\ r.page \in 1..calcTotalPage(r.total, r.size)
        /\ r.given = NotGiven => r.total = Cardinality(AskedFor(r.countTable))
    BY <1>1, <1>3 DEF Good
  <1>5. /\ size \in 1..MaxInt /\ size \in Nat \ {0} /\ r.total \in 1..MaxTotal
        /\ r.sort \in {None, "id", "key"}
    BY <1>3, <1>4, MaxIntAssumption, MaxTotalAssumption DEF CallRecords
  <1>6. offset = (r.page - 1) * size /\ offset \in 0..MaxInt /\ offset \in Nat
    BY <1>4, <1>5, OffsetExact, MaxIntAssumption
  <1>7. order \in Seq(Columns) /\ \E i \in DOMAIN order : order[i].reorder
    <2>. DEFINE o == buildOrder(r.sort, Keyed)
    <2>1. Keyed \in BOOLEAN
      BY RestrictedIs DEF Inv
    <2>2. o \in Seq(Columns) /\ \E i \in DOMAIN o : o[i].reorder
      BY <1>5, <2>1, AskedOrder
    <2>. QED
      BY <1>4, <2>2
  <1>8. /\ own \in Statements
        /\ own.group <=> handle.group
        /\ own.distinct <=> handle.distinct
        /\ own.where <=> handle.where
        /\ own.raw <=> handle.raw
        /\ Keyed \in BOOLEAN /\ (p.restricted <=> Keyed)
    BY <1>4, OwnIs, RestrictedIs DEF Inv
  <1>. HIDE DEF own, order, size, offset
  <1>9. /\ stmt \in Statements /\ (stmt.where <=> Where)
        /\ Harmless => /\ SameBut(stmt, own) /\ orderIntact(stmt, order, Keyed)
                       /\ paginationIntact(stmt, size, offset)
    BY <1>5, <1>6, <1>7, <1>8, DataStatement DEF Inv
  <1>. HIDE DEF stmt
  <1>10. /\ shapeIntact(p, stmt) <=> /\ own.distinct <=> stmt.distinct
                                     /\ own.group <=> stmt.group
                                     /\ own.selects = stmt.selects
         /\ dataIntact(p, stmt) <=> shapeIntact(p, stmt) /\ own.selectClause = stmt.selectClause
    BY <1>8, <1>9, ShapeIs
  <1>11. orderIntact(stmt, order, p.restricted) <=> orderIntact(stmt, order, Keyed)
    BY <1>8 DEF orderIntact
  <1>. HIDE DEF p
  <1>12. ASSUME Harmless, ~handle.raw PROVE guardData(stmt, p, order, size, offset)
    BY <1>8, <1>9, <1>10, <1>11, <1>12 DEF guardData, SameBut
  <1>13. ASSUME NEW err \in {"deferred", "query"}, Fail(c, r, err),
                err = "deferred" => ~guardData(stmt, p, order, size, offset)
         PROVE  Inv'
    <2>. DEFINE q == [r EXCEPT !.pc = "done", !.err = err]
    <2>1. q \in CallRecords
      BY <1>3 DEF CallRecords
    <2>2. q.pc = "done" /\ q.err = err /\ q.rowsRead = r.rowsRead /\ q.size = r.size
      BY <1>3 DEF CallRecords
    <2>3. Set(c, q)
      BY <1>13 DEF Fail
    <2>. HIDE DEF q
    <2>4. Good(q)
      BY <1>4, <1>5, <1>12, <1>13, <2>2 DEF Good, Answered, None, size
    <2>. QED
      BY <1>1, <2>1, <2>3, <2>4, CallStep
  <1>14. ASSUME guardData(stmt, p, order, size, offset), NEW items \in Rowsets(stmt),
                Set(c, [[r EXCEPT !.rowsRead = Len(items)] EXCEPT !.items = items])
         PROVE  Inv'
    <2>. DEFINE q == [[r EXCEPT !.rowsRead = Len(items)] EXCEPT !.items = items]
    <2>1. /\ stmt.limit = size /\ stmt.offset = offset
          /\ stmt.group \/ stmt.distinct <=> Keyed
          /\ orderIntact(stmt, order, Keyed)
      BY <1>8, <1>10, <1>11, <1>14 DEF guardData, paginationIntact, Keyed
    <2>2. PICK s \in SetToSeqs(AskedFor(table)) :
            InOrder(s, r.sort) /\ items = Slice(s, stmt.limit, stmt.offset)
      BY <1>2, <1>4, <1>5, <1>8, <1>9, <2>1, PageAnswer
    <2>3. IsFiniteSet(AskedFor(table)) /\ AskedFor(table) \subseteq Nat
      BY <1>2, AskedSet
    <2>4. s \in Seq(AskedFor(table))
      BY <2>3, Enumerates
    <2>5. items \in Seq(AskedFor(table)) /\ Len(items) <= size
      BY <1>5, <1>6, <2>1, <2>2, <2>4, SliceOf
    <2>6. items \in Seq(Nat) /\ Len(items) \in Nat
      BY <2>3, <2>5
    <2>7. q \in CallRecords
      BY <1>3, <2>6 DEF CallRecords
    <2>8. /\ q.pc = "done" /\ q.err = r.err /\ q.items = items /\ q.rowsRead = Len(items)
          /\ q.stmt = r.stmt /\ q.order = r.order /\ q.sort = r.sort /\ q.given = r.given
          /\ q.size = r.size /\ q.total = r.total /\ q.page = r.page
          /\ q.countTable = r.countTable /\ q.dataTable = table
      BY <1>3 DEF CallRecords
    <2>9. Set(c, q)
      BY <1>14
    <2>. HIDE DEF q
    <2>10. \E t \in SetToSeqs(AskedFor(q.dataTable)) :
              InOrder(t, q.sort) /\ q.items = Slice(t, q.size, (q.page - 1) * q.size)
      BY <1>6, <2>1, <2>2, <2>8 DEF size
    <2>11. Good(q)
      BY <1>4, <1>5, <2>5, <2>8, <2>10 DEF Good, Answered, None, size, own, order
    <2>. QED
      BY <1>1, <2>7, <2>9, <2>11, CallStep
  <1>15. guardData(stmt, p, order, size, offset) => intact
    BY DEF guardData, dataIntact
  <1>. QED
    BY <1>1, <1>13, <1>14, <1>15

(* So does a write of another session: from then on no call claims to have *)
(* read the table of now.                                                  *)
LEMMA WriteStep ==
    ASSUME Inv, Write
    PROVE  Inv'
  <1>1. /\ writes' \in Nat /\ writes' # 0 /\ table' \subseteq Rows
        /\ UNCHANGED <<handle, scopes, call>>
    BY DEF Inv, TypeOK, Write
  <1>2. TypeOK'
    BY <1>1 DEF Inv, TypeOK
  <1>3. ASSUME NEW c \in Callers PROVE Good(call[c])'
    <2>1. PICK r : r = call[c] /\ r = call'[c]
      BY <1>1
    <2>2. Good(r)
      BY <2>1 DEF Inv
    <2>3. Good(r)'
      BY <1>1, <2>2, GoodStays
    <2>. QED
      BY <2>1, <2>3 DEF Good, Answered
  <1>. QED
    BY <1>2, <1>3 DEF Inv

(* The invariant holds at the start, when no call has begun.               *)
LEMMA InvInit == Init => Inv
  <1>. SUFFICES ASSUME Init PROVE Inv
    OBVIOUS
  <1>1. handle \in Chain
    BY HandleAssumption DEF Init
  <1>4. NoCall \in CallRecords
    <2>1. << >> \in Seq(Columns) /\ << >> \in Seq(Nat)
      OBVIOUS
    <2>. QED
      BY <2>1, MaxIntAssumption, MaxTotalAssumption DEF NoCall, CallRecords, None, NotGiven
  <1>5. call = [c \in Callers |-> NoCall] /\ table \subseteq Rows /\ writes = 0
    BY DEF Init
  <1>6. scopes \in [first : Seq(Edits), nested : Seq(Edits)]
    BY HandleAssumption DEF Init
  <1>7. TypeOK
    BY <1>1, <1>4, <1>5, <1>6 DEF TypeOK
  <1>8. Good(NoCall)
    BY DEF Good, NoCall, Answered, None
  <1>. QED
    BY <1>5, <1>7, <1>8 DEF Inv

(* Every step keeps the invariant.                                         *)
LEMMA InvNext == Inv /\ [Next]_vars => Inv'
  <1>. SUFFICES ASSUME Inv, [Next]_vars PROVE Inv'
    OBVIOUS
  <1>1. ASSUME NEW c \in Callers, Start(c) PROVE Inv'
    BY <1>1, StartStep
  <1>2. ASSUME NEW c \in Callers, TotalGiven(c) PROVE Inv'
    BY <1>2, TotalGivenStep
  <1>3. ASSUME NEW c \in Callers, TotalRequired(c) PROVE Inv'
    BY <1>3, TotalRequiredStep
  <1>4. ASSUME NEW c \in Callers, Count(c) PROVE Inv'
    BY <1>4, CountStep
  <1>5. ASSUME NEW c \in Callers, Find(c) PROVE Inv'
    BY <1>5, FindStep
  <1>6. CASE Write
    BY <1>6, WriteStep
  <1>7. CASE UNCHANGED vars
    <2>1. UNCHANGED <<handle, scopes, table, writes, call>>
      BY <1>7 DEF vars
    <2>2. TypeOK'
      BY <2>1 DEF Inv, TypeOK
    <2>3. ASSUME NEW c \in Callers PROVE Good(call[c])'
      <3>1. PICK r : r = call[c] /\ r = call'[c]
        BY <2>1
      <3>2. Good(r)
        BY <3>1 DEF Inv
      <3>3. Good(r)'
        BY <2>1, <3>2, GoodStays
      <3>. QED
        BY <3>1, <3>3 DEF Good, Answered
    <2>. QED
      BY <2>2, <2>3 DEF Inv
  <1>. QED
    BY <1>1, <1>2, <1>3, <1>4, <1>5, <1>6, <1>7 DEF Next

(* So it always holds.                                                     *)
LEMMA Invariance == Spec => []Inv
  BY InvInit, InvNext, PTL DEF Spec

(* No data query reads more rows than a page holds, whatever the scopes    *)
(* do: the guard refuses the statement first.                              *)
THEOREM ReadsAreBounded == Spec => []NoUnboundedRead
  <1>1. Inv => NoUnboundedRead
    BY DEF Inv, TypeOK, Good, NoUnboundedRead
  <1>. QED
    BY <1>1, Invariance, PTL

(* A total that was counted is the size of what the handle and the scopes  *)
(* ask for, of the table as the count saw it.                              *)
THEOREM TotalsAreCounts == Spec => []TotalIsCount
  <1>1. Inv => TotalIsCount
    BY DEF Inv, TypeOK, Good, Answered, Returned, TotalIsCount
  <1>. QED
    BY <1>1, Invariance, PTL

(* Scopes that are harmless are refused by neither guard, on any handle    *)
(* but one of raw SQL: the clauses of the package end the first round, and *)
(* nested scopes that add conditions or an order leave them intact.        *)
THEOREM HarmlessScopesAreAccepted == Spec => []HarmlessScopesPass
  <1>1. Inv => HarmlessScopesPass
    BY DEF Inv, TypeOK, Good, HarmlessScopesPass
  <1>. QED
    BY <1>1, Invariance, PTL

(* A call that returns no error returns the slice its page names of the    *)
(* one enumeration, in the order asked for, of what it asked for.          *)
THEOREM PagesAreSlices == Spec => []PageIsSlice
  <1>1. ASSUME Inv PROVE PageIsSlice
    <2>. SUFFICES ASSUME NEW c \in DOMAIN call, Returned(c), call[c].total > 0
                  PROVE  call[c].items = Slice(Asked(call[c].dataTable, call[c].sort),
                                               call[c].size, (call[c].page - 1) * call[c].size)
      BY DEF PageIsSlice
    <2>. DEFINE r == call[c]
    <2>1. r \in CallRecords /\ Good(r) /\ Answered(r) /\ r.total # 0
      BY <1>1 DEF Inv, TypeOK, Returned, Answered
    <2>2. r.dataTable \subseteq Rows
      BY <2>1 DEF CallRecords
    <2>. HIDE DEF r
    <2>3. PICK s \in SetToSeqs(AskedFor(r.dataTable)) :
            /\ InOrder(s, r.sort)
            /\ r.items = Slice(s, r.size, (r.page - 1) * r.size)
      BY <2>1 DEF Good
    <2>4. Asked(r.dataTable, r.sort) = s
      BY <2>2, <2>3, AskedIs
    <2>. QED
      BY <2>3, <2>4 DEF r
  <1>. QED
    BY <1>1, Invariance, PTL

(* Slices of one enumeration for different pages of one size share no      *)
(* element.                                                                *)
LEMMA SlicesApart ==
    ASSUME NEW S, IsFiniteSet(S), NEW s \in SetToSeqs(S), NEW size \in Nat \ {0},
           NEW p \in Nat \ {0}, NEW q \in Nat \ {0}, p < q
    PROVE  ToSet(Slice(s, size, (p - 1) * size)) \cap ToSet(Slice(s, size, (q - 1) * size)) = {}
  <1>. DEFINE from == (p - 1) * size
             upto == (q - 1) * size
             t == Slice(s, size, from)
             u == Slice(s, size, upto)
  <1>1. from \in Nat /\ upto \in Nat /\ from + size <= upto
    <2>1. p - 1 \in Nat /\ q - 1 \in Nat /\ p \in Nat /\ p <= q - 1
      OBVIOUS
    <2>2. p * size <= (q - 1) * size
      BY <2>1, TimesMonotone
    <2>3. (p - 1) * size + size = p * size
      OBVIOUS
    <2>4. from \in Nat /\ upto \in Nat
      BY <2>1, ProductInNat
    <2>. QED
      BY <2>2, <2>3, <2>4
  <1>2. /\ s \in Seq(S) /\ Len(s) = Cardinality(S)
        /\ \A i, j \in 1..Cardinality(S) : s[i] = s[j] => i = j
    BY Enumerates
  <1>. HIDE DEF from, upto
  <1>3. /\ t \in Seq(S) /\ Len(t) <= size
        /\ \A i \in 1..Len(t) : t[i] = s[from + i] /\ from + i \in 1..Len(s)
    BY <1>1, <1>2, SliceOf
  <1>4. /\ u \in Seq(S) /\ Len(u) <= size
        /\ \A i \in 1..Len(u) : u[i] = s[upto + i] /\ upto + i \in 1..Len(s)
    BY <1>1, <1>2, SliceOf
  <1>. HIDE DEF t, u
  <1>5. ASSUME NEW i \in 1..Len(t), NEW j \in 1..Len(u) PROVE t[i] # u[j]
    <2>1. Len(t) \in Nat /\ Len(u) \in Nat
      BY <1>3, <1>4
    <2>2. from + i # upto + j
      BY <1>1, <1>3, <2>1
    <2>. QED
      BY <1>2, <1>3, <1>4, <2>2
  <1>6. /\ ToSet(t) = {t[i] : i \in 1..Len(t)} /\ ToSet(u) = {u[i] : i \in 1..Len(u)}
    BY <1>3, <1>4 DEF ToSet
  <1>. QED
    BY <1>5, <1>6 DEF t, u, from, upto

(* Different pages of a table nobody writes to show different rows.        *)
THEOREM PagesAreDisjoint == Spec => []PagesDisjoint
  <1>1. ASSUME Inv PROVE PagesDisjoint
    <2>. SUFFICES ASSUME NEW c \in DOMAIN call, NEW d \in DOMAIN call,
                         Returned(c), Returned(d), writes = 0,
                         call[c].size = call[d].size, call[c].sort = call[d].sort,
                         call[c].page # call[d].page
                  PROVE  ToSet(call[c].items) \cap ToSet(call[d].items) = {}
      BY DEF PagesDisjoint
    <2>. DEFINE q == call[c]
               r == call[d]
    <2>1. /\ q \in CallRecords /\ Good(q) /\ Answered(q)
          /\ r \in CallRecords /\ Good(r) /\ Answered(r)
      BY <1>1 DEF Inv, TypeOK, Returned, Answered
    <2>2. q.size = r.size /\ q.sort = r.sort /\ q.page # r.page
      OBVIOUS
    <2>3. table \subseteq Rows /\ q.size \in Nat \ {0}
      BY <1>1, <2>1, MaxIntAssumption DEF Inv, TypeOK, CallRecords
    <2>. HIDE DEF q, r
    <2>4. CASE q.total = 0 \/ r.total = 0
      <3>1. q.items = << >> \/ r.items = << >>
        BY <2>1, <2>4 DEF Good
      <3>2. ToSet(<< >>) = {}
        BY DEF ToSet
      <3>. QED
        BY <3>1, <3>2 DEF q, r
    <2>5. CASE q.total # 0 /\ r.total # 0
      <3>1. PICK s \in SetToSeqs(AskedFor(table)) :
              InOrder(s, q.sort) /\ q.items = Slice(s, q.size, (q.page - 1) * q.size)
        BY <2>1, <2>5 DEF Good
      <3>2. PICK t \in SetToSeqs(AskedFor(table)) :
              InOrder(t, r.sort) /\ r.items = Slice(t, r.size, (r.page - 1) * r.size)
        BY <2>1, <2>5 DEF Good
      <3>3. s = Asked(table, q.sort)
        BY <2>3, <3>1, AskedIs
      <3>4. t = Asked(table, q.sort)
        BY <2>2, <2>3, <3>2, AskedIs
      <3>5. IsFiniteSet(AskedFor(table))
        BY <2>3, AskedSet
      <3>6. q.page \in Nat \ {0} /\ r.page \in Nat \ {0}
        <4>0. \A x \in CallRecords : x.total \in 0..MaxTotal /\ x.size \in 1..MaxInt
          BY DEF CallRecords
        <4>1. /\ q.total \in 1..MaxTotal /\ q.size \in 1..MaxInt
              /\ r.total \in 1..MaxTotal /\ r.size \in 1..MaxInt
          BY <2>1, <2>5, <4>0, MaxTotalAssumption
        <4>2. /\ q.page \in 1..calcTotalPage(q.total, q.size)
              /\ r.page \in 1..calcTotalPage(r.total, r.size)
          BY <2>1, <4>1, MaxTotalAssumption DEF Good
        <4>3. calcTotalPage(q.total, q.size) \in Nat
          BY <4>1, TotalPages, MaxIntAssumption
        <4>4. calcTotalPage(r.total, r.size) \in Nat
          BY <4>1, TotalPages, MaxIntAssumption
        <4>. QED
          BY <4>2, <4>3, <4>4
      <3>7. q.page < r.page \/ r.page < q.page
        BY <2>2, <3>6
      <3>8. CASE q.page < r.page
        <4>1. ToSet(Slice(s, q.size, (q.page - 1) * q.size))
                \cap ToSet(Slice(s, q.size, (r.page - 1) * q.size)) = {}
          BY <2>3, <3>5, <3>6, <3>8, SlicesApart
        <4>2. ToSet(q.items) \cap ToSet(r.items) = {}
          BY <2>2, <3>1, <3>2, <3>3, <3>4, <4>1
        <4>. QED
          BY <4>2 DEF q, r
      <3>9. CASE r.page < q.page
        <4>1. ToSet(Slice(s, q.size, (r.page - 1) * q.size))
                \cap ToSet(Slice(s, q.size, (q.page - 1) * q.size)) = {}
          BY <2>3, <3>5, <3>6, <3>9, SlicesApart
        <4>2. ToSet(q.items) \cap ToSet(r.items) = {}
          BY <2>2, <3>1, <3>2, <3>3, <3>4, <4>1
        <4>. QED
          BY <4>2 DEF q, r
      <3>. QED
        BY <3>7, <3>8, <3>9
    <2>. QED
      BY <2>4, <2>5
  <1>. QED
    BY <1>1, Invariance, PTL

-----------------------------------------------------------------------------
(* Which Statement the calls work on (SharedHandle).                       *)

(* What a Statement can hold once a model has been parsed into it.         *)
Tables   == TableNames \cup Models \cup {Unnamed}
Contents == [model : Models \cup {Unnamed}, table : Tables]

HandleTypes ==
    /\ cell \in [Cells -> Contents]
    /\ shared \in [clone : {0, 1, 2}, cell : {<<Owner, "first">>}]
    /\ chained \in Chains
    /\ at \in [Goroutines -> {"idle", "model", "parse", "count", "page"}]
    /\ tx \in [Goroutines -> [clone : {0, 1, 2}, cell : Cells]]
    /\ type \in [Goroutines -> Models]
    /\ asked \in [Goroutines -> Tables] /\ query \in [Goroutines -> Tables]

(* A call in progress works on a Statement of its own, which says what the *)
(* call was asked to read.                                                 *)
HandleAsks(g) ==
    /\ query[g] \in {Unnamed, asked[g]}
    /\ at[g] # "idle" => tx[g].cell \in {<<g, "first">>, <<g, "second">>}
    /\ at[g] = "model" =>
        /\ tx[g].clone = 2
        /\ LET s == cell[tx[g].cell]
           IN  asked[g] = IF s.table # Unnamed THEN s.table
                          ELSE IF s.model # Unnamed THEN s.model ELSE type[g]
    /\ at[g] \in {"parse", "count", "page"} => Parsed(cell[tx[g].cell]).table = asked[g]

(* The handle says what was chained onto it, and nothing else.             *)
HandleKept ==
    /\ cell[shared.cell] = chained
    /\ shared.clone = 1 => chained = Blank

HandleInv == HandleTypes /\ HandleKept /\ \A g \in Goroutines : HandleAsks(g)

(* The Statements of the goroutines and of the owner are different ones.   *)
LEMMA CellsApart ==
    ASSUME NEW g \in Goroutines
    PROVE  /\ <<g, "first">> \in Cells /\ <<g, "second">> \in Cells
           /\ <<Owner, "first">> \in Cells
           /\ <<Owner, "first">> \notin {<<g, "first">>, <<g, "second">>}
           /\ \A d \in Goroutines \ {g} :
                {<<d, "first">>, <<d, "second">>} \cap {<<g, "first">>, <<g, "second">>} = {}
  BY GoroutineAssumption DEF Cells

(* What is known of a call stays known while no other call touches it.     *)
LEMMA AsksStays ==
    ASSUME HandleInv, NEW g \in Goroutines, tx'[g] = tx[g], at'[g] = at[g], type'[g] = type[g],
           asked'[g] = asked[g], query'[g] = query[g], at[g] # "idle" => cell'[tx[g].cell] = cell[tx[g].cell]
    PROVE  HandleAsks(g)'
  BY DEF HandleInv, HandleAsks

(* A step of one call that leaves the handle, the Statements of the owner  *)
(* and those of the other calls alone.                                     *)
LEMMA OneCall ==
    ASSUME HandleInv, NEW g \in Goroutines, HandleTypes', HandleAsks(g)',
           UNCHANGED <<shared, chained>>,
           \A k \in Cells \ {<<g, "first">>, <<g, "second">>} : cell'[k] = cell[k],
           \A d \in Goroutines \ {g} :
              /\ tx'[d] = tx[d] /\ at'[d] = at[d] /\ type'[d] = type[d]
              /\ asked'[d] = asked[d] /\ query'[d] = query[d]
    PROVE  HandleInv'
  <1>1. HandleKept'
    BY CellsApart DEF HandleInv, HandleKept, HandleTypes
  <1>2. ASSUME NEW d \in Goroutines, d # g PROVE HandleAsks(d)'
    <2>1. at[d] # "idle" => cell'[tx[d].cell] = cell[tx[d].cell]
      <3>1. at[d] # "idle" => tx[d].cell \in {<<d, "first">>, <<d, "second">>}
        BY DEF HandleInv, HandleAsks
      <3>. QED
        BY <1>2, <3>1, CellsApart
    <2>. QED
      BY <1>2, <2>1, AsksStays
  <1>. QED
    BY <1>1, <1>2 DEF HandleInv

(* The owner makes a handle, and no call is under way.                     *)
LEMMA HandleBegins == HandleInit => HandleInv
  <1>. SUFFICES ASSUME HandleInit PROVE HandleInv
    OBVIOUS
  <1>1. PICK s \in Chains, n \in {0, 1, 2} :
        /\ n = 1 => s = Blank
        /\ cell = [k \in Cells |-> IF k = <<Owner, "first">> THEN s ELSE Blank]
        /\ shared = [clone |-> n, cell |-> <<Owner, "first">>]
        /\ chained = s
        /\ at = [g \in Goroutines |-> "idle"]
        /\ tx = [g \in Goroutines |-> shared]
        /\ type \in [Goroutines -> Models]
        /\ asked = [g \in Goroutines |-> Unnamed]
        /\ query = [g \in Goroutines |-> Unnamed]
    BY DEF HandleInit
  <1>2. <<Owner, "first">> \in Cells /\ s \in Contents /\ Blank \in Contents
    BY DEF Cells, Chains, Contents, Tables, Blank
  <1>3. HandleTypes
    BY <1>1, <1>2 DEF HandleTypes, Tables
  <1>4. HandleKept
    BY <1>1, <1>2 DEF HandleKept
  <1>5. \A g \in Goroutines : HandleAsks(g)
    BY <1>1 DEF HandleAsks
  <1>. QED
    BY <1>3, <1>4, <1>5 DEF HandleInv

(* What the owner chains is what the handle says from then on.             *)
LEMMA OwnerStep ==
    ASSUME HandleInv, OwnerChains
    PROVE  HandleInv'
  <1>1. PICK s \in Contents : cell' = [cell EXCEPT ![shared.cell] = s] /\ chained' = s
                              /\ s \in Chains
    <2>1. shared.cell \in Cells /\ instanceOf(shared) = chained /\ chained \in Chains
      BY DEF HandleInv, HandleTypes, HandleKept, instanceOf, Cells
    <2>2. \A m \in Models : [chained EXCEPT !.model = m] \in Chains
      BY <2>1 DEF Chains
    <2>3. \A n \in TableNames : [chained EXCEPT !.table = n] \in Chains
      BY <2>1 DEF Chains
    <2>4. Chains \subseteq Contents
      BY DEF Chains, Contents, Tables
    <2>. QED
      BY <2>1, <2>2, <2>3, <2>4 DEF OwnerChains
  <1>2. PICK n \in {0, 2} : shared' = [shared EXCEPT !.clone = n]
    BY DEF OwnerChains
  <1>3. UNCHANGED <<at, tx, type, asked, query>> /\ \A g \in Goroutines : at[g] = "idle"
    BY DEF OwnerChains
  <1>4. shared \in [clone : {0, 1, 2}, cell : {<<Owner, "first">>}]
    BY DEF HandleInv, HandleTypes
  <1>5. /\ shared' \in [clone : {0, 1, 2}, cell : {<<Owner, "first">>}]
        /\ shared'.clone = n /\ shared'.cell = shared.cell /\ shared.cell \in Cells
    BY <1>2, <1>4 DEF Cells
  <1>6. HandleTypes'
    BY <1>1, <1>3, <1>5 DEF HandleInv, HandleTypes
  <1>7. HandleKept'
    BY <1>1, <1>5 DEF HandleInv, HandleTypes, HandleKept
  <1>8. \A g \in Goroutines : HandleAsks(g)'
    BY <1>3, AsksStays
  <1>. QED
    BY <1>6, <1>7, <1>8 DEF HandleInv

(* A call starts on a copy of the handle's Statement, and is asked to read *)
(* what that says, or else its own model.                                  *)
LEMMA EnterStep ==
    ASSUME HandleInv, NEW g \in Goroutines, Enter(g)
    PROVE  HandleInv'
  <1>. DEFINE k == <<g, "first">>
  <1>1. PICK t \in Models : /\ type' = [type EXCEPT ![g] = t]
                            /\ asked' = [asked EXCEPT ![g] = TableFor(t)]
    BY DEF Enter
  <1>2. /\ tx' = [tx EXCEPT ![g] = [clone |-> 2, cell |-> k]]
        /\ cell' = [cell EXCEPT ![k] = chained]
        /\ at' = [at EXCEPT ![g] = "model"]
        /\ query' = [query EXCEPT ![g] = Unnamed]
        /\ UNCHANGED <<shared, chained>>
    BY DEF Enter, Goes, privateSession, HandleInv, HandleKept
  <1>3. k \in Cells /\ chained \in Contents
    BY CellsApart DEF HandleInv, HandleTypes, Chains, Contents, Tables
  <1>4. TableFor(t) \in Tables
    BY DEF TableFor, HandleInv, HandleTypes, Chains, Tables
  <1>5. HandleTypes'
    BY <1>1, <1>2, <1>3, <1>4 DEF HandleInv, HandleTypes, Tables
  <1>6. /\ cell'[k] = chained /\ tx'[g] = [clone |-> 2, cell |-> k] /\ type'[g] = t
        /\ at'[g] = "model" /\ asked'[g] = TableFor(t) /\ query'[g] = Unnamed
        /\ \A d \in Cells \ {k} : cell'[d] = cell[d]
    BY <1>1, <1>2, <1>3 DEF HandleInv, HandleTypes
  <1>7. HandleAsks(g)'
    BY <1>6 DEF HandleAsks, TableFor
  <1>8. \A d \in Goroutines \ {g} :
          /\ tx'[d] = tx[d] /\ at'[d] = at[d] /\ type'[d] = type[d]
          /\ asked'[d] = asked[d] /\ query'[d] = query[d]
    BY <1>1, <1>2 DEF HandleInv, HandleTypes
  <1>. QED
    BY <1>2, <1>5, <1>6, <1>7, <1>8, OneCall

(* A Statement is parsed once and for all.                                 *)
LEMMA ParsedIs ==
    ASSUME NEW s \in Contents
    PROVE  Parsed(s) \in Contents /\ Parsed(Parsed(s)).table = Parsed(s).table
  BY DEF Parsed, Contents, Tables

(* Where a call goes on, with what it writes to a Statement of its own.    *)
LEMMA GoesOn ==
    ASSUME HandleInv, NEW g \in Goroutines, at[g] # "idle",
           NEW place \in {"idle", "parse", "count", "page"}, Goes(g, place),
           NEW k \in {<<g, "first">>, <<g, "second">>}, NEW s \in Contents,
           cell' = [cell EXCEPT ![k] = s], NEW n \in {0, 1, 2},
           tx' = [tx EXCEPT ![g] = [clone |-> n, cell |-> k]],
           NEW q \in {Unnamed, asked[g]}, query' = [query EXCEPT ![g] = q],
           Parsed(s).table = asked[g], UNCHANGED <<shared, chained, type, asked>>
    PROVE  HandleInv'
  <1>1. k \in Cells
    BY CellsApart
  <1>2. asked[g] \in Tables /\ q \in Tables
    BY DEF HandleInv, HandleTypes, Tables
  <1>3. HandleTypes'
    BY <1>1, <1>2 DEF HandleInv, HandleTypes, Goes
  <1>4. /\ cell'[k] = s /\ tx'[g].cell = k /\ at'[g] = place /\ query'[g] = q
        /\ asked'[g] = asked[g] /\ \A d \in Cells \ {k} : cell'[d] = cell[d]
    BY <1>1 DEF HandleInv, HandleTypes, Goes
  <1>5. HandleAsks(g)'
    BY <1>4 DEF HandleAsks, Parsed
  <1>6. \A d \in Goroutines \ {g} :
          /\ tx'[d] = tx[d] /\ at'[d] = at[d] /\ type'[d] = type[d]
          /\ asked'[d] = asked[d] /\ query'[d] = query[d]
    BY DEF HandleInv, HandleTypes, Goes
  <1>. QED
    BY <1>3, <1>4, <1>5, <1>6, OneCall

(* The steps of a call after its entry.                                    *)
LEMMA CallGoesOn ==
    ASSUME HandleInv, NEW g \in Goroutines,
           ChooseModel(g) \/ ParseModel(g) \/ CountQuery(g) \/ PageQuery(g)
    PROVE  HandleInv'
  <1>. DEFINE k == tx[g].cell
             s == cell[k]
             n == tx[g].clone
  <1>1. at[g] # "idle"
    BY DEF ChooseModel, ParseModel, CountQuery, PageQuery
  <1>2. /\ k \in {<<g, "first">>, <<g, "second">>} /\ s \in Contents /\ n \in {0, 1, 2}
        /\ query[g] \in {Unnamed, asked[g]} /\ type[g] \in Models
    BY <1>1, CellsApart DEF HandleInv, HandleTypes, HandleAsks
  <1>3. /\ cell = [cell EXCEPT ![k] = s] /\ query = [query EXCEPT ![g] = query[g]]
        /\ tx = [tx EXCEPT ![g] = [clone |-> n, cell |-> k]]
    BY DEF HandleInv, HandleTypes
  <1>4. CASE ChooseModel(g)
    <2>1. at[g] = "model" /\ Goes(g, "parse") /\ UNCHANGED <<shared, chained, type, asked, query>>
      BY <1>4 DEF ChooseModel
    <2>2. n = 2 /\ asked[g] = IF s.table # Unnamed THEN s.table
                              ELSE IF s.model # Unnamed THEN s.model ELSE type[g]
      BY <2>1 DEF HandleInv, HandleAsks
    <2>3. CASE s.model # Unnamed
      <3>1. UNCHANGED <<cell, tx>>
        BY <1>4, <2>3 DEF ChooseModel
      <3>2. Parsed(s).table = asked[g]
        BY <1>2, <2>2, <2>3 DEF Parsed, Contents
      <3>. HIDE DEF k, s, n
      <3>. QED
        BY <1>1, <1>2, <1>3, <2>1, <3>1, <3>2, GoesOn
    <2>4. CASE s.model = Unnamed
      <3>. DEFINE j == <<g, "second">>
                 r == [s EXCEPT !.model = type[g]]
      <3>1. /\ cell' = [cell EXCEPT ![j] = r]
            /\ tx' = [tx EXCEPT ![g] = [clone |-> 0, cell |-> j]]
        BY <1>4, <2>2, <2>4 DEF ChooseModel, instanceCell, instanceOf
      <3>2. r \in Contents /\ Parsed(r).table = asked[g]
        BY <1>2, <2>2, <2>4 DEF Parsed, Contents, Tables
      <3>. HIDE DEF k, s, n, r
      <3>. QED
        BY <1>1, <1>2, <1>3, <2>1, <3>1, <3>2, GoesOn
    <2>. QED
      BY <2>3, <2>4
  <1>5. CASE ParseModel(g)
    <2>1. PICK place \in {"count", "page", "idle"} : Goes(g, place)
      BY <1>5 DEF ParseModel
    <2>2. /\ at[g] = "parse" /\ cell' = [cell EXCEPT ![k] = Parsed(s)]
          /\ UNCHANGED <<shared, chained, tx, type, asked, query>>
      BY <1>5 DEF ParseModel
    <2>3. Parsed(s).table = asked[g]
      BY <2>2 DEF HandleInv, HandleAsks
    <2>. HIDE DEF k, s, n
    <2>4. Parsed(s) \in Contents /\ Parsed(Parsed(s)).table = asked[g]
      BY <1>2, <2>3, ParsedIs
    <2>. QED
      BY <1>1, <1>2, <1>3, <2>1, <2>2, <2>4, GoesOn
  <1>6. CASE CountQuery(g) \/ PageQuery(g)
    <2>1. PICK place \in {"page", "idle"} : Goes(g, place)
      BY <1>6 DEF CountQuery, PageQuery
    <2>2. /\ at[g] \in {"count", "page"} /\ query' = [query EXCEPT ![g] = Parsed(s).table]
          /\ UNCHANGED <<cell, shared, chained, tx, type, asked>>
      BY <1>6 DEF CountQuery, PageQuery, Reads
    <2>3. Parsed(s).table = asked[g]
      BY <2>2 DEF HandleInv, HandleAsks
    <2>. HIDE DEF k, s, n
    <2>4. /\ cell' = [cell EXCEPT ![k] = s] /\ query' = [query EXCEPT ![g] = asked[g]]
          /\ tx' = [tx EXCEPT ![g] = [clone |-> n, cell |-> k]]
      BY <1>3, <2>2, <2>3
    <2>5. PICK q \in {Unnamed, asked[g]} : q = asked[g]
      OBVIOUS
    <2>6. /\ query' = [query EXCEPT ![g] = q] /\ UNCHANGED <<shared, chained, type, asked>>
          /\ at[g] # "idle" /\ k \in {<<g, "first">>, <<g, "second">>} /\ s \in Contents
          /\ n \in {0, 1, 2} /\ place \in {"idle", "parse", "count", "page"}
      BY <1>1, <1>2, <2>2, <2>4, <2>5
    <2>7. Goes(g, place)
      BY <2>1
    <2>. QED
      BY <2>3, <2>4, <2>6, <2>7, GoesOn
  <1>. QED
    BY <1>4, <1>5, <1>6

(* Whatever goroutines share a handle, and whatever its owner chains onto  *)
(* it between their calls: every query reads the table its call was asked  *)
(* for.                                                                    *)
THEOREM QueriesAreOwn == HandleSpec => []OwnQueries
  <1>1. HandleInv /\ [HandleNext]_handleVars => HandleInv'
    <2>. SUFFICES ASSUME HandleInv, [HandleNext]_handleVars PROVE HandleInv'
      OBVIOUS
    <2>1. CASE OwnerChains
      BY <2>1, OwnerStep
    <2>2. ASSUME NEW g \in Goroutines, HandleStep(g) PROVE HandleInv'
      BY <2>2, EnterStep, CallGoesOn DEF HandleStep
    <2>3. CASE UNCHANGED handleVars
      <3>1. UNCHANGED <<cell, shared, chained, at, tx, type, asked, query>>
        BY <2>3 DEF handleVars
      <3>2. HandleTypes' /\ HandleKept'
        BY <3>1 DEF HandleInv, HandleTypes, HandleKept
      <3>3. \A g \in Goroutines : HandleAsks(g)'
        BY <3>1, AsksStays
      <3>. QED
        BY <3>2, <3>3 DEF HandleInv
    <2>. QED
      BY <2>1, <2>2, <2>3 DEF HandleNext
  <1>2. HandleInv => OwnQueries
    BY DEF HandleInv, HandleAsks, OwnQueries
  <1>. QED
    BY <1>1, <1>2, HandleBegins, PTL DEF HandleSpec
=============================================================================
