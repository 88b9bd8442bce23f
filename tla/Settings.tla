------------------------------ MODULE Settings ------------------------------
(***************************************************************************)
(* Config values as Go values (config.go, options.go): a program keeps     *)
(* them in variables, copies them by With, Clone or plain assignment,      *)
(* writes to their fields and through their pointers, and opens Clients    *)
(* with them, while each Client works with a snapshot of its own.          *)
(*                                                                         *)
(* What pointers point to is in the heap: <<g, f>> is the cell that was    *)
(* allocated for field f when the g-th Config was made.  Of the fields     *)
(* that are plain values those stay that are checked or given a default    *)
(* somewhere: the others are copied as they are.  DsnConfig has MySQL.     *)
(***************************************************************************)
EXTENDS Integers, FiniteSets

CONSTANTS
    Vars,           \* the program's variables of type Config
    Clients,
    PoolFields,     \* fields of PoolConfig
    Values,         \* what they are set to, 0 and negative numbers included
    PoolDefault,    \* of DefaultConfig, for every field of PoolConfig
    CallerValue,    \* what the pool of OpenWithDB has been set to by its owner
    RetryArgs,      \* arguments of WithStartupPingRetry
    MaxConfigs      \* bound: Config values made in one behaviour

Pointers == PoolFields \cup {"DefaultDatetimePrecision"}
Nil == 0
Unlimited == 0      \* what sql.OpenDB starts with

ASSUME PointerAssumption == "DefaultDatetimePrecision" \notin PoolFields
ASSUME ValuesAssumption == Values \subseteq Int /\ PoolDefault \in Int /\ CallerValue \in Int
ASSUME ArgsAssumption == RetryArgs \subseteq Int \X Int \X Int /\ MaxConfigs \in Nat

VARIABLES
    var,        \* the program's variables
    heap,       \* what pointers point to
    made,       \* how many Configs have been made
    client      \* the Clients

vars == <<var, heap, made, client>>

(* DefaultConfig, if it is the g-th Config, and the literal Config{}.      *)
DefaultConfig(g) ==
    [retries |-> 0, baseWait |-> 1, maxWait |-> 5, Logger |-> "discard", IdentifierMaxLength |-> 64,
     ptr |-> [f \in Pointers |-> IF f \in PoolFields THEN g ELSE Nil]]

Zero ==
    [retries |-> 0, baseWait |-> 0, maxWait |-> 0, Logger |-> "nil", IdentifierMaxLength |-> 0,
     ptr |-> [f \in Pointers |-> Nil]]

Read(c, f) == heap[c.ptr[f]][f]

(* What a Config is to whoever reads it.                                   *)
Value(c) == [c EXCEPT !.ptr = [f \in Pointers |-> IF c.ptr[f] = Nil THEN {} ELSE {Read(c, f)}]]

(* kin: the Config that this one is, or was assigned from; raw: not built  *)
(* by options on DefaultConfig alone.                                      *)
Unset    == [kin |-> 0, raw |-> FALSE, config |-> Zero]
NoClient == [open |-> FALSE, config |-> Zero, atOpen |-> Value(Zero), before |-> Unlimited,
             pool |-> [f \in PoolFields |-> Unlimited], Logger |-> "discard", IdentifierMaxLength |-> 64]

Init ==
    /\ var = [v \in Vars |-> Unset]
    /\ heap = [g \in 1..MaxConfigs |-> [f \in Pointers |-> 0]]
    /\ made = 0
    /\ client = [k \in Clients |-> NoClient]

-----------------------------------------------------------------------------
(* Clone.  Every Config is made on the cells of its own generation.        *)

Clone(c, g) == [c EXCEPT !.ptr = [f \in Pointers |-> IF c.ptr[f] = Nil THEN Nil ELSE g]]

(* The cells of a clone hold what those of the original do.                *)
cells(c) == [f \in Pointers |-> IF c.ptr[f] = Nil THEN 0 ELSE Read(c, f)]

Fresh == made + 1
MayMake(n) == made + n <= MaxConfigs /\ made' = made + n

Hold(v, c, kin, raw) == var' = [var EXCEPT ![v] = [kin |-> kin, raw |-> raw, config |-> c]]

(* DefaultConfig() and Config{}.                                           *)
MakeDefault(v) ==
    /\ MayMake(1)
    /\ Hold(v, DefaultConfig(Fresh), Fresh, FALSE)
    /\ heap' = [heap EXCEPT ![Fresh] = [f \in Pointers |-> IF f \in PoolFields THEN PoolDefault ELSE 0]]
    /\ UNCHANGED client

MakeZero(v) ==
    /\ MayMake(1)
    /\ Hold(v, Zero, Fresh, TRUE)
    /\ UNCHANGED <<heap, client>>

-----------------------------------------------------------------------------
(* With(option): what the options do to the clone c, whose cells are       *)
(* those of generation g, together with what is in the cells.              *)

(* The options of the pool allocate when they are applied.                 *)
PoolOption(c, g, old) ==
    {[config |-> [c EXCEPT !.ptr[f] = g], cells |-> [old EXCEPT ![f] = n]] : f \in PoolFields, n \in Values}

WithStartupPingRetry(c, r) ==
    [c EXCEPT !.retries  = IF r[1] >= 0 THEN r[1] ELSE @,
              !.baseWait = IF r[2] > 0 THEN r[2] ELSE @,
              !.maxWait  = IF r[3] > 0 THEN r[3] ELSE @]

(* WithNamingStrategy replaces the length with the rest of the strategy.   *)
ValueOption(c, old) ==
    {[config |-> d, cells |-> old] :
        d \in {WithStartupPingRetry(c, r) : r \in RetryArgs}
              \cup {[c EXCEPT !.Logger = l] : l \in {"nil", "mine"}}
              \cup {[c EXCEPT !.IdentifierMaxLength = n] : n \in {0, 30}}}

Applied(c, g, old) == {[config |-> c, cells |-> old]} \cup PoolOption(c, g, old) \cup ValueOption(c, old)

With(v, w) ==
    LET c == var[v].config
    IN  /\ var[v].kin # 0 /\ MayMake(1)
        /\ \E r \in Applied(Clone(c, Fresh), Fresh, cells(c)) :
            /\ Hold(w, r.config, Fresh, var[v].raw)
            /\ heap' = [heap EXCEPT ![Fresh] = r.cells]
        /\ UNCHANGED client

(* w = v: the pointers are shared.                                         *)
Assign(v, w) ==
    /\ var[v].kin # 0 /\ v # w
    /\ var' = [var EXCEPT ![w] = var[v]]
    /\ UNCHANGED <<heap, made, client>>

(* *v.Pool.MaxOpenConns = n.                                               *)
WriteThrough(v) ==
    /\ \E f \in Pointers, n \in Values :
        /\ var[v].config.ptr[f] # Nil
        /\ heap' = [heap EXCEPT ![var[v].config.ptr[f]][f] = n]
    /\ UNCHANGED <<var, made, client>>

(* v.Pool.MaxOpenConns = nil, v.Dialect.DefaultDatetimePrecision = &n.     *)
PointTo(v, f, p) == var' = [var EXCEPT ![v].config.ptr[f] = p, ![v].raw = TRUE]

SetField(v) ==
    /\ var[v].kin # 0
    /\ \/ (\E f \in PoolFields : PointTo(v, f, Nil)) /\ UNCHANGED <<heap, made>>
       \/ /\ MayMake(1) /\ PointTo(v, "DefaultDatetimePrecision", Fresh)
          /\ \E n \in Values : heap' = [heap EXCEPT ![Fresh]["DefaultDatetimePrecision"] = n]
    /\ UNCHANGED client

-----------------------------------------------------------------------------
(* openWithSQLDB: clone, apply the pool settings, hand the rest to GORM.   *)

applyPoolConfig(c, held, before) ==
    [f \in PoolFields |-> IF c.ptr[f] = Nil THEN before ELSE held[f]]

gormLogger(c) == IF c.Logger = "nil" THEN "discard" ELSE c.Logger

gormLength(c) == IF c.IdentifierMaxLength = 0 THEN 64 ELSE c.IdentifierMaxLength

(* Mutant: the Client keeps the Config it was opened with.                 *)
callersConfig(c, g) == c

snapshot(c, g) == Clone(c, g)

(* c is opened on a pool set to `before`; held is what its cells hold.     *)
openWithSQLDB(k, c, g, held, before) ==
    client' = [client EXCEPT ![k] =
        [open |-> TRUE, config |-> snapshot(c, g),
         atOpen |-> [c EXCEPT !.ptr = [f \in Pointers |-> IF c.ptr[f] = Nil THEN {} ELSE {held[f]}]],
         before |-> before, pool |-> applyPoolConfig(c, held, before),
         Logger |-> gormLogger(c), IdentifierMaxLength |-> gormLength(c)]]

(* Config.Open on a new pool, Config.OpenWithDB on one of the caller.      *)
Open(k, v) ==
    LET c == var[v].config
    IN  /\ ~client[k].open /\ var[v].kin # 0 /\ MayMake(1)
        /\ \E before \in {Unlimited, CallerValue} : openWithSQLDB(k, c, Fresh, cells(c), before)
        /\ heap' = [heap EXCEPT ![Fresh] = cells(c)]
        /\ UNCHANGED var

(* The package's OpenWithDB: the defaults without those of the pool.       *)
OpenWithDB(k) ==
    LET base == [DefaultConfig(Fresh) EXCEPT !.ptr = Zero.ptr]
    IN  /\ ~client[k].open /\ MayMake(2)
        /\ \E r \in Applied(base, Fresh, [f \in Pointers |-> 0]) :
            /\ openWithSQLDB(k, r.config, made + 2, r.cells, CallerValue)
            /\ heap' = [heap EXCEPT ![Fresh] = r.cells, ![made + 2] = r.cells]
        /\ UNCHANGED var

(* Client.Config().                                                        *)
Config(k, v) ==
    LET c == client[k].config
    IN  /\ client[k].open /\ MayMake(1)
        /\ Hold(v, Clone(c, Fresh), Fresh, TRUE)
        /\ heap' = [heap EXCEPT ![Fresh] = cells(c)]
        /\ UNCHANGED client

Next ==
    \/ \E v \in Vars :
        \/ MakeDefault(v) \/ MakeZero(v) \/ WriteThrough(v) \/ SetField(v)
        \/ \E w \in Vars : With(v, w) \/ Assign(v, w)
        \/ \E k \in Clients : Open(k, v) \/ Config(k, v)
    \/ \E k \in Clients : OpenWithDB(k)

Spec == Init /\ [][Next]_vars

-----------------------------------------------------------------------------
(* Properties.                                                             *)

(* Only plain assignment makes two Configs share what their pointers point *)
(* to; With, Clone and Client.Config never do (config.go, Clone).          *)
SharedByAssignmentOnly ==
    \A v, w \in Vars : \A f \in Pointers :
        /\ var[v].config.ptr[f] # Nil /\ var[v].config.ptr[f] = var[w].config.ptr[f]
        => var[v].kin = var[w].kin

(* A Client is what its Config was when it was opened: no write to that    *)
(* Config, to one assigned from it, or to what Client.Config returned gets *)
(* there (openWithSQLDB, Client.Config).  Its pool is set to what the      *)
(* Config shows and, where that shows nothing, is as it was; an explicit 0 *)
(* or a negative number is no less a setting than others (applyPoolConfig).*)
(* GORM never falls back to its own logger, which would print values.      *)
ClientFixed ==
    \A k \in Clients : client[k].open =>
        /\ Value(client[k].config) = client[k].atOpen
        /\ \A f \in PoolFields :
            client[k].pool[f] = IF client[k].config.ptr[f] = Nil THEN client[k].before
                                ELSE Read(client[k].config, f)
        /\ client[k].Logger # "nil" /\ client[k].IdentifierMaxLength # 0

(* Whatever options are given in whatever order, the startup ping is never *)
(* retried without a wait or a number of times below 0 (WithStartupPing-   *)
(* Retry), as long as no field was set directly.                           *)
WaitsUsable ==
    \A v \in Vars : var[v].kin # 0 /\ ~var[v].raw =>
        var[v].config.retries >= 0 /\ var[v].config.baseWait > 0 /\ var[v].config.maxWait > 0
=============================================================================
