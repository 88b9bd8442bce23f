------------------------ MODULE Configuration_proofs ------------------------
(***************************************************************************)
(* Theorems about Settings for any number of variables, Clients and        *)
(* fields, and for Configs made as often as you like; about RetryBackoff,  *)
(* for every word width and every choice of base waits, limits and retry   *)
(* numbers; and about DsnConfig, for any number of Configs and options in  *)
(* any order, whatever the DSNs say.                                       *)
(***************************************************************************)
EXTENDS Settings, RetryBackoff, DsnConfig, WellFoundedInduction, TLAPS

-----------------------------------------------------------------------------
(* Settings.  The argument is one of ownership: a Config is made on cells  *)
(* nobody has, only assignment hands cells on, and the cells of a Client   *)
(* are in no variable's reach.                                             *)


ConfigType ==
    [retries : Int, baseWait : Int, maxWait : Int, Logger : {"nil", "discard", "mine"},
     IdentifierMaxLength : Int, ptr : [Pointers -> Nat]]

Cells == [Pointers -> Int]

Typed ==
    /\ made \in 0..MaxConfigs
    /\ heap \in [1..MaxConfigs -> Cells]
    /\ var \in [Vars -> [kin : Nat, raw : BOOLEAN, config : ConfigType]]
    /\ \A v \in Vars : var[v].kin <= made
    /\ \A v \in Vars : \A f \in Pointers : var[v].config.ptr[f] <= made
    /\ DOMAIN client = Clients
    /\ \A k \in Clients : client[k].open \in BOOLEAN

(* No variable reaches a cell of a Client, which shows what it was opened  *)
(* with, as does its pool.                                                 *)
Reachable(f) == {var[v].config.ptr[f] : v \in Vars}

ClientOwns(k) ==
    /\ client[k].config \in ConfigType
    /\ \A f \in Pointers :
        /\ client[k].config.ptr[f] <= made
        /\ client[k].config.ptr[f] # Nil => client[k].config.ptr[f] \notin Reachable(f)
    /\ Value(client[k].config) = client[k].atOpen
    /\ \A f \in PoolFields :
        client[k].pool[f] = IF client[k].config.ptr[f] = Nil THEN client[k].before
                            ELSE Read(client[k].config, f)
    /\ client[k].Logger # "nil" /\ client[k].IdentifierMaxLength # 0

Usable(c) == c.retries >= 0 /\ c.baseWait > 0 /\ c.maxWait > 0

Inv ==
    /\ Typed
    /\ SharedByAssignmentOnly
    /\ \A k \in Clients : client[k].open => ClientOwns(k)
    /\ WaitsUsable

-----------------------------------------------------------------------------
(* The operators.                                                          *)

(* A clone is on cells of its own, and otherwise what the original is.     *)
LEMMA CloneFacts ==
    ASSUME NEW c \in ConfigType, NEW g \in Nat \ {0}
    PROVE  /\ Clone(c, g) \in ConfigType
           /\ \A f \in Pointers : Clone(c, g).ptr[f] = IF c.ptr[f] = Nil THEN Nil ELSE g
           /\ Usable(c) => Usable(Clone(c, g))
  BY DEF Clone, ConfigType, Nil, Usable

(* Options stay on the cells of the Config they are applied to.            *)
LEMMA AppliedFacts ==
    ASSUME NEW c \in ConfigType, NEW g \in Nat \ {0}, NEW old \in Cells,
           \A f \in Pointers : c.ptr[f] \in {Nil, g},
           NEW r \in Applied(c, g, old)
    PROVE  /\ r.config \in ConfigType /\ r.cells \in Cells
           /\ \A f \in Pointers : r.config.ptr[f] \in {Nil, g}
           /\ Usable(c) => Usable(r.config)
  <1>1. CASE r = [config |-> c, cells |-> old]
    BY <1>1
  <1>2. CASE r \in PoolOption(c, g, old)
    <2>1. PICK f \in PoolFields, n \in Values :
            r = [config |-> [c EXCEPT !.ptr[f] = g], cells |-> [old EXCEPT ![f] = n]]
      BY <1>2 DEF PoolOption
    <2>2. f \in Pointers /\ n \in Int
      BY ValuesAssumption DEF Pointers
    <2>3. [c EXCEPT !.ptr[f] = g] \in ConfigType /\ [old EXCEPT ![f] = n] \in Cells
      BY <2>2 DEF ConfigType, Cells
    <2>4. \A h \in Pointers : [c EXCEPT !.ptr[f] = g].ptr[h] \in {Nil, g}
      BY <2>2 DEF ConfigType
    <2>5. Usable(c) => Usable([c EXCEPT !.ptr[f] = g])
      BY DEF ConfigType, Usable
    <2>. QED
      BY <2>1, <2>3, <2>4, <2>5
  <1>3. CASE r \in ValueOption(c, old)
    <2>1. PICK d \in {WithStartupPingRetry(c, a) : a \in RetryArgs}
                     \cup {[c EXCEPT !.Logger = l] : l \in {"nil", "mine"}}
                     \cup {[c EXCEPT !.IdentifierMaxLength = n] : n \in {0, 30}} :
            r = [config |-> d, cells |-> old]
      BY <1>3 DEF ValueOption
    <2>2. d \in ConfigType /\ d.ptr = c.ptr /\ (Usable(c) => Usable(d))
      <3>1. ASSUME NEW a \in RetryArgs, d = WithStartupPingRetry(c, a)
            PROVE  d \in ConfigType /\ d.ptr = c.ptr /\ (Usable(c) => Usable(d))
        <4>1. a[1] \in Int /\ a[2] \in Int /\ a[3] \in Int
          BY ArgsAssumption
        <4>. QED
          BY <3>1, <4>1 DEF WithStartupPingRetry, ConfigType, Usable
      <3>2. ASSUME NEW l \in {"nil", "mine"}, d = [c EXCEPT !.Logger = l]
            PROVE  d \in ConfigType /\ d.ptr = c.ptr /\ (Usable(c) => Usable(d))
        BY <3>2 DEF ConfigType, Usable
      <3>3. ASSUME NEW n \in {0, 30}, d = [c EXCEPT !.IdentifierMaxLength = n]
            PROVE  d \in ConfigType /\ d.ptr = c.ptr /\ (Usable(c) => Usable(d))
        BY <3>3 DEF ConfigType, Usable
      <3>. QED
        BY <3>1, <3>2, <3>3
    <2>. QED
      BY <2>1, <2>2
  <1>. QED
    BY <1>1, <1>2, <1>3 DEF Applied

LEMMA CellsTyped ==
    ASSUME Typed, NEW c \in ConfigType, \A f \in Pointers : c.ptr[f] <= made
    PROVE  cells(c) \in Cells
  <1>. SUFFICES ASSUME NEW f \in Pointers
                PROVE  (IF c.ptr[f] = Nil THEN 0 ELSE Read(c, f)) \in Int
    BY DEF cells, Cells
  <1>1. c.ptr[f] \in Nat /\ made \in Nat /\ made <= MaxConfigs
    BY ArgsAssumption DEF ConfigType, Typed
  <1>2. ASSUME c.ptr[f] # Nil
        PROVE  heap[c.ptr[f]] \in Cells
    BY <1>1, <1>2, ArgsAssumption DEF Typed, Nil
  <1>. QED
    BY <1>2 DEF Read, Cells

LEMMA DefaultTyped ==
    ASSUME NEW g \in Nat
    PROVE  /\ DefaultConfig(g) \in ConfigType /\ Zero \in ConfigType
           /\ Usable(DefaultConfig(g))
           /\ \A f \in Pointers : DefaultConfig(g).ptr[f] \in {Nil, g} /\ Zero.ptr[f] = Nil
  BY DEF DefaultConfig, Zero, ConfigType, Usable, Nil

-----------------------------------------------------------------------------
(* What becomes of Clients and variables.                                  *)

(* Cells of the Configs made so far are left alone.                        *)
Kept == \A g \in 1..made : heap'[g] = heap[g]

(* A Client stays as it is when nothing it points to is written or handed  *)
(* out.                                                                    *)
LEMMA ClientFrame ==
    ASSUME NEW k \in Clients, ClientOwns(k), client'[k] = client[k],
           made \in Nat, made' \in Nat, made <= made',
           \A f \in Pointers : client[k].config.ptr[f] # Nil =>
              /\ heap'[client[k].config.ptr[f]][f] = heap[client[k].config.ptr[f]][f]
              /\ client[k].config.ptr[f] \notin Reachable(f)'
    PROVE  ClientOwns(k)'
  <1>. DEFINE c == client[k].config
  <1>1. c \in ConfigType /\ c' = c
    BY DEF ClientOwns
  <1>2. \A f \in Pointers : c.ptr[f] \in Nat /\ c.ptr[f] <= made /\ c.ptr[f] <= made'
    BY <1>1 DEF ClientOwns, ConfigType
  <1>3. \A f \in Pointers : c.ptr[f] # Nil => Read(c, f)' = Read(c, f)
    BY <1>1 DEF Read
  <1>4. Value(c)' = Value(c)
    BY <1>1, <1>3 DEF Value
  <1>5. \A f \in PoolFields : f \in Pointers
    BY DEF Pointers
  <1>6. client'[k].config \in ConfigType
    BY <1>1
  <1>7. \A f \in Pointers :
          /\ client'[k].config.ptr[f] <= made'
          /\ client'[k].config.ptr[f] # Nil => client'[k].config.ptr[f] \notin Reachable(f)'
    BY <1>1, <1>2
  <1>8. Value(client[k].config)' = client'[k].atOpen
    BY <1>4 DEF ClientOwns
  <1>9. \A f \in PoolFields :
          client'[k].pool[f] = IF client'[k].config.ptr[f] = Nil THEN client'[k].before
                               ELSE Read(client[k].config, f)'
    BY <1>3, <1>5, <1>1 DEF ClientOwns
  <1>. QED
    BY <1>6, <1>7, <1>8, <1>9 DEF ClientOwns, Nil

(* Variables that come to hold cells of others, none or new ones do not    *)
(* reach those of a Client.                                                *)
LEMMA ClientsKept ==
    ASSUME Inv, UNCHANGED client, made' \in Nat, made <= made', Kept,
           \A v \in Vars : \A f \in Pointers :
              var'[v].config.ptr[f] \in Reachable(f) \cup {Nil, made + 1}
    PROVE  \A k \in Clients : client'[k].open => ClientOwns(k)'
  <1>. SUFFICES ASSUME NEW k \in Clients, client'[k].open
                PROVE  ClientOwns(k)'
    OBVIOUS
  <1>1. ClientOwns(k) /\ client'[k] = client[k]
    BY DEF Inv
  <1>2. made \in Nat
    BY ArgsAssumption DEF Inv, Typed
  <1>3. ASSUME NEW f \in Pointers, client[k].config.ptr[f] # Nil
        PROVE  /\ heap'[client[k].config.ptr[f]][f] = heap[client[k].config.ptr[f]][f]
               /\ client[k].config.ptr[f] \notin Reachable(f)'
    <2>1. client[k].config.ptr[f] \in 1..made
      BY <1>1, <1>2, <1>3 DEF ClientOwns, ConfigType, Nil
    <2>2. client[k].config.ptr[f] \notin Reachable(f)
      BY <1>1, <1>3 DEF ClientOwns
    <2>3. ASSUME NEW v \in Vars
          PROVE  client[k].config.ptr[f] # var'[v].config.ptr[f]
      BY <1>2, <2>1, <2>2 DEF Nil
    <2>4. client[k].config.ptr[f] \notin Reachable(f)'
      BY <2>3 DEF Reachable
    <2>. QED
      BY <2>1, <2>4 DEF Kept
  <1>. QED
    BY <1>1, <1>2, <1>3, ClientFrame

LEMMA VarsTyped ==
    ASSUME Typed, NEW v \in Vars
    PROVE  /\ var[v].config \in ConfigType /\ var[v].kin \in Nat /\ var[v].kin <= made
           /\ var[v].raw \in BOOLEAN
           /\ \A f \in Pointers : var[v].config.ptr[f] \in Nat /\ var[v].config.ptr[f] <= made
  <1>1. var[v] \in [kin : Nat, raw : BOOLEAN, config : ConfigType]
    BY DEF Typed
  <1>2. var[v].config \in ConfigType
    BY <1>1
  <1>3. var[v].config.ptr \in [Pointers -> Nat]
    BY <1>2 DEF ConfigType
  <1>. QED
    BY <1>1, <1>2, <1>3 DEF Typed

(* A variable holds a new Config on cells nobody has.                      *)
LEMMA HoldNew ==
    ASSUME Inv, MayMake(1), UNCHANGED client,
           heap' \in [1..MaxConfigs -> Cells], Kept,
           NEW w \in Vars, NEW c \in ConfigType, NEW raw \in BOOLEAN, Hold(w, c, Fresh, raw),
           \A f \in Pointers : c.ptr[f] \in {Nil, Fresh},
           ~raw => Usable(c)
    PROVE  Inv'
  <1>. USE DEF Nil, Fresh
  <1>1. made \in Nat /\ made' = made + 1 /\ made' \in 0..MaxConfigs
    BY ArgsAssumption DEF Inv, Typed, MayMake
  <1>2. /\ var'[w] = [kin |-> made + 1, raw |-> raw, config |-> c]
        /\ \A v \in Vars \ {w} : var'[v] = var[v]
        /\ var' \in [Vars -> [kin : Nat, raw : BOOLEAN, config : ConfigType]]
    BY <1>1 DEF Hold, Inv, Typed
  <1>3. \A v \in Vars :
          /\ var[v].config \in ConfigType /\ var[v].kin \in Nat /\ var[v].kin <= made
          /\ \A f \in Pointers : var[v].config.ptr[f] \in Nat /\ var[v].config.ptr[f] <= made
    BY VarsTyped DEF Inv
  <1>4. Typed'
    <2>1. \A v \in Vars : var'[v].kin <= made'
      BY <1>1, <1>2, <1>3
    <2>2. \A v \in Vars : \A f \in Pointers : var'[v].config.ptr[f] <= made'
      BY <1>1, <1>2, <1>3
    <2>. QED
      BY <1>1, <1>2, <2>1, <2>2 DEF Inv, Typed
  <1>5. SharedByAssignmentOnly'
    <2>. SUFFICES ASSUME NEW v \in Vars, NEW u \in Vars, NEW f \in Pointers,
                         var'[v].config.ptr[f] # Nil,
                         var'[v].config.ptr[f] = var'[u].config.ptr[f]
                  PROVE  var'[v].kin = var'[u].kin
      BY DEF SharedByAssignmentOnly
    <2>1. CASE v = w /\ u = w
      BY <2>1
    <2>2. CASE v = w /\ u # w
      BY <2>2, <1>1, <1>2, <1>3
    <2>3. CASE v # w /\ u = w
      BY <2>3, <1>1, <1>2, <1>3
    <2>4. CASE v # w /\ u # w
      BY <2>4, <1>2 DEF Inv, SharedByAssignmentOnly
    <2>. QED
      BY <2>1, <2>2, <2>3, <2>4
  <1>6. \A v \in Vars : \A f \in Pointers : var'[v].config.ptr[f] \in Reachable(f) \cup {Nil, made + 1}
    BY <1>2 DEF Reachable
  <1>8. \A k \in Clients : client'[k].open => ClientOwns(k)'
    BY <1>1, <1>6, ClientsKept
  <1>7. WaitsUsable'
    BY <1>2 DEF Inv, WaitsUsable, Usable
  <1>. QED
    BY <1>4, <1>5, <1>7, <1>8 DEF Inv

(* A variable, all but its kin, is what another one is or has a pointer    *)
(* replaced: by nil, or by a new one.                                      *)
LEMMA AssignInv == ASSUME Inv, NEW v \in Vars, NEW w \in Vars, Assign(v, w) PROVE Inv'
  <1>. USE DEF Nil
  <1>1. made \in Nat /\ UNCHANGED <<heap, made, client>>
    BY ArgsAssumption DEF Inv, Typed, Assign
  <1>2. var' \in [Vars -> [kin : Nat, raw : BOOLEAN, config : ConfigType]]
    BY DEF Inv, Typed, Assign
  <1>3. \A u \in Vars : \E t \in Vars : var'[u] = var[t]
    BY DEF Assign, Inv, Typed
  <1>4. Typed'
    <2>1. \A u \in Vars : var'[u].kin <= made' /\ \A f \in Pointers : var'[u].config.ptr[f] <= made'
      BY <1>1, <1>3, VarsTyped DEF Inv
    <2>. QED
      BY <1>1, <1>2, <2>1 DEF Inv, Typed
  <1>5. SharedByAssignmentOnly'
    BY <1>3 DEF Inv, SharedByAssignmentOnly
  <1>6. \A u \in Vars : \A f \in Pointers : var'[u].config.ptr[f] \in Reachable(f)
    BY <1>3 DEF Reachable
  <1>7. \A k \in Clients : client'[k].open => ClientOwns(k)'
    BY <1>1, <1>6, ClientsKept DEF Kept
  <1>8. WaitsUsable'
    BY <1>3 DEF Inv, WaitsUsable
  <1>. QED
    BY <1>4, <1>5, <1>7, <1>8 DEF Inv

LEMMA SetFieldInv == ASSUME Inv, NEW v \in Vars, SetField(v) PROVE Inv'
  <1>. USE DEF Nil, Fresh
  <1>1. made \in Nat /\ made' \in 0..MaxConfigs /\ made <= made' /\ UNCHANGED client
    BY ArgsAssumption DEF Inv, Typed, SetField, MayMake
  <1>2. PICK f \in Pointers, p \in {Nil, made + 1} : PointTo(v, f, p) /\ p <= made'
    <2>1. CASE \E f \in PoolFields : PointTo(v, f, Nil)
      BY <1>1, <2>1 DEF Pointers
    <2>2. CASE MayMake(1) /\ PointTo(v, "DefaultDatetimePrecision", made + 1)
      <3>1. "DefaultDatetimePrecision" \in Pointers /\ made + 1 <= made'
        BY <1>1, <2>2 DEF Pointers, MayMake
      <3>. QED
        BY <2>2, <3>1
    <2>. QED
      BY <2>1, <2>2 DEF SetField
  <1>3. \A u \in Vars : var'[u].kin = var[u].kin /\ (u # v => var'[u] = var[u]) /\ var'[v].raw
    BY <1>2 DEF Inv, Typed, PointTo
  <1>4. /\ var'[v].config.ptr = [var[v].config.ptr EXCEPT ![f] = p]
        /\ var'[v].config = [var[v].config EXCEPT !.ptr = var'[v].config.ptr]
        /\ var'[v] = [kin |-> var[v].kin, raw |-> TRUE, config |-> var'[v].config]
    <2>1. var[v] \in [kin : Nat, raw : BOOLEAN, config : ConfigType] /\ var[v].config \in ConfigType
      BY DEF Inv, Typed
    <2>2. var'[v] = [var[v] EXCEPT !.config.ptr[f] = p, !.raw = TRUE]
      BY <1>2 DEF Inv, Typed, PointTo
    <2>. QED
      BY <2>1, <2>2 DEF ConfigType
  <1>5. \A u \in Vars : \A h \in Pointers : var'[u].config.ptr[h] \in {var[u].config.ptr[h], Nil, made + 1}
    <2>1. \A h \in Pointers : var'[v].config.ptr[h] \in {var[v].config.ptr[h], p}
      BY <1>4, VarsTyped DEF Inv, ConfigType
    <2>. QED
      BY <1>3, <2>1
  <1>6. \A u \in Vars : \A h \in Pointers : var'[u].config.ptr[h] <= made'
    <2>1. \A h \in Pointers : var'[v].config.ptr[h] \in {var[v].config.ptr[h], p}
      BY <1>4, VarsTyped DEF Inv, ConfigType
    <2>2. \A u \in Vars : \A h \in Pointers : var[u].config.ptr[h] \in Nat /\ var[u].config.ptr[h] <= made
      BY VarsTyped DEF Inv
    <2>3. \A h \in Pointers : var'[v].config.ptr[h] <= made'
      <3>1. p <= made' /\ made' \in Nat
        BY <1>1, <1>2
      <3>. QED
        BY <1>1, <2>1, <2>2, <3>1
    <2>. QED
      BY <1>1, <1>3, <2>2, <2>3
  <1>7. var' \in [Vars -> [kin : Nat, raw : BOOLEAN, config : ConfigType]]
    <2>1. var[v].config \in ConfigType /\ var[v].config.ptr \in [Pointers -> Nat] /\ var[v].kin \in Nat
      BY VarsTyped DEF Inv, ConfigType
    <2>2. var'[v].config.ptr \in [Pointers -> Nat]
      BY <1>1, <1>4, <2>1
    <2>3. var'[v].config \in ConfigType
      BY <1>4, <2>1, <2>2 DEF ConfigType
    <2>4. var'[v] \in [kin : Nat, raw : BOOLEAN, config : ConfigType]
      <3>1. [kin |-> var[v].kin, raw |-> TRUE, config |-> var'[v].config]
               \in [kin : Nat, raw : BOOLEAN, config : ConfigType]
        BY <2>1, <2>3
      <3>. QED
        BY <1>4, <3>1, Zenon
    <2>5. \A u \in Vars : var'[u] \in [kin : Nat, raw : BOOLEAN, config : ConfigType]
      BY <1>3, <2>4 DEF Inv, Typed
    <2>6. DOMAIN var' = Vars /\ var' = [u \in Vars |-> var'[u]]
      BY <1>2 DEF Inv, Typed, PointTo
    <2>. QED
      BY <2>5, <2>6
  <1>8. heap' \in [1..MaxConfigs -> Cells] /\ Kept
    <2>1. CASE UNCHANGED heap
      BY <2>1 DEF Inv, Typed, Kept
    <2>2. CASE \E n \in Values : heap' = [heap EXCEPT ![made + 1]["DefaultDatetimePrecision"] = n]
      <3>1. PICK n \in Values : heap' = [heap EXCEPT ![made + 1]["DefaultDatetimePrecision"] = n]
        BY <2>2
      <3>2. [heap[made + 1] EXCEPT !["DefaultDatetimePrecision"] = n] \in Cells \/ made + 1 \notin 1..MaxConfigs
        BY ValuesAssumption DEF Inv, Typed, Cells
      <3>3. heap' \in [1..MaxConfigs -> Cells]
        BY <3>1, <3>2 DEF Inv, Typed
      <3>. QED
        BY <3>1, <3>3, <1>1, ArgsAssumption DEF Kept, Inv, Typed
    <2>. QED
      BY <2>1, <2>2 DEF SetField
  <1>9. Typed'
    <2>1. \A u \in Vars : var'[u].kin <= made'
      BY <1>1, <1>3, VarsTyped DEF Inv
    <2>. QED
      BY <1>1, <1>6, <1>7, <1>8, <2>1 DEF Inv, Typed
  <1>10. SharedByAssignmentOnly'
    <2>. SUFFICES ASSUME NEW t \in Vars, NEW u \in Vars, NEW h \in Pointers,
                         var'[t].config.ptr[h] # Nil,
                         var'[t].config.ptr[h] = var'[u].config.ptr[h]
                  PROVE  var'[t].kin = var'[u].kin
      BY DEF SharedByAssignmentOnly
    <2>1. var[t].config.ptr[h] \in 0..made /\ var[u].config.ptr[h] \in 0..made
      BY <1>1, VarsTyped DEF Inv
    <2>2. CASE t = u
      BY <2>2
    <2>3. CASE t # u /\ (t = v \/ u = v)
      <3>. DEFINE now(w)  == var[w].config.ptr[h]
                  then(w) == var'[w].config.ptr[h]
      <3>1. /\ then(t) \in {now(t), Nil, made + 1} /\ then(u) \in {now(u), Nil, made + 1}
            /\ then(t) = now(t) \/ then(u) = now(u)
        BY <2>3, <1>3, <1>5
      <3>2. /\ now(t) \in 0..made /\ now(u) \in 0..made
            /\ then(t) # Nil /\ then(t) = then(u)
        BY <2>1
      <3>3. then(t) = now(t) /\ then(u) = now(u)
        <4>. HIDE DEF now, then
        <4>. QED
          BY <3>1, <3>2, <1>1
      <3>4. var[t].kin = var[u].kin
        BY <3>2, <3>3 DEF Inv, SharedByAssignmentOnly
      <3>. QED
        BY <1>3, <3>4
    <2>4. CASE t # v /\ u # v
      BY <2>4, <1>3 DEF Inv, SharedByAssignmentOnly
    <2>. QED
      BY <2>2, <2>3, <2>4
  <1>11. \A k \in Clients : client'[k].open => ClientOwns(k)'
    <2>1. \A u \in Vars : \A h \in Pointers : var'[u].config.ptr[h] \in Reachable(h) \cup {Nil, made + 1}
      BY <1>5 DEF Reachable
    <2>. QED
      BY <1>1, <1>8, <2>1, ArgsAssumption, ClientsKept
  <1>12. WaitsUsable'
    BY <1>3 DEF Inv, WaitsUsable
  <1>. QED
    BY <1>9, <1>10, <1>11, <1>12 DEF Inv

(* A write through a variable reaches no Client.                           *)
LEMMA WriteThroughInv == ASSUME Inv, NEW v \in Vars, WriteThrough(v) PROVE Inv'
  <1>. USE DEF Nil
  <1>1. UNCHANGED <<var, made, client>> /\ made \in Nat
    BY ArgsAssumption DEF WriteThrough, Inv, Typed
  <1>2. PICK f \in Pointers, n \in Values :
          /\ var[v].config.ptr[f] # Nil
          /\ heap' = [heap EXCEPT ![var[v].config.ptr[f]][f] = n]
    BY DEF WriteThrough
  <1>. DEFINE p == var[v].config.ptr[f]
  <1>3. p \in 1..made /\ p \in 1..MaxConfigs /\ p \in Reachable(f) /\ n \in Int
    BY <1>1, <1>2, VarsTyped, ValuesAssumption, ArgsAssumption DEF Inv, Typed, Reachable
  <1>4. heap \in [1..MaxConfigs -> Cells] /\ heap[p] \in Cells
    BY <1>3 DEF Inv, Typed
  <1>. HIDE DEF p
  <1>5. heap' = [heap EXCEPT ![p][f] = n]
    BY <1>2 DEF p
  <1>6. heap' \in [1..MaxConfigs -> Cells]
    BY <1>3, <1>4, <1>5 DEF Cells
  <1>7. \A g \in 1..MaxConfigs : \A h \in Pointers : g # p \/ h # f => heap'[g][h] = heap[g][h]
    BY <1>3, <1>4, <1>5 DEF Cells
  <1>8. Typed' /\ SharedByAssignmentOnly' /\ WaitsUsable'
    BY <1>1, <1>6 DEF Inv, Typed, SharedByAssignmentOnly, WaitsUsable
  <1>9. ASSUME NEW k \in Clients, client'[k].open
        PROVE  ClientOwns(k)'
    <2>1. ClientOwns(k) /\ client'[k] = client[k]
      BY <1>1, <1>9 DEF Inv
    <2>2. ASSUME NEW h \in Pointers, client[k].config.ptr[h] # Nil
          PROVE  /\ heap'[client[k].config.ptr[h]][h] = heap[client[k].config.ptr[h]][h]
                 /\ client[k].config.ptr[h] \notin Reachable(h)'
      <3>1. client[k].config.ptr[h] \in 1..MaxConfigs /\ client[k].config.ptr[h] \notin Reachable(h)
        BY <2>1, <2>2, <1>1, ArgsAssumption DEF ClientOwns, ConfigType, Inv, Typed
      <3>2. Reachable(h)' = Reachable(h)
        BY <1>1 DEF Reachable
      <3>3. client[k].config.ptr[h] # p \/ h # f
        BY <3>1, <1>3
      <3>. QED
        BY <3>1, <3>2, <3>3, <1>7
    <2>. QED
      BY <2>1, <2>2, <1>1, ClientFrame
  <1>. QED
    BY <1>8, <1>9 DEF Inv

(* A Client is opened on cells that nobody else has.                       *)
LEMMA OpenedInv ==
    ASSUME Inv, UNCHANGED var, NEW k \in Clients, NEW c \in ConfigType, NEW held \in Cells, NEW before,
           NEW g \in Nat, made < g, g <= made', made' \in 0..MaxConfigs,
           openWithSQLDB(k, c, g, held, before),
           heap' \in [1..MaxConfigs -> Cells], Kept, heap'[g] = held
    PROVE  Inv'
  <1>. USE DEF Nil
  <1>. DEFINE s == Clone(c, g)
              new == [open |-> TRUE, config |-> s,
                      atOpen |-> [c EXCEPT !.ptr = [f \in Pointers |-> IF c.ptr[f] = 0 THEN {} ELSE {held[f]}]],
                      before |-> before, pool |-> applyPoolConfig(c, held, before),
                      Logger |-> gormLogger(c), IdentifierMaxLength |-> gormLength(c)]
  <1>1. made \in Nat /\ made' \in Nat /\ made <= made' /\ g # 0 /\ g \in 1..MaxConfigs
    BY ArgsAssumption DEF Inv, Typed
  <1>2. s \in ConfigType /\ \A f \in Pointers : s.ptr[f] = IF c.ptr[f] = 0 THEN 0 ELSE g
    BY <1>1, CloneFacts
  <1>3. client' = [client EXCEPT ![k] = new]
    BY DEF openWithSQLDB, snapshot
  <1>4. new.config = s /\ new.open = TRUE /\ new.before = before
        /\ new.pool = applyPoolConfig(c, held, before)
        /\ new.atOpen = [c EXCEPT !.ptr = [f \in Pointers |-> IF c.ptr[f] = 0 THEN {} ELSE {held[f]}]]
        /\ new.Logger = gormLogger(c) /\ new.IdentifierMaxLength = gormLength(c)
    OBVIOUS
  <1>. HIDE DEF new
  <1>5. DOMAIN client' = Clients /\ client'[k] = new /\ \A j \in Clients \ {k} : client'[j] = client[j]
    BY <1>3 DEF Inv, Typed
  <1>6. Typed'
    <2>1. \A v \in Vars : var'[v].kin <= made' /\ \A f \in Pointers : var'[v].config.ptr[f] <= made'
      BY <1>1, VarsTyped DEF Inv
    <2>2. \A j \in Clients : client'[j].open \in BOOLEAN
      BY <1>4, <1>5 DEF Inv, Typed
    <2>. QED
      BY <1>5, <2>1, <2>2 DEF Inv, Typed
  <1>7. SharedByAssignmentOnly' /\ WaitsUsable'
    BY DEF Inv, SharedByAssignmentOnly, WaitsUsable
  <1>8. \A f \in Pointers : Reachable(f)' = Reachable(f)
    BY DEF Reachable
  <1>9. ClientOwns(k)'
    <2>1. \A f \in Pointers : g \notin Reachable(f)
      BY <1>1, VarsTyped DEF Inv, Reachable
    <2>2. \A f \in Pointers : s.ptr[f] <= made' /\ (s.ptr[f] # 0 => s.ptr[f] \notin Reachable(f)')
      BY <1>1, <1>2, <1>8, <2>1
    <2>3. \A f \in Pointers : s.ptr[f] # 0 => Read(s, f)' = held[f]
      BY <1>2 DEF Read
    <2>4. Value(s)' = new.atOpen
      <3>1. [f \in Pointers |-> IF s.ptr[f] = 0 THEN {} ELSE {Read(s, f)'}]
              = [f \in Pointers |-> IF c.ptr[f] = 0 THEN {} ELSE {held[f]}]
        BY <1>1, <1>2, <2>3
      <3>2. Value(s)' = [s EXCEPT !.ptr = [f \in Pointers |-> IF s.ptr[f] = 0 THEN {} ELSE {Read(s, f)'}]]
        BY DEF Value
      <3>3. \A F : [s EXCEPT !.ptr = F] = [c EXCEPT !.ptr = F]
        BY DEF Clone, ConfigType
      <3>. QED
        BY <1>4, <3>1, <3>2, <3>3
    <2>5. \A f \in PoolFields :
            new.pool[f] = IF s.ptr[f] = 0 THEN before ELSE Read(s, f)'
      BY <1>1, <1>2, <1>4, <2>3 DEF applyPoolConfig, Pointers
    <2>. HIDE DEF s
    <2>6. client'[k].config = s /\ client'[k].pool = new.pool /\ client'[k].before = before
          /\ client'[k].atOpen = new.atOpen
      BY <1>4, <1>5
    <2>7. Value(client[k].config)' = Value(s)' /\ \A f \in PoolFields : Read(client[k].config, f)' = Read(s, f)'
      BY <2>6 DEF Value, Read
    <2>8. client'[k].Logger # "nil" /\ client'[k].IdentifierMaxLength # 0
      BY <1>4, <1>5 DEF gormLogger, gormLength
    <2>. QED
      BY <1>2, <2>2, <2>4, <2>5, <2>6, <2>7, <2>8 DEF ClientOwns
  <1>10. ASSUME NEW j \in Clients, client'[j].open
         PROVE  ClientOwns(j)'
    <2>1. CASE j = k
      BY <1>9, <2>1
    <2>2. CASE j # k
      <3>1. ClientOwns(j) /\ client'[j] = client[j]
        BY <1>5, <1>10, <2>2 DEF Inv
      <3>2. ASSUME NEW f \in Pointers, client[j].config.ptr[f] # Nil
            PROVE  /\ heap'[client[j].config.ptr[f]][f] = heap[client[j].config.ptr[f]][f]
                   /\ client[j].config.ptr[f] \notin Reachable(f)'
        <4>1. client[j].config.ptr[f] \in 1..made
          BY <3>1, <3>2, <1>1 DEF ClientOwns, ConfigType
        <4>. QED
          BY <3>1, <3>2, <4>1, <1>8 DEF ClientOwns, Kept
      <3>. QED
        BY <3>1, <3>2, <1>1, ClientFrame
    <2>. QED
      BY <2>1, <2>2
  <1>. QED
    BY <1>6, <1>7, <1>10 DEF Inv

-----------------------------------------------------------------------------
(* The actions that make a Config.                                         *)

LEMMA NewCells ==
    ASSUME Typed, MayMake(1), NEW x \in Cells, heap' = [heap EXCEPT ![Fresh] = x]
    PROVE  heap' \in [1..MaxConfigs -> Cells] /\ Kept /\ heap'[Fresh] = x
  <1>1. made \in Nat /\ Fresh \in 1..MaxConfigs
    BY ArgsAssumption DEF Typed, MayMake, Fresh
  <1>. QED
    BY <1>1 DEF Typed, Kept, Fresh

LEMMA FreshFacts ==
    ASSUME Typed
    PROVE  made \in Nat /\ Fresh \in Nat \ {0} /\ Fresh = made + 1
  BY ArgsAssumption DEF Typed, Fresh

LEMMA MakeDefaultInv == ASSUME Inv, NEW v \in Vars, MakeDefault(v) PROVE Inv'
  <1>1. Fresh \in Nat /\ Typed
    BY FreshFacts DEF Inv
  <1>2. [f \in Pointers |-> IF f \in PoolFields THEN PoolDefault ELSE 0] \in Cells
    BY ValuesAssumption DEF Cells
  <1>3. heap' \in [1..MaxConfigs -> Cells] /\ Kept
    BY <1>1, <1>2, NewCells DEF MakeDefault
  <1>4. /\ DefaultConfig(Fresh) \in ConfigType /\ Usable(DefaultConfig(Fresh))
        /\ \A f \in Pointers : DefaultConfig(Fresh).ptr[f] \in {Nil, Fresh}
    BY <1>1, DefaultTyped
  <1>5. MayMake(1) /\ Hold(v, DefaultConfig(Fresh), Fresh, FALSE) /\ UNCHANGED client
    BY DEF MakeDefault
  <1>. QED
    BY <1>3, <1>4, <1>5, HoldNew

LEMMA MakeZeroInv == ASSUME Inv, NEW v \in Vars, MakeZero(v) PROVE Inv'
  <1>1. heap' \in [1..MaxConfigs -> Cells] /\ Kept
    BY DEF MakeZero, Inv, Typed, Kept
  <1>2. Zero \in ConfigType /\ \A f \in Pointers : Zero.ptr[f] \in {Nil, Fresh}
    BY DefaultTyped
  <1>3. MayMake(1) /\ Hold(v, Zero, Fresh, TRUE) /\ UNCHANGED client
    BY DEF MakeZero
  <1>. QED
    BY <1>1, <1>2, <1>3, HoldNew

LEMMA WithInv == ASSUME Inv, NEW v \in Vars, NEW w \in Vars, With(v, w) PROVE Inv'
  <1>. DEFINE c == var[v].config
              d == Clone(c, Fresh)
              held == cells(c)
              raw == var[v].raw
  <1>1. Typed /\ Fresh \in Nat \ {0}
    BY FreshFacts DEF Inv
  <1>2. c \in ConfigType /\ raw \in BOOLEAN /\ var[v].kin # 0 /\ \A f \in Pointers : c.ptr[f] <= made
    BY <1>1, VarsTyped DEF With
  <1>3. held \in Cells
    BY <1>1, <1>2, CellsTyped
  <1>4. d \in ConfigType /\ (\A f \in Pointers : d.ptr[f] \in {Nil, Fresh}) /\ (Usable(c) => Usable(d))
    <2>. HIDE DEF c
    <2>. QED
      BY <1>1, <1>2, CloneFacts
  <1>5. ~raw => Usable(c)
    BY <1>2 DEF Inv, WaitsUsable, Usable
  <1>6. PICK r \in Applied(d, Fresh, held) :
          Hold(w, r.config, Fresh, raw) /\ heap' = [heap EXCEPT ![Fresh] = r.cells]
    BY DEF With
  <1>7. MayMake(1) /\ UNCHANGED client
    BY DEF With
  <1>. HIDE DEF c, d, held, raw
  <1>8. /\ r.config \in ConfigType /\ r.cells \in Cells
        /\ \A f \in Pointers : r.config.ptr[f] \in {Nil, Fresh}
        /\ Usable(d) => Usable(r.config)
    BY <1>1, <1>3, <1>4, AppliedFacts
  <1>9. heap' \in [1..MaxConfigs -> Cells] /\ Kept
    BY <1>1, <1>6, <1>7, <1>8, NewCells
  <1>10. ~raw => Usable(r.config)
    BY <1>4, <1>5, <1>8
  <1>. QED
    BY <1>2, <1>6, <1>7, <1>8, <1>9, <1>10, HoldNew

LEMMA ConfigInv == ASSUME Inv, NEW k \in Clients, NEW v \in Vars, Config(k, v) PROVE Inv'
  <1>. DEFINE c == client[k].config
  <1>1. Typed /\ Fresh \in Nat \ {0}
    BY FreshFacts DEF Inv
  <1>2. c \in ConfigType /\ \A f \in Pointers : c.ptr[f] <= made
    BY DEF Config, Inv, ClientOwns
  <1>3. /\ Hold(v, Clone(c, Fresh), Fresh, TRUE) /\ heap' = [heap EXCEPT ![Fresh] = cells(c)]
        /\ MayMake(1) /\ UNCHANGED client
    BY DEF Config
  <1>. HIDE DEF c
  <1>4. heap' \in [1..MaxConfigs -> Cells] /\ Kept
    BY <1>1, <1>2, <1>3, CellsTyped, NewCells
  <1>5. Clone(c, Fresh) \in ConfigType /\ \A f \in Pointers : Clone(c, Fresh).ptr[f] \in {Nil, Fresh}
    BY <1>1, <1>2, CloneFacts
  <1>. QED
    BY <1>3, <1>4, <1>5, HoldNew

LEMMA OpenInv == ASSUME Inv, NEW k \in Clients, NEW v \in Vars, Open(k, v) PROVE Inv'
  <1>. DEFINE c == var[v].config
  <1>1. Typed /\ Fresh \in Nat /\ made < Fresh /\ made' = Fresh /\ made' \in 0..MaxConfigs
    BY FreshFacts, ArgsAssumption DEF Inv, Open, MayMake
  <1>2. c \in ConfigType /\ \A f \in Pointers : c.ptr[f] <= made
    BY <1>1, VarsTyped
  <1>3. PICK before \in {Unlimited, CallerValue} : openWithSQLDB(k, c, Fresh, cells(c), before)
    BY DEF Open
  <1>4. heap' = [heap EXCEPT ![Fresh] = cells(c)] /\ MayMake(1) /\ UNCHANGED var
    BY DEF Open
  <1>. HIDE DEF c
  <1>5. cells(c) \in Cells
    BY <1>1, <1>2, CellsTyped
  <1>6. heap' \in [1..MaxConfigs -> Cells] /\ Kept /\ heap'[Fresh] = cells(c)
    BY <1>1, <1>4, <1>5, NewCells
  <1>7. Fresh <= made'
    BY <1>1
  <1>. QED
    BY <1>1, <1>2, <1>3, <1>4, <1>5, <1>6, <1>7, OpenedInv

LEMMA OpenWithDBInv == ASSUME Inv, NEW k \in Clients, OpenWithDB(k) PROVE Inv'
  <1>. DEFINE base == [DefaultConfig(Fresh) EXCEPT !.ptr = Zero.ptr]
              none == [f \in Pointers |-> 0]
  <1>1. Typed /\ made \in Nat /\ Fresh \in Nat \ {0} /\ Fresh = made + 1
    BY FreshFacts DEF Inv
  <1>2. base \in ConfigType /\ none \in Cells /\ \A f \in Pointers : base.ptr[f] \in {Nil, Fresh}
    <2>. DEFINE d == DefaultConfig(Fresh)
                z == Zero.ptr
    <2>1. d \in ConfigType /\ Zero \in ConfigType /\ \A f \in Pointers : z[f] = Nil
      BY <1>1, DefaultTyped
    <2>2. z \in [Pointers -> Nat]
      BY <2>1 DEF ConfigType
    <2>. HIDE DEF d, z
    <2>3. [d EXCEPT !.ptr = z] \in ConfigType /\ [d EXCEPT !.ptr = z].ptr = z
      BY <2>1, <2>2 DEF ConfigType
    <2>4. base = [d EXCEPT !.ptr = z]
      BY DEF d, z
    <2>. HIDE DEF base
    <2>. QED
      BY <2>1, <2>3, <2>4 DEF Cells
  <1>3. PICK r \in Applied(base, Fresh, none) :
          /\ openWithSQLDB(k, r.config, made + 2, r.cells, CallerValue)
          /\ heap' = [heap EXCEPT ![Fresh] = r.cells, ![made + 2] = r.cells]
    BY DEF OpenWithDB
  <1>4. made' = made + 2 /\ made + 2 <= MaxConfigs /\ UNCHANGED var
    BY DEF OpenWithDB, MayMake
  <1>. HIDE DEF base, none
  <1>5. r.config \in ConfigType /\ r.cells \in Cells
    BY <1>1, <1>2, <1>3, AppliedFacts
  <1>6. heap' \in [1..MaxConfigs -> Cells] /\ Kept /\ heap'[made + 2] = r.cells
    <2>1. heap \in [1..MaxConfigs -> Cells] /\ made + 2 \in 1..MaxConfigs /\ made + 1 \in 1..MaxConfigs
      BY <1>1, <1>4, ArgsAssumption DEF Typed
    <2>. DEFINE h == [heap EXCEPT ![made + 1] = r.cells]
    <2>2. h \in [1..MaxConfigs -> Cells] /\ \A g \in 1..made : h[g] = heap[g]
      BY <1>1, <1>5, <2>1
    <2>3. heap' = [h EXCEPT ![made + 2] = r.cells]
      BY <1>1, <1>3
    <2>. HIDE DEF h
    <2>4. \A g \in 1..made : heap'[g] = h[g]
      BY <1>1, <2>2, <2>3
    <2>. QED
      BY <1>1, <1>5, <2>1, <2>2, <2>3, <2>4 DEF Kept
  <1>7. made + 2 \in Nat /\ made < made + 2 /\ made + 2 <= made' /\ made' \in 0..MaxConfigs
    BY <1>1, <1>4, ArgsAssumption
  <1>. QED
    BY <1>3, <1>4, <1>5, <1>6, <1>7, OpenedInv

-----------------------------------------------------------------------------
(* The theorems.                                                           *)

LEMMA InvInit == Init => Inv
  <1>. SUFFICES ASSUME Init PROVE Inv
    OBVIOUS
  <1>1. made = 0 /\ made \in 0..MaxConfigs /\ heap \in [1..MaxConfigs -> Cells]
    BY ArgsAssumption DEF Init, Cells
  <1>2. Zero \in ConfigType /\ \A f \in Pointers : Zero.ptr[f] = 0
    BY DefaultTyped DEF Nil
  <1>3. Unset \in [kin : Nat, raw : BOOLEAN, config : ConfigType]
        /\ Unset.kin = 0 /\ Unset.config = Zero
    BY <1>2 DEF Unset
  <1>. HIDE DEF Zero, Unset, Value
  <1>4. NoClient.open = FALSE
    BY DEF NoClient
  <1>5. var = [v \in Vars |-> Unset] /\ client = [k \in Clients |-> NoClient]
    BY DEF Init
  <1>. HIDE DEF NoClient
  <1>6. Typed
    <2>1. var \in [Vars -> [kin : Nat, raw : BOOLEAN, config : ConfigType]]
      BY <1>3, <1>5
    <2>2. \A v \in Vars : var[v].kin <= made /\ \A f \in Pointers : var[v].config.ptr[f] <= made
      BY <1>1, <1>2, <1>3, <1>5
    <2>3. DOMAIN client = Clients /\ \A k \in Clients : client[k].open \in BOOLEAN
      BY <1>4, <1>5
    <2>. QED
      BY <1>1, <2>1, <2>2, <2>3 DEF Typed
  <1>7. SharedByAssignmentOnly /\ WaitsUsable
    BY <1>3, <1>5 DEF SharedByAssignmentOnly, WaitsUsable
  <1>. QED
    BY <1>4, <1>5, <1>6, <1>7 DEF Inv

LEMMA InvNext == Inv /\ [Next]_vars => Inv'
  <1>. SUFFICES ASSUME Inv, [Next]_vars PROVE Inv'
    OBVIOUS
  <1>1. CASE UNCHANGED vars
    <2>1. Typed' /\ SharedByAssignmentOnly' /\ WaitsUsable'
      BY <1>1 DEF vars, Inv, Typed, SharedByAssignmentOnly, WaitsUsable
    <2>2. \A k \in Clients : client'[k].open => ClientOwns(k)'
      <3>1. \A v \in Vars : \A f \in Pointers : var'[v].config.ptr[f] \in Reachable(f)
        BY <1>1 DEF vars, Reachable
      <3>2. made \in Nat /\ made' = made /\ Kept /\ UNCHANGED client
        BY <1>1, FreshFacts DEF vars, Kept, Inv
      <3>. QED
        BY <3>1, <3>2, ClientsKept
    <2>. QED
      BY <2>1, <2>2 DEF Inv
  <1>2. ASSUME NEW v \in Vars, MakeDefault(v) \/ MakeZero(v) \/ WriteThrough(v) \/ SetField(v)
        PROVE  Inv'
    BY <1>2, MakeDefaultInv, MakeZeroInv, WriteThroughInv, SetFieldInv
  <1>3. ASSUME NEW v \in Vars, NEW w \in Vars, With(v, w) \/ Assign(v, w)
        PROVE  Inv'
    BY <1>3, WithInv, AssignInv
  <1>4. ASSUME NEW v \in Vars, NEW k \in Clients, Open(k, v) \/ Config(k, v)
        PROVE  Inv'
    BY <1>4, OpenInv, ConfigInv
  <1>5. ASSUME NEW k \in Clients, OpenWithDB(k)
        PROVE  Inv'
    BY <1>5, OpenWithDBInv
  <1>. QED
    BY <1>1, <1>2, <1>3, <1>4, <1>5 DEF Next

(* Whatever the program does with its Configs, the cells of a Client stay  *)
(* out of its reach (Config.Clone).                                        *)
THEOREM Ownership == Spec => []Inv
  BY InvInit, InvNext, PTL DEF Spec

(* With, Clone and Client.Config never share a pointer between Configs.    *)
THEOREM CopiesShareNothing == Spec => []SharedByAssignmentOnly
  BY Ownership, PTL DEF Inv

(* Nothing the program does to its Configs gets to a Client, whose pool    *)
(* and GORM are set to what its Config shows (openWithSQLDB).              *)
THEOREM ClientsAreFixed == Spec => []ClientFixed
  <1>1. Inv => ClientFixed
    BY DEF Inv, ClientOwns, ClientFixed
  <1>. QED
    BY <1>1, Ownership, PTL

(* Options alone leave a usable startup retry (WithStartupPingRetry).      *)
THEOREM OptionsLeaveWaits == Spec => []WaitsUsable
  BY Ownership, PTL DEF Inv

-----------------------------------------------------------------------------
(* RetryBackoff.                                                           *)

(* A set of numbers that is not empty has a least one.                     *)
LEMMA LeastNumber ==
    ASSUME NEW T, T \subseteq Nat, T # {}
    PROVE  \E n \in T : \A m \in T : n <= m
  <1>. DEFINE R == OpToRel(<, Nat)
  <1>1. \E n \in T : \A m \in T : <<m, n>> \notin R
    <2>1. IsWellFoundedOn(R, Nat)
      BY NatLessThanWellFounded
    <2>. HIDE DEF R
    <2>. QED
      BY <2>1, WFMin, Zenon
  <1>2. \A m, n \in Nat : <<m, n>> \notin R => n <= m
    BY DEF OpToRel
  <1>. QED
    BY <1>1, <1>2

(* Powers of two are what their recursion says: the function exists up to  *)
(* every bound, because a least bound up to which it does not would have   *)
(* one before it from which it can be continued.                           *)
Doubling(k) == {g \in [0..k -> Nat \ {0}] : g[0] = 1 /\ \A i \in 1..k : g[i] = 2 * g[i - 1]}

LEMMA PowersExist == Doubling(Width) # {}
  <1>. DEFINE T == {k \in 0..Width : Doubling(k) = {}}
  <1>1. Width \in Nat
    BY WidthAssumption
  <1>2. ASSUME T # {} PROVE FALSE
    <2>1. PICK k \in T : \A m \in T : k <= m
      <3>1. T \subseteq Nat
        BY <1>1
      <3>. HIDE DEF T
      <3>. QED
        BY <1>2, <3>1, LeastNumber
    <2>2. k \in 0..Width /\ Doubling(k) = {}
      OBVIOUS
    <2>3. CASE k = 0
      <3>1. [i \in 0..0 |-> 1] \in Doubling(0)
        BY DEF Doubling
      <3>. QED
        BY <2>2, <2>3, <3>1
    <2>4. CASE k # 0
      <3>1. k - 1 \in 0..Width /\ k - 1 \in Nat /\ k \in Nat /\ k \in 1..Width
        BY <1>1, <2>2, <2>4
      <3>2. k - 1 \notin T
        BY <2>1, <3>1
      <3>3. PICK g \in Doubling(k - 1) : TRUE
        BY <3>1, <3>2
      <3>4. /\ g \in [0..(k - 1) -> Nat \ {0}] /\ g[0] = 1
            /\ \A i \in 1..(k - 1) : g[i] = 2 * g[i - 1]
        BY <3>3 DEF Doubling
      <3>. DEFINE h == [i \in 0..k |-> IF i = k THEN 2 * g[k - 1] ELSE g[i]]
      <3>5. 2 * g[k - 1] \in Nat \ {0}
        BY <3>1, <3>4
      <3>6. h \in [0..k -> Nat \ {0}]
        BY <3>1, <3>4, <3>5
      <3>7. h[0] = 1 /\ h[k] = 2 * h[k - 1] /\ \A i \in 0..(k - 1) : h[i] = g[i]
        BY <3>1, <3>4
      <3>. HIDE DEF h
      <3>8. \A i \in 1..k : h[i] = 2 * h[i - 1]
        <4>1. \A i \in 1..(k - 1) : h[i] = 2 * h[i - 1]
          BY <3>1, <3>4, <3>7
        <4>2. \A i \in 1..k : i = k \/ i \in 1..(k - 1)
          BY <3>1
        <4>. QED
          BY <3>7, <4>1, <4>2
      <3>9. h \in Doubling(k)
        BY <3>6, <3>7, <3>8 DEF Doubling
      <3>. QED
        BY <2>2, <3>9
    <2>. QED
      BY <2>3, <2>4
  <1>. QED
    BY <1>1, <1>2

LEMMA PowerRecursion ==
    ASSUME NEW n \in 0..Width
    PROVE  Power[n] = IF n = 0 THEN 1 ELSE 2 * Power[n - 1]
  <1>. DEFINE F(f) == [k \in 0..Width |-> IF k = 0 THEN 1 ELSE 2 * f[k - 1]]
  <1>0. Width \in Nat
    BY WidthAssumption
  <1>1. PICK g \in Doubling(Width) : TRUE
    BY PowersExist
  <1>2. g \in [0..Width -> Nat \ {0}] /\ g[0] = 1 /\ \A i \in 1..Width : g[i] = 2 * g[i - 1]
    BY <1>1 DEF Doubling
  <1>3. \A i \in 0..Width : g[i] = IF i = 0 THEN 1 ELSE 2 * g[i - 1]
    BY <1>0, <1>2
  <1>4. g = F(g)
    BY <1>2, <1>3
  <1>5. Power = CHOOSE f : f = F(f)
    BY DEF Power
  <1>. HIDE DEF F
  <1>6. Power = F(Power)
    BY <1>4, <1>5
  <1>. QED
    BY <1>6 DEF F

LEMMA PowersPositive == \A n \in 0..Width : Power[n] \in Nat \ {0}
  <1>. DEFINE T == {k \in 0..Width : Power[k] \notin Nat \ {0}}
  <1>1. Width \in Nat
    BY WidthAssumption
  <1>2. ASSUME T # {} PROVE FALSE
    <2>1. PICK k \in T : \A m \in T : k <= m
      <3>1. T \subseteq Nat
        BY <1>1
      <3>. HIDE DEF T
      <3>. QED
        BY <1>2, <3>1, LeastNumber
    <2>2. k \in 0..Width /\ k \in Nat
      BY <1>1
    <2>3. k # 0
      BY PowerRecursion, <2>1, <2>2
    <2>4. k - 1 \in 0..Width /\ k - 1 \notin T
      BY <1>1, <2>1, <2>2, <2>3
    <2>5. Power[k] = 2 * Power[k - 1]
      BY <2>2, <2>3, PowerRecursion
    <2>. QED
      BY <2>1, <2>4, <2>5
  <1>. QED
    BY <1>2

(* The range of a word: as many values below zero as from zero on.         *)
LEMMA WordRange == MaxInt \in Int /\ MinInt \in Int /\ MinInt = -MaxInt - 1
<1>1. Width - 1 \in 0..Width
  BY WidthAssumption
<1>2. Power[Width - 1] \in Int
  BY <1>1, PowersPositive
<1>3. QED
  BY <1>2 DEF MaxInt, MinInt

(* A range that holds a value reaches from below zero to zero or above.    *)
LEMMA WordHolds ==
  ASSUME NEW x \in Word
  PROVE  x \in Int /\ MaxInt \in Nat
<1>1. QED
  BY WordRange DEF Word

(* Wrapping brings every integer into the word and keeps what is in it.    *)
LEMMA WrapInWord ==
  ASSUME NEW x \in Int, MaxInt \in Nat
  PROVE  Wrap(x) \in Word /\ (x \in Word => Wrap(x) = x)
<1>1. /\ MaxInt - MinInt + 1 \in Nat \ {0}
      /\ x - MinInt \in Int
  BY WordRange
<1>2. (x - MinInt) % (MaxInt - MinInt + 1) \in 0..(MaxInt - MinInt)
  BY <1>1, WordRange
<1>3. x \in Word => (x - MinInt) % (MaxInt - MinInt + 1) = x - MinInt
  BY <1>1, WordRange DEF Word
<1>4. QED
  BY <1>2, <1>3, WordRange DEF Wrap, Word

(* A shift gives a word whatever it loses.                                 *)
LEMMA ShiftInWord ==
  ASSUME NEW base \in Word, NEW n \in Nat
  PROVE  Shift(base, n) \in Word
<1>1. 0 \in Word /\ MaxInt \in Nat
  BY WordHolds, WordRange DEF Word
<1>2. CASE n < Width
  <2>1. n \in 0..Width /\ base \in Int
    BY <1>2, WidthAssumption, WordRange DEF Word
  <2>2. base * Power[n] \in Int
    BY <2>1, PowersPositive
  <2>3. Wrap(base * Power[n]) \in Word
    BY <1>1, <2>2, WrapInWord
  <2>4. QED
    BY <1>2, <2>3, WidthAssumption DEF Shift
<1>3. CASE ~(n < Width)
  BY <1>1, <1>3, WidthAssumption DEF Shift
<1>4. QED
  BY <1>2, <1>3

(* A wait below the limit is lengthened by at most half of it, if that     *)
(* fits in a word; any other one gives the limit.                          *)
LEMMA BackoffJitter ==
  ASSUME NEW base \in BaseWaits, NEW n \in Nat, NEW limit \in MaxWaits,
         NEW w \in retryBackoff(base, n, limit)
  PROVE  LET s == Shift(base, n)
         IN  /\ s <= 0 \/ s >= limit => w = limit
             /\ s > 0 /\ s < limit =>
                  /\ w \in Word /\ w <= limit
                  /\ s + s \div 2 <= MaxInt => w >= s /\ 2 * w <= 3 * s
<1> DEFINE s == Shift(base, n)
<1>1. limit \in Word /\ limit \in Int /\ MaxInt \in Nat
  BY WaitAssumption, WordHolds
<1>2. s \in Word /\ s \in Int
  BY ShiftInWord, WaitAssumption, WordRange DEF Word
<1>3. CASE s <= 0 \/ s >= limit
  BY <1>1, <1>2, <1>3 DEF retryBackoff
<1>4. CASE s > 0 /\ s < limit
  <2> HIDE DEF s
  <2>1. PICK j \in 0..(s \div 2) : w = Least(Wrap(s + j), limit)
    BY <1>1, <1>2, <1>4 DEF retryBackoff, s
  <2>2. j \in Int /\ 0 <= j /\ j <= s \div 2 /\ s \div 2 \in Int /\ 2 * (s \div 2) <= s
    BY <1>2, <2>1
  <2>3. Wrap(s + j) \in Word /\ Wrap(s + j) \in Int
    BY <1>2, <2>2, WrapInWord, WordRange DEF Word
  <2>4. w \in Word /\ w <= limit
    BY <1>1, <2>1, <2>3 DEF Least
  <2>5. ASSUME s + s \div 2 <= MaxInt PROVE w >= s /\ 2 * w <= 3 * s
    <3>1. s + j \in Word /\ s + j \in Int
      BY <1>1, <1>2, <1>4, <2>2, <2>5, WordRange DEF Word
    <3>2. Wrap(s + j) = s + j
      BY <1>1, <3>1, WrapInWord
    <3>3. QED
      BY <1>1, <1>2, <1>4, <2>1, <2>2, <3>1, <3>2 DEF Least
  <2>6. QED
    BY <1>1, <1>2, <1>4, <2>4, <2>5 DEF s
<1>5. QED
  BY <1>2, <1>3, <1>4

(* retryBackoff stays below its limit and, if the limit is positive, above *)
(* zero unless its jitter overflows: the guard catches what the shift      *)
(* overflowed to.                                                          *)
LEMMA BackoffBounds ==
  ASSUME NEW base \in BaseWaits, NEW n \in Nat, NEW limit \in MaxWaits,
         NEW w \in retryBackoff(base, n, limit)
  PROVE  LET s == Shift(base, n)
         IN  /\ w \in Word
             /\ w <= limit
             /\ limit > 0 => w > 0 \/ (s < limit /\ s + s \div 2 > MaxInt)
<1> DEFINE s == Shift(base, n)
<1>1. limit \in Word /\ limit \in Int /\ MaxInt \in Nat
  BY WaitAssumption, WordHolds
<1>2. s \in Int /\ s + s \div 2 \in Int
  BY ShiftInWord, WaitAssumption, WordHolds
<1>3. CASE s <= 0 \/ s >= limit
  BY <1>1, <1>2, <1>3, BackoffJitter
<1>4. CASE s > 0 /\ s < limit
  <2>1. /\ w \in Word /\ w <= limit
        /\ s + s \div 2 <= MaxInt => w >= s
    BY <1>4, BackoffJitter
  <2>2. w \in Int
    BY <2>1, WordHolds
  <2> HIDE DEF s
  <2>3. w > 0 \/ s + s \div 2 > MaxInt
    BY <1>1, <1>2, <1>4, <2>1, <2>2
  <2>4. QED
    BY <1>4, <2>1, <2>3 DEF s
<1>5. QED
  BY <1>1, <1>2, <1>3, <1>4

(* A shift that fits doubles the one before it.                            *)
LEMMA ShiftDoubles ==
  ASSUME NEW base \in BaseWaits, NEW n \in Nat \ {0}, n < Width, base > 0,
         base * Power[n] <= MaxInt
  PROVE  Shift(base, n - 1) > 0 /\ Shift(base, n) = 2 * Shift(base, n - 1)
<1>1. n \in 0..Width /\ n - 1 \in 0..Width /\ n - 1 < Width /\ Width \in Nat
  BY WidthAssumption
<1>2. base \in Nat /\ base > 0 /\ MaxInt \in Nat
  BY WaitAssumption, WordHolds
<1> DEFINE q == Power[n - 1]
           p == base * q
<1>3. q \in Nat /\ q > 0 /\ Power[n] = 2 * q
  BY <1>1, PowersPositive, PowerRecursion
<1> HIDE DEF q
<1>4. p \in Int /\ p > 0
  BY <1>2, <1>3
<1>5. base * Power[n] = 2 * p
  BY <1>2, <1>3
<1>6. 2 * p <= MaxInt
  BY <1>5
<1> HIDE DEF p
<1>7. p \in Word /\ 2 * p \in Word
  BY <1>2, <1>4, <1>6, WordRange DEF Word
<1>8. Wrap(p) = p /\ Wrap(2 * p) = 2 * p
  BY <1>2, <1>4, <1>7, WrapInWord
<1>9. Shift(base, n) = 2 * p
  BY <1>1, <1>5, <1>8 DEF Shift
<1>10. Shift(base, n - 1) = p
  BY <1>1, <1>8 DEF Shift, p, q
<1>11. QED
  BY <1>4, <1>9, <1>10

(* Jitter that fits cannot make a wait longer than the next one; that of   *)
(* the wait before fits, because the shift doubled it and still fits.      *)
LEMMA NextWaitIsLonger ==
  ASSUME NEW base \in BaseWaits, NEW n \in Nat \ {0}, NEW limit \in MaxWaits,
         n < Width, base > 0, base * Power[n] <= MaxInt,
         NEW v \in retryBackoff(base, n - 1, limit), NEW w \in retryBackoff(base, n, limit)
  PROVE  LET s == Shift(base, n)
         IN  w >= v \/ (s < limit /\ s + s \div 2 > MaxInt)
<1> DEFINE p == Shift(base, n - 1)
<1>1. n - 1 \in Nat /\ limit \in Int /\ MaxInt \in Nat
  BY WaitAssumption, WordHolds
<1>2. p \in Int /\ p > 0 /\ Shift(base, n) = 2 * p /\ 2 * p \in Word
  BY <1>1, ShiftDoubles, ShiftInWord, WaitAssumption, WordHolds
<1>3. /\ p >= limit => v = limit
      /\ p < limit => v \in Word /\ v <= limit /\ (p + p \div 2 <= MaxInt => 2 * v <= 3 * p)
  BY <1>1, <1>2, BackoffJitter
<1>4. /\ 2 * p >= limit => w = limit
      /\ 2 * p < limit => w \in Word /\ (2 * p + (2 * p) \div 2 <= MaxInt => w >= 2 * p)
  BY <1>1, <1>2, BackoffJitter
<1> SUFFICES w >= v \/ (2 * p < limit /\ 2 * p + (2 * p) \div 2 > MaxInt)
  BY <1>2
<1> HIDE DEF p
<1>5. 2 * p <= MaxInt /\ (2 * p) \div 2 = p /\ p \div 2 \in Int /\ p \div 2 <= p
  BY <1>1, <1>2, WordRange DEF Word
<1>6. v \in Int /\ w \in Int
  BY <1>1, <1>2, <1>3, <1>4, WordHolds
<1>7. p + p \div 2 <= MaxInt
  BY <1>1, <1>2, <1>5
<1>8. CASE 2 * p >= limit
  BY <1>1, <1>2, <1>3, <1>4, <1>6, <1>8
<1>9. CASE 2 * p < limit
  <2>1. p < limit
    BY <1>1, <1>2, <1>9
  <2>2. 2 * v <= 3 * p
    BY <1>3, <1>7, <2>1
  <2>3. 2 * p + p <= MaxInt => w >= 2 * p
    BY <1>4, <1>5, <1>9
  <2>4. QED
    BY <1>1, <1>2, <1>5, <1>6, <1>9, <2>2, <2>3
<1>10. QED
  BY <1>1, <1>2, <1>8, <1>9

-----------------------------------------------------------------------------
(* The inductive invariant: the types, the count of tries, and the bounds  *)
(* of a wait the loop sleeps on.  While it sleeps the counter is below the *)
(* limit, which is why counting on cannot overflow.                        *)
RetryInv ==
  /\ RetryTypeOK
  /\ TriesAsAsked
  /\ SleepWithinBounds
  /\ pc = "sleep" => attempt < maxRetries

(* The numbers an invariant state holds.                                   *)
LEMMA Numbers ==
  ASSUME RetryTypeOK
  PROVE  /\ maxRetries \in Word /\ maxRetries \in Nat /\ MaxInt \in Nat
         /\ attempt \in Nat /\ attempt <= maxRetries
         /\ baseWait \in Word /\ maxWait \in Word /\ wait \in Int
<1>1. maxRetries \in Word /\ maxRetries >= 0
  BY RetryAssumption DEF RetryTypeOK
<1>2. maxRetries \in Nat /\ MaxInt \in Nat
  BY <1>1, WordHolds
<1>3. QED
  BY <1>1, <1>2, WaitAssumption, WordRange DEF RetryTypeOK, Word

(* The loop starts with nothing tried.                                     *)
LEMMA RetryInvInit == RetryInit => RetryInv
<1> SUFFICES ASSUME RetryInit PROVE RetryInv
  OBVIOUS
<1>1. maxRetries \in Nat /\ MaxInt \in Nat
  BY RetryAssumption, WordHolds DEF RetryInit
<1>2. 0 \in Word
  BY <1>1, WordRange DEF Word
<1>3. RetryTypeOK
  BY <1>1, <1>2 DEF RetryInit, RetryTypeOK
<1>4. QED
  BY <1>3 DEF RetryInv, RetryInit, TriesAsAsked, SleepWithinBounds

(* Every step keeps the invariant.                                         *)
LEMMA RetryInvNext == RetryInv /\ [RetryNext]_retryVars => RetryInv'
<1> SUFFICES ASSUME RetryInv, [RetryNext]_retryVars PROVE RetryInv'
  OBVIOUS
<1>0. /\ RetryTypeOK /\ TriesAsAsked /\ SleepWithinBounds
      /\ pc = "sleep" => attempt < maxRetries
  BY DEF RetryInv
<1>n. /\ maxRetries \in Word /\ maxRetries \in Nat /\ MaxInt \in Nat
      /\ attempt \in Nat /\ attempt <= maxRetries
      /\ baseWait \in Word /\ maxWait \in Word /\ wait \in Int
  BY <1>0, Numbers
<1>1. CASE Settle
  BY <1>0, <1>1, <1>n
     DEF Settle, RetryInv, RetryTypeOK, TriesAsAsked, SleepWithinBounds, params
<1>2. CASE GiveUp
  BY <1>0, <1>2, <1>n
     DEF GiveUp, Exhausted, RetryInv, RetryTypeOK, TriesAsAsked, SleepWithinBounds, params
<1>3. CASE Sleep
  <2>1. wait' \in Word /\ wait' <= maxWait /\ (maxWait > 0 => wait' > 0 \/ JitterOverflows)
    BY <1>0, <1>3, <1>n, BackoffBounds DEF Sleep, RetryTypeOK, JitterOverflows
  <2>2. attempt < maxRetries
    BY <1>3, <1>n DEF Sleep, Exhausted
  <2>3. QED
    BY <1>0, <1>3, <1>n, <2>1, <2>2
       DEF Sleep, RetryInv, RetryTypeOK, TriesAsAsked, SleepWithinBounds, JitterOverflows, params
<1>4. CASE TimerFires
  <2>1. attempt + 1 \in Word
    BY <1>0, <1>4, <1>n, WordRange DEF TimerFires, Word
  <2>2. attempt' = attempt + 1
    BY <1>4, <1>n, <2>1, WrapInWord DEF TimerFires
  <2>3. attempt' \in 0..maxRetries
    BY <1>0, <1>4, <1>n, <2>2 DEF TimerFires
  <2>4. QED
    BY <1>0, <1>4, <1>n, <2>2, <2>3
       DEF TimerFires, RetryInv, RetryTypeOK, TriesAsAsked, SleepWithinBounds, params
<1>5. CASE Canceled
  BY <1>0, <1>5, <1>n
     DEF Canceled, RetryInv, RetryTypeOK, TriesAsAsked, SleepWithinBounds, params
<1>6. CASE UNCHANGED retryVars
  BY <1>0, <1>6 DEF retryVars, RetryInv, RetryTypeOK, TriesAsAsked, SleepWithinBounds,
     JitterOverflows, params
<1>7. QED
  BY <1>1, <1>2, <1>3, <1>4, <1>5, <1>6 DEF RetryNext

(* The invariant holds in every reachable state.                           *)
LEMMA RetryInvariance == RetrySpec => []RetryInv
<1>1. QED
  BY RetryInvInit, RetryInvNext, PTL DEF RetrySpec

(* The variables keep their types and the counter stays within the number  *)
(* of retries asked for (withTxRetry, pingWithRetry).                      *)
THEOREM RetryTypeCorrect == RetrySpec => []RetryTypeOK
<1>1. RetryInv => RetryTypeOK
  BY DEF RetryInv
<1>2. QED
  BY <1>1, RetryInvariance, PTL

(* For words of any width and any waits they can hold: no sleep exceeds    *)
(* the limit, and none is zero or negative under a positive limit, what-   *)
(* ever the shift overflowed to, unless wait and jitter do not fit a word. *)
THEOREM SleepsAreBounded == RetrySpec => []SleepWithinBounds
<1>1. RetryInv => SleepWithinBounds
  BY DEF RetryInv
<1>2. QED
  BY <1>1, RetryInvariance, PTL

(* For every number of retries that an int can hold, the largest included, *)
(* a call that keeps failing tries once more than the retries.             *)
THEOREM TriesAreCounted == RetrySpec => []TriesAsAsked
<1>1. RetryInv => TriesAsAsked
  BY DEF RetryInv
<1>2. QED
  BY <1>1, RetryInvariance, PTL

(* The wait of the loop is one for its attempt, and while it tries again   *)
(* one for the attempt before.                                             *)
WaitOfAttempt ==
  /\ pc = "sleep" => wait \in retryBackoff(baseWait, attempt, maxWait)
  /\ pc = "try" /\ attempt > 0 => wait \in retryBackoff(baseWait, attempt - 1, maxWait)

LEMMA WaitOfAttemptInvariant == RetrySpec => []WaitOfAttempt
<1>1. RetryInit => WaitOfAttempt
  BY DEF RetryInit, WaitOfAttempt
<1>2. RetryInv /\ RetryInv' /\ WaitOfAttempt /\ [RetryNext]_retryVars => WaitOfAttempt'
  <2> SUFFICES ASSUME RetryInv, RetryInv', WaitOfAttempt, [RetryNext]_retryVars PROVE WaitOfAttempt'
    OBVIOUS
  <2>1. CASE Settle
    BY <2>1 DEF Settle, WaitOfAttempt
  <2>2. CASE GiveUp
    BY <2>2 DEF GiveUp, WaitOfAttempt
  <2>3. CASE Sleep
    BY <2>3 DEF Sleep, WaitOfAttempt, params
  <2>4. CASE TimerFires
    <3>1. attempt' = attempt + 1
      <4>1. attempt \in Nat /\ maxRetries \in Word /\ maxRetries \in Nat /\ MaxInt \in Nat
        BY Numbers DEF RetryInv
      <4>2. attempt < maxRetries
        BY <2>4 DEF RetryInv, TimerFires
      <4>3. attempt + 1 \in Word
        BY <4>1, <4>2, WordRange DEF Word
      <4>4. QED
        BY <2>4, <4>1, <4>3, WrapInWord DEF TimerFires
    <3>2. attempt \in Int /\ attempt' - 1 = attempt
      BY <3>1, Numbers DEF RetryInv
    <3>3. QED
      BY <2>4, <3>2 DEF TimerFires, WaitOfAttempt, params
  <2>5. CASE Canceled
    BY <2>5 DEF Canceled, WaitOfAttempt
  <2>6. CASE UNCHANGED retryVars
    BY <2>6 DEF retryVars, params, WaitOfAttempt
  <2>7. QED
    BY <2>1, <2>2, <2>3, <2>4, <2>5, <2>6 DEF RetryNext
<1>3. QED
  BY <1>1, <1>2, RetryInvariance, PTL DEF RetrySpec

(* For words of any width: until the shift or the jitter overflows no      *)
(* retry waits less than the one before it, whatever the jitter was.       *)
THEOREM RetriesWaitLonger == RetrySpec => WaitsNeverShrink
<1>1. RetryInv /\ WaitOfAttempt /\ [RetryNext]_retryVars
        => [pc' = "sleep" /\ attempt > 0 /\ Exact(attempt)
              => wait' >= wait \/ JitterOverflows]_retryVars
  <2> SUFFICES ASSUME RetryInv, WaitOfAttempt, RetryNext, pc' = "sleep", attempt > 0, Exact(attempt)
               PROVE  wait' >= wait \/ JitterOverflows
    OBVIOUS
  <2>1. Sleep
    BY DEF RetryNext, Settle, GiveUp, TimerFires, Canceled
  <2>2. /\ wait \in retryBackoff(baseWait, attempt - 1, maxWait)
        /\ wait' \in retryBackoff(baseWait, attempt, maxWait)
    BY <2>1 DEF Sleep, WaitOfAttempt
  <2>3. baseWait \in BaseWaits /\ maxWait \in MaxWaits /\ attempt \in Nat \ {0}
    BY Numbers DEF RetryInv, RetryTypeOK
  <2>4. QED
    BY <2>2, <2>3, NextWaitIsLonger DEF Exact, JitterOverflows
<1>2. QED
  BY <1>1, RetryInvariance, WaitOfAttemptInvariant, PTL DEF RetrySpec, WaitsNeverShrink

-----------------------------------------------------------------------------
(* DsnConfig.  A Config's map is its own, and the parsed state it shares   *)
(* is its own or that of a Config which is sealed: nobody writes to what   *)
(* a sealed Config reads.                                                  *)

Nets      == {"", "tcp", "unix"} \cup {d.Net : d \in Dsns}
Addrs     == {<< >>} \cup Addresses \cup {d.Addr : d \in Dsns}
HostParts == {"127.0.0.1"} \cup Hosts \cup {SplitHostPort(d)[1] : d \in Dsns}
PortParts == {"3306"} \cup Ports \cup {SplitHostPort(d)[2] : d \in Dsns}
TLSParts  == {""} \cup TLSNames \cup {d.TLSConfig : d \in Dsns}
CharsetParts == {""} \cup Charsets \cup {d.charset : d \in Dsns}

ConfigFields ==
    [Net : Nets, Addr : Addrs, Host : HostParts, Port : PortParts, TLSConfig : TLSParts,
     Charset : CharsetParts, vars : Slots \cup {None}, dsn : Slots \cup {None, BadDsn}]

History ==
    [dsn : {None} \cup {d.id : d \in Dsns}, bad : BOOLEAN, addr : BOOLEAN, charset : BOOLEAN]

DsnTyped ==
    /\ phase \in [Configs -> {"unused", "building", "sealed"}]
    /\ phase[Default] = "sealed"
    /\ cfg \in [Configs -> ConfigFields]
    /\ dsnHeap \in [Slots \cup {Copy} -> Maps]
    /\ DOMAIN parsed = Slots
    /\ history \in [Configs -> History]
    /\ DOMAIN sealed = Configs

(* What the fields of a Config come from.                                  *)
Explained(i) ==
    /\ cfg[i].vars \in {None, i}
    /\ history[i].bad <=> cfg[i].dsn = BadDsn
    /\ cfg[i].dsn = None => history[i].dsn = None
    /\ cfg[i].dsn \in Slots =>
        /\ cfg[i].dsn = i \/ phase[cfg[i].dsn] = "sealed"
        /\ history[i].dsn # None
        /\ parsed[cfg[i].dsn] = parseDSN(DsnOf(i))
    /\ ~history[i].charset /\ cfg[i].dsn # BadDsn => cfg[i].Charset = dsnCharset(cfg[i], parsed)
    /\ "" \in {cfg[i].Host, cfg[i].Port} => history[i].dsn # None /\ ~HasHostPort(DsnOf(i))

DsnInv ==
    /\ DsnTyped
    /\ \A i \in Configs : Explained(i)
    /\ SealedConfigsFixed

-----------------------------------------------------------------------------
(* The DSN a Config remembers is the one with that name.                   *)
LEMMA DsnNamed ==
    ASSUME NEW i \in Configs, NEW d \in Dsns, history[i].dsn = d.id
    PROVE  DsnOf(i) = d
  BY DsnsAssumption DEF DsnOf

LEMMA DsnKnown ==
    ASSUME DsnTyped, NEW i \in Configs, history[i].dsn # None
    PROVE  DsnOf(i) \in Dsns /\ DsnOf(i).id = history[i].dsn
  <1>1. PICK d \in Dsns : history[i].dsn = d.id
    BY DEF DsnTyped, History
  <1>. QED
    BY <1>1, DsnNamed

(* What the driver has made of a DSN: it has derived the TLS state from    *)
(* what the DSN says, and plaintext is allowed as the DSN allows it.       *)
LEMMA ParsedFacts ==
    ASSUME NEW d \in Dsns
    PROVE  /\ parseDSN(d) = [Net |-> d.Net, Addr |-> d.Addr, TLSConfig |-> d.TLSConfig,
                             TLS |-> TLSOf(d.TLSConfig, d.Net, d.Addr),
                             fallback |-> d.fallback \/ d.TLSConfig = "preferred",
                             charset |-> d.charset, other |-> d.other,
                             Params |-> MapOf(d.keys)]
  BY DsnsAssumption DEF parseDSN, normalize

(* What a Config is depends on its fields, its map and its parsed state.   *)
LEMMA ValueFrame ==
    ASSUME DsnTyped, NEW i \in Configs, Explained(i), cfg'[i] = cfg[i],
           cfg[i].vars # None => dsnHeap'[cfg[i].vars] = dsnHeap[cfg[i].vars],
           cfg[i].dsn \in Slots => parsed'[cfg[i].dsn] = parsed[cfg[i].dsn]
    PROVE  DsnValue(i)' = DsnValue(i)
  <1>1. cfg[i].dsn \in Slots \cup {None, BadDsn}
    BY DEF DsnTyped, ConfigFields
  <1>2. SystemVariables(cfg[i], dsnHeap)' = SystemVariables(cfg[i], dsnHeap)
    BY DEF SystemVariables
  <1>3. dsnCharset(cfg[i], parsed)' = dsnCharset(cfg[i], parsed)
    BY <1>1 DEF dsnCharset, fromDSN
  <1>4. configError(cfg[i], dsnHeap, parsed)' = configError(cfg[i], dsnHeap, parsed)
    BY <1>2, <1>3 DEF configError, charsetFails
  <1>5. driverConfig(cfg[i], dsnHeap, parsed)' = driverConfig(cfg[i], dsnHeap, parsed)
    <2>1. fromDSN(cfg[i]) => parsed'[cfg[i].dsn] = parsed[cfg[i].dsn]
      BY <1>1 DEF fromDSN
    <2>. QED
      BY <1>2, <1>3, <2>1 DEF driverConfig
  <1>. QED
    BY <1>2, <1>4, <1>5 DEF DsnValue

-----------------------------------------------------------------------------
(* The steps.                                                              *)

LEMMA DsnInitInv == DsnInit => DsnInv
  <1>. SUFFICES ASSUME DsnInit PROVE DsnInv
    OBVIOUS
  <1>1. DefaultFields \in ConfigFields /\ Nothing \in History /\ EmptyMap \in Maps
    BY DEF DefaultFields, ConfigFields, Nets, Addrs, HostParts, PortParts, TLSParts, CharsetParts,
           Nothing, History, EmptyMap, Maps
  <1>2. DsnTyped
    BY <1>1, SlotsAssumption DEF DsnInit, DsnTyped, Configs
  <1>3. \A i \in Configs : Explained(i)
    <2>. SUFFICES ASSUME NEW i \in Configs PROVE Explained(i)
      OBVIOUS
    <2>1. cfg[i] = DefaultFields /\ history[i] = Nothing
      BY DEF DsnInit
    <2>2. None \notin Slots
      BY SlotsAssumption
    <2>3. /\ cfg[i].vars = None /\ cfg[i].dsn = None /\ cfg[i].Charset = ""
          /\ cfg[i].Host = "127.0.0.1" /\ cfg[i].Port = "3306"
      <3>1. /\ DefaultFields.vars = None /\ DefaultFields.dsn = None /\ DefaultFields.Charset = ""
            /\ DefaultFields.Host = "127.0.0.1" /\ DefaultFields.Port = "3306"
        BY DEF DefaultFields
      <3>. QED
        BY <2>1, <3>1
    <2>4. ~history[i].bad /\ history[i].dsn = None
      BY <2>1 DEF Nothing
    <2>5. dsnCharset(cfg[i], parsed) = ""
      BY <2>3 DEF dsnCharset, fromDSN
    <2>6. "" \notin {cfg[i].Host, cfg[i].Port}
      BY <2>3
    <2>. QED
      BY <2>2, <2>3, <2>4, <2>5, <2>6 DEF Explained, None, BadDsn
  <1>4. DsnValue(Default) = DefaultValue
    <2>1. cfg[Default] = DefaultFields
      BY DEF DsnInit, Configs
    <2>2. configError(DefaultFields, dsnHeap, parsed) = None
      BY DEF configError, DefaultFields, hasAddress, SystemVariables, EmptyMap, Names,
             charsetFails, dsnCharset, fromDSN, None, BadDsn
    <2>3. SystemVariables(DefaultFields, dsnHeap) = EmptyMap
      BY DEF SystemVariables, DefaultFields
    <2>4. driverConfig(DefaultFields, dsnHeap, parsed)
            = [NewDriverConfig EXCEPT !.Addr = <<"127.0.0.1", "3306">>]
      <3>1. ~fromDSN(DefaultFields) /\ dsnCharset(DefaultFields, parsed) = ""
        BY DEF fromDSN, dsnCharset, DefaultFields
      <3>2. network(DefaultFields) = "tcp" /\ address(DefaultFields) = <<"127.0.0.1", "3306">>
        BY DEF network, address, DefaultFields
      <3>3. DefaultFields.TLSConfig = "" /\ DefaultFields.Charset = ""
        BY DEF DefaultFields
      <3>4. driverConfig(DefaultFields, dsnHeap, parsed)
              = [NewDriverConfig EXCEPT !.Net = "tcp", !.Addr = <<"127.0.0.1", "3306">>,
                     !.TLSConfig = "", !.charset = NewDriverConfig.charset, !.Params = EmptyMap]
        BY <2>3, <3>1, <3>2, <3>3 DEF driverConfig, NewDriverConfig
      <3>5. NewDriverConfig \in [Net : {"tcp"}, Addr : {NewDriverConfig.Addr}, TLSConfig : {""},
                               TLS : {NoTLS}, fallback : BOOLEAN, charset : {""}, other : BOOLEAN,
                               Params : {EmptyMap}]
        BY DEF NewDriverConfig
      <3>. QED
        BY <3>4, <3>5
    <2>5. [DefaultFields EXCEPT !.vars = None] = DefaultFields
      <3>1. DefaultFields.vars = None
        BY DEF DefaultFields
      <3>. QED
        BY <1>1, <3>1 DEF ConfigFields
    <2>. QED
      BY <2>1, <2>2, <2>3, <2>4, <2>5 DEF DsnValue, DefaultValue
  <1>. QED
    BY <1>2, <1>3, <1>4 DEF DsnInit, DsnInv, SealedConfigsFixed, Configs

(* What is done to a Config that is not sealed disturbs no other one.      *)
LEMMA BuildingStep ==
    ASSUME DsnInv, DsnTyped', NEW i \in Slots, phase[i] # "sealed", phase'[i] # "sealed",
           \A k \in Configs \ {i} : /\ cfg'[k] = cfg[k]
                                    /\ history'[k] = history[k]
                                    /\ phase'[k] = phase[k],
           \A m \in Slots \ {i} : dsnHeap'[m] = dsnHeap[m] /\ parsed'[m] = parsed[m],
           UNCHANGED <<sealed, exposed>>, Explained(i)'
    PROVE  DsnInv'
  <1>1. ASSUME NEW k \in Configs \ {i}
        PROVE  Explained(k)' /\ (phase[k] = "sealed" => DsnValue(k)' = DsnValue(k))
    <2>1. Explained(k) /\ DsnTyped /\ cfg'[k] = cfg[k] /\ history'[k] = history[k]
      BY DEF DsnInv
    <2>2. cfg[k].dsn \in Slots \cup {None, BadDsn} /\ cfg[k].vars \in Slots \cup {None}
      BY <2>1 DEF DsnTyped, ConfigFields
    <2>3. cfg[k].dsn # i /\ cfg[k].vars # i
      BY <2>1, SlotsAssumption DEF Explained
    <2>4. cfg[k].dsn \in Slots => parsed'[cfg[k].dsn] = parsed[cfg[k].dsn]
      BY <2>3
    <2>5. cfg[k].vars # None => dsnHeap'[cfg[k].vars] = dsnHeap[cfg[k].vars]
      BY <2>2, <2>3
    <2>6. DsnValue(k)' = DsnValue(k)
      BY <2>1, <2>4, <2>5, ValueFrame
    <2>7. DsnOf(k)' = DsnOf(k)
      BY <2>1 DEF DsnOf
    <2>8. dsnCharset(cfg[k], parsed)' = dsnCharset(cfg[k], parsed)
      BY <2>1, <2>2, <2>4 DEF dsnCharset, fromDSN
    <2>9. cfg[k].dsn \in Slots => (phase[cfg[k].dsn] = "sealed" => phase'[cfg[k].dsn] = "sealed")
      BY <2>3 DEF Configs
    <2>10. Explained(k)'
      BY <2>1, <2>4, <2>7, <2>8, <2>9 DEF Explained
    <2>. QED
      BY <2>6, <2>10
  <1>2. \A k \in Configs : Explained(k)'
    BY <1>1
  <1>3. SealedConfigsFixed'
    BY <1>1 DEF DsnInv, SealedConfigsFixed
  <1>. QED
    BY <1>2, <1>3 DEF DsnInv

LEMMA DsnWithInv ==
    ASSUME DsnInv, NEW from \in Configs, NEW to \in Slots, DsnWith(from, to)
    PROVE  DsnInv'
  <1>1. DsnTyped /\ Explained(from) /\ from # to /\ to \in Configs /\ None \notin Slots
    BY SlotsAssumption DEF DsnInv, DsnWith, Configs
  <1>2. cfg[from] \in ConfigFields /\ history[from] \in History
    BY <1>1 DEF DsnTyped
  <1>3. cfg'[to] \in ConfigFields /\ cfg'[to] = [cfg[from] EXCEPT !.vars = cfg'[to].vars]
        /\ cfg'[to].vars \in {None, to}
    <2>1. CASE cfg[from].vars = None
      <3>1. cfg'[to] = cfg[from]
        BY <1>1, <2>1 DEF DsnWith, DsnClone, DsnTyped
      <3>. QED
        BY <1>2, <2>1, <3>1 DEF ConfigFields
    <2>2. CASE cfg[from].vars # None
      <3>1. cfg'[to] = [cfg[from] EXCEPT !.vars = to]
        BY <1>1, <2>2 DEF DsnWith, DsnClone, DsnTyped
      <3>2. [cfg[from] EXCEPT !.vars = to] \in ConfigFields /\ [cfg[from] EXCEPT !.vars = to].vars = to
        BY <1>2 DEF ConfigFields
      <3>. QED
        BY <3>1, <3>2
    <2>. QED
      BY <2>1, <2>2
  <1>4. /\ cfg' \in [Configs -> ConfigFields]
        /\ \A k \in Configs \ {to} : cfg'[k] = cfg[k]
    BY <1>1, <1>3 DEF DsnWith, DsnClone, DsnTyped
  <1>5. cfg[from].vars # None => dsnHeap[cfg[from].vars] \in Maps
    BY <1>1, <1>2 DEF DsnTyped, ConfigFields
  <1>6. /\ dsnHeap' \in [Slots \cup {Copy} -> Maps]
        /\ \A m \in Slots \ {to} : dsnHeap'[m] = dsnHeap[m]
    BY <1>1, <1>5 DEF DsnWith, DsnClone, DsnTyped
  <1>7. DsnTyped'
    BY <1>1, <1>2, <1>4, <1>6, SlotsAssumption DEF DsnWith, DsnTyped
  <1>8. Explained(to)'
    <2>1. history'[to] = history[from]
      BY <1>1 DEF DsnWith, DsnTyped
    <2>2. DsnOf(to)' = DsnOf(from)
      BY <2>1 DEF DsnOf
    <2>3. /\ cfg'[to].dsn = cfg[from].dsn /\ cfg'[to].Charset = cfg[from].Charset
          /\ cfg'[to].Host = cfg[from].Host /\ cfg'[to].Port = cfg[from].Port
      BY <1>2, <1>3 DEF ConfigFields
    <2>4. dsnCharset(cfg[to], parsed)' = dsnCharset(cfg[from], parsed)
      BY <2>3 DEF dsnCharset, fromDSN, DsnWith
    <2>5. cfg[from].dsn \in Slots => phase'[cfg[from].dsn] = "sealed" \/ cfg[from].dsn = to
      BY <1>1 DEF Explained, DsnWith, DsnTyped, Configs
    <2>. QED
      BY <1>1, <1>3, <2>1, <2>2, <2>3, <2>4, <2>5 DEF Explained, DsnWith
  <1>. QED
    BY <1>1, <1>4, <1>6, <1>7, <1>8, BuildingStep DEF DsnWith, DsnTyped

LEMMA ReturnInv == ASSUME DsnInv, NEW i \in Slots, Return(i) PROVE DsnInv'
  <1>1. DsnTyped' /\ \A k \in Configs : phase[k] = "sealed" => phase'[k] = "sealed"
    BY DEF DsnInv, DsnTyped, Return, Configs
  <1>2. ASSUME NEW k \in Configs
        PROVE  Explained(k)' /\ DsnValue(k)' = DsnValue(k)
    <2>1. Explained(k) /\ UNCHANGED <<cfg, dsnHeap, parsed, history>>
      BY DEF DsnInv, Return
    <2>2. DsnValue(k)' = DsnValue(k) /\ DsnOf(k)' = DsnOf(k)
          /\ dsnCharset(cfg[k], parsed)' = dsnCharset(cfg[k], parsed)
      BY <2>1 DEF DsnValue, DsnOf
    <2>. QED
      BY <1>1, <2>1, <2>2 DEF Explained, Configs
  <1>3. SealedConfigsFixed'
    <2>. SUFFICES ASSUME NEW k \in Configs, phase'[k] = "sealed"
                  PROVE  DsnValue(k)' = sealed'[k]
      BY DEF DsnInv, SealedConfigsFixed, Return
    <2>1. CASE k = i
      BY <1>2, <2>1 DEF Return, DsnInv, DsnTyped
    <2>2. CASE k # i
      BY <1>2, <2>2 DEF Return, DsnInv, DsnTyped, SealedConfigsFixed
    <2>. QED
      BY <2>1, <2>2
  <1>. QED
    BY <1>1, <1>2, <1>3 DEF DsnInv

(* Masking works on a map no Config has.                                   *)
LEMMA RedactedInv == ASSUME DsnInv, NEW i \in Configs, RedactedDSN(i) PROVE DsnInv'
  <1>. DEFINE c == redacted(cfg[i])
  <1>1. DsnTyped /\ cfg[i] \in ConfigFields /\ Explained(i) /\ Copy \notin Slots
    BY SlotsAssumption DEF DsnInv, DsnTyped
  <1>2. c.vars \in {None, Copy} /\ (c.vars = None => cfg[i].vars = None)
    BY <1>1 DEF redacted, ConfigFields, Copy, None
  <1>3. SystemVariables(cfg[i], dsnHeap) \in Maps
    BY <1>1 DEF SystemVariables, DsnTyped, ConfigFields, EmptyMap, Maps
  <1>4. Masked(SystemVariables(cfg[i], dsnHeap)) \in Maps
    BY <1>3 DEF Masked, Maps
  <1>5. /\ dsnHeap' \in [Slots \cup {Copy} -> Maps]
        /\ \A m \in Slots : dsnHeap'[m] = dsnHeap[m]
    BY <1>1, <1>2, <1>4 DEF RedactedDSN, DsnTyped
  <1>6. DsnTyped'
    BY <1>1, <1>5 DEF RedactedDSN, DsnTyped
  <1>7. ASSUME NEW k \in Configs
        PROVE  Explained(k)' /\ DsnValue(k)' = DsnValue(k)
    <2>1. Explained(k) /\ UNCHANGED <<cfg, parsed, history, phase>> /\ cfg[k].vars \in Slots \cup {None}
      BY <1>1 DEF DsnInv, RedactedDSN, DsnTyped, ConfigFields
    <2>2. DsnOf(k)' = DsnOf(k) /\ dsnCharset(cfg[k], parsed)' = dsnCharset(cfg[k], parsed)
      BY <2>1 DEF DsnOf
    <2>3. DsnValue(k)' = DsnValue(k)
      BY <1>1, <1>5, <2>1, ValueFrame
    <2>. QED
      BY <2>1, <2>2, <2>3 DEF Explained
  <1>8. ~exposed'
    <2>1. \A k \in Names : SystemVariables(c, dsnHeap')[k] # "value"
      <3>1. CASE c.vars = None
        BY <3>1 DEF SystemVariables, EmptyMap
      <3>2. CASE c.vars = Copy
        <4>1. SystemVariables(c, dsnHeap') = Masked(SystemVariables(cfg[i], dsnHeap))
          BY <1>1, <3>2, SlotsAssumption DEF RedactedDSN, DsnTyped, SystemVariables, Copy, None
        <4>. QED
          BY <4>1 DEF Masked
      <3>. QED
        BY <1>2, <3>1, <3>2
    <2>2. configError(c, dsnHeap', parsed) = None =>
            driverConfig(c, dsnHeap', parsed).Params = SystemVariables(c, dsnHeap')
      <3>. SUFFICES ASSUME configError(c, dsnHeap', parsed) = None
                    PROVE  driverConfig(c, dsnHeap', parsed).Params = SystemVariables(c, dsnHeap')
        OBVIOUS
      <3>1. c.dsn = cfg[i].dsn /\ c.dsn \in Slots \cup {None, BadDsn}
        BY <1>1 DEF redacted, ConfigFields
      <3>2. CASE c.dsn \in Slots
        <4>1. DsnOf(i) \in Dsns /\ parsed[c.dsn] = parseDSN(DsnOf(i)) /\ fromDSN(c)
          BY <1>1, <3>1, <3>2, DsnKnown, SlotsAssumption DEF Explained, fromDSN
        <4>2. "Params" \in DOMAIN rebase(parsed[c.dsn], c)
          BY <4>1, ParsedFacts DEF rebase
        <4>. QED
          BY <4>1, <4>2 DEF driverConfig
      <3>3. CASE c.dsn \notin Slots
        <4>1. ~fromDSN(c)
          BY <3>1, <3>3 DEF fromDSN
        <4>. QED
          BY <4>1 DEF driverConfig, NewDriverConfig
      <3>. QED
        BY <3>2, <3>3
    <2>. QED
      BY <2>1, <2>2 DEF RedactedDSN, DsnInv, SealedConfigsFixed
  <1>9. SealedConfigsFixed'
    BY <1>7, <1>8 DEF DsnInv, SealedConfigsFixed, RedactedDSN
  <1>. QED
    BY <1>6, <1>7, <1>9 DEF DsnInv

LEMMA OptionStep ==
    ASSUME DsnInv, NEW i \in Slots, phase[i] = "building",
           NEW c \in ConfigFields, cfg' = [cfg EXCEPT ![i] = c],
           NEW h \in History, history' = [history EXCEPT ![i] = h],
           dsnHeap' \in [Slots \cup {Copy} -> Maps], DOMAIN parsed' = Slots,
           \A m \in Slots \ {i} : dsnHeap'[m] = dsnHeap[m] /\ parsed'[m] = parsed[m],
           UNCHANGED <<phase, sealed, exposed>>, Explained(i)'
    PROVE  DsnInv'
  <1>1. DsnTyped' /\ \A k \in Configs \ {i} : cfg'[k] = cfg[k] /\ history'[k] = history[k]
    BY DEF DsnInv, DsnTyped, Configs
  <1>. QED
    BY <1>1, BuildingStep

(* An option that sets fields, but not the map or the parsed state, takes  *)
(* away no host or port, and says so when it sets the charset.             *)
LEMMA FieldsStep ==
    ASSUME DsnInv, NEW i \in Slots, phase[i] = "building",
           NEW c \in ConfigFields, SetFields(i, c), c.vars = cfg[i].vars, c.dsn = cfg[i].dsn,
           "" \in {c.Host, c.Port} => "" \in {cfg[i].Host, cfg[i].Port},
           NEW h \in History, history' = [history EXCEPT ![i] = h],
           h.dsn = history[i].dsn, h.bad = history[i].bad,
           ~h.charset => ~history[i].charset /\ c.Charset = cfg[i].Charset
    PROVE  DsnInv'
  <1>1. Explained(i) /\ DsnTyped /\ i \in Configs
    BY DEF DsnInv, Configs
  <1>2. cfg'[i] = c /\ history'[i] = h
    BY <1>1 DEF SetFields, DsnTyped
  <1>3. DsnOf(i)' = DsnOf(i) /\ dsnCharset(cfg[i], parsed)' = dsnCharset(cfg[i], parsed)
    <2>1. history'[i].dsn = history[i].dsn /\ cfg'[i].dsn = cfg[i].dsn /\ parsed' = parsed
      BY <1>2 DEF SetFields
    <2>. QED
      BY <2>1 DEF DsnOf, dsnCharset, fromDSN
  <1>4. Explained(i)'
    BY <1>1, <1>2, <1>3 DEF Explained, SetFields
  <1>. QED
    BY <1>1, <1>4, OptionStep DEF SetFields, DsnTyped

LEMMA WithSystemVariableInv == ASSUME DsnInv, NEW i \in Slots, WithSystemVariable(i) PROVE DsnInv'
  <1>1. Explained(i) /\ DsnTyped /\ i \in Configs /\ phase[i] = "building" /\ None \notin Slots
    BY SlotsAssumption DEF DsnInv, Configs, WithSystemVariable, MayApply
  <1>2. cfg[i] \in ConfigFields /\ history[i] \in History
    BY <1>1 DEF DsnTyped
  <1>3. PICK k \in Names :
          IF cfg[i].vars = None
          THEN /\ cfg' = [cfg EXCEPT ![i].vars = i]
               /\ dsnHeap' = [dsnHeap EXCEPT ![i] = MapOf({k})]
          ELSE /\ dsnHeap' = [dsnHeap EXCEPT ![cfg[i].vars][k] = "value"]
               /\ UNCHANGED cfg
    BY DEF WithSystemVariable
  <1>. DEFINE c == [cfg[i] EXCEPT !.vars = i]
  <1>4. cfg' = [cfg EXCEPT ![i] = c]
    <2>1. CASE cfg[i].vars = None
      BY <1>3, <2>1
    <2>2. CASE cfg[i].vars # None
      <3>1. cfg[i].vars = i /\ cfg' = cfg
        BY <1>1, <1>3, <2>2 DEF Explained
      <3>2. c = cfg[i]
        BY <1>2, <3>1 DEF ConfigFields
      <3>. QED
        BY <1>1, <3>1, <3>2 DEF DsnTyped
    <2>. QED
      BY <2>1, <2>2
  <1>5. /\ dsnHeap' \in [Slots \cup {Copy} -> Maps]
        /\ \A m \in Slots \ {i} : dsnHeap'[m] = dsnHeap[m]
    <2>1. CASE cfg[i].vars = None
      <3>1. MapOf({k}) \in Maps
        BY DEF MapOf, Maps
      <3>. QED
        BY <1>1, <1>3, <2>1, <3>1 DEF DsnTyped
    <2>2. CASE cfg[i].vars # None
      <3>1. dsnHeap' = [dsnHeap EXCEPT ![i] = [dsnHeap[i] EXCEPT ![k] = "value"]]
        BY <1>1, <1>3, <2>2 DEF Explained
      <3>2. dsnHeap[i] \in Maps
        BY <1>1 DEF DsnTyped
      <3>3. [dsnHeap[i] EXCEPT ![k] = "value"] \in Maps
        BY <3>2 DEF Maps
      <3>. QED
        BY <1>1, <3>1, <3>3 DEF DsnTyped
    <2>. QED
      BY <2>1, <2>2
  <1>6. /\ c \in ConfigFields /\ c.vars = i /\ c.dsn = cfg[i].dsn /\ c.Charset = cfg[i].Charset
        /\ c.Host = cfg[i].Host /\ c.Port = cfg[i].Port
    BY <1>2 DEF ConfigFields
  <1>7. Explained(i)'
    <2>1. cfg'[i] = c /\ history' = history
      BY <1>1, <1>4 DEF DsnTyped, WithSystemVariable
    <2>2. DsnOf(i)' = DsnOf(i) /\ dsnCharset(cfg[i], parsed)' = dsnCharset(cfg[i], parsed)
      BY <1>6, <2>1 DEF DsnOf, dsnCharset, fromDSN, WithSystemVariable
    <2>. QED
      BY <1>1, <1>6, <2>1, <2>2 DEF Explained, WithSystemVariable
  <1>8. history' = [history EXCEPT ![i] = history[i]]
    BY <1>1 DEF DsnTyped, WithSystemVariable
  <1>. QED
    BY <1>1, <1>2, <1>4, <1>5, <1>6, <1>7, <1>8, OptionStep DEF WithSystemVariable, DsnTyped

LEMMA WithDSNInv == ASSUME DsnInv, NEW i \in Slots, WithDSN(i) PROVE DsnInv'
  <1>1. DsnTyped /\ i \in Configs /\ phase[i] = "building" /\ None \notin Slots
    BY SlotsAssumption DEF DsnInv, Configs, WithDSN, MayApply
  <1>2. PICK d \in Dsns :
          /\ cfg' = [cfg EXCEPT ![i] = FieldsOf(i, d)]
          /\ dsnHeap' = [dsnHeap EXCEPT ![i] = MapOf(d.keys)]
          /\ parsed' = [parsed EXCEPT ![i] = parseDSN(d)]
          /\ history' = [history EXCEPT ![i] = [Nothing EXCEPT !.dsn = d.id,
                                                              !.addr = d.Net = "unix"]]
    BY DEF WithDSN
  <1>. DEFINE c == FieldsOf(i, d)
              h == [Nothing EXCEPT !.dsn = d.id, !.addr = d.Net = "unix"]
  <1>3. /\ c \in ConfigFields /\ c.vars \in {None, i} /\ c.dsn = i /\ c.Charset = d.charset
        /\ c.Host = SplitHostPort(d)[1] /\ c.Port = SplitHostPort(d)[2]
    BY DEF FieldsOf, ConfigFields, Nets, Addrs, HostParts, PortParts, TLSParts, CharsetParts
  <1>4. h \in History /\ h.dsn = d.id /\ ~h.bad
    BY DEF History, Nothing
  <1>5. MapOf(d.keys) \in Maps
    BY DEF MapOf, Maps
  <1>6. cfg'[i] = c /\ history'[i] = h /\ parsed'[i] = parseDSN(d)
    BY <1>1, <1>2 DEF DsnTyped
  <1>7. DsnOf(i)' = d
    BY <1>4, <1>6, DsnsAssumption DEF DsnOf
  <1>8. Explained(i)'
    <2>1. d.id # None
      BY DsnsAssumption
    <2>2. dsnCharset(cfg[i], parsed)' = d.charset
      <3>1. fromDSN(c)
        BY <1>3, SlotsAssumption DEF fromDSN
      <3>. QED
        BY <1>3, <1>6, <3>1, ParsedFacts DEF dsnCharset
    <2>3. "" \in {c.Host, c.Port} => ~HasHostPort(d)
      BY <1>3 DEF HasHostPort
    <2>. QED
      <3>1. parsed'[cfg'[i].dsn] = parseDSN(DsnOf(i)')
        BY <1>3, <1>6, <1>7
      <3>2. cfg'[i].Charset = dsnCharset(cfg[i], parsed)'
        BY <1>3, <1>6, <2>2
      <3>3. "" \in {cfg'[i].Host, cfg'[i].Port} => ~HasHostPort(DsnOf(i)')
        BY <1>6, <1>7, <2>3
      <3>4. /\ cfg'[i].vars \in {None, i} /\ cfg'[i].dsn = i /\ i \notin {None, BadDsn}
            /\ ~history'[i].bad /\ history'[i].dsn # None
        BY <1>1, <1>3, <1>4, <1>6, <2>1, SlotsAssumption
      <3>. QED
        BY <3>1, <3>2, <3>3, <3>4 DEF Explained
  <1>9. /\ dsnHeap' \in [Slots \cup {Copy} -> Maps] /\ DOMAIN parsed' = Slots
        /\ \A m \in Slots \ {i} : dsnHeap'[m] = dsnHeap[m] /\ parsed'[m] = parsed[m]
    BY <1>1, <1>2, <1>5 DEF DsnTyped
  <1>. QED
    BY <1>1, <1>2, <1>3, <1>4, <1>8, <1>9, OptionStep DEF WithDSN

LEMMA WithBadDSNInv == ASSUME DsnInv, NEW i \in Slots, WithBadDSN(i) PROVE DsnInv'
  <1>. DEFINE c == [cfg[i] EXCEPT !.dsn = BadDsn]
              h == [history[i] EXCEPT !.bad = TRUE]
  <1>1. Explained(i) /\ DsnTyped /\ i \in Configs /\ phase[i] = "building" /\ BadDsn \notin Slots
    BY SlotsAssumption DEF DsnInv, Configs, WithBadDSN, MayApply
  <1>2. cfg[i] \in ConfigFields /\ history[i] \in History
    BY <1>1 DEF DsnTyped
  <1>3. /\ c \in ConfigFields /\ c.vars = cfg[i].vars /\ c.dsn = BadDsn
        /\ c.Host = cfg[i].Host /\ c.Port = cfg[i].Port
    BY <1>2 DEF ConfigFields
  <1>4. h \in History /\ h.dsn = history[i].dsn /\ h.bad
    BY <1>2 DEF History
  <1>5. cfg'[i] = c /\ history'[i] = h
    BY <1>1 DEF DsnTyped, WithBadDSN
  <1>6. DsnOf(i)' = DsnOf(i)
    BY <1>4, <1>5 DEF DsnOf
  <1>7. Explained(i)'
    BY <1>1, <1>3, <1>4, <1>5, <1>6 DEF Explained, None, BadDsn
  <1>. QED
    BY <1>1, <1>3, <1>4, <1>7, OptionStep DEF WithBadDSN, DsnTyped

LEMMA OptionInv == ASSUME DsnInv, NEW i \in Slots, Option(i) PROVE DsnInv'
  <1>. DEFINE f == cfg[i]
              g == history[i]
  <1>1. DsnTyped /\ f \in ConfigFields /\ g \in History /\ history = [history EXCEPT ![i] = g]
    BY DEF DsnInv, DsnTyped, Configs
  <1>2. ASSUME NEW b \in BOOLEAN
        PROVE  /\ [g EXCEPT !.addr = b] \in History
               /\ [g EXCEPT !.addr = b].dsn = g.dsn /\ [g EXCEPT !.addr = b].bad = g.bad
               /\ [g EXCEPT !.addr = b].charset = g.charset
    BY <1>1 DEF History
  <1>3. CASE WithNetwork(i)
    <2>1. PICK n \in {"", "tcp", "unix"} : SetFields(i, [f EXCEPT !.Net = n])
      BY <1>3 DEF WithNetwork
    <2>. DEFINE c == [f EXCEPT !.Net = n]
    <2>2. /\ c \in ConfigFields /\ c.vars = f.vars /\ c.dsn = f.dsn /\ c.Charset = f.Charset
          /\ c.Host = f.Host /\ c.Port = f.Port
      BY <1>1 DEF ConfigFields, Nets
    <2>. QED
      BY <1>1, <1>3, <2>1, <2>2, FieldsStep DEF WithNetwork, MayApply
  <1>4. CASE WithAddress(i)
    <2>1. PICK a \in Addresses : /\ SetFields(i, [f EXCEPT !.Addr = a])
                                 /\ history' = [history EXCEPT ![i].addr = (a # << >>)]
      BY <1>4 DEF WithAddress
    <2>. DEFINE c == [f EXCEPT !.Addr = a]
    <2>2. /\ c \in ConfigFields /\ c.vars = f.vars /\ c.dsn = f.dsn /\ c.Charset = f.Charset
          /\ c.Host = f.Host /\ c.Port = f.Port
      BY <1>1 DEF ConfigFields, Addrs
    <2>. QED
      BY <1>1, <1>2, <1>4, <2>1, <2>2, FieldsStep DEF WithAddress, MayApply
  <1>5. CASE WithHost(i)
    <2>1. PICK s \in Hosts : SetFields(i, [f EXCEPT !.Host = s, !.Addr = << >>])
      BY <1>5 DEF WithHost
    <2>. DEFINE c == [f EXCEPT !.Host = s, !.Addr = << >>]
    <2>2. /\ c \in ConfigFields /\ c.vars = f.vars /\ c.dsn = f.dsn /\ c.Charset = f.Charset
          /\ c.Host = s /\ c.Port = f.Port /\ s # ""
      BY <1>1, HostsAssumption DEF ConfigFields, Addrs, HostParts
    <2>. QED
      BY <1>1, <1>2, <1>5, <2>1, <2>2, FieldsStep DEF WithHost, MayApply
  <1>6. CASE WithPort(i)
    <2>1. PICK s \in Ports : SetFields(i, [f EXCEPT !.Port = s, !.Addr = << >>])
      BY <1>6 DEF WithPort
    <2>. DEFINE c == [f EXCEPT !.Port = s, !.Addr = << >>]
    <2>2. /\ c \in ConfigFields /\ c.vars = f.vars /\ c.dsn = f.dsn /\ c.Charset = f.Charset
          /\ c.Host = f.Host /\ c.Port = s /\ s # ""
      BY <1>1, HostsAssumption DEF ConfigFields, Addrs, PortParts
    <2>. QED
      BY <1>1, <1>2, <1>6, <2>1, <2>2, FieldsStep DEF WithPort, MayApply
  <1>7. CASE WithTLSConfig(i)
    <2>1. PICK t \in TLSNames : SetFields(i, [f EXCEPT !.TLSConfig = t])
      BY <1>7 DEF WithTLSConfig
    <2>. DEFINE c == [f EXCEPT !.TLSConfig = t]
    <2>2. /\ c \in ConfigFields /\ c.vars = f.vars /\ c.dsn = f.dsn /\ c.Charset = f.Charset
          /\ c.Host = f.Host /\ c.Port = f.Port
      BY <1>1 DEF ConfigFields, TLSParts
    <2>. QED
      BY <1>1, <1>7, <2>1, <2>2, FieldsStep DEF WithTLSConfig, MayApply
  <1>8. CASE WithCharset(i)
    <2>1. PICK s \in Charsets : SetFields(i, [f EXCEPT !.Charset = s])
      BY <1>8 DEF WithCharset
    <2>. DEFINE c == [f EXCEPT !.Charset = s]
                h == [g EXCEPT !.charset = TRUE]
    <2>2. /\ c \in ConfigFields /\ c.vars = f.vars /\ c.dsn = f.dsn
          /\ c.Host = f.Host /\ c.Port = f.Port
      BY <1>1 DEF ConfigFields, CharsetParts
    <2>3. h \in History /\ h.dsn = g.dsn /\ h.bad = g.bad /\ h.charset
      BY <1>1 DEF History
    <2>. QED
      BY <1>8, <2>1, <2>2, <2>3, FieldsStep DEF WithCharset, MayApply
  <1>. QED
    BY <1>3, <1>4, <1>5, <1>6, <1>7, <1>8, WithSystemVariableInv, WithDSNInv, WithBadDSNInv
    DEF Option

LEMMA DsnInvariant == DsnSpec => []DsnInv
  <1>1. DsnInv /\ UNCHANGED dsnVars => DsnInv'
    <2>. SUFFICES ASSUME DsnInv, UNCHANGED dsnVars PROVE DsnInv'
      OBVIOUS
    <2>1. DsnTyped'
      BY DEF DsnInv, DsnTyped, dsnVars
    <2>2. ASSUME NEW k \in Configs
          PROVE  Explained(k)' /\ DsnValue(k)' = DsnValue(k)
      <3>1. DsnOf(k)' = DsnOf(k)
        BY DEF DsnOf, dsnVars
      <3>2. Explained(k)
        BY DEF DsnInv
      <3>3. dsnCharset(cfg[k], parsed)' = dsnCharset(cfg[k], parsed)
        BY DEF dsnVars
      <3>4. DsnValue(k)' = DsnValue(k)
        BY <3>2, ValueFrame DEF DsnInv, dsnVars
      <3>. QED
        BY <3>1, <3>2, <3>3, <3>4 DEF Explained, dsnVars
    <2>3. SealedConfigsFixed'
      BY <2>2 DEF DsnInv, SealedConfigsFixed, dsnVars
    <2>. QED
      BY <2>1, <2>2, <2>3 DEF DsnInv
  <1>2. DsnInv /\ [DsnNext]_dsnVars => DsnInv'
    BY <1>1, OptionInv, ReturnInv, DsnWithInv, RedactedInv DEF DsnNext
  <1>. QED
    BY <1>2, DsnInitInv, PTL DEF DsnSpec

-----------------------------------------------------------------------------
(* The theorems.                                                           *)

(* No Config changes once With has returned it, and no redacted form shows *)
(* the value of a system variable: for any number of Configs, options in   *)
(* any order, and any DSNs (Config.With, Config.Clone, RedactedDSN).       *)
THEOREM SealedConfigsStay == DsnSpec => []SealedConfigsFixed
  BY DsnInvariant, PTL DEF DsnInv

(* What rebase leaves of a parsed DSN.                                     *)
LEMMA RebaseFacts ==
    ASSUME NEW s \in Dsns, NEW c
    PROVE  rebase(parseDSN(s), c)
             = [Net |-> s.Net, Addr |-> s.Addr, TLSConfig |-> s.TLSConfig,
                TLS |-> IF s.TLSConfig # c.TLSConfig \/ s.Net # network(c) \/ s.Addr # address(c)
                        THEN NoTLS ELSE TLSOf(s.TLSConfig, s.Net, s.Addr),
                fallback |-> (s.fallback \/ s.TLSConfig = "preferred") /\ s.TLSConfig = c.TLSConfig,
                charset |-> s.charset, other |-> s.other, Params |-> MapOf(s.keys)]
  <1>. DEFINE base == parseDSN(s)
  <1>1. base = [Net |-> s.Net, Addr |-> s.Addr, TLSConfig |-> s.TLSConfig,
                TLS |-> TLSOf(s.TLSConfig, s.Net, s.Addr),
                fallback |-> s.fallback \/ s.TLSConfig = "preferred",
                charset |-> s.charset, other |-> s.other, Params |-> MapOf(s.keys)]
    BY ParsedFacts
  <1>. HIDE DEF base
  <1>2. rebase(base, c) = [base EXCEPT
            !.TLS = IF base.TLSConfig # c.TLSConfig \/ base.Net # network(c) \/ base.Addr # address(c)
                    THEN NoTLS ELSE base.TLS,
            !.fallback = base.fallback /\ base.TLSConfig = c.TLSConfig]
    BY <1>1 DEF rebase
  <1>3. rebase(base, c)
             = [Net |-> s.Net, Addr |-> s.Addr, TLSConfig |-> s.TLSConfig,
                TLS |-> IF s.TLSConfig # c.TLSConfig \/ s.Net # network(c) \/ s.Addr # address(c)
                        THEN NoTLS ELSE TLSOf(s.TLSConfig, s.Net, s.Addr),
                fallback |-> (s.fallback \/ s.TLSConfig = "preferred") /\ s.TLSConfig = c.TLSConfig,
                charset |-> s.charset, other |-> s.other, Params |-> MapOf(s.keys)]
    BY <1>1, <1>2
  <1>. QED
    BY <1>3 DEF base

(* The driver configuration of a Config that can be built.                 *)
Meant(i) ==
    \/ cfg[i].TLSConfig = "preferred"
    \/ /\ history[i].dsn # None
       /\ DsnOf(i).fallback /\ DsnOf(i).TLSConfig = cfg[i].TLSConfig

LEMMA DriverFacts ==
    ASSUME DsnInv, NEW i \in Configs, Builds(i)
    PROVE  \E tls \in {NoTLS, TLSOf(cfg[i].TLSConfig, network(cfg[i]), address(cfg[i]))},
              fallback \in BOOLEAN, other \in BOOLEAN :
              /\ fallback => Meant(i)
              /\ other = (history[i].dsn # None /\ DsnOf(i).other)
              /\ DsnValue(i).driver =
                    [Net |-> network(cfg[i]), Addr |-> address(cfg[i]), TLSConfig |-> cfg[i].TLSConfig,
                     TLS |-> tls, fallback |-> fallback, charset |-> cfg[i].Charset,
                     other |-> other, Params |-> SystemVariables(cfg[i], dsnHeap)]
  <1>. DEFINE c == cfg[i]
  <1>1. Explained(i) /\ DsnTyped /\ c.dsn \in Slots \cup {None, BadDsn} /\ None \notin Slots /\ BadDsn \notin Slots
    BY SlotsAssumption DEF DsnInv, DsnTyped, ConfigFields
  <1>2. configError(c, dsnHeap, parsed) = None /\ DsnValue(i).driver = driverConfig(c, dsnHeap, parsed)
    BY DEF Builds, DsnValue
  <1>3. c.dsn # BadDsn
    BY <1>2 DEF configError, None
  <1>4. CASE c.dsn = None
    <2>1. ~fromDSN(c) /\ dsnCharset(c, parsed) = ""
      BY <1>4 DEF fromDSN, dsnCharset
    <2>2. driverConfig(c, dsnHeap, parsed)
            = [NewDriverConfig EXCEPT !.Net = network(c), !.Addr = address(c), !.TLSConfig = c.TLSConfig,
                 !.charset = IF c.Charset = "" THEN NewDriverConfig.charset ELSE c.Charset,
                 !.Params = SystemVariables(c, dsnHeap)]
      BY <2>1 DEF driverConfig
    <2>3. history[i].dsn = None
      BY <1>1, <1>4 DEF Explained
    <2>4. driverConfig(c, dsnHeap, parsed)
            = [Net |-> network(c), Addr |-> address(c), TLSConfig |-> c.TLSConfig,
               TLS |-> NoTLS, fallback |-> FALSE, charset |-> c.Charset, other |-> FALSE,
               Params |-> SystemVariables(c, dsnHeap)]
      BY <2>2 DEF NewDriverConfig
    <2>. QED
      BY <1>2, <2>3, <2>4
  <1>5. CASE c.dsn \in Slots
    <2>1. PICK s \in Dsns : s = DsnOf(i) /\ parsed[c.dsn] = parseDSN(s) /\ history[i].dsn # None
      BY <1>1, <1>5, DsnKnown DEF Explained
    <2>2. parseDSN(s).charset = s.charset
      BY ParsedFacts
    <2>3. fromDSN(c) /\ dsnCharset(c, parsed) = s.charset
      BY <1>1, <1>5, <2>1, <2>2 DEF fromDSN, dsnCharset
    <2>. DEFINE b == rebase(parseDSN(s), c)
    <2>4. b = [Net |-> s.Net, Addr |-> s.Addr, TLSConfig |-> s.TLSConfig,
               TLS |-> IF s.TLSConfig # c.TLSConfig \/ s.Net # network(c) \/ s.Addr # address(c)
                       THEN NoTLS ELSE TLSOf(s.TLSConfig, s.Net, s.Addr),
               fallback |-> (s.fallback \/ s.TLSConfig = "preferred") /\ s.TLSConfig = c.TLSConfig,
               charset |-> s.charset, other |-> s.other, Params |-> MapOf(s.keys)]
      BY RebaseFacts
    <2>5. driverConfig(c, dsnHeap, parsed)
            = [b EXCEPT !.Net = network(c), !.Addr = address(c), !.TLSConfig = c.TLSConfig,
                 !.charset = IF c.Charset = s.charset THEN b.charset ELSE c.Charset,
                 !.Params = SystemVariables(c, dsnHeap)]
      BY <2>1, <2>3 DEF driverConfig
    <2>. HIDE DEF b
    <2>6. PICK tls \in {NoTLS, TLSOf(c.TLSConfig, network(c), address(c))} : b.TLS = tls
      BY <2>4
    <2>7. PICK fallback \in BOOLEAN :
            /\ fallback = ((s.fallback \/ s.TLSConfig = "preferred") /\ s.TLSConfig = c.TLSConfig)
            /\ b.fallback = fallback
      BY <2>4
    <2>8. driverConfig(c, dsnHeap, parsed)
            = [Net |-> network(c), Addr |-> address(c), TLSConfig |-> c.TLSConfig,
               TLS |-> tls, fallback |-> fallback, charset |-> c.Charset, other |-> s.other,
               Params |-> SystemVariables(c, dsnHeap)]
      <3>1. b = [Net |-> s.Net, Addr |-> s.Addr, TLSConfig |-> s.TLSConfig, TLS |-> b.TLS,
                 fallback |-> b.fallback, charset |-> s.charset, other |-> s.other,
                 Params |-> MapOf(s.keys)]
        BY <2>4
      <3>2. b.charset = s.charset
        BY <2>4
      <3>3. b = [Net |-> s.Net, Addr |-> s.Addr, TLSConfig |-> s.TLSConfig, TLS |-> tls,
                 fallback |-> fallback, charset |-> s.charset, other |-> s.other,
                 Params |-> MapOf(s.keys)]
        BY <2>6, <2>7, <3>1
      <3>4. (IF c.Charset = s.charset THEN b.charset ELSE c.Charset) = c.Charset
        BY <3>2
      <3>5. driverConfig(c, dsnHeap, parsed)
              = [b EXCEPT !.Net = network(c), !.Addr = address(c), !.TLSConfig = c.TLSConfig,
                          !.charset = c.Charset, !.Params = SystemVariables(c, dsnHeap)]
        BY <2>5, <3>4
      <3>. QED
        BY <3>3, <3>5
    <2>9. fallback => Meant(i)
      BY <2>1, <2>7 DEF Meant
    <2>10. s.other = (history[i].dsn # None /\ DsnOf(i).other)
      BY <2>1, DsnsAssumption
    <2>. QED
      BY <1>2, <2>8, <2>9, <2>10
  <1>. QED
    BY <1>1, <1>3, <1>4, <1>5

(* Whatever is set after a DSN, the connection verifies the host it dials  *)
(* and never falls back to plaintext because of a TLS name that is no      *)
(* longer there (driverConfig).                                            *)
THEOREM TLSIsFresh == DsnSpec => []FreshTLS
  <1>1. ASSUME DsnInv, NEW i \in Configs, Builds(i), NEW d, d = normalize(DsnValue(i).driver)
        PROVE  d.TLS = TLSOf(cfg[i].TLSConfig, d.Net, d.Addr) /\ (d.fallback => Meant(i))
    <2>. DEFINE c == cfg[i]
    <2>1. PICK tls \in {NoTLS, TLSOf(c.TLSConfig, network(c), address(c))}, fallback \in BOOLEAN,
                other \in BOOLEAN :
              /\ fallback => Meant(i)
              /\ DsnValue(i).driver =
                    [Net |-> network(c), Addr |-> address(c), TLSConfig |-> c.TLSConfig,
                     TLS |-> tls, fallback |-> fallback, charset |-> c.Charset,
                     other |-> other, Params |-> SystemVariables(c, dsnHeap)]
      BY <1>1, DriverFacts
    <2>2. CASE tls # NoTLS
      <3>1. d = DsnValue(i).driver
        BY <1>1, <2>1, <2>2 DEF normalize
      <3>. QED
        BY <2>1, <2>2, <3>1
    <2>3. CASE tls = NoTLS
      <3>. DEFINE e == DsnValue(i).driver
      <3>1. /\ e.TLS = NoTLS /\ e.fallback = fallback
            /\ e.TLSConfig = c.TLSConfig /\ e.Net = network(c) /\ e.Addr = address(c)
            /\ {"TLS", "fallback"} \subseteq DOMAIN e
        BY <2>1, <2>3
      <3>. HIDE DEF e
      <3>3. d = [e EXCEPT !.TLS = TLSOf(c.TLSConfig, network(c), address(c)),
                          !.fallback = e.fallback \/ c.TLSConfig = "preferred"]
        BY <1>1, <3>1 DEF normalize, e
      <3>4. /\ d.TLS = TLSOf(c.TLSConfig, network(c), address(c))
            /\ d.Net = network(c) /\ d.Addr = address(c)
            /\ d.fallback = (fallback \/ c.TLSConfig = "preferred")
        BY <3>1, <3>3
      <3>2. c.TLSConfig = "preferred" => Meant(i)
        BY DEF Meant
      <3>. QED
        BY <2>1, <3>2, <3>4
    <2>. QED
      BY <2>2, <2>3
  <1>2. DsnInv => FreshTLS
    BY <1>1 DEF FreshTLS, Meant
  <1>. QED
    BY <1>2, DsnInvariant, PTL

(* An error of a build has the reason it names, however many options were  *)
(* applied: a DSN that did not parse and was not replaced, a charset that  *)
(* was set, no address to be had from the network or the DSN (address,     *)
(* applyCharset).                                                          *)
THEOREM ErrorsAreExplained == DsnSpec => []ErrorsHaveReasons
  <1>1. ASSUME DsnInv, NEW i \in Configs
        PROVE  /\ DsnValue(i).err = "dsn" <=> history[i].bad
               /\ DsnValue(i).err = "charset" => history[i].charset
               /\ DsnValue(i).err = "address" =>
                      cfg[i].Net = "unix" \/ (history[i].dsn # None /\ ~HasHostPort(DsnOf(i)))
    <2>1. Explained(i) /\ DsnValue(i).err = configError(cfg[i], dsnHeap, parsed)
      BY <1>1 DEF DsnInv, DsnValue
    <2>2. configError(cfg[i], dsnHeap, parsed) = "dsn" <=> history[i].bad
      BY <2>1 DEF Explained, configError, None
    <2>3. configError(cfg[i], dsnHeap, parsed) = "charset" => history[i].charset
      BY <2>1 DEF Explained, configError, charsetFails, None
    <2>4. configError(cfg[i], dsnHeap, parsed) = "address" =>
            cfg[i].Net = "unix" \/ (history[i].dsn # None /\ ~HasHostPort(DsnOf(i)))
      BY <2>1 DEF Explained, configError, hasAddress, None
    <2>. QED
      BY <2>1, <2>2, <2>3, <2>4
  <1>2. DsnInv => ErrorsHaveReasons
    BY <1>1 DEF ErrorsHaveReasons
  <1>. QED
    BY <1>2, DsnInvariant, PTL

(* A build leads to the charset the Config shows and to what the last DSN  *)
(* asked for beyond the fields (driverConfig, applyCharset).               *)
THEOREM BuildsShowConfigs == DsnSpec => []BuildsAsShown
  <1>1. DsnInv => BuildsAsShown
    <2>. SUFFICES ASSUME DsnInv, NEW i \in Configs, Builds(i)
                  PROVE  /\ DsnValue(i).driver.charset = cfg[i].Charset
                         /\ DsnValue(i).driver.other = (history[i].dsn # None /\ DsnOf(i).other)
      BY DEF BuildsAsShown
    <2>1. PICK tls \in {NoTLS, TLSOf(cfg[i].TLSConfig, network(cfg[i]), address(cfg[i]))},
                fallback \in BOOLEAN, other \in BOOLEAN :
            /\ other = (history[i].dsn # None /\ DsnOf(i).other)
            /\ DsnValue(i).driver =
                  [Net |-> network(cfg[i]), Addr |-> address(cfg[i]), TLSConfig |-> cfg[i].TLSConfig,
                   TLS |-> tls, fallback |-> fallback, charset |-> cfg[i].Charset,
                   other |-> other, Params |-> SystemVariables(cfg[i], dsnHeap)]
      BY DriverFacts
    <2>. QED
      BY <2>1
  <1>. QED
    BY <1>1, DsnInvariant, PTL
=============================================================================
