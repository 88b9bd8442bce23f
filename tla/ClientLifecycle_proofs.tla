----------------------- MODULE ClientLifecycle_proofs -----------------------
(***************************************************************************)
(* Theorems about ClientLifecycle for any number of Clients, shared pools, *)
(* limits and ping retries.  Inv is inductive: ClientLifecycle defines it, *)
(* and here every conjunct has a lemma of its own for a step of a Client.  *)
(***************************************************************************)
EXTENDS ClientLifecycle, TLAPS

ClientStep(c) ==
    \/ Open(c) \/ ConfigOpenWithDB(c) \/ OpenWithDB(c)
    \/ Opened(c) \/ Close(c) \/ CtxDone(c)

USE ClientAssumption DEF Pools, Opening, poolVars, Carried

(* Closing a pool closes just that one, for whoever does it first.         *)
LEMMA ClosePoolIs ==
    ASSUME TypeOK, NEW x \in Pools, NEW who, ClosePool(x, who)
    PROVE  /\ limit' = limit
           /\ state' \in [Pools -> {"absent", "open", "closed"}]
           /\ who \in {"ormx", "caller"} => closer' \in [Pools -> {"nobody", "ormx", "caller"}]
           /\ \A y \in Pools \ {x} : state'[y] = state[y] /\ closer'[y] = closer[y]
           /\ state[x] = "open" => state'[x] = "closed" /\ closer'[x] = who
           /\ state[x] # "open" => state'[x] = state[x] /\ closer'[x] = closer[x]
  BY DEF TypeOK, ClosePool

(* Whether a borrowed pool came by the function or by the method, the      *)
(* settings applied to it are those the caller handed over.                *)
LEMMA BorrowedIs ==
    ASSUME NEW c \in Clients, ConfigOpenWithDB(c) \/ OpenWithDB(c)
    PROVE  \E n \in Carried : openBorrowed(c, n, n)
  BY DEF ConfigOpenWithDB, OpenWithDB, With

(* What openWithSQLDB sets before the ping keeps its type.                 *)
LEMMA StartTyped ==
    ASSUME TypeOK, NEW c \in Clients, NEW x \in Pools, NEW owned \in BOOLEAN,
           NEW n \in Nat \cup {Unset}, Start(c, x, owned, n)
    PROVE  /\ pc' \in [Clients -> Opening \cup {"ready", "closing", "closed", "failed"}]
           /\ pool' \in [Clients -> Pools \cup {NoPool}]
           /\ owns' \in [Clients -> BOOLEAN]
           /\ limit' \in [Pools -> Nat]
           /\ conn' \in [Clients -> {"none", "adapter", "pool"}]
           /\ adapterCtx' \in [Clients -> BOOLEAN]
  <1>1. limit' \in [Pools -> Nat]
    BY DEF TypeOK, Start, applyPoolConfig
  <1>. QED
    BY <1>1 DEF TypeOK, Start

(* Every step of a Client keeps the types.                                 *)
LEMMA TypeStep ==
    ASSUME Inv, NEW c \in Clients, ClientStep(c)
    PROVE  TypeOK'
  <1>. USE DEF Inv, TypeOK, PoolOfClient
  <1>1. CASE Open(c)
    <2>1. CASE /\ pc' = [pc EXCEPT ![c] = "failed"]
               /\ UNCHANGED <<pool, owns, asked, conn, adapterCtx, poolVars>>
      BY <1>1, <2>1 DEF Open
    <2>2. ASSUME NEW n \in Carried,
                 asked' = [asked EXCEPT ![c] = n], state' = [state EXCEPT ![c] = "open"],
                 Start(c, c, TRUE, n), UNCHANGED closer
          PROVE  TypeOK'
      BY <1>1, <2>2, StartTyped DEF Open
    <2>. QED
      BY <1>1, <2>1, <2>2 DEF Open
  <1>2. CASE ConfigOpenWithDB(c) \/ OpenWithDB(c)
    <2>. PICK n \in Carried : openBorrowed(c, n, n)
      BY <1>2, BorrowedIs
    <2>1. CASE /\ pc' = [pc EXCEPT ![c] = "failed"]
               /\ UNCHANGED <<pool, owns, asked, conn, adapterCtx, poolVars>>
      BY <2>1 DEF openBorrowed
    <2>2. ASSUME NEW x \in Shared,
                 asked' = [asked EXCEPT ![c] = n], Start(c, x, FALSE, n),
                 UNCHANGED <<state, closer>>
          PROVE  TypeOK'
      <3>1. n \in Nat \cup {Unset} /\ x \in Pools
        OBVIOUS
      <3>. QED
        BY <2>2, <3>1, StartTyped DEF openBorrowed
    <2>. QED
      BY <2>1, <2>2 DEF openBorrowed
  <1>3. CASE PingOk(c)
    BY <1>3 DEF PingOk
  <1>4. CASE PingError(c)
    BY <1>4 DEF PingError, Fail
  <1>5. CASE PingAgain(c)
    BY <1>5 DEF PingAgain
  <1>6. CASE PingCanceled(c)
    BY <1>6 DEF PingCanceled, Fail
  <1>7. CASE VersionOk(c)
    BY <1>7 DEF VersionOk
  <1>8. CASE VersionError(c)
    BY <1>8 DEF VersionError, Fail, ExposesDB, ClosePool
  <1>9. CASE Restore(c)
    BY <1>9 DEF Restore
  <1>10. CASE Cleanup(c)
    BY <1>10 DEF Cleanup, ClosePool
  <1>11. CASE CloseCache(c)
    BY <1>11 DEF CloseCache
  <1>12. CASE CloseDB(c)
    BY <1>12 DEF CloseDB, ClosePool
  <1>13. CASE CtxDone(c)
    BY <1>13 DEF CtxDone, clientVars
  <1>. QED
    BY <1>1, <1>2, <1>3, <1>4, <1>5, <1>6, <1>7, <1>8, <1>9, <1>10, <1>11, <1>12, <1>13
    DEF ClientStep, Opened, Close

(* A Client keeps the pool it started with.                                *)
LEMMA PoolStep ==
    ASSUME Inv, NEW c \in Clients, ClientStep(c)
    PROVE  PoolOfClient'
  <1>. USE DEF Inv, TypeOK, PoolOfClient
  <1>1. CASE Open(c)
    BY <1>1 DEF Open, Start
  <1>2. CASE ConfigOpenWithDB(c) \/ OpenWithDB(c)
    BY <1>2, BorrowedIs DEF openBorrowed, Start
  <1>3. CASE PingOk(c)
    BY <1>3 DEF PingOk
  <1>4. CASE PingError(c)
    BY <1>4 DEF PingError, Fail
  <1>5. CASE PingAgain(c)
    BY <1>5 DEF PingAgain
  <1>6. CASE PingCanceled(c)
    BY <1>6 DEF PingCanceled, Fail
  <1>7. CASE VersionOk(c)
    BY <1>7 DEF VersionOk
  <1>8. CASE VersionError(c)
    BY <1>8 DEF VersionError, Fail
  <1>9. CASE Restore(c)
    BY <1>9 DEF Restore
  <1>10. CASE Cleanup(c)
    BY <1>10 DEF Cleanup
  <1>11. CASE CloseCache(c)
    BY <1>11 DEF CloseCache
  <1>12. CASE CloseDB(c)
    BY <1>12 DEF CloseDB
  <1>13. CASE CtxDone(c)
    BY <1>13 DEF CtxDone, clientVars
  <1>. QED
    BY <1>1, <1>2, <1>3, <1>4, <1>5, <1>6, <1>7, <1>8, <1>9, <1>10, <1>11, <1>12, <1>13
    DEF ClientStep, Opened, Close

(* Only the Client that created a pool closes it.                          *)
LEMMA StateStep ==
    ASSUME Inv, NEW c \in Clients, ClientStep(c)
    PROVE  StateOfPool'
  <1>. USE DEF Inv, TypeOK, PoolOfClient, StateOfPool, PlaceOfClient
  <1>1. CASE Open(c)
    BY <1>1 DEF Open, Start
  <1>2. CASE ConfigOpenWithDB(c) \/ OpenWithDB(c)
    BY <1>2, BorrowedIs DEF openBorrowed, Start
  <1>3. CASE PingOk(c)
    BY <1>3 DEF PingOk
  <1>4. CASE PingError(c)
    BY <1>4 DEF PingError, Fail
  <1>5. CASE PingAgain(c)
    BY <1>5 DEF PingAgain
  <1>6. CASE PingCanceled(c)
    BY <1>6 DEF PingCanceled, Fail
  <1>7. CASE VersionOk(c)
    BY <1>7 DEF VersionOk
  <1>8. CASE VersionError(c)
    BY <1>8 DEF VersionError, Fail, ExposesDB, ClosePool
  <1>9. CASE Restore(c)
    BY <1>9 DEF Restore
  <1>10. CASE Cleanup(c)
    BY <1>10 DEF Cleanup, ClosePool
  <1>11. CASE CloseCache(c)
    BY <1>11 DEF CloseCache
  <1>12. CASE CloseDB(c)
    BY <1>12 DEF CloseDB, ClosePool
  <1>13. CASE CtxDone(c)
    BY <1>13 DEF CtxDone, clientVars
  <1>. QED
    BY <1>1, <1>2, <1>3, <1>4, <1>5, <1>6, <1>7, <1>8, <1>9, <1>10, <1>11, <1>12, <1>13
    DEF ClientStep, Opened, Close

(* What a Client has in its hands fits its place.                          *)
LEMMA PlaceStep ==
    ASSUME Inv, NEW c \in Clients, ClientStep(c)
    PROVE  PlaceOfClient'
  <1>. USE DEF Inv, TypeOK, PlaceOfClient
  <1>1. CASE Open(c)
    BY <1>1 DEF Open, Start
  <1>2. CASE ConfigOpenWithDB(c) \/ OpenWithDB(c)
    BY <1>2, BorrowedIs DEF openBorrowed, Start
  <1>3. CASE PingOk(c)
    BY <1>3 DEF PingOk
  <1>4. CASE PingError(c)
    BY <1>4 DEF PingError, Fail
  <1>5. CASE PingAgain(c)
    BY <1>5 DEF PingAgain
  <1>6. CASE PingCanceled(c)
    BY <1>6 DEF PingCanceled, Fail
  <1>7. CASE VersionOk(c)
    BY <1>7 DEF VersionOk
  <1>8. CASE VersionError(c)
    BY <1>8 DEF VersionError, Fail
  <1>9. CASE Restore(c)
    BY <1>9 DEF Restore
  <1>10. CASE Cleanup(c)
    BY <1>10 DEF Cleanup
  <1>11. CASE CloseCache(c)
    BY <1>11 DEF CloseCache
  <1>12. CASE CloseDB(c)
    BY <1>12 DEF CloseDB
  <1>13. CASE CtxDone(c)
    BY <1>13 DEF CtxDone, clientVars
  <1>. QED
    BY <1>1, <1>2, <1>3, <1>4, <1>5, <1>6, <1>7, <1>8, <1>9, <1>10, <1>11, <1>12, <1>13
    DEF ClientStep, Opened, Close

(* The limit of a borrowed pool is one somebody asked for.                 *)
LEMMA LimitStep ==
    ASSUME Inv, NEW c \in Clients, ClientStep(c)
    PROVE  LimitOfCaller'
  <1>. USE DEF Inv, TypeOK, PoolOfClient, LimitOfCaller
  <1>1. CASE Open(c)
    BY <1>1 DEF Open, Start, applyPoolConfig
  <1>2. CASE ConfigOpenWithDB(c) \/ OpenWithDB(c)
    BY <1>2, BorrowedIs DEF openBorrowed, Start, applyPoolConfig
  <1>3. CASE PingOk(c)
    BY <1>3 DEF PingOk
  <1>4. CASE PingError(c)
    BY <1>4 DEF PingError
  <1>5. CASE PingAgain(c)
    BY <1>5 DEF PingAgain
  <1>6. CASE PingCanceled(c)
    BY <1>6 DEF PingCanceled
  <1>7. CASE VersionOk(c)
    BY <1>7 DEF VersionOk
  <1>8. CASE VersionError(c)
    BY <1>8 DEF VersionError, ExposesDB, ClosePool
  <1>9. CASE Restore(c)
    BY <1>9 DEF Restore
  <1>10. CASE Cleanup(c)
    BY <1>10 DEF Cleanup, ClosePool
  <1>11. CASE CloseCache(c)
    BY <1>11 DEF CloseCache
  <1>12. CASE CloseDB(c)
    BY <1>12 DEF CloseDB, ClosePool
  <1>13. CASE CtxDone(c)
    BY <1>13 DEF CtxDone, clientVars
  <1>. QED
    BY <1>1, <1>2, <1>3, <1>4, <1>5, <1>6, <1>7, <1>8, <1>9, <1>10, <1>11, <1>12, <1>13
    DEF ClientStep, Opened, Close

(* A caller that closes its pool, and a pool that gets stuck, keep the     *)
(* invariant.                                                              *)
LEMMA SurroundingsStep ==
    ASSUME Inv, NEW x \in Pools, CallerCloses(x) \/ PoolStalls(x)
    PROVE  Inv'
  <1>1. CASE PoolStalls(x)
    BY <1>1 DEF PoolStalls, clientVars, Inv, TypeOK, PoolOfClient, StateOfPool, PlaceOfClient,
       LimitOfCaller
  <1>2. CASE CallerCloses(x)
    <2>1. TypeOK /\ ClosePool(x, "caller") /\ x \in Shared /\ state[x] = "open"
          /\ UNCHANGED <<clientVars, ctx, stuck>>
      BY <1>2 DEF CallerCloses, Inv
    <2>2. /\ limit' = limit
          /\ state' \in [Pools -> {"absent", "open", "closed"}]
          /\ closer' \in [Pools -> {"nobody", "ormx", "caller"}]
          /\ \A y \in Pools \ {x} : state'[y] = state[y] /\ closer'[y] = closer[y]
          /\ state'[x] = "closed" /\ closer'[x] = "caller"
      BY <2>1, ClosePoolIs
    <2>3. TypeOK'
      BY <2>1, <2>2 DEF clientVars, TypeOK
    <2>4. StateOfPool'
      BY <2>1, <2>2 DEF clientVars, Inv, StateOfPool
    <2>. QED
      BY <2>1, <2>2, <2>3, <2>4 DEF clientVars, Inv, PoolOfClient, PlaceOfClient, LimitOfCaller
  <1>. QED
    BY <1>1, <1>2

-----------------------------------------------------------------------------
(* Inv is inductive.                                                       *)

(* Before the first Open every Client is new and the pools are the         *)
(* caller's.                                                               *)
LEMMA InvInit == Init => Inv
  BY DEF Init, Inv, TypeOK, PoolOfClient, StateOfPool, PlaceOfClient, LimitOfCaller

(* Every step keeps the invariant.                                         *)
LEMMA InvNext == Inv /\ [Next]_vars => Inv'
  <1>. SUFFICES ASSUME Inv, [Next]_vars PROVE Inv'
    OBVIOUS
  <1>1. ASSUME NEW c \in Clients, ClientStep(c) PROVE Inv'
    BY <1>1, TypeStep, PoolStep, StateStep, PlaceStep, LimitStep DEF Inv
  <1>2. ASSUME NEW x \in Pools, CallerCloses(x) \/ PoolStalls(x) PROVE Inv'
    BY <1>2, SurroundingsStep
  <1>3. CASE UNCHANGED vars
    BY <1>3 DEF vars, clientVars, Inv, TypeOK, PoolOfClient, StateOfPool, PlaceOfClient,
       LimitOfCaller
  <1>. QED
    BY <1>1, <1>2, <1>3 DEF Next, ClientStep

(* The invariant holds in every reachable state (config.go, Open and       *)
(* OpenWithDB; client.go, Close).                                          *)
THEOREM Invariance == Spec => []Inv
  BY InvInit, InvNext, PTL DEF Spec

(* A Client that was handed out can be used until it is closed, whatever   *)
(* other Clients on the same pool do, and has left the startup adapter.    *)
THEOREM ReadyClientsAreUsable == Spec => []ReadyClientUsable
  <1>1. Inv => ReadyClientUsable
    <2>. SUFFICES ASSUME Inv, NEW c \in Clients, pc[c] = "ready"
                  PROVE  /\ state[pool[c]] = "open" \/ closer[pool[c]] = "caller"
                         /\ conn[c] = "pool" /\ ~adapterCtx[c]
                         /\ cfg[c].ping => pinged[c]
      BY DEF ReadyClientUsable
    <2>1. state[pool[c]] = "open" \/ closer[pool[c]] = "caller"
      <3>1. CASE owns[c]
        BY <3>1 DEF Inv, PoolOfClient, StateOfPool
      <3>2. CASE ~owns[c]
        <4>1. pool[c] \in Shared
          BY <3>2 DEF Inv, PoolOfClient
        <4>2. state[pool[c]] \in {"open", "closed"}
          BY <4>1 DEF Inv, TypeOK, StateOfPool
        <4>. QED
          BY <4>1, <4>2 DEF Inv, StateOfPool
      <3>. QED
        BY <3>1, <3>2
    <2>. QED
      BY <2>1 DEF Inv, PlaceOfClient
  <1>. QED
    BY <1>1, Invariance, PTL

(* ormx closes no pool it borrowed, and the limit of such a pool is the    *)
(* caller's or one it handed over with that pool, as an option of the      *)
(* function or on the Config whose method it called.                       *)
THEOREM BorrowedPoolsAreKept == Spec => []BorrowedPoolKept
  <1>1. Inv => BorrowedPoolKept
    BY DEF Inv, StateOfPool, LimitOfCaller, BorrowedPoolKept
  <1>. QED
    BY <1>1, Invariance, PTL

(* No pool that Open created outlives its Client, and no prepared          *)
(* statement outlives Close.                                               *)
THEOREM ClientsLeakNothing == Spec => []NothingLeaks
  <1>1. Inv => NothingLeaks
    <2>. SUFFICES ASSUME Inv, NEW c \in Clients
                  PROVE  /\ state[c] = "open" => pc[c] \notin {"new", "failed", "closed"}
                         /\ pc[c] = "closed" => cache[c] # "open"
      BY DEF NothingLeaks
    <2>1. pc[c] = "new" => ~owns[c]
      BY DEF Inv, PoolOfClient
    <2>. QED
      BY <2>1 DEF Inv, StateOfPool, PlaceOfClient
  <1>. QED
    BY <1>1, Invariance, PTL
=============================================================================
