-------------------------- MODULE ClientLifecycle --------------------------
(***************************************************************************)
(* Opening and closing Clients (config.go, initialization.go, client.go).  *)
(*                                                                         *)
(* Open creates an *sql.DB of its own; OpenWithDB borrows one that the     *)
(* caller may share between several Clients and may close at any time.     *)
(* Both apply the pool settings, ping with retries, and let gorm.Open      *)
(* (external) ask the server for its version through an adapter that is    *)
(* removed again before the Client is returned.  Each client is opened by  *)
(* a goroutine of its own.                                                 *)
(*                                                                         *)
(* Open and OpenWithDB are functions of the package and methods of Config. *)
(* A Config that was made by NewConfig carries the default pool settings,  *)
(* and OpenWithDB the method applies them like any other; OpenWithDB the   *)
(* function starts from a Config without pool settings.                    *)
(***************************************************************************)
EXTENDS Integers

CONSTANTS
    Clients,
    Shared,         \* *sql.DB values of the caller
    NoPool,
    Limits,         \* arguments of WithMaxOpenConns, one setting for all four
    DefaultLimit,   \* DefaultConfig().Pool.MaxOpenConns
    CallerLimit,    \* what the caller has set on its own pools
    PingRetries     \* Config.StartupPingMaxRetries, negative values included

ASSUME ClientAssumption ==
    /\ NoPool \notin Clients \cup Shared
    /\ Clients \cap Shared = {}
    /\ Limits \cup {DefaultLimit, CallerLimit} \subseteq Nat
    /\ PingRetries \subseteq Int

Pools == Clients \cup Shared    \* the pool Open creates for c is named c
Unset == -1                     \* a nil pointer in PoolConfig

(* prepare: GORM.PrepareStmt; probe: neither Dialect.ServerVersion nor     *)
(* SkipInitializeWithVersion spare the version query; ping: StartupPing;   *)
(* retries: StartupPingMaxRetries, which only a ping looks at.             *)
Configs ==
    {k \in [prepare : BOOLEAN, probe : BOOLEAN, ping : BOOLEAN,
            retries : PingRetries \cup {0}] :
        IF k.ping THEN k.retries \in PingRetries ELSE k.retries = 0}

VARIABLES
    pc,         \* where opening or closing the client has got to
    pool,       \* sqlDB
    owns,       \* ownsSQLDB
    cfg,        \* the Config of the client
    attempt,    \* of pingWithRetry, 0 again when it has returned nil
    pinged,     \* a startup ping was answered
    asked,      \* the limit the caller handed over, or Unset: of the options it
                \* gave to a function, of the Config whose method it called
    conn,       \* what the gorm.DB and its dialector run statements on
    adapterCtx, \* the adapter holds the startup context
    cache,      \* the cache of prepared statements
    ctx,        \* the startup context
    state,      \* of every *sql.DB
    closer,     \* who closed it
    limit,      \* its MaxOpenConns
    stuck       \* it has no free connection, or the server does not answer

clientVars == <<pc, pool, owns, cfg, attempt, pinged, asked, conn, adapterCtx, cache>>
poolVars == <<state, closer, limit>>
vars == <<clientVars, ctx, poolVars, stuck>>

maxRetries(c) == IF cfg[c].retries > 0 THEN cfg[c].retries ELSE 0

Init ==
    /\ pc = [c \in Clients |-> "new"]
    /\ pool = [c \in Clients |-> NoPool]
    /\ owns = [c \in Clients |-> FALSE]
    /\ cfg \in [Clients -> Configs]
    /\ attempt = [c \in Clients |-> 0]
    /\ pinged = [c \in Clients |-> FALSE]
    /\ asked = [c \in Clients |-> Unset]
    /\ conn = [c \in Clients |-> "none"]
    /\ adapterCtx = [c \in Clients |-> FALSE]
    /\ cache = [c \in Clients |-> "none"]
    /\ ctx = [c \in Clients |-> "live"]
    /\ state = [x \in Pools |-> IF x \in Shared THEN "open" ELSE "absent"]
    /\ closer = [x \in Pools |-> "nobody"]
    /\ limit = [x \in Pools |-> IF x \in Shared THEN CallerLimit ELSE 0]
    /\ stuck = [x \in Pools |-> FALSE]

-----------------------------------------------------------------------------
(* sql.DB.Close: idempotent, and final even if it returns an error.        *)
ClosePool(x, who) ==
    IF state[x] = "open"
    THEN /\ state' = [state EXCEPT ![x] = "closed"]
         /\ closer' = [closer EXCEPT ![x] = who]
         /\ UNCHANGED limit
    ELSE UNCHANGED poolVars

(* An operation on the pool of c can be answered, or has to give up: only  *)
(* a caller's context gets it out of a pool that is stuck.                 *)
Answered(c) == state[pool[c]] = "open" /\ ~stuck[pool[c]]
GivesUp(c)  == ~stuck[pool[c]] \/ state[pool[c]] = "closed" \/ ctx[c] = "done"

-----------------------------------------------------------------------------
(* applyPoolConfig: only what is set is applied.                           *)
applyPoolConfig(x, n) ==
    limit' = IF n = Unset THEN limit ELSE [limit EXCEPT ![x] = n]

(* openWithSQLDB up to the startup ping.                                   *)
Start(c, x, owned, n) ==
    /\ pool' = [pool EXCEPT ![c] = x]
    /\ owns' = [owns EXCEPT ![c] = owned]
    /\ applyPoolConfig(x, n)
    /\ IF ~cfg[c].ping
       THEN /\ pc' = [pc EXCEPT ![c] = "version"]
            /\ conn' = [conn EXCEPT ![c] = "adapter"]
            /\ adapterCtx' = [adapterCtx EXCEPT ![c] = TRUE]
       ELSE /\ pc' = [pc EXCEPT ![c] = "ping"]
            /\ UNCHANGED <<conn, adapterCtx>>

(* With: options stand on the pool settings the Config had before.         *)
With(base, n) == IF n = Unset THEN base ELSE n

(* The pool settings a Config may carry: none (a Config literal), the      *)
(* defaults (NewConfig, DefaultConfig), or what an option or a literal set.*)
Carried == Limits \cup {DefaultLimit, Unset}

(* Open: a driver configuration that cannot be built fails before there is *)
(* a pool; what sql.OpenDB returns has no limit.  The function calls the   *)
(* method of NewConfig(opts...): that Config carries a limit in any case.  *)
Open(c) ==
    /\ pc[c] = "new"
    /\ \/ /\ pc' = [pc EXCEPT ![c] = "failed"]
          /\ UNCHANGED <<pool, owns, asked, conn, adapterCtx, poolVars>>
       \/ \E n \in Carried :
          /\ asked' = [asked EXCEPT ![c] = n]
          /\ state' = [state EXCEPT ![c] = "open"]
          /\ Start(c, c, TRUE, n)
          /\ UNCHANGED closer
    /\ UNCHANGED <<cfg, attempt, pinged, cache, ctx, stuck>>

(* Config.OpenWithDB, with what the caller handed over and what the Config *)
(* carries; nil is refused.                                                *)
openBorrowed(c, n, carried) ==
    /\ pc[c] = "new"
    /\ \/ /\ pc' = [pc EXCEPT ![c] = "failed"]
          /\ UNCHANGED <<pool, owns, asked, conn, adapterCtx, poolVars>>
       \/ \E x \in Shared :
          /\ asked' = [asked EXCEPT ![c] = n]
          /\ Start(c, x, FALSE, carried)
          /\ UNCHANGED <<state, closer>>
    /\ UNCHANGED <<cfg, attempt, pinged, cache, ctx, stuck>>

(* The method: the caller's Config is applied as it is.                    *)
ConfigOpenWithDB(c) == \E n \in Carried : openBorrowed(c, n, n)

(* The function: its options stand on a Config without pool settings.      *)
OpenWithDB(c) == \E n \in Limits \cup {Unset} : openBorrowed(c, n, With(Unset, n))

(* Config.Open closes the pool it created, openWithSQLDB closes nothing.   *)
(* Mutant: Config.Open returns the error without closing.                  *)
FailKeepingPool(c) == pc' = [pc EXCEPT ![c] = "failed"]

Fail(c) == pc' = [pc EXCEPT ![c] = IF owns[c] THEN "cleanup" ELSE "failed"]

-----------------------------------------------------------------------------
(* pingWithRetry: any error is retried.                                    *)

PingOk(c) ==
    /\ pc[c] = "ping" /\ Answered(c)
    /\ pc' = [pc EXCEPT ![c] = "version"]
    /\ pinged' = [pinged EXCEPT ![c] = TRUE]
    /\ conn' = [conn EXCEPT ![c] = "adapter"]
    /\ adapterCtx' = [adapterCtx EXCEPT ![c] = TRUE]
    /\ attempt' = [attempt EXCEPT ![c] = 0]
    /\ UNCHANGED <<pool, owns, cfg, asked, cache, ctx, poolVars, stuck>>

PingError(c) ==
    /\ pc[c] = "ping" /\ GivesUp(c)
    /\ IF attempt[c] >= maxRetries(c) THEN Fail(c) ELSE pc' = [pc EXCEPT ![c] = "wait"]
    /\ UNCHANGED <<pool, owns, cfg, attempt, pinged, asked, conn, adapterCtx, cache,
                   ctx, poolVars, stuck>>

PingAgain(c) ==
    /\ pc[c] = "wait"
    /\ pc' = [pc EXCEPT ![c] = "ping"]
    /\ attempt' = [attempt EXCEPT ![c] = @ + 1]
    /\ UNCHANGED <<pool, owns, cfg, pinged, asked, conn, adapterCtx, cache,
                   ctx, poolVars, stuck>>

PingCanceled(c) ==
    /\ pc[c] = "wait" /\ ctx[c] = "done"
    /\ Fail(c)
    /\ UNCHANGED <<pool, owns, cfg, attempt, pinged, asked, conn, adapterCtx, cache,
                   ctx, poolVars, stuck>>

-----------------------------------------------------------------------------
(* openGORM.  The context a version query through the adapter runs under,  *)
(* and what gorm.Open can get at to close when initialization fails.       *)

(* Mutant: the query runs under context.Background(), as GORM starts it.   *)
QueryNeverGivesUp(c) == ~stuck[pool[c]] \/ state[pool[c]] = "closed"

QueryGivesUp(c) ==
    \/ ~stuck[pool[c]] \/ state[pool[c]] = "closed"
    \/ conn[c] = "adapter" /\ adapterCtx[c] /\ ctx[c] = "done"

(* Mutant: the adapter implements GetDBConnector.                          *)
ExposesAnyDB(c) == conn[c] # "none"

ExposesDB(c) == conn[c] # "adapter"

VersionOk(c) ==
    /\ pc[c] = "version"
    /\ cfg[c].probe => Answered(c)
    /\ pc' = [pc EXCEPT ![c] = "restore"]
    /\ cache' = [cache EXCEPT ![c] = IF cfg[c].prepare THEN "open" ELSE "none"]
    /\ UNCHANGED <<pool, owns, cfg, attempt, pinged, asked, conn, adapterCtx,
                   ctx, poolVars, stuck>>

(* gorm.Open closes the *sql.DB if it gets hold of it; the deferred        *)
(* function of openGORM drops the context and the adapter.                 *)
VersionError(c) ==
    /\ pc[c] = "version" /\ cfg[c].probe /\ QueryGivesUp(c)
    /\ IF ExposesDB(c) THEN ClosePool(pool[c], "ormx") ELSE UNCHANGED poolVars
    /\ conn' = [conn EXCEPT ![c] = "none"]
    /\ adapterCtx' = [adapterCtx EXCEPT ![c] = FALSE]
    /\ Fail(c)
    /\ UNCHANGED <<pool, owns, cfg, attempt, pinged, asked, cache, ctx, stuck>>

(* The adapter is replaced in the gorm.DB or, with a statement cache, in   *)
(* the PreparedStmtDB, and in the dialector; its context is dropped.       *)
(* Mutant: the adapter inside a PreparedStmtDB is overlooked.              *)
RestoreUnprepared(c) ==
    /\ pc[c] = "restore"
    /\ conn' = [conn EXCEPT ![c] = IF cfg[c].prepare THEN @ ELSE "pool"]
    /\ adapterCtx' = [adapterCtx EXCEPT ![c] = FALSE]
    /\ pc' = [pc EXCEPT ![c] = "ready"]
    /\ UNCHANGED <<pool, owns, cfg, attempt, pinged, asked, cache, ctx, poolVars, stuck>>

Restore(c) ==
    /\ pc[c] = "restore"
    /\ conn' = [conn EXCEPT ![c] = "pool"]
    /\ adapterCtx' = [adapterCtx EXCEPT ![c] = FALSE]
    /\ pc' = [pc EXCEPT ![c] = "ready"]
    /\ UNCHANGED <<pool, owns, cfg, attempt, pinged, asked, cache,
                   ctx, poolVars, stuck>>

Cleanup(c) ==
    /\ pc[c] = "cleanup"
    /\ ClosePool(pool[c], "ormx")
    /\ pc' = [pc EXCEPT ![c] = "failed"]
    /\ UNCHANGED <<pool, owns, cfg, attempt, pinged, asked, conn, adapterCtx, cache,
                   ctx, stuck>>

-----------------------------------------------------------------------------
(* Client.Close: the statement cache first, then the pool if it is owned.  *)

CloseCache(c) ==
    /\ pc[c] = "ready"
    /\ cache' = [cache EXCEPT ![c] = IF @ = "open" THEN "closed" ELSE @]
    /\ pc' = [pc EXCEPT ![c] = "closing"]
    /\ UNCHANGED <<pool, owns, cfg, attempt, pinged, asked, conn, adapterCtx,
                   ctx, poolVars, stuck>>

CloseDB(c) ==
    /\ pc[c] = "closing"
    /\ IF owns[c] THEN ClosePool(pool[c], "ormx") ELSE UNCHANGED poolVars
    /\ pc' = [pc EXCEPT ![c] = "closed"]
    /\ UNCHANGED <<pool, owns, cfg, attempt, pinged, asked, conn, adapterCtx, cache,
                   ctx, stuck>>

-----------------------------------------------------------------------------
(* The surroundings.                                                       *)

Opening == {"new", "ping", "wait", "version", "restore", "cleanup"}

CtxDone(c) ==
    /\ pc[c] \in Opening /\ ctx[c] = "live"
    /\ ctx' = [ctx EXCEPT ![c] = "done"]
    /\ UNCHANGED <<clientVars, poolVars, stuck>>

CallerCloses(x) ==
    /\ x \in Shared /\ state[x] = "open"
    /\ ClosePool(x, "caller")
    /\ UNCHANGED <<clientVars, ctx, stuck>>

(* Only while somebody who is opening a Client may notice.                 *)
PoolStalls(x) ==
    /\ state[x] = "open" /\ \E c \in Clients : pool[c] = x /\ pc[c] \in {"ping", "version"}
    /\ stuck' = [stuck EXCEPT ![x] = ~@]
    /\ UNCHANGED <<clientVars, ctx, poolVars>>

Opened(c) ==
    \/ PingOk(c) \/ PingError(c) \/ PingAgain(c) \/ PingCanceled(c)
    \/ VersionOk(c) \/ VersionError(c) \/ Restore(c) \/ Cleanup(c)

Close(c) == CloseCache(c) \/ CloseDB(c)

Next ==
    \/ \E c \in Clients : Open(c) \/ ConfigOpenWithDB(c) \/ OpenWithDB(c)
    \/ \E c \in Clients : Opened(c) \/ Close(c) \/ CtxDone(c)
    \/ \E x \in Pools : CallerCloses(x) \/ PoolStalls(x)

Spec == Init /\ [][Next]_vars

(* Goroutines are scheduled, timers fire, and what can be answered or can  *)
(* give up does.  Nothing makes a stuck pool recover.                      *)
FairSpec == Spec /\ \A c \in Clients : WF_vars(Opened(c))

-----------------------------------------------------------------------------
(* The inductive invariant behind the properties.  Which pool a Client     *)
(* has, whose it is, and who may have closed it; and what is in the hands  *)
(* of a Client at each place.                                              *)

TypeOK ==
    /\ pc \in [Clients -> Opening \cup {"ready", "closing", "closed", "failed"}]
    /\ pool \in [Clients -> Pools \cup {NoPool}]
    /\ owns \in [Clients -> BOOLEAN]
    /\ cfg \in [Clients -> Configs]
    /\ attempt \in [Clients -> Nat]
    /\ pinged \in [Clients -> BOOLEAN]
    /\ asked \in [Clients -> Carried]
    /\ conn \in [Clients -> {"none", "adapter", "pool"}]
    /\ adapterCtx \in [Clients -> BOOLEAN]
    /\ cache \in [Clients -> {"none", "open", "closed"}]
    /\ ctx \in [Clients -> {"live", "done"}]
    /\ state \in [Pools -> {"absent", "open", "closed"}]
    /\ closer \in [Pools -> {"nobody", "ormx", "caller"}]
    /\ limit \in [Pools -> Nat]
    /\ stuck \in [Pools -> BOOLEAN]

PoolOfClient ==
    \A c \in Clients :
        /\ IF owns[c] THEN pool[c] = c ELSE pool[c] \in Shared \cup {NoPool}
        /\ pc[c] = "new" => pool[c] = NoPool
        /\ pc[c] \notin {"new", "failed"} => pool[c] # NoPool
        /\ pc[c] = "cleanup" => owns[c]

StateOfPool ==
    /\ \A c \in Clients :
        /\ ~owns[c] => state[c] = "absent"
        /\ owns[c] /\ pc[c] \notin {"failed", "closed"} => state[c] = "open"
        /\ owns[c] /\ pc[c] \in {"failed", "closed"} => state[c] = "closed"
    /\ \A x \in Shared :
        /\ state[x] # "absent" /\ closer[x] # "ormx"
        /\ state[x] = "closed" => closer[x] = "caller"

PlaceOfClient ==
    \A c \in Clients :
        /\ pc[c] \in {"version", "restore"} => conn[c] = "adapter"
        /\ pc[c] = "ready" => conn[c] = "pool" /\ ~adapterCtx[c]
        /\ pc[c] \in {"version", "restore", "ready"} => (cfg[c].ping => pinged[c])
        /\ pc[c] \in {"closing", "closed"} => cache[c] # "open"

LimitOfCaller ==
    \A x \in Shared :
        \/ limit[x] = CallerLimit
        \/ \E c \in Clients : pool[c] = x /\ limit[x] = asked[c]

Inv == TypeOK /\ PoolOfClient /\ StateOfPool /\ PlaceOfClient /\ LimitOfCaller

-----------------------------------------------------------------------------
(* A Client that Open or OpenWithDB returned can be used until it is       *)
(* closed: its pool is open unless the caller closed it, whatever becomes  *)
(* of the other Clients on the same pool; no statement runs on the startup *)
(* adapter, whose context is gone (initialization.go); and with            *)
(* StartupPing a ping was answered, whatever number of retries is          *)
(* configured (tests with huge and negative values, config_test.go).       *)
ReadyClientUsable ==
    \A c \in Clients : pc[c] = "ready" =>
        /\ state[pool[c]] = "open" \/ closer[pool[c]] = "caller"
        /\ conn[c] = "pool" /\ ~adapterCtx[c]
        /\ cfg[c].ping => pinged[c]

(* A borrowed pool stays the caller's: no opening that fails and no Close  *)
(* ever closes it, and its limit is the caller's or one it handed over     *)
(* with that pool: an option of the function OpenWithDB, which forces no   *)
(* default on it (config.go, OpenWithDB), or what the Config carried whose *)
(* method it called, defaults of NewConfig included.                       *)
BorrowedPoolKept ==
    \A x \in Shared :
        /\ closer[x] # "ormx"
        /\ \/ limit[x] = CallerLimit
           \/ \E c \in Clients : pool[c] = x /\ limit[x] = asked[c]

(* Nothing leaks: a pool that Open created is open only while its Client   *)
(* is being opened or can still be closed, and Close releases the prepared *)
(* statements of the Client on a borrowed pool as well.                    *)
NothingLeaks ==
    \A c \in Clients :
        /\ state[c] = "open" => pc[c] \notin {"new", "failed", "closed"}
        /\ pc[c] = "closed" => cache[c] # "open"

(* The startup context bounds the whole of Open and OpenWithDB, the wait   *)
(* for a connection included (config.go, Open): once it ends they return,  *)
(* even if the pool stays stuck.                                           *)
StartupObeysContext ==
    \A c \in Clients : (pc[c] \in Opening \ {"new"} /\ ctx[c] = "done") ~> pc[c] \notin Opening
=============================================================================
