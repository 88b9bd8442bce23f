# TLA+ models of ormx

ormx is a layer over GORM for MySQL: it builds the driver configuration, opens and
closes clients, runs callbacks in transactions with retries after deadlocks, checks
health, logs through zap, and pages through queries. This directory holds TLA+ models
of those parts, the TLC runs that check them, and proofs about them for TLAPS.

    tlc -config TxRetry.cfg MCTxRetry        # any pair of a cfg and its module
    tlapm TxRetry_proofs.tla                 # any *_proofs module

`PROJECT.json` lists the runs, the source lines every definition stands for, the
hazards the properties are aimed at, and one mutated definition per property under
which TLC finds that property violated.

## The system

| Part | Source | State it keeps | Operations |
|---|---|---|---|
| Transactions | `tx.go`, `retry.go` | loop counter and last error of a call; transaction and connection in database/sql and MySQL | `WithTx`, `WithReadTx`, `Transaction` |
| Backoff | `retry.go`, loops in `tx.go`, `config.go` | counter and wait in machine integers | `retryBackoff`, `pingWithRetry` |
| Client | `config.go`, `initialization.go`, `client.go` | `*sql.DB`, who owns it, its limits, the statement cache, the adapter used while opening | `Open`, `OpenWithDB`, `MustOpen`, `Close` |
| Configuration | `config.go`, `options.go`, `dsn.go` | `Config` values that share maps and a parsed DSN | `With`, `Clone`, options, `driverConfig`, `RedactedDSN` |
| Paginator | `paginator/` | private statement of a call, its snapshot of the projection, the guard | `Paginate` |
| Sort columns | `paginator/paginator.go` | the options, the cloned mapping | `buildOrder`, `WithSortMapping`, `WithDefaultSort` |
| DISTINCT | `paginator/projection.go` | what is left of the text | `hasDistinctPrefix` |
| Health | `health.go` | the deadline of a check, the connection of its ping | `HealthCheck`, `StatsSnapshot` |
| Logger | `zlogger/` | level, threshold, redaction, the cached sugared logger; copies of it | `New` with its options, `LogMode`, `Trace`, `Info`, `Warn`, `Error`, `callerSource` |

How they interact: a `Config` becomes a driver configuration, a pool and a `Client`;
transactions run on the pool of a `Client` and compete for its connections; the
paginator is handed a GORM handle, usually one of a `Client`, and reaches GORM through
scopes and a `StatementModifier`, i.e. callbacks GORM runs while it executes a query;
health checks and the retry observer call functions of the user; GORM calls the logger.

What is hard in it: goroutines that deadlock on rows while they hold connections;
a context that ends while another goroutine of database/sql rolls back underneath; a
COMMIT whose answer is lost; a rollback that fails; callbacks that panic or exit; pools
shared by several clients and closed by their owner; configuration values derived from
each other; scopes that register scopes and so run after the package's own; tables that
change between two queries; arithmetic at the ends of int.

What makes the parts correct:

- Transactions: the effect happens at most once however often the callback runs, the
  result tells whether it did, a retry starts from nothing, nothing is left behind
  without a reason, the observer is told of each retry, and every call returns.
- Backoff: waits bounded above and, under a positive limit and until the jitter overflows,
  below; as many tries as asked.
- Client: owned pools are closed on every path and borrowed ones on none; a borrowed pool
  keeps its limits unless others were handed over with it; a client that is returned works,
  and one that is closed starts nothing; the startup context bounds the startup.
- Configuration: a returned value never changes; the driver sees nothing stale.
- Paginator: a page is the slice it names, a total is the count, no read is unbounded,
  what is harmless is let through; page arithmetic never overflows or loses rows; calls that
  share a handle read what they were asked for, each its own.
- Sort columns: a key from outside is a field of the model and never more than a mapping
  allows; where the table of a query can be told, that field is found in it and, unless the
  projection is restricted, in no other table, and the order is total; no qualifier is missing
  from FROM. (Where the table cannot be told a key may name another one, see Findings.)
  DISTINCT: recognised behind comments, and nothing else is taken for one.
- Health: a report within the deadline that says up of nothing it has not seen, and
  leaves nothing behind. Logger: no bound value in a line, no line lost at a higher
  level, the caller named that is the program's.

## Modules

| Module | Models | Composes |
|---|---|---|
| `AtomicTx` | what `WithTx` promises: an outcome and an effect that happens at most once | |
| `TxRetry` | `tx.go` with database/sql, MySQL and the callback around it | implements `AtomicTx` |
| `TxRetry_proofs` | inductive invariant of `TxRetry` and the theorems from it | `TxRetry` |
| `RetryBackoff` | `retryBackoff` and both retry loops in `Width`-bit words | |
| `ClientLifecycle`, `ClientLifecycle_proofs` | opening and closing clients on owned and borrowed pools | |
| `DsnConfig` | configuration values, options, the driver configuration, redaction | |
| `PageMath`, `PageMath_proofs` | the pure page arithmetic, and lemmas about it | |
| `PageWalk` | a client that turns pages | `PageMath` |
| `Paginator` | the two queries of `Paginate`, GORM's rounds of scopes, the guard | `PageMath` |
| `SharedHandle` | which Statements the calls work on that share a handle | |
| `Paginator_proofs` | theorems about both | `Paginator`, `SharedHandle` |
| `CloseDuringTx`, `CloseDuringTx_proofs` | `Close` by any number of goroutines while others are in `WithTx` | extends `TxRetry` |
| `Settings` | `Config` values as Go values: variables, pointers, clones, Clients | |
| `SortOrder` | `buildOrder` and all it calls | |
| `DistinctPrefix` | `hasDistinctPrefix` over tokens, next to MySQL's reading of them | |
| `HealthCheck` | checks on one pool, with time | |
| `TraceLog` | the logger, its copies and its lines | |
| `CallerSource` | the walk up the stack | |
| `Configuration_proofs` | theorems about parts that are independent | `Settings`, `RetryBackoff`, `DsnConfig` |
| `PageParts_proofs` | the same | `PageWalk`, `SortOrder`, `DistinctPrefix` |
| `Observability_proofs` | the same | `TraceLog`, `CallerSource`, `HealthCheck` |
| `MCTxRetry`, `MCCloseDuringTx`, `MCClientLifecycle` | constants for TLC | the module of the same name |
| `MCPaginator` | constants for TLC | `Paginator`, `SharedHandle` side by side |
| `MCConfiguration` | constants for TLC | `DsnConfig`, `Settings`, `RetryBackoff` side by side |
| `MCPageParts` | constants for TLC | `PageWalk`, `SortOrder`, `DistinctPrefix` side by side |
| `MCObservability` | constants for TLC | `TraceLog`, `CallerSource`, `HealthCheck` side by side |

The last four check parts that do not interact in one run: `part` is chosen at the
beginning, an action of a part leaves the others as they are, and the state space is
the sum of theirs. A part that is not looked at has few initial states. In `MCPaginator`
the calls of `Paginator` are those of one goroutine, or of two.

Definitions keep the names of the functions they model (`isDeadlock`, `driverConfig`,
`orderIntact`, `clampPages`, ...). What is outside `src/` (database/sql, the driver, GORM,
MySQL, the callback, the caller) is marked external in the map and modelled from how
the code uses it.

### TxRetry

`pc` is where a goroutine is in `withTxRetry` and `execTx`; `attempt`, `maxRetries`, `err`
and `result` are the locals and the return value, `err` as the set of causes `errors.Is`
can find. `Call` is the entry of `WithTx`: nil callbacks, options on the defaults, negative
retry counts ignored. `BeginOk`/`BeginError`, the `Fn*` actions, `Rollback*` and `Commit*`
are the branches of `execTx`; `Decide` is the loop of `withTxRetry` after it, the observer
included; `TimerFires` and `BackoffCanceled` are the two cases of its `select`, both
possible when both are ready.

Around it: `tx[p]` is the `sql.Tx` (open, or being rolled back by database/sql because its
context ended) and stands for a held connection; `srv` is one MySQL transaction per
attempt; `owner` are its row locks. 1213 rolls the whole transaction back, 1205 only the
statement; both may come from a callback, 1213 only on a cycle of waiters. A broken
connection leaves the server transaction alive (`LoseSession`), a lost COMMIT leaves it in
doubt, and `ServerReap` ends either later. `CtxDone` ends the caller's context, `TxTimeout`
only that of one transaction (`WithDefaultTransactionTimeout`). A commit under an ended
context returns without touching the transaction, as database/sql does.

Assumed of the callback: it returns the errors of its statements and neither commits nor
rolls back by itself. An observer that panics is left out. Parameters: `RetryLimit` bounds
the retries any call asks for.

### CloseDuringTx

`TxRetry` with a pool that may be closed. `Close` comes from any number of goroutines in the
middle of anything and closes the pool of a Client that owns it; `BeginOpen` and `BeginFails`
are `BeginTx` on an open and on a closed pool. database/sql refuses new transactions on a
closed pool and wakes up who waits for a connection, but lets running transactions end. The
cache of prepared statements, which `Close` releases first, is in `ClientLifecycle`; statements
that a running callback prepares after that are in no model.

### RetryBackoff

One loop stands for both `withTxRetry` and `pingWithRetry`: try, give up at the limit, sleep,
count. `Shift` drops bits like `<<`, `Wrap` is two's complement. Base waits and limits may be
anything a word holds, because `Config` fields reach `pingWithRetry` unchecked
(`WaitAssumption`). `JitterOverflows` is the one case without a guard in the code: a wait above
two thirds of the range, 194 years, below a limit that is still higher, to which the jitter is
added (`retry.go:39`). The result may be negative then, and the properties say so.

### ClientLifecycle

Every client is opened once by its own goroutine, with `Open` (a pool named after the
client), or with `OpenWithDB` (a pool in `Shared`), and closed once. Both are functions of the
package and methods of `Config`, and differ in the pool settings they end up with: a Config of
`NewConfig` carries the defaults, which its methods apply to a borrowed pool too
(`ConfigOpenWithDB`), while the function `OpenWithDB` starts from no pool settings and applies
those of its options only. `asked` remembers what the caller handed over. `Start` is
`openWithSQLDB` up to the ping; `Ping*` is `pingWithRetry`; `VersionOk`/`VersionError` is
`gorm.Open` through `initializationPool`; `Restore` takes the adapter out; `Cleanup` is the error path of
`Config.Open`. `conn` is what statements run on, `adapterCtx` whether the adapter still holds
the startup context. A pool that is `stuck` answers nothing; only a context gets an
operation out of it. The four pool settings behave alike and are one (`limit`).

### DsnConfig

`DsnWith` clones a `Config` and opens it for options, `Return` seals it. `dsnHeap` holds the
`SystemVariables` maps, to which configs hold references; `parsed` holds the driver
configurations of the parsed DSNs, shared by clones. `configError` and `driverConfig` follow
the early returns and the overlay in `dsn.go`. `history` remembers what was asked for and
`sealed` what a config was worth when it was returned; only properties read them. An address
is a pair of host and port or a socket path; strings are members of small sets. Fields that
are copied without a condition are left out, and so is `Collation`. `SplitHostPort` is the part of
`parseDSNConfig` that takes host and port from a TCP address and leaves them empty for any
other; an empty host or port is no argument of an option (`HostsAssumption`).

### Settings

`var` holds variables of type `Config`, `heap` what their pointers point to: `<<g, f>>` is the
cell allocated for field f when the g-th `Config` was made. `With` clones, then applies an
option; `Assign` is Go's assignment, which shares the cells; `WriteThrough` and `SetField` are
writes by the program. `Open`, `OpenWithDB` and `Config` (of a Client) clone as `openWithSQLDB`
and `Client.Config` do. `kin` and `raw` say where a value came from; only properties read them.
`DsnConfig` has what belongs to MySQL, this module the pool, the ping and GORM's settings.

### PageMath, PageWalk

`PageMath` has the operators of `paginator.go` with `MaxInt` (int) and `MaxTotal` (int64) as
parameters. In `PageWalk` a client asks for any page and size in the range of an int and
any total, then for page after page while the total changes by at most one.

### Paginator

A call is `Start` (entry checks, private session, projection, order, size), `TotalGiven`,
`TotalRequired` or `Count` (`resolveTotal`, `resolveGroupedTotal`), and `Find`. Another session
may `Write` between the two queries. A statement is a record of what the clauses say;
`Limit`, `Offset` and `OrderBy` merge as GORM's clauses do (an offset of 0 changes nothing, a
`Reorder` drops what was there, an expression hides the columns). `RunScopes` applies a
round of scopes: the caller's with the package's trailing scope behind them, then what scopes
registered themselves. `Rowsets` are all results MySQL may give: every order the ORDER BY
allows. `Asked`, the reference of `PageIsSlice` and `TotalIsCount`, is computed from the
handle, the scopes and the table without any of the statement machinery.

The call works on a copy of the handle's Statement, which is why no action of this module
writes to `handle`. That the copy is one, and stays one, is in `SharedHandle`.

Scopes do the same in both queries, as `paginator.go` requires of them. The direction is
ascending, WHERE is one fixed condition, the model has a primary key, and sort columns
arrive trusted: `SortOrder` has them.

### SharedHandle

Statements are cells in memory, and a `*gorm.DB` is a reference to one with the number GORM
calls `clone`, which says whether the next chained call works in place, in a new cell or in a
copy (`instanceCell`, `instanceOf`). The handle may come straight from `gorm.Open`, from `Session`
or from a chain, and its owner may chain onto it between calls (`OwnerChains`). A call is
`Enter` with `privateSession`, which copies the Statement at once because it hands `Session` a
context; `ChooseModel` (`Model(new(T))` if there is none); `ParseModel`, the parse in `schemaOf`,
which writes the name of the table; `CountQuery` and `PageQuery`, which read it. The name sticks
to the Statement it is written to: without the copy the next call with the handle would read
the table of the last one. Every call of the two goroutines has a type of its own.

### SortOrder

A column is a sequence of segments, `<< >>` the empty string. The developer builds the options
from a map (`NewOptions`), may go on changing it (`ChangeMap`), and a request is served
(`PaginateSorted`). `explicitSort`, `allowsRemoteSort`, `column`, `sameColumn`, `qualifierTable` and
`bareTableExpr` are the functions of the same names, early returns included. A query is a
model with or without a Table expression and Joins; `Extracted` and `StatementTable` are what
GORM remembers of it, and `Replaced` says when GORM puts the model's table, named with its
database, in place of the expression. `Refers` is how MySQL resolves a column among the tables of FROM.
`Decidable` excludes the expressions of which `paginator.go:19-20` says that the table cannot
be told, and an alias that is the name of the model's table, which the code takes for that
table. On these `RemoteKeyConfined` says only that a key from outside is the name of a field
of the model; `RemoteKeyOfModel`, that it is not one of another table, is violated there. On a
restricted projection (`DISTINCT`, `GROUP BY`) the column gets no qualifier, so that a joined
table may have one of that name: `paginator.go:43-45` leaves this to the caller. `DefaultOrder`
is the order of the same request with a key of no effect.

### DistinctPrefix

A text is a sequence of tokens; each turn of the loop is a step (`VersionComment`, `Comment`,
`LineComment`, `Keyword`). `Reading` is where MySQL's lexer stands after each token of the same text,
with version comments as code or, on an older server, as comments; `IsDistinct` is whether some
server selects DISTINCT. `Plain` and `Lenient` name where the two may differ. A DISTINCT may be
missed with an option of SELECT, with a comment or a name directly behind the keyword, with a
comment inside a version comment, and where a carriage return without a newline ends a line
comment for the package only (`ReturnInComment`). Something else may be taken for one with
Unicode spaces, with such a carriage return, with dashes without a blank, and with digits in a
version comment that are not its version.

### HealthCheck

Checks are `Start` (deadline derived or not), the ping (`Acquire`, `PingAnswered`, `PingError`), the
probe (`Probe*`) and `Finish`; `Expire` is the end of a context, `Tick` the passing of time. Around
them others hold connections as long as they like, the server hangs, the pool is closed.
A probe may use the pool, obey its context or not, fail or panic. `derived` stands for the
context a check made itself, with its deferred cancel.

### TraceLog

The options of `New` are applied in any order (`With*`), `New` caches the sugared logger, `LogMode`
makes copies, `Trace` and `Message` write lines. `severity` has the cases of `Trace` in their order,
`errorFields` the redaction; a line is what its fields show and which logger it reaches.

### CallerSource

The stack is any sequence of frames; `Look` is one turn of the loop in `callerSource`. A
function name is the module it begins with and what follows, so that names which only
begin alike are told apart.

## Runs

| Run | Checks | States | Shows |
|---|---|---|---|
| `tx_retry` | `EffectAtMostOnce` `ResultTellsEffect` `DeadBeforeRetry` `LeftoversExplained` `RetryAccounting` `ImplementsAtomicTx` `CallsReturn` | 409 thousand | two goroutines, two rows in opposite orders, up to one retry |
| `close_during_tx` | `ClosedClientIsFinal` `ReturnsAfterClose` | 490 thousand | one closer, two transactions with a retry, one connection, owned and borrowed pool |
| `client_lifecycle` | `ReadyClientUsable` `BorrowedPoolKept` `NothingLeaks` | 4.0 million | two clients in every configuration, functions and methods, one shared pool |
| `client_startup_live` | `StartupObeysContext` | 6 thousand | one client, a pool that may stay stuck |
| `configuration` | `SealedConfigsFixed` `FreshTLS` `ErrorsHaveReasons` `BuildsAsShown` (`DsnConfig`); `ClientFixed` (`Settings`); `SleepWithinBounds` `TriesAsAsked` `WaitsNeverShrink` (`RetryBackoff`) | 455 thousand | two configs and three options; two variables, a Client and three Configs; 6-bit words |
| `paginator` | `PageIsSlice` `TotalIsCount` `NoUnboundedRead` `HarmlessScopesPass` `PagesDisjoint` (`Paginator`); `OwnQueries` (`SharedHandle`) | 1.5 million | one call with every scope and nested scope and one write, or two calls; two goroutines with two types on one handle |
| `paginator_parts` | `PageHasRows` `PagesReachEnd` `PagesAdjoin` (`PageWalk`); `RemoteKeyConfined` `TotallyOrdered` `QualifierInFrom` (`SortOrder`); `DistinctRecognised` (`DistinctPrefix`) | 544 thousand | ints up to 15 and totals up to 63; every key, mapping and shape of FROM; texts of up to four tokens, and longer ones |
| `observability` | `ValuesHidden` `RaisingKeepsLines` (`TraceLog`); `InnermostCaller` (`CallerSource`); `ReportOnTime` `UpWasSeen` `CheckReturns` (`HealthCheck`) | 403 thousand | three options and a copy; stacks of four frames; two checkers, one connection |
| `unix_address`, `backoff_overflow`, `sort_order_tables`, `sort_order_remote` | `UnixNeedsAddress`, `OverflowGivesLimit`, `UndecidableUnqualified`, `RemoteKeyOfModel` (violated) | | see Findings |

Why the bounds are enough to be of interest:

- Two goroutines with two rows are the smallest deadlock; one retry gives a first, a
  repeated and a last attempt. `tx_retry` leaves it at the default (its argument is -1),
  `close_during_tx` raises a default of 0. The proofs of the safety properties cover any
  number of each and every argument. In `tx_retry` a goroutine waits for rows only; with one connection, in
  `close_during_tx`, for the connection the other one holds, and it holds it through a retry.
- Two clients on one pool is the smallest sharing; -1 and 1 ping retries are the cases of `max`.
- Three options make: a DSN, an override, and an override of that, or a clone in between.
- 6 bits leave room for all relations of base wait, limit and overflow, and the loop runs
  up to the largest int, 31.
- 15 and 63 keep the two word sizes apart, and every page, size and total is tried.
- Three rows, two with equal keys, one with NULL for what is counted, and pages of one or two
  rows: ties within and across pages, a last page that is short, a clamp of the page size
  (default 3, limit 2).
- Two goroutines, two types and a table of the caller's, in calls that never stop coming: a
  name that stuck would be read by the next call of another type.
- With Close, a row for one of the two calls makes the other one wait for the connection
  only, and one closer may come before, between and after any two steps; more closers are
  in the proofs.
- Three Configs are a value, one derived or assigned from it, and the snapshot of a Client.
- The tables `widgets` and `others` share two columns, `shard` has a composite key, `slim`
  lacks the key: every verdict of MySQL (one, none, several tables) can occur. `MCQueries`
  has each shape with and without Joins, restricted and not.
- Four tokens hold a comment with something in it before the keyword; the longer texts put
  three more tokens behind every opening sign with something inside.
- A default of 1 tick and deadlines of none, 0 and 2 lie below, at and above each other.
- Four frames with a depth of three leave one that is not looked at.

Deadlock is checked in `tx_retry` and `close_during_tx`, which have a step for
the end (`Terminated`). The other models stop where their calls are done.

### Fairness

- `TxRetry`: a goroutine is scheduled, a timer fires, callback, server and driver answer (a
  blocked statement ends in 1205 at the latest, which is InnoDB's lock wait timeout): weak
  fairness. `BeginOk` is strongly fair because database/sql serves waiters in order, so one
  that waits for a connection gets one if they are freed again and again. Nothing makes a
  context end, a callback fail or a callback return before it took its rows.
  `CallsReturn` excepts runs in which a callback left by Goexit: its connection stays out
  until a context ends, and nothing obliges one to.
- `ClientLifecycle`: what can be answered, or can give up, does. A stuck pool need not recover.
- `CloseDuringTx`: that of `TxRetry`, and who waits for a connection of a closed pool fails,
  because `DB.Close` closes the channels of the waiters. Closers need not come.
- `HealthCheck`: time passes however many checks come and go in between (strong fairness of
  `Tick`), a timer that is due fires and the code after it runs. That a connection becomes
  free, that the server answers or that a probe returns is not assumed.

## Proofs

Every theorem is for every value of the constants that the named assumptions allow. Of the
properties the runs check, these are proved:

| Module | Proved for every instance |
|---|---|
| `TxRetry_proofs` | `EffectAtMostOnce` `ResultTellsEffect` `DeadBeforeRetry` `LeftoversExplained` `RetryAccounting` `ImplementsAtomicTx` |
| `CloseDuringTx_proofs` | `ClosedClientIsFinal`, and with `Close` at any moment `EffectAtMostOnce` `ResultTellsEffect` `DeadBeforeRetry` `LeftoversExplained` `RetryAccounting` `ImplementsAtomicTx` |
| `ClientLifecycle_proofs` | `ReadyClientUsable` `BorrowedPoolKept` `NothingLeaks` |
| `Configuration_proofs` | `ClientFixed` `SleepWithinBounds` `TriesAsAsked` `WaitsNeverShrink` `SealedConfigsFixed` `FreshTLS` `ErrorsHaveReasons` `BuildsAsShown` |
| `PageParts_proofs` | `PageHasRows` `PagesReachEnd` `PagesAdjoin` `RemoteKeyConfined` `TotallyOrdered` `QualifierInFrom` `DistinctRecognised` |
| `Paginator_proofs` | `PageIsSlice` `TotalIsCount` `NoUnboundedRead` `HarmlessScopesPass` `PagesDisjoint` `OwnQueries` |
| `Observability_proofs` | `ValuesHidden` `RaisingKeepsLines` `InnermostCaller` `ReportOnTime` `UpWasSeen` |

`TxRetry_proofs` is for every set of goroutines and rows, every plan, pool size and number of
retries (`ConstantsAssumption`). `EffectAtMostOnce`, `ResultTellsEffect` and `DeadBeforeRetry` are
not inductive: they hold because of what the control state says of the server. `Inv` says it:
attempts come in order and within the limit; sessions of other attempts are unused or undone
(`OtherSessionsDead`); in each `pc` the current session is in one of a few states
(`SessionOfPc`), narrower while database/sql has the transaction (`SessionOfTx`); a result
`ok` goes with a committed session (`ResultOfPc`); only sessions that may be alive own locks
(`LocksOfTheLiving`). At most one attempt can be committed or in doubt because the others
are dead; a retry starts clean because `backoff` is only reached with a dead session. One
lemma per conjunct, one step per action.

`LeftoversExplained` needs besides that database/sql rolls back on its own only after the
context ended (`ClosingAfterCtx`); `RetryAccounting` needs what the observer has heard in each
place, before the call has a result (`EventsOfPc`): each is inductive together with `Inv`.

The refinement maps a call to its outcome, read off `pc`, `result` and `err`, and to its effect:
a committed session of any attempt. Initial states map to initial states. A commit maps to the
abstract effect if it happens while its answer is under way, and the return of a call to the
abstract end; each other action leaves outcome and effect of every goroutine as they are
(`OthersKeep`, then one step per action). What makes the mapping work is in `Inv`: a call that
has not returned has no effect yet, and nil means one (`EffectOfPc`).

`CloseDuringTx_proofs`: `Close` adds no step to the variables of `TxRetry` and takes only `BeginOk`
on a closed pool away (`CloseNextIsNext`), so that what is proved of `TxRetry` holds of Clients
that are being closed, for any number of closers. `ClosedClientIsFinal` needs the invariant that
the pool is closed exactly when a Close of its owner has returned (`OwnerKeepsPool`); then only
`BeginFails` moves a goroutine on from `BeginTx` (`LeavesBegin`), with an error that `isDeadlock`
does not take for a reason to try again, and no other action takes a connection
(`NoConnectionTaken`).

`ClientLifecycle_proofs` is for any number of Clients, shared pools, limits and retries
(`ClientAssumption`). `Inv`, which `ClientLifecycle` states, adds to the properties whose pool
it is that a Client has at each place (`PoolOfClient`), that an owned pool is open exactly
until its Client failed or was closed and a shared one is closed by its caller only
(`StateOfPool`), and what a Client has in its hands while it is opened (`PlaceOfClient`).
`BorrowedPoolKept` holds because only owned pools reach `ClosePool`, which takes that a Client
in `cleanup` owns its pool and that Clients own the pool of their name: without it one Client
might close the pool of another. Its other half, `LimitOfCaller`, rests on what the function
and the method `OpenWithDB` apply: `With` on no pool settings gives what was handed over.

`Configuration_proofs`, of `Settings`: `SharedByAssignmentOnly`, `ClientFixed` and
`WaitsUsable` for any number of variables, Clients, fields and Configs. The argument is
ownership: a `Config` is made on cells nobody has (they are of generation `made + 1`, and
everything in use is below), only assignment hands cells on, and no variable reaches the
cells of a Client (`ClientOwns`). `ClientFixed` alone is not inductive: a write through a
variable would disturb it. Of `RetryBackoff`: `SleepWithinBounds` and `TriesAsAsked` for every
width and any base wait and limit in it. Wrapping lands in the word, so a wait that passes the
two tests lies between zero and the limit; with jitter it is exact and above zero unless
`JitterOverflows`, and never above the limit, which is the last thing `retryBackoff` looks at.
`WaitsNeverShrink` for every width, too, with the same exception: a shift that fits is twice
the one before it (`ShiftDoubles`), and a wait is at most three halves of its shift. Powers
of two are the recursive function `Power`, because the provers know nothing of `^`; that it is
what its recursion says is shown by a least counterexample (`PowersExist`). `WaitOfAttempt`
says which attempt the last wait was for.

Of `DsnConfig`, for any Configs, DSNs and arguments of the options (`SlotsAssumption`,
`DsnsAssumption`: different DSNs have different names): all four of its properties. `DsnInv` says
who owns what: the map of a Config is its own or none, and the parsed state it refers to is its
own or that of a Config that is sealed, so that nothing a step writes is read by a sealed
Config. `SealedConfigsFixed` alone is not inductive, because nothing in it keeps a Config under
construction from writing to shared state. The other three follow from what the fields
come from (`Explained`): the parsed state is that of the last DSN, the charset is the DSN's
until an option changes it, and host and port are there unless a DSN without them took
them away. `FreshTLS` is then about `rebase`: the driver derives TLS only where there is none
yet, and `rebase` keeps what there is only while name and endpoint are the DSN's.

`PageParts_proofs` proves, of `PageWalk`, `SizeBounded`, `PageHasRows`, `PagesReachEnd` and `PagesAdjoin` for
every range of int and int64 and every default size. `Inv` adds that an answer was computed
by `Paginate` (`Computed`). The lemmas, in `PageMath_proofs`, are about division: rounding up
needs as many pages as reach the last row (`PagesNeeded`), the clamp keeps the last OFFSET
within an int (`TotalPages`), and the OFFSET of a page that exists is exact (`OffsetExact`).

Of `SortOrder`, for any queries, columns, maps, keys and defaults (`QueriesAssumption`: the
names in FROM differ, and a query has the columns of its model): `RemoteKeyConfined`,
`TotallyOrdered` and `QualifierInFrom`. The invariant `SortInv` says that an answer is
`buildOrder` of the request and the options; the rest is about that function. `QualifierNamed`
goes through the cases of GORM's reading of a Table expression and finds every qualifier in
FROM; `QualifierTold` shows that where the table can be told the qualifier is the name of the
first table; so a field of the model that is qualified by it is found there and nowhere else
(`FieldFound`), and every column of the key, appended or recognised in the sort column, is.

Of `DistinctPrefix`, for texts of any length (`TextsAssumption`): `DistinctRecognised`, and
`EveryTurnShortens`, which says that the loop ends on every text. The property alone is not
inductive, because what is left of a text says nothing of what was cut off. `ScanInv` says that
the loop has read a prefix, and where MySQL's lexer stands behind it (`Scanned`, `Follows`): in code;
in a line comment that the next token ends; or, as far as that is allowed, at something that
rules a DISTINCT out. For a plain text this is so whatever version comments a server skips; for
a text that is not lenient, if it skips those the loop has passed, which is how a server is
found that agrees with a "yes".

- That the lexer stands anywhere, i.e. that the recursive function `Reading` is what its
  recursion says, is shown by a least counterexample (`ReadingsExist`). So is `Segment`: a set of
  states that no token of a piece of text leaves contains the state behind the piece if it
  contains the one before it.
- What the loop cuts off in a turn is blanks, one sign, an inside and its end. One lemma for
  each says which states it leads to (`SpacesRead`, `CommentBegun`, `CommentEnded`, `LineBegun`,
  `LineEnded`, `VersionBegun`, `VersionEnded`), most of them uses of `Segment`.
- A verdict ends the loop: `NoKeyword` and `HiddenInComment` are for "no", `KeywordSelects` and
  `VersionSelects` for "yes". One lemma per action puts these together.

`Paginator_proofs` is for any finite table, keys, handles, number of callers, parameters, and
scopes of any number and length (`TableAssumption`, `HandleAssumption`, `CallAssumption`). It
has three layers.

- Scopes: what a round leaves of a statement is proved by induction on its edits. The
  induction is by a least counterexample (`Least`, from the library's `WFMin`), because the
  library's own rules take an operator as a parameter. `Rounds` states it once, for a
  family of sets of statements; `RoundSet`, `HarmlessRound` and `AddingRound` are its uses.
- The database: a statement that passed its guard answers with a slice of an enumeration of
  what was asked for (`PageAnswer`) or counts it (`CountAnswer`), and there is only one
  enumeration in a strict order (`OrderedOnce`, the least position at which two would
  differ). That the order is strict is where `buildOrder` appends the primary key.
- The calls: `Inv` says of each what it has at its place (`Good`), among it that the statement
  is still the one of the handle, that its page exists for its total, and that the items are
  the page of an enumeration of the table, which is still the same if nobody wrote.
  `PageIsSlice` alone is not inductive: nothing in it says what a call in `data` will read.
  One lemma per action; the guards come in twice, for what they let through and, with
  `Harmless`, for what they refuse.

Of `SharedHandle`, for any number of goroutines, models and tables (`GoroutineAssumption`):
`OwnQueries`. `HandleInv` says that the Statement of the handle is what its owner chained, that
a call works on a cell of its own, and what that cell has at each place: the chain, then the
model of the call, then the table that parsing it left. The property alone is not inductive:
what a query read says nothing of what the next one finds. Cells of different goroutines
are apart (`CellsApart`), so a step of one leaves what another has (`OneCall`).

`Observability_proofs`, of `TraceLog`: `ValuesHidden`, `SlowIsSeen`, `RaisingKeepsLines`
and `LinesReachLogger` for any levels, thresholds and numbers of options,
copies and lines. The invariant ties the copies to the options they come from and the last
line to the logger that wrote it. Of `CallerSource`: `InnermostCaller` for every stack and
depth; the frames the loop has passed are internal, and internal is exactly what may not be
named (`InternalOrCaller`). Of `HealthCheck`: `ReportOnTime` and `UpWasSeen` for any number of
checkers and others, any deadlines and probes (`TimeoutsAssumption`). Time
spent and time left together are never more than the limit (`TimeLeft`), and in each place a
check has what it must have seen (`PlaceOfCheck`).

Theorems whose property is in no run (`SizeBounded`, `OwnerKeepsPool`,
`SharedByAssignmentOnly`, `WaitsUsable`, `SlowIsSeen`, `LinesReachLogger`, `EveryTurnShortens`,
the types and invariants) hold for every value of the constants by proof alone.

Only model-checked is liveness under fairness (`CallsReturn`, `ReturnsAfterClose`,
`StartupObeysContext`, `CheckReturns`), which needs ENABLED and is out of the prover's reach. All
other properties of passing runs are proved.

## Findings

- `WithDSN` with a TCP DSN and then `WithNetwork("unix")` builds, with host:port as the socket
  path, because `address()` (`dsn.go:44`) returns the Addr of the DSN first; `options.go:22` and
  `dsn.go:22` say that without `WithAddress` it fails with `ErrAddressRequired` (`unix_address`).
- `retryBackoff` takes a shift that overflows to a positive value below the limit for a wait;
  `retry.go:31-32` and `CHANGELOG.md:225` say that overflow gives the limit (`backoff_overflow`).
  In 64 bits: base 2^32+1 ns, limit one hour, attempt 32 sleeps about 4.3 to 6.4 s. The
  bounds of `SleepWithinBounds` hold nevertheless, and the defaults never get there.
- `qualifierTable` qualifies the primary key by whatever GORM read off the end of a Table
  expression with several tables, although `paginator.go:20` says that such expressions are never
  used to qualify: `Table("widgets w, others o")` sorts by `o.id` (`sort_order_tables`).
- For the same reason `allowsRemoteSort` (`paginator.go:611`) accepts a key from outside that names
  the other table: `o.id` on `Table("widgets w, others o")`, `others.id` on
  `Table("widgets JOIN others")`. `paginator.go:31-34` says that without `WithSortMapping` a key is
  a field of the model and one of another table is dropped (`sort_order_remote`).
- A fifth one is in no run of its own: the lone carriage return that ends a line comment for
  `projection.go:215` and not for MySQL, see below.

## Not modelled

- `countColumnName`, which reads the columns of a chained `Distinct`: in `Paginator` its verdict
  is a value of the statement.
- A DISTINCT that `hasDistinctKeyword` leaves to the caller: with a comment or a quoted name
  right behind it, or with an option of SELECT (`SQL_NO_CACHE`) in front. MySQL takes these for a
  SELECT DISTINCT; `Plain` excludes them from `DistinctRecognised`.
- Neither is a DISTINCT recognised behind a line comment with a lone carriage return in it:
  `projection.go:215` ends the comment there and reads on, MySQL reads on behind the next newline.
  `CHANGELOG.md:76` says that comments in front are skipped. With `# a\r b` and a newline in
  front of `DISTINCT x` the total is counted without the DISTINCT instead of
  `ErrTotalRequired`. `Plain` excludes it, too.
- Statements that a running callback prepares after `Close` has released the cache.
- The sum of wait and jitter that overflows (`JitterOverflows`) is modelled, and excepted from
  `SleepWithinBounds` and `WaitsNeverShrink`: it takes a base wait of decades.
- Fields that are copied from `Config` to the driver, to GORM or to the dialect as they are
  (`dialectorConfig`, most of `gormConfig`), and `Collation`: one assignment each.
- The wording of log lines and the text of SQL; the counters of `StatsSnapshot`.
- A callback that commits by itself, an observer that panics.
- `doc.go`, `version.go`, build files: no behaviour.
- The detail of GORM's SQL building and of MySQL beyond what the properties tell apart.

## Plan

Done, in this order: `AtomicTx` and `TxRetry`; `ClientLifecycle`; `DsnConfig`; `RetryBackoff`;
`PageMath` and `PageWalk`; `Paginator`; `SortOrder`; `DistinctPrefix`; `HealthCheck`;
`CloseDuringTx`; `TraceLog`; `Settings`; `CallerSource`; `SharedHandle`; the proofs above.

Open: what `countColumnName` makes of the parts of a chained `Distinct`, and the settings under
"Not modelled" if they come to be more than one assignment each.
