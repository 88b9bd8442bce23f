------------------------------ MODULE TxRetry ------------------------------
(***************************************************************************)
(* Client.WithTx (tx.go) called by several goroutines on one Client.       *)
(*                                                                         *)
(* A call runs attempts one after the other: it begins a transaction on a  *)
(* pooled connection, runs the callback fn, commits or rolls back, and     *)
(* after a deadlock (1213) or a lock wait timeout (1205) sleeps and tries  *)
(* again.  Around the code stand three parties that are not in the         *)
(* repository and are modelled from how it uses them:                      *)
(*   - database/sql: the bounded pool, and for every transaction the       *)
(*     goroutine that rolls it back when its context ends (tx = "closing");*)
(*   - MySQL: one transaction per attempt with the row locks it holds.     *)
(*     1213 aborts the whole transaction, 1205 only the statement;         *)
(*   - the callback fn: takes the rows of Plan[p] one by one, may return   *)
(*     an error, panic, or leave by runtime.Goexit.  It returns the errors *)
(*     of its statements, and does not end the transaction itself.         *)
(***************************************************************************)
EXTENDS Integers, Sequences, FiniteSets

CONSTANTS
    Procs,              \* goroutines, each calling WithTx once
    Rows,               \* rows the callbacks lock
    Plan,               \* Plan[p]: the rows fn of p locks, in order
    MaxOpen,            \* Pool.MaxOpenConns
    RetryArgs,          \* arguments of WithMaxRetries, negative ones included
    DefaultMaxRetries,  \* defaultMaxRetries (3 in the code)
    RetryLimit          \* no call is asked for more retries than this

ASSUME ConstantsAssumption ==
    /\ Plan \in [Procs -> Seq(Rows)]
    /\ MaxOpen \in Nat \ {0}
    /\ RetryLimit \in Nat
    /\ DefaultMaxRetries \in 0..RetryLimit
    /\ RetryArgs \in SUBSET Int
    /\ \A n \in RetryArgs : n <= RetryLimit

Attempts  == 0..RetryLimit
Sessions  == Procs \X Attempts      \* server transactions, one per attempt
NoSession == <<>>

(* What lastErr can be unwrapped to: errors.Join and %w keep every cause.  *)
(* "ctx" is the context's error, or sql.ErrTxDone that came of its end.    *)
Causes == {"lock", "other", "ctx", "rollback", "commit", "nilfn"}

VARIABLES
    pc,         \* where the goroutine is in WithTx
    maxRetries, \* of the call
    attempt,    \* loop variable of withTxRetry
    step,       \* rows of its plan the running fn has locked
    err,        \* causes in the error execTx last returned, or fn returned
    panicking,  \* the deferred recover of execTx has a panic in hand
    result,     \* how the call ended
    events,     \* calls of TxRetryObserver
    ctx,        \* context of the current sql.Tx
    tx,         \* the sql.Tx of the current attempt; not "none": holds a connection
    srv,        \* state of every server transaction
    owner       \* owner[r]: the server transaction that holds the lock on row r

procVars == <<pc, maxRetries, attempt, step, err, panicking, result, events>>
vars == <<procVars, ctx, tx, srv, owner>>

SrvStates == {"unused", "active", "indoubt", "committed", "undone"}

TypeOK ==
    /\ pc \in [Procs -> {"call", "begin", "fn", "rollback", "commit", "backoff", "returned"}]
    /\ maxRetries \in [Procs -> Attempts]
    /\ attempt \in [Procs -> Attempts]
    /\ step \in [Procs -> Nat]
    /\ err \in [Procs -> SUBSET Causes]
    /\ panicking \in [Procs -> BOOLEAN]
    /\ result \in [Procs -> {"none", "ok", "err", "panic", "goexit"}]
    /\ events \in [Procs -> Nat]
    /\ ctx \in [Procs -> {"live", "expired", "done"}]
    /\ tx \in [Procs -> {"none", "open", "closing"}]
    /\ srv \in [Sessions -> SrvStates]
    /\ owner \in [Rows -> Sessions \cup {NoSession}]

Init ==
    /\ pc = [p \in Procs |-> "call"]
    /\ maxRetries = [p \in Procs |-> DefaultMaxRetries]
    /\ attempt = [p \in Procs |-> 0]
    /\ step = [p \in Procs |-> 0]
    /\ err = [p \in Procs |-> {}]
    /\ panicking = [p \in Procs |-> FALSE]
    /\ result = [p \in Procs |-> "none"]
    /\ events = [p \in Procs |-> 0]
    /\ ctx = [p \in Procs |-> "live"]
    /\ tx = [p \in Procs |-> "none"]
    /\ srv = [s \in Sessions |-> "unused"]
    /\ owner = [r \in Rows |-> NoSession]

-----------------------------------------------------------------------------
(* The server.                                                             *)

Sess(p) == <<p, attempt[p]>>

(* The transaction of session s ends in state `to` and its locks go.       *)
EndSession(s, to) ==
    /\ srv' = [srv EXCEPT ![s] = to]
    /\ owner' = [r \in Rows |-> IF owner[r] = s THEN NoSession ELSE owner[r]]

(* The connection broke: what was sent may or may not have been executed,  *)
(* and the server finds out later.                                         *)
LoseSession(s, to) == srv' = [srv EXCEPT ![s] = to] /\ owner' = owner

NextRow(p) == Plan[p][step[p] + 1]

Blocked(p) ==
    /\ pc[p] = "fn" /\ tx[p] = "open" /\ srv[Sess(p)] = "active"
    /\ step[p] < Len(Plan[p])
    /\ owner[NextRow(p)] \notin {NoSession, Sess(p)}

WaitsFor(p, q) == Blocked(p) /\ owner[NextRow(p)] = Sess(q)

(* p is on a cycle of the wait-for graph (every waiter waits for one row). *)
Deadlocked(p) ==
    \E S \in SUBSET Procs :
        /\ p \in S
        /\ \A q \in S : (\E r \in S : WaitsFor(q, r)) /\ (\E r \in S : WaitsFor(r, q))

(* A server transaction no client-side transaction drives any more.        *)
Orphan(s) == ~(s[2] = attempt[s[1]] /\ tx[s[1]] # "none")

(* The server notices that the client of an orphan is gone.  A COMMIT      *)
(* whose answer was lost may still be executed first.                      *)
ServerReap(s) ==
    /\ Orphan(s)
    /\ \/ srv[s] \in {"active", "indoubt"} /\ EndSession(s, "undone")
       \/ srv[s] = "indoubt" /\ EndSession(s, "committed")
    /\ UNCHANGED <<procVars, ctx, tx>>

-----------------------------------------------------------------------------
(* How withTxRetry goes on after execTx: return nil, return lastErr, or    *)
(* report the retry to the observer and sleep.                             *)

Return(p, how, causes) ==
    /\ pc' = [pc EXCEPT ![p] = "returned"]
    /\ result' = [result EXCEPT ![p] = how]
    /\ err' = [err EXCEPT ![p] = causes]
    /\ UNCHANGED events

(* Mutants of Decide: retries used up end as success; the observer is      *)
(* called before the limit is looked at.                                   *)
DecideSwallowing(p, retryable, causes) ==
    IF retryable /\ attempt[p] < maxRetries[p]
    THEN /\ pc' = [pc EXCEPT ![p] = "backoff"]
         /\ err' = [err EXCEPT ![p] = causes]
         /\ events' = [events EXCEPT ![p] = @ + 1]
         /\ UNCHANGED result
    ELSE Return(p, IF retryable THEN "ok" ELSE "err", causes)

DecideReportingFirst(p, retryable, causes) ==
    /\ err' = [err EXCEPT ![p] = causes]
    /\ events' = [events EXCEPT ![p] = IF retryable THEN @ + 1 ELSE @]
    /\ IF retryable /\ attempt[p] < maxRetries[p]
       THEN pc' = [pc EXCEPT ![p] = "backoff"] /\ UNCHANGED result
       ELSE pc' = [pc EXCEPT ![p] = "returned"] /\ result' = [result EXCEPT ![p] = "err"]

Decide(p, retryable, causes) ==
    IF retryable /\ attempt[p] < maxRetries[p]
    THEN /\ pc' = [pc EXCEPT ![p] = "backoff"]
         /\ err' = [err EXCEPT ![p] = causes]
         /\ events' = [events EXCEPT ![p] = @ + 1]
         /\ UNCHANGED result
    ELSE Return(p, "err", causes)

(* Mutant of isDeadlock: every error is taken for a transient one.         *)
AnyError(causes) == causes # {}

isDeadlock(causes) == "lock" \in causes

(* WithTx: nil fn is refused, options are applied to the defaults.         *)
Call(p) ==
    /\ pc[p] = "call"
    /\ \/ Return(p, "err", {"nilfn"}) /\ UNCHANGED maxRetries
       \/ /\ \E n \in RetryArgs : maxRetries' = [maxRetries EXCEPT ![p] = IF n >= 0 THEN n ELSE @]
          /\ pc' = [pc EXCEPT ![p] = "begin"]
          /\ UNCHANGED <<err, result, events>>
    /\ UNCHANGED <<attempt, step, panicking, ctx, tx, srv, owner>>

-----------------------------------------------------------------------------
(* execTx: Begin.  BeginTx waits for one of MaxOpen connections.           *)

InUse == {p \in Procs : tx[p] # "none"}

BeginOk(p) ==
    /\ pc[p] = "begin" /\ ctx[p] # "done"
    /\ Cardinality(InUse) < MaxOpen
    /\ pc' = [pc EXCEPT ![p] = "fn"]
    /\ ctx' = [ctx EXCEPT ![p] = "live"]
    /\ tx' = [tx EXCEPT ![p] = "open"]
    /\ srv' = [srv EXCEPT ![Sess(p)] = "active"]
    /\ UNCHANGED <<maxRetries, attempt, step, err, panicking, result, events, owner>>

BeginError(p) ==
    /\ pc[p] = "begin"
    /\ \E c \in {"lock", "other", "ctx"} :
        /\ c = "ctx" => ctx[p] = "done"
        /\ Decide(p, isDeadlock({c}), {c})
    /\ UNCHANGED <<maxRetries, attempt, step, panicking, ctx, tx, srv, owner>>

(* The callback.  A statement locks the next row of the plan, on a         *)
(* transaction whose context has not ended.                                *)
Statement(p) ==
    /\ pc[p] = "fn" /\ tx[p] = "open" /\ ctx[p] = "live"
    /\ step[p] < Len(Plan[p]) /\ ~Blocked(p)
    /\ owner' = [owner EXCEPT ![NextRow(p)] = Sess(p)]
    /\ step' = [step EXCEPT ![p] = @ + 1]
    /\ UNCHANGED <<pc, maxRetries, attempt, err, panicking, result, events, ctx, tx, srv>>

FnReturns(p, causes) ==
    /\ pc' = [pc EXCEPT ![p] = IF causes = {} THEN "commit" ELSE "rollback"]
    /\ err' = [err EXCEPT ![p] = causes]
    /\ step' = [step EXCEPT ![p] = 0]
    /\ UNCHANGED <<maxRetries, attempt, panicking, result, events, ctx, tx>>

FnOk(p) ==
    /\ pc[p] = "fn" /\ step[p] = Len(Plan[p])
    /\ FnReturns(p, {}) /\ UNCHANGED <<srv, owner>>

FnError(p) ==
    /\ pc[p] = "fn"
    /\ \/ FnReturns(p, {"other"})
       \/ ctx[p] # "live" /\ FnReturns(p, {"ctx"})
    /\ UNCHANGED <<srv, owner>>

(* 1213: the server has already rolled the victim back.                    *)
FnDeadlock(p) ==
    /\ pc[p] = "fn" /\ Deadlocked(p)
    /\ FnReturns(p, {"lock"})
    /\ EndSession(Sess(p), "undone")

(* 1205: the statement failed, the transaction lives and keeps its locks.  *)
FnLockWait(p) ==
    /\ pc[p] = "fn" /\ Blocked(p)
    /\ FnReturns(p, {"lock"}) /\ UNCHANGED <<srv, owner>>

(* Mutant of FnPanic: execTx has no deferred recover.                      *)
FnPanicEscapes(p) ==
    /\ pc[p] = "fn"
    /\ Return(p, "panic", {})
    /\ step' = [step EXCEPT ![p] = 0]
    /\ UNCHANGED <<maxRetries, attempt, panicking, ctx, tx, srv, owner>>

FnPanic(p) ==
    /\ pc[p] = "fn"
    /\ pc' = [pc EXCEPT ![p] = "rollback"]
    /\ panicking' = [panicking EXCEPT ![p] = TRUE]
    /\ step' = [step EXCEPT ![p] = 0]
    /\ UNCHANGED <<maxRetries, attempt, err, result, events, ctx, tx, srv, owner>>

(* runtime.Goexit runs the deferred function with recover() = nil, so      *)
(* neither Rollback nor Commit is called.                                  *)
FnGoexit(p) ==
    /\ pc[p] = "fn"
    /\ Return(p, "goexit", {})
    /\ step' = [step EXCEPT ![p] = 0]
    /\ UNCHANGED <<maxRetries, attempt, panicking, ctx, tx, srv, owner>>

-----------------------------------------------------------------------------
(* execTx: rollback after an error of fn, or in the deferred recover; the  *)
(* latter ignores the outcome and panics again.                            *)

(* Mutant of AfterRollback: a lock error is retried even if the rollback   *)
(* after it failed.                                                        *)
AfterAnyRollback(p, failure) ==
    IF panicking[p] THEN Return(p, "panic", {})
    ELSE Decide(p, isDeadlock(err[p]), err[p] \cup failure)

AfterRollback(p, failure) ==
    IF panicking[p] THEN Return(p, "panic", {})
    ELSE IF failure = {} THEN Decide(p, isDeadlock(err[p]), err[p])
    ELSE Return(p, "err", err[p] \cup failure)

(* Mutant of RollbackOk: Rollback is not called after an error of fn.      *)
RollbackForgotten(p) ==
    /\ pc[p] = "rollback" /\ tx[p] = "open"
    /\ AfterRollback(p, {})
    /\ UNCHANGED <<maxRetries, attempt, step, panicking, ctx, tx, srv, owner>>

RollbackOk(p) ==
    /\ pc[p] = "rollback" /\ tx[p] = "open"
    /\ tx' = [tx EXCEPT ![p] = "none"]
    /\ EndSession(Sess(p), "undone")
    /\ AfterRollback(p, {})
    /\ UNCHANGED <<maxRetries, attempt, step, panicking, ctx>>

RollbackFails(p) ==
    /\ pc[p] = "rollback" /\ tx[p] = "open"
    /\ tx' = [tx EXCEPT ![p] = "none"]
    /\ \/ EndSession(Sess(p), "undone")
       \/ LoseSession(Sess(p), srv[Sess(p)])
    /\ AfterRollback(p, {"rollback"})
    /\ UNCHANGED <<maxRetries, attempt, step, panicking, ctx>>

(* The rollback of database/sql came first: sql.ErrTxDone is a failure.    *)
RollbackTxDone(p) ==
    /\ pc[p] = "rollback" /\ tx[p] # "open"
    /\ AfterRollback(p, {"rollback", "ctx"})
    /\ UNCHANGED <<maxRetries, attempt, step, panicking, ctx, tx, srv, owner>>

(* execTx: commit.  The connection goes back to the pool on every outcome. *)
CommitOk(p) ==
    /\ pc[p] = "commit" /\ tx[p] = "open" /\ ctx[p] = "live"
    /\ tx' = [tx EXCEPT ![p] = "none"]
    /\ EndSession(Sess(p), "committed")
    /\ Return(p, "ok", {})
    /\ UNCHANGED <<maxRetries, attempt, step, panicking, ctx>>

(* A lock error at COMMIT: the server has rolled back.                     *)
CommitLockError(p) ==
    /\ pc[p] = "commit" /\ tx[p] = "open" /\ ctx[p] = "live"
    /\ tx' = [tx EXCEPT ![p] = "none"]
    /\ EndSession(Sess(p), "undone")
    /\ Decide(p, isDeadlock({"lock"}), {"lock"})
    /\ UNCHANGED <<maxRetries, attempt, step, panicking, ctx>>

(* The connection broke at COMMIT: nobody knows whether it was executed.   *)
CommitLost(p) ==
    /\ pc[p] = "commit" /\ tx[p] = "open" /\ ctx[p] = "live"
    /\ tx' = [tx EXCEPT ![p] = "none"]
    /\ LoseSession(Sess(p), "indoubt")
    /\ Decide(p, isDeadlock({"commit"}), {"commit"})
    /\ UNCHANGED <<maxRetries, attempt, step, panicking, ctx>>

(* Commit looks at the context first and then leaves the transaction to    *)
(* the goroutine of database/sql.                                          *)
CommitCtxEnded(p) ==
    /\ pc[p] = "commit" /\ ctx[p] # "live"
    /\ Decide(p, isDeadlock({"ctx"}), {"ctx"})
    /\ UNCHANGED <<maxRetries, attempt, step, panicking, ctx, tx, srv, owner>>

-----------------------------------------------------------------------------
(* withTxRetry: select between the timer and the context.                  *)

TimerFires(p) ==
    /\ pc[p] = "backoff"
    /\ attempt' = [attempt EXCEPT ![p] = @ + 1]
    /\ pc' = [pc EXCEPT ![p] = "begin"]
    /\ UNCHANGED <<maxRetries, step, err, panicking, result, events, ctx, tx, srv, owner>>

BackoffCanceled(p) ==
    /\ pc[p] = "backoff" /\ ctx[p] = "done"
    /\ Return(p, "err", err[p] \cup {"ctx"})
    /\ UNCHANGED <<maxRetries, attempt, step, panicking, ctx, tx, srv, owner>>

(* The caller cancels its context or its deadline passes (without effect   *)
(* once the call has returned and nothing is left open), ...               *)
CtxDone(p) ==
    /\ ctx[p] # "done" /\ (pc[p] # "returned" \/ tx[p] # "none")
    /\ ctx' = [ctx EXCEPT ![p] = "done"]
    /\ UNCHANGED <<procVars, tx, srv, owner>>

(* ... or only that of this transaction does (DefaultTransactionTimeout).  *)
TxTimeout(p) ==
    /\ ctx[p] = "live" /\ tx[p] = "open"
    /\ ctx' = [ctx EXCEPT ![p] = "expired"]
    /\ UNCHANGED <<procVars, tx, srv, owner>>

(* sql.Tx.awaitDone: claim the transaction, then roll it back.             *)
AwaitDone(p) ==
    /\ tx[p] = "open" /\ ctx[p] # "live"
    /\ tx' = [tx EXCEPT ![p] = "closing"]
    /\ UNCHANGED <<procVars, ctx, srv, owner>>

AwaitRollback(p) ==
    /\ tx[p] = "closing"
    /\ tx' = [tx EXCEPT ![p] = "none"]
    /\ \/ EndSession(Sess(p), "undone")
       \/ LoseSession(Sess(p), srv[Sess(p)])
    /\ UNCHANGED <<procVars, ctx>>

AllReturned == \A p \in Procs : pc[p] = "returned"

Terminated == AllReturned /\ UNCHANGED vars

-----------------------------------------------------------------------------
Fn(p) == Statement(p) \/ FnOk(p) \/ FnError(p) \/ FnDeadlock(p) \/ FnLockWait(p) \/ FnPanic(p)

Finish(p) ==
    \/ RollbackOk(p) \/ RollbackFails(p) \/ RollbackTxDone(p)
    \/ CommitOk(p) \/ CommitLockError(p) \/ CommitLost(p) \/ CommitCtxEnded(p)

Backoff(p) == TimerFires(p) \/ BackoffCanceled(p)

Step(p) ==
    \/ Call(p) \/ BeginOk(p) \/ BeginError(p)
    \/ Fn(p) \/ FnGoexit(p) \/ Finish(p) \/ Backoff(p)
    \/ CtxDone(p) \/ TxTimeout(p) \/ AwaitDone(p) \/ AwaitRollback(p)

Next ==
    \/ \E p \in Procs : Step(p)
    \/ \E s \in Sessions : ServerReap(s)
    \/ Terminated

Spec == Init /\ [][Next]_vars

(***************************************************************************)
(* Fairness.  The goroutine is scheduled, timers fire, fn and the server   *)
(* answer (a blocked statement ends in 1205 at the latest), database/sql   *)
(* hands freed connections to its waiters in order (strong fairness of     *)
(* BeginOk), and the server notices lost connections, each of them once.   *)
(* Nothing makes a context end, and nothing makes fn fail.                 *)
(***************************************************************************)
Fairness ==
    /\ \A p \in Procs :
        /\ WF_vars(Call(p) \/ Fn(p) \/ Finish(p) \/ Backoff(p))
        /\ SF_vars(BeginOk(p)) /\ WF_vars(ctx[p] = "done" /\ BeginError(p))
        /\ WF_vars(AwaitDone(p) \/ AwaitRollback(p))
    /\ WF_vars(\E s \in Sessions : ServerReap(s))

FairSpec == Spec /\ Fairness

-----------------------------------------------------------------------------
(* The inductive invariant behind the safety properties: where a call is   *)
(* determines what the server transactions of its attempts can be.         *)

AttemptsInOrder ==
    \A p \in Procs :
        /\ pc[p] = "call" => attempt[p] = 0
        /\ attempt[p] <= maxRetries[p]
        /\ pc[p] = "backoff" => attempt[p] < maxRetries[p]

OtherSessionsDead ==
    \A p \in Procs : \A n \in Attempts :
        /\ n > attempt[p] => srv[<<p, n>>] = "unused"
        /\ n < attempt[p] => srv[<<p, n>>] \in {"unused", "undone"}

SessionOfPc ==
    \A p \in Procs :
        /\ pc[p] \in {"call", "begin"} => srv[Sess(p)] = "unused"
        /\ pc[p] = "backoff" => srv[Sess(p)] \in {"unused", "undone"}
        /\ pc[p] \in {"fn", "rollback", "commit"} => srv[Sess(p)] \in {"active", "undone"}
        /\ pc[p] = "returned" /\ srv[Sess(p)] \in {"committed", "indoubt"} =>
               result[p] = "ok" \/ "commit" \in err[p]

SessionOfTx ==
    \A p \in Procs :
        /\ tx[p] # "none" => srv[Sess(p)] \in {"active", "undone"}
        /\ tx[p] # "none" /\ pc[p] \in {"fn", "commit"} => srv[Sess(p)] = "active"
        /\ pc[p] \in {"call", "begin", "backoff"} => tx[p] = "none"

ResultOfPc ==
    \A p \in Procs :
        /\ result[p] = "none" <=> pc[p] # "returned"
        /\ result[p] = "ok" => srv[Sess(p)] = "committed" /\ tx[p] = "none"

LocksOfTheLiving ==
    \A r \in Rows : owner[r] # NoSession => srv[owner[r]] \in {"active", "indoubt"}

Inv ==
    /\ TypeOK
    /\ AttemptsInOrder
    /\ OtherSessionsDead
    /\ SessionOfPc
    /\ SessionOfTx
    /\ ResultOfPc
    /\ LocksOfTheLiving

-----------------------------------------------------------------------------
(* The effect of a call is applied at most once however often fn runs: no  *)
(* two server transactions of one call are committed or may yet be (tx.go, *)
(* execTx: a commit that failed for another reason than a lock is not      *)
(* retried).                                                               *)
EffectAtMostOnce ==
    \A p \in Procs : \A m, n \in Attempts :
        {srv[<<p, m>>], srv[<<p, n>>]} \subseteq {"committed", "indoubt"} => m = n

(* The caller can trust what WithTx returns: nil means that the last       *)
(* attempt is committed; any error, panic or Goexit means that no attempt  *)
(* is or ever will be, unless the error says that the COMMIT got lost.     *)
ResultTellsEffect ==
    \A p \in Procs : pc[p] = "returned" =>
        IF result[p] = "ok" THEN srv[Sess(p)] = "committed"
        ELSE "commit" \notin err[p] =>
                \A n \in Attempts : srv[<<p, n>>] \notin {"committed", "indoubt"}

(* Before a call sleeps or begins the next attempt, everything of the      *)
(* attempts before it is gone: no connection is held, no server            *)
(* transaction is alive and no row lock is left that the new attempt, or   *)
(* anybody else, would wait for (tx.go: a rollback that failed is final).  *)
DeadBeforeRetry ==
    \A p \in Procs : pc[p] \in {"begin", "backoff"} =>
        /\ tx[p] = "none"
        /\ \A n \in Attempts : srv[<<p, n>>] \in {"unused", "undone"}
        /\ \A r \in Rows : \A n \in Attempts : owner[r] # <<p, n>>

(* What a call that has returned leaves behind is accounted for: it keeps  *)
(* its connection only if fn left by Goexit or its context has ended (then *)
(* database/sql takes the connection back), and it leaves a server         *)
(* transaction alive only then or if it reports a failed rollback or       *)
(* commit, or panics.                                                      *)
LeftoversExplained ==
    \A p \in Procs : pc[p] = "returned" =>
        /\ tx[p] # "none" => result[p] = "goexit" \/ ctx[p] # "live"
        /\ srv[Sess(p)] \in {"active", "indoubt"} =>
               \/ result[p] \in {"goexit", "panic"} \/ ctx[p] # "live"
               \/ err[p] \cap {"rollback", "commit"} # {}

(* The observer hears of every retry before its wait and of nothing else;  *)
(* the only event without a later attempt is that of a wait its context    *)
(* ended.  No event follows a rollback failure, which is reported together *)
(* with the error of fn (README, transactions).                            *)
RetryAccounting ==
    \A p \in Procs :
        /\ attempt[p] <= maxRetries[p]
        /\ events[p] = attempt[p] \/
            (events[p] = attempt[p] + 1 /\ (pc[p] = "backoff" \/
                (result[p] = "err" /\ {"lock", "ctx"} \subseteq err[p] /\ ctx[p] = "done")))
        /\ "rollback" \in err[p] =>
            /\ result[p] = "err" /\ events[p] = attempt[p]
            /\ err[p] \cap {"lock", "other", "ctx"} # {}

(* Every call returns, however the goroutines deadlock on rows and compete *)
(* for connections, as long as no fn left by Goexit and kept a connection; *)
(* and whatever broke, the row locks it took are released in the end,      *)
(* except those of a transaction that fn left by Goexit.                   *)
CallsReturn ==
    \A p \in Procs :
        <>[](/\ pc[p] = "returned" \/ \E q \in Procs : result[q] = "goexit"
             /\ result[p] = "goexit" \/ \A r \in Rows : owner[r] \notin {s \in Sessions : s[1] = p})

(* What LeftoversExplained and RetryAccounting rest on, next to Inv: the   *)
(* rollback of database/sql starts after the end of the context, an event  *)
(* is ahead of its attempt during the wait only, and the error that led to *)
(* a wait or to a rollback is one of the statements of fn.                 *)
ClosingAfterCtx == \A p \in Procs : tx[p] = "closing" => ctx[p] # "live"

EventsOfPc ==
    \A p \in Procs :
        /\ pc[p] \notin {"backoff", "returned"} => events[p] = attempt[p]
        /\ pc[p] = "backoff" => events[p] = attempt[p] + 1 /\ "lock" \in err[p]
        /\ pc[p] = "rollback" /\ ~panicking[p] => err[p] # {}
        /\ pc[p] # "returned" => err[p] \subseteq {"lock", "other", "ctx"}

(* WithTx keeps the promise of AtomicTx.                                   *)
Outcome(p) ==
    IF pc[p] # "returned" THEN "pending"
    ELSE IF result[p] = "ok" THEN "ok"
    ELSE IF "commit" \in err[p] THEN "unknown"
    ELSE "failed"

Atomic == INSTANCE AtomicTx WITH
    outcome <- [p \in Procs |-> Outcome(p)],
    effect  <- [p \in Procs |-> \E n \in Attempts : srv[<<p, n>>] = "committed"]

ImplementsAtomicTx == Atomic!Spec
=============================================================================
