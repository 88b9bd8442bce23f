--------------------------- MODULE CloseDuringTx ---------------------------
(***************************************************************************)
(* Client.Close (client.go) called by several goroutines while others are  *)
(* in WithTx on the same Client: TxRetry with a pool that may be closed.   *)
(* The cache of prepared statements that Close releases first is in        *)
(* ClientLifecycle.                                                        *)
(*                                                                         *)
(* database/sql (external) starts nothing on a closed pool and wakes up    *)
(* whoever waits for a connection, but lets transactions go on.            *)
(***************************************************************************)
EXTENDS TxRetry

CONSTANTS Closers       \* goroutines, each calling Close once

VARIABLES
    owns,           \* ownsSQLDB of the Client
    pool,           \* "open" or "closed"
    closer          \* where a call of Close is

closeVars == <<owns, pool, closer>>
allVars   == <<vars, closeVars>>

CloseInit ==
    /\ Init
    /\ owns \in BOOLEAN
    /\ pool = "open"
    /\ closer = [k \in Closers |-> "call"]

-----------------------------------------------------------------------------
(* Close: the pool of a Client that owns it, once more if it is closed.    *)
(* Mutant: the pool stays open.                                            *)
closeNothing == pool

closeOwned == IF owns THEN "closed" ELSE pool

Close(k) ==
    /\ closer[k] = "call"
    /\ closer' = [closer EXCEPT ![k] = "returned"]
    /\ pool' = closeOwned
    /\ UNCHANGED <<vars, owns>>

(* BeginTx on the pool; on a closed one it fails at once.  A transaction   *)
(* has begun once it has its connection.                                   *)
BeginOpen(p) == pool = "open" /\ BeginOk(p) /\ UNCHANGED closeVars

BeginFails(p) ==
    /\ BeginError(p)
    /\ pool = "closed" => "lock" \notin err'[p]
    /\ UNCHANGED closeVars

FnStep(p) ==
    Statement(p) \/ FnOk(p) \/ FnError(p) \/ FnDeadlock(p) \/ FnLockWait(p) \/ FnPanic(p)

OtherStep(p) ==
    /\ \/ Call(p) \/ FnStep(p) \/ FnGoexit(p) \/ Finish(p) \/ Backoff(p)
       \/ CtxDone(p) \/ TxTimeout(p) \/ AwaitDone(p) \/ AwaitRollback(p)
    /\ UNCHANGED closeVars

TxStep(p) == BeginOpen(p) \/ BeginFails(p) \/ OtherStep(p)

Reap(s) == ServerReap(s) /\ UNCHANGED closeVars

AtRest == Terminated /\ UNCHANGED closeVars

CloseNext ==
    \/ \E p \in Procs : TxStep(p)
    \/ \E k \in Closers : Close(k)
    \/ \E s \in Sessions : Reap(s)
    \/ AtRest

CloseSpec == CloseInit /\ [][CloseNext]_allVars

(* As in TxRetry, and what waits for a connection of a closed pool fails.  *)
CloseFairness ==
    /\ \A p \in Procs :
        /\ WF_allVars((Call(p) \/ FnStep(p) \/ Finish(p) \/ Backoff(p)) /\ UNCHANGED closeVars)
        /\ SF_allVars(BeginOpen(p))
        /\ WF_allVars((ctx[p] = "done" \/ pool = "closed") /\ BeginFails(p))
        /\ WF_allVars((AwaitDone(p) \/ AwaitRollback(p)) /\ UNCHANGED closeVars)
    /\ \A s \in Sessions : WF_allVars(Reap(s))

CloseFairSpec == CloseSpec /\ CloseFairness

-----------------------------------------------------------------------------
(* Properties.                                                             *)

(* Once a Close of a Client that owns its pool has returned, the Client is *)
(* finished: whoever comes for a connection, or waits for one, or comes    *)
(* back from the backoff of a transaction that Close found running, begins *)
(* nothing on the server and returns the error.  That error is no reason   *)
(* to try again, and the observer does not hear of it (client.go, Close;   *)
(* isDeadlock, Decide).                                                    *)
OwnerClosed == owns /\ \E k \in Closers : closer[k] = "returned"

ClosedClientIsFinal ==
    [][OwnerClosed =>
        /\ InUse' \subseteq InUse
        /\ \A p \in Procs : pc[p] = "begin" /\ pc'[p] # "begin" =>
            /\ pc'[p] = "returned" /\ result'[p] = "err"
            /\ events'[p] = events[p] /\ srv' = srv]_allVars

(* A pool that the Client borrowed is open for its owner whatever the      *)
(* Client's users do, and so is an owned one until a Close has got there.  *)
OwnerKeepsPool == pool = "closed" <=> OwnerClosed

(* Every call returns in the end, those that wait for a connection         *)
(* included, although Close may come at any moment: only a callback that   *)
(* left by Goexit, and took a connection with it, keeps others waiting,    *)
(* and not even that once the Client that owns the pool is closed.         *)
ReturnsAfterClose ==
    <>[](AllReturned \/ (~OwnerClosed /\ \E q \in Procs : result[q] = "goexit"))
=============================================================================
