------------------------ MODULE CloseDuringTx_proofs ------------------------
(***************************************************************************)
(* Theorems about CloseDuringTx for any number of goroutines that run      *)
(* transactions and that close the Client.  Whatever Close does, the       *)
(* variables of TxRetry change by its own steps, so that every theorem of  *)
(* TxRetry_proofs holds of Clients that are closed; what Close itself      *)
(* promises needs a small invariant more.                                  *)
(***************************************************************************)
EXTENDS CloseDuringTx, TxRetry_proofs

(* Every step with Close around is a step of TxRetry, or leaves its        *)
(* variables alone.                                                        *)
LEMMA CloseNextIsNext == [CloseNext]_allVars => [Next]_vars
  <1>. SUFFICES ASSUME [CloseNext]_allVars
                PROVE  [Next]_vars
    OBVIOUS
  <1>1. ASSUME NEW p \in Procs, TxStep(p)
        PROVE  Next
    <2>1. CASE BeginOpen(p)
      BY <2>1 DEF BeginOpen, Step, Next
    <2>2. CASE BeginFails(p)
      BY <2>2 DEF BeginFails, Step, Next
    <2>3. CASE OtherStep(p)
      BY <2>3 DEF OtherStep, FnStep, Fn, Step, Next
    <2>. QED
      BY <1>1, <2>1, <2>2, <2>3 DEF TxStep
  <1>2. ASSUME NEW k \in Closers, Close(k)
        PROVE  UNCHANGED vars
    BY <1>2 DEF Close
  <1>3. ASSUME NEW s \in Sessions, Reap(s)
        PROVE  Next
    BY <1>3 DEF Reap, Next
  <1>4. CASE AtRest
    BY <1>4 DEF AtRest, Next
  <1>5. CASE UNCHANGED allVars
    BY <1>5 DEF allVars
  <1>. QED
    BY <1>1, <1>2, <1>3, <1>4, <1>5 DEF CloseNext

(* Seen without the variables of Close, a behaviour is one of TxRetry.     *)
LEMMA TransactionsStay == CloseSpec => Init /\ [][Next]_vars
  <1>1. CloseInit => Init
    BY DEF CloseInit
  <1>. QED
    BY <1>1, CloseNextIsNext, PTL DEF CloseSpec

(* So what TxRetry_proofs shows holds with Close around: the effect of a   *)
(* call is applied at most once, ...                                       *)
THEOREM AtMostOnceWithClose == CloseSpec => []EffectAtMostOnce
  BY TransactionsStay, AtMostOnce DEF Spec

(* ... nil and errors tell the truth, ...                                  *)
THEOREM ResultsAreTrueWithClose == CloseSpec => []ResultTellsEffect
  BY TransactionsStay, ResultsAreTrue DEF Spec

(* ... no attempt starts before the one before it is dead, ...             *)
THEOREM RetriesStartCleanWithClose == CloseSpec => []DeadBeforeRetry
  BY TransactionsStay, RetriesStartClean DEF Spec

(* ... what is left behind is explained, also when the pool was closed     *)
(* under the call, ...                                                     *)
THEOREM LeftoversExplainedWithClose == CloseSpec => []LeftoversExplained
  BY TransactionsStay, LeftoversAreExplained DEF Spec

(* ... the observer is told of every retry and of nothing else, ...        *)
THEOREM RetriesAccountedWithClose == CloseSpec => []RetryAccounting
  BY TransactionsStay, RetriesAreAccounted DEF Spec

(* ... and callers see AtomicTx.                                           *)
THEOREM AtomicWithClose == CloseSpec => ImplementsAtomicTx
  BY TransactionsStay, WithTxImplementsAtomicTx DEF Spec

-----------------------------------------------------------------------------
(* The invariant of Close: how far the calls of Close are determines the   *)
(* pool.                                                                   *)
CloseInv ==
    /\ closer \in [Closers -> {"call", "returned"}]
    /\ OwnerKeepsPool

LEMMA CloseInvInit == CloseInit => CloseInv
  BY DEF CloseInit, CloseInv, OwnerKeepsPool, OwnerClosed

LEMMA CloseInvNext == CloseInv /\ [CloseNext]_allVars => CloseInv'
  <1>. SUFFICES ASSUME CloseInv, [CloseNext]_allVars
                PROVE  CloseInv'
    OBVIOUS
  <1>. USE DEF CloseInv, OwnerKeepsPool, OwnerClosed
  <1>1. CASE UNCHANGED closeVars
    BY <1>1 DEF closeVars
  <1>2. ASSUME NEW k \in Closers, Close(k)
        PROVE  CloseInv'
    <2>1. closer' = [closer EXCEPT ![k] = "returned"]
      BY <1>2 DEF Close
    <2>2. pool' = (IF owns THEN "closed" ELSE pool) /\ UNCHANGED owns
      BY <1>2 DEF Close, closeOwned
    <2>. QED
      BY <2>1, <2>2
  <1>. QED
    BY <1>1, <1>2 DEF CloseNext, TxStep, BeginOpen, BeginFails, OtherStep, Reap, AtRest, allVars

(* A borrowed pool is never closed, and an owned one not before a Close    *)
(* has reached it, however the calls of Close overlap (client.go, Close).  *)
THEOREM PoolOfOwner == CloseSpec => []OwnerKeepsPool
  <1>1. CloseInv => OwnerKeepsPool
    BY DEF CloseInv
  <1>. QED
    BY <1>1, CloseInvInit, CloseInvNext, PTL DEF CloseSpec

-----------------------------------------------------------------------------
(* Only its own steps move a goroutine, and only one that fails, or gets a *)
(* connection, moves it on from BeginTx.                                   *)
LEMMA LeavesBegin ==
    ASSUME TypeOK, NEW p \in Procs, NEW q \in Procs, TxStep(q),
           pc[p] = "begin", pc'[p] # "begin"
    PROVE  q = p /\ (BeginOpen(p) \/ BeginFails(p))
  <1>. pc \in [Procs -> {"call", "begin", "fn", "rollback", "commit", "backoff", "returned"}]
    BY DEF TypeOK
  <1>1. CASE BeginOpen(q)
    BY <1>1 DEF BeginOpen, BeginOk
  <1>2. CASE BeginFails(q)
    BY <1>2 DEF BeginFails, BeginError, Decide, Return
  <1>3. CASE OtherStep(q)
    <2>1. CASE Call(q)
      BY <2>1 DEF Call, Return
    <2>2. CASE FnStep(q) \/ FnGoexit(q)
      BY <2>2 DEF FnStep, Statement, FnOk, FnError, FnDeadlock, FnLockWait, FnPanic, FnGoexit,
         FnReturns, Return
    <2>3. CASE RollbackOk(q) \/ RollbackFails(q) \/ RollbackTxDone(q)
      BY <2>3 DEF RollbackOk, RollbackFails, RollbackTxDone, AfterRollback, Decide, Return
    <2>4. CASE CommitOk(q) \/ CommitLockError(q) \/ CommitLost(q) \/ CommitCtxEnded(q)
      BY <2>4 DEF CommitOk, CommitLockError, CommitLost, CommitCtxEnded, Decide, Return
    <2>5. CASE Backoff(q)
      BY <2>5 DEF Backoff, TimerFires, BackoffCanceled, Return
    <2>6. CASE CtxDone(q) \/ TxTimeout(q) \/ AwaitDone(q) \/ AwaitRollback(q)
      BY <2>6 DEF CtxDone, TxTimeout, AwaitDone, AwaitRollback, procVars
    <2>. QED
      BY <1>3, <2>1, <2>2, <2>3, <2>4, <2>5, <2>6 DEF OtherStep, Finish
  <1>. QED
    BY <1>1, <1>2, <1>3 DEF TxStep

LEMMA ClosedPoolStep ==
    ASSUME TypeOK, [CloseNext]_allVars, pool = "closed",
           NEW p \in Procs, pc[p] = "begin", pc'[p] # "begin"
    PROVE  /\ pc'[p] = "returned" /\ result'[p] = "err"
           /\ events'[p] = events[p] /\ srv' = srv
  <1>1. PICK q \in Procs : TxStep(q)
    BY DEF CloseNext, Close, Reap, ServerReap, AtRest, Terminated, allVars, vars, procVars
  <1>2. BeginFails(p)
    BY <1>1, LeavesBegin DEF BeginOpen
  <1>3. PICK c \in {"other", "ctx"} : Decide(p, isDeadlock({c}), {c})
    <2>1. PICK c \in {"lock", "other", "ctx"} : Decide(p, isDeadlock({c}), {c})
      BY <1>2 DEF BeginFails, BeginError
    <2>2. err'[p] = {c}
      BY <2>1 DEF TypeOK, Decide, Return
    <2>3. c # "lock"
      BY <1>2, <2>2 DEF BeginFails
    <2>. QED
      BY <2>1, <2>3
  <1>4. ~isDeadlock({c})
    BY <1>3 DEF isDeadlock
  <1>5. Return(p, "err", {c})
    BY <1>3, <1>4 DEF Decide
  <1>. QED
    BY <1>2, <1>5 DEF TypeOK, Return, BeginFails, BeginError

(* Only BeginTx takes a connection, and not from a pool that is closed.    *)
LEMMA NoConnectionTaken ==
    ASSUME TypeOK, [CloseNext]_allVars, pool = "closed"
    PROVE  InUse' \subseteq InUse
  <1>. SUFFICES ASSUME NEW p \in Procs, tx[p] = "none"
                PROVE  tx'[p] = "none"
    BY DEF InUse
  <1>. tx \in [Procs -> {"none", "open", "closing"}]
    BY DEF TypeOK
  <1>1. ASSUME NEW q \in Procs, TxStep(q)
        PROVE  tx'[p] = "none"
    <2>1. CASE BeginFails(q)
      BY <2>1 DEF BeginFails, BeginError
    <2>2. CASE Call(q) \/ FnStep(q) \/ FnGoexit(q)
      BY <2>2 DEF Call, FnStep, Statement, FnOk, FnError, FnDeadlock, FnLockWait, FnPanic, FnGoexit,
         FnReturns
    <2>3. CASE RollbackOk(q) \/ RollbackFails(q) \/ RollbackTxDone(q)
      BY <2>3 DEF RollbackOk, RollbackFails, RollbackTxDone
    <2>4. CASE CommitOk(q) \/ CommitLockError(q) \/ CommitLost(q) \/ CommitCtxEnded(q)
      BY <2>4 DEF CommitOk, CommitLockError, CommitLost, CommitCtxEnded
    <2>5. CASE Backoff(q) \/ CtxDone(q) \/ TxTimeout(q)
      BY <2>5 DEF Backoff, TimerFires, BackoffCanceled, CtxDone, TxTimeout
    <2>6. CASE AwaitDone(q) \/ AwaitRollback(q)
      BY <2>6 DEF AwaitDone, AwaitRollback
    <2>. QED
      BY <1>1, <2>1, <2>2, <2>3, <2>4, <2>5, <2>6 DEF TxStep, BeginOpen, OtherStep, Finish
  <1>2. ASSUME NEW s \in Sessions, Reap(s)
        PROVE  tx'[p] = "none"
    BY <1>2 DEF Reap, ServerReap
  <1>. QED
    BY <1>1, <1>2 DEF CloseNext, Close, AtRest, Terminated, allVars, vars

(* After a Close of an owned Client nothing is begun, and whatever waits   *)
(* or comes for a connection returns an error: no retry, no event, no      *)
(* transaction (client.go, Close; tx.go, isDeadlock).                      *)
THEOREM ClosedClientEndsCalls == CloseSpec => ClosedClientIsFinal
  <1>1. TypeOK /\ CloseInv /\ [CloseNext]_allVars =>
            [OwnerClosed =>
                /\ InUse' \subseteq InUse
                /\ \A p \in Procs : pc[p] = "begin" /\ pc'[p] # "begin" =>
                    /\ pc'[p] = "returned" /\ result'[p] = "err"
                    /\ events'[p] = events[p] /\ srv' = srv]_allVars
    <2>. SUFFICES ASSUME TypeOK, CloseInv, [CloseNext]_allVars, OwnerClosed
                  PROVE  /\ InUse' \subseteq InUse
                         /\ \A p \in Procs : pc[p] = "begin" /\ pc'[p] # "begin" =>
                             /\ pc'[p] = "returned" /\ result'[p] = "err"
                             /\ events'[p] = events[p] /\ srv' = srv
      OBVIOUS
    <2>1. pool = "closed"
      BY DEF CloseInv, OwnerKeepsPool
    <2>. QED
      BY <2>1, NoConnectionTaken, ClosedPoolStep
  <1>2. CloseSpec => []TypeOK
    BY TransactionsStay, TypeCorrect DEF Spec
  <1>3. CloseSpec => []CloseInv
    BY CloseInvInit, CloseInvNext, PTL DEF CloseSpec
  <1>. QED
    BY <1>1, <1>2, <1>3, PTL DEF CloseSpec, ClosedClientIsFinal
=============================================================================
