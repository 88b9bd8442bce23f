--------------------------- MODULE TxRetry_proofs ---------------------------
(***************************************************************************)
(* Theorems about TxRetry for any number of goroutines, rows, plans,       *)
(* connections and retries.  Inv is inductive: TxRetry defines it, and     *)
(* here every conjunct has a lemma of its own for a step of a goroutine    *)
(* (or of database/sql on its behalf), and one lemma covers the server.    *)
(***************************************************************************)
EXTENDS TxRetry, TLAPS

(* The variables that withTxRetry sets when execTx has returned, and those *)
(* of the server.                                                          *)
ControlTyped ==
    /\ pc \in [Procs -> {"call", "begin", "fn", "rollback", "commit", "backoff", "returned"}]
    /\ err \in [Procs -> SUBSET Causes]
    /\ events \in [Procs -> Nat]
    /\ result \in [Procs -> {"none", "ok", "err", "panic", "goexit"}]

ServerTyped ==
    /\ srv \in [Sessions -> SrvStates]
    /\ owner \in [Rows -> Sessions \cup {NoSession}]

-----------------------------------------------------------------------------
(* Helper facts about the operators the actions are built from.            *)

(* The session of the current attempt is a session.                        *)
LEMMA SessTyped ==
    ASSUME TypeOK, NEW p \in Procs
    PROVE  Sess(p) \in Sessions
  BY DEF TypeOK, Sess, Sessions

(* What Decide assigns keeps its type.                                     *)
LEMMA DecideTyped ==
    ASSUME TypeOK, NEW p \in Procs, NEW retryable, NEW causes \in SUBSET Causes,
           Decide(p, retryable, causes)
    PROVE  ControlTyped'
  <1>1. CASE retryable /\ attempt[p] < maxRetries[p]
    BY <1>1 DEF TypeOK, ControlTyped, Decide
  <1>2. CASE ~(retryable /\ attempt[p] < maxRetries[p])
    BY <1>2 DEF TypeOK, ControlTyped, Decide, Return
  <1>. QED
    BY <1>1, <1>2

(* What AfterRollback assigns keeps its type.                              *)
LEMMA AfterRollbackTyped ==
    ASSUME TypeOK, NEW p \in Procs, NEW failure \in SUBSET Causes,
           AfterRollback(p, failure)
    PROVE  ControlTyped'
  <1>1. err[p] \in SUBSET Causes
    BY DEF TypeOK
  <1>2. CASE panicking[p] \/ failure # {}
    BY <1>1, <1>2 DEF TypeOK, ControlTyped, AfterRollback, Return
  <1>3. CASE ~panicking[p] /\ failure = {}
    BY <1>1, <1>3, DecideTyped DEF AfterRollback
  <1>. QED
    BY <1>2, <1>3

(* Ending a session keeps the types of the server.                         *)
LEMMA EndSessionTyped ==
    ASSUME TypeOK, NEW s \in Sessions, NEW to \in SrvStates, EndSession(s, to)
    PROVE  ServerTyped'
  BY DEF TypeOK, ServerTyped, EndSession

(* Losing a session keeps the types of the server.                         *)
LEMMA LoseSessionTyped ==
    ASSUME TypeOK, NEW s \in Sessions, NEW to \in SrvStates, LoseSession(s, to)
    PROVE  ServerTyped'
  BY DEF TypeOK, ServerTyped, LoseSession

(* A session that keeps its state does not change the server at all.       *)
LEMMA LoseNothing ==
    ASSUME TypeOK, NEW s \in Sessions, LoseSession(s, srv[s])
    PROVE  srv' = srv /\ owner' = owner
  BY DEF TypeOK, LoseSession

(* Ending a session frees its row locks and no others.                     *)
LEMMA EndSessionLocks ==
    ASSUME TypeOK, LocksOfTheLiving, NEW s \in Sessions, NEW to, EndSession(s, to)
    PROVE  LocksOfTheLiving'
  <1>1. \A r \in Rows : owner'[r] # NoSession => owner'[r] = owner[r] /\ owner'[r] # s
    BY DEF EndSession
  <1>. QED
    BY <1>1 DEF EndSession, TypeOK, LocksOfTheLiving

(* Only the session of the current attempt changes.                        *)
LEMMA OtherSessionsFrame ==
    ASSUME TypeOK, OtherSessionsDead, NEW p \in Procs, attempt' = attempt,
           srv' = srv \/ \E to : srv' = [srv EXCEPT ![Sess(p)] = to]
    PROVE  OtherSessionsDead'
  <1>1. CASE srv' = srv
    BY <1>1 DEF OtherSessionsDead
  <1>2. ASSUME NEW to, srv' = [srv EXCEPT ![Sess(p)] = to]
        PROVE  OtherSessionsDead'
    <2>. SUFFICES ASSUME NEW q \in Procs, NEW n \in Attempts
                  PROVE  /\ n > attempt[q] => srv'[<<q, n>>] = "unused"
                         /\ n < attempt[q] => srv'[<<q, n>>] \in {"unused", "undone"}
      BY DEF OtherSessionsDead
    <2>1. srv'[<<q, n>>] = IF q = p /\ n = attempt[p] THEN to ELSE srv[<<q, n>>]
      BY <1>2 DEF TypeOK, Sess, Sessions
    <2>. QED
      BY <2>1 DEF OtherSessionsDead, TypeOK, Attempts
  <1>. QED
    BY <1>1, <1>2

(* No session but that of the current attempt is alive.                    *)
LEMMA OtherSessionsAre ==
    ASSUME TypeOK, OtherSessionsDead, NEW p \in Procs, NEW n \in Attempts, n # attempt[p]
    PROVE  srv[<<p, n>>] \in {"unused", "undone"}
  <1>1. attempt[p] \in Int /\ n \in Int
    BY ConstantsAssumption DEF TypeOK, Attempts
  <1>2. n > attempt[p] \/ n < attempt[p]
    BY <1>1
  <1>. QED
    BY <1>2 DEF OtherSessionsDead

-----------------------------------------------------------------------------
(* One lemma per conjunct of Inv: no step of a goroutine disturbs it.      *)

(* Every step keeps the types.                                             *)
LEMMA TypeStep ==
    ASSUME Inv, NEW p \in Procs, Step(p)
    PROVE  TypeOK'
  <1>. USE DEF Inv, TypeOK, Causes, Sess, Sessions, SrvStates
  <1>1. CASE Call(p)
    <2>1. ASSUME Return(p, "err", {"nilfn"}), maxRetries' = maxRetries
          PROVE  TypeOK'
      BY <1>1, <2>1 DEF Call, Inv, TypeOK, Return, Causes
    <2>2. ASSUME NEW n \in RetryArgs,
                 maxRetries' = [maxRetries EXCEPT ![p] = IF n >= 0 THEN n ELSE @]
          PROVE  maxRetries' \in [Procs -> Attempts]
      BY <2>2, ConstantsAssumption DEF Inv, TypeOK, Attempts
    <2>. QED
      BY <1>1, <2>1, <2>2 DEF Call, Inv, TypeOK
  <1>2. CASE BeginOk(p)
    BY <1>2 DEF BeginOk
  <1>3. CASE BeginError(p)
    <2>1. PICK c \in {"lock", "other", "ctx"} : Decide(p, isDeadlock({c}), {c})
      BY <1>3 DEF BeginError
    <2>2. {c} \in SUBSET Causes
      BY DEF Causes
    <2>3. ControlTyped'
      BY <2>1, <2>2, DecideTyped DEF Inv
    <2>. QED
      BY <1>3, <2>3 DEF Inv, TypeOK, ControlTyped, BeginError
  <1>4. CASE Statement(p)
    <2>1. NextRow(p) \in Rows
      <3>1. Plan[p] \in Seq(Rows)
        BY ConstantsAssumption
      <3>2. step[p] \in Nat /\ step[p] < Len(Plan[p])
        BY <1>4 DEF Inv, TypeOK, Statement
      <3>. QED
        BY <3>1, <3>2 DEF NextRow
    <2>2. Sess(p) \in Sessions
      BY SessTyped DEF Inv
    <2>. QED
      BY <1>4, <2>1, <2>2 DEF Inv, TypeOK, Statement
  <1>5. CASE FnOk(p)
    BY <1>5 DEF FnOk, FnReturns
  <1>6. CASE FnError(p)
    <2>1. PICK causes \in {{"other"}, {"ctx"}} : FnReturns(p, causes)
      BY <1>6 DEF FnError
    <2>. QED
      BY <1>6, <2>1 DEF Inv, TypeOK, Causes, FnError, FnReturns
  <1>7. CASE FnDeadlock(p)
    BY <1>7 DEF FnDeadlock, FnReturns, EndSession
  <1>8. CASE FnLockWait(p)
    BY <1>8 DEF FnLockWait, FnReturns
  <1>9. CASE FnPanic(p)
    BY <1>9 DEF FnPanic
  <1>10. CASE FnGoexit(p)
    BY <1>10 DEF FnGoexit, Return
  <1>11. CASE RollbackOk(p)
    <2>1. ControlTyped'
      BY <1>11, AfterRollbackTyped DEF Inv, RollbackOk
    <2>2. ServerTyped'
      BY <1>11, SessTyped, EndSessionTyped DEF Inv, RollbackOk, SrvStates
    <2>. QED
      BY <1>11, <2>1, <2>2 DEF Inv, TypeOK, ControlTyped, ServerTyped, RollbackOk
  <1>12. CASE RollbackFails(p)
    <2>1. ControlTyped'
      <3>1. {"rollback"} \in SUBSET Causes
        BY DEF Causes
      <3>. QED
        BY <1>12, <3>1, AfterRollbackTyped DEF Inv, RollbackFails
    <2>2. ServerTyped'
      <3>1. Sess(p) \in Sessions /\ srv[Sess(p)] \in SrvStates /\ "undone" \in SrvStates
        BY SessTyped DEF Inv, TypeOK, SrvStates
      <3>. QED
        BY <1>12, <3>1, EndSessionTyped, LoseSessionTyped DEF Inv, RollbackFails
    <2>. QED
      BY <1>12, <2>1, <2>2 DEF Inv, TypeOK, ControlTyped, ServerTyped, RollbackFails
  <1>13. CASE RollbackTxDone(p)
    <2>1. {"rollback", "ctx"} \in SUBSET Causes
      BY DEF Causes
    <2>2. ControlTyped'
      BY <1>13, <2>1, AfterRollbackTyped DEF Inv, RollbackTxDone
    <2>. QED
      BY <1>13, <2>2 DEF Inv, TypeOK, ControlTyped, RollbackTxDone
  <1>14. CASE CommitOk(p)
    BY <1>14 DEF CommitOk, EndSession, Return
  <1>15. CASE CommitLockError(p)
    <2>1. ControlTyped'
      <3>1. {"lock"} \in SUBSET Causes
        BY DEF Causes
      <3>. QED
        BY <1>15, <3>1, DecideTyped DEF Inv, CommitLockError
    <2>2. ServerTyped'
      BY <1>15, SessTyped, EndSessionTyped DEF Inv, CommitLockError, SrvStates
    <2>. QED
      BY <1>15, <2>1, <2>2 DEF Inv, TypeOK, ControlTyped, ServerTyped, CommitLockError
  <1>16. CASE CommitLost(p)
    <2>1. ControlTyped'
      <3>1. {"commit"} \in SUBSET Causes
        BY DEF Causes
      <3>. QED
        BY <1>16, <3>1, DecideTyped DEF Inv, CommitLost
    <2>2. ServerTyped'
      BY <1>16, SessTyped, LoseSessionTyped DEF Inv, CommitLost, SrvStates
    <2>. QED
      BY <1>16, <2>1, <2>2 DEF Inv, TypeOK, ControlTyped, ServerTyped, CommitLost
  <1>17. CASE CommitCtxEnded(p)
    <2>1. {"ctx"} \in SUBSET Causes
      BY DEF Causes
    <2>2. ControlTyped'
      BY <1>17, <2>1, DecideTyped DEF Inv, CommitCtxEnded
    <2>. QED
      BY <1>17, <2>2 DEF Inv, TypeOK, ControlTyped, CommitCtxEnded
  <1>18. CASE TimerFires(p)
    <2>1. attempt[p] + 1 \in Attempts
      BY <1>18, ConstantsAssumption DEF Inv, TypeOK, AttemptsInOrder, Attempts, TimerFires
    <2>. QED
      BY <1>18, <2>1 DEF Inv, TypeOK, TimerFires
  <1>19. CASE BackoffCanceled(p)
    BY <1>19 DEF BackoffCanceled, Return
  <1>20. CASE CtxDone(p)
    BY <1>20 DEF CtxDone, procVars
  <1>21. CASE TxTimeout(p)
    BY <1>21 DEF TxTimeout, procVars
  <1>22. CASE AwaitDone(p)
    BY <1>22 DEF AwaitDone, procVars
  <1>23. CASE AwaitRollback(p)
    <2>1. ServerTyped'
      <3>1. Sess(p) \in Sessions /\ srv[Sess(p)] \in SrvStates /\ "undone" \in SrvStates
        BY SessTyped DEF Inv, TypeOK, SrvStates
      <3>. QED
        BY <1>23, <3>1, EndSessionTyped, LoseSessionTyped DEF Inv, AwaitRollback
    <2>. QED
      BY <1>23, <2>1 DEF Inv, TypeOK, ServerTyped, AwaitRollback, procVars
  <1>. QED
    BY <1>1, <1>2, <1>3, <1>4, <1>5, <1>6, <1>7, <1>8, <1>9, <1>10, <1>11, <1>12,
       <1>13, <1>14, <1>15, <1>16, <1>17, <1>18, <1>19, <1>20, <1>21, <1>22, <1>23
    DEF Step, Fn, Finish, Backoff

(* Every step keeps AttemptsInOrder: a retry counts, below the limit.      *)
LEMMA AttemptsStep ==
    ASSUME Inv, NEW p \in Procs, Step(p)
    PROVE  AttemptsInOrder'
  <1>. USE DEF Inv, TypeOK, AttemptsInOrder, Attempts
  <1>1. CASE Call(p)
    <2>1. attempt[p] = 0
      BY <1>1 DEF Inv, AttemptsInOrder, Call
    <2>2. maxRetries'[p] >= 0 /\ \A q \in Procs \ {p} : maxRetries'[q] = maxRetries[q]
      BY <1>1, ConstantsAssumption DEF Call, Inv, TypeOK, Attempts
    <2>3. pc'[p] \in {"returned", "begin"} /\ \A q \in Procs \ {p} : pc'[q] = pc[q]
      BY <1>1 DEF Call, Inv, TypeOK, Return
    <2>. QED
      BY <1>1, <2>1, <2>2, <2>3 DEF Call, Inv, TypeOK, AttemptsInOrder, Attempts
  <1>2. CASE BeginOk(p)
    BY <1>2 DEF BeginOk
  <1>3. CASE BeginError(p)
    BY <1>3 DEF BeginError, Decide, Return
  <1>4. CASE Statement(p)
    BY <1>4 DEF Statement
  <1>5. CASE FnOk(p)
    BY <1>5 DEF FnOk, FnReturns
  <1>6. CASE FnError(p)
    BY <1>6 DEF FnError, FnReturns
  <1>7. CASE FnDeadlock(p)
    BY <1>7 DEF FnDeadlock, FnReturns
  <1>8. CASE FnLockWait(p)
    BY <1>8 DEF FnLockWait, FnReturns
  <1>9. CASE FnPanic(p)
    BY <1>9 DEF FnPanic
  <1>10. CASE FnGoexit(p)
    BY <1>10 DEF FnGoexit, Return
  <1>11. CASE RollbackOk(p)
    BY <1>11 DEF RollbackOk, AfterRollback, Decide, Return
  <1>12. CASE RollbackFails(p)
    BY <1>12 DEF RollbackFails, AfterRollback, Return
  <1>13. CASE RollbackTxDone(p)
    BY <1>13 DEF RollbackTxDone, AfterRollback, Return
  <1>14. CASE CommitOk(p)
    BY <1>14 DEF CommitOk, Return
  <1>15. CASE CommitLockError(p)
    BY <1>15 DEF CommitLockError, Decide, Return
  <1>16. CASE CommitLost(p)
    BY <1>16 DEF CommitLost, Decide, Return
  <1>17. CASE CommitCtxEnded(p)
    BY <1>17 DEF CommitCtxEnded, Decide, Return
  <1>18. CASE TimerFires(p)
    BY <1>18 DEF TimerFires
  <1>19. CASE BackoffCanceled(p)
    BY <1>19 DEF BackoffCanceled, Return
  <1>20. CASE CtxDone(p)
    BY <1>20 DEF CtxDone, procVars
  <1>21. CASE TxTimeout(p)
    BY <1>21 DEF TxTimeout, procVars
  <1>22. CASE AwaitDone(p)
    BY <1>22 DEF AwaitDone, procVars
  <1>23. CASE AwaitRollback(p)
    BY <1>23 DEF AwaitRollback, procVars
  <1>. QED
    BY <1>1, <1>2, <1>3, <1>4, <1>5, <1>6, <1>7, <1>8, <1>9, <1>10, <1>11, <1>12,
       <1>13, <1>14, <1>15, <1>16, <1>17, <1>18, <1>19, <1>20, <1>21, <1>22, <1>23
    DEF Step, Fn, Finish, Backoff

(* Every step keeps OtherSessionsDead: a retry leaves a dead session.      *)
LEMMA OtherSessionsStep ==
    ASSUME Inv, NEW p \in Procs, Step(p)
    PROVE  OtherSessionsDead'
  <1>1. CASE TimerFires(p)
    <2>. SUFFICES ASSUME NEW q \in Procs, NEW n \in Attempts
                  PROVE  /\ n > attempt'[q] => srv[<<q, n>>] = "unused"
                         /\ n < attempt'[q] => srv[<<q, n>>] \in {"unused", "undone"}
      BY <1>1 DEF OtherSessionsDead, TimerFires
    <2>1. attempt[q] \in Int /\ n \in Int
      BY DEF Inv, TypeOK, Attempts
    <2>2. attempt'[q] = IF q = p THEN attempt[p] + 1 ELSE attempt[q]
      BY <1>1 DEF Inv, TypeOK, TimerFires
    <2>3. srv[<<p, attempt[p]>>] \in {"unused", "undone"}
      BY <1>1 DEF Inv, SessionOfPc, Sess, TimerFires
    <2>. QED
      BY <2>1, <2>2, <2>3 DEF Inv, OtherSessionsDead
  <1>2. CASE ~TimerFires(p)
    <2>1. attempt' = attempt
      BY <1>2 DEF Step, Fn, Finish, Backoff, Call, BeginOk, BeginError, Statement, FnOk, FnError,
            FnDeadlock, FnLockWait, FnPanic, FnGoexit, FnReturns, RollbackOk, RollbackFails,
            RollbackTxDone, CommitOk, CommitLockError, CommitLost, CommitCtxEnded,
            BackoffCanceled, CtxDone, TxTimeout, AwaitDone, AwaitRollback, procVars
    <2>2. srv' = srv \/ \E to : srv' = [srv EXCEPT ![Sess(p)] = to]
      BY <1>2 DEF Step, Fn, Finish, Backoff, Call, BeginOk, BeginError, Statement, FnOk, FnError,
            FnDeadlock, FnLockWait, FnPanic, FnGoexit, RollbackOk, RollbackFails,
            RollbackTxDone, CommitOk, CommitLockError, CommitLost, CommitCtxEnded,
            BackoffCanceled, CtxDone, TxTimeout, AwaitDone, AwaitRollback, EndSession, LoseSession
    <2>. QED
      BY <2>1, <2>2, OtherSessionsFrame DEF Inv
  <1>. QED
    BY <1>1, <1>2

(* Every step keeps SessionOfPc.                                           *)
LEMMA SessionOfPcStep ==
    ASSUME Inv, NEW p \in Procs, Step(p)
    PROVE  SessionOfPc'
  <1>. USE DEF Inv, TypeOK, OtherSessionsDead, SessionOfPc, SessionOfTx, ResultOfPc, Attempts,
     Sess, Sessions
  <1>1. CASE Call(p)
    BY <1>1 DEF Call, Return
  <1>2. CASE BeginOk(p)
    BY <1>2 DEF BeginOk
  <1>3. CASE BeginError(p)
    BY <1>3 DEF BeginError, Decide, Return
  <1>4. CASE Statement(p)
    BY <1>4 DEF Statement
  <1>5. CASE FnOk(p)
    BY <1>5 DEF FnOk, FnReturns
  <1>6. CASE FnError(p)
    BY <1>6 DEF FnError, FnReturns
  <1>7. CASE FnDeadlock(p)
    BY <1>7 DEF FnDeadlock, FnReturns, EndSession
  <1>8. CASE FnLockWait(p)
    BY <1>8 DEF FnLockWait, FnReturns
  <1>9. CASE FnPanic(p)
    BY <1>9 DEF FnPanic
  <1>10. CASE FnGoexit(p)
    BY <1>10 DEF FnGoexit, Return
  <1>11. CASE RollbackOk(p)
    BY <1>11 DEF RollbackOk, EndSession, AfterRollback, Decide, Return
  <1>12. CASE RollbackFails(p)
    <2>1. CASE EndSession(Sess(p), "undone")
      BY <1>12, <2>1
         DEF Inv, TypeOK, Sess, Sessions, SessionOfPc, SessionOfTx, ResultOfPc, RollbackFails, AfterRollback, Return, EndSession
    <2>2. CASE LoseSession(Sess(p), srv[Sess(p)])
      <3>1. srv' = srv
        BY <2>2, SessTyped, LoseNothing DEF Inv
      <3>. QED
        BY <1>12, <3>1
           DEF Inv, TypeOK, Sess, SessionOfPc, SessionOfTx, ResultOfPc, RollbackFails, AfterRollback, Return
    <2>. QED
      BY <1>12, <2>1, <2>2 DEF RollbackFails
  <1>13. CASE RollbackTxDone(p)
    BY <1>13 DEF RollbackTxDone, AfterRollback, Return
  <1>14. CASE CommitOk(p)
    BY <1>14 DEF CommitOk, EndSession, Return
  <1>15. CASE CommitLockError(p)
    BY <1>15 DEF CommitLockError, EndSession, Decide, Return
  <1>16. CASE CommitLost(p)
    BY <1>16 DEF CommitLost, LoseSession, Decide, Return, isDeadlock
  <1>17. CASE CommitCtxEnded(p)
    BY <1>17 DEF CommitCtxEnded, Decide, Return, isDeadlock
  <1>18. CASE TimerFires(p)
    <2>1. \A q \in Procs \ {p} : attempt'[q] = attempt[q] /\ pc'[q] = pc[q]
      BY <1>18 DEF TimerFires, Inv, TypeOK
    <2>2. pc'[p] = "begin" /\ attempt'[p] = attempt[p] + 1
      BY <1>18 DEF TimerFires, Inv, TypeOK
    <2>3. attempt'[p] \in Attempts /\ attempt'[p] > attempt[p]
      BY <1>18, <2>2, TypeStep DEF Inv, TypeOK, Attempts, Step, Backoff
    <2>4. srv[<<p, attempt'[p]>>] = "unused"
      BY <2>3 DEF Inv, OtherSessionsDead
    <2>. HIDE DEF TypeOK, OtherSessionsDead, SessionOfTx, ResultOfPc, Attempts, Sessions
    <2>. QED
      BY <1>18, <2>1, <2>2, <2>4 DEF TimerFires, Inv, SessionOfPc, Sess
  <1>19. CASE BackoffCanceled(p)
    BY <1>19 DEF BackoffCanceled, Return
  <1>20. CASE CtxDone(p)
    BY <1>20 DEF CtxDone, procVars
  <1>21. CASE TxTimeout(p)
    BY <1>21 DEF TxTimeout, procVars
  <1>22. CASE AwaitDone(p)
    BY <1>22 DEF AwaitDone, procVars
  <1>23. CASE AwaitRollback(p)
    <2>1. CASE EndSession(Sess(p), "undone")
      BY <1>23, <2>1
         DEF Inv, TypeOK, Sess, Sessions, SessionOfPc, SessionOfTx, ResultOfPc, AwaitRollback, procVars, EndSession
    <2>2. CASE LoseSession(Sess(p), srv[Sess(p)])
      <3>1. srv' = srv
        BY <2>2, SessTyped, LoseNothing DEF Inv
      <3>. QED
        BY <1>23, <3>1
           DEF Inv, TypeOK, Sess, SessionOfPc, SessionOfTx, ResultOfPc, AwaitRollback, procVars
    <2>. QED
      BY <1>23, <2>1, <2>2 DEF AwaitRollback
  <1>. QED
    BY <1>1, <1>2, <1>3, <1>4, <1>5, <1>6, <1>7, <1>8, <1>9, <1>10, <1>11, <1>12,
       <1>13, <1>14, <1>15, <1>16, <1>17, <1>18, <1>19, <1>20, <1>21, <1>22, <1>23
    DEF Step, Fn, Finish, Backoff

(* Every step keeps SessionOfTx.                                           *)
LEMMA SessionOfTxStep ==
    ASSUME Inv, NEW p \in Procs, Step(p)
    PROVE  SessionOfTx'
  <1>. USE DEF Inv, TypeOK, SessionOfPc, SessionOfTx, Sess, Sessions
  <1>1. CASE Call(p)
    BY <1>1 DEF Call, Return
  <1>2. CASE BeginOk(p)
    BY <1>2 DEF BeginOk
  <1>3. CASE BeginError(p)
    BY <1>3 DEF BeginError, Decide, Return
  <1>4. CASE Statement(p)
    BY <1>4 DEF Statement
  <1>5. CASE FnOk(p)
    BY <1>5 DEF FnOk, FnReturns
  <1>6. CASE FnError(p)
    BY <1>6 DEF FnError, FnReturns
  <1>7. CASE FnDeadlock(p)
    BY <1>7 DEF FnDeadlock, FnReturns, EndSession
  <1>8. CASE FnLockWait(p)
    BY <1>8 DEF FnLockWait, FnReturns
  <1>9. CASE FnPanic(p)
    BY <1>9 DEF FnPanic
  <1>10. CASE FnGoexit(p)
    BY <1>10 DEF FnGoexit, Return
  <1>11. CASE RollbackOk(p)
    BY <1>11 DEF RollbackOk, EndSession, AfterRollback, Decide, Return
  <1>12. CASE RollbackFails(p)
    BY <1>12 DEF RollbackFails, EndSession, LoseSession, AfterRollback, Return
  <1>13. CASE RollbackTxDone(p)
    BY <1>13 DEF RollbackTxDone, AfterRollback, Return
  <1>14. CASE CommitOk(p)
    BY <1>14 DEF CommitOk, EndSession, Return
  <1>15. CASE CommitLockError(p)
    BY <1>15 DEF CommitLockError, EndSession, Decide, Return
  <1>16. CASE CommitLost(p)
    BY <1>16 DEF CommitLost, LoseSession, Decide, Return, isDeadlock
  <1>17. CASE CommitCtxEnded(p)
    BY <1>17 DEF CommitCtxEnded, Decide, Return, isDeadlock
  <1>18. CASE TimerFires(p)
    <2>1. \A q \in Procs \ {p} : attempt'[q] = attempt[q] /\ pc'[q] = pc[q]
      BY <1>18 DEF TimerFires, Inv, TypeOK
    <2>2. tx[p] = "none"
      BY <1>18 DEF TimerFires, Inv, SessionOfTx
    <2>. QED
      BY <1>18, <2>1, <2>2 DEF TimerFires, Inv, SessionOfTx, Sess
  <1>19. CASE BackoffCanceled(p)
    BY <1>19 DEF BackoffCanceled, Return
  <1>20. CASE CtxDone(p)
    BY <1>20 DEF CtxDone, procVars
  <1>21. CASE TxTimeout(p)
    BY <1>21 DEF TxTimeout, procVars
  <1>22. CASE AwaitDone(p)
    BY <1>22 DEF AwaitDone, procVars
  <1>23. CASE AwaitRollback(p)
    BY <1>23 DEF AwaitRollback, procVars, EndSession, LoseSession
  <1>. QED
    BY <1>1, <1>2, <1>3, <1>4, <1>5, <1>6, <1>7, <1>8, <1>9, <1>10, <1>11, <1>12,
       <1>13, <1>14, <1>15, <1>16, <1>17, <1>18, <1>19, <1>20, <1>21, <1>22, <1>23
    DEF Step, Fn, Finish, Backoff

(* Every step keeps ResultOfPc.                                            *)
LEMMA ResultStep ==
    ASSUME Inv, NEW p \in Procs, Step(p)
    PROVE  ResultOfPc'
  <1>. USE DEF Inv, TypeOK, SessionOfPc, SessionOfTx, ResultOfPc, Sess, Sessions
  <1>1. CASE Call(p)
    BY <1>1 DEF Call, Return
  <1>2. CASE BeginOk(p)
    BY <1>2 DEF BeginOk
  <1>3. CASE BeginError(p)
    BY <1>3 DEF BeginError, Decide, Return
  <1>4. CASE Statement(p)
    BY <1>4 DEF Statement
  <1>5. CASE FnOk(p)
    BY <1>5 DEF FnOk, FnReturns
  <1>6. CASE FnError(p)
    BY <1>6 DEF FnError, FnReturns
  <1>7. CASE FnDeadlock(p)
    BY <1>7 DEF FnDeadlock, FnReturns, EndSession
  <1>8. CASE FnLockWait(p)
    BY <1>8 DEF FnLockWait, FnReturns
  <1>9. CASE FnPanic(p)
    BY <1>9 DEF FnPanic
  <1>10. CASE FnGoexit(p)
    BY <1>10 DEF FnGoexit, Return
  <1>11. CASE RollbackOk(p)
    BY <1>11 DEF RollbackOk, EndSession, AfterRollback, Decide, Return
  <1>12. CASE RollbackFails(p)
    BY <1>12 DEF RollbackFails, EndSession, LoseSession, AfterRollback, Return
  <1>13. CASE RollbackTxDone(p)
    BY <1>13 DEF RollbackTxDone, AfterRollback, Return
  <1>14. CASE CommitOk(p)
    BY <1>14 DEF CommitOk, EndSession, Return
  <1>15. CASE CommitLockError(p)
    BY <1>15 DEF CommitLockError, EndSession, Decide, Return
  <1>16. CASE CommitLost(p)
    BY <1>16 DEF CommitLost, LoseSession, Decide, Return, isDeadlock
  <1>17. CASE CommitCtxEnded(p)
    BY <1>17 DEF CommitCtxEnded, Decide, Return, isDeadlock
  <1>18. CASE TimerFires(p)
    <2>1. \A q \in Procs \ {p} : attempt'[q] = attempt[q] /\ pc'[q] = pc[q]
      BY <1>18 DEF TimerFires, Inv, TypeOK
    <2>2. result[p] = "none" /\ pc'[p] = "begin"
      BY <1>18 DEF TimerFires, Inv, TypeOK, ResultOfPc
    <2>. QED
      BY <1>18, <2>1, <2>2 DEF TimerFires, Inv, ResultOfPc, Sess
  <1>19. CASE BackoffCanceled(p)
    BY <1>19 DEF BackoffCanceled, Return
  <1>20. CASE CtxDone(p)
    BY <1>20 DEF CtxDone, procVars
  <1>21. CASE TxTimeout(p)
    BY <1>21 DEF TxTimeout, procVars
  <1>22. CASE AwaitDone(p)
    BY <1>22 DEF AwaitDone, procVars
  <1>23. CASE AwaitRollback(p)
    BY <1>23 DEF AwaitRollback, procVars, EndSession, LoseSession
  <1>. QED
    BY <1>1, <1>2, <1>3, <1>4, <1>5, <1>6, <1>7, <1>8, <1>9, <1>10, <1>11, <1>12,
       <1>13, <1>14, <1>15, <1>16, <1>17, <1>18, <1>19, <1>20, <1>21, <1>22, <1>23
    DEF Step, Fn, Finish, Backoff

(* Every step keeps LocksOfTheLiving: an ended session has no locks.       *)
LEMMA LocksStep ==
    ASSUME Inv, NEW p \in Procs, Step(p)
    PROVE  LocksOfTheLiving'
  <1>. USE DEF Inv, TypeOK, SessionOfPc, SessionOfTx, LocksOfTheLiving, Sess, Sessions
  <1>1. CASE Call(p)
    BY <1>1 DEF Call
  <1>2. CASE BeginOk(p)
    BY <1>2 DEF BeginOk
  <1>3. CASE BeginError(p)
    BY <1>3 DEF BeginError
  <1>4. CASE Statement(p)
    BY <1>4 DEF Statement
  <1>5. CASE FnOk(p)
    BY <1>5 DEF FnOk, FnReturns
  <1>6. CASE FnError(p)
    BY <1>6 DEF FnError, FnReturns
  <1>7. CASE FnDeadlock(p)
    BY <1>7, SessTyped, EndSessionLocks DEF Inv, FnDeadlock
  <1>8. CASE FnLockWait(p)
    BY <1>8 DEF FnLockWait, FnReturns
  <1>9. CASE FnPanic(p)
    BY <1>9 DEF FnPanic
  <1>10. CASE FnGoexit(p)
    BY <1>10 DEF FnGoexit
  <1>11. CASE RollbackOk(p)
    BY <1>11, SessTyped, EndSessionLocks DEF Inv, RollbackOk
  <1>12. CASE RollbackFails(p)
    <2>1. CASE EndSession(Sess(p), "undone")
      BY <2>1, SessTyped, EndSessionLocks DEF Inv
    <2>2. CASE LoseSession(Sess(p), srv[Sess(p)])
      <3>1. srv' = srv /\ owner' = owner
        BY <2>2, SessTyped, LoseNothing DEF Inv
      <3>. QED
        BY <3>1 DEF Inv, LocksOfTheLiving
    <2>. QED
      BY <1>12, <2>1, <2>2 DEF RollbackFails
  <1>13. CASE RollbackTxDone(p)
    BY <1>13 DEF RollbackTxDone
  <1>14. CASE CommitOk(p)
    BY <1>14, SessTyped, EndSessionLocks DEF Inv, CommitOk
  <1>15. CASE CommitLockError(p)
    BY <1>15, SessTyped, EndSessionLocks DEF Inv, CommitLockError
  <1>16. CASE CommitLost(p)
    BY <1>16 DEF CommitLost, LoseSession
  <1>17. CASE CommitCtxEnded(p)
    BY <1>17 DEF CommitCtxEnded
  <1>18. CASE TimerFires(p)
    BY <1>18 DEF TimerFires
  <1>19. CASE BackoffCanceled(p)
    BY <1>19 DEF BackoffCanceled
  <1>20. CASE CtxDone(p)
    BY <1>20 DEF CtxDone, procVars
  <1>21. CASE TxTimeout(p)
    BY <1>21 DEF TxTimeout, procVars
  <1>22. CASE AwaitDone(p)
    BY <1>22 DEF AwaitDone, procVars
  <1>23. CASE AwaitRollback(p)
    <2>1. CASE EndSession(Sess(p), "undone")
      BY <2>1, SessTyped, EndSessionLocks DEF Inv
    <2>2. CASE LoseSession(Sess(p), srv[Sess(p)])
      <3>1. srv' = srv /\ owner' = owner
        BY <2>2, SessTyped, LoseNothing DEF Inv
      <3>. QED
        BY <3>1 DEF Inv, LocksOfTheLiving
    <2>. QED
      BY <1>23, <2>1, <2>2 DEF AwaitRollback
  <1>. QED
    BY <1>1, <1>2, <1>3, <1>4, <1>5, <1>6, <1>7, <1>8, <1>9, <1>10, <1>11, <1>12,
       <1>13, <1>14, <1>15, <1>16, <1>17, <1>18, <1>19, <1>20, <1>21, <1>22, <1>23
    DEF Step, Fn, Finish, Backoff

(* The reaping of an orphan keeps the invariant.                           *)
LEMMA ServerStep ==
    ASSUME Inv, NEW s \in Sessions, ServerReap(s)
    PROVE  Inv'
  <1>. USE DEF Inv
  <1>1. PICK to \in {"undone", "committed"} :
            /\ EndSession(s, to)
            /\ srv[s] \in {"active", "indoubt"}
            /\ to = "committed" => srv[s] = "indoubt"
    BY DEF ServerReap
  <1>2. UNCHANGED <<procVars, ctx, tx>> /\ Orphan(s)
    BY DEF ServerReap
  <1>3. \A t \in Sessions : srv'[t] = IF t = s THEN to ELSE srv[t]
    BY <1>1 DEF EndSession, TypeOK
  <1>4. \A p \in Procs : Sess(p) \in Sessions /\ Sess(p)' = Sess(p)
    BY <1>2, SessTyped DEF Sess, procVars
  <1>5. \A p \in Procs : tx[p] # "none" => srv'[Sess(p)] = srv[Sess(p)]
    BY <1>2, <1>3, <1>4 DEF Orphan, Sess, TypeOK
  <1>6. TypeOK'
    BY <1>1, <1>2, EndSessionTyped DEF ServerTyped, SrvStates, TypeOK, procVars
  <1>7. AttemptsInOrder'
    BY <1>2 DEF AttemptsInOrder, procVars
  <1>8. OtherSessionsDead'
    <2>. SUFFICES ASSUME NEW p \in Procs, NEW n \in Attempts
                  PROVE  /\ n > attempt[p] => srv'[<<p, n>>] = "unused"
                         /\ n < attempt[p] => srv'[<<p, n>>] \in {"unused", "undone"}
      BY <1>2 DEF OtherSessionsDead, procVars
    <2>1. <<p, n>> \in Sessions
      BY DEF Sessions
    <2>2. n # attempt[p] => <<p, n>> # s
      BY <1>1, OtherSessionsAre
    <2>. QED
      BY <1>3, <2>1, <2>2 DEF OtherSessionsDead, TypeOK, Attempts
  <1>9. SessionOfPc'
    BY <1>1, <1>2, <1>3, <1>4 DEF SessionOfPc, procVars
  <1>10. SessionOfTx'
    BY <1>2, <1>4, <1>5 DEF SessionOfTx, procVars
  <1>11. ResultOfPc'
    BY <1>1, <1>2, <1>3, <1>4 DEF ResultOfPc, procVars
  <1>12. LocksOfTheLiving'
    BY <1>1, EndSessionLocks
  <1>. QED
    BY <1>6, <1>7, <1>8, <1>9, <1>10, <1>11, <1>12

-----------------------------------------------------------------------------
(* Inv is inductive.                                                       *)

(* Before the first step nothing has happened anywhere.                    *)
LEMMA InvInit == Init => Inv
  <1>. SUFFICES ASSUME Init PROVE Inv
    OBVIOUS
  <1>1. TypeOK
    BY ConstantsAssumption DEF Init, TypeOK, Attempts, Sessions, SrvStates, Causes
  <1>. QED
    BY <1>1 DEF Init, Inv, TypeOK, AttemptsInOrder, OtherSessionsDead, SessionOfPc, SessionOfTx,
       ResultOfPc, LocksOfTheLiving, Sess, Sessions, Attempts

(* Every step keeps the invariant.                                         *)
LEMMA InvNext == Inv /\ [Next]_vars => Inv'
  <1>. SUFFICES ASSUME Inv, [Next]_vars PROVE Inv'
    OBVIOUS
  <1>1. ASSUME NEW p \in Procs, Step(p) PROVE Inv'
    BY <1>1, TypeStep, AttemptsStep, OtherSessionsStep, SessionOfPcStep, SessionOfTxStep,
       ResultStep, LocksStep DEF Inv
  <1>2. ASSUME NEW s \in Sessions, ServerReap(s) PROVE Inv'
    BY <1>2, ServerStep
  <1>3. CASE UNCHANGED vars
    BY <1>3 DEF vars, procVars, Inv, TypeOK, AttemptsInOrder, OtherSessionsDead, SessionOfPc,
       SessionOfTx, ResultOfPc, LocksOfTheLiving, Sess
  <1>. QED
    BY <1>1, <1>2, <1>3 DEF Next, Terminated

(* The invariant holds in every reachable state (execTx, withTxRetry).     *)
THEOREM Invariance == Spec => []Inv
  BY InvInit, InvNext, PTL DEF Spec

(* Every variable keeps its type; in particular the attempt never passes   *)
(* the number of retries asked for.                                        *)
THEOREM TypeCorrect == Spec => []TypeOK
  <1>1. Inv => TypeOK
    BY DEF Inv
  <1>. QED
    BY <1>1, Invariance, PTL

-----------------------------------------------------------------------------
(* However often WithTx runs fn, its effect is applied at most once.       *)
THEOREM AtMostOnce == Spec => []EffectAtMostOnce
  <1>1. Inv => EffectAtMostOnce
    <2>. SUFFICES ASSUME Inv, NEW p \in Procs, NEW m \in Attempts, NEW n \in Attempts,
                         srv[<<p, m>>] \in {"committed", "indoubt"},
                         srv[<<p, n>>] \in {"committed", "indoubt"}
                  PROVE  m = n
      BY DEF EffectAtMostOnce
    <2>1. \A k \in Attempts : srv[<<p, k>>] \in {"committed", "indoubt"} => k = attempt[p]
      BY OtherSessionsAre DEF Inv
    <2>. QED
      BY <2>1
  <1>. QED
    BY <1>1, Invariance, PTL

(* What WithTx returns tells whether the effect was applied.               *)
THEOREM ResultsAreTrue == Spec => []ResultTellsEffect
  <1>1. Inv => ResultTellsEffect
    <2>. SUFFICES ASSUME Inv, NEW p \in Procs, pc[p] = "returned", result[p] # "ok",
                         "commit" \notin err[p], NEW n \in Attempts
                  PROVE  srv[<<p, n>>] \notin {"committed", "indoubt"}
      BY DEF ResultTellsEffect, Inv, ResultOfPc
    <2>1. CASE n = attempt[p]
      BY <2>1 DEF Inv, SessionOfPc, Sess
    <2>2. CASE n # attempt[p]
      BY <2>2, OtherSessionsAre DEF Inv
    <2>. QED
      BY <2>1, <2>2
  <1>. QED
    BY <1>1, Invariance, PTL

(* Nothing of an earlier attempt survives into the backoff or the next     *)
(* attempt: no connection, no server transaction, no row lock.             *)
THEOREM RetriesStartClean == Spec => []DeadBeforeRetry
  <1>1. Inv => DeadBeforeRetry
    <2>. SUFFICES ASSUME Inv, NEW p \in Procs, pc[p] \in {"begin", "backoff"}
                  PROVE  /\ tx[p] = "none"
                         /\ \A n \in Attempts : srv[<<p, n>>] \in {"unused", "undone"}
                         /\ \A r \in Rows : \A n \in Attempts : owner[r] # <<p, n>>
      BY DEF DeadBeforeRetry
    <2>1. tx[p] = "none"
      BY DEF Inv, SessionOfTx
    <2>2. ASSUME NEW n \in Attempts
          PROVE  srv[<<p, n>>] \in {"unused", "undone"}
      <3>1. CASE n = attempt[p]
        BY <3>1 DEF Inv, SessionOfPc, Sess
      <3>2. CASE n # attempt[p]
        BY <3>2, OtherSessionsAre DEF Inv
      <3>. QED
        BY <3>1, <3>2
    <2>3. ASSUME NEW r \in Rows, NEW n \in Attempts
          PROVE  owner[r] # <<p, n>>
      <3>1. srv[<<p, n>>] \notin {"active", "indoubt"}
        BY <2>2
      <3>2. <<p, n>> # NoSession
        BY DEF NoSession
      <3>. QED
        BY <3>1, <3>2 DEF Inv, LocksOfTheLiving
    <2>. QED
      BY <2>1, <2>2, <2>3
  <1>. QED
    BY <1>1, Invariance, PTL

-----------------------------------------------------------------------------
(* What a call leaves behind and what the observer hears: Inv together     *)
(* with ClosingAfterCtx and with EventsOfPc is inductive.                  *)

(* Every step keeps ClosingAfterCtx: only awaitDone starts a rollback.     *)
LEMMA ClosingStep ==
    ASSUME Inv, ClosingAfterCtx, NEW p \in Procs, Step(p)
    PROVE  ClosingAfterCtx'
  <1>. USE DEF Inv, TypeOK, ClosingAfterCtx
  <1>1. CASE Call(p)
    BY <1>1 DEF Call
  <1>2. CASE BeginOk(p)
    BY <1>2 DEF BeginOk
  <1>3. CASE BeginError(p)
    BY <1>3 DEF BeginError
  <1>4. CASE Statement(p)
    BY <1>4 DEF Statement
  <1>5. CASE FnOk(p)
    BY <1>5 DEF FnOk, FnReturns
  <1>6. CASE FnError(p)
    BY <1>6 DEF FnError, FnReturns
  <1>7. CASE FnDeadlock(p)
    BY <1>7 DEF FnDeadlock, FnReturns
  <1>8. CASE FnLockWait(p)
    BY <1>8 DEF FnLockWait, FnReturns
  <1>9. CASE FnPanic(p)
    BY <1>9 DEF FnPanic
  <1>10. CASE FnGoexit(p)
    BY <1>10 DEF FnGoexit
  <1>11. CASE RollbackOk(p)
    BY <1>11 DEF RollbackOk
  <1>12. CASE RollbackFails(p)
    BY <1>12 DEF RollbackFails
  <1>13. CASE RollbackTxDone(p)
    BY <1>13 DEF RollbackTxDone
  <1>14. CASE CommitOk(p)
    BY <1>14 DEF CommitOk
  <1>15. CASE CommitLockError(p)
    BY <1>15 DEF CommitLockError
  <1>16. CASE CommitLost(p)
    BY <1>16 DEF CommitLost
  <1>17. CASE CommitCtxEnded(p)
    BY <1>17 DEF CommitCtxEnded
  <1>18. CASE TimerFires(p)
    BY <1>18 DEF TimerFires
  <1>19. CASE BackoffCanceled(p)
    BY <1>19 DEF BackoffCanceled
  <1>20. CASE CtxDone(p)
    BY <1>20 DEF CtxDone, procVars
  <1>21. CASE TxTimeout(p)
    BY <1>21 DEF TxTimeout, procVars
  <1>22. CASE AwaitDone(p)
    BY <1>22 DEF AwaitDone, procVars
  <1>23. CASE AwaitRollback(p)
    BY <1>23 DEF AwaitRollback, procVars
  <1>. QED
    BY <1>1, <1>2, <1>3, <1>4, <1>5, <1>6, <1>7, <1>8, <1>9, <1>10, <1>11, <1>12,
       <1>13, <1>14, <1>15, <1>16, <1>17, <1>18, <1>19, <1>20, <1>21, <1>22, <1>23
    DEF Step, Fn, Finish, Backoff

(* Every step keeps LeftoversExplained.                                    *)
LEMMA LeftoversStep ==
    ASSUME Inv, ClosingAfterCtx, LeftoversExplained, NEW p \in Procs, Step(p)
    PROVE  LeftoversExplained'
  <1>. USE DEF Inv, TypeOK, SessionOfPc, SessionOfTx, LeftoversExplained, Sess, Sessions
  <1>1. CASE Call(p)
    BY <1>1 DEF Call, Return
  <1>2. CASE BeginOk(p)
    BY <1>2 DEF BeginOk
  <1>3. CASE BeginError(p)
    BY <1>3 DEF BeginError, Decide, Return
  <1>4. CASE Statement(p)
    BY <1>4 DEF Statement
  <1>5. CASE FnOk(p)
    BY <1>5 DEF FnOk, FnReturns
  <1>6. CASE FnError(p)
    BY <1>6 DEF FnError, FnReturns
  <1>7. CASE FnDeadlock(p)
    BY <1>7 DEF FnDeadlock, FnReturns, EndSession
  <1>8. CASE FnLockWait(p)
    BY <1>8 DEF FnLockWait, FnReturns
  <1>9. CASE FnPanic(p)
    BY <1>9 DEF FnPanic
  <1>10. CASE FnGoexit(p)
    BY <1>10 DEF FnGoexit, Return
  <1>11. CASE RollbackOk(p)
    BY <1>11 DEF RollbackOk, EndSession, AfterRollback, Decide, Return
  <1>12. CASE RollbackFails(p)
    <2>1. tx'[p] = "none" /\ pc'[p] = "returned"
      BY <1>12 DEF RollbackFails, AfterRollback, Return
    <2>2. result'[p] = "panic" \/ "rollback" \in err'[p]
      BY <1>12 DEF RollbackFails, AfterRollback, Return
    <2>3. \A q \in Procs \ {p} :
             /\ pc'[q] = pc[q] /\ result'[q] = result[q] /\ err'[q] = err[q]
             /\ ctx'[q] = ctx[q] /\ tx'[q] = tx[q] /\ srv'[Sess(q)] = srv[Sess(q)]
      BY <1>12 DEF RollbackFails, AfterRollback, Return, EndSession, LoseSession
    <2>. QED
      BY <1>12, <2>1, <2>2, <2>3 DEF RollbackFails
  <1>13. CASE RollbackTxDone(p)
    <2>1. tx[p] # "none" => ctx[p] # "live"
      BY <1>13 DEF RollbackTxDone, ClosingAfterCtx
    <2>2. result'[p] = "panic" \/ "rollback" \in err'[p]
      BY <1>13 DEF RollbackTxDone, AfterRollback, Return
    <2>3. \A q \in Procs \ {p} :
             pc'[q] = pc[q] /\ result'[q] = result[q] /\ err'[q] = err[q]
      BY <1>13 DEF RollbackTxDone, AfterRollback, Return
    <2>. QED
      BY <1>13, <2>1, <2>2, <2>3 DEF RollbackTxDone
  <1>14. CASE CommitOk(p)
    BY <1>14 DEF CommitOk, EndSession, Return
  <1>15. CASE CommitLockError(p)
    BY <1>15 DEF CommitLockError, EndSession, Decide, Return
  <1>16. CASE CommitLost(p)
    <2>1. tx'[p] = "none" /\ pc'[p] = "returned" /\ "commit" \in err'[p]
      BY <1>16 DEF CommitLost, Decide, Return, isDeadlock
    <2>2. \A q \in Procs \ {p} :
             /\ pc'[q] = pc[q] /\ result'[q] = result[q] /\ err'[q] = err[q]
             /\ ctx'[q] = ctx[q] /\ tx'[q] = tx[q] /\ srv'[Sess(q)] = srv[Sess(q)]
      BY <1>16 DEF CommitLost, Decide, Return, LoseSession, isDeadlock
    <2>. QED
      BY <1>16, <2>1, <2>2 DEF CommitLost
  <1>17. CASE CommitCtxEnded(p)
    BY <1>17 DEF CommitCtxEnded, Decide, Return, isDeadlock
  <1>18. CASE TimerFires(p)
    BY <1>18 DEF TimerFires
  <1>19. CASE BackoffCanceled(p)
    BY <1>19 DEF BackoffCanceled, Return
  <1>20. CASE CtxDone(p)
    BY <1>20 DEF CtxDone, procVars
  <1>21. CASE TxTimeout(p)
    BY <1>21 DEF TxTimeout, procVars
  <1>22. CASE AwaitDone(p)
    BY <1>22 DEF AwaitDone, procVars
  <1>23. CASE AwaitRollback(p)
    BY <1>23 DEF AwaitRollback, procVars, EndSession, LoseSession
  <1>. QED
    BY <1>1, <1>2, <1>3, <1>4, <1>5, <1>6, <1>7, <1>8, <1>9, <1>10, <1>11, <1>12,
       <1>13, <1>14, <1>15, <1>16, <1>17, <1>18, <1>19, <1>20, <1>21, <1>22, <1>23
    DEF Step, Fn, Finish, Backoff

(* Every step keeps EventsOfPc.                                            *)
LEMMA EventsStep ==
    ASSUME Inv, EventsOfPc, NEW p \in Procs, Step(p)
    PROVE  EventsOfPc'
  <1>. USE DEF Inv, TypeOK, Attempts, EventsOfPc, isDeadlock
  <1>1. CASE Call(p)
    BY <1>1 DEF Call, Return
  <1>2. CASE BeginOk(p)
    BY <1>2 DEF BeginOk
  <1>3. CASE BeginError(p)
    BY <1>3 DEF BeginError, Decide, Return
  <1>4. CASE Statement(p)
    BY <1>4 DEF Statement
  <1>5. CASE FnOk(p)
    BY <1>5 DEF FnOk, FnReturns
  <1>6. CASE FnError(p)
    <2>1. PICK causes \in {{"other"}, {"ctx"}} : FnReturns(p, causes)
      BY <1>6 DEF FnError
    <2>. QED
      BY <1>6, <2>1 DEF FnError, FnReturns
  <1>7. CASE FnDeadlock(p)
    BY <1>7 DEF FnDeadlock, FnReturns
  <1>8. CASE FnLockWait(p)
    BY <1>8 DEF FnLockWait, FnReturns
  <1>9. CASE FnPanic(p)
    BY <1>9 DEF FnPanic
  <1>10. CASE FnGoexit(p)
    BY <1>10 DEF FnGoexit, Return
  <1>11. CASE RollbackOk(p)
    BY <1>11 DEF RollbackOk, AfterRollback, Decide, Return
  <1>12. CASE RollbackFails(p)
    BY <1>12 DEF RollbackFails, AfterRollback, Return
  <1>13. CASE RollbackTxDone(p)
    BY <1>13 DEF RollbackTxDone, AfterRollback, Return
  <1>14. CASE CommitOk(p)
    BY <1>14 DEF CommitOk, Return
  <1>15. CASE CommitLockError(p)
    BY <1>15 DEF CommitLockError, Decide, Return
  <1>16. CASE CommitLost(p)
    BY <1>16 DEF CommitLost, Decide, Return, isDeadlock
  <1>17. CASE CommitCtxEnded(p)
    BY <1>17 DEF CommitCtxEnded, Decide, Return, isDeadlock
  <1>18. CASE TimerFires(p)
    BY <1>18 DEF TimerFires
  <1>19. CASE BackoffCanceled(p)
    BY <1>19 DEF BackoffCanceled, Return
  <1>20. CASE CtxDone(p)
    BY <1>20 DEF CtxDone, procVars
  <1>21. CASE TxTimeout(p)
    BY <1>21 DEF TxTimeout, procVars
  <1>22. CASE AwaitDone(p)
    BY <1>22 DEF AwaitDone, procVars
  <1>23. CASE AwaitRollback(p)
    BY <1>23 DEF AwaitRollback, procVars
  <1>. QED
    BY <1>1, <1>2, <1>3, <1>4, <1>5, <1>6, <1>7, <1>8, <1>9, <1>10, <1>11, <1>12,
       <1>13, <1>14, <1>15, <1>16, <1>17, <1>18, <1>19, <1>20, <1>21, <1>22, <1>23
    DEF Step, Fn, Finish, Backoff

(* Every step keeps RetryAccounting.                                       *)
LEMMA AccountingStep ==
    ASSUME Inv, EventsOfPc, RetryAccounting, NEW p \in Procs, Step(p)
    PROVE  RetryAccounting'
  <1>. USE DEF Inv, TypeOK, Attempts, AttemptsInOrder, ResultOfPc, EventsOfPc, RetryAccounting, isDeadlock
  <1>1. CASE Call(p)
    BY <1>1 DEF Call, Return
  <1>2. CASE BeginOk(p)
    BY <1>2 DEF BeginOk
  <1>3. CASE BeginError(p)
    BY <1>3 DEF BeginError, Decide, Return
  <1>4. CASE Statement(p)
    BY <1>4 DEF Statement
  <1>5. CASE FnOk(p)
    BY <1>5 DEF FnOk, FnReturns
  <1>6. CASE FnError(p)
    <2>1. PICK causes \in {{"other"}, {"ctx"}} : FnReturns(p, causes)
      BY <1>6 DEF FnError
    <2>. QED
      BY <1>6, <2>1 DEF FnError, FnReturns
  <1>7. CASE FnDeadlock(p)
    BY <1>7 DEF FnDeadlock, FnReturns
  <1>8. CASE FnLockWait(p)
    BY <1>8 DEF FnLockWait, FnReturns
  <1>9. CASE FnPanic(p)
    BY <1>9 DEF FnPanic
  <1>10. CASE FnGoexit(p)
    BY <1>10 DEF FnGoexit, Return
  <1>11. CASE RollbackOk(p)
    BY <1>11 DEF RollbackOk, AfterRollback, Decide, Return
  <1>12. CASE RollbackFails(p)
    BY <1>12 DEF RollbackFails, AfterRollback, Return
  <1>13. CASE RollbackTxDone(p)
    BY <1>13 DEF RollbackTxDone, AfterRollback, Return
  <1>14. CASE CommitOk(p)
    BY <1>14 DEF CommitOk, Return
  <1>15. CASE CommitLockError(p)
    BY <1>15 DEF CommitLockError, Decide, Return
  <1>16. CASE CommitLost(p)
    BY <1>16 DEF CommitLost, Decide, Return, isDeadlock
  <1>17. CASE CommitCtxEnded(p)
    BY <1>17 DEF CommitCtxEnded, Decide, Return, isDeadlock
  <1>18. CASE TimerFires(p)
    BY <1>18 DEF TimerFires
  <1>19. CASE BackoffCanceled(p)
    BY <1>19 DEF BackoffCanceled, Return
  <1>20. CASE CtxDone(p)
    BY <1>20 DEF CtxDone, procVars
  <1>21. CASE TxTimeout(p)
    BY <1>21 DEF TxTimeout, procVars
  <1>22. CASE AwaitDone(p)
    BY <1>22 DEF AwaitDone, procVars
  <1>23. CASE AwaitRollback(p)
    BY <1>23 DEF AwaitRollback, procVars
  <1>. QED
    BY <1>1, <1>2, <1>3, <1>4, <1>5, <1>6, <1>7, <1>8, <1>9, <1>10, <1>11, <1>12,
       <1>13, <1>14, <1>15, <1>16, <1>17, <1>18, <1>19, <1>20, <1>21, <1>22, <1>23
    DEF Step, Fn, Finish, Backoff

(* A server step does not touch what ClosingAfterCtx, EventsOfPc and       *)
(* RetryAccounting speak of, and it ends sessions: LeftoversExplained.     *)
LEMMA ServerLeavesCalls ==
    ASSUME Inv, NEW s \in Sessions, ServerReap(s)
    PROVE  /\ ClosingAfterCtx => ClosingAfterCtx'
           /\ LeftoversExplained => LeftoversExplained'
           /\ EventsOfPc => EventsOfPc'
           /\ RetryAccounting => RetryAccounting'
  <1>1. UNCHANGED <<procVars, ctx, tx>>
    BY DEF ServerReap
  <1>2. \A q \in Procs : srv'[Sess(q)] \in {"active", "indoubt"} => srv'[Sess(q)] = srv[Sess(q)]
    <2>1. PICK to \in {"undone", "committed"} : EndSession(s, to)
      BY DEF ServerReap
    <2>. QED
      BY <2>1, SessTyped DEF EndSession, Inv, TypeOK
  <1>3. \A q \in Procs : Sess(q)' = Sess(q)
    BY <1>1 DEF Sess, procVars
  <1>. QED
    BY <1>1, <1>2, <1>3
    DEF procVars, ClosingAfterCtx, LeftoversExplained, EventsOfPc, RetryAccounting

(* What a call leaves behind when it returns is explained by its result,   *)
(* its error or the end of its context.                                    *)
THEOREM LeftoversAreExplained == Spec => []LeftoversExplained
  <1>. DEFINE Left == ClosingAfterCtx /\ LeftoversExplained
  <1>1. Init => Left
    BY DEF Init, ClosingAfterCtx, LeftoversExplained
  <1>2. Inv /\ Left /\ [Next]_vars => Left'
    <2>. SUFFICES ASSUME Inv, Left, [Next]_vars PROVE Left'
      OBVIOUS
    <2>1. ASSUME NEW p \in Procs, Step(p) PROVE Left'
      BY <2>1, ClosingStep, LeftoversStep
    <2>2. ASSUME NEW s \in Sessions, ServerReap(s) PROVE Left'
      BY <2>2, ServerLeavesCalls
    <2>3. CASE UNCHANGED vars
      BY <2>3 DEF vars, procVars, ClosingAfterCtx, LeftoversExplained, Sess
    <2>. QED
      BY <2>1, <2>2, <2>3 DEF Next, Terminated
  <1>. QED
    BY <1>1, <1>2, Invariance, PTL DEF Spec

(* The observer hears of every retry once, before its wait, and of nothing *)
(* else; a failed rollback ends the call with the error of fn beside it.   *)
THEOREM RetriesAreAccounted == Spec => []RetryAccounting
  <1>. DEFINE Counted == EventsOfPc /\ RetryAccounting
  <1>1. Init => Counted
    BY ConstantsAssumption DEF Init, EventsOfPc, RetryAccounting, Attempts
  <1>2. Inv /\ Counted /\ [Next]_vars => Counted'
    <2>. SUFFICES ASSUME Inv, Counted, [Next]_vars PROVE Counted'
      OBVIOUS
    <2>1. ASSUME NEW p \in Procs, Step(p) PROVE Counted'
      BY <2>1, EventsStep, AccountingStep
    <2>2. ASSUME NEW s \in Sessions, ServerReap(s) PROVE Counted'
      BY <2>2, ServerLeavesCalls
    <2>3. CASE UNCHANGED vars
      BY <2>3 DEF vars, procVars, EventsOfPc, RetryAccounting
    <2>. QED
      BY <2>1, <2>2, <2>3 DEF Next, Terminated
  <1>. QED
    BY <1>1, <1>2, Invariance, PTL DEF Spec

-----------------------------------------------------------------------------
(* The refinement of AtomicTx.                                             *)

(* Some attempt of the call is committed: what effect[p] is mapped to.     *)
Effect(p) == \E n \in Attempts : srv[<<p, n>>] = "committed"

(* The four outcomes of a call.                                            *)
LEMMA OutcomeIs ==
    ASSUME NEW p \in Procs
    PROVE  /\ pc[p] # "returned" => Outcome(p) = "pending"
           /\ pc[p] = "returned" /\ result[p] = "ok" => Outcome(p) = "ok"
           /\ pc[p] = "returned" /\ result[p] # "ok" /\ "commit" \in err[p] =>
                  Outcome(p) = "unknown"
           /\ pc[p] = "returned" /\ result[p] # "ok" /\ "commit" \notin err[p] =>
                  Outcome(p) = "failed"
  BY DEF Outcome

(* A call that has not returned has no effect, and nil means an effect.    *)
LEMMA EffectOfPc ==
    ASSUME Inv, NEW p \in Procs
    PROVE  /\ pc[p] # "returned" => ~Effect(p)
           /\ pc[p] = "returned" /\ result[p] = "ok" => Effect(p)
  <1>1. ASSUME Effect(p) PROVE srv[Sess(p)] = "committed"
    <2>1. PICK n \in Attempts : srv[<<p, n>>] = "committed"
      BY <1>1 DEF Effect
    <2>2. n = attempt[p]
      BY <2>1, OtherSessionsAre DEF Inv
    <2>. QED
      BY <2>1, <2>2 DEF Sess
  <1>2. pc[p] # "returned" => srv[Sess(p)] # "committed"
    BY DEF Inv, TypeOK, SessionOfPc
  <1>3. result[p] = "ok" => Effect(p)
    BY DEF Inv, TypeOK, ResultOfPc, Effect, Sess
  <1>. QED
    BY <1>1, <1>2, <1>3 DEF Inv, SessionOfPc

(* A step of one call changes neither outcome nor effect of another.       *)
LEMMA OthersKeep ==
    ASSUME Inv, NEW p \in Procs, Step(p), NEW q \in Procs, q # p
    PROVE  Outcome(q)' = Outcome(q) /\ Effect(q)' = Effect(q)
  <1>1. pc'[q] = pc[q] /\ result'[q] = result[q] /\ err'[q] = err[q]
    BY DEF Inv, TypeOK, Step, Fn, Finish, Backoff, Call, BeginOk, BeginError, Statement, FnOk,
       FnError, FnDeadlock, FnLockWait, FnPanic, FnGoexit, FnReturns, RollbackOk, RollbackFails,
       RollbackTxDone, CommitOk, CommitLockError, CommitLost, CommitCtxEnded, TimerFires,
       BackoffCanceled, CtxDone, TxTimeout, AwaitDone, AwaitRollback, AfterRollback, Decide,
       Return, procVars
  <1>2. srv' = srv \/ \E to : srv' = [srv EXCEPT ![Sess(p)] = to]
    BY DEF Step, Fn, Finish, Backoff, Call, BeginOk, BeginError, Statement, FnOk, FnError,
       FnDeadlock, FnLockWait, FnPanic, FnGoexit, RollbackOk, RollbackFails, RollbackTxDone,
       CommitOk, CommitLockError, CommitLost, CommitCtxEnded, TimerFires, BackoffCanceled,
       CtxDone, TxTimeout, AwaitDone, AwaitRollback, EndSession, LoseSession
  <1>3. \A n \in Attempts : srv'[<<q, n>>] = srv[<<q, n>>]
    BY <1>2 DEF Inv, TypeOK, Sess, Sessions
  <1>. QED
    BY <1>1, <1>3 DEF Outcome, Effect

(* Only a COMMIT that is answered makes an effect happen in a step of the  *)
(* call itself, and a call that has returned keeps outcome and effect.     *)
LEMMA OwnStep ==
    ASSUME Inv, NEW p \in Procs, Step(p)
    PROVE  /\ Effect(p)' => Effect(p) \/ result'[p] = "ok"
           /\ pc[p] = "returned" => Outcome(p)' = Outcome(p) /\ (Effect(p) => Effect(p)')
  <1>1. CASE CommitOk(p)
    BY <1>1 DEF CommitOk, Return, Inv, TypeOK
  <1>2. CASE ~CommitOk(p)
    <2>1. \/ srv' = srv
          \/ \E to \in {"active", "undone", "indoubt"} : srv' = [srv EXCEPT ![Sess(p)] = to]
          \/ LoseSession(Sess(p), srv[Sess(p)])
      BY <1>2 DEF Step, Fn, Finish, Backoff, Call, BeginOk, BeginError, Statement, FnOk, FnError,
         FnDeadlock, FnLockWait, FnPanic, FnGoexit, RollbackOk, RollbackFails, RollbackTxDone,
         CommitLockError, CommitLost, CommitCtxEnded, TimerFires, BackoffCanceled,
         CtxDone, TxTimeout, AwaitDone, AwaitRollback, EndSession, LoseSession
    <2>2. \A s \in Sessions : srv'[s] = "committed" => srv[s] = "committed"
      BY <2>1, LoseNothing, SessTyped DEF Inv, TypeOK
    <2>3. Effect(p)' => Effect(p)
      BY <2>2 DEF Effect, Sessions
    <2>4. ASSUME pc[p] = "returned"
          PROVE  Outcome(p)' = Outcome(p) /\ (Effect(p) => Effect(p)')
      <3>1. CtxDone(p) \/ TxTimeout(p) \/ AwaitDone(p) \/ AwaitRollback(p)
        BY <2>4 DEF Step, Fn, Finish, Backoff, Call, BeginOk, BeginError, Statement, FnOk,
           FnError, FnDeadlock, FnLockWait, FnPanic, FnGoexit, RollbackOk, RollbackFails,
           RollbackTxDone, CommitOk, CommitLockError, CommitLost, CommitCtxEnded, TimerFires,
           BackoffCanceled
      <3>2. UNCHANGED procVars
        BY <3>1 DEF CtxDone, TxTimeout, AwaitDone, AwaitRollback
      <3>3. Outcome(p)' = Outcome(p)
        BY <3>2 DEF Outcome, procVars
      <3>4. \A s \in Sessions : srv[s] = "committed" => srv'[s] = "committed"
        <4>1. CASE AwaitRollback(p)
          <5>1. srv[Sess(p)] # "committed"
            BY <4>1 DEF AwaitRollback, Inv, SessionOfTx
          <5>. QED
            BY <4>1, <5>1 DEF AwaitRollback, EndSession, LoseSession, Inv, TypeOK
        <4>2. CASE ~AwaitRollback(p)
          BY <3>1, <4>2 DEF CtxDone, TxTimeout, AwaitDone
        <4>. QED
          BY <4>1, <4>2
      <3>. QED
        BY <3>3, <3>4 DEF Effect, Sessions
    <2>. QED
      BY <2>3, <2>4
  <1>3. CommitOk(p) => pc[p] # "returned"
    BY DEF CommitOk
  <1>. QED
    BY <1>1, <1>2, <1>3

(* What the mapped variables become when one call moves as AtomicTx lets   *)
(* it: a step of AtomicTx, or none at all.                                 *)
LEMMA AtomicStep ==
    ASSUME NEW p \in Procs,
           \A q \in Procs \ {p} : Outcome(q)' = Outcome(q) /\ Effect(q)' = Effect(q),
           \/ Outcome(p)' = Outcome(p) /\ Effect(p)' = Effect(p)
           \/ Outcome(p) = "pending" /\ Outcome(p)' = "ok" /\ ~Effect(p) /\ Effect(p)'
           \/ /\ Outcome(p) = "pending" /\ Outcome(p)' \in {"failed", "unknown"}
              /\ Effect(p)' = Effect(p)
           \/ Outcome(p) = "unknown" /\ Outcome(p)' = Outcome(p) /\ ~Effect(p) /\ Effect(p)'
    PROVE  [Atomic!Next]_(Atomic!vars)
  <1>. USE DEF Effect
  <1>1. CASE Outcome(p)' = Outcome(p) /\ Effect(p)' = Effect(p)
    BY <1>1 DEF Atomic!vars
  <1>2. CASE Outcome(p) = "pending" /\ Outcome(p)' = "ok" /\ ~Effect(p) /\ Effect(p)'
    BY <1>2 DEF Atomic!Next, Atomic!Succeed, Atomic!End, Atomic!Happen
  <1>3. CASE /\ Outcome(p) = "pending" /\ Outcome(p)' \in {"failed", "unknown"}
             /\ Effect(p)' = Effect(p)
    BY <1>3 DEF Atomic!Next, Atomic!Fail, Atomic!Doubt, Atomic!End
  <1>4. CASE Outcome(p) = "unknown" /\ Outcome(p)' = Outcome(p) /\ ~Effect(p) /\ Effect(p)'
    BY <1>4 DEF Atomic!Next, Atomic!LateEffect, Atomic!Happen
  <1>. QED
    BY <1>1, <1>2, <1>3, <1>4

(* A step of a call is a step of AtomicTx or changes neither its outcome   *)
(* nor its effect.                                                         *)
LEMMA CallRefines ==
    ASSUME Inv, Inv', NEW p \in Procs, Step(p)
    PROVE  [Atomic!Next]_(Atomic!vars)
  <1>1. \A q \in Procs \ {p} : Outcome(q)' = Outcome(q) /\ Effect(q)' = Effect(q)
    BY OthersKeep
  <1>2. Effect(p) \in BOOLEAN /\ Effect(p)' \in BOOLEAN
    BY DEF Effect
  <1>3. CASE pc[p] = "returned"
    <2>1. Outcome(p)' = Outcome(p) /\ (Effect(p) => Effect(p)')
      BY <1>3, OwnStep
    <2>2. CASE Effect(p) <=> Effect(p)'
      BY <1>1, <1>2, <2>1, <2>2, AtomicStep
    <2>3. CASE ~Effect(p) /\ Effect(p)'
      <3>1. result'[p] = "ok"
        BY <2>3, OwnStep
      <3>2. result[p] = "ok"
        BY <1>3, <2>1, <3>1 DEF Outcome, Inv, ResultOfPc
      <3>. QED
        BY <1>3, <2>3, <3>2, EffectOfPc
    <2>. QED
      BY <2>1, <2>2, <2>3
  <1>4. CASE pc[p] # "returned"
    <2>1. Outcome(p) = "pending" /\ ~Effect(p)
      BY <1>4, OutcomeIs, EffectOfPc
    <2>2. CASE pc'[p] # "returned"
      <3>1. Outcome(p)' = "pending"
        BY <2>2 DEF Outcome
      <3>2. result'[p] # "ok"
        BY <2>2 DEF Inv, ResultOfPc
      <3>3. ~Effect(p)'
        BY <2>1, <3>2, OwnStep
      <3>. QED
        BY <1>1, <1>2, <2>1, <3>1, <3>3, AtomicStep
    <2>3. CASE pc'[p] = "returned" /\ result'[p] = "ok"
      <3>1. Outcome(p)' = "ok"
        BY <2>3 DEF Outcome
      <3>2. srv'[Sess(p)'] = "committed" /\ attempt'[p] \in Attempts
        BY <2>3 DEF Inv, TypeOK, ResultOfPc
      <3>3. Effect(p)'
        BY <3>2 DEF Effect, Sess
      <3>. QED
        BY <1>1, <2>1, <3>1, <3>3, AtomicStep
    <2>4. CASE pc'[p] = "returned" /\ result'[p] # "ok"
      <3>1. Outcome(p)' \in {"failed", "unknown"}
        BY <2>4 DEF Outcome
      <3>2. ~Effect(p)'
        BY <2>1, <2>4, OwnStep
      <3>. QED
        BY <1>1, <1>2, <2>1, <3>1, <3>2, AtomicStep
    <2>. QED
      BY <2>2, <2>3, <2>4
  <1>. QED
    BY <1>3, <1>4

(* The server executes a COMMIT late only for a call that has returned and *)
(* reported the commit as lost; to its caller nothing else shows.          *)
LEMMA ServerRefines ==
    ASSUME Inv, NEW s \in Sessions, ServerReap(s)
    PROVE  [Atomic!Next]_(Atomic!vars)
  <1>1. PICK p \in Procs, n \in Attempts : s = <<p, n>>
    BY DEF Sessions
  <1>2. \A q \in Procs : Outcome(q)' = Outcome(q)
    BY DEF ServerReap, Outcome, procVars
  <1>3. PICK to \in {"undone", "committed"} :
            /\ srv' = [srv EXCEPT ![s] = to]
            /\ srv[s] \in {"active", "indoubt"}
            /\ to = "committed" => srv[s] = "indoubt"
    BY DEF ServerReap, EndSession
  <1>4. \A t \in Sessions : srv'[t] = IF t = s THEN to ELSE srv[t]
    BY <1>3 DEF Inv, TypeOK
  <1>5. \A q \in Procs \ {p} : Effect(q)' = Effect(q)
    BY <1>1, <1>4 DEF Effect, Sessions
  <1>6. s = Sess(p)
    BY <1>1, <1>3, OtherSessionsAre DEF Inv, Sess
  <1>7. CASE to = "undone"
    <2>1. \A m \in Attempts : srv'[<<p, m>>] = "committed" <=> srv[<<p, m>>] = "committed"
      BY <1>3, <1>4, <1>7 DEF Sessions
    <2>2. Effect(p)' = Effect(p)
      BY <2>1 DEF Effect
    <2>. QED
      BY <1>2, <1>5, <2>2, AtomicStep
  <1>8. CASE to = "committed"
    <2>1. srv[Sess(p)] = "indoubt"
      BY <1>3, <1>6, <1>8
    <2>2. pc[p] = "returned"
      BY <2>1 DEF Inv, TypeOK, SessionOfPc
    <2>3. result[p] # "ok"
      BY <2>1 DEF Inv, ResultOfPc
    <2>4. Outcome(p) = "unknown"
      BY <2>1, <2>2, <2>3, OutcomeIs DEF Inv, SessionOfPc
    <2>5. ~Effect(p)
      <3>1. \A m \in Attempts : srv[<<p, m>>] # "committed"
        BY <2>1, OtherSessionsAre DEF Inv, Sess
      <3>. QED
        BY <3>1 DEF Effect
    <2>6. Effect(p)'
      BY <1>1, <1>4, <1>8 DEF Effect
    <2>. QED
      BY <1>2, <1>5, <2>4, <2>5, <2>6, AtomicStep
  <1>. QED
    BY <1>7, <1>8

(* WithTx keeps the promise of AtomicTx: a call ends once and its effect   *)
(* happens as a whole, at most once, and as its result says.               *)
THEOREM WithTxImplementsAtomicTx == Spec => ImplementsAtomicTx
  <1>1. Init => Atomic!Init
    BY DEF Init, Atomic!Init, Outcome, Sessions
  <1>2. Inv /\ Inv' /\ [Next]_vars => [Atomic!Next]_(Atomic!vars)
    <2>. SUFFICES ASSUME Inv, Inv', [Next]_vars PROVE [Atomic!Next]_(Atomic!vars)
      OBVIOUS
    <2>1. ASSUME NEW p \in Procs, Step(p) PROVE [Atomic!Next]_(Atomic!vars)
      BY <2>1, CallRefines
    <2>2. ASSUME NEW s \in Sessions, ServerReap(s) PROVE [Atomic!Next]_(Atomic!vars)
      BY <2>2, ServerRefines
    <2>3. CASE UNCHANGED vars
      BY <2>3 DEF vars, procVars, Atomic!vars, Outcome
    <2>. QED
      BY <2>1, <2>2, <2>3 DEF Next, Terminated
  <1>. QED
    BY <1>1, <1>2, Invariance, PTL DEF Spec, ImplementsAtomicTx, Atomic!Spec
=============================================================================
