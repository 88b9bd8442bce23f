----------------------------- MODULE MCTxRetry -----------------------------
(***************************************************************************)
(* Two goroutines that lock two rows in opposite orders.                   *)
(***************************************************************************)
EXTENDS TxRetry, TLC

CONSTANTS p1, p2, r1, r2

MCProcs == {p1, p2}
MCRows == {r1, r2}
MCPlan == (p1 :> <<r1, r2>>) @@ (p2 :> <<r2, r1>>)
MCRetryArgs == {-1}
=============================================================================
