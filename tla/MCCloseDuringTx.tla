-------------------------- MODULE MCCloseDuringTx --------------------------
(* CloseDuringTx with the constants' values for TLC.                       *)
EXTENDS CloseDuringTx, TLC

CONSTANTS p1, p2, r1, k1

MCProcs       == {p1, p2}
MCRows        == {r1}
MCPlan        == (p1 :> <<r1>>) @@ (p2 :> << >>)
MCRetryArgs   == {1}
MCClosers     == {k1}
=============================================================================
