------------------------------ MODULE AtomicTx ------------------------------
(***************************************************************************)
(* What Client.WithTx promises its caller, with attempts, connections and  *)
(* locks left out: a call ends once, and its effect on the database        *)
(* happens as a whole and at most once.  nil means it happened, an error   *)
(* means it did not, except for the one error that leaves it open: the     *)
(* connection broke while the COMMIT was under way.                        *)
(***************************************************************************)
CONSTANT Procs

VARIABLES
    outcome,    \* what the caller of p knows
    effect      \* the changes of p are in the database

vars == <<outcome, effect>>

Outcomes == {"pending", "ok", "failed", "unknown"}

Init ==
    /\ outcome = [p \in Procs |-> "pending"]
    /\ effect = [p \in Procs |-> FALSE]

End(p, o) == outcome[p] = "pending" /\ outcome' = [outcome EXCEPT ![p] = o]

Happen(p) == ~effect[p] /\ effect' = [effect EXCEPT ![p] = TRUE]

Succeed(p) == End(p, "ok") /\ Happen(p)

Fail(p) == End(p, "failed") /\ UNCHANGED effect

Doubt(p) == End(p, "unknown") /\ UNCHANGED effect

(* The server executes the COMMIT whose answer was lost.                   *)
LateEffect(p) == outcome[p] = "unknown" /\ Happen(p) /\ UNCHANGED outcome

Next == \E p \in Procs : Succeed(p) \/ Fail(p) \/ Doubt(p) \/ LateEffect(p)

Spec == Init /\ [][Next]_vars
=============================================================================
