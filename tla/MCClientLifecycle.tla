------------------------- MODULE MCClientLifecycle -------------------------
(* Two Clients, each on a pool of its own or on the one shared pool.       *)
EXTENDS ClientLifecycle, TLC

MCPingRetries == {-1, 1}
MCLimits == {3}
MCSymmetry == Permutations(Clients)
=============================================================================
