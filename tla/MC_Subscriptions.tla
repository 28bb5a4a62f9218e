------------------------- MODULE MC_Subscriptions -------------------------
(* Model-checking instance of Subscriptions: one user subscription and    *)
(* one request sharing the registry and the multiplexer.                  *)
EXTENDS Subscriptions

CONSTANTS s1, q1

MCSids == {s1}
MCReqs == {q1}

=============================================================================
