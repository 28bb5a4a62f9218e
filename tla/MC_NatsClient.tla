--------------------------- MODULE MC_NatsClient ---------------------------
(* Model-checking instance of NatsClient: one task polling the transport,  *)
(* one subscription, and two pinger breaches, each a call of               *)
(* trigger_reconnect, so that a breach is never refused for want of one.   *)
EXTENDS NatsClient

CONSTANTS poller, b1, b2, s1

MCObservers == {poller}
MCBreaches == {b1, b2}
MCSids == {s1}

=============================================================================
