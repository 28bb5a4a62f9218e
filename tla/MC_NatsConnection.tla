------------------------- MODULE MC_NatsConnection -------------------------
(* Model-checking instance of NatsConnection: two polling tasks (the       *)
(* multiplexer's stream and the sender's sink), one pinger breach, two     *)
(* failed dials and two dead transports, enough for the pinger's unlocked  *)
(* trigger to race a gate's trigger, a dial and a retry timer.             *)
EXTENDS NatsConnection

CONSTANTS reader, writer, breach

MCObservers == {reader, writer}

MCBreaches == {breach}

=============================================================================
