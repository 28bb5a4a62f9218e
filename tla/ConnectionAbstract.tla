------------------------- MODULE ConnectionAbstract -------------------------
(***************************************************************************)
(* What the connection of src/net/connection.rs promises its users, the    *)
(* sink gates and the client's reconnect handler (spec sections 4.1 and    *)
(* 4.7), without the tasks that carry it out: the shared pair state =      *)
(* (phase, version) moves only along the reconnect cycle                   *)
(*                                                                         *)
(*     Connected -> Disconnected -> Reconnecting -> Connected              *)
(*                       ^               |                                 *)
(*                       +---------------+  (a failed dial)                *)
(*                                                                         *)
(* the version grows by one exactly when a dial succeeds, and each         *)
(* success sends the new version on the reconnect-handler channel once.    *)
(***************************************************************************)
EXTENDS Naturals, Sequences

VARIABLES
  state,  \* <<phase, version>>, the RwLock'd pair NatsConnection::state
  sent    \* versions sent on the reconnect_handler channel, in order

avars == <<state, sent>>

Init ==
  /\ state = <<"Connected", 0>>
  /\ sent = <<>>

\* A task that saw the transport fail marks it Disconnected.
Fail ==
  /\ state[1] = "Connected"
  /\ state' = <<"Disconnected", state[2]>>
  /\ UNCHANGED sent

\* One task wins the right to dial.
StartDial ==
  /\ state[1] = "Disconnected"
  /\ state' = <<"Reconnecting", state[2]>>
  /\ UNCHANGED sent

\* The dial succeeds: a new version, announced once.
Reconnected ==
  /\ state[1] = "Reconnecting"
  /\ state' = <<"Connected", state[2] + 1>>
  /\ sent' = Append(sent, state[2] + 1)

\* The dial fails: back to Disconnected, to be retried.
DialFailed ==
  /\ state[1] = "Reconnecting"
  /\ state' = <<"Disconnected", state[2]>>
  /\ UNCHANGED sent

Next == Fail \/ StartDial \/ Reconnected \/ DialFailed

Spec == Init /\ [][Next]_avars

=============================================================================
