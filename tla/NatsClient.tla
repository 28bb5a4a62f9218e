------------------------------ MODULE NatsClient ------------------------------
(***************************************************************************)
(* The connected client of src/nats_client/client.rs composed with the     *)
(* connection of src/net/connection.rs (module NatsConnection, whose       *)
(* variables and actions it extends).  Added here: the client state, the   *)
(* liveness pinger (lines 193-210), the control loops (lines 275-340), one *)
(* per binding, the multiplexers that feed them (lines 29-49), the client  *)
(* reconnect handler (lines 212-271), and the user's publish and subscribe *)
(* calls, all writing through the shared sink gate of connection.rs        *)
(* (start_send, lines 253-272).                                            *)
(*                                                                         *)
(* Frames are abstracted to what the properties tell apart: of the frames  *)
(* written on the current transport only the first one, whether CONNECT    *)
(* was among them, the SUBs and the PINGs the server still owes a PONG     *)
(* are kept.  Inbound frames are the control frames INFO, PING and PONG;   *)
(* MSG routing is the business of module Subscriptions.                    *)
(***************************************************************************)
EXTENDS NatsConnection

CONSTANTS
  Sids,            \* sids of user subscriptions
  PingMaxOut,      \* NatsClientOptions::ping_max_out
  MaxPings,        \* bound on pinger ticks
  MaxServerPings,  \* bound on PINGs sent by the server
  Resubscribe,     \* NatsClientOptions::subscribe_on_reconnect
  LockRace         \* whether a send may meet the transport lock held

ASSUME ClientAssumption ==
  /\ PingMaxOut \in Nat
  /\ MaxPings \in Nat
  /\ MaxServerPings \in Nat
  /\ Resubscribe \in BOOLEAN
  /\ LockRace \in BOOLEAN

\* Bindings (multiplexer, control loop) ever created: one at create_client,
\* one per reconnect signal, and a signal needs a dial, which needs a drop,
\* a ping breach or a failed dial before it.
Gens == 1..(1 + MaxDrops + MaxPings + MaxFailures)

\* NatsClientState.
CStates == {"Connecting", "Connected", "Reconnecting", "Disconnected"}

\* Inbound control frames, and CLOSE, the local sentinel of control_tx.
CtlOps == {"INFO", "PING", "PONG", "CLOSE"}

\* Outbound frames, as far as the properties tell them apart.
OutOps == {"CONNECT", "SUB", "PUB", "PING", "PONG"}

\* Program counter of the reconnect handler task (lines 212-271).
HPCs == {"idle", "close", "clear", "rebind", "connect", "resub"}

VARIABLES
  cstate,   \* NatsClient::state
  attempts, \* ping_attempts, the outstanding-ping counter
  ticks,    \* pinger ticks so far (bounded)
  spings,   \* PINGs the server sent so far (bounded)
  down,     \* frames the server wrote on the current transport, unread
  owed,     \* PINGs written on the current transport the server has not answered
  pinged,   \* PINGs written on the current transport (history, for the properties)
  first,    \* first frame written on the current transport ("none" if none)
  hs,       \* CONNECT was written on the current transport
  srvSubs,  \* sids SUBscribed on the current transport
  info,     \* server_info is Some
  ctl,      \* ctl[g] : the control_tx channel of binding g
  ended,    \* bindings whose control loop has taken CLOSE and ended
  muxes,    \* bindings whose multiplexer is still being polled
  hpc,      \* the reconnect handler's program counter
  hseen,    \* reconnect signals the handler has taken
  reg,      \* sids in subs_map
  us        \* us[s] : the user's subscribe call for s: idle, sending, open, ended

clientVars == <<cstate, attempts, ticks, spings, down, owed, pinged, first, hs, srvSubs,
                info, ctl, ended, muxes, hpc, hseen, reg, us>>

allVars == <<vars, clientVars>>

-----------------------------------------------------------------------------
\* create_client (lines 138-189): the first transport is up, its server has
\* sent INFO, one binding exists, the client state is Connecting.
ClientInit ==
  /\ Init
  /\ cstate = "Connecting"
  /\ attempts = 0
  /\ ticks = 0
  /\ spings = 0
  /\ down = <<"INFO">>
  /\ owed = 0
  /\ pinged = 0
  /\ first = "none"
  /\ hs = FALSE
  /\ srvSubs = {}
  /\ info = FALSE
  /\ ctl = <<<<>>>>
  /\ ended = {}
  /\ muxes = {1}
  /\ hpc = "idle"
  /\ hseen = 0
  /\ reg = {}
  /\ us = [s \in Sids |-> "idle"]

\* What a frame written on the transport changes: the first frame, the
\* handshake, the PINGs the server owes an answer, the sids it serves.
wireVars == <<first, hs, owed, pinged, srvSubs>>

\* The sink gate (start_send, lines 253-272): a frame reaches the transport
\* only while the connection is Connected and the transport works;
\* otherwise start_send returns Ok and the frame is gone.  It is gone as
\* well when try_write of the transport fails (line 261).  The sender and
\* the multiplexer of one binding are the two halves of one split(), whose
\* lock serialises them, so the transport lock is held against a send only
\* by the multiplexer of an older binding still polling the same shared
\* transport (lines 299-318); the model allows it where LockRace holds.
Sendable == phase = "Connected" /\ link = "up"

\* A multiplexer of a superseded binding is still being polled.
OldPoller == \E g \in muxes : g < Len(ctl)

\* Send frame f, a SUB for the sids in S if f = "SUB", through the gate.
Write(f, S) ==
  \/ /\ Sendable
     /\ first' = IF first = "none" THEN f ELSE first
     /\ hs' = (hs \/ f = "CONNECT")
     /\ owed' = owed + (IF f = "PING" THEN 1 ELSE 0)
     /\ pinged' = pinged + (IF f = "PING" THEN 1 ELSE 0)
     /\ srvSubs' = srvSubs \cup S
  \/ /\ ~Sendable \/ (LockRace /\ OldPoller)
     /\ UNCHANGED wireVars

-----------------------------------------------------------------------------
(* The connection's steps, with what they do to the client's transport.    *)

\* The transport dies: whatever the server had written on it is lost.
ConnDrop ==
  /\ Drop
  /\ down' = <<>>
  /\ owed' = 0
  /\ UNCHANGED <<cstate, attempts, ticks, spings, pinged, first, hs, srvSubs, info,
                 ctl, ended, muxes, hpc, hseen, reg, us>>

\* A new transport replaces the old one: a fresh server that opens with
\* INFO and has seen no frame yet.
ConnDialSucceed ==
  /\ DialSucceed
  /\ down' = <<"INFO">>
  /\ owed' = 0
  /\ pinged' = 0
  /\ first' = "none"
  /\ hs' = FALSE
  /\ srvSubs' = {}
  /\ UNCHANGED <<cstate, attempts, ticks, spings, info, ctl, ended, muxes,
                 hpc, hseen, reg, us>>

\* Steps of NatsConnection that leave the client's variables alone.  The
\* pinger's calls of trigger_reconnect are made by PingerTick.
ConnStep ==
  /\ \/ \E t \in Observers : Observe(t)
     \/ \E k \in Retries : RetryFire(k)
     \/ \E p \in Procs : Trigger(p)
     \/ DialFail
  /\ UNCHANGED clientVars

-----------------------------------------------------------------------------
(* The server. *)

\* The server answers a PING it read with PONG.
ServerPong ==
  /\ link = "up"
  /\ owed > 0
  /\ owed' = owed - 1
  /\ down' = Append(down, "PONG")
  /\ UNCHANGED <<vars, cstate, attempts, ticks, spings, pinged, first, hs,
                 srvSubs, info, ctl, ended, muxes, hpc, hseen, reg, us>>

\* The server probes the client with a PING.
ServerPing ==
  /\ link = "up"
  /\ spings < MaxServerPings
  /\ spings' = spings + 1
  /\ down' = Append(down, "PING")
  /\ UNCHANGED <<vars, cstate, attempts, ticks, owed, pinged, first, hs, srvSubs,
                 info, ctl, ended, muxes, hpc, hseen, reg, us>>

-----------------------------------------------------------------------------
(* Multiplexers and control loops. *)

\* The multiplexer of binding g polls the shared stream (poll_next, lines
\* 299-318) and forwards a control frame to its control_tx (lines 39-41).
\* The send fails silently once that control loop has ended.
Demux(g) ==
  /\ g \in muxes
  /\ Sendable
  /\ down # <<>>
  /\ down' = Tail(down)
  /\ ctl' = IF g \in ended THEN ctl
            ELSE [ctl EXCEPT ![g] = Append(@, Head(down))]
  /\ UNCHANGED <<vars, cstate, attempts, ticks, spings, owed, pinged, first, hs,
                 srvSubs, info, ended, muxes, hpc, hseen, reg, us>>

\* poll_next returns Pending while the connection is not Connected without
\* registering a waker (lines 300-305), so a multiplexer polled then is
\* never polled again.
MuxStall(g) ==
  /\ g \in muxes
  /\ phase # "Connected"
  /\ muxes' = muxes \ {g}
  /\ UNCHANGED <<vars, cstate, attempts, ticks, spings, down, owed, pinged, first,
                 hs, srvSubs, info, ctl, ended, hpc, hseen, reg, us>>

\* control_receiver (lines 275-340): the loop of binding g takes one frame.
Control(g) ==
  /\ g \in DOMAIN ctl
  /\ g \notin ended
  /\ ctl[g] # <<>>
  /\ LET op == Head(ctl[g]) IN
       \* a loop that ends drops its receiver and whatever is queued in it
       /\ ctl' = [ctl EXCEPT ![g] = IF op = "CLOSE" THEN <<>> ELSE Tail(@)]
       /\ \/ /\ op = "CLOSE"
             /\ ended' = ended \cup {g}
             /\ UNCHANGED <<cstate, attempts, info, wireVars>>
          \/ /\ op = "PING"
             /\ attempts' = 0
             /\ Write("PONG", {})
             /\ UNCHANGED <<cstate, ended, info>>
          \/ /\ op = "PONG"
             /\ attempts' = 0
             /\ UNCHANGED <<cstate, ended, info, wireVars>>
          \/ /\ op = "INFO"
             /\ attempts' = 0
             /\ info' = TRUE
             /\ Write("CONNECT", {})
             /\ cstate' = "Connected"
             /\ UNCHANGED ended
  /\ UNCHANGED <<vars, ticks, spings, down, muxes, hpc, hseen, reg, us>>

-----------------------------------------------------------------------------
(* The liveness pinger (lines 193-210). *)

\* The pinger task runs trigger_reconnect to its end before its next tick.
PingerIdle == \A b \in Breaches : pc[b] \in {"off", "idle"}

\* Fault variant of PingerTick: the breach marks the client Disconnected
\* but never calls trigger_reconnect (line 206 missing).
PingerTickNoTrigger ==
  /\ PingerIdle
  /\ cstate = "Connected"
  /\ ticks < MaxPings
  /\ ticks' = ticks + 1
  /\ Write("PING", {})
  /\ attempts' = attempts + 1
  /\ cstate' = IF attempts > PingMaxOut THEN "Disconnected" ELSE cstate
  /\ UNCHANGED <<phase, version, link, drops, pc, ver, inflight, failures,
                 signals, spings, down, info, ctl, ended, muxes, hpc,
                 hseen, reg, us>>

\* One interval tick while the client is Connected (lines 196-208): send
\* PING and count it; inc() returns the count before the increment, and
\* when that exceeds ping_max_out the pinger marks the client Disconnected
\* and calls trigger_reconnect, the next breach of Breaches.
PingerTick ==
  /\ PingerIdle
  /\ cstate = "Connected"
  /\ ticks < MaxPings
  /\ ticks' = ticks + 1
  /\ Write("PING", {})
  /\ attempts' = attempts + 1
  /\ \/ /\ attempts <= PingMaxOut
        /\ UNCHANGED <<cstate, pc>>
     \/ /\ attempts > PingMaxOut
        /\ cstate' = "Disconnected"
        /\ \E b \in Breaches : /\ pc[b] = "off"
                               /\ pc' = [pc EXCEPT ![b] = "read"]
  /\ UNCHANGED <<phase, version, link, drops, ver, inflight, failures, signals,
                 spings, down, info, ctl, ended, muxes, hpc, hseen,
                 reg, us>>

-----------------------------------------------------------------------------
(* The reconnect handler (lines 212-271), one signal at a time. *)

\* Fault variant of HandleSignal: the subscribe_on_reconnect test of
\* line 215 inverted.
HandleSignalInverted ==
  /\ hpc = "idle"
  /\ hseen < Len(signals)
  /\ hseen' = hseen + 1
  /\ cstate' = "Reconnecting"
  /\ hpc' = IF Resubscribe THEN "close" ELSE "rebind"
  /\ UNCHANGED <<vars, attempts, ticks, spings, down, owed, pinged, first, hs,
                 srvSubs, info, ctl, ended, muxes, reg, us>>

\* Lines 213-214: take the next signal, mark the client Reconnecting.
HandleSignal ==
  /\ hpc = "idle"
  /\ hseen < Len(signals)
  /\ hseen' = hseen + 1
  /\ cstate' = "Reconnecting"
  /\ hpc' = IF Resubscribe THEN "rebind" ELSE "close"
  /\ UNCHANGED <<vars, attempts, ticks, spings, down, owed, pinged, first, hs,
                 srvSubs, info, ctl, ended, muxes, reg, us>>

\* Lines 215-219, under the read lock: CLOSE to every registered sink,
\* which ends the user's stream.
CloseSinks ==
  /\ hpc = "close"
  /\ hpc' = "clear"
  /\ us' = [s \in Sids |-> IF s \in reg THEN "ended" ELSE us[s]]
  /\ UNCHANGED <<vars, cstate, attempts, ticks, spings, down, owed, pinged, first, hs,
                 srvSubs, info, ctl, ended, muxes, hseen, reg>>

\* Line 220, under a later write lock: clear subs_map.  Dropping an entry
\* drops the only sender of its channel, which ends the user's stream too.
ClearRegistry ==
  /\ hpc = "clear"
  /\ hpc' = "rebind"
  /\ reg' = {}
  /\ us' = [s \in Sids |-> IF s \in reg THEN "ended" ELSE us[s]]
  /\ UNCHANGED <<vars, cstate, attempts, ticks, spings, down, owed, pinged, first, hs,
                 srvSubs, info, ctl, ended, muxes, hseen>>

\* Fault variant of Rebind: the ping counter is not reset (line 224).
RebindNoReset ==
  /\ hpc = "rebind"
  /\ hpc' = "connect"
  /\ ctl' = Append([ctl EXCEPT ![Len(ctl)] = Append(@, "CLOSE")], <<>>)
  /\ muxes' = muxes \cup {Len(ctl) + 1}
  /\ cstate' = "Connected"
  /\ UNCHANGED <<vars, attempts, ticks, spings, down, owed, pinged, first, hs,
                 srvSubs, info, ended, hseen, reg, us>>

\* Fault variant of Rebind: CLOSE is sent after control_tx was swapped, so
\* it reaches the new control loop instead of the old one.
RebindCloseNew ==
  /\ hpc = "rebind"
  /\ hpc' = "connect"
  /\ ctl' = Append(ctl, <<"CLOSE">>)
  /\ muxes' = muxes \cup {Len(ctl) + 1}
  /\ attempts' = 0
  /\ cstate' = "Connected"
  /\ UNCHANGED <<vars, ticks, spings, down, owed, pinged, first, hs, srvSubs, info,
                 ended, hseen, reg, us>>

\* Lines 223-244: CLOSE to the current control loop, reset the counter, a
\* new multiplexer and control loop on the new transport, swap the sender,
\* receiver and control_tx, and mark the client Connected.
Rebind ==
  /\ hpc = "rebind"
  /\ hpc' = "connect"
  /\ ctl' = Append([ctl EXCEPT ![Len(ctl)] = Append(@, "CLOSE")], <<>>)
  /\ muxes' = muxes \cup {Len(ctl) + 1}
  /\ attempts' = 0
  /\ cstate' = "Connected"
  /\ UNCHANGED <<vars, ticks, spings, down, owed, pinged, first, hs, srvSubs, info,
                 ended, hseen, reg, us>>

\* Lines 246-248: NatsClient::connect(...).wait() builds a second, separate
\* client; for this client it is only time passing.
NestedConnect ==
  /\ hpc = "connect"
  /\ hpc' = "resub"
  /\ UNCHANGED <<vars, cstate, attempts, ticks, spings, down, owed, pinged, first, hs,
                 srvSubs, info, ctl, ended, muxes, hseen, reg, us>>

\* Lines 250-262: with subscribe_on_reconnect, SUB for every sid in
\* subs_map through the gate; the user's reconnect handlers (264-268)
\* touch nothing modelled here.
Resub ==
  /\ hpc = "resub"
  /\ hpc' = "idle"
  /\ IF Resubscribe /\ reg # {}
       THEN Write("SUB", reg)
       ELSE UNCHANGED wireVars
  /\ UNCHANGED <<vars, cstate, attempts, ticks, spings, down, info, ctl, ended,
                 muxes, hseen, reg, us>>

-----------------------------------------------------------------------------
(* User calls. *)

\* subscribe (lines 423-436): SUB through the gate, then (line 437) for_sid
\* registers the sid once the send has completed.
SubscribeSend(s) ==
  /\ us[s] = "idle"
  /\ us' = [us EXCEPT ![s] = "sending"]
  /\ Write("SUB", {s})
  /\ UNCHANGED <<vars, cstate, attempts, ticks, spings, down, info, ctl, ended,
                 muxes, hpc, hseen, reg>>

SubscribeRegister(s) ==
  /\ us[s] = "sending"
  /\ us' = [us EXCEPT ![s] = "open"]
  /\ reg' = reg \cup {s}
  /\ UNCHANGED <<vars, cstate, attempts, ticks, spings, down, owed, pinged, first, hs,
                 srvSubs, info, ctl, ended, muxes, hpc, hseen>>

\* publish (lines 389-404): with server_info known a payload over
\* max_payload is refused before sending; otherwise PUB goes to the gate.
\* big: the payload exceeds the max_payload of the server.
Publish(big) ==
  /\ IF info /\ big
       THEN UNCHANGED wireVars
       ELSE Write("PUB", {})
  /\ UNCHANGED <<vars, cstate, attempts, ticks, spings, down, info,
                 ctl, ended, muxes, hpc, hseen, reg, us>>

-----------------------------------------------------------------------------
Handler == HandleSignal \/ CloseSinks \/ ClearRegistry \/ Rebind
             \/ NestedConnect \/ Resub

ClientNext ==
  \/ ConnDrop
  \/ ConnDialSucceed
  \/ ConnStep
  \/ ServerPong
  \/ ServerPing
  \/ \E g \in Gens : Demux(g) \/ MuxStall(g) \/ Control(g)
  \/ PingerTick
  \/ Handler
  \/ \E s \in Sids : SubscribeSend(s) \/ SubscribeRegister(s)
  \/ \E big \in BOOLEAN : Publish(big)

\* Every task of the client is run eventually by tokio: the connection's
\* tasks, the server, the multiplexers and control loops, the pinger's
\* interval, the reconnect handler, and a subscribe call that has sent its
\* SUB.  Stalling a multiplexer and the user's calls are never forced.
ClientFairness ==
  /\ \A t \in Observers : WF_allVars(Observe(t) /\ UNCHANGED clientVars)
  /\ \A k \in Retries : WF_allVars(RetryFire(k) /\ UNCHANGED clientVars)
  /\ \A p \in Procs : WF_allVars(Trigger(p) /\ UNCHANGED clientVars)
  /\ WF_allVars(ConnDialSucceed \/ (DialFail /\ UNCHANGED clientVars))
  /\ WF_allVars(ServerPong)
  /\ \A g \in Gens : WF_allVars(Demux(g)) /\ WF_allVars(Control(g))
  /\ WF_allVars(PingerTick)
  /\ WF_allVars(Handler)
  /\ \A s \in Sids : WF_allVars(SubscribeRegister(s))

ClientSpec == ClientInit /\ [][ClientNext]_allVars /\ ClientFairness

-----------------------------------------------------------------------------
(***************************************************************************)
(* The outstanding-ping counter stays within one breach: a breach is a     *)
(* tick whose inc() returned more than ping_max_out, so the counter ends   *)
(* it at ping_max_out + 2; the pinger stops counting once it has marked    *)
(* the client Disconnected, and whoever marks the client Connected again   *)
(* (the reconnect handler at lines 223-244, the control loop on INFO at    *)
(* lines 305-321) has reset the counter first, so no PING is counted       *)
(* against a breach that was already acted upon.                           *)
(***************************************************************************)
PingCounterBound == attempts <= PingMaxOut + 2

(***************************************************************************)
(* A working transport is torn down only on evidence about itself: when a  *)
(* trigger_reconnect moves a Connected state with a working transport to   *)
(* Disconnected (connection.rs:95), the pinger has written more than       *)
(* ping_max_out PINGs on that very transport.  Spec section 8, invariant   *)
(* 7: the counter is zero once a connection is established, so a breach    *)
(* counts only PINGs of the current transport.                             *)
(***************************************************************************)
LiveLinkKept ==
  [][phase = "Connected" /\ phase' = "Disconnected" /\ link = "up"
       => pinged > PingMaxOut]_allVars

(***************************************************************************)
(* A client marked Disconnected by the pinger is Connected again: the      *)
(* trigger the pinger calls, or the reconnect that superseded it, ends in  *)
(* a reconnect signal, and the handler marks the client Connected (244).   *)
(***************************************************************************)
ClientRecovers == cstate = "Disconnected" ~> cstate = "Connected"

(***************************************************************************)
(* Every superseded control loop ends: the handler sends CLOSE to the loop *)
(* of the binding it replaces (line 223) before installing the new one     *)
(* (line 243), so no stale loop keeps answering PINGs or resetting the     *)
(* counter on behalf of a transport it no longer owns.                     *)
(***************************************************************************)
OldLoopsEnd == \A g \in Gens : (g < Len(ctl)) ~> (g \in ended)

(***************************************************************************)
(* The first frame written on any transport is CONNECT (spec section 7,    *)
(* section 8 invariant 5), the frames of the user held back by the gate    *)
(* until the handshake is done.                                            *)
(***************************************************************************)
ConnectFirst == first \in {"none", "CONNECT"}

(***************************************************************************)
(* Once the handler has taken every reconnect signal and the transport is  *)
(* up, every sid in subs_map is subscribed on the current server (spec     *)
(* section 8 invariant 8, scenario 4): the replay of lines 250-262 and the *)
(* user's subscribe calls together leave no registered sid unknown to it. *)
(***************************************************************************)
Quiescent ==
  /\ hpc = "idle"
  /\ hseen = Len(signals)
  /\ Sendable

RegisteredIsSubscribed == Quiescent => reg \subseteq srvSubs

(***************************************************************************)
(* Every transport that stays up gets its CONNECT: the INFO its server     *)
(* opens with reaches the live control loop, which answers it (lines       *)
(* 300-316).                                                               *)
(***************************************************************************)
HandshakeEventually == Sendable ~> (hs \/ ~Sendable)

(***************************************************************************)
(* Without subscribe_on_reconnect, every subscription stream open when a   *)
(* reconnect is signalled, or opened while the handler is between its      *)
(* CLOSE pass (lines 215-219) and its clear (line 220), terminates (spec   *)
(* section 6): a sink registered after the CLOSE pass gets no CLOSE and    *)
(* ends only because the clear drops its sender.                           *)
(***************************************************************************)
StreamsEndOnReconnect ==
  \A s \in Sids :
    (/\ ~Resubscribe /\ us[s] = "open"
     /\ (hseen < Len(signals) \/ hpc \in {"close", "clear"})) ~> (us[s] = "ended")

=============================================================================
