--------------------------- MODULE NatsConnection ---------------------------
(***************************************************************************)
(* The raw connection of src/net/connection.rs: the shared state pair      *)
(* (phase, version) behind an RwLock, the current transport, and the       *)
(* reconnect protocol trigger_reconnect / reconnect / the spawned dial     *)
(* task, run concurrently by every task that can observe a dead transport. *)
(*                                                                         *)
(* Observers are the tasks that poll the transport through                 *)
(* NatsConnSinkStream (the multiplexer's poll_next, the sender's           *)
(* start_send and poll_flush): each calls the reconnect trigger when the   *)
(* inner transport reports ServerDisconnected.  Each failed dial spawns a  *)
(* retry timer task that calls trigger_reconnect again; the k-th failure   *)
(* arms retry task k.  The client's pinger calls trigger_reconnect on a   *)
(* breach (client.rs:206); each breach is one call, one element of         *)
(* Breaches, and here it may come at any time, the client's counter not    *)
(* being part of this module.  Each trigger_reconnect invocation takes its locks   *)
(* one at a time, so it is split into the steps the code separates:        *)
(* reading the version (line 82), the checked write (lines 84-97), and     *)
(* reconnect's compare-and-set and spawn (lines 104-115).  An observer     *)
(* runs its whole invocation inside the gate's inner.try_write guard       *)
(* (lines 261-266, 282-286, 307-311); a retry timer holds no lock.         *)
(***************************************************************************)
EXTENDS Naturals, Sequences

CONSTANTS
  Observers,    \* tasks polling the transport through NatsConnSinkStream
  Breaches,     \* calls of trigger_reconnect by the pinger, one per breach
  MaxFailures,  \* bound on failed dials (each arms one retry timer)
  MaxDrops      \* bound on transports dying under the client

ASSUME ConstAssumption ==
  /\ MaxFailures \in Nat
  /\ MaxDrops \in Nat
  /\ Observers \cap Nat = {}
  /\ Breaches \cap (Nat \cup Observers) = {}

\* Retry timer k is the task spawned by the k-th failed dial (line 131).
Retries == 1..MaxFailures

Procs == Observers \cup Breaches \cup Retries

\* NatsConnectionState, lines 20-24.
Phases == {"Connected", "Reconnecting", "Disconnected"}

\* Program counter of one trigger_reconnect invocation:
\*   idle      no invocation running (an observer is polling normally)
\*   off       retry timer not armed yet, or pinger breach not come yet
\*   sleep     retry timer armed, delay_for pending (line 131)
\*   read      about to read connect_version (line 82)
\*   check     about to take the write lock and decide (lines 84-97)
\*   reconnect about to run reconnect (line 98, lines 104-115)
PCs == {"idle", "off", "sleep", "read", "check", "reconnect"}

VARIABLES
  phase,     \* state.0 : NatsConnectionState
  version,   \* state.1 : connect version, bumped on each successful dial
  link,      \* "up" while the current inner transport works, else "down"
  drops,     \* transports that died so far (environment, bounded)
  pc,        \* pc[p] : where invocation p is in trigger_reconnect
  ver,       \* ver[p] : its local connect_version (line 82)
  inflight,  \* dial tasks spawned by reconnect and not yet finished
  failures,  \* dial tasks that ended in NoRouteToHost so far
  signals    \* the reconnect_handler channel: versions sent at line 123

vars == <<phase, version, link, drops, pc, ver, inflight, failures, signals>>

-----------------------------------------------------------------------------
\* create_connection (lines 142-158): the first dial succeeded, the state
\* is (Connected, 0); no retry timer is armed.
Init ==
  /\ phase = "Connected"
  /\ version = 0
  /\ link = "up"
  /\ drops = 0
  /\ pc = [p \in Procs |-> IF p \in Observers THEN "idle" ELSE "off"]
  /\ ver = [p \in Procs |-> 0]
  /\ inflight = 0
  /\ failures = 0
  /\ signals = <<>>

\* The server side or the network kills the current transport.
Drop ==
  /\ link = "up"
  /\ drops < MaxDrops
  /\ link' = "down"
  /\ drops' = drops + 1
  /\ UNCHANGED <<phase, version, pc, ver, inflight, failures, signals>>

\* The inner transport's write lock: an observer holds it from the gate's
\* try_write until its trigger_reconnect returns, so it is held exactly
\* while some observer is past "idle".
InnerHeld == \E t \in Observers : pc[t] # "idle"

\* start_send / poll_flush / poll_next (lines 253-318): the gate reads
\* state.0 = Connected, takes the inner transport with try_write (another
\* holder makes it return at once, a stutter), the transport answers
\* ServerDisconnected, and the task calls its reconnect_trigger closure
\* (trigger_reconnect) with the guard still held.
Observe(t) ==
  /\ pc[t] = "idle"
  /\ ~InnerHeld
  /\ phase = "Connected"
  /\ link = "down"
  /\ pc' = [pc EXCEPT ![t] = "read"]
  /\ UNCHANGED <<phase, version, link, drops, ver, inflight, failures, signals>>

\* The pinger finds more than ping_max_out PINGs outstanding and calls
\* trigger_reconnect (client.rs:206), holding no lock.
Call(b) ==
  /\ pc[b] = "off"
  /\ pc' = [pc EXCEPT ![b] = "read"]
  /\ UNCHANGED <<phase, version, link, drops, ver, inflight, failures, signals>>

\* The retry timer of line 131 expires and calls trigger_reconnect (133).
RetryFire(k) ==
  /\ pc[k] = "sleep"
  /\ pc' = [pc EXCEPT ![k] = "read"]
  /\ UNCHANGED <<phase, version, link, drops, ver, inflight, failures, signals>>

\* trigger_reconnect line 82: connect_version = state.read().1
ReadVersion(p) ==
  /\ pc[p] = "read"
  /\ ver' = [ver EXCEPT ![p] = version]
  /\ pc' = [pc EXCEPT ![p] = "check"]
  /\ UNCHANGED <<phase, version, link, drops, inflight, failures, signals>>

\* trigger_reconnect lines 84-98 under the write lock: give up if another
\* task is reconnecting or has reconnected since line 82, else mark the
\* state Disconnected at the unchanged version and go on to reconnect.
\* Fault variant of Superseded: line 89 compares with >= instead of >.
SupersededGE(p) ==
  \/ phase = "Reconnecting"
  \/ phase = "Connected" /\ version >= ver[p]

Superseded(p) ==
  \/ phase = "Reconnecting"
  \/ phase = "Connected" /\ version > ver[p]

Check(p) ==
  /\ pc[p] = "check"
  /\ IF Superseded(p)
       THEN /\ pc' = [pc EXCEPT ![p] = "idle"]
            /\ UNCHANGED phase
       ELSE /\ phase' = "Disconnected"
            /\ pc' = [pc EXCEPT ![p] = "reconnect"]
  /\ UNCHANGED <<version, link, drops, ver, inflight, failures, signals>>

\* Fault variant of Reconnect: the Disconnected test of line 105 is dropped.
ReconnectNoCAS(p) ==
  /\ pc[p] = "reconnect"
  /\ pc' = [pc EXCEPT ![p] = "idle"]
  /\ phase' = "Reconnecting"
  /\ inflight' = inflight + 1
  /\ UNCHANGED <<version, link, drops, ver, failures, signals>>

\* reconnect lines 103-115: compare-and-set Disconnected -> Reconnecting
\* under the write lock, then spawn the dial task get_conn_inner.
Reconnect(p) ==
  /\ pc[p] = "reconnect"
  /\ pc' = [pc EXCEPT ![p] = "idle"]
  /\ IF phase = "Disconnected"
       THEN /\ phase' = "Reconnecting"
            /\ inflight' = inflight + 1
       ELSE UNCHANGED <<phase, inflight>>
  /\ UNCHANGED <<version, link, drops, ver, failures, signals>>

\* Fault variant of DialSucceed: the state is written back with the
\* connect_version read at line 117 instead of connect_version + 1.
DialSucceedNoBump ==
  /\ inflight > 0
  /\ ~InnerHeld
  /\ inflight' = inflight - 1
  /\ link' = "up"
  /\ phase' = "Connected"
  /\ signals' = Append(signals, version)
  /\ UNCHANGED <<version, drops, pc, ver, failures>>

\* The dial task succeeds (lines 120-125): the new transport replaces the
\* inner one (line 121 blocks while a gate holds the inner lock), the
\* state becomes (Connected, connect_version + 1) with connect_version read
\* at line 117 (only this task writes the version, so reading it before
\* the wait is the same), and the connection is sent on the
\* reconnect_handler channel.
DialSucceed ==
  /\ inflight > 0
  /\ ~InnerHeld
  /\ inflight' = inflight - 1
  /\ link' = "up"
  /\ phase' = "Connected"
  /\ version' = version + 1
  /\ signals' = Append(signals, version + 1)
  /\ UNCHANGED <<drops, pc, ver, failures>>

\* Fault variant of DialFail: no retry timer is scheduled (lines 131-136).
DialFailNoRetry ==
  /\ inflight > 0
  /\ failures < MaxFailures
  /\ inflight' = inflight - 1
  /\ phase' = "Disconnected"
  /\ failures' = failures + 1
  /\ UNCHANGED <<version, link, drops, pc, ver, signals>>

\* Fault variant of DialFail: the failed attempt writes back the version
\* minus one, as if it had been bumped before the dial.
DialFailRollback ==
  /\ inflight > 0
  /\ failures < MaxFailures
  /\ inflight' = inflight - 1
  /\ phase' = "Disconnected"
  /\ version' = version - 1
  /\ failures' = failures + 1
  /\ pc' = [pc EXCEPT ![failures + 1] = "sleep"]
  /\ UNCHANGED <<link, drops, ver, signals>>

\* The dial task exhausts every candidate address (get_conn_inner,
\* lines 205-247, NoRouteToHost) and runs lines 127-136: the state becomes
\* (Disconnected, connect_version) and a retry timer is armed.
DialFail ==
  /\ inflight > 0
  /\ failures < MaxFailures
  /\ inflight' = inflight - 1
  /\ phase' = "Disconnected"
  /\ failures' = failures + 1
  /\ pc' = [pc EXCEPT ![failures + 1] = "sleep"]
  /\ UNCHANGED <<version, link, drops, ver, signals>>

Trigger(p) == ReadVersion(p) \/ Check(p) \/ Reconnect(p)

\* get_conn_inner (lines 205-247) walks the candidate addresses and either
\* yields a transport or NoRouteToHost; the spawned task then completes.
Dial == DialSucceed \/ DialFail

Next ==
  \/ Drop
  \/ \E t \in Observers : Observe(t)
  \/ \E b \in Breaches : Call(b)
  \/ \E k \in Retries : RetryFire(k)
  \/ \E p \in Procs : Trigger(p)
  \/ Dial

\* Tokio runs every spawned task and every woken poller eventually, and a
\* dial task always completes (connect either succeeds or errors).
Fairness ==
  /\ \A t \in Observers : WF_vars(Observe(t))
  /\ \A k \in Retries : WF_vars(RetryFire(k))
  /\ \A p \in Procs : WF_vars(Trigger(p))
  /\ WF_vars(Dial)

Spec == Init /\ [][Next]_vars /\ Fairness

-----------------------------------------------------------------------------
TypeOK ==
  /\ phase \in Phases
  /\ version \in Nat
  /\ link \in {"up", "down"}
  /\ drops \in 0..MaxDrops
  /\ pc \in [Procs -> PCs]
  /\ ver \in [Procs -> Nat]
  /\ inflight \in Nat
  /\ failures \in 0..MaxFailures
  /\ signals \in Seq(Nat)

(***************************************************************************)
(* At most one reconnect in flight (spec section 8, invariant 4): however  *)
(* the observers and retry timers interleave their trigger_reconnect       *)
(* calls, at most one dial task runs, and one runs exactly while the state *)
(* says Reconnecting, so that the Reconnecting early return of line 85     *)
(* never abandons the connection.                                          *)
(***************************************************************************)
SingleDial ==
  /\ inflight <= 1
  /\ (inflight = 1) <=> (phase = "Reconnecting")

(***************************************************************************)
(* No orphaned disconnect: whenever the state is Disconnected, some task   *)
(* is still on its way to reconnect (a trigger_reconnect invocation past   *)
(* its observation, or an armed retry timer), so the connection is never   *)
(* left Disconnected with nobody to bring it back (lines 95, 129).         *)
(***************************************************************************)
DisconnectOwned ==
  phase = "Disconnected" =>
    \E p \in Procs : pc[p] \in {"sleep", "read", "check", "reconnect"}

(***************************************************************************)
(* Every dead transport is eventually replaced: after a transport dies the *)
(* connection reaches Connected with a working transport again.            *)
(***************************************************************************)
Recovers ==
  link = "down" ~> (phase = "Connected" /\ link = "up")

(***************************************************************************)
(* The connection implements its abstract promise (module                  *)
(* ConnectionAbstract): seen through the pair (phase, version) and the     *)
(* reconnect_handler channel, every step of the concurrent triggers,       *)
(* compare-and-sets and dial tasks is a step of the reconnect cycle or     *)
(* leaves them alone, so the checked write of lines 84-97, the             *)
(* compare-and-set of lines 104-109 and the dial task's writes of lines    *)
(* 120-129 never skip a phase, never move the version but by a successful  *)
(* dial, and announce each new version once.                               *)
(***************************************************************************)
Abs == INSTANCE ConnectionAbstract WITH state <- <<phase, version>>, sent <- signals

ImplementsAbstract == Abs!Spec

=============================================================================
