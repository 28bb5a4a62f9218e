--------------------------- MODULE NatsClient_proofs ---------------------------
(***************************************************************************)
(* Proofs about the client composition, for every bound and option value.  *)
(* PingCounterBound is not inductive alone: a pinger tick from a Connected *)
(* client with the counter already at ping_max_out + 2 would exceed it.    *)
(* The strengthening says that a Connected client is at most one PING past *)
(* the limit, which is the count a breaching tick's inc() returns.         *)
(***************************************************************************)
EXTENDS NatsClient, TLAPS

CIInv ==
  /\ attempts \in Nat
  /\ attempts <= PingMaxOut + 2
  /\ cstate = "Connected" => attempts <= PingMaxOut + 1

USE ClientAssumption

-----------------------------------------------------------------------------
(* The strengthened invariant holds in the state create_client builds.     *)
LEMMA CIInvInit == ClientInit => CIInv
BY DEF ClientInit, CIInv

(* Every step of the client keeps the strengthened invariant.              *)
LEMMA CIInvStep == CIInv /\ [ClientNext]_allVars => CIInv'
<1> SUFFICES ASSUME CIInv, [ClientNext]_allVars PROVE CIInv'
  OBVIOUS
<1> USE DEF CIInv
<1>1. CASE ConnDrop
  BY <1>1 DEF ConnDrop
<1>2. CASE ConnDialSucceed
  BY <1>2 DEF ConnDialSucceed
<1>3. CASE ConnStep
  BY <1>3 DEF ConnStep, clientVars
<1>4. CASE ServerPong
  BY <1>4 DEF ServerPong
<1>5. CASE ServerPing
  BY <1>5 DEF ServerPing
<1>6. ASSUME NEW g \in Gens, Demux(g) \/ MuxStall(g) PROVE CIInv'
  BY <1>6 DEF Demux, MuxStall
<1>7. ASSUME NEW g \in Gens, Control(g) PROVE CIInv'
  \* every frame a control loop acts on resets the counter or leaves it be
  BY <1>7 DEF Control
<1>8. CASE Rebind
  \* the counter is reset before the client is marked Connected
  BY <1>8 DEF Rebind
<1>9. CASE PingerTick
  \* a breach leaves the client Disconnected, so the limit holds vacuously
  <2>1. CASE attempts > PingMaxOut
    BY <1>9, <2>1 DEF PingerTick
  <2>2. CASE ~(attempts > PingMaxOut)
    BY <1>9, <2>2 DEF PingerTick
  <2>3. QED
    BY <2>1, <2>2
<1>10. CASE HandleSignal
  BY <1>10 DEF HandleSignal
<1>11. CASE CloseSinks
  BY <1>11 DEF CloseSinks
<1>12. CASE ClearRegistry
  BY <1>12 DEF ClearRegistry
<1>14. CASE NestedConnect
  BY <1>14 DEF NestedConnect
<1>15. CASE Resub
  BY <1>15 DEF Resub
<1>16. ASSUME NEW s \in Sids, SubscribeSend(s) \/ SubscribeRegister(s)
       PROVE CIInv'
  BY <1>16 DEF SubscribeSend, SubscribeRegister
<1>17. ASSUME NEW big \in BOOLEAN, Publish(big) PROVE CIInv'
  BY <1>17 DEF Publish
<1>18. CASE UNCHANGED allVars
  BY <1>18 DEF allVars, clientVars
<1>19. QED
  BY <1>1, <1>2, <1>3, <1>4, <1>5, <1>6, <1>7, <1>8, <1>9, <1>10, <1>11,
     <1>12, <1>14, <1>15, <1>16, <1>17, <1>18 DEF ClientNext, Handler

(***************************************************************************)
(* The outstanding-ping counter never exceeds ping_max_out + 2: the pinger *)
(* breaches on the tick whose inc() returns ping_max_out + 1, marks the    *)
(* client Disconnected and counts no more, and both paths back to          *)
(* Connected (the handler's rebind, the control loop's INFO) reset the     *)
(* counter on the way.                                                     *)
(***************************************************************************)
THEOREM PingCounterBoundHolds == ClientSpec => []PingCounterBound
<1>1. CIInv => PingCounterBound
  BY DEF CIInv, PingCounterBound
<1>2. QED
  BY <1>1, CIInvInit, CIInvStep, PTL DEF ClientSpec

=============================================================================
