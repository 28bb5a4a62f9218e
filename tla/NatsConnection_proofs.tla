------------------------ MODULE NatsConnection_proofs ------------------------
(***************************************************************************)
(* Proofs about the reconnect protocol of NatsConnection, for every set of *)
(* observers and pinger breaches and every bound.  The safety invariants SingleDial and        *)
(* DisconnectOwned are not inductive alone: SingleDial needs the types,    *)
(* and each needs the other across Check and Reconnect, so the proof goes  *)
(* through IInv, their conjunction with TypeOK.                            *)
(***************************************************************************)
EXTENDS NatsConnection, TLAPS

IInv == TypeOK /\ SingleDial /\ DisconnectOwned

\* The constants' assumption and the sets the actions range over.
USE ConstAssumption DEF Procs, Retries, PCs, Phases

-----------------------------------------------------------------------------
(* Every step keeps the variables in their types. *)
LEMMA TypeStep == TypeOK /\ [Next]_vars => TypeOK'
<1> SUFFICES ASSUME TypeOK, [Next]_vars PROVE TypeOK'
  OBVIOUS
<1>1. CASE Drop
  BY <1>1 DEF TypeOK, Drop
<1>2. ASSUME NEW t \in Observers, Observe(t) PROVE TypeOK'
  BY <1>2 DEF TypeOK, Observe
<1>3. ASSUME NEW k \in Retries, RetryFire(k) PROVE TypeOK'
  BY <1>3 DEF TypeOK, RetryFire
<1>4. ASSUME NEW p \in Procs, ReadVersion(p) PROVE TypeOK'
  BY <1>4 DEF TypeOK, ReadVersion
<1>5. ASSUME NEW p \in Procs, Check(p) PROVE TypeOK'
  BY <1>5 DEF TypeOK, Check
<1>6. ASSUME NEW p \in Procs, Reconnect(p) PROVE TypeOK'
  BY <1>6 DEF TypeOK, Reconnect
<1>7. CASE DialSucceed
  BY <1>7 DEF TypeOK, DialSucceed
<1>8. CASE DialFail
  BY <1>8 DEF TypeOK, DialFail
<1>9. CASE UNCHANGED vars
  BY <1>9 DEF TypeOK, vars
<1>11. ASSUME NEW b \in Breaches, Call(b) PROVE TypeOK'
  BY <1>11 DEF TypeOK, Call
<1>10. QED
  BY <1>1, <1>2, <1>3, <1>4, <1>5, <1>6, <1>7, <1>8, <1>9, <1>11
  DEF Next, Trigger, Dial

(* The specification keeps the variables in their types. *)
THEOREM TypeCorrect == Spec => []TypeOK
<1>1. Init => TypeOK
  BY DEF Init, TypeOK
<1>2. QED
  BY <1>1, TypeStep, PTL DEF Spec

-----------------------------------------------------------------------------
(* IInv holds initially and every step preserves it. *)
LEMMA IInvInit == Init => IInv
BY DEF Init, IInv, TypeOK, SingleDial, DisconnectOwned

LEMMA IInvStep == IInv /\ [Next]_vars => IInv'
<1> SUFFICES ASSUME IInv, [Next]_vars PROVE IInv'
  OBVIOUS
<1> USE DEF IInv
<1>0. TypeOK'
  BY TypeStep
<1>1. CASE Drop
  BY <1>0, <1>1 DEF Drop, SingleDial, DisconnectOwned
<1>2. ASSUME NEW t \in Observers, Observe(t) PROVE IInv'
  BY <1>0, <1>2 DEF Observe, SingleDial, DisconnectOwned
<1>3. ASSUME NEW k \in Retries, RetryFire(k) PROVE IInv'
  \* the armed timer stays an owner: sleep becomes read
  BY <1>0, <1>3 DEF RetryFire, TypeOK, SingleDial, DisconnectOwned
<1>4. ASSUME NEW p \in Procs, ReadVersion(p) PROVE IInv'
  BY <1>0, <1>4 DEF ReadVersion, TypeOK, SingleDial, DisconnectOwned
<1>5. ASSUME NEW p \in Procs, Check(p) PROVE IInv'
  <2>1. CASE Superseded(p)
    \* the state is left alone; p gave up only because it is not Disconnected
    BY <1>0, <1>5, <2>1 DEF Check, Superseded, TypeOK, SingleDial, DisconnectOwned
  <2>2. CASE ~Superseded(p)
    \* p itself owns the new Disconnected state; nobody was Reconnecting
    BY <1>0, <1>5, <2>2 DEF Check, Superseded, TypeOK, SingleDial, DisconnectOwned
  <2>3. QED
    BY <2>1, <2>2
<1>6. ASSUME NEW p \in Procs, Reconnect(p) PROVE IInv'
  <2>1. CASE phase = "Disconnected"
    \* no dial ran while Disconnected, so the one spawned here is alone
    BY <1>0, <1>6, <2>1 DEF Reconnect, TypeOK, SingleDial, DisconnectOwned
  <2>2. CASE phase # "Disconnected"
    BY <1>0, <1>6, <2>2 DEF Reconnect, TypeOK, SingleDial, DisconnectOwned
  <2>3. QED
    BY <2>1, <2>2
<1>7. CASE DialSucceed
  BY <1>0, <1>7 DEF DialSucceed, TypeOK, SingleDial, DisconnectOwned
<1>8. CASE DialFail
  \* the timer armed for this failure owns the Disconnected state
  <2>1. failures + 1 \in Procs /\ pc'[failures + 1] = "sleep"
    BY <1>8 DEF DialFail, TypeOK
  <2>2. SingleDial'
    BY <1>8 DEF DialFail, TypeOK, SingleDial
  <2>3. DisconnectOwned'
    BY <2>1 DEF DisconnectOwned
  <2>4. QED
    BY <1>0, <2>2, <2>3
<1>9. CASE UNCHANGED vars
  BY <1>0, <1>9 DEF vars, SingleDial, DisconnectOwned
<1>11. ASSUME NEW b \in Breaches, Call(b) PROVE IInv'
  \* the pinger's call becomes an owner and moves nothing else
  BY <1>0, <1>11 DEF Call, TypeOK, SingleDial, DisconnectOwned
<1>10. QED
  BY <1>1, <1>2, <1>3, <1>4, <1>5, <1>6, <1>7, <1>8, <1>9, <1>11
  DEF Next, Trigger, Dial

(* At most one dial task runs, exactly while the state is Reconnecting. *)
THEOREM SingleDialHolds == Spec => []SingleDial
BY IInvInit, IInvStep, PTL DEF Spec, IInv

(* A Disconnected state always has a task on its way to reconnect. *)
THEOREM DisconnectOwnedHolds == Spec => []DisconnectOwned
BY IInvInit, IInvStep, PTL DEF Spec, IInv

-----------------------------------------------------------------------------
(* Under the refinement mapping state <- <<phase, version>>,               *)
(* sent <- signals, the initial state is the abstract initial state.       *)
LEMMA AbsInit == Init => Abs!Init
BY DEF Init, Abs!Init

(* Every step of the connection is a step of the reconnect cycle or leaves *)
(* the pair and the channel alone.  The dial task's steps need SingleDial: *)
(* a running dial means the state is Reconnecting.                         *)
LEMMA AbsStep == IInv /\ [Next]_vars => [Abs!Next]_Abs!avars
<1> SUFFICES ASSUME IInv, [Next]_vars PROVE [Abs!Next]_Abs!avars
  OBVIOUS
<1> DEFINE Stutter == UNCHANGED <<phase, version, signals>>
<1>0. Stutter => UNCHANGED Abs!avars
  BY DEF Abs!avars
<1>1. CASE Drop
  BY <1>0, <1>1 DEF Drop
<1>2. ASSUME NEW t \in Observers, Observe(t) PROVE [Abs!Next]_Abs!avars
  BY <1>0, <1>2 DEF Observe
<1>3. ASSUME NEW k \in Retries, RetryFire(k) PROVE [Abs!Next]_Abs!avars
  BY <1>0, <1>3 DEF RetryFire
<1>4. ASSUME NEW p \in Procs, ReadVersion(p) PROVE [Abs!Next]_Abs!avars
  BY <1>0, <1>4 DEF ReadVersion
<1>5. ASSUME NEW p \in Procs, Check(p) PROVE [Abs!Next]_Abs!avars
  <2>1. CASE Superseded(p)
    BY <1>0, <1>5, <2>1 DEF Check
  <2>2. CASE ~Superseded(p) /\ phase = "Connected"
    \* the checked write of a live state: the abstract Fail
    BY <1>5, <2>2 DEF Check, Abs!Next, Abs!Fail
  <2>3. CASE ~Superseded(p) /\ phase # "Connected"
    \* not Reconnecting either, so already Disconnected: nothing moves
    BY <1>0, <1>5, <2>3 DEF Check, Superseded, IInv, TypeOK, Phases
  <2>4. QED
    BY <2>1, <2>2, <2>3
<1>6. ASSUME NEW p \in Procs, Reconnect(p) PROVE [Abs!Next]_Abs!avars
  <2>1. CASE phase = "Disconnected"
    BY <1>6, <2>1 DEF Reconnect, Abs!Next, Abs!StartDial
  <2>2. CASE phase # "Disconnected"
    BY <1>0, <1>6, <2>2 DEF Reconnect
  <2>3. QED
    BY <2>1, <2>2
<1>7. CASE DialSucceed
  <2>1. phase = "Reconnecting"
    BY <1>7 DEF DialSucceed, IInv, TypeOK, SingleDial
  <2>2. QED
    BY <1>7, <2>1 DEF DialSucceed, Abs!Next, Abs!Reconnected
<1>8. CASE DialFail
  <2>1. phase = "Reconnecting"
    BY <1>8 DEF DialFail, IInv, TypeOK, SingleDial
  <2>2. QED
    BY <1>8, <2>1 DEF DialFail, Abs!Next, Abs!DialFailed
<1>9. CASE UNCHANGED vars
  BY <1>0, <1>9 DEF vars
<1>11. ASSUME NEW b \in Breaches, Call(b) PROVE [Abs!Next]_Abs!avars
  BY <1>0, <1>11 DEF Call
<1>10. QED
  BY <1>1, <1>2, <1>3, <1>4, <1>5, <1>6, <1>7, <1>8, <1>9, <1>11
  DEF Next, Trigger, Dial

(* The connection implements ConnectionAbstract: however the observers,    *)
(* pinger breaches, retry timers and dial tasks interleave, (phase, version) and the        *)
(* reconnect_handler channel only ever move along the reconnect cycle.     *)
THEOREM Refinement == Spec => ImplementsAbstract
<1>1. Spec => []IInv
  BY IInvInit, IInvStep, PTL DEF Spec
<1>2. QED
  BY <1>1, AbsInit, AbsStep, PTL DEF Spec, ImplementsAbstract, Abs!Spec

=============================================================================
