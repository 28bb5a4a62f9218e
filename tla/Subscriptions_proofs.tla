------------------------- MODULE Subscriptions_proofs -------------------------
(***************************************************************************)
(* Proofs about the subscription registry and the multiplexer of           *)
(* src/nats_client/client.rs (module Subscriptions), for every set of sids *)
(* and every bound.                                                        *)
(*                                                                         *)
(* The messages of a sid still on the wire, InFlight(s), are a count of    *)
(* the positions of a sequence holding s.  The lemmas OccAppend and        *)
(* OccTail say how that count moves when the server appends a MSG and the  *)
(* multiplexer takes one: the bookkeeping every conservation argument      *)
(* about the channels rests on.                                            *)
(***************************************************************************)
EXTENDS Subscriptions, FiniteSetTheorems, TLAPS

\* Occurrences of x in the sequence sq.
Occ(sq, x) == Cardinality({i \in DOMAIN sq : sq[i] = x})

-----------------------------------------------------------------------------
(* A count of occurrences is a natural number.                             *)
LEMMA OccNat ==
  ASSUME NEW S, NEW sq \in Seq(S), NEW x
  PROVE  /\ IsFiniteSet({i \in DOMAIN sq : sq[i] = x})
         /\ Occ(sq, x) \in Nat
<1>1. IsFiniteSet(1..Len(sq))
  BY FS_Interval
<1>2. IsFiniteSet({i \in DOMAIN sq : sq[i] = x})
  BY <1>1, FS_Subset
<1>3. QED
  BY <1>2, FS_CardinalityType DEF Occ

(* Appending e adds one occurrence of e and none of anything else: the     *)
(* server writing a MSG frame.                                             *)
LEMMA OccAppend ==
  ASSUME NEW S, NEW sq \in Seq(S), NEW e \in S, NEW x
  PROVE  Occ(Append(sq, e), x) = Occ(sq, x) + (IF e = x THEN 1 ELSE 0)
<1> DEFINE A == {i \in DOMAIN sq : sq[i] = x}
           B == {i \in DOMAIN Append(sq, e) : Append(sq, e)[i] = x}
           n == Len(sq)
<1>1. IsFiniteSet(A) /\ Cardinality(A) \in Nat
  BY OccNat DEF Occ
<1>2. n + 1 \notin A
  OBVIOUS
<1>3. CASE e = x
  <2>1. B = A \cup {n + 1}
    BY <1>3
  <2>2. Cardinality(B) = Cardinality(A) + 1
    BY <1>1, <1>2, <2>1, FS_AddElement
  <2>3. Occ(Append(sq, e), x) = Cardinality(B)
    BY DEF Occ
  <2>4. Occ(sq, x) = Cardinality(A)
    BY DEF Occ
  <2>5. QED
    BY <1>1, <1>3, <2>2, <2>3, <2>4
<1>4. CASE e # x
  <2>1. B = A
    BY <1>4
  <2>2. Occ(Append(sq, e), x) = Occ(sq, x)
    BY <2>1 DEF Occ
  <2>3. Occ(sq, x) \in Nat
    BY OccNat
  <2>4. QED
    BY <1>4, <2>2, <2>3
<1>5. QED
  BY <1>3, <1>4

(* Taking the head removes one occurrence of the head and none of anything *)
(* else: the multiplexer reading a MSG frame.                              *)
LEMMA OccTail ==
  ASSUME NEW S, NEW sq \in Seq(S), sq # <<>>, NEW x
  PROVE  Occ(sq, x) = Occ(Tail(sq), x) + (IF Head(sq) = x THEN 1 ELSE 0)
<1> DEFINE A == {i \in DOMAIN sq : sq[i] = x}
           B == {i \in DOMAIN Tail(sq) : Tail(sq)[i] = x}
           f == [i \in A \ {1} |-> i - 1]
<1>1. IsFiniteSet(A)
  BY OccNat
<1>2. f \in Bijection(A \ {1}, B)
  <2>1. f \in [A \ {1} -> B]
    OBVIOUS
  <2>2. IsInjective(f)
    BY DEF IsInjective
  <2>3. \A j \in B : \E i \in A \ {1} : f[i] = j
    <3> TAKE j \in B
    <3>1. j + 1 \in A \ {1} /\ f[j + 1] = j
      OBVIOUS
    <3>2. QED
      BY <3>1
  <2>4. QED
    BY <2>1, <2>2, <2>3 DEF Bijection, Injection, Surjection
<1>3. IsFiniteSet(A \ {1})
  BY <1>1, FS_RemoveElement
<1>4. Cardinality(B) = Cardinality(A \ {1})
  <2>1. ExistsBijection(A \ {1}, B)
    BY <1>2 DEF ExistsBijection
  <2>2. QED
    BY <1>3, <2>1, FS_Bijection
<1>5. Cardinality(A \ {1}) = IF 1 \in A THEN Cardinality(A) - 1 ELSE Cardinality(A)
  BY <1>1, FS_RemoveElement
<1>6. (1 \in A) <=> (Head(sq) = x)
  OBVIOUS
<1>7. Cardinality(A) \in Nat
  BY <1>1, FS_CardinalityType
<1>8. Occ(sq, x) = Cardinality(A) /\ Occ(Tail(sq), x) = Cardinality(B)
  BY DEF Occ
<1> HIDE DEF A, B, f
<1>9. Cardinality(A) = Cardinality(B) + (IF Head(sq) = x THEN 1 ELSE 0)
  <2>1. CASE Head(sq) = x
    <3>1. Cardinality(A \ {1}) = Cardinality(A) - 1
      BY <1>5, <1>6, <2>1
    <3>2. QED
      BY <1>4, <1>7, <2>1, <3>1
  <2>2. CASE Head(sq) # x
    <3>1. Cardinality(A \ {1}) = Cardinality(A)
      BY <1>5, <1>6, <2>2
    <3>2. QED
      BY <1>4, <1>7, <2>2, <3>1
  <2>3. QED
    BY <2>1, <2>2
<1>10. QED
  BY <1>8, <1>9, Zenon

-----------------------------------------------------------------------------
(* Type correctness.                                                       *)

USE SubsAssumption DEF AllSids

(* The frames the client writes are frames of the protocol.                *)
LEMMA FrameTypes ==
  ASSUME NEW t \in AllSids, NEW m \in Nat
  PROVE  /\ SubFrame(t) \in Frames
         /\ UnsubFrame(t, m) \in Frames
         /\ PubFrame(t) \in Frames
BY DEF SubFrame, UnsubFrame, PubFrame, Frames

(* Setting max_count or counting a message keeps a registry entry an entry *)
LEMMA EntryUpdate ==
  ASSUME NEW r \in [max : Nat, count : Nat], NEW m \in Nat
  PROVE  /\ [r EXCEPT !.max = m] \in [max : Nat, count : Nat]
         /\ [r EXCEPT !.count = @ + 1] \in [max : Nat, count : Nat]
OBVIOUS

(* The state create_client starts from is well typed.                      *)
LEMMA TypeInit == Init => TypeOK
BY DEF Init, TypeOK

(* The server's Deliver keeps the types of the wire and its counters.      *)
LEMMA DeliverType ==
  ASSUME TypeOK, NEW t \in AllSids, Deliver(t)
  PROVE  /\ in' \in Seq(AllSids)
         /\ srvSent' \in [AllSids -> Nat]
         /\ srvOn' \subseteq AllSids
BY DEF TypeOK, Deliver

(* Every step keeps the types.                                             *)
LEMMA TypeStep == TypeOK /\ [Next]_vars => TypeOK'
<1> SUFFICES ASSUME TypeOK, [Next]_vars PROVE TypeOK'
  OBVIOUS
<1>1. ASSUME NEW t \in Sids, SubscribeSend(t) PROVE TypeOK'
  BY <1>1, FrameTypes DEF SubscribeSend, TypeOK
<1>2. ASSUME NEW t \in Sids, SubscribeRegister(t) PROVE TypeOK'
  BY <1>2 DEF SubscribeRegister, Register, Insert, TypeOK
<1>3. ASSUME NEW t \in Sids, NEW m \in UnsubMaxes, Unsubscribe(t, m)
      PROVE TypeOK'
  <2>1. DOMAIN subs' \subseteq AllSids
        /\ \A x \in DOMAIN subs' : subs'[x] \in [max : Nat, count : Nat]
    <3>1. CASE m # 0 /\ t \in DOMAIN subs
      <4>1. subs' = [subs EXCEPT ![t].max = m]
        BY <1>3, <3>1 DEF Unsubscribe
      <4>2. [subs[t] EXCEPT !.max = m] \in [max : Nat, count : Nat]
        BY <3>1, EntryUpdate DEF TypeOK
      <4>3. QED
        BY <4>1, <4>2, <3>1 DEF TypeOK
    <3>2. CASE ~(m # 0 /\ t \in DOMAIN subs)
      BY <1>3, <3>2 DEF Unsubscribe, TypeOK
    <3>3. QED
      BY <3>1, <3>2
  <2>2. out' \in Seq(Frames)
    BY <1>3, FrameTypes DEF Unsubscribe, TypeOK
  <2>3. QED
    BY <1>3, <2>1, <2>2 DEF Unsubscribe, TypeOK
<1>4. ASSUME NEW t \in Sids, ConsumeMsg(t) PROVE TypeOK'
  <2>1. chan' \in [AllSids -> Seq(Items)]
    BY <1>4 DEF ConsumeMsg, TypeOK
  <2>2. UNCHANGED <<out, in, srvOn, srvMax, srvSent, unsub, rq>>
    BY <1>4 DEF ConsumeMsg
  <2>3. CASE Counted(t) /\ ReachesMax(t)
    <3>1. subs' = Remove(subs, t) /\ us' = [us EXCEPT ![t] = "maxed"]
          /\ UNCHANGED got
      BY <1>4, <2>3 DEF ConsumeMsg
    <3>2. /\ DOMAIN subs' \subseteq AllSids
          /\ \A x \in DOMAIN subs' : subs'[x] \in [max : Nat, count : Nat]
      BY <3>1 DEF Remove, TypeOK
    <3>3. QED
      BY <2>1, <2>2, <3>1, <3>2 DEF TypeOK
  <2>4. CASE ~(Counted(t) /\ ReachesMax(t))
    <3>1. got' = [got EXCEPT ![t] = @ + 1] /\ UNCHANGED us
      BY <1>4, <2>4 DEF ConsumeMsg
    <3>2. /\ DOMAIN subs' \subseteq AllSids
          /\ \A x \in DOMAIN subs' : subs'[x] \in [max : Nat, count : Nat]
      <4>1. CASE Counted(t)
        <5>1. subs' = [subs EXCEPT ![t].count = @ + 1]
          BY <1>4, <2>4, <4>1 DEF ConsumeMsg
        <5>2. [subs[t] EXCEPT !.count = @ + 1] \in [max : Nat, count : Nat]
          BY <4>1, EntryUpdate DEF TypeOK, Counted
        <5>3. QED
          BY <4>1, <5>1, <5>2 DEF TypeOK, Counted
      <4>2. CASE ~Counted(t)
        BY <1>4, <2>4, <4>2 DEF ConsumeMsg, TypeOK
      <4>3. QED
        BY <4>1, <4>2
    <3>3. QED
      BY <2>1, <2>2, <3>1, <3>2 DEF TypeOK
  <2>5. QED
    BY <2>3, <2>4
<1>5. ASSUME NEW t \in Sids, ServerPublish(t) PROVE TypeOK'
  BY <1>5, DeliverType DEF ServerPublish, TypeOK
<1>6. ASSUME NEW q \in Reqs, RequestCall(q) PROVE TypeOK'
  BY <1>6 DEF RequestCall, Register, Insert, TypeOK
<1>7. ASSUME NEW q \in Reqs, RequestSend(q) PROVE TypeOK'
  <2>1. <<SubFrame(q), UnsubFrame(q, 1), PubFrame(q)>> \in Seq(Frames)
    BY FrameTypes
  <2>2. QED
    BY <1>7, <2>1 DEF RequestSend, TypeOK
<1>8. ASSUME NEW q \in Reqs, RequestRecv(q) PROVE TypeOK'
  BY <1>8 DEF RequestRecv, Remove, TypeOK
<1>9. CASE Demux
  <2> DEFINE h == Head(in)
  <2>1. h \in AllSids
    BY <1>9 DEF Demux, TypeOK
  <2>2. chan' \in [AllSids -> Seq(Items)]
    <3>1. CASE h \in DOMAIN subs
      <4>1. chan' = [chan EXCEPT ![h] = Append(@, "msg")]
        BY <1>9, <3>1 DEF Demux
      <4>2. QED
        BY <2>1, <4>1 DEF TypeOK, Items
    <3>2. CASE h \notin DOMAIN subs
      BY <1>9, <3>2 DEF Demux, TypeOK
    <3>3. QED
      BY <3>1, <3>2
  <2>3. QED
    BY <1>9, <2>2 DEF Demux, TypeOK
<1>10. CASE ServerRead
  <2> DEFINE f == Head(out)
  <2>1. f \in Frames /\ out' \in Seq(Frames)
    BY <1>10 DEF ServerRead, TypeOK
  <2>2. f.sid \in AllSids /\ f.max \in Nat
    BY <2>1 DEF Frames
  <2>3. UNCHANGED <<subs, chan, us, got, unsub, rq>>
    BY <1>10 DEF ServerRead
  <2>4. CASE f.op = "SUB"
    <3>1. srvOn' = srvOn \cup {f.sid} /\ srvMax' = [srvMax EXCEPT ![f.sid] = 0]
          /\ UNCHANGED <<in, srvSent>>
      BY <1>10, <2>4 DEF ServerRead
    <3>2. QED
      BY <2>1, <2>2, <2>3, <3>1 DEF TypeOK
  <2>5. CASE f.op = "UNSUB" /\ UnsubNow(f)
    <3>1. srvOn' = srvOn \ {f.sid} /\ UNCHANGED <<in, srvMax, srvSent>>
      BY <1>10, <2>5 DEF ServerRead
    <3>2. QED
      BY <2>1, <2>3, <3>1 DEF TypeOK
  <2>6. CASE f.op = "UNSUB" /\ ~UnsubNow(f)
    <3>1. srvMax' = [srvMax EXCEPT ![f.sid] = f.max] /\ UNCHANGED <<in, srvOn, srvSent>>
      BY <1>10, <2>6 DEF ServerRead
    <3>2. QED
      BY <2>1, <2>2, <2>3, <3>1 DEF TypeOK
  <2>7. CASE f.op = "PUB" /\ f.sid \in srvOn
    <3>1. Deliver(f.sid) /\ UNCHANGED srvMax
      BY <1>10, <2>7 DEF ServerRead
    <3>2. QED
      BY <2>1, <2>2, <2>3, <3>1, DeliverType DEF TypeOK
  <2>8. CASE f.op = "PUB" /\ f.sid \notin srvOn
    <3>1. UNCHANGED <<in, srvOn, srvSent, srvMax>>
      BY <1>10, <2>8 DEF ServerRead
    <3>2. QED
      BY <2>1, <2>3, <3>1 DEF TypeOK
  <2>9. QED
    BY <2>1, <2>4, <2>5, <2>6, <2>7, <2>8 DEF Frames
<1>11. CASE UNCHANGED vars
  BY <1>11 DEF vars, TypeOK
<1>12. QED
  BY <1>1, <1>2, <1>3, <1>4, <1>5, <1>6, <1>7, <1>8, <1>9, <1>10, <1>11
  DEF Next

(***************************************************************************)
(* Every state of the registry, the channels, the wire and the server      *)
(* counters is well typed, for any sets of sids and any bounds.            *)
(***************************************************************************)
THEOREM TypeCorrect == Spec => []TypeOK
BY TypeInit, TypeStep, PTL DEF Spec

-----------------------------------------------------------------------------
(***************************************************************************)
(* MaxedAfterServerQuota.  It is not inductive: a stream is maxed by the   *)
(* then-closure, which looks only at the client's count, so the proof has  *)
(* to carry what that count says about the server.  For every user sid s:  *)
(*   - the client's count never runs ahead of the messages the stream      *)
(*     yielded, and a max_count, once set, is the user's unsubscribe       *)
(*     argument (lines 413-416 are the only writer);                       *)
(*   - a maxed stream had yielded at least max_msgs - 1 messages;          *)
(*   - every message the stream yielded, plus the one that maxed it, is    *)
(*     one the server delivered: the server's count covers those on the    *)
(*     wire, those queued in the channel and those consumed.  (Messages    *)
(*     the multiplexer dropped keep it an inequality.)                     *)
(***************************************************************************)
Quota(s) ==
  /\ s \in DOMAIN subs =>
       /\ subs[s].count <= got[s]
       /\ subs[s].max # 0 => subs[s].max = unsub[s]
  /\ us[s] = "maxed" => got[s] + 1 >= unsub[s]
  /\ srvSent[s] >= Occ(in, s) + Len(chan[s]) + got[s]
                     + (IF us[s] = "maxed" THEN 1 ELSE 0)

QuotaInv == \A s \in Sids : Quota(s)

\* A step leaves everything Quota(s) reads as it was.
Same(s) ==
  /\ (s \in DOMAIN subs') = (s \in DOMAIN subs)
  /\ s \in DOMAIN subs => subs'[s] = subs[s]
  /\ chan'[s] = chan[s]
  /\ in' = in
  /\ srvSent'[s] = srvSent[s]
  /\ us'[s] = us[s]
  /\ got'[s] = got[s]
  /\ unsub'[s] = unsub[s]

(* Quota(s) is kept by a step that does not touch s.                       *)
LEMMA SameQuota ==
  ASSUME NEW s, Quota(s), Same(s)
  PROVE  Quota(s)'
BY DEF Quota, Same

(* The quota holds in the initial state.                                   *)
LEMMA QuotaInit == Init => QuotaInv
<1> SUFFICES ASSUME Init, NEW s \in Sids PROVE Quota(s)
  BY DEF QuotaInv
<1>1. Occ(in, s) = 0
  BY FS_EmptySet DEF Init, Occ
<1>2. QED
  BY <1>1 DEF Init, Quota

(* The server delivering a message for t adds one to its count for t and   *)
(* one message for t on the wire.                                          *)
LEMMA DeliverQuota ==
  ASSUME TypeOK, NEW s \in Sids, Quota(s), NEW t \in AllSids, Deliver(t),
         UNCHANGED <<subs, chan, us, got, unsub>>
  PROVE  Quota(s)'
<1>1. Occ(in', s) = Occ(in, s) + (IF t = s THEN 1 ELSE 0)
  BY OccAppend DEF Deliver, TypeOK
<1>2. srvSent'[s] = srvSent[s] + (IF t = s THEN 1 ELSE 0)
  BY DEF Deliver, TypeOK
<1>3. Occ(in, s) \in Nat
  BY OccNat DEF TypeOK
<1>4. QED
  BY <1>1, <1>2, <1>3 DEF Quota, TypeOK

(* Every step keeps the quota of every user sid.                          *)
LEMMA QuotaStep == TypeOK /\ QuotaInv /\ [Next]_vars => QuotaInv'
<1> SUFFICES ASSUME TypeOK, QuotaInv, [Next]_vars, NEW s \in Sids
             PROVE  Quota(s)'
  BY DEF QuotaInv
<1>nat. Occ(in, s) \in Nat /\ got[s] \in Nat /\ srvSent[s] \in Nat
  <2>1. in \in Seq(AllSids)
    BY DEF TypeOK
  <2>2. QED
    BY <2>1, OccNat, Zenon DEF TypeOK
<1>0. /\ Quota(s)
      /\ Occ(in, s) \in Nat
      /\ got[s] \in Nat /\ srvSent[s] \in Nat /\ chan[s] \in Seq(Items)
  <2>1. Quota(s)
    BY DEF QuotaInv
  <2>2. chan[s] \in Seq(Items)
    BY DEF TypeOK
  <2>3. QED
    BY <1>nat, <2>1, <2>2
\* The channel lengths get names, so that the arithmetic below is kept
\* apart from the axioms of sequences.
<1>next. TypeOK'
  BY TypeStep
<1>len. Len(chan[s]) \in Nat /\ Len(chan'[s]) \in Nat
  BY <1>0, <1>next DEF TypeOK
<1>lc. PICK lc \in Nat, lc2 \in Nat : lc = Len(chan[s]) /\ lc2 = Len(chan'[s])
  BY <1>len, Zenon
<1>q. /\ s \in DOMAIN subs =>
           /\ subs[s].count <= got[s]
           /\ subs[s].max # 0 => subs[s].max = unsub[s]
      /\ us[s] = "maxed" => got[s] + 1 >= unsub[s]
      /\ srvSent[s] >= Occ(in, s) + lc + got[s]
                       + (IF us[s] = "maxed" THEN 1 ELSE 0)
  BY <1>0, <1>lc, Zenon DEF Quota
<1>ty. /\ s \in DOMAIN subs => subs[s] \in [max : Nat, count : Nat]
       /\ unsub[s] \in Int
  <2>1. s \in DOMAIN subs => subs[s] \in [max : Nat, count : Nat]
    BY DEF TypeOK
  <2>2. unsub[s] \in UnsubMaxes \cup {-1}
    BY DEF TypeOK
  <2>3. CASE unsub[s] \in UnsubMaxes
    <3>1. unsub[s] \in Nat
      BY <2>3, SubsAssumption, Zenon
    <3>2. QED
      BY <2>1, <3>1
  <2>4. CASE unsub[s] = -1
    BY <2>1, <2>4
  <2>5. QED
    BY <2>2, <2>3, <2>4
<1>1. ASSUME NEW t \in Sids, SubscribeSend(t) PROVE Quota(s)'
  <2>1. CASE t = s
    BY <1>0, <1>1, <2>1 DEF SubscribeSend, Quota, TypeOK
  <2>2. CASE t # s
    BY <1>0, <1>1, <2>2, SameQuota DEF SubscribeSend, Same, TypeOK
  <2>3. QED
    BY <2>1, <2>2
<1>2. ASSUME NEW t \in Sids, SubscribeRegister(t) PROVE Quota(s)'
  <2>1. CASE t = s
    \* a fresh entry and an empty channel: the client's side restarts at 0
    <3>1. subs'[s] = [max |-> 0, count |-> 0] /\ s \in DOMAIN subs'
          /\ chan'[s] = <<>> /\ us'[s] = "open"
      BY <1>2, <2>1 DEF SubscribeRegister, Register, Insert, TypeOK
    <3>2. UNCHANGED <<in, srvSent, got, unsub>>
      BY <1>2 DEF SubscribeRegister
    <3>3. QED
      BY <1>0, <3>1, <3>2 DEF Quota
  <2>2. CASE t # s
    <3>1. /\ (s \in DOMAIN subs') = (s \in DOMAIN subs)
          /\ s \in DOMAIN subs => subs'[s] = subs[s]
      BY <1>2, <2>2 DEF SubscribeRegister, Register, Insert
    <3>2. chan'[s] = chan[s] /\ us'[s] = us[s]
      BY <1>2, <2>2 DEF SubscribeRegister, Register, TypeOK
    <3>3. UNCHANGED <<in, srvSent, got, unsub>>
      BY <1>2 DEF SubscribeRegister
    <3>4. QED
      BY <1>0, <3>1, <3>2, <3>3, SameQuota DEF Same
  <2>3. QED
    BY <2>1, <2>2
<1>3. ASSUME NEW t \in Sids, NEW m \in UnsubMaxes, Unsubscribe(t, m)
      PROVE Quota(s)'
  <2>1. CASE t = s
    \* the first unsubscribe: no max_count was set before it
    <3>1. us[s] = "open" /\ unsub[s] = -1 /\ unsub'[s] = m /\ us'[s] = "open"
      BY <1>3, <2>1 DEF Unsubscribe, TypeOK
    <3>2. s \in DOMAIN subs => subs[s].max = 0
      BY <1>0, <3>1 DEF Quota, TypeOK
    <3>3. UNCHANGED <<chan, in, srvSent, got>>
      BY <1>3 DEF Unsubscribe
    <3>4. DOMAIN subs' = DOMAIN subs
      BY <1>3 DEF Unsubscribe
    <3>5. s \in DOMAIN subs =>
            /\ subs'[s].count = subs[s].count
            /\ subs'[s].max = IF m # 0 THEN m ELSE subs[s].max
      BY <1>3, <2>1 DEF Unsubscribe, TypeOK
    <3>6. (srvSent[s] >= Occ(in, s) + Len(chan[s]) + got[s]
                        + (IF us[s] = "maxed" THEN 1 ELSE 0))'
      BY <1>0, <1>3, <3>1, <3>3, Zenon DEF Quota, Unsubscribe
    <3>7. (/\ s \in DOMAIN subs =>
              /\ subs[s].count <= got[s]
              /\ subs[s].max # 0 => subs[s].max = unsub[s]
           /\ us[s] = "maxed" => got[s] + 1 >= unsub[s])'
      BY <1>nat, <1>q, <1>ty, <3>1, <3>2, <3>3, <3>4, <3>5
    <3>8. QED
      BY <3>6, <3>7, Zenon DEF Quota
  <2>2. CASE t # s
    BY <1>0, <1>3, <2>2, SameQuota DEF Unsubscribe, Same, TypeOK
  <2>3. QED
    BY <2>1, <2>2
<1>4. ASSUME NEW t \in Sids, ConsumeMsg(t) PROVE Quota(s)'
  <2>1. CASE t = s
    <3>1. chan[s] # <<>> /\ chan'[s] = Tail(chan[s]) /\ us[s] = "open"
      BY <1>4, <2>1 DEF ConsumeMsg, TypeOK
    <3>2. lc2 = lc - 1
      <4>1. Len(chan'[s]) = Len(chan[s]) - 1
        BY <1>0, <3>1
      <4>2. QED
        BY <1>lc, <4>1, Zenon
    <3>3. UNCHANGED <<in, srvSent, unsub>>
      BY <1>4 DEF ConsumeMsg
    <3>4. srvSent'[s] = srvSent[s] /\ unsub'[s] = unsub[s]
      BY <3>3, Zenon
    <3>5. srvSent[s] >= Occ(in, s) + lc + got[s]
      <4>1. (IF us[s] = "maxed" THEN 1 ELSE 0) = 0
        BY <3>1
      <4>2. QED
        BY <1>0, <1>q, <4>1
    <3>6. CASE Counted(s) /\ ReachesMax(s)
      \* the n-th message is swapped for the error: yielded n - 1 before it
      <4>1. subs' = Remove(subs, s) /\ us'[s] = "maxed" /\ got'[s] = got[s]
        BY <1>4, <2>1, <3>6 DEF ConsumeMsg, TypeOK
      <4>2. s \notin DOMAIN subs'
        BY <4>1 DEF Remove
      <4>3. got[s] + 1 >= unsub[s]
        BY <1>0, <1>q, <1>ty, <3>6 DEF Counted, ReachesMax
      <4>4. srvSent'[s] >= Occ(in', s) + lc2 + got'[s] + 1
        BY <1>0, <3>2, <3>3, <3>4, <3>5, <4>1
      <4>5. QED
        BY <1>lc, <3>4, <4>1, <4>2, <4>3, <4>4, Zenon DEF Quota
    <3>7. CASE ~(Counted(s) /\ ReachesMax(s))
      <4>1. got'[s] = got[s] + 1 /\ us'[s] = us[s]
        BY <1>4, <2>1, <3>7 DEF ConsumeMsg, TypeOK
      <4>2. /\ (s \in DOMAIN subs') = (s \in DOMAIN subs)
            /\ s \in DOMAIN subs =>
                 /\ subs'[s].max = subs[s].max
                 /\ subs'[s].count <= subs[s].count + 1
        BY <1>4, <2>1, <3>7 DEF ConsumeMsg, Counted, TypeOK
      <4>3. s \in DOMAIN subs' =>
               /\ subs'[s].count <= got'[s]
               /\ subs'[s].max # 0 => subs'[s].max = unsub'[s]
        <5>1. SUFFICES ASSUME s \in DOMAIN subs'
                       PROVE  /\ subs'[s].count <= got'[s]
                              /\ subs'[s].max # 0 => subs'[s].max = unsub'[s]
          OBVIOUS
        <5>2. s \in DOMAIN subs
          BY <4>2, <5>1, Zenon
        <5>3. /\ subs[s] \in [max : Nat, count : Nat]
              /\ subs[s].count <= got[s]
              /\ subs[s].max # 0 => subs[s].max = unsub[s]
          BY <1>q, <1>ty, <5>2, Zenon
        <5>4. subs'[s].max = subs[s].max /\ subs'[s].count <= subs[s].count + 1
          BY <4>2, <5>2
        <5>5. subs'[s] \in [max : Nat, count : Nat]
          BY <1>next, <5>1 DEF TypeOK
        <5>6. QED
          BY <1>nat, <3>4, <4>1, <5>3, <5>4, <5>5
      <4>4. srvSent'[s] >= Occ(in', s) + lc2 + got'[s] + 0
        BY <1>nat, <3>2, <3>3, <3>4, <3>5, <4>1
      <4>5. (IF us'[s] = "maxed" THEN 1 ELSE 0) = 0
        BY <3>1, <4>1
      <4>6. QED
        BY <1>lc, <3>1, <4>1, <4>3, <4>4, <4>5, Zenon DEF Quota
    <3>8. QED
      BY <3>6, <3>7
  <2>2. CASE t # s
    <3>1. /\ (s \in DOMAIN subs') = (s \in DOMAIN subs)
          /\ s \in DOMAIN subs => subs'[s] = subs[s]
      <4>1. CASE Counted(t) /\ ReachesMax(t)
        BY <1>4, <2>2, <4>1 DEF ConsumeMsg, Remove
      <4>2. CASE ~(Counted(t) /\ ReachesMax(t))
        BY <1>4, <2>2, <4>2 DEF ConsumeMsg
      <4>3. QED
        BY <4>1, <4>2
    <3>2. chan'[s] = chan[s] /\ us'[s] = us[s] /\ got'[s] = got[s]
      BY <1>4, <2>2 DEF ConsumeMsg, TypeOK
    <3>3. UNCHANGED <<in, srvSent, unsub>>
      BY <1>4 DEF ConsumeMsg
    <3>4. QED
      BY <1>0, <3>1, <3>2, <3>3, SameQuota DEF Same
  <2>3. QED
    BY <2>1, <2>2
<1>5. ASSUME NEW t \in Sids, ServerPublish(t) PROVE Quota(s)'
  BY <1>0, <1>5, DeliverQuota DEF ServerPublish
<1>6. ASSUME NEW q \in Reqs, RequestCall(q) \/ RequestSend(q) \/ RequestRecv(q)
      PROVE Quota(s)'
  \* inboxes are not user sids
  <2>1. q # s
    OBVIOUS
  <2>2. /\ (s \in DOMAIN subs') = (s \in DOMAIN subs)
        /\ s \in DOMAIN subs => subs'[s] = subs[s]
    BY <1>6, <2>1 DEF RequestCall, RequestSend, RequestRecv, Register,
                      Insert, Remove
  <2>3. chan'[s] = chan[s]
    BY <1>6, <2>1 DEF RequestCall, RequestSend, RequestRecv, Register,
                      TypeOK
  <2>4. UNCHANGED <<in, srvSent, us, got, unsub>>
    BY <1>6 DEF RequestCall, RequestSend, RequestRecv
  <2>5. QED
    BY <1>0, <2>2, <2>3, <2>4, SameQuota DEF Same
<1>7. CASE Demux
  <2> DEFINE h == Head(in)
             mx == IF us[s] = "maxed" THEN 1 ELSE 0
  <2>1. in # <<>> /\ in' = Tail(in) /\ h \in AllSids
    BY <1>7 DEF Demux, TypeOK
  <2>2. in \in Seq(AllSids) /\ Tail(in) \in Seq(AllSids)
    BY <2>1 DEF TypeOK
  <2>3. Occ(in, s) = Occ(in', s) + (IF h = s THEN 1 ELSE 0)
    BY <2>1, <2>2, OccTail
  <2>4. Occ(in', s) \in Nat
    <3>1. Occ(Tail(in), s) \in Nat
      BY <2>2, OccNat, Zenon
    <3>2. QED
      BY <2>1, <3>1, Zenon
  <2>5. chan'[s] = chan[s] \/ (h = s /\ chan'[s] = Append(chan[s], "msg"))
    BY <1>7, <2>1 DEF Demux, TypeOK
  <2>6. UNCHANGED <<subs, srvSent, us, got, unsub>>
    BY <1>7 DEF Demux
  <2>7. got'[s] = got[s] /\ srvSent'[s] = srvSent[s] /\ mx' = mx
    BY <2>6, Zenon
  <2>8. srvSent[s] >= Occ(in, s) + lc + got[s] + mx /\ mx \in {0, 1}
    BY <1>q
  <2>9. (/\ s \in DOMAIN subs =>
            /\ subs[s].count <= got[s]
            /\ subs[s].max # 0 => subs[s].max = unsub[s]
         /\ us[s] = "maxed" => got[s] + 1 >= unsub[s])'
    BY <1>0, <2>6 DEF Quota
  <2> HIDE DEF mx
  <2>10. srvSent'[s] >= Occ(in', s) + lc2 + got'[s] + mx
    <3>1. CASE h = s
      \* the head leaves the wire, and is queued for s or dropped
      <4>1. Occ(in, s) = Occ(in', s) + 1
        BY <2>3, <3>1, Zenon
      <4>2. lc2 <= lc + 1
        <5>1. Len(chan'[s]) <= Len(chan[s]) + 1
          <6>1. CASE chan'[s] = chan[s]
            BY <1>0, <6>1
          <6>2. CASE chan'[s] = Append(chan[s], "msg")
            BY <1>0, <6>2
          <6>3. QED
            BY <2>5, <6>1, <6>2
        <5>2. QED
          BY <1>lc, <5>1, Zenon
      <4>3. QED
        BY <1>nat, <2>4, <2>7, <2>8, <4>1, <4>2
    <3>2. CASE h # s
      \* the head is another sid's: nothing of s moves
      <4>1. (IF h = s THEN 1 ELSE 0) = 0 /\ chan'[s] = chan[s]
        BY <2>5, <3>2, Zenon
      <4>2. Occ(in, s) = Occ(in', s) + 0
        BY <2>3, <4>1, Zenon
      <4>3. lc2 = lc
        BY <1>lc, <4>1, Zenon
      <4>4. QED
        BY <1>nat, <2>4, <2>7, <2>8, <4>2, <4>3
    <3>3. QED
      BY <3>1, <3>2
  <2>11. QED
    BY <1>lc, <2>7, <2>9, <2>10, Zenon DEF Quota, mx
<1>8. CASE ServerRead
  <2> DEFINE f == Head(out)
  <2>0. f \in Frames
    BY <1>8 DEF ServerRead, TypeOK
  <2>1. f \in Frames /\ f.sid \in AllSids
    BY <2>0, Zenon DEF Frames
  <2>2. UNCHANGED <<subs, chan, us, got, unsub>>
    BY <1>8 DEF ServerRead
  <2>3. CASE f.op = "PUB" /\ f.sid \in srvOn
    <3>1. Deliver(f.sid)
      BY <1>8, <2>3 DEF ServerRead
    <3>2. QED
      BY <1>0, <2>1, <2>2, <3>1, DeliverQuota
  <2>4. CASE ~(f.op = "PUB" /\ f.sid \in srvOn)
    <3>1. UNCHANGED <<in, srvSent>>
      BY <1>8, <2>4 DEF ServerRead
    <3>2. QED
      BY <1>0, <2>2, <3>1, SameQuota DEF Same
  <2>5. QED
    BY <2>3, <2>4
<1>9. CASE UNCHANGED vars
  BY <1>0, <1>9, SameQuota DEF vars, Same
<1>10. QED
  BY <1>1, <1>2, <1>3, <1>4, <1>5, <1>6, <1>7, <1>8, <1>9 DEF Next

(***************************************************************************)
(* A stream ended by SubscriptionReachedMaxMsgs(n) belongs to a sid the    *)
(* server has already delivered n messages for (the then-closure of lines  *)
(* 437-458 against the server's auto-unsubscribe), for any sids, limits    *)
(* and bounds: the client never gives up a subscription before the server. *)
(***************************************************************************)
THEOREM MaxedAfterServerQuotaHolds == Spec => []MaxedAfterServerQuota
<1>1. Init => TypeOK /\ QuotaInv
  BY TypeInit, QuotaInit
<1>2. TypeOK /\ QuotaInv /\ [Next]_vars => (TypeOK /\ QuotaInv)'
  BY TypeStep, QuotaStep
<1>3. TypeOK /\ QuotaInv => MaxedAfterServerQuota
  <2> SUFFICES ASSUME TypeOK, QuotaInv, NEW s \in Sids, us[s] = "maxed"
               PROVE  srvSent[s] >= unsub[s]
    BY DEF MaxedAfterServerQuota
  <2>1. Occ(in, s) \in Nat /\ Len(chan[s]) \in Nat
    <3>1. in \in Seq(AllSids) /\ chan[s] \in Seq(Items)
      BY DEF TypeOK
    <3>2. Occ(in, s) \in Nat
      BY <3>1, OccNat
    <3>3. QED
      BY <3>1, <3>2
  <2>2. Quota(s) /\ got[s] \in Nat /\ srvSent[s] \in Nat
        /\ unsub[s] \in Int
    <3>1. Quota(s)
      BY DEF QuotaInv
    <3>2. got[s] \in Nat /\ srvSent[s] \in Nat /\ unsub[s] \in UnsubMaxes \cup {-1}
      BY DEF TypeOK
    <3>3. unsub[s] \in Int
      <4>1. CASE unsub[s] \in UnsubMaxes
        <5>1. unsub[s] \in Nat
          BY <4>1, SubsAssumption, Zenon
        <5>2. QED
          BY <5>1
      <4>2. CASE unsub[s] = -1
        BY <4>2
      <4>3. QED
        BY <3>2, <4>1, <4>2
    <3>4. QED
      BY <3>1, <3>2, <3>3
  <2>3. srvSent[s] >= Occ(in, s) + Len(chan[s]) + got[s] + 1
        /\ got[s] + 1 >= unsub[s]
    BY <2>2 DEF Quota
  <2>4. QED
    BY <2>1, <2>2, <2>3
<1>4. QED
  BY <1>1, <1>2, <1>3, PTL DEF Spec

-----------------------------------------------------------------------------
(***************************************************************************)
(* RequestReplyConserved.  The inbox of a request gets exactly one PUB on   *)
(* the wire (request, lines 502-525), so the server delivers at most one    *)
(* reply on it: the deliveries so far plus the PUB frames still in the      *)
(* outbound stream never exceed one.  The inbox is registered from          *)
(* RequestCall until the reply is taken, so the multiplexer queues the      *)
(* reply rather than dropping it; once the reply is taken nothing is left   *)
(* to deliver, in flight or queued.  An idle or registered request has      *)
(* nothing of its own anywhere.  A PUB frame is always the plain            *)
(* PubFrame(sid) the request builds, which the ServerRead case needs to     *)
(* tell the inbox's PUB from any other frame.                               *)
(***************************************************************************)
Plain(f) == f.op = "PUB" => f = PubFrame(f.sid)

PubPlain == \A i \in DOMAIN out : Plain(out[i])

ReqQuiet(q) ==
  /\ srvSent[q] = 0
  /\ Occ(in, q) = 0
  /\ Occ(out, PubFrame(q)) = 0

ReqInv(q) ==
  /\ srvSent[q] + Occ(out, PubFrame(q)) <= 1
  /\ rq[q] \in {"idle", "registered"} => ReqQuiet(q)
  /\ rq[q] \in {"registered", "waiting"} => q \in DOMAIN subs
  /\ rq[q] \in {"registered", "waiting", "ok"} =>
       srvSent[q] = Occ(in, q) + Len(chan[q]) + (IF rq[q] = "ok" THEN 1 ELSE 0)

ReqInvAll == PubPlain /\ \A q \in Reqs : ReqInv(q)

(* The three frames of a request, appended at once, are three appends.     *)
LEMMA ConcatTriple ==
  ASSUME NEW S, NEW sq \in Seq(S), NEW a \in S, NEW b \in S, NEW c \in S
  PROVE  sq \o <<a, b, c>> = Append(Append(Append(sq, a), b), c)
OBVIOUS

(* Appending a plain frame keeps every frame plain.                        *)
LEMMA PlainAppend ==
  ASSUME NEW S, NEW sq \in Seq(S), NEW e,
         \A i \in DOMAIN sq : Plain(sq[i]), Plain(e)
  PROVE  \A i \in DOMAIN Append(sq, e) : Plain(Append(sq, e)[i])
OBVIOUS

(* Reading the head keeps every remaining frame plain.                     *)
LEMMA PlainTail ==
  ASSUME NEW S, NEW sq \in Seq(S), sq # <<>>,
         \A i \in DOMAIN sq : Plain(sq[i])
  PROVE  /\ \A i \in DOMAIN Tail(sq) : Plain(Tail(sq)[i])
         /\ Plain(Head(sq))
OBVIOUS

(* The frames other than PUB are plain, and so is the request's PUB.       *)
LEMMA FramesPlain ==
  ASSUME NEW x, NEW m
  PROVE  Plain(SubFrame(x)) /\ Plain(UnsubFrame(x, m)) /\ Plain(PubFrame(x))
BY DEF Plain, SubFrame, UnsubFrame, PubFrame

(* Every step keeps every frame on the wire plain.                         *)
LEMMA PubPlainStep == TypeOK /\ PubPlain /\ [Next]_vars => PubPlain'
<1> SUFFICES ASSUME TypeOK, PubPlain, [Next]_vars PROVE PubPlain'
  OBVIOUS
<1>0. out \in Seq(Frames) /\ \A i \in DOMAIN out : Plain(out[i])
  BY DEF TypeOK, PubPlain
<1>1. ASSUME NEW e, Plain(e), out' = Append(out, e) PROVE PubPlain'
  BY <1>0, <1>1, PlainAppend DEF PubPlain
<1>2. ASSUME NEW q \in Reqs, RequestSend(q) PROVE PubPlain'
  <2>1. SubFrame(q) \in Frames /\ UnsubFrame(q, 1) \in Frames
        /\ PubFrame(q) \in Frames
    BY FrameTypes
  <2>2. out' = Append(Append(Append(out, SubFrame(q)), UnsubFrame(q, 1)),
                      PubFrame(q))
    BY <1>0, <1>2, <2>1, ConcatTriple DEF RequestSend
  <2>3. \A i \in DOMAIN Append(out, SubFrame(q)) :
          Plain(Append(out, SubFrame(q))[i])
    BY <1>0, FramesPlain, PlainAppend
  <2>4. \A i \in DOMAIN Append(Append(out, SubFrame(q)), UnsubFrame(q, 1)) :
          Plain(Append(Append(out, SubFrame(q)), UnsubFrame(q, 1))[i])
    BY <1>0, <2>1, <2>3, FramesPlain, PlainAppend
  <2>5. QED
    BY <1>0, <2>1, <2>2, <2>4, FramesPlain, PlainAppend DEF PubPlain
<1>3. CASE ServerRead
  BY <1>0, <1>3, PlainTail DEF ServerRead, PubPlain
<1>4. CASE UNCHANGED out
  BY <1>0, <1>4 DEF PubPlain
<1>5. QED
  <2>1. ASSUME NEW s \in Sids, SubscribeSend(s) PROVE PubPlain'
    BY <1>1, <2>1, FramesPlain DEF SubscribeSend
  <2>2. ASSUME NEW s \in Sids, NEW m \in UnsubMaxes, Unsubscribe(s, m)
        PROVE PubPlain'
    BY <1>1, <2>2, FramesPlain DEF Unsubscribe
  <2>3. QED
    BY <1>2, <1>3, <1>4, <2>1, <2>2
       DEF Next, vars, SubscribeRegister, Register, ConsumeMsg,
           ServerPublish, RequestCall, RequestRecv, Demux

(* Appending or reading an element other than x leaves the count of x.    *)
LEMMA OccOther ==
  ASSUME NEW S, NEW sq \in Seq(S), NEW e \in S, NEW x, e # x
  PROVE  /\ Occ(Append(sq, e), x) = Occ(sq, x)
         /\ sq # <<>> /\ Head(sq) = e => Occ(Tail(sq), x) = Occ(sq, x)
<1>1. (IF e = x THEN 1 ELSE 0) = 0
  OBVIOUS
<1>2. Occ(sq, x) \in Nat
  BY OccNat
<1>3. Occ(Append(sq, e), x) = Occ(sq, x)
  BY <1>1, <1>2, OccAppend
<1>4. ASSUME sq # <<>>, Head(sq) = e PROVE Occ(Tail(sq), x) = Occ(sq, x)
  <2>0. Tail(sq) \in Seq(S)
    BY <1>4
  <2>1. Occ(Tail(sq), x) \in Nat
    BY <2>0, OccNat, Zenon
  <2>2. (IF Head(sq) = x THEN 1 ELSE 0) = 0
    BY <1>4
  <2>3. QED
    BY <1>4, <2>1, <2>2, OccTail
<1>5. QED
  BY <1>3, <1>4

(* Appending or reading x itself moves the count of x by one.              *)
LEMMA OccSame ==
  ASSUME NEW S, NEW sq \in Seq(S), NEW x \in S
  PROVE  /\ Occ(Append(sq, x), x) = Occ(sq, x) + 1
         /\ sq # <<>> /\ Head(sq) = x => Occ(sq, x) = Occ(Tail(sq), x) + 1
<1>1. Occ(Append(sq, x), x) = Occ(sq, x) + 1
  BY OccAppend
<1>2. ASSUME sq # <<>>, Head(sq) = x PROVE Occ(sq, x) = Occ(Tail(sq), x) + 1
  BY <1>2, OccTail
<1>3. QED
  BY <1>1, <1>2

(* ReqInv(q) is kept by a step that leaves everything of q alone.          *)
ReqSame(q) ==
  /\ srvSent'[q] = srvSent[q]
  /\ Occ(in', q) = Occ(in, q)
  /\ Occ(out', PubFrame(q)) = Occ(out, PubFrame(q))
  /\ chan'[q] = chan[q]
  /\ rq'[q] = rq[q]
  /\ (q \in DOMAIN subs') = (q \in DOMAIN subs)

LEMMA SameReq ==
  ASSUME NEW q, ReqInv(q), ReqSame(q)
  PROVE  ReqInv(q)'
BY Zenon DEF ReqInv, ReqQuiet, ReqSame

(* In the initial state nothing is sent, in flight or pending.             *)
LEMMA ReqInit == Init => ReqInvAll
<1> SUFFICES ASSUME Init PROVE ReqInvAll
  OBVIOUS
<1>1. ASSUME NEW x PROVE Occ(in, x) = 0 /\ Occ(out, x) = 0
  BY FS_EmptySet DEF Init, Occ
<1>2. PubPlain
  BY DEF Init, PubPlain
<1>3. ASSUME NEW q \in Reqs PROVE ReqInv(q)
  BY <1>1 DEF Init, ReqInv, ReqQuiet
<1>4. QED
  BY <1>2, <1>3 DEF ReqInvAll

(* Every step keeps ReqInv for every inbox.                                *)
LEMMA ReqStep ==
  TypeOK /\ ReqInvAll /\ [Next]_vars => \A q \in Reqs : ReqInv(q)'
<1> SUFFICES ASSUME TypeOK, PubPlain, \A r \in Reqs : ReqInv(r), [Next]_vars,
                    NEW q \in Reqs
             PROVE  ReqInv(q)'
  BY DEF ReqInvAll
<1>0. ReqInv(q) /\ q \in AllSids /\ q \notin Sids
  BY Zenon DEF AllSids
<1>next. TypeOK'
  BY TypeStep
<1>ty. /\ out \in Seq(Frames) /\ in \in Seq(AllSids)
       /\ srvSent[q] \in Nat /\ PubFrame(q) \in Frames
  BY <1>0, FrameTypes DEF TypeOK
<1>nat. Occ(in, q) \in Nat /\ Occ(out, PubFrame(q)) \in Nat
  BY <1>ty, OccNat, Zenon
<1>len. Len(chan[q]) \in Nat /\ Len(chan'[q]) \in Nat
  BY <1>0, <1>next DEF TypeOK
<1>lc. PICK lc \in Nat, lc2 \in Nat : lc = Len(chan[q]) /\ lc2 = Len(chan'[q])
  BY <1>len, Zenon
<1>r. /\ srvSent[q] + Occ(out, PubFrame(q)) <= 1
      /\ rq[q] \in {"idle", "registered"} => ReqQuiet(q)
      /\ rq[q] \in {"registered", "waiting"} => q \in DOMAIN subs
      /\ rq[q] \in {"registered", "waiting", "ok"} =>
           srvSent[q] = Occ(in, q) + lc + (IF rq[q] = "ok" THEN 1 ELSE 0)
  BY <1>0, <1>lc, Zenon DEF ReqInv
<1>1. ASSUME NEW s \in Sids, SubscribeSend(s) PROVE ReqInv(q)'
  <2>1. SubFrame(s) \in Frames /\ SubFrame(s) # PubFrame(q)
    BY FrameTypes DEF SubFrame, PubFrame
  <2>2. Occ(out', PubFrame(q)) = Occ(out, PubFrame(q))
    BY <1>1, <1>ty, <2>1, OccOther DEF SubscribeSend
  <2>3. QED
    BY <1>0, <1>1, <2>2, SameReq DEF SubscribeSend, ReqSame
<1>2. ASSUME NEW s \in Sids, SubscribeRegister(s) PROVE ReqInv(q)'
  <2>1. (q \in DOMAIN subs') = (q \in DOMAIN subs)
    BY <1>0, <1>2 DEF SubscribeRegister, Register, Insert
  <2>2. chan'[q] = chan[q]
    BY <1>0, <1>2 DEF SubscribeRegister, Register, TypeOK
  <2>3. QED
    BY <1>0, <1>2, <2>1, <2>2, SameReq DEF SubscribeRegister, ReqSame
<1>3. ASSUME NEW s \in Sids, NEW m \in UnsubMaxes, Unsubscribe(s, m)
      PROVE ReqInv(q)'
  <2>1. m \in Nat
    BY SubsAssumption, Zenon
  <2>2. UnsubFrame(s, m) \in Frames /\ UnsubFrame(s, m) # PubFrame(q)
    BY <2>1, FrameTypes DEF UnsubFrame, PubFrame
  <2>3. Occ(out', PubFrame(q)) = Occ(out, PubFrame(q))
    BY <1>3, <1>ty, <2>2, OccOther DEF Unsubscribe
  <2>4. (q \in DOMAIN subs') = (q \in DOMAIN subs)
    BY <1>3 DEF Unsubscribe
  <2>5. QED
    BY <1>0, <1>3, <2>3, <2>4, SameReq DEF Unsubscribe, ReqSame
<1>4. ASSUME NEW s \in Sids, ConsumeMsg(s) PROVE ReqInv(q)'
  <2>1. (q \in DOMAIN subs') = (q \in DOMAIN subs)
    <3>1. CASE Counted(s) /\ ReachesMax(s)
      BY <1>0, <1>4, <3>1 DEF ConsumeMsg, Remove
    <3>2. CASE ~(Counted(s) /\ ReachesMax(s))
      BY <1>4, <3>2 DEF ConsumeMsg
    <3>3. QED
      BY <3>1, <3>2
  <2>2. chan'[q] = chan[q]
    BY <1>0, <1>4 DEF ConsumeMsg, TypeOK
  <2>3. QED
    BY <1>0, <1>4, <2>1, <2>2, SameReq DEF ConsumeMsg, ReqSame
<1>5. ASSUME NEW s \in Sids, ServerPublish(s) PROVE ReqInv(q)'
  <2>1. s \in AllSids /\ s # q
    BY <1>0
  <2>2. Occ(in', q) = Occ(in, q)
    BY <1>5, <1>ty, <2>1, OccOther DEF ServerPublish, Deliver
  <2>3. srvSent'[q] = srvSent[q]
    BY <1>0, <1>5, <2>1 DEF ServerPublish, Deliver, TypeOK
  <2>4. QED
    BY <1>0, <1>5, <2>2, <2>3, SameReq DEF ServerPublish, ReqSame
<1>6. ASSUME NEW r \in Reqs, RequestCall(r) PROVE ReqInv(q)'
  <2>1. CASE r # q
    <3>1. (q \in DOMAIN subs') = (q \in DOMAIN subs) /\ chan'[q] = chan[q]
      BY <1>0, <1>6, <2>1 DEF RequestCall, Register, Insert, TypeOK
    <3>2. rq'[q] = rq[q]
      BY <1>6, <2>1 DEF RequestCall, TypeOK
    <3>3. QED
      BY <1>0, <1>6, <3>1, <3>2, SameReq DEF RequestCall, ReqSame
  <2>2. CASE r = q
    \* the inbox is registered with an empty channel, nothing sent yet
    <3>1. rq[q] = "idle" /\ rq'[q] = "registered"
      BY <1>6, <2>2 DEF RequestCall, TypeOK
    <3>2. ReqQuiet(q)
      BY <1>r, <3>1
    <3>3. q \in DOMAIN subs' /\ chan'[q] = <<>>
      BY <1>0, <1>6, <2>2 DEF RequestCall, Register, Insert, TypeOK
    <3>4. lc2 = 0
      BY <1>lc, <3>3
    <3>5. UNCHANGED <<out, in, srvSent>>
      BY <1>6 DEF RequestCall
    <3>6. ReqQuiet(q)'
      BY <3>2, <3>5 DEF ReqQuiet
    <3>7. srvSent'[q] = Occ(in', q) + lc2 + 0
      BY <3>2, <3>4, <3>5 DEF ReqQuiet
    <3>8. (srvSent[q] + Occ(out, PubFrame(q)) <= 1)'
      BY <3>2, <3>5 DEF ReqQuiet
    <3>9. QED
      BY <1>lc, <3>1, <3>3, <3>6, <3>7, <3>8, Zenon DEF ReqInv
  <2>3. QED
    BY <2>1, <2>2
<1>7. ASSUME NEW r \in Reqs, RequestSend(r) PROVE ReqInv(q)'
  <2>1. /\ SubFrame(r) \in Frames /\ UnsubFrame(r, 1) \in Frames
        /\ PubFrame(r) \in Frames
        /\ SubFrame(r) # PubFrame(q) /\ UnsubFrame(r, 1) # PubFrame(q)
    BY FrameTypes DEF SubFrame, UnsubFrame, PubFrame
  <2> DEFINE o1 == Append(out, SubFrame(r))
             o2 == Append(o1, UnsubFrame(r, 1))
  <2>2. o1 \in Seq(Frames) /\ o2 \in Seq(Frames)
    BY <1>ty, <2>1
  <2>3. out' = Append(o2, PubFrame(r))
    BY <1>7, <1>ty, <2>1, ConcatTriple DEF RequestSend
  <2>4. Occ(o2, PubFrame(q)) = Occ(out, PubFrame(q))
    <3>1. Occ(o1, PubFrame(q)) = Occ(out, PubFrame(q))
      BY <1>ty, <2>1, OccOther
    <3>2. QED
      BY <2>1, <2>2, <3>1, OccOther
  <2>5. UNCHANGED <<subs, chan, in, srvSent>>
    BY <1>7 DEF RequestSend
  <2>6. CASE r # q
    <3>1. PubFrame(r) # PubFrame(q)
      BY <2>6 DEF PubFrame
    <3>2. Occ(out', PubFrame(q)) = Occ(out, PubFrame(q))
      BY <2>1, <2>2, <2>3, <2>4, <3>1, OccOther
    <3>3. rq'[q] = rq[q]
      BY <1>7, <2>6 DEF RequestSend, TypeOK
    <3>4. QED
      BY <1>0, <2>5, <3>2, <3>3, SameReq DEF ReqSame
  <2>7. CASE r = q
    \* the inbox's one PUB goes on the wire: nothing was delivered on it
    <3>1. rq[q] = "registered" /\ rq'[q] = "waiting"
      BY <1>7, <2>7 DEF RequestSend, TypeOK
    <3>2. ReqQuiet(q) /\ q \in DOMAIN subs
      BY <1>r, <3>1
    <3>3. Occ(out', PubFrame(q)) = Occ(out, PubFrame(q)) + 1
      <4>1. out' = Append(o2, PubFrame(q))
        BY <2>3, <2>7, Zenon
      <4>2. Occ(Append(o2, PubFrame(q)), PubFrame(q))
              = Occ(o2, PubFrame(q)) + 1
        BY <1>ty, <2>2, OccSame
      <4>3. QED
        BY <2>4, <4>1, <4>2, Zenon
    <3>4. srvSent'[q] + Occ(out', PubFrame(q)) <= 1
      BY <2>5, <3>2, <3>3 DEF ReqQuiet
    <3>5. lc2 = lc
      BY <1>lc, <2>5, Zenon
    <3>6. srvSent'[q] = Occ(in', q) + lc2 + 0
      <4>1. srvSent[q] = Occ(in, q) + lc + (IF rq[q] = "ok" THEN 1 ELSE 0)
        BY <1>r, <3>1, Zenon
      <4>2. (IF rq[q] = "ok" THEN 1 ELSE 0) = 0
        BY <3>1
      <4>3. srvSent'[q] = srvSent[q] /\ Occ(in', q) = Occ(in, q)
        BY <2>5, Zenon
      <4>4. QED
        BY <1>nat, <1>ty, <3>5, <4>1, <4>2, <4>3
    <3>7. QED
      BY <1>lc, <2>5, <3>1, <3>2, <3>4, <3>6, Zenon DEF ReqInv
  <2>8. QED
    BY <2>6, <2>7
<1>8. ASSUME NEW r \in Reqs, RequestRecv(r) PROVE ReqInv(q)'
  <2>1. UNCHANGED <<out, in, srvSent>>
    BY <1>8 DEF RequestRecv
  <2>2. CASE r # q
    <3>1. /\ (q \in DOMAIN subs') = (q \in DOMAIN subs)
          /\ chan'[q] = chan[q] /\ rq'[q] = rq[q]
      BY <1>0, <1>8, <2>2 DEF RequestRecv, Remove, TypeOK
    <3>2. QED
      BY <1>0, <2>1, <3>1, SameReq DEF ReqSame
  <2>3. CASE r = q
    \* the one reply is taken: nothing remains in flight or queued
    <3>1. rq[q] = "waiting" /\ rq'[q] = "ok"
      BY <1>8, <2>3 DEF RequestRecv, TypeOK
    <3>2. chan[q] # <<>> /\ chan'[q] = Tail(chan[q])
      BY <1>8, <2>3 DEF RequestRecv, TypeOK
    <3>3. lc # 0 /\ lc2 = lc - 1
      <4>1. Len(chan[q]) # 0 /\ Len(chan'[q]) = Len(chan[q]) - 1
        BY <1>0, <3>2 DEF TypeOK
      <4>2. QED
        BY <1>lc, <4>1, Zenon
    <3>4. srvSent[q] = Occ(in, q) + lc /\ srvSent[q] + Occ(out, PubFrame(q)) <= 1
      <4>1. srvSent[q] = Occ(in, q) + lc + (IF rq[q] = "ok" THEN 1 ELSE 0)
        BY <1>r, <3>1, Zenon
      <4>2. (IF rq[q] = "ok" THEN 1 ELSE 0) = 0
        BY <3>1
      <4>3. QED
        BY <1>nat, <1>r, <1>ty, <4>1, <4>2
    <3>5. srvSent'[q] = Occ(in', q) + lc2 + 1
      BY <1>nat, <1>ty, <2>1, <3>3, <3>4
    <3>6. (srvSent[q] + Occ(out, PubFrame(q)) <= 1)'
      BY <2>1, <3>4
    <3>7. QED
      BY <1>lc, <3>1, <3>5, <3>6, Zenon DEF ReqInv
  <2>4. QED
    BY <2>2, <2>3

<1>9. CASE Demux
  <2> DEFINE h == Head(in)
  <2>1. in # <<>> /\ in' = Tail(in) /\ h \in AllSids
    BY <1>9, <1>ty DEF Demux
  <2>2. UNCHANGED <<subs, out, srvSent, rq>>
    BY <1>9 DEF Demux
  <2>3. CASE h # q
    <3>1. Occ(in', q) = Occ(in, q)
      BY <1>ty, <2>1, <2>3, OccOther
    <3>2. chan'[q] = chan[q]
      BY <1>0, <1>9, <2>3 DEF Demux, TypeOK
    <3>3. QED
      BY <1>0, <2>2, <3>1, <3>2, SameReq DEF ReqSame
  <2>4. CASE h = q
    \* the reply reaches the multiplexer while the inbox is registered
    <3>1. Occ(in, q) = Occ(in', q) + 1 /\ Occ(in', q) \in Nat
      <4>1. Occ(in, q) = Occ(Tail(in), q) + 1
        BY <1>ty, <2>1, <2>4, OccSame
      <4>2. Occ(Tail(in), q) \in Nat
        <5>1. Tail(in) \in Seq(AllSids)
          BY <1>ty, <2>1
        <5>2. QED
          BY <5>1, OccNat, Zenon
      <4>3. QED
        BY <2>1, <4>1, <4>2, Zenon
    <3>2. rq[q] \notin {"idle", "registered", "ok"}
      BY <1>nat, <1>r, <3>1 DEF ReqQuiet
    <3>3. (srvSent[q] + Occ(out, PubFrame(q)) <= 1)'
      BY <1>r, <2>2
    <3>4. CASE rq[q] = "waiting"
      <4>1. q \in DOMAIN subs /\ srvSent[q] = Occ(in, q) + lc
        <5>1. q \in DOMAIN subs
          BY <1>r, <3>4, Zenon
        <5>2. srvSent[q] = Occ(in, q) + lc + (IF rq[q] = "ok" THEN 1 ELSE 0)
          BY <1>r, <3>4, Zenon
        <5>3. (IF rq[q] = "ok" THEN 1 ELSE 0) = 0
          BY <3>4
        <5>4. QED
          BY <1>nat, <1>ty, <5>1, <5>2, <5>3
      <4>2. chan'[q] = Append(chan[q], "msg")
        BY <1>0, <1>9, <2>4, <4>1 DEF Demux, TypeOK
      <4>3. lc2 = lc + 1
        <5>1. Len(chan'[q]) = Len(chan[q]) + 1
          BY <1>0, <4>2 DEF TypeOK
        <5>2. QED
          BY <1>lc, <5>1, Zenon
      <4>4. srvSent'[q] = Occ(in', q) + lc2 + 0
        BY <1>nat, <1>ty, <2>2, <3>1, <4>1, <4>3
      <4>5. QED
        BY <1>lc, <2>2, <3>3, <3>4, <4>1, <4>4, Zenon DEF ReqInv
    <3>5. CASE rq[q] \notin {"idle", "registered", "waiting", "ok"}
      BY <2>2, <3>3, <3>5, Zenon DEF ReqInv
    <3>6. QED
      BY <3>2, <3>4, <3>5
  <2>5. QED
    BY <2>3, <2>4
<1>10. CASE ServerRead
  <2> DEFINE f == Head(out)
             P == PubFrame(q)
  <2>1. out # <<>> /\ out' = Tail(out) /\ f \in Frames /\ Plain(f)
    BY <1>10, <1>ty, PlainTail DEF ServerRead, PubPlain
  <2>2. UNCHANGED <<subs, chan, rq>>
    BY <1>10 DEF ServerRead
  <2>3. CASE f = P
    \* the inbox's PUB is read: the server answers at most this once
    <3>1. Occ(out, P) = Occ(out', P) + 1 /\ Occ(out', P) \in Nat
      <4>1. Occ(out, P) = Occ(Tail(out), P) + 1
        BY <1>ty, <2>1, <2>3, OccSame
      <4>2. Occ(Tail(out), P) \in Nat
        <5>1. Tail(out) \in Seq(Frames)
          BY <1>ty, <2>1
        <5>2. QED
          BY <5>1, OccNat, Zenon
      <4>3. QED
        BY <2>1, <4>1, <4>2, Zenon
    <3>2. f.op = "PUB" /\ f.sid = q
      BY <2>3 DEF PubFrame
    <3>3. rq[q] \notin {"idle", "registered", "ok"}
      BY <1>nat, <1>r, <1>ty, <3>1 DEF ReqQuiet
    <3>4. lc2 = lc
      BY <1>lc, <2>2, Zenon
    <3>5. CASE q \in srvOn
      <4>1. Deliver(q)
        BY <1>10, <3>2, <3>5 DEF ServerRead
      <4>2. srvSent'[q] = srvSent[q] + 1 /\ Occ(in', q) = Occ(in, q) + 1
        BY <1>0, <1>ty, <4>1, OccSame DEF Deliver, TypeOK
      <4>3. srvSent'[q] + Occ(out', P) <= 1
        BY <1>nat, <1>r, <1>ty, <3>1, <4>2
      <4>4. rq[q] = "waiting" => srvSent'[q] = Occ(in', q) + lc2 + 0
        BY <1>nat, <1>r, <1>ty, <3>4, <4>2
      <4>5. QED
        BY <1>lc, <2>2, <3>3, <4>3, <4>4, <1>r, Zenon DEF ReqInv
    <3>6. CASE q \notin srvOn
      <4>1. UNCHANGED <<in, srvSent>>
        BY <1>10, <3>2, <3>6 DEF ServerRead
      <4>2. srvSent'[q] + Occ(out', P) <= 1
        BY <1>nat, <1>r, <1>ty, <3>1, <4>1
      <4>3. rq[q] = "waiting" => srvSent'[q] = Occ(in', q) + lc2 + 0
        BY <1>r, <3>4, <4>1
      <4>4. QED
        BY <1>lc, <2>2, <3>3, <4>2, <4>3, <1>r, Zenon DEF ReqInv
    <3>7. QED
      BY <3>5, <3>6
  <2>4. CASE f # P
    \* another frame: the inbox's count, deliveries and replies stay
    <3>1. Occ(out', P) = Occ(out, P)
      BY <1>ty, <2>1, <2>4, OccOther
    <3>2. CASE f.op = "PUB" /\ f.sid \in srvOn
      <4>1. f.sid # q /\ f.sid \in AllSids
        <5>1. f.sid \in AllSids
          BY <2>1 DEF Frames
        <5>2. f = PubFrame(f.sid)
          BY <2>1, <3>2 DEF Plain
        <5>3. QED
          BY <2>4, <5>1, <5>2
      <4>2. Deliver(f.sid)
        BY <1>10, <3>2 DEF ServerRead
      <4>3. Occ(in', q) = Occ(in, q) /\ srvSent'[q] = srvSent[q]
        BY <1>0, <1>ty, <4>1, <4>2, OccOther DEF Deliver, TypeOK
      <4>4. QED
        BY <1>0, <2>2, <3>1, <4>3, SameReq DEF ReqSame
    <3>3. CASE ~(f.op = "PUB" /\ f.sid \in srvOn)
      <4>1. UNCHANGED <<in, srvSent>>
        BY <1>10, <3>3 DEF ServerRead
      <4>2. QED
        BY <1>0, <2>2, <3>1, <4>1, SameReq DEF ReqSame
    <3>4. QED
      BY <3>2, <3>3
  <2>5. QED
    BY <2>3, <2>4
<1>11. CASE UNCHANGED vars
  BY <1>0, <1>11, SameReq DEF vars, ReqSame
<1>12. QED
  BY <1>1, <1>2, <1>3, <1>4, <1>5, <1>6, <1>7, <1>8, <1>9, <1>10, <1>11
     DEF Next

(***************************************************************************)
(* The reply to a request is never lost, for any number of subscriptions,  *)
(* requests and limits: every message the server delivered on the inbox   *)
(* of a pending or completed request is in flight, queued in its channel,  *)
(* or has completed it (request, lines 502-525, against the multiplexer's  *)
(* drop of unknown sids, line 34).                                         *)
(***************************************************************************)
THEOREM RequestReplyConservedHolds == Spec => []RequestReplyConserved
<1>1. Init => TypeOK /\ ReqInvAll
  BY TypeInit, ReqInit
<1>2. TypeOK /\ ReqInvAll /\ [Next]_vars => (TypeOK /\ ReqInvAll)'
  BY TypeStep, PubPlainStep, ReqStep DEF ReqInvAll
<1>3. TypeOK /\ ReqInvAll => RequestReplyConserved
  <2> SUFFICES ASSUME TypeOK, ReqInvAll, NEW q \in Reqs,
                      rq[q] \in {"registered", "waiting", "ok"}
               PROVE  srvSent[q] = InFlight(q) + Len(chan[q])
                                   + (IF rq[q] = "ok" THEN 1 ELSE 0)
    BY DEF RequestReplyConserved
  <2>1. InFlight(q) = Occ(in, q)
    BY DEF InFlight, Occ
  <2>2. QED
    BY <2>1, Zenon DEF ReqInvAll, ReqInv
<1>4. QED
  BY <1>1, <1>2, <1>3, PTL DEF Spec

-----------------------------------------------------------------------------
(***************************************************************************)
(* NoFeedAfterMax.  The multiplexer feeds exactly the sids in the          *)
(* registry, so the action property rests on the invariant Gone: a stream  *)
(* ended by max_msgs has no entry.  Only the then-closure's remove makes a *)
(* stream maxed, and only for_sid, called by subscribe while the stream is *)
(* still being set up and by request for an inbox, adds an entry.          *)
(***************************************************************************)
Gone == \A s \in Sids : us[s] = "maxed" => s \notin DOMAIN subs

LEMMA GoneInit == Init => Gone
BY DEF Init, Gone

LEMMA GoneStep == TypeOK /\ Gone /\ [Next]_vars => Gone'
<1> SUFFICES ASSUME TypeOK, Gone, [Next]_vars, NEW s \in Sids,
                    us'[s] = "maxed"
             PROVE  s \notin DOMAIN subs'
  BY DEF Gone
<1>1. ASSUME NEW t \in Sids, SubscribeSend(t) PROVE s \notin DOMAIN subs'
  BY <1>1 DEF SubscribeSend, Gone, TypeOK
<1>2. ASSUME NEW t \in Sids, SubscribeRegister(t) PROVE s \notin DOMAIN subs'
  BY <1>2 DEF SubscribeRegister, Register, Insert, Gone, TypeOK
<1>3. ASSUME NEW t \in Sids, NEW m \in UnsubMaxes, Unsubscribe(t, m)
      PROVE s \notin DOMAIN subs'
  BY <1>3 DEF Unsubscribe, Gone
<1>4. ASSUME NEW t \in Sids, ConsumeMsg(t) PROVE s \notin DOMAIN subs'
  \* only the consumer of s itself can make it maxed, and it removes s
  <2>1. CASE t = s
    BY <1>4, <2>1 DEF ConsumeMsg, Remove, TypeOK
  <2>2. CASE t # s
    BY <1>4, <2>2 DEF ConsumeMsg, Remove, Gone, TypeOK
  <2>3. QED
    BY <2>1, <2>2
<1>5. ASSUME NEW t \in Sids, ServerPublish(t) PROVE s \notin DOMAIN subs'
  BY <1>5 DEF ServerPublish, Gone
<1>6. ASSUME NEW q \in Reqs, RequestCall(q) PROVE s \notin DOMAIN subs'
  \* an inbox is never a user sid
  BY <1>6 DEF RequestCall, Register, Insert, Gone
<1>7. ASSUME NEW q \in Reqs, RequestSend(q) \/ RequestRecv(q)
      PROVE s \notin DOMAIN subs'
  BY <1>7 DEF RequestSend, RequestRecv, Remove, Gone
<1>8. CASE Demux \/ ServerRead
  BY <1>8 DEF Demux, ServerRead, Gone
<1>9. CASE UNCHANGED vars
  BY <1>9 DEF vars, Gone
<1>10. QED
  BY <1>1, <1>2, <1>3, <1>4, <1>5, <1>6, <1>7, <1>8, <1>9 DEF Next

(* No step changes the channel of a maxed stream, given Gone.              *)
LEMMA FeedStep ==
  TypeOK /\ Gone /\ [Next]_vars =>
    \A s \in Sids : us[s] = "maxed" => chan'[s] = chan[s]
<1> SUFFICES ASSUME TypeOK, Gone, [Next]_vars, NEW s \in Sids,
                    us[s] = "maxed"
             PROVE  chan'[s] = chan[s]
  OBVIOUS
<1>1. s \notin DOMAIN subs
  BY DEF Gone
<1>2. ASSUME NEW t \in Sids, SubscribeRegister(t) PROVE chan'[s] = chan[s]
  \* the stream being registered is still sending, so it is not s
  BY <1>2 DEF SubscribeRegister, Register, TypeOK
<1>3. ASSUME NEW t \in Sids, ConsumeMsg(t) PROVE chan'[s] = chan[s]
  \* only an open stream is polled
  BY <1>3 DEF ConsumeMsg, TypeOK
<1>4. ASSUME NEW q \in Reqs, RequestCall(q) \/ RequestRecv(q)
      PROVE chan'[s] = chan[s]
  BY <1>4 DEF RequestCall, RequestRecv, Register, TypeOK
<1>5. CASE Demux
  \* the multiplexer pushes only into a registered sid's channel
  BY <1>1, <1>5 DEF Demux, TypeOK
<1>6. ASSUME NEW t \in Sids, SubscribeSend(t) \/ ServerPublish(t)
               \/ \E m \in UnsubMaxes : Unsubscribe(t, m)
      PROVE chan'[s] = chan[s]
  BY <1>6 DEF SubscribeSend, ServerPublish, Unsubscribe
<1>7. ASSUME NEW q \in Reqs, RequestSend(q) PROVE chan'[s] = chan[s]
  BY <1>7 DEF RequestSend
<1>8. CASE ServerRead \/ UNCHANGED vars
  BY <1>8 DEF ServerRead, vars
<1>9. QED
  BY <1>2, <1>3, <1>4, <1>5, <1>6, <1>7, <1>8 DEF Next

(***************************************************************************)
(* A stream ended by SubscriptionReachedMaxMsgs is never fed again: the    *)
(* then-closure's remove (lines 452-457) keeps the MSGs the server still   *)
(* sends out of its channel, for any sids and bounds.                      *)
(***************************************************************************)
THEOREM NoFeedAfterMaxHolds == Spec => NoFeedAfterMax
<1>1. Init => TypeOK /\ Gone
  BY TypeInit, GoneInit
<1>2. TypeOK /\ Gone /\ [Next]_vars => (TypeOK /\ Gone)'
  BY TypeStep, GoneStep
<1>3. TypeOK /\ Gone /\ [Next]_vars =>
        [\A s \in Sids : us[s] = "maxed" => chan'[s] = chan[s]]_vars
  BY FeedStep
<1>4. QED
  BY <1>1, <1>2, <1>3, PTL DEF Spec, NoFeedAfterMax

=============================================================================
