---------------------------- MODULE Subscriptions ----------------------------
(***************************************************************************)
(* The subscription side of src/nats_client/client.rs over one working     *)
(* connection: the registry subs_map, the multiplexer that routes inbound  *)
(* MSG frames into per-subscription channels (lines 21-93), the public     *)
(* subscribe / unsubscribe / request primitives (lines 406-527), the       *)
(* user's consumption of the returned streams, and the server's side of    *)
(* SUB / UNSUB / PUB as far as the client relies on it.                    *)
(*                                                                         *)
(* Frames travel in order both ways (one TCP stream); a message is a sid.  *)
(* A max_count of 0 stands for None: the code never stores Some(0).        *)
(***************************************************************************)
EXTENDS Integers, Sequences, FiniteSets

CONSTANTS
  Sids,        \* subscription ids of user subscriptions (Subscribe::sid)
  Reqs,        \* inbox sids synthesised by request (generate_sid)
  UnsubMaxes,  \* max_msgs arguments a user may pass to unsubscribe (0 = None)
  MaxMsgs      \* bound on messages the server delivers per sid

ASSUME SubsAssumption ==
  /\ Sids \cap Reqs = {}
  /\ UnsubMaxes \subseteq Nat
  /\ MaxMsgs \in Nat \ {0}

AllSids == Sids \cup Reqs

\* Items of a subscription channel: SinkMessage::Message or SinkMessage::CLOSE.
Items == {"msg", "close"}

\* Client-to-server frames (Op::SUB, Op::UNSUB with max_msgs, Op::PUB whose
\* reply_to is the inbox of a request).
Frames == [op : {"SUB", "UNSUB", "PUB"}, sid : AllSids, max : Nat]

SubFrame(s) == [op |-> "SUB", sid |-> s, max |-> 0]
UnsubFrame(s, m) == [op |-> "UNSUB", sid |-> s, max |-> m]
PubFrame(q) == [op |-> "PUB", sid |-> q, max |-> 0]

VARIABLES
  subs,     \* subs_map: sid -> [max : max_count, count : count]
  chan,     \* chan[s] : items queued in the unbounded channel of sid s
  out,      \* frames written by the sender, not yet read by the server
  in,       \* MSG frames written by the server, not yet demultiplexed
  srvOn,    \* sids the server currently delivers to
  srvMax,   \* srvMax[s] : auto-unsubscribe limit at the server (0 = none)
  srvSent,  \* srvSent[s] : messages the server delivered for s
  us,       \* us[s] : the user's subscribe call and stream for s
  got,      \* got[s] : messages the user's stream yielded for s
  unsub,    \* unsub[s] : max_msgs of the user's unsubscribe (-1 = not called)
  rq        \* rq[q] : the request future whose inbox sid is q

vars == <<subs, chan, out, in, srvOn, srvMax, srvSent, us, got, unsub, rq>>

-----------------------------------------------------------------------------
\* Helpers on the registry (a HashMap as a TLA+ function).
Insert(f, k, v) == [x \in DOMAIN f \cup {k} |-> IF x = k THEN v ELSE f[x]]
Remove(f, k) == [x \in DOMAIN f \ {k} |-> f[x]]

\* How many MSG frames for s are still on the way to the client.
InFlight(s) == Cardinality({i \in DOMAIN in : in[i] = s})

Init ==
  /\ subs = <<>>
  /\ chan = [s \in AllSids |-> <<>>]
  /\ out = <<>>
  /\ in = <<>>
  /\ srvOn = {}
  /\ srvMax = [s \in AllSids |-> 0]
  /\ srvSent = [s \in AllSids |-> 0]
  /\ us = [s \in Sids |-> "idle"]
  /\ got = [s \in Sids |-> 0]
  /\ unsub = [s \in Sids |-> -1]
  /\ rq = [q \in Reqs |-> "idle"]

-----------------------------------------------------------------------------
(* Client side. *)

\* for_sid (lines 57-72): a fresh channel, registered under sid.
Register(s) ==
  /\ subs' = Insert(subs, s, [max |-> 0, count |-> 0])
  /\ chan' = [chan EXCEPT ![s] = <<>>]

\* subscribe, line 436: the SUB frame is sent first ...
SubscribeSend(s) ==
  /\ us[s] = "idle"
  /\ out' = Append(out, SubFrame(s))
  /\ us' = [us EXCEPT ![s] = "sending"]
  /\ UNCHANGED <<subs, chan, in, srvOn, srvMax, srvSent, got, unsub, rq>>

\* ... and once that send has completed, line 437 registers the stream.
SubscribeRegister(s) ==
  /\ us[s] = "sending"
  /\ Register(s)
  /\ us' = [us EXCEPT ![s] = "open"]
  /\ UNCHANGED <<out, in, srvOn, srvMax, srvSent, got, unsub, rq>>

\* unsubscribe (lines 409-419): a max_msgs is recorded on an existing
\* entry only; the UNSUB frame is sent in every case.
Unsubscribe(s, m) ==
  /\ us[s] = "open"
  /\ unsub[s] = -1
  /\ subs' = IF m # 0 /\ s \in DOMAIN subs
               THEN [subs EXCEPT ![s].max = m]
               ELSE subs
  /\ out' = Append(out, UnsubFrame(s, m))
  /\ unsub' = [unsub EXCEPT ![s] = m]
  /\ UNCHANGED <<chan, in, srvOn, srvMax, srvSent, us, got, rq>>

\* The multiplexer (lines 30-47) takes the next inbound MSG and pushes it
\* into the channel of its sid if that sid is registered, else drops it.
Demux ==
  /\ in # <<>>
  /\ LET s == Head(in) IN
       chan' = IF s \in DOMAIN subs
                 THEN [chan EXCEPT ![s] = Append(@, "msg")]
                 ELSE chan
  /\ in' = Tail(in)
  /\ UNCHANGED <<subs, out, srvOn, srvMax, srvSent, us, got, unsub, rq>>

\* The user polls the stream returned by subscribe: a message goes through
\* the then-closure of lines 437-458, which counts it only when a max_count
\* is set, and on reaching it removes the entry and yields
\* SubscriptionReachedMaxMsgs instead of the message.  (The CLOSE items of
\* lines 75-81 and a channel dropped with its entry come from the reconnect
\* handler, which the composition with the connection adds.)
Counted(s) == s \in DOMAIN subs /\ subs[s].max # 0

\* Fault variant of ReachesMax: the message is counted twice.
ReachesMaxTwice(s) == subs[s].count + 2 >= subs[s].max

ReachesMax(s) == subs[s].count + 1 >= subs[s].max

\* Fault variant of ConsumeMsg: the maxed entry is left in the registry.
ConsumeMsgKeep(s) ==
  /\ us[s] = "open"
  /\ chan[s] # <<>> /\ Head(chan[s]) = "msg"
  /\ chan' = [chan EXCEPT ![s] = Tail(@)]
  /\ IF Counted(s) /\ ReachesMax(s)
       THEN /\ subs' = subs
            /\ us' = [us EXCEPT ![s] = "maxed"]
            /\ UNCHANGED got
       ELSE /\ subs' = IF Counted(s)
                         THEN [subs EXCEPT ![s].count = @ + 1]
                         ELSE subs
            /\ got' = [got EXCEPT ![s] = @ + 1]
            /\ UNCHANGED us
  /\ UNCHANGED <<out, in, srvOn, srvMax, srvSent, unsub, rq>>

ConsumeMsg(s) ==
  /\ us[s] = "open"
  /\ chan[s] # <<>> /\ Head(chan[s]) = "msg"
  /\ chan' = [chan EXCEPT ![s] = Tail(@)]
  /\ IF Counted(s) /\ ReachesMax(s)
       THEN /\ subs' = Remove(subs, s)
            /\ us' = [us EXCEPT ![s] = "maxed"]
            /\ UNCHANGED got
       ELSE /\ subs' = IF Counted(s)
                         THEN [subs EXCEPT ![s].count = @ + 1]
                         ELSE subs
            /\ got' = [got EXCEPT ![s] = @ + 1]
            /\ UNCHANGED us
  /\ UNCHANGED <<out, in, srvOn, srvMax, srvSent, unsub, rq>>

\* Fault variant of RequestCall: the inbox is not registered when request
\* is called (as subscribe does, registration after the sends).
RequestCallNoRegister(q) ==
  /\ rq[q] = "idle"
  /\ rq' = [rq EXCEPT ![q] = "registered"]
  /\ UNCHANGED <<subs, chan, out, in, srvOn, srvMax, srvSent, us, got, unsub>>

\* request, lines 479-517 up to the return: the inbox stream is registered
\* with for_sid when request is called ...
RequestCall(q) ==
  /\ rq[q] = "idle"
  /\ Register(q)
  /\ rq' = [rq EXCEPT ![q] = "registered"]
  /\ UNCHANGED <<out, in, srvOn, srvMax, srvSent, us, got, unsub>>

\* Fault variant of RequestSend: the UNSUB carries no max_msgs.
RequestSendUnsubNow(q) ==
  /\ rq[q] = "registered"
  /\ out' = out \o <<SubFrame(q), UnsubFrame(q, 0), PubFrame(q)>>
  /\ rq' = [rq EXCEPT ![q] = "waiting"]
  /\ UNCHANGED <<subs, chan, in, srvOn, srvMax, srvSent, us, got, unsub>>

\* ... and the returned future sends SUB, UNSUB max 1 and the PUB whose
\* reply_to is the inbox, in that order (lines 519-525).
RequestSend(q) ==
  /\ rq[q] = "registered"
  /\ out' = out \o <<SubFrame(q), UnsubFrame(q, 1), PubFrame(q)>>
  /\ rq' = [rq EXCEPT ![q] = "waiting"]
  /\ UNCHANGED <<subs, chan, in, srvOn, srvMax, srvSent, us, got, unsub>>

\* The first item of take(1) (lines 506-516): a message completes the
\* request and remove_sid drops the inbox.  (A CLOSE or an ended channel,
\* which complete it with InnerBrokenChain, come from the reconnect handler.)
RequestRecv(q) ==
  /\ rq[q] = "waiting"
  /\ chan[q] # <<>> /\ Head(chan[q]) = "msg"
  /\ chan' = [chan EXCEPT ![q] = Tail(@)]
  /\ subs' = Remove(subs, q)
  /\ rq' = [rq EXCEPT ![q] = "ok"]
  /\ UNCHANGED <<out, in, srvOn, srvMax, srvSent, us, got, unsub>>

-----------------------------------------------------------------------------
(* Server side: the NATS server reads the client's frames in order. *)

\* Deliver one MSG for s and apply the auto-unsubscribe limit.
Deliver(s) ==
  /\ in' = Append(in, s)
  /\ srvSent' = [srvSent EXCEPT ![s] = @ + 1]
  /\ srvOn' = IF srvMax[s] # 0 /\ srvSent[s] + 1 >= srvMax[s]
                THEN srvOn \ {s}
                ELSE srvOn

\* An UNSUB the server applies at once: without max_msgs, or with a limit
\* the deliveries already reached.
UnsubNow(f) == f.max = 0 \/ srvSent[f.sid] >= f.max

ServerRead ==
  /\ out # <<>>
  /\ out' = Tail(out)
  /\ LET f == Head(out) IN
       \/ /\ f.op = "SUB"
          /\ srvOn' = srvOn \cup {f.sid}
          /\ srvMax' = [srvMax EXCEPT ![f.sid] = 0]
          /\ UNCHANGED <<in, srvSent>>
       \/ /\ f.op = "UNSUB" /\ UnsubNow(f)
          /\ srvOn' = srvOn \ {f.sid}
          /\ UNCHANGED <<in, srvMax, srvSent>>
       \/ /\ f.op = "UNSUB" /\ ~UnsubNow(f)
          /\ srvMax' = [srvMax EXCEPT ![f.sid] = f.max]
          /\ UNCHANGED <<in, srvOn, srvSent>>
       \/ /\ f.op = "PUB"
          \* the responder answers on the inbox at once
          /\ IF f.sid \in srvOn THEN Deliver(f.sid)
                                ELSE UNCHANGED <<in, srvOn, srvSent>>
          /\ UNCHANGED srvMax
  /\ UNCHANGED <<subs, chan, us, got, unsub, rq>>

\* Some other client publishes on the subject of user subscription s.
ServerPublish(s) ==
  /\ s \in srvOn
  /\ srvSent[s] < MaxMsgs
  /\ Deliver(s)
  /\ UNCHANGED <<subs, chan, out, srvMax, us, got, unsub, rq>>

-----------------------------------------------------------------------------
Next ==
  \/ \E s \in Sids :
       \/ SubscribeSend(s) \/ SubscribeRegister(s)
       \/ \E m \in UnsubMaxes : Unsubscribe(s, m)
       \/ ConsumeMsg(s)
       \/ ServerPublish(s)
  \/ \E q \in Reqs : RequestCall(q) \/ RequestSend(q) \/ RequestRecv(q)
  \/ Demux
  \/ ServerRead

\* The multiplexer and the server keep reading, a spawned send completes,
\* and the user keeps polling the streams and futures it was given.
Fairness ==
  /\ WF_vars(Demux)
  /\ WF_vars(ServerRead)
  /\ \A s \in Sids : WF_vars(SubscribeRegister(s)) /\ WF_vars(ConsumeMsg(s))
  /\ \A q \in Reqs : WF_vars(RequestSend(q)) /\ WF_vars(RequestRecv(q))

Spec == Init /\ [][Next]_vars /\ Fairness

-----------------------------------------------------------------------------
TypeOK ==
  /\ DOMAIN subs \subseteq AllSids
  /\ \A s \in DOMAIN subs : subs[s] \in [max : Nat, count : Nat]
  /\ chan \in [AllSids -> Seq(Items)]
  /\ out \in Seq(Frames)
  /\ in \in Seq(AllSids)
  /\ srvOn \subseteq AllSids
  /\ srvMax \in [AllSids -> Nat]
  /\ srvSent \in [AllSids -> Nat]
  /\ us \in [Sids -> {"idle", "sending", "open", "closed", "maxed"}]
  /\ got \in [Sids -> Nat]
  /\ unsub \in [Sids -> UnsubMaxes \cup {-1}]
  /\ rq \in [Reqs -> {"idle", "registered", "waiting", "ok", "broken"}]

(***************************************************************************)
(* No message is lost on the way to a live subscription: for a user        *)
(* subscription that has been returned and never unsubscribed, every MSG   *)
(* the server delivered for it is in flight, queued in its channel, or     *)
(* already yielded by its stream (subscribe, lines 436-437, against the    *)
(* multiplexer's drop of unknown sids, line 34).                           *)
(***************************************************************************)
NoMessageLost ==
  \A s \in Sids :
    us[s] = "open" /\ unsub[s] = -1 =>
      srvSent[s] = InFlight(s) + Len(chan[s]) + got[s]

(***************************************************************************)
(* A subscription ended by max_msgs = n yields n messages before its       *)
(* SubscriptionReachedMaxMsgs(n) (spec, section 8, scenario 3), the        *)
(* then-closure of lines 437-458.                                          *)
(***************************************************************************)
MaxYieldsN ==
  \A s \in Sids : us[s] = "maxed" => got[s] = unsub[s]

(***************************************************************************)
(* The client never gives up a subscription before the server has: a       *)
(* stream ended by SubscriptionReachedMaxMsgs(n) belongs to a sid the      *)
(* server has already delivered n messages for, so it was not cut short    *)
(* while the server still counted deliveries towards n (lines 442-456).    *)
(***************************************************************************)
MaxedAfterServerQuota ==
  \A s \in Sids : us[s] = "maxed" => srvSent[s] >= unsub[s]

(***************************************************************************)
(* A stream ended by max_msgs is never fed again: the then-closure removes *)
(* the sid from the registry when it yields SubscriptionReachedMaxMsgs     *)
(* (lines 452-457), so the multiplexer (lines 34-35) drops the MSGs the    *)
(* server still sends instead of queueing them in an unbounded channel     *)
(* nobody polls.                                                           *)
(***************************************************************************)
NoFeedAfterMax ==
  [][\A s \in Sids : us[s] = "maxed" => chan'[s] = chan[s]]_vars

(***************************************************************************)
(* A user stream ends once the server has stopped delivering to it after   *)
(* an unsubscribe (spec, section 8: subscribe then unsubscribe yields a    *)
(* terminated sequence; max_msgs ends it): the registry entry of lines     *)
(* 409-419 and 442-456 must go, or the stream waits forever.               *)
(***************************************************************************)
StreamEndsWithServerSub ==
  \A s \in Sids :
    (us[s] = "open" /\ unsub[s] # -1 /\ s \notin srvOn /\ out = <<>>)
      ~> (us[s] \in {"closed", "maxed"})

(***************************************************************************)
(* The reply to a request is never lost: the inbox of a pending request    *)
(* is registered before its SUB leaves (lines 502-525), so the one         *)
(* message the server delivers on it is in flight, queued, or has          *)
(* completed the request.                                                  *)
(***************************************************************************)
RequestReplyConserved ==
  \A q \in Reqs :
    rq[q] \in {"registered", "waiting", "ok"} =>
      srvSent[q] = InFlight(q) + Len(chan[q]) + (IF rq[q] = "ok" THEN 1 ELSE 0)

(***************************************************************************)
(* Every request is answered: with a responder on the subject, a request   *)
(* whose frames are sent completes with the reply, not InnerBrokenChain.   *)
(***************************************************************************)
RequestAnswered ==
  \A q \in Reqs : rq[q] = "waiting" ~> rq[q] = "ok"

=============================================================================
