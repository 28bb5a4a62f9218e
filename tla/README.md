# TLA+ verification of ratsio's connected-client engine

This directory models the NATS client of `src/` in TLA+. It checks the models
with TLC on small instances and proves their main invariants with TLAPS for
every value of the constants. Source paths below are relative to the
repository root, so `src/src/net/connection.rs` is the connection and
`src/src/nats_client/client.rs` is the client.

## 1. Inventory

### Components and their state

| Component | Code | State | Operations |
|---|---|---|---|
| Connection | `connection.rs` 26-158 | `state: RwLock<(NatsConnectionState, u64)>` (phase, version); `inner: RwLock<(Url, transport)>`; `reconnect_hosts` | `create_connection`, `trigger_reconnect`, `reconnect`, the spawned dial task and its retry timer, `get_conn_inner`, `parse_uris` |
| Transport gates | `connection.rs` 250-318 | none of its own: reads `state` and `inner` | `start_send`, `poll_flush`, `poll_next`. Each returns "not ready" unless Connected and calls the reconnect trigger on `ServerDisconnected` |
| Demultiplexer | `client.rs` 21-93 | `subs_map: RwLock<HashMap<sid, SubscriptionSink{cmd, tx, max_count, count}>>` (shared) | routing of MSG frames, forwarding of control frames, `for_sid`, `remove_sid` |
| Public primitives | `client.rs` 389-527 | the registry above; `server_info` | `publish`, `subscribe`, `unsubscribe`, `request` |
| Control loop | `client.rs` 275-340 | `pong_reset` counter, `server_info`, client `state`, `reconnect_hosts` | PING, PONG, INFO (sends CONNECT, sets Connected), ERR, CLOSE |
| Pinger | `client.rs` 192-210 | `ping_attempts` (atomic counter) | each interval while Connected: send PING, increment, and on breach set Disconnected and trigger a reconnect |
| Reconnect handler | `client.rs` 212-270 | client `state`, sender, receiver, `control_tx`, the registry, the user handlers | on each reconnect signal: close or replay subscriptions, CLOSE the old control loop, rebuild the bindings, nested `connect`, call the user handlers |
| Client connect | `client.rs` 114-187 | none of its own | the `ensure_connect` retry loop and `create_client` |
| CONNECT generation | `client.rs` 344-387 | none | builds the CONNECT record (credentials, JWT signature) |

### How the components interact

- **Shared state.** The connection's `(phase, version)` and `inner` are shared by
  the gates of every `NatsConnSinkStream`. After a reconnect this includes the
  old ones, because they hold the same `Arc`s. The registry is shared by the
  multiplexer, subscribe, unsubscribe, request and the reconnect handler.
- **Calls.** The gates call `trigger_reconnect` through a closure. So do the
  pinger and the retry timer of a failed dial.
- **Messages.** Inbound frames go through the multiplexer. It sends MSG frames
  into per-sid unbounded channels and everything else into `control_tx`.
  Successful dials send the connection on the `reconnect_handler` channel,
  which the client's handler consumes.
- **Callbacks.** User reconnect handlers are called after each reconnect.

### What makes it hard

- Concurrency. The multiplexer, the sender, the pinger, the dial task, the
  retry timers, the control loop, the reconnect handler and user calls run as
  separate tokio tasks. They take locks one critical section at a time.
- Failure. A transport can die at any point. A dial can fail, and each failed
  dial arms a timer.
- Ordering. SUB can be sent before its sid is registered. INFO, CONNECT and
  the SUB replay race after a reconnect.
- Counters. The client's max-message count differs from the server's. The
  outstanding-ping counter races the reconnect that resets it.

### What makes each component correct

- **Connection.** At most one dial is in flight. A Disconnected state always
  has a task on its way to reconnect. A working transport is never torn down.
  A dead transport is eventually replaced. The version only grows.
- **Demultiplexer and registry.** No message is lost on the way to a live
  subscription. The max-message accounting ends a stream after n messages.
  Unsubscribe ends the stream. A request's reply always arrives, and the inbox
  is removed afterwards.
- **Control loop and pinger.** The counter is zero after PING, PONG or INFO.
  A breach triggers exactly one reconnect. CONNECT is the first frame on every
  transport.
- **Reconnect handler.** With `subscribe_on_reconnect`, every registered sid
  is subscribed on the new server. Without it, every stream ends.

`PROJECT.json` lists every hazard with its source line.

## 2. Modules

| Module | Models | Used by |
|---|---|---|
| `NatsConnection` | the reconnect protocol of `connection.rs` | `MC_NatsConnection`, `NatsClient` (by EXTENDS) |
| `ConnectionAbstract` | what the connection promises: the pair (phase, version) moves along Connected → Disconnected → Reconnecting → Connected (or back to Disconnected on a failed dial), and each success bumps the version and is signalled once | `NatsConnection` (by INSTANCE … WITH) |
| `NatsConnection_proofs` | TLAPS: types, `SingleDial`, `DisconnectOwned`, and the refinement | |
| `Subscriptions` | registry, MSG routing, subscribe/unsubscribe/request and max counting over one connection, with a FIFO server | `MC_Subscriptions`, `Subscriptions_proofs` |
| `Subscriptions_proofs` | TLAPS: types, `MaxedAfterServerQuota`, `RequestReplyConserved`, `NoFeedAfterMax` | |
| `NatsClient` | the client composed with the connection: the sink gate's frame dropping, the control loops and their multiplexers, the pinger, the reconnect handler, subscribe and publish | `MC_NatsClient` |
| `NatsClient_proofs` | TLAPS: `PingCounterBound` | |

## 3. Modules and their correspondence to the code

### `NatsConnection` (`connection.rs`)

Variables:

| Variable | Code |
|---|---|
| `phase`, `version` | `state` |
| `link` | whether the current `inner` transport works |
| `pc[p]`, `ver[p]` | one `trigger_reconnect` invocation and its local `connect_version` |
| `inflight` | spawned dial tasks |
| `failures` | failed dials |
| `signals` | the `reconnect_handler` channel |

The processes are the observers, the breach callers and the retry timers:

- The observers are tasks polling through a `NatsConnSinkStream`.
- A breach caller is one call of `trigger_reconnect` by the pinger
  (`client.rs` 201-204). It starts at pc "off" and is used once, like a
  timer.
- Retry timer k is armed by the k-th failed dial.

A gate calls the trigger while it holds the `inner.try_write()` guard
(lines 261-266, 282-286, 307-311). So an observer's trigger runs with the
transport lock held. `InnerHeld` (some observer's pc is not "idle") is
that lock, derived from the pcs:

- `Observe` needs it free. A second poller gets `Pending` from `try_write`.
- `DialSucceed` needs it free. The dial task's `inner.write()` at line 121
  blocks while a gate holds it.

The pinger holds no lock when it calls the trigger. So its `Call` has no
such guard, and its read of the version can come after a dial succeeded.

Actions:

| Action | Code |
|---|---|
| `Observe` | a gate takes the lock and sees `ServerDisconnected` while Connected (lines 253-318) |
| `Call` | the pinger calls `trigger_reconnect` on a breach |
| `ReadVersion` | line 82 |
| `Check` | lines 84-98 |
| `Reconnect` | lines 103-115 |
| `DialSucceed`, `DialFail` | the spawned task, lines 116-139 |
| `Dial` | `get_conn_inner` |
| `RetryFire` | line 131 |
| `Drop` | the environment killing the transport |

Each lock acquisition is its own step. The dial task's read of the version
(line 117) and its writes (lines 121-122) are one step. That is sound because
nobody else writes `state` while it is Reconnecting: the gates refuse,
`trigger_reconnect` returns at line 85, and `reconnect` returns at line 105.

### `Subscriptions` (`client.rs`)

Variables:

| Variable | Code |
|---|---|
| `subs` | `subs_map` |
| `chan` | the per-sid channels |
| `out`, `in` | the two directions of the TCP stream |
| `srvOn`, `srvMax`, `srvSent` | the server's subscriptions, auto-unsubscribe limits and delivery counts (`nm`) |
| `us`, `got`, `unsub` | the user's subscribe call, the messages its stream yielded, and its unsubscribe argument |
| `rq` | the request future |

Actions:

| Action | Code |
|---|---|
| `SubscribeSend`, then `SubscribeRegister` | line 436, then line 437 |
| `Unsubscribe` | lines 409-419 |
| `Demux` | lines 30-47 |
| `ConsumeMsg` | the then-closure of lines 437-458 |
| `RequestCall`, `RequestSend`, `RequestRecv` | lines 479-526 |
| `ServerRead`, `ServerPublish` | the server side |

A `max_count` of `None` is 0. The CLOSE sentinel and the dropping of a channel
with its entry come only from the reconnect handler, so they are left to
`NatsClient`.

### `ConnectionAbstract` and the refinement

`NatsConnection` ends with
`Abs == INSTANCE ConnectionAbstract WITH state <- <<phase, version>>, sent <- signals`.
Its four actions correspond to the code's writes of `state`:

| Abstract action | Concrete step | Code |
|---|---|---|
| `Fail` | `Check` when the trigger goes ahead | lines 89-96 |
| `StartDial` | `Reconnect` from Disconnected | lines 104-106 |
| `Reconnected` | `DialSucceed` | lines 120-123 |
| `DialFailed` | `DialFail` | lines 127-129 |

Every other concrete step (`Observe`, `ReadVersion`, the early returns of
`Check` and `Reconnect`, `RetryFire`, `Drop`, `Dial`) leaves the mapped
variables alone and is a stutter. `ImplementsAbstract == Abs!Spec` is checked
by `conn_reconnect` and proved as `Refinement`.

### `NatsClient` (`client.rs` with `connection.rs`)

`NatsClient` EXTENDS `NatsConnection`, so the connection's variables and
actions are the client's too. The connection's steps are conjoined with what
they do to the client:

- `ConnDrop` (`Drop`): what the server had written is lost.
- `ConnDialSucceed` (`DialSucceed`): a fresh server that opens with INFO.
- `ConnStep`: the other connection steps, which leave the client's variables alone.

Frames are abstracted to what the properties tell apart. Of the frames written
on the current transport the model keeps the first one (`first`), whether
CONNECT was among them (`hs`), the PINGs still owed a PONG (`owed`) and the
subscribed sids (`srvSubs`). Inbound frames are INFO, PING and PONG. MSG
routing is `Subscriptions`' business.

Variables:

| Variable | Code |
|---|---|
| `cstate` | `NatsClient::state` |
| `attempts` | `ping_attempts` |
| `info` | `server_info` is `Some` |
| `ctl[g]`, `ended`, `muxes` | the `control_tx` channel of binding g, the control loops that took CLOSE, and the multiplexers still polling |
| `hpc`, `hseen` | the reconnect handler's position in lines 212-271, and the signals it has taken |
| `reg`, `us` | the sids in `subs_map`, and each user subscribe call |

Actions:

| Action | Code |
|---|---|
| `Write(f, S)` | `start_send`, lines 253-272. The frame is written only while the phase is Connected and the transport is up, and otherwise returns Ok and is lost. With `LockRace` it may also be lost because `try_write` fails. That needs `OldPoller`: the multiplexer of an earlier binding is still polling and can hold the lock. With one binding the multiplexer and the writer are halves of one `split()`, which share a lock, so `try_write` cannot fail. |
| `Demux(g)` | lines 29-49: a control frame from the shared stream goes to binding g's `control_tx`. It is lost if that loop has ended. |
| `MuxStall(g)` | `poll_next` returns Pending with no waker while not Connected (lines 300-305). |
| `Control(g)` | lines 275-340: PING (reset and PONG), PONG (reset), INFO (reset, `server_info`, CONNECT, Connected), CLOSE (the loop ends) |
| `PingerTick` | lines 193-205. While Connected: PING, then `inc()`. The breach test compares the value *before* the increment (`atomic_counter`'s `inc` returns the old value), so with `ping_max_out = m` the breach comes on tick m + 2. On a breach the client is marked Disconnected and a breach caller starts `trigger_reconnect` (`Call`). `PingerIdle`: the interval closure is synchronous, so no tick starts while that call is running. |
| `HandleSignal`, `CloseSinks`, `ClearRegistry`, `Rebind`, `NestedConnect`, `Resub` | lines 213-214, 215-219, 220, 223-244, 246-248, 250-268. `Rebind` is one action for several lock sections (CLOSE, the counter reset, the new binding, the four writes). This is sound because only the handler writes `sender`, `receiver` and `control_tx`. The state and counter writes can interleave with the pinger and the control loops. Those interleavings are coarsened. |
| `SubscribeSend`, `SubscribeRegister`, `Publish` | lines 436, 437 and 392-404 |

The old multiplexers are the point of `muxes`. `NatsConnSinkStream` holds the
connection's `inner` Arc, and a reconnect replaces the transport *inside* that
Arc (line 121). A multiplexer of an earlier binding therefore keeps reading
from the new transport unless its task stalled. It can take the new server's
INFO into the channel of a loop that has ended, and then CONNECT is never
sent. TLC finds this trace with one drop. It is recorded as a hazard in
`PROJECT.json` rather than as a run of its own.

## 4. Runs

| Run | Expect | What it shows |
|---|---|---|
| `conn_reconnect` | pass | `SingleDial`: at most one dial, and one exactly while Reconnecting. `DisconnectOwned`: Disconnected always has a task on its way to reconnect. `Recovers`: every dead transport is eventually replaced. Together they cover spec §8 invariants 4 and 1. `ImplementsAbstract`: the protocol implements `ConnectionAbstract`. |
| `subs_request` | pass | `RequestReplyConserved`: the reply is in flight, queued or delivered. `RequestAnswered`: every request gets its reply. `MaxedAfterServerQuota`: a max-ended stream never ends before the server's count reaches max. `NoFeedAfterMax` (action property): no step changes a max-ended stream's channel, although the server may still send it MSGs. |
| `subs_subscribe_race` | violation | `NoMessageLost`. A MSG that arrives between SUB and the registration of the sid is dropped. |
| `subs_max_n` | violation | `MaxYieldsN`. With `max_msgs = 2` the stream yields 1 message, then the error. |
| `subs_unsub_no_max` | violation | `StreamEndsWithServerSub`. Unsubscribe without max leaves the entry, so the stream never ends. |
| `subs_late_max` | violation | `StreamEndsWithServerSub`. The server counts messages from SUB, the client from unsubscribe, so the stream never ends. |

| `client_ping_reconnect` | pass | `PingCounterBound`: the counter never passes `ping_max_out + 2`. `ClientRecovers`: a client the pinger marks Disconnected is Connected again. `OldLoopsEnd`: every superseded control loop ends. |
| `client_noresub` | pass | `StreamsEndOnReconnect`: without `subscribe_on_reconnect`, every stream open when a reconnect is signalled, or registered between the handler's CLOSE pass and its clear, ends (spec §6). |
| `client_connect_first` | violation | `ConnectFirst`. A user SUB is the first frame on a transport. The gate checks the connection phase, not the handshake. |
| `client_resub_race` | violation | `RegisteredIsSubscribed`. A subscribe whose SUB was dropped during the reconnect registers after the single replay pass, so the new server never sees it. |
| `client_lockrace` | violation | `HandshakeEventually`. After a reconnect the old binding's multiplexer still polls the shared transport and holds its lock. The CONNECT written in answer to the new INFO is lost to a failed `try_write` and never re-sent. |
| `client_stale_teardown` | violation | `LiveLinkKept`. A poller's gate starts a reconnect. The client is still Connected, so the pinger's PINGs count although the gate drops them, and it breaches. Its trigger reads the version only after the dial succeeded, so it takes the new version for its own and tears the fresh working transport down. Against spec §4.7 step 1 and §8 invariant 7. |

Bounds:

- **`conn_reconnect`: two observers, two failed dials, two dead transports.**
  That is enough for two triggers to race, for timers to overlap with later
  triggers and dials, and for a second drop after a completed reconnect. The
  one pinger breach caller (`breach`) races the observers' triggers and the
  dial.
- **`subs_request`: one subscription, one request, up to 3 messages, and
  `max_msgs` ∈ {None, 2}.** That is enough for a message before the
  unsubscribe, the n-th message and a message after the server's limit.
- **`client_ping_reconnect`: a silent server (one server PING), four pinger
  ticks, two breach callers, `ping_max_out = 1`, one sid, no drops and no
  failed dials.** Three ticks reach the breach, and the fourth tick falls
  after the reconnect the breach caused. That is where a missing counter reset shows. Each reconnect
  adds a binding, so several control loops and multiplexers coexist. Drops
  and failed dials are left to `conn_reconnect` and `client_noresub`, which
  keeps the state space under a minute.
- **`client_noresub`: one sid, one drop and one failed dial, no pings.** The
  reconnect is signalled while the subscription is being sent, is registered,
  or is open.
- **The violation runs** use the smallest instance that shows each trace.

Every passing property has a mutant in `PROJECT.json`, a plausible bug that TLC
catches with it.

Deadlock checking is off (`CHECK_DEADLOCK FALSE`) in these runs. Once the
bounded drops and failures are used up, the system sits in a healthy idle
state whose traffic the model abstracts. The connection's protocol-level
progress is checked by `Recovers` and `DisconnectOwned` instead.

## 5. Fairness

- **Weak fairness on every task step.** Tokio eventually runs every spawned
  and woken task. This covers the observers' polling (the multiplexer polls
  its stream continually), the retry timer, the steps of `trigger_reconnect`,
  the multiplexer, the server's reading, the user's polling of the streams it
  holds, and the request future.
- **Weak fairness on `Dial`.** A dial task always ends, either connected or
  with `NoRouteToHost`.
- **No fairness on `Drop` or `ServerPublish`.** These are the environment.
- **In `NatsClient`:**
  - Weak fairness goes on the connection's tasks, the server's PONG, every
    multiplexer and control loop, the pinger's interval, the reconnect
    handler, and a subscribe call that has already sent its SUB. Every one of
    these is a spawned tokio task or a future the user awaits.
  - `MuxStall`, the user's calls and the server's PINGs are never forced.
  - The fairness on `Demux(g)` assumes that a multiplexer that has not
    stalled is polled again. `HandshakeEventually` depends on this.

Failed dials are bounded by `MaxFailures`. `Recovers` therefore rests on the
assumption that some server is eventually reachable.

## 6. What is proved

`NatsConnection_proofs` assumes `ConstAssumption`: the bounds are naturals and
observers are not retry indices. It proves four theorems:

- `TypeCorrect`: `Spec => []TypeOK`.
- `SingleDialHolds`: `Spec => []SingleDial`.
- `DisconnectOwnedHolds`: `Spec => []DisconnectOwned`.
- `Refinement`: `Spec => ImplementsAbstract`.

Neither `SingleDial` nor `DisconnectOwned` is inductive alone:

- `SingleDial` needs the type of `inflight`. Its `Reconnect` case needs
  `inflight = 0` when the state is Disconnected, which is its own second
  conjunct.
- `DisconnectOwned` needs, across `DialFail`, that the armed timer index
  `failures + 1` is a process.

The inductive invariant is `IInv == TypeOK /\ SingleDial /\
DisconnectOwned`. The proof has one step per action and a split of `Check`
and `Reconnect` on their conditions.

The refinement has two lemmas, and PTL combines them with `[]IInv`:

- `AbsInit`: `Init => Abs!Init`.
- `AbsStep`: `IInv /\ [Next]_vars => [Abs!Next]_Abs!avars`. This is one case
  per action. `DialSucceed` and `DialFail` use `SingleDial` to know the phase
  is Reconnecting, because the dial task does not test it.

`NatsClient_proofs` assumes `ClientAssumption` and proves one theorem:

- `PingCounterBoundHolds`: `ClientSpec => []PingCounterBound`.

The bound `attempts <= PingMaxOut + 2` is not inductive alone. A tick from a
Connected client already at `PingMaxOut + 2` would pass it. The
strengthening `CIInv` adds that a Connected client has
`attempts <= PingMaxOut + 1`. This holds because the pinger marks the client
Disconnected in the same step as a tick whose `inc()` returns more than
`PingMaxOut`. Both `Rebind` and the control loop's INFO reset the counter
in the step that marks the client Connected.

`Subscriptions_proofs` assumes `SubsAssumption`: user sids and inboxes are
disjoint, the unsubscribe arguments are naturals and `MaxMsgs` is positive.
It proves four theorems:

- `TypeCorrect`: `Spec => []TypeOK`.
- `NoFeedAfterMaxHolds`: `Spec => NoFeedAfterMax`.
- `MaxedAfterServerQuotaHolds`: `Spec => []MaxedAfterServerQuota`.
- `RequestReplyConservedHolds`: `Spec => []RequestReplyConserved`.

Both counting proofs rest on `Occ(sq, x)`, the number of positions of `sq`
holding `x`. The lemmas `OccAppend`, `OccTail`, `OccSame` and `OccOther`
say how the count moves when the server appends a frame and the
multiplexer or the server takes the head. `InFlight(s)` is `Occ(in, s)`.

`MaxedAfterServerQuota` is not inductive. The then-closure decides "maxed"
from the client's count alone, so the proof must carry what that count says
about the server. The strengthening `Quota(s)` says, for every user sid:

- the registry's count is at most the messages the stream yielded, and a
  non-zero `max` is the user's unsubscribe argument;
- a maxed stream had yielded at least `max_msgs - 1` messages;
- `srvSent[s] >= Occ(in, s) + Len(chan[s]) + got[s] (+1 if maxed)`.

The last conjunct is an inequality, not an equation. The multiplexer drops a
message whose sid has left the registry.

`RequestReplyConserved` is an equation, and it is not inductive either. A
`PUB` for the inbox still in `out` could be answered a second time, and a
reply could reach the multiplexer after the inbox was removed. The
strengthening `ReqInvAll` says:

- every `PUB` frame in `out` is the plain frame `PubFrame(sid)`;
- for every inbox, `srvSent[q]` plus the `PUB(q)` frames in `out` is at most
  1, so the server answers an inbox at most once;
- an idle or registered request has no reply anywhere and no `PUB` sent;
- a registered or waiting inbox is in the registry.

The proof has one case per action. `ServerRead` and `Demux` are split on
whether the frame or sid they take is the inbox's.

The action property `NoFeedAfterMax` follows from the invariant `Gone`: a
maxed sid has no registry entry. `Gone` is inductive with `TypeOK`. Only
the then-closure makes a stream maxed, and it removes the entry in the same
step. Only `SubscribeRegister` adds a user sid, and only while that stream
is still sending. The lemma `FeedStep` then shows that, under `Gone`, no
action changes a maxed stream's channel. `Demux` pushes only into registered
sids, and every other writer of `chan` needs a state that maxed excludes.

## 7. What only TLC checks, and what is not modelled

Only TLC checks:

- The liveness properties `Recovers`, `RequestAnswered`,
  `StreamEndsWithServerSub`, `ClientRecovers`, `OldLoopsEnd`,
  `StreamsEndOnReconnect` and `HandshakeEventually`. TLAPS does not handle liveness under fairness
  or ENABLED.
- The `Subscriptions` properties that are not proved: `NoMessageLost`
  and `MaxYieldsN`, which are violation runs whose traces are the result.
- The violations, which are traces.

Not modelled:

- URL parsing and DNS resolution (`parse_uris`). These are pure data.
- The CONNECT record's contents. They are data: only when CONNECT is sent
  matters.
- Logging.
- The sender and codec, which are not in this source tree.
- Waker registration in the gates' `Poll::Pending`. It is approximated by
  `MuxStall`, because the code as written mixes futures 0.1 and 0.3 APIs and
  its real waker behaviour is unknown.
- The ERR frame and the frames forwarded to `unsub_tx`, which nothing reads.
- The `ensure_connect` retry loop of `connect`, which runs before a client
  exists.
- The second client built by the reconnect handler's nested
  `connect().wait()`. It shares no state with this one, and its blocking is a
  hazard note.
- A second `unsubscribe` of the same sid, and dropped request futures.
