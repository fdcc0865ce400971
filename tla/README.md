# A TLA+ model of coapable

coapable is a CoAP (RFC 7252) client and server in Rust on tokio. This directory holds a TLA+ model
of it: the transport layer, the tasks and channels around it, the router, the message conversions and
two stacks that talk over a network; the TLC configurations that check it on small instances; and TLAPS
proofs of its main properties for every value of the constants. Paths below are relative to
`src/coapable/src/`.

## 1. The system

```
 CoapClient --send_request--> [requests, 100] --\                /--> [outbound, 100] --> CoapEndpoint
   ^ oneshot                                     \              /                            | UDP
   '---------- response / error ----------------- CoapStack task <----- [inbound, 100] <-----'
 CoapServer <-- [server requests, 100] ---------/    sessions: SocketAddr -> PeerSession
   '---------- [server responses, 100] --------/
```

| Component | State it keeps | Operations | What makes it correct |
|---|---|---|---|
| stack task (`transport/stack.rs`) | sessions by peer, the next cleanup instant | a `select!` loop over five arms: inbound packet, outbound request, outbound response, retransmission timer, cleanup timer; returns when an interface or the endpoint is gone | every caller is told once what became of its request; a request reaches the server at most once; a response goes to the request it answers |
| peer session (`transport/session.rs`) | open exchanges by token, MID index, the two allocators, duplicate table, MIDs of unanswered confirmable requests by token | insert, complete, ACK, RST, duplicate check and record, response cache, timers, idle check | the MID index and the exchanges agree; no state outlives its use |
| exchange (`transport/exchange.rs`), reliability (`transport/reliability.rs`) | oneshot sender, MID, retransmission state or expiry; wrapping counters; duplicate entries | back-off, deadlines, allocate | a bounded number of retransmissions, each exchange ends |
| endpoint (`transport/endpoint.rs`) | the socket and two bounded channels | receive into one channel, send from the other | packets are moved, in order, until closed |
| client (`client.rs`) | a cloneable sender | build, send, wait with a timeout (5 s by default) | the caller gets the answer to its own request, or an error |
| server loop (`server/server.rs`) | none | receive, route, respond, one request at a time | each request is answered |
| router (`server/router.rs`) | a trie of routes, with one slot per method at each node and one parameter name | register and merge routes, look up segment by segment, dispatch by method | the trie answers as the list of registered routes says: which of several handlers, with which parameters, or which error |
| handlers (`server/handler.rs`) | none; a request context with a type map of extensions that nothing fills | called with the request and its context | a handler sees the request the client built |
| messages (`message_types.rs`) | builders of requests and responses | to and from coap_lite packets | conversion loses nothing the other side needs |
| two ends | what a client's stack, the network and a server's stack remember of each other | a request and its response, with all their copies | a request is executed at most once, and its caller gets the response to it or an error |
| OSCORE (`oscore/`) | contexts by peer | protect a request; the rest is `todo!()` | not reached from the stack |

Hard behaviours: packets are lost, duplicated, delayed and reordered; two timers race with answers;
message IDs (16 bits) and tokens (32 bits) wrap; the state a session holds is indexed three ways that
must agree; sessions are dropped when idle and recreated with new random counters; callers give up
before their exchange does; five bounded channels connect tasks that wait for each
other; routes shadow each other, and the lookup never goes back. `PROJECT.json`
lists these hazards with their source lines and the properties that watch them.

## 2. The modules

| Module | Models |
|---|---|
| `HashMaps` | the operations of `std::collections::HashMap` in use |
| `Reliability` | `reliability.rs`: packets as far as the stack reads them, allocators, retransmission state, duplicate entries, time |
| `Exchange` | `exchange.rs` |
| `PeerSession` | `session.rs`: one operator per method, from the session before to the session after; what a method returns is an operator of its own (`Retransmits`, `TimedOut`, `Completed`, `ResetCallers`, `get_cached_response`) |
| `CoapStack` | `stack.rs`, with the callers, the server loop, the clock and the peers around it; the properties |
| `MCCoapStack` | the sets of packets peers may send in the TLC instances |
| `Pipeline` | the tasks (endpoint, stack, server, callers) and the bounded channels between them; what each waits for |
| `RouteTable` | what the router promises, over the list of registered routes and without a trie (abstract) |
| `Router` | `server/router.rs`: registration, and `Router::handle` with one step per turn of `lookup`'s loop; implements `RouteTable` |
| `Messages` | `message_types.rs`: the builders and the four conversions |
| `Service`, `MCService` | `client.rs`' builder, `Messages`, the server loop, `Router` and handlers composed: a request from the builder to the handler, its response back; the routes, paths and foreign packets of the TLC instances |
| `RequestResponse` | what a client and a server promise their applications (abstract) |
| `EndToEnd`, `MCEndToEnd` | two instances of `CoapStack`, a client's and a server's, and a network; implements `RequestResponse` |
| `EndToEndInvariant` | the inductive invariant of `EndToEnd`, `ConversationInv` |
| `PeerSessionProofs` | each method of a session: its type, and what it does to the session's maps |
| `CoapStackProofs` | type correctness of `CoapStack`; a MID entry leads to an open exchange sent under that MID, and every exchange being retransmitted has its MID entry, each as long as counters are not used twice |
| `CoapStackCallerProofs` | every waiting caller is held in one place, and timeouts tell the truth |
| `CoapStackDispatchProofs` | at-most-once dispatch, and that answers go to the request they are for |
| `PipelineProofs` | type correctness of `Pipeline`, deadlocks, callers, and that requests are handled in order |
| `RouterProofs` | the trie and the lookup, and that `Router` implements `RouteTable` |
| `ServiceProofs` | the conversions and their round trips, and that handlers and callers see what was sent |
| `EndToEndProofs` | that `EndToEnd` implements `RequestResponse` |

**Two views of one task.** `CoapStack` has the data: what an arm of the loop does to the sessions, with
room without bound towards the endpoint, and a task that serves no arm and no timer while it waits for the
server (`AwaitsServer`). `Pipeline` has all the waiting: an arm takes something from a channel, what it does
to the sessions is a choice among its possible effects, and then it waits for room in another channel, that
of the server or that of the endpoint, serving no other arm meanwhile. A packet that is no request may be a
response or reset of an open exchange, or a ping, a duplicate, an ACK that matches none: it completes the
exchange of one caller or of none. Its actions:

| Action | Code |
|---|---|
| `EndpointReceives`, `EndpointDelivers`, `EndpointSends`, `EndpointReturns`, `EndpointFails` | endpoint.rs 22-37: receiving and the wait at line 26 are two steps |
| `StackTakesPacket`, `StackTakesRequest`, `StackTakesResponse`, `StackTimer` | the arms, as far as the first `await` on a channel |
| `StackHandsOver`, `StackSends` | the waits at stack.rs 181 and in every `send_packet`; after the last packet the exchange is completed |
| `StackChannelClosed` | the three ways out of the loop: lines 118, 262, 294 |
| `ServerReceives`, `HandlerReturns`, `HandlerPanics`, `ServerResponds`, `ServerReturns` | server.rs 33-50 |
| `ClientStarts`, `ClientSends`, `ClientTimeout`, `ClientGoes` | stack.rs 33-51, client.rs 128-145, the drop of an interface |

Requests from the network are numbered as they arrive; only those that reach the server are told apart.
A channel of which nothing but the length matters is a number. When a task returns, its ends of all
channels are dropped, as in tokio: senders then fail and receivers end once the buffer is empty.

**Actions of `CoapStack`.** The body of a `select!` arm runs to its end before the loop selects again and no other
task touches the sessions, so each arm is one atomic action; the inbound arm is split by kind of packet:

| Action | Code |
|---|---|
| `RecvDuplicate`, `RecvRequest`, `RecvNonRequest` | stack.rs 117-196, CON and NON messages |
| `RecvAck`, `RecvPiggybacked`, `RecvReset` | stack.rs 197-219 |
| `OutboundRequest`, `OutboundRequestUnencodable` | stack.rs 224-267; the second is the `continue` at line 240 |
| `OutboundResponse(encodable)` | stack.rs 270-296 |
| `RetransmissionTimer` | stack.rs 100-111 and 299-313; enabled when some deadline has passed |
| `CleanupTimer` | stack.rs 316-319 |
| `StackReturns` | every way the task ends: an interface dropped, the endpoint closed or failed, a panic. All senders are dropped with it |
| `SendRequest`, `ClientTimeout` | stack.rs 33-51, client.rs 128-145 |
| `ServerHandle` | server.rs 32-51 |
| `Tick` | the clock |

**The router.** A node of the trie is named by the edges that lead to it, so the trie is a set of edge
sequences (`nodes`), a parameter name per node (`param_names`) and a handler per node and method
(`handlers`, the number of the route it came with). Routes are registered in any order before the server
starts, with any non-empty set of methods; then requests come one at a time.

| Action | Code |
|---|---|
| `Route`, `Serve` | router.rs 154-169 with `walk_or_create` and `merge`; the move into the server |
| `Handle` | the start of `Router::handle` and of `lookup` |
| `MatchStatic`, `MatchParam`, `NoMatch` | a turn of the loop in `lookup`: the static child, else the parameter's, else `None` |
| `NoHandler`, `NoMethod`, `CallHandler`, `Return` | the end of `lookup`, `retrieve_handler`, the call, the return |

`RouteTable` has the same interface and no trie: `Respond` answers a request in one step, with a handler
of the place that the rule "static before parameter, at each segment" leads to. It is the specification
that the code's comments give piecemeal: the route registered last wins a slot, the first name of a
parameter stays, of two parameters of one name the last counts.

**Messages and services.** A string is the sequence of its parts between slashes, an option value that
is not UTF-8 is a value of its own. `Service` runs the builder's methods in any order (`SetPath`,
`AddQuery`, ...), makes the packet (`SendBuilt`) or takes one that no client of this library would send
(`SendForeign`), parses it (`Dispatch`), runs the router's steps, calls the handler with its
`HandlerRequest`, and takes the response back (`ServerReplies`, `Deliver`). The packet goes straight
across: what a network does to packets is the subject of the other modules.

**Two ends.** `EndToEnd` has two instances of `CoapStack` with variables of their own, `C` and `S`. What
`sent` holds after a step of one is put on the network, which keeps a packet for `MAX_LATENCY` ticks and
delivers it in that time as often as it likes or never. Its actions are those of `CoapStack` on either
side: `CReceives`, `CAsks`, `CTimer`, `CCleanup`, `CCaller` (`SendRequest`, `ClientTimeout`, a request that
cannot be encoded), `SReceives`, `SResponds`, `SCleanup`, `SHandles` (which counts the execution), and
`Tick` for both clocks.

The code does not restrict which MIDs and tokens a request is sent under, and neither does `Spec`. The promise holds in the behaviours of `CarefulSpec`, in
which no request is sent under a MID or a token that something still goes by (`Remembered`): the MIDs of the client's
own open exchanges and of the server's duplicate entries, and the MIDs and tokens of packets under way and of requests
not answered yet. The code does not see to that. Its counters go round; those of a session that was cleaned up start
anew at random values (reliability.rs:34, stack.rs:317), perhaps among the MIDs the server still remembers; and a
server that sends no requests of its own never evicts, so that it remembers for ever. `LawfulSpec` asks only for RFC
7252's rule that a MID is not used again within `EXCHANGE_LIFETIME`: entries that have outlived it do not count as
memory. The open exchanges belong to the rule: one that is still being retransmitted is younger than that, and if a
new request had its MID, the server would take the next retransmission for a copy of the new request, and the answer
to it would end the wrong exchange. Time passes when no timer is due, or when the stack that would serve it waits for
its server.

**Abstractions.**

- *Time* is relative: a deadline is the number of ticks left (0 once passed), a duplicate entry has an
  age that stops at `EXCHANGE_LIFETIME`, the only age the code compares with. A timer may fire any time
  after its deadline, as in tokio.
- *Peers and the network* are not told apart: any packet of `InboundPackets` may arrive from any peer at
  any moment, any number of times. This includes loss, duplication, delay and reordering. `sent` holds
  what the last step handed to the endpoint.
- *Random starts* of the counters are members of `MidStarts` and `TokenStarts`; the random initial
  timeout is a member of `ACK_TIMEOUTS`.
- *Callers* are named by their request; the oneshot sender in an exchange is that name, and `caller`
  says what each one has been told. A caller sends one request.
- *Answers* of handlers are told apart by the request they answer.
- *Queues* to and from the server have `MaxServerQueue` places. `server_requests` also holds, as its last
  element, the one request that the task waits to put into a full channel; until the server takes one, no arm
  and no timer is served. The cycle in which server and stack wait for each other is thus in `CoapStack` as well;
  `Pipeline` says that it is for ever. The clients' channel is not bounded other than by the number of requests.
- *History.* `allocated` in the allocators, `transmissions`, `seen` and `crossed` serve the properties
  only; no guard reads them. `seen` holds for each peer and MID the request dispatched last, for
  `EXCHANGE_LIFETIME`, and whether an earlier request under the MID was still unanswered then (`overdue`);
  `crossed` the `<<peer, token>>` pairs of requests that a peer sent while it was still owed an answer under
  the same token.

## 3. What the runs check

Every run gives all constants in its `.cfg`. `CHECK_DEADLOCK FALSE` wherever the system really stops:
after `StackReturns`, when all tasks have ended, or when the callers of `EndToEnd` have had their answers.
`service` checks for deadlock as well: a router is always ready for the next request.

| Run | Checks | Result |
|---|---|---|
| `client` | `TypeOK`, `RetransmittingIsIndexed`, `MidIndexSound`, `IndexInv`, `TimeoutReportsRetransmissions`, `WaitingCallerIsHeld` | holds |
| `server` | `CachedResponseAnswersRequest`, `SeenInv`, `AtMostOnceDispatch`, `ResponseAnswersRequest` | holds |
| `live` | `WaitingCallerIsTold`, `StaleEntriesEvictedWithTimer` | holds |
| `pipeline` | `TypeOK`, `WaitingCallerIsKnown`, `OrderInv`, `HandledInOrder`, `WaitingForEachOtherIsForEver`, `RequestsHandledOrStuck`, `TasksFollowTheStack`, `StackFollowsItsPeers` | holds |
| `service` | `RouterTypeOK`, `TrieInv`, `LookupInv`, `ParamsAsRegistered`, `HandlerSeesRequest`, `CallerSeesResponse`, `HandlerMatchesRequest`, `AnswersAsTable` | holds |
| `end_to_end` | `TypeOK`, `ConversationInv`, `EveryWaitIsTimed`, `KeepsPromise` | holds |
| `empty_ack` | `EveryExchangeEnds` | violated |
| `mid_reuse` | `ConAlwaysFoundByMid` | violated |
| `token_reuse` | `EveryResponseAnswersItsRequest` | violated |
| `queues_full` | `EveryRequestIsHandled` | violated |
| `late_answer` | `DuplicatesGetTheirAnswer` | violated |
| `stale_answer` | `ResponseIsToRequest` | violated |

Two properties are refinements, checked by TLC as properties of the detailed specification:
`AnswersAsTable` (`Router` within `Service` implements `RouteTable`, whose variables it shares) and
`KeepsPromise` (`EndToEnd` implements `RequestResponse` with `outcome <- c_caller`).

The six violated properties restate a comment or a test of the code; the counterexamples show

- *empty_ack*: an exchange whose request got an empty ACK has no deadline any more and is never ended
  if the response does not come ("The exchange should eventually time out", transport/stack.rs:736). A
  caller behind `CoapClient` is told by its own timeout, but the exchange stays and keeps its session
  from ever being idle. `WaitingCallerIsTold` in `live` says what else leaves a caller of the stack waiting: only
  a task that waits for the server for ever (stack.rs:181), and then serves no timer.
- *stale_answer*: duplicate entries are evicted by the retransmission timer only, which is pending for
  ever while no exchange is open, so a pure server never evicts them ("Evict expired entries from the
  dedup table", transport/session.rs:203). A client that uses a MID again after `EXCHANGE_LIFETIME`, as it
  may, is taken for one that repeats itself: its caller gets the response to the old request.
  `KeepsPromise` in `end_to_end` is what holds when stale entries are respected too, and
  `StaleEntriesEvictedWithTimer` in `live` what housekeeping does: the entry goes while an exchange is open that
  the timer waits for, unless the exchange is acknowledged or the task waits for the server for ever.
- *mid_reuse*: when the MID counter goes round while an exchange is open, its MID leads to the newer exchange
  ("both token and MID lookup", transport/session.rs:76). An ACK, RST or piggybacked response to the older
  request is applied to the newer one, and the older one is retransmitted until it times out.
  `RetransmittingIsIndexed` in `client` is the same up to the wrap. `MidIndexSound` says what an entry leads to
  even after it: an open exchange sent under that MID and still being retransmitted. It does not say that the
  ACK which finds it was meant for it.
- *token_reuse*: unanswered confirmable requests are looked up by token alone, so a peer that reuses a
  token too early gets an answer in the ACK of another request (transport/session.rs:166-168).
  `ResponseAnswersRequest` in `server` is the same for peers that do not.
- *late_answer*: an answer is cached by MID when it comes. When the handler took longer than `EXCHANGE_LIFETIME`
  and the peer, as it may, has used the MID again, the entry is that of the new request, whose duplicates get the
  old answer ("Get cached response for a duplicate CON", transport/session.rs:154).
  `CachedResponseAnswersRequest` in `server` is the same when no earlier request under the MID is unanswered.
- *queues_full*: the stack waits for room in a channel of the server or of the endpoint inside an arm,
  and that task waits for room in a channel that only the stack empties. Both live on and no request is
  handled any more ("The transport layer calls this for every deduplicated CON/NON request",
  server/handler.rs:14). `ServerCycle` and `EndpointCycle` define the two situations.
  `RequestsHandledOrStuck` says that, while all tasks live, nothing else keeps a request from its handler;
  `WaitingForEachOtherIsForEver` that neither a caller's timeout nor packets nor the third task frees them.
**Bounds and why they are enough.**

- `client`, `mid_reuse`: three requests (two CON, one NON) with two MIDs and four tokens, both starting at
  the last value: the third request reuses the MID of the first, which may be open, acknowledged, completed
  or timed out. Up to two requests the MIDs are fresh, so `RetransmittingIsIndexed` is asked of two exchanges at once. Resets, both kinds of ACK and separate responses of every MID and token may arrive; one
  retransmission, then the timeout; `NON_LIFETIME` outlives both, and the cleanup interval is shorter than
  an exchange, so cleanups come before, during and after exchanges. Reuse of a token drops an open exchange;
  no run reaches it (it takes one more request), the theorems `WaitingCallerHeld` and `TimeoutCorrect` cover it.
- `server`: CON requests under two tokens (one the empty token) and two MIDs, one of which both tokens
  use, a NON request, a ping;
  lifetime 2 and cleanup interval 1, so entries age out, sessions are dropped and MIDs come again
  legally; the queues hold one element and the server is as slow as it likes, so the task comes to wait for it; one NON request of the
  stack's own arms the retransmission timer, without which nothing is evicted.
- `live`: one CON and one NON request, a peer that only acknowledges and sends one request. Three tokens,
  so that none is reused: an exchange that is replaced gives no warrant for eviction. One peer: two are too many
  states for the liveness check, and the timer treats the sessions alike. The server may stop at any time, so the
  run has the states in which the task waits for it for ever.
- `late_answer`: as `server`, with two requests under one MID and two tokens only.
- `pipeline`, `queues_full`: one caller, channels of one, four requests: what it takes to fill both
  channels of the server, or of the endpoint, and block both tasks. The capacity in the code is 100: the
  same situations need more packets. The safety properties are also proved, for any capacity and any
  number of callers.
- `service`: at most two routes out of six patterns that shadow each other, share a node,
  name a parameter differently or twice, with every set of two methods; three paths with empty parts and at
  most two calls of the builder's methods; four packets of other clients: a slash within an option, a value that
  is not UTF-8 between two that are, or alone, two Accept options, an unknown format, a method that has no slot. Two routes are what
  shadowing, merging and renaming need; the theorems cover any routes and paths.
- `end_to_end`: two confirmable requests, which are not told apart (symmetry); four MIDs and four tokens;
  latency 1 and one retransmission, so an old copy of a packet may come after the answer and after a
  cleanup; the client's session is forgotten and recreated with one of two MID starts while the server
  still remembers it, as far as `CarefulSpec` allows. `EXCHANGE_LIFETIME` is the least that the assumption on latency and retransmission
  allows. `stale_answer`: `LawfulSpec` with one start.
- One peer suffices for safety: sessions of different peers share no state but the two timers, which
  treat each session alike. The theorems on `CoapStack` cover any number of peers.

**Fairness** (`FairSpec` of `CoapStack`): the body of the inbound arm waits at stack.rs:181 while the server's
channel is full, and meanwhile the one task serves no arm and no timer. So no arm is weakly fair. Whenever the task is
back in its loop, `tokio::select!` picks among the ready branches at random: the request arm, the response arm and
both timers are strongly fair (SF), taken in the end if they are ready again and again. The clock does not stop
(WF). Nothing is assumed of peers, callers or the server, which may never take the request the task waits to hand
over: every liveness property has the alternative `[]AwaitsServer`. The endpoint is assumed to take packets: a stack
blocked on a full outbound channel is the subject of `Pipeline`.

In `Pipeline` a branch of a `select!` loop can be ready, lose to another branch that makes the task wait,
and be ready again: the random choice of tokio takes it in the end, so the branches are strongly fair
(SF). A task that waits for one thing only goes on when it can (WF), and handlers return or panic.
Arrivals, timers, callers and socket errors are not assumed to happen.

`Service` and `EndToEnd` state no liveness and assume no fairness. `EndToEnd` assumes instead that time does
not pass while a timer is due and that both clocks run at one speed, as RFC 7252 does when it derives
`EXCHANGE_LIFETIME`; without it no length of the duplicate table's memory would be enough.

## 4. What is proved

All theorems are for every value of the constants that satisfies the ASSUMEs. For those of `Reliability`
and `CoapStack`: positive moduli and durations, starts within the moduli, inbound packets well typed,
`None` different from every value; for those of `Pipeline`: finitely many callers, a positive capacity; for
those of `Router`: patterns and paths are finite sequences, the edge of a parameter is no segment; for those of
`Service`: a path's parts and queries are UTF-8, what splits into segments is among the paths the router may be
asked for, and a client names formats that coap_lite knows; for those of `EndToEnd`: the client is not the server,
requests are payloads, latencies are natural numbers. No proof uses `LifetimeAssumption` of `EndToEnd`, which
relates `EXCHANGE_LIFETIME` to the latency: what the proofs need is that nothing in `Remembered` is reused, which is the condition `CarefulSpec`.

- `TypeCorrect`: `Spec => []TypeOK`. `TypeOK` is inductive. There is a lemma per method (`...Type`: the
  method keeps `IsSession`) and one per action; in particular a wrapped counter stays in range and a
  deadline never becomes negative.
- `IndexInvariant`, `MidIndexCorrect`: `Spec => []IndexInv` and `Spec => []MidIndexSound`, both about sessions that
  have handed out no token twice: a MID entry leads to an open exchange of that MID being retransmitted.
  `MidIndexSound` alone is not inductive: a new exchange could land on an open one and change the MID
  under an index entry. `IndexInv` adds that each open exchange has one of the last `allocated` tokens
  (`Distance`), so while the token counter has not gone round the next token is that of no open exchange
  (`FreshToken`). The rest is one lemma per method: whatever removes an exchange, or stops its
  retransmission, takes its MID entry along. Wrapping of the MID counter needs no condition.
- `RetransmittingIndexed`: `Spec => []RetransmittingIsIndexed`, the converse of the above: what is
  being retransmitted can be found. The inductive form (`SessionMids`, under the condition that the MID
  counter has not gone round) adds that no two open exchanges have a MID in common and that each MID in use
  is one of those allocated so far, so that the next one is new and overwrites no entry.
- `WaitingCallerHeld`: `Spec => []WaitingCallerIsHeld`, without a condition on either counter. `CallerInv`
  says that the sender of a waiting caller is queued or held (`WaitingHeld`), that no sender is in two
  exchanges, twice in the channel or in both (`HeldOnce`, `QueuedOnce`, `QueuedOrHeld`), and that one whose
  caller has not asked yet is nowhere (`IdleNowhere`), so that what enters the channel is new. Each method
  that ends exchanges hands exactly their callers to the arm, which tells them (`Shrinks`,
  `SetSessionShrinks`); an exchange replaced under a reused token drops its sender, which tells as well.
- `TimeoutCorrect`: `Spec => []TimeoutReportsRetransmissions`. `CountInv` relates each open exchange to the
  history: a confirmable request was sent once more than the retransmission count of its exchange says,
  for as long as it is retransmitted. That the timer counts one transmission per run needs `HeldOnce`; that
  what was reported stays true needs that a request given up is neither queued nor held (`TimedOutNowhere`).
- `SeenInvariant`, `DispatchedAtMostOnce`: `Spec => []SeenInv` and `Spec => AtMostOnceDispatch`. A
  dispatched request stays in the duplicate table with its age for `EXCHANGE_LIFETIME`: no method but
  eviction removes an entry (`KeepsEntries`), eviction takes stale ones only, and a session is idle only
  with an empty table. Then a step that queues a request found its MID in neither table nor history.
- `AnswerCorrect`, `CachedAnswerCorrect`: `Spec => ResponseAnswersRequest` and `Spec =>
  []CachedResponseAnswersRequest`. `AnswerInv` ties what a session keeps to what the server still has to
  answer, wherever it is queued (`Unanswered`): a MID kept for a response is that of an unanswered request
  under its token and of the one dispatched last under that MID (`PendingFits`); the MID of every confirmable
  request is kept (`RequestsFit`); what is cached answers the request dispatched last (`CacheFits`). Each part
  exempts the tokens that the peer crossed, and those that speak of the request dispatched last also exempt a MID
  under which an earlier request was still unanswered when the last one was dispatched (`overdue`): there the code caches the wrong answer,
  which is the `late_answer` run. `AnswerCorrect` rests on `RequestsFit` and has no such exemption. `OneRequestPerToken`
  says that no other request under an uncrossed token is queued, so taking an answer leaves no request behind whose MID is gone.

- `PipelineProofs!TypeCorrect`: `TypeOK` of `Pipeline` is inductive; it has the capacity of each channel.
- `DeadlockIsForEver`: `Spec => WaitingForEachOtherIsForEver`, action by action: in a cycle the two tasks
  have no step, and no step of the others touches their state or the two channels between them.
- `CallerIsKnown`: `Spec => []WaitingCallerIsKnown`, inductive with `TypeOK`.
- `OrderInvariant`, `RequestsInOrder`: `Spec => []OrderInv` and `Spec => HandledInOrder`. That the next
  request handled is the successor of the last needs the contents of both channels and of what three
  tasks hold: `OrderInv` says they are, from front to back, the numbers from `handled + 1` to `arrived`.
  It is stated without counting: the numbers on the way to the stack are an interval, and the packets in
  the channel are ordered; so the first one is the least of the interval.

- `RouterProofs`: `TypeCorrect`, `TrieCorrect`, `LookupCorrect`, `RouterImplementsTable`, `ParamsCorrect`.
  `TrieInv` is inductive with the types: registering a route adds the nodes on its way, a name where there
  was none and the slots of its methods, which is what one more route adds to the right-hand sides.
  `LookupInv` says that the node reached is where the segments matched so far lead by the table's rule, and
  that the parameters are those of that node; the loop keeps it, one lemma per step. The refinement
  `RouterSpec => AnswersAsTable` follows: all steps of a lookup but the last stutter, and for the last one
  the node reached, extended by parameters where nothing matches (`NoMatch`), is the witness of `Respond`.
  `ParamsCorrect` says which handlers find their own parameter names.

- `ServiceProofs`: `HandlerSees`, `CallerSees`, `HandlerMatches`, `ServiceRoutes`. The filters of the conversions
  are recursive functions, so what they compute has to be shown by induction on the length of their input. The
  library's induction theorems take an operator, but the least element of a set of numbers (`LeastNat`, from
  `WFMin`) gives an induction over sets (`SetInduction`), which is all that is needed: a filter's loop exists
  (`KeptExists`), it leaves none of what it drops (`WithoutType`), all of the rest (`WithoutNothing`), and does
  not see an empty part in front (`WithoutFirst`); values of one part joined are the sequence of the parts
  (`FlattenSingles`). So `/`-separated parts survive `to_packet` and `from_packet` but for the empty ones
  (`PathThereAndBack`), and requests and responses survive as a whole (`RequestThereAndBack`,
  `ResponseThereAndBack`). `ServiceInv` says that the packet, what the server took from it, the router's request,
  what the handler was called with and the response belong to what was built. `ServiceStep` shows with it that
  every step of the service is one of the router's or none, which carries all theorems of `RouterProofs` over
  (`ServiceRoutes`); `HandlerMatches` needs both invariants, and for foreign packets that the "/" put in
  front of their values adds no segment (`ForeignPath`).

- `EndToEndProofs`: `TypeCorrect` and `WaitsAreTimed` hold without any condition on what is reused:
  `MessagesInv` and `ExchangesInv`, inductive with the types, say that the network and the tables hold nothing
  but requests and final answers, so no empty ACK ever takes a confirmable exchange off its timer.
- `ConversationHolds`, `PromiseKept`: `CarefulSpec => []ConversationInv` and `CarefulSpec => KeepsPromise`. They are
  theorems about the behaviours in which nothing remembered is reused, not about every run of the code: under
  `LawfulSpec` already they are false, as `stale_answer` shows. What a caller is told depends on seven places: the
  exchanges and the MID index of the client, the duplicate table, the MIDs owed and the two queues of the
  server, and the packets under way both ways. `ConversationInv` says what they have to do with each other.
  `UniqueInv`: of all requests that are under way, queued or kept to be sent again, no two have a token, a MID or
  a caller in common. `TokenInv`, `MidInv`: the token of any request or answer leads to the exchange of its own
  caller or to none, and so does the MID of one that is not NON. `OwedInv`, `CachedInv`: the server acknowledges
  the MID of the request it answers, and repeats the answer of that request. `ExecutionsInv`: a request that was
  executed is in the duplicate table, and only such a request has an answer. `StageInv`: a request that the stack
  has not taken yet has left no trace anywhere. None of them is inductive without the others: that a response
  reaches the right caller needs `TokenInv` at the time the response is received, which needs `UniqueInv` at
  the time a request is registered, which is what `Remembered` buys (`RememberedFresh`).
  The proof has, for each action, what it does to the stack that takes it, what it does to the whole
  (`...Effect`), and what it keeps. Most actions only forget or repeat (`NothingNew`), and one lemma for each part of
  the invariant does for all of them. The refinement follows: receiving a response is `Answer`, calling a handler
  is `Execute`, a timeout or a dropped sender is `Fail`, every other step stutters.

Proofs are split by module because each EXTENDS the lemmas of the one before. `CoapStackProofs` and
`EndToEndProofs` both rest on `PeerSessionProofs`; `EndToEnd`'s two instances of `CoapStack` have operators of
their own, which `BridgeC` and `BridgeS` identify with those of `PeerSession`.

Every invariant that a passing run checks is a theorem, and so is every action property and both refinements.
Only model-checked: the five liveness properties (liveness under fairness is out of the prover's reach).

## 5. Not modelled

- OSCORE (`oscore/`): nothing calls it, and three of its four operations end in `todo!()`. The other one
  wraps liboscore's encryption and notes a request id by token, which only the unfinished ones would read.
- `lib.rs` and the example: re-exports and a demonstration, no state.
- The `Extensions` type map of a handler's context: nothing inserts into it, so it is empty.
- In `EndToEnd` neither stack is shut down (`StackReturns` is in `CoapStack`, the end of tasks in
  `Pipeline`), the server asks nothing of its own, and there is one client.
- The bytes of packets. A packet that cannot be parsed has no effect in the code and none here; whether a
  message can be encoded is a choice. The Accept option of a foreign packet is read as a number of any
  width; one of more than eight bytes makes the code panic, which is one of the reasons for `StackReturns`
  and for a failing task in `Pipeline`.

## 6. Plan

`EndToEnd` with a server that restarts, which forgets its duplicate table, and with two clients; then its
proofs again, with the server's memory as part of `Remembered` only while it lasts.
