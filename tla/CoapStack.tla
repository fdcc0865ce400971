----------------------------- MODULE CoapStack -----------------------------
(***************************************************************************)
(* transport/stack.rs: the stack task.  Its loop is a tokio::select! over  *)
(* five arms (inbound packet, outbound request, outbound response,         *)
(* retransmission timer, cleanup timer); the body of an arm runs to its    *)
(* end before the loop selects again, so each arm is one atomic action, or *)
(* one action per kind of inbound packet; while the body of the inbound    *)
(* arm waits for the server, no other arm is served (AwaitsServer).        *)
(* Around it: the callers (client.rs), the server loop (server/server.rs), *)
(* the passing of time, and peers that may send any packet of              *)
(* InboundPackets at any moment, in any order, any number of times.        *)
(***************************************************************************)
EXTENDS PeerSession, Sequences

CONSTANTS
  Peers,             \* the socket addresses the stack talks with
  ConRequests,       \* the outbound requests that are confirmable
  InboundPackets,    \* the packets a peer may send
  MaxServerQueue     \* capacity of the channels from and to the server

ASSUME PacketsAssumption == InboundPackets \subseteq Packets
ASSUME RequestsAssumption == Requests \subseteq Payloads /\ ConRequests \subseteq Requests
ASSUME QueueAssumption == MaxServerQueue \in Nat

VARIABLES
  running,           \* the task has not returned
  sessions,          \* HashMap<SocketAddr, PeerSession>
  next_cleanup,      \* ticks left until the cleanup timer fires
  caller,            \* per outbound request, what its caller has got so far
  outbound_requests, \* the channel from the clients to the stack
  server_requests,   \* the channel from the stack to the server, and behind it the
                     \* request that the task is waiting to put there
  server_responses,  \* the channel from the server to the stack
  sent,              \* the packets handed to the endpoint by the last step
  transmissions,     \* history: how often each outbound request was sent
  seen,              \* history: per peer and MID, the request dispatched last
                     \* and its age, for EXCHANGE_LIFETIME, and whether an
                     \* earlier one under the MID was still unanswered
  crossed            \* history: the <<peer, token>> pairs of requests sent while
                     \* one under the same token was unanswered

taskVars == <<running, sessions, next_cleanup>>
clientVars == <<caller, outbound_requests>>
serverVars == <<server_requests, server_responses>>
historyVars == <<transmissions, seen, crossed>>
vars == <<taskVars, clientVars, serverVars, sent, historyVars>>

\* What a caller can be told, and its two states before that.
Results ==
  [kind : {"Response"}, payload : Payloads \cup {None}]
    \cup [kind : {"Timeout"}, retransmits : 0 .. MAX_RETRANSMIT]
    \cup [kind : {"Reset", "ChannelClosed", "EndpointClosed", "ClientTimeout"}]
Idle == [kind |-> "Idle"]
Waiting == [kind |-> "Waiting"]

\* What the server and the stack exchange about a request.  The stack reads
\* the token and the payload of it; the rest of the request is history.
ServerMessages == [peer : Peers, request : InboundPackets]

SessionsOK ==
  /\ IsMap(sessions, Peers, Range(sessions))
  /\ \A p \in DOMAIN sessions : IsSession(sessions[p])

SeenEntries == [request : InboundPackets, age : 0 .. EXCHANGE_LIFETIME, overdue : BOOLEAN]
SeenOK ==
  /\ DOMAIN seen = Peers
  /\ \A p \in Peers : IsMap(seen[p], MIDs, SeenEntries)

\* Every variable has its type.
TypeOK ==
  /\ running \in BOOLEAN
  /\ SessionsOK
  /\ next_cleanup \in 0 .. IDLE_SESSION_CLEANUP_INTERVAL
  /\ caller \in [Requests -> Results \cup {Idle, Waiting}]
  /\ outbound_requests \in Seq([request : Requests, peer : Peers])
  /\ server_requests \in Seq(ServerMessages)
  /\ server_responses \in Seq(ServerMessages)
  /\ sent \in SUBSET [peer : Peers, packet : Packets]
  /\ transmissions \in [Requests -> Nat]
  /\ SeenOK
  /\ crossed \subseteq Peers \X (Tokens \cup {None})

Init ==
  /\ running = TRUE
  /\ sessions = EmptyMap
  /\ next_cleanup = IDLE_SESSION_CLEANUP_INTERVAL
  /\ caller = [r \in Requests |-> Idle]
  /\ outbound_requests = << >>
  /\ server_requests = << >>
  /\ server_responses = << >>
  /\ sent = {}
  /\ transmissions = [r \in Requests |-> 0]
  /\ seen = [p \in Peers |-> EmptyMap]
  /\ crossed = {}
-----------------------------------------------------------------------------
(* Helpers. *)

\* sessions.entry(peer).or_insert_with(PeerSession::new)
SessionEntry(peer) ==
  IF peer \in DOMAIN sessions THEN {sessions[peer]}
  ELSE {NewSession(m, t) : m \in MidStarts, t \in TokenStarts}

SetSession(peer, s) == sessions' = Insert(sessions, peer, s)

\* A oneshot send: it reaches the callers that still wait and no one else.
Tell(callers, result) ==
  [r \in Requests |-> IF r \in callers /\ caller[r] = Waiting THEN result ELSE caller[r]]

Send(peer, packets) == sent' = {[peer |-> peer, packet |-> p] : p \in packets}

\* The server's channel is full and one more request is to go there: the task
\* waits inside the inbound arm and serves no arm and no timer (stack.rs:181).
AwaitsServer == Len(server_requests) > MaxServerQueue

\* The task is in its select.
Selecting == running /\ ~ AwaitsServer
-----------------------------------------------------------------------------
(* Arm 1: a packet from the network.  A packet that cannot be parsed is     *)
(* dropped without any effect.                                              *)

IsMessage(pkt) == pkt.type \in {"Confirmable", "NonConfirmable"}

\* A message whose MID is in the duplicate table: the cached response, if
\* there is one, is sent again for a confirmable message.
RecvDuplicate(peer, pkt) ==
  /\ Selecting
  /\ IsMessage(pkt)
  /\ peer \in DOMAIN sessions
  /\ is_duplicate(sessions[peer], pkt.mid)
  /\ Send(peer, IF pkt.type = "Confirmable"
                THEN get_cached_response(sessions[peer], pkt.mid) ELSE {})
  /\ UNCHANGED <<taskVars, clientVars, serverVars, historyVars>>

\* The requests of a peer that the server has not answered yet.
Unanswered(peer) ==
  {x.request : x \in {x \in Range(server_requests) \cup Range(server_responses) : x.peer = peer}}

\* Mutants: the immediate ACK of other confirmable messages is made for a
\* request too; the MID of a NON request is kept as well.
RecordRequestAcked(s, pkt) ==
  LET recorded == record_inbound_mid(s, pkt.mid)
  IN  IF pkt.type = "Confirmable"
      THEN cache_response_for_mid(record_inbound_con(recorded, pkt.token, pkt.mid),
                                  pkt.mid, EmptyAck(pkt.mid))
      ELSE recorded
RecordRequestConOrNon(s, pkt) ==
  record_inbound_con(record_inbound_mid(s, pkt.mid), pkt.token, pkt.mid)

\* What the session keeps of a new request.
RecordRequest(s, pkt) ==
  LET recorded == record_inbound_mid(s, pkt.mid)
  IN  IF pkt.type = "Confirmable" THEN record_inbound_con(recorded, pkt.token, pkt.mid)
      ELSE recorded

\* A new request: the MID of a confirmable one is kept for the piggybacked
\* response, and the request goes to the server, as soon as there is room.
RecvRequest(peer, pkt) ==
  /\ Selecting
  /\ IsMessage(pkt) /\ pkt.code = "Request"
  /\ \E s \in SessionEntry(peer) :
       /\ ~ is_duplicate(s, pkt.mid)
       /\ SetSession(peer, RecordRequest(s, pkt))
  /\ server_requests' = Append(server_requests, [peer |-> peer, request |-> pkt])
  /\ Send(peer, {})
  /\ seen' = [seen EXCEPT ![peer] = Insert(@, pkt.mid,
       [request |-> pkt, age |-> 0, overdue |-> \E q \in Unanswered(peer) : q.mid = pkt.mid])]
  /\ crossed' = IF \E q \in Unanswered(peer) : q.token = pkt.token
                THEN crossed \cup {<<peer, pkt.token>>} ELSE crossed
  /\ UNCHANGED <<running, next_cleanup, clientVars, server_responses, transmissions>>

\* A new message that is no request.  A confirmable one is acknowledged at
\* once and the acknowledgement cached; a response completes the exchange
\* of its token; an empty or a reserved code has no further effect.
RecvNonRequest(peer, pkt) ==
  /\ Selecting
  /\ IsMessage(pkt) /\ pkt.code # "Request"
  /\ \E s \in SessionEntry(peer) :
       /\ ~ is_duplicate(s, pkt.mid)
       /\ LET recorded == record_inbound_mid(s, pkt.mid)
              acked == IF pkt.type = "Confirmable"
                       THEN cache_response_for_mid(recorded, pkt.mid, EmptyAck(pkt.mid))
                       ELSE recorded
          IN  IF pkt.code = "Response"
              THEN /\ SetSession(peer, complete_exchange(acked, pkt.token))
                   /\ caller' = Tell(Completed(acked, pkt.token),
                                     [kind |-> "Response", payload |-> pkt.payload])
              ELSE /\ SetSession(peer, acked)
                   /\ UNCHANGED caller
  /\ Send(peer, IF pkt.type = "Confirmable" THEN {EmptyAck(pkt.mid)} ELSE {})
  /\ UNCHANGED <<running, next_cleanup, outbound_requests, serverVars, historyVars>>

\* An empty ACK stops the retransmission of the exchange it acknowledges;
\* an ACK with a request or reserved code only creates the session.
RecvAck(peer, pkt) ==
  /\ Selecting
  /\ pkt.type = "Acknowledgement" /\ pkt.code # "Response"
  /\ \E s \in SessionEntry(peer) :
       SetSession(peer, IF pkt.code = "Empty" THEN handle_ack(s, pkt.mid, pkt.code) ELSE s)
  /\ Send(peer, {})
  /\ UNCHANGED <<running, next_cleanup, clientVars, serverVars, historyVars>>

\* A piggybacked response completes the exchange found under the ACK's MID;
\* the token in the packet is not looked at.
RecvPiggybacked(peer, pkt) ==
  /\ Selecting
  /\ pkt.type = "Acknowledgement" /\ pkt.code = "Response"
  /\ \E s \in SessionEntry(peer) :
       LET acked  == handle_ack(s, pkt.mid, pkt.code)
           tokens == TokenOf(s, pkt.mid)
       IN  /\ SetSession(peer, RemoveExchanges(acked, tokens))
           /\ caller' = Tell(UNION {Completed(acked, t) : t \in tokens},
                             [kind |-> "Response", payload |-> pkt.payload])
  /\ Send(peer, {})
  /\ UNCHANGED <<running, next_cleanup, outbound_requests, serverVars, historyVars>>

RecvReset(peer, pkt) ==
  /\ Selecting
  /\ pkt.type = "Reset"
  /\ \E s \in SessionEntry(peer) :
       /\ SetSession(peer, handle_rst(s, pkt.mid))
       /\ caller' = Tell(ResetCallers(s, pkt.mid), [kind |-> "Reset"])
  /\ Send(peer, {})
  /\ UNCHANGED <<running, next_cleanup, outbound_requests, serverVars, historyVars>>

RecvPacket(peer, pkt) ==
  \/ RecvDuplicate(peer, pkt)
  \/ RecvRequest(peer, pkt)
  \/ RecvNonRequest(peer, pkt)
  \/ RecvAck(peer, pkt)
  \/ RecvPiggybacked(peer, pkt)
  \/ RecvReset(peer, pkt)
-----------------------------------------------------------------------------
(* Arm 2: an outbound request, taken from the clients' channel. *)

RequestPacket(r, token, mid) ==
  [type |-> IF r \in ConRequests THEN "Confirmable" ELSE "NonConfirmable", code |-> "Request",
   mid |-> mid, token |-> token, payload |-> r]

\* The request is registered before it is handed to the endpoint.
OutboundRequest ==
  /\ Selecting
  /\ outbound_requests # << >>
  /\ LET r    == Head(outbound_requests).request
         peer == Head(outbound_requests).peer
     IN  /\ \E s \in SessionEntry(peer), timeout \in ACK_TIMEOUTS :
              LET token  == s.token_allocator.next
                  mid    == s.mid_allocator.next
                  s1     == allocate_mid(allocate_token(s))
                  packet == RequestPacket(r, token, mid)
              IN  /\ SetSession(peer, IF r \in ConRequests
                       THEN insert_con_exchange(s1, token, mid, new_con(r, mid, packet, timeout))
                       ELSE insert_exchange(s1, token, new_non(r)))
                  /\ caller' = Tell(Dropped(s, token), [kind |-> "ChannelClosed"])
                  /\ Send(peer, {packet})
         /\ transmissions' = [transmissions EXCEPT ![r] = 1]
  /\ outbound_requests' = Tail(outbound_requests)
  /\ UNCHANGED <<running, next_cleanup, serverVars, seen, crossed>>

\* The request cannot be encoded: its token and its MID are spent, and its
\* caller's sender is dropped.
OutboundRequestUnencodable ==
  /\ Selecting
  /\ outbound_requests # << >>
  /\ LET peer == Head(outbound_requests).peer
     IN  \E s \in SessionEntry(peer) : SetSession(peer, allocate_mid(allocate_token(s)))
  /\ caller' = Tell({Head(outbound_requests).request}, [kind |-> "ChannelClosed"])
  /\ outbound_requests' = Tail(outbound_requests)
  /\ sent' = {}
  /\ UNCHANGED <<running, next_cleanup, serverVars, historyVars>>
-----------------------------------------------------------------------------
(* Arm 3: an outbound response.  The handlers' answers are told apart by    *)
(* the request they answer: the payload is that of the request.             *)

ResponsePacket(request, type, mid) ==
  [type |-> type, code |-> "Response", mid |-> mid, token |-> request.token,
   payload |-> request.payload]

\* Piggybacked on the ACK when a confirmable request with this token is
\* pending, and cached for its duplicates; a separate NON otherwise.  A
\* response that cannot be encoded is lost after the MID was taken.
OutboundResponse(encodable) ==
  /\ Selecting
  /\ server_responses # << >>
  /\ LET request == Head(server_responses).request
         peer    == Head(server_responses).peer
     IN  \E s \in SessionEntry(peer) :
           IF request.token \in DOMAIN s.inbound_con_mids
           THEN LET mid    == s.inbound_con_mids[request.token]
                    packet == ResponsePacket(request, "Acknowledgement", mid)
                    taken  == take_inbound_con_mid(s, request.token)
                IN  /\ SetSession(peer, IF encodable
                                        THEN cache_response_for_mid(taken, mid, packet)
                                        ELSE taken)
                    /\ Send(peer, IF encodable THEN {packet} ELSE {})
           ELSE /\ SetSession(peer, allocate_mid(s))
                /\ Send(peer, IF encodable
                     THEN {ResponsePacket(request, "NonConfirmable", s.mid_allocator.next)}
                     ELSE {})
  /\ server_responses' = Tail(server_responses)
  /\ UNCHANGED <<running, next_cleanup, clientVars, server_requests, historyVars>>
-----------------------------------------------------------------------------
(* Arms 4 and 5: the timers. *)

\* Mutant: the housekeeping is forgotten.
TimerWorkNoEviction(s) == collect_retransmissions(s)

\* What the timer does to a session.
TimerWork(s) == evict_stale_dedup(collect_retransmissions(s))

\* Every session: due exchanges are sent again or, out of attempts, failed;
\* expired NON exchanges are failed; stale duplicate entries are evicted.
RetransmissionTimer ==
  /\ Selecting
  /\ \E p \in DOMAIN sessions : 0 \in Deadlines(sessions[p])
  /\ sessions' = [p \in DOMAIN sessions |-> TimerWork(sessions[p])]
  /\ LET failed == UNION {TimedOut(sessions[p]) : p \in DOMAIN sessions}
     IN  caller' = [r \in Requests |->
           IF caller[r] = Waiting /\ \E x \in failed : x.request = r
           THEN [kind |-> "Timeout",
                 retransmits |-> (CHOOSE x \in failed : x.request = r).retransmits]
           ELSE caller[r]]
  /\ sent' = UNION {{[peer |-> p, packet |-> k] : k \in Retransmits(sessions[p])} :
                      p \in DOMAIN sessions}
  /\ transmissions' = [r \in Requests |->
        IF \E p \in DOMAIN sessions : \E t \in ResendTokens(sessions[p]) :
             sessions[p].exchanges[t].response_tx = r
        THEN transmissions[r] + 1 ELSE transmissions[r]]
  /\ UNCHANGED <<running, next_cleanup, outbound_requests, serverVars, seen, crossed>>

CleanupTimer ==
  /\ Selecting
  /\ next_cleanup = 0
  /\ sessions' = Restrict(sessions, {p \in DOMAIN sessions : ~ is_idle(sessions[p])})
  /\ next_cleanup' = IDLE_SESSION_CLEANUP_INTERVAL
  /\ sent' = {}
  /\ UNCHANGED <<running, clientVars, serverVars, historyVars>>

\* The task returns: an interface was dropped, or the endpoint closed.  The
\* sessions, the queued requests and with them every sender are dropped.  A
\* task that waits for the server gets that far only if the server is gone.
StackReturns ==
  /\ running
  /\ running' = FALSE
  /\ sessions' = EmptyMap
  /\ caller' = Tell(Requests, [kind |-> "ChannelClosed"])
  /\ outbound_requests' = << >>
  /\ server_requests' = IF AwaitsServer THEN << >> ELSE server_requests
  /\ server_responses' = << >>
  /\ sent' = {}
  /\ UNCHANGED <<next_cleanup, historyVars>>
-----------------------------------------------------------------------------
(* Around the task. *)

\* ClientInterface::send_request.
SendRequest(r, peer) ==
  /\ caller[r] = Idle
  /\ caller' = [caller EXCEPT ![r] = IF running THEN Waiting ELSE [kind |-> "EndpointClosed"]]
  /\ outbound_requests' = IF running
                          THEN Append(outbound_requests, [request |-> r, peer |-> peer])
                          ELSE outbound_requests
  /\ sent' = {}
  /\ UNCHANGED <<taskVars, serverVars, historyVars>>

\* ClientRequestBuilder::send gives up waiting; the exchange is not told.
ClientTimeout(r) ==
  /\ caller[r] = Waiting
  /\ caller' = [caller EXCEPT ![r] = [kind |-> "ClientTimeout"]]
  /\ sent' = {}
  /\ UNCHANGED <<taskVars, outbound_requests, serverVars, historyVars>>

\* CoapServer::run: one request is handled at a time, in order, and
\* Router::handle always returns a response.
ServerHandle ==
  /\ server_requests # << >>
  /\ Len(server_responses) < MaxServerQueue
  /\ server_requests' = Tail(server_requests)
  /\ server_responses' = IF running THEN Append(server_responses, Head(server_requests))
                         ELSE server_responses
  /\ sent' = {}
  /\ UNCHANGED <<taskVars, clientVars, historyVars>>

\* One tick of the clock.
Tick ==
  /\ running
  /\ sessions' = [p \in DOMAIN sessions |-> AgeSession(sessions[p])]
  /\ next_cleanup' = TickDown(next_cleanup)
  /\ seen' = [p \in Peers |->
       [m \in {m \in DOMAIN seen[p] : seen[p][m].age + 1 < EXCHANGE_LIFETIME} |->
          [seen[p][m] EXCEPT !.age = @ + 1]]]
  /\ sent' = {}
  /\ UNCHANGED <<running, clientVars, serverVars, transmissions, crossed>>

Next ==
  \/ \E p \in Peers, pkt \in InboundPackets : RecvPacket(p, pkt)
  \/ OutboundRequest
  \/ OutboundRequestUnencodable
  \/ \E ok \in BOOLEAN : OutboundResponse(ok)
  \/ RetransmissionTimer
  \/ CleanupTimer
  \/ StackReturns
  \/ \E r \in Requests, p \in Peers : SendRequest(r, p)
  \/ \E r \in Requests : ClientTimeout(r)
  \/ ServerHandle
  \/ Tick

Spec == Init /\ [][Next]_vars

\* tokio::select! picks at random among the arms that are ready, so one that is
\* ready again and again is taken in the end, although the task may wait for
\* the server in between; the endpoint takes the packets it is handed, and the
\* clock does not stop.  Nothing is assumed of peers, callers or the server.
FairSpec ==
  /\ Spec
  /\ SF_vars(OutboundRequest \/ OutboundRequestUnencodable)
  /\ SF_vars(\E ok \in BOOLEAN : OutboundResponse(ok))
  /\ SF_vars(RetransmissionTimer)
  /\ SF_vars(CleanupTimer)
  /\ WF_vars(Tick)
-----------------------------------------------------------------------------
(* Properties of the client side. *)

\* Every value of the counter has been handed out at most once.
TokensFresh(s) == s.token_allocator.allocated <= TOKEN_MODULUS
MidsFresh(s) == s.mid_allocator.allocated <= MID_MODULUS

\* Every entry of the MID index leads to an open exchange sent under that MID
\* that is still being retransmitted.
IndexSound(s) ==
  \A m \in DOMAIN s.mid_to_token :
    LET t == s.mid_to_token[m]
    IN  /\ t \in DOMAIN s.exchanges
        /\ s.exchanges[t].message_id = m
        /\ s.exchanges[t].retransmit # None

\* As long as no token of the session was handed out twice, its MID index is
\* sound: whatever removes, acknowledges or resets an exchange also takes its
\* MID entry away (session.rs, every method on the index), so an ACK or RST is
\* applied to an open, unacknowledged exchange sent under the MID it names, or
\* to none.  Of two exchanges sent under one MID it is the later one, and an
\* ACK of the earlier one is not told from its own.
MidIndexSound ==
  \A p \in DOMAIN sessions : TokensFresh(sessions[p]) => IndexSound(sessions[p])

\* How many allocations ago token t was handed out when n comes next.
Distance(t, n) == IF t < n THEN n - t ELSE n - t + TOKEN_MODULUS

\* The inductive form of MidIndexSound: the open exchanges have tokens of the
\* allocations made so far, so that a new token is none of theirs.
SessionInv(s) ==
  TokensFresh(s) =>
    /\ IndexSound(s)
    /\ \A t \in DOMAIN s.exchanges :
         Distance(t, s.token_allocator.next) <= s.token_allocator.allocated
IndexInv == \A p \in DOMAIN sessions : SessionInv(sessions[p])

\* Every exchange that is still being retransmitted can be found under its MID.
FoundByMid(s) ==
  \A t \in DOMAIN s.exchanges :
    s.exchanges[t].retransmit # None =>
      /\ s.exchanges[t].message_id \in DOMAIN s.mid_to_token
      /\ s.mid_to_token[s.exchanges[t].message_id] = t

\* As long as no MID of the session was handed out twice, an exchange that is
\* still being retransmitted can be found under its MID, so that an ACK or an
\* RST of the peer stops the retransmission (stack.rs, arms 1 and 4).
RetransmittingIsIndexed ==
  \A p \in DOMAIN sessions : MidsFresh(sessions[p]) => FoundByMid(sessions[p])

\* What insert_con_exchange promises ("both token and MID lookup",
\* session.rs:76) with the 16-bit MID counter left to wrap.
ConAlwaysFoundByMid ==
  \A p \in DOMAIN sessions : TokensFresh(sessions[p]) => FoundByMid(sessions[p])

\* The places that hold the oneshot sender of request r: positions of the
\* clients' channel and open exchanges.
QueuedAt(r) == {i \in DOMAIN outbound_requests : outbound_requests[i].request = r}
HeldBy(r) ==
  {x \in Peers \X Tokens :
     /\ x[1] \in DOMAIN sessions
     /\ x[2] \in DOMAIN sessions[x[1]].exchanges
     /\ sessions[x[1]].exchanges[x[2]].response_tx = r}

\* A caller that waits is waited for: its sender sits in the channel or in
\* one open exchange, and never in two places, so no response, reset,
\* timeout, token reuse or cleanup leaves a caller behind without an answer.
WaitingCallerIsHeld ==
  \A r \in Requests :
    /\ caller[r] = Waiting => QueuedAt(r) # {} \/ HeldBy(r) # {}
    /\ \A x, y \in HeldBy(r) : x = y
    /\ QueuedAt(r) = {} \/ HeldBy(r) = {}

\* A caller told "timed out after n retransmissions" had its request put on
\* the wire n + 1 times: 1 + MAX_RETRANSMIT times for a confirmable one, once
\* for the others (session.rs collect_retransmissions, transport/mod.rs:28).
TimeoutReportsRetransmissions ==
  \A r \in Requests : caller[r].kind = "Timeout" =>
    /\ caller[r].retransmits = IF r \in ConRequests THEN MAX_RETRANSMIT ELSE 0
    /\ transmissions[r] = caller[r].retransmits + 1

\* An open exchange of request r that no timer will ever end.
Untimed(r) ==
  \E x \in HeldBy(r) : LET e == sessions[x[1]].exchanges[x[2]]
                       IN  e.retransmit = None /\ e.expires_at = None

\* A caller gets an answer in the end, an error if nothing else, unless the
\* peer acknowledged its request with an empty ACK, or the server never takes
\* the request for which the stack's task waits (stack.rs:181, arms 2 and 4).
WaitingCallerIsTold ==
  \A r \in Requests :
    caller[r] = Waiting ~> caller[r] # Waiting \/ Untimed(r) \/ []AwaitsServer

\* "The exchange should eventually time out" (stack.rs:736, of a peer that is
\* silent): an exchange does not stay in its session for ever when the peer
\* never responds, as long as the task serves its timers again and again.
EveryExchangeEnds ==
  \A r \in Requests : HeldBy(r) # {} ~> HeldBy(r) = {} \/ []AwaitsServer
-----------------------------------------------------------------------------
(* Properties of the server side. *)

\* A request is handed to the server at most once per EXCHANGE_LIFETIME and
\* MID, whatever is evicted, cleaned up or repeated in between (stack.rs,
\* duplicate check; session.rs is_idle and evict_stale_dedup).
AtMostOnceDispatch ==
  [][Len(server_requests') > Len(server_requests) =>
       LET x == server_requests'[Len(server_requests')]
       IN  x.request.mid \notin DOMAIN seen[x.peer]]_vars

\* What is cached for MID m of peer p acknowledges m and, when the request
\* dispatched last under m is still in the history and not excused, answers it.
CachedAnswers(p, m, excused) ==
  LET cached == sessions[p].inbound_dedup[m].cached_response
  IN  cached # None =>
        /\ cached.type = "Acknowledgement"
        /\ cached.mid = m
        /\ m \in DOMAIN seen[p] /\ <<p, seen[p][m].request.token>> \notin crossed /\ ~ excused =>
             cached = ResponsePacket(seen[p][m].request, "Acknowledgement", m)

\* A duplicate CON is given the answer of the original (stack.rs:136-147,
\* 284-287), whatever was evicted and cleaned up, unless the peer reused the
\* token of a request that was not answered yet, or the server took so long
\* for an earlier request that its entry was evicted and its MID used again.
CachedResponseAnswersRequest ==
  \A p \in DOMAIN sessions : \A m \in DOMAIN sessions[p].inbound_dedup :
    CachedAnswers(p, m, m \in DOMAIN seen[p] /\ seen[p][m].overdue)

\* "Get cached response for a duplicate CON" (session.rs:154) for a server as
\* slow as it likes: the same without the last exception.
DuplicatesGetTheirAnswer ==
  \A p \in DOMAIN sessions : \A m \in DOMAIN sessions[p].inbound_dedup :
    CachedAnswers(p, m, FALSE)

\* What the step that takes the answer to request q of a peer from the
\* server's channel puts on the wire, when it is as it should be.
AnswersAsAsked(q, packets) ==
  \A x \in packets :
    /\ x.peer = q.peer
    /\ IF q.request.type = "Confirmable"
       THEN x.packet = ResponsePacket(q.request, "Acknowledgement", q.request.mid)
       ELSE x.packet.type = "NonConfirmable"

AnswerTaken ==
  running' /\ server_responses # << >> /\ server_responses' = Tail(server_responses)

\* The answer to a confirmable request is piggybacked on the ACK of that very
\* request, and any other is a NON message, as long as the peer uses a token
\* again only after its answer; MIDs it may use again before
\* (session.rs:166-168, stack.rs:270-288).
ResponseAnswersRequest ==
  [][AnswerTaken =>
       LET q == Head(server_responses)
       IN  <<q.peer, q.request.token>> \notin crossed => AnswersAsAsked(q, sent')]_vars

\* "Returns Some(mid) if the request was CON (piggyback the response), or None
\* if it was NON (send separate response)" (session.rs:167-168), unqualified.
EveryResponseAnswersItsRequest ==
  [][AnswerTaken => AnswersAsAsked(Head(server_responses), sent')]_vars

\* The inductive form of AtMostOnceDispatch: what was dispatched within the
\* last EXCHANGE_LIFETIME is in the duplicate table, with its age.
SeenInv ==
  running => \A p \in Peers : \A m \in DOMAIN seen[p] :
    /\ p \in DOMAIN sessions
    /\ m \in DOMAIN sessions[p].inbound_dedup
    /\ sessions[p].inbound_dedup[m].age = seen[p][m].age
    /\ seen[p][m].age < EXCHANGE_LIFETIME

Stale(p, m) ==
  /\ p \in DOMAIN sessions
  /\ m \in DOMAIN sessions[p].inbound_dedup
  /\ sessions[p].inbound_dedup[m].age = EXCHANGE_LIFETIME

\* An open exchange of request r that the retransmission timer waits for.
Timed(r) ==
  \E x \in HeldBy(r) : deadline(sessions[x[1]].exchanges[x[2]]) # None

\* An entry of the duplicate table that has outlived EXCHANGE_LIFETIME goes
\* ("Evict expired entries from the dedup table", session.rs:203) while an
\* exchange is open and timed, unless the task waits for the server for ever:
\* it is the retransmission timer that evicts (stack.rs:299-313).  An exchange
\* that its peer answers or acknowledges gives no such warrant (the peer of the
\* run sends no answers but empty ACKs), and with no exchange open nothing is
\* evicted at all, as EndToEnd shows (ResponseIsToRequest).
StaleEntriesEvictedWithTimer ==
  \A p \in Peers, m \in MIDs, r \in Requests :
    Stale(p, m) /\ Timed(r) ~> ~ Stale(p, m) \/ Untimed(r) \/ []AwaitsServer
=============================================================================
