------------------------------ MODULE EndToEnd ------------------------------
(***************************************************************************)
(* Two stacks that talk to each other over a network: C, whose callers     *)
(* ask, and S, whose server answers and asks nothing itself, so that no    *)
(* timer of its exchanges is ever due.  Each is an instance of CoapStack;  *)
(* the packets a stack hands to its endpoint are put on the network, and   *)
(* what it receives comes from there.  Neither stack is shut down.         *)
(*                                                                         *)
(* The network keeps a packet for up to MAX_LATENCY ticks and gives it to  *)
(* its destination as often as it likes in that time, or never: packets    *)
(* are lost, delayed, duplicated and reordered.  The two clocks run at one *)
(* speed and no timer fires late, as RFC 7252 assumes when it derives      *)
(* EXCHANGE_LIFETIME from the other transmission parameters.               *)
(***************************************************************************)
EXTENDS PeerSession, Sequences

CONSTANTS
  Client, Server,    \* the two addresses
  ConRequests,       \* the requests that are confirmable
  MaxQueue,          \* bound on the requests and responses queued for a server
  MAX_LATENCY

ASSUME RequestsAssumption == Requests \subseteq Payloads /\ ConRequests \subseteq Requests
ASSUME HostsAssumption == Client # Server
ASSUME LatencyAssumption == MAX_LATENCY \in Nat
ASSUME LifetimeAssumption ==
  \A t \in ACK_TIMEOUTS : EXCHANGE_LIFETIME > (2^MAX_RETRANSMIT - 1) * t + MAX_LATENCY

VARIABLES
  c_running, c_sessions, c_next_cleanup, c_caller, c_outbound_requests, c_server_requests,
  c_server_responses, c_sent, c_transmissions, c_seen, c_crossed,
  s_running, s_sessions, s_next_cleanup, s_caller, s_outbound_requests, s_server_requests,
  s_server_responses, s_sent, s_transmissions, s_seen, s_crossed,
  network,           \* per destination and packet under way, the ticks it has left
  executions         \* history: per request, how often a handler was called for it

C == INSTANCE CoapStack WITH
  Peers <- {Server}, InboundPackets <- Packets, MaxServerQueue <- MaxQueue,
  running <- c_running, sessions <- c_sessions, next_cleanup <- c_next_cleanup,
  caller <- c_caller, outbound_requests <- c_outbound_requests,
  server_requests <- c_server_requests, server_responses <- c_server_responses,
  sent <- c_sent, transmissions <- c_transmissions, seen <- c_seen, crossed <- c_crossed

S == INSTANCE CoapStack WITH
  Peers <- {Client}, InboundPackets <- Packets, MaxServerQueue <- MaxQueue,
  running <- s_running, sessions <- s_sessions, next_cleanup <- s_next_cleanup,
  caller <- s_caller, outbound_requests <- s_outbound_requests,
  server_requests <- s_server_requests, server_responses <- s_server_responses,
  sent <- s_sent, transmissions <- s_transmissions, seen <- s_seen, crossed <- s_crossed

cVars == <<c_running, c_sessions, c_next_cleanup, c_caller, c_outbound_requests,
           c_server_requests, c_server_responses, c_sent, c_transmissions, c_seen, c_crossed>>
sVars == <<s_running, s_sessions, s_next_cleanup, s_caller, s_outbound_requests,
           s_server_requests, s_server_responses, s_sent, s_transmissions, s_seen, s_crossed>>
vars == <<cVars, sVars, network, executions>>

\* Every variable has its type.
TypeOK ==
  /\ C!TypeOK /\ S!TypeOK
  /\ IsMap(network, {Client, Server} \X Packets, 0 .. MAX_LATENCY)
  /\ executions \in [Requests -> Nat]

Init ==
  /\ C!Init /\ S!Init
  /\ network = EmptyMap
  /\ executions = [r \in Requests |-> 0]
-----------------------------------------------------------------------------
(* The network. *)

\* The packets that were handed over are under way to the host.
Post(host, packets) ==
  [k \in DOMAIN network \cup {<<host, x.packet>> : x \in packets} |->
     IF \E x \in packets : k = <<host, x.packet>> THEN MAX_LATENCY ELSE network[k]]

UnderWay(host) == {k[2] : k \in {k \in DOMAIN network : k[1] = host}}

\* A tick of the network: packets that had their last one are lost.
AgeNetwork ==
  [k \in {k \in DOMAIN network : network[k] > 0} |-> network[k] - 1]

\* The MIDs and the tokens of earlier messages that something, anywhere, still
\* goes by: the exchanges the client has open, the server's duplicate table
\* (with or without the entries that have outlived EXCHANGE_LIFETIME), the
\* messages under way and the requests that wait for their answer.
Remembered(stale) ==
  LET open   == UNION {Range(c_sessions[p].exchanges) : p \in DOMAIN c_sessions}
      kept   == UNION {{m \in DOMAIN s_sessions[p].inbound_dedup :
                          stale \/ s_sessions[p].inbound_dedup[m].age < EXCHANGE_LIFETIME} :
                       p \in DOMAIN s_sessions}
      queued == {x.request : x \in Range(s_server_requests) \cup Range(s_server_responses)}
      known  == UnderWay(Client) \cup UnderWay(Server) \cup queued
  IN  [mids   |-> {e.message_id : e \in open} \cup kept \cup {k.mid : k \in known},
       tokens |-> {k.token : k \in known}]

\* What the client sends in this step uses nothing that is remembered.
NothingReused(stale) ==
  LET memory == Remembered(stale)
  IN  \A x \in c_sent' : x.packet.mid \notin memory.mids /\ x.packet.token \notin memory.tokens
-----------------------------------------------------------------------------
(* The client's stack takes a step, or its callers do. *)

Quiet == UNCHANGED <<network, executions>>
CSends == network' = Post(Server, c_sent') /\ UNCHANGED executions
SSends == network' = Post(Client, s_sent') /\ UNCHANGED executions

CReceives ==
  /\ \E k \in UnderWay(Client) : C!RecvPacket(Server, k)
  /\ CSends /\ UNCHANGED sVars
CAsks ==
  /\ C!OutboundRequest
  /\ CSends /\ UNCHANGED sVars
CTimer == C!RetransmissionTimer /\ CSends /\ UNCHANGED sVars
CCleanup == C!CleanupTimer /\ Quiet /\ UNCHANGED sVars
CCaller ==
  /\ \/ \E r \in Requests : C!SendRequest(r, Server) \/ C!ClientTimeout(r)
     \/ C!OutboundRequestUnencodable
  /\ Quiet /\ UNCHANGED sVars

-----------------------------------------------------------------------------
(* The server's stack takes a step, or its server does. *)

SReceives ==
  /\ \E k \in UnderWay(Server) : S!RecvPacket(Client, k)
  /\ SSends /\ UNCHANGED cVars
SResponds ==
  /\ \E ok \in BOOLEAN : S!OutboundResponse(ok)
  /\ SSends /\ UNCHANGED cVars
SCleanup == S!CleanupTimer /\ Quiet /\ UNCHANGED cVars

\* A handler is called for the request at the head of the server's channel.
SHandles ==
  /\ S!ServerHandle
  /\ executions' = [executions EXCEPT ![Head(s_server_requests).request.payload] = @ + 1]
  /\ UNCHANGED <<network, cVars>>
-----------------------------------------------------------------------------
NoTimerDue(sessions, next_cleanup) ==
  /\ \A p \in DOMAIN sessions : 0 \notin Deadlines(sessions[p])
  /\ next_cleanup > 0

\* Time passes when no timer is due, or when the stack that would serve it waits
\* for its server.
Tick ==
  /\ NoTimerDue(c_sessions, c_next_cleanup)
  /\ S!AwaitsServer \/ NoTimerDue(s_sessions, s_next_cleanup)
  /\ C!Tick /\ S!Tick
  /\ network' = AgeNetwork
  /\ UNCHANGED executions

NextButAsk ==
  \/ CReceives \/ CTimer \/ CCleanup \/ CCaller
  \/ SReceives \/ SResponds \/ SCleanup \/ SHandles
  \/ Tick

Next == CAsks \/ NextButAsk

Spec == Init /\ [][Next]_vars

\* The behaviours in which no request is sent under a MID or a token that is
\* still remembered.  The code does not see to that: its counters wrap, those of
\* a session that was cleaned up start anew at random values (reliability.rs:34,
\* stack.rs:317), and a stack that sends no requests never evicts (stack.rs:106).
CarefulNext == (CAsks /\ NothingReused(TRUE)) \/ NextButAsk
CarefulSpec == Init /\ [][CarefulNext]_vars

\* The same by the rule of RFC 7252 alone, by which a MID may be used again
\* after EXCHANGE_LIFETIME, whatever the server still keeps of it.
LawfulNext == (CAsks /\ NothingReused(FALSE)) \/ NextButAsk
LawfulSpec == Init /\ [][LawfulNext]_vars
-----------------------------------------------------------------------------
(* Properties. *)

\* The promise of RequestResponse, with the caller's results and the calls of
\* handlers for its variables.
Promise == INSTANCE RequestResponse WITH
  Errors <- {x \in C!Results : x.kind # "Response"}, outcome <- c_caller

\* Whatever the network does, a request is executed at most once and answered
\* with the response to it or with an error (client.rs:127 "sends the request,
\* and awaits the response"; handler.rs:14-15 "for every deduplicated CON/NON
\* request"), in the behaviours of CarefulSpec, a condition on the MIDs and
\* tokens that the code itself does not ensure.
KeepsPromise == Promise!Spec

\* A response that a caller gets is the one to its request, in the behaviours
\* of LawfulSpec, where the client keeps to the rule of RFC 7252 that a MID is
\* not used again within EXCHANGE_LIFETIME (reliability.rs:10, :33).
ResponseIsToRequest ==
  \A r \in Requests : c_caller[r].kind = "Response" => c_caller[r].payload = r

\* No caller is left waiting on an exchange that no timer ends: this library's
\* server never puts off its response with an empty ACK, not even when it is
\* asked again before the handler has answered (stack.rs, arms 1 and 3).
EveryWaitIsTimed == \A r \in Requests : ~ C!Untimed(r)
=============================================================================
