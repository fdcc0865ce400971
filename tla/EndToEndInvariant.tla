------------------------- MODULE EndToEndInvariant -------------------------
(***************************************************************************)
(* What holds of the two stacks and the network in every state of EndToEnd *)
(* and makes them keep their promise: the inductive invariant.             *)
(***************************************************************************)
EXTENDS EndToEnd

\* The one session of either stack, by the maps that matter; a session that
\* has not been made yet, or not again, has empty ones.
Open ==
  IF Server \in DOMAIN c_sessions THEN c_sessions[Server].exchanges ELSE EmptyMap
Index ==
  IF Server \in DOMAIN c_sessions THEN c_sessions[Server].mid_to_token ELSE EmptyMap
Table ==
  IF Client \in DOMAIN s_sessions THEN s_sessions[Client].inbound_dedup ELSE EmptyMap
Owed ==
  IF Client \in DOMAIN s_sessions THEN s_sessions[Client].inbound_con_mids ELSE EmptyMap

\* The request packets there are: under way, with the server, or kept by an
\* open exchange to be sent again.
Queued == {x.request : x \in Range(s_server_requests) \cup Range(s_server_responses)}
Repeated ==
  {Open[t].retransmit.packet_bytes : t \in {t \in DOMAIN Open : Open[t].retransmit # None}}
Asked == UnderWay(Server) \cup Queued \cup Repeated

IsAsk(k) == k.payload \in Requests /\ k = C!RequestPacket(k.payload, k.token, k.mid)
IsAnswer(k) ==
  k.type \in {"Acknowledgement", "NonConfirmable"} /\ k.code = "Response" /\ k.payload \in Requests

\* The stacks run, and send each other nothing but requests and responses.
MessagesInv ==
  /\ c_running /\ s_running
  /\ \A k \in UnderWay(Server) \cup Queued : IsAsk(k)
  /\ \A k \in UnderWay(Client) : IsAnswer(k)
  /\ \A m \in DOMAIN Table :
       LET k == Table[m].cached_response
       IN  k # None => IsAnswer(k) /\ k.type = "Acknowledgement" /\ k.mid = m

\* An open exchange is on some timer, and what it sends again is its request.
ExchangesInv ==
  \A t \in DOMAIN Open :
    /\ Open[t].retransmit = None => Open[t].expires_at # None
    /\ Open[t].retransmit # None =>
         Open[t].retransmit.packet_bytes =
           C!RequestPacket(Open[t].response_tx, t, Open[t].message_id)

\* A request, its token and its MID belong together.
UniqueInv ==
  \A x, y \in Asked : x.payload = y.payload \/ x.token = y.token \/ x.mid = y.mid => x = y

\* The client finds the right exchange, under the token and under the MID.
TokenInv ==
  \A k \in UnderWay(Server) \cup Queued \cup UnderWay(Client) :
    k.token \in DOMAIN Open => Open[k.token].response_tx = k.payload
MidInv ==
  \A k \in Asked \cup UnderWay(Client) :
    k.type # "NonConfirmable" /\ k.mid \in DOMAIN Index => Index[k.mid] = k.token

\* The server finds the right MID to acknowledge, and the right answer to a
\* duplicate.
OwedInv ==
  /\ \A k \in Queued : k.token \in DOMAIN Owed => Owed[k.token] = k.mid
  /\ \A t \in DOMAIN Owed : \E k \in Queued : k.token = t /\ k.type = "Confirmable"
CachedInv ==
  \A k \in Asked : k.mid \in DOMAIN Table =>
    LET a == Table[k.mid].cached_response
    IN  a # None => a.token = k.token /\ a.payload = k.payload

\* A request is executed when it goes from the one queue to the other; then
\* it is in the duplicate table, and only then is there an answer to it.
ExecutionsInv ==
  /\ \A k \in Queued : k.mid \in DOMAIN Table
  /\ \A k \in Asked : executions[k.payload] # 0 => k.mid \in DOMAIN Table
  /\ \A x \in Range(s_server_requests) : executions[x.request.payload] = 0
  /\ \A x \in Range(s_server_responses) : executions[x.request.payload] = 1
  /\ \A k \in UnderWay(Client) : executions[k.payload] = 1
  /\ \A m \in DOMAIN Table :
       LET a == Table[m].cached_response IN a # None => executions[a.payload] = 1
  /\ \A i, j \in DOMAIN s_server_requests :
       s_server_requests[i].request.payload = s_server_requests[j].request.payload => i = j

\* A request that the stack has not taken yet has left no trace.
StageInv ==
  /\ \A r \in Requests :
       c_caller[r] = C!Idle \/ (\E x \in Range(c_outbound_requests) : x.request = r) =>
         executions[r] = 0 /\ \A k \in Asked : k.payload # r
  /\ \A x \in Range(c_outbound_requests) : c_caller[x.request] # C!Idle
  /\ \A i, j \in DOMAIN c_outbound_requests :
       c_outbound_requests[i].request = c_outbound_requests[j].request => i = j

ConversationInv ==
  /\ MessagesInv /\ ExchangesInv
  /\ UniqueInv /\ TokenInv /\ MidInv
  /\ OwedInv /\ CachedInv
  /\ ExecutionsInv /\ StageInv
=============================================================================
