-------------------------- MODULE CoapStackProofs --------------------------
(***************************************************************************)
(* Theorems about CoapStack for every value of its constants: its types,   *)
(* and the MID index of every session: each entry leads to an open, still  *)
(* retransmitted exchange sent under its MID, and each such exchange has   *)
(* its entry.                                                              *)
(***************************************************************************)
EXTENDS CoapStack, PeerSessionProofs, SequenceTheorems

-----------------------------------------------------------------------------
(* Type correctness of the stack.                                          *)

\* The whole work of the retransmission timer on one session.
LEMMA TimerWorkType ==
  ASSUME NEW s, IsSession(s)
  PROVE  IsSession(TimerWork(s))
  BY AdvanceDueType, RemoveExchangesType, EvictStaleDedupType
  DEF TimerWork, collect_retransmissions

\* The session an arm starts from is well typed, new or not.
LEMMA SessionEntryType ==
  ASSUME SessionsOK, NEW p \in Peers, NEW s \in SessionEntry(p)
  PROVE  IsSession(s)
  BY NewSessionType DEF SessionsOK, SessionEntry

\* Storing a well-typed session keeps the table well typed.
LEMMA SetSessionType ==
  ASSUME SessionsOK, NEW p \in Peers, NEW s, IsSession(s), SetSession(p, s)
  PROVE  SessionsOK'
  BY DEF SessionsOK, SetSession, Insert, IsMap, Range

\* Telling callers a result leaves every caller in a proper state.
LEMMA TellType ==
  ASSUME caller \in [Requests -> Results \cup {Idle, Waiting}], NEW C, NEW x \in Results
  PROVE  Tell(C, x) \in [Requests -> Results \cup {Idle, Waiting}]
  BY DEF Tell

LEMMA EmptyAckType == \A mid \in MIDs : EmptyAck(mid) \in Packets
  BY DEF EmptyAck, Packets, MessageTypes, MessageClasses

LEMMA RetransmitCountType == \A e \in Exchanges : retransmit_count(e) \in 0 .. MAX_RETRANSMIT
  BY TimingAssumption DEF retransmit_count, Exchanges, RetransmitStates

LEMMA InboundType ==
  ASSUME NEW pkt \in InboundPackets
  PROVE  /\ pkt \in Packets
         /\ pkt.mid \in MIDs
         /\ pkt.token \in Tokens \cup {None}
         /\ pkt.payload \in Payloads \cup {None}
  BY PacketsAssumption DEF Packets

LEMMA InitType == Init => TypeOK
  BY EmptyMapType, TimingAssumption
  DEF Init, TypeOK, SessionsOK, SeenOK, IsMap, EmptyMap, Range, ServerMessages

\* An arm that takes a packet from the network.
LEMMA RecvPacketType ==
  ASSUME TypeOK, NEW p \in Peers, NEW pkt \in InboundPackets, RecvPacket(p, pkt)
  PROVE  TypeOK'
  <1> USE DEF TypeOK
  <1>0. /\ pkt \in Packets
        /\ pkt.mid \in MIDs
        /\ pkt.token \in Tokens \cup {None}
        /\ pkt.payload \in Payloads \cup {None}
    BY InboundType
  <1>1. CASE RecvDuplicate(p, pkt)
    <2>1. sent' \in SUBSET [peer : Peers, packet : Packets]
      <3>1. IsSession(sessions[p])
        BY <1>1 DEF RecvDuplicate, SessionsOK
      <3>2. get_cached_response(sessions[p], pkt.mid) \subseteq Packets
        <4>1. \A m \in DOMAIN sessions[p].inbound_dedup :
                sessions[p].inbound_dedup[m].cached_response \in Packets \cup {None}
          BY <3>1 DEF IsSession, IsMap, DedupEntries
        <4> QED
          BY <4>1 DEF get_cached_response
      <3> QED
        BY <1>1, <3>2 DEF RecvDuplicate, Send
    <2> QED
      BY <1>1, <2>1 DEF RecvDuplicate, taskVars, clientVars, serverVars, historyVars,
                        SessionsOK, SeenOK
  <1>2. CASE RecvRequest(p, pkt)
    <2>1. SessionsOK'
      <3>1. PICK s \in SessionEntry(p) : SetSession(p, RecordRequest(s, pkt))
        BY <1>2 DEF RecvRequest
      <3>2. IsSession(RecordRequest(s, pkt))
        BY <1>0, SessionEntryType, RecordInboundMidType, RecordInboundConType DEF RecordRequest
      <3> QED
        BY <3>1, <3>2, SetSessionType
    <2>2. server_requests' \in Seq(ServerMessages)
      BY <1>2, AppendProperties DEF RecvRequest, ServerMessages
    <2>3. SeenOK'
      <3> DEFINE x == [request |-> pkt, age |-> 0,
                       overdue |-> \E q \in Unanswered(p) : q.mid = pkt.mid]
      <3>1. x \in SeenEntries
        BY TimingAssumption DEF SeenEntries
      <3>2. seen' = [seen EXCEPT ![p] = Insert(@, pkt.mid, x)]
        BY <1>2 DEF RecvRequest
      <3> HIDE DEF x
      <3>3. IsMap(seen[p], MIDs, SeenEntries)
        BY DEF SeenOK
      <3>4. IsMap(Insert(seen[p], pkt.mid, x), MIDs, SeenEntries)
        BY <1>0, <3>1, <3>3, InsertType
      <3> QED
        BY <3>2, <3>4 DEF SeenOK
    <2>4. sent' \in SUBSET [peer : Peers, packet : Packets]
      BY <1>2 DEF RecvRequest, Send
    <2>5. crossed' \subseteq Peers \X (Tokens \cup {None})
      BY <1>0, <1>2 DEF RecvRequest
    <2> QED
      BY <1>2, <2>1, <2>2, <2>3, <2>4, <2>5 DEF RecvRequest, clientVars
  <1>3. CASE RecvNonRequest(p, pkt)
    <2>1. PICK s \in SessionEntry(p) :
            LET recorded == record_inbound_mid(s, pkt.mid)
                acked == IF pkt.type = "Confirmable"
                         THEN cache_response_for_mid(recorded, pkt.mid, EmptyAck(pkt.mid))
                         ELSE recorded
            IN  IF pkt.code = "Response"
                THEN /\ SetSession(p, complete_exchange(acked, pkt.token))
                     /\ caller' = Tell(Completed(acked, pkt.token),
                                       [kind |-> "Response", payload |-> pkt.payload])
                ELSE /\ SetSession(p, acked)
                     /\ UNCHANGED caller
      BY <1>3 DEF RecvNonRequest
    <2> DEFINE recorded == record_inbound_mid(s, pkt.mid)
               acked == IF pkt.type = "Confirmable"
                        THEN cache_response_for_mid(recorded, pkt.mid, EmptyAck(pkt.mid))
                        ELSE recorded
    <2>2. IsSession(acked)
      BY <1>0, SessionEntryType, RecordInboundMidType, CacheResponseType, EmptyAckType
    <2>3. IsSession(complete_exchange(acked, pkt.token))
      BY <2>2, RemoveExchangesType DEF complete_exchange
    <2> HIDE DEF acked
    <2>4. SessionsOK'
      BY <2>1, <2>2, <2>3, SetSessionType DEF acked
    <2>5. caller' \in [Requests -> Results \cup {Idle, Waiting}]
      BY <1>0, <2>1, TellType DEF Results, acked
    <2>6. sent' \in SUBSET [peer : Peers, packet : Packets]
      BY <1>0, <1>3, EmptyAckType DEF RecvNonRequest, Send
    <2> QED
      BY <1>3, <2>4, <2>5, <2>6 DEF RecvNonRequest, serverVars, historyVars, SeenOK
  <1>4. CASE RecvAck(p, pkt)
    <2>1. SessionsOK'
      <3>1. PICK s \in SessionEntry(p) :
              SetSession(p, IF pkt.code = "Empty" THEN handle_ack(s, pkt.mid, pkt.code) ELSE s)
        BY <1>4 DEF RecvAck
      <3> QED
        BY <3>1, SessionEntryType, HandleAckType, SetSessionType
    <2> QED
      BY <1>4, <2>1 DEF RecvAck, Send, clientVars, serverVars, historyVars, SeenOK
  <1>5. CASE RecvPiggybacked(p, pkt)
    <2>1. PICK s \in SessionEntry(p) :
            LET acked  == handle_ack(s, pkt.mid, pkt.code)
                tokens == TokenOf(s, pkt.mid)
            IN  /\ SetSession(p, RemoveExchanges(acked, tokens))
                /\ caller' = Tell(UNION {Completed(acked, t) : t \in tokens},
                                  [kind |-> "Response", payload |-> pkt.payload])
      BY <1>5 DEF RecvPiggybacked
    <2>2. IsSession(RemoveExchanges(handle_ack(s, pkt.mid, pkt.code), TokenOf(s, pkt.mid)))
      BY SessionEntryType, HandleAckType, RemoveExchangesType
    <2>3. SessionsOK'
      BY <2>1, <2>2, SetSessionType
    <2>4. caller' \in [Requests -> Results \cup {Idle, Waiting}]
      BY <1>0, <2>1, TellType DEF Results
    <2> QED
      BY <1>5, <2>3, <2>4 DEF RecvPiggybacked, Send, serverVars, historyVars, SeenOK
  <1>6. CASE RecvReset(p, pkt)
    <2>1. PICK s \in SessionEntry(p) :
            /\ SetSession(p, handle_rst(s, pkt.mid))
            /\ caller' = Tell(ResetCallers(s, pkt.mid), [kind |-> "Reset"])
      BY <1>6 DEF RecvReset
    <2>2. SessionsOK'
      BY <2>1, SessionEntryType, HandleRstType, SetSessionType
    <2>3. caller' \in [Requests -> Results \cup {Idle, Waiting}]
      BY <2>1, TellType DEF Results
    <2> QED
      BY <1>6, <2>2, <2>3 DEF RecvReset, Send, serverVars, historyVars, SeenOK
  <1> QED
    BY <1>1, <1>2, <1>3, <1>4, <1>5, <1>6 DEF RecvPacket

\* The arm that takes a request from the clients' channel.
LEMMA OutboundRequestType ==
  ASSUME TypeOK, OutboundRequest
  PROVE  TypeOK'
  <1> USE DEF TypeOK
  <1> DEFINE r == Head(outbound_requests).request
             p == Head(outbound_requests).peer
  <1>1. /\ Head(outbound_requests) \in [request : Requests, peer : Peers]
        /\ Tail(outbound_requests) \in Seq([request : Requests, peer : Peers])
    BY HeadTailProperties DEF OutboundRequest
  <1>2. r \in Requests /\ p \in Peers
    BY <1>1
  <1> HIDE DEF r, p
  <1>3. PICK s \in SessionEntry(p), timeout \in ACK_TIMEOUTS :
          LET token  == s.token_allocator.next
              mid    == s.mid_allocator.next
              s1     == allocate_mid(allocate_token(s))
              packet == RequestPacket(r, token, mid)
          IN  /\ SetSession(p, IF r \in ConRequests
                   THEN insert_con_exchange(s1, token, mid, new_con(r, mid, packet, timeout))
                   ELSE insert_exchange(s1, token, new_non(r)))
              /\ caller' = Tell(Dropped(s, token), [kind |-> "ChannelClosed"])
              /\ Send(p, {packet})
    BY DEF OutboundRequest, r, p
  <1> DEFINE token  == s.token_allocator.next
             mid    == s.mid_allocator.next
             s1     == allocate_mid(allocate_token(s))
             packet == RequestPacket(r, token, mid)
  <1>4. IsSession(s)
    BY <1>2, SessionEntryType
  <1>5. IsSession(s1) /\ token \in Tokens /\ mid \in MIDs
    BY <1>4, AllocateMidType, AllocateTokenType
  <1>6. packet \in Packets
    BY <1>2, <1>5, RequestsAssumption
    DEF RequestPacket, Packets, MessageTypes, MessageClasses
  <1> HIDE DEF token, mid, s1, packet
  <1>7. SessionsOK'
    <2>1. CASE r \in ConRequests
      <3>1. IsSession(insert_con_exchange(s1, token, mid, new_con(r, mid, packet, timeout)))
        BY <1>2, <1>5, <1>6, NewConType, InsertConExchangeType
      <3> QED
        BY <1>2, <1>3, <2>1, <3>1, SetSessionType DEF token, mid, s1, packet
    <2>2. CASE r \notin ConRequests
      <3>1. IsSession(insert_exchange(s1, token, new_non(r)))
        BY <1>2, <1>5, NewNonType, InsertExchangeType
      <3> QED
        BY <1>2, <1>3, <2>2, <3>1, SetSessionType DEF token, s1
    <2> QED
      BY <2>1, <2>2
  <1>8. caller' \in [Requests -> Results \cup {Idle, Waiting}]
    BY <1>3, TellType DEF Results
  <1>9. sent' \in SUBSET [peer : Peers, packet : Packets]
    BY <1>2, <1>3, <1>6 DEF Send, packet, token, mid
  <1>10. transmissions' \in [Requests -> Nat]
    BY DEF OutboundRequest
  <1> QED
    BY <1>1, <1>7, <1>8, <1>9, <1>10 DEF OutboundRequest, serverVars, SeenOK

LEMMA OutboundRequestUnencodableType ==
  ASSUME TypeOK, OutboundRequestUnencodable
  PROVE  TypeOK'
  <1> USE DEF TypeOK
  <1>1. /\ Head(outbound_requests) \in [request : Requests, peer : Peers]
        /\ Tail(outbound_requests) \in Seq([request : Requests, peer : Peers])
    BY HeadTailProperties DEF OutboundRequestUnencodable
  <1> DEFINE p == Head(outbound_requests).peer
  <1>2. PICK s \in SessionEntry(p) : SetSession(p, allocate_mid(allocate_token(s)))
    BY DEF OutboundRequestUnencodable
  <1>3. SessionsOK'
    BY <1>1, <1>2, SessionEntryType, AllocateMidType, AllocateTokenType, SetSessionType
  <1>4. caller' \in [Requests -> Results \cup {Idle, Waiting}]
    BY TellType DEF OutboundRequestUnencodable, Results
  <1> QED
    BY <1>1, <1>3, <1>4 DEF OutboundRequestUnencodable, serverVars, historyVars, SeenOK

\* The arm that takes a response from the server's channel.
LEMMA OutboundResponseType ==
  ASSUME TypeOK, NEW encodable \in BOOLEAN, OutboundResponse(encodable)
  PROVE  TypeOK'
  <1> USE DEF TypeOK
  <1> DEFINE request == Head(server_responses).request
             p == Head(server_responses).peer
  <1>1. Head(server_responses) \in ServerMessages /\ Tail(server_responses) \in Seq(ServerMessages)
    BY HeadTailProperties DEF OutboundResponse
  <1>2. request \in InboundPackets /\ p \in Peers
    BY <1>1 DEF ServerMessages
  <1> HIDE DEF request, p
  <1>3. PICK s \in SessionEntry(p) :
           IF request.token \in DOMAIN s.inbound_con_mids
           THEN LET mid    == s.inbound_con_mids[request.token]
                    packet == ResponsePacket(request, "Acknowledgement", mid)
                    taken  == take_inbound_con_mid(s, request.token)
                IN  /\ SetSession(p, IF encodable
                                     THEN cache_response_for_mid(taken, mid, packet)
                                     ELSE taken)
                    /\ Send(p, IF encodable THEN {packet} ELSE {})
           ELSE /\ SetSession(p, allocate_mid(s))
                /\ Send(p, IF encodable
                     THEN {ResponsePacket(request, "NonConfirmable", s.mid_allocator.next)}
                     ELSE {})
    BY DEF OutboundResponse, request, p
  <1>4. IsSession(s)
    BY <1>2, SessionEntryType
  <1>5. \A type \in MessageTypes, mid \in MIDs : ResponsePacket(request, type, mid) \in Packets
    BY <1>2, InboundType DEF ResponsePacket, Packets, MessageClasses
  <1>6. CASE request.token \in DOMAIN s.inbound_con_mids
    <2> DEFINE mid    == s.inbound_con_mids[request.token]
               packet == ResponsePacket(request, "Acknowledgement", mid)
               taken  == take_inbound_con_mid(s, request.token)
    <2>1. mid \in MIDs
      BY <1>4, <1>6 DEF IsSession, IsMap
    <2>2. packet \in Packets
      BY <1>5, <2>1 DEF MessageTypes
    <2>3. IsSession(taken)
      BY <1>4, TakeInboundConType
    <2>4. SetSession(p, IF encodable THEN cache_response_for_mid(taken, mid, packet) ELSE taken)
      BY <1>3, <1>6
    <2>5. Send(p, IF encodable THEN {packet} ELSE {})
      BY <1>3, <1>6
    <2> HIDE DEF mid, packet, taken
    <2>6. SessionsOK'
      BY <1>2, <2>2, <2>3, <2>4, CacheResponseType, SetSessionType
    <2>7. sent' \in SUBSET [peer : Peers, packet : Packets]
      BY <1>2, <2>2, <2>5 DEF Send
    <2> QED
      BY <1>1, <2>6, <2>7 DEF OutboundResponse, clientVars, historyVars, SeenOK
  <1>7. CASE request.token \notin DOMAIN s.inbound_con_mids
    <2>1. IsSession(allocate_mid(s)) /\ s.mid_allocator.next \in MIDs
      BY <1>4, AllocateMidType
    <2>2. SessionsOK'
      BY <1>2, <1>3, <1>7, <2>1, SetSessionType
    <2>3. sent' \in SUBSET [peer : Peers, packet : Packets]
      <3>1. ResponsePacket(request, "NonConfirmable", s.mid_allocator.next) \in Packets
        BY <1>5, <2>1 DEF MessageTypes
      <3> QED
        BY <1>2, <1>3, <1>7, <3>1 DEF Send
    <2> QED
      BY <1>1, <2>2, <2>3 DEF OutboundResponse, clientVars, historyVars, SeenOK
  <1> QED
    BY <1>6, <1>7

\* The two timers, the return of the task, and the clock.
LEMMA RetransmissionTimerType ==
  ASSUME TypeOK, RetransmissionTimer
  PROVE  TypeOK'
  <1> USE DEF TypeOK
  <1>1. \A p \in DOMAIN sessions : p \in Peers /\ IsSession(sessions[p])
    BY DEF SessionsOK, IsMap
  <1>2. SessionsOK'
    BY <1>1, TimerWorkType DEF RetransmissionTimer, SessionsOK, IsMap, Range
  <1>3. caller' \in [Requests -> Results \cup {Idle, Waiting}]
    <2> DEFINE failed == UNION {TimedOut(sessions[p]) : p \in DOMAIN sessions}
               told(r) == CHOOSE x \in failed : x.request = r
    <2>1. \A x \in failed : x.retransmits \in 0 .. MAX_RETRANSMIT
      <3>1. ASSUME NEW p \in DOMAIN sessions, NEW t \in ExpiredTokens(sessions[p])
            PROVE  retransmit_count(sessions[p].exchanges[t]) \in 0 .. MAX_RETRANSMIT
        <4>1. sessions[p].exchanges[t] \in Exchanges
          BY <1>1 DEF ExpiredTokens, DueTokens, ResendTokens, IsSession, IsMap
        <4> QED
          BY <4>1, RetransmitCountType
      <3> QED
        BY <3>1 DEF TimedOut
    <2>2. caller' = [r \in Requests |->
                       IF caller[r] = Waiting /\ \E x \in failed : x.request = r
                       THEN [kind |-> "Timeout", retransmits |-> told(r).retransmits]
                       ELSE caller[r]]
      BY DEF RetransmissionTimer
    <2> HIDE DEF failed
    <2>3. \A r \in Requests : (\E x \in failed : x.request = r) => told(r) \in failed
      OBVIOUS
    <2>4. \A r \in Requests : (\E x \in failed : x.request = r) =>
            [kind |-> "Timeout", retransmits |-> told(r).retransmits] \in Results
      BY <2>1, <2>3 DEF Results
    <2> HIDE DEF told
    <2> QED
      BY <2>2, <2>4
  <1>4. sent' \in SUBSET [peer : Peers, packet : Packets]
    <2>1. ASSUME NEW p \in DOMAIN sessions, NEW t \in ResendTokens(sessions[p])
          PROVE  sessions[p].exchanges[t].retransmit.packet_bytes \in Packets
      <3>1. sessions[p].exchanges[t] \in Exchanges
        BY <1>1 DEF ResendTokens, DueTokens, IsSession, IsMap
      <3> QED
        BY <3>1 DEF ResendTokens, DueTokens, needs_retransmit, Exchanges, RetransmitStates
    <2> QED
      BY <1>1, <2>1 DEF RetransmissionTimer, Retransmits
  <1>5. transmissions' \in [Requests -> Nat]
    BY DEF RetransmissionTimer
  <1> QED
    BY <1>2, <1>3, <1>4, <1>5 DEF RetransmissionTimer, serverVars, SeenOK

LEMMA TickType ==
  ASSUME TypeOK, Tick
  PROVE  TypeOK'
  <1> USE DEF TypeOK
  <1>1. SessionsOK'
    BY AgeSessionType DEF Tick, SessionsOK, IsMap, Range
  <1>2. next_cleanup' \in 0 .. IDLE_SESSION_CLEANUP_INTERVAL
    BY TimingAssumption DEF Tick, TickDown
  <1>3. SeenOK'
    <2> DEFINE young(p) == {m \in DOMAIN seen[p] : seen[p][m].age + 1 < EXCHANGE_LIFETIME}
               older(p) == [m \in young(p) |-> [seen[p][m] EXCEPT !.age = @ + 1]]
    <2>1. ASSUME NEW p \in Peers
          PROVE  IsMap(older(p), MIDs, SeenEntries)
      <3>1. ASSUME NEW m \in young(p)
            PROVE  [seen[p][m] EXCEPT !.age = @ + 1] \in SeenEntries
        <4>1. seen[p][m] \in SeenEntries /\ seen[p][m].age + 1 < EXCHANGE_LIFETIME
          BY DEF SeenOK, IsMap
        <4>2. \A x \in SeenEntries : x.age + 1 < EXCHANGE_LIFETIME =>
                [x EXCEPT !.age = @ + 1] \in SeenEntries
          <5>1. \A n \in 0 .. EXCHANGE_LIFETIME :
                  n + 1 < EXCHANGE_LIFETIME => n + 1 \in 0 .. EXCHANGE_LIFETIME
            BY TimingAssumption
          <5> QED
            BY <5>1 DEF SeenEntries
        <4> QED
          BY <4>1, <4>2
      <3> QED
        BY <3>1 DEF SeenOK, IsMap
    <2>2. seen' = [p \in Peers |-> older(p)]
      BY DEF Tick
    <2> HIDE DEF older
    <2> QED
      BY <2>1, <2>2 DEF SeenOK
  <1> QED
    BY <1>1, <1>2, <1>3 DEF Tick, clientVars, serverVars

LEMMA NextType == TypeOK /\ [Next]_vars => TypeOK'
  <1> SUFFICES ASSUME TypeOK, [Next]_vars PROVE TypeOK'
    OBVIOUS
  <1> USE DEF TypeOK
  <1>1. CASE \E p \in Peers, pkt \in InboundPackets : RecvPacket(p, pkt)
    BY <1>1, RecvPacketType
  <1>2. CASE OutboundRequest
    BY <1>2, OutboundRequestType
  <1>3. CASE OutboundRequestUnencodable
    BY <1>3, OutboundRequestUnencodableType
  <1>4. CASE \E ok \in BOOLEAN : OutboundResponse(ok)
    BY <1>4, OutboundResponseType
  <1>5. CASE RetransmissionTimer
    BY <1>5, RetransmissionTimerType
  <1>6. CASE CleanupTimer
    <2>1. SessionsOK'
      BY <1>6 DEF CleanupTimer, SessionsOK, Restrict, IsMap, Range
    <2>2. next_cleanup' \in 0 .. IDLE_SESSION_CLEANUP_INTERVAL
      BY <1>6, TimingAssumption DEF CleanupTimer
    <2> QED
      BY <1>6, <2>1, <2>2 DEF CleanupTimer, clientVars, serverVars, historyVars, SeenOK
  <1>7. CASE StackReturns
    <2>1. SessionsOK'
      BY <1>7 DEF StackReturns, SessionsOK, EmptyMap, IsMap, Range
    <2>2. caller' \in [Requests -> Results \cup {Idle, Waiting}]
      BY <1>7, TellType DEF StackReturns, Results
    <2>3. server_responses' \in Seq(ServerMessages)
          /\ outbound_requests' \in Seq([request : Requests, peer : Peers])
      BY <1>7 DEF StackReturns
    <2>4. running' \in BOOLEAN /\ sent' \in SUBSET [peer : Peers, packet : Packets]
      BY <1>7 DEF StackReturns
    <2> QED
      BY <1>7, <2>1, <2>2, <2>3, <2>4 DEF StackReturns, historyVars, SeenOK
  <1>8. CASE \E r \in Requests, p \in Peers : SendRequest(r, p)
    <2>1. PICK r \in Requests, p \in Peers : SendRequest(r, p)
      BY <1>8
    <2>2. Waiting \in Results \cup {Idle, Waiting}
          /\ [kind |-> "EndpointClosed"] \in Results
      BY DEF Results
    <2>3. caller' \in [Requests -> Results \cup {Idle, Waiting}]
      BY <2>1, <2>2 DEF SendRequest
    <2>4. outbound_requests' \in Seq([request : Requests, peer : Peers])
      BY <2>1, AppendProperties DEF SendRequest
    <2> QED
      BY <2>1, <2>3, <2>4 DEF SendRequest, taskVars, serverVars, historyVars, SessionsOK, SeenOK
  <1>9. CASE \E r \in Requests : ClientTimeout(r)
    <2>1. PICK r \in Requests : ClientTimeout(r)
      BY <1>9
    <2>2. caller' \in [Requests -> Results \cup {Idle, Waiting}]
      BY <2>1 DEF ClientTimeout, Results
    <2> QED
      BY <2>1, <2>2 DEF ClientTimeout, taskVars, serverVars, historyVars, SessionsOK, SeenOK
  <1>10. CASE ServerHandle
    <2>1. /\ Head(server_requests) \in ServerMessages
          /\ Tail(server_requests) \in Seq(ServerMessages)
      BY <1>10, HeadTailProperties DEF ServerHandle
    <2>2. server_responses' \in Seq(ServerMessages)
      BY <1>10, <2>1, AppendProperties DEF ServerHandle
    <2> QED
      BY <1>10, <2>1, <2>2 DEF ServerHandle, taskVars, clientVars, historyVars, SessionsOK, SeenOK
  <1>11. CASE Tick
    BY <1>11, TickType
  <1>12. CASE UNCHANGED vars
    BY <1>12 DEF vars, taskVars, clientVars, serverVars, historyVars, SessionsOK, SeenOK
  <1> QED
    BY <1>1, <1>2, <1>3, <1>4, <1>5, <1>6, <1>7, <1>8, <1>9, <1>10, <1>11, <1>12 DEF Next

\* Every variable of the stack, the session table with all its maps and the
\* counters of the allocators included, keeps its type in every behaviour.
THEOREM TypeCorrect == Spec => []TypeOK
  BY InitType, NextType, PTL DEF Spec

-----------------------------------------------------------------------------
(* The MID index of one session, method by method.                         *)

\* A method that leaves the indexes and the token counter alone.
LEMMA SameIndexes ==
  ASSUME NEW s, NEW u, SessionInv(s),
         u.exchanges = s.exchanges, u.mid_to_token = s.mid_to_token,
         u.token_allocator = s.token_allocator
  PROVE  SessionInv(u)
  BY DEF SessionInv, IndexSound, TokensFresh

LEMMA NewSessionInv ==
  ASSUME NEW m, NEW t
  PROVE  SessionInv(NewSession(m, t))
  BY DEF SessionInv, IndexSound, NewSession, EmptyMap

\* The token handed out is held by no open exchange.
LEMMA FreshToken ==
  ASSUME NEW s, IsSession(s), SessionInv(s), s.token_allocator.allocated < TOKEN_MODULUS
  PROVE  s.token_allocator.next \notin DOMAIN s.exchanges
  <1> DEFINE n == s.token_allocator.next
  <1>1. n \in 0 .. TOKEN_MODULUS - 1 /\ s.token_allocator.allocated \in 0 .. TOKEN_MODULUS + 1
    BY ModulusAssumption DEF IsSession, Allocators
  <1>2. Distance(n, n) = TOKEN_MODULUS
    BY <1>1, ModulusAssumption DEF Distance
  <1>3. TokensFresh(s) /\ ~ (Distance(n, n) <= s.token_allocator.allocated)
    BY <1>1, <1>2, ModulusAssumption DEF TokensFresh
  <1> QED
    BY <1>3 DEF SessionInv

\* Handing out a token moves the tokens handed out before by one.
LEMMA DistanceStep ==
  ASSUME NEW a \in Allocators(TOKEN_MODULUS), a.allocated < TOKEN_MODULUS,
         NEW t \in Tokens
  PROVE  /\ Allocate(a, TOKEN_MODULUS).allocated = a.allocated + 1
         /\ Distance(a.next, Allocate(a, TOKEN_MODULUS).next) = 1
         /\ Distance(t, a.next) <= a.allocated =>
              Distance(t, Allocate(a, TOKEN_MODULUS).next) <= a.allocated + 1
  <1> DEFINE n == a.next
             k == a.allocated
  <1>1. n \in 0 .. TOKEN_MODULUS - 1 /\ k \in 0 .. TOKEN_MODULUS - 1 /\ t \in 0 .. TOKEN_MODULUS - 1
    BY ModulusAssumption DEF Allocators, Tokens
  <1>2. Allocate(a, TOKEN_MODULUS) =
          [next |-> IF n = TOKEN_MODULUS - 1 THEN 0 ELSE n + 1, allocated |-> k + 1]
    BY <1>1, ModulusAssumption DEF Allocate
  <1> HIDE DEF n, k
  <1>3. CASE n = TOKEN_MODULUS - 1
    BY <1>1, <1>2, <1>3, ModulusAssumption DEF Distance, n, k
  <1>4. CASE n # TOKEN_MODULUS - 1
    BY <1>1, <1>2, <1>4, ModulusAssumption DEF Distance, n, k
  <1> QED
    BY <1>3, <1>4

LEMMA WithIndexesFields ==
  ASSUME NEW s, NEW x, NEW y
  PROVE  /\ WithIndexes(s, x, y).exchanges = x
         /\ WithIndexes(s, x, y).mid_to_token = y
         /\ WithIndexes(s, x, y).token_allocator = s.token_allocator
         /\ WithIndexes(s, x, y).inbound_dedup = s.inbound_dedup
  BY DEF WithIndexes

\* A new request: both kinds of exchange go in under a fresh token.
LEMMA InsertInv ==
  ASSUME NEW s, IsSession(s), SessionInv(s), NEW e \in Exchanges,
         NEW mid \in MIDs, NEW u,
         u.exchanges = Insert(s.exchanges, s.token_allocator.next, e),
         u.token_allocator = Allocate(s.token_allocator, TOKEN_MODULUS),
         \/ u.mid_to_token = s.mid_to_token
         \/ /\ u.mid_to_token = Insert(s.mid_to_token, mid, s.token_allocator.next)
            /\ e.message_id = mid
            /\ e.retransmit # None
  PROVE  SessionInv(u)
  <1> SUFFICES ASSUME TokensFresh(u)
               PROVE  /\ IndexSound(u)
                      /\ \A t \in DOMAIN u.exchanges :
                           Distance(t, u.token_allocator.next) <= u.token_allocator.allocated
    BY DEF SessionInv
  <1> DEFINE n == s.token_allocator.next
  <1>1. TokensFresh(s) /\ s.token_allocator.allocated < TOKEN_MODULUS
    BY ModulusAssumption DEF TokensFresh, Allocate, Allocators, IsSession
  <1>2. n \notin DOMAIN s.exchanges
    BY <1>1, FreshToken
  <1>3. n \in Tokens
    BY AllocateTokenType
  <1>4. /\ DOMAIN u.exchanges = DOMAIN s.exchanges \cup {n}
        /\ u.exchanges[n] = e
        /\ \A t \in DOMAIN s.exchanges : u.exchanges[t] = s.exchanges[t]
    BY <1>2, <1>3, InsertType DEF IsSession
  <1> HIDE DEF n
  <1>5. IndexSound(u)
    <2> SUFFICES ASSUME NEW m \in DOMAIN u.mid_to_token
                 PROVE  LET t == u.mid_to_token[m]
                        IN  /\ t \in DOMAIN u.exchanges
                            /\ u.exchanges[t].message_id = m
                            /\ u.exchanges[t].retransmit # None
      BY DEF IndexSound
    <2>1. CASE u.mid_to_token = s.mid_to_token
      BY <1>1, <1>4, <2>1 DEF SessionInv, IndexSound
    <2>2. CASE /\ u.mid_to_token = Insert(s.mid_to_token, mid, n)
               /\ e.message_id = mid
               /\ e.retransmit # None
      <3>1. /\ DOMAIN u.mid_to_token = DOMAIN s.mid_to_token \cup {mid}
            /\ u.mid_to_token[mid] = n
            /\ \A x \in DOMAIN s.mid_to_token : x # mid => u.mid_to_token[x] = s.mid_to_token[x]
        BY <1>3, <2>2, InsertType DEF IsSession
      <3>2. CASE m = mid
        BY <1>4, <2>2, <3>1, <3>2
      <3>3. CASE m # mid
        BY <1>1, <1>4, <3>1, <3>3 DEF SessionInv, IndexSound
      <3> QED
        BY <3>2, <3>3
    <2> QED
      BY <2>1, <2>2 DEF n
  <1>6. ASSUME NEW t \in DOMAIN u.exchanges
        PROVE  Distance(t, u.token_allocator.next) <= u.token_allocator.allocated
    <2>1. s.token_allocator \in Allocators(TOKEN_MODULUS) /\ t \in Tokens
      BY <1>3, <1>4 DEF IsSession, IsMap
    <2>2. /\ u.token_allocator.allocated = s.token_allocator.allocated + 1
          /\ Distance(n, u.token_allocator.next) = 1
          /\ Distance(t, n) <= s.token_allocator.allocated =>
               Distance(t, u.token_allocator.next) <= s.token_allocator.allocated + 1
      BY <1>1, <2>1, DistanceStep DEF TokensFresh, n
    <2>3. CASE t = n
      BY <2>1, <2>2, <2>3 DEF Allocators
    <2>4. CASE t # n
      BY <1>1, <1>4, <2>2, <2>4 DEF SessionInv, n
    <2> QED
      BY <2>3, <2>4
  <1> QED
    BY <1>5, <1>6

\* Whatever ends exchanges takes their MID entries along.
LEMMA RemoveExchangesInv ==
  ASSUME NEW s, IsSession(s), SessionInv(s), NEW T
  PROVE  SessionInv(RemoveExchanges(s, T))
  <1> DEFINE u == RemoveExchanges(s, T)
             gone == T \cap DOMAIN s.exchanges
             mids == {s.exchanges[t].message_id : t \in gone}
             x == RemoveAll(s.exchanges, gone)
             y == RemoveAll(s.mid_to_token, mids)
  <1>0. u = WithIndexes(s, x, y)
    BY RemoveExchangesFields
  <1> HIDE DEF u, x, y
  <1>1. u.exchanges = x /\ u.mid_to_token = y /\ u.token_allocator = s.token_allocator
    BY <1>0, WithIndexesFields
  <1> HIDE DEF gone, mids
  <1>2. /\ DOMAIN u.exchanges = DOMAIN s.exchanges \ gone
        /\ \A t \in DOMAIN u.exchanges : u.exchanges[t] = s.exchanges[t]
    BY <1>1 DEF x, RemoveAll, Restrict
  <1>3. /\ DOMAIN u.mid_to_token = DOMAIN s.mid_to_token \ mids
        /\ \A m \in DOMAIN u.mid_to_token : u.mid_to_token[m] = s.mid_to_token[m]
    BY <1>1 DEF y, RemoveAll, Restrict
  <1>4. TokensFresh(s) => IndexSound(u)
    <2> SUFFICES ASSUME TokensFresh(s), NEW m \in DOMAIN u.mid_to_token
                 PROVE  LET t == u.mid_to_token[m]
                        IN  /\ t \in DOMAIN u.exchanges
                            /\ u.exchanges[t].message_id = m
                            /\ u.exchanges[t].retransmit # None
      BY DEF IndexSound
    <2> DEFINE t == s.mid_to_token[m]
    <2>1. /\ t \in DOMAIN s.exchanges
          /\ s.exchanges[t].message_id = m
          /\ s.exchanges[t].retransmit # None
      BY <1>3 DEF SessionInv, IndexSound
    <2>2. t \notin gone
      BY <1>3, <2>1 DEF mids
    <2> QED
      BY <1>2, <1>3, <2>1, <2>2
  <1>5. TokensFresh(u) <=> TokensFresh(s)
    BY <1>1 DEF TokensFresh
  <1> QED
    BY <1>1, <1>2, <1>4, <1>5 DEF SessionInv, u

\* An ACK takes the MID entry of the one exchange it may stop.
LEMMA HandleAckInv ==
  ASSUME NEW s, IsSession(s), SessionInv(s), NEW mid, NEW code
  PROVE  SessionInv(handle_ack(s, mid, code))
  <1> DEFINE u == handle_ack(s, mid, code)
             acked == TokenOf(s, mid) \cap DOMAIN s.exchanges
             x == [t \in DOMAIN s.exchanges |-> IF code = "Empty" /\ t \in acked
                                                THEN cancel_retransmission(s.exchanges[t])
                                                ELSE s.exchanges[t]]
             y == RemoveAll(s.mid_to_token, {mid})
  <1>0. u = WithIndexes(s, x, y)
    BY HandleAckFields
  <1> HIDE DEF u, x, y
  <1>1. u.exchanges = x /\ u.mid_to_token = y /\ u.token_allocator = s.token_allocator
    BY <1>0, WithIndexesFields
  <1>2. /\ DOMAIN u.exchanges = DOMAIN s.exchanges
        /\ \A t \in DOMAIN u.exchanges \ TokenOf(s, mid) : u.exchanges[t] = s.exchanges[t]
    BY <1>1 DEF x
  <1>3. /\ DOMAIN u.mid_to_token = DOMAIN s.mid_to_token \ {mid}
        /\ \A m \in DOMAIN u.mid_to_token : u.mid_to_token[m] = s.mid_to_token[m]
    BY <1>1 DEF y, RemoveAll, Restrict
  <1>4. TokensFresh(s) => IndexSound(u)
    <2> SUFFICES ASSUME TokensFresh(s), NEW m \in DOMAIN u.mid_to_token
                 PROVE  LET t == u.mid_to_token[m]
                        IN  /\ t \in DOMAIN u.exchanges
                            /\ u.exchanges[t].message_id = m
                            /\ u.exchanges[t].retransmit # None
      BY DEF IndexSound
    <2> DEFINE t == s.mid_to_token[m]
    <2>1. /\ t \in DOMAIN s.exchanges
          /\ s.exchanges[t].message_id = m
          /\ s.exchanges[t].retransmit # None
      BY <1>3 DEF SessionInv, IndexSound
    <2>2. t \notin TokenOf(s, mid)
      BY <1>3, <2>1 DEF SessionInv, IndexSound, TokenOf
    <2> QED
      BY <1>2, <1>3, <2>1, <2>2
  <1>5. TokensFresh(u) <=> TokensFresh(s)
    BY <1>1 DEF TokensFresh
  <1> QED
    BY <1>1, <1>2, <1>4, <1>5 DEF SessionInv, u

\* A reset takes the MID entry and the exchange it leads to.
LEMMA HandleRstInv ==
  ASSUME NEW s, IsSession(s), SessionInv(s), NEW mid
  PROVE  SessionInv(handle_rst(s, mid))
  <1> DEFINE u == handle_rst(s, mid)
             x == RemoveAll(s.exchanges, TokenOf(s, mid))
             y == RemoveAll(s.mid_to_token, {mid})
  <1>0. u = WithIndexes(s, x, y)
    BY HandleRstFields
  <1> HIDE DEF u, x, y
  <1>1. u.exchanges = x /\ u.mid_to_token = y /\ u.token_allocator = s.token_allocator
    BY <1>0, WithIndexesFields
  <1>2. /\ DOMAIN u.exchanges = DOMAIN s.exchanges \ TokenOf(s, mid)
        /\ \A t \in DOMAIN u.exchanges : u.exchanges[t] = s.exchanges[t]
    BY <1>1 DEF x, RemoveAll, Restrict
  <1>3. /\ DOMAIN u.mid_to_token = DOMAIN s.mid_to_token \ {mid}
        /\ \A m \in DOMAIN u.mid_to_token : u.mid_to_token[m] = s.mid_to_token[m]
    BY <1>1 DEF y, RemoveAll, Restrict
  <1>4. TokensFresh(s) => IndexSound(u)
    <2> SUFFICES ASSUME TokensFresh(s), NEW m \in DOMAIN u.mid_to_token
                 PROVE  LET t == u.mid_to_token[m]
                        IN  /\ t \in DOMAIN u.exchanges
                            /\ u.exchanges[t].message_id = m
                            /\ u.exchanges[t].retransmit # None
      BY DEF IndexSound
    <2> DEFINE t == s.mid_to_token[m]
    <2>1. /\ t \in DOMAIN s.exchanges
          /\ s.exchanges[t].message_id = m
          /\ s.exchanges[t].retransmit # None
      BY <1>3 DEF SessionInv, IndexSound
    <2>2. t \notin TokenOf(s, mid)
      BY <1>3, <2>1 DEF SessionInv, IndexSound, TokenOf
    <2> QED
      BY <1>2, <1>3, <2>1, <2>2
  <1>5. TokensFresh(u) <=> TokensFresh(s)
    BY <1>1 DEF TokensFresh
  <1> QED
    BY <1>1, <1>2, <1>4, <1>5 DEF SessionInv, u

\* Replacing exchanges by ones with the same MID that are still being
\* retransmitted if the old ones were.
LEMMA RewriteExchangesInv ==
  ASSUME NEW s, SessionInv(s), NEW u,
         DOMAIN u.exchanges = DOMAIN s.exchanges,
         u.mid_to_token = s.mid_to_token, u.token_allocator = s.token_allocator,
         \A t \in DOMAIN s.exchanges :
           /\ u.exchanges[t].message_id = s.exchanges[t].message_id
           /\ s.exchanges[t].retransmit # None => u.exchanges[t].retransmit # None
  PROVE  SessionInv(u)
  BY DEF SessionInv, IndexSound, TokensFresh

LEMMA AdvanceDueInv ==
  ASSUME NEW s, IsSession(s), SessionInv(s)
  PROVE  SessionInv(AdvanceDue(s))
  <1> DEFINE x == [t \in DOMAIN s.exchanges |-> IF t \in ResendTokens(s)
                                               THEN advance_retransmit(s.exchanges[t])
                                               ELSE s.exchanges[t]]
  <1>1. AdvanceDue(s) = [s EXCEPT !.exchanges = x]
    BY DEF AdvanceDue
  <1>2. ASSUME NEW t \in DOMAIN s.exchanges
        PROVE  /\ x[t].message_id = s.exchanges[t].message_id
               /\ s.exchanges[t].retransmit # None => x[t].retransmit # None
    <2>1. s.exchanges[t] \in Exchanges
      BY DEF IsSession, IsMap
    <2>2. CASE t \in ResendTokens(s)
      <3>1. Advance(s.exchanges[t].retransmit) \in RetransmitStates
        BY <2>1, <2>2, AdvanceType
        DEF ResendTokens, DueTokens, needs_retransmit, Exchanges
      <3>2. /\ advance_retransmit(s.exchanges[t]).retransmit = Advance(s.exchanges[t].retransmit)
            /\ advance_retransmit(s.exchanges[t]).message_id = s.exchanges[t].message_id
        BY <2>1 DEF advance_retransmit, Exchanges
      <3> QED
        BY <2>2, <3>1, <3>2, NoneAssumption
    <2> QED
      BY <2>2
  <1> HIDE DEF x
  <1>3. /\ AdvanceDue(s).exchanges = x
        /\ AdvanceDue(s).mid_to_token = s.mid_to_token
        /\ AdvanceDue(s).token_allocator = s.token_allocator
    BY <1>1 DEF IsSession
  <1>4. DOMAIN x = DOMAIN s.exchanges
    BY DEF x
  <1> QED
    BY <1>2, <1>3, <1>4, RewriteExchangesInv

LEMMA EvictFields ==
  ASSUME NEW s, IsSession(s)
  PROVE  /\ evict_stale_dedup(s).exchanges = s.exchanges
         /\ evict_stale_dedup(s).mid_to_token = s.mid_to_token
         /\ evict_stale_dedup(s).token_allocator = s.token_allocator
         /\ evict_stale_dedup(s).inbound_dedup = RemoveAll(s.inbound_dedup,
              {m \in DOMAIN s.inbound_dedup : s.inbound_dedup[m].age >= EXCHANGE_LIFETIME})
  BY DEF evict_stale_dedup, IsSession

LEMMA TimerWorkInv ==
  ASSUME NEW s, IsSession(s), SessionInv(s)
  PROVE  SessionInv(TimerWork(s))
  <1> DEFINE u == collect_retransmissions(s)
  <1>1. IsSession(u)
    BY AdvanceDueType, RemoveExchangesType DEF collect_retransmissions
  <1>2. SessionInv(u)
    BY AdvanceDueType, AdvanceDueInv, RemoveExchangesInv DEF collect_retransmissions
  <1> HIDE DEF u
  <1> QED
    BY <1>1, <1>2, EvictFields, SameIndexes DEF TimerWork, u

LEMMA AgeFields ==
  ASSUME NEW s, IsSession(s)
  PROVE  /\ AgeSession(s).exchanges = [t \in DOMAIN s.exchanges |-> AgeExchange(s.exchanges[t])]
         /\ AgeSession(s).inbound_dedup =
              [m \in DOMAIN s.inbound_dedup |-> AgeEntry(s.inbound_dedup[m])]
         /\ AgeSession(s).mid_to_token = s.mid_to_token
         /\ AgeSession(s).token_allocator = s.token_allocator
  <1> DEFINE x == [t \in DOMAIN s.exchanges |-> AgeExchange(s.exchanges[t])]
             y == [m \in DOMAIN s.inbound_dedup |-> AgeEntry(s.inbound_dedup[m])]
             u == [s EXCEPT !.exchanges = x]
  <1>1. AgeSession(s) = [u EXCEPT !.inbound_dedup = y]
    BY DEF AgeSession
  <1> HIDE DEF x, y
  <1>2. u = WithIndexes(s, x, s.mid_to_token)
    BY DEF IsSession, WithIndexes
  <1> HIDE DEF u
  <1>3. /\ AgeSession(s).exchanges = x
        /\ AgeSession(s).inbound_dedup = y
        /\ AgeSession(s).mid_to_token = s.mid_to_token
        /\ AgeSession(s).token_allocator = s.token_allocator
    BY <1>1, <1>2 DEF WithIndexes
  <1> QED
    BY <1>3 DEF x, y

LEMMA AgeSessionInv ==
  ASSUME NEW s, IsSession(s), SessionInv(s)
  PROVE  SessionInv(AgeSession(s))
  <1>1. ASSUME NEW e \in Exchanges
        PROVE  /\ AgeExchange(e).message_id = e.message_id
               /\ e.retransmit # None => AgeExchange(e).retransmit # None
    <2>1. AgeExchange(e) \in Exchanges
      BY AgeExchangeType
    <2> DEFINE r == IF e.retransmit = None THEN None ELSE AgeRetransmit(e.retransmit)
               x == IF e.expires_at = None THEN None ELSE TickDown(e.expires_at)
    <2>2. AgeExchange(e) = [e EXCEPT !.retransmit = r, !.expires_at = x]
      BY DEF AgeExchange
    <2>3. e.retransmit # None => r # None
      <3>1. e.retransmit # None => AgeRetransmit(e.retransmit) \in RetransmitStates
        BY TickDownType DEF Exchanges, RetransmitStates, AgeRetransmit
      <3> QED
        BY <3>1, NoneAssumption
    <2> HIDE DEF r, x
    <2>4. AgeExchange(e).message_id = e.message_id /\ AgeExchange(e).retransmit = r
      BY <2>2 DEF Exchanges
    <2> QED
      BY <2>3, <2>4
  <1>2. \A t \in DOMAIN s.exchanges : s.exchanges[t] \in Exchanges
    BY DEF IsSession, IsMap
  <1> DEFINE u == AgeSession(s)
  <1>3. /\ u.exchanges = [t \in DOMAIN s.exchanges |-> AgeExchange(s.exchanges[t])]
        /\ u.mid_to_token = s.mid_to_token
        /\ u.token_allocator = s.token_allocator
    BY AgeFields
  <1> HIDE DEF u
  <1>4. /\ DOMAIN u.exchanges = DOMAIN s.exchanges
        /\ \A t \in DOMAIN s.exchanges :
             /\ u.exchanges[t].message_id = s.exchanges[t].message_id
             /\ s.exchanges[t].retransmit # None => u.exchanges[t].retransmit # None
    BY <1>1, <1>2, <1>3
  <1>5. SessionInv(u)
    BY <1>3, <1>4, RewriteExchangesInv
  <1> QED
    BY <1>5 DEF u

\* The methods that do not touch the indexes.
SameIndexFields(s, u) ==
  /\ u.exchanges = s.exchanges
  /\ u.mid_to_token = s.mid_to_token
  /\ u.token_allocator = s.token_allocator

LEMMA SameIndexFieldsInv ==
  ASSUME NEW s, NEW u, SessionInv(s), SameIndexFields(s, u)
  PROVE  SessionInv(u)
  BY SameIndexes DEF SameIndexFields

LEMMA OtherMethodsKeepIndexes ==
  ASSUME NEW s, IsSession(s), NEW mid, NEW token, NEW packet
  PROVE  /\ SameIndexFields(s, allocate_mid(s))
         /\ SameIndexFields(s, record_inbound_mid(s, mid))
         /\ SameIndexFields(s, cache_response_for_mid(s, mid, packet))
         /\ SameIndexFields(s, record_inbound_con(s, token, mid))
         /\ SameIndexFields(s, take_inbound_con_mid(s, token))
  BY DEF SameIndexFields, IsSession, allocate_mid, record_inbound_mid, cache_response_for_mid,
         record_inbound_con, take_inbound_con_mid

LEMMA AllocateTokenInv ==
  ASSUME NEW s, IsSession(s), SessionInv(s)
  PROVE  SessionInv(allocate_token(s))
  <1> DEFINE u == allocate_token(s)
  <1>1. /\ u.exchanges = s.exchanges
        /\ u.mid_to_token = s.mid_to_token
        /\ u.token_allocator = Allocate(s.token_allocator, TOKEN_MODULUS)
    BY DEF allocate_token, IsSession
  <1> HIDE DEF u
  <1>2. SUFFICES ASSUME TokensFresh(u) PROVE SessionInv(u)
    BY DEF SessionInv, u
  <1>3. TokensFresh(s) /\ s.token_allocator.allocated < TOKEN_MODULUS
    BY <1>1, <1>2, ModulusAssumption DEF TokensFresh, Allocate, Allocators, IsSession
  <1>4. ASSUME NEW t \in DOMAIN s.exchanges
        PROVE  Distance(t, u.token_allocator.next) <= u.token_allocator.allocated
    <2>1. s.token_allocator \in Allocators(TOKEN_MODULUS) /\ t \in Tokens
      BY DEF IsSession, IsMap
    <2>2. Distance(t, s.token_allocator.next) <= s.token_allocator.allocated
      BY <1>3 DEF SessionInv
    <2> QED
      BY <1>1, <1>2, <1>3, <2>1, <2>2, DistanceStep DEF TokensFresh
  <1> QED
    BY <1>1, <1>3, <1>4 DEF SessionInv, IndexSound

\* A new request, confirmable or not, with the session as the arm builds it.
LEMMA NewRequestInv ==
  ASSUME NEW s, IsSession(s), SessionInv(s), NEW r \in Requests, NEW packet \in Packets,
         NEW timeout \in ACK_TIMEOUTS
  PROVE  LET token == s.token_allocator.next
             mid   == s.mid_allocator.next
             s1    == allocate_mid(allocate_token(s))
         IN  /\ SessionInv(insert_con_exchange(s1, token, mid, new_con(r, mid, packet, timeout)))
             /\ SessionInv(insert_exchange(s1, token, new_non(r)))
  <1> DEFINE token == s.token_allocator.next
             mid   == s.mid_allocator.next
             s1    == allocate_mid(allocate_token(s))
             con   == new_con(r, mid, packet, timeout)
             non   == new_non(r)
             u     == insert_con_exchange(s1, token, mid, con)
             v     == insert_exchange(s1, token, non)
  <1>1. IsSession(s1) /\ token \in Tokens /\ mid \in MIDs
    BY AllocateMidType, AllocateTokenType
  <1>2. /\ con \in Exchanges /\ con.message_id = mid /\ con.retransmit # None
        /\ non \in Exchanges
    <2>1. con \in Exchanges /\ non \in Exchanges
      BY <1>1, NewConType, NewNonType
    <2>2. NewRetransmitState(packet, timeout) \in RetransmitStates
      BY TimingAssumption DEF NewRetransmitState, RetransmitStates
    <2> QED
      BY <2>1, <2>2, NoneAssumption DEF new_con
  <1>3. /\ s1.exchanges = s.exchanges
        /\ s1.mid_to_token = s.mid_to_token
        /\ s1.token_allocator = Allocate(s.token_allocator, TOKEN_MODULUS)
    BY DEF allocate_mid, allocate_token, IsSession
  <1> HIDE DEF s1, con, non, token, mid
  <1>4. SessionInv(u)
    <2>1. u = WithIndexes(s1, Insert(s1.exchanges, token, con), Insert(s1.mid_to_token, mid, token))
      BY <1>1, <1>2, InsertConExchangeFields
    <2> HIDE DEF u
    <2>2. /\ u.exchanges = Insert(s.exchanges, token, con)
          /\ u.mid_to_token = Insert(s.mid_to_token, mid, token)
          /\ u.token_allocator = Allocate(s.token_allocator, TOKEN_MODULUS)
      BY <1>3, <2>1, WithIndexesFields
    <2> QED
      BY <1>1, <1>2, <2>2, InsertInv DEF token
  <1>5. SessionInv(v)
    <2>1. /\ v.exchanges = Insert(s.exchanges, token, non)
          /\ v.mid_to_token = s.mid_to_token
          /\ v.token_allocator = Allocate(s.token_allocator, TOKEN_MODULUS)
      BY <1>1, <1>3 DEF insert_exchange, IsSession
    <2> HIDE DEF v
    <2> QED
      BY <1>1, <1>2, <2>1, InsertInv DEF token
  <1> QED
    BY <1>4, <1>5 DEF s1, con, non, token, mid

-----------------------------------------------------------------------------
(* The MID indexes of all sessions, action by action.                      *)

LEMMA EntryInv ==
  ASSUME IndexInv, NEW p, NEW s \in SessionEntry(p)
  PROVE  SessionInv(s)
  BY NewSessionInv DEF IndexInv, SessionEntry

LEMMA SetSessionInv ==
  ASSUME IndexInv, NEW p, NEW s, SessionInv(s), SetSession(p, s)
  PROVE  IndexInv'
  BY DEF IndexInv, SetSession, Insert

\* An arm that stores a session with the indexes it found there.
LEMMA SetSameIndexes ==
  ASSUME IndexInv, NEW p, NEW s \in SessionEntry(p), NEW u, SameIndexFields(s, u),
         SetSession(p, u)
  PROVE  IndexInv'
  BY EntryInv, SameIndexes, SetSessionInv DEF SameIndexFields

LEMMA RecvPacketIndex ==
  ASSUME TypeOK, IndexInv, NEW p \in Peers, NEW pkt \in InboundPackets, RecvPacket(p, pkt)
  PROVE  IndexInv'
  <1> USE DEF TypeOK
  <1>0. /\ pkt \in Packets /\ pkt.mid \in MIDs /\ pkt.token \in Tokens \cup {None}
        /\ \A s \in SessionEntry(p) : IsSession(s) /\ SessionInv(s)
    BY InboundType, SessionEntryType, EntryInv
  <1>1. CASE RecvDuplicate(p, pkt)
    BY <1>1 DEF RecvDuplicate, taskVars, IndexInv
  <1>2. CASE RecvRequest(p, pkt)
    <2>1. PICK s \in SessionEntry(p) : SetSession(p, RecordRequest(s, pkt))
      BY <1>2 DEF RecvRequest
    <2> DEFINE u == record_inbound_mid(s, pkt.mid)
    <2>2. IsSession(u) /\ SameIndexFields(s, u)
      BY <1>0, RecordInboundMidType, OtherMethodsKeepIndexes
    <2>3. SameIndexFields(u, record_inbound_con(u, pkt.token, pkt.mid))
      BY <2>2, OtherMethodsKeepIndexes
    <2> HIDE DEF u
    <2>4. SameIndexFields(s, RecordRequest(s, pkt))
      BY <2>2, <2>3 DEF RecordRequest, u, SameIndexFields
    <2> QED
      BY <2>1, <2>4, SetSameIndexes
  <1>3. CASE RecvNonRequest(p, pkt)
    <2>1. PICK s \in SessionEntry(p) :
            LET recorded == record_inbound_mid(s, pkt.mid)
                acked == IF pkt.type = "Confirmable"
                         THEN cache_response_for_mid(recorded, pkt.mid, EmptyAck(pkt.mid))
                         ELSE recorded
            IN  \/ SetSession(p, complete_exchange(acked, pkt.token))
                \/ SetSession(p, acked)
      BY <1>3 DEF RecvNonRequest
    <2> DEFINE recorded == record_inbound_mid(s, pkt.mid)
               acked == IF pkt.type = "Confirmable"
                        THEN cache_response_for_mid(recorded, pkt.mid, EmptyAck(pkt.mid))
                        ELSE recorded
    <2>2. IsSession(recorded) /\ SessionInv(recorded)
      <3>1. IsSession(recorded) /\ SameIndexFields(s, recorded)
        BY <1>0, RecordInboundMidType, OtherMethodsKeepIndexes
      <3> HIDE DEF recorded
      <3> QED
        BY <1>0, <3>1, SameIndexFieldsInv
    <2>3. IsSession(acked)
      BY <1>0, <2>2, CacheResponseType, EmptyAckType
    <2> HIDE DEF recorded
    <2>4. SessionInv(acked)
      <3> DEFINE cached == cache_response_for_mid(recorded, pkt.mid, EmptyAck(pkt.mid))
      <3>1. SameIndexFields(recorded, cached)
        BY <2>2, OtherMethodsKeepIndexes
      <3> HIDE DEF cached
      <3>2. SessionInv(cached)
        BY <2>2, <3>1, SameIndexFieldsInv
      <3> QED
        BY <2>2, <3>2 DEF cached
    <2> HIDE DEF acked
    <2>5. SessionInv(complete_exchange(acked, pkt.token))
      BY <2>3, <2>4, RemoveExchangesInv DEF complete_exchange
    <2> QED
      BY <2>1, <2>4, <2>5, SetSessionInv DEF acked, recorded
  <1>4. CASE RecvAck(p, pkt)
    <2>1. PICK s \in SessionEntry(p) :
            SetSession(p, IF pkt.code = "Empty" THEN handle_ack(s, pkt.mid, pkt.code) ELSE s)
      BY <1>4 DEF RecvAck
    <2> QED
      BY <1>0, <2>1, HandleAckInv, SetSessionInv
  <1>5. CASE RecvPiggybacked(p, pkt)
    <2>1. PICK s \in SessionEntry(p) :
            SetSession(p, RemoveExchanges(handle_ack(s, pkt.mid, pkt.code), TokenOf(s, pkt.mid)))
      BY <1>5 DEF RecvPiggybacked
    <2> QED
      BY <1>0, <2>1, HandleAckType, HandleAckInv, RemoveExchangesInv, SetSessionInv
  <1>6. CASE RecvReset(p, pkt)
    <2>1. PICK s \in SessionEntry(p) : SetSession(p, handle_rst(s, pkt.mid))
      BY <1>6 DEF RecvReset
    <2> QED
      BY <1>0, <2>1, HandleRstInv, SetSessionInv
  <1> QED
    BY <1>1, <1>2, <1>3, <1>4, <1>5, <1>6 DEF RecvPacket

LEMMA OutboundRequestIndex ==
  ASSUME TypeOK, IndexInv, OutboundRequest
  PROVE  IndexInv'
  <1> USE DEF TypeOK
  <1> DEFINE r == Head(outbound_requests).request
             p == Head(outbound_requests).peer
  <1>1. Head(outbound_requests) \in [request : Requests, peer : Peers]
    BY HeadTailProperties DEF OutboundRequest
  <1>2. r \in Requests /\ p \in Peers
    BY <1>1
  <1> HIDE DEF r, p
  <1>3. PICK s \in SessionEntry(p), timeout \in ACK_TIMEOUTS :
          LET token  == s.token_allocator.next
              mid    == s.mid_allocator.next
              s1     == allocate_mid(allocate_token(s))
              packet == RequestPacket(r, token, mid)
          IN  SetSession(p, IF r \in ConRequests
                THEN insert_con_exchange(s1, token, mid, new_con(r, mid, packet, timeout))
                ELSE insert_exchange(s1, token, new_non(r)))
    BY DEF OutboundRequest, r, p
  <1> DEFINE token  == s.token_allocator.next
             mid    == s.mid_allocator.next
             s1     == allocate_mid(allocate_token(s))
             packet == RequestPacket(r, token, mid)
             u == insert_con_exchange(s1, token, mid, new_con(r, mid, packet, timeout))
             v == insert_exchange(s1, token, new_non(r))
  <1>4. IsSession(s) /\ SessionInv(s)
    BY <1>2, SessionEntryType, EntryInv
  <1>5. packet \in Packets
    BY <1>2, <1>4, AllocateMidType, AllocateTokenType, RequestsAssumption
    DEF RequestPacket, Packets, MessageTypes, MessageClasses
  <1> HIDE DEF packet
  <1>6. SessionInv(u) /\ SessionInv(v)
    BY <1>2, <1>4, <1>5, NewRequestInv
  <1>7. SetSession(p, IF r \in ConRequests THEN u ELSE v)
    BY <1>3 DEF packet
  <1> HIDE DEF u, v
  <1> QED
    BY <1>6, <1>7, SetSessionInv

LEMMA OutboundResponseIndex ==
  ASSUME TypeOK, IndexInv, NEW encodable \in BOOLEAN, OutboundResponse(encodable)
  PROVE  IndexInv'
  <1> USE DEF TypeOK
  <1> DEFINE request == Head(server_responses).request
             p == Head(server_responses).peer
  <1>1. Head(server_responses) \in ServerMessages
    BY HeadTailProperties DEF OutboundResponse
  <1>2. p \in Peers
    BY <1>1 DEF ServerMessages
  <1> HIDE DEF request, p
  <1>3. PICK s \in SessionEntry(p) :
           LET taken == take_inbound_con_mid(s, request.token) IN
           \/ \E mid, packet : SetSession(p, cache_response_for_mid(taken, mid, packet))
           \/ SetSession(p, taken)
           \/ SetSession(p, allocate_mid(s))
    BY DEF OutboundResponse, request, p
  <1> DEFINE taken == take_inbound_con_mid(s, request.token)
  <1>4. IsSession(s) /\ IsSession(taken)
    BY <1>2, SessionEntryType, TakeInboundConType
  <1>5. SameIndexFields(s, taken) /\ SameIndexFields(s, allocate_mid(s))
    BY <1>4, OtherMethodsKeepIndexes
  <1>6. \A mid, packet : SameIndexFields(taken, cache_response_for_mid(taken, mid, packet))
    BY <1>4, OtherMethodsKeepIndexes
  <1> HIDE DEF taken
  <1>7. \A mid, packet : SameIndexFields(s, cache_response_for_mid(taken, mid, packet))
    BY <1>5, <1>6 DEF SameIndexFields
  <1> QED
    BY <1>3, <1>5, <1>7, SetSameIndexes DEF taken

LEMMA NextIndex == TypeOK /\ IndexInv /\ [Next]_vars => IndexInv'
  <1> SUFFICES ASSUME TypeOK, IndexInv, [Next]_vars PROVE IndexInv'
    OBVIOUS
  <1>0. \A p \in DOMAIN sessions : IsSession(sessions[p]) /\ SessionInv(sessions[p])
    BY DEF TypeOK, SessionsOK, IndexInv
  <1>1. CASE \E p \in Peers, pkt \in InboundPackets : RecvPacket(p, pkt)
    BY <1>1, RecvPacketIndex
  <1>2. CASE OutboundRequest
    BY <1>2, OutboundRequestIndex
  <1>3. CASE OutboundRequestUnencodable
    <2> DEFINE p == Head(outbound_requests).peer
    <2>1. p \in Peers
      <3>1. Head(outbound_requests) \in [request : Requests, peer : Peers]
        BY <1>3, HeadTailProperties DEF OutboundRequestUnencodable, TypeOK
      <3> QED
        BY <3>1
    <2>2. PICK s \in SessionEntry(p) : SetSession(p, allocate_mid(allocate_token(s)))
      BY <1>3 DEF OutboundRequestUnencodable
    <2> HIDE DEF p
    <2>3. IsSession(allocate_token(s)) /\ SessionInv(allocate_token(s))
      BY <2>1, SessionEntryType, EntryInv, AllocateTokenType, AllocateTokenInv DEF TypeOK
    <2> DEFINE t == allocate_token(s)
               u == allocate_mid(t)
    <2> HIDE DEF t
    <2>4. SameIndexFields(t, u)
      BY <2>3, OtherMethodsKeepIndexes DEF t
    <2> HIDE DEF u
    <2>5. SessionInv(u)
      BY <2>3, <2>4, SameIndexFieldsInv DEF t
    <2> QED
      BY <2>2, <2>5, SetSessionInv DEF t, u
  <1>4. CASE \E ok \in BOOLEAN : OutboundResponse(ok)
    BY <1>4, OutboundResponseIndex
  <1>5. CASE RetransmissionTimer
    BY <1>0, <1>5, TimerWorkInv DEF RetransmissionTimer, IndexInv
  <1>6. CASE CleanupTimer
    BY <1>0, <1>6 DEF CleanupTimer, IndexInv, Restrict
  <1>7. CASE StackReturns
    BY <1>7 DEF StackReturns, IndexInv, EmptyMap
  <1>8. CASE Tick
    BY <1>0, <1>8, AgeSessionInv DEF Tick, IndexInv
  <1>9. CASE UNCHANGED sessions
    BY <1>9 DEF IndexInv
  <1>10. (\E r \in Requests, p \in Peers : SendRequest(r, p)) => UNCHANGED sessions
    BY DEF SendRequest, taskVars
  <1>11. (\E r \in Requests : ClientTimeout(r)) => UNCHANGED sessions
    BY DEF ClientTimeout, taskVars
  <1>12. ServerHandle \/ UNCHANGED vars => UNCHANGED sessions
    BY DEF ServerHandle, vars, taskVars
  <1> QED
    BY <1>1, <1>2, <1>3, <1>4, <1>5, <1>6, <1>7, <1>8, <1>9, <1>10, <1>11, <1>12 DEF Next

\* The inductive invariant behind MidIndexSound holds in every behaviour.
THEOREM IndexInvariant == Spec => []IndexInv
  <1>1. Init => IndexInv
    BY DEF Init, IndexInv, EmptyMap
  <1> QED
    BY <1>1, NextIndex, TypeCorrect, PTL DEF Spec

\* While no token of a session was handed out twice, every entry of its MID index
\* leads to an open exchange sent under that MID and still retransmitted,
\* however ACKs, resets, responses, timers and new requests interleave.
THEOREM MidIndexCorrect == Spec => []MidIndexSound
  <1>1. IndexInv => MidIndexSound
    BY DEF IndexInv, MidIndexSound, SessionInv
  <1> QED
    BY <1>1, IndexInvariant, PTL

-----------------------------------------------------------------------------
(* The inductive form.                                                     *)

\* How many allocations ago m was handed out when n comes next.
MidDistance(m, n) == IF m < n THEN n - m ELSE n - m + MID_MODULUS

\* The MID index leads from the MID of exchange t back to t.
Indexed(s, t) ==
  /\ s.exchanges[t].message_id \in DOMAIN s.mid_to_token
  /\ s.mid_to_token[s.exchanges[t].message_id] = t

\* No two open exchanges were sent under one MID.
MidsDistinct(s) ==
  \A t, v \in DOMAIN s.exchanges :
    s.exchanges[t].message_id = s.exchanges[v].message_id =>
      t = v \/ s.exchanges[t].message_id = None

\* The MIDs of the open exchanges are of the allocations made so far, so that
\* a new MID is none of theirs.
MidsAllocated(s) ==
  \A t \in DOMAIN s.exchanges : s.exchanges[t].message_id # None =>
    MidDistance(s.exchanges[t].message_id, s.mid_allocator.next) <= s.mid_allocator.allocated

SessionMids(s) == MidsFresh(s) => FoundByMid(s) /\ MidsDistinct(s) /\ MidsAllocated(s)

MidInv == \A p \in DOMAIN sessions : SessionMids(sessions[p])

-----------------------------------------------------------------------------
(* The methods that allocate no MID.                                       *)

\* Exchanges go or stay under their MID, and the index still leads to the
\* ones that are retransmitted.
MidStep(s, u) ==
  /\ DOMAIN u.exchanges \subseteq DOMAIN s.exchanges
  /\ \A t \in DOMAIN u.exchanges :
       /\ u.exchanges[t].message_id = s.exchanges[t].message_id
       /\ u.exchanges[t].retransmit # None =>
            s.exchanges[t].retransmit # None /\ (Indexed(s, t) => Indexed(u, t))

LEMMA MidStepInv ==
  ASSUME NEW s, NEW u, SessionMids(s), u.mid_allocator = s.mid_allocator,
         MidsFresh(s) => MidStep(s, u)
  PROVE  SessionMids(u)
  <1> SUFFICES ASSUME MidsFresh(u)
               PROVE  FoundByMid(u) /\ MidsDistinct(u) /\ MidsAllocated(u)
    BY DEF SessionMids
  <1>1. MidsFresh(s)
    BY DEF MidsFresh
  <1>2. FoundByMid(u)
    BY <1>1 DEF SessionMids, FoundByMid, MidStep, Indexed
  <1>3. MidsDistinct(u)
    BY <1>1 DEF SessionMids, MidsDistinct, MidStep
  <1>4. MidsAllocated(u)
    BY <1>1 DEF SessionMids, MidsAllocated, MidStep
  <1> QED
    BY <1>2, <1>3, <1>4

LEMMA NewSessionMids ==
  ASSUME NEW m, NEW t
  PROVE  SessionMids(NewSession(m, t))
  BY DEF SessionMids, FoundByMid, MidsDistinct, MidsAllocated, NewSession, EmptyMap

\* The methods that leave the exchanges, the index and the MID counter alone.
SameMidFields(s, u) ==
  /\ u.exchanges = s.exchanges
  /\ u.mid_to_token = s.mid_to_token
  /\ u.mid_allocator = s.mid_allocator

LEMMA SameMidFieldsInv ==
  ASSUME NEW s, NEW u, SessionMids(s), SameMidFields(s, u)
  PROVE  SessionMids(u)
  BY DEF SameMidFields, SessionMids, MidsFresh, FoundByMid, MidsDistinct, MidsAllocated

LEMMA OtherMethodsKeepMids ==
  ASSUME NEW s, IsSession(s), NEW mid, NEW token, NEW packet
  PROVE  /\ SameMidFields(s, allocate_token(s))
         /\ SameMidFields(s, record_inbound_mid(s, mid))
         /\ SameMidFields(s, cache_response_for_mid(s, mid, packet))
         /\ SameMidFields(s, record_inbound_con(s, token, mid))
         /\ SameMidFields(s, take_inbound_con_mid(s, token))
         /\ SameMidFields(s, evict_stale_dedup(s))
  BY DEF SameMidFields, IsSession, allocate_token, record_inbound_mid, cache_response_for_mid,
         record_inbound_con, take_inbound_con_mid, evict_stale_dedup

\* What complete_exchange and the timer leave of the exchanges and the index.
LEMMA RemoveExchangesKeeps ==
  ASSUME NEW s, IsSession(s), NEW T
  PROVE  LET u    == RemoveExchanges(s, T)
             mids == {s.exchanges[t].message_id : t \in T \cap DOMAIN s.exchanges}
         IN  /\ DOMAIN u.exchanges = DOMAIN s.exchanges \ T
             /\ \A t \in DOMAIN u.exchanges : u.exchanges[t] = s.exchanges[t]
             /\ DOMAIN u.mid_to_token = DOMAIN s.mid_to_token \ mids
             /\ \A m \in DOMAIN u.mid_to_token : u.mid_to_token[m] = s.mid_to_token[m]
             /\ u.mid_allocator = s.mid_allocator
  <1> DEFINE u == RemoveExchanges(s, T)
             gone == T \cap DOMAIN s.exchanges
             mids == {s.exchanges[t].message_id : t \in gone}
             x == RemoveAll(s.exchanges, gone)
             y == RemoveAll(s.mid_to_token, mids)
  <1>1. u = WithIndexes(s, x, y)
    BY RemoveExchangesFields
  <1> HIDE DEF u, x, y
  <1>2. u.exchanges = x /\ u.mid_to_token = y /\ u.mid_allocator = s.mid_allocator
    BY <1>1 DEF WithIndexes
  <1> HIDE DEF mids
  <1>3. /\ DOMAIN u.exchanges = DOMAIN s.exchanges \ T
        /\ \A t \in DOMAIN u.exchanges : u.exchanges[t] = s.exchanges[t]
    BY <1>2 DEF x, RemoveAll, Restrict
  <1>4. /\ DOMAIN u.mid_to_token = DOMAIN s.mid_to_token \ mids
        /\ \A m \in DOMAIN u.mid_to_token : u.mid_to_token[m] = s.mid_to_token[m]
    BY <1>2 DEF y, RemoveAll, Restrict
  <1> QED
    BY <1>2, <1>3, <1>4 DEF u, mids

\* Whatever ends exchanges takes the MID entries of these exchanges only.
LEMMA RemoveExchangesMids ==
  ASSUME NEW s, IsSession(s), SessionMids(s), NEW T
  PROVE  SessionMids(RemoveExchanges(s, T))
  <1> DEFINE u == RemoveExchanges(s, T)
             mids == {s.exchanges[t].message_id : t \in T \cap DOMAIN s.exchanges}
  <1>1. /\ DOMAIN u.exchanges = DOMAIN s.exchanges \ T
        /\ \A t \in DOMAIN u.exchanges : u.exchanges[t] = s.exchanges[t]
        /\ DOMAIN u.mid_to_token = DOMAIN s.mid_to_token \ mids
        /\ \A m \in DOMAIN u.mid_to_token : u.mid_to_token[m] = s.mid_to_token[m]
        /\ u.mid_allocator = s.mid_allocator
    BY RemoveExchangesKeeps
  <1> HIDE DEF u, mids
  <1>2. ASSUME MidsFresh(s), NEW t \in DOMAIN u.exchanges, Indexed(s, t)
        PROVE  Indexed(u, t)
    <2>1. s.exchanges[t].message_id \in MIDs
      BY <1>2 DEF Indexed, IsSession, IsMap
    <2>2. s.exchanges[t].message_id # None
      BY <2>1, ModulusAssumption, NoneAssumption DEF MIDs
    <2>3. s.exchanges[t].message_id \notin mids
      BY <1>1, <1>2, <2>2 DEF SessionMids, MidsDistinct, mids
    <2> QED
      BY <1>1, <1>2, <2>3 DEF Indexed
  <1>3. MidsFresh(s) => MidStep(s, u)
    BY <1>1, <1>2 DEF MidStep
  <1> QED
    BY <1>1, <1>3, MidStepInv DEF u

\* An empty ACK takes the MID entry of the exchange that it stops.
LEMMA EmptyAckMids ==
  ASSUME NEW s, IsSession(s), SessionMids(s), NEW mid
  PROVE  SessionMids(handle_ack(s, mid, "Empty"))
  <1> DEFINE u == handle_ack(s, mid, "Empty")
             acked == TokenOf(s, mid) \cap DOMAIN s.exchanges
             x == [t \in DOMAIN s.exchanges |-> IF "Empty" = "Empty" /\ t \in acked
                                                THEN cancel_retransmission(s.exchanges[t])
                                                ELSE s.exchanges[t]]
             y == RemoveAll(s.mid_to_token, {mid})
  <1>0. u = WithIndexes(s, x, y)
    BY HandleAckFields
  <1> HIDE DEF u, x, y
  <1>1. u.exchanges = x /\ u.mid_to_token = y /\ u.mid_allocator = s.mid_allocator
    BY <1>0 DEF WithIndexes
  <1>2. /\ DOMAIN u.exchanges = DOMAIN s.exchanges
        /\ \A t \in DOMAIN s.exchanges \ TokenOf(s, mid) : u.exchanges[t] = s.exchanges[t]
    BY <1>1 DEF x
  <1>3. ASSUME NEW t \in DOMAIN s.exchanges, t \in TokenOf(s, mid)
        PROVE  /\ u.exchanges[t].message_id = s.exchanges[t].message_id
               /\ u.exchanges[t].retransmit = None
    <2>1. s.exchanges[t] \in Exchanges
      BY DEF IsSession, IsMap
    <2>2. u.exchanges[t] = cancel_retransmission(s.exchanges[t])
      BY <1>1, <1>3 DEF x
    <2> QED
      BY <2>1, <2>2 DEF cancel_retransmission, Exchanges
  <1>4. /\ DOMAIN u.mid_to_token = DOMAIN s.mid_to_token \ {mid}
        /\ \A m \in DOMAIN u.mid_to_token : u.mid_to_token[m] = s.mid_to_token[m]
    BY <1>1 DEF y, RemoveAll, Restrict
  <1>5. ASSUME NEW t \in DOMAIN s.exchanges, t \notin TokenOf(s, mid), Indexed(s, t)
        PROVE  Indexed(u, t)
    <2>1. s.exchanges[t].message_id # mid
      BY <1>5 DEF Indexed, TokenOf
    <2> QED
      BY <1>2, <1>4, <1>5, <2>1 DEF Indexed
  <1>6. MidStep(s, u)
    BY <1>2, <1>3, <1>5 DEF MidStep
  <1> QED
    BY <1>1, <1>6, MidStepInv DEF u

\* A reset takes the MID entry and the exchange it leads to.
LEMMA HandleRstMids ==
  ASSUME NEW s, IsSession(s), SessionMids(s), NEW mid
  PROVE  SessionMids(handle_rst(s, mid))
  <1> DEFINE u == handle_rst(s, mid)
             x == RemoveAll(s.exchanges, TokenOf(s, mid))
             y == RemoveAll(s.mid_to_token, {mid})
  <1>0. u = WithIndexes(s, x, y)
    BY HandleRstFields
  <1> HIDE DEF u, x, y
  <1>1. u.exchanges = x /\ u.mid_to_token = y /\ u.mid_allocator = s.mid_allocator
    BY <1>0 DEF WithIndexes
  <1>2. /\ DOMAIN u.exchanges = DOMAIN s.exchanges \ TokenOf(s, mid)
        /\ \A t \in DOMAIN u.exchanges : u.exchanges[t] = s.exchanges[t]
    BY <1>1 DEF x, RemoveAll, Restrict
  <1>3. /\ DOMAIN u.mid_to_token = DOMAIN s.mid_to_token \ {mid}
        /\ \A m \in DOMAIN u.mid_to_token : u.mid_to_token[m] = s.mid_to_token[m]
    BY <1>1 DEF y, RemoveAll, Restrict
  <1>4. ASSUME NEW t \in DOMAIN u.exchanges, Indexed(s, t)
        PROVE  Indexed(u, t)
    <2>1. s.exchanges[t].message_id # mid
      BY <1>2, <1>4 DEF Indexed, TokenOf
    <2> QED
      BY <1>2, <1>3, <1>4, <2>1 DEF Indexed
  <1>5. MidStep(s, u)
    BY <1>2, <1>4 DEF MidStep
  <1> QED
    BY <1>1, <1>5, MidStepInv DEF u

\* A piggybacked response takes the MID entry of the ACK, and with the
\* exchange it leads to, the entry of that exchange.
LEMMA PiggybackedMids ==
  ASSUME NEW s, IsSession(s), SessionMids(s), NEW mid
  PROVE  SessionMids(RemoveExchanges(handle_ack(s, mid, "Response"), TokenOf(s, mid)))
  <1> DEFINE a == handle_ack(s, mid, "Response")
             acked == TokenOf(s, mid) \cap DOMAIN s.exchanges
             x == [t \in DOMAIN s.exchanges |-> IF "Response" = "Empty" /\ t \in acked
                                                THEN cancel_retransmission(s.exchanges[t])
                                                ELSE s.exchanges[t]]
             y == RemoveAll(s.mid_to_token, {mid})
             T == TokenOf(s, mid)
             u == RemoveExchanges(a, T)
             mids == {a.exchanges[t].message_id : t \in T \cap DOMAIN a.exchanges}
  <1>0. a = WithIndexes(s, x, y) /\ IsSession(a)
    BY HandleAckFields, HandleAckType
  <1> HIDE DEF a, x, y, T
  <1>1. a.exchanges = x /\ a.mid_to_token = y /\ a.mid_allocator = s.mid_allocator
    BY <1>0 DEF WithIndexes
  <1>2. /\ DOMAIN a.exchanges = DOMAIN s.exchanges
        /\ \A t \in DOMAIN s.exchanges : a.exchanges[t] = s.exchanges[t]
    BY <1>1 DEF x
  <1>3. /\ DOMAIN a.mid_to_token = DOMAIN s.mid_to_token \ {mid}
        /\ \A m \in DOMAIN a.mid_to_token : a.mid_to_token[m] = s.mid_to_token[m]
    BY <1>1 DEF y, RemoveAll, Restrict
  <1>4. /\ DOMAIN u.exchanges = DOMAIN a.exchanges \ T
        /\ \A t \in DOMAIN u.exchanges : u.exchanges[t] = a.exchanges[t]
        /\ DOMAIN u.mid_to_token = DOMAIN a.mid_to_token \ mids
        /\ \A m \in DOMAIN u.mid_to_token : u.mid_to_token[m] = a.mid_to_token[m]
        /\ u.mid_allocator = a.mid_allocator
    BY <1>0, RemoveExchangesKeeps
  <1> HIDE DEF u, mids
  <1>5. /\ DOMAIN u.exchanges = DOMAIN s.exchanges \ T
        /\ \A t \in DOMAIN u.exchanges : u.exchanges[t] = s.exchanges[t]
        /\ u.mid_allocator = s.mid_allocator
    BY <1>1, <1>2, <1>4
  <1>6. /\ DOMAIN u.mid_to_token = DOMAIN s.mid_to_token \ ({mid} \cup mids)
        /\ \A m \in DOMAIN u.mid_to_token : u.mid_to_token[m] = s.mid_to_token[m]
    BY <1>3, <1>4
  <1>7. ASSUME MidsFresh(s), NEW t \in DOMAIN u.exchanges, Indexed(s, t)
        PROVE  Indexed(u, t)
    <2>1. s.exchanges[t].message_id # mid
      BY <1>5, <1>7 DEF Indexed, TokenOf, T
    <2>2. s.exchanges[t].message_id \in MIDs
      BY <1>7 DEF Indexed, IsSession, IsMap
    <2>3. s.exchanges[t].message_id # None
      BY <2>2, ModulusAssumption, NoneAssumption DEF MIDs
    <2>4. s.exchanges[t].message_id \notin mids
      BY <1>2, <1>5, <1>7, <2>3 DEF SessionMids, MidsDistinct, mids, T
    <2> QED
      BY <1>5, <1>6, <1>7, <2>1, <2>4 DEF Indexed
  <1>8. MidsFresh(s) => MidStep(s, u)
    BY <1>5, <1>7 DEF MidStep
  <1> QED
    BY <1>5, <1>8, MidStepInv DEF u, a, T

\* Replacing exchanges by ones with the same MID that are still being
\* retransmitted only if the old ones were.
LEMMA RewriteExchangesMids ==
  ASSUME NEW s, SessionMids(s), NEW u,
         DOMAIN u.exchanges = DOMAIN s.exchanges,
         u.mid_to_token = s.mid_to_token, u.mid_allocator = s.mid_allocator,
         \A t \in DOMAIN s.exchanges :
           /\ u.exchanges[t].message_id = s.exchanges[t].message_id
           /\ u.exchanges[t].retransmit # None => s.exchanges[t].retransmit # None
  PROVE  SessionMids(u)
  <1>1. MidStep(s, u)
    BY DEF MidStep, Indexed
  <1> QED
    BY <1>1, MidStepInv

LEMMA AdvanceDueMids ==
  ASSUME NEW s, IsSession(s), SessionMids(s)
  PROVE  SessionMids(AdvanceDue(s))
  <1> DEFINE x == [t \in DOMAIN s.exchanges |-> IF t \in ResendTokens(s)
                                               THEN advance_retransmit(s.exchanges[t])
                                               ELSE s.exchanges[t]]
             u == AdvanceDue(s)
  <1>1. u = [s EXCEPT !.exchanges = x]
    BY DEF AdvanceDue
  <1>2. ASSUME NEW t \in DOMAIN s.exchanges
        PROVE  /\ x[t].message_id = s.exchanges[t].message_id
               /\ x[t].retransmit # None => s.exchanges[t].retransmit # None
    <2>1. s.exchanges[t] \in Exchanges
      BY DEF IsSession, IsMap
    <2>2. CASE t \in ResendTokens(s)
      BY <2>1, <2>2 DEF ResendTokens, DueTokens, needs_retransmit, advance_retransmit, Exchanges
    <2>3. CASE t \notin ResendTokens(s)
      BY <2>3
    <2> QED
      BY <2>2, <2>3
  <1> HIDE DEF u, x
  <1>3. /\ u.exchanges = x
        /\ u.mid_to_token = s.mid_to_token
        /\ u.mid_allocator = s.mid_allocator
    BY <1>1 DEF IsSession
  <1>4. DOMAIN x = DOMAIN s.exchanges
    BY DEF x
  <1>5. SessionMids(u)
    BY <1>2, <1>3, <1>4, RewriteExchangesMids
  <1> QED
    BY <1>5 DEF u

LEMMA TimerWorkMids ==
  ASSUME NEW s, IsSession(s), SessionMids(s)
  PROVE  SessionMids(TimerWork(s))
  <1> DEFINE u == collect_retransmissions(s)
             v == evict_stale_dedup(u)
  <1>1. IsSession(u) /\ SessionMids(u)
    BY AdvanceDueType, AdvanceDueMids, RemoveExchangesType, RemoveExchangesMids
    DEF collect_retransmissions
  <1> HIDE DEF u
  <1>2. SameMidFields(u, v)
    BY <1>1, OtherMethodsKeepMids
  <1> HIDE DEF v
  <1>3. SessionMids(v)
    BY <1>1, <1>2, SameMidFieldsInv
  <1> QED
    BY <1>3 DEF TimerWork, u, v

LEMMA AgeSessionMids ==
  ASSUME NEW s, IsSession(s), SessionMids(s)
  PROVE  SessionMids(AgeSession(s))
  <1>1. ASSUME NEW e \in Exchanges
        PROVE  /\ AgeExchange(e).message_id = e.message_id
               /\ AgeExchange(e).retransmit # None => e.retransmit # None
    <2> DEFINE r == IF e.retransmit = None THEN None ELSE AgeRetransmit(e.retransmit)
               x == IF e.expires_at = None THEN None ELSE TickDown(e.expires_at)
    <2>1. AgeExchange(e) = [e EXCEPT !.retransmit = r, !.expires_at = x]
      BY DEF AgeExchange
    <2>2. r # None => e.retransmit # None
      OBVIOUS
    <2> HIDE DEF r, x
    <2>3. AgeExchange(e).message_id = e.message_id /\ AgeExchange(e).retransmit = r
      BY <2>1 DEF Exchanges
    <2> QED
      BY <2>2, <2>3
  <1>2. \A t \in DOMAIN s.exchanges : s.exchanges[t] \in Exchanges
    BY DEF IsSession, IsMap
  <1> DEFINE x == [t \in DOMAIN s.exchanges |-> AgeExchange(s.exchanges[t])]
             y == [m \in DOMAIN s.inbound_dedup |-> AgeEntry(s.inbound_dedup[m])]
             v == [s EXCEPT !.exchanges = x]
             u == AgeSession(s)
  <1>3. u = [v EXCEPT !.inbound_dedup = y]
    BY DEF AgeSession
  <1> HIDE DEF x, y, u
  <1>4. v = WithIndexes(s, x, s.mid_to_token)
    BY DEF IsSession, WithIndexes
  <1> HIDE DEF v
  <1>5. /\ u.exchanges = x
        /\ u.mid_to_token = s.mid_to_token
        /\ u.mid_allocator = s.mid_allocator
    BY <1>3, <1>4 DEF WithIndexes
  <1>6. /\ DOMAIN u.exchanges = DOMAIN s.exchanges
        /\ \A t \in DOMAIN s.exchanges : u.exchanges[t] = AgeExchange(s.exchanges[t])
    BY <1>5 DEF x
  <1>7. SessionMids(u)
    BY <1>1, <1>2, <1>5, <1>6, RewriteExchangesMids
  <1> QED
    BY <1>7 DEF u

-----------------------------------------------------------------------------
(* The allocation of a MID, and the new request sent under it.             *)

\* Handing out a MID moves the MIDs handed out before by one.
LEMMA MidDistanceStep ==
  ASSUME NEW a \in Allocators(MID_MODULUS), NEW m \in MIDs,
         Allocate(a, MID_MODULUS).allocated <= MID_MODULUS
  PROVE  /\ a.allocated < MID_MODULUS
         /\ Allocate(a, MID_MODULUS).allocated = a.allocated + 1
         /\ MidDistance(a.next, Allocate(a, MID_MODULUS).next) = 1
         /\ MidDistance(m, a.next) <= a.allocated =>
              /\ MidDistance(m, Allocate(a, MID_MODULUS).next) <= a.allocated + 1
              /\ m # a.next
  <1> DEFINE n == a.next
             k == a.allocated
  <1>1. /\ n \in 0 .. MID_MODULUS - 1 /\ m \in 0 .. MID_MODULUS - 1
        /\ k \in 0 .. MID_MODULUS + 1
    BY ModulusAssumption DEF Allocators, MIDs
  <1>2. k < MID_MODULUS
    BY <1>1, ModulusAssumption DEF Allocate
  <1>3. Allocate(a, MID_MODULUS) =
          [next |-> IF n = MID_MODULUS - 1 THEN 0 ELSE n + 1, allocated |-> k + 1]
    BY <1>1, <1>2, ModulusAssumption DEF Allocate
  <1>4. MidDistance(m, n) <= k => m # n
    BY <1>1, <1>2, ModulusAssumption DEF MidDistance
  <1> HIDE DEF n, k
  <1>5. CASE n = MID_MODULUS - 1
    BY <1>1, <1>2, <1>3, <1>4, <1>5, ModulusAssumption DEF MidDistance, n, k
  <1>6. CASE n # MID_MODULUS - 1
    BY <1>1, <1>2, <1>3, <1>4, <1>6, ModulusAssumption DEF MidDistance, n, k
  <1> QED
    BY <1>5, <1>6

\* No open exchange has the MID handed out, which is now the last of them.
LEMMA AllocateMids ==
  ASSUME NEW s, IsSession(s), SessionMids(s), NEW u,
         u.exchanges = s.exchanges, u.mid_to_token = s.mid_to_token,
         u.mid_allocator = Allocate(s.mid_allocator, MID_MODULUS)
  PROVE  /\ SessionMids(u)
         /\ MidsFresh(u) =>
              /\ \A t \in DOMAIN u.exchanges :
                   u.exchanges[t].message_id # s.mid_allocator.next
              /\ MidDistance(s.mid_allocator.next, u.mid_allocator.next)
                   <= u.mid_allocator.allocated
  <1> SUFFICES ASSUME MidsFresh(u)
               PROVE  /\ FoundByMid(u) /\ MidsDistinct(u) /\ MidsAllocated(u)
                      /\ \A t \in DOMAIN u.exchanges :
                           u.exchanges[t].message_id # s.mid_allocator.next
                      /\ MidDistance(s.mid_allocator.next, u.mid_allocator.next)
                           <= u.mid_allocator.allocated
    BY DEF SessionMids
  <1>0. /\ s.mid_allocator \in Allocators(MID_MODULUS)
        /\ s.mid_allocator.next \in MIDs
        /\ s.mid_allocator.allocated \in Nat
    BY AllocateMidType DEF IsSession, Allocators
  <1>1. /\ MidsFresh(s)
        /\ u.mid_allocator.allocated = s.mid_allocator.allocated + 1
        /\ MidDistance(s.mid_allocator.next, u.mid_allocator.next) = 1
    BY <1>0, MidDistanceStep, ModulusAssumption DEF MidsFresh
  <1>2. FoundByMid(u) /\ MidsDistinct(u)
    BY <1>1 DEF SessionMids, FoundByMid, MidsDistinct
  <1>3. ASSUME NEW t \in DOMAIN u.exchanges, u.exchanges[t].message_id # None
        PROVE  /\ MidDistance(u.exchanges[t].message_id, u.mid_allocator.next)
                    <= u.mid_allocator.allocated
               /\ u.exchanges[t].message_id # s.mid_allocator.next
    <2>1. u.exchanges[t].message_id \in MIDs
      BY <1>3 DEF IsSession, IsMap, Exchanges
    <2>2. MidDistance(u.exchanges[t].message_id, s.mid_allocator.next)
            <= s.mid_allocator.allocated
      BY <1>1, <1>3 DEF SessionMids, MidsAllocated
    <2> QED
      BY <1>0, <1>1, <2>1, <2>2, MidDistanceStep DEF MidsFresh
  <1>4. s.mid_allocator.next # None
    BY <1>0, ModulusAssumption, NoneAssumption DEF MIDs
  <1>5. \A t \in DOMAIN u.exchanges : u.exchanges[t].message_id # s.mid_allocator.next
    BY <1>3, <1>4
  <1> QED
    BY <1>0, <1>1, <1>2, <1>3, <1>5 DEF MidsAllocated

\* An exchange goes in, over an open one or not, under a MID of its own and
\* with an entry of the index, or under none and without retransmission.
LEMMA InsertMids ==
  ASSUME NEW s, IsSession(s), SessionMids(s), NEW e \in Exchanges, NEW n \in Tokens,
         NEW mid \in MIDs, NEW u,
         MidsFresh(s) =>
           /\ \A t \in DOMAIN s.exchanges : s.exchanges[t].message_id # mid
           /\ MidDistance(mid, s.mid_allocator.next) <= s.mid_allocator.allocated,
         u.exchanges = Insert(s.exchanges, n, e),
         u.mid_allocator = s.mid_allocator,
         \/ /\ u.mid_to_token = s.mid_to_token
            /\ e.message_id = None
            /\ e.retransmit = None
         \/ /\ u.mid_to_token = Insert(s.mid_to_token, mid, n)
            /\ e.message_id = mid
  PROVE  SessionMids(u)
  <1> SUFFICES ASSUME MidsFresh(u)
               PROVE  FoundByMid(u) /\ MidsDistinct(u) /\ MidsAllocated(u)
    BY DEF SessionMids
  <1>1. MidsFresh(s)
    BY DEF MidsFresh
  <1>2. /\ DOMAIN u.exchanges = DOMAIN s.exchanges \cup {n}
        /\ u.exchanges[n] = e
        /\ \A t \in DOMAIN s.exchanges : t # n => u.exchanges[t] = s.exchanges[t]
    <2>1. IsMap(s.exchanges, Tokens, Exchanges)
      BY DEF IsSession
    <2> QED
      BY ONLY <2>1, u.exchanges = Insert(s.exchanges, n, e) DEF Insert, IsMap
  <1>3. e.message_id \in {None, mid}
    OBVIOUS
  <1>4. /\ \A m \in DOMAIN s.mid_to_token : m # mid =>
              m \in DOMAIN u.mid_to_token /\ u.mid_to_token[m] = s.mid_to_token[m]
        /\ e.retransmit # None => mid \in DOMAIN u.mid_to_token /\ u.mid_to_token[mid] = n
                                  /\ e.message_id = mid
    <2>1. CASE u.mid_to_token = s.mid_to_token /\ e.retransmit = None
      BY <2>1
    <2>2. CASE u.mid_to_token = Insert(s.mid_to_token, mid, n) /\ e.message_id = mid
      <3>1. /\ DOMAIN u.mid_to_token = DOMAIN s.mid_to_token \cup {mid}
            /\ u.mid_to_token[mid] = n
            /\ \A x \in DOMAIN s.mid_to_token : x # mid => u.mid_to_token[x] = s.mid_to_token[x]
        BY <2>2, InsertType DEF IsSession
      <3> QED
        BY <2>2, <3>1
    <2> QED
      BY <2>1, <2>2
  <1>5. FoundByMid(u)
    <2> SUFFICES ASSUME NEW t \in DOMAIN u.exchanges, u.exchanges[t].retransmit # None
                 PROVE  /\ u.exchanges[t].message_id \in DOMAIN u.mid_to_token
                        /\ u.mid_to_token[u.exchanges[t].message_id] = t
      BY DEF FoundByMid
    <2>1. CASE t = n
      BY <1>2, <1>4, <2>1
    <2>2. CASE t # n
      BY <1>1, <1>2, <1>4, <2>2 DEF SessionMids, FoundByMid
    <2> QED
      BY <2>1, <2>2
  <1>6. MidsDistinct(u)
    BY <1>1, <1>2, <1>3 DEF SessionMids, MidsDistinct
  <1>7. MidsAllocated(u)
    BY <1>1, <1>2, <1>3 DEF SessionMids, MidsAllocated
  <1> QED
    BY <1>5, <1>6, <1>7

\* A new request, confirmable or not, with the session as the arm builds it.
LEMMA NewRequestMids ==
  ASSUME NEW s, IsSession(s), SessionMids(s), NEW r \in Requests, NEW packet \in Packets,
         NEW timeout \in ACK_TIMEOUTS
  PROVE  LET token == s.token_allocator.next
             mid   == s.mid_allocator.next
             s1    == allocate_mid(allocate_token(s))
         IN  /\ SessionMids(s1)
             /\ SessionMids(insert_con_exchange(s1, token, mid, new_con(r, mid, packet, timeout)))
             /\ SessionMids(insert_exchange(s1, token, new_non(r)))
  <1> DEFINE token == s.token_allocator.next
             mid   == s.mid_allocator.next
             s1    == allocate_mid(allocate_token(s))
             con   == new_con(r, mid, packet, timeout)
             non   == new_non(r)
             u     == insert_con_exchange(s1, token, mid, con)
             v     == insert_exchange(s1, token, non)
  <1>1. IsSession(s1) /\ token \in Tokens /\ mid \in MIDs
    BY AllocateMidType, AllocateTokenType
  <1>2. /\ con \in Exchanges /\ con.message_id = mid
        /\ non \in Exchanges /\ non.message_id = None /\ non.retransmit = None
    <2>1. con \in Exchanges /\ non \in Exchanges
      BY <1>1, NewConType, NewNonType
    <2> QED
      BY <2>1 DEF new_con, new_non
  <1>3. /\ s1.exchanges = s.exchanges
        /\ s1.mid_to_token = s.mid_to_token
        /\ s1.mid_allocator = Allocate(s.mid_allocator, MID_MODULUS)
    BY DEF allocate_mid, allocate_token, IsSession
  <1> HIDE DEF s1, con, non, token
  <1>4. /\ SessionMids(s1)
        /\ MidsFresh(s1) =>
             /\ \A t \in DOMAIN s1.exchanges : s1.exchanges[t].message_id # mid
             /\ MidDistance(mid, s1.mid_allocator.next) <= s1.mid_allocator.allocated
    BY <1>3, AllocateMids
  <1> HIDE DEF mid
  <1>5. SessionMids(u)
    <2>1. u = WithIndexes(s1, Insert(s1.exchanges, token, con), Insert(s1.mid_to_token, mid, token))
      BY <1>1, <1>2, InsertConExchangeFields
    <2> HIDE DEF u
    <2>2. /\ u.exchanges = Insert(s1.exchanges, token, con)
          /\ u.mid_to_token = Insert(s1.mid_to_token, mid, token)
          /\ u.mid_allocator = s1.mid_allocator
      BY <2>1 DEF WithIndexes
    <2> QED
      BY <1>1, <1>2, <1>4, <2>2, InsertMids
  <1>6. SessionMids(v)
    <2>1. /\ v.exchanges = Insert(s1.exchanges, token, non)
          /\ v.mid_to_token = s1.mid_to_token
          /\ v.mid_allocator = s1.mid_allocator
      BY <1>1 DEF insert_exchange, IsSession
    <2> HIDE DEF v
    <2> QED
      BY <1>1, <1>2, <1>4, <2>1, InsertMids
  <1> QED
    BY <1>4, <1>5, <1>6 DEF s1, con, non, token, mid

-----------------------------------------------------------------------------
(* The MIDs of all sessions, action by action.                             *)

LEMMA EntryMids ==
  ASSUME MidInv, NEW p, NEW s \in SessionEntry(p)
  PROVE  SessionMids(s)
  BY NewSessionMids DEF MidInv, SessionEntry

LEMMA SetSessionMids ==
  ASSUME MidInv, NEW p, NEW s, SessionMids(s), SetSession(p, s)
  PROVE  MidInv'
  BY DEF MidInv, SetSession, Insert

LEMMA RecvPacketMids ==
  ASSUME TypeOK, MidInv, NEW p \in Peers, NEW pkt \in InboundPackets, RecvPacket(p, pkt)
  PROVE  MidInv'
  <1> USE DEF TypeOK
  <1>0. /\ pkt \in Packets /\ pkt.mid \in MIDs /\ pkt.token \in Tokens \cup {None}
        /\ \A s \in SessionEntry(p) : IsSession(s) /\ SessionMids(s)
    BY InboundType, SessionEntryType, EntryMids
  <1>1. CASE RecvDuplicate(p, pkt)
    BY <1>1 DEF RecvDuplicate, taskVars, MidInv
  <1>2. CASE RecvRequest(p, pkt)
    <2>1. PICK s \in SessionEntry(p) : SetSession(p, RecordRequest(s, pkt))
      BY <1>2 DEF RecvRequest
    <2> DEFINE u == record_inbound_mid(s, pkt.mid)
               v == record_inbound_con(u, pkt.token, pkt.mid)
    <2>2. IsSession(u) /\ SameMidFields(s, u)
      BY <1>0, RecordInboundMidType, OtherMethodsKeepMids
    <2> HIDE DEF u
    <2>3. SameMidFields(u, v)
      BY <2>2, OtherMethodsKeepMids
    <2> HIDE DEF v
    <2>4. SessionMids(u) /\ SessionMids(v)
      BY <1>0, <2>2, <2>3, SameMidFieldsInv DEF SameMidFields
    <2>5. SessionMids(RecordRequest(s, pkt))
      BY <2>4 DEF RecordRequest, u, v
    <2> QED
      BY <2>1, <2>5, SetSessionMids
  <1>3. CASE RecvNonRequest(p, pkt)
    <2>1. PICK s \in SessionEntry(p) :
            LET recorded == record_inbound_mid(s, pkt.mid)
                acked == IF pkt.type = "Confirmable"
                         THEN cache_response_for_mid(recorded, pkt.mid, EmptyAck(pkt.mid))
                         ELSE recorded
            IN  \/ SetSession(p, complete_exchange(acked, pkt.token))
                \/ SetSession(p, acked)
      BY <1>3 DEF RecvNonRequest
    <2> DEFINE recorded == record_inbound_mid(s, pkt.mid)
               cached == cache_response_for_mid(recorded, pkt.mid, EmptyAck(pkt.mid))
               acked == IF pkt.type = "Confirmable" THEN cached ELSE recorded
    <2>2. IsSession(recorded) /\ SameMidFields(s, recorded)
      BY <1>0, RecordInboundMidType, OtherMethodsKeepMids
    <2> HIDE DEF recorded
    <2>3. IsSession(cached) /\ SameMidFields(recorded, cached)
      BY <1>0, <2>2, CacheResponseType, EmptyAckType, OtherMethodsKeepMids
    <2> HIDE DEF cached
    <2>4. SessionMids(recorded)
      BY <1>0, <2>2, SameMidFieldsInv
    <2>5. SessionMids(cached)
      BY <2>3, <2>4, SameMidFieldsInv
    <2>6. IsSession(acked) /\ SessionMids(acked)
      BY <2>2, <2>3, <2>4, <2>5
    <2> HIDE DEF acked
    <2>7. SessionMids(complete_exchange(acked, pkt.token))
      BY <2>6, RemoveExchangesMids DEF complete_exchange
    <2> QED
      BY <2>1, <2>6, <2>7, SetSessionMids DEF acked, cached, recorded
  <1>4. CASE RecvAck(p, pkt)
    <2>1. PICK s \in SessionEntry(p) :
            SetSession(p, IF pkt.code = "Empty" THEN handle_ack(s, pkt.mid, pkt.code) ELSE s)
      BY <1>4 DEF RecvAck
    <2> QED
      BY <1>0, <2>1, EmptyAckMids, SetSessionMids
  <1>5. CASE RecvPiggybacked(p, pkt)
    <2>1. PICK s \in SessionEntry(p) :
            SetSession(p, RemoveExchanges(handle_ack(s, pkt.mid, "Response"),
                                          TokenOf(s, pkt.mid)))
      BY <1>5 DEF RecvPiggybacked
    <2> QED
      BY <1>0, <2>1, PiggybackedMids, SetSessionMids
  <1>6. CASE RecvReset(p, pkt)
    <2>1. PICK s \in SessionEntry(p) : SetSession(p, handle_rst(s, pkt.mid))
      BY <1>6 DEF RecvReset
    <2> QED
      BY <1>0, <2>1, HandleRstMids, SetSessionMids
  <1> QED
    BY <1>1, <1>2, <1>3, <1>4, <1>5, <1>6 DEF RecvPacket

LEMMA OutboundRequestMids ==
  ASSUME TypeOK, MidInv, OutboundRequest
  PROVE  MidInv'
  <1> USE DEF TypeOK
  <1> DEFINE r == Head(outbound_requests).request
             p == Head(outbound_requests).peer
  <1>1. Head(outbound_requests) \in [request : Requests, peer : Peers]
    BY HeadTailProperties DEF OutboundRequest
  <1>2. r \in Requests /\ p \in Peers
    BY <1>1
  <1> HIDE DEF r, p
  <1>3. PICK s \in SessionEntry(p), timeout \in ACK_TIMEOUTS :
          LET token  == s.token_allocator.next
              mid    == s.mid_allocator.next
              s1     == allocate_mid(allocate_token(s))
              packet == RequestPacket(r, token, mid)
          IN  SetSession(p, IF r \in ConRequests
                THEN insert_con_exchange(s1, token, mid, new_con(r, mid, packet, timeout))
                ELSE insert_exchange(s1, token, new_non(r)))
    BY DEF OutboundRequest, r, p
  <1> DEFINE token  == s.token_allocator.next
             mid    == s.mid_allocator.next
             s1     == allocate_mid(allocate_token(s))
             packet == RequestPacket(r, token, mid)
             u == insert_con_exchange(s1, token, mid, new_con(r, mid, packet, timeout))
             v == insert_exchange(s1, token, new_non(r))
  <1>4. IsSession(s) /\ SessionMids(s)
    BY <1>2, SessionEntryType, EntryMids
  <1>5. packet \in Packets
    BY <1>2, <1>4, AllocateMidType, AllocateTokenType, RequestsAssumption
    DEF RequestPacket, Packets, MessageTypes, MessageClasses
  <1> HIDE DEF packet
  <1>6. SessionMids(u) /\ SessionMids(v)
    BY <1>2, <1>4, <1>5, NewRequestMids
  <1>7. SetSession(p, IF r \in ConRequests THEN u ELSE v)
    BY <1>3 DEF packet
  <1> HIDE DEF u, v
  <1> QED
    BY <1>6, <1>7, SetSessionMids

LEMMA OutboundRequestUnencodableMids ==
  ASSUME TypeOK, MidInv, OutboundRequestUnencodable
  PROVE  MidInv'
  <1> DEFINE p == Head(outbound_requests).peer
  <1>1. p \in Peers
    <2>1. Head(outbound_requests) \in [request : Requests, peer : Peers]
      BY HeadTailProperties DEF OutboundRequestUnencodable, TypeOK
    <2> QED
      BY <2>1
  <1>2. PICK s \in SessionEntry(p) : SetSession(p, allocate_mid(allocate_token(s)))
    BY DEF OutboundRequestUnencodable
  <1> HIDE DEF p
  <1>3. IsSession(s) /\ SessionMids(s)
    BY <1>1, SessionEntryType, EntryMids DEF TypeOK
  <1> DEFINE u == allocate_mid(allocate_token(s))
  <1>4. /\ u.exchanges = s.exchanges
        /\ u.mid_to_token = s.mid_to_token
        /\ u.mid_allocator = Allocate(s.mid_allocator, MID_MODULUS)
    BY <1>3 DEF allocate_mid, allocate_token, IsSession
  <1> HIDE DEF u
  <1>5. SessionMids(u)
    BY <1>3, <1>4, AllocateMids
  <1> QED
    BY <1>2, <1>5, SetSessionMids DEF u

\* A separate response takes a MID of the counter the requests use.
LEMMA OutboundResponseMids ==
  ASSUME TypeOK, MidInv, NEW encodable \in BOOLEAN, OutboundResponse(encodable)
  PROVE  MidInv'
  <1> USE DEF TypeOK
  <1> DEFINE request == Head(server_responses).request
             p == Head(server_responses).peer
  <1>1. Head(server_responses) \in ServerMessages
    BY HeadTailProperties DEF OutboundResponse
  <1>2. p \in Peers
    BY <1>1 DEF ServerMessages
  <1> HIDE DEF request, p
  <1>3. PICK s \in SessionEntry(p) :
           LET taken == take_inbound_con_mid(s, request.token) IN
           \/ \E mid, packet : SetSession(p, cache_response_for_mid(taken, mid, packet))
           \/ SetSession(p, taken)
           \/ SetSession(p, allocate_mid(s))
    BY DEF OutboundResponse, request, p
  <1> DEFINE taken == take_inbound_con_mid(s, request.token)
             u == allocate_mid(s)
  <1>4. IsSession(s) /\ SessionMids(s) /\ IsSession(taken)
    BY <1>2, SessionEntryType, EntryMids, TakeInboundConType
  <1>5. SameMidFields(s, taken)
    BY <1>4, OtherMethodsKeepMids
  <1> HIDE DEF taken
  <1>6. \A mid, packet : SameMidFields(taken, cache_response_for_mid(taken, mid, packet))
    BY <1>4, OtherMethodsKeepMids
  <1>7. SessionMids(taken)
    BY <1>4, <1>5, SameMidFieldsInv
  <1>8. \A mid, packet : SessionMids(cache_response_for_mid(taken, mid, packet))
    BY <1>6, <1>7, SameMidFieldsInv
  <1>9. SessionMids(u)
    <2>1. /\ u.exchanges = s.exchanges
          /\ u.mid_to_token = s.mid_to_token
          /\ u.mid_allocator = Allocate(s.mid_allocator, MID_MODULUS)
      BY <1>4 DEF allocate_mid, IsSession
    <2> HIDE DEF u
    <2> QED
      BY <1>4, <2>1, AllocateMids
  <1> QED
    BY <1>3, <1>7, <1>8, <1>9, SetSessionMids DEF taken

LEMMA NextMids == TypeOK /\ MidInv /\ [Next]_vars => MidInv'
  <1> SUFFICES ASSUME TypeOK, MidInv, [Next]_vars PROVE MidInv'
    OBVIOUS
  <1>0. \A p \in DOMAIN sessions : IsSession(sessions[p]) /\ SessionMids(sessions[p])
    BY DEF TypeOK, SessionsOK, MidInv
  <1>1. CASE \E p \in Peers, pkt \in InboundPackets : RecvPacket(p, pkt)
    BY <1>1, RecvPacketMids
  <1>2. CASE OutboundRequest
    BY <1>2, OutboundRequestMids
  <1>3. CASE OutboundRequestUnencodable
    BY <1>3, OutboundRequestUnencodableMids
  <1>4. CASE \E ok \in BOOLEAN : OutboundResponse(ok)
    BY <1>4, OutboundResponseMids
  <1>5. CASE RetransmissionTimer
    BY <1>0, <1>5, TimerWorkMids DEF RetransmissionTimer, MidInv
  <1>6. CASE CleanupTimer
    BY <1>0, <1>6 DEF CleanupTimer, MidInv, Restrict
  <1>7. CASE StackReturns
    BY <1>7 DEF StackReturns, MidInv, EmptyMap
  <1>8. CASE Tick
    BY <1>0, <1>8, AgeSessionMids DEF Tick, MidInv
  <1>9. CASE UNCHANGED sessions
    BY <1>9 DEF MidInv
  <1>10. (\E r \in Requests, p \in Peers : SendRequest(r, p)) => UNCHANGED sessions
    BY DEF SendRequest, taskVars
  <1>11. (\E r \in Requests : ClientTimeout(r)) => UNCHANGED sessions
    BY DEF ClientTimeout, taskVars
  <1>12. ServerHandle \/ UNCHANGED vars => UNCHANGED sessions
    BY DEF ServerHandle, vars, taskVars
  <1> QED
    BY <1>1, <1>2, <1>3, <1>4, <1>5, <1>6, <1>7, <1>8, <1>9, <1>10, <1>11, <1>12 DEF Next

\* While no MID of a session was handed out twice, an exchange that is
\* still being retransmitted is found under its MID, so that an ACK or an RST
\* of the peer stops it, however the arms, the answers and token reuse (an
\* insertion over an open exchange) interleave.
THEOREM RetransmittingIndexed == Spec => []RetransmittingIsIndexed
  <1>1. Init => MidInv
    BY DEF Init, MidInv, EmptyMap
  <1>2. MidInv => RetransmittingIsIndexed
    BY DEF MidInv, SessionMids, RetransmittingIsIndexed
  <1> QED
    BY <1>1, <1>2, NextMids, TypeCorrect, PTL DEF Spec

=============================================================================
