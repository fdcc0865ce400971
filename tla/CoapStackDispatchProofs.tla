---------------------- MODULE CoapStackDispatchProofs ----------------------
(***************************************************************************)
(* The server's side of the stack, for every value of the constants: a      *)
(* request is dispatched at most once per EXCHANGE_LIFETIME and message ID, *)
(* the answer taken from the server answers the request it is for, and so   *)
(* does the answer cached for the duplicates of a request.                  *)
(***************************************************************************)
EXTENDS CoapStackProofs

-----------------------------------------------------------------------------
(* The duplicate table of one session, method by method.                   *)

\* Every entry of s that is not stale is in u, with the same age.
KeepsEntries(s, u) ==
  \A m \in DOMAIN s.inbound_dedup : s.inbound_dedup[m].age < EXCHANGE_LIFETIME =>
    /\ m \in DOMAIN u.inbound_dedup
    /\ u.inbound_dedup[m].age = s.inbound_dedup[m].age

LEMMA SameTable ==
  ASSUME NEW s, NEW u, u.inbound_dedup = s.inbound_dedup
  PROVE  KeepsEntries(s, u)
  BY DEF KeepsEntries

LEMMA KeepsTransitive ==
  ASSUME NEW s, NEW u, NEW v, KeepsEntries(s, u), KeepsEntries(u, v)
  PROVE  KeepsEntries(s, v)
  BY DEF KeepsEntries

\* The methods that do not touch the table.
LEMMA SimpleMethodsKeepTable ==
  ASSUME NEW s, IsSession(s), NEW mid, NEW token
  PROVE  /\ allocate_mid(s).inbound_dedup = s.inbound_dedup
         /\ allocate_token(s).inbound_dedup = s.inbound_dedup
         /\ record_inbound_con(s, token, mid).inbound_dedup = s.inbound_dedup
         /\ take_inbound_con_mid(s, token).inbound_dedup = s.inbound_dedup
         /\ AdvanceDue(s).inbound_dedup = s.inbound_dedup
  BY DEF IsSession, allocate_mid, allocate_token, record_inbound_con, take_inbound_con_mid,
         AdvanceDue

LEMMA IndexMethodsKeepTable ==
  ASSUME NEW s, IsSession(s), NEW mid, NEW code, NEW T
  PROVE  /\ handle_ack(s, mid, code).inbound_dedup = s.inbound_dedup
         /\ handle_rst(s, mid).inbound_dedup = s.inbound_dedup
         /\ RemoveExchanges(s, T).inbound_dedup = s.inbound_dedup
  <1>1. ASSUME NEW u, \E x, y : u = WithIndexes(s, x, y)
        PROVE  u.inbound_dedup = s.inbound_dedup
    BY <1>1, WithIndexesFields
  <1>2. \E x, y : handle_ack(s, mid, code) = WithIndexes(s, x, y)
    <2> DEFINE acked == TokenOf(s, mid) \cap DOMAIN s.exchanges
               x == [t \in DOMAIN s.exchanges |-> IF code = "Empty" /\ t \in acked
                                                  THEN cancel_retransmission(s.exchanges[t])
                                                  ELSE s.exchanges[t]]
    <2>1. handle_ack(s, mid, code) = WithIndexes(s, x, RemoveAll(s.mid_to_token, {mid}))
      BY HandleAckFields
    <2> HIDE DEF x
    <2> QED
      BY <2>1
  <1>3. \E x, y : handle_rst(s, mid) = WithIndexes(s, x, y)
    BY HandleRstFields
  <1>4. \E x, y : RemoveExchanges(s, T) = WithIndexes(s, x, y)
    BY RemoveExchangesFields
  <1> QED
    BY <1>1, <1>2, <1>3, <1>4

LEMMA InsertKeepsTable ==
  ASSUME NEW s, IsSession(s), NEW token, NEW e
  PROVE  insert_exchange(s, token, e).inbound_dedup = s.inbound_dedup
  BY DEF IsSession, insert_exchange

LEMMA InsertConKeepsTable ==
  ASSUME NEW s, IsSession(s), NEW token \in Tokens, NEW mid \in MIDs, NEW e \in Exchanges
  PROVE  insert_con_exchange(s, token, mid, e).inbound_dedup = s.inbound_dedup
  BY InsertConExchangeFields, WithIndexesFields

\* A new MID goes into the table with age 0 and leaves the others alone.
LEMMA RecordKeepsEntries ==
  ASSUME NEW s, IsSession(s), NEW mid \in MIDs
  PROVE  LET u == record_inbound_mid(s, mid)
         IN  /\ ~ is_duplicate(s, mid) => KeepsEntries(s, u)
             /\ DOMAIN u.inbound_dedup = DOMAIN s.inbound_dedup \cup {mid}
             /\ u.inbound_dedup[mid].age = 0
             /\ \A m \in DOMAIN s.inbound_dedup : m # mid =>
                  u.inbound_dedup[m] = s.inbound_dedup[m]
  <1> DEFINE u == record_inbound_mid(s, mid)
  <1>1. u.inbound_dedup = Insert(s.inbound_dedup, mid, NewDedupEntry)
    BY DEF record_inbound_mid, IsSession
  <1>2. NewDedupEntry.age = 0
    BY DEF NewDedupEntry
  <1> HIDE DEF u
  <1>3. /\ DOMAIN u.inbound_dedup = DOMAIN s.inbound_dedup \cup {mid}
        /\ u.inbound_dedup[mid] = NewDedupEntry
        /\ \A m \in DOMAIN s.inbound_dedup : m # mid => u.inbound_dedup[m] = s.inbound_dedup[m]
    BY <1>1 DEF Insert
  <1> QED
    BY <1>2, <1>3 DEF KeepsEntries, is_duplicate, u

\* Caching a response changes no age.
LEMMA CacheKeepsEntries ==
  ASSUME NEW s, IsSession(s), NEW mid, NEW packet
  PROVE  LET u == cache_response_for_mid(s, mid, packet)
         IN  /\ KeepsEntries(s, u)
             /\ DOMAIN u.inbound_dedup = DOMAIN s.inbound_dedup
  <1> DEFINE d == s.inbound_dedup
             x == [d EXCEPT ![mid].cached_response = packet]
             u == cache_response_for_mid(s, mid, packet)
  <1>1. u = IF mid \in DOMAIN d THEN [s EXCEPT !.inbound_dedup = x] ELSE s
    BY DEF cache_response_for_mid
  <1>2. DOMAIN x = DOMAIN d /\ \A m \in DOMAIN d : x[m].age = d[m].age
    BY DEF IsSession, IsMap, DedupEntries
  <1> HIDE DEF x, u
  <1>3. u.inbound_dedup = IF mid \in DOMAIN d THEN x ELSE d
    BY <1>1 DEF IsSession
  <1> QED
    BY <1>2, <1>3 DEF KeepsEntries, u

\* The retransmission timer takes stale entries only.
LEMMA TimerKeepsEntries ==
  ASSUME NEW s, IsSession(s)
  PROVE  KeepsEntries(s, TimerWork(s))
  <1> DEFINE a == AdvanceDue(s)
             u == collect_retransmissions(s)
  <1>1. IsSession(a) /\ a.inbound_dedup = s.inbound_dedup
    BY AdvanceDueType, SimpleMethodsKeepTable
  <1> HIDE DEF a
  <1>2. IsSession(u) /\ u.inbound_dedup = s.inbound_dedup
    BY <1>1, RemoveExchangesType, IndexMethodsKeepTable DEF collect_retransmissions, a
  <1> HIDE DEF u
  <1>3. TimerWork(s).inbound_dedup = RemoveAll(s.inbound_dedup,
          {m \in DOMAIN s.inbound_dedup : s.inbound_dedup[m].age >= EXCHANGE_LIFETIME})
    BY <1>2, EvictFields DEF TimerWork, u
  <1>4. \A m \in DOMAIN s.inbound_dedup : s.inbound_dedup[m].age \in 0 .. EXCHANGE_LIFETIME
    BY DEF IsSession, IsMap, DedupEntries
  <1>5. \A m \in DOMAIN s.inbound_dedup : s.inbound_dedup[m].age < EXCHANGE_LIFETIME =>
          ~ (s.inbound_dedup[m].age >= EXCHANGE_LIFETIME)
    BY <1>4, TimingAssumption
  <1> QED
    BY <1>3, <1>5 DEF KeepsEntries, RemoveAll, Restrict

-----------------------------------------------------------------------------
(* The dispatch history, action by action.                                 *)

\* The history of peer p is kept by a session of that peer.
Remembers(s, h) ==
  \A m \in DOMAIN h :
    /\ m \in DOMAIN s.inbound_dedup
    /\ s.inbound_dedup[m].age = h[m].age
    /\ h[m].age < EXCHANGE_LIFETIME

LEMMA KeptIsRemembered ==
  ASSUME NEW s, NEW u, NEW h, Remembers(s, h), KeepsEntries(s, u)
  PROVE  Remembers(u, h)
  BY DEF Remembers, KeepsEntries

\* The session an arm works on remembers what it found in the history.
LEMMA EntryRemembers ==
  ASSUME TypeOK, SeenInv, running, NEW p \in Peers, NEW s \in SessionEntry(p)
  PROVE  Remembers(s, seen[p])
  <1>1. CASE p \in DOMAIN sessions
    BY <1>1 DEF SeenInv, SessionEntry, Remembers
  <1>2. CASE p \notin DOMAIN sessions
    BY <1>2 DEF SeenInv, Remembers
  <1> QED
    BY <1>1, <1>2

\* An arm that stores a session of one peer.
LEMMA SetRemembers ==
  ASSUME TypeOK, SeenInv, running, NEW p \in Peers, NEW u, SetSession(p, u),
         \A q \in Peers \ {p} : seen'[q] = seen[q], Remembers(u, seen'[p])
  PROVE  SeenInv'
  <1>1. ASSUME NEW q \in Peers, NEW m \in DOMAIN seen'[q]
        PROVE  /\ q \in DOMAIN sessions'
               /\ m \in DOMAIN sessions'[q].inbound_dedup
               /\ sessions'[q].inbound_dedup[m].age = seen'[q][m].age
               /\ seen'[q][m].age < EXCHANGE_LIFETIME
    <2>1. CASE q = p
      <3>1. p \in DOMAIN sessions' /\ sessions'[p] = u
        BY DEF SetSession, Insert
      <3> QED
        BY <2>1, <3>1 DEF Remembers
    <2>2. CASE q # p
      <3>1. seen'[q] = seen[q]
        BY <2>2
      <3>2. /\ q \in DOMAIN sessions
            /\ m \in DOMAIN sessions[q].inbound_dedup
            /\ sessions[q].inbound_dedup[m].age = seen[q][m].age
            /\ seen[q][m].age < EXCHANGE_LIFETIME
        BY <3>1 DEF SeenInv
      <3>3. q \in DOMAIN sessions' /\ sessions'[q] = sessions[q]
        BY <2>2, <3>2 DEF SetSession, Insert
      <3> QED
        BY <3>1, <3>2, <3>3
    <2> QED
      BY <2>1, <2>2
  <1> QED
    BY <1>1 DEF SeenInv

\* An arm that stores a session and leaves the history alone.
LEMMA SetKeeps ==
  ASSUME TypeOK, SeenInv, running, NEW p \in Peers, NEW s \in SessionEntry(p), NEW u,
         KeepsEntries(s, u), SetSession(p, u), seen' = seen
  PROVE  SeenInv'
  BY EntryRemembers, KeptIsRemembered, SetRemembers

\* A new request enters the table and the history together.
LEMMA RecvRequestSeen ==
  ASSUME TypeOK, SeenInv, NEW p \in Peers, NEW pkt \in InboundPackets, RecvRequest(p, pkt)
  PROVE  SeenInv'
  <1>0. running /\ pkt.mid \in MIDs
    BY InboundType DEF Selecting, RecvRequest
  <1>1. PICK s \in SessionEntry(p) :
          ~ is_duplicate(s, pkt.mid) /\ SetSession(p, RecordRequest(s, pkt))
    BY DEF RecvRequest
  <1> DEFINE recorded == record_inbound_mid(s, pkt.mid)
             kept == record_inbound_con(recorded, pkt.token, pkt.mid)
             u == RecordRequest(s, pkt)
             h == Insert(seen[p], pkt.mid,
                    [request |-> pkt, age |-> 0,
                     overdue |-> \E q \in Unanswered(p) : q.mid = pkt.mid])
  <1>2. IsSession(s) /\ Remembers(s, seen[p])
    BY <1>0, SessionEntryType, EntryRemembers DEF TypeOK
  <1>3. IsSession(recorded)
    BY <1>0, <1>2, RecordInboundMidType
  <1>4. /\ DOMAIN recorded.inbound_dedup = DOMAIN s.inbound_dedup \cup {pkt.mid}
        /\ recorded.inbound_dedup[pkt.mid].age = 0
        /\ \A m \in DOMAIN s.inbound_dedup : m # pkt.mid =>
             recorded.inbound_dedup[m] = s.inbound_dedup[m]
    BY <1>0, <1>2, RecordKeepsEntries
  <1> HIDE DEF recorded
  <1>5. kept.inbound_dedup = recorded.inbound_dedup
    BY <1>3, SimpleMethodsKeepTable
  <1> HIDE DEF kept
  <1>6. u.inbound_dedup = recorded.inbound_dedup
    BY <1>5 DEF RecordRequest, recorded, kept
  <1> HIDE DEF u
  <1>7. /\ seen' = [seen EXCEPT ![p] = h]
        /\ DOMAIN seen = Peers
    BY DEF RecvRequest, TypeOK, SeenOK
  <1>8. /\ DOMAIN h = DOMAIN seen[p] \cup {pkt.mid}
        /\ h[pkt.mid].age = 0
        /\ \A m \in DOMAIN seen[p] : m # pkt.mid => h[m] = seen[p][m]
    BY DEF Insert
  <1> HIDE DEF h
  <1>9. Remembers(u, h)
    <2> SUFFICES ASSUME NEW m \in DOMAIN h
                 PROVE  /\ m \in DOMAIN u.inbound_dedup
                        /\ u.inbound_dedup[m].age = h[m].age
                        /\ h[m].age < EXCHANGE_LIFETIME
      BY DEF Remembers
    <2>1. CASE m = pkt.mid
      BY <1>4, <1>6, <1>8, <2>1, TimingAssumption
    <2>2. CASE m # pkt.mid
      BY <1>2, <1>4, <1>6, <1>8, <2>2 DEF Remembers
    <2> QED
      BY <2>1, <2>2
  <1> QED
    BY <1>0, <1>1, <1>7, <1>9, SetRemembers DEF u

LEMMA RecvPacketSeen ==
  ASSUME TypeOK, SeenInv, NEW p \in Peers, NEW pkt \in InboundPackets, RecvPacket(p, pkt)
  PROVE  SeenInv'
  <1>0. /\ pkt.mid \in MIDs
        /\ \A s \in SessionEntry(p) : IsSession(s)
    BY InboundType, SessionEntryType DEF TypeOK
  <1>1. CASE RecvDuplicate(p, pkt)
    BY <1>1 DEF RecvDuplicate, taskVars, historyVars, SeenInv
  <1>2. CASE RecvRequest(p, pkt)
    BY <1>2, RecvRequestSeen
  <1>3. CASE RecvNonRequest(p, pkt)
    <2>0. running /\ seen' = seen
      BY <1>3 DEF Selecting, RecvNonRequest, historyVars
    <2>1. PICK s \in SessionEntry(p) :
            /\ ~ is_duplicate(s, pkt.mid)
            /\ LET recorded == record_inbound_mid(s, pkt.mid)
                   acked == IF pkt.type = "Confirmable"
                            THEN cache_response_for_mid(recorded, pkt.mid, EmptyAck(pkt.mid))
                            ELSE recorded
               IN  \/ SetSession(p, complete_exchange(acked, pkt.token))
                   \/ SetSession(p, acked)
      BY <1>3 DEF RecvNonRequest
    <2> DEFINE recorded == record_inbound_mid(s, pkt.mid)
               cached == cache_response_for_mid(recorded, pkt.mid, EmptyAck(pkt.mid))
               acked == IF pkt.type = "Confirmable" THEN cached ELSE recorded
               completed == complete_exchange(acked, pkt.token)
    <2>2. IsSession(recorded) /\ KeepsEntries(s, recorded)
      BY <1>0, <2>1, RecordInboundMidType, RecordKeepsEntries
    <2> HIDE DEF recorded
    <2>3. IsSession(cached) /\ KeepsEntries(recorded, cached)
      BY <1>0, <2>2, CacheResponseType, EmptyAckType, CacheKeepsEntries
    <2> HIDE DEF cached
    <2>4. IsSession(acked) /\ KeepsEntries(s, acked)
      BY <2>2, <2>3, KeepsTransitive
    <2> HIDE DEF acked
    <2>5. completed.inbound_dedup = acked.inbound_dedup
      BY <2>4, IndexMethodsKeepTable DEF complete_exchange
    <2> HIDE DEF completed
    <2>6. KeepsEntries(s, completed)
      BY <2>4, <2>5, SameTable, KeepsTransitive
    <2>7. SetSession(p, completed) \/ SetSession(p, acked)
      BY <2>1 DEF completed, acked, cached, recorded
    <2> QED
      BY <2>0, <2>4, <2>6, <2>7, SetKeeps
  <1>4. CASE RecvAck(p, pkt)
    <2>0. running /\ seen' = seen
      BY <1>4 DEF Selecting, RecvAck, historyVars
    <2>1. PICK s \in SessionEntry(p) :
            SetSession(p, IF pkt.code = "Empty" THEN handle_ack(s, pkt.mid, pkt.code) ELSE s)
      BY <1>4 DEF RecvAck
    <2>2. KeepsEntries(s, handle_ack(s, pkt.mid, pkt.code)) /\ KeepsEntries(s, s)
      BY <1>0, IndexMethodsKeepTable, SameTable
    <2> QED
      BY <2>0, <2>1, <2>2, SetKeeps
  <1>5. CASE RecvPiggybacked(p, pkt)
    <2>0. running /\ seen' = seen
      BY <1>5 DEF Selecting, RecvPiggybacked, historyVars
    <2>1. PICK s \in SessionEntry(p) :
            SetSession(p, RemoveExchanges(handle_ack(s, pkt.mid, pkt.code), TokenOf(s, pkt.mid)))
      BY <1>5 DEF RecvPiggybacked
    <2> DEFINE acked == handle_ack(s, pkt.mid, pkt.code)
               u == RemoveExchanges(acked, TokenOf(s, pkt.mid))
    <2>2. IsSession(acked) /\ acked.inbound_dedup = s.inbound_dedup
      BY <1>0, HandleAckType, IndexMethodsKeepTable
    <2> HIDE DEF acked
    <2>3. u.inbound_dedup = s.inbound_dedup
      BY <2>2, IndexMethodsKeepTable
    <2>4. SetSession(p, u)
      BY <2>1 DEF acked
    <2> HIDE DEF u
    <2> QED
      BY <2>0, <2>3, <2>4, SameTable, SetKeeps
  <1>6. CASE RecvReset(p, pkt)
    <2>0. running /\ seen' = seen
      BY <1>6 DEF Selecting, RecvReset, historyVars
    <2>1. PICK s \in SessionEntry(p) : SetSession(p, handle_rst(s, pkt.mid))
      BY <1>6 DEF RecvReset
    <2>2. KeepsEntries(s, handle_rst(s, pkt.mid))
      BY <1>0, IndexMethodsKeepTable, SameTable
    <2> QED
      BY <2>0, <2>1, <2>2, SetKeeps
  <1> QED
    BY <1>1, <1>2, <1>3, <1>4, <1>5, <1>6 DEF RecvPacket

LEMMA OutboundRequestSeen ==
  ASSUME TypeOK, SeenInv, OutboundRequest
  PROVE  SeenInv'
  <1> USE DEF TypeOK
  <1> DEFINE r == Head(outbound_requests).request
             p == Head(outbound_requests).peer
  <1>0. running /\ seen' = seen
    BY DEF Selecting, OutboundRequest
  <1>1. Head(outbound_requests) \in [request : Requests, peer : Peers]
    BY HeadTailProperties DEF OutboundRequest
  <1>2. r \in Requests /\ p \in Peers
    BY <1>1
  <1> HIDE DEF r, p
  <1>3. PICK s \in SessionEntry(p), timeout \in ACK_TIMEOUTS :
          LET token  == s.token_allocator.next
              mid    == s.mid_allocator.next
              s1     == allocate_mid(allocate_token(s))
              packet == RequestPacket(r, token, mid)
          IN  SetSession(p, IF r \in ConRequests
                THEN insert_con_exchange(s1, token, mid, new_con(r, mid, packet, timeout))
                ELSE insert_exchange(s1, token, new_non(r)))
    BY DEF OutboundRequest, r, p
  <1> DEFINE token  == s.token_allocator.next
             mid    == s.mid_allocator.next
             t1     == allocate_token(s)
             s1     == allocate_mid(t1)
             packet == RequestPacket(r, token, mid)
             con    == new_con(r, mid, packet, timeout)
             u == insert_con_exchange(s1, token, mid, con)
             non    == new_non(r)
             v == insert_exchange(s1, token, non)
  <1>4. IsSession(s)
    BY <1>2, SessionEntryType
  <1>5. token \in Tokens /\ mid \in MIDs /\ IsSession(t1) /\ t1.inbound_dedup = s.inbound_dedup
    BY <1>4, AllocateMidType, AllocateTokenType, SimpleMethodsKeepTable
  <1>6. packet \in Packets
    BY <1>2, <1>5, RequestsAssumption
    DEF RequestPacket, Packets, MessageTypes, MessageClasses
  <1> HIDE DEF token, mid, t1, packet
  <1>7. IsSession(s1) /\ s1.inbound_dedup = s.inbound_dedup
    BY <1>5, AllocateMidType, SimpleMethodsKeepTable
  <1>8. con \in Exchanges
    BY <1>2, <1>5, <1>6, NewConType
  <1> HIDE DEF s1, con, non
  <1>9. u.inbound_dedup = s.inbound_dedup
    BY <1>5, <1>7, <1>8, InsertConKeepsTable
  <1>10. v.inbound_dedup = s.inbound_dedup
    BY <1>7, InsertKeepsTable
  <1>11. SetSession(p, IF r \in ConRequests THEN u ELSE v)
    BY <1>3 DEF token, mid, t1, s1, packet, con, non
  <1> HIDE DEF u, v
  <1> QED
    BY <1>0, <1>2, <1>9, <1>10, <1>11, SameTable, SetKeeps

LEMMA OutboundResponseSeen ==
  ASSUME TypeOK, SeenInv, NEW encodable \in BOOLEAN, OutboundResponse(encodable)
  PROVE  SeenInv'
  <1> USE DEF TypeOK
  <1> DEFINE request == Head(server_responses).request
             p == Head(server_responses).peer
  <1>0. running /\ seen' = seen
    BY DEF Selecting, OutboundResponse, historyVars
  <1>1. Head(server_responses) \in ServerMessages
    BY HeadTailProperties DEF OutboundResponse
  <1>2. p \in Peers
    BY <1>1 DEF ServerMessages
  <1> HIDE DEF request, p
  <1>3. PICK s \in SessionEntry(p) :
           LET taken == take_inbound_con_mid(s, request.token) IN
           \/ \E mid, packet : SetSession(p, cache_response_for_mid(taken, mid, packet))
           \/ SetSession(p, taken)
           \/ SetSession(p, allocate_mid(s))
    BY DEF OutboundResponse, request, p
  <1> DEFINE taken == take_inbound_con_mid(s, request.token)
             mids == allocate_mid(s)
  <1>4. /\ IsSession(s) /\ IsSession(taken)
        /\ taken.inbound_dedup = s.inbound_dedup
        /\ mids.inbound_dedup = s.inbound_dedup
    BY <1>2, SessionEntryType, TakeInboundConType, SimpleMethodsKeepTable
  <1>5. \/ \E mid, packet : SetSession(p, cache_response_for_mid(taken, mid, packet))
        \/ SetSession(p, taken)
        \/ SetSession(p, mids)
    BY <1>3
  <1> HIDE DEF taken, mids
  <1>6. KeepsEntries(s, taken) /\ KeepsEntries(s, mids)
    BY <1>4, SameTable
  <1>7. \A mid, packet : KeepsEntries(s, cache_response_for_mid(taken, mid, packet))
    <2> TAKE mid, packet
    <2> DEFINE cached == cache_response_for_mid(taken, mid, packet)
    <2>1. KeepsEntries(taken, cached)
      BY <1>4, CacheKeepsEntries
    <2> HIDE DEF cached
    <2>2. KeepsEntries(s, cached)
      BY <1>6, <2>1, KeepsTransitive
    <2> QED
      BY <2>2 DEF cached
  <1> QED
    BY <1>0, <1>2, <1>5, <1>6, <1>7, SetKeeps

\* The table and the history age alike, up to EXCHANGE_LIFETIME.
LEMMA TickSeen ==
  ASSUME TypeOK, SeenInv, Tick
  PROVE  SeenInv'
  <1> SUFFICES ASSUME NEW p \in Peers, NEW m \in DOMAIN seen'[p]
               PROVE  /\ p \in DOMAIN sessions'
                      /\ m \in DOMAIN sessions'[p].inbound_dedup
                      /\ sessions'[p].inbound_dedup[m].age = seen'[p][m].age
                      /\ seen'[p][m].age < EXCHANGE_LIFETIME
    BY DEF SeenInv
  <1>1. seen'[p] = [k \in {k \in DOMAIN seen[p] : seen[p][k].age + 1 < EXCHANGE_LIFETIME} |->
                      [seen[p][k] EXCEPT !.age = @ + 1]]
    BY DEF Tick
  <1>2. m \in DOMAIN seen[p] /\ seen[p][m].age + 1 < EXCHANGE_LIFETIME
    BY <1>1
  <1>3. seen[p][m] \in SeenEntries
    BY <1>2 DEF TypeOK, SeenOK, IsMap
  <1>4. seen'[p][m].age = seen[p][m].age + 1
    BY <1>1, <1>2, <1>3 DEF SeenEntries
  <1>5. /\ p \in DOMAIN sessions
        /\ m \in DOMAIN sessions[p].inbound_dedup
        /\ sessions[p].inbound_dedup[m].age = seen[p][m].age
    BY <1>2 DEF SeenInv, Tick
  <1>6. IsSession(sessions[p])
    BY <1>5 DEF TypeOK, SessionsOK
  <1>7. p \in DOMAIN sessions' /\ sessions'[p] = AgeSession(sessions[p])
    BY <1>5 DEF Tick
  <1>8. AgeSession(sessions[p]).inbound_dedup =
          [k \in DOMAIN sessions[p].inbound_dedup |-> AgeEntry(sessions[p].inbound_dedup[k])]
    BY <1>6, AgeFields
  <1>9. sessions[p].inbound_dedup[m] \in DedupEntries
    BY <1>5, <1>6 DEF IsSession, IsMap
  <1>10. AgeEntry(sessions[p].inbound_dedup[m]).age = TickUp(sessions[p].inbound_dedup[m].age)
    BY <1>9 DEF AgeEntry, DedupEntries
  <1>11. TickUp(seen[p][m].age) = seen[p][m].age + 1 /\ seen[p][m].age + 1 < EXCHANGE_LIFETIME
    BY <1>2, <1>3, TimingAssumption DEF TickUp, SeenEntries
  <1> QED
    BY <1>4, <1>5, <1>7, <1>8, <1>10, <1>11

LEMMA NextSeen == TypeOK /\ SeenInv /\ [Next]_vars => SeenInv'
  <1> SUFFICES ASSUME TypeOK, SeenInv, [Next]_vars PROVE SeenInv'
    OBVIOUS
  <1>1. CASE \E p \in Peers, pkt \in InboundPackets : RecvPacket(p, pkt)
    BY <1>1, RecvPacketSeen
  <1>2. CASE OutboundRequest
    BY <1>2, OutboundRequestSeen
  <1>3. CASE OutboundRequestUnencodable
    <2> DEFINE p == Head(outbound_requests).peer
    <2>1. p \in Peers
      <3>1. Head(outbound_requests) \in [request : Requests, peer : Peers]
        BY <1>3, HeadTailProperties DEF OutboundRequestUnencodable, TypeOK
      <3> QED
        BY <3>1
    <2>2. PICK s \in SessionEntry(p) : SetSession(p, allocate_mid(allocate_token(s)))
      BY <1>3 DEF OutboundRequestUnencodable
    <2> HIDE DEF p
    <2> DEFINE t == allocate_token(s)
               u == allocate_mid(t)
    <2>3. IsSession(t) /\ t.inbound_dedup = s.inbound_dedup
      BY <2>1, SessionEntryType, AllocateTokenType, SimpleMethodsKeepTable DEF TypeOK
    <2> HIDE DEF t
    <2>4. u.inbound_dedup = s.inbound_dedup
      BY <2>3, SimpleMethodsKeepTable
    <2>5. SetSession(p, u)
      BY <2>2 DEF t
    <2>6. running /\ seen' = seen
      BY <1>3 DEF Selecting, OutboundRequestUnencodable, historyVars
    <2> HIDE DEF u
    <2> QED
      BY <2>1, <2>4, <2>5, <2>6, SameTable, SetKeeps
  <1>4. CASE \E ok \in BOOLEAN : OutboundResponse(ok)
    BY <1>4, OutboundResponseSeen
  <1>5. CASE RetransmissionTimer
    <2>1. /\ running' = running /\ seen' = seen
          /\ DOMAIN sessions' = DOMAIN sessions
          /\ \A p \in DOMAIN sessions : sessions'[p] = TimerWork(sessions[p])
      BY <1>5 DEF RetransmissionTimer
    <2>2. \A p \in DOMAIN sessions : KeepsEntries(sessions[p], sessions'[p])
      BY <2>1, TimerKeepsEntries DEF TypeOK, SessionsOK
    <2> QED
      BY <2>1, <2>2 DEF SeenInv, KeepsEntries
  <1>6. CASE CleanupTimer
    <2>1. /\ running' = running /\ seen' = seen
          /\ sessions' = Restrict(sessions, {p \in DOMAIN sessions : ~ is_idle(sessions[p])})
      BY <1>6 DEF CleanupTimer, historyVars
    <2>2. \A p \in DOMAIN sessions : DOMAIN sessions[p].inbound_dedup # {} =>
            p \in DOMAIN sessions' /\ sessions'[p] = sessions[p]
      BY <2>1 DEF is_idle, Restrict
    <2> QED
      BY <2>1, <2>2 DEF SeenInv
  <1>7. CASE StackReturns
    BY <1>7 DEF StackReturns, SeenInv
  <1>8. CASE Tick
    BY <1>8, TickSeen
  <1>9. CASE UNCHANGED <<running, sessions, seen>>
    BY <1>9 DEF SeenInv
  <1>10. (\E r \in Requests, p \in Peers : SendRequest(r, p)) => UNCHANGED <<running, sessions, seen>>
    BY DEF SendRequest, taskVars, historyVars
  <1>11. (\E r \in Requests : ClientTimeout(r)) => UNCHANGED <<running, sessions, seen>>
    BY DEF ClientTimeout, taskVars, historyVars
  <1>12. ServerHandle \/ UNCHANGED vars => UNCHANGED <<running, sessions, seen>>
    BY DEF ServerHandle, vars, taskVars, historyVars
  <1> QED
    BY <1>1, <1>2, <1>3, <1>4, <1>5, <1>6, <1>7, <1>8, <1>9, <1>10, <1>11, <1>12 DEF Next

\* What was dispatched within the last EXCHANGE_LIFETIME stays in the
\* duplicate table of its peer, whatever is evicted, cleaned up or received.
THEOREM SeenInvariant == Spec => []SeenInv
  <1>1. Init => SeenInv
    BY DEF Init, SeenInv, EmptyMap
  <1> QED
    BY <1>1, NextSeen, TypeCorrect, PTL DEF Spec

\* A step that queues a request for the server queues one that the history
\* does not hold.
LEMMA DispatchIsNew ==
  ASSUME TypeOK, SeenInv, [Next]_vars, Len(server_requests') > Len(server_requests)
  PROVE  LET x == server_requests'[Len(server_requests')]
         IN  x.request.mid \notin DOMAIN seen[x.peer]
  <1>0. Len(server_requests) \in Nat /\ server_requests \in Seq(ServerMessages)
    BY LenProperties DEF TypeOK
  <1>1. server_requests' # server_requests
    BY <1>0
  <1>2. \E p \in Peers, pkt \in InboundPackets : RecvRequest(p, pkt)
    <2>1. ~ ServerHandle
      <3>1. ServerHandle => Len(server_requests') = Len(server_requests) - 1
        BY <1>0, HeadTailProperties DEF ServerHandle
      <3> QED
        BY <1>0, <3>1
    <2>2. ASSUME NEW p \in Peers, NEW pkt \in InboundPackets, RecvPacket(p, pkt)
          PROVE  RecvRequest(p, pkt)
      BY <1>1, <2>2 DEF RecvPacket, RecvDuplicate, RecvNonRequest, RecvAck, RecvPiggybacked,
                        RecvReset, serverVars
    <2>3. ~ \E ok \in BOOLEAN : OutboundResponse(ok)
      BY <1>1 DEF OutboundResponse
    <2>4. ~ (OutboundRequest \/ OutboundRequestUnencodable)
      BY <1>1 DEF OutboundRequest, OutboundRequestUnencodable, serverVars
    <2>5. ~ (RetransmissionTimer \/ CleanupTimer \/ StackReturns \/ Tick)
      BY <1>1 DEF RetransmissionTimer, CleanupTimer, StackReturns, Tick, serverVars
    <2>6. ~ \E r \in Requests, p \in Peers : SendRequest(r, p)
      BY <1>1 DEF SendRequest, serverVars
    <2>7. ~ \E r \in Requests : ClientTimeout(r)
      BY <1>1 DEF ClientTimeout, serverVars
    <2>8. ~ UNCHANGED vars
      BY <1>1 DEF vars, serverVars
    <2> QED
      BY <2>1, <2>2, <2>3, <2>4, <2>5, <2>6, <2>7, <2>8 DEF Next
  <1>3. PICK p \in Peers, pkt \in InboundPackets : RecvRequest(p, pkt)
    BY <1>2
  <1> DEFINE x == [peer |-> p, request |-> pkt]
  <1>4. server_requests' = Append(server_requests, x)
    BY <1>3 DEF RecvRequest
  <1>5. server_requests'[Len(server_requests')] = x
    <2>1. x \in ServerMessages
      BY DEF ServerMessages
    <2> HIDE DEF x
    <2> QED
      BY <1>0, <1>4, <2>1, AppendProperties
  <1>6. pkt.mid \notin DOMAIN seen[p]
    <2>1. PICK s \in SessionEntry(p) : ~ is_duplicate(s, pkt.mid)
      BY <1>3 DEF RecvRequest
    <2>2. Remembers(s, seen[p])
      BY <1>3, EntryRemembers DEF Selecting, RecvRequest
    <2> QED
      BY <2>1, <2>2 DEF Remembers, is_duplicate
  <1> QED
    BY <1>5, <1>6

\* No request is handed to the server twice under one message ID within
\* EXCHANGE_LIFETIME, however duplicates, timers and cleanups interleave.
THEOREM DispatchedAtMostOnce == Spec => AtMostOnceDispatch
  <1>1. TypeOK /\ SeenInv /\ [Next]_vars =>
          [Len(server_requests') > Len(server_requests) =>
             LET x == server_requests'[Len(server_requests')]
             IN  x.request.mid \notin DOMAIN seen[x.peer]]_vars
    BY DispatchIsNew
  <1> QED
    BY <1>1, TypeCorrect, SeenInvariant, PTL DEF Spec, AtMostOnceDispatch

-----------------------------------------------------------------------------
(* The answers of the server.                                              *)

\* History h knows no request of MID m, or one under a token of C, or one that
\* was dispatched while an earlier one under the MID was unanswered.
Exempt(p, m, h, C) ==
  m \notin DOMAIN h \/ <<p, h[m].request.token>> \in C \/ h[m].overdue

\* Every MID kept for a piggybacked response is that of an unanswered request
\* of Q under the token, and all such requests are the one dispatched last.
PendingFits(p, s, Q, h, C) ==
  \A t \in DOMAIN s.inbound_con_mids :
    LET m == s.inbound_con_mids[t]
    IN  /\ \E q \in Q : q.token = t /\ q.mid = m
        /\ \A q \in Q : q.token = t => Exempt(p, m, h, C) \/ h[m].request = q

\* For the confirmable requests, and only for them, the MID is kept.
RequestsFit(p, s, Q, C) ==
  \A q \in Q : <<p, q.token>> \notin C =>
    IF q.type = "Confirmable"
    THEN q.token \in DOMAIN s.inbound_con_mids /\ s.inbound_con_mids[q.token] = q.mid
    ELSE q.token \notin DOMAIN s.inbound_con_mids

FitsRequest(p, c, m, h, C) ==
  /\ c.type = "Acknowledgement"
  /\ c.mid = m
  /\ Exempt(p, m, h, C) \/ c = ResponsePacket(h[m].request, "Acknowledgement", m)

CacheFits(p, s, h, C) ==
  \A m \in DOMAIN s.inbound_dedup :
    s.inbound_dedup[m].cached_response # None =>
      FitsRequest(p, s.inbound_dedup[m].cached_response, m, h, C)

Fits(p, s, Q, h, C) ==
  PendingFits(p, s, Q, h, C) /\ RequestsFit(p, s, Q, C) /\ CacheFits(p, s, h, C)

\* What each peer's session keeps fits the unanswered requests and the history.
AnswerInv ==
  /\ ~ running => DOMAIN sessions = {}
  /\ running => \A p \in Peers : \A s \in SessionEntry(p) :
       Fits(p, s, Unanswered(p), seen[p], crossed)

\* Two queued requests of a peer under one token that the peer has not crossed.
Twins(x, y, C) ==
  x.peer = y.peer /\ x.request.token = y.request.token /\ <<x.peer, x.request.token>> \notin C

NoTwins(a, b, C) ==
  /\ \A i, j \in DOMAIN a : Twins(a[i], a[j], C) => i = j
  /\ \A i, j \in DOMAIN b : Twins(b[i], b[j], C) => i = j
  /\ \A i \in DOMAIN a, j \in DOMAIN b : ~ Twins(a[i], b[j], C)

\* There are none such: a peer that asks again under the token of an
\* unanswered request has crossed it.
OneRequestPerToken == running => NoTwins(server_requests, server_responses, crossed)

\* What a method keeps of the answers: the MIDs kept for responses, and no
\* cached response that was not there before.
KeepsAnswers(s, u) ==
  /\ u.inbound_con_mids = s.inbound_con_mids
  /\ \A m \in DOMAIN u.inbound_dedup :
       /\ m \in DOMAIN s.inbound_dedup
       /\ u.inbound_dedup[m].cached_response = s.inbound_dedup[m].cached_response

LEMMA SameAnswers ==
  ASSUME NEW s, NEW u,
         u.inbound_con_mids = s.inbound_con_mids, u.inbound_dedup = s.inbound_dedup
  PROVE  KeepsAnswers(s, u)
  BY DEF KeepsAnswers

LEMMA AnswersTransitive ==
  ASSUME NEW s, NEW u, NEW v, KeepsAnswers(s, u), KeepsAnswers(u, v)
  PROVE  KeepsAnswers(s, v)
  BY DEF KeepsAnswers

\* History g remembers of h what it remembers at all.
Forgets(h, g) ==
  \A m \in DOMAIN g :
    m \in DOMAIN h /\ g[m].request = h[m].request /\ g[m].overdue = h[m].overdue

\* Keeping the answers keeps the fit, while crossings are added and history goes.
LEMMA FitKept ==
  ASSUME NEW p, NEW s, NEW u, NEW Q, NEW h, NEW g, NEW C, NEW D,
         Fits(p, s, Q, h, C), KeepsAnswers(s, u), Forgets(h, g), C \subseteq D
  PROVE  Fits(p, u, Q, g, D)
  <1>1. \A m : Exempt(p, m, h, C) => Exempt(p, m, g, D)
    BY DEF Exempt, Forgets
  <1>2. \A m : ~ Exempt(p, m, g, D) => g[m].request = h[m].request
    BY DEF Exempt, Forgets
  <1>3. PendingFits(p, u, Q, g, D)
    <2> SUFFICES ASSUME NEW t \in DOMAIN u.inbound_con_mids
                 PROVE  LET m == u.inbound_con_mids[t]
                        IN  /\ \E q \in Q : q.token = t /\ q.mid = m
                            /\ \A q \in Q : q.token = t => Exempt(p, m, g, D) \/ g[m].request = q
      BY DEF PendingFits
    <2>1. t \in DOMAIN s.inbound_con_mids /\ u.inbound_con_mids[t] = s.inbound_con_mids[t]
      BY DEF KeepsAnswers
    <2> QED
      BY <1>1, <1>2, <2>1 DEF Fits, PendingFits
  <1>4. RequestsFit(p, u, Q, D)
    BY DEF Fits, RequestsFit, KeepsAnswers
  <1>5. CacheFits(p, u, g, D)
    BY <1>1, <1>2 DEF Fits, CacheFits, FitsRequest, KeepsAnswers
  <1> QED
    BY <1>3, <1>4, <1>5 DEF Fits

-----------------------------------------------------------------------------
(* The answers of one session, method by method.                           *)

LEMMA NewSessionFits ==
  ASSUME NEW p, NEW Q, NEW h, NEW C, NEW s,
         DOMAIN s.inbound_con_mids = {}, DOMAIN s.inbound_dedup = {}, RequestsFit(p, s, Q, C)
  PROVE  Fits(p, s, Q, h, C)
  BY DEF Fits, PendingFits, CacheFits

LEMMA SimpleMethodsKeepAnswers ==
  ASSUME NEW s, IsSession(s), NEW token, NEW e
  PROVE  /\ KeepsAnswers(s, allocate_mid(s))
         /\ KeepsAnswers(s, allocate_token(s))
         /\ KeepsAnswers(s, insert_exchange(s, token, e))
  BY DEF IsSession, KeepsAnswers, allocate_mid, allocate_token, insert_exchange

LEMMA IndexMethodsKeepAnswers ==
  ASSUME NEW s, IsSession(s), NEW mid, NEW code, NEW T
  PROVE  /\ KeepsAnswers(s, handle_ack(s, mid, code))
         /\ KeepsAnswers(s, handle_rst(s, mid))
         /\ KeepsAnswers(s, RemoveExchanges(s, T))
  <1>1. ASSUME NEW u, \E x, y : u = WithIndexes(s, x, y)
        PROVE  KeepsAnswers(s, u)
    BY <1>1 DEF WithIndexes, KeepsAnswers
  <1>2. \E x, y : handle_ack(s, mid, code) = WithIndexes(s, x, y)
    <2> DEFINE acked == TokenOf(s, mid) \cap DOMAIN s.exchanges
               x == [t \in DOMAIN s.exchanges |-> IF code = "Empty" /\ t \in acked
                                                  THEN cancel_retransmission(s.exchanges[t])
                                                  ELSE s.exchanges[t]]
    <2>1. handle_ack(s, mid, code) = WithIndexes(s, x, RemoveAll(s.mid_to_token, {mid}))
      BY HandleAckFields
    <2> HIDE DEF x
    <2> QED
      BY <2>1
  <1>3. \E x, y : handle_rst(s, mid) = WithIndexes(s, x, y)
    BY HandleRstFields
  <1>4. \E x, y : RemoveExchanges(s, T) = WithIndexes(s, x, y)
    BY RemoveExchangesFields
  <1> QED
    BY <1>1, <1>2, <1>3, <1>4

LEMMA InsertConKeepsAnswers ==
  ASSUME NEW s, IsSession(s), NEW token \in Tokens, NEW mid \in MIDs, NEW e \in Exchanges
  PROVE  KeepsAnswers(s, insert_con_exchange(s, token, mid, e))
  <1> DEFINE u == insert_con_exchange(s, token, mid, e)
  <1>1. \E x, y : u = WithIndexes(s, x, y)
    BY InsertConExchangeFields
  <1> HIDE DEF u
  <1>2. KeepsAnswers(s, u)
    BY <1>1 DEF WithIndexes, KeepsAnswers
  <1> QED
    BY <1>2 DEF u

LEMMA TimerKeepsAnswers ==
  ASSUME NEW s, IsSession(s)
  PROVE  KeepsAnswers(s, TimerWork(s))
  <1> DEFINE a == AdvanceDue(s)
             u == collect_retransmissions(s)
  <1>1. IsSession(a)
    BY AdvanceDueType
  <1>2. KeepsAnswers(s, a)
    BY DEF AdvanceDue, IsSession, KeepsAnswers
  <1> HIDE DEF a
  <1>3. IsSession(u) /\ KeepsAnswers(a, u)
    BY <1>1, RemoveExchangesType, IndexMethodsKeepAnswers DEF collect_retransmissions, a
  <1> HIDE DEF u
  <1>4. KeepsAnswers(u, evict_stale_dedup(u))
    BY <1>3, EvictFields DEF KeepsAnswers, RemoveAll, Restrict, evict_stale_dedup, IsSession
  <1> QED
    BY <1>2, <1>3, <1>4, AnswersTransitive DEF TimerWork, u

LEMMA AgeKeepsAnswers ==
  ASSUME NEW s, IsSession(s)
  PROVE  KeepsAnswers(s, AgeSession(s))
  <1>1. AgeSession(s).inbound_dedup =
          [m \in DOMAIN s.inbound_dedup |-> AgeEntry(s.inbound_dedup[m])]
    BY AgeFields
  <1>2. AgeSession(s).inbound_con_mids = s.inbound_con_mids
    <2> DEFINE x == [t \in DOMAIN s.exchanges |-> AgeExchange(s.exchanges[t])]
               y == [m \in DOMAIN s.inbound_dedup |-> AgeEntry(s.inbound_dedup[m])]
               u == [s EXCEPT !.exchanges = x]
    <2>1. AgeSession(s) = [u EXCEPT !.inbound_dedup = y]
      BY DEF AgeSession
    <2> HIDE DEF x, y
    <2>2. u.inbound_con_mids = s.inbound_con_mids
      BY DEF IsSession
    <2> HIDE DEF u
    <2> QED
      BY <2>1, <2>2
  <1>3. \A d \in DedupEntries : AgeEntry(d).cached_response = d.cached_response
    BY DEF AgeEntry, DedupEntries
  <1>4. \A m \in DOMAIN s.inbound_dedup : s.inbound_dedup[m] \in DedupEntries
    BY DEF IsSession, IsMap
  <1> QED
    BY <1>1, <1>2, <1>3, <1>4 DEF KeepsAnswers

\* A new entry of the table caches nothing yet.
LEMMA RecordFields ==
  ASSUME NEW s, IsSession(s), NEW mid \in MIDs
  PROVE  LET u == record_inbound_mid(s, mid)
         IN  /\ u.inbound_con_mids = s.inbound_con_mids
             /\ DOMAIN u.inbound_dedup = DOMAIN s.inbound_dedup \cup {mid}
             /\ u.inbound_dedup[mid].cached_response = None
             /\ \A m \in DOMAIN s.inbound_dedup : m # mid =>
                  u.inbound_dedup[m] = s.inbound_dedup[m]
  <1> DEFINE u == record_inbound_mid(s, mid)
  <1>1. /\ u.inbound_dedup = Insert(s.inbound_dedup, mid, NewDedupEntry)
        /\ u.inbound_con_mids = s.inbound_con_mids
    BY DEF record_inbound_mid, IsSession
  <1>2. NewDedupEntry.cached_response = None
    BY DEF NewDedupEntry
  <1> HIDE DEF u
  <1>3. /\ DOMAIN u.inbound_dedup = DOMAIN s.inbound_dedup \cup {mid}
        /\ u.inbound_dedup[mid] = NewDedupEntry
        /\ \A m \in DOMAIN s.inbound_dedup : m # mid => u.inbound_dedup[m] = s.inbound_dedup[m]
    BY <1>1 DEF Insert
  <1> QED
    BY <1>1, <1>2, <1>3 DEF u

\* Caching a packet changes what is cached for its MID only.
LEMMA CacheFields ==
  ASSUME NEW s, IsSession(s), NEW mid, NEW packet
  PROVE  LET u == cache_response_for_mid(s, mid, packet)
         IN  /\ u.inbound_con_mids = s.inbound_con_mids
             /\ \A m \in DOMAIN u.inbound_dedup :
                  /\ m \in DOMAIN s.inbound_dedup
                  /\ u.inbound_dedup[m].cached_response =
                       IF m = mid THEN packet ELSE s.inbound_dedup[m].cached_response
  <1> DEFINE d == s.inbound_dedup
             x == [d EXCEPT ![mid].cached_response = packet]
             u == cache_response_for_mid(s, mid, packet)
  <1>1. u = IF mid \in DOMAIN d THEN [s EXCEPT !.inbound_dedup = x] ELSE s
    BY DEF cache_response_for_mid
  <1>2. DOMAIN x = DOMAIN d
    BY DEF IsSession, IsMap
  <1>3. \A m \in DOMAIN d : mid \in DOMAIN d =>
          x[m].cached_response = IF m = mid THEN packet ELSE d[m].cached_response
    BY DEF IsSession, IsMap, DedupEntries
  <1> HIDE DEF x, u
  <1>4. /\ u.inbound_dedup = IF mid \in DOMAIN d THEN x ELSE d
        /\ u.inbound_con_mids = s.inbound_con_mids
    BY <1>1 DEF IsSession
  <1>5. \A m \in DOMAIN u.inbound_dedup :
          /\ m \in DOMAIN s.inbound_dedup
          /\ u.inbound_dedup[m].cached_response =
               IF m = mid THEN packet ELSE s.inbound_dedup[m].cached_response
    BY <1>2, <1>3, <1>4
  <1> QED
    BY <1>4, <1>5 DEF u

LEMMA TakePendingFields ==
  ASSUME NEW s, IsSession(s), NEW token
  PROVE  take_inbound_con_mid(s, token).inbound_con_mids =
           RemoveAll(s.inbound_con_mids, {token})
  BY DEF IsSession, take_inbound_con_mid

-----------------------------------------------------------------------------
(* The unanswered requests, as the queues change.                          *)

LEMMA AppendRange ==
  ASSUME NEW S, NEW q \in Seq(S), NEW x \in S
  PROVE  Range(Append(q, x)) = Range(q) \cup {x}
  <1> DEFINE a == Append(q, x)
             n == Len(q)
  <1>1. /\ n \in Nat /\ DOMAIN q = 1 .. n /\ DOMAIN a = 1 .. n + 1
        /\ \A i \in 1 .. n : a[i] = q[i]
        /\ a[n + 1] = x
    BY AppendProperties, LenProperties
  <1> HIDE DEF a, n
  <1>2. \A i \in DOMAIN a : a[i] \in Range(q) \cup {x}
    BY <1>1 DEF Range
  <1>3. \A i \in DOMAIN q : i \in DOMAIN a /\ a[i] = q[i]
    BY <1>1
  <1>4. n + 1 \in DOMAIN a /\ a[n + 1] = x
    BY <1>1
  <1> QED
    BY <1>2, <1>3, <1>4 DEF Range, a

LEMMA TailRange ==
  ASSUME NEW S, NEW q \in Seq(S), q # << >>
  PROVE  Range(q) = Range(Tail(q)) \cup {Head(q)}
  <1> DEFINE a == Tail(q)
             n == Len(q)
  <1>1. /\ n \in Nat \ {0} /\ DOMAIN q = 1 .. n /\ DOMAIN a = 1 .. n - 1
        /\ \A i \in 1 .. n - 1 : a[i] = q[i + 1]
        /\ Head(q) = q[1]
    BY HeadTailProperties, LenProperties, EmptySeq
  <1> HIDE DEF a, n
  <1>2. \A i \in DOMAIN a : i + 1 \in DOMAIN q /\ a[i] = q[i + 1]
    BY <1>1
  <1>3. 1 \in DOMAIN q /\ Head(q) = q[1]
    BY <1>1
  <1>4. \A i \in DOMAIN q : i = 1 \/ (i - 1 \in DOMAIN a /\ a[i - 1] = q[i])
    BY <1>1
  <1> QED
    BY <1>2, <1>3, <1>4 DEF Range, a

LEMMA DispatchedIsUnanswered ==
  ASSUME TypeOK, NEW p \in Peers, NEW pkt \in InboundPackets,
         server_requests' = Append(server_requests, [peer |-> p, request |-> pkt]),
         server_responses' = server_responses
  PROVE  /\ Unanswered(p)' = Unanswered(p) \cup {pkt}
         /\ \A o \in Peers \ {p} : Unanswered(o)' = Unanswered(o)
  <1> DEFINE x == [peer |-> p, request |-> pkt]
  <1>1. x \in ServerMessages /\ x.peer = p /\ x.request = pkt
    BY DEF ServerMessages
  <1> HIDE DEF x
  <1>2. Range(server_requests)' = Range(server_requests) \cup {x}
    BY <1>1, AppendRange DEF TypeOK, x
  <1> QED
    BY <1>1, <1>2 DEF Unanswered

LEMMA HandledIsUnanswered ==
  ASSUME TypeOK, server_requests # << >>,
         server_requests' = Tail(server_requests),
         server_responses' = Append(server_responses, Head(server_requests))
  PROVE  \A p : Unanswered(p)' = Unanswered(p)
  <1>1. Head(server_requests) \in ServerMessages
    BY HeadTailProperties DEF TypeOK
  <1>2. Range(server_requests) = Range(server_requests)' \cup {Head(server_requests)}
    BY TailRange DEF TypeOK
  <1>3. Range(server_responses)' = Range(server_responses) \cup {Head(server_requests)}
    BY <1>1, AppendRange DEF TypeOK
  <1>4. Range(server_requests)' \cup Range(server_responses)' =
          Range(server_requests) \cup Range(server_responses)
    BY <1>2, <1>3
  <1> QED
    BY <1>4 DEF Unanswered

\* The request whose answer is taken is the only one that may leave, and
\* leaves no other of an uncrossed token behind.
LEMMA AnsweredLeaves ==
  ASSUME TypeOK, OneRequestPerToken, running, server_responses # << >>,
         server_requests' = server_requests, server_responses' = Tail(server_responses)
  PROVE  LET x == Head(server_responses)
         IN  /\ x.request \in Unanswered(x.peer)
             /\ \A p : Unanswered(p)' \subseteq Unanswered(p)
             /\ \A p : \A q \in Unanswered(p) \ Unanswered(p)' : p = x.peer /\ q = x.request
             /\ \A p : \A q \in Unanswered(p)' :
                  p = x.peer /\ q.token = x.request.token => <<p, q.token>> \in crossed
  <1> DEFINE x == Head(server_responses)
  <1>1. Range(server_responses) = Range(server_responses)' \cup {x}
    BY TailRange DEF TypeOK
  <1>2. Range(server_requests)' = Range(server_requests)
    OBVIOUS
  <1>3. /\ Len(server_responses) \in Nat \ {0}
        /\ DOMAIN server_responses = 1 .. Len(server_responses)
        /\ x = server_responses[1]
        /\ Len(server_responses') = Len(server_responses) - 1
        /\ DOMAIN server_responses' = 1 .. Len(server_responses')
        /\ \A i \in 1 .. Len(server_responses') : server_responses'[i] = server_responses[i + 1]
    BY HeadTailProperties, LenProperties, EmptySeq DEF TypeOK
  <1>4. \A i \in DOMAIN server_responses' : ~ Twins(x, server_responses'[i], crossed)
    <2> SUFFICES ASSUME NEW i \in 1 .. Len(server_responses'),
                        Twins(server_responses[1], server_responses[i + 1], crossed)
                 PROVE  FALSE
      BY <1>3
    <2>1. 1 \in DOMAIN server_responses /\ i + 1 \in DOMAIN server_responses /\ i + 1 # 1
      BY <1>3
    <2> QED
      BY <2>1 DEF OneRequestPerToken, NoTwins
  <1>5. \A i \in DOMAIN server_requests : ~ Twins(server_requests[i], x, crossed)
    BY <1>3 DEF OneRequestPerToken, NoTwins
  <1>6. ASSUME NEW y \in Range(server_requests) \cup Range(server_responses)',
               y.peer = x.peer, y.request.token = x.request.token
        PROVE  <<x.peer, y.request.token>> \in crossed
    BY <1>4, <1>5, <1>6 DEF Range, Twins
  <1> HIDE DEF x
  <1>7. x.request \in Unanswered(x.peer)
    BY <1>1 DEF Unanswered
  <1>8. \A p : Unanswered(p)' \subseteq Unanswered(p)
    BY <1>1, <1>2 DEF Unanswered
  <1>9. \A p : \A q \in Unanswered(p) \ Unanswered(p)' : p = x.peer /\ q = x.request
    BY <1>1, <1>2 DEF Unanswered
  <1>10. \A p : \A q \in Unanswered(p)' :
           p = x.peer /\ q.token = x.request.token => <<p, q.token>> \in crossed
    BY <1>2, <1>6 DEF Unanswered
  <1> QED
    BY <1>7, <1>8, <1>9, <1>10 DEF x

-----------------------------------------------------------------------------
(* At most one unanswered request per token.                               *)

LEMMA AppendNoTwins ==
  ASSUME NEW S, NEW a \in Seq(S), NEW b \in Seq(S), NEW x \in S, NEW C, NEW D, C \subseteq D,
         NoTwins(a, b, C), \A y \in Range(a) \cup Range(b) : ~ Twins(y, x, D)
  PROVE  NoTwins(Append(a, x), b, D)
  <1> DEFINE n == Len(a)
             c == Append(a, x)
  <1>1. /\ n \in Nat /\ DOMAIN a = 1 .. n /\ DOMAIN c = 1 .. n + 1
        /\ \A i \in 1 .. n : c[i] = a[i]
        /\ c[n + 1] = x
    BY AppendProperties, LenProperties
  <1> HIDE DEF n, c
  <1>2. \A y, z : Twins(y, z, D) => Twins(y, z, C) /\ Twins(z, y, D)
    BY DEF Twins
  <1>3. \A i \in 1 .. n : ~ Twins(a[i], x, D)
    BY <1>1 DEF Range
  <1>4. \A j \in DOMAIN b : ~ Twins(b[j], x, D)
    BY DEF Range
  <1>5. ASSUME NEW i \in 1 .. n + 1, NEW j \in 1 .. n + 1, Twins(c[i], c[j], D)
        PROVE  i = j
    <2>1. CASE i \in 1 .. n /\ j \in 1 .. n
      BY <1>1, <1>2, <1>5, <2>1 DEF NoTwins
    <2>2. CASE i \in 1 .. n /\ j = n + 1
      BY <1>1, <1>3, <1>5, <2>2
    <2>3. CASE i = n + 1 /\ j \in 1 .. n
      BY <1>1, <1>2, <1>3, <1>5, <2>3
    <2> QED
      BY <1>1, <2>1, <2>2, <2>3
  <1>6. \A i, j \in DOMAIN b : Twins(b[i], b[j], D) => i = j
    BY <1>2 DEF NoTwins
  <1>7. ASSUME NEW i \in 1 .. n + 1, NEW j \in DOMAIN b, Twins(c[i], b[j], D)
        PROVE  FALSE
    <2>1. CASE i \in 1 .. n
      BY <1>1, <1>2, <1>7, <2>1 DEF NoTwins
    <2>2. CASE i = n + 1
      BY <1>1, <1>2, <1>4, <1>7, <2>2
    <2> QED
      BY <1>1, <2>1, <2>2
  <1>8. NoTwins(c, b, D)
    BY <1>1, <1>5, <1>6, <1>7 DEF NoTwins
  <1> QED
    BY <1>8 DEF c

LEMMA TailNoTwins ==
  ASSUME NEW S, NEW a \in Seq(S), a # << >>, NEW b, NEW C
  PROVE  /\ NoTwins(a, b, C) => NoTwins(Tail(a), b, C)
         /\ NoTwins(b, a, C) => NoTwins(b, Tail(a), C)
         /\ NoTwins(a, b, C) =>
              \A y \in Range(Tail(a)) \cup Range(b) : ~ Twins(y, Head(a), C)
  <1> DEFINE n == Len(a)
             c == Tail(a)
             x == Head(a)
  <1>1. /\ n \in Nat \ {0} /\ DOMAIN a = 1 .. n /\ x = a[1]
        /\ DOMAIN c = 1 .. n - 1
        /\ \A i \in 1 .. n - 1 : c[i] = a[i + 1]
    BY HeadTailProperties, LenProperties, EmptySeq
  <1> HIDE DEF n, c, x
  <1>2. 1 \in DOMAIN a
    BY <1>1
  <1>3. \A i \in DOMAIN c : i + 1 \in DOMAIN a /\ i + 1 # 1 /\ c[i] = a[i + 1]
    BY <1>1
  <1>4. \A i, j \in DOMAIN c : i + 1 = j + 1 => i = j
    BY <1>1
  <1>5. ASSUME NoTwins(a, b, C) PROVE NoTwins(c, b, C)
    BY <1>3, <1>4, <1>5 DEF NoTwins
  <1>6. ASSUME NoTwins(b, a, C) PROVE NoTwins(b, c, C)
    BY <1>3, <1>4, <1>6 DEF NoTwins
  <1>7. ASSUME NoTwins(a, b, C), NEW y \in Range(c) \cup Range(b), Twins(y, x, C)
        PROVE  FALSE
    <2>1. CASE y \in Range(c)
      <3>1. PICK i \in DOMAIN c : y = c[i]
        BY <2>1 DEF Range
      <3> QED
        BY <1>1, <1>2, <1>3, <1>7, <3>1 DEF NoTwins
    <2>2. CASE y \in Range(b)
      <3>1. PICK j \in DOMAIN b : y = b[j]
        BY <2>2 DEF Range
      <3>2. Twins(x, y, C)
        BY <1>7 DEF Twins
      <3> QED
        BY <1>1, <1>2, <1>7, <3>1, <3>2 DEF NoTwins
    <2> QED
      BY <1>7, <2>1, <2>2
  <1> QED
    BY <1>5, <1>6, <1>7 DEF c, x

LEMMA NoTwinsSymmetric ==
  ASSUME NEW a, NEW b, NEW C, NoTwins(a, b, C)
  PROVE  NoTwins(b, a, C)
  BY DEF NoTwins, Twins

LEMMA NextOne == TypeOK /\ OneRequestPerToken /\ [Next]_vars => OneRequestPerToken'
  <1> SUFFICES ASSUME TypeOK, OneRequestPerToken, [Next]_vars, running' PROVE OneRequestPerToken'
    BY DEF OneRequestPerToken
  <1>0. /\ server_requests \in Seq(ServerMessages)
        /\ server_responses \in Seq(ServerMessages)
    BY DEF TypeOK
  <1>1. ASSUME NEW p \in Peers, NEW pkt \in InboundPackets, RecvRequest(p, pkt)
        PROVE  OneRequestPerToken'
    <2> DEFINE x == [peer |-> p, request |-> pkt]
    <2>1. /\ running
          /\ server_requests' = Append(server_requests, x)
          /\ server_responses' = server_responses
          /\ crossed' = IF \E q \in Unanswered(p) : q.token = pkt.token
                        THEN crossed \cup {<<p, pkt.token>>} ELSE crossed
      BY <1>1 DEF RecvRequest, Selecting
    <2>2. x \in ServerMessages /\ x.peer = p /\ x.request = pkt
      BY DEF ServerMessages
    <2> HIDE DEF x
    <2>3. \A y \in Range(server_requests) \cup Range(server_responses) : ~ Twins(y, x, crossed')
      BY <2>1, <2>2 DEF Unanswered, Twins
    <2>4. crossed \subseteq crossed'
      BY <2>1
    <2> QED
      BY <1>0, <2>1, <2>2, <2>3, <2>4, AppendNoTwins DEF OneRequestPerToken
  <1>2. CASE ServerHandle
    <2> DEFINE a == Tail(server_requests)
               x == Head(server_requests)
    <2>1. /\ running /\ server_requests # << >>
          /\ server_requests' = a
          /\ server_responses' = Append(server_responses, x)
          /\ crossed' = crossed
      BY <1>2 DEF ServerHandle, taskVars, historyVars
    <2>2. /\ x \in ServerMessages /\ a \in Seq(ServerMessages)
          /\ NoTwins(a, server_responses, crossed)
          /\ \A y \in Range(a) \cup Range(server_responses) : ~ Twins(y, x, crossed)
      BY <1>0, <2>1, HeadTailProperties, TailNoTwins DEF OneRequestPerToken
    <2> HIDE DEF a, x
    <2>3. NoTwins(Append(server_responses, x), a, crossed)
      BY <1>0, <2>2, NoTwinsSymmetric, AppendNoTwins
    <2> QED
      BY <2>1, <2>3, NoTwinsSymmetric DEF OneRequestPerToken
  <1>3. ASSUME NEW ok \in BOOLEAN, OutboundResponse(ok)
        PROVE  OneRequestPerToken'
    <2>1. /\ running /\ server_responses # << >>
          /\ server_requests' = server_requests
          /\ server_responses' = Tail(server_responses)
          /\ crossed' = crossed
      BY <1>3 DEF OutboundResponse, historyVars
    <2> QED
      BY <1>0, <2>1, TailNoTwins DEF OneRequestPerToken
  <1>4. CASE UNCHANGED <<running, serverVars, crossed>>
    BY <1>4 DEF OneRequestPerToken, serverVars
  <1>5. ASSUME NEW p \in Peers, NEW pkt \in InboundPackets, RecvPacket(p, pkt)
        PROVE  RecvRequest(p, pkt) \/ UNCHANGED <<running, serverVars, crossed>>
    BY <1>5 DEF RecvPacket, RecvDuplicate, RecvNonRequest, RecvAck, RecvPiggybacked, RecvReset,
                taskVars, historyVars
  <1>6. OutboundRequest \/ OutboundRequestUnencodable => UNCHANGED <<running, serverVars, crossed>>
    BY DEF OutboundRequest, OutboundRequestUnencodable, historyVars
  <1>7. RetransmissionTimer \/ CleanupTimer \/ Tick => UNCHANGED <<running, serverVars, crossed>>
    BY DEF RetransmissionTimer, CleanupTimer, Tick, historyVars
  <1>8. ~ StackReturns
    BY DEF StackReturns
  <1>9. (\E r \in Requests, p \in Peers : SendRequest(r, p)) =>
          UNCHANGED <<running, serverVars, crossed>>
    BY DEF SendRequest, taskVars, historyVars
  <1>10. (\E r \in Requests : ClientTimeout(r)) => UNCHANGED <<running, serverVars, crossed>>
    BY DEF ClientTimeout, taskVars, historyVars
  <1>11. UNCHANGED vars => UNCHANGED <<running, serverVars, crossed>>
    BY DEF vars, taskVars, historyVars
  <1> QED
    BY <1>1, <1>2, <1>3, <1>4, <1>5, <1>6, <1>7, <1>8, <1>9, <1>10, <1>11 DEF Next

-----------------------------------------------------------------------------
(* The fit of one session, arm by arm.                                     *)

\* A new request fits: if its token is that of an unanswered request, it is
\* crossed from now on, and if its MID is, it is marked so in the history.
LEMMA RequestFits ==
  ASSUME NEW p, NEW s, IsSession(s), NEW pkt \in InboundPackets,
         NEW Q, NEW h, NEW g, NEW C, NEW D, C \subseteq D, Fits(p, s, Q, h, C),
         \A y \in Q : y.token = pkt.token => <<p, pkt.token>> \in D,
         \A y \in Q : y.mid = pkt.mid => g[pkt.mid].overdue,
         DOMAIN g = DOMAIN h \cup {pkt.mid}, g[pkt.mid].request = pkt,
         \A m \in DOMAIN h : m # pkt.mid => g[m] = h[m]
  PROVE  Fits(p, RecordRequest(s, pkt), Q \cup {pkt}, g, D)
  <1> DEFINE con == pkt.type = "Confirmable"
             recorded == record_inbound_mid(s, pkt.mid)
             kept == record_inbound_con(recorded, pkt.token, pkt.mid)
             u == RecordRequest(s, pkt)
             icm == s.inbound_con_mids
  <1>0. pkt.mid \in MIDs
    BY InboundType
  <1>1. /\ IsSession(recorded)
        /\ recorded.inbound_con_mids = icm
        /\ DOMAIN recorded.inbound_dedup = DOMAIN s.inbound_dedup \cup {pkt.mid}
        /\ recorded.inbound_dedup[pkt.mid].cached_response = None
        /\ \A m \in DOMAIN s.inbound_dedup : m # pkt.mid =>
             recorded.inbound_dedup[m] = s.inbound_dedup[m]
    BY <1>0, RecordFields, RecordInboundMidType
  <1>2. u = IF con THEN kept ELSE recorded
    BY DEF RecordRequest
  <1> HIDE DEF recorded
  <1>3. /\ kept.inbound_con_mids = Insert(icm, pkt.token, pkt.mid)
        /\ kept.inbound_dedup = recorded.inbound_dedup
    <2>1. kept.inbound_con_mids = Insert(recorded.inbound_con_mids, pkt.token, pkt.mid)
      BY <1>1 DEF record_inbound_con, IsSession
    <2>2. kept.inbound_dedup = recorded.inbound_dedup
      BY <1>1, SimpleMethodsKeepTable
    <2> QED
      BY <1>1, <2>1, <2>2
  <1> HIDE DEF kept, u
  <1>4. /\ u.inbound_dedup = recorded.inbound_dedup
        /\ u.inbound_con_mids = IF con THEN Insert(icm, pkt.token, pkt.mid) ELSE icm
    BY <1>1, <1>2, <1>3
  <1>5. /\ DOMAIN u.inbound_con_mids = IF con THEN DOMAIN icm \cup {pkt.token} ELSE DOMAIN icm
        /\ con => u.inbound_con_mids[pkt.token] = pkt.mid
        /\ \A t \in DOMAIN icm : t # pkt.token \/ ~ con => u.inbound_con_mids[t] = icm[t]
    BY <1>4 DEF Insert
  <1> HIDE DEF con, icm
  <1>6. \A m : m # pkt.mid =>
          /\ Exempt(p, m, h, C) => Exempt(p, m, g, D)
          /\ ~ Exempt(p, m, g, D) => m \in DOMAIN h /\ g[m] = h[m]
    BY DEF Exempt
  <1>7. ASSUME NEW y \in Q, y.token = pkt.token \/ y.mid = pkt.mid
        PROVE  Exempt(p, pkt.mid, g, D)
    BY <1>7 DEF Exempt
  <1>8. PendingFits(p, u, Q \cup {pkt}, g, D)
    <2> SUFFICES ASSUME NEW t \in DOMAIN u.inbound_con_mids, NEW m, m = u.inbound_con_mids[t]
                 PROVE  /\ \E q \in Q \cup {pkt} : q.token = t /\ q.mid = m
                        /\ \A q \in Q \cup {pkt} : q.token = t =>
                             Exempt(p, m, g, D) \/ g[m].request = q
      BY DEF PendingFits
    <2>1. CASE con /\ t = pkt.token
      <3>1. m = pkt.mid
        BY <1>5, <2>1
      <3>2. \E q \in Q \cup {pkt} : q.token = t /\ q.mid = m
        BY <2>1, <3>1
      <3> QED
        BY <1>7, <2>1, <3>1, <3>2
    <2>2. CASE ~ con \/ t # pkt.token
      <3>1. t \in DOMAIN icm /\ m = icm[t]
        BY <1>5, <2>2
      <3>2. PICK y \in Q : y.token = t /\ y.mid = m
        BY <3>1 DEF Fits, PendingFits, icm
      <3>3. \A q \in Q : q.token = t => Exempt(p, m, h, C) \/ h[m].request = q
        BY <3>1 DEF Fits, PendingFits, icm
      <3>4. CASE m = pkt.mid
        BY <1>7, <3>2, <3>4
      <3>5. CASE m # pkt.mid
        <4>1. ASSUME NEW q \in Q, q.token = t PROVE Exempt(p, m, g, D) \/ g[m].request = q
          BY <1>6, <3>3, <3>5, <4>1
        <4>2. ASSUME pkt.token = t PROVE Exempt(p, m, g, D)
          <5>1. <<p, y.token>> \in D
            BY <3>2, <4>2
          <5> QED
            BY <1>6, <3>2, <3>3, <3>5, <5>1 DEF Exempt
        <4> QED
          BY <3>2, <4>1, <4>2
      <3> QED
        BY <3>4, <3>5
    <2> QED
      BY <2>1, <2>2
  <1>9. RequestsFit(p, u, Q \cup {pkt}, D)
    <2> SUFFICES ASSUME NEW q \in Q \cup {pkt}, <<p, q.token>> \notin D
                 PROVE  IF q.type = "Confirmable"
                        THEN /\ q.token \in DOMAIN u.inbound_con_mids
                             /\ u.inbound_con_mids[q.token] = q.mid
                        ELSE q.token \notin DOMAIN u.inbound_con_mids
      BY DEF RequestsFit
    <2>1. CASE q = pkt
      <3>1. ASSUME ~ con, pkt.token \in DOMAIN icm PROVE FALSE
        <4>1. \E y \in Q : y.token = pkt.token
          BY <3>1 DEF Fits, PendingFits, icm
        <4> QED
          BY <2>1, <4>1
      <3> QED
        BY <1>5, <2>1, <3>1 DEF con
    <2>2. CASE q \in Q /\ q # pkt
      <3>1. q.token # pkt.token
        BY <2>2
      <3>2. IF q.type = "Confirmable"
            THEN q.token \in DOMAIN icm /\ icm[q.token] = q.mid
            ELSE q.token \notin DOMAIN icm
        BY <2>2 DEF Fits, RequestsFit, icm
      <3> QED
        BY <1>5, <3>1, <3>2
    <2> QED
      BY <2>1, <2>2
  <1>10. CacheFits(p, u, g, D)
    <2> SUFFICES ASSUME NEW m \in DOMAIN u.inbound_dedup,
                        u.inbound_dedup[m].cached_response # None
                 PROVE  FitsRequest(p, u.inbound_dedup[m].cached_response, m, g, D)
      BY DEF CacheFits
    <2>1. m # pkt.mid /\ m \in DOMAIN s.inbound_dedup /\ u.inbound_dedup[m] = s.inbound_dedup[m]
      BY <1>1, <1>4
    <2>2. FitsRequest(p, s.inbound_dedup[m].cached_response, m, h, C)
      BY <2>1 DEF Fits, CacheFits
    <2> QED
      BY <1>6, <2>1, <2>2 DEF FitsRequest
  <1> QED
    BY <1>8, <1>9, <1>10 DEF Fits, u

\* A new MID of which the history knows nothing.
LEMMA RecordFits ==
  ASSUME NEW p, NEW s, IsSession(s), NEW mid \in MIDs, NEW Q, NEW h, NEW C,
         Fits(p, s, Q, h, C)
  PROVE  Fits(p, record_inbound_mid(s, mid), Q, h, C)
  <1> DEFINE u == record_inbound_mid(s, mid)
  <1>1. /\ u.inbound_con_mids = s.inbound_con_mids
        /\ DOMAIN u.inbound_dedup = DOMAIN s.inbound_dedup \cup {mid}
        /\ u.inbound_dedup[mid].cached_response = None
        /\ \A m \in DOMAIN s.inbound_dedup : m # mid =>
             u.inbound_dedup[m] = s.inbound_dedup[m]
    BY RecordFields
  <1> HIDE DEF u
  <1>2. PendingFits(p, u, Q, h, C) /\ RequestsFit(p, u, Q, C)
    BY <1>1 DEF Fits, PendingFits, RequestsFit
  <1>3. CacheFits(p, u, h, C)
    BY <1>1 DEF Fits, CacheFits
  <1> QED
    BY <1>2, <1>3 DEF Fits, u

\* A packet that fits may be cached.
LEMMA CacheKeepsFit ==
  ASSUME NEW p, NEW s, IsSession(s), NEW mid, NEW packet, NEW Q, NEW h, NEW C,
         Fits(p, s, Q, h, C), FitsRequest(p, packet, mid, h, C)
  PROVE  Fits(p, cache_response_for_mid(s, mid, packet), Q, h, C)
  <1> DEFINE u == cache_response_for_mid(s, mid, packet)
  <1>1. /\ u.inbound_con_mids = s.inbound_con_mids
        /\ \A m \in DOMAIN u.inbound_dedup :
             /\ m \in DOMAIN s.inbound_dedup
             /\ u.inbound_dedup[m].cached_response =
                  IF m = mid THEN packet ELSE s.inbound_dedup[m].cached_response
    BY CacheFields
  <1> HIDE DEF u
  <1>2. PendingFits(p, u, Q, h, C) /\ RequestsFit(p, u, Q, C)
    BY <1>1 DEF Fits, PendingFits, RequestsFit
  <1>3. CacheFits(p, u, h, C)
    BY <1>1 DEF Fits, CacheFits
  <1> QED
    BY <1>2, <1>3 DEF Fits, u

\* The answer to a request is taken: of the requests Q only R stay, and
\* of its token only those that are crossed.
LEMMA TakeFits ==
  ASSUME NEW p, NEW s, IsSession(s), NEW token, NEW Q, NEW R, NEW h, NEW C,
         Fits(p, s, Q, h, C), R \subseteq Q, \A q \in Q \ R : q.token = token,
         \A q \in R : q.token = token => <<p, q.token>> \in C
  PROVE  /\ Fits(p, take_inbound_con_mid(s, token), R, h, C)
         /\ token \notin DOMAIN s.inbound_con_mids => Fits(p, s, R, h, C)
  <1> DEFINE u == take_inbound_con_mid(s, token)
             icm == s.inbound_con_mids
  <1>1. u.inbound_dedup = s.inbound_dedup /\ u.inbound_con_mids = RemoveAll(icm, {token})
    BY SimpleMethodsKeepTable, TakePendingFields
  <1> HIDE DEF u
  <1>2. /\ DOMAIN u.inbound_con_mids = DOMAIN icm \ {token}
        /\ \A t \in DOMAIN u.inbound_con_mids : u.inbound_con_mids[t] = icm[t]
    BY <1>1 DEF RemoveAll, Restrict
  <1>3. \A t \in DOMAIN icm : t # token =>
          /\ \E q \in R : q.token = t /\ q.mid = icm[t]
          /\ \A q \in R : q.token = t => Exempt(p, icm[t], h, C) \/ h[icm[t]].request = q
    BY DEF Fits, PendingFits
  <1>4. PendingFits(p, u, R, h, C)
    BY <1>2, <1>3 DEF PendingFits
  <1>5. RequestsFit(p, u, R, C)
    BY <1>2 DEF Fits, RequestsFit
  <1>6. CacheFits(p, u, h, C)
    BY <1>1 DEF Fits, CacheFits
  <1>7. ASSUME token \notin DOMAIN icm PROVE Fits(p, s, R, h, C)
    BY <1>3, <1>7 DEF Fits, PendingFits, RequestsFit
  <1> QED
    BY <1>4, <1>5, <1>6, <1>7 DEF Fits, u

-----------------------------------------------------------------------------
(* The answers, action by action.                                          *)

\* An arm that stores a session of peer p which fits.
LEMMA SetFits ==
  ASSUME AnswerInv, running, running', NEW p \in Peers, NEW u, SetSession(p, u),
         crossed \subseteq crossed', Fits(p, u, Unanswered(p)', seen'[p], crossed'),
         \A o \in Peers \ {p} : Unanswered(o)' = Unanswered(o) /\ seen'[o] = seen[o]
  PROVE  AnswerInv'
  <1>1. ASSUME NEW o \in Peers, NEW s, s \in SessionEntry(o)'
        PROVE  Fits(o, s, Unanswered(o)', seen'[o], crossed')
    <2>1. CASE o = p
      <3>1. s = u
        BY <1>1, <2>1 DEF SetSession, Insert, SessionEntry
      <3> QED
        BY <2>1, <3>1
    <2>2. CASE o # p
      <3>1. s \in SessionEntry(o)
        BY <1>1, <2>2 DEF SetSession, Insert, SessionEntry
      <3>2. Fits(o, s, Unanswered(o), seen[o], crossed)
        BY <3>1 DEF AnswerInv
      <3>3. KeepsAnswers(s, s) /\ Forgets(seen[o], seen[o])
        BY DEF KeepsAnswers, Forgets
      <3>4. Fits(o, s, Unanswered(o), seen[o], crossed')
        BY <3>2, <3>3, FitKept
      <3> QED
        BY <2>2, <3>4
    <2> QED
      BY <2>1, <2>2
  <1> QED
    BY <1>1 DEF AnswerInv

\* An arm that leaves the queues, the answers and the history alone.
LEMMA QuietFits ==
  ASSUME AnswerInv, running, running' = running, NEW p \in Peers, NEW s \in SessionEntry(p),
         NEW u, KeepsAnswers(s, u), SetSession(p, u), UNCHANGED <<serverVars, seen, crossed>>
  PROVE  AnswerInv'
  <1>1. \A o : Unanswered(o)' = Unanswered(o)
    BY DEF Unanswered, serverVars
  <1>2. Fits(p, s, Unanswered(p), seen[p], crossed) /\ Forgets(seen[p], seen[p])
    BY DEF AnswerInv, Forgets
  <1>3. Fits(p, u, Unanswered(p), seen[p], crossed)
    BY <1>2, FitKept
  <1>4. Fits(p, u, Unanswered(p)', seen'[p], crossed')
    BY <1>1, <1>3
  <1> QED
    BY <1>1, <1>4, SetFits

LEMMA RecvRequestFits ==
  ASSUME TypeOK, AnswerInv, NEW p \in Peers, NEW pkt \in InboundPackets, RecvRequest(p, pkt)
  PROVE  AnswerInv'
  <1> DEFINE g == Insert(seen[p], pkt.mid,
                    [request |-> pkt, age |-> 0,
                     overdue |-> \E q \in Unanswered(p) : q.mid = pkt.mid])
  <1>1. /\ running /\ running'
        /\ server_requests' = Append(server_requests, [peer |-> p, request |-> pkt])
        /\ server_responses' = server_responses
        /\ seen' = [seen EXCEPT ![p] = g]
        /\ crossed' = IF \E q \in Unanswered(p) : q.token = pkt.token
                      THEN crossed \cup {<<p, pkt.token>>} ELSE crossed
    BY DEF RecvRequest, Selecting
  <1>2. PICK s \in SessionEntry(p) : SetSession(p, RecordRequest(s, pkt))
    BY DEF RecvRequest
  <1>3. IsSession(s) /\ Fits(p, s, Unanswered(p), seen[p], crossed)
    BY <1>1, SessionEntryType DEF TypeOK, AnswerInv
  <1>4. /\ Unanswered(p)' = Unanswered(p) \cup {pkt}
        /\ \A o \in Peers \ {p} : Unanswered(o)' = Unanswered(o)
    BY <1>1, DispatchedIsUnanswered
  <1>5. /\ DOMAIN g = DOMAIN seen[p] \cup {pkt.mid}
        /\ g[pkt.mid].request = pkt
        /\ g[pkt.mid].overdue = (\E q \in Unanswered(p) : q.mid = pkt.mid)
        /\ \A m \in DOMAIN seen[p] : m # pkt.mid => g[m] = seen[p][m]
    BY DEF Insert
  <1> HIDE DEF g
  <1>6. seen'[p] = g /\ \A o \in Peers \ {p} : seen'[o] = seen[o]
    BY <1>1 DEF TypeOK, SeenOK
  <1>7. \A y \in Unanswered(p) :
          /\ y.token = pkt.token => <<p, pkt.token>> \in crossed'
          /\ y.mid = pkt.mid => g[pkt.mid].overdue
    BY <1>1, <1>5
  <1>8. crossed \subseteq crossed'
    BY <1>1
  <1>9. Fits(p, RecordRequest(s, pkt), Unanswered(p) \cup {pkt}, g, crossed')
    BY <1>3, <1>5, <1>7, <1>8, RequestFits
  <1>10. Fits(p, RecordRequest(s, pkt), Unanswered(p)', seen'[p], crossed')
    BY <1>4, <1>6, <1>9
  <1> QED
    BY <1>1, <1>2, <1>4, <1>6, <1>8, <1>10, SetFits

LEMMA RecvNonRequestFits ==
  ASSUME TypeOK, SeenInv, AnswerInv, NEW p \in Peers, NEW pkt \in InboundPackets,
         RecvNonRequest(p, pkt)
  PROVE  AnswerInv'
  <1>0. running /\ running' /\ UNCHANGED <<serverVars, seen, crossed>>
    BY DEF Selecting, RecvNonRequest, historyVars
  <1>1. PICK s \in SessionEntry(p) :
          /\ ~ is_duplicate(s, pkt.mid)
          /\ LET recorded == record_inbound_mid(s, pkt.mid)
                 acked == IF pkt.type = "Confirmable"
                          THEN cache_response_for_mid(recorded, pkt.mid, EmptyAck(pkt.mid))
                          ELSE recorded
             IN  \/ SetSession(p, complete_exchange(acked, pkt.token))
                 \/ SetSession(p, acked)
    BY DEF RecvNonRequest
  <1> DEFINE recorded == record_inbound_mid(s, pkt.mid)
             cached == cache_response_for_mid(recorded, pkt.mid, EmptyAck(pkt.mid))
             acked == IF pkt.type = "Confirmable" THEN cached ELSE recorded
             completed == complete_exchange(acked, pkt.token)
  <1>2. /\ pkt.mid \in MIDs /\ IsSession(s)
        /\ Fits(p, s, Unanswered(p), seen[p], crossed)
        /\ pkt.mid \notin DOMAIN seen[p]
    BY <1>0, <1>1, InboundType, SessionEntryType, EntryRemembers
    DEF TypeOK, AnswerInv, Remembers, is_duplicate
  <1>3. IsSession(recorded) /\ Fits(p, recorded, Unanswered(p), seen[p], crossed)
    BY <1>2, RecordInboundMidType, RecordFits
  <1> HIDE DEF recorded
  <1>4. FitsRequest(p, EmptyAck(pkt.mid), pkt.mid, seen[p], crossed)
    BY <1>2 DEF FitsRequest, EmptyAck, Exempt
  <1>5. IsSession(cached) /\ Fits(p, cached, Unanswered(p), seen[p], crossed)
    BY <1>2, <1>3, <1>4, CacheResponseType, EmptyAckType, CacheKeepsFit
  <1> HIDE DEF cached
  <1>6. IsSession(acked) /\ Fits(p, acked, Unanswered(p), seen[p], crossed)
    BY <1>3, <1>5
  <1> HIDE DEF acked
  <1>7. KeepsAnswers(acked, completed) /\ Forgets(seen[p], seen[p])
    BY <1>6, IndexMethodsKeepAnswers DEF complete_exchange, Forgets
  <1> HIDE DEF completed
  <1>8. Fits(p, completed, Unanswered(p), seen[p], crossed)
    BY <1>6, <1>7, FitKept
  <1>9. \A o : Unanswered(o)' = Unanswered(o)
    BY <1>0 DEF Unanswered, serverVars
  <1>10. ASSUME NEW u, Fits(p, u, Unanswered(p), seen[p], crossed), SetSession(p, u)
         PROVE  AnswerInv'
    <2>1. Fits(p, u, Unanswered(p)', seen'[p], crossed')
      BY <1>0, <1>9, <1>10
    <2> QED
      BY <1>0, <1>9, <1>10, <2>1, SetFits
  <1>11. SetSession(p, completed) \/ SetSession(p, acked)
    BY <1>1 DEF completed, acked, cached, recorded
  <1> QED
    BY <1>6, <1>8, <1>10, <1>11

LEMMA OutboundRequestFits ==
  ASSUME TypeOK, AnswerInv, OutboundRequest
  PROVE  AnswerInv'
  <1> DEFINE r == Head(outbound_requests).request
             p == Head(outbound_requests).peer
  <1>0. running /\ running' = running /\ UNCHANGED <<serverVars, seen, crossed>>
    BY DEF Selecting, OutboundRequest
  <1>1. Head(outbound_requests) \in [request : Requests, peer : Peers]
    BY HeadTailProperties DEF OutboundRequest, TypeOK
  <1>2. r \in Requests /\ p \in Peers
    BY <1>1
  <1> HIDE DEF r, p
  <1>3. PICK s \in SessionEntry(p), timeout \in ACK_TIMEOUTS :
          LET token  == s.token_allocator.next
              mid    == s.mid_allocator.next
              s1     == allocate_mid(allocate_token(s))
              packet == RequestPacket(r, token, mid)
          IN  SetSession(p, IF r \in ConRequests
                THEN insert_con_exchange(s1, token, mid, new_con(r, mid, packet, timeout))
                ELSE insert_exchange(s1, token, new_non(r)))
    BY DEF OutboundRequest, r, p
  <1> DEFINE token  == s.token_allocator.next
             mid    == s.mid_allocator.next
             t1     == allocate_token(s)
             s1     == allocate_mid(t1)
             packet == RequestPacket(r, token, mid)
             con    == new_con(r, mid, packet, timeout)
             u == insert_con_exchange(s1, token, mid, con)
             non    == new_non(r)
             v == insert_exchange(s1, token, non)
  <1>4. IsSession(s)
    BY <1>2, SessionEntryType DEF TypeOK
  <1>5. token \in Tokens /\ mid \in MIDs /\ IsSession(t1) /\ KeepsAnswers(s, t1)
    BY <1>4, AllocateMidType, AllocateTokenType, SimpleMethodsKeepAnswers
  <1>6. packet \in Packets
    BY <1>2, <1>5, RequestsAssumption
    DEF RequestPacket, Packets, MessageTypes, MessageClasses
  <1> HIDE DEF token, mid, t1, packet
  <1>7. IsSession(s1) /\ KeepsAnswers(t1, s1)
    BY <1>5, AllocateMidType, SimpleMethodsKeepAnswers
  <1>8. con \in Exchanges
    BY <1>2, <1>5, <1>6, NewConType
  <1> HIDE DEF s1, con, non
  <1>9. KeepsAnswers(s1, u) /\ KeepsAnswers(s1, v)
    BY <1>5, <1>7, <1>8, InsertConKeepsAnswers, SimpleMethodsKeepAnswers
  <1>10. SetSession(p, IF r \in ConRequests THEN u ELSE v)
    BY <1>3 DEF token, mid, t1, s1, packet, con, non
  <1> HIDE DEF u, v
  <1>11. KeepsAnswers(s, u) /\ KeepsAnswers(s, v)
    BY <1>5, <1>7, <1>9, AnswersTransitive
  <1> QED
    BY <1>0, <1>2, <1>10, <1>11, QuietFits

\* The answer taken is cached only under the MID of the request it answers.
LEMMA OutboundResponseFits ==
  ASSUME TypeOK, AnswerInv, OneRequestPerToken,
         NEW encodable \in BOOLEAN, OutboundResponse(encodable)
  PROVE  AnswerInv'
  <1>0. /\ running /\ running' /\ server_responses # << >>
        /\ server_requests' = server_requests
        /\ server_responses' = Tail(server_responses)
        /\ seen' = seen /\ crossed' = crossed
    BY DEF Selecting, OutboundResponse, historyVars
  <1>1. PICK x \in ServerMessages : x = Head(server_responses)
    BY <1>0, HeadTailProperties DEF TypeOK
  <1>2. PICK p \in Peers, request \in InboundPackets : p = x.peer /\ request = x.request
    BY DEF ServerMessages
  <1>3. PICK s \in SessionEntry(p) :
          LET mid    == s.inbound_con_mids[request.token]
              packet == ResponsePacket(request, "Acknowledgement", mid)
              taken  == take_inbound_con_mid(s, request.token)
          IN  IF request.token \in DOMAIN s.inbound_con_mids
              THEN SetSession(p, IF encodable
                                 THEN cache_response_for_mid(taken, mid, packet)
                                 ELSE taken)
              ELSE SetSession(p, allocate_mid(s))
    BY <1>1, <1>2 DEF OutboundResponse
  <1> DEFINE token  == request.token
             mid    == s.inbound_con_mids[token]
             packet == ResponsePacket(request, "Acknowledgement", mid)
             taken  == take_inbound_con_mid(s, token)
             cached == cache_response_for_mid(taken, mid, packet)
             mids   == allocate_mid(s)
  <1>4. IsSession(s) /\ IsSession(taken) /\ Fits(p, s, Unanswered(p), seen[p], crossed)
    BY <1>0, SessionEntryType, TakeInboundConType DEF TypeOK, AnswerInv
  <1>5. /\ request \in Unanswered(p)
        /\ Unanswered(p)' \subseteq Unanswered(p)
        /\ \A q \in Unanswered(p) \ Unanswered(p)' : q.token = token
        /\ \A q \in Unanswered(p)' : q.token = token => <<p, q.token>> \in crossed
        /\ \A o \in Peers \ {p} : Unanswered(o)' = Unanswered(o)
    BY <1>0, <1>1, <1>2, AnsweredLeaves
  <1>6. KeepsAnswers(s, mids)
    BY <1>4, SimpleMethodsKeepAnswers
  <1> HIDE DEF taken, mids, packet
  <1>7. /\ Fits(p, taken, Unanswered(p)', seen[p], crossed)
        /\ token \notin DOMAIN s.inbound_con_mids => Fits(p, s, Unanswered(p)', seen[p], crossed)
    BY <1>4, <1>5, TakeFits DEF taken
  <1>8. ASSUME token \in DOMAIN s.inbound_con_mids
        PROVE  Fits(p, cached, Unanswered(p)', seen[p], crossed)
    <2>1. Exempt(p, mid, seen[p], crossed) \/ seen[p][mid].request = request
      BY <1>4, <1>5, <1>8 DEF Fits, PendingFits
    <2>2. FitsRequest(p, packet, mid, seen[p], crossed)
      BY <2>1 DEF FitsRequest, packet, ResponsePacket
    <2> QED
      BY <1>4, <1>7, <2>2, CacheKeepsFit
  <1>9. ASSUME token \notin DOMAIN s.inbound_con_mids
        PROVE  Fits(p, mids, Unanswered(p)', seen[p], crossed)
    BY <1>6, <1>7, <1>9, FitKept DEF Forgets
  <1>10. ASSUME NEW u, Fits(p, u, Unanswered(p)', seen[p], crossed), SetSession(p, u)
         PROVE  AnswerInv'
    <2>1. Fits(p, u, Unanswered(p)', seen'[p], crossed')
      BY <1>0, <1>10
    <2> QED
      BY <1>0, <1>5, <1>10, <2>1, SetFits
  <1>11. \/ SetSession(p, cached) /\ token \in DOMAIN s.inbound_con_mids
         \/ SetSession(p, taken)
         \/ SetSession(p, mids) /\ token \notin DOMAIN s.inbound_con_mids
    BY <1>3 DEF taken, mids, packet
  <1> HIDE DEF cached
  <1> QED
    BY <1>7, <1>8, <1>9, <1>10, <1>11

\* A step that only touches the sessions there are, or takes idle ones away.
LEMMA EachSessionFits ==
  ASSUME TypeOK, AnswerInv, running, running', UNCHANGED <<serverVars, crossed>>,
         DOMAIN sessions' \subseteq DOMAIN sessions,
         \A p \in DOMAIN sessions' : KeepsAnswers(sessions[p], sessions'[p]),
         \A p \in DOMAIN sessions \ DOMAIN sessions' : is_idle(sessions[p]),
         \A p \in Peers : Forgets(seen[p], seen'[p])
  PROVE  AnswerInv'
  <1>1. \A p : Unanswered(p)' = Unanswered(p)
    BY DEF Unanswered, serverVars
  <1>2. crossed' = crossed
    OBVIOUS
  <1>3. ASSUME NEW p \in Peers, NEW u, u \in SessionEntry(p)'
        PROVE  Fits(p, u, Unanswered(p)', seen'[p], crossed')
    <2>1. CASE p \in DOMAIN sessions'
      <3>1. p \in DOMAIN sessions /\ u = sessions'[p] /\ KeepsAnswers(sessions[p], u)
        BY <1>3, <2>1 DEF SessionEntry
      <3>2. Fits(p, sessions[p], Unanswered(p), seen[p], crossed)
        BY <3>1 DEF AnswerInv, SessionEntry
      <3>3. Fits(p, u, Unanswered(p), seen'[p], crossed)
        BY <3>1, <3>2, FitKept
      <3> QED
        BY <1>1, <1>2, <3>3
    <2>2. CASE p \notin DOMAIN sessions' /\ p \in DOMAIN sessions
      <3>1. is_idle(sessions[p]) /\ Fits(p, sessions[p], Unanswered(p), seen[p], crossed)
        BY <2>2 DEF AnswerInv, SessionEntry
      <3>2. DOMAIN u.inbound_con_mids = {} /\ DOMAIN u.inbound_dedup = {}
        BY <1>3, <2>2 DEF SessionEntry, NewSession, EmptyMap
      <3>3. RequestsFit(p, u, Unanswered(p), crossed)
        BY <3>1, <3>2 DEF Fits, RequestsFit, is_idle
      <3>4. Fits(p, u, Unanswered(p), seen'[p], crossed)
        BY <3>2, <3>3, NewSessionFits
      <3> QED
        BY <1>1, <1>2, <3>4
    <2>3. CASE p \notin DOMAIN sessions
      <3>1. u \in SessionEntry(p)
        BY <1>3, <2>3 DEF SessionEntry
      <3>2. Fits(p, u, Unanswered(p), seen[p], crossed) /\ KeepsAnswers(u, u)
        BY <3>1 DEF AnswerInv, KeepsAnswers
      <3>3. Fits(p, u, Unanswered(p), seen'[p], crossed)
        BY <3>2, FitKept
      <3> QED
        BY <1>1, <1>2, <3>3
    <2> QED
      BY <2>1, <2>2, <2>3
  <1> QED
    BY <1>3 DEF AnswerInv

\* A step that leaves the sessions, the unanswered requests and the history alone.
LEMMA SameFits ==
  ASSUME AnswerInv, UNCHANGED <<running, sessions, seen, crossed>>,
         running => \A p : Unanswered(p)' = Unanswered(p)
  PROVE  AnswerInv'
  <1>1. ASSUME running, NEW p \in Peers, NEW s, s \in SessionEntry(p)'
        PROVE  Fits(p, s, Unanswered(p)', seen'[p], crossed')
    <2>1. s \in SessionEntry(p)
      BY <1>1 DEF SessionEntry
    <2>2. Fits(p, s, Unanswered(p), seen[p], crossed)
      BY <1>1, <2>1 DEF AnswerInv
    <2>3. /\ Unanswered(p)' = Unanswered(p)
          /\ seen'[p] = seen[p]
          /\ crossed' = crossed
      BY <1>1
    <2> QED
      BY <2>2, <2>3
  <1> QED
    BY <1>1 DEF AnswerInv

LEMMA RecvPacketFits ==
  ASSUME TypeOK, SeenInv, AnswerInv, NEW p \in Peers, NEW pkt \in InboundPackets,
         RecvPacket(p, pkt)
  PROVE  AnswerInv'
  <1>0. \A s \in SessionEntry(p) : IsSession(s)
    BY SessionEntryType DEF TypeOK
  <1>1. CASE RecvDuplicate(p, pkt)
    <2>1. UNCHANGED <<running, sessions, serverVars, seen, crossed>>
      BY <1>1 DEF RecvDuplicate, taskVars, historyVars
    <2>2. \A o : Unanswered(o)' = Unanswered(o)
      BY <2>1 DEF Unanswered, serverVars
    <2> QED
      BY <2>1, <2>2, SameFits
  <1>2. CASE RecvRequest(p, pkt)
    BY <1>2, RecvRequestFits
  <1>3. CASE RecvNonRequest(p, pkt)
    BY <1>3, RecvNonRequestFits
  <1>4. CASE RecvAck(p, pkt)
    <2>0. running /\ running' = running /\ UNCHANGED <<serverVars, seen, crossed>>
      BY <1>4 DEF Selecting, RecvAck, historyVars
    <2>1. PICK s \in SessionEntry(p) :
            SetSession(p, IF pkt.code = "Empty" THEN handle_ack(s, pkt.mid, pkt.code) ELSE s)
      BY <1>4 DEF RecvAck
    <2>2. KeepsAnswers(s, handle_ack(s, pkt.mid, pkt.code)) /\ KeepsAnswers(s, s)
      BY <1>0, IndexMethodsKeepAnswers, SameAnswers
    <2> QED
      BY <2>0, <2>1, <2>2, QuietFits
  <1>5. CASE RecvPiggybacked(p, pkt)
    <2>0. running /\ running' = running /\ UNCHANGED <<serverVars, seen, crossed>>
      BY <1>5 DEF Selecting, RecvPiggybacked, historyVars
    <2>1. PICK s \in SessionEntry(p) :
            SetSession(p, RemoveExchanges(handle_ack(s, pkt.mid, pkt.code), TokenOf(s, pkt.mid)))
      BY <1>5 DEF RecvPiggybacked
    <2> DEFINE acked == handle_ack(s, pkt.mid, pkt.code)
               u == RemoveExchanges(acked, TokenOf(s, pkt.mid))
    <2>2. IsSession(acked) /\ KeepsAnswers(s, acked)
      BY <1>0, HandleAckType, IndexMethodsKeepAnswers
    <2> HIDE DEF acked
    <2>3. KeepsAnswers(acked, u)
      BY <2>2, IndexMethodsKeepAnswers
    <2>4. SetSession(p, u)
      BY <2>1 DEF acked
    <2> HIDE DEF u
    <2> QED
      BY <2>0, <2>2, <2>3, <2>4, AnswersTransitive, QuietFits
  <1>6. CASE RecvReset(p, pkt)
    <2>0. running /\ running' = running /\ UNCHANGED <<serverVars, seen, crossed>>
      BY <1>6 DEF Selecting, RecvReset, historyVars
    <2>1. PICK s \in SessionEntry(p) : SetSession(p, handle_rst(s, pkt.mid))
      BY <1>6 DEF RecvReset
    <2>2. KeepsAnswers(s, handle_rst(s, pkt.mid))
      BY <1>0, IndexMethodsKeepAnswers
    <2> QED
      BY <2>0, <2>1, <2>2, QuietFits
  <1> QED
    BY <1>1, <1>2, <1>3, <1>4, <1>5, <1>6 DEF RecvPacket

LEMMA NextAnswers ==
  TypeOK /\ SeenInv /\ OneRequestPerToken /\ AnswerInv /\ [Next]_vars => AnswerInv'
  <1> SUFFICES ASSUME TypeOK, SeenInv, OneRequestPerToken, AnswerInv, [Next]_vars
               PROVE  AnswerInv'
    OBVIOUS
  <1>0. \A p \in Peers : Forgets(seen[p], seen[p])
    BY DEF Forgets
  <1>1. CASE \E p \in Peers, pkt \in InboundPackets : RecvPacket(p, pkt)
    BY <1>1, RecvPacketFits
  <1>2. CASE OutboundRequest
    BY <1>2, OutboundRequestFits
  <1>3. CASE OutboundRequestUnencodable
    <2> DEFINE p == Head(outbound_requests).peer
    <2>1. p \in Peers
      <3>1. Head(outbound_requests) \in [request : Requests, peer : Peers]
        BY <1>3, HeadTailProperties DEF OutboundRequestUnencodable, TypeOK
      <3> QED
        BY <3>1
    <2>2. PICK s \in SessionEntry(p) : SetSession(p, allocate_mid(allocate_token(s)))
      BY <1>3 DEF OutboundRequestUnencodable
    <2> HIDE DEF p
    <2> DEFINE t == allocate_token(s)
               u == allocate_mid(t)
    <2>3. IsSession(t) /\ KeepsAnswers(s, t)
      BY <2>1, SessionEntryType, AllocateTokenType, SimpleMethodsKeepAnswers DEF TypeOK
    <2> HIDE DEF t
    <2>4. KeepsAnswers(t, u)
      BY <2>3, SimpleMethodsKeepAnswers
    <2>5. SetSession(p, u)
      BY <2>2 DEF t
    <2>6. running /\ running' = running /\ UNCHANGED <<serverVars, seen, crossed>>
      BY <1>3 DEF Selecting, OutboundRequestUnencodable, historyVars
    <2> HIDE DEF u
    <2> QED
      BY <2>1, <2>3, <2>4, <2>5, <2>6, AnswersTransitive, QuietFits
  <1>4. CASE \E ok \in BOOLEAN : OutboundResponse(ok)
    BY <1>4, OutboundResponseFits
  <1>5. CASE RetransmissionTimer
    <2>1. /\ running /\ running' /\ UNCHANGED <<serverVars, crossed>> /\ seen' = seen
          /\ DOMAIN sessions' = DOMAIN sessions
          /\ \A p \in DOMAIN sessions : sessions'[p] = TimerWork(sessions[p])
      BY <1>5 DEF Selecting, RetransmissionTimer
    <2>2. \A p \in DOMAIN sessions' : KeepsAnswers(sessions[p], sessions'[p])
      BY <2>1, TimerKeepsAnswers DEF TypeOK, SessionsOK
    <2> QED
      BY <1>0, <2>1, <2>2, EachSessionFits
  <1>6. CASE CleanupTimer
    <2>1. /\ running /\ running' /\ UNCHANGED <<serverVars, crossed>> /\ seen' = seen
          /\ sessions' = Restrict(sessions, {p \in DOMAIN sessions : ~ is_idle(sessions[p])})
      BY <1>6 DEF Selecting, CleanupTimer, historyVars
    <2>2. /\ DOMAIN sessions' \subseteq DOMAIN sessions
          /\ \A p \in DOMAIN sessions' : sessions'[p] = sessions[p]
          /\ \A p \in DOMAIN sessions \ DOMAIN sessions' : is_idle(sessions[p])
      BY <2>1 DEF Restrict
    <2>3. \A p \in DOMAIN sessions' : KeepsAnswers(sessions[p], sessions'[p])
      BY <2>2, SameAnswers
    <2> QED
      BY <1>0, <2>1, <2>2, <2>3, EachSessionFits
  <1>7. CASE StackReturns
    BY <1>7 DEF StackReturns, AnswerInv, EmptyMap
  <1>8. CASE Tick
    <2>1. /\ running /\ running' /\ UNCHANGED <<serverVars, crossed>>
          /\ DOMAIN sessions' = DOMAIN sessions
          /\ \A p \in DOMAIN sessions : sessions'[p] = AgeSession(sessions[p])
      BY <1>8 DEF Tick
    <2>2. \A p \in DOMAIN sessions' : KeepsAnswers(sessions[p], sessions'[p])
      BY <2>1, AgeKeepsAnswers DEF TypeOK, SessionsOK
    <2>3. ASSUME NEW p \in Peers PROVE Forgets(seen[p], seen'[p])
      <3>1. seen'[p] = [k \in {k \in DOMAIN seen[p] : seen[p][k].age + 1 < EXCHANGE_LIFETIME} |->
                          [seen[p][k] EXCEPT !.age = @ + 1]]
        BY <1>8 DEF Tick
      <3>2. \A k \in DOMAIN seen[p] : seen[p][k] \in SeenEntries
        BY DEF TypeOK, SeenOK, IsMap
      <3> QED
        BY <3>1, <3>2 DEF Forgets, SeenEntries
    <2> QED
      BY <2>1, <2>2, <2>3, EachSessionFits
  <1>9. CASE ServerHandle
    <2>1. UNCHANGED <<running, sessions, seen, crossed>>
      BY <1>9 DEF ServerHandle, taskVars, historyVars
    <2>2. running => \A p : Unanswered(p)' = Unanswered(p)
      BY <1>9, HandledIsUnanswered DEF ServerHandle
    <2> QED
      BY <2>1, <2>2, SameFits
  <1>10. CASE UNCHANGED <<running, sessions, serverVars, seen, crossed>>
    <2>1. \A p : Unanswered(p)' = Unanswered(p)
      BY <1>10 DEF Unanswered, serverVars
    <2> QED
      BY <1>10, <2>1, SameFits
  <1>11. (\E r \in Requests, p \in Peers : SendRequest(r, p)) =>
           UNCHANGED <<running, sessions, serverVars, seen, crossed>>
    BY DEF SendRequest, taskVars, historyVars
  <1>12. (\E r \in Requests : ClientTimeout(r)) =>
           UNCHANGED <<running, sessions, serverVars, seen, crossed>>
    BY DEF ClientTimeout, taskVars, historyVars
  <1>13. UNCHANGED vars => UNCHANGED <<running, sessions, serverVars, seen, crossed>>
    BY DEF vars, taskVars, historyVars
  <1> QED
    BY <1>1, <1>2, <1>3, <1>4, <1>5, <1>6, <1>7, <1>8, <1>9, <1>10, <1>11, <1>12, <1>13 DEF Next

LEMMA AnswersInvariant == Spec => [](AnswerInv /\ OneRequestPerToken)
  <1>1. Init => AnswerInv
    <2> SUFFICES ASSUME Init PROVE AnswerInv
      OBVIOUS
    <2>1. \A p : Unanswered(p) = {}
      BY DEF Init, Unanswered, Range
    <2>2. ASSUME NEW p \in Peers, NEW s \in SessionEntry(p)
          PROVE  Fits(p, s, {}, seen[p], crossed)
      <3>1. DOMAIN s.inbound_con_mids = {} /\ DOMAIN s.inbound_dedup = {}
        BY DEF Init, SessionEntry, NewSession, EmptyMap
      <3>2. RequestsFit(p, s, {}, crossed)
        BY DEF RequestsFit
      <3> QED
        BY <3>1, <3>2, NewSessionFits
    <2> QED
      BY <2>1, <2>2 DEF Init, AnswerInv
  <1>2. Init => OneRequestPerToken
    BY DEF Init, OneRequestPerToken, NoTwins
  <1>3. TypeOK /\ SeenInv /\ AnswerInv /\ OneRequestPerToken /\ [Next]_vars =>
          (AnswerInv /\ OneRequestPerToken)'
    BY NextOne, NextAnswers
  <1> QED
    BY <1>1, <1>2, <1>3, TypeCorrect, SeenInvariant, PTL DEF Spec

\* What is cached under a MID acknowledges it, and answers the request that
\* was dispatched under it last, so that a duplicate is given the answer of the
\* request it repeats, unless the peer reused the token of an unanswered request
\* or the server still owed an answer to an earlier request under the MID.
THEOREM CachedAnswerCorrect == Spec => []CachedResponseAnswersRequest
  <1>1. TypeOK /\ AnswerInv => CachedResponseAnswersRequest
    <2> SUFFICES ASSUME TypeOK, AnswerInv, NEW p \in DOMAIN sessions,
                        NEW m \in DOMAIN sessions[p].inbound_dedup
                 PROVE  CachedAnswers(p, m, m \in DOMAIN seen[p] /\ seen[p][m].overdue)
      BY DEF CachedResponseAnswersRequest
    <2> SUFFICES ASSUME sessions[p].inbound_dedup[m].cached_response # None
                 PROVE  CachedAnswers(p, m, m \in DOMAIN seen[p] /\ seen[p][m].overdue)
      BY Zenon DEF CachedAnswers
    <2>1. running /\ p \in Peers /\ sessions[p] \in SessionEntry(p)
      BY DEF AnswerInv, TypeOK, SessionsOK, IsMap, SessionEntry
    <2>2. CacheFits(p, sessions[p], seen[p], crossed)
      BY <2>1 DEF AnswerInv, Fits
    <2>3. FitsRequest(p, sessions[p].inbound_dedup[m].cached_response, m, seen[p], crossed)
      BY <2>2 DEF CacheFits
    <2>4. m \in DOMAIN seen[p] => seen[p][m].overdue \in BOOLEAN
      BY <2>1 DEF TypeOK, SeenOK, IsMap, SeenEntries
    <2>5. ASSUME m \in DOMAIN seen[p], ~ seen[p][m].overdue,
                 <<p, seen[p][m].request.token>> \notin crossed
          PROVE  sessions[p].inbound_dedup[m].cached_response =
                   ResponsePacket(seen[p][m].request, "Acknowledgement", m)
      BY <2>3, <2>4, <2>5 DEF FitsRequest, Exempt
    <2> QED
      BY <2>3, <2>5, Zenon DEF CachedAnswers, FitsRequest
  <1> QED
    BY <1>1, TypeCorrect, AnswersInvariant, PTL

\* The step that takes an answer from the server's channel.
LEMMA TakesAnAnswer ==
  ASSUME TypeOK, [Next]_vars, AnswerTaken
  PROVE  \E ok \in BOOLEAN : OutboundResponse(ok)
  <1>0. /\ Len(server_responses) \in Nat \ {0}
        /\ Len(server_responses') = Len(server_responses) - 1
        /\ running'
    BY HeadTailProperties, LenProperties, EmptySeq DEF TypeOK, AnswerTaken
  <1>1. server_responses' # server_responses
    BY <1>0
  <1>2. ~ ServerHandle
    <2> SUFFICES ASSUME ServerHandle PROVE FALSE
      OBVIOUS
    <2>1. Head(server_requests) \in ServerMessages /\ running
      BY <1>0, HeadTailProperties DEF ServerHandle, taskVars, TypeOK
    <2>2. Len(server_responses') = Len(server_responses) + 1
      BY <2>1, AppendProperties DEF ServerHandle, TypeOK
    <2> QED
      BY <1>0, <2>2
  <1>3. ASSUME NEW p \in Peers, NEW pkt \in InboundPackets, RecvPacket(p, pkt)
        PROVE  server_responses' = server_responses
    <2>1. RecvDuplicate(p, pkt) \/ RecvRequest(p, pkt) => server_responses' = server_responses
      BY DEF RecvDuplicate, RecvRequest, serverVars
    <2>2. RecvNonRequest(p, pkt) => server_responses' = server_responses
      BY DEF RecvNonRequest, serverVars
    <2>3. RecvAck(p, pkt) \/ RecvPiggybacked(p, pkt) => server_responses' = server_responses
      BY DEF RecvAck, RecvPiggybacked, serverVars
    <2>4. RecvReset(p, pkt) => server_responses' = server_responses
      BY DEF RecvReset, serverVars
    <2> QED
      BY <1>3, <2>1, <2>2, <2>3, <2>4 DEF RecvPacket
  <1>4. ~ (OutboundRequest \/ OutboundRequestUnencodable)
    BY <1>1 DEF OutboundRequest, OutboundRequestUnencodable, serverVars
  <1>5. ~ (RetransmissionTimer \/ CleanupTimer \/ StackReturns \/ Tick)
    BY <1>0, <1>1 DEF RetransmissionTimer, CleanupTimer, StackReturns, Tick, serverVars
  <1>6. ~ \E r \in Requests, p \in Peers : SendRequest(r, p)
    BY <1>1 DEF SendRequest, serverVars
  <1>7. ~ \E r \in Requests : ClientTimeout(r)
    BY <1>1 DEF ClientTimeout, serverVars
  <1>8. ~ UNCHANGED vars
    BY <1>1 DEF vars, serverVars
  <1> QED
    BY <1>1, <1>2, <1>3, <1>4, <1>5, <1>6, <1>7, <1>8 DEF Next

LEMMA AnswerFits ==
  ASSUME TypeOK, OneRequestPerToken, AnswerInv, [Next]_vars, AnswerTaken,
         <<Head(server_responses).peer, Head(server_responses).request.token>> \notin crossed
  PROVE  AnswersAsAsked(Head(server_responses), sent')
  <1>1. PICK ok \in BOOLEAN : OutboundResponse(ok)
    BY TakesAnAnswer
  <1>2. running /\ server_responses # << >>
        /\ server_requests' = server_requests /\ server_responses' = Tail(server_responses)
    BY <1>1 DEF Selecting, OutboundResponse
  <1>3. PICK x \in ServerMessages : x = Head(server_responses)
    BY <1>2, HeadTailProperties DEF TypeOK
  <1>4. PICK p \in Peers, request \in InboundPackets : p = x.peer /\ request = x.request
    BY DEF ServerMessages
  <1>5. PICK s \in SessionEntry(p) :
          IF request.token \in DOMAIN s.inbound_con_mids
          THEN Send(p, IF ok THEN {ResponsePacket(request, "Acknowledgement",
                                                  s.inbound_con_mids[request.token])}
                       ELSE {})
          ELSE Send(p, IF ok THEN {ResponsePacket(request, "NonConfirmable",
                                                  s.mid_allocator.next)}
                       ELSE {})
    BY <1>1, <1>3, <1>4 DEF OutboundResponse
  <1>6. Fits(p, s, Unanswered(p), seen[p], crossed) /\ request \in Unanswered(p)
    BY <1>2, <1>3, <1>4, AnsweredLeaves DEF AnswerInv
  <1>7. IF request.type = "Confirmable"
        THEN /\ request.token \in DOMAIN s.inbound_con_mids
             /\ s.inbound_con_mids[request.token] = request.mid
        ELSE request.token \notin DOMAIN s.inbound_con_mids
    BY <1>3, <1>4, <1>6 DEF Fits, RequestsFit
  <1>8. \A y \in sent' : /\ y.peer = p
                         /\ IF request.type = "Confirmable"
                            THEN y.packet = ResponsePacket(request, "Acknowledgement", request.mid)
                            ELSE y.packet.type = "NonConfirmable"
    BY <1>5, <1>7 DEF Send, ResponsePacket
  <1> QED
    BY <1>3, <1>4, <1>8 DEF AnswersAsAsked

\* A confirmable request is answered on the acknowledgement of that very
\* request, any other by a NON message, however requests, duplicates and
\* cleanups interleave, as long as its peer did not cross it.
THEOREM AnswerCorrect == Spec => ResponseAnswersRequest
  <1>1. TypeOK /\ AnswerInv /\ OneRequestPerToken /\ [Next]_vars =>
          [AnswerTaken =>
             LET q == Head(server_responses)
             IN  <<q.peer, q.request.token>> \notin crossed => AnswersAsAsked(q, sent')]_vars
    BY AnswerFits
  <1> QED
    BY <1>1, TypeCorrect, AnswersInvariant, PTL DEF Spec, ResponseAnswersRequest
=============================================================================
