------------------------- MODULE PeerSessionProofs -------------------------
(***************************************************************************)
(* Every method of a session keeps it a session, and what each does to the *)
(* session's maps, for every value of the constants.                       *)
(***************************************************************************)
EXTENDS PeerSession, TLAPS

-----------------------------------------------------------------------------
(* The maps.                                                               *)

\* The empty map has every map type (HashMap::new).
LEMMA EmptyMapType == ASSUME NEW K, NEW V PROVE IsMap(EmptyMap, K, V)
  BY DEF IsMap, EmptyMap

\* HashMap::insert keeps the type of the map, and makes k lead to v.
LEMMA InsertType ==
  ASSUME NEW K, NEW V, NEW m, IsMap(m, K, V), NEW k \in K, NEW v \in V
  PROVE  /\ IsMap(Insert(m, k, v), K, V)
         /\ DOMAIN Insert(m, k, v) = DOMAIN m \cup {k}
         /\ Insert(m, k, v)[k] = v
         /\ \A x \in DOMAIN m : x # k => Insert(m, k, v)[x] = m[x]
  BY DEF IsMap, Insert

\* HashMap::remove keeps the type of the map and the entries that stay.
LEMMA RemoveType ==
  ASSUME NEW K, NEW V, NEW m, IsMap(m, K, V), NEW X
  PROVE  /\ IsMap(RemoveAll(m, X), K, V)
         /\ DOMAIN RemoveAll(m, X) = DOMAIN m \ X
         /\ \A x \in DOMAIN m \ X : RemoveAll(m, X)[x] = m[x]
  BY DEF IsMap, RemoveAll, Restrict

-----------------------------------------------------------------------------
(* Types of the parts of a session.                                        *)

LEMMA NewAllocatorType ==
  ASSUME NEW N \in Nat \ {0}, NEW start \in 0 .. N - 1
  PROVE  NewAllocator(start) \in Allocators(N)
  BY DEF NewAllocator, Allocators

\* wrapping_add keeps the counter in range.
LEMMA AllocateType ==
  ASSUME NEW N \in Nat \ {0}, NEW a \in Allocators(N)
  PROVE  /\ Allocate(a, N) \in Allocators(N)
         /\ a.next \in 0 .. N - 1
  BY DEF Allocate, Allocators

LEMMA NewConType ==
  ASSUME NEW r \in Requests, NEW mid \in MIDs, NEW packet \in Packets,
         NEW timeout \in ACK_TIMEOUTS
  PROVE  new_con(r, mid, packet, timeout) \in Exchanges
  BY TimingAssumption
  DEF new_con, Exchanges, NewRetransmitState, RetransmitStates

LEMMA NewNonType ==
  ASSUME NEW r \in Requests
  PROVE  new_non(r) \in Exchanges
  BY TimingAssumption DEF new_non, Exchanges

LEMMA CancelType ==
  ASSUME NEW e \in Exchanges
  PROVE  cancel_retransmission(e) \in Exchanges
  BY DEF cancel_retransmission, Exchanges

LEMMA AdvanceType ==
  ASSUME NEW x \in RetransmitStates, CanAdvance(x)
  PROVE  Advance(x) \in RetransmitStates
  <1>1. x.retransmit_count + 1 \in 0 .. MAX_RETRANSMIT
    BY TimingAssumption DEF CanAdvance, RetransmitStates
  <1>2. 2 * x.current_timeout \in Nat
    BY DEF RetransmitStates
  <1> QED
    BY <1>1, <1>2 DEF Advance, RetransmitStates

LEMMA TickDownType == \A n \in Nat : TickDown(n) \in Nat
  BY DEF TickDown

LEMMA AgeExchangeType ==
  ASSUME NEW e \in Exchanges
  PROVE  AgeExchange(e) \in Exchanges
  <1> DEFINE r == IF e.retransmit = None THEN None ELSE AgeRetransmit(e.retransmit)
             x == IF e.expires_at = None THEN None ELSE TickDown(e.expires_at)
  <1>1. r \in RetransmitStates \cup {None}
    BY TickDownType DEF Exchanges, RetransmitStates, AgeRetransmit
  <1>2. x \in Nat \cup {None}
    BY TickDownType DEF Exchanges
  <1>3. AgeExchange(e) = [e EXCEPT !.retransmit = r, !.expires_at = x]
    BY DEF AgeExchange
  <1> HIDE DEF r, x
  <1>4. AgeExchange(e) = [response_tx |-> e.response_tx, message_id |-> e.message_id,
                          retransmit |-> r, expires_at |-> x]
    BY <1>3 DEF Exchanges
  <1> QED
    BY <1>1, <1>2, <1>4 DEF Exchanges

-----------------------------------------------------------------------------
(* Types of a session after each method.                                   *)

\* The session s with its indexes replaced.
WithIndexes(s, x, y) ==
  [exchanges        |-> x,
   mid_to_token     |-> y,
   mid_allocator    |-> s.mid_allocator,
   token_allocator  |-> s.token_allocator,
   inbound_dedup    |-> s.inbound_dedup,
   inbound_con_mids |-> s.inbound_con_mids]

LEMMA NewSessionType ==
  ASSUME NEW m \in MidStarts, NEW t \in TokenStarts
  PROVE  IsSession(NewSession(m, t))
  <1>1. NewAllocator(m) \in Allocators(MID_MODULUS)
    BY NewAllocatorType, ModulusAssumption, StartsAssumption DEF MIDs
  <1>2. NewAllocator(t) \in Allocators(TOKEN_MODULUS)
    BY NewAllocatorType, ModulusAssumption, StartsAssumption DEF Tokens
  <1> QED
    BY <1>1, <1>2, EmptyMapType DEF IsSession, NewSession

LEMMA AllocateMidType ==
  ASSUME NEW s, IsSession(s)
  PROVE  IsSession(allocate_mid(s)) /\ s.mid_allocator.next \in MIDs
  <1>1. /\ Allocate(s.mid_allocator, MID_MODULUS) \in Allocators(MID_MODULUS)
        /\ s.mid_allocator.next \in MIDs
    BY AllocateType, ModulusAssumption DEF IsSession, MIDs
  <1> QED
    BY <1>1 DEF IsSession, allocate_mid

LEMMA AllocateTokenType ==
  ASSUME NEW s, IsSession(s)
  PROVE  IsSession(allocate_token(s)) /\ s.token_allocator.next \in Tokens
  <1>1. /\ Allocate(s.token_allocator, TOKEN_MODULUS) \in Allocators(TOKEN_MODULUS)
        /\ s.token_allocator.next \in Tokens
    BY AllocateType, ModulusAssumption DEF IsSession, Tokens
  <1> QED
    BY <1>1 DEF IsSession, allocate_token

LEMMA InsertExchangeType ==
  ASSUME NEW s, IsSession(s), NEW token \in Tokens, NEW e \in Exchanges
  PROVE  IsSession(insert_exchange(s, token, e))
  <1>1. IsMap(Insert(s.exchanges, token, e), Tokens, Exchanges)
    BY InsertType DEF IsSession
  <1> QED
    BY <1>1 DEF IsSession, insert_exchange

\* Replacing the two indexes of a session leaves its other fields alone.
LEMMA SetIndexes ==
  ASSUME NEW s, IsSession(s), NEW x, NEW y
  PROVE  /\ [s EXCEPT !.exchanges = x, !.mid_to_token = y] = WithIndexes(s, x, y)
         /\ [s EXCEPT !.mid_to_token = y, !.exchanges = x] = WithIndexes(s, x, y)
  <1> DEFINE u == [s EXCEPT !.exchanges = x]
             v == [s EXCEPT !.mid_to_token = y]
  <1>1. u = WithIndexes(s, x, s.mid_to_token)
    BY DEF IsSession, WithIndexes
  <1>2. v = WithIndexes(s, s.exchanges, y)
    BY DEF IsSession, WithIndexes
  <1>3. [s EXCEPT !.exchanges = x, !.mid_to_token = y] = [u EXCEPT !.mid_to_token = y]
    OBVIOUS
  <1>4. [s EXCEPT !.mid_to_token = y, !.exchanges = x] = [v EXCEPT !.exchanges = x]
    OBVIOUS
  <1> HIDE DEF u, v
  <1>5. [u EXCEPT !.mid_to_token = y] = WithIndexes(s, x, y)
    BY <1>1 DEF WithIndexes
  <1>6. [v EXCEPT !.exchanges = x] = WithIndexes(s, x, y)
    BY <1>2 DEF WithIndexes
  <1> QED
    BY <1>3, <1>4, <1>5, <1>6

LEMMA InsertConExchangeFields ==
  ASSUME NEW s, IsSession(s), NEW token \in Tokens, NEW mid \in MIDs, NEW e \in Exchanges
  PROVE  insert_con_exchange(s, token, mid, e) =
           WithIndexes(s, Insert(s.exchanges, token, e), Insert(s.mid_to_token, mid, token))
  BY SetIndexes DEF insert_con_exchange

LEMMA InsertConExchangeType ==
  ASSUME NEW s, IsSession(s), NEW token \in Tokens, NEW mid \in MIDs, NEW e \in Exchanges
  PROVE  IsSession(insert_con_exchange(s, token, mid, e))
  <1>1. IsMap(Insert(s.exchanges, token, e), Tokens, Exchanges)
    BY InsertType DEF IsSession
  <1>2. IsMap(Insert(s.mid_to_token, mid, token), MIDs, Tokens)
    BY InsertType DEF IsSession
  <1> QED
    BY <1>1, <1>2, InsertConExchangeFields DEF IsSession, WithIndexes

LEMMA RemoveExchangesFields ==
  ASSUME NEW s, IsSession(s), NEW T
  PROVE  LET gone == T \cap DOMAIN s.exchanges
         IN  RemoveExchanges(s, T) =
               WithIndexes(s, RemoveAll(s.exchanges, gone),
                 RemoveAll(s.mid_to_token, {s.exchanges[t].message_id : t \in gone}))
  BY SetIndexes DEF RemoveExchanges

LEMMA RemoveExchangesType ==
  ASSUME NEW s, IsSession(s), NEW T
  PROVE  IsSession(RemoveExchanges(s, T))
  <1> DEFINE gone == T \cap DOMAIN s.exchanges
             x == RemoveAll(s.exchanges, gone)
             y == RemoveAll(s.mid_to_token, {s.exchanges[t].message_id : t \in gone})
  <1>1. IsMap(x, Tokens, Exchanges)
    BY RemoveType DEF IsSession
  <1>2. IsMap(y, MIDs, Tokens)
    BY RemoveType DEF IsSession
  <1>3. RemoveExchanges(s, T) = WithIndexes(s, x, y)
    BY RemoveExchangesFields
  <1> HIDE DEF x, y
  <1> QED
    BY <1>1, <1>2, <1>3 DEF IsSession, WithIndexes

LEMMA HandleAckFields ==
  ASSUME NEW s, IsSession(s), NEW mid, NEW code
  PROVE  LET acked == TokenOf(s, mid) \cap DOMAIN s.exchanges
         IN  handle_ack(s, mid, code) =
               WithIndexes(s, [t \in DOMAIN s.exchanges |->
                                 IF code = "Empty" /\ t \in acked
                                 THEN cancel_retransmission(s.exchanges[t])
                                 ELSE s.exchanges[t]],
                           RemoveAll(s.mid_to_token, {mid}))
  BY SetIndexes DEF handle_ack

LEMMA HandleAckType ==
  ASSUME NEW s, IsSession(s), NEW mid, NEW code
  PROVE  IsSession(handle_ack(s, mid, code))
  <1> DEFINE acked == TokenOf(s, mid) \cap DOMAIN s.exchanges
             x == [t \in DOMAIN s.exchanges |-> IF code = "Empty" /\ t \in acked
                                                THEN cancel_retransmission(s.exchanges[t])
                                                ELSE s.exchanges[t]]
             y == RemoveAll(s.mid_to_token, {mid})
  <1>1. IsMap(x, Tokens, Exchanges)
    <2>1. \A t \in DOMAIN s.exchanges : /\ s.exchanges[t] \in Exchanges
                                       /\ cancel_retransmission(s.exchanges[t]) \in Exchanges
      BY CancelType DEF IsSession, IsMap
    <2> QED
      BY <2>1 DEF IsSession, IsMap
  <1>2. IsMap(y, MIDs, Tokens)
    BY RemoveType DEF IsSession
  <1>3. handle_ack(s, mid, code) = WithIndexes(s, x, y)
    BY HandleAckFields
  <1> HIDE DEF x, y
  <1> QED
    BY <1>1, <1>2, <1>3 DEF IsSession, WithIndexes

LEMMA HandleRstFields ==
  ASSUME NEW s, IsSession(s), NEW mid
  PROVE  handle_rst(s, mid) = WithIndexes(s, RemoveAll(s.exchanges, TokenOf(s, mid)),
                                          RemoveAll(s.mid_to_token, {mid}))
  BY SetIndexes DEF handle_rst

LEMMA HandleRstType ==
  ASSUME NEW s, IsSession(s), NEW mid
  PROVE  IsSession(handle_rst(s, mid))
  <1>1. IsMap(RemoveAll(s.exchanges, TokenOf(s, mid)), Tokens, Exchanges)
    BY RemoveType DEF IsSession
  <1>2. IsMap(RemoveAll(s.mid_to_token, {mid}), MIDs, Tokens)
    BY RemoveType DEF IsSession
  <1> QED
    BY <1>1, <1>2, HandleRstFields DEF IsSession, WithIndexes

LEMMA RecordInboundMidType ==
  ASSUME NEW s, IsSession(s), NEW mid \in MIDs
  PROVE  IsSession(record_inbound_mid(s, mid))
  <1>1. NewDedupEntry \in DedupEntries
    BY TimingAssumption DEF NewDedupEntry, DedupEntries
  <1>2. IsMap(Insert(s.inbound_dedup, mid, NewDedupEntry), MIDs, DedupEntries)
    BY <1>1, InsertType DEF IsSession
  <1> QED
    BY <1>2 DEF IsSession, record_inbound_mid

LEMMA CacheResponseType ==
  ASSUME NEW s, IsSession(s), NEW mid, NEW packet \in Packets
  PROVE  IsSession(cache_response_for_mid(s, mid, packet))
  <1> DEFINE x == [s.inbound_dedup EXCEPT ![mid].cached_response = packet]
  <1>1. mid \in DOMAIN s.inbound_dedup => IsMap(x, MIDs, DedupEntries)
    BY DEF IsSession, IsMap, DedupEntries
  <1>2. cache_response_for_mid(s, mid, packet) =
          IF mid \in DOMAIN s.inbound_dedup THEN [s EXCEPT !.inbound_dedup = x] ELSE s
    BY DEF cache_response_for_mid
  <1> HIDE DEF x
  <1> QED
    BY <1>1, <1>2 DEF IsSession

LEMMA RecordInboundConType ==
  ASSUME NEW s, IsSession(s), NEW token \in Tokens \cup {None}, NEW mid \in MIDs
  PROVE  IsSession(record_inbound_con(s, token, mid))
  <1>1. IsMap(Insert(s.inbound_con_mids, token, mid), Tokens \cup {None}, MIDs)
    BY InsertType DEF IsSession
  <1> QED
    BY <1>1 DEF IsSession, record_inbound_con

LEMMA TakeInboundConType ==
  ASSUME NEW s, IsSession(s), NEW token
  PROVE  IsSession(take_inbound_con_mid(s, token))
  <1>1. IsMap(RemoveAll(s.inbound_con_mids, {token}), Tokens \cup {None}, MIDs)
    BY RemoveType DEF IsSession
  <1> QED
    BY <1>1 DEF IsSession, take_inbound_con_mid

LEMMA AdvanceDueType ==
  ASSUME NEW s, IsSession(s)
  PROVE  IsSession(AdvanceDue(s))
  <1> DEFINE x == [t \in DOMAIN s.exchanges |-> IF t \in ResendTokens(s)
                                               THEN advance_retransmit(s.exchanges[t])
                                               ELSE s.exchanges[t]]
  <1>1. ASSUME NEW t \in ResendTokens(s)
        PROVE  advance_retransmit(s.exchanges[t]) \in Exchanges
    <2>1. s.exchanges[t] \in Exchanges
      BY DEF ResendTokens, DueTokens, IsSession, IsMap
    <2>2. /\ s.exchanges[t].retransmit \in RetransmitStates
          /\ CanAdvance(s.exchanges[t].retransmit)
      BY <2>1 DEF ResendTokens, DueTokens, needs_retransmit, Exchanges
    <2> QED
      BY <2>1, <2>2, AdvanceType DEF advance_retransmit, Exchanges
  <1>2. IsMap(x, Tokens, Exchanges)
    BY <1>1 DEF IsSession, IsMap
  <1>3. AdvanceDue(s) = [s EXCEPT !.exchanges = x]
    BY DEF AdvanceDue
  <1> HIDE DEF x
  <1> QED
    BY <1>2, <1>3 DEF IsSession

LEMMA EvictStaleDedupType ==
  ASSUME NEW s, IsSession(s)
  PROVE  IsSession(evict_stale_dedup(s))
  <1> DEFINE x == RemoveAll(s.inbound_dedup,
                    {m \in DOMAIN s.inbound_dedup : s.inbound_dedup[m].age >= EXCHANGE_LIFETIME})
  <1>1. IsMap(x, MIDs, DedupEntries)
    BY RemoveType DEF IsSession
  <1>2. evict_stale_dedup(s) = [s EXCEPT !.inbound_dedup = x]
    BY DEF evict_stale_dedup
  <1> HIDE DEF x
  <1> QED
    BY <1>1, <1>2 DEF IsSession

LEMMA AgeSessionType ==
  ASSUME NEW s, IsSession(s)
  PROVE  IsSession(AgeSession(s))
  <1> DEFINE x == [t \in DOMAIN s.exchanges |-> AgeExchange(s.exchanges[t])]
             y == [m \in DOMAIN s.inbound_dedup |-> AgeEntry(s.inbound_dedup[m])]
             u == [s EXCEPT !.exchanges = x]
  <1>1. IsMap(x, Tokens, Exchanges)
    BY AgeExchangeType DEF IsSession, IsMap
  <1>2. \A d \in DedupEntries : AgeEntry(d) \in DedupEntries
    BY TimingAssumption DEF AgeEntry, DedupEntries, TickUp
  <1>3. IsMap(y, MIDs, DedupEntries)
    BY <1>2 DEF IsSession, IsMap
  <1>4. AgeSession(s) = [u EXCEPT !.inbound_dedup = y]
    BY DEF AgeSession
  <1> HIDE DEF x, y
  <1>5. IsSession(u)
    BY <1>1 DEF IsSession
  <1> HIDE DEF u
  <1> QED
    BY <1>3, <1>4, <1>5 DEF IsSession

-----------------------------------------------------------------------------
(* What each method does to the maps of a session.                         *)

\* A session and its maps.
Fields(s, x, y, d, c) ==
  /\ IsSession(s)
  /\ s.exchanges = x /\ s.mid_to_token = y
  /\ s.inbound_dedup = d /\ s.inbound_con_mids = c

\* A new session has empty maps (PeerSession::new).
LEMMA NewFields ==
  ASSUME NEW m \in MidStarts, NEW t \in TokenStarts
  PROVE  Fields(NewSession(m, t), EmptyMap, EmptyMap, EmptyMap, EmptyMap)
  BY NewSessionType DEF NewSession, Fields

\* Allocating a MID or a token changes no map.
LEMMA AllocateFields ==
  ASSUME NEW s, IsSession(s)
  PROVE  /\ LET u == allocate_mid(s)
            IN  Fields(u, s.exchanges, s.mid_to_token, s.inbound_dedup, s.inbound_con_mids)
         /\ LET u == allocate_token(s)
            IN  Fields(u, s.exchanges, s.mid_to_token, s.inbound_dedup, s.inbound_con_mids)
  BY AllocateMidType, AllocateTokenType DEF Fields, IsSession, allocate_mid, allocate_token

\* Registering an exchange puts it in the table and, if it is confirmable, its
\* MID in the index.
LEMMA InsertFields ==
  ASSUME NEW s, IsSession(s), NEW token \in Tokens, NEW mid \in MIDs, NEW e \in Exchanges
  PROVE  /\ Fields(insert_exchange(s, token, e), Insert(s.exchanges, token, e), s.mid_to_token,
                   s.inbound_dedup, s.inbound_con_mids)
         /\ Fields(insert_con_exchange(s, token, mid, e), Insert(s.exchanges, token, e),
                   Insert(s.mid_to_token, mid, token), s.inbound_dedup, s.inbound_con_mids)
  <1>1. Fields(insert_exchange(s, token, e), Insert(s.exchanges, token, e), s.mid_to_token,
               s.inbound_dedup, s.inbound_con_mids)
    BY InsertExchangeType DEF Fields, IsSession, insert_exchange
  <1>2. Fields(insert_con_exchange(s, token, mid, e), Insert(s.exchanges, token, e),
               Insert(s.mid_to_token, mid, token), s.inbound_dedup, s.inbound_con_mids)
    BY InsertConExchangeType, InsertConExchangeFields DEF Fields, WithIndexes
  <1> QED
    BY <1>1, <1>2

\* Recording a MID or a confirmable request adds to its own map and no other.
LEMMA InboundFields ==
  ASSUME NEW s, IsSession(s), NEW mid \in MIDs, NEW token \in Tokens \cup {None}
  PROVE  /\ Fields(record_inbound_mid(s, mid), s.exchanges, s.mid_to_token,
                   Insert(s.inbound_dedup, mid, NewDedupEntry), s.inbound_con_mids)
         /\ Fields(record_inbound_con(s, token, mid), s.exchanges, s.mid_to_token,
                   s.inbound_dedup, Insert(s.inbound_con_mids, token, mid))
  <1>1. Fields(record_inbound_mid(s, mid), s.exchanges, s.mid_to_token,
               Insert(s.inbound_dedup, mid, NewDedupEntry), s.inbound_con_mids)
    BY RecordInboundMidType DEF Fields, IsSession, record_inbound_mid
  <1>2. Fields(record_inbound_con(s, token, mid), s.exchanges, s.mid_to_token,
               s.inbound_dedup, Insert(s.inbound_con_mids, token, mid))
    BY RecordInboundConType DEF Fields, IsSession, record_inbound_con
  <1> QED
    BY <1>1, <1>2

\* An entry is made in the table for the response, if the MID is there.
WithResponse(d, mid, packet) ==
  IF mid \in DOMAIN d THEN [d EXCEPT ![mid].cached_response = packet] ELSE d

\* Caching a response changes one entry; taking the MID of an ACK removes one.
LEMMA AnswerFields ==
  ASSUME NEW s, IsSession(s), NEW mid, NEW token, NEW packet \in Packets
  PROVE  /\ Fields(cache_response_for_mid(s, mid, packet), s.exchanges, s.mid_to_token,
                   WithResponse(s.inbound_dedup, mid, packet), s.inbound_con_mids)
         /\ Fields(take_inbound_con_mid(s, token), s.exchanges, s.mid_to_token,
                   s.inbound_dedup, RemoveAll(s.inbound_con_mids, {token}))
  <1>1. Fields(cache_response_for_mid(s, mid, packet), s.exchanges, s.mid_to_token,
               WithResponse(s.inbound_dedup, mid, packet), s.inbound_con_mids)
    <2> DEFINE x == [s.inbound_dedup EXCEPT ![mid].cached_response = packet]
    <2>1. cache_response_for_mid(s, mid, packet) =
            IF mid \in DOMAIN s.inbound_dedup THEN [s EXCEPT !.inbound_dedup = x] ELSE s
      BY DEF cache_response_for_mid
    <2>2. WithResponse(s.inbound_dedup, mid, packet) =
            IF mid \in DOMAIN s.inbound_dedup THEN x ELSE s.inbound_dedup
      BY DEF WithResponse
    <2> HIDE DEF x
    <2> QED
      BY <2>1, <2>2, CacheResponseType DEF Fields, IsSession
  <1>2. Fields(take_inbound_con_mid(s, token), s.exchanges, s.mid_to_token,
               s.inbound_dedup, RemoveAll(s.inbound_con_mids, {token}))
    BY TakeInboundConType DEF Fields, IsSession, take_inbound_con_mid
  <1> QED
    BY <1>1, <1>2

\* What is left of the exchange e when only time has passed for it.
SameExchange(e, f) ==
  /\ f.response_tx = e.response_tx /\ f.message_id = e.message_id
  /\ f.retransmit = None <=> e.retransmit = None
  /\ f.expires_at = None <=> e.expires_at = None
  /\ f.retransmit # None => f.retransmit.packet_bytes = e.retransmit.packet_bytes

\* Exchanges x and index y come from v and w by time and by removal.
Remains(v, w, x, y) ==
  /\ DOMAIN x \subseteq DOMAIN v
  /\ \A t \in DOMAIN x : SameExchange(v[t], x[t])
  /\ DOMAIN y \subseteq DOMAIN w
  /\ \A m \in DOMAIN y : y[m] = w[m]

\* Removing exchanges leaves the others, and their MIDs, as they were.
LEMMA RemoveRemains ==
  ASSUME NEW s, IsSession(s), NEW T
  PROVE  LET u == RemoveExchanges(s, T)
         IN  /\ Fields(u, u.exchanges, u.mid_to_token, s.inbound_dedup, s.inbound_con_mids)
             /\ Remains(s.exchanges, s.mid_to_token, u.exchanges, u.mid_to_token)
             /\ DOMAIN u.exchanges = DOMAIN s.exchanges \ T
  <1> DEFINE gone == T \cap DOMAIN s.exchanges
             x == RemoveAll(s.exchanges, gone)
             y == RemoveAll(s.mid_to_token, {s.exchanges[t].message_id : t \in gone})
             u == RemoveExchanges(s, T)
  <1>1. u = WithIndexes(s, x, y)
    BY RemoveExchangesFields
  <1>2. IsSession(u)
    BY RemoveExchangesType
  <1>3. Remains(s.exchanges, s.mid_to_token, x, y) /\ DOMAIN x = DOMAIN s.exchanges \ T
    BY DEF Remains, SameExchange, RemoveAll, Restrict
  <1> HIDE DEF x, y, u
  <1>4. /\ u.exchanges = x /\ u.mid_to_token = y
        /\ u.inbound_dedup = s.inbound_dedup /\ u.inbound_con_mids = s.inbound_con_mids
    BY <1>1 DEF WithIndexes
  <1>5. Fields(u, u.exchanges, u.mid_to_token, s.inbound_dedup, s.inbound_con_mids)
    BY <1>2, <1>4 DEF Fields
  <1> QED
    BY <1>3, <1>4, <1>5 DEF u

\* A piggybacked response takes the MID from the index and no more.
LEMMA HandleAckRemains ==
  ASSUME NEW s, IsSession(s), NEW mid, NEW code, code # "Empty"
  PROVE  Fields(handle_ack(s, mid, code), s.exchanges, RemoveAll(s.mid_to_token, {mid}),
                s.inbound_dedup, s.inbound_con_mids)
  <1> DEFINE acked == TokenOf(s, mid) \cap DOMAIN s.exchanges
             x == [t \in DOMAIN s.exchanges |-> IF code = "Empty" /\ t \in acked
                                                THEN cancel_retransmission(s.exchanges[t])
                                                ELSE s.exchanges[t]]
  <1>1. handle_ack(s, mid, code) = WithIndexes(s, x, RemoveAll(s.mid_to_token, {mid}))
    BY SetIndexes DEF handle_ack
  <1>2. x = s.exchanges
    BY DEF IsSession, IsMap
  <1> HIDE DEF x
  <1> QED
    BY <1>1, <1>2, HandleAckType DEF WithIndexes, Fields

\* The work of the retransmission timer and of the clock on the exchanges.
LEMMA AdvanceRemains ==
  ASSUME NEW s, IsSession(s)
  PROVE  LET u == AdvanceDue(s)
         IN  /\ Fields(u, u.exchanges, s.mid_to_token, s.inbound_dedup, s.inbound_con_mids)
             /\ Remains(s.exchanges, s.mid_to_token, u.exchanges, u.mid_to_token)
             /\ DOMAIN u.exchanges = DOMAIN s.exchanges
  <1> DEFINE x == [t \in DOMAIN s.exchanges |-> IF t \in ResendTokens(s)
                                               THEN advance_retransmit(s.exchanges[t])
                                               ELSE s.exchanges[t]]
             u == AdvanceDue(s)
  <1>1. \A t \in ResendTokens(s) : SameExchange(s.exchanges[t], advance_retransmit(s.exchanges[t]))
    <2> SUFFICES ASSUME NEW t \in ResendTokens(s)
                 PROVE  SameExchange(s.exchanges[t], advance_retransmit(s.exchanges[t]))
      OBVIOUS
    <2> DEFINE e == s.exchanges[t]
    <2>1. e \in Exchanges /\ e.retransmit \in RetransmitStates /\ CanAdvance(e.retransmit)
      BY DEF ResendTokens, DueTokens, needs_retransmit, IsSession, IsMap, Exchanges
    <2>2. /\ Advance(e.retransmit) \in RetransmitStates
          /\ Advance(e.retransmit).packet_bytes = e.retransmit.packet_bytes
      BY <2>1, AdvanceType DEF Advance, RetransmitStates
    <2>3. Advance(e.retransmit) # None /\ e.retransmit # None
      BY <2>1, <2>2, NoneAssumption
    <2> HIDE DEF e
    <2> QED
      BY <2>1, <2>2, <2>3 DEF SameExchange, advance_retransmit, Exchanges, e
  <1>2. u = [s EXCEPT !.exchanges = x]
    BY DEF AdvanceDue
  <1>3. IsSession(u)
    BY AdvanceDueType
  <1>4. DOMAIN x = DOMAIN s.exchanges /\ \A t \in DOMAIN x : SameExchange(s.exchanges[t], x[t])
    BY <1>1 DEF SameExchange
  <1> HIDE DEF x, u
  <1>5. /\ u.exchanges = x /\ u.mid_to_token = s.mid_to_token
        /\ u.inbound_dedup = s.inbound_dedup /\ u.inbound_con_mids = s.inbound_con_mids
    BY <1>2 DEF IsSession
  <1>6. Remains(s.exchanges, s.mid_to_token, x, s.mid_to_token)
    BY <1>4 DEF Remains
  <1> QED
    BY <1>3, <1>4, <1>5, <1>6 DEF Fields, u

\* The same entries, with the same responses.
SameResponses(d, e) ==
  /\ DOMAIN e = DOMAIN d
  /\ \A m \in DOMAIN d : e[m].cached_response = d[m].cached_response

\* Time changes the clocks of a session and what they end, nothing else.
LEMMA AgeRemains ==
  ASSUME NEW s, IsSession(s)
  PROVE  LET u == AgeSession(s)
         IN  /\ Fields(u, u.exchanges, s.mid_to_token, u.inbound_dedup, s.inbound_con_mids)
             /\ Remains(s.exchanges, s.mid_to_token, u.exchanges, u.mid_to_token)
             /\ DOMAIN u.exchanges = DOMAIN s.exchanges
             /\ SameResponses(s.inbound_dedup, u.inbound_dedup)
  <1> DEFINE x == [t \in DOMAIN s.exchanges |-> AgeExchange(s.exchanges[t])]
             y == [m \in DOMAIN s.inbound_dedup |-> AgeEntry(s.inbound_dedup[m])]
             u == AgeSession(s)
  <1>1. \A e \in Exchanges : SameExchange(e, AgeExchange(e))
    <2> SUFFICES ASSUME NEW e \in Exchanges
                 PROVE  SameExchange(e, AgeExchange(e))
      OBVIOUS
    <2>1. e.retransmit # None =>
            /\ AgeRetransmit(e.retransmit) \in RetransmitStates
            /\ AgeRetransmit(e.retransmit).packet_bytes = e.retransmit.packet_bytes
      BY TickDownType DEF Exchanges, AgeRetransmit, RetransmitStates
    <2>2. e.expires_at # None => TickDown(e.expires_at) \in Nat
      BY TickDownType DEF Exchanges
    <2>3. e.retransmit # None => AgeRetransmit(e.retransmit) # None
      BY <2>1, NoneAssumption
    <2>4. e.expires_at # None => TickDown(e.expires_at) # None
      BY <2>2, NoneAssumption
    <2> DEFINE a == IF e.retransmit = None THEN None ELSE AgeRetransmit(e.retransmit)
               b == IF e.expires_at = None THEN None ELSE TickDown(e.expires_at)
    <2>5. AgeExchange(e) = [response_tx |-> e.response_tx, message_id |-> e.message_id,
                            retransmit |-> a, expires_at |-> b]
      <3>1. AgeExchange(e) = [e EXCEPT !.retransmit = a, !.expires_at = b]
        BY DEF AgeExchange
      <3> HIDE DEF a, b
      <3> QED
        BY <3>1 DEF Exchanges
    <2>6. /\ a = None <=> e.retransmit = None
          /\ b = None <=> e.expires_at = None
          /\ a # None => a.packet_bytes = e.retransmit.packet_bytes
      BY <2>1, <2>3, <2>4
    <2> HIDE DEF a, b
    <2> QED
      BY <2>5, <2>6 DEF SameExchange
  <1>2. \A t \in DOMAIN s.exchanges : s.exchanges[t] \in Exchanges
    BY DEF IsSession, IsMap
  <1>3. Remains(s.exchanges, s.mid_to_token, x, s.mid_to_token) /\ DOMAIN x = DOMAIN s.exchanges
    BY <1>1, <1>2 DEF Remains
  <1>4. SameResponses(s.inbound_dedup, y)
    <2>1. \A m \in DOMAIN s.inbound_dedup : s.inbound_dedup[m] \in DedupEntries
      BY DEF IsSession, IsMap
    <2>2. \A d \in DedupEntries : AgeEntry(d).cached_response = d.cached_response
      BY DEF AgeEntry, DedupEntries
    <2> QED
      BY <2>1, <2>2 DEF SameResponses
  <1>5. IsSession(u)
    BY AgeSessionType
  <1>6. /\ u.exchanges = x /\ u.mid_to_token = s.mid_to_token
        /\ u.inbound_dedup = y /\ u.inbound_con_mids = s.inbound_con_mids
    <2> DEFINE v == [s EXCEPT !.exchanges = x]
    <2>1. u = [v EXCEPT !.inbound_dedup = y]
      BY DEF AgeSession
    <2>2. v = WithIndexes(s, x, s.mid_to_token)
      <3> HIDE DEF x
      <3> QED
        BY DEF IsSession, WithIndexes
    <2> HIDE DEF x, y, v, u
    <2>3. u = [exchanges |-> x, mid_to_token |-> s.mid_to_token, mid_allocator |-> s.mid_allocator,
               token_allocator |-> s.token_allocator, inbound_dedup |-> y,
               inbound_con_mids |-> s.inbound_con_mids]
      BY <2>1, <2>2 DEF WithIndexes
    <2> QED
      BY <2>3
  <1> HIDE DEF x, y, u
  <1>7. Fields(u, u.exchanges, s.mid_to_token, u.inbound_dedup, s.inbound_con_mids)
    BY <1>5, <1>6 DEF Fields
  <1> QED
    BY <1>3, <1>4, <1>6, <1>7 DEF u

\* Eviction leaves the exchanges and what they are found by alone.
LEMMA EvictRemains ==
  ASSUME NEW s, IsSession(s)
  PROVE  LET u == evict_stale_dedup(s)
         IN  Fields(u, s.exchanges, s.mid_to_token, u.inbound_dedup, s.inbound_con_mids)
  BY EvictStaleDedupType DEF Fields, IsSession, evict_stale_dedup

\* What remains of what remains, remains.
LEMMA RemainsTransitive ==
  ASSUME NEW v, NEW w, NEW x, NEW y, NEW a, NEW b, Remains(v, w, x, y), Remains(x, y, a, b)
  PROVE  Remains(v, w, a, b)
  BY DEF Remains, SameExchange
=============================================================================
