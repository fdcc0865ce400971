----------------------- MODULE CoapStackCallerProofs -----------------------
(***************************************************************************)
(* A caller that waits is waited for, for every value of the constants:    *)
(* the sender it waits on sits in the clients' channel or in one open      *)
(* exchange, whatever ends, replaces or forgets exchanges.  And what a     *)
(* caller is told of a timeout is what happened on the wire.               *)
(***************************************************************************)
EXTENDS CoapStackProofs

-----------------------------------------------------------------------------
(* The inductive form.                                                     *)

Queued(r) == \E i \in DOMAIN outbound_requests : outbound_requests[i].request = r

\* The exchange of token t with peer p holds the sender of request r.
Holds(r, p, t) ==
  /\ p \in DOMAIN sessions
  /\ t \in DOMAIN sessions[p].exchanges
  /\ sessions[p].exchanges[t].response_tx = r

Held(r) == \E p, t : Holds(r, p, t)

\* A waiting caller's sender is somewhere, ...
WaitingHeld == \A r \in Requests : caller[r] = Waiting => Queued(r) \/ Held(r)

\* ... no sender is in two places, ...
HeldOnce ==
  \A r \in Requests : \A p, t, p2, t2 :
    Holds(r, p, t) /\ Holds(r, p2, t2) => p = p2 /\ t = t2
QueuedOnce ==
  \A i, j \in DOMAIN outbound_requests :
    outbound_requests[i].request = outbound_requests[j].request => i = j
QueuedOrHeld == \A r \in Requests : Queued(r) => ~ Held(r)

\* ... and none is anywhere before its caller sends the request.
IdleNowhere == \A r \in Requests : caller[r] = Idle => ~ Queued(r) /\ ~ Held(r)

CallerInv == WaitingHeld /\ HeldOnce /\ QueuedOnce /\ QueuedOrHeld /\ IdleNowhere

LEMMA CallerInvImplies == TypeOK /\ CallerInv => WaitingCallerIsHeld
  <1> SUFFICES ASSUME TypeOK, CallerInv, NEW r \in Requests
               PROVE  /\ caller[r] = Waiting => QueuedAt(r) # {} \/ HeldBy(r) # {}
                      /\ \A x, y \in HeldBy(r) : x = y
                      /\ QueuedAt(r) = {} \/ HeldBy(r) = {}
    BY DEF WaitingCallerIsHeld
  <1>1. Queued(r) <=> QueuedAt(r) # {}
    BY DEF Queued, QueuedAt
  <1>2. ASSUME NEW p, NEW t, Holds(r, p, t)
        PROVE  <<p, t>> \in HeldBy(r)
    <2>1. p \in Peers /\ IsSession(sessions[p])
      BY <1>2 DEF Holds, TypeOK, SessionsOK, IsMap
    <2>2. t \in Tokens
      BY <1>2, <2>1 DEF Holds, IsSession, IsMap
    <2> QED
      BY <1>2, <2>1, <2>2 DEF Holds, HeldBy
  <1>3. ASSUME NEW x \in HeldBy(r)
        PROVE  x = <<x[1], x[2]>> /\ Holds(r, x[1], x[2])
    BY DEF HeldBy, Holds
  <1>4. Held(r) <=> HeldBy(r) # {}
    BY <1>2, <1>3 DEF Held
  <1>5. \A x, y \in HeldBy(r) : x = y
    <2> SUFFICES ASSUME NEW x \in HeldBy(r), NEW y \in HeldBy(r) PROVE x = y
      OBVIOUS
    <2>1. x[1] = y[1] /\ x[2] = y[2]
      BY <1>3 DEF CallerInv, HeldOnce
    <2> QED
      BY <1>3, <2>1
  <1> QED
    BY <1>1, <1>4, <1>5 DEF CallerInv, WaitingHeld, QueuedOrHeld

-----------------------------------------------------------------------------
(* Steps on which exchanges only go, and the callers of those that go are  *)
(* told.                                                                   *)

CallersToldOnly(told) ==
  \A r \in Requests :
    /\ caller'[r] = Waiting => caller[r] = Waiting /\ r \notin told
    /\ caller'[r] = Idle => caller[r] = Idle

LEMMA TellTold ==
  ASSUME NEW C, NEW result, result # Waiting, result # Idle, caller' = Tell(C, result)
  PROVE  CallersToldOnly(C)
  BY DEF CallersToldOnly, Tell

LEMMA ShrinkStep ==
  ASSUME CallerInv, UNCHANGED outbound_requests, NEW told, CallersToldOnly(told),
         \A r, p, t : Holds(r, p, t)' => Holds(r, p, t),
         \A r, p, t : Holds(r, p, t) => Holds(r, p, t)' \/ r \in told
  PROVE  CallerInv'
  <1>1. \A r : Queued(r)' <=> Queued(r)
    BY DEF Queued
  <1>2. \A r : Held(r)' => Held(r)
    BY DEF Held
  <1>3. \A r : Held(r) => Held(r)' \/ r \in told
    BY DEF Held
  <1>4. WaitingHeld'
    BY <1>1, <1>3 DEF CallerInv, WaitingHeld, CallersToldOnly
  <1>5. HeldOnce'
    BY DEF CallerInv, HeldOnce
  <1>6. QueuedOnce'
    BY DEF CallerInv, QueuedOnce
  <1>7. QueuedOrHeld'
    BY <1>1, <1>2 DEF CallerInv, QueuedOrHeld
  <1>8. IdleNowhere'
    BY <1>1, <1>2 DEF CallerInv, IdleNowhere, CallersToldOnly
  <1> QED
    BY <1>4, <1>5, <1>6, <1>7, <1>8 DEF CallerInv

\* A step on which the exchanges keep their senders and no caller is told.
LEMMA SameHolders ==
  ASSUME CallerInv, UNCHANGED <<caller, outbound_requests>>,
         \A r, p, t : Holds(r, p, t)' <=> Holds(r, p, t)
  PROVE  CallerInv'
  <1>1. CallersToldOnly({})
    BY DEF CallersToldOnly
  <1> QED
    BY <1>1, ShrinkStep

\* The same of one session: told are the callers of the exchanges that go.
Shrinks(s, u, told) ==
  /\ DOMAIN u.exchanges \subseteq DOMAIN s.exchanges
  /\ \A t \in DOMAIN u.exchanges :
       u.exchanges[t].response_tx = s.exchanges[t].response_tx
  /\ \A t \in DOMAIN s.exchanges \ DOMAIN u.exchanges : s.exchanges[t].response_tx \in told

LEMMA SetSessionShrinks ==
  ASSUME CallerInv, UNCHANGED outbound_requests, NEW p, NEW s \in SessionEntry(p), NEW u,
         NEW told, Shrinks(s, u, told), SetSession(p, u), CallersToldOnly(told)
  PROVE  CallerInv'
  <1>1. p \notin DOMAIN sessions => DOMAIN s.exchanges = {}
    BY DEF SessionEntry, NewSession, EmptyMap
  <1>2. p \in DOMAIN sessions => s = sessions[p]
    BY DEF SessionEntry
  <1>3. /\ DOMAIN sessions' = DOMAIN sessions \cup {p}
        /\ sessions'[p] = u
        /\ \A x \in DOMAIN sessions : x # p => sessions'[x] = sessions[x]
    BY DEF SetSession, Insert
  <1>4. ASSUME NEW r, NEW x, NEW t
        PROVE  /\ Holds(r, x, t)' => Holds(r, x, t)
               /\ Holds(r, x, t) => Holds(r, x, t)' \/ r \in told
    <2>1. CASE x = p
      BY <1>1, <1>2, <1>3, <2>1 DEF Holds, Shrinks
    <2>2. CASE x # p
      BY <1>3, <2>2 DEF Holds
    <2> QED
      BY <2>1, <2>2
  <1> QED
    BY <1>4, ShrinkStep

\* An arm that ends no exchange of the session it stores.
LEMMA SetSessionKeeps ==
  ASSUME CallerInv, UNCHANGED <<caller, outbound_requests>>, NEW p, NEW s \in SessionEntry(p),
         NEW u, DOMAIN u.exchanges = DOMAIN s.exchanges,
         \A t \in DOMAIN s.exchanges :
           u.exchanges[t].response_tx = s.exchanges[t].response_tx,
         SetSession(p, u)
  PROVE  CallerInv'
  <1>1. Shrinks(s, u, {})
    BY DEF Shrinks
  <1>2. CallersToldOnly({})
    BY DEF CallersToldOnly
  <1> QED
    BY <1>1, <1>2, SetSessionShrinks

-----------------------------------------------------------------------------
(* What the methods do to the exchanges.                                   *)

LEMMA ExchangesKept ==
  ASSUME NEW s, IsSession(s)
  PROVE  /\ allocate_mid(s).exchanges = s.exchanges
         /\ allocate_token(s).exchanges = s.exchanges
         /\ \A mid : record_inbound_mid(s, mid).exchanges = s.exchanges
         /\ \A mid, packet : cache_response_for_mid(s, mid, packet).exchanges = s.exchanges
         /\ \A token, mid : record_inbound_con(s, token, mid).exchanges = s.exchanges
         /\ \A token : take_inbound_con_mid(s, token).exchanges = s.exchanges
         /\ evict_stale_dedup(s).exchanges = s.exchanges
  BY DEF IsSession, allocate_mid, allocate_token, record_inbound_mid, cache_response_for_mid,
         record_inbound_con, take_inbound_con_mid, evict_stale_dedup

LEMMA HandleAckKeeps ==
  ASSUME NEW s, IsSession(s), NEW mid, NEW code
  PROVE  LET u == handle_ack(s, mid, code)
         IN  /\ DOMAIN u.exchanges = DOMAIN s.exchanges
             /\ \A t \in DOMAIN s.exchanges :
                  u.exchanges[t].response_tx = s.exchanges[t].response_tx
  <1> DEFINE u == handle_ack(s, mid, code)
             acked == TokenOf(s, mid) \cap DOMAIN s.exchanges
             x == [t \in DOMAIN s.exchanges |-> IF code = "Empty" /\ t \in acked
                                                THEN cancel_retransmission(s.exchanges[t])
                                                ELSE s.exchanges[t]]
             y == RemoveAll(s.mid_to_token, {mid})
  <1>1. u = WithIndexes(s, x, y)
    BY HandleAckFields
  <1> HIDE DEF u, x, y
  <1>2. u.exchanges = x
    BY <1>1 DEF WithIndexes
  <1>3. ASSUME NEW e \in Exchanges
        PROVE  cancel_retransmission(e).response_tx = e.response_tx
    BY DEF cancel_retransmission, Exchanges
  <1>4. \A t \in DOMAIN s.exchanges : s.exchanges[t] \in Exchanges
    BY DEF IsSession, IsMap
  <1> QED
    BY <1>2, <1>3, <1>4 DEF x, u

LEMMA RemoveExchangesShrinks ==
  ASSUME NEW s, IsSession(s), NEW T, NEW told,
         \A t \in T \cap DOMAIN s.exchanges : s.exchanges[t].response_tx \in told
  PROVE  Shrinks(s, RemoveExchanges(s, T), told)
  <1> DEFINE u == RemoveExchanges(s, T)
  <1>1. /\ DOMAIN u.exchanges = DOMAIN s.exchanges \ T
        /\ \A t \in DOMAIN u.exchanges : u.exchanges[t] = s.exchanges[t]
    BY RemoveExchangesKeeps
  <1> HIDE DEF u
  <1> QED
    BY <1>1 DEF Shrinks, u

\* Exchanges that are rewritten first.
LEMMA ShrinksAfter ==
  ASSUME NEW s, NEW a, NEW u, NEW told, Shrinks(a, u, told),
         DOMAIN a.exchanges = DOMAIN s.exchanges,
         \A t \in DOMAIN s.exchanges : a.exchanges[t].response_tx = s.exchanges[t].response_tx
  PROVE  Shrinks(s, u, told)
  BY DEF Shrinks

LEMMA HandleRstShrinks ==
  ASSUME NEW s, IsSession(s), NEW mid
  PROVE  Shrinks(s, handle_rst(s, mid), ResetCallers(s, mid))
  <1> DEFINE u == handle_rst(s, mid)
             x == RemoveAll(s.exchanges, TokenOf(s, mid))
             y == RemoveAll(s.mid_to_token, {mid})
  <1>1. u = WithIndexes(s, x, y)
    BY HandleRstFields
  <1> HIDE DEF u, x, y
  <1>2. u.exchanges = x
    BY <1>1 DEF WithIndexes
  <1>3. /\ DOMAIN u.exchanges = DOMAIN s.exchanges \ TokenOf(s, mid)
        /\ \A t \in DOMAIN u.exchanges : u.exchanges[t] = s.exchanges[t]
    BY <1>2 DEF x, RemoveAll, Restrict
  <1> QED
    BY <1>3 DEF Shrinks, ResetCallers, u

\* The callers the timer fails.
TimedOutCallers(s) == {s.exchanges[t].response_tx : t \in ExpiredTokens(s)}

LEMMA AdvanceDueKeeps ==
  ASSUME NEW s, IsSession(s)
  PROVE  /\ DOMAIN AdvanceDue(s).exchanges = DOMAIN s.exchanges
         /\ \A t \in DOMAIN s.exchanges :
              AdvanceDue(s).exchanges[t].response_tx = s.exchanges[t].response_tx
  <1> DEFINE x == [t \in DOMAIN s.exchanges |-> IF t \in ResendTokens(s)
                                               THEN advance_retransmit(s.exchanges[t])
                                               ELSE s.exchanges[t]]
             u == AdvanceDue(s)
  <1>1. u = [s EXCEPT !.exchanges = x]
    BY DEF AdvanceDue
  <1>2. ASSUME NEW t \in DOMAIN s.exchanges
        PROVE  x[t].response_tx = s.exchanges[t].response_tx
    <2>1. s.exchanges[t] \in Exchanges
      BY DEF IsSession, IsMap
    <2>2. advance_retransmit(s.exchanges[t]).response_tx = s.exchanges[t].response_tx
      BY <2>1 DEF advance_retransmit, Exchanges
    <2> QED
      BY <2>2
  <1> HIDE DEF u, x
  <1>3. u.exchanges = x
    BY <1>1 DEF IsSession
  <1>4. DOMAIN x = DOMAIN s.exchanges
    BY DEF x
  <1> QED
    BY <1>2, <1>3, <1>4 DEF u

LEMMA TimerWorkShrinks ==
  ASSUME NEW s, IsSession(s)
  PROVE  Shrinks(s, TimerWork(s), TimedOutCallers(s))
  <1> DEFINE a == AdvanceDue(s)
             u == RemoveExchanges(a, ExpiredTokens(s))
  <1>1. /\ IsSession(a)
        /\ DOMAIN a.exchanges = DOMAIN s.exchanges
        /\ \A t \in DOMAIN s.exchanges : a.exchanges[t].response_tx = s.exchanges[t].response_tx
    BY AdvanceDueType, AdvanceDueKeeps
  <1> HIDE DEF a
  <1>2. Shrinks(a, u, TimedOutCallers(s))
    <2>1. \A t \in ExpiredTokens(s) \cap DOMAIN a.exchanges :
            a.exchanges[t].response_tx \in TimedOutCallers(s)
      BY <1>1 DEF TimedOutCallers
    <2> QED
      BY <1>1, <2>1, RemoveExchangesShrinks
  <1>3. IsSession(u)
    BY <1>1, RemoveExchangesType
  <1> HIDE DEF u
  <1>4. Shrinks(s, u, TimedOutCallers(s))
    BY <1>1, <1>2, ShrinksAfter
  <1>5. evict_stale_dedup(u).exchanges = u.exchanges
    BY <1>3, ExchangesKept
  <1> QED
    BY <1>4, <1>5 DEF TimerWork, collect_retransmissions, Shrinks, u, a

LEMMA AgeSessionKeeps ==
  ASSUME NEW s, IsSession(s)
  PROVE  /\ DOMAIN AgeSession(s).exchanges = DOMAIN s.exchanges
         /\ \A t \in DOMAIN s.exchanges :
              AgeSession(s).exchanges[t].response_tx = s.exchanges[t].response_tx
  <1>1. ASSUME NEW e \in Exchanges
        PROVE  AgeExchange(e).response_tx = e.response_tx
    BY DEF AgeExchange, Exchanges
  <1>2. \A t \in DOMAIN s.exchanges : s.exchanges[t] \in Exchanges
    BY DEF IsSession, IsMap
  <1>3. AgeSession(s).exchanges = [t \in DOMAIN s.exchanges |-> AgeExchange(s.exchanges[t])]
    BY AgeFields
  <1> QED
    BY <1>1, <1>2, <1>3

-----------------------------------------------------------------------------
(* The arms of the stack.                                                  *)

LEMMA RecvPacketCallers ==
  ASSUME TypeOK, CallerInv, NEW p \in Peers, NEW pkt \in InboundPackets, RecvPacket(p, pkt)
  PROVE  CallerInv'
  <1> USE DEF TypeOK
  <1>0. /\ pkt \in Packets /\ pkt.mid \in MIDs /\ pkt.token \in Tokens \cup {None}
        /\ \A s \in SessionEntry(p) : IsSession(s)
    BY InboundType, SessionEntryType
  <1>1. CASE RecvDuplicate(p, pkt)
    <2>1. /\ \A r, x, t : Holds(r, x, t)' <=> Holds(r, x, t)
          /\ UNCHANGED <<caller, outbound_requests>>
      BY <1>1 DEF RecvDuplicate, taskVars, clientVars, Holds
    <2> QED
      BY <2>1, SameHolders
  <1>2. CASE RecvRequest(p, pkt)
    <2>1. PICK s \in SessionEntry(p) : SetSession(p, RecordRequest(s, pkt))
      BY <1>2 DEF RecvRequest
    <2> DEFINE u == record_inbound_mid(s, pkt.mid)
    <2>2. IsSession(u) /\ u.exchanges = s.exchanges
      BY <1>0, RecordInboundMidType, ExchangesKept
    <2> HIDE DEF u
    <2>3. record_inbound_con(u, pkt.token, pkt.mid).exchanges = s.exchanges
      BY <2>2, ExchangesKept
    <2>4. RecordRequest(s, pkt).exchanges = s.exchanges
      BY <2>2, <2>3 DEF RecordRequest, u
    <2> QED
      BY <1>2, <2>1, <2>4, SetSessionKeeps DEF RecvRequest, clientVars
  <1>3. CASE RecvNonRequest(p, pkt)
    <2>1. PICK s \in SessionEntry(p) :
            LET recorded == record_inbound_mid(s, pkt.mid)
                acked == IF pkt.type = "Confirmable"
                         THEN cache_response_for_mid(recorded, pkt.mid, EmptyAck(pkt.mid))
                         ELSE recorded
            IN  \/ /\ SetSession(p, complete_exchange(acked, pkt.token))
                   /\ caller' = Tell(Completed(acked, pkt.token),
                                     [kind |-> "Response", payload |-> pkt.payload])
                \/ SetSession(p, acked) /\ UNCHANGED caller
      BY <1>3 DEF RecvNonRequest
    <2> DEFINE recorded == record_inbound_mid(s, pkt.mid)
               cached == cache_response_for_mid(recorded, pkt.mid, EmptyAck(pkt.mid))
               acked == IF pkt.type = "Confirmable" THEN cached ELSE recorded
               told == Completed(acked, pkt.token)
    <2>2. IsSession(recorded) /\ recorded.exchanges = s.exchanges
      BY <1>0, RecordInboundMidType, ExchangesKept
    <2> HIDE DEF recorded
    <2>3. IsSession(cached) /\ cached.exchanges = s.exchanges
      BY <1>0, <2>2, CacheResponseType, EmptyAckType, ExchangesKept
    <2> HIDE DEF cached
    <2>4. IsSession(acked) /\ acked.exchanges = s.exchanges
      BY <2>2, <2>3
    <2> HIDE DEF acked
    <2>5. UNCHANGED outbound_requests
      BY <1>3 DEF RecvNonRequest
    <2>6. CASE SetSession(p, acked) /\ UNCHANGED caller
      BY <2>4, <2>5, <2>6, SetSessionKeeps
    <2>7. CASE /\ SetSession(p, complete_exchange(acked, pkt.token))
               /\ caller' = Tell(told, [kind |-> "Response", payload |-> pkt.payload])
      <3>1. \A t \in {pkt.token} \cap DOMAIN acked.exchanges :
              acked.exchanges[t].response_tx \in told
        BY DEF Completed
      <3> HIDE DEF told
      <3>2. Shrinks(s, complete_exchange(acked, pkt.token), told)
        <4>1. Shrinks(acked, complete_exchange(acked, pkt.token), told)
          BY <2>4, <3>1, RemoveExchangesShrinks DEF complete_exchange
        <4> QED
          BY <2>4, <4>1, ShrinksAfter
      <3>3. CallersToldOnly(told)
        BY <2>7, TellTold DEF Waiting, Idle
      <3> QED
        BY <2>5, <2>7, <3>2, <3>3, SetSessionShrinks
    <2> QED
      BY <2>1, <2>6, <2>7 DEF acked, cached, recorded
  <1>4. CASE RecvAck(p, pkt)
    <2>1. PICK s \in SessionEntry(p) :
            SetSession(p, IF pkt.code = "Empty" THEN handle_ack(s, pkt.mid, pkt.code) ELSE s)
      BY <1>4 DEF RecvAck
    <2>2. UNCHANGED <<caller, outbound_requests>>
      BY <1>4 DEF RecvAck, clientVars
    <2> QED
      <3> DEFINE u == IF pkt.code = "Empty" THEN handle_ack(s, pkt.mid, pkt.code) ELSE s
      <3>1. /\ DOMAIN u.exchanges = DOMAIN s.exchanges
            /\ \A t \in DOMAIN s.exchanges :
                 u.exchanges[t].response_tx = s.exchanges[t].response_tx
        BY <1>0, HandleAckKeeps
      <3> HIDE DEF u
      <3>2. SetSession(p, u)
        BY <2>1 DEF u
      <3> QED
        BY <2>2, <3>1, <3>2, SetSessionKeeps
  <1>5. CASE RecvPiggybacked(p, pkt)
    <2>1. PICK s \in SessionEntry(p) :
            LET acked  == handle_ack(s, pkt.mid, pkt.code)
                tokens == TokenOf(s, pkt.mid)
            IN  /\ SetSession(p, RemoveExchanges(acked, tokens))
                /\ caller' = Tell(UNION {Completed(acked, t) : t \in tokens},
                                  [kind |-> "Response", payload |-> pkt.payload])
      BY <1>5 DEF RecvPiggybacked
    <2> DEFINE acked  == handle_ack(s, pkt.mid, pkt.code)
               tokens == TokenOf(s, pkt.mid)
               told   == UNION {Completed(acked, t) : t \in tokens}
               u      == RemoveExchanges(acked, tokens)
    <2>2. /\ IsSession(acked)
          /\ DOMAIN acked.exchanges = DOMAIN s.exchanges
          /\ \A t \in DOMAIN s.exchanges :
               acked.exchanges[t].response_tx = s.exchanges[t].response_tx
      BY <1>0, HandleAckType, HandleAckKeeps
    <2> HIDE DEF acked, tokens
    <2>3. \A t \in tokens \cap DOMAIN acked.exchanges : acked.exchanges[t].response_tx \in told
      BY DEF Completed
    <2> HIDE DEF told
    <2>4. Shrinks(acked, u, told)
      BY <2>2, <2>3, RemoveExchangesShrinks
    <2> HIDE DEF u
    <2>5. Shrinks(s, u, told)
      BY <2>2, <2>4, ShrinksAfter
    <2>6. /\ SetSession(p, u)
          /\ caller' = Tell(told, [kind |-> "Response", payload |-> pkt.payload])
      BY <2>1 DEF u, told, acked, tokens
    <2>7. CallersToldOnly(told)
      BY <2>6, TellTold DEF Waiting, Idle
    <2>8. UNCHANGED outbound_requests
      BY <1>5 DEF RecvPiggybacked
    <2> QED
      BY <2>5, <2>6, <2>7, <2>8, SetSessionShrinks
  <1>6. CASE RecvReset(p, pkt)
    <2>1. PICK s \in SessionEntry(p) :
            /\ SetSession(p, handle_rst(s, pkt.mid))
            /\ caller' = Tell(ResetCallers(s, pkt.mid), [kind |-> "Reset"])
      BY <1>6 DEF RecvReset
    <2>2. CallersToldOnly(ResetCallers(s, pkt.mid))
      BY <2>1, TellTold DEF Waiting, Idle
    <2>3. UNCHANGED outbound_requests
      BY <1>6 DEF RecvReset
    <2> QED
      BY <1>0, <2>1, <2>2, <2>3, HandleRstShrinks, SetSessionShrinks
  <1> QED
    BY <1>1, <1>2, <1>3, <1>4, <1>5, <1>6 DEF RecvPacket

\* The request at the head of the channel is in the channel only, and what is
\* left of the channel does not hold it.
LEMMA HeadOfQueue ==
  ASSUME TypeOK, CallerInv, outbound_requests # << >>, NEW r,
         r = Head(outbound_requests).request,
         outbound_requests' = Tail(outbound_requests)
  PROVE  /\ r \in Requests
         /\ Queued(r) /\ ~ Held(r) /\ caller[r] # Idle
         /\ \A x : Queued(x)' <=> Queued(x) /\ x # r
         /\ QueuedOnce'
  <1> DEFINE q == outbound_requests
  <1>1. /\ q \in Seq([request : Requests, peer : Peers])
        /\ q[1] \in [request : Requests, peer : Peers]
        /\ Len(q) \in Nat \ {0} /\ DOMAIN q = 1 .. Len(q)
        /\ r = q[1].request
    <2>1. q \in Seq([request : Requests, peer : Peers])
      BY DEF TypeOK
    <2>2. Len(q) \in Nat \ {0} /\ DOMAIN q = 1 .. Len(q)
      BY <2>1, LenProperties, EmptySeq
    <2>3. Head(q) = q[1]
      BY <2>1, <2>2
    <2>4. Head(q) \in [request : Requests, peer : Peers]
      BY <2>1, HeadTailProperties
    <2> QED
      BY <2>1, <2>2, <2>3, <2>4
  <1>2. /\ r \in Requests
        /\ Queued(r)
    BY <1>1 DEF Queued
  <1>3. ~ Held(r) /\ caller[r] # Idle
    BY <1>2 DEF CallerInv, QueuedOrHeld, IdleNowhere
  <1>4. /\ DOMAIN q' = 1 .. Len(q) - 1
        /\ \A i \in 1 .. Len(q) - 1 : q'[i] = q[i + 1]
    BY <1>1, HeadTailProperties
  <1>5. \A i \in 2 .. Len(q) : q[i].request # r
    BY <1>1 DEF CallerInv, QueuedOnce
  <1>6. ASSUME NEW x PROVE Queued(x)' <=> Queued(x) /\ x # r
    <2>1. ASSUME Queued(x)' PROVE Queued(x) /\ x # r
      <3>1. PICK i \in 1 .. Len(q) - 1 : q'[i].request = x
        BY <1>4, <2>1 DEF Queued
      <3>2. i + 1 \in 2 .. Len(q) /\ q[i + 1].request = x
        BY <1>1, <1>4, <3>1
      <3> QED
        BY <1>1, <1>5, <3>2 DEF Queued
    <2>2. ASSUME Queued(x), x # r PROVE Queued(x)'
      <3>1. PICK i \in 1 .. Len(q) : q[i].request = x
        BY <1>1, <2>2 DEF Queued
      <3>2. i # 1
        BY <1>1, <2>2, <3>1
      <3>3. i - 1 \in 1 .. Len(q) - 1 /\ (i - 1) + 1 = i
        BY <1>1, <3>2
      <3>4. q'[i - 1].request = x
        BY <1>4, <3>1, <3>3
      <3> QED
        BY <1>4, <3>3, <3>4 DEF Queued
    <2> QED
      BY <2>1, <2>2
  <1>7. QueuedOnce'
    <2> SUFFICES ASSUME NEW i \in 1 .. Len(q) - 1, NEW j \in 1 .. Len(q) - 1,
                        q'[i].request = q'[j].request
                 PROVE  i = j
      BY <1>4 DEF QueuedOnce
    <2>1. /\ i + 1 \in DOMAIN q /\ j + 1 \in DOMAIN q
          /\ q[i + 1].request = q[j + 1].request
      BY <1>1, <1>4
    <2>2. i + 1 = j + 1
      BY <2>1 DEF CallerInv, QueuedOnce
    <2> QED
      BY <1>1, <2>2
  <1> QED
    BY <1>2, <1>3, <1>6, <1>7

\* What the arm makes of the request at the head of the channel.
LEMMA RequestRegistered ==
  ASSUME TypeOK, OutboundRequest
  PROVE  \E r \in Requests, p \in Peers : \E s \in SessionEntry(p), e \in Exchanges : \E u :
           /\ r = Head(outbound_requests).request
           /\ e.response_tx = r
           /\ IF r \in ConRequests
              THEN e.expires_at = None /\ e.retransmit.retransmit_count = 0
              ELSE e.retransmit = None
           /\ u.exchanges = Insert(s.exchanges, s.token_allocator.next, e)
           /\ SetSession(p, u)
           /\ caller' = Tell(Dropped(s, s.token_allocator.next), [kind |-> "ChannelClosed"])
           /\ transmissions' = [transmissions EXCEPT ![r] = 1]
  <1>r. PICK r : r = Head(outbound_requests).request
    OBVIOUS
  <1>p. PICK p : p = Head(outbound_requests).peer
    OBVIOUS
  <1>1. r \in Requests /\ p \in Peers
    <2>1. Head(outbound_requests) \in [request : Requests, peer : Peers]
      BY HeadTailProperties DEF TypeOK, OutboundRequest
    <2> QED
      BY <2>1, <1>r, <1>p
  <1>2. PICK s \in SessionEntry(p), timeout \in ACK_TIMEOUTS :
          LET token  == s.token_allocator.next
              mid    == s.mid_allocator.next
              s1     == allocate_mid(allocate_token(s))
              packet == RequestPacket(r, token, mid)
          IN  /\ SetSession(p, IF r \in ConRequests
                    THEN insert_con_exchange(s1, token, mid, new_con(r, mid, packet, timeout))
                    ELSE insert_exchange(s1, token, new_non(r)))
              /\ caller' = Tell(Dropped(s, token), [kind |-> "ChannelClosed"])
    BY <1>r, <1>p DEF OutboundRequest
  <1> DEFINE token  == s.token_allocator.next
             mid    == s.mid_allocator.next
             s1     == allocate_mid(allocate_token(s))
             packet == RequestPacket(r, token, mid)
             con    == new_con(r, mid, packet, timeout)
             non    == new_non(r)
             u == insert_con_exchange(s1, token, mid, con)
             v == insert_exchange(s1, token, non)
  <1>3. /\ IsSession(s1) /\ token \in Tokens /\ mid \in MIDs
        /\ s1.exchanges = s.exchanges
    <2>1. IsSession(s)
      BY <1>1, SessionEntryType DEF TypeOK
    <2>2. IsSession(allocate_token(s)) /\ token \in Tokens /\ mid \in MIDs
      BY <2>1, AllocateTokenType, AllocateMidType
    <2> QED
      BY <2>1, <2>2, AllocateMidType, ExchangesKept
  <1>4. /\ con \in Exchanges /\ con.response_tx = r
        /\ con.expires_at = None /\ con.retransmit.retransmit_count = 0
        /\ non \in Exchanges /\ non.response_tx = r /\ non.retransmit = None
    <2>1. packet \in Packets
      BY <1>1, <1>3, RequestsAssumption DEF RequestPacket, Packets, MessageTypes, MessageClasses
    <2> HIDE DEF packet
    <2>2. con \in Exchanges /\ non \in Exchanges
      BY <1>1, <1>3, <2>1, NewConType, NewNonType
    <2> QED
      BY <2>2 DEF new_con, new_non, NewRetransmitState
  <1> HIDE DEF s1, con, non
  <1>5. u.exchanges = Insert(s.exchanges, token, con)
    <2>1. u = WithIndexes(s1, Insert(s1.exchanges, token, con), Insert(s1.mid_to_token, mid, token))
      BY <1>3, <1>4, InsertConExchangeFields
    <2> QED
      BY <1>3, <2>1 DEF WithIndexes
  <1>6. v.exchanges = Insert(s.exchanges, token, non)
    BY <1>3 DEF insert_exchange, IsSession
  <1>7. /\ SetSession(p, IF r \in ConRequests THEN u ELSE v)
        /\ caller' = Tell(Dropped(s, token), [kind |-> "ChannelClosed"])
        /\ transmissions' = [transmissions EXCEPT ![r] = 1]
    BY <1>2, <1>r DEF s1, con, non, OutboundRequest
  <1> HIDE DEF u, v, token, mid
  <1>8. CASE r \in ConRequests
    BY <1>1, <1>4, <1>5, <1>7, <1>8, <1>r DEF token
  <1>9. CASE r \notin ConRequests
    BY <1>1, <1>4, <1>6, <1>7, <1>9, <1>r DEF token
  <1> QED
    BY <1>8, <1>9

\* The sender moves from the channel into the exchange; the exchange that it
\* replaces, if there is one, drops its own, which its caller is told.
LEMMA OutboundRequestCallers ==
  ASSUME TypeOK, CallerInv, OutboundRequest
  PROVE  CallerInv'
  <1>1. PICK r \in Requests, p \in Peers : \E s \in SessionEntry(p), e \in Exchanges : \E u :
           /\ r = Head(outbound_requests).request
           /\ e.response_tx = r
           /\ u.exchanges = Insert(s.exchanges, s.token_allocator.next, e)
           /\ SetSession(p, u)
           /\ caller' = Tell(Dropped(s, s.token_allocator.next), [kind |-> "ChannelClosed"])
    BY RequestRegistered
  <1>2. PICK s \in SessionEntry(p), e \in Exchanges : \E u :
           /\ r = Head(outbound_requests).request
           /\ e.response_tx = r
           /\ u.exchanges = Insert(s.exchanges, s.token_allocator.next, e)
           /\ SetSession(p, u)
           /\ caller' = Tell(Dropped(s, s.token_allocator.next), [kind |-> "ChannelClosed"])
    BY <1>1
  <1>u. PICK u, token :
           /\ r = Head(outbound_requests).request
           /\ e.response_tx = r
           /\ token = s.token_allocator.next
           /\ u.exchanges = Insert(s.exchanges, token, e)
           /\ SetSession(p, u)
           /\ caller' = Tell(Dropped(s, token), [kind |-> "ChannelClosed"])
    BY <1>2
  <1>3. /\ Queued(r) /\ ~ Held(r) /\ caller[r] # Idle
        /\ \A x : Queued(x)' <=> Queued(x) /\ x # r
        /\ QueuedOnce'
    BY <1>u, HeadOfQueue DEF OutboundRequest
  <1>4. /\ DOMAIN u.exchanges = DOMAIN s.exchanges \cup {token}
        /\ u.exchanges[token].response_tx = r
        /\ \A t \in DOMAIN s.exchanges : t # token => u.exchanges[t] = s.exchanges[t]
    BY <1>u DEF Insert
  <1>5. /\ DOMAIN sessions' = DOMAIN sessions \cup {p}
        /\ sessions'[p] = u
        /\ \A x \in DOMAIN sessions : x # p => sessions'[x] = sessions[x]
    BY <1>u DEF SetSession, Insert
  <1>6. /\ p \notin DOMAIN sessions => DOMAIN s.exchanges = {}
        /\ p \in DOMAIN sessions => s = sessions[p]
    BY DEF SessionEntry, NewSession, EmptyMap
  <1>7. CallersToldOnly(Dropped(s, token))
    BY <1>u, TellTold DEF Waiting, Idle
  <1>8. ASSUME NEW x, NEW y, NEW t
        PROVE  /\ Holds(x, y, t)' <=> IF y = p /\ t = token THEN x = r ELSE Holds(x, y, t)
               /\ Holds(x, y, t) => Holds(x, y, t)' \/ x \in Dropped(s, token)
    <2>1. Holds(x, y, t)' <=> /\ y \in DOMAIN sessions'
                              /\ t \in DOMAIN sessions'[y].exchanges
                              /\ sessions'[y].exchanges[t].response_tx = x
      BY DEF Holds
    <2>2. CASE y = p /\ t = token
      BY <1>4, <1>5, <1>6, <2>1, <2>2 DEF Holds, Dropped
    <2>3. CASE y = p /\ t # token
      BY <1>4, <1>5, <1>6, <2>1, <2>3 DEF Holds
    <2>4. CASE y # p
      BY <1>5, <2>1, <2>4 DEF Holds
    <2> QED
      BY <2>2, <2>3, <2>4
  <1>9. /\ Held(r)'
        /\ \A x : x # r /\ Held(x)' => Held(x)
        /\ \A x : Held(x) => Held(x)' \/ x \in Dropped(s, token)
    <2>1. Holds(r, p, token)'
      BY <1>8
    <2>2. ASSUME NEW x, x # r, NEW y, NEW t, Holds(x, y, t)'
          PROVE  Holds(x, y, t)
      BY <1>8, <2>2
    <2>3. ASSUME NEW x, NEW y, NEW t, Holds(x, y, t)
          PROVE  Holds(x, y, t)' \/ x \in Dropped(s, token)
      BY <1>8, <2>3
    <2> QED
      BY <2>1, <2>2, <2>3 DEF Held
  <1>10. WaitingHeld'
    <2> SUFFICES ASSUME NEW x \in Requests, caller'[x] = Waiting
                 PROVE  Queued(x)' \/ Held(x)'
      BY DEF WaitingHeld
    <2>1. caller[x] = Waiting /\ x \notin Dropped(s, token)
      BY <1>7 DEF CallersToldOnly
    <2>2. Queued(x) \/ Held(x)
      BY <2>1 DEF CallerInv, WaitingHeld
    <2> QED
      BY <1>3, <1>9, <2>1, <2>2
  <1>11. HeldOnce'
    <2> SUFFICES ASSUME NEW x \in Requests, NEW y, NEW t, NEW y2, NEW t2,
                        Holds(x, y, t)', Holds(x, y2, t2)'
                 PROVE  y = y2 /\ t = t2
      BY DEF HeldOnce
    <2>1. CASE x = r
      BY <1>3, <1>8, <2>1 DEF Held
    <2>2. CASE x # r
      BY <1>8, <2>2 DEF CallerInv, HeldOnce
    <2> QED
      BY <2>1, <2>2
  <1>12. QueuedOrHeld'
    BY <1>3, <1>9 DEF CallerInv, QueuedOrHeld
  <1>13. IdleNowhere'
    BY <1>3, <1>7, <1>9 DEF CallerInv, IdleNowhere, CallersToldOnly
  <1> QED
    BY <1>3, <1>10, <1>11, <1>12, <1>13 DEF CallerInv

LEMMA OutboundRequestUnencodableCallers ==
  ASSUME TypeOK, CallerInv, OutboundRequestUnencodable
  PROVE  CallerInv'
  <1> DEFINE r == Head(outbound_requests).request
             p == Head(outbound_requests).peer
  <1>0. /\ outbound_requests # << >>
        /\ outbound_requests' = Tail(outbound_requests)
        /\ caller' = Tell({r}, [kind |-> "ChannelClosed"])
    BY DEF OutboundRequestUnencodable
  <1>1. /\ r \in Requests
        /\ Queued(r) /\ ~ Held(r) /\ caller[r] # Idle
        /\ \A x : Queued(x)' <=> Queued(x) /\ x # r
        /\ QueuedOnce'
    BY <1>0, HeadOfQueue
  <1>2. p \in Peers
    <2>1. Head(outbound_requests) \in [request : Requests, peer : Peers]
      BY <1>0, HeadTailProperties DEF TypeOK
    <2> QED
      BY <2>1
  <1>3. PICK s \in SessionEntry(p) : SetSession(p, allocate_mid(allocate_token(s)))
    BY DEF OutboundRequestUnencodable
  <1> HIDE DEF r, p
  <1> DEFINE u == allocate_mid(allocate_token(s))
  <1>4. u.exchanges = s.exchanges
    <2>1. IsSession(s)
      BY <1>2, SessionEntryType DEF TypeOK
    <2> QED
      BY <2>1, AllocateTokenType, ExchangesKept
  <1>5. SetSession(p, u)
    BY <1>3
  <1> HIDE DEF u
  <1>6. \A x, y, t : Holds(x, y, t)' <=> Holds(x, y, t)
    BY <1>4, <1>5 DEF Holds, SetSession, Insert, SessionEntry, NewSession, EmptyMap
  <1>7. \A x : Held(x)' <=> Held(x)
    BY <1>6 DEF Held
  <1>8. CallersToldOnly({r})
    BY <1>0, TellTold DEF Waiting, Idle
  <1>9. WaitingHeld'
    BY <1>1, <1>7, <1>8 DEF CallerInv, WaitingHeld, CallersToldOnly
  <1>10. HeldOnce'
    BY <1>6 DEF CallerInv, HeldOnce
  <1>11. QueuedOrHeld' /\ IdleNowhere'
    BY <1>1, <1>7, <1>8 DEF CallerInv, QueuedOrHeld, IdleNowhere, CallersToldOnly
  <1> QED
    BY <1>1, <1>9, <1>10, <1>11 DEF CallerInv

LEMMA OutboundResponseCallers ==
  ASSUME TypeOK, CallerInv, NEW encodable \in BOOLEAN, OutboundResponse(encodable)
  PROVE  CallerInv'
  <1> USE DEF TypeOK
  <1> DEFINE request == Head(server_responses).request
             p == Head(server_responses).peer
  <1>1. Head(server_responses) \in ServerMessages
    BY HeadTailProperties DEF OutboundResponse
  <1>2. p \in Peers
    BY <1>1 DEF ServerMessages
  <1>3. UNCHANGED <<caller, outbound_requests>>
    BY DEF OutboundResponse, clientVars
  <1>4. PICK s \in SessionEntry(p) :
           LET taken == take_inbound_con_mid(s, request.token) IN
           \/ \E mid, packet : SetSession(p, cache_response_for_mid(taken, mid, packet))
           \/ SetSession(p, taken)
           \/ SetSession(p, allocate_mid(s))
    BY DEF OutboundResponse
  <1> DEFINE taken == take_inbound_con_mid(s, request.token)
  <1>5. PICK u : SetSession(p, u) /\ u.exchanges = s.exchanges
    <2>1. IsSession(s) /\ IsSession(taken)
      BY <1>2, SessionEntryType, TakeInboundConType
    <2>2. taken.exchanges = s.exchanges /\ allocate_mid(s).exchanges = s.exchanges
      BY <2>1, ExchangesKept
    <2> HIDE DEF taken
    <2>3. \A mid, packet : cache_response_for_mid(taken, mid, packet).exchanges = s.exchanges
      BY <2>1, <2>2, ExchangesKept
    <2> QED
      BY <1>4, <2>2, <2>3 DEF taken
  <1> HIDE DEF p
  <1> QED
    BY <1>3, <1>5, SetSessionKeeps

\* The exchanges that a run of the timer ends are those whose callers it fails.
LEMMA RetransmissionTimerCallers ==
  ASSUME TypeOK, CallerInv, RetransmissionTimer
  PROVE  CallerInv'
  <1> DEFINE failed == UNION {TimedOut(sessions[p]) : p \in DOMAIN sessions}
             told == {x.request : x \in failed}
  <1>1. \A p \in DOMAIN sessions : IsSession(sessions[p])
    BY DEF TypeOK, SessionsOK
  <1>2. \A p \in DOMAIN sessions : Shrinks(sessions[p], TimerWork(sessions[p]), TimedOutCallers(sessions[p]))
    BY <1>1, TimerWorkShrinks
  <1>3. \A p \in DOMAIN sessions : TimedOutCallers(sessions[p]) \subseteq told
    <2> SUFFICES ASSUME NEW p \in DOMAIN sessions, NEW t \in ExpiredTokens(sessions[p])
                 PROVE  sessions[p].exchanges[t].response_tx \in told
      BY DEF TimedOutCallers
    <2> DEFINE x == [request |-> sessions[p].exchanges[t].response_tx,
                     retransmits |-> retransmit_count(sessions[p].exchanges[t])]
    <2>1. x \in TimedOut(sessions[p])
      BY DEF TimedOut
    <2>2. x \in failed
      BY <2>1
    <2>3. x.request = sessions[p].exchanges[t].response_tx
      OBVIOUS
    <2> HIDE DEF x, failed
    <2> QED
      BY <2>2, <2>3
  <1>4. PICK T : T = told
    OBVIOUS
  <1>5. sessions' = [p \in DOMAIN sessions |-> TimerWork(sessions[p])]
    BY DEF RetransmissionTimer
  <1>6. ASSUME NEW r, NEW p, NEW t
        PROVE  /\ Holds(r, p, t)' => Holds(r, p, t)
               /\ Holds(r, p, t) => Holds(r, p, t)' \/ r \in T
    <2>1. CASE p \in DOMAIN sessions
      <3>1. /\ DOMAIN sessions' = DOMAIN sessions
            /\ sessions'[p] = TimerWork(sessions[p])
            /\ Shrinks(sessions[p], TimerWork(sessions[p]), T)
        BY <1>2, <1>3, <1>4, <1>5, <2>1 DEF Shrinks
      <3> HIDE DEF told
      <3> QED
        BY <3>1, <2>1 DEF Holds, Shrinks
    <2>2. CASE p \notin DOMAIN sessions
      BY <1>5, <2>2 DEF Holds
    <2> QED
      BY <2>1, <2>2
  <1>7. CallersToldOnly(T)
    <2>1. caller' = [r \in Requests |->
            IF caller[r] = Waiting /\ \E x \in failed : x.request = r
            THEN [kind |-> "Timeout",
                  retransmits |-> (CHOOSE x \in failed : x.request = r).retransmits]
            ELSE caller[r]]
      BY DEF RetransmissionTimer
    <2>2. \A r : r \in T <=> \E x \in failed : x.request = r
      BY <1>4
    <2> HIDE DEF failed
    <2> QED
      BY <2>1, <2>2 DEF CallersToldOnly, Waiting, Idle
  <1>8. UNCHANGED outbound_requests
    BY DEF RetransmissionTimer
  <1> HIDE DEF told, failed
  <1> QED
    BY <1>6, <1>7, <1>8, ShrinkStep

\* Only sessions without an open exchange are forgotten.
LEMMA CleanupTimerCallers ==
  ASSUME CallerInv, CleanupTimer
  PROVE  CallerInv'
  <1>1. \A r, p, t : Holds(r, p, t)' <=> Holds(r, p, t)
    BY DEF CleanupTimer, Holds, Restrict, is_idle
  <1>2. UNCHANGED <<caller, outbound_requests>>
    BY DEF CleanupTimer, clientVars
  <1> QED
    BY <1>1, <1>2, SameHolders

LEMMA StackReturnsCallers ==
  ASSUME TypeOK, StackReturns
  PROVE  CallerInv'
  <1>1. \A r : ~ Queued(r)' /\ ~ Held(r)'
    BY DEF StackReturns, Queued, Held, Holds, EmptyMap
  <1>2. \A r \in Requests : caller'[r] # Waiting
    BY DEF StackReturns, Tell, Waiting
  <1>3. HeldOnce' /\ QueuedOnce'
    BY DEF StackReturns, HeldOnce, QueuedOnce, Holds, EmptyMap
  <1> QED
    BY <1>1, <1>2, <1>3 DEF CallerInv, WaitingHeld, QueuedOrHeld, IdleNowhere

\* The sender of a new request enters the channel.
LEMMA SendRequestCallers ==
  ASSUME TypeOK, CallerInv, NEW r \in Requests, NEW p \in Peers, SendRequest(r, p)
  PROVE  CallerInv'
  <1> DEFINE q == outbound_requests
  <1>1. \A x, y, t : Holds(x, y, t)' <=> Holds(x, y, t)
    BY DEF SendRequest, taskVars, Holds
  <1>2. ~ Queued(r) /\ ~ Held(r)
    BY DEF SendRequest, CallerInv, IdleNowhere
  <1>3. \A x : Held(x)' <=> Held(x)
    BY <1>1 DEF Held
  <1>4. HeldOnce'
    BY <1>1 DEF CallerInv, HeldOnce
  <1>5. CASE running
    <2>1. /\ caller' = [caller EXCEPT ![r] = Waiting]
          /\ q' = Append(q, [request |-> r, peer |-> p])
      BY <1>5 DEF SendRequest
    <2>2. q \in Seq([request : Requests, peer : Peers])
      BY DEF TypeOK
    <2>3. /\ Len(q) \in Nat /\ DOMAIN q = 1 .. Len(q)
          /\ DOMAIN q' = 1 .. Len(q) + 1
          /\ \A i \in 1 .. Len(q) : q'[i] = q[i]
          /\ q'[Len(q) + 1].request = r
      BY <2>1, <2>2
    <2> HIDE DEF q
    <2>4. ASSUME NEW x PROVE Queued(x)' <=> Queued(x) \/ x = r
      BY <2>3 DEF Queued, q
    <2>5. QueuedOnce'
      <3> SUFFICES ASSUME NEW i \in 1 .. Len(q) + 1, NEW j \in 1 .. Len(q) + 1,
                          q'[i].request = q'[j].request
                   PROVE  i = j
        BY <2>3 DEF QueuedOnce, q
      <3>1. \A k \in 1 .. Len(q) : q[k].request # r
        BY <1>2, <2>3 DEF Queued, q
      <3>2. \A k, l \in 1 .. Len(q) : q[k].request = q[l].request => k = l
        BY <2>3 DEF CallerInv, QueuedOnce, q
      <3> QED
        BY <2>3, <3>1, <3>2
    <2>6. \A x \in Requests : caller'[x] = IF x = r THEN Waiting ELSE caller[x]
      BY <2>1 DEF TypeOK
    <2>7. WaitingHeld'
      BY <1>3, <2>4, <2>6 DEF CallerInv, WaitingHeld
    <2>8. QueuedOrHeld'
      BY <1>2, <1>3, <2>4 DEF CallerInv, QueuedOrHeld
    <2>9. IdleNowhere'
      BY <1>3, <2>4, <2>6 DEF CallerInv, IdleNowhere, Waiting, Idle
    <2> QED
      BY <1>4, <2>5, <2>7, <2>8, <2>9 DEF CallerInv
  <1>6. CASE ~ running
    <2>1. /\ caller' = [caller EXCEPT ![r] = [kind |-> "EndpointClosed"]]
          /\ UNCHANGED outbound_requests
      BY <1>6 DEF SendRequest
    <2>2. CallersToldOnly({r})
      BY <2>1 DEF CallersToldOnly, Waiting, Idle, TypeOK
    <2> QED
      BY <1>1, <2>1, <2>2, ShrinkStep
  <1> QED
    BY <1>5, <1>6

LEMMA InitCallers == Init => CallerInv
  BY DEF Init, CallerInv, WaitingHeld, HeldOnce, QueuedOnce, QueuedOrHeld, IdleNowhere,
         Queued, Held, Holds, EmptyMap, Waiting, Idle

LEMMA NextCallers == TypeOK /\ CallerInv /\ [Next]_vars => CallerInv'
  <1> SUFFICES ASSUME TypeOK, CallerInv, [Next]_vars PROVE CallerInv'
    OBVIOUS
  <1>1. CASE \E p \in Peers, pkt \in InboundPackets : RecvPacket(p, pkt)
    BY <1>1, RecvPacketCallers
  <1>2. CASE OutboundRequest
    BY <1>2, OutboundRequestCallers
  <1>3. CASE OutboundRequestUnencodable
    BY <1>3, OutboundRequestUnencodableCallers
  <1>4. CASE \E ok \in BOOLEAN : OutboundResponse(ok)
    BY <1>4, OutboundResponseCallers
  <1>5. CASE RetransmissionTimer
    BY <1>5, RetransmissionTimerCallers
  <1>6. CASE CleanupTimer
    BY <1>6, CleanupTimerCallers
  <1>7. CASE StackReturns
    BY <1>7, StackReturnsCallers
  <1>8. CASE \E r \in Requests, p \in Peers : SendRequest(r, p)
    BY <1>8, SendRequestCallers
  <1>9. CASE \E r \in Requests : ClientTimeout(r)
    <2>1. PICK r \in Requests : ClientTimeout(r)
      BY <1>9
    <2>2. CallersToldOnly({r})
      BY <2>1 DEF ClientTimeout, CallersToldOnly, Waiting, Idle, TypeOK
    <2>3. \A x, y, t : Holds(x, y, t)' <=> Holds(x, y, t)
      BY <2>1 DEF ClientTimeout, taskVars, Holds
    <2>4. UNCHANGED outbound_requests
      BY <2>1 DEF ClientTimeout
    <2> QED
      BY <2>2, <2>3, <2>4, ShrinkStep
  <1>10. CASE Tick
    <2>1. \A p \in DOMAIN sessions :
            /\ DOMAIN AgeSession(sessions[p]).exchanges = DOMAIN sessions[p].exchanges
            /\ \A t \in DOMAIN sessions[p].exchanges :
                 AgeSession(sessions[p]).exchanges[t].response_tx
                   = sessions[p].exchanges[t].response_tx
      BY AgeSessionKeeps DEF TypeOK, SessionsOK
    <2>2. sessions' = [p \in DOMAIN sessions |-> AgeSession(sessions[p])]
      BY <1>10 DEF Tick
    <2>3. \A r, p, t : Holds(r, p, t)' <=> Holds(r, p, t)
      BY <2>1, <2>2 DEF Holds
    <2> QED
      BY <1>10, <2>3, SameHolders DEF Tick, clientVars
  <1>11. CASE ServerHandle \/ UNCHANGED vars
    <2>1. UNCHANGED <<sessions, caller, outbound_requests>>
      BY <1>11 DEF ServerHandle, vars, taskVars, clientVars
    <2>2. \A r, p, t : Holds(r, p, t)' <=> Holds(r, p, t)
      BY <2>1 DEF Holds
    <2> QED
      BY <2>1, <2>2, SameHolders
  <1> QED
    BY <1>1, <1>2, <1>3, <1>4, <1>5, <1>6, <1>7, <1>8, <1>9, <1>10, <1>11 DEF Next

\* A caller that waits is waited for: its oneshot sender sits in the clients'
\* channel or in one open exchange, and never in two places, so no answer,
\* reset, timeout, token reuse, cleanup or end of the task leaves a caller
\* behind without telling it.
THEOREM WaitingCallerHeld == Spec => []WaitingCallerIsHeld
  <1> QED
    BY InitCallers, CallerInvImplies, NextCallers, TypeCorrect, PTL DEF Spec

-----------------------------------------------------------------------------
(* How often a request was sent when its caller is told of a timeout.      *)

\* Exchange e of a request that was sent n times.
Counted(e, n) ==
  IF e.response_tx \in ConRequests
  THEN /\ e.expires_at = None
       /\ e.retransmit # None => n = e.retransmit.retransmit_count + 1
  ELSE e.retransmit = None /\ n = 1

ExchangesCounted ==
  \A p \in DOMAIN sessions : \A t \in DOMAIN sessions[p].exchanges :
    LET e == sessions[p].exchanges[t] IN Counted(e, transmissions[e.response_tx])

TimedOutNowhere ==
  \A r \in Requests : caller[r].kind = "Timeout" => ~ Queued(r) /\ ~ Held(r)

CountInv == ExchangesCounted /\ TimedOutNowhere /\ TimeoutReportsRetransmissions

\* Exchange e as f: the retransmission may stop, its count does not change.
Relaxed(e, f) ==
  /\ f.response_tx = e.response_tx
  /\ f.expires_at = None <=> e.expires_at = None
  /\ f.retransmit # None =>
       e.retransmit # None /\ f.retransmit.retransmit_count = e.retransmit.retransmit_count

Relaxes(s, u) ==
  \A t \in DOMAIN u.exchanges :
    t \in DOMAIN s.exchanges /\ Relaxed(s.exchanges[t], u.exchanges[t])

\* Steps that send no request and tell no caller of a timeout.
LEMMA CountStep ==
  ASSUME CountInv, UNCHANGED transmissions,
         \A p \in DOMAIN sessions' : \A t \in DOMAIN sessions'[p].exchanges :
           /\ p \in DOMAIN sessions
           /\ t \in DOMAIN sessions[p].exchanges
           /\ Relaxed(sessions[p].exchanges[t], sessions'[p].exchanges[t]),
         \A r \in Requests : caller'[r].kind = "Timeout" =>
           caller'[r] = caller[r] /\ (Queued(r)' => Queued(r))
  PROVE  CountInv'
  <1>1. ExchangesCounted'
    <2> SUFFICES ASSUME NEW p \in DOMAIN sessions', NEW t \in DOMAIN sessions'[p].exchanges
                 PROVE  Counted(sessions'[p].exchanges[t],
                                transmissions[sessions'[p].exchanges[t].response_tx])
      BY DEF ExchangesCounted
    <2> QED
      BY DEF CountInv, ExchangesCounted, Counted, Relaxed
  <1>2. \A r : Held(r)' => Held(r)
    <2> SUFFICES ASSUME NEW r, NEW p, NEW t, Holds(r, p, t)'
                 PROVE  Holds(r, p, t)
      BY DEF Held
    <2>1. /\ p \in DOMAIN sessions' /\ t \in DOMAIN sessions'[p].exchanges
          /\ sessions'[p].exchanges[t].response_tx = r
      BY DEF Holds
    <2> QED
      BY <2>1 DEF Holds, Relaxed
  <1>3. TimedOutNowhere'
    BY <1>2 DEF CountInv, TimedOutNowhere
  <1>4. TimeoutReportsRetransmissions'
    BY DEF CountInv, TimeoutReportsRetransmissions
  <1> QED
    BY <1>1, <1>3, <1>4 DEF CountInv

NoNewTimeout ==
  \A r \in Requests : caller'[r].kind = "Timeout" => caller'[r] = caller[r]

LEMMA TellNoTimeout ==
  ASSUME NEW C, NEW result, result.kind # "Timeout",
         caller' = Tell(C, result) \/ UNCHANGED caller
  PROVE  NoNewTimeout
  BY DEF NoNewTimeout, Tell

LEMMA SetSessionCounts ==
  ASSUME CountInv, UNCHANGED <<transmissions, outbound_requests>>, NoNewTimeout, NEW p,
         NEW s \in SessionEntry(p), NEW u, Relaxes(s, u), SetSession(p, u)
  PROVE  CountInv'
  <1>1. \A x \in DOMAIN sessions' : \A t \in DOMAIN sessions'[x].exchanges :
           /\ x \in DOMAIN sessions
           /\ t \in DOMAIN sessions[x].exchanges
           /\ Relaxed(sessions[x].exchanges[t], sessions'[x].exchanges[t])
    <2> SUFFICES ASSUME NEW x \in DOMAIN sessions', NEW t \in DOMAIN sessions'[x].exchanges
                 PROVE  /\ x \in DOMAIN sessions
                        /\ t \in DOMAIN sessions[x].exchanges
                        /\ Relaxed(sessions[x].exchanges[t], sessions'[x].exchanges[t])
      OBVIOUS
    <2>1. /\ DOMAIN sessions' = DOMAIN sessions \cup {p}
          /\ sessions'[p] = u
          /\ \A y \in DOMAIN sessions : y # p => sessions'[y] = sessions[y]
      BY DEF SetSession, Insert
    <2>2. /\ p \notin DOMAIN sessions => DOMAIN s.exchanges = {}
          /\ p \in DOMAIN sessions => s = sessions[p]
      BY DEF SessionEntry, NewSession, EmptyMap
    <2>3. CASE x = p
      BY <2>1, <2>2, <2>3 DEF Relaxes
    <2>4. CASE x # p
      BY <2>1, <2>4 DEF Relaxed
    <2> QED
      BY <2>3, <2>4
  <1>2. \A r : Queued(r)' <=> Queued(r)
    BY DEF Queued
  <1> QED
    BY <1>1, <1>2, CountStep DEF NoNewTimeout

LEMMA SameExchangesRelax ==
  ASSUME NEW s, NEW u, u.exchanges = s.exchanges
  PROVE  Relaxes(s, u)
  BY DEF Relaxes, Relaxed

LEMMA RelaxesTransitive ==
  ASSUME NEW s, NEW a, NEW u, Relaxes(s, a), Relaxes(a, u)
  PROVE  Relaxes(s, u)
  BY DEF Relaxes, Relaxed

LEMMA RemoveExchangesRelaxes ==
  ASSUME NEW s, IsSession(s), NEW T
  PROVE  Relaxes(s, RemoveExchanges(s, T))
  <1> DEFINE u == RemoveExchanges(s, T)
  <1>1. /\ DOMAIN u.exchanges = DOMAIN s.exchanges \ T
        /\ \A t \in DOMAIN u.exchanges : u.exchanges[t] = s.exchanges[t]
    BY RemoveExchangesKeeps
  <1> HIDE DEF u
  <1> QED
    BY <1>1 DEF Relaxes, Relaxed, u

LEMMA HandleAckRelaxes ==
  ASSUME NEW s, IsSession(s), NEW mid, NEW code
  PROVE  Relaxes(s, handle_ack(s, mid, code))
  <1> DEFINE u == handle_ack(s, mid, code)
             acked == TokenOf(s, mid) \cap DOMAIN s.exchanges
             x == [t \in DOMAIN s.exchanges |-> IF code = "Empty" /\ t \in acked
                                                THEN cancel_retransmission(s.exchanges[t])
                                                ELSE s.exchanges[t]]
             y == RemoveAll(s.mid_to_token, {mid})
  <1>1. u = WithIndexes(s, x, y)
    BY HandleAckFields
  <1> HIDE DEF u, x, y
  <1>2. u.exchanges = x
    BY <1>1 DEF WithIndexes
  <1>3. ASSUME NEW e \in Exchanges
        PROVE  Relaxed(e, cancel_retransmission(e)) /\ Relaxed(e, e)
    BY DEF cancel_retransmission, Exchanges, Relaxed
  <1>4. \A t \in DOMAIN s.exchanges : s.exchanges[t] \in Exchanges
    BY DEF IsSession, IsMap
  <1>5. Relaxes(s, u)
    BY <1>2, <1>3, <1>4 DEF x, Relaxes
  <1> QED
    BY <1>5 DEF u

LEMMA HandleRstRelaxes ==
  ASSUME NEW s, IsSession(s), NEW mid
  PROVE  Relaxes(s, handle_rst(s, mid))
  <1> DEFINE u == handle_rst(s, mid)
             x == RemoveAll(s.exchanges, TokenOf(s, mid))
             y == RemoveAll(s.mid_to_token, {mid})
  <1>1. u = WithIndexes(s, x, y)
    BY HandleRstFields
  <1> HIDE DEF u, x, y
  <1>2. u.exchanges = x
    BY <1>1 DEF WithIndexes
  <1>3. /\ DOMAIN u.exchanges = DOMAIN s.exchanges \ TokenOf(s, mid)
        /\ \A t \in DOMAIN u.exchanges : u.exchanges[t] = s.exchanges[t]
    BY <1>2 DEF x, RemoveAll, Restrict
  <1> QED
    BY <1>3 DEF Relaxes, Relaxed, u

LEMMA AgeSessionRelaxes ==
  ASSUME NEW s, IsSession(s)
  PROVE  Relaxes(s, AgeSession(s))
  <1>1. ASSUME NEW e \in Exchanges
        PROVE  Relaxed(e, AgeExchange(e))
    <2> DEFINE r == IF e.retransmit = None THEN None ELSE AgeRetransmit(e.retransmit)
               x == IF e.expires_at = None THEN None ELSE TickDown(e.expires_at)
    <2>1. AgeExchange(e) = [e EXCEPT !.retransmit = r, !.expires_at = x]
      BY DEF AgeExchange
    <2>2. r # None => e.retransmit # None /\ r.retransmit_count = e.retransmit.retransmit_count
      BY DEF Exchanges, RetransmitStates, AgeRetransmit
    <2>3. x = None <=> e.expires_at = None
      <3>1. e.expires_at # None => TickDown(e.expires_at) \in Nat
        BY TickDownType DEF Exchanges
      <3> QED
        BY <3>1, NoneAssumption
    <2> HIDE DEF r, x
    <2>4. /\ AgeExchange(e).response_tx = e.response_tx
          /\ AgeExchange(e).retransmit = r
          /\ AgeExchange(e).expires_at = x
      BY <2>1 DEF Exchanges
    <2> QED
      BY <2>2, <2>3, <2>4 DEF Relaxed
  <1>2. \A t \in DOMAIN s.exchanges : s.exchanges[t] \in Exchanges
    BY DEF IsSession, IsMap
  <1>3. AgeSession(s).exchanges = [t \in DOMAIN s.exchanges |-> AgeExchange(s.exchanges[t])]
    BY AgeFields
  <1> QED
    BY <1>1, <1>2, <1>3 DEF Relaxes

LEMMA RecvPacketCounts ==
  ASSUME TypeOK, CountInv, NEW p \in Peers, NEW pkt \in InboundPackets, RecvPacket(p, pkt)
  PROVE  CountInv'
  <1> USE DEF TypeOK
  <1>0. /\ pkt \in Packets /\ pkt.mid \in MIDs /\ pkt.token \in Tokens \cup {None}
        /\ \A s \in SessionEntry(p) : IsSession(s)
    BY InboundType, SessionEntryType
  <1>1. CASE RecvDuplicate(p, pkt)
    <2>1. UNCHANGED <<sessions, transmissions, caller, outbound_requests>>
      BY <1>1 DEF RecvDuplicate, taskVars, clientVars, historyVars
    <2>2. \A r : Queued(r)' <=> Queued(r)
      BY <2>1 DEF Queued
    <2> QED
      BY <2>1, <2>2, CountStep DEF Relaxed
  <1>2. CASE RecvRequest(p, pkt)
    <2>1. PICK s \in SessionEntry(p) : SetSession(p, RecordRequest(s, pkt))
      BY <1>2 DEF RecvRequest
    <2> DEFINE u == record_inbound_mid(s, pkt.mid)
    <2>2. IsSession(u) /\ u.exchanges = s.exchanges
      BY <1>0, RecordInboundMidType, ExchangesKept
    <2> HIDE DEF u
    <2>3. record_inbound_con(u, pkt.token, pkt.mid).exchanges = s.exchanges
      BY <2>2, ExchangesKept
    <2>4. Relaxes(s, RecordRequest(s, pkt))
      BY <2>2, <2>3, SameExchangesRelax DEF RecordRequest, u
    <2>5. UNCHANGED <<transmissions, caller, outbound_requests>>
      BY <1>2 DEF RecvRequest, clientVars
    <2> QED
      BY <2>1, <2>4, <2>5, SetSessionCounts DEF NoNewTimeout
  <1>3. CASE RecvNonRequest(p, pkt)
    <2>1. PICK s \in SessionEntry(p) :
            LET recorded == record_inbound_mid(s, pkt.mid)
                acked == IF pkt.type = "Confirmable"
                         THEN cache_response_for_mid(recorded, pkt.mid, EmptyAck(pkt.mid))
                         ELSE recorded
            IN  \/ /\ SetSession(p, complete_exchange(acked, pkt.token))
                   /\ caller' = Tell(Completed(acked, pkt.token),
                                     [kind |-> "Response", payload |-> pkt.payload])
                \/ SetSession(p, acked) /\ UNCHANGED caller
      BY <1>3 DEF RecvNonRequest
    <2> DEFINE recorded == record_inbound_mid(s, pkt.mid)
               cached == cache_response_for_mid(recorded, pkt.mid, EmptyAck(pkt.mid))
               acked == IF pkt.type = "Confirmable" THEN cached ELSE recorded
               told == Completed(acked, pkt.token)
               result == [kind |-> "Response", payload |-> pkt.payload]
    <2>2. IsSession(recorded) /\ recorded.exchanges = s.exchanges
      BY <1>0, RecordInboundMidType, ExchangesKept
    <2> HIDE DEF recorded
    <2>3. IsSession(cached) /\ cached.exchanges = s.exchanges
      BY <1>0, <2>2, CacheResponseType, EmptyAckType, ExchangesKept
    <2> HIDE DEF cached
    <2>4. IsSession(acked) /\ acked.exchanges = s.exchanges
      BY <2>2, <2>3
    <2> HIDE DEF acked
    <2>5. Relaxes(s, acked)
      BY <2>4, SameExchangesRelax
    <2>6. Relaxes(s, complete_exchange(acked, pkt.token))
      BY <2>4, <2>5, RemoveExchangesRelaxes, RelaxesTransitive DEF complete_exchange
    <2>7. PICK u : SetSession(p, u) /\ Relaxes(s, u)
      BY <2>1, <2>5, <2>6 DEF acked, cached, recorded
    <2>8. NoNewTimeout
      <3>1. caller' = Tell(told, result) \/ UNCHANGED caller
        BY <2>1 DEF acked, cached, recorded
      <3>2. result.kind # "Timeout"
        OBVIOUS
      <3> HIDE DEF told, result
      <3> QED
        BY <3>1, <3>2, TellNoTimeout
    <2>9. UNCHANGED <<transmissions, outbound_requests>>
      BY <1>3 DEF RecvNonRequest, historyVars
    <2> QED
      BY <2>7, <2>8, <2>9, SetSessionCounts
  <1>4. CASE RecvAck(p, pkt)
    <2>1. PICK s \in SessionEntry(p) :
            SetSession(p, IF pkt.code = "Empty" THEN handle_ack(s, pkt.mid, pkt.code) ELSE s)
      BY <1>4 DEF RecvAck
    <2>2. PICK u : SetSession(p, u) /\ Relaxes(s, u)
      BY <1>0, <2>1, HandleAckRelaxes, SameExchangesRelax
    <2>3. UNCHANGED <<transmissions, caller, outbound_requests>>
      BY <1>4 DEF RecvAck, clientVars, historyVars
    <2> QED
      BY <2>2, <2>3, SetSessionCounts DEF NoNewTimeout
  <1>5. CASE RecvPiggybacked(p, pkt)
    <2>1. PICK s \in SessionEntry(p) :
            /\ SetSession(p, RemoveExchanges(handle_ack(s, pkt.mid, pkt.code), TokenOf(s, pkt.mid)))
            /\ \E told : caller' = Tell(told, [kind |-> "Response", payload |-> pkt.payload])
      BY <1>5 DEF RecvPiggybacked
    <2> DEFINE a == handle_ack(s, pkt.mid, pkt.code)
    <2>2. IsSession(a) /\ Relaxes(s, a)
      BY <1>0, HandleAckType, HandleAckRelaxes
    <2> HIDE DEF a
    <2>3. PICK u : SetSession(p, u) /\ Relaxes(s, u)
      BY <2>1, <2>2, RemoveExchangesRelaxes, RelaxesTransitive DEF a
    <2>4. NoNewTimeout
      BY <2>1, TellNoTimeout
    <2>5. UNCHANGED <<transmissions, outbound_requests>>
      BY <1>5 DEF RecvPiggybacked, historyVars
    <2> QED
      BY <2>3, <2>4, <2>5, SetSessionCounts
  <1>6. CASE RecvReset(p, pkt)
    <2>1. PICK s \in SessionEntry(p) :
            /\ SetSession(p, handle_rst(s, pkt.mid))
            /\ caller' = Tell(ResetCallers(s, pkt.mid), [kind |-> "Reset"])
      BY <1>6 DEF RecvReset
    <2>2. NoNewTimeout
      BY <2>1, TellNoTimeout
    <2>3. UNCHANGED <<transmissions, outbound_requests>>
      BY <1>6 DEF RecvReset, historyVars
    <2> QED
      BY <1>0, <2>1, <2>2, <2>3, HandleRstRelaxes, SetSessionCounts
  <1> QED
    BY <1>1, <1>2, <1>3, <1>4, <1>5, <1>6 DEF RecvPacket

\* A request that is sent for the first time was neither open nor given up.
LEMMA OutboundRequestCounts ==
  ASSUME TypeOK, CallerInv, CountInv, OutboundRequest
  PROVE  CountInv'
  <1>1. PICK r \in Requests, p \in Peers : \E s \in SessionEntry(p), e \in Exchanges : \E u, token :
           /\ r = Head(outbound_requests).request
           /\ e.response_tx = r
           /\ IF r \in ConRequests
              THEN e.expires_at = None /\ e.retransmit.retransmit_count = 0
              ELSE e.retransmit = None
           /\ token = s.token_allocator.next
           /\ u.exchanges = Insert(s.exchanges, token, e)
           /\ SetSession(p, u)
           /\ caller' = Tell(Dropped(s, token), [kind |-> "ChannelClosed"])
           /\ transmissions' = [transmissions EXCEPT ![r] = 1]
    BY RequestRegistered
  <1>2. PICK s \in SessionEntry(p), e \in Exchanges : \E u, token :
           /\ r = Head(outbound_requests).request
           /\ e.response_tx = r
           /\ IF r \in ConRequests
              THEN e.expires_at = None /\ e.retransmit.retransmit_count = 0
              ELSE e.retransmit = None
           /\ u.exchanges = Insert(s.exchanges, token, e)
           /\ SetSession(p, u)
           /\ caller' = Tell(Dropped(s, token), [kind |-> "ChannelClosed"])
           /\ transmissions' = [transmissions EXCEPT ![r] = 1]
    BY <1>1
  <1>u. PICK u, token :
           /\ r = Head(outbound_requests).request
           /\ e.response_tx = r
           /\ IF r \in ConRequests
              THEN e.expires_at = None /\ e.retransmit.retransmit_count = 0
              ELSE e.retransmit = None
           /\ u.exchanges = Insert(s.exchanges, token, e)
           /\ SetSession(p, u)
           /\ caller' = Tell(Dropped(s, token), [kind |-> "ChannelClosed"])
           /\ transmissions' = [transmissions EXCEPT ![r] = 1]
    BY <1>2
  <1>3. /\ Queued(r) /\ ~ Held(r)
        /\ \A x : Queued(x)' => Queued(x)
    BY <1>u, HeadOfQueue DEF OutboundRequest
  <1>4. /\ transmissions'[r] = 1
        /\ \A x \in Requests : x # r => transmissions'[x] = transmissions[x]
    BY <1>u DEF TypeOK
  <1>5. NoNewTimeout
    BY <1>u, TellNoTimeout
  <1>6. ASSUME NEW x \in DOMAIN sessions', NEW t \in DOMAIN sessions'[x].exchanges
        PROVE  LET f == sessions'[x].exchanges[t]
               IN  f = e \/ (Holds(f.response_tx, x, t) /\ f = sessions[x].exchanges[t])
    <2>1. /\ DOMAIN sessions' = DOMAIN sessions \cup {p}
          /\ sessions'[p] = u
          /\ \A y \in DOMAIN sessions : y # p => sessions'[y] = sessions[y]
      BY <1>u DEF SetSession, Insert
    <2>2. /\ p \notin DOMAIN sessions => DOMAIN s.exchanges = {}
          /\ p \in DOMAIN sessions => s = sessions[p]
      BY DEF SessionEntry, NewSession, EmptyMap
    <2>3. /\ DOMAIN u.exchanges = DOMAIN s.exchanges \cup {token}
          /\ u.exchanges[token] = e
          /\ \A y \in DOMAIN s.exchanges : y # token => u.exchanges[y] = s.exchanges[y]
      BY <1>u DEF Insert
    <2>4. CASE x = p
      BY <2>1, <2>2, <2>3, <2>4 DEF Holds
    <2>5. CASE x # p
      BY <2>1, <2>5 DEF Holds
    <2> QED
      BY <2>4, <2>5
  <1>7. ExchangesCounted'
    <2> SUFFICES ASSUME NEW x \in DOMAIN sessions', NEW t \in DOMAIN sessions'[x].exchanges
                 PROVE  Counted(sessions'[x].exchanges[t],
                                transmissions'[sessions'[x].exchanges[t].response_tx])
      BY DEF ExchangesCounted
    <2>1. CASE sessions'[x].exchanges[t] = e
      BY <1>u, <1>4, <2>1 DEF Counted
    <2>2. PICK f : f = sessions'[x].exchanges[t]
      OBVIOUS
    <2>3. CASE Holds(f.response_tx, x, t) /\ f = sessions[x].exchanges[t]
      <3>1. f.response_tx # r
        BY <1>3, <2>3 DEF Held
      <3>2. f.response_tx \in Requests
        BY <2>3 DEF Holds, TypeOK, SessionsOK, IsSession, IsMap, Exchanges
      <3>3. Counted(f, transmissions[f.response_tx])
        BY <2>3 DEF Holds, CountInv, ExchangesCounted
      <3> QED
        BY <1>4, <2>2, <3>1, <3>2, <3>3
    <2> QED
      BY <1>6, <2>1, <2>2, <2>3
  <1>8. ASSUME NEW x \in Requests, caller'[x].kind = "Timeout"
        PROVE  /\ x # r /\ caller'[x] = caller[x]
               /\ ~ Queued(x)' /\ ~ Held(x)'
    <2>1. caller'[x] = caller[x]
      BY <1>5, <1>8 DEF NoNewTimeout
    <2>2. ~ Queued(x) /\ ~ Held(x)
      BY <1>8, <2>1 DEF CountInv, TimedOutNowhere
    <2>3. x # r
      BY <1>3, <2>2
    <2>4. ~ Held(x)'
      <3> SUFFICES ASSUME NEW y, NEW t, Holds(x, y, t)' PROVE FALSE
        BY DEF Held
      <3>1. /\ y \in DOMAIN sessions' /\ t \in DOMAIN sessions'[y].exchanges
            /\ sessions'[y].exchanges[t].response_tx = x
        BY DEF Holds
      <3>2. Holds(x, y, t)
        BY <1>u, <1>6, <2>3, <3>1
      <3> QED
        BY <2>2, <3>2 DEF Held
    <2> QED
      BY <1>3, <2>1, <2>2, <2>3, <2>4
  <1>9. TimedOutNowhere'
    BY <1>8 DEF TimedOutNowhere
  <1>10. TimeoutReportsRetransmissions'
    BY <1>4, <1>8 DEF CountInv, TimeoutReportsRetransmissions
  <1> QED
    BY <1>7, <1>9, <1>10 DEF CountInv

LEMMA OutboundRequestUnencodableCounts ==
  ASSUME TypeOK, CallerInv, CountInv, OutboundRequestUnencodable
  PROVE  CountInv'
  <1>r. PICK r : r = Head(outbound_requests).request
    OBVIOUS
  <1>p. PICK p : p = Head(outbound_requests).peer
    OBVIOUS
  <1>1. /\ outbound_requests # << >>
        /\ outbound_requests' = Tail(outbound_requests)
        /\ caller' = Tell({r}, [kind |-> "ChannelClosed"])
        /\ UNCHANGED transmissions
    BY <1>r DEF OutboundRequestUnencodable, historyVars
  <1>2. \A x : Queued(x)' => Queued(x)
    BY <1>r, <1>1, HeadOfQueue
  <1>3. p \in Peers
    <2>1. Head(outbound_requests) \in [request : Requests, peer : Peers]
      BY <1>1, HeadTailProperties DEF TypeOK
    <2> QED
      BY <2>1, <1>p
  <1>4. PICK s \in SessionEntry(p) : SetSession(p, allocate_mid(allocate_token(s)))
    BY <1>p DEF OutboundRequestUnencodable
  <1>5. PICK u : SetSession(p, u) /\ u.exchanges = s.exchanges
    <2>1. IsSession(s)
      BY <1>3, SessionEntryType DEF TypeOK
    <2> QED
      BY <1>4, <2>1, AllocateTokenType, ExchangesKept
  <1>6. NoNewTimeout
    BY <1>1, TellNoTimeout
  <1>7. \A x \in DOMAIN sessions' : \A t \in DOMAIN sessions'[x].exchanges :
          /\ x \in DOMAIN sessions /\ t \in DOMAIN sessions[x].exchanges
          /\ Relaxed(sessions[x].exchanges[t], sessions'[x].exchanges[t])
    BY <1>5 DEF SetSession, Insert, SessionEntry, NewSession, EmptyMap, Relaxed
  <1> QED
    BY <1>1, <1>2, <1>6, <1>7, CountStep DEF NoNewTimeout

LEMMA OutboundResponseCounts ==
  ASSUME TypeOK, CountInv, NEW encodable \in BOOLEAN, OutboundResponse(encodable)
  PROVE  CountInv'
  <1> USE DEF TypeOK
  <1> DEFINE request == Head(server_responses).request
             p == Head(server_responses).peer
  <1>1. Head(server_responses) \in ServerMessages
    BY HeadTailProperties DEF OutboundResponse
  <1>2. p \in Peers
    BY <1>1 DEF ServerMessages
  <1>3. UNCHANGED <<caller, outbound_requests, transmissions>>
    BY DEF OutboundResponse, clientVars, historyVars
  <1>4. PICK s \in SessionEntry(p) :
           LET taken == take_inbound_con_mid(s, request.token) IN
           \/ \E mid, packet : SetSession(p, cache_response_for_mid(taken, mid, packet))
           \/ SetSession(p, taken)
           \/ SetSession(p, allocate_mid(s))
    BY DEF OutboundResponse
  <1> DEFINE taken == take_inbound_con_mid(s, request.token)
  <1>5. PICK u : SetSession(p, u) /\ u.exchanges = s.exchanges
    <2>1. IsSession(s) /\ IsSession(taken)
      BY <1>2, SessionEntryType, TakeInboundConType
    <2>2. taken.exchanges = s.exchanges /\ allocate_mid(s).exchanges = s.exchanges
      BY <2>1, ExchangesKept
    <2> HIDE DEF taken
    <2>3. \A mid, packet : cache_response_for_mid(taken, mid, packet).exchanges = s.exchanges
      BY <2>1, <2>2, ExchangesKept
    <2> QED
      BY <1>4, <2>2, <2>3 DEF taken
  <1> HIDE DEF p
  <1> QED
    BY <1>3, <1>5, SameExchangesRelax, SetSessionCounts DEF NoNewTimeout

\* What is left of a session's exchanges after a run of the timer.
LEMMA TimerWorkExchanges ==
  ASSUME NEW s, IsSession(s)
  PROVE  LET u == TimerWork(s)
         IN  /\ DOMAIN u.exchanges = DOMAIN s.exchanges \ ExpiredTokens(s)
             /\ \A t \in DOMAIN u.exchanges :
                  u.exchanges[t] = IF t \in ResendTokens(s)
                                   THEN advance_retransmit(s.exchanges[t])
                                   ELSE s.exchanges[t]
  <1> DEFINE x == [t \in DOMAIN s.exchanges |-> IF t \in ResendTokens(s)
                                               THEN advance_retransmit(s.exchanges[t])
                                               ELSE s.exchanges[t]]
             a == AdvanceDue(s)
             u == RemoveExchanges(a, ExpiredTokens(s))
  <1>1. a = [s EXCEPT !.exchanges = x]
    BY DEF AdvanceDue
  <1>2. IsSession(a)
    BY AdvanceDueType
  <1> HIDE DEF a, x
  <1>3. a.exchanges = x
    BY <1>1 DEF IsSession
  <1>4. /\ IsSession(u)
        /\ DOMAIN u.exchanges = DOMAIN a.exchanges \ ExpiredTokens(s)
        /\ \A t \in DOMAIN u.exchanges : u.exchanges[t] = a.exchanges[t]
    BY <1>2, RemoveExchangesKeeps, RemoveExchangesType
  <1> HIDE DEF u
  <1>5. TimerWork(s).exchanges = u.exchanges
    BY <1>4, ExchangesKept DEF TimerWork, collect_retransmissions, u, a
  <1> QED
    BY <1>3, <1>4, <1>5 DEF x

\* A resend counts one transmission; an exchange that is not resent keeps its
\* count.
LEMMA ResentCounted ==
  ASSUME NEW s, IsSession(s), NEW t \in ResendTokens(s), NEW n \in Nat,
         Counted(s.exchanges[t], n)
  PROVE  /\ Counted(advance_retransmit(s.exchanges[t]), n + 1)
         /\ advance_retransmit(s.exchanges[t]).response_tx = s.exchanges[t].response_tx
  <1>e. PICK e : e = s.exchanges[t]
    OBVIOUS
  <1>1. e \in Exchanges /\ e.retransmit # None
    BY <1>e DEF ResendTokens, DueTokens, needs_retransmit, IsSession, IsMap
  <1>2. e.retransmit \in RetransmitStates
    BY <1>1 DEF Exchanges
  <1>a. PICK a : a = Advance(e.retransmit)
    OBVIOUS
  <1>3. a.retransmit_count = e.retransmit.retransmit_count + 1
    BY <1>2, <1>a DEF Advance, RetransmitStates
  <1>f. PICK f : f = advance_retransmit(e)
    OBVIOUS
  <1>4. f.response_tx = e.response_tx /\ f.expires_at = e.expires_at /\ f.retransmit = a
    BY <1>1, <1>a, <1>f DEF advance_retransmit, Exchanges
  <1>5. e.retransmit.retransmit_count \in Nat
    BY <1>2 DEF RetransmitStates
  <1>6. e.response_tx \in ConRequests /\ e.expires_at = None
        /\ n = e.retransmit.retransmit_count + 1
    BY <1>1, <1>e DEF Counted
  <1>7. Counted(f, n + 1)
    BY <1>3, <1>4, <1>5, <1>6 DEF Counted
  <1> QED
    BY <1>e, <1>f, <1>4, <1>7

\* An exchange that the timer ends was sent once more than its caller is told.
LEMMA ExpiredCounted ==
  ASSUME NEW s, IsSession(s), NEW t \in ExpiredTokens(s), NEW n, Counted(s.exchanges[t], n)
  PROVE  /\ t \in DOMAIN s.exchanges /\ t \notin ResendTokens(s)
         /\ retransmit_count(s.exchanges[t])
              = IF s.exchanges[t].response_tx \in ConRequests THEN MAX_RETRANSMIT ELSE 0
         /\ n = retransmit_count(s.exchanges[t]) + 1
  <1>e. PICK e : e = s.exchanges[t]
    OBVIOUS
  <1>1. t \in DOMAIN s.exchanges /\ t \notin ResendTokens(s)
    BY DEF ExpiredTokens, ResendTokens, DueTokens
  <1>2. e \in Exchanges
    BY <1>e, <1>1 DEF IsSession, IsMap
  <1>3. CASE e.response_tx \in ConRequests
    <2>1. e.expires_at = None
      BY <1>e, <1>3 DEF Counted
    <2>2. t \in DueTokens(s) /\ t \notin ResendTokens(s)
      BY <1>e, <2>1 DEF ExpiredTokens, is_expired
    <2>3. e.retransmit # None /\ ~ CanAdvance(e.retransmit)
      BY <1>e, <2>2 DEF ResendTokens, DueTokens, needs_retransmit
    <2>4. e.retransmit \in RetransmitStates
      BY <1>2, <2>3 DEF Exchanges
    <2>5. e.retransmit.retransmit_count = MAX_RETRANSMIT
      BY <2>3, <2>4, TimingAssumption DEF CanAdvance, RetransmitStates
    <2>6. n = e.retransmit.retransmit_count + 1
      BY <1>e, <1>3, <2>3 DEF Counted
    <2> QED
      BY <1>1, <1>e, <1>3, <2>3, <2>5, <2>6 DEF retransmit_count
  <1>4. CASE e.response_tx \notin ConRequests
    <2>1. e.retransmit = None /\ n = 1
      BY <1>e, <1>4 DEF Counted
    <2> QED
      BY <1>1, <1>e, <1>4, <2>1 DEF retransmit_count
  <1> QED
    BY <1>3, <1>4

Resent(r) ==
  \E p \in DOMAIN sessions : \E t \in ResendTokens(sessions[p]) :
    sessions[p].exchanges[t].response_tx = r

\* Every sender is in one place, so a run of the timer sends a request once or
\* not at all, and none that it gives up.
LEMMA RetransmissionTimerCounts ==
  ASSUME TypeOK, CallerInv, CountInv, RetransmissionTimer
  PROVE  CountInv'
  <1>1. ASSUME NEW p \in DOMAIN sessions
        PROVE  /\ IsSession(sessions[p])
               /\ \A t \in DOMAIN sessions[p].exchanges :
                    /\ sessions[p].exchanges[t].response_tx \in Requests
                    /\ Counted(sessions[p].exchanges[t],
                               transmissions[sessions[p].exchanges[t].response_tx])
               /\ ResendTokens(sessions[p]) \subseteq DOMAIN sessions[p].exchanges
    <2>1. IsSession(sessions[p])
      BY DEF TypeOK, SessionsOK
    <2>2. \A t \in DOMAIN sessions[p].exchanges : sessions[p].exchanges[t].response_tx \in Requests
      BY <2>1 DEF IsSession, IsMap, Exchanges
    <2> QED
      BY <2>1, <2>2 DEF CountInv, ExchangesCounted, ResendTokens, DueTokens
  <1>2. /\ DOMAIN sessions' = DOMAIN sessions
        /\ \A p \in DOMAIN sessions : sessions'[p] = TimerWork(sessions[p])
        /\ UNCHANGED outbound_requests
    BY DEF RetransmissionTimer
  <1>3. \A r \in Requests : transmissions'[r] = IF Resent(r) THEN transmissions[r] + 1
                                                ELSE transmissions[r]
    BY DEF RetransmissionTimer, Resent
  <1>4. \A r \in Requests : transmissions[r] \in Nat
    BY DEF TypeOK
  <1>5. ASSUME NEW p \in DOMAIN sessions, NEW t \in DOMAIN sessions[p].exchanges
        PROVE  Resent(sessions[p].exchanges[t].response_tx) <=> t \in ResendTokens(sessions[p])
    <2>r. PICK r : r = sessions[p].exchanges[t].response_tx
      OBVIOUS
    <2>1. r \in Requests /\ Holds(r, p, t)
      BY <1>1, <2>r DEF Holds
    <2>2. ASSUME NEW p2 \in DOMAIN sessions, NEW t2 \in ResendTokens(sessions[p2]),
                 sessions[p2].exchanges[t2].response_tx = r
          PROVE  p2 = p /\ t2 = t
      <3>1. Holds(r, p2, t2)
        BY <1>1, <2>2 DEF Holds
      <3> QED
        BY <2>1, <3>1 DEF CallerInv, HeldOnce
    <2> QED
      BY <2>r, <2>2 DEF Resent
  <1>6. ASSUME NEW p \in DOMAIN sessions', NEW t \in DOMAIN sessions'[p].exchanges
        PROVE  /\ p \in DOMAIN sessions
               /\ t \in DOMAIN sessions[p].exchanges \ ExpiredTokens(sessions[p])
               /\ sessions'[p].exchanges[t].response_tx = sessions[p].exchanges[t].response_tx
               /\ Counted(sessions'[p].exchanges[t],
                          transmissions'[sessions'[p].exchanges[t].response_tx])
    <2>1. p \in DOMAIN sessions
      BY <1>2
    <2>2. /\ t \in DOMAIN sessions[p].exchanges \ ExpiredTokens(sessions[p])
          /\ sessions'[p].exchanges[t] = IF t \in ResendTokens(sessions[p])
                                         THEN advance_retransmit(sessions[p].exchanges[t])
                                         ELSE sessions[p].exchanges[t]
      BY <1>1, <1>2, <2>1, TimerWorkExchanges
    <2>r. PICK r : r = sessions[p].exchanges[t].response_tx
      OBVIOUS
    <2>3. r \in Requests /\ Counted(sessions[p].exchanges[t], transmissions[r])
      BY <1>1, <2>1, <2>2, <2>r
    <2>4. Resent(r) <=> t \in ResendTokens(sessions[p])
      BY <1>5, <2>1, <2>2, <2>r
    <2>5. CASE t \in ResendTokens(sessions[p])
      <3>1. /\ Counted(advance_retransmit(sessions[p].exchanges[t]), transmissions[r] + 1)
            /\ advance_retransmit(sessions[p].exchanges[t]).response_tx = r
        BY <1>1, <1>4, <2>1, <2>3, <2>5, <2>r, ResentCounted
      <3>2. transmissions'[r] = transmissions[r] + 1
        BY <1>3, <2>3, <2>4, <2>5
      <3> QED
        BY <2>1, <2>2, <2>5, <2>r, <3>1, <3>2
    <2>6. CASE t \notin ResendTokens(sessions[p])
      <3>1. transmissions'[r] = transmissions[r]
        BY <1>3, <2>3, <2>4, <2>6
      <3> QED
        BY <2>1, <2>2, <2>3, <2>6, <2>r, <3>1
    <2> QED
      BY <2>5, <2>6
  <1>7. ExchangesCounted'
    BY <1>6 DEF ExchangesCounted
  <1>8. ASSUME NEW r, NEW p, NEW t, Holds(r, p, t)'
        PROVE  Holds(r, p, t) /\ t \notin ExpiredTokens(sessions[p])
    <2>1. /\ p \in DOMAIN sessions' /\ t \in DOMAIN sessions'[p].exchanges
          /\ sessions'[p].exchanges[t].response_tx = r
      BY <1>8 DEF Holds
    <2> QED
      BY <1>6, <2>1 DEF Holds
  <1>9. \A r : Queued(r)' <=> Queued(r)
    BY <1>2 DEF Queued
  <1>10. ASSUME NEW r \in Requests, caller'[r].kind = "Timeout"
         PROVE  /\ ~ Queued(r)' /\ ~ Held(r)'
                /\ caller'[r].retransmits = IF r \in ConRequests THEN MAX_RETRANSMIT ELSE 0
                /\ transmissions'[r] = caller'[r].retransmits + 1
    <2>1. CASE caller'[r] = caller[r]
      <3>1. ~ Queued(r) /\ ~ Held(r)
        BY <1>10, <2>1 DEF CountInv, TimedOutNowhere
      <3>2. ~ Resent(r)
        BY <1>1, <3>1 DEF Resent, Held, Holds
      <3>3. ~ Held(r)'
        BY <1>8, <3>1 DEF Held
      <3> QED
        BY <1>3, <1>9, <1>10, <2>1, <3>1, <3>2, <3>3 DEF CountInv, TimeoutReportsRetransmissions
    <2>2. CASE caller'[r] # caller[r]
      <3>1. PICK failed : /\ failed = UNION {TimedOut(sessions[p]) : p \in DOMAIN sessions}
                          /\ caller' = [x \in Requests |->
                               IF caller[x] = Waiting /\ \E y \in failed : y.request = x
                               THEN [kind |-> "Timeout",
                                     retransmits |-> (CHOOSE y \in failed : y.request = x).retransmits]
                               ELSE caller[x]]
        BY DEF RetransmissionTimer
      <3>2. \E y \in failed : y.request = r
        BY <2>2, <3>1
      <3>3. PICK y \in failed : y.request = r /\ caller'[r].retransmits = y.retransmits
        <4>1. PICK y : y = CHOOSE z \in failed : z.request = r
          OBVIOUS
        <4>2. y \in failed /\ y.request = r
          BY <3>2, <4>1
        <4>3. caller'[r] = [kind |-> "Timeout", retransmits |-> y.retransmits]
          BY <2>2, <3>1, <4>1
        <4> QED
          BY <4>2, <4>3
      <3>4. PICK p \in DOMAIN sessions : y \in TimedOut(sessions[p])
        BY <3>1
      <3>5. PICK t \in ExpiredTokens(sessions[p]) :
              /\ r = sessions[p].exchanges[t].response_tx
              /\ y.retransmits = retransmit_count(sessions[p].exchanges[t])
        BY <3>3, <3>4 DEF TimedOut
      <3>6. t \in DOMAIN sessions[p].exchanges
        BY DEF ExpiredTokens, ResendTokens, DueTokens
      <3>7. /\ t \notin ResendTokens(sessions[p])
            /\ y.retransmits = IF r \in ConRequests THEN MAX_RETRANSMIT ELSE 0
            /\ transmissions[r] = y.retransmits + 1
        BY <1>1, <3>5, <3>6, ExpiredCounted
      <3>8. ~ Resent(r)
        BY <1>5, <3>5, <3>6, <3>7
      <3>9. Holds(r, p, t)
        BY <3>5, <3>6 DEF Holds
      <3>10. ~ Queued(r)'
        BY <1>9, <3>9 DEF CallerInv, QueuedOrHeld, Held
      <3>11. ~ Held(r)'
        BY <1>8, <3>9 DEF CallerInv, HeldOnce, Held
      <3> QED
        BY <1>3, <3>3, <3>7, <3>8, <3>10, <3>11
    <2> QED
      BY <2>1, <2>2
  <1> QED
    BY <1>7, <1>10 DEF CountInv, TimedOutNowhere, TimeoutReportsRetransmissions

\* Only a request that was never sent enters the channel.
LEMMA SendRequestCounts ==
  ASSUME TypeOK, CountInv, NEW r \in Requests, NEW p \in Peers, SendRequest(r, p)
  PROVE  CountInv'
  <1>1. UNCHANGED <<sessions, transmissions>>
    BY DEF SendRequest, taskVars, historyVars
  <1>2. /\ caller'[r].kind # "Timeout"
        /\ \A x \in Requests : x # r => caller'[x] = caller[x]
    BY DEF SendRequest, TypeOK, Waiting
  <1>3. ASSUME NEW x, x # r, Queued(x)' PROVE Queued(x)
    <2>1. CASE outbound_requests' = Append(outbound_requests, [request |-> r, peer |-> p])
      BY <1>3, <2>1 DEF Queued, TypeOK
    <2>2. CASE outbound_requests' = outbound_requests
      BY <1>3, <2>2 DEF Queued
    <2> QED
      BY <2>1, <2>2 DEF SendRequest
  <1> QED
    BY <1>1, <1>2, <1>3, CountStep DEF Relaxed

\* The other steps do no more to exchanges than end them or let time pass.
LEMMA RemainingCounts ==
  ASSUME TypeOK, CountInv,
         \/ CleanupTimer \/ StackReturns \/ ServerHandle \/ Tick \/ UNCHANGED vars
         \/ \E r \in Requests : ClientTimeout(r)
  PROVE  CountInv'
  <1>1. UNCHANGED transmissions
    BY DEF CleanupTimer, StackReturns, ServerHandle, Tick, ClientTimeout, vars, historyVars
  <1>2. NoNewTimeout
    <2>1. CASE StackReturns
      BY <2>1, TellNoTimeout DEF StackReturns
    <2>2. CASE \E r \in Requests : ClientTimeout(r)
      BY <2>2 DEF ClientTimeout, NoNewTimeout, TypeOK
    <2>3. CASE CleanupTimer \/ ServerHandle \/ Tick \/ UNCHANGED vars
      BY <2>3 DEF CleanupTimer, ServerHandle, Tick, vars, clientVars, NoNewTimeout
    <2> QED
      BY <2>1, <2>2, <2>3
  <1>3. \A r : Queued(r)' => Queued(r)
    <2>1. CASE StackReturns
      BY <2>1 DEF StackReturns, Queued
    <2>2. CASE ~ StackReturns
      BY <2>2 DEF CleanupTimer, ServerHandle, Tick, ClientTimeout, vars, clientVars, Queued
    <2> QED
      BY <2>1, <2>2
  <1>4. \A p \in DOMAIN sessions' : \A t \in DOMAIN sessions'[p].exchanges :
          /\ p \in DOMAIN sessions /\ t \in DOMAIN sessions[p].exchanges
          /\ Relaxed(sessions[p].exchanges[t], sessions'[p].exchanges[t])
    <2>1. CASE StackReturns
      BY <2>1 DEF StackReturns, EmptyMap
    <2>2. CASE CleanupTimer
      BY <2>2 DEF CleanupTimer, Restrict, Relaxed
    <2>3. CASE Tick
      <3>1. \A p \in DOMAIN sessions : Relaxes(sessions[p], AgeSession(sessions[p]))
        BY AgeSessionRelaxes DEF TypeOK, SessionsOK
      <3>2. sessions' = [p \in DOMAIN sessions |-> AgeSession(sessions[p])]
        BY <2>3 DEF Tick
      <3> QED
        BY <3>1, <3>2 DEF Relaxes
    <2>4. CASE UNCHANGED sessions
      BY <2>4 DEF Relaxed
    <2> QED
      BY <2>1, <2>2, <2>3, <2>4 DEF ServerHandle, ClientTimeout, vars, taskVars
  <1> QED
    BY <1>1, <1>2, <1>3, <1>4, CountStep DEF NoNewTimeout

LEMMA NextCounts == TypeOK /\ CallerInv /\ CountInv /\ [Next]_vars => CountInv'
  <1> SUFFICES ASSUME TypeOK, CallerInv, CountInv, [Next]_vars PROVE CountInv'
    OBVIOUS
  <1>1. CASE \E p \in Peers, pkt \in InboundPackets : RecvPacket(p, pkt)
    BY <1>1, RecvPacketCounts
  <1>2. CASE OutboundRequest
    BY <1>2, OutboundRequestCounts
  <1>3. CASE OutboundRequestUnencodable
    BY <1>3, OutboundRequestUnencodableCounts
  <1>4. CASE \E ok \in BOOLEAN : OutboundResponse(ok)
    BY <1>4, OutboundResponseCounts
  <1>5. CASE RetransmissionTimer
    BY <1>5, RetransmissionTimerCounts
  <1>6. CASE \E r \in Requests, p \in Peers : SendRequest(r, p)
    BY <1>6, SendRequestCounts
  <1>7. CASE \/ CleanupTimer \/ StackReturns \/ ServerHandle \/ Tick \/ UNCHANGED vars
             \/ \E r \in Requests : ClientTimeout(r)
    BY <1>7, RemainingCounts
  <1> QED
    BY <1>1, <1>2, <1>3, <1>4, <1>5, <1>6, <1>7 DEF Next

\* A caller told that its request timed out is told the truth about how often
\* it was sent: MAX_RETRANSMIT retransmissions and one more transmission for a
\* confirmable request, a single transmission for the others, whatever tokens
\* and message IDs were reused meanwhile.
THEOREM TimeoutCorrect == Spec => []TimeoutReportsRetransmissions
  <1>1. Init => CountInv
    BY DEF Init, CountInv, ExchangesCounted, TimedOutNowhere, TimeoutReportsRetransmissions,
           EmptyMap, Idle
  <1>2. CountInv => TimeoutReportsRetransmissions
    BY DEF CountInv
  <1> QED
    BY <1>1, <1>2, InitCallers, NextCallers, NextCounts, TypeCorrect, PTL DEF Spec

=============================================================================
