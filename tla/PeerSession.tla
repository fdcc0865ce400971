---------------------------- MODULE PeerSession ----------------------------
(***************************************************************************)
(* transport/session.rs: everything the stack keeps about one peer, and    *)
(* each method of PeerSession as an operator from the session before the   *)
(* call to the session after it.  What a method hands back to its caller   *)
(* (a packet to send, a caller to notify) is an operator of its own.       *)
(***************************************************************************)
EXTENDS Exchange

IsSession(s) ==
  /\ s = [exchanges        |-> s.exchanges,
          mid_to_token     |-> s.mid_to_token,
          mid_allocator    |-> s.mid_allocator,
          token_allocator  |-> s.token_allocator,
          inbound_dedup    |-> s.inbound_dedup,
          inbound_con_mids |-> s.inbound_con_mids]
  /\ IsMap(s.exchanges, Tokens, Exchanges)
  /\ IsMap(s.mid_to_token, MIDs, Tokens)
  /\ s.mid_allocator \in Allocators(MID_MODULUS)
  /\ s.token_allocator \in Allocators(TOKEN_MODULUS)
  /\ IsMap(s.inbound_dedup, MIDs, DedupEntries)
  /\ IsMap(s.inbound_con_mids, Tokens \cup {None}, MIDs)

NewSession(mid_start, token_start) ==
  [exchanges        |-> EmptyMap,
   mid_to_token     |-> EmptyMap,
   mid_allocator    |-> NewAllocator(mid_start),
   token_allocator  |-> NewAllocator(token_start),
   inbound_dedup    |-> EmptyMap,
   inbound_con_mids |-> EmptyMap]

\* Mutant: the duplicate table does not count as active state.
IdleDespiteDedup(s) ==
  DOMAIN s.exchanges = {} /\ DOMAIN s.mid_to_token = {} /\ DOMAIN s.inbound_con_mids = {}

is_idle(s) ==
  /\ DOMAIN s.exchanges = {}
  /\ DOMAIN s.mid_to_token = {}
  /\ DOMAIN s.inbound_dedup = {}
  /\ DOMAIN s.inbound_con_mids = {}
-----------------------------------------------------------------------------
(* Outbound requests. *)

allocate_mid(s) == [s EXCEPT !.mid_allocator = Allocate(@, MID_MODULUS)]

allocate_token(s) == [s EXCEPT !.token_allocator = Allocate(@, TOKEN_MODULUS)]

\* Inserting over an exchange that is still open drops that exchange and
\* with it the sender its caller waits on.
insert_exchange(s, token, e) == [s EXCEPT !.exchanges = Insert(@, token, e)]

insert_con_exchange(s, token, mid, e) ==
  [s EXCEPT !.mid_to_token = Insert(@, mid, token), !.exchanges = Insert(@, token, e)]

\* The callers whose exchange an insertion at token drops.
Dropped(s, token) ==
  IF token \in DOMAIN s.exchanges THEN {s.exchanges[token].response_tx} ELSE {}

\* Mutant: the MID index is not cleaned up.
RemoveExchangesOnly(s, T) == [s EXCEPT !.exchanges = RemoveAll(@, T)]

\* complete_exchange, and the removal that ends a timed-out exchange: the
\* exchanges of the tokens T go, and so do the MID entries of their messages.
RemoveExchanges(s, T) ==
  LET gone == T \cap DOMAIN s.exchanges
  IN  [s EXCEPT !.exchanges    = RemoveAll(@, gone),
                !.mid_to_token = RemoveAll(@, {s.exchanges[t].message_id : t \in gone})]

complete_exchange(s, token) == RemoveExchanges(s, {token})

\* The callers that complete_exchange hands the response to.
Completed(s, token) ==
  IF token \in DOMAIN s.exchanges THEN {s.exchanges[token].response_tx} ELSE {}
-----------------------------------------------------------------------------
(* Acknowledgements and resets, matched by message ID only. *)

\* The tokens (none or one) registered under an outbound message ID.
TokenOf(s, mid) == IF mid \in DOMAIN s.mid_to_token THEN {s.mid_to_token[mid]} ELSE {}

\* Mutants: an empty ACK does not stop the retransmission; a piggybacked
\* response already takes the exchange that it completes afterwards.
AckWithoutCancel(s, mid, code) == [s EXCEPT !.mid_to_token = RemoveAll(@, {mid})]
AckTakesExchange(s, mid, code) ==
  [s EXCEPT !.mid_to_token = RemoveAll(@, {mid}),
            !.exchanges    = IF code = "Response" THEN RemoveAll(@, TokenOf(s, mid)) ELSE @]

\* handle_ack: the MID entry goes; an empty ACK also stops retransmission.
handle_ack(s, mid, code) ==
  LET acked == TokenOf(s, mid) \cap DOMAIN s.exchanges
  IN  [s EXCEPT
         !.mid_to_token = RemoveAll(@, {mid}),
         !.exchanges = [t \in DOMAIN @ |-> IF code = "Empty" /\ t \in acked
                                           THEN cancel_retransmission(@[t])
                                           ELSE @[t]]]

\* handle_rst: the MID entry and the exchange go.
handle_rst(s, mid) ==
  [s EXCEPT !.mid_to_token = RemoveAll(@, {mid}),
            !.exchanges    = RemoveAll(@, TokenOf(s, mid))]

\* The callers that handle_rst fails with TransportError::Reset.
ResetCallers(s, mid) ==
  {s.exchanges[t].response_tx : t \in TokenOf(s, mid) \cap DOMAIN s.exchanges}
-----------------------------------------------------------------------------
(* Inbound messages: duplicate detection and deferred acknowledgements. *)

\* Mutant: a MID counts as seen only once a response is cached for it.
DuplicateIfAnswered(s, mid) ==
  mid \in DOMAIN s.inbound_dedup /\ s.inbound_dedup[mid].cached_response # None

is_duplicate(s, mid) == mid \in DOMAIN s.inbound_dedup

record_inbound_mid(s, mid) == [s EXCEPT !.inbound_dedup = Insert(@, mid, NewDedupEntry)]

cache_response_for_mid(s, mid, packet) ==
  IF mid \in DOMAIN s.inbound_dedup
  THEN [s EXCEPT !.inbound_dedup[mid].cached_response = packet]
  ELSE s

\* The packets (none or one) to send again for a duplicate of message mid.
get_cached_response(s, mid) ==
  {s.inbound_dedup[m].cached_response : m \in {mid} \cap DOMAIN s.inbound_dedup} \ {None}

record_inbound_con(s, token, mid) == [s EXCEPT !.inbound_con_mids = Insert(@, token, mid)]

take_inbound_con_mid(s, token) == [s EXCEPT !.inbound_con_mids = RemoveAll(@, {token})]
-----------------------------------------------------------------------------
(* Timers. *)

\* Exchanges of which collect_retransmissions finds the retransmission due.
DueTokens(s) == {t \in DOMAIN s.exchanges : needs_retransmit(s.exchanges[t])}

\* Of those, the ones to send again; the others have used up MAX_RETRANSMIT.
ResendTokens(s) == {t \in DueTokens(s) : CanAdvance(s.exchanges[t].retransmit)}

ExpiredTokens(s) ==
  (DueTokens(s) \ ResendTokens(s))
    \cup {t \in DOMAIN s.exchanges \ DueTokens(s) : is_expired(s.exchanges[t])}

AdvanceDue(s) ==
  [s EXCEPT !.exchanges =
     [t \in DOMAIN @ |-> IF t \in ResendTokens(s)
                         THEN advance_retransmit(@[t])
                         ELSE @[t]]]

collect_retransmissions(s) == RemoveExchanges(AdvanceDue(s), ExpiredTokens(s))

\* The packets collect_retransmissions returns for sending.
Retransmits(s) == {s.exchanges[t].retransmit.packet_bytes : t \in ResendTokens(s)}

\* The callers it fails, and the retransmission count each is told.
TimedOut(s) ==
  {[request |-> s.exchanges[t].response_tx,
    retransmits |-> retransmit_count(s.exchanges[t])] : t \in ExpiredTokens(s)}

evict_stale_dedup(s) ==
  [s EXCEPT !.inbound_dedup =
     RemoveAll(@, {m \in DOMAIN @ : @[m].age >= EXCHANGE_LIFETIME})]

\* The deadlines next_retransmit_deadline takes the minimum of.
Deadlines(s) == {deadline(s.exchanges[t]) : t \in DOMAIN s.exchanges} \ {None}

\* One tick of the clock.
AgeSession(s) ==
  [s EXCEPT
     !.exchanges     = [t \in DOMAIN @ |-> AgeExchange(@[t])],
     !.inbound_dedup = [m \in DOMAIN @ |-> AgeEntry(@[m])]]
=============================================================================
