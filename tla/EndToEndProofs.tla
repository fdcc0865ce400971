--------------------------- MODULE EndToEndProofs ---------------------------
(***************************************************************************)
(* Theorems about EndToEnd for any requests, any counters, any timing and  *)
(* any latency: the inductive invariant ConversationInv, and that the two  *)
(* stacks and the network implement RequestResponse.                       *)
(*                                                                         *)
(* For each action there are three lemmas: what it does to the stack that  *)
(* takes it (ClientReceives, ServerReceives, ...), what it does to the     *)
(* whole (CReceivesEffect, SReceivesEffect, ...), and what it keeps of the *)
(* invariant (ReceivesMessages, ReceivesPairing, ...).                     *)
(***************************************************************************)
EXTENDS EndToEndInvariant, PeerSessionProofs, SequenceTheorems

-----------------------------------------------------------------------------
(* The session of either host is the session of PeerSession: the instances *)
(* C and S give PeerSession's constants their own values.                  *)

\* The client's session.
LEMMA BridgeC ==
  /\ \A x, y, z : C!IsMap(x, y, z) <=> IsMap(x, y, z)
  /\ C!EmptyMap = EmptyMap
  /\ \A x, y, z : C!Insert(x, y, z) = Insert(x, y, z)
  /\ \A x, y : C!Restrict(x, y) = Restrict(x, y)
  /\ \A x, y : C!RemoveAll(x, y) = RemoveAll(x, y)
  /\ \A x : C!Range(x) = Range(x)
  /\ C!MIDs = MIDs
  /\ C!Tokens = Tokens
  /\ \A x : C!TickDown(x) = TickDown(x)
  /\ C!Packets = Packets
  /\ \A x : C!IsSession(x) <=> IsSession(x)
  /\ \A x, y : C!NewSession(x, y) = NewSession(x, y)
  /\ \A x : C!is_idle(x) <=> is_idle(x)
  /\ \A x : C!allocate_mid(x) = allocate_mid(x)
  /\ \A x : C!allocate_token(x) = allocate_token(x)
  /\ \A x, y, z : C!insert_exchange(x, y, z) = insert_exchange(x, y, z)
  /\ \A x, y, z, w : C!insert_con_exchange(x, y, z, w) = insert_con_exchange(x, y, z, w)
  /\ \A x, y : C!Dropped(x, y) = Dropped(x, y)
  /\ \A x, y : C!RemoveExchanges(x, y) = RemoveExchanges(x, y)
  /\ \A x, y : C!complete_exchange(x, y) = complete_exchange(x, y)
  /\ \A x, y : C!Completed(x, y) = Completed(x, y)
  /\ \A x, y : C!TokenOf(x, y) = TokenOf(x, y)
  /\ \A x, y, z : C!handle_ack(x, y, z) = handle_ack(x, y, z)
  /\ \A x, y : C!is_duplicate(x, y) <=> is_duplicate(x, y)
  /\ \A x, y : C!record_inbound_mid(x, y) = record_inbound_mid(x, y)
  /\ \A x, y, z : C!cache_response_for_mid(x, y, z) = cache_response_for_mid(x, y, z)
  /\ \A x, y : C!get_cached_response(x, y) = get_cached_response(x, y)
  /\ \A x, y, z : C!record_inbound_con(x, y, z) = record_inbound_con(x, y, z)
  /\ \A x, y : C!take_inbound_con_mid(x, y) = take_inbound_con_mid(x, y)
  /\ \A x : C!Deadlines(x) = Deadlines(x)
  /\ \A x : C!AgeSession(x) = AgeSession(x)
  /\ \A x, y, z, w : C!new_con(x, y, z, w) = new_con(x, y, z, w)
  /\ \A x : C!new_non(x) = new_non(x)
  /\ \A x : C!ResendTokens(x) = ResendTokens(x)
  /\ \A x : C!ExpiredTokens(x) = ExpiredTokens(x)
  /\ \A x : C!Retransmits(x) = Retransmits(x)
  /\ \A x : C!AdvanceDue(x) = AdvanceDue(x)
  /\ \A x : C!evict_stale_dedup(x) = evict_stale_dedup(x)
  /\ \A x : C!retransmit_count(x) = retransmit_count(x)
  <1>1. \A x, y, z : C!IsMap(x, y, z) <=> IsMap(x, y, z)
    BY DEF C!IsMap, IsMap
  <1>2. C!EmptyMap = EmptyMap
    BY DEF C!EmptyMap, EmptyMap
  <1>3. \A x, y, z : C!Insert(x, y, z) = Insert(x, y, z)
    BY DEF C!Insert, Insert
  <1>4. \A x, y : C!Restrict(x, y) = Restrict(x, y)
    BY DEF C!Restrict, Restrict
  <1>5. \A x, y : C!RemoveAll(x, y) = RemoveAll(x, y)
    BY DEF C!RemoveAll, RemoveAll, C!Restrict, Restrict
  <1>6. \A x : C!Range(x) = Range(x)
    BY DEF C!Range, Range
  <1>7. C!MIDs = MIDs
    BY DEF C!MIDs, MIDs
  <1>8. C!Tokens = Tokens
    BY DEF C!Tokens, Tokens
  <1>9. \A x : C!TickDown(x) = TickDown(x)
    BY DEF C!TickDown, TickDown
  <1>10. C!Packets = Packets
    BY DEF C!Packets, Packets, C!MIDs, MIDs, C!Tokens, Tokens, C!MessageTypes, MessageTypes,
       C!MessageClasses, MessageClasses
  <1>11. \A x : C!IsSession(x) <=> IsSession(x)
    BY DEF C!IsSession, IsSession, C!IsMap, IsMap, C!Tokens, Tokens, C!Exchanges, Exchanges,
       C!MIDs, MIDs, C!Allocators, Allocators, C!DedupEntries, DedupEntries, C!Packets, Packets,
       C!RetransmitStates, RetransmitStates, C!MessageTypes, MessageTypes, C!MessageClasses,
       MessageClasses
  <1>12. \A x, y : C!NewSession(x, y) = NewSession(x, y)
    BY DEF C!NewSession, NewSession, C!EmptyMap, EmptyMap, C!NewAllocator, NewAllocator
  <1>13. \A x : C!is_idle(x) <=> is_idle(x)
    BY DEF C!is_idle, is_idle
  <1>14. \A x : C!allocate_mid(x) = allocate_mid(x)
    BY DEF C!allocate_mid, allocate_mid, C!Allocate, Allocate
  <1>15. \A x : C!allocate_token(x) = allocate_token(x)
    BY DEF C!allocate_token, allocate_token, C!Allocate, Allocate
  <1>16. \A x, y, z : C!insert_exchange(x, y, z) = insert_exchange(x, y, z)
    BY DEF C!insert_exchange, insert_exchange, C!Insert, Insert
  <1>17. \A x, y, z, w : C!insert_con_exchange(x, y, z, w) = insert_con_exchange(x, y, z, w)
    BY DEF C!insert_con_exchange, insert_con_exchange, C!Insert, Insert
  <1>18. \A x, y : C!Dropped(x, y) = Dropped(x, y)
    BY DEF C!Dropped, Dropped
  <1>19. \A x, y : C!RemoveExchanges(x, y) = RemoveExchanges(x, y)
    BY DEF C!RemoveExchanges, RemoveExchanges, C!RemoveAll, RemoveAll, C!Restrict, Restrict
  <1>20. \A x, y : C!complete_exchange(x, y) = complete_exchange(x, y)
    BY DEF C!complete_exchange, complete_exchange, C!RemoveExchanges, RemoveExchanges,
       C!RemoveAll, RemoveAll, C!Restrict, Restrict
  <1>21. \A x, y : C!Completed(x, y) = Completed(x, y)
    BY DEF C!Completed, Completed
  <1>22. \A x, y : C!TokenOf(x, y) = TokenOf(x, y)
    BY DEF C!TokenOf, TokenOf
  <1>23. \A x, y, z : C!handle_ack(x, y, z) = handle_ack(x, y, z)
    BY DEF C!handle_ack, handle_ack, C!TokenOf, TokenOf, C!cancel_retransmission,
       cancel_retransmission, C!RemoveAll, RemoveAll, C!Restrict, Restrict
  <1>24. \A x, y : C!is_duplicate(x, y) <=> is_duplicate(x, y)
    BY DEF C!is_duplicate, is_duplicate
  <1>25. \A x, y : C!record_inbound_mid(x, y) = record_inbound_mid(x, y)
    BY DEF C!record_inbound_mid, record_inbound_mid, C!Insert, Insert, C!NewDedupEntry,
       NewDedupEntry
  <1>26. \A x, y, z : C!cache_response_for_mid(x, y, z) = cache_response_for_mid(x, y, z)
    BY DEF C!cache_response_for_mid, cache_response_for_mid
  <1>27. \A x, y : C!get_cached_response(x, y) = get_cached_response(x, y)
    BY DEF C!get_cached_response, get_cached_response
  <1>28. \A x, y, z : C!record_inbound_con(x, y, z) = record_inbound_con(x, y, z)
    BY DEF C!record_inbound_con, record_inbound_con, C!Insert, Insert
  <1>29. \A x, y : C!take_inbound_con_mid(x, y) = take_inbound_con_mid(x, y)
    BY DEF C!take_inbound_con_mid, take_inbound_con_mid, C!RemoveAll, RemoveAll, C!Restrict,
       Restrict
  <1>30. \A x : C!Deadlines(x) = Deadlines(x)
    BY DEF C!Deadlines, Deadlines, C!deadline, deadline
  <1>31. \A x : C!AgeSession(x) = AgeSession(x)
    BY DEF C!AgeSession, AgeSession, C!AgeExchange, AgeExchange, C!AgeRetransmit, AgeRetransmit,
       C!AgeEntry, AgeEntry, C!TickUp, TickUp, C!TickDown, TickDown
  <1>32. \A x, y, z, w : C!new_con(x, y, z, w) = new_con(x, y, z, w)
    BY DEF C!new_con, new_con, C!NewRetransmitState, NewRetransmitState
  <1>33. \A x : C!new_non(x) = new_non(x)
    BY DEF C!new_non, new_non
  <1>34. \A x : C!ResendTokens(x) = ResendTokens(x)
    BY DEF C!ResendTokens, ResendTokens, C!DueTokens, DueTokens, C!needs_retransmit,
       needs_retransmit, C!is_due, is_due, C!CanAdvance, CanAdvance
  <1>35. \A x : C!ExpiredTokens(x) = ExpiredTokens(x)
    BY DEF C!ExpiredTokens, ExpiredTokens, C!ResendTokens, ResendTokens, C!DueTokens, DueTokens,
       C!needs_retransmit, needs_retransmit, C!is_due, is_due, C!CanAdvance, CanAdvance,
       C!is_expired, is_expired
  <1>36. \A x : C!Retransmits(x) = Retransmits(x)
    BY DEF C!Retransmits, Retransmits, C!ResendTokens, ResendTokens, C!DueTokens, DueTokens,
       C!needs_retransmit, needs_retransmit, C!is_due, is_due, C!CanAdvance, CanAdvance
  <1>37. \A x : C!AdvanceDue(x) = AdvanceDue(x)
    BY DEF C!AdvanceDue, AdvanceDue, C!ResendTokens, ResendTokens, C!DueTokens, DueTokens,
       C!needs_retransmit, needs_retransmit, C!is_due, is_due, C!CanAdvance, CanAdvance,
       C!advance_retransmit, advance_retransmit, C!Advance, Advance
  <1>38. \A x : C!evict_stale_dedup(x) = evict_stale_dedup(x)
    BY DEF C!evict_stale_dedup, evict_stale_dedup, C!RemoveAll, RemoveAll, C!Restrict, Restrict
  <1>39. \A x : C!retransmit_count(x) = retransmit_count(x)
    BY DEF C!retransmit_count, retransmit_count
  <1> QED
    BY <1>1, <1>2, <1>3, <1>4, <1>5, <1>6, <1>7, <1>8, <1>9, <1>10, <1>11, <1>12, <1>13, <1>14,
       <1>15, <1>16, <1>17, <1>18, <1>19, <1>20, <1>21, <1>22, <1>23, <1>24, <1>25, <1>26,
       <1>27, <1>28, <1>29, <1>30, <1>31, <1>32, <1>33, <1>34, <1>35, <1>36, <1>37, <1>38, <1>39

\* The server's session.
LEMMA BridgeS ==
  /\ \A x, y, z : S!IsMap(x, y, z) <=> IsMap(x, y, z)
  /\ S!EmptyMap = EmptyMap
  /\ \A x, y, z : S!Insert(x, y, z) = Insert(x, y, z)
  /\ \A x, y : S!Restrict(x, y) = Restrict(x, y)
  /\ \A x, y : S!RemoveAll(x, y) = RemoveAll(x, y)
  /\ \A x : S!Range(x) = Range(x)
  /\ S!MIDs = MIDs
  /\ S!Tokens = Tokens
  /\ \A x : S!TickDown(x) = TickDown(x)
  /\ S!Packets = Packets
  /\ \A x : S!IsSession(x) <=> IsSession(x)
  /\ \A x, y : S!NewSession(x, y) = NewSession(x, y)
  /\ \A x : S!is_idle(x) <=> is_idle(x)
  /\ \A x : S!allocate_mid(x) = allocate_mid(x)
  /\ \A x : S!allocate_token(x) = allocate_token(x)
  /\ \A x, y, z : S!insert_exchange(x, y, z) = insert_exchange(x, y, z)
  /\ \A x, y, z, w : S!insert_con_exchange(x, y, z, w) = insert_con_exchange(x, y, z, w)
  /\ \A x, y : S!Dropped(x, y) = Dropped(x, y)
  /\ \A x, y : S!RemoveExchanges(x, y) = RemoveExchanges(x, y)
  /\ \A x, y : S!complete_exchange(x, y) = complete_exchange(x, y)
  /\ \A x, y : S!Completed(x, y) = Completed(x, y)
  /\ \A x, y : S!TokenOf(x, y) = TokenOf(x, y)
  /\ \A x, y, z : S!handle_ack(x, y, z) = handle_ack(x, y, z)
  /\ \A x, y : S!is_duplicate(x, y) <=> is_duplicate(x, y)
  /\ \A x, y : S!record_inbound_mid(x, y) = record_inbound_mid(x, y)
  /\ \A x, y, z : S!cache_response_for_mid(x, y, z) = cache_response_for_mid(x, y, z)
  /\ \A x, y : S!get_cached_response(x, y) = get_cached_response(x, y)
  /\ \A x, y, z : S!record_inbound_con(x, y, z) = record_inbound_con(x, y, z)
  /\ \A x, y : S!take_inbound_con_mid(x, y) = take_inbound_con_mid(x, y)
  /\ \A x : S!Deadlines(x) = Deadlines(x)
  /\ \A x : S!AgeSession(x) = AgeSession(x)
  /\ \A x, y, z, w : S!new_con(x, y, z, w) = new_con(x, y, z, w)
  /\ \A x : S!new_non(x) = new_non(x)
  /\ \A x : S!ResendTokens(x) = ResendTokens(x)
  /\ \A x : S!ExpiredTokens(x) = ExpiredTokens(x)
  /\ \A x : S!Retransmits(x) = Retransmits(x)
  /\ \A x : S!AdvanceDue(x) = AdvanceDue(x)
  /\ \A x : S!evict_stale_dedup(x) = evict_stale_dedup(x)
  /\ \A x : S!retransmit_count(x) = retransmit_count(x)
  <1>1. \A x, y, z : S!IsMap(x, y, z) <=> IsMap(x, y, z)
    BY DEF S!IsMap, IsMap
  <1>2. S!EmptyMap = EmptyMap
    BY DEF S!EmptyMap, EmptyMap
  <1>3. \A x, y, z : S!Insert(x, y, z) = Insert(x, y, z)
    BY DEF S!Insert, Insert
  <1>4. \A x, y : S!Restrict(x, y) = Restrict(x, y)
    BY DEF S!Restrict, Restrict
  <1>5. \A x, y : S!RemoveAll(x, y) = RemoveAll(x, y)
    BY DEF S!RemoveAll, RemoveAll, S!Restrict, Restrict
  <1>6. \A x : S!Range(x) = Range(x)
    BY DEF S!Range, Range
  <1>7. S!MIDs = MIDs
    BY DEF S!MIDs, MIDs
  <1>8. S!Tokens = Tokens
    BY DEF S!Tokens, Tokens
  <1>9. \A x : S!TickDown(x) = TickDown(x)
    BY DEF S!TickDown, TickDown
  <1>10. S!Packets = Packets
    BY DEF S!Packets, Packets, S!MIDs, MIDs, S!Tokens, Tokens, S!MessageTypes, MessageTypes,
       S!MessageClasses, MessageClasses
  <1>11. \A x : S!IsSession(x) <=> IsSession(x)
    BY DEF S!IsSession, IsSession, S!IsMap, IsMap, S!Tokens, Tokens, S!Exchanges, Exchanges,
       S!MIDs, MIDs, S!Allocators, Allocators, S!DedupEntries, DedupEntries, S!Packets, Packets,
       S!RetransmitStates, RetransmitStates, S!MessageTypes, MessageTypes, S!MessageClasses,
       MessageClasses
  <1>12. \A x, y : S!NewSession(x, y) = NewSession(x, y)
    BY DEF S!NewSession, NewSession, S!EmptyMap, EmptyMap, S!NewAllocator, NewAllocator
  <1>13. \A x : S!is_idle(x) <=> is_idle(x)
    BY DEF S!is_idle, is_idle
  <1>14. \A x : S!allocate_mid(x) = allocate_mid(x)
    BY DEF S!allocate_mid, allocate_mid, S!Allocate, Allocate
  <1>15. \A x : S!allocate_token(x) = allocate_token(x)
    BY DEF S!allocate_token, allocate_token, S!Allocate, Allocate
  <1>16. \A x, y, z : S!insert_exchange(x, y, z) = insert_exchange(x, y, z)
    BY DEF S!insert_exchange, insert_exchange, S!Insert, Insert
  <1>17. \A x, y, z, w : S!insert_con_exchange(x, y, z, w) = insert_con_exchange(x, y, z, w)
    BY DEF S!insert_con_exchange, insert_con_exchange, S!Insert, Insert
  <1>18. \A x, y : S!Dropped(x, y) = Dropped(x, y)
    BY DEF S!Dropped, Dropped
  <1>19. \A x, y : S!RemoveExchanges(x, y) = RemoveExchanges(x, y)
    BY DEF S!RemoveExchanges, RemoveExchanges, S!RemoveAll, RemoveAll, S!Restrict, Restrict
  <1>20. \A x, y : S!complete_exchange(x, y) = complete_exchange(x, y)
    BY DEF S!complete_exchange, complete_exchange, S!RemoveExchanges, RemoveExchanges,
       S!RemoveAll, RemoveAll, S!Restrict, Restrict
  <1>21. \A x, y : S!Completed(x, y) = Completed(x, y)
    BY DEF S!Completed, Completed
  <1>22. \A x, y : S!TokenOf(x, y) = TokenOf(x, y)
    BY DEF S!TokenOf, TokenOf
  <1>23. \A x, y, z : S!handle_ack(x, y, z) = handle_ack(x, y, z)
    BY DEF S!handle_ack, handle_ack, S!TokenOf, TokenOf, S!cancel_retransmission,
       cancel_retransmission, S!RemoveAll, RemoveAll, S!Restrict, Restrict
  <1>24. \A x, y : S!is_duplicate(x, y) <=> is_duplicate(x, y)
    BY DEF S!is_duplicate, is_duplicate
  <1>25. \A x, y : S!record_inbound_mid(x, y) = record_inbound_mid(x, y)
    BY DEF S!record_inbound_mid, record_inbound_mid, S!Insert, Insert, S!NewDedupEntry,
       NewDedupEntry
  <1>26. \A x, y, z : S!cache_response_for_mid(x, y, z) = cache_response_for_mid(x, y, z)
    BY DEF S!cache_response_for_mid, cache_response_for_mid
  <1>27. \A x, y : S!get_cached_response(x, y) = get_cached_response(x, y)
    BY DEF S!get_cached_response, get_cached_response
  <1>28. \A x, y, z : S!record_inbound_con(x, y, z) = record_inbound_con(x, y, z)
    BY DEF S!record_inbound_con, record_inbound_con, S!Insert, Insert
  <1>29. \A x, y : S!take_inbound_con_mid(x, y) = take_inbound_con_mid(x, y)
    BY DEF S!take_inbound_con_mid, take_inbound_con_mid, S!RemoveAll, RemoveAll, S!Restrict,
       Restrict
  <1>30. \A x : S!Deadlines(x) = Deadlines(x)
    BY DEF S!Deadlines, Deadlines, S!deadline, deadline
  <1>31. \A x : S!AgeSession(x) = AgeSession(x)
    BY DEF S!AgeSession, AgeSession, S!AgeExchange, AgeExchange, S!AgeRetransmit, AgeRetransmit,
       S!AgeEntry, AgeEntry, S!TickUp, TickUp, S!TickDown, TickDown
  <1>32. \A x, y, z, w : S!new_con(x, y, z, w) = new_con(x, y, z, w)
    BY DEF S!new_con, new_con, S!NewRetransmitState, NewRetransmitState
  <1>33. \A x : S!new_non(x) = new_non(x)
    BY DEF S!new_non, new_non
  <1>34. \A x : S!ResendTokens(x) = ResendTokens(x)
    BY DEF S!ResendTokens, ResendTokens, S!DueTokens, DueTokens, S!needs_retransmit,
       needs_retransmit, S!is_due, is_due, S!CanAdvance, CanAdvance
  <1>35. \A x : S!ExpiredTokens(x) = ExpiredTokens(x)
    BY DEF S!ExpiredTokens, ExpiredTokens, S!ResendTokens, ResendTokens, S!DueTokens, DueTokens,
       S!needs_retransmit, needs_retransmit, S!is_due, is_due, S!CanAdvance, CanAdvance,
       S!is_expired, is_expired
  <1>36. \A x : S!Retransmits(x) = Retransmits(x)
    BY DEF S!Retransmits, Retransmits, S!ResendTokens, ResendTokens, S!DueTokens, DueTokens,
       S!needs_retransmit, needs_retransmit, S!is_due, is_due, S!CanAdvance, CanAdvance
  <1>37. \A x : S!AdvanceDue(x) = AdvanceDue(x)
    BY DEF S!AdvanceDue, AdvanceDue, S!ResendTokens, ResendTokens, S!DueTokens, DueTokens,
       S!needs_retransmit, needs_retransmit, S!is_due, is_due, S!CanAdvance, CanAdvance,
       S!advance_retransmit, advance_retransmit, S!Advance, Advance
  <1>38. \A x : S!evict_stale_dedup(x) = evict_stale_dedup(x)
    BY DEF S!evict_stale_dedup, evict_stale_dedup, S!RemoveAll, RemoveAll, S!Restrict, Restrict
  <1>39. \A x : S!retransmit_count(x) = retransmit_count(x)
    BY DEF S!retransmit_count, retransmit_count
  <1> QED
    BY <1>1, <1>2, <1>3, <1>4, <1>5, <1>6, <1>7, <1>8, <1>9, <1>10, <1>11, <1>12, <1>13, <1>14,
       <1>15, <1>16, <1>17, <1>18, <1>19, <1>20, <1>21, <1>22, <1>23, <1>24, <1>25, <1>26,
       <1>27, <1>28, <1>29, <1>30, <1>31, <1>32, <1>33, <1>34, <1>35, <1>36, <1>37, <1>38, <1>39

-----------------------------------------------------------------------------
(* The session that a step starts from, and the one it stores. *)

LEMMA HostsDiffer == Client # Server
  BY HostsAssumption

\* The client has sessions with the server only.
LEMMA ClientSessions ==
  ASSUME C!SessionsOK
  PROVE  /\ DOMAIN c_sessions \subseteq {Server}
         /\ \A p \in DOMAIN c_sessions : IsSession(c_sessions[p])
         /\ c_sessions = [p \in DOMAIN c_sessions |-> c_sessions[p]]
  BY BridgeC DEF C!SessionsOK, IsMap

\* The server has sessions with the client only.
LEMMA ServerSessions ==
  ASSUME S!SessionsOK
  PROVE  /\ DOMAIN s_sessions \subseteq {Client}
         /\ \A p \in DOMAIN s_sessions : IsSession(s_sessions[p])
         /\ s_sessions = [p \in DOMAIN s_sessions |-> s_sessions[p]]
  BY BridgeS DEF S!SessionsOK, IsMap

\* A step of the client starts from the session it has, or from a new one.
LEMMA ClientEntry ==
  ASSUME C!SessionsOK, NEW s \in C!SessionEntry(Server)
  PROVE  Fields(s, Open, Index, s.inbound_dedup, s.inbound_con_mids)
  <1>1. CASE Server \in DOMAIN c_sessions
    BY <1>1, ClientSessions DEF C!SessionEntry, Open, Index, Fields
  <1>2. CASE Server \notin DOMAIN c_sessions
    <2>1. PICK m \in MidStarts, t \in TokenStarts : s = NewSession(m, t)
      BY <1>2, BridgeC DEF C!SessionEntry
    <2> QED
      BY <1>2, <2>1, NewFields DEF Open, Index, Fields
  <1> QED
    BY <1>1, <1>2

\* A step of the server starts from the session it has, or from a new one.
LEMMA ServerEntry ==
  ASSUME S!SessionsOK, NEW s \in S!SessionEntry(Client)
  PROVE  Fields(s, s.exchanges, s.mid_to_token, Table, Owed)
  <1>1. CASE Client \in DOMAIN s_sessions
    BY <1>1, ServerSessions DEF S!SessionEntry, Table, Owed, Fields
  <1>2. CASE Client \notin DOMAIN s_sessions
    <2>1. PICK m \in MidStarts, t \in TokenStarts : s = NewSession(m, t)
      BY <1>2, BridgeS DEF S!SessionEntry
    <2> QED
      BY <1>2, <2>1, NewFields DEF Table, Owed, Fields
  <1> QED
    BY <1>1, <1>2

\* The session that the client stores is what it has from then on.
LEMMA ClientStores ==
  ASSUME C!SessionsOK, NEW u, IsSession(u), C!SetSession(Server, u)
  PROVE  C!SessionsOK' /\ Open' = u.exchanges /\ Index' = u.mid_to_token
  <1>1. c_sessions' = Insert(c_sessions, Server, u)
    BY BridgeC DEF C!SetSession
  <1>2. DOMAIN c_sessions' = {Server} /\ c_sessions'[Server] = u
    BY <1>1, ClientSessions DEF Insert
  <1>3. c_sessions' = [p \in DOMAIN c_sessions' |-> c_sessions'[p]]
    BY <1>1 DEF Insert
  <1>4. C!SessionsOK'
    BY <1>2, <1>3, BridgeC DEF C!SessionsOK, IsMap, Range
  <1> QED
    BY <1>2, <1>4 DEF Open, Index

\* The session that the server stores is what it has from then on.
LEMMA ServerStores ==
  ASSUME S!SessionsOK, NEW u, IsSession(u), S!SetSession(Client, u)
  PROVE  S!SessionsOK' /\ Table' = u.inbound_dedup /\ Owed' = u.inbound_con_mids
  <1>1. s_sessions' = Insert(s_sessions, Client, u)
    BY BridgeS DEF S!SetSession
  <1>2. DOMAIN s_sessions' = {Client} /\ s_sessions'[Client] = u
    BY <1>1, ServerSessions DEF Insert
  <1>3. s_sessions' = [p \in DOMAIN s_sessions' |-> s_sessions'[p]]
    BY <1>1 DEF Insert
  <1>4. S!SessionsOK'
    BY <1>2, <1>3, BridgeS DEF S!SessionsOK, IsMap, Range
  <1> QED
    BY <1>2, <1>4 DEF Table, Owed

\* The maps have their types.
LEMMA ViewTypes ==
  ASSUME C!SessionsOK, S!SessionsOK
  PROVE  /\ IsMap(Open, Tokens, Exchanges) /\ IsMap(Index, MIDs, Tokens)
         /\ IsMap(Table, MIDs, DedupEntries) /\ IsMap(Owed, Tokens \cup {None}, MIDs)
  <1>1. \A K, V : IsMap(EmptyMap, K, V)
    BY EmptyMapType
  <1> QED
    BY <1>1, ClientSessions, ServerSessions DEF Open, Index, Table, Owed, IsSession

-----------------------------------------------------------------------------
(* The network. *)

LEMMA PostUnderWay ==
  ASSUME NEW host, NEW packets, network' = Post(host, packets)
  PROVE  /\ UnderWay(host)' = UnderWay(host) \cup {x.packet : x \in packets}
         /\ \A h : h # host => UnderWay(h)' = UnderWay(h)
  <1>1. DOMAIN network' = DOMAIN network \cup {<<host, x.packet>> : x \in packets}
    BY DEF Post
  <1>2. \A h, k : k \in UnderWay(h) => \E y \in DOMAIN network : y[1] = h /\ y[2] = k
    BY DEF UnderWay
  <1>3. \A h : \A y \in DOMAIN network' : y[1] = h => y[2] \in UnderWay(h)'
    BY DEF UnderWay
  <1>4. \A h, k : k \in UnderWay(h)' => \E y \in DOMAIN network' : y[1] = h /\ y[2] = k
    BY DEF UnderWay
  <1>5. \A h : \A y \in DOMAIN network : y[1] = h => y[2] \in UnderWay(h)
    BY DEF UnderWay
  <1>6. \A x \in packets : LET y == <<host, x.packet>>
                           IN  y \in DOMAIN network' /\ y[1] = host /\ y[2] = x.packet
    BY <1>1
  <1>7. \A y \in DOMAIN network' : y \in DOMAIN network \/ \E x \in packets : y = <<host, x.packet>>
    BY <1>1
  <1>8. DOMAIN network \subseteq DOMAIN network'
    BY <1>1
  <1>9. UnderWay(host)' \subseteq UnderWay(host) \cup {x.packet : x \in packets}
    <2> SUFFICES ASSUME NEW k \in UnderWay(host)'
                 PROVE  k \in UnderWay(host) \/ \E x \in packets : k = x.packet
      OBVIOUS
    <2>1. PICK y \in DOMAIN network' : y[1] = host /\ y[2] = k
      BY <1>4
    <2>2. CASE y \in DOMAIN network
      BY <2>1, <2>2, <1>5
    <2>3. CASE \E x \in packets : y = <<host, x.packet>>
      BY <2>1, <2>3
    <2> QED
      BY <2>2, <2>3, <1>7
  <1>10. UnderWay(host) \cup {x.packet : x \in packets} \subseteq UnderWay(host)'
    <2>1. UnderWay(host) \subseteq UnderWay(host)'
      BY <1>2, <1>3, <1>8
    <2>2. \A x \in packets : x.packet \in UnderWay(host)'
      BY <1>3, <1>6
    <2> QED
      BY <2>1, <2>2
  <1>11. ASSUME NEW h, h # host PROVE UnderWay(h)' = UnderWay(h)
    <2>1. \A y \in DOMAIN network' : y[1] = h => y \in DOMAIN network
      BY <1>7, <1>11
    <2> QED
      BY <2>1, <1>2, <1>3, <1>4, <1>5, <1>8
  <1> QED
    BY <1>9, <1>10, <1>11

NetworkOK == IsMap(network, {Client, Server} \X Packets, 0 .. MAX_LATENCY)

\* Sending keeps the type of the network.
LEMMA PostType ==
  ASSUME NetworkOK, NEW host \in {Client, Server}, NEW packets,
         \A x \in packets : x.packet \in Packets, network' = Post(host, packets)
  PROVE  NetworkOK'
  <1>0. MAX_LATENCY \in 0 .. MAX_LATENCY
    BY LatencyAssumption
  <1>1. DOMAIN network' \subseteq {Client, Server} \X Packets
    BY DEF NetworkOK, IsMap, Post
  <1>2. \A k \in DOMAIN network' : network'[k] \in 0 .. MAX_LATENCY
    BY <1>0 DEF NetworkOK, IsMap, Post
  <1>3. network' = [k \in DOMAIN network' |-> network'[k]]
    BY DEF Post
  <1> QED
    BY <1>1, <1>2, <1>3 DEF NetworkOK, IsMap

\* Time puts nothing under way.
LEMMA AgeUnderWay ==
  ASSUME network' = AgeNetwork
  PROVE  \A h : UnderWay(h)' \subseteq UnderWay(h)
  BY DEF AgeNetwork, UnderWay

\* Time keeps the type of the network.
LEMMA AgeNetworkType ==
  ASSUME NetworkOK, network' = AgeNetwork
  PROVE  NetworkOK'
  BY LatencyAssumption DEF NetworkOK, IsMap, AgeNetwork

\* What is under way is a packet.
LEMMA UnderWayType ==
  ASSUME NetworkOK, NEW h, NEW k \in UnderWay(h)
  PROVE  k \in Packets
  BY DEF NetworkOK, IsMap, UnderWay

-----------------------------------------------------------------------------
(* What a step of the client does to its exchanges, its callers and the    *)
(* packets it sends.                                                       *)

ClientRemains == Remains(Open, Index, Open', Index')

\* The parts of the client's state that no step but the clock's touches.
ClientRest == <<c_running, c_server_requests, c_server_responses, c_crossed>>

\* A step of the client that keeps its sessions' type and changes these variables
\* within theirs keeps the client's type.
LEMMA ClientTyped ==
  ASSUME C!TypeOK, C!SessionsOK', UNCHANGED ClientRest, UNCHANGED c_seen,
         UNCHANGED c_next_cleanup,
         c_caller' \in [Requests -> C!Results \cup {C!Idle, C!Waiting}],
         c_outbound_requests' \in Seq([request : Requests, peer : {Server}]),
         \A x \in c_sent' : x \in [peer : {Server}, packet : Packets],
         c_transmissions' \in [Requests -> Nat]
  PROVE  C!TypeOK'
  BY BridgeC DEF C!TypeOK, C!SeenOK, C!SeenEntries, C!ServerMessages, ClientRest

\* Callers are told results.
LEMMA ClientTell ==
  ASSUME C!TypeOK, NEW R, NEW x \in C!Results
  PROVE  C!Tell(R, x) \in [Requests -> C!Results \cup {C!Idle, C!Waiting}]
  BY DEF C!TypeOK, C!Tell

\* The client receives a response, which completes at most the exchange of
\* the request it answers.
LEMMA ClientReceives ==
  ASSUME TypeOK, MessagesInv, NEW k \in UnderWay(Client), C!RecvPacket(Server, k)
  PROVE  /\ C!TypeOK' /\ ClientRemains
         /\ UNCHANGED <<c_running, c_outbound_requests>>
         /\ c_sent' = {}
         /\ \E R : /\ TokenInv /\ MidInv => R \subseteq {k.payload}
                   /\ c_caller' = C!Tell(R, [kind |-> "Response", payload |-> k.payload])
  <1>1. /\ k \in Packets /\ k.mid \in MIDs /\ k.token \in Tokens \cup {None}
        /\ IsAnswer(k) /\ C!TypeOK /\ C!SessionsOK
        /\ k.payload \in Requests
    <2>1. k \in Packets
      BY UnderWayType DEF TypeOK, NetworkOK
    <2>2. IsAnswer(k)
      BY DEF MessagesInv
    <2> QED
      BY <2>1, <2>2 DEF Packets, TypeOK, C!TypeOK, IsAnswer
  <1>2. [kind |-> "Response", payload |-> k.payload] \in C!Results
    BY <1>1, RequestsAssumption DEF C!Results
  <1> DEFINE answer == [kind |-> "Response", payload |-> k.payload]
  <1> HIDE DEF answer
  <1>3. \A R : C!Tell(R, answer) \in [Requests -> C!Results \cup {C!Idle, C!Waiting}]
    BY <1>1, <1>2, ClientTell DEF answer
  <1>4. /\ C!SessionsOK' /\ ClientRemains /\ c_sent' = {}
        /\ UNCHANGED ClientRest /\ UNCHANGED c_seen /\ UNCHANGED c_next_cleanup
        /\ UNCHANGED <<c_outbound_requests, c_transmissions>>
        /\ \E R : (TokenInv /\ MidInv => R \subseteq {k.payload}) /\ c_caller' = C!Tell(R, answer)
    <2>1. CASE C!RecvDuplicate(Server, k)
      <3>1. UNCHANGED <<c_sessions, c_caller>> /\ c_sent' = {}
        BY <2>1, <1>1, BridgeC DEF C!RecvDuplicate, C!taskVars, C!clientVars, C!Send, IsAnswer
      <3>2. c_caller' = C!Tell({}, answer)
        BY <3>1, <1>1 DEF C!Tell, C!TypeOK
      <3>3. C!SessionsOK' /\ Open' = Open /\ Index' = Index
        BY <3>1, <1>1, BridgeC DEF C!SessionsOK, Open, Index, Range
      <3>4. ClientRemains
        BY <3>3 DEF ClientRemains, Remains, SameExchange
      <3> QED
        BY <2>1, <3>1, <3>2, <3>3, <3>4
        DEF C!RecvDuplicate, C!taskVars, C!clientVars, C!serverVars, C!historyVars, ClientRest
    <2>2. CASE C!RecvNonRequest(Server, k)
      <3>1. PICK s \in C!SessionEntry(Server) :
              LET recorded == record_inbound_mid(s, k.mid)
              IN  /\ C!SetSession(Server, complete_exchange(recorded, k.token))
                  /\ c_caller' = C!Tell(Completed(recorded, k.token), answer)
        BY <2>2, <1>1, BridgeC DEF C!RecvNonRequest, C!IsMessage, IsAnswer, answer
      <3> DEFINE recorded == record_inbound_mid(s, k.mid)
                 u == RemoveExchanges(recorded, {k.token})
      <3>2. Fields(s, Open, Index, s.inbound_dedup, s.inbound_con_mids)
        BY <1>1, ClientEntry
      <3>3. IsSession(recorded) /\ recorded.exchanges = Open /\ recorded.mid_to_token = Index
        BY <3>2, <1>1, InboundFields DEF Fields
      <3>4. C!SetSession(Server, u) /\ c_caller' = C!Tell(Completed(recorded, k.token), answer)
        BY <3>1 DEF complete_exchange
      <3> HIDE DEF recorded
      <3>5. IsSession(u) /\ Remains(Open, Index, u.exchanges, u.mid_to_token)
        BY <3>3, RemoveRemains DEF Fields
      <3>6. TokenInv => Completed(recorded, k.token) \subseteq {k.payload}
        BY <3>3 DEF Completed, TokenInv
      <3> HIDE DEF u
      <3>7. C!SessionsOK' /\ Open' = u.exchanges /\ Index' = u.mid_to_token
        BY <3>4, <3>5, <1>1, ClientStores
      <3>8. ClientRemains
        BY <3>5, <3>7 DEF ClientRemains
      <3>9. c_sent' = {}
        BY <2>2, <1>1 DEF C!RecvNonRequest, C!Send, IsAnswer
      <3> QED
        BY <2>2, <3>4, <3>6, <3>7, <3>8, <3>9
        DEF C!RecvNonRequest, C!serverVars, C!historyVars, ClientRest
    <2>3. CASE C!RecvPiggybacked(Server, k)
      <3>1. PICK s \in C!SessionEntry(Server) :
              LET acked  == handle_ack(s, k.mid, k.code)
                  tokens == TokenOf(s, k.mid)
              IN  /\ C!SetSession(Server, RemoveExchanges(acked, tokens))
                  /\ c_caller' = C!Tell(UNION {Completed(acked, t) : t \in tokens}, answer)
        BY <2>3, BridgeC DEF C!RecvPiggybacked, answer
      <3> DEFINE acked  == handle_ack(s, k.mid, k.code)
                 tokens == TokenOf(s, k.mid)
                 u == RemoveExchanges(acked, tokens)
                 R == UNION {Completed(acked, t) : t \in tokens}
      <3>2. Fields(s, Open, Index, s.inbound_dedup, s.inbound_con_mids)
        BY <1>1, ClientEntry
      <3>3. /\ IsSession(acked) /\ acked.exchanges = Open
            /\ acked.mid_to_token = RemoveAll(Index, {k.mid})
        <4>1. IsSession(s) /\ k.code # "Empty"
          BY <3>2, <1>1 DEF Fields, IsAnswer
        <4>2. Fields(acked, s.exchanges, RemoveAll(s.mid_to_token, {k.mid}),
                     s.inbound_dedup, s.inbound_con_mids)
          BY <4>1, HandleAckRemains
        <4> QED
          BY <3>2, <4>2 DEF Fields
      <3>4. tokens = IF k.mid \in DOMAIN Index THEN {Index[k.mid]} ELSE {}
        BY <3>2 DEF Fields, TokenOf
      <3>5. C!SetSession(Server, u) /\ c_caller' = C!Tell(R, answer)
        BY <3>1
      <3>6. k.type = "Acknowledgement"
        BY <2>3 DEF C!RecvPiggybacked
      <3> HIDE DEF acked, tokens
      <3>7. IsSession(u) /\ Remains(Open, RemoveAll(Index, {k.mid}), u.exchanges, u.mid_to_token)
        BY <3>3, RemoveRemains DEF Fields
      <3>8. TokenInv /\ MidInv => R \subseteq {k.payload}
        <4> SUFFICES ASSUME TokenInv, MidInv PROVE R \subseteq {k.payload}
          OBVIOUS
        <4>1. \A t \in tokens : t = k.token
          BY <3>4, <3>6 DEF MidInv
        <4>2. \A t \in tokens : Completed(acked, t) \subseteq {k.payload}
          BY <3>3, <4>1 DEF Completed, TokenInv
        <4> QED
          BY <4>2
      <3> HIDE DEF u, R
      <3>9. C!SessionsOK' /\ Open' = u.exchanges /\ Index' = u.mid_to_token
        BY <3>5, <3>7, <1>1, ClientStores
      <3>10. ClientRemains
        <4>1. Remains(Open, Index, Open, RemoveAll(Index, {k.mid}))
          BY DEF Remains, SameExchange, RemoveAll, Restrict
        <4> QED
          BY <3>7, <3>9, <4>1, RemainsTransitive DEF ClientRemains
      <3>11. c_sent' = {}
        BY <2>3 DEF C!RecvPiggybacked, C!Send
      <3> QED
        BY <2>3, <3>5, <3>8, <3>9, <3>10, <3>11
        DEF C!RecvPiggybacked, C!serverVars, C!historyVars, ClientRest
    <2>4. ~ C!RecvRequest(Server, k) /\ ~ C!RecvAck(Server, k) /\ ~ C!RecvReset(Server, k)
      BY <1>1 DEF C!RecvRequest, C!RecvAck, C!RecvReset, IsAnswer
    <2> QED
      BY <2>1, <2>2, <2>3, <2>4 DEF C!RecvPacket
  <1>5. c_caller' \in [Requests -> C!Results \cup {C!Idle, C!Waiting}]
    BY <1>3, <1>4
  <1>6. C!TypeOK'
    BY <1>1, <1>4, <1>5, ClientTyped DEF C!TypeOK
  <1> QED
    BY <1>4, <1>6 DEF ClientRest, answer

\* A request is registered under a token, and under a MID if it is confirmable.
Registers(r, token, mid, e) ==
  /\ e.response_tx = r
  /\ Open' = Insert(Open, token, e)
  /\ IF r \in ConRequests
     THEN /\ Index' = Insert(Index, mid, token)
          /\ e.retransmit # None /\ e.message_id = mid
          /\ e.retransmit.packet_bytes = C!RequestPacket(r, token, mid)
     ELSE /\ Index' = Index
          /\ e.retransmit = None /\ e.expires_at # None

\* The head of the queue is a request for the server.
LEMMA ClientQueue ==
  ASSUME C!TypeOK, c_outbound_requests # << >>
  PROVE  /\ Head(c_outbound_requests) \in [request : Requests, peer : {Server}]
         /\ Tail(c_outbound_requests) \in Seq([request : Requests, peer : {Server}])
         /\ Head(c_outbound_requests).request \in Requests
         /\ Head(c_outbound_requests).peer = Server
  <1>1. c_outbound_requests \in Seq([request : Requests, peer : {Server}])
    BY DEF C!TypeOK
  <1>2. /\ Head(c_outbound_requests) \in [request : Requests, peer : {Server}]
        /\ Tail(c_outbound_requests) \in Seq([request : Requests, peer : {Server}])
    BY <1>1, HeadTailProperties
  <1> QED
    BY <1>2

\* A request is encoded with the token, the MID and the payload it was given.
LEMMA RequestPacketType ==
  ASSUME NEW r \in Requests, NEW token \in Tokens, NEW mid \in MIDs
  PROVE  /\ C!RequestPacket(r, token, mid) \in Packets
         /\ C!RequestPacket(r, token, mid).payload = r
         /\ C!RequestPacket(r, token, mid).token = token
         /\ C!RequestPacket(r, token, mid).mid = mid
  BY RequestsAssumption DEF C!RequestPacket, Packets, MessageTypes, MessageClasses

\* A confirmable exchange has a retransmission, a non-confirmable one a lifetime.
LEMMA NewExchangeFields ==
  ASSUME NEW r \in Requests, NEW mid \in MIDs, NEW packet \in Packets, NEW timeout \in ACK_TIMEOUTS
  PROVE  /\ LET e == new_con(r, mid, packet, timeout)
            IN  /\ e \in Exchanges /\ e.response_tx = r /\ e.message_id = mid
                /\ e.retransmit # None /\ e.retransmit.packet_bytes = packet
         /\ LET e == new_non(r)
            IN  /\ e \in Exchanges /\ e.response_tx = r
                /\ e.retransmit = None /\ e.expires_at # None
  <1>1. LET e == new_con(r, mid, packet, timeout)
        IN  /\ e \in Exchanges /\ e.response_tx = r /\ e.message_id = mid
            /\ e.retransmit # None /\ e.retransmit.packet_bytes = packet
    <2>1. new_con(r, mid, packet, timeout) \in Exchanges
      BY NewConType
    <2>2. NewRetransmitState(packet, timeout) \in RetransmitStates
      BY TimingAssumption DEF NewRetransmitState, RetransmitStates
    <2>3. NewRetransmitState(packet, timeout) # None
      BY <2>2, NoneAssumption
    <2> QED
      BY <2>1, <2>3 DEF new_con, NewRetransmitState
  <1>2. LET e == new_non(r)
        IN  /\ e \in Exchanges /\ e.response_tx = r
            /\ e.retransmit = None /\ e.expires_at # None
    <2>1. NON_LIFETIME # None
      BY TimingAssumption, NoneAssumption
    <2> QED
      BY <2>1, NewNonType DEF new_non
  <1> QED
    BY <1>1, <1>2

\* The client takes the next request from its callers' channel.
LEMMA ClientAsks ==
  ASSUME TypeOK, C!OutboundRequest
  PROVE  /\ C!TypeOK'
         /\ UNCHANGED c_running
         /\ c_outbound_requests # << >>
         /\ c_outbound_requests' = Tail(c_outbound_requests)
         /\ LET r == Head(c_outbound_requests).request
            IN  \E token \in Tokens, mid \in MIDs, e \in Exchanges :
                  /\ Registers(r, token, mid, e)
                  /\ c_sent' = {[peer |-> Server, packet |-> C!RequestPacket(r, token, mid)]}
         /\ \E R : c_caller' = C!Tell(R, [kind |-> "ChannelClosed"])
  <1> DEFINE r == Head(c_outbound_requests).request
  <1>1. /\ C!TypeOK /\ C!SessionsOK
        /\ c_outbound_requests # << >>
        /\ c_outbound_requests' = Tail(c_outbound_requests)
    BY DEF TypeOK, C!TypeOK, C!OutboundRequest
  <1>2. /\ Tail(c_outbound_requests) \in Seq([request : Requests, peer : {Server}])
        /\ r \in Requests
        /\ Head(c_outbound_requests).peer = Server
    BY <1>1, ClientQueue
  <1> HIDE DEF r
  <1>3. PICK s \in C!SessionEntry(Server), timeout \in ACK_TIMEOUTS :
          LET token  == s.token_allocator.next
              mid    == s.mid_allocator.next
              s1     == allocate_mid(allocate_token(s))
              packet == C!RequestPacket(r, token, mid)
          IN  /\ C!SetSession(Server, IF r \in ConRequests
                   THEN insert_con_exchange(s1, token, mid, new_con(r, mid, packet, timeout))
                   ELSE insert_exchange(s1, token, new_non(r)))
              /\ c_caller' = C!Tell(Dropped(s, token), [kind |-> "ChannelClosed"])
              /\ C!Send(Server, {packet})
    BY <1>2, BridgeC DEF C!OutboundRequest, r
  <1> DEFINE token  == s.token_allocator.next
             mid    == s.mid_allocator.next
             s0     == allocate_token(s)
             s1     == allocate_mid(s0)
             packet == C!RequestPacket(r, token, mid)
             con    == new_con(r, mid, packet, timeout)
             non    == new_non(r)
             u == IF r \in ConRequests THEN insert_con_exchange(s1, token, mid, con)
                  ELSE insert_exchange(s1, token, non)
             e == IF r \in ConRequests THEN con ELSE non
  <1>4. Fields(s, Open, Index, s.inbound_dedup, s.inbound_con_mids)
    BY <1>1, ClientEntry
  <1>5. IsSession(s) /\ token \in Tokens /\ mid \in MIDs
    BY <1>4, AllocateMidType, AllocateTokenType DEF Fields
  <1>6. IsSession(s1) /\ s1.exchanges = Open /\ s1.mid_to_token = Index
    <2>1. IsSession(s0) /\ s0.exchanges = Open /\ s0.mid_to_token = Index
      BY <1>4, <1>5, AllocateFields DEF Fields
    <2> HIDE DEF s0
    <2> QED
      BY <2>1, AllocateFields DEF Fields
  <1>7. /\ C!SetSession(Server, u)
        /\ c_caller' = C!Tell(Dropped(s, token), [kind |-> "ChannelClosed"])
        /\ C!Send(Server, {packet})
    BY <1>3
  <1> HIDE DEF token, mid, s1
  <1>8. packet \in Packets
    BY <1>2, <1>5, RequestPacketType
  <1> HIDE DEF packet
  <1>9. /\ con \in Exchanges /\ con.response_tx = r /\ con.message_id = mid
        /\ con.retransmit # None /\ con.retransmit.packet_bytes = packet
        /\ non \in Exchanges /\ non.response_tx = r
        /\ non.retransmit = None /\ non.expires_at # None
    BY <1>2, <1>5, <1>8, NewExchangeFields
  <1> HIDE DEF con, non
  <1>10. /\ IsSession(u) /\ u.exchanges = Insert(Open, token, e)
         /\ u.mid_to_token = IF r \in ConRequests THEN Insert(Index, mid, token) ELSE Index
    BY <1>5, <1>6, <1>9, InsertFields DEF Fields
  <1> HIDE DEF u
  <1>11. C!SessionsOK' /\ Open' = u.exchanges /\ Index' = u.mid_to_token
    BY <1>1, <1>7, <1>10, ClientStores
  <1>12. e \in Exchanges /\ Registers(r, token, mid, e)
    BY <1>9, <1>10, <1>11 DEF Registers, packet
  <1> HIDE DEF e
  <1>13. c_sent' = {[peer |-> Server, packet |-> packet]}
    BY <1>7 DEF C!Send
  <1>14. C!TypeOK'
    <2>1. c_caller' \in [Requests -> C!Results \cup {C!Idle, C!Waiting}]
      BY <1>1, <1>7, ClientTell DEF C!Results
    <2>2. c_transmissions' \in [Requests -> Nat]
      BY <1>1 DEF C!OutboundRequest, C!TypeOK
    <2> QED
      BY <1>1, <1>2, <1>8, <1>11, <1>13, <2>1, <2>2, ClientTyped
      DEF C!OutboundRequest, C!serverVars, ClientRest
  <1> QED
    BY <1>1, <1>5, <1>7, <1>12, <1>13, <1>14 DEF C!OutboundRequest, r, packet

\* The client's callers ask and give up, and a request that cannot be encoded
\* leaves the queue.
LEMMA ClientUnencodable ==
  ASSUME TypeOK, C!OutboundRequestUnencodable
  PROVE  /\ C!TypeOK'
         /\ UNCHANGED c_running
         /\ Open' = Open /\ Index' = Index
         /\ c_outbound_requests # << >>
         /\ c_outbound_requests' = Tail(c_outbound_requests)
         /\ \E R : c_caller' = C!Tell(R, [kind |-> "ChannelClosed"])
  <1>1. /\ C!TypeOK /\ C!SessionsOK
        /\ c_outbound_requests # << >>
        /\ c_outbound_requests' = Tail(c_outbound_requests)
        /\ c_caller' = C!Tell({Head(c_outbound_requests).request}, [kind |-> "ChannelClosed"])
        /\ c_sent' = {}
    BY DEF TypeOK, C!TypeOK, C!OutboundRequestUnencodable
  <1>2. PICK s \in C!SessionEntry(Server) :
          C!SetSession(Server, allocate_mid(allocate_token(s)))
    BY <1>1, ClientQueue, BridgeC DEF C!OutboundRequestUnencodable
  <1> DEFINE s0 == allocate_token(s)
             u  == allocate_mid(s0)
  <1>3. Fields(s, Open, Index, s.inbound_dedup, s.inbound_con_mids)
    BY <1>1, ClientEntry
  <1>4. IsSession(s0) /\ s0.exchanges = Open /\ s0.mid_to_token = Index
    BY <1>3, AllocateFields DEF Fields
  <1> HIDE DEF s0
  <1>5. IsSession(u) /\ u.exchanges = Open /\ u.mid_to_token = Index
    BY <1>4, AllocateFields DEF Fields
  <1>6. C!SetSession(Server, u)
    BY <1>2 DEF s0
  <1> HIDE DEF u
  <1>7. C!SessionsOK' /\ Open' = Open /\ Index' = Index
    BY <1>1, <1>5, <1>6, ClientStores
  <1>8. c_caller' \in [Requests -> C!Results \cup {C!Idle, C!Waiting}]
    BY <1>1, ClientTell DEF C!Results
  <1>9. C!TypeOK'
    BY <1>1, <1>7, <1>8, ClientQueue, ClientTyped
    DEF C!OutboundRequestUnencodable, C!serverVars, C!historyVars, ClientRest, C!TypeOK
  <1> QED
    BY <1>1, <1>7, <1>9 DEF C!OutboundRequestUnencodable

\* A caller queues a request and waits.
LEMMA ClientSendRequest ==
  ASSUME TypeOK, c_running, NEW r \in Requests, C!SendRequest(r, Server)
  PROVE  /\ C!TypeOK'
         /\ UNCHANGED c_running
         /\ Open' = Open /\ Index' = Index
         /\ c_caller[r] = C!Idle
         /\ c_caller' = [c_caller EXCEPT ![r] = C!Waiting]
         /\ c_outbound_requests' =
              Append(c_outbound_requests, [request |-> r, peer |-> Server])
  <1>1. C!TypeOK /\ UNCHANGED c_sessions
    BY DEF TypeOK, C!SendRequest, C!taskVars
  <1>2. C!SessionsOK'
    BY <1>1 DEF C!SessionsOK, C!TypeOK, C!Range
  <1>3. /\ c_caller' = [c_caller EXCEPT ![r] = C!Waiting]
        /\ c_outbound_requests' = Append(c_outbound_requests, [request |-> r, peer |-> Server])
        /\ c_sent' = {}
    BY DEF C!SendRequest
  <1>4. c_outbound_requests' \in Seq([request : Requests, peer : {Server}])
    BY <1>1, <1>3, AppendProperties DEF C!TypeOK
  <1>5. c_caller' \in [Requests -> C!Results \cup {C!Idle, C!Waiting}]
    BY <1>1, <1>3 DEF C!TypeOK
  <1>6. C!TypeOK'
    BY <1>1, <1>2, <1>3, <1>4, <1>5, ClientTyped
    DEF C!SendRequest, C!taskVars, C!serverVars, C!historyVars, ClientRest, C!TypeOK
  <1> QED
    BY <1>1, <1>3, <1>6 DEF C!SendRequest, C!taskVars, Open, Index

\* A caller's own timeout changes nothing but the caller.
LEMMA ClientGivesUp ==
  ASSUME TypeOK, NEW r \in Requests, C!ClientTimeout(r)
  PROVE  /\ C!TypeOK'
         /\ UNCHANGED <<c_running, c_outbound_requests>>
         /\ Open' = Open /\ Index' = Index
         /\ c_caller[r] = C!Waiting
         /\ c_caller' = [c_caller EXCEPT ![r] = [kind |-> "ClientTimeout"]]
  <1>1. C!TypeOK /\ UNCHANGED c_sessions
    BY DEF TypeOK, C!ClientTimeout, C!taskVars
  <1>2. C!SessionsOK'
    BY <1>1 DEF C!SessionsOK, C!TypeOK, C!Range
  <1>3. c_caller' \in [Requests -> C!Results \cup {C!Idle, C!Waiting}]
    BY <1>1 DEF C!TypeOK, C!ClientTimeout, C!Results
  <1>4. C!TypeOK'
    BY <1>1, <1>2, <1>3, ClientTyped
    DEF C!ClientTimeout, C!taskVars, C!serverVars, C!historyVars, ClientRest, C!TypeOK
  <1> QED
    BY <1>1, <1>4 DEF C!ClientTimeout, C!taskVars, Open, Index

\* The timer arm ends exchanges, and only the clocks of the others change.
LEMMA TimerFields ==
  ASSUME NEW s, IsSession(s)
  PROVE  LET u == evict_stale_dedup(RemoveExchanges(AdvanceDue(s), ExpiredTokens(s)))
         IN  IsSession(u) /\ Remains(s.exchanges, s.mid_to_token, u.exchanges, u.mid_to_token)
  <1> DEFINE v == AdvanceDue(s)
             w == RemoveExchanges(v, ExpiredTokens(s))
             u == evict_stale_dedup(w)
  <1>1. IsSession(v) /\ Remains(s.exchanges, s.mid_to_token, v.exchanges, v.mid_to_token)
    BY AdvanceRemains DEF Fields
  <1> HIDE DEF v
  <1>2. IsSession(w) /\ Remains(v.exchanges, v.mid_to_token, w.exchanges, w.mid_to_token)
    BY <1>1, RemoveRemains DEF Fields
  <1> HIDE DEF w
  <1>3. IsSession(u) /\ u.exchanges = w.exchanges /\ u.mid_to_token = w.mid_to_token
    BY <1>2, EvictRemains DEF Fields
  <1>4. Remains(s.exchanges, s.mid_to_token, w.exchanges, w.mid_to_token)
    BY <1>1, <1>2, RemainsTransitive
  <1> QED
    BY <1>3, <1>4 DEF v, w

\* A step that replaces every session of the client.
LEMMA ClientReplaces ==
  ASSUME C!SessionsOK, DOMAIN c_sessions' = DOMAIN c_sessions,
         c_sessions' = [p \in DOMAIN c_sessions |-> c_sessions'[p]],
         \A p \in DOMAIN c_sessions :
           /\ IsSession(c_sessions'[p])
           /\ Remains(c_sessions[p].exchanges, c_sessions[p].mid_to_token,
                      c_sessions'[p].exchanges, c_sessions'[p].mid_to_token)
  PROVE  C!SessionsOK' /\ ClientRemains
  <1>1. C!SessionsOK'
    BY ClientSessions, BridgeC DEF C!SessionsOK, IsMap, Range
  <1>2. CASE Server \in DOMAIN c_sessions
    BY <1>1, <1>2 DEF ClientRemains, Open, Index
  <1>3. CASE Server \notin DOMAIN c_sessions
    <2>1. Server \notin DOMAIN c_sessions'
      BY <1>3
    <2> QED
      BY <1>1, <1>3, <2>1 DEF ClientRemains, Open, Index, Remains, EmptyMap
  <1> QED
    BY <1>1, <1>2, <1>3

\* What the client's timer sends are requests that it keeps, and those of its
\* callers that it tells anything are told of a timeout.
LEMMA ClientTimer ==
  ASSUME TypeOK, C!RetransmissionTimer
  PROVE  /\ C!TypeOK' /\ ClientRemains
         /\ UNCHANGED <<c_running, c_outbound_requests>>
         /\ \A x \in c_sent' : x.packet \in Repeated
         /\ c_caller' = [r \in Requests |-> c_caller'[r]]
         /\ \A r \in Requests :
              \/ c_caller'[r] = c_caller[r]
              \/ c_caller[r] = C!Waiting /\ c_caller'[r] \in C!Results
                 /\ c_caller'[r].kind = "Timeout"
  <1>1. C!TypeOK /\ C!SessionsOK
    BY DEF TypeOK, C!TypeOK
  <1>2. \A p \in DOMAIN c_sessions : p = Server /\ IsSession(c_sessions[p])
    BY <1>1, ClientSessions
  <1>3. C!SessionsOK' /\ ClientRemains
    <2> DEFINE f(s) == evict_stale_dedup(RemoveExchanges(AdvanceDue(s), ExpiredTokens(s)))
    <2>1. \A s : C!TimerWork(s) = f(s)
      BY BridgeC DEF C!TimerWork, C!collect_retransmissions
    <2>2. c_sessions' = [p \in DOMAIN c_sessions |-> f(c_sessions[p])]
      BY <2>1 DEF C!RetransmissionTimer
    <2>3. \A s : IsSession(s) => /\ IsSession(f(s))
                               /\ Remains(s.exchanges, s.mid_to_token,
                                          f(s).exchanges, f(s).mid_to_token)
      BY TimerFields
    <2> HIDE DEF f
    <2>4. /\ DOMAIN c_sessions' = DOMAIN c_sessions
          /\ c_sessions' = [p \in DOMAIN c_sessions |-> c_sessions'[p]]
          /\ \A p \in DOMAIN c_sessions :
               /\ IsSession(c_sessions'[p])
               /\ Remains(c_sessions[p].exchanges, c_sessions[p].mid_to_token,
                          c_sessions'[p].exchanges, c_sessions'[p].mid_to_token)
      BY <1>2, <2>2, <2>3
    <2> QED
      BY <1>1, <2>4, ClientReplaces
  <1>4. /\ c_caller' = [r \in Requests |-> c_caller'[r]]
        /\ \A r \in Requests :
             \/ c_caller'[r] = c_caller[r]
             \/ c_caller[r] = C!Waiting /\ c_caller'[r] \in C!Results
                /\ c_caller'[r].kind = "Timeout"
    <2> DEFINE failed == UNION {C!TimedOut(c_sessions[p]) : p \in DOMAIN c_sessions}
               told(r) == CHOOSE x \in failed : x.request = r
               result(r) == [kind |-> "Timeout", retransmits |-> told(r).retransmits]
    <2>1. \A x \in failed : x.retransmits \in 0 .. MAX_RETRANSMIT
      <3>1. ASSUME NEW p \in DOMAIN c_sessions, NEW t \in ExpiredTokens(c_sessions[p])
            PROVE  retransmit_count(c_sessions[p].exchanges[t]) \in 0 .. MAX_RETRANSMIT
        <4>1. c_sessions[p].exchanges[t] \in Exchanges
          BY <1>2 DEF ExpiredTokens, DueTokens, ResendTokens, IsSession, IsMap
        <4> QED
          BY <4>1, TimingAssumption DEF retransmit_count, Exchanges, RetransmitStates
      <3> QED
        BY <3>1, BridgeC DEF C!TimedOut
    <2>2. c_caller' = [r \in Requests |->
                         IF c_caller[r] = C!Waiting /\ \E x \in failed : x.request = r
                         THEN result(r) ELSE c_caller[r]]
      BY DEF C!RetransmissionTimer
    <2> HIDE DEF failed
    <2>3. \A r \in Requests : (\E x \in failed : x.request = r) => told(r) \in failed
      OBVIOUS
    <2>4. \A r \in Requests : (\E x \in failed : x.request = r) =>
            result(r) \in C!Results /\ result(r).kind = "Timeout"
      BY <2>1, <2>3 DEF C!Results
    <2> HIDE DEF result
    <2> QED
      BY <2>2, <2>4
  <1>5. c_caller' \in [Requests -> C!Results \cup {C!Idle, C!Waiting}]
    BY <1>1, <1>4 DEF C!TypeOK
  <1>6. \A x \in c_sent' : x.peer = Server /\ x.packet \in Repeated /\ x.packet \in Packets
                           /\ x = [peer |-> x.peer, packet |-> x.packet]
    <2>1. ASSUME NEW p \in DOMAIN c_sessions, NEW t \in ResendTokens(c_sessions[p])
          PROVE  /\ c_sessions[p].exchanges[t].retransmit.packet_bytes \in Packets
                 /\ c_sessions[p].exchanges[t].retransmit.packet_bytes \in Repeated
      <3>1. /\ c_sessions[p].exchanges[t] \in Exchanges
            /\ t \in DOMAIN c_sessions[p].exchanges
            /\ c_sessions[p].exchanges[t].retransmit # None
        BY <1>2 DEF ResendTokens, DueTokens, needs_retransmit, IsSession, IsMap
      <3>2. p = Server /\ Open = c_sessions[p].exchanges
        BY <1>2 DEF Open
      <3> QED
        BY <3>1, <3>2 DEF Exchanges, RetransmitStates, Repeated
    <2>2. c_sent' = UNION {{[peer |-> p, packet |-> k] : k \in Retransmits(c_sessions[p])} :
                             p \in DOMAIN c_sessions}
      BY BridgeC DEF C!RetransmissionTimer
    <2> SUFFICES ASSUME NEW x \in c_sent'
                 PROVE  /\ x.peer = Server /\ x.packet \in Repeated /\ x.packet \in Packets
                        /\ x = [peer |-> x.peer, packet |-> x.packet]
      OBVIOUS
    <2>3. PICK p \in DOMAIN c_sessions :
            \E k \in Retransmits(c_sessions[p]) : x = [peer |-> p, packet |-> k]
      BY <2>2
    <2>4. PICK t \in ResendTokens(c_sessions[p]) :
            x = [peer |-> p, packet |-> c_sessions[p].exchanges[t].retransmit.packet_bytes]
      BY <2>3 DEF Retransmits
    <2> QED
      BY <2>4, <2>1, <1>2
  <1>7. c_transmissions' \in [Requests -> Nat]
    BY <1>1 DEF C!RetransmissionTimer, C!TypeOK
  <1>8. C!TypeOK'
    <2>1. c_sent' \in SUBSET [peer : {Server}, packet : Packets]
      BY <1>6
    <2>2. /\ UNCHANGED <<c_running, c_next_cleanup, c_outbound_requests, c_server_requests,
                        c_server_responses, c_seen, c_crossed>>
      BY DEF C!RetransmissionTimer, C!serverVars
    <2>3. C!SeenOK'
      BY <1>1, <2>2 DEF C!SeenOK, C!TypeOK
    <2> HIDE <1>6
    <2> QED
      BY <1>1, <1>3, <1>5, <1>7, <2>1, <2>2, <2>3, ClientTyped DEF ClientRest, C!TypeOK
  <1> QED
    BY <1>3, <1>4, <1>6, <1>8 DEF C!RetransmissionTimer

\* Only a session without any state is cleaned up.
LEMMA ClientCleanup ==
  ASSUME TypeOK, C!CleanupTimer
  PROVE  /\ C!TypeOK' /\ Open' = Open /\ Index' = Index
         /\ UNCHANGED <<c_running, c_outbound_requests, c_caller>>
  <1>1. C!TypeOK /\ C!SessionsOK
    BY DEF TypeOK, C!TypeOK
  <1>2. c_sessions' = Restrict(c_sessions, {p \in DOMAIN c_sessions : ~ is_idle(c_sessions[p])})
    BY BridgeC DEF C!CleanupTimer
  <1>3. C!SessionsOK'
    BY <1>1, <1>2, BridgeC DEF C!SessionsOK, Restrict, IsMap, Range
  <1>4. Open' = Open /\ Index' = Index
    <2>1. CASE Server \in DOMAIN c_sessions /\ ~ is_idle(c_sessions[Server])
      BY <1>2, <2>1 DEF Restrict, Open, Index
    <2>2. CASE Server \in DOMAIN c_sessions /\ is_idle(c_sessions[Server])
      <3>1. Server \notin DOMAIN c_sessions'
        BY <1>2, <2>2 DEF Restrict
      <3>2. c_sessions[Server].exchanges = EmptyMap /\ c_sessions[Server].mid_to_token = EmptyMap
        BY <1>1, <2>2, ClientSessions DEF is_idle, EmptyMap, IsSession, IsMap
      <3> QED
        BY <2>2, <3>1, <3>2 DEF Open, Index
    <2>3. CASE Server \notin DOMAIN c_sessions
      <3>1. Server \notin DOMAIN c_sessions'
        BY <1>2, <2>3 DEF Restrict
      <3> QED
        BY <2>3, <3>1 DEF Open, Index
    <2> QED
      BY <2>1, <2>2, <2>3
  <1>5. c_next_cleanup' \in 0 .. IDLE_SESSION_CLEANUP_INTERVAL
    BY TimingAssumption DEF C!CleanupTimer
  <1>6. C!TypeOK'
    BY <1>1, <1>3, <1>5
    DEF C!CleanupTimer, C!TypeOK, C!clientVars, C!serverVars, C!historyVars, C!SeenOK
  <1> QED
    BY <1>4, <1>6 DEF C!CleanupTimer, C!clientVars

-----------------------------------------------------------------------------
(* What a step of the server does to its tables, its queues and the        *)
(* packets it sends.                                                       *)

ServerRest == <<s_running, s_caller, s_outbound_requests, s_transmissions>>

\* A step of the server that keeps its sessions' type and changes these variables
\* within theirs keeps the server's type.
LEMMA ServerTyped ==
  ASSUME S!TypeOK, S!SessionsOK', UNCHANGED ServerRest,
         s_next_cleanup' \in 0 .. IDLE_SESSION_CLEANUP_INTERVAL,
         s_server_requests' \in Seq(S!ServerMessages),
         s_server_responses' \in Seq(S!ServerMessages),
         \A x \in s_sent' : x \in [peer : {Client}, packet : Packets],
         S!SeenOK', s_crossed' \subseteq {Client} \X (Tokens \cup {None})
  PROVE  S!TypeOK'
  BY BridgeS DEF S!TypeOK, ServerRest

\* The server's queues hold packets from the client.
LEMMA ServerMessagesType ==
  /\ S!ServerMessages = [peer : {Client}, request : Packets]
  /\ S!SeenEntries = [request : Packets, age : 0 .. EXCHANGE_LIFETIME, overdue : BOOLEAN]
  BY BridgeS DEF S!ServerMessages, S!SeenEntries

\* The parts of TypeOK that the steps below need.
LEMMA ServerParts ==
  ASSUME TypeOK
  PROVE  /\ S!TypeOK /\ S!SessionsOK /\ S!SeenOK
         /\ s_next_cleanup \in 0 .. IDLE_SESSION_CLEANUP_INTERVAL
         /\ s_server_requests \in Seq(S!ServerMessages)
         /\ s_server_responses \in Seq(S!ServerMessages)
         /\ s_crossed \subseteq {Client} \X (Tokens \cup {None})
  BY BridgeS DEF TypeOK, S!TypeOK

\* What a duplicate is answered with is a packet.
LEMMA CachedPackets ==
  ASSUME S!SessionsOK, NEW m \in DOMAIN Table, Table[m].cached_response # None
  PROVE  Table[m].cached_response \in Packets
  <1>1. Table[m] \in DedupEntries
    <2>1. CASE Client \in DOMAIN s_sessions
      BY <2>1, ServerSessions DEF Table, IsSession, IsMap
    <2>2. CASE Client \notin DOMAIN s_sessions
      BY <2>2 DEF Table, EmptyMap
    <2> QED
      BY <2>1, <2>2
  <1> QED
    BY <1>1 DEF DedupEntries

\* A request is a duplicate and at most answered from the table, or new.
LEMMA ServerReceives ==
  ASSUME TypeOK, NEW k \in Packets, IsAsk(k), S!RecvPacket(Client, k)
  PROVE  /\ S!TypeOK'
         /\ UNCHANGED <<s_running, s_server_responses>>
         /\ \/ /\ k.mid \in DOMAIN Table
               /\ Table' = Table /\ Owed' = Owed
               /\ UNCHANGED s_server_requests
               /\ \A x \in s_sent' : /\ k.type = "Confirmable"
                                     /\ x.packet = Table[k.mid].cached_response
                                     /\ x.packet # None /\ x.packet \in Packets
            \/ /\ k.mid \notin DOMAIN Table
               /\ Table' = Insert(Table, k.mid, NewDedupEntry)
               /\ Owed' = IF k.type = "Confirmable" THEN Insert(Owed, k.token, k.mid) ELSE Owed
               /\ s_server_requests' =
                    Append(s_server_requests, [peer |-> Client, request |-> k])
               /\ s_sent' = {}
  <1>1. /\ k.type \in {"Confirmable", "NonConfirmable"} /\ k.code = "Request"
        /\ k.mid \in MIDs /\ k.token \in Tokens \cup {None}
    BY DEF IsAsk, C!RequestPacket, Packets
  <1>2. CASE S!RecvDuplicate(Client, k)
    <2>1. /\ Client \in DOMAIN s_sessions /\ is_duplicate(s_sessions[Client], k.mid)
          /\ UNCHANGED <<s_running, s_server_responses, s_server_requests, s_sessions>>
          /\ s_sent' = {[peer |-> Client, packet |-> p] : p \in
                          IF k.type = "Confirmable"
                          THEN get_cached_response(s_sessions[Client], k.mid) ELSE {}}
      BY <1>2, BridgeS DEF S!RecvDuplicate, S!taskVars, S!serverVars, S!Send
    <2>2. k.mid \in DOMAIN Table /\ Table' = Table /\ Owed' = Owed
      BY <2>1 DEF is_duplicate, Table, Owed
    <2>3. \A x \in s_sent' : /\ k.type = "Confirmable"
                             /\ x.packet = Table[k.mid].cached_response /\ x.packet # None
                             /\ x = [peer |-> Client, packet |-> x.packet]
      BY <2>1 DEF get_cached_response, Table
    <2>4. \A x \in s_sent' : x.packet \in Packets /\ x \in [peer : {Client}, packet : Packets]
      BY <2>2, <2>3, ServerParts, CachedPackets
    <2>5. S!SessionsOK' /\ S!SeenOK'
      BY <2>1, <1>2, ServerParts, BridgeS
      DEF S!RecvDuplicate, S!historyVars, S!SessionsOK, S!SeenOK, Range
    <2>6. S!TypeOK'
      BY <1>2, <2>1, <2>4, <2>5, ServerParts, ServerTyped
      DEF S!RecvDuplicate, S!taskVars, S!clientVars, S!serverVars, S!historyVars, ServerRest
    <2> QED
      BY <2>1, <2>2, <2>3, <2>4, <2>6
  <1>3. CASE S!RecvRequest(Client, k)
    <2>1. PICK s \in S!SessionEntry(Client) :
            /\ ~ is_duplicate(s, k.mid)
            /\ S!SetSession(Client, LET recorded == record_inbound_mid(s, k.mid)
                                    IN  IF k.type = "Confirmable"
                                        THEN record_inbound_con(recorded, k.token, k.mid)
                                        ELSE recorded)
      BY <1>3, BridgeS DEF S!RecvRequest, S!RecordRequest
    <2> DEFINE recorded == record_inbound_mid(s, k.mid)
               u == IF k.type = "Confirmable" THEN record_inbound_con(recorded, k.token, k.mid)
                    ELSE recorded
    <2>2. Fields(s, s.exchanges, s.mid_to_token, Table, Owed)
      BY ServerParts, ServerEntry
    <2>3. Fields(recorded, s.exchanges, s.mid_to_token, Insert(Table, k.mid, NewDedupEntry), Owed)
      BY <1>1, <2>2, InboundFields DEF Fields
    <2> HIDE DEF recorded
    <2>4. /\ IsSession(u) /\ u.inbound_dedup = Insert(Table, k.mid, NewDedupEntry)
          /\ u.inbound_con_mids = IF k.type = "Confirmable" THEN Insert(Owed, k.token, k.mid)
                                  ELSE Owed
      BY <1>1, <2>3, InboundFields DEF Fields
    <2>5. k.mid \notin DOMAIN Table
      BY <2>1, <2>2 DEF Fields, is_duplicate
    <2>6. S!SetSession(Client, u)
      BY <2>1 DEF recorded
    <2> HIDE DEF u
    <2>7. S!SessionsOK' /\ Table' = u.inbound_dedup /\ Owed' = u.inbound_con_mids
      BY <2>4, <2>6, ServerParts, ServerStores
    <2>8. /\ s_server_requests' = Append(s_server_requests, [peer |-> Client, request |-> k])
          /\ s_sent' = {}
          /\ UNCHANGED <<s_running, s_server_responses>>
      BY <1>3 DEF S!RecvRequest, S!Send
    <2>9. s_server_requests' \in Seq(S!ServerMessages)
      BY <2>8, ServerParts, ServerMessagesType, AppendProperties
    <2>10. S!SeenOK'
      <3> DEFINE late == \E q \in S!Unanswered(Client) : q.mid = k.mid
                 entry == [request |-> k, age |-> 0, overdue |-> late]
      <3>1. s_seen' = [s_seen EXCEPT ![Client] = Insert(@, k.mid, entry)]
        BY <1>3, BridgeS DEF S!RecvRequest
      <3>2. 0 \in 0 .. EXCHANGE_LIFETIME /\ late \in BOOLEAN
        BY TimingAssumption
      <3> HIDE DEF late
      <3>3. entry \in S!SeenEntries
        BY <3>2, ServerMessagesType
      <3> HIDE DEF entry
      <3>4. /\ DOMAIN s_seen = {Client} /\ IsMap(s_seen[Client], MIDs, S!SeenEntries)
            /\ s_seen' = [s_seen EXCEPT ![Client] = Insert(s_seen[Client], k.mid, entry)]
        BY <3>1, ServerParts, BridgeS DEF S!SeenOK
      <3>5. IsMap(Insert(s_seen[Client], k.mid, entry), MIDs, S!SeenEntries)
        BY <1>1, <3>3, <3>4, InsertType
      <3> QED
        BY <3>4, <3>5, BridgeS DEF S!SeenOK
    <2>11. s_crossed' \subseteq {Client} \X (Tokens \cup {None})
      BY <1>1, <1>3, ServerParts DEF S!RecvRequest
    <2>12. S!TypeOK'
      BY <1>3, <2>7, <2>8, <2>9, <2>10, <2>11, ServerParts, ServerTyped
      DEF S!RecvRequest, S!clientVars, ServerRest
    <2> QED
      BY <2>4, <2>5, <2>7, <2>8, <2>12
  <1>4. /\ ~ S!RecvNonRequest(Client, k) /\ ~ S!RecvAck(Client, k)
        /\ ~ S!RecvPiggybacked(Client, k) /\ ~ S!RecvReset(Client, k)
    BY <1>1 DEF S!RecvNonRequest, S!RecvAck, S!RecvPiggybacked, S!RecvReset
  <1> QED
    BY <1>2, <1>3, <1>4 DEF S!RecvPacket

\* The heads of the server's queues are packets from the client.
LEMMA ServerQueues ==
  ASSUME TypeOK
  PROVE  /\ s_server_requests # << >> =>
              /\ Head(s_server_requests) \in [peer : {Client}, request : Packets]
              /\ Tail(s_server_requests) \in Seq(S!ServerMessages)
         /\ s_server_responses # << >> =>
              /\ Head(s_server_responses) \in [peer : {Client}, request : Packets]
              /\ Tail(s_server_responses) \in Seq(S!ServerMessages)
  BY ServerParts, ServerMessagesType, HeadTailProperties

\* A response has the token and the payload of its request.
LEMMA ResponsePacketType ==
  ASSUME NEW q \in Packets, NEW type \in MessageTypes, NEW mid \in MIDs
  PROVE  /\ S!ResponsePacket(q, type, mid) \in Packets
         /\ S!ResponsePacket(q, type, mid).type = type
         /\ S!ResponsePacket(q, type, mid).code = "Response"
         /\ S!ResponsePacket(q, type, mid).mid = mid
         /\ S!ResponsePacket(q, type, mid).token = q.token
         /\ S!ResponsePacket(q, type, mid).payload = q.payload
  BY DEF S!ResponsePacket, Packets, MessageClasses

\* A response is the ACK of the MID its request is owed one for, and then it
\* may be kept for duplicates, or it is a NON message of its own.
LEMMA ServerResponds ==
  ASSUME TypeOK, NEW ok \in BOOLEAN, S!OutboundResponse(ok)
  PROVE  /\ S!TypeOK'
         /\ UNCHANGED <<s_running, s_server_requests>>
         /\ s_server_responses # << >>
         /\ s_server_responses' = Tail(s_server_responses)
         /\ LET q == Head(s_server_responses).request
            IN  \/ /\ q.token \in DOMAIN Owed
                   /\ Owed' = RemoveAll(Owed, {q.token})
                   /\ LET mid == Owed[q.token]
                          packet == S!ResponsePacket(q, "Acknowledgement", mid)
                      IN  /\ Table' = Table \/ Table' = WithResponse(Table, mid, packet)
                          /\ \A x \in s_sent' : x.packet = packet
                \/ /\ q.token \notin DOMAIN Owed
                   /\ Owed' = Owed /\ Table' = Table
                   /\ \E mid \in MIDs : \A x \in s_sent' :
                        x.packet = S!ResponsePacket(q, "NonConfirmable", mid)
         /\ \A x \in s_sent' : x.packet \in Packets
  <1> DEFINE q == Head(s_server_responses).request
  <1>1. /\ s_server_responses # << >>
        /\ s_server_responses' = Tail(s_server_responses)
        /\ UNCHANGED <<s_running, s_server_requests>>
    BY DEF S!OutboundResponse
  <1>2. Head(s_server_responses) \in [peer : {Client}, request : Packets]
        /\ Tail(s_server_responses) \in Seq(S!ServerMessages)
    BY <1>1, ServerQueues
  <1>3. Head(s_server_responses).peer = Client /\ q \in Packets /\ q.token \in Tokens \cup {None}
    BY <1>2 DEF Packets
  <1>4. PICK s \in S!SessionEntry(Client) :
          IF q.token \in DOMAIN s.inbound_con_mids
          THEN LET mid    == s.inbound_con_mids[q.token]
                   packet == S!ResponsePacket(q, "Acknowledgement", mid)
                   taken  == take_inbound_con_mid(s, q.token)
               IN  /\ S!SetSession(Client, IF ok THEN cache_response_for_mid(taken, mid, packet)
                                           ELSE taken)
                   /\ S!Send(Client, IF ok THEN {packet} ELSE {})
          ELSE /\ S!SetSession(Client, allocate_mid(s))
               /\ S!Send(Client, IF ok
                    THEN {S!ResponsePacket(q, "NonConfirmable", s.mid_allocator.next)} ELSE {})
    BY <1>3, BridgeS DEF S!OutboundResponse
  <1> HIDE DEF q
  <1>5. Fields(s, s.exchanges, s.mid_to_token, Table, Owed) /\ IsSession(s)
    BY ServerParts, ServerEntry DEF Fields
  <1>6. \A packets : S!Send(Client, packets) =>
          /\ \A x \in s_sent' : x.packet \in packets
          /\ packets \subseteq Packets =>
               \A x \in s_sent' : x \in [peer : {Client}, packet : Packets]
    BY DEF S!Send
  <1>7. ASSUME S!SessionsOK', \A x \in s_sent' : x \in [peer : {Client}, packet : Packets]
        PROVE  S!TypeOK'
    <2>1. S!SeenOK'
      BY ServerParts DEF S!OutboundResponse, S!historyVars, S!SeenOK
    <2> QED
      BY <1>1, <1>2, <1>7, <2>1, ServerParts, ServerTyped
      DEF S!OutboundResponse, S!clientVars, S!historyVars, ServerRest
  <1>8. CASE q.token \in DOMAIN Owed
    <2> DEFINE mid    == Owed[q.token]
               packet == S!ResponsePacket(q, "Acknowledgement", mid)
               taken  == take_inbound_con_mid(s, q.token)
               u      == IF ok THEN cache_response_for_mid(taken, mid, packet) ELSE taken
    <2>1. /\ S!SetSession(Client, u)
          /\ S!Send(Client, IF ok THEN {packet} ELSE {})
      BY <1>4, <1>5, <1>8 DEF Fields
    <2>2. mid \in MIDs
      BY <1>5, <1>8 DEF Fields, IsSession, IsMap
    <2> HIDE DEF mid
    <2>3. packet \in Packets
      <3>1. "Acknowledgement" \in MessageTypes
        BY DEF MessageTypes
      <3> QED
        BY <1>3, <2>2, <3>1, ResponsePacketType
    <2> HIDE DEF packet
    <2>4. Fields(taken, s.exchanges, s.mid_to_token, Table, RemoveAll(Owed, {q.token}))
      <3>1. Fields(take_inbound_con_mid(s, q.token), s.exchanges, s.mid_to_token,
                   s.inbound_dedup, RemoveAll(s.inbound_con_mids, {q.token}))
        BY <1>5, <2>3, AnswerFields
      <3>2. s.inbound_dedup = Table /\ s.inbound_con_mids = Owed
        BY <1>5 DEF Fields
      <3> QED
        BY <3>1, <3>2
    <2> HIDE DEF taken
    <2>5. /\ IsSession(u) /\ u.inbound_con_mids = RemoveAll(Owed, {q.token})
          /\ u.inbound_dedup = Table \/ u.inbound_dedup = WithResponse(Table, mid, packet)
      <3>1. /\ IsSession(taken) /\ taken.inbound_dedup = Table
            /\ taken.inbound_con_mids = RemoveAll(Owed, {q.token})
        BY <2>4 DEF Fields
      <3>2. Fields(cache_response_for_mid(taken, mid, packet), taken.exchanges,
                   taken.mid_to_token, WithResponse(Table, mid, packet), taken.inbound_con_mids)
        BY <2>3, <3>1, AnswerFields
      <3> QED
        BY <3>1, <3>2 DEF Fields
    <2> HIDE DEF u
    <2>6. S!SessionsOK' /\ Table' = u.inbound_dedup /\ Owed' = u.inbound_con_mids
      BY <2>1, <2>5, ServerParts, ServerStores
    <2>7. \A x \in s_sent' : x.packet = packet /\ x \in [peer : {Client}, packet : Packets]
      BY <2>1, <2>3, <1>6
    <2>8. S!TypeOK'
      BY <2>6, <2>7, <1>7
    <2> QED
      BY <1>1, <1>8, <2>3, <2>5, <2>6, <2>7, <2>8 DEF q, mid, packet
  <1>9. CASE q.token \notin DOMAIN Owed
    <2> DEFINE mid    == s.mid_allocator.next
               packet == S!ResponsePacket(q, "NonConfirmable", mid)
               u      == allocate_mid(s)
    <2>1. /\ S!SetSession(Client, u)
          /\ S!Send(Client, IF ok THEN {packet} ELSE {})
      BY <1>4, <1>5, <1>9 DEF Fields
    <2>2. mid \in MIDs /\ packet \in Packets
      BY <1>3, <1>5, AllocateMidType, ResponsePacketType DEF MessageTypes
    <2>3. IsSession(u) /\ u.inbound_con_mids = Owed /\ u.inbound_dedup = Table
      BY <1>5, AllocateFields DEF Fields
    <2> HIDE DEF u, packet, mid
    <2>4. S!SessionsOK' /\ Table' = u.inbound_dedup /\ Owed' = u.inbound_con_mids
      BY <2>1, <2>3, ServerParts, ServerStores
    <2>5. \A x \in s_sent' : x.packet = packet /\ x \in [peer : {Client}, packet : Packets]
      BY <2>1, <2>2, <1>6
    <2>6. S!TypeOK'
      BY <2>4, <2>5, <1>7
    <2> QED
      BY <1>1, <1>9, <2>2, <2>3, <2>4, <2>5, <2>6 DEF q, packet
  <1> QED
    BY <1>8, <1>9

\* A request that has been handled waits for its response to be sent.
LEMMA ServerHandles ==
  ASSUME TypeOK, s_running, S!ServerHandle
  PROVE  /\ S!TypeOK'
         /\ Table' = Table /\ Owed' = Owed /\ UNCHANGED s_running
         /\ s_server_requests # << >>
         /\ s_server_requests' = Tail(s_server_requests)
         /\ s_server_responses' = Append(s_server_responses, Head(s_server_requests))
  <1>1. /\ s_server_requests # << >>
        /\ s_server_requests' = Tail(s_server_requests)
        /\ s_server_responses' = Append(s_server_responses, Head(s_server_requests))
        /\ s_sent' = {}
        /\ UNCHANGED <<s_sessions, s_next_cleanup, s_seen, s_crossed>> /\ UNCHANGED ServerRest
    BY DEF S!ServerHandle, S!taskVars, S!clientVars, S!historyVars, ServerRest
  <1>2. s_server_responses' \in Seq(S!ServerMessages)
    BY <1>1, ServerParts, ServerQueues, ServerMessagesType, AppendProperties
  <1>3. S!SessionsOK' /\ S!SeenOK'
    BY <1>1, ServerParts, BridgeS DEF S!SessionsOK, S!SeenOK, Range
  <1>4. S!TypeOK'
    BY <1>1, <1>2, <1>3, ServerParts, ServerQueues, ServerTyped
  <1> QED
    BY <1>1, <1>4 DEF ServerRest, Table, Owed

\* Dropping the server's idle session forgets nothing: an idle session is empty.
LEMMA ServerCleanup ==
  ASSUME TypeOK, S!CleanupTimer
  PROVE  /\ S!TypeOK' /\ Table' = Table /\ Owed' = Owed
         /\ UNCHANGED <<s_running, s_server_requests, s_server_responses>>
  <1>1. S!SessionsOK
    BY ServerParts
  <1>2. s_sessions' = Restrict(s_sessions, {p \in DOMAIN s_sessions : ~ is_idle(s_sessions[p])})
    BY BridgeS DEF S!CleanupTimer
  <1>3. S!SessionsOK'
    BY <1>1, <1>2, BridgeS DEF S!SessionsOK, Restrict, IsMap, Range
  <1>4. Table' = Table /\ Owed' = Owed
    <2>1. CASE Client \in DOMAIN s_sessions /\ ~ is_idle(s_sessions[Client])
      BY <1>2, <2>1 DEF Restrict, Table, Owed
    <2>2. CASE Client \in DOMAIN s_sessions /\ is_idle(s_sessions[Client])
      <3>1. Client \notin DOMAIN s_sessions'
        BY <1>2, <2>2 DEF Restrict
      <3>2. /\ s_sessions[Client].inbound_dedup = EmptyMap
            /\ s_sessions[Client].inbound_con_mids = EmptyMap
        BY <1>1, <2>2, ServerSessions DEF is_idle, EmptyMap, IsSession, IsMap
      <3> QED
        BY <2>2, <3>1, <3>2 DEF Table, Owed
    <2>3. CASE Client \notin DOMAIN s_sessions
      <3>1. Client \notin DOMAIN s_sessions'
        BY <1>2, <2>3 DEF Restrict
      <3> QED
        BY <2>3, <3>1 DEF Table, Owed
    <2> QED
      BY <2>1, <2>2, <2>3
  <1>5. s_next_cleanup' \in 0 .. IDLE_SESSION_CLEANUP_INTERVAL /\ s_sent' = {}
    BY TimingAssumption DEF S!CleanupTimer
  <1>6. S!SeenOK'
    BY ServerParts DEF S!CleanupTimer, S!historyVars, S!SeenOK
  <1>7. S!TypeOK'
    BY <1>3, <1>5, <1>6, ServerParts, ServerTyped
    DEF S!CleanupTimer, S!clientVars, S!serverVars, S!historyVars, ServerRest
  <1> QED
    BY <1>4, <1>7 DEF S!CleanupTimer, S!serverVars

-----------------------------------------------------------------------------
(* The clock. *)

\* What an entry becomes that is not forgotten, in the history of one peer.
Older(entries) ==
  [m \in {m \in DOMAIN entries : entries[m].age + 1 < EXCHANGE_LIFETIME} |->
     [entries[m] EXCEPT !.age = @ + 1]]

SeenType(V) == [request : V, age : 0 .. EXCHANGE_LIFETIME, overdue : BOOLEAN]

\* What grows older keeps its type.
LEMMA OlderType ==
  ASSUME NEW entries, NEW V, IsMap(entries, MIDs, SeenType(V))
  PROVE  IsMap(Older(entries), MIDs, SeenType(V))
  <1>1. \A n \in 0 .. EXCHANGE_LIFETIME :
          n + 1 < EXCHANGE_LIFETIME => n + 1 \in 0 .. EXCHANGE_LIFETIME
    BY TimingAssumption
  <1>2. \A x \in SeenType(V) : x.age + 1 < EXCHANGE_LIFETIME =>
          [x EXCEPT !.age = @ + 1] \in SeenType(V)
    BY <1>1 DEF SeenType
  <1>3. \A m \in DOMAIN entries : m \in MIDs
          /\ entries[m] \in SeenType(V)
    BY DEF IsMap
  <1> HIDE DEF IsMap
  <1>4. /\ \A m \in DOMAIN Older(entries) : Older(entries)[m] \in SeenType(V)
        /\ DOMAIN Older(entries) \subseteq MIDs
    BY <1>2, <1>3 DEF Older
  <1>5. Older(entries) = [m \in DOMAIN Older(entries) |-> Older(entries)[m]]
    BY DEF Older
  <1> QED
    BY <1>4, <1>5 DEF IsMap

\* Time ends none of the client's exchanges by itself.
LEMMA ClientTick ==
  ASSUME TypeOK, C!Tick
  PROVE  /\ C!TypeOK' /\ ClientRemains
         /\ UNCHANGED <<c_running, c_outbound_requests, c_caller>>
  <1>1. C!TypeOK /\ C!SessionsOK /\ C!SeenOK
    BY DEF TypeOK, C!TypeOK
  <1>2. c_sessions' = [p \in DOMAIN c_sessions |-> AgeSession(c_sessions[p])]
    BY BridgeC DEF C!Tick
  <1>3. /\ DOMAIN c_sessions' = DOMAIN c_sessions
        /\ c_sessions' = [p \in DOMAIN c_sessions |-> c_sessions'[p]]
        /\ \A p \in DOMAIN c_sessions :
             /\ IsSession(c_sessions'[p])
             /\ Remains(c_sessions[p].exchanges, c_sessions[p].mid_to_token,
                        c_sessions'[p].exchanges, c_sessions'[p].mid_to_token)
    <2>1. \A s : IsSession(s) =>
            /\ IsSession(AgeSession(s))
            /\ Remains(s.exchanges, s.mid_to_token,
                       AgeSession(s).exchanges, AgeSession(s).mid_to_token)
      BY AgeRemains DEF Fields
    <2> QED
      BY <1>1, <1>2, <2>1, ClientSessions
  <1>4. C!SessionsOK' /\ ClientRemains
    BY <1>1, <1>3, ClientReplaces
  <1>5. C!SeenOK'
    <2>1. /\ DOMAIN c_seen = {Server}
          /\ IsMap(c_seen[Server], MIDs, SeenType(Packets))
      BY <1>1, BridgeC DEF C!SeenOK, C!SeenEntries, SeenType
    <2>2. c_seen' = [p \in {Server} |-> Older(c_seen[p])]
      BY DEF C!Tick, Older
    <2> QED
      BY <2>1, <2>2, OlderType, BridgeC DEF C!SeenOK, C!SeenEntries, SeenType
  <1>6. c_next_cleanup' \in 0 .. IDLE_SESSION_CLEANUP_INTERVAL
    BY <1>1, TimingAssumption DEF C!Tick, C!TickDown, C!TypeOK
  <1>7. C!TypeOK'
    BY <1>1, <1>4, <1>5, <1>6 DEF C!Tick, C!TypeOK, C!clientVars, C!serverVars
  <1> QED
    BY <1>4, <1>7 DEF C!Tick, C!clientVars

\* Time keeps the server's cached responses and the MIDs it owes.
LEMMA ServerTick ==
  ASSUME TypeOK, S!Tick
  PROVE  /\ S!TypeOK' /\ SameResponses(Table, Table') /\ Owed' = Owed
         /\ UNCHANGED <<s_running, s_server_requests, s_server_responses>>
  <1>1. S!SessionsOK /\ S!SeenOK
    BY ServerParts
  <1>2. s_sessions' = [p \in DOMAIN s_sessions |-> AgeSession(s_sessions[p])]
    BY BridgeS DEF S!Tick
  <1>3. \A s : IsSession(s) =>
          /\ IsSession(AgeSession(s))
          /\ SameResponses(s.inbound_dedup, AgeSession(s).inbound_dedup)
          /\ AgeSession(s).inbound_con_mids = s.inbound_con_mids
    BY AgeRemains DEF Fields
  <1>4. S!SessionsOK'
    BY <1>1, <1>2, <1>3, ServerSessions, BridgeS DEF S!SessionsOK, IsMap, Range
  <1>5. SameResponses(Table, Table') /\ Owed' = Owed
    <2>1. CASE Client \in DOMAIN s_sessions
      BY <1>1, <1>2, <1>3, <2>1, ServerSessions DEF Table, Owed
    <2>2. CASE Client \notin DOMAIN s_sessions
      <3>1. Client \notin DOMAIN s_sessions'
        BY <1>2, <2>2
      <3> QED
        BY <2>2, <3>1 DEF Table, Owed, SameResponses
    <2> QED
      BY <2>1, <2>2
  <1>6. S!SeenOK'
    <2>1. /\ DOMAIN s_seen = {Client}
          /\ IsMap(s_seen[Client], MIDs, SeenType(Packets))
      BY <1>1, BridgeS, ServerMessagesType DEF S!SeenOK, SeenType
    <2>2. s_seen' = [p \in {Client} |-> Older(s_seen[p])]
      BY DEF S!Tick, Older
    <2> QED
      BY <2>1, <2>2, OlderType, BridgeS, ServerMessagesType DEF S!SeenOK, SeenType
  <1>7. s_next_cleanup' \in 0 .. IDLE_SESSION_CLEANUP_INTERVAL
    BY ServerParts, TimingAssumption DEF S!Tick, S!TickDown
  <1>8. S!TypeOK'
    BY <1>4, <1>6, <1>7, ServerParts, ServerTyped DEF S!Tick, S!clientVars, S!serverVars, ServerRest
  <1> QED
    BY <1>5, <1>8 DEF S!Tick, S!serverVars

-----------------------------------------------------------------------------
(* The actions of the two stacks and the network.                          *)

\* A step that adds no request and no answer: some may be forgotten, and a
\* request that is kept may be under way again.
NothingNew ==
  /\ ClientRemains
  /\ UnderWay(Server)' \subseteq UnderWay(Server) \cup Repeated
  /\ UnderWay(Client)' \subseteq UnderWay(Client)
  /\ SameResponses(Table, Table') /\ Owed' = Owed
  /\ UNCHANGED <<c_running, s_running, s_server_requests, s_server_responses, executions>>

ServerIdle ==
  /\ S!TypeOK' /\ Table' = Table /\ Owed' = Owed
  /\ UNCHANGED <<s_running, s_server_requests, s_server_responses>>

ClientIdle ==
  /\ C!TypeOK' /\ Open' = Open /\ Index' = Index
  /\ UNCHANGED <<c_running, c_caller, c_outbound_requests>>

\* The server is idle while the client takes a step.
LEMMA ServerIdles == ASSUME TypeOK, UNCHANGED sVars PROVE ServerIdle
  BY DEF TypeOK, sVars, ServerIdle, Table, Owed, S!TypeOK, S!SessionsOK, S!Range, S!SeenOK

\* The client is idle while the server takes a step.
LEMMA ClientIdles == ASSUME TypeOK, UNCHANGED cVars PROVE ClientIdle
  BY DEF TypeOK, cVars, ClientIdle, Open, Index, C!TypeOK, C!SessionsOK, C!Range, C!SeenOK

\* The parts of the type invariant.
LEMMA TypeParts ==
  ASSUME TypeOK
  PROVE  NetworkOK /\ executions \in [Requests -> Nat] /\ C!TypeOK /\ S!TypeOK
  BY DEF TypeOK, NetworkOK

\* A step that sends nothing leaves the network alone.
LEMMA Quietens ==
  ASSUME TypeOK, Quiet
  PROVE  /\ NetworkOK' /\ UNCHANGED executions
         /\ \A h : UnderWay(h)' = UnderWay(h)
  BY TypeParts DEF Quiet, NetworkOK, UnderWay, IsMap

\* What the client sends is under way to the server.
LEMMA ClientPosts ==
  ASSUME TypeOK, CSends, \A x \in c_sent' : x.packet \in Packets
  PROVE  /\ NetworkOK' /\ UNCHANGED executions
         /\ UnderWay(Server)' = UnderWay(Server) \cup {x.packet : x \in c_sent'}
         /\ UnderWay(Client)' = UnderWay(Client)
  <1> DEFINE packets == c_sent'
  <1>1. network' = Post(Server, packets) /\ UNCHANGED executions
    BY DEF CSends
  <1>2. \A x \in packets : x.packet \in Packets
    OBVIOUS
  <1> HIDE DEF packets
  <1>3. NetworkOK'
    BY <1>1, <1>2, TypeParts, PostType
  <1>4. /\ UnderWay(Server)' = UnderWay(Server) \cup {x.packet : x \in packets}
        /\ UnderWay(Client)' = UnderWay(Client)
    BY <1>1, PostUnderWay, HostsDiffer
  <1> QED
    BY <1>1, <1>3, <1>4 DEF packets

\* What the server sends is under way to the client.
LEMMA ServerPosts ==
  ASSUME TypeOK, SSends, \A x \in s_sent' : x.packet \in Packets
  PROVE  /\ NetworkOK' /\ UNCHANGED executions
         /\ UnderWay(Client)' = UnderWay(Client) \cup {x.packet : x \in s_sent'}
         /\ UnderWay(Server)' = UnderWay(Server)
  <1> DEFINE packets == s_sent'
  <1>1. network' = Post(Client, packets) /\ UNCHANGED executions
    BY DEF SSends
  <1>2. \A x \in packets : x.packet \in Packets
    OBVIOUS
  <1> HIDE DEF packets
  <1>3. NetworkOK'
    BY <1>1, <1>2, TypeParts, PostType
  <1>4. /\ UnderWay(Client)' = UnderWay(Client) \cup {x.packet : x \in packets}
        /\ UnderWay(Server)' = UnderWay(Server)
    BY <1>1, PostUnderWay, HostsDiffer
  <1> QED
    BY <1>1, <1>3, <1>4 DEF packets

\* The type invariant from its parts.
LEMMA TypeTogether ==
  ASSUME TypeOK, C!TypeOK', S!TypeOK', NetworkOK', executions' \in [Requests -> Nat]
  PROVE  TypeOK'
  BY DEF TypeOK, NetworkOK

\* What is sent is a packet.
LEMMA SentPackets ==
  /\ C!TypeOK' => \A x \in c_sent' : x.packet \in Packets
  /\ S!TypeOK' => \A x \in s_sent' : x.packet \in Packets
  BY BridgeC, BridgeS DEF C!TypeOK, S!TypeOK

\* A step of the client that sends no new request adds nothing.
LEMMA NewNothing ==
  ASSUME ClientRemains, ServerIdle,
         UnderWay(Server)' \subseteq UnderWay(Server) \cup Repeated,
         UnderWay(Client)' \subseteq UnderWay(Client),
         UNCHANGED <<c_running, executions>>
  PROVE  NothingNew
  BY DEF NothingNew, ServerIdle, SameResponses

\* A response reaches at most the caller whose request it answers.
LEMMA CReceivesEffect ==
  ASSUME TypeOK, MessagesInv, CReceives
  PROVE  /\ TypeOK' /\ NothingNew
         /\ UNCHANGED c_outbound_requests
         /\ \E k \in UnderWay(Client) : \E R :
              /\ TokenInv /\ MidInv => R \subseteq {k.payload}
              /\ c_caller' = C!Tell(R, [kind |-> "Response", payload |-> k.payload])
  <1>1. PICK k \in UnderWay(Client) : C!RecvPacket(Server, k)
    BY DEF CReceives
  <1>2. /\ C!TypeOK' /\ ClientRemains
        /\ UNCHANGED <<c_running, c_outbound_requests>>
        /\ c_sent' = {}
        /\ \E R : /\ TokenInv /\ MidInv => R \subseteq {k.payload}
                  /\ c_caller' = C!Tell(R, [kind |-> "Response", payload |-> k.payload])
    BY <1>1, ClientReceives
  <1>3. ServerIdle
    BY ServerIdles DEF CReceives
  <1>4. /\ NetworkOK' /\ UNCHANGED executions
        /\ UnderWay(Server)' = UnderWay(Server) /\ UnderWay(Client)' = UnderWay(Client)
    BY <1>2, ClientPosts DEF CReceives
  <1>5. TypeOK'
    BY <1>2, <1>3, <1>4, TypeParts, TypeTogether DEF ServerIdle
  <1>6. NothingNew
    BY <1>2, <1>3, <1>4, NewNothing
  <1> QED
    BY <1>2, <1>5, <1>6

\* The timer resends requests that are open and times the others out.
LEMMA CTimerEffect ==
  ASSUME TypeOK, CTimer
  PROVE  /\ TypeOK' /\ NothingNew
         /\ UNCHANGED c_outbound_requests
         /\ c_caller' = [r \in Requests |-> c_caller'[r]]
         /\ \A r \in Requests :
              \/ c_caller'[r] = c_caller[r]
              \/ c_caller[r] = C!Waiting /\ c_caller'[r] \in C!Results
                 /\ c_caller'[r].kind = "Timeout"
  <1>1. C!RetransmissionTimer /\ CSends /\ UNCHANGED sVars
    BY DEF CTimer
  <1>2. /\ C!TypeOK' /\ ClientRemains
        /\ UNCHANGED <<c_running, c_outbound_requests>>
        /\ \A x \in c_sent' : x.packet \in Repeated
        /\ c_caller' = [r \in Requests |-> c_caller'[r]]
        /\ \A r \in Requests :
             \/ c_caller'[r] = c_caller[r]
             \/ c_caller[r] = C!Waiting /\ c_caller'[r] \in C!Results
                /\ c_caller'[r].kind = "Timeout"
    BY <1>1, ClientTimer
  <1>3. ServerIdle
    BY <1>1, ServerIdles
  <1>4. /\ NetworkOK' /\ UNCHANGED executions
        /\ UnderWay(Server)' = UnderWay(Server) \cup {x.packet : x \in c_sent'}
        /\ UnderWay(Client)' = UnderWay(Client)
    BY <1>1, <1>2, SentPackets, ClientPosts
  <1>5. TypeOK'
    BY <1>2, <1>3, <1>4, TypeParts, TypeTogether DEF ServerIdle
  <1>6. UnderWay(Server)' \subseteq UnderWay(Server) \cup Repeated
    BY <1>2, <1>4
  <1>7. NothingNew
    BY <1>2, <1>3, <1>4, <1>6, NewNothing
  <1> QED
    BY <1>2, <1>5, <1>7

\* Dropping an idle session of the client adds nothing.
LEMMA CCleanupEffect ==
  ASSUME TypeOK, CCleanup
  PROVE  TypeOK' /\ NothingNew /\ UNCHANGED <<c_caller, c_outbound_requests>>
  <1>1. /\ C!TypeOK' /\ Open' = Open /\ Index' = Index
        /\ UNCHANGED <<c_running, c_outbound_requests, c_caller>>
    BY ClientCleanup DEF CCleanup
  <1>2. ServerIdle /\ NetworkOK' /\ UNCHANGED executions /\ \A h : UnderWay(h)' = UnderWay(h)
    BY ServerIdles, Quietens DEF CCleanup
  <1>3. ClientRemains
    BY <1>1 DEF ClientRemains, Remains, SameExchange
  <1> QED
    BY <1>1, <1>2, <1>3, TypeParts, TypeTogether, NewNothing DEF ServerIdle

\* Dropping an idle session of the server adds nothing.
LEMMA SCleanupEffect ==
  ASSUME TypeOK, SCleanup
  PROVE  TypeOK' /\ NothingNew /\ UNCHANGED <<c_caller, c_outbound_requests>>
  <1>1. ServerIdle
    BY ServerCleanup DEF SCleanup, ServerIdle
  <1>2. ClientIdle /\ NetworkOK' /\ UNCHANGED executions /\ \A h : UnderWay(h)' = UnderWay(h)
    BY ClientIdles, Quietens DEF SCleanup
  <1>3. ClientRemains
    BY <1>2 DEF ClientRemains, Remains, SameExchange, ClientIdle
  <1> QED
    BY <1>1, <1>2, <1>3, TypeParts, TypeTogether, NewNothing DEF ServerIdle, ClientIdle

\* Time adds nothing.
LEMMA TickEffect ==
  ASSUME TypeOK, Tick
  PROVE  TypeOK' /\ NothingNew /\ UNCHANGED <<c_caller, c_outbound_requests>>
  <1>1. C!Tick /\ S!Tick /\ network' = AgeNetwork /\ UNCHANGED executions
    BY DEF Tick
  <1>2. /\ C!TypeOK' /\ ClientRemains
        /\ UNCHANGED <<c_running, c_outbound_requests, c_caller>>
    BY <1>1, ClientTick
  <1>3. /\ S!TypeOK' /\ SameResponses(Table, Table') /\ Owed' = Owed
        /\ UNCHANGED <<s_running, s_server_requests, s_server_responses>>
    BY <1>1, ServerTick
  <1>4. NetworkOK' /\ \A h : UnderWay(h)' \subseteq UnderWay(h)
    BY <1>1, TypeParts, AgeNetworkType, AgeUnderWay
  <1>5. TypeOK'
    BY <1>1, <1>2, <1>3, <1>4, TypeParts, TypeTogether
  <1> QED
    BY <1>1, <1>2, <1>3, <1>4, <1>5 DEF NothingNew

\* A caller asks, gives up, or has its request taken from the channel.
LEMMA CCallerEffect ==
  ASSUME TypeOK, c_running, CCaller
  PROVE  /\ TypeOK' /\ NothingNew
         /\ \/ \E r \in Requests :
                 /\ c_caller[r] = C!Idle
                 /\ c_caller' = [c_caller EXCEPT ![r] = C!Waiting]
                 /\ c_outbound_requests' =
                      Append(c_outbound_requests, [request |-> r, peer |-> Server])
            \/ \E r \in Requests :
                 /\ c_caller[r] = C!Waiting
                 /\ c_caller' = [c_caller EXCEPT ![r] = [kind |-> "ClientTimeout"]]
                 /\ UNCHANGED c_outbound_requests
            \/ /\ c_outbound_requests # << >>
               /\ c_outbound_requests' = Tail(c_outbound_requests)
               /\ \E R : c_caller' = C!Tell(R, [kind |-> "ChannelClosed"])
  <1> DEFINE Change ==
               \/ \E r \in Requests :
                    /\ c_caller[r] = C!Idle
                    /\ c_caller' = [c_caller EXCEPT ![r] = C!Waiting]
                    /\ c_outbound_requests' =
                         Append(c_outbound_requests, [request |-> r, peer |-> Server])
               \/ \E r \in Requests :
                    /\ c_caller[r] = C!Waiting
                    /\ c_caller' = [c_caller EXCEPT ![r] = [kind |-> "ClientTimeout"]]
                    /\ UNCHANGED c_outbound_requests
               \/ /\ c_outbound_requests # << >>
                  /\ c_outbound_requests' = Tail(c_outbound_requests)
                  /\ \E R : c_caller' = C!Tell(R, [kind |-> "ChannelClosed"])
  <1>1. C!TypeOK' /\ Open' = Open /\ Index' = Index /\ UNCHANGED c_running /\ Change
    <2>1. CASE \E r \in Requests : C!SendRequest(r, Server)
      <3>1. PICK r \in Requests : C!SendRequest(r, Server)
        BY <2>1
      <3> QED
        BY <3>1, ClientSendRequest
    <2>2. CASE \E r \in Requests : C!ClientTimeout(r)
      <3>1. PICK r \in Requests : C!ClientTimeout(r)
        BY <2>2
      <3> QED
        BY <3>1, ClientGivesUp
    <2>3. CASE C!OutboundRequestUnencodable
      BY <2>3, ClientUnencodable
    <2> QED
      BY <2>1, <2>2, <2>3 DEF CCaller
  <1> HIDE DEF Change
  <1>2. ServerIdle /\ NetworkOK' /\ UNCHANGED executions /\ \A h : UnderWay(h)' = UnderWay(h)
    BY ServerIdles, Quietens DEF CCaller
  <1>3. ClientRemains
    BY <1>1 DEF ClientRemains, Remains, SameExchange
  <1>4. TypeOK'
    BY <1>1, <1>2, TypeParts, TypeTogether DEF ServerIdle
  <1>5. NothingNew
    BY <1>1, <1>2, <1>3, NewNothing
  <1> QED
    BY <1>1, <1>4, <1>5 DEF Change

\* Nothing goes by the MID or by the token any more.
Fresh(token, mid) ==
  /\ \A k \in UnderWay(Client) \cup UnderWay(Server) \cup Queued :
       k.mid # mid /\ k.token # token
  /\ \A t \in DOMAIN Open : Open[t].message_id # mid
  /\ mid \notin DOMAIN Table

\* Nothing goes by a MID and a token that are not remembered.
LEMMA RememberedFresh ==
  ASSUME NEW stale, stale, NEW packet,
         packet.mid \notin Remembered(stale).mids, packet.token \notin Remembered(stale).tokens
  PROVE  Fresh(packet.token, packet.mid)
  <1> DEFINE open  == UNION {Range(c_sessions[p].exchanges) : p \in DOMAIN c_sessions}
             kept  == UNION {{m \in DOMAIN s_sessions[p].inbound_dedup :
                         stale \/ s_sessions[p].inbound_dedup[m].age < EXCHANGE_LIFETIME} :
                              p \in DOMAIN s_sessions}
             known == UnderWay(Client) \cup UnderWay(Server) \cup Queued
             mids  == {e.message_id : e \in open} \cup kept \cup {k.mid : k \in known}
  <1> DEFINE memory == Remembered(stale)
  <1>1. /\ memory = [mids |-> mids, tokens |-> {k.token : k \in known}]
        /\ packet.mid \notin memory.mids /\ packet.token \notin memory.tokens
    BY Zenon DEF Remembered, Queued
  <1> HIDE DEF open, kept, known, memory
  <1>2. packet.mid \notin mids /\ packet.token \notin {k.token : k \in known}
    BY <1>1
  <1>3. \A k \in known : k.mid # packet.mid /\ k.token # packet.token
    BY <1>2
  <1>4. \A t \in DOMAIN Open : Open[t].message_id # packet.mid
    <2> SUFFICES ASSUME NEW t \in DOMAIN Open PROVE Open[t].message_id # packet.mid
      OBVIOUS
    <2>1. Server \in DOMAIN c_sessions /\ Open = c_sessions[Server].exchanges
      BY DEF Open, EmptyMap
    <2>2. Open[t] \in Range(c_sessions[Server].exchanges)
      BY <2>1 DEF Range
    <2>3. Open[t] \in open
      BY <2>1, <2>2 DEF open
    <2> QED
      BY <1>2, <2>3
  <1>5. packet.mid \notin DOMAIN Table
    <2> SUFFICES ASSUME packet.mid \in DOMAIN Table PROVE FALSE
      OBVIOUS
    <2>1. Client \in DOMAIN s_sessions /\ Table = s_sessions[Client].inbound_dedup
      BY DEF Table, EmptyMap
    <2>2. packet.mid \in kept
      BY <2>1 DEF kept
    <2> QED
      BY <1>2, <2>2
  <1> QED
    BY <1>3, <1>4, <1>5 DEF Fresh, known

\* A request is registered and sent, under a MID and a token nothing goes by if
\* the client is careful.
LEMMA CAsksEffect ==
  ASSUME TypeOK, CAsks
  PROVE  /\ TypeOK' /\ ServerIdle
         /\ UNCHANGED <<c_running, executions>>
         /\ c_outbound_requests # << >>
         /\ c_outbound_requests' = Tail(c_outbound_requests)
         /\ \E R : c_caller' = C!Tell(R, [kind |-> "ChannelClosed"])
         /\ UnderWay(Client)' = UnderWay(Client)
         /\ LET r == Head(c_outbound_requests).request
            IN  \E token \in Tokens, mid \in MIDs, e \in Exchanges :
                  /\ Registers(r, token, mid, e)
                  /\ NothingReused(TRUE) => Fresh(token, mid)
                  /\ UnderWay(Server)' =
                       UnderWay(Server) \cup {C!RequestPacket(r, token, mid)}
  <1> DEFINE r == Head(c_outbound_requests).request
  <1>1. C!OutboundRequest /\ CSends /\ UNCHANGED sVars
    BY DEF CAsks
  <1>2. /\ C!TypeOK'
        /\ UNCHANGED c_running
        /\ c_outbound_requests # << >>
        /\ c_outbound_requests' = Tail(c_outbound_requests)
        /\ \E R : c_caller' = C!Tell(R, [kind |-> "ChannelClosed"])
    BY <1>1, ClientAsks
  <1>3. PICK token \in Tokens, mid \in MIDs, e \in Exchanges :
          /\ Registers(r, token, mid, e)
          /\ c_sent' = {[peer |-> Server, packet |-> C!RequestPacket(r, token, mid)]}
    BY <1>1, ClientAsks
  <1>4. r \in Requests
    BY <1>2, TypeParts, ClientQueue
  <1> HIDE DEF r
  <1> DEFINE packet == C!RequestPacket(r, token, mid)
  <1>5. packet.mid = mid /\ packet.token = token
    BY <1>4, RequestPacketType
  <1> HIDE DEF packet
  <1>6. c_sent' = {[peer |-> Server, packet |-> packet]}
    BY <1>3 DEF packet
  <1>7. ServerIdle
    BY <1>1, ServerIdles
  <1>8. /\ NetworkOK' /\ UNCHANGED executions
        /\ UnderWay(Server)' = UnderWay(Server) \cup {x.packet : x \in c_sent'}
        /\ UnderWay(Client)' = UnderWay(Client)
    BY <1>1, <1>2, SentPackets, ClientPosts
  <1>9. UnderWay(Server)' = UnderWay(Server) \cup {packet}
    BY <1>6, <1>8
  <1>10. ASSUME NothingReused(TRUE)
         PROVE  Fresh(token, mid)
    <2>1. packet.mid \notin Remembered(TRUE).mids /\ packet.token \notin Remembered(TRUE).tokens
      BY <1>6, <1>10 DEF NothingReused
    <2> QED
      BY <1>5, <2>1, RememberedFresh
  <1>11. TypeOK'
    BY <1>2, <1>7, <1>8, TypeParts, TypeTogether DEF ServerIdle
  <1> QED
    BY <1>2, <1>3, <1>7, <1>8, <1>9, <1>10, <1>11 DEF r, packet

\* A new MID is recorded and its request queued; a duplicate is answered from the
\* cache or not at all.
LEMMA SReceivesEffect ==
  ASSUME TypeOK, MessagesInv, SReceives
  PROVE  /\ TypeOK' /\ ClientIdle
         /\ UNCHANGED <<s_running, s_server_responses, executions>>
         /\ UnderWay(Server)' = UnderWay(Server)
         /\ \E k \in UnderWay(Server) :
              \/ /\ k.mid \in DOMAIN Table
                 /\ Table' = Table /\ Owed' = Owed
                 /\ UNCHANGED s_server_requests
                 /\ UnderWay(Client) \subseteq UnderWay(Client)'
                 /\ \A x \in UnderWay(Client)' : x \in UnderWay(Client)
                      \/ /\ k.type = "Confirmable"
                         /\ x = Table[k.mid].cached_response /\ x # None
              \/ /\ k.mid \in MIDs \ DOMAIN Table
                 /\ Table' = Insert(Table, k.mid, NewDedupEntry)
                 /\ Owed' = IF k.type = "Confirmable" THEN Insert(Owed, k.token, k.mid) ELSE Owed
                 /\ s_server_requests' =
                      Append(s_server_requests, [peer |-> Client, request |-> k])
                 /\ UnderWay(Client)' = UnderWay(Client)
  <1>1. PICK k \in UnderWay(Server) : S!RecvPacket(Client, k)
    BY DEF SReceives
  <1>2. k \in Packets /\ IsAsk(k) /\ k.mid \in MIDs
    <2>1. k \in Packets
      BY TypeParts, UnderWayType
    <2> QED
      BY <2>1 DEF MessagesInv, Packets
  <1>3. /\ S!TypeOK'
        /\ UNCHANGED <<s_running, s_server_responses>>
        /\ \/ /\ k.mid \in DOMAIN Table
              /\ Table' = Table /\ Owed' = Owed
              /\ UNCHANGED s_server_requests
              /\ \A x \in s_sent' : /\ k.type = "Confirmable"
                                    /\ x.packet = Table[k.mid].cached_response
                                    /\ x.packet # None /\ x.packet \in Packets
           \/ /\ k.mid \notin DOMAIN Table
              /\ Table' = Insert(Table, k.mid, NewDedupEntry)
              /\ Owed' = IF k.type = "Confirmable" THEN Insert(Owed, k.token, k.mid) ELSE Owed
              /\ s_server_requests' =
                   Append(s_server_requests, [peer |-> Client, request |-> k])
              /\ s_sent' = {}
    BY <1>1, <1>2, ServerReceives
  <1>4. ClientIdle
    BY ClientIdles DEF SReceives
  <1>5. /\ NetworkOK' /\ UNCHANGED executions
        /\ UnderWay(Client)' = UnderWay(Client) \cup {x.packet : x \in s_sent'}
        /\ UnderWay(Server)' = UnderWay(Server)
    BY <1>3, SentPackets, ServerPosts DEF SReceives
  <1>6. TypeOK'
    BY <1>3, <1>4, <1>5, TypeParts, TypeTogether DEF ClientIdle
  <1>7. \A x \in UnderWay(Client)' : x \in UnderWay(Client) \/ \E y \in s_sent' : x = y.packet
    BY <1>5
  <1>8. UnderWay(Client) \subseteq UnderWay(Client)'
        /\ (s_sent' = {} => UnderWay(Client)' = UnderWay(Client))
    BY <1>5
  <1> QED
    BY <1>2, <1>3, <1>4, <1>5, <1>6, <1>7, <1>8

\* A response is the ACK that the MID of its request is owed, or a message of its
\* own.
LEMMA SRespondsEffect ==
  ASSUME TypeOK, SResponds
  PROVE  /\ TypeOK' /\ ClientIdle
         /\ UNCHANGED <<s_running, s_server_requests, executions>>
         /\ UnderWay(Server)' = UnderWay(Server)
         /\ UnderWay(Client) \subseteq UnderWay(Client)'
         /\ s_server_responses # << >>
         /\ s_server_responses' = Tail(s_server_responses)
         /\ LET q == Head(s_server_responses).request
            IN  \/ /\ q.token \in DOMAIN Owed
                   /\ Owed' = RemoveAll(Owed, {q.token})
                   /\ LET mid == Owed[q.token]
                          packet == S!ResponsePacket(q, "Acknowledgement", mid)
                      IN  /\ Table' = Table \/ Table' = WithResponse(Table, mid, packet)
                          /\ UnderWay(Client)' \subseteq UnderWay(Client) \cup {packet}
                \/ /\ q.token \notin DOMAIN Owed
                   /\ Owed' = Owed /\ Table' = Table
                   /\ \E mid \in MIDs : UnderWay(Client)' \subseteq
                        UnderWay(Client) \cup {S!ResponsePacket(q, "NonConfirmable", mid)}
  <1> DEFINE q == Head(s_server_responses).request
             packet(type, mid) == S!ResponsePacket(q, type, mid)
  <1>1. PICK ok \in BOOLEAN : S!OutboundResponse(ok)
    BY DEF SResponds
  <1>2. /\ S!TypeOK'
        /\ UNCHANGED <<s_running, s_server_requests>>
        /\ s_server_responses # << >>
        /\ s_server_responses' = Tail(s_server_responses)
        /\ \A x \in s_sent' : x.packet \in Packets
    BY <1>1, ServerResponds
  <1>3. \/ /\ q.token \in DOMAIN Owed
           /\ Owed' = RemoveAll(Owed, {q.token})
           /\ LET mid == Owed[q.token]
              IN  /\ \/ Table' = Table
                     \/ Table' = WithResponse(Table, mid, packet("Acknowledgement", mid))
                  /\ \A x \in s_sent' : x.packet = packet("Acknowledgement", mid)
        \/ /\ q.token \notin DOMAIN Owed
           /\ Owed' = Owed /\ Table' = Table
           /\ \E mid \in MIDs : \A x \in s_sent' : x.packet = packet("NonConfirmable", mid)
    BY <1>1, ServerResponds
  <1>4. ClientIdle
    BY ClientIdles DEF SResponds
  <1>5. /\ NetworkOK' /\ UNCHANGED executions
        /\ UnderWay(Client)' = UnderWay(Client) \cup {x.packet : x \in s_sent'}
        /\ UnderWay(Server)' = UnderWay(Server)
    BY <1>2, ServerPosts DEF SResponds
  <1>6. TypeOK'
    BY <1>2, <1>4, <1>5, TypeParts, TypeTogether DEF ClientIdle
  <1>7. \A k : (\A x \in s_sent' : x.packet = k) =>
          UnderWay(Client)' \subseteq UnderWay(Client) \cup {k}
    BY <1>5
  <1>8. UnderWay(Client) \subseteq UnderWay(Client)'
    BY <1>5
  <1> HIDE DEF packet
  <1>9. \/ /\ q.token \in DOMAIN Owed
           /\ Owed' = RemoveAll(Owed, {q.token})
           /\ LET mid == Owed[q.token]
              IN  /\ \/ Table' = Table
                     \/ Table' = WithResponse(Table, mid, packet("Acknowledgement", mid))
                  /\ UnderWay(Client)' \subseteq
                       UnderWay(Client) \cup {packet("Acknowledgement", mid)}
        \/ /\ q.token \notin DOMAIN Owed
           /\ Owed' = Owed /\ Table' = Table
           /\ \E mid \in MIDs : UnderWay(Client)' \subseteq
                UnderWay(Client) \cup {packet("NonConfirmable", mid)}
    BY <1>3, <1>7
  <1> QED
    BY <1>2, <1>4, <1>5, <1>6, <1>8, <1>9 DEF packet

\* The handler takes the head of one queue to the end of the other.
LEMMA SHandlesEffect ==
  ASSUME TypeOK, MessagesInv, SHandles
  PROVE  /\ TypeOK' /\ ClientIdle
         /\ Table' = Table /\ Owed' = Owed /\ UNCHANGED s_running
         /\ UnderWay(Server)' = UnderWay(Server) /\ UnderWay(Client)' = UnderWay(Client)
         /\ s_server_requests # << >>
         /\ s_server_requests' = Tail(s_server_requests)
         /\ s_server_responses' = Append(s_server_responses, Head(s_server_requests))
         /\ LET r == Head(s_server_requests).request.payload
            IN  r \in Requests /\ executions' = [executions EXCEPT ![r] = @ + 1]
  <1> DEFINE r == Head(s_server_requests).request.payload
  <1>1. /\ S!ServerHandle /\ UNCHANGED network /\ UNCHANGED cVars
        /\ executions' = [executions EXCEPT ![r] = @ + 1]
    BY DEF SHandles
  <1>2. /\ S!TypeOK'
        /\ Table' = Table /\ Owed' = Owed /\ UNCHANGED s_running
        /\ s_server_requests # << >>
        /\ s_server_requests' = Tail(s_server_requests)
        /\ s_server_responses' = Append(s_server_responses, Head(s_server_requests))
    BY <1>1, ServerHandles DEF MessagesInv
  <1>3. r \in Requests
    <2>1. Head(s_server_requests) \in Range(s_server_requests)
      <3>1. 1 \in DOMAIN s_server_requests /\ Head(s_server_requests) = s_server_requests[1]
        BY <1>2, ServerParts, HeadTailProperties
      <3> QED
        BY <3>1 DEF Range
    <2>2. Head(s_server_requests).request \in Queued
      BY <2>1 DEF Queued
    <2> QED
      BY <2>2 DEF MessagesInv, IsAsk
  <1>4. executions' \in [Requests -> Nat]
    BY <1>1, <1>3, TypeParts
  <1>5. NetworkOK' /\ \A h : UnderWay(h)' = UnderWay(h)
    BY <1>1, TypeParts DEF NetworkOK, UnderWay, IsMap
  <1>6. ClientIdle
    BY <1>1, ClientIdles
  <1>7. TypeOK'
    BY <1>2, <1>4, <1>5, <1>6, TypeParts, TypeTogether DEF ClientIdle
  <1> QED
    BY <1>1, <1>2, <1>3, <1>5, <1>6, <1>7

\* A stuttering step adds nothing.
LEMMA StutterEffect ==
  ASSUME TypeOK, UNCHANGED vars
  PROVE  TypeOK' /\ NothingNew /\ UNCHANGED <<c_caller, c_outbound_requests>>
  <1>1. UNCHANGED cVars /\ UNCHANGED sVars /\ Quiet
    BY DEF vars, Quiet
  <1>2. ServerIdle /\ ClientIdle
        /\ NetworkOK' /\ UNCHANGED executions /\ \A h : UnderWay(h)' = UnderWay(h)
    BY <1>1, ServerIdles, ClientIdles, Quietens
  <1>3. ClientRemains
    BY <1>2 DEF ClientRemains, Remains, SameExchange, ClientIdle
  <1> QED
    BY <1>2, <1>3, TypeParts, TypeTogether, NewNothing DEF ServerIdle, ClientIdle

-----------------------------------------------------------------------------
(* Queues. *)

LEMMA TakenFrom ==
  ASSUME NEW V, NEW q \in Seq(V), q # << >>
  PROVE  /\ Head(q) \in V /\ Head(q) \in Range(q)
         /\ Range(Tail(q)) \subseteq Range(q)
         /\ Range(q) \subseteq Range(Tail(q)) \cup {Head(q)}
         /\ 1 \in DOMAIN q /\ Head(q) = q[1]
         /\ \A i \in DOMAIN Tail(q) :
              i \in Nat /\ i + 1 # 1 /\ i + 1 \in DOMAIN q /\ Tail(q)[i] = q[i + 1]
  <1>1. /\ Head(q) \in V /\ 1 \in DOMAIN q /\ Head(q) = q[1]
        /\ Len(q) \in Nat /\ Len(q) > 0 /\ DOMAIN q = 1 .. Len(q)
    BY HeadTailProperties, LenProperties, EmptySeq
  <1>2. /\ Tail(q) \in Seq(V) /\ Len(Tail(q)) = Len(q) - 1
        /\ DOMAIN Tail(q) = 1 .. Len(q) - 1
        /\ \A i \in 1 .. Len(q) - 1 : Tail(q)[i] = q[i + 1]
    BY <1>1, HeadTailProperties, LenProperties
  <1>3. \A i \in DOMAIN Tail(q) :
          i \in Nat /\ i + 1 # 1 /\ i + 1 \in DOMAIN q /\ Tail(q)[i] = q[i + 1]
    BY <1>1, <1>2
  <1>4. \A i \in DOMAIN q : i = 1 \/ (i - 1 \in DOMAIN Tail(q) /\ Tail(q)[i - 1] = q[i])
    BY <1>1, <1>2
  <1>5. Head(q) \in Range(q)
    BY <1>1 DEF Range
  <1>6. Range(Tail(q)) \subseteq Range(q)
    BY <1>3 DEF Range
  <1>7. Range(q) \subseteq Range(Tail(q)) \cup {Head(q)}
    BY <1>1, <1>4 DEF Range
  <1> QED
    BY <1>1, <1>3, <1>5, <1>6, <1>7

\* What Append leaves in a queue.
LEMMA PutInto ==
  ASSUME NEW V, NEW q \in Seq(V), NEW x \in V
  PROVE  /\ Range(Append(q, x)) = Range(q) \cup {x}
         /\ \A i \in DOMAIN Append(q, x) :
              \/ i \in DOMAIN q /\ Append(q, x)[i] = q[i]
              \/ i = Len(q) + 1 /\ Append(q, x)[i] = x
  <1>1. /\ Len(q) \in Nat /\ DOMAIN q = 1 .. Len(q)
        /\ DOMAIN Append(q, x) = 1 .. Len(q) + 1
        /\ \A i \in 1 .. Len(q) : Append(q, x)[i] = q[i]
        /\ Append(q, x)[Len(q) + 1] = x
    BY AppendProperties, LenProperties
  <1>2. \A i \in DOMAIN Append(q, x) :
          \/ i \in DOMAIN q /\ Append(q, x)[i] = q[i]
          \/ i = Len(q) + 1 /\ Append(q, x)[i] = x
    BY <1>1
  <1>3. \A i \in DOMAIN q : i \in DOMAIN Append(q, x) /\ Append(q, x)[i] = q[i]
    BY <1>1
  <1>4. Len(q) + 1 \in DOMAIN Append(q, x)
    BY <1>1
  <1> QED
    BY <1>1, <1>2, <1>3, <1>4 DEF Range

-----------------------------------------------------------------------------
(* The messages and the timers of the exchanges. *)

LEMMA OpenType ==
  ASSUME TypeOK
  PROVE  /\ \A t \in DOMAIN Open : t \in Tokens /\ Open[t] \in Exchanges
         /\ \A t \in DOMAIN Open : Open[t].response_tx \in Requests
  <1>1. IsMap(Open, Tokens, Exchanges)
    BY ViewTypes, ServerParts, TypeParts DEF C!TypeOK
  <1> QED
    BY <1>1 DEF IsMap, Exchanges

\* What the client keeps to send again is a request of an open exchange.
LEMMA RepeatedFacts ==
  ASSUME TypeOK, ExchangesInv, NEW k \in Repeated
  PROVE  /\ IsAsk(k)
         /\ k.token \in DOMAIN Open /\ Open[k.token].retransmit # None
         /\ k = Open[k.token].retransmit.packet_bytes
         /\ Open[k.token].response_tx = k.payload
         /\ Open[k.token].message_id = k.mid
  <1>1. PICK t \in DOMAIN Open :
          Open[t].retransmit # None /\ k = Open[t].retransmit.packet_bytes
    BY DEF Repeated
  <1>2. k = C!RequestPacket(Open[t].response_tx, t, Open[t].message_id)
    BY <1>1 DEF ExchangesInv
  <1>3. k.token = t /\ k.payload = Open[t].response_tx /\ k.mid = Open[t].message_id
    BY <1>2 DEF C!RequestPacket
  <1>4. k.payload \in Requests
    BY <1>3, OpenType
  <1> QED
    BY <1>1, <1>2, <1>3, <1>4 DEF IsAsk

\* Nothing new is asked or repeated when exchanges are only removed.
LEMMA LessRepeated ==
  ASSUME ClientRemains
  PROVE  Repeated' \subseteq Repeated
  <1> SUFFICES ASSUME NEW k \in Repeated' PROVE k \in Repeated
    OBVIOUS
  <1>1. PICK t \in DOMAIN Open' :
          Open'[t].retransmit # None /\ k = Open'[t].retransmit.packet_bytes
    BY DEF Repeated
  <1>2. /\ t \in DOMAIN Open /\ Open[t].retransmit # None
        /\ k = Open[t].retransmit.packet_bytes
    BY <1>1 DEF ClientRemains, Remains, SameExchange
  <1> QED
    BY <1>2 DEF Repeated

\* The queues of a step that adds nothing.
LEMMA NothingNewQueues ==
  ASSUME NothingNew
  PROVE  /\ Queued' = Queued /\ Asked' \subseteq Asked
         /\ DOMAIN Table' = DOMAIN Table
         /\ \A m \in DOMAIN Table : Table'[m].cached_response = Table[m].cached_response
         /\ UnderWay(Server)' \subseteq Asked
         /\ UnderWay(Client)' \subseteq UnderWay(Client)
  <1>1. Queued' = Queued
    BY DEF NothingNew, Queued, Range
  <1>2. Repeated' \subseteq Repeated
    BY LessRepeated DEF NothingNew
  <1> QED
    BY <1>1, <1>2 DEF NothingNew, Asked, SameResponses

\* Whatever is asked is a request with a caller.
LEMMA AskedAreAsks ==
  ASSUME TypeOK, MessagesInv, ExchangesInv
  PROVE  \A k \in Asked : IsAsk(k)
  BY RepeatedFacts DEF Asked, MessagesInv

\* A step that adds nothing keeps what is known of messages and exchanges.
LEMMA NothingNewMessages ==
  ASSUME TypeOK, MessagesInv, ExchangesInv, NothingNew
  PROVE  MessagesInv' /\ ExchangesInv'
  <1>1. /\ Queued' = Queued /\ UnderWay(Server)' \subseteq Asked
        /\ UnderWay(Client)' \subseteq UnderWay(Client)
        /\ DOMAIN Table' = DOMAIN Table
        /\ \A m \in DOMAIN Table : Table'[m].cached_response = Table[m].cached_response
    BY NothingNewQueues
  <1>2. \A k \in UnderWay(Server)' \cup Queued' : IsAsk(k)
    BY <1>1, AskedAreAsks DEF Asked
  <1>3. MessagesInv'
    BY <1>1, <1>2 DEF MessagesInv, NothingNew
  <1>4. ExchangesInv'
    BY DEF ExchangesInv, NothingNew, ClientRemains, Remains, SameExchange
  <1> QED
    BY <1>3, <1>4

\* A new exchange is registered, with its request.
LEMMA RegistersMessages ==
  ASSUME TypeOK, ExchangesInv, NEW r \in Requests, NEW token \in Tokens, NEW mid \in MIDs,
         NEW e \in Exchanges, Registers(r, token, mid, e)
  PROVE  ExchangesInv'
  <1>1. /\ DOMAIN Open' = DOMAIN Open \cup {token} /\ Open'[token] = e
        /\ \A t \in DOMAIN Open \ {token} : Open'[t] = Open[t]
    BY DEF Registers, Insert
  <1>2. /\ e.retransmit = None => e.expires_at # None
        /\ e.retransmit # None =>
             e.retransmit.packet_bytes = C!RequestPacket(e.response_tx, token, e.message_id)
    BY DEF Registers
  <1> QED
    BY <1>1, <1>2 DEF ExchangesInv

\* A request packet is a request, and confirmable as its caller wants it.
LEMMA AskIsAsk ==
  ASSUME NEW r \in Requests, NEW token, NEW mid
  PROVE  LET k == C!RequestPacket(r, token, mid)
         IN  /\ IsAsk(k) /\ k.payload = r /\ k.token = token /\ k.mid = mid
             /\ k.type = IF r \in ConRequests THEN "Confirmable" ELSE "NonConfirmable"
  BY DEF IsAsk, C!RequestPacket

\* What an idle server has, it keeps.
LEMMA ServerIdleQueues ==
  ASSUME ServerIdle
  PROVE  Queued' = Queued /\ Table' = Table /\ Owed' = Owed
  BY DEF ServerIdle, Queued, Range

\* What an idle client has, it keeps.
LEMMA ClientIdleExchanges ==
  ASSUME ClientIdle
  PROVE  Repeated' = Repeated /\ Open' = Open /\ Index' = Index
  BY DEF ClientIdle, Repeated

\* Nothing is open, owed, queued or under way at the start.
LEMMA InitMessages ==
  ASSUME Init
  PROVE  /\ Open = EmptyMap /\ Index = EmptyMap /\ Table = EmptyMap /\ Owed = EmptyMap
         /\ \A h : UnderWay(h) = {}
         /\ Queued = {} /\ Repeated = {} /\ Asked = {}
  <1>1. /\ c_sessions = C!EmptyMap /\ s_sessions = S!EmptyMap /\ network = EmptyMap
        /\ s_server_requests = << >> /\ s_server_responses = << >>
    BY DEF Init, C!Init, S!Init
  <1>2. /\ Open = EmptyMap /\ Index = EmptyMap /\ Table = EmptyMap /\ Owed = EmptyMap
    BY <1>1, BridgeC, BridgeS DEF Open, Index, Table, Owed, EmptyMap
  <1>3. \A h : UnderWay(h) = {}
    BY <1>1 DEF UnderWay, EmptyMap
  <1>4. Queued = {}
    BY <1>1 DEF Queued, Range
  <1>5. Repeated = {}
    BY <1>2 DEF Repeated, EmptyMap
  <1> QED
    BY <1>2, <1>3, <1>4, <1>5 DEF Asked

\* The variables have their types at the start.
LEMMA InitTypes ==
  ASSUME Init
  PROVE  TypeOK
  <1>1. \A K, V : IsMap(EmptyMap, K, V)
    BY EmptyMapType
  <1>2. C!TypeOK
    <2>1. c_sessions = EmptyMap /\ c_seen = [p \in {Server} |-> EmptyMap]
      BY BridgeC DEF Init, C!Init
    <2>2. C!SessionsOK
      BY <1>1, <2>1, BridgeC DEF C!SessionsOK, EmptyMap
    <2>3. C!SeenOK
      BY <1>1, <2>1, BridgeC DEF C!SeenOK
    <2> QED
      BY <2>2, <2>3, TimingAssumption DEF Init, C!Init, C!TypeOK
  <1>3. S!TypeOK
    <2>1. s_sessions = EmptyMap /\ s_seen = [p \in {Client} |-> EmptyMap]
      BY BridgeS DEF Init, S!Init
    <2>2. S!SessionsOK
      BY <1>1, <2>1, BridgeS DEF S!SessionsOK, EmptyMap
    <2>3. S!SeenOK
      BY <1>1, <2>1, BridgeS DEF S!SeenOK
    <2> QED
      BY <2>2, <2>3, TimingAssumption DEF Init, S!Init, S!TypeOK
  <1> QED
    BY <1>1, <1>2, <1>3 DEF Init, TypeOK

\* There are no messages and no exchanges at the start.
LEMMA InitMessagesInv ==
  ASSUME Init
  PROVE  MessagesInv /\ ExchangesInv
  BY InitMessages DEF Init, C!Init, S!Init, MessagesInv, ExchangesInv, EmptyMap

\* The queues after a request was received.
LEMMA ReceivedQueues ==
  ASSUME TypeOK, UNCHANGED s_server_responses, NEW k \in Packets,
         \/ UNCHANGED s_server_requests
         \/ s_server_requests' =
              Append(s_server_requests, [peer |-> Client, request |-> k])
  PROVE  Queued' \subseteq Queued \cup {k}
  <1>1. CASE UNCHANGED s_server_requests
    BY <1>1 DEF Queued, Range
  <1>2. CASE s_server_requests' = Append(s_server_requests, [peer |-> Client, request |-> k])
    <2>1. [peer |-> Client, request |-> k] \in S!ServerMessages
      BY ServerMessagesType
    <2>2. Range(s_server_requests') =
            Range(s_server_requests) \cup {[peer |-> Client, request |-> k]}
      BY <1>2, <2>1, ServerParts, PutInto
    <2>3. s_server_responses' = s_server_responses
      OBVIOUS
    <2> QED
      BY <2>2, <2>3 DEF Queued
  <1> QED
    BY <1>1, <1>2

\* The server receives: what is known of messages holds.
LEMMA ReceivesMessages ==
  ASSUME TypeOK, MessagesInv, ExchangesInv, SReceives
  PROVE  TypeOK' /\ MessagesInv' /\ ExchangesInv'
  <1>1. PICK k \in UnderWay(Server) :
          \/ /\ k.mid \in DOMAIN Table
             /\ Table' = Table /\ Owed' = Owed
             /\ UNCHANGED s_server_requests
             /\ UnderWay(Client) \subseteq UnderWay(Client)'
             /\ \A x \in UnderWay(Client)' : x \in UnderWay(Client)
                  \/ /\ k.type = "Confirmable"
                     /\ x = Table[k.mid].cached_response /\ x # None
          \/ /\ k.mid \in MIDs \ DOMAIN Table
             /\ Table' = Insert(Table, k.mid, NewDedupEntry)
             /\ Owed' = IF k.type = "Confirmable" THEN Insert(Owed, k.token, k.mid) ELSE Owed
             /\ s_server_requests' =
                  Append(s_server_requests, [peer |-> Client, request |-> k])
             /\ UnderWay(Client)' = UnderWay(Client)
    BY SReceivesEffect
  <1>2. /\ TypeOK' /\ ClientIdle /\ UNCHANGED <<s_running, s_server_responses>>
        /\ UnderWay(Server)' = UnderWay(Server)
    BY SReceivesEffect
  <1>3. k \in Packets
    BY TypeParts, UnderWayType
  <1>4. \A q \in Queued' : q \in Queued \/ q = k
    BY <1>1, <1>2, <1>3, ReceivedQueues
  <1>5. \A x \in UnderWay(Client)' : IsAnswer(x)
    BY <1>1 DEF MessagesInv
  <1>6. \A m \in DOMAIN Table' :
          LET a == Table'[m].cached_response
          IN  a # None => IsAnswer(a) /\ a.type = "Acknowledgement" /\ a.mid = m
    <2>1. CASE Table' = Table
      BY <2>1 DEF MessagesInv
    <2>2. CASE Table' = Insert(Table, k.mid, NewDedupEntry)
      BY <2>2 DEF MessagesInv, Insert, NewDedupEntry
    <2> QED
      BY <1>1, <2>1, <2>2
  <1>7. MessagesInv'
    BY <1>2, <1>4, <1>5, <1>6 DEF MessagesInv, ClientIdle
  <1>8. ExchangesInv'
    BY <1>2, ClientIdleExchanges DEF ExchangesInv
  <1> QED
    BY <1>2, <1>7, <1>8

\* The response to a request is an answer.
LEMMA AnswerIsAnswer ==
  ASSUME NEW q, q.payload \in Requests, NEW type \in {"Acknowledgement", "NonConfirmable"}, NEW mid
  PROVE  LET a == S!ResponsePacket(q, type, mid)
         IN  /\ IsAnswer(a) /\ a.type = type /\ a.mid = mid
             /\ a.token = q.token /\ a.payload = q.payload
  BY DEF IsAnswer, S!ResponsePacket

\* The types of the tables and of the queues.
LEMMA TypeView ==
  ASSUME TypeOK
  PROVE  /\ IsMap(Open, Tokens, Exchanges) /\ IsMap(Index, MIDs, Tokens)
         /\ IsMap(Table, MIDs, DedupEntries) /\ IsMap(Owed, Tokens \cup {None}, MIDs)
  BY ViewTypes, ServerParts, TypeParts DEF C!TypeOK

\* The response is entered in the table under its MID and nowhere else.
LEMMA WithResponseFacts ==
  ASSUME TypeOK, NEW mid, NEW packet, Table' = Table \/ Table' = WithResponse(Table, mid, packet)
  PROVE  /\ DOMAIN Table' = DOMAIN Table
         /\ \A m \in DOMAIN Table :
              \/ Table'[m].cached_response = Table[m].cached_response
              \/ m = mid /\ Table'[m].cached_response = packet
  <1>1. \A m \in DOMAIN Table : Table[m] \in DedupEntries
    BY TypeView DEF IsMap
  <1> QED
    BY <1>1 DEF WithResponse, DedupEntries

\* The queues after a response was sent.
LEMMA ServedQueues ==
  ASSUME TypeOK, s_server_responses # << >>, s_server_responses' = Tail(s_server_responses),
         UNCHANGED s_server_requests
  PROVE  /\ Head(s_server_responses) \in Range(s_server_responses)
         /\ Range(s_server_responses') \subseteq Range(s_server_responses)
         /\ Head(s_server_responses).request \in Queued
         /\ Queued' \subseteq Queued
         /\ \A q \in Queued : q \in Queued' \/ q = Head(s_server_responses).request
  <1>1. /\ Head(s_server_responses) \in Range(s_server_responses)
        /\ Range(s_server_responses') \subseteq Range(s_server_responses)
        /\ Range(s_server_responses) \subseteq
             Range(s_server_responses') \cup {Head(s_server_responses)}
    BY ServerParts, TakenFrom
  <1>2. Range(s_server_requests') = Range(s_server_requests)
    BY DEF Range
  <1> QED
    BY <1>1, <1>2 DEF Queued

\* The queues after a handler ran.
LEMMA HandledQueues ==
  ASSUME TypeOK, s_server_requests # << >>, s_server_requests' = Tail(s_server_requests),
         s_server_responses' = Append(s_server_responses, Head(s_server_requests))
  PROVE  /\ Head(s_server_requests) \in Range(s_server_requests)
         /\ Head(s_server_requests).request \in Queued
         /\ Range(s_server_requests') \subseteq Range(s_server_requests)
         /\ Range(s_server_responses') =
              Range(s_server_responses) \cup {Head(s_server_requests)}
         /\ Queued' = Queued
  <1>1. /\ Head(s_server_requests) \in Range(s_server_requests)
        /\ Head(s_server_requests) \in S!ServerMessages
        /\ Range(s_server_requests') \subseteq Range(s_server_requests)
        /\ Range(s_server_requests) \subseteq
             Range(s_server_requests') \cup {Head(s_server_requests)}
    BY ServerParts, TakenFrom
  <1>2. Range(s_server_responses') = Range(s_server_responses) \cup {Head(s_server_requests)}
    BY <1>1, ServerParts, PutInto
  <1>3. Range(s_server_requests') \cup Range(s_server_responses') =
          Range(s_server_requests) \cup Range(s_server_responses)
    BY <1>1, <1>2
  <1> QED
    BY <1>1, <1>2, <1>3 DEF Queued

\* The server responds: what is known of messages holds.
LEMMA RespondsMessages ==
  ASSUME TypeOK, MessagesInv, ExchangesInv, SResponds
  PROVE  TypeOK' /\ MessagesInv' /\ ExchangesInv'
  <1> DEFINE q == Head(s_server_responses).request
  <1>1. /\ TypeOK' /\ ClientIdle /\ UNCHANGED s_running
        /\ UnderWay(Server)' = UnderWay(Server)
        /\ q \in Queued /\ Queued' \subseteq Queued
    BY SRespondsEffect, ServedQueues
  <1>2. q.payload \in Requests
    BY <1>1 DEF MessagesInv, IsAsk
  <1> DEFINE answer(type, mid) == S!ResponsePacket(q, type, mid)
  <1>3. \E type, mid :
          /\ type \in {"Acknowledgement", "NonConfirmable"}
          /\ UnderWay(Client)' \subseteq UnderWay(Client) \cup {answer(type, mid)}
          /\ \/ Table' = Table
             \/ Table' = WithResponse(Table, mid, answer(type, mid)) /\ type = "Acknowledgement"
    <2>1. \/ LET mid == Owed[q.token]
             IN  /\ \/ Table' = Table
                    \/ Table' = WithResponse(Table, mid, answer("Acknowledgement", mid))
                 /\ UnderWay(Client)' \subseteq
                      UnderWay(Client) \cup {answer("Acknowledgement", mid)}
          \/ /\ Table' = Table
             /\ \E mid \in MIDs : UnderWay(Client)' \subseteq
                  UnderWay(Client) \cup {answer("NonConfirmable", mid)}
      BY SRespondsEffect
    <2> HIDE DEF answer
    <2> QED
      BY <2>1
  <1>4. PICK type, mid :
          /\ type \in {"Acknowledgement", "NonConfirmable"}
          /\ UnderWay(Client)' \subseteq UnderWay(Client) \cup {answer(type, mid)}
          /\ \/ Table' = Table
             \/ Table' = WithResponse(Table, mid, answer(type, mid)) /\ type = "Acknowledgement"
    BY <1>3
  <1> DEFINE a == answer(type, mid)
  <1>5. IsAnswer(a) /\ a.type = type /\ a.mid = mid
    BY <1>2, <1>4, AnswerIsAnswer
  <1> HIDE DEF answer
  <1>6. /\ UnderWay(Client)' \subseteq UnderWay(Client) \cup {a}
        /\ \/ Table' = Table
           \/ Table' = WithResponse(Table, mid, a) /\ type = "Acknowledgement"
    BY <1>4
  <1> HIDE DEF a
  <1>7. \A m \in DOMAIN Table' :
          LET c == Table'[m].cached_response
          IN  c # None => IsAnswer(c) /\ c.type = "Acknowledgement" /\ c.mid = m
    <2>1. CASE Table' = Table
      BY <2>1 DEF MessagesInv
    <2>2. CASE Table' = WithResponse(Table, mid, a) /\ type = "Acknowledgement"
      BY <1>5, <2>2, WithResponseFacts DEF MessagesInv
    <2> QED
      BY <1>6, <2>1, <2>2
  <1>8. MessagesInv'
    BY <1>1, <1>5, <1>6, <1>7 DEF MessagesInv, ClientIdle
  <1>9. ExchangesInv'
    BY <1>1, ClientIdleExchanges DEF ExchangesInv
  <1> QED
    BY <1>1, <1>8, <1>9

\* Every step keeps the types and what is known of messages and exchanges.
LEMMA MessagesNext ==
  ASSUME TypeOK, MessagesInv, ExchangesInv, [Next]_vars
  PROVE  TypeOK' /\ MessagesInv' /\ ExchangesInv'
  <1>1. ASSUME CReceives \/ CTimer \/ CCleanup \/ CCaller \/ SCleanup \/ Tick \/ UNCHANGED vars
        PROVE  TypeOK' /\ MessagesInv' /\ ExchangesInv'
    <2>1. TypeOK' /\ NothingNew
      <3>1. c_running
        BY DEF MessagesInv
      <3> QED
        BY <1>1, <3>1, CReceivesEffect, CTimerEffect, CCleanupEffect, CCallerEffect,
           SCleanupEffect, TickEffect, StutterEffect
    <2> QED
      BY <2>1, NothingNewMessages
  <1>2. CASE CAsks
    <2> DEFINE r == Head(c_outbound_requests).request
    <2>1. /\ TypeOK' /\ ServerIdle /\ UNCHANGED c_running
          /\ UnderWay(Client)' = UnderWay(Client)
          /\ c_outbound_requests # << >>
      BY <1>2, CAsksEffect
    <2>2. PICK token \in Tokens, mid \in MIDs, e \in Exchanges :
            /\ Registers(r, token, mid, e)
            /\ UnderWay(Server)' = UnderWay(Server) \cup {C!RequestPacket(r, token, mid)}
      BY <1>2, CAsksEffect
    <2>3. r \in Requests
      BY <2>1, TypeParts, ClientQueue
    <2> HIDE DEF r
    <2>4. IsAsk(C!RequestPacket(r, token, mid))
      BY <2>3, AskIsAsk
    <2>5. ExchangesInv'
      BY <2>2, <2>3, RegistersMessages
    <2>6. MessagesInv'
      BY <2>1, <2>2, <2>4, ServerIdleQueues DEF MessagesInv, ServerIdle
    <2> QED
      BY <2>1, <2>5, <2>6
  <1>3. CASE SHandles
    <2>1. /\ TypeOK' /\ ClientIdle /\ Table' = Table /\ UNCHANGED s_running
          /\ UnderWay(Server)' = UnderWay(Server) /\ UnderWay(Client)' = UnderWay(Client)
          /\ Queued' = Queued
      BY <1>3, SHandlesEffect, HandledQueues
    <2>2. MessagesInv'
      BY <2>1 DEF MessagesInv, ClientIdle
    <2> QED
      BY <2>1, <2>2, ClientIdleExchanges DEF ExchangesInv
  <1> QED
    BY <1>1, <1>2, <1>3, ReceivesMessages, RespondsMessages DEF Next, NextButAsk

-----------------------------------------------------------------------------
(* What belongs together stays together. *)

\* The conjuncts about the messages, apart from the callers.
PairingInv ==
  /\ UniqueInv /\ TokenInv /\ MidInv
  /\ OwedInv /\ CachedInv /\ ExecutionsInv

\* The token of any request leads to its own exchange, if to any.
LEMMA AskedTokens ==
  ASSUME TypeOK, ExchangesInv, TokenInv
  PROVE  \A k \in Asked \cup UnderWay(Client) :
           k.token \in DOMAIN Open => Open[k.token].response_tx = k.payload
  BY RepeatedFacts DEF Asked, TokenInv

\* A step that adds nothing keeps together what belongs together.
LEMMA NothingNewPairing ==
  ASSUME TypeOK, ConversationInv, NothingNew
  PROVE  PairingInv'
  <1> USE DEF ConversationInv
  <1>1. /\ Queued' = Queued /\ Asked' \subseteq Asked
        /\ DOMAIN Table' = DOMAIN Table
        /\ \A m \in DOMAIN Table : Table'[m].cached_response = Table[m].cached_response
        /\ UnderWay(Server)' \subseteq Asked
        /\ UnderWay(Client)' \subseteq UnderWay(Client)
    BY NothingNewQueues
  <1>2. /\ Owed' = Owed
        /\ UNCHANGED <<s_server_requests, s_server_responses, executions>>
        /\ DOMAIN Open' \subseteq DOMAIN Open
        /\ \A t \in DOMAIN Open' : Open'[t].response_tx = Open[t].response_tx
        /\ DOMAIN Index' \subseteq DOMAIN Index
        /\ \A m \in DOMAIN Index' : Index'[m] = Index[m]
    BY DEF NothingNew, ClientRemains, Remains, SameExchange
  <1>3. UniqueInv'
    BY <1>1 DEF UniqueInv
  <1>4. TokenInv'
    <2>1. \A k \in UnderWay(Server)' \cup Queued' \cup UnderWay(Client)' :
            k \in Asked \cup UnderWay(Client)
      BY <1>1 DEF Asked
    <2> QED
      BY <1>2, <2>1, AskedTokens DEF TokenInv
  <1>5. MidInv'
    BY <1>1, <1>2 DEF MidInv
  <1>6. OwedInv'
    BY <1>1, <1>2 DEF OwedInv
  <1>7. CachedInv'
    BY <1>1 DEF CachedInv
  <1>8. ExecutionsInv'
    BY <1>1, <1>2 DEF ExecutionsInv, Range
  <1> QED
    BY <1>3, <1>4, <1>5, <1>6, <1>7, <1>8 DEF PairingInv

\* A request is sent for the first time, under a MID and a token that nothing
\* else goes by.
LEMMA AsksAdds ==
  ASSUME TypeOK, ConversationInv, CAsks, NothingReused(TRUE)
  PROVE  LET r == Head(c_outbound_requests).request
         IN  /\ r \in Requests /\ executions[r] = 0
             /\ \E token \in Tokens, mid \in MIDs, e \in Exchanges :
                  LET packet == C!RequestPacket(r, token, mid)
                  IN  /\ Registers(r, token, mid, e) /\ Fresh(token, mid)
                      /\ UnderWay(Server)' = UnderWay(Server) \cup {packet}
                      /\ \A k \in Asked' :
                           \/ k = packet
                           \/ k \in Asked /\ k.token # token /\ k.mid # mid /\ k.payload # r
  <1> USE DEF ConversationInv
  <1> DEFINE r == Head(c_outbound_requests).request
  <1>1. ServerIdle /\ c_outbound_requests # << >>
    BY CAsksEffect
  <1>2. PICK token \in Tokens, mid \in MIDs, e \in Exchanges :
          /\ Registers(r, token, mid, e) /\ Fresh(token, mid)
          /\ UnderWay(Server)' = UnderWay(Server) \cup {C!RequestPacket(r, token, mid)}
    BY CAsksEffect
  <1>3. r \in Requests /\ executions[r] = 0 /\ \A k \in Asked : k.payload # r
    <2>1. Head(c_outbound_requests) \in Range(c_outbound_requests) /\ r \in Requests
      BY <1>1, TypeParts, ClientQueue, TakenFrom DEF C!TypeOK
    <2> QED
      BY <2>1 DEF StageInv
  <1> HIDE DEF r
  <1> DEFINE packet == C!RequestPacket(r, token, mid)
  <1>4. /\ packet.payload = r /\ packet.token = token /\ packet.mid = mid
        /\ packet.type = IF r \in ConRequests THEN "Confirmable" ELSE "NonConfirmable"
    BY <1>3, AskIsAsk
  <1>5. UnderWay(Server)' = UnderWay(Server) \cup {packet}
    BY <1>2
  <1>6. /\ DOMAIN Open' = DOMAIN Open \cup {token} /\ Open'[token] = e
        /\ \A t \in DOMAIN Open \ {token} : Open'[t] = Open[t]
        /\ e.retransmit # None => e.retransmit.packet_bytes = packet
    BY <1>2 DEF Registers, Insert
  <1> HIDE DEF packet
  <1>7. Queued' = Queued
    BY <1>1, ServerIdleQueues
  <1>8. \A k \in Asked' :
          \/ k = packet
          \/ k \in Asked /\ k.token # token /\ k.mid # mid /\ k.payload # r
    <2> SUFFICES ASSUME NEW k \in Asked'
                 PROVE  \/ k = packet
                        \/ k \in Asked /\ k.token # token /\ k.mid # mid
      BY <1>3
    <2>1. CASE k \in UnderWay(Server)' \cup Queued'
      BY <2>1, <1>2, <1>5, <1>7 DEF Fresh, Asked
    <2>2. CASE k \in Repeated'
      <3>1. PICK t \in DOMAIN Open' :
              Open'[t].retransmit # None /\ k = Open'[t].retransmit.packet_bytes
        BY <2>2 DEF Repeated
      <3>2. CASE t = token
        BY <3>1, <3>2, <1>6
      <3>3. CASE t # token
        <4>1. /\ t \in DOMAIN Open /\ Open[t].retransmit # None
              /\ k = Open[t].retransmit.packet_bytes
          BY <3>1, <3>3, <1>6
        <4>2. k = C!RequestPacket(Open[t].response_tx, t, Open[t].message_id)
          BY <4>1 DEF ExchangesInv
        <4>3. k.token = t /\ k.mid = Open[t].message_id
          BY <4>2 DEF C!RequestPacket
        <4>4. k \in Repeated
          BY <4>1 DEF Repeated
        <4> QED
          BY <4>1, <4>3, <4>4, <3>3, <1>2 DEF Fresh, Asked
      <3> QED
        BY <3>2, <3>3
    <2> QED
      BY <2>1, <2>2 DEF Asked
  <1> QED
    BY <1>2, <1>3, <1>5, <1>8 DEF packet, r

\* The client asks: the new request has a MID and a token of its own.
LEMMA AsksPairing ==
  ASSUME TypeOK, ConversationInv, CAsks, NothingReused(TRUE)
  PROVE  PairingInv'
  <1> USE DEF ConversationInv
  <1> DEFINE r == Head(c_outbound_requests).request
  <1>1. /\ ServerIdle /\ UNCHANGED executions
        /\ UnderWay(Client)' = UnderWay(Client)
    BY CAsksEffect
  <1>2. r \in Requests /\ executions[r] = 0
    BY AsksAdds
  <1>3. PICK token \in Tokens, mid \in MIDs, e \in Exchanges :
          LET packet == C!RequestPacket(r, token, mid)
          IN  /\ Registers(r, token, mid, e) /\ Fresh(token, mid)
              /\ UnderWay(Server)' = UnderWay(Server) \cup {packet}
              /\ \A k \in Asked' :
                   \/ k = packet
                   \/ k \in Asked /\ k.token # token /\ k.mid # mid /\ k.payload # r
    BY AsksAdds
  <1> HIDE DEF r
  <1> DEFINE packet == C!RequestPacket(r, token, mid)
  <1>4. /\ packet.payload = r /\ packet.token = token /\ packet.mid = mid
        /\ packet.type = IF r \in ConRequests THEN "Confirmable" ELSE "NonConfirmable"
    BY <1>2, AskIsAsk
  <1>5. UnderWay(Server)' = UnderWay(Server) \cup {packet}
    BY <1>3
  <1>6. /\ DOMAIN Open' = DOMAIN Open \cup {token} /\ Open'[token] = e
        /\ \A t \in DOMAIN Open \ {token} : Open'[t] = Open[t]
        /\ e.response_tx = r
        /\ Index' = IF r \in ConRequests THEN Insert(Index, mid, token) ELSE Index
    BY <1>3 DEF Registers, Insert
  <1> HIDE DEF packet
  <1>7. Queued' = Queued /\ Table' = Table /\ Owed' = Owed
        /\ UNCHANGED <<s_server_requests, s_server_responses>>
    BY <1>1, ServerIdleQueues DEF ServerIdle
  <1>8. \A k \in Asked' :
          \/ k = packet
          \/ k \in Asked /\ k.token # token /\ k.mid # mid /\ k.payload # r
    BY <1>3 DEF packet
  <1>9. \A k \in UnderWay(Client)' \cup Queued' : k.mid # mid /\ k.token # token
    BY <1>1, <1>3, <1>7 DEF Fresh
  <1>10. UniqueInv'
    BY <1>4, <1>8 DEF UniqueInv
  <1>11. TokenInv'
    <2> SUFFICES ASSUME NEW k \in UnderWay(Server)' \cup Queued' \cup UnderWay(Client)',
                        k.token \in DOMAIN Open'
                 PROVE  Open'[k.token].response_tx = k.payload
      BY DEF TokenInv
    <2>1. k = packet \/ (k \in Asked \cup UnderWay(Client) /\ k.token # token)
      BY <1>1, <1>8, <1>9 DEF Asked
    <2>2. CASE k = packet
      BY <2>2, <1>4, <1>6
    <2>3. CASE k \in Asked \cup UnderWay(Client) /\ k.token # token
      BY <2>3, <1>6, AskedTokens
    <2> QED
      BY <2>1, <2>2, <2>3
  <1>12. MidInv'
    <2> SUFFICES ASSUME NEW k \in Asked' \cup UnderWay(Client)', k.type # "NonConfirmable",
                        k.mid \in DOMAIN Index'
                 PROVE  Index'[k.mid] = k.token
      BY DEF MidInv
    <2>1. k = packet \/ (k \in Asked \cup UnderWay(Client) /\ k.mid # mid)
      BY <1>1, <1>8, <1>9
    <2>2. CASE k = packet
      BY <2>2, <1>4, <1>6 DEF Insert
    <2>3. CASE k \in Asked \cup UnderWay(Client) /\ k.mid # mid
      BY <2>3, <1>6 DEF MidInv, Insert
    <2> QED
      BY <2>1, <2>2, <2>3
  <1>13. OwedInv'
    BY <1>7 DEF OwedInv
  <1>14. mid \notin DOMAIN Table
    BY <1>3 DEF Fresh
  <1>15. CachedInv'
    BY <1>4, <1>7, <1>8, <1>14 DEF CachedInv
  <1>16. ExecutionsInv'
    <2>1. \A k \in Asked' : executions'[k.payload] # 0 => k.mid \in DOMAIN Table'
      BY <1>1, <1>2, <1>4, <1>7, <1>8 DEF ExecutionsInv
    <2> QED
      BY <1>1, <1>7, <2>1 DEF ExecutionsInv, Range
  <1> QED
    BY <1>10, <1>11, <1>12, <1>13, <1>15, <1>16 DEF PairingInv

\* The server receives a request, for the first time or not.
LEMMA ReceivesPairing ==
  ASSUME TypeOK, ConversationInv, SReceives
  PROVE  PairingInv'
  <1> USE DEF ConversationInv
  <1>1. PICK k \in UnderWay(Server) :
          \/ /\ k.mid \in DOMAIN Table
             /\ Table' = Table /\ Owed' = Owed
             /\ UNCHANGED s_server_requests
             /\ UnderWay(Client) \subseteq UnderWay(Client)'
             /\ \A x \in UnderWay(Client)' : x \in UnderWay(Client)
                  \/ /\ k.type = "Confirmable"
                     /\ x = Table[k.mid].cached_response /\ x # None
          \/ /\ k.mid \in MIDs \ DOMAIN Table
             /\ Table' = Insert(Table, k.mid, NewDedupEntry)
             /\ Owed' = IF k.type = "Confirmable" THEN Insert(Owed, k.token, k.mid) ELSE Owed
             /\ s_server_requests' =
                  Append(s_server_requests, [peer |-> Client, request |-> k])
             /\ UnderWay(Client)' = UnderWay(Client)
    BY SReceivesEffect
  <1>2. /\ ClientIdle /\ UNCHANGED <<s_server_responses, executions>>
        /\ UnderWay(Server)' = UnderWay(Server)
    BY SReceivesEffect
  <1>3. Repeated' = Repeated /\ Open' = Open /\ Index' = Index
    BY <1>2, ClientIdleExchanges
  <1>4. k \in Asked /\ k \in Packets
    BY TypeParts, UnderWayType DEF Asked
  <1>5. CASE /\ k.mid \in DOMAIN Table
             /\ Table' = Table /\ Owed' = Owed
             /\ UNCHANGED s_server_requests
             /\ \A x \in UnderWay(Client)' : x \in UnderWay(Client)
                  \/ /\ k.type = "Confirmable"
                     /\ x = Table[k.mid].cached_response /\ x # None
    <2>1. Queued' = Queued
      BY <1>2, <1>5 DEF Queued, Range
    <2>2. Asked' = Asked
      BY <1>2, <1>3, <2>1 DEF Asked
    <2>3. \A x \in UnderWay(Client)' :
            \/ x \in UnderWay(Client)
            \/ /\ x.token = k.token /\ x.payload = k.payload /\ x.mid = k.mid
               /\ k.type = "Confirmable" /\ executions[x.payload] = 1
      BY <1>4, <1>5 DEF CachedInv, MessagesInv, ExecutionsInv
    <2>4. UniqueInv'
      BY <2>2 DEF UniqueInv
    <2>5. TokenInv'
      BY <1>2, <1>3, <2>1, <2>3 DEF TokenInv
    <2>6. MidInv'
      BY <1>3, <1>4, <2>2, <2>3 DEF MidInv
    <2>7. OwedInv' /\ CachedInv'
      BY <1>5, <2>1, <2>2 DEF OwedInv, CachedInv
    <2>8. ExecutionsInv'
      BY <1>2, <1>5, <2>1, <2>2, <2>3 DEF ExecutionsInv, Range
    <2> QED
      BY <2>4, <2>5, <2>6, <2>7, <2>8 DEF PairingInv
  <1>6. CASE /\ k.mid \in MIDs \ DOMAIN Table
             /\ Table' = Insert(Table, k.mid, NewDedupEntry)
             /\ Owed' = IF k.type = "Confirmable" THEN Insert(Owed, k.token, k.mid) ELSE Owed
             /\ s_server_requests' =
                  Append(s_server_requests, [peer |-> Client, request |-> k])
             /\ UnderWay(Client)' = UnderWay(Client)
    <2> DEFINE x == [peer |-> Client, request |-> k]
    <2>1. x \in S!ServerMessages
      BY <1>4, ServerMessagesType
    <2>2. /\ Range(s_server_requests') = Range(s_server_requests) \cup {x}
          /\ \A i \in DOMAIN s_server_requests' :
               \/ i \in DOMAIN s_server_requests /\ s_server_requests'[i] = s_server_requests[i]
               \/ i = Len(s_server_requests) + 1 /\ s_server_requests'[i] = x
      BY <1>6, <2>1, ServerParts, PutInto
    <2>3. x.request = k
      OBVIOUS
    <2> HIDE DEF x
    <2>4. Range(s_server_responses') = Range(s_server_responses)
      BY <1>2 DEF Range
    <2>5. Queued' = Queued \cup {k}
      BY <2>2, <2>3, <2>4 DEF Queued
    <2>6. Asked' = Asked
      BY <1>2, <1>3, <2>5 DEF Asked
    <2>7. /\ DOMAIN Table' = DOMAIN Table \cup {k.mid}
          /\ \A m \in DOMAIN Table : Table'[m] = Table[m]
          /\ Table'[k.mid].cached_response = None
      BY <1>6 DEF Insert, NewDedupEntry
    <2>8. UniqueInv'
      BY <2>6 DEF UniqueInv
    <2>9. TokenInv'
      BY <1>2, <1>3, <1>6, <2>5 DEF TokenInv
    <2>10. MidInv'
      BY <1>3, <1>6, <2>6 DEF MidInv
    <2>11. \A q \in Queued' : q \in Asked
      BY <1>4, <2>5 DEF Asked
    <2>12. OwedInv'
      <3>1. \A q \in Queued' : q.token \in DOMAIN Owed' => Owed'[q.token] = q.mid
        <4> SUFFICES ASSUME NEW q \in Queued', q.token \in DOMAIN Owed'
                     PROVE  Owed'[q.token] = q.mid
          OBVIOUS
        <4>1. CASE q.token = k.token
          <5>1. q = k
            BY <4>1, <1>4, <2>11 DEF UniqueInv
          <5>2. k.type = "Confirmable"
            <6>1. CASE k.token \in DOMAIN Owed
              <7>1. PICK p \in Queued : p.token = k.token /\ p.type = "Confirmable"
                BY <6>1 DEF OwedInv
              <7> QED
                BY <7>1, <1>4, <2>5, <2>11 DEF UniqueInv
            <6>2. CASE k.token \notin DOMAIN Owed
              BY <6>2, <5>1, <1>6
            <6> QED
              BY <6>1, <6>2
          <5> QED
            BY <5>1, <5>2, <1>6 DEF Insert
        <4>2. CASE q.token # k.token
          BY <4>2, <1>6, <2>5 DEF OwedInv, Insert
        <4> QED
          BY <4>1, <4>2
      <3>2. \A t \in DOMAIN Owed' : \E q \in Queued' : q.token = t /\ q.type = "Confirmable"
        BY <1>6, <2>5 DEF OwedInv, Insert
      <3> QED
        BY <3>1, <3>2 DEF OwedInv
    <2>13. CachedInv'
      BY <2>6, <2>7 DEF CachedInv
    <2>14. executions[k.payload] = 0
      BY <1>4, <1>6 DEF ExecutionsInv
    <2>15. k \notin Queued
      BY <1>6 DEF ExecutionsInv
    <2>16. \A y \in Range(s_server_requests) : y.request.payload # k.payload
      <3> SUFFICES ASSUME NEW y \in Range(s_server_requests), y.request.payload = k.payload
                   PROVE  FALSE
        OBVIOUS
      <3>1. y.request \in Queued /\ y.request \in Asked
        BY DEF Queued, Asked
      <3> QED
        BY <3>1, <1>4, <2>15 DEF UniqueInv
    <2>17. \A i, j \in DOMAIN s_server_requests' :
             s_server_requests'[i].request.payload = s_server_requests'[j].request.payload
               => i = j
      <3>1. \A i \in DOMAIN s_server_requests : s_server_requests[i].request.payload # k.payload
        BY <2>16 DEF Range
      <3> QED
        BY <3>1, <2>2, <2>3 DEF ExecutionsInv
    <2>18. ExecutionsInv'
      <3>1. \A q \in Queued' : q.mid \in DOMAIN Table'
        BY <2>5, <2>7 DEF ExecutionsInv
      <3>2. \A q \in Asked' : executions'[q.payload] # 0 => q.mid \in DOMAIN Table'
        BY <1>2, <2>6, <2>7 DEF ExecutionsInv
      <3>3. \A y \in Range(s_server_requests') : executions'[y.request.payload] = 0
        BY <1>2, <2>2, <2>3, <2>14 DEF ExecutionsInv
      <3>4. \A y \in Range(s_server_responses') : executions'[y.request.payload] = 1
        BY <1>2, <2>4 DEF ExecutionsInv
      <3>5. \A q \in UnderWay(Client)' : executions'[q.payload] = 1
        BY <1>2, <1>6 DEF ExecutionsInv
      <3>6. \A m \in DOMAIN Table' :
              LET a == Table'[m].cached_response IN a # None => executions'[a.payload] = 1
        BY <1>2, <2>7 DEF ExecutionsInv
      <3> QED
        BY <2>17, <3>1, <3>2, <3>3, <3>4, <3>5, <3>6 DEF ExecutionsInv
    <2> QED
      BY <2>8, <2>9, <2>10, <2>12, <2>13, <2>18 DEF PairingInv
  <1> QED
    BY <1>1, <1>5, <1>6

\* The server sends the response to the request that was handled first.
LEMMA RespondsPairing ==
  ASSUME TypeOK, ConversationInv, SResponds
  PROVE  PairingInv'
  <1> USE DEF ConversationInv
  <1> DEFINE q == Head(s_server_responses).request
  <1>1. /\ ClientIdle
        /\ UNCHANGED <<s_server_requests, executions>>
        /\ UnderWay(Server)' = UnderWay(Server)
        /\ s_server_responses # << >>
        /\ s_server_responses' = Tail(s_server_responses)
    BY SRespondsEffect
  <1>2. Repeated' = Repeated /\ Open' = Open /\ Index' = Index
    BY <1>1, ClientIdleExchanges
  <1>3. /\ Head(s_server_responses) \in Range(s_server_responses)
        /\ Range(s_server_responses') \subseteq Range(s_server_responses)
        /\ q \in Queued /\ Queued' \subseteq Queued
        /\ \A k \in Queued : k \in Queued' \/ k = q
    BY <1>1, ServedQueues
  <1>4. /\ q \in Asked /\ q.payload \in Requests /\ executions[q.payload] = 1
    BY <1>3 DEF Asked, MessagesInv, IsAsk, ExecutionsInv
  <1> DEFINE answer(type, mid) == S!ResponsePacket(q, type, mid)
  <1>5. \/ /\ q.token \in DOMAIN Owed
           /\ Owed' = RemoveAll(Owed, {q.token})
           /\ LET mid == Owed[q.token]
              IN  /\ \/ Table' = Table
                     \/ Table' = WithResponse(Table, mid, answer("Acknowledgement", mid))
                  /\ UnderWay(Client)' \subseteq
                       UnderWay(Client) \cup {answer("Acknowledgement", mid)}
        \/ /\ q.token \notin DOMAIN Owed
           /\ Owed' = Owed /\ Table' = Table
           /\ \E mid \in MIDs : UnderWay(Client)' \subseteq
                UnderWay(Client) \cup {answer("NonConfirmable", mid)}
    BY SRespondsEffect
  <1>6. \A mid : /\ answer("Acknowledgement", mid).mid = mid
                 /\ answer("Acknowledgement", mid).token = q.token
                 /\ answer("Acknowledgement", mid).payload = q.payload
                 /\ answer("NonConfirmable", mid).type = "NonConfirmable"
                 /\ answer("NonConfirmable", mid).token = q.token
                 /\ answer("NonConfirmable", mid).payload = q.payload
    BY <1>4, AnswerIsAnswer
  <1> HIDE DEF answer
  <1>7. q.token \in DOMAIN Owed => Owed[q.token] = q.mid /\ q.type = "Confirmable"
    <2> SUFFICES ASSUME q.token \in DOMAIN Owed
                 PROVE  Owed[q.token] = q.mid /\ q.type = "Confirmable"
      OBVIOUS
    <2>1. PICK k \in Queued : k.token = q.token /\ k.type = "Confirmable"
      BY DEF OwedInv
    <2>2. k = q
      BY <1>3, <2>1 DEF UniqueInv, Asked
    <2> QED
      BY <1>3, <2>1, <2>2 DEF OwedInv
  <1>8. \A k \in UnderWay(Client)' :
          \/ k \in UnderWay(Client)
          \/ /\ k.token = q.token /\ k.payload = q.payload
             /\ k.type = "NonConfirmable" \/ (k.mid = q.mid /\ q.type = "Confirmable")
    BY <1>5, <1>6, <1>7
  <1>9. /\ DOMAIN Table' = DOMAIN Table
        /\ \A m \in DOMAIN Table :
             \/ Table'[m].cached_response = Table[m].cached_response
             \/ m = q.mid /\ Table'[m].cached_response.token = q.token
                /\ Table'[m].cached_response.payload = q.payload
    <2>1. CASE Table' = Table
      BY <2>1
    <2>2. CASE /\ q.token \in DOMAIN Owed
               /\ Table' = WithResponse(Table, Owed[q.token],
                                        answer("Acknowledgement", Owed[q.token]))
      BY <2>2, <1>6, <1>7, WithResponseFacts
    <2> QED
      BY <1>5, <2>1, <2>2
  <1>10. Asked' \subseteq Asked
    BY <1>1, <1>2, <1>3 DEF Asked
  <1> HIDE DEF q
  <1>11. UniqueInv'
    BY <1>10 DEF UniqueInv
  <1>12. TokenInv'
    BY <1>1, <1>2, <1>3, <1>8 DEF TokenInv
  <1>13. MidInv'
    BY <1>2, <1>4, <1>8, <1>10 DEF MidInv
  <1>14. OwedInv'
    <2>1. \A t \in DOMAIN Owed' : t \in DOMAIN Owed /\ t # q.token /\ Owed'[t] = Owed[t]
      BY <1>5 DEF RemoveAll, Restrict
    <2>2. \A k \in Queued' : k.token \in DOMAIN Owed' => Owed'[k.token] = k.mid
      BY <1>3, <2>1 DEF OwedInv
    <2>3. \A t \in DOMAIN Owed' : \E k \in Queued' : k.token = t /\ k.type = "Confirmable"
      <3> SUFFICES ASSUME NEW t \in DOMAIN Owed'
                   PROVE  \E k \in Queued' : k.token = t /\ k.type = "Confirmable"
        OBVIOUS
      <3>1. PICK k \in Queued : k.token = t /\ k.type = "Confirmable"
        BY <2>1 DEF OwedInv
      <3> QED
        BY <3>1, <2>1, <1>3
    <2> QED
      BY <2>2, <2>3 DEF OwedInv
  <1>15. CachedInv'
    <2> SUFFICES ASSUME NEW k \in Asked', k.mid \in DOMAIN Table',
                        Table'[k.mid].cached_response # None
                 PROVE  /\ Table'[k.mid].cached_response.token = k.token
                        /\ Table'[k.mid].cached_response.payload = k.payload
      BY DEF CachedInv
    <2>1. CASE k.mid = q.mid
      <3>1. k = q
        BY <2>1, <1>4, <1>10 DEF UniqueInv
      <3> QED
        BY <3>1, <1>4, <1>9 DEF CachedInv
    <2>2. CASE k.mid # q.mid
      BY <2>2, <1>9, <1>10 DEF CachedInv
    <2> QED
      BY <2>1, <2>2
  <1>16. ExecutionsInv'
    <2>1. \A k \in Queued' : k.mid \in DOMAIN Table'
      BY <1>3, <1>9 DEF ExecutionsInv
    <2>2. \A k \in Asked' : executions'[k.payload] # 0 => k.mid \in DOMAIN Table'
      BY <1>1, <1>9, <1>10 DEF ExecutionsInv
    <2>3. \A x \in Range(s_server_requests') : executions'[x.request.payload] = 0
      BY <1>1 DEF ExecutionsInv, Range
    <2>4. \A x \in Range(s_server_responses') : executions'[x.request.payload] = 1
      BY <1>1, <1>3 DEF ExecutionsInv
    <2>5. \A k \in UnderWay(Client)' : executions'[k.payload] = 1
      BY <1>1, <1>4, <1>8 DEF ExecutionsInv
    <2>6. \A m \in DOMAIN Table' :
            LET a == Table'[m].cached_response IN a # None => executions'[a.payload] = 1
      BY <1>1, <1>4, <1>9 DEF ExecutionsInv
    <2>7. \A i, j \in DOMAIN s_server_requests' :
            s_server_requests'[i].request.payload = s_server_requests'[j].request.payload
              => i = j
      BY <1>1 DEF ExecutionsInv
    <2> QED
      BY <2>1, <2>2, <2>3, <2>4, <2>5, <2>6, <2>7 DEF ExecutionsInv
  <1> QED
    BY <1>11, <1>12, <1>13, <1>14, <1>15, <1>16 DEF PairingInv

\* A handler is called for the first request of the queue.
LEMMA HandlesPairing ==
  ASSUME TypeOK, ConversationInv, SHandles
  PROVE  /\ PairingInv'
         /\ executions[Head(s_server_requests).request.payload] = 0
  <1> USE DEF ConversationInv
  <1> DEFINE x == Head(s_server_requests)
             r == x.request.payload
  <1>1. /\ ClientIdle /\ Table' = Table /\ Owed' = Owed
        /\ UnderWay(Server)' = UnderWay(Server) /\ UnderWay(Client)' = UnderWay(Client)
        /\ s_server_requests # << >>
        /\ s_server_requests' = Tail(s_server_requests)
        /\ s_server_responses' = Append(s_server_responses, x)
        /\ r \in Requests /\ executions' = [executions EXCEPT ![r] = @ + 1]
    BY SHandlesEffect
  <1>2. Repeated' = Repeated /\ Open' = Open /\ Index' = Index
    BY <1>1, ClientIdleExchanges
  <1>3. /\ x \in Range(s_server_requests) /\ x.request \in Queued
        /\ Range(s_server_requests') \subseteq Range(s_server_requests)
        /\ Range(s_server_responses') = Range(s_server_responses) \cup {x}
        /\ Queued' = Queued
    BY <1>1, HandledQueues
  <1>4. /\ 1 \in DOMAIN s_server_requests /\ x = s_server_requests[1]
        /\ \A i \in DOMAIN s_server_requests' :
             i \in Nat /\ i + 1 # 1 /\ i + 1 \in DOMAIN s_server_requests
             /\ s_server_requests'[i] = s_server_requests[i + 1]
    BY <1>1, ServerParts, TakenFrom
  <1> HIDE DEF x
  <1>5. executions[r] = 0
    BY <1>3 DEF ExecutionsInv
  <1>6. executions \in [Requests -> Nat]
    BY TypeParts
  <1>7. executions'[r] = 1 /\ \A p : p # r => executions'[p] = executions[p]
    BY <1>1, <1>5, <1>6
  <1>8. x.request \in Asked /\ Asked' = Asked
    BY <1>1, <1>2, <1>3 DEF Asked
  <1>9. UniqueInv' /\ TokenInv' /\ MidInv'
    BY <1>1, <1>2, <1>3, <1>8 DEF UniqueInv, TokenInv, MidInv
  <1>10. OwedInv' /\ CachedInv'
    BY <1>1, <1>3, <1>8 DEF OwedInv, CachedInv
  <1>11. ExecutionsInv'
    <2>1. \A k \in Queued' : k.mid \in DOMAIN Table'
      BY <1>1, <1>3 DEF ExecutionsInv
    <2>2. \A k \in Asked' : executions'[k.payload] # 0 => k.mid \in DOMAIN Table'
      <3> SUFFICES ASSUME NEW k \in Asked', executions'[k.payload] # 0
                   PROVE  k.mid \in DOMAIN Table'
        OBVIOUS
      <3>1. CASE k.payload = r
        <4>1. k = x.request
          BY <3>1, <1>8 DEF UniqueInv
        <4> QED
          BY <4>1, <1>1, <1>3 DEF ExecutionsInv
      <3>2. CASE k.payload # r
        BY <3>2, <1>1, <1>7, <1>8 DEF ExecutionsInv
      <3> QED
        BY <3>1, <3>2
    <2>3. \A y \in Range(s_server_requests') : executions'[y.request.payload] = 0
      <3> SUFFICES ASSUME NEW i \in DOMAIN s_server_requests'
                   PROVE  executions'[s_server_requests'[i].request.payload] = 0
        BY DEF Range
      <3>1. s_server_requests[i + 1].request.payload # r
        BY <1>4 DEF ExecutionsInv
      <3>2. s_server_requests[i + 1] \in Range(s_server_requests)
        BY <1>4 DEF Range
      <3> QED
        BY <3>1, <3>2, <1>4, <1>7 DEF ExecutionsInv
    <2>4. \A p : executions[p] = 1 => executions'[p] = 1
      BY <1>5, <1>7
    <2>5. \A y \in Range(s_server_responses') : executions'[y.request.payload] = 1
      BY <1>3, <1>7, <2>4 DEF ExecutionsInv
    <2>6. \A k \in UnderWay(Client)' : executions'[k.payload] = 1
      BY <1>1, <2>4 DEF ExecutionsInv
    <2>7. \A m \in DOMAIN Table' :
            LET a == Table'[m].cached_response IN a # None => executions'[a.payload] = 1
      BY <1>1, <2>4 DEF ExecutionsInv
    <2>8. \A i, j \in DOMAIN s_server_requests' :
            s_server_requests'[i].request.payload = s_server_requests'[j].request.payload
              => i = j
      <3> SUFFICES ASSUME NEW i \in DOMAIN s_server_requests',
                          NEW j \in DOMAIN s_server_requests',
                          s_server_requests'[i].request.payload =
                            s_server_requests'[j].request.payload
                   PROVE  i = j
        OBVIOUS
      <3>1. i + 1 = j + 1
        BY <1>4 DEF ExecutionsInv
      <3>2. i \in Nat /\ j \in Nat
        BY <1>4
      <3> QED
        BY <3>1, <3>2
    <2> QED
      BY <2>1, <2>2, <2>3, <2>5, <2>6, <2>7, <2>8 DEF ExecutionsInv
  <1> QED
    BY <1>5, <1>9, <1>10, <1>11 DEF PairingInv, x

-----------------------------------------------------------------------------
(* The callers. *)

\* What is queued for the stack, or not even that, has left no trace.
LEMMA StageKept ==
  ASSUME TypeOK, StageInv,
         \A r \in Requests : c_caller'[r] = C!Idle <=> c_caller[r] = C!Idle,
         \/ c_outbound_requests' = c_outbound_requests
         \/ /\ c_outbound_requests # << >>
            /\ c_outbound_requests' = Tail(c_outbound_requests),
         \A k \in Asked' :
           \/ k \in Asked
           \/ /\ c_outbound_requests # << >>
              /\ c_outbound_requests' = Tail(c_outbound_requests)
              /\ k.payload = Head(c_outbound_requests).request,
         \A r \in Requests : (\A k \in Asked : k.payload # r) => executions'[r] = executions[r]
  PROVE  StageInv'
  <1> DEFINE Q == [request : Requests, peer : {Server}]
  <1>1. c_outbound_requests \in Seq(Q)
    BY TypeParts DEF C!TypeOK
  <1>2. /\ Range(c_outbound_requests') \subseteq Range(c_outbound_requests)
        /\ \A x \in Range(c_outbound_requests) : x.request \in Requests
    <2>1. \A i \in DOMAIN c_outbound_requests : c_outbound_requests[i] \in Q
      BY <1>1, ElementOfSeq, LenProperties
    <2> QED
      BY <1>1, <2>1, TakenFrom DEF Range
  <1>3. \A i, j \in DOMAIN c_outbound_requests' :
          c_outbound_requests'[i].request = c_outbound_requests'[j].request => i = j
    <2>1. CASE c_outbound_requests' = c_outbound_requests
      BY <2>1 DEF StageInv
    <2>2. CASE /\ c_outbound_requests # << >>
               /\ c_outbound_requests' = Tail(c_outbound_requests)
      <3>1. \A i \in DOMAIN c_outbound_requests' :
              /\ i \in Nat /\ i + 1 \in DOMAIN c_outbound_requests
              /\ c_outbound_requests'[i] = c_outbound_requests[i + 1]
        BY <1>1, <2>2, TakenFrom
      <3> SUFFICES ASSUME NEW i \in DOMAIN c_outbound_requests',
                          NEW j \in DOMAIN c_outbound_requests',
                          c_outbound_requests'[i].request = c_outbound_requests'[j].request
                   PROVE  i = j
        OBVIOUS
      <3>2. i + 1 = j + 1
        BY <3>1 DEF StageInv
      <3> QED
        BY <3>1, <3>2
    <2> QED
      BY <2>1, <2>2
  <1>4. \A x \in Range(c_outbound_requests') : c_caller'[x.request] # C!Idle
    BY <1>2 DEF StageInv
  <1>5. ASSUME /\ c_outbound_requests # << >>
               /\ c_outbound_requests' = Tail(c_outbound_requests)
        PROVE  LET r == Head(c_outbound_requests).request
               IN  /\ r \in Requests /\ c_caller'[r] # C!Idle
                   /\ \A x \in Range(c_outbound_requests') : x.request # r
    <2> DEFINE r == Head(c_outbound_requests).request
    <2>1. /\ Head(c_outbound_requests) \in Range(c_outbound_requests)
          /\ 1 \in DOMAIN c_outbound_requests /\ r = c_outbound_requests[1].request
          /\ \A i \in DOMAIN c_outbound_requests' :
               /\ i + 1 # 1 /\ i + 1 \in DOMAIN c_outbound_requests
               /\ c_outbound_requests'[i] = c_outbound_requests[i + 1]
      BY <1>1, <1>5, TakenFrom
    <2>2. r \in Requests /\ c_caller'[r] # C!Idle
      BY <1>2, <2>1 DEF StageInv
    <2> HIDE DEF r
    <2>3. \A i \in DOMAIN c_outbound_requests' : c_outbound_requests'[i].request # r
      BY <2>1 DEF StageInv
    <2> QED
      BY <2>2, <2>3 DEF Range, r
  <1>6. ASSUME NEW r \in Requests,
               c_caller'[r] = C!Idle \/ \E x \in Range(c_outbound_requests') : x.request = r
        PROVE  executions'[r] = 0 /\ \A k \in Asked' : k.payload # r
    <2>1. executions[r] = 0 /\ \A k \in Asked : k.payload # r
      BY <1>2, <1>6 DEF StageInv
    <2>2. \A k \in Asked' : k.payload # r
      BY <1>5, <1>6, <2>1
    <2> QED
      BY <2>1, <2>2
  <1> QED
    BY <1>3, <1>4, <1>6 DEF StageInv

\* Telling callers their results makes none of them idle.
LEMMA ToldIdle ==
  ASSUME NEW R, NEW x, x.kind # "Idle", c_caller' = C!Tell(R, x)
  PROVE  \A r \in Requests : c_caller'[r] = C!Idle <=> c_caller[r] = C!Idle
  BY DEF C!Tell, C!Idle, C!Waiting

\* A caller hands its request to the stack.
LEMMA CallerAsks ==
  ASSUME TypeOK, StageInv, NEW r \in Requests, c_caller[r] = C!Idle,
         c_caller' = [c_caller EXCEPT ![r] = C!Waiting],
         c_outbound_requests' = Append(c_outbound_requests, [request |-> r, peer |-> Server]),
         Asked' \subseteq Asked, UNCHANGED executions
  PROVE  StageInv'
  <1> DEFINE Q == [request : Requests, peer : {Server}]
             x == [request |-> r, peer |-> Server]
  <1>1. c_outbound_requests \in Seq(Q) /\ x \in Q /\ x.request = r
    BY TypeParts DEF C!TypeOK
  <1>2. c_outbound_requests' = Append(c_outbound_requests, x)
    OBVIOUS
  <1> HIDE DEF x, Q
  <1>3. /\ Range(c_outbound_requests') = Range(c_outbound_requests) \cup {x}
        /\ \A i \in DOMAIN c_outbound_requests' :
             \/ /\ i \in DOMAIN c_outbound_requests
                /\ c_outbound_requests'[i] = c_outbound_requests[i]
             \/ i = Len(c_outbound_requests) + 1 /\ c_outbound_requests'[i] = x
    BY <1>1, <1>2, PutInto
  <1>4. \A i \in DOMAIN c_outbound_requests : c_outbound_requests[i].request # r
    BY DEF StageInv, Range
  <1>5. \A i, j \in DOMAIN c_outbound_requests' :
          c_outbound_requests'[i].request = c_outbound_requests'[j].request => i = j
    BY <1>1, <1>3, <1>4 DEF StageInv
  <1>6. c_caller \in [Requests -> C!Results \cup {C!Idle, C!Waiting}]
    BY TypeParts DEF C!TypeOK
  <1>7. c_caller'[r] # C!Idle /\ \A q : q # r => c_caller'[q] = c_caller[q]
    BY <1>6 DEF C!Idle, C!Waiting
  <1>8. \A y \in Range(c_outbound_requests') : c_caller'[y.request] # C!Idle
    BY <1>1, <1>3, <1>7 DEF StageInv
  <1>9. \A q \in Requests :
          c_caller'[q] = C!Idle \/ (\E y \in Range(c_outbound_requests') : y.request = q) =>
            c_caller[q] = C!Idle \/ (\E y \in Range(c_outbound_requests) : y.request = q)
    BY <1>1, <1>3, <1>7
  <1>10. \A q \in Requests :
          c_caller'[q] = C!Idle \/ (\E y \in Range(c_outbound_requests') : y.request = q) =>
            executions'[q] = 0 /\ \A k \in Asked' : k.payload # q
    BY <1>9 DEF StageInv
  <1> QED
    BY <1>5, <1>8, <1>10 DEF StageInv

\* A step that adds nothing keeps the stages of the callers.
LEMMA NothingNewStage ==
  ASSUME TypeOK, StageInv, NothingNew,
         \A r \in Requests : c_caller'[r] = C!Idle <=> c_caller[r] = C!Idle,
         \/ c_outbound_requests' = c_outbound_requests
         \/ /\ c_outbound_requests # << >>
            /\ c_outbound_requests' = Tail(c_outbound_requests)
  PROVE  StageInv'
  <1>1. Asked' \subseteq Asked /\ UNCHANGED executions
    BY NothingNewQueues DEF NothingNew
  <1> QED
    BY <1>1, StageKept

\* A caller asks or gives up: the stages of the callers hold.
LEMMA CallerStage ==
  ASSUME TypeOK, ConversationInv, CCaller
  PROVE  StageInv'
  <1>1. c_running /\ StageInv
    BY DEF ConversationInv, MessagesInv
  <1>2. NothingNew /\ Asked' \subseteq Asked /\ UNCHANGED executions
    BY <1>1, CCallerEffect, NothingNewQueues DEF NothingNew
  <1>3. CASE \E r \in Requests :
               /\ c_caller[r] = C!Idle
               /\ c_caller' = [c_caller EXCEPT ![r] = C!Waiting]
               /\ c_outbound_requests' =
                    Append(c_outbound_requests, [request |-> r, peer |-> Server])
    BY <1>1, <1>2, <1>3, CallerAsks
  <1>4. CASE \E r \in Requests :
               /\ c_caller[r] = C!Waiting
               /\ c_caller' = [c_caller EXCEPT ![r] = [kind |-> "ClientTimeout"]]
               /\ UNCHANGED c_outbound_requests
    <2>1. c_caller \in [Requests -> C!Results \cup {C!Idle, C!Waiting}]
      BY TypeParts DEF C!TypeOK
    <2>2. \A r \in Requests : c_caller'[r] = C!Idle <=> c_caller[r] = C!Idle
      BY <1>4, <2>1 DEF C!Idle, C!Waiting
    <2> QED
      BY <1>1, <1>2, <1>4, <2>2, NothingNewStage
  <1>5. CASE /\ c_outbound_requests # << >>
             /\ c_outbound_requests' = Tail(c_outbound_requests)
             /\ \E R : c_caller' = C!Tell(R, [kind |-> "ChannelClosed"])
    BY <1>1, <1>2, <1>5, ToldIdle, NothingNewStage
  <1> QED
    BY <1>1, <1>3, <1>4, <1>5, CCallerEffect

\* The server takes a step: the stages of the callers hold.
LEMMA ServerStage ==
  ASSUME TypeOK, ConversationInv, SReceives \/ SResponds \/ SHandles
  PROVE  StageInv'
  <1> USE DEF ConversationInv
  <1>1. ClientIdle
    BY SReceivesEffect, SRespondsEffect, SHandlesEffect
  <1>2. UnderWay(Server)' = UnderWay(Server) /\ Repeated' = Repeated
    BY <1>1, SReceivesEffect, SRespondsEffect, SHandlesEffect, ClientIdleExchanges
  <1>3. Queued' \subseteq Queued \cup UnderWay(Server)
    <2>1. CASE SReceives
      <3>1. PICK k \in UnderWay(Server) :
              \/ UNCHANGED s_server_requests
              \/ s_server_requests' =
                   Append(s_server_requests, [peer |-> Client, request |-> k])
        BY <2>1, SReceivesEffect
      <3>2. k \in Packets
        BY TypeParts, UnderWayType
      <3>3. Queued' \subseteq Queued \cup {k}
        BY <2>1, <3>1, <3>2, SReceivesEffect, ReceivedQueues
      <3> QED
        BY <3>3
    <2>2. CASE SResponds
      BY <2>2, SRespondsEffect, ServedQueues
    <2>3. CASE SHandles
      BY <2>3, SHandlesEffect, HandledQueues
    <2> QED
      BY <2>1, <2>2, <2>3
  <1>4. Asked' \subseteq Asked
    BY <1>2, <1>3 DEF Asked
  <1>5. \A r \in Requests : (\A k \in Asked : k.payload # r) => executions'[r] = executions[r]
    <2>1. CASE SReceives \/ SResponds
      BY <2>1, SReceivesEffect, SRespondsEffect
    <2>2. CASE SHandles
      <3> DEFINE p == Head(s_server_requests).request.payload
      <3>1. Head(s_server_requests).request \in Queued
        BY <2>2, SHandlesEffect, HandledQueues
      <3>2. executions' = [executions EXCEPT ![p] = @ + 1] /\ executions \in [Requests -> Nat]
        BY <2>2, SHandlesEffect, TypeParts
      <3> HIDE DEF p
      <3>3. \A r \in Requests : r # p => executions'[r] = executions[r]
        BY <3>2
      <3> QED
        BY <3>1, <3>3 DEF Asked, p
    <2> QED
      BY <2>1, <2>2
  <1> QED
    BY <1>1, <1>4, <1>5, StageKept DEF ClientIdle

-----------------------------------------------------------------------------
(* The theorems. *)

\* The parts of the invariant that need no assumption on the reuse of MIDs.
MessagesAlways == TypeOK /\ MessagesInv /\ ExchangesInv

\* They are inductive.
LEMMA MessagesInductive ==
  /\ Init => MessagesAlways
  /\ MessagesAlways /\ [Next]_vars => MessagesAlways'
  BY InitTypes, InitMessagesInv, MessagesNext DEF MessagesAlways

\* Every variable of the two stacks and the network keeps its type.
THEOREM TypeCorrect == Spec => []TypeOK
  <1>1. MessagesAlways => TypeOK
    BY DEF MessagesAlways
  <1> QED
    BY <1>1, MessagesInductive, PTL DEF Spec

\* No caller is left waiting on an exchange that no timer ends.
THEOREM WaitsAreTimed == Spec => []EveryWaitIsTimed
  <1>1. MessagesAlways => EveryWaitIsTimed
    <2> SUFFICES ASSUME MessagesAlways, NEW r \in Requests, C!Untimed(r)
                 PROVE  FALSE
      BY DEF EveryWaitIsTimed
    <2>1. PICK x \in C!HeldBy(r) :
            LET e == c_sessions[x[1]].exchanges[x[2]]
            IN  e.retransmit = None /\ e.expires_at = None
      BY DEF C!Untimed
    <2>2. /\ x[1] = Server /\ Server \in DOMAIN c_sessions
          /\ x[2] \in DOMAIN c_sessions[x[1]].exchanges
      BY <2>1 DEF C!HeldBy
    <2>3. x[2] \in DOMAIN Open /\ Open[x[2]] = c_sessions[x[1]].exchanges[x[2]]
      BY <2>2 DEF Open
    <2> QED
      BY <2>1, <2>3 DEF MessagesAlways, ExchangesInv
  <1> QED
    BY <1>1, MessagesInductive, PTL DEF Spec

\* The conversation has not begun at the start.
LEMMA InitConversation ==
  ASSUME Init
  PROVE  ConversationInv
  <1>1. PairingInv
    BY InitMessages DEF Init, C!Init, S!Init, EmptyMap, PairingInv, UniqueInv, TokenInv, MidInv,
       OwedInv, CachedInv, ExecutionsInv, Range
  <1>2. StageInv
    BY InitMessages DEF Init, C!Init, StageInv, Range
  <1> QED
    BY <1>1, <1>2, InitMessagesInv DEF ConversationInv, PairingInv

\* A timeout makes no caller idle.
LEMMA TimeoutIdle ==
  ASSUME \A r \in Requests :
           \/ c_caller'[r] = c_caller[r]
           \/ c_caller[r] = C!Waiting /\ c_caller'[r] \in C!Results
              /\ c_caller'[r].kind = "Timeout"
  PROVE  \A r \in Requests : c_caller'[r] = C!Idle <=> c_caller[r] = C!Idle
  BY DEF C!Idle, C!Waiting

LEMMA CarefulIsNext == [CarefulNext]_vars => [Next]_vars
  BY DEF CarefulNext, Next

\* Every careful step keeps the invariant.
LEMMA ConversationNext ==
  ASSUME TypeOK, ConversationInv, [CarefulNext]_vars
  PROVE  ConversationInv'
  <1> USE DEF CarefulNext, NextButAsk
  <1>1. MessagesInv /\ ExchangesInv /\ StageInv /\ c_running
    BY DEF ConversationInv, MessagesInv
  <1>2. MessagesInv' /\ ExchangesInv'
    BY <1>1, MessagesNext, CarefulIsNext
  <1>3. PairingInv'
    <2>1. CASE \/ CReceives \/ CTimer \/ CCleanup \/ CCaller \/ SCleanup \/ Tick
               \/ UNCHANGED vars
      <3>1. NothingNew
        BY <2>1, <1>1, CReceivesEffect, CTimerEffect, CCleanupEffect, CCallerEffect,
           SCleanupEffect, TickEffect, StutterEffect
      <3> QED
        BY <3>1, NothingNewPairing
    <2> QED
      BY <2>1, AsksPairing, ReceivesPairing, RespondsPairing, HandlesPairing
  <1>4. StageInv'
    <2>1. CASE CReceives
      <3>1. PICK k, R :
              c_caller' = C!Tell(R, [kind |-> "Response", payload |-> k.payload])
        BY <2>1, <1>1, CReceivesEffect
      <3>2. \A r \in Requests : c_caller'[r] = C!Idle <=> c_caller[r] = C!Idle
        <4> DEFINE answer == [kind |-> "Response", payload |-> k.payload]
        <4>1. answer.kind # "Idle"
          OBVIOUS
        <4>2. c_caller' = C!Tell(R, answer)
          BY <3>1
        <4> HIDE DEF answer
        <4> QED
          BY <4>1, <4>2, ToldIdle
      <3> QED
        BY <2>1, <1>1, <3>2, CReceivesEffect, NothingNewStage
    <2>2. CASE CTimer
      BY <2>2, <1>1, CTimerEffect, TimeoutIdle, NothingNewStage
    <2>3. CASE CCleanup \/ SCleanup \/ Tick \/ UNCHANGED vars
      <3>1. NothingNew /\ UNCHANGED <<c_caller, c_outbound_requests>>
        BY <2>3, CCleanupEffect, SCleanupEffect, TickEffect, StutterEffect
      <3> QED
        BY <1>1, <3>1, NothingNewStage
    <2>4. CASE CAsks /\ NothingReused(TRUE)
      <3> DEFINE r == Head(c_outbound_requests).request
      <3>1. /\ ServerIdle /\ UNCHANGED executions
            /\ c_outbound_requests # << >>
            /\ c_outbound_requests' = Tail(c_outbound_requests)
            /\ \E R : c_caller' = C!Tell(R, [kind |-> "ChannelClosed"])
        BY <2>4, CAsksEffect
      <3>2. \A q \in Requests : c_caller'[q] = C!Idle <=> c_caller[q] = C!Idle
        BY <3>1, ToldIdle
      <3>3. \A k \in Asked' : k \in Asked \/ k.payload = r
        <4>1. r \in Requests
          BY <2>4, AsksAdds
        <4>2. PICK token \in Tokens, mid \in MIDs :
                 \A k \in Asked' : k = C!RequestPacket(r, token, mid) \/ k \in Asked
          BY <2>4, AsksAdds
        <4>3. C!RequestPacket(r, token, mid).payload = r
          BY <4>1, AskIsAsk
        <4> QED
          BY <4>2, <4>3
      <3> QED
        BY <1>1, <3>1, <3>2, <3>3, StageKept
    <2>5. CASE CCaller
      BY <2>5, CallerStage
    <2>6. CASE SReceives \/ SResponds \/ SHandles
      BY <2>6, ServerStage
    <2> QED
      BY <2>1, <2>2, <2>3, <2>4, <2>5, <2>6
  <1> QED
    BY <1>2, <1>3, <1>4 DEF ConversationInv, PairingInv

\* The inductive invariant holds as long as no request is sent under a MID or a
\* token that is still remembered.
THEOREM ConversationHolds == CarefulSpec => []ConversationInv
  <1>1. Init => TypeOK /\ ConversationInv
    BY InitTypes, InitConversation
  <1>2. TypeOK /\ ConversationInv /\ [CarefulNext]_vars => (TypeOK /\ ConversationInv)'
    <2>1. ConversationInv => MessagesInv /\ ExchangesInv
      BY DEF ConversationInv
    <2> QED
      BY <2>1, MessagesNext, ConversationNext, CarefulIsNext
  <1> QED
    BY <1>1, <1>2, PTL DEF CarefulSpec

-----------------------------------------------------------------------------
(* The refinement. *)

LEMMA SomeFail ==
  ASSUME TypeOK, UNCHANGED executions, c_caller' = [r \in Requests |-> c_caller'[r]],
         \A r \in Requests :
           \/ c_caller'[r] = c_caller[r]
           \/ /\ c_caller[r] = C!Waiting /\ c_caller'[r] \in C!Results
              /\ c_caller'[r].kind # "Response"
  PROVE  [Promise!Next]_(Promise!vars)
  <1> DEFINE R == {r \in Requests : c_caller'[r] # c_caller[r]}
  <1>1. c_caller = [r \in Requests |-> c_caller[r]]
    BY TypeParts DEF C!TypeOK
  <1>2. CASE R = {}
    <2>1. c_caller' = c_caller
      BY <1>1, <1>2
    <2> QED
      BY <2>1 DEF Promise!vars
  <1>3. CASE R # {}
    <2>1. \A r \in R : /\ c_caller[r] = Promise!Waiting
                       /\ c_caller'[r] \in {x \in C!Results : x.kind # "Response"}
      BY DEF C!Waiting, Promise!Waiting
    <2>2. c_caller' = [r \in Requests |-> IF r \in R THEN c_caller'[r] ELSE c_caller[r]]
      OBVIOUS
    <2>3. R \in SUBSET Requests
      OBVIOUS
    <2> HIDE DEF R
    <2>4. Promise!Fail(R)
      BY <1>3, <2>1, <2>2 DEF Promise!Fail
    <2> QED
      BY <2>3, <2>4 DEF Promise!Next
  <1> QED
    BY <1>2, <1>3

\* Dropping an exchange's channel is a failure of its caller.
LEMMA ClosedFail ==
  ASSUME TypeOK, UNCHANGED executions, NEW R, c_caller' = C!Tell(R, [kind |-> "ChannelClosed"])
  PROVE  [Promise!Next]_(Promise!vars)
  <1>1. [kind |-> "ChannelClosed"] \in C!Results /\ [kind |-> "ChannelClosed"].kind # "Response"
    BY DEF C!Results
  <1>2. c_caller' = [r \in Requests |-> c_caller'[r]]
    BY DEF C!Tell
  <1>3. \A r \in Requests :
          \/ c_caller'[r] = c_caller[r]
          \/ /\ c_caller[r] = C!Waiting /\ c_caller'[r] \in C!Results
             /\ c_caller'[r].kind # "Response"
    BY <1>1 DEF C!Tell
  <1> QED
    BY <1>2, <1>3, SomeFail

\* A step that callers and handlers do not see stutters.
LEMMA CallersUnchanged ==
  ASSUME UNCHANGED <<c_caller, executions>>
  PROVE  [Promise!Next]_(Promise!vars)
  BY DEF Promise!vars

\* A response is given to the caller of the request it answers.
LEMMA ReceiptAnswers ==
  ASSUME TypeOK, ConversationInv, CReceives
  PROVE  [Promise!Next]_(Promise!vars)
  <1> USE DEF ConversationInv
  <1>1. PICK k, R :
          /\ k \in UnderWay(Client)
          /\ TokenInv /\ MidInv => R \subseteq {k.payload}
          /\ c_caller' = C!Tell(R, [kind |-> "Response", payload |-> k.payload])
    BY CReceivesEffect
  <1>2. /\ UNCHANGED executions /\ k.payload \in Requests /\ executions[k.payload] = 1
        /\ R \subseteq {k.payload}
    BY <1>1, CReceivesEffect DEF NothingNew, MessagesInv, IsAnswer, ExecutionsInv
  <1>3. c_caller = [r \in Requests |-> c_caller[r]]
    BY TypeParts DEF C!TypeOK
  <1> DEFINE p == k.payload
             answer == [kind |-> "Response", payload |-> p]
  <1>4. c_caller' = [r \in Requests |-> IF r \in R /\ c_caller[r] = C!Waiting
                                        THEN answer ELSE c_caller[r]]
    BY <1>1 DEF C!Tell
  <1>5. CASE p \in R /\ c_caller[p] = C!Waiting
    <2>1. c_caller' = [c_caller EXCEPT ![p] = Promise!ResponseTo(p)]
      BY <1>2, <1>3, <1>4, <1>5 DEF Promise!ResponseTo
    <2>2. Promise!Answer(p)
      BY <1>2, <1>5, <2>1 DEF Promise!Answer, Promise!Waiting, C!Waiting
    <2> QED
      BY <1>2, <2>2 DEF Promise!Next
  <1>6. CASE ~ (p \in R /\ c_caller[p] = C!Waiting)
    <2>1. \A r \in R : r = p
      BY <1>2
    <2> HIDE DEF answer
    <2>2. c_caller' = c_caller
      BY <1>3, <1>4, <1>6, <2>1
    <2> QED
      BY <1>2, <2>2, CallersUnchanged
  <1> QED
    BY <1>5, <1>6

\* A handler is called for a request that a caller asked and that none was
\* called for before.
LEMMA HandlingExecutes ==
  ASSUME TypeOK, ConversationInv, SHandles
  PROVE  [Promise!Next]_(Promise!vars)
  <1> DEFINE r == Head(s_server_requests).request.payload
  <1>1. /\ ClientIdle /\ r \in Requests /\ executions[r] = 0
        /\ executions' = [executions EXCEPT ![r] = @ + 1]
        /\ Head(s_server_requests).request \in Queued
    BY SHandlesEffect, HandlesPairing, HandledQueues DEF ConversationInv
  <1>2. c_caller[r] # C!Idle
    BY <1>1 DEF ConversationInv, StageInv, Asked
  <1>3. executions' = [executions EXCEPT ![r] = 1]
    BY <1>1
  <1> HIDE DEF r
  <1>4. Promise!Execute(r)
    BY <1>1, <1>2, <1>3 DEF Promise!Execute, Promise!Idle, C!Idle, ClientIdle
  <1> QED
    BY <1>1, <1>4 DEF Promise!Next

\* A caller asks, gives up or finds its channel closed: an allowed step.
LEMMA CallerPromise ==
  ASSUME TypeOK, c_running, CCaller
  PROVE  [Promise!Next]_(Promise!vars)
  <1>1. UNCHANGED executions
    BY CCallerEffect DEF NothingNew
  <1>2. c_caller \in [Requests -> C!Results \cup {C!Idle, C!Waiting}]
    BY TypeParts DEF C!TypeOK
  <1>3. CASE \E r \in Requests :
               /\ c_caller[r] = C!Idle
               /\ c_caller' = [c_caller EXCEPT ![r] = C!Waiting]
    <2>1. PICK r \in Requests : /\ c_caller[r] = C!Idle
                                /\ c_caller' = [c_caller EXCEPT ![r] = C!Waiting]
      BY <1>3
    <2>2. Promise!Ask(r)
      BY <1>1, <2>1 DEF Promise!Ask, Promise!Idle, Promise!Waiting, C!Idle, C!Waiting
    <2> QED
      BY <2>2 DEF Promise!Next
  <1>4. CASE \E r \in Requests :
               /\ c_caller[r] = C!Waiting
               /\ c_caller' = [c_caller EXCEPT ![r] = [kind |-> "ClientTimeout"]]
    <2>1. PICK r \in Requests :
            /\ c_caller[r] = C!Waiting
            /\ c_caller' = [c_caller EXCEPT ![r] = [kind |-> "ClientTimeout"]]
      BY <1>4
    <2>2. [kind |-> "ClientTimeout"] \in C!Results
          /\ [kind |-> "ClientTimeout"].kind # "Response"
      BY DEF C!Results
    <2>3. c_caller' = [q \in Requests |-> c_caller'[q]]
          /\ c_caller'[r] = [kind |-> "ClientTimeout"]
          /\ \A q \in Requests : q # r => c_caller'[q] = c_caller[q]
      BY <1>2, <2>1
    <2> QED
      BY <1>1, <2>1, <2>2, <2>3, SomeFail
  <1>5. CASE \E R : c_caller' = C!Tell(R, [kind |-> "ChannelClosed"])
    BY <1>1, <1>5, ClosedFail
  <1> QED
    BY <1>3, <1>4, <1>5, CCallerEffect

\* Every step is a step of RequestResponse or stutters.
LEMMA PromiseStep ==
  ASSUME TypeOK, ConversationInv, [Next]_vars
  PROVE  [Promise!Next]_(Promise!vars)
  <1>1. c_running /\ MessagesInv
    BY DEF ConversationInv, MessagesInv
  <1>2. CASE CAsks
    BY <1>2, CAsksEffect, ClosedFail
  <1>3. CASE CTimer
    <2>1. UNCHANGED executions
      BY <1>3, CTimerEffect DEF NothingNew
    <2>2. /\ c_caller' = [r \in Requests |-> c_caller'[r]]
          /\ \A r \in Requests :
               \/ c_caller'[r] = c_caller[r]
               \/ /\ c_caller[r] = C!Waiting /\ c_caller'[r] \in C!Results
                  /\ c_caller'[r].kind # "Response"
      BY <1>3, CTimerEffect
    <2> QED
      BY <2>1, <2>2, SomeFail
  <1>4. CASE CCleanup \/ SCleanup \/ Tick \/ UNCHANGED vars
    <2>1. UNCHANGED <<c_caller, executions>>
      BY <1>4, CCleanupEffect, SCleanupEffect, TickEffect, StutterEffect DEF NothingNew
    <2> QED
      BY <2>1, CallersUnchanged
  <1>5. CASE SReceives \/ SResponds
    <2>1. UNCHANGED <<c_caller, executions>>
      BY <1>1, <1>5, SReceivesEffect, SRespondsEffect DEF ClientIdle
    <2> QED
      BY <2>1, CallersUnchanged
  <1> QED
    BY <1>1, <1>2, <1>3, <1>4, <1>5, ReceiptAnswers, CallerPromise, HandlingExecutes DEF Next, NextButAsk

\* Two stacks and a network that loses, delays, duplicates and reorders
\* packets implement the exchange of requests and responses: every request is
\* executed at most once and answered with its own response, as long as no
\* request is sent under a MID or a token that is still remembered somewhere.
\* The code ensures that only while no session is made anew and no counter
\* wraps; where it does not, the promise can be broken.
THEOREM PromiseKept == CarefulSpec => KeepsPromise
  <1>1. Init => TypeOK /\ ConversationInv
    BY InitTypes, InitConversation
  <1>2. TypeOK /\ ConversationInv /\ [CarefulNext]_vars => (TypeOK /\ ConversationInv)'
    <2>1. ConversationInv => MessagesInv /\ ExchangesInv
      BY DEF ConversationInv
    <2> QED
      BY <2>1, MessagesNext, ConversationNext, CarefulIsNext
  <1>3. Init => Promise!Init
    BY DEF Init, C!Init, Promise!Init, C!Idle, Promise!Idle
  <1>4. TypeOK /\ ConversationInv /\ [CarefulNext]_vars => [Promise!Next]_(Promise!vars)
    BY PromiseStep, CarefulIsNext
  <1> QED
    BY <1>1, <1>2, <1>3, <1>4, PTL DEF CarefulSpec, KeepsPromise, Promise!Spec
=============================================================================
