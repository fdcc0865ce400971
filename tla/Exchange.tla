------------------------------ MODULE Exchange ------------------------------
(***************************************************************************)
(* transport/exchange.rs: an outstanding outbound request.  response_tx,   *)
(* the oneshot sender that the caller waits on, is the caller's name.      *)
(***************************************************************************)
EXTENDS Reliability

CONSTANT Requests    \* the outbound requests, one caller and one oneshot each

Exchanges ==
  [response_tx : Requests, message_id : MIDs \cup {None},
   retransmit : RetransmitStates \cup {None}, expires_at : Nat \cup {None}]

new_con(r, mid, packet, initial_timeout) ==
  [response_tx |-> r, message_id |-> mid,
   retransmit |-> NewRetransmitState(packet, initial_timeout), expires_at |-> None]

new_non(r) ==
  [response_tx |-> r, message_id |-> None, retransmit |-> None, expires_at |-> NON_LIFETIME]

\* The caller of the empty ACK: the exchange stays open, with no deadline left.
cancel_retransmission(e) == [e EXCEPT !.retransmit = None]

needs_retransmit(e) == e.retransmit # None /\ is_due(e.retransmit)

is_expired(e) == e.expires_at # None /\ e.expires_at = 0

retransmit_count(e) == IF e.retransmit = None THEN 0 ELSE e.retransmit.retransmit_count

\* Mutant: the .or(expiry_deadline()) is forgotten.
RetransmitDeadlineOnly(e) ==
  IF e.retransmit # None THEN e.retransmit.next_retransmit ELSE None

\* retransmit_deadline().or(expiry_deadline()): None when neither is set.
deadline(e) == IF e.retransmit # None THEN e.retransmit.next_retransmit ELSE e.expires_at

\* advance_retransmit when it returns the packet to send again.
advance_retransmit(e) == [e EXCEPT !.retransmit = Advance(@)]

\* One tick of the clock.
AgeExchange(e) ==
  [e EXCEPT
     !.retransmit = IF @ = None THEN None ELSE AgeRetransmit(@),
     !.expires_at = IF @ = None THEN None ELSE TickDown(@)]
=============================================================================
