---------------------------- MODULE Reliability ----------------------------
(***************************************************************************)
(* transport/reliability.rs: the transmission parameters, the wrapping     *)
(* allocators of message IDs and tokens, the retransmission state of a     *)
(* confirmable exchange and the entries of the duplicate-detection table.  *)
(*                                                                         *)
(* Time.  An Instant is kept relative to the present: a deadline is the    *)
(* number of ticks left until it (0 once it has passed), a creation time   *)
(* is the entry's age (which stops growing at EXCHANGE_LIFETIME, the only  *)
(* age the code compares with).  TickDown and TickUp move them by one tick.*)
(***************************************************************************)
EXTENDS Integers, HashMaps

CONSTANTS
  MID_MODULUS,       \* number of message IDs: 2^16 in the code (u16)
  TOKEN_MODULUS,     \* number of tokens: 2^32 in the code (u32)
  MidStarts,         \* the random starts of the MID counter that are explored
  TokenStarts,       \* the random starts of the token counter that are explored
  ACK_TIMEOUTS,      \* the initial timeouts random_ack_timeout may return
  MAX_RETRANSMIT,
  EXCHANGE_LIFETIME,
  NON_LIFETIME,
  IDLE_SESSION_CLEANUP_INTERVAL,
  Payloads,          \* message bodies, as far as they are told apart
  None               \* Rust's Option::None

MIDs == 0 .. MID_MODULUS - 1
Tokens == 0 .. TOKEN_MODULUS - 1

ASSUME ModulusAssumption == MID_MODULUS \in Nat \ {0} /\ TOKEN_MODULUS \in Nat \ {0}
ASSUME StartsAssumption == MidStarts \subseteq MIDs /\ TokenStarts \subseteq Tokens
ASSUME TimingAssumption ==
  /\ ACK_TIMEOUTS \subseteq Nat \ {0}
  /\ MAX_RETRANSMIT \in Nat
  /\ EXCHANGE_LIFETIME \in Nat \ {0}
  /\ NON_LIFETIME \in Nat \ {0}
  /\ IDLE_SESSION_CLEANUP_INTERVAL \in Nat \ {0}

TickDown(n) == IF n = 0 THEN 0 ELSE n - 1
TickUp(age) == IF age < EXCHANGE_LIFETIME THEN age + 1 ELSE age
-----------------------------------------------------------------------------
(* Packets: coap_lite's Packet, reduced to the header fields, the token and *)
(* the payload that the transport layer reads.                              *)

MessageTypes == {"Confirmable", "NonConfirmable", "Acknowledgement", "Reset"}
MessageClasses == {"Empty", "Request", "Response", "Reserved"}

Packets == [type : MessageTypes, code : MessageClasses, mid : MIDs,
            token : Tokens \cup {None}, payload : Payloads \cup {None}]

\* The empty acknowledgement of an inbound confirmable message.
EmptyAck(mid) ==
  [type |-> "Acknowledgement", code |-> "Empty", mid |-> mid, token |-> None, payload |-> None]
-----------------------------------------------------------------------------
(* Allocators.  "allocated" is a history field: how many values have been   *)
(* handed out, up to one more than there are, so that properties can tell   *)
(* whether a value was handed out twice.                                    *)

Allocators(N) == [next : 0 .. N - 1, allocated : 0 .. N + 1]

NewAllocator(start) == [next |-> start, allocated |-> 0]

\* Mutant: a plain addition in the place of wrapping_add.
AllocateUnwrapped(a, N) ==
  [next |-> a.next + 1, allocated |-> IF a.allocated > N THEN N + 1 ELSE a.allocated + 1]

\* allocate(): the value handed out is a.next; the counter wraps.
Allocate(a, N) ==
  [next      |-> IF a.next = N - 1 THEN 0 ELSE a.next + 1,
   allocated |-> IF a.allocated > N THEN N + 1 ELSE a.allocated + 1]
-----------------------------------------------------------------------------
(* RetransmitState. *)

RetransmitStates ==
  [packet_bytes : Packets, retransmit_count : 0 .. MAX_RETRANSMIT,
   current_timeout : Nat, next_retransmit : Nat]

NewRetransmitState(packet, initial_timeout) ==
  [packet_bytes |-> packet, retransmit_count |-> 0,
   current_timeout |-> initial_timeout, next_retransmit |-> initial_timeout]

is_due(r) == r.next_retransmit = 0

\* Mutant: the limit counts the first transmission as a retransmission.
CanAdvanceOnceLess(r) == r.retransmit_count + 1 < MAX_RETRANSMIT

CanAdvance(r) == r.retransmit_count < MAX_RETRANSMIT

\* advance() when it returns true.
Advance(r) ==
  [r EXCEPT !.retransmit_count = @ + 1,
            !.current_timeout  = 2 * @,
            !.next_retransmit  = 2 * r.current_timeout]

\* One tick of the clock.
AgeRetransmit(r) == [r EXCEPT !.next_retransmit = TickDown(@)]
-----------------------------------------------------------------------------
(* DedupEntry, with the age of the entry for its creation time. *)

DedupEntries == [cached_response : Packets \cup {None}, age : 0 .. EXCHANGE_LIFETIME]

NewDedupEntry == [cached_response |-> None, age |-> 0]

\* One tick of the clock.
AgeEntry(d) == [d EXCEPT !.age = TickUp(@)]

ASSUME NoneAssumption ==
  None \notin Nat /\ None \notin Packets /\ None \notin RetransmitStates /\ None \notin Payloads
=============================================================================
