----------------------------- MODULE Messages -----------------------------
(***************************************************************************)
(* message_types.rs: requests and responses as the application sees them,  *)
(* and their conversion to packets and back.                               *)
(*                                                                         *)
(* A string is the sequence of its parts between "/" ("" has one part,     *)
(* Empty; "/a" has two, Empty and "a"), so that joining strings with "/"   *)
(* is joining the sequences.  A content format is its number; an empty     *)
(* payload is None.                                                        *)
(***************************************************************************)
EXTENDS Integers, Sequences, SequencesExt

CONSTANTS
  Empty,             \* the empty string
  NotUtf8,           \* an option value that is not valid UTF-8
  KnownFormats,      \* the numbers of the content formats coap_lite knows
  None               \* Rust's Option::None

ASSUME FormatsAssumption == KnownFormats \subseteq 0 .. 2^16 - 1
-----------------------------------------------------------------------------
(* Requests and responses; each method of a builder is an operator. *)

NewRequest(method) ==
  [method |-> method, path |-> <<Empty>>, queries |-> << >>, content_format |-> None,
   payload |-> None, accept |-> None, confirmable |-> TRUE]

path(b, p) == [b EXCEPT !.path = p]
query(b, q) == [b EXCEPT !.queries = Append(@, q)]
content_format(b, f) == [b EXCEPT !.content_format = f]
payload(b, d) == [b EXCEPT !.payload = d]
accept(b, f) == [b EXCEPT !.accept = f]
confirmable(b, c) == [b EXCEPT !.confirmable = c]

\* CoapResponse::new(status)...build()
Response(status, format, data) ==
  [response_type |-> status, content_format |-> format, payload |-> data]
-----------------------------------------------------------------------------
(* Paths. *)

\* What a filter that drops every x leaves of s: SelectSeq, as a recursive
\* function.
Without(s, x) ==
  LET kept[n \in 0 .. Len(s)] ==
        IF n = 0 THEN << >> ELSE IF s[n] = x THEN kept[n - 1] ELSE Append(kept[n - 1], s[n])
  IN  kept[Len(s)]

\* split('/') without the empty parts.
Segments(p) == Without(p, Empty)

\* Values that are not UTF-8 are left out, without an error.
Valid(values) == Without(values, NotUtf8)

\* Mutant: only the first option is taken, as with Accept.
PathOfFront(values) ==
  <<Empty>> \o (IF Valid(values) = << >> THEN <<Empty>> ELSE Head(Valid(values)))

\* The path of a request from its Uri-Path options: "/" and the values joined
\* with "/".
PathOf(values) ==
  <<Empty>> \o (IF Valid(values) = << >> THEN <<Empty>> ELSE FlattenSeq(Valid(values)))
-----------------------------------------------------------------------------
(* Packets. *)

\* coap_lite's get_content_format: an unknown number is no format.
FormatOf(number) == IF number \in KnownFormats THEN number ELSE None

\* The first Accept option counts.  Its bytes, at most eight, are read as a
\* number, so that its width makes no difference.
AcceptOf(values) == IF values = << >> THEN None ELSE FormatOf(Head(values))

\* Mutant: every query goes before the ones added earlier.
ToPacketReversed(q) ==
  [type           |-> IF q.confirmable THEN "Confirmable" ELSE "NonConfirmable",
   class          |-> "Request",
   code           |-> q.method,
   uri_path       |-> [i \in 1 .. Len(Segments(q.path)) |-> <<Segments(q.path)[i]>>],
   uri_query      |-> Reverse(q.queries),
   content_format |-> q.content_format,
   accept         |-> IF q.accept = None THEN << >> ELSE <<q.accept % 2^16>>,
   payload        |-> q.payload]

\* CoapRequest::to_packet: one Uri-Path option for each segment.
request_to_packet(q) ==
  [type           |-> IF q.confirmable THEN "Confirmable" ELSE "NonConfirmable",
   class          |-> "Request",
   code           |-> q.method,
   uri_path       |-> [i \in 1 .. Len(Segments(q.path)) |-> <<Segments(q.path)[i]>>],
   uri_query      |-> q.queries,
   content_format |-> q.content_format,
   accept         |-> IF q.accept = None THEN << >> ELSE <<q.accept % 2^16>>,
   payload        |-> q.payload]

\* CoapRequest::from_packet of a request.
request_from_packet(k) ==
  [method         |-> k.code,
   path           |-> PathOf(k.uri_path),
   queries        |-> Valid(k.uri_query),
   content_format |-> FormatOf(k.content_format),
   payload        |-> k.payload,
   accept         |-> AcceptOf(k.accept),
   confirmable    |-> k.type = "Confirmable"]

\* CoapResponse::to_packet
response_to_packet(r, type) ==
  [type |-> type, class |-> "Response", code |-> r.response_type,
   content_format |-> r.content_format, payload |-> r.payload]

\* Mutant: the content format is not read back.
ResponseWithoutFormat(k) == Response(k.code, None, k.payload)

\* CoapResponse::from_packet of a response.
response_from_packet(k) == Response(k.code, FormatOf(k.content_format), k.payload)
=============================================================================
