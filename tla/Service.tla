------------------------------ MODULE Service ------------------------------
(***************************************************************************)
(* One request after another from the client's builder (client.rs) through *)
(* the conversions of message_types.rs to the router and a handler         *)
(* (server/handler.rs), and the response back to the caller.  The packets  *)
(* go straight from one side to the other here; what a network may do to   *)
(* them is the business of CoapStack and EndToEnd.                         *)
(***************************************************************************)
EXTENDS Router, Messages

CONSTANTS
  Peer,              \* the address requests come from
  Paths,             \* what a client may give path()
  Queries,           \* what it may give query(): "key=value"
  Formats,           \* the content formats it may give
  Bodies,            \* the payloads, of requests and responses
  Statuses,          \* the status codes handlers answer with
  ForeignPackets,    \* requests of other CoAP clients
  MaxCalls           \* bound on the builder's methods called for a request

\* Paths are split at "/", and the router splits what it gets in the same way.
ASSUME PathsAssumption ==
  /\ Empty \notin Names
  /\ Paths \subseteq Seq(Names \cup {Empty})
  /\ \A p \in Paths \cup {<<Empty>>} : Segments(p) \in SegmentLists

\* path() and query() take a &str, which is UTF-8, and so are its parts.
ASSUME Utf8Assumption ==
  /\ \A n \in Names : <<n>> # NotUtf8
  /\ NotUtf8 \notin Queries

\* ContentFormat has no other values than the formats coap_lite knows.
ASSUME FormatsGivenAssumption == Formats \subseteq KnownFormats

\* Whatever another client sends, its path and its method are among those that
\* may be asked for.
ASSUME ForeignAssumption ==
  \A k \in ForeignPackets :
    /\ FlattenSeq(Valid(k.uri_path)) \in Seq(Names \cup {Empty})
    /\ Segments(PathOf(k.uri_path)) \in SegmentLists
    /\ k.code \in AllMethods

VARIABLES
  builder,           \* the client's builder, or None
  calls,             \* how many of its methods have been called
  wire,              \* the request packet on its way, or None
  received,          \* the request the server took from it, or None
  called,            \* the HandlerRequest a handler was called with, or None
  wire_response,     \* the response packet on its way, or None
  delivered,         \* the response its caller got, or None
  asked,             \* history: the request as it was built; None if foreign
  replied            \* history: the response as the server's side made it

clientSideVars == <<builder, calls, asked>>
carriedVars == <<wire, received, called, wire_response, delivered, replied>>
serviceVars == <<routerVars, clientSideVars, carriedVars>>

ServiceInit ==
  /\ RouterInit
  /\ builder = None /\ calls = 0 /\ asked = None
  /\ wire = None /\ received = None /\ called = None
  /\ wire_response = None /\ delivered = None /\ replied = None
-----------------------------------------------------------------------------
(* The client. *)

\* CoapClient::get, post, put, delete.
StartRequest(method) ==
  /\ serving
  /\ builder = None /\ wire = None
  /\ builder' = NewRequest(method)
  /\ calls' = 0
  /\ UNCHANGED <<routerVars, asked, carriedVars>>

\* A method of the builder is called.
Call(b) ==
  /\ builder # None
  /\ calls < MaxCalls
  /\ builder' = b
  /\ calls' = calls + 1
  /\ UNCHANGED <<routerVars, asked, carriedVars>>

SetPath == \E p \in Paths : Call(path(builder, p))
AddQuery == \E q \in Queries : Call(query(builder, q))
SetPayload == \E d \in Bodies : Call(payload(builder, d))
SetContentFormat == \E f \in Formats : Call(content_format(builder, f))
SetAccept == \E f \in Formats : Call(accept(builder, f))
SetConfirmable == \E c \in BOOLEAN : Call(confirmable(builder, c))

\* ClientRequestBuilder::send
SendBuilt ==
  /\ builder # None
  /\ wire' = request_to_packet(builder)
  /\ asked' = builder
  /\ builder' = None
  /\ UNCHANGED <<routerVars, calls, received, called, wire_response, delivered, replied>>

\* The request of another CoAP implementation.
SendForeign ==
  /\ serving
  /\ builder = None /\ wire = None
  /\ \E k \in ForeignPackets : wire' = k
  /\ asked' = None
  /\ UNCHANGED <<routerVars, builder, calls, received, called, wire_response, delivered, replied>>
-----------------------------------------------------------------------------
(* The server's side. *)

\* The stack makes a request of the packet, and the server gives it to the
\* router, which splits the path again.
Dispatch ==
  /\ wire # None /\ received = None
  /\ received' = request_from_packet(wire)
  /\ Handle(Segments(received'.path), received'.method)
  /\ UNCHANGED <<clientSideVars, wire, called, wire_response, delivered, replied>>

\* What a handler is given: RequestContext with no security and no extensions.
HandlerRequest(coap_request, path_params) ==
  [request |-> coap_request,
   ctx |-> [peer |-> Peer, params |-> path_params, security |-> "None", extensions |-> {}]]

\* A step of the router.
RouterStep ==
  /\ Lookup
  /\ called' = IF answer'.kind = "Handled" THEN HandlerRequest(received, answer'.params)
               ELSE called
  /\ UNCHANGED <<clientSideVars, wire, received, wire_response, delivered, replied>>

\* The responses the router returns for its answer: an error of its own, or
\* whatever the handler makes.
Replies ==
  IF answer.kind = "Handled"
  THEN {Response(s, f, d) : s \in Statuses, f \in Formats \cup {None}, d \in Bodies \cup {None}}
  ELSE {Response(answer.kind, None, None)}

\* Piggybacked for a confirmable request, separate for another.
ServerReplies ==
  /\ answer # NoAnswer /\ wire_response = None
  /\ \E r \in Replies :
       /\ replied' = r
       /\ wire_response' = response_to_packet(r, IF received.confirmable THEN "Acknowledgement"
                                                 ELSE "NonConfirmable")
  /\ UNCHANGED <<routerVars, clientSideVars, wire, received, called, delivered>>

\* The caller gets the response.
Deliver ==
  /\ wire_response # None /\ delivered = None
  /\ delivered' = response_from_packet(wire_response)
  /\ UNCHANGED <<routerVars, clientSideVars, wire, received, called, wire_response, replied>>

\* The server loop is ready for the next request.
NextRequest ==
  /\ delivered # None
  /\ Return
  /\ wire' = None /\ received' = None /\ called' = None
  /\ wire_response' = None /\ delivered' = None /\ replied' = None
  /\ asked' = None
  /\ UNCHANGED <<builder, calls>>

Building == (\E route \in Routes : Route(route)) \/ Serve

ServiceNext ==
  \/ Building /\ UNCHANGED <<clientSideVars, carriedVars>>
  \/ \E method \in Methods : StartRequest(method)
  \/ SetPath \/ AddQuery \/ SetPayload \/ SetContentFormat \/ SetAccept \/ SetConfirmable
  \/ SendBuilt
  \/ SendForeign
  \/ Dispatch
  \/ RouterStep
  \/ ServerReplies
  \/ Deliver
  \/ NextRequest

ServiceSpec == ServiceInit /\ [][ServiceNext]_serviceVars
-----------------------------------------------------------------------------
(* Properties. *)

\* A handler sees the request as the client built it, with every option of
\* it, and a path of the same segments: what to_packet takes apart
\* from_packet puts together (message_types.rs:199-255, 293-330).
HandlerSeesRequest ==
  called # None /\ asked # None =>
    /\ Segments(called.request.path) = Segments(asked.path)
    /\ [called.request EXCEPT !.path = asked.path] = asked

\* The caller sees the response as the handler made it, or the router's error
\* (message_types.rs:66-81, 99-115).
CallerSeesResponse == delivered # None => delivered = replied

\* The segments that a request asks for: those of the path its builder was
\* given, or, of a foreign packet, all those between the slashes of all its
\* Uri-Path values that are UTF-8, in order.
AskedSegments ==
  IF asked # None THEN Segments(asked.path) ELSE Segments(FlattenSeq(Valid(wire.uri_path)))

\* A handler is not called for a request whose path or method was altered on
\* the way: the route it was registered with matches, segment by segment, what
\* the client asked for, and has the request's method.  Of a foreign packet's
\* path nothing is lost but the values that are not UTF-8, which from_packet
\* leaves out without an error (message_types.rs:207-212), wherever they stand
\* among the others; a value with slashes counts as several segments.
HandlerMatchesRequest ==
  called # None =>
    /\ Matches(answer.handler, AskedSegments)
    /\ wire.code \in routes[answer.handler].methods
=============================================================================
