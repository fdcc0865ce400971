---------------------------- MODULE RouteTable ----------------------------
(***************************************************************************)
(* What the router promises, stated over the routes that were registered   *)
(* and without a trie: which handler a request reaches, with which path    *)
(* parameters, or which error it is answered with.  server/router.rs       *)
(* implements it (module Router).                                          *)
(*                                                                         *)
(* A pattern is a sequence of segments, each static or a parameter with a  *)
(* name.  A place is a sequence of edges, an edge being a static segment   *)
(* or Param, the edge of every parameter whatever its name.                *)
(***************************************************************************)
EXTENDS Integers, Sequences

CONSTANTS
  Names,             \* path segments and parameter names: non-empty strings without "/"
  Param,             \* the edge of a parameter
  Methods,           \* the methods a route can have a handler for
  OtherMethods,      \* the other request codes
  Patterns,          \* the patterns that may be registered
  SegmentLists       \* the segments of the paths that may be asked for

Edges == Names \cup {Param}
ASSUME ParamAssumption == Param \notin Names
ASSUME PatternsAssumption == Patterns \subseteq Seq([param : BOOLEAN, name : Names])
ASSUME SegmentsAssumption == SegmentLists \subseteq Seq(Names)

\* A route has a handler for at least one method: its MethodRouter begins
\* with one.
Routes == [pattern : Patterns, methods : (SUBSET Methods) \ {{}}]
AllMethods == Methods \cup OtherMethods
ASSUME MethodsAssumption == "none" \notin AllMethods

VARIABLES
  routes,            \* the registered routes, in order
  serving,           \* the router has been handed to the server
  request,           \* the request in hand, or NoRequest
  answer             \* how it was answered, or NoAnswer

tableVars == <<routes, serving, request, answer>>

NoRequest == [segments |-> << >>, method |-> "none"]
NoAnswer == [kind |-> "none"]
NotFound == [kind |-> "NotFound"]
MethodNotAllowed == [kind |-> "MethodNotAllowed"]
\* The handler that route k has for the method is called with these parameters.
Handled(k, params) == [kind |-> "Handled", handler |-> k, params |-> params]

TableInit ==
  /\ routes = << >>
  /\ serving = FALSE
  /\ request = NoRequest
  /\ answer = NoAnswer
-----------------------------------------------------------------------------
Edge(x) == IF x.param THEN Param ELSE x.name

\* Route k leads through place e; it ends there.
Passes(k, e) ==
  /\ Len(e) <= Len(routes[k].pattern)
  /\ \A i \in 1 .. Len(e) : Edge(routes[k].pattern[i]) = e[i]
EndsAt(k, e) == Passes(k, e) /\ Len(routes[k].pattern) = Len(e)

\* The first n edges of e, and then edge x.
Then(e, n, x) == [i \in 1 .. n + 1 |-> IF i <= n THEN e[i] ELSE x]
Upto(e, n) == [i \in 1 .. n |-> e[i]]

\* e is the place that segments lead to: a static edge is taken wherever a
\* route leads on by it from the place reached so far, a parameter elsewhere.
Preferred(e, segments) ==
  \A i \in 1 .. Len(e) :
    e[i] = IF \E k \in DOMAIN routes : Passes(k, Then(e, i - 1, segments[i]))
           THEN segments[i] ELSE Param

\* The places that segments may lead to.
Places(segments) ==
  {[i \in 1 .. Len(segments) |-> IF i \in P THEN Param ELSE segments[i]] :
     P \in SUBSET (1 .. Len(segments))}

\* The parameter at position i of e has the name that the first route through
\* it was registered with.
IsNameAt(n, e, i) ==
  /\ e[i] = Param
  /\ \E k \in DOMAIN routes :
       /\ Passes(k, Upto(e, i))
       /\ routes[k].pattern[i].name = n
       /\ \A j \in 1 .. k - 1 : ~ Passes(j, Upto(e, i))

\* The parameters of e: of several with one name the last counts.
AreParams(params, e, segments) ==
  /\ \A n \in DOMAIN params :
       \E i \in 1 .. Len(e) :
         /\ IsNameAt(n, e, i)
         /\ params[n] = segments[i]
         /\ \A j \in i + 1 .. Len(e) : ~ IsNameAt(n, e, j)
  /\ \A i \in 1 .. Len(e) : \A n \in Names : IsNameAt(n, e, i) => n \in DOMAIN params

\* Route k is the last one registered for the method at place e.
Serves(k, e, method) == EndsAt(k, e) /\ method \in routes[k].methods
IsLast(k, e, method) ==
  /\ k \in DOMAIN routes
  /\ Serves(k, e, method)
  /\ \A j \in k + 1 .. Len(routes) : ~ Serves(j, e, method)

\* Answer a is the right one for the request at place e.
Right(a, e) ==
  \/ a = NotFound /\ \A k \in DOMAIN routes : ~ EndsAt(k, e)
  \/ /\ a = MethodNotAllowed
     /\ \E k \in DOMAIN routes : EndsAt(k, e)
     /\ \A k \in DOMAIN routes : ~ Serves(k, e, request.method)
  \/ /\ a.kind = "Handled"
     /\ a = Handled(a.handler, a.params)
     /\ IsLast(a.handler, e, request.method)
     /\ AreParams(a.params, e, request.segments)
-----------------------------------------------------------------------------
Register(route) ==
  /\ ~ serving
  /\ routes' = Append(routes, route)
  /\ UNCHANGED <<serving, request, answer>>

Start ==
  /\ ~ serving
  /\ serving' = TRUE
  /\ UNCHANGED <<routes, request, answer>>

Ask(segments, method) ==
  /\ serving
  /\ request = NoRequest
  /\ request' = [segments |-> segments, method |-> method]
  /\ UNCHANGED <<routes, serving, answer>>

Respond ==
  /\ request # NoRequest
  /\ answer = NoAnswer
  /\ \E e \in Places(request.segments) : Preferred(e, request.segments) /\ Right(answer', e)
  /\ UNCHANGED <<routes, serving, request>>

Forget ==
  /\ answer # NoAnswer
  /\ request' = NoRequest
  /\ answer' = NoAnswer
  /\ UNCHANGED <<routes, serving>>

TableNext ==
  \/ \E route \in Routes : Register(route)
  \/ Start
  \/ \E segments \in SegmentLists, method \in AllMethods : Ask(segments, method)
  \/ Respond
  \/ Forget

TableSpec == TableInit /\ [][TableNext]_tableVars
=============================================================================
