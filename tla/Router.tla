------------------------------ MODULE Router ------------------------------
(***************************************************************************)
(* server/router.rs: the routing trie, built by route() before the server  *)
(* starts and only read afterwards, and Router::handle, with one step for  *)
(* each turn of lookup()'s loop.  A node of the trie is named by the edges *)
(* that lead to it from the root.                                          *)
(***************************************************************************)
EXTENDS RouteTable, HashMaps

CONSTANT MaxRoutes   \* bound on the routes registered

VARIABLES
  nodes,             \* the nodes of the trie
  param_names,       \* per node with a parameter child, the name of the parameter
  handlers,          \* per node and method, the route whose handler is in the slot
  current,           \* lookup(): the node reached
  params             \* lookup(): the parameters extracted so far

trieVars == <<nodes, param_names, handlers>>
lookupVars == <<current, params>>
routerVars == <<tableVars, trieVars, lookupVars>>

\* Every variable has its type.
RouterTypeOK ==
  /\ routes \in Seq(Routes)
  /\ serving \in BOOLEAN
  /\ request \in [segments : SegmentLists, method : AllMethods] \cup {NoRequest}
  /\ nodes \subseteq Seq(Edges)
  /\ IsMap(param_names, nodes, Names)
  /\ IsMap(handlers, nodes \X Methods, DOMAIN routes)
  /\ current \in nodes
  /\ IsMap(params, Names, Names)
  /\ \/ answer \in {NoAnswer, NotFound, MethodNotAllowed}
     \/ /\ answer.kind = "Handled"
        /\ answer = Handled(answer.handler, answer.params)
        /\ answer.handler \in DOMAIN routes
        /\ IsMap(answer.params, Names, Names)

RouterInit ==
  /\ TableInit
  /\ nodes = {<< >>}
  /\ param_names = EmptyMap
  /\ handlers = EmptyMap
  /\ current = << >>
  /\ params = EmptyMap
-----------------------------------------------------------------------------
(* Registration. *)

\* The node a pattern leads to.
NodeOf(pattern) == [i \in 1 .. Len(pattern) |-> Edge(pattern[i])]

\* Mutant: the last node on the way is forgotten.
WalkedShort(pattern) == {Upto(NodeOf(pattern), n) : n \in 0 .. Len(pattern) - 1}

\* walk_or_create: the nodes on the way, created where they are missing.
Walked(pattern) == {Upto(NodeOf(pattern), n) : n \in 0 .. Len(pattern)}

\* Mutant: the name of a parameter is replaced by the one registered last.
NameReplaced(pattern) ==
  LET parents == {Upto(NodeOf(pattern), i - 1) : i \in {i \in 1 .. Len(pattern) : pattern[i].param}}
  IN  [n \in DOMAIN param_names \cup parents |->
         IF n \in parents THEN pattern[Len(n) + 1].name ELSE param_names[n]]

\* A node that has a parameter child keeps the name it was created with.
NamesWith(pattern) ==
  LET parents == {Upto(NodeOf(pattern), i - 1) : i \in {i \in 1 .. Len(pattern) : pattern[i].param}}
  IN  [n \in DOMAIN param_names \cup parents |->
         IF n \in DOMAIN param_names THEN param_names[n] ELSE pattern[Len(n) + 1].name]

\* Mutant: slots that are taken are kept.
MergedKeeping(route, k) ==
  [x \in DOMAIN handlers \cup ({NodeOf(route.pattern)} \X route.methods) |->
     IF x \in DOMAIN handlers THEN handlers[x] ELSE k]

\* MethodHandlers::merge: the slots of the route's methods are overwritten.
Merged(route, k) ==
  LET slots == {NodeOf(route.pattern)} \X route.methods
  IN  [x \in DOMAIN handlers \cup slots |-> IF x \in slots THEN k ELSE handlers[x]]

\* Router::route
Route(route) ==
  /\ ~ serving
  /\ Len(routes) < MaxRoutes
  /\ routes' = Append(routes, route)
  /\ nodes' = nodes \cup Walked(route.pattern)
  /\ param_names' = NamesWith(route.pattern)
  /\ handlers' = Merged(route, Len(routes) + 1)
  /\ UNCHANGED <<serving, request, answer, lookupVars>>

\* The router moves into the server.
Serve ==
  /\ ~ serving
  /\ serving' = TRUE
  /\ UNCHANGED <<routes, request, answer, trieVars, lookupVars>>
-----------------------------------------------------------------------------
(* Router::handle. *)

\* A request comes in; lookup() starts at the root.
Handle(segments, method) ==
  /\ serving
  /\ request = NoRequest
  /\ request' = [segments |-> segments, method |-> method]
  /\ current' = << >>
  /\ params' = EmptyMap
  /\ UNCHANGED <<routes, serving, answer, trieVars>>

\* The lookup has a segment left to match.
Matching ==
  /\ request # NoRequest
  /\ answer = NoAnswer
  /\ Len(current) < Len(request.segments)
Segment == request.segments[Len(current) + 1]
Child(x) == Then(current, Len(current), x)

Reply(a) ==
  /\ answer' = a
  /\ UNCHANGED <<routes, serving, request, trieVars, lookupVars>>

\* "Static match takes priority over param match."
MatchStatic ==
  /\ Matching
  /\ Child(Segment) \in nodes
  /\ current' = Child(Segment)
  /\ UNCHANGED <<tableVars, trieVars, params>>

\* Mutant: a parameter is tried although there is a static child.
ParamTried ==
  /\ Matching
  /\ current \in DOMAIN param_names
  /\ params' = Insert(params, param_names[current], Segment)
  /\ current' = Child(Param)
  /\ UNCHANGED <<tableVars, trieVars>>

MatchParam ==
  /\ Matching
  /\ Child(Segment) \notin nodes
  /\ current \in DOMAIN param_names
  /\ params' = Insert(params, param_names[current], Segment)
  /\ current' = Child(Param)
  /\ UNCHANGED <<tableVars, trieVars>>

\* No child matches: there is no way back to a parameter passed over before.
NoMatch ==
  /\ Matching
  /\ Child(Segment) \notin nodes
  /\ current \notin DOMAIN param_names
  /\ Reply(NotFound)

\* The last segment has been matched.
Matched ==
  /\ request # NoRequest
  /\ answer = NoAnswer
  /\ Len(current) = Len(request.segments)

has_any(n) == \E m \in Methods : <<n, m>> \in DOMAIN handlers

NoHandler ==
  /\ Matched
  /\ ~ has_any(current)
  /\ Reply(NotFound)

\* Mutant: a node without a handler for the method is not found.
NoMethodNotFound ==
  /\ Matched
  /\ has_any(current)
  /\ <<current, request.method>> \notin DOMAIN handlers
  /\ Reply(NotFound)

\* retrieve_handler: the other request codes have no slot.
NoMethod ==
  /\ Matched
  /\ has_any(current)
  /\ <<current, request.method>> \notin DOMAIN handlers
  /\ Reply(MethodNotAllowed)

\* The handler is called with the request and the parameters.
CallHandler ==
  /\ Matched
  /\ <<current, request.method>> \in DOMAIN handlers
  /\ Reply(Handled(handlers[<<current, request.method>>], params))

\* handle() returns: the next request may be taken.
Return ==
  /\ answer # NoAnswer
  /\ request' = NoRequest
  /\ answer' = NoAnswer
  /\ UNCHANGED <<routes, serving, trieVars, lookupVars>>

Lookup ==
  \/ MatchStatic
  \/ MatchParam
  \/ NoMatch
  \/ NoHandler
  \/ NoMethod
  \/ CallHandler

RouterNext ==
  \/ \E route \in Routes : Route(route)
  \/ Serve
  \/ \E segments \in SegmentLists, method \in AllMethods : Handle(segments, method)
  \/ Lookup
  \/ Return

RouterSpec == RouterInit /\ [][RouterNext]_routerVars
-----------------------------------------------------------------------------
(* Properties. *)

\* Route k is the first one registered that leads through e.
FirstThrough(k, e) ==
  /\ k \in DOMAIN routes
  /\ Passes(k, e)
  /\ \A j \in 1 .. k - 1 : ~ Passes(j, e)

\* The trie holds exactly what was registered: the nodes on the way of some
\* route, under each the name of the first parameter that led on from it, and
\* in each slot the handler registered last (router.rs, route and merge).
TrieInv ==
  /\ nodes = {<< >>} \cup UNION {Walked(routes[k].pattern) : k \in DOMAIN routes}
  /\ \A n \in nodes :
       /\ n \in DOMAIN param_names <=> Then(n, Len(n), Param) \in nodes
       /\ n \in DOMAIN param_names =>
            \E k \in DOMAIN routes :
              /\ FirstThrough(k, Then(n, Len(n), Param))
              /\ param_names[n] = routes[k].pattern[Len(n) + 1].name
       /\ \A m \in Methods :
            /\ <<n, m>> \in DOMAIN handlers <=> \E k \in DOMAIN routes : Serves(k, n, m)
            /\ <<n, m>> \in DOMAIN handlers => IsLast(handlers[<<n, m>>], n, m)

\* While a lookup is under way, its node is where the segments matched so far
\* lead to by the rule of RouteTable, and its parameters are those of that
\* node (router.rs, lookup).
LookupInv ==
  request # NoRequest =>
    /\ Len(current) <= Len(request.segments)
    /\ Preferred(current, request.segments)
    /\ AreParams(params, current, request.segments)

\* The trie answers every request as the table of the routes does.
AnswersAsTable == TableSpec

\* The parameters of pattern have names of their own, and no route before k
\* gave a parameter on the way another name.
NamesKept(k) ==
  LET pattern == routes[k].pattern
  IN  \A i \in 1 .. Len(pattern) : pattern[i].param =>
        /\ \A j \in 1 .. Len(pattern) :
             pattern[j].param /\ pattern[j].name = pattern[i].name => i = j
        /\ \A j \in 1 .. k - 1 :
             Passes(j, Upto(NodeOf(pattern), i)) =>
               routes[j].pattern[i].name = pattern[i].name

\* A handler finds the parameters of its own route under the names it was
\* registered with ("Path parameters extracted by the router (e.g., ":id" ->
\* "abc123")", handler.rs:70), whatever is registered after it: unless a name
\* is used twice or a route before it named the parameter otherwise.
ParamsAsRegistered ==
  answer.kind = "Handled" /\ NamesKept(answer.handler) =>
    LET pattern == routes[answer.handler].pattern
    IN  /\ DOMAIN answer.params = {pattern[i].name : i \in {i \in 1 .. Len(pattern) : pattern[i].param}}
        /\ \A i \in 1 .. Len(pattern) :
             pattern[i].param => answer.params[pattern[i].name] = request.segments[i]

\* The pattern of route k matches the segments, whatever other routes there are.
Matches(k, segments) ==
  /\ Len(routes[k].pattern) = Len(segments)
  /\ \A i \in 1 .. Len(segments) : Edge(routes[k].pattern[i]) \in {Param, segments[i]}
=============================================================================
