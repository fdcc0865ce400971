---------------------------- MODULE RouterProofs ----------------------------
(***************************************************************************)
(* Theorems about Router for every value of its constants: the trie holds  *)
(* what was registered, and it answers as the table of the routes does.    *)
(***************************************************************************)
EXTENDS Router, TLAPS, SequenceTheorems

-----------------------------------------------------------------------------
(* Patterns and places.                                                    *)

\* Pattern p leads through place e; Passes says it of a registered route.
Leads(p, e) ==
  /\ Len(e) <= Len(p)
  /\ \A i \in 1 .. Len(e) : Edge(p[i]) = e[i]

\* The edge of a segment is Param for a parameter, and for it only.
LEMMA EdgeType ==
  ASSUME NEW p \in Patterns, NEW i \in 1 .. Len(p)
  PROVE  /\ p[i] \in [param : BOOLEAN, name : Names]
         /\ Edge(p[i]) \in Edges
         /\ Edge(p[i]) = Param <=> p[i].param
  <1>1. p \in Seq([param : BOOLEAN, name : Names])
    BY PatternsAssumption
  <1>2. p[i] \in [param : BOOLEAN, name : Names]
    BY <1>1, ElementOfSeq
  <1>3. CASE p[i].param
    BY <1>2, <1>3 DEF Edge, Edges
  <1>4. CASE ~ p[i].param
    <2>1. Edge(p[i]) = p[i].name
      BY <1>4 DEF Edge
    <2>2. p[i].name \in Names
      BY <1>2
    <2> QED BY <1>2, <1>4, <2>1, <2>2, ParamAssumption DEF Edges
  <1> QED BY <1>3, <1>4

LEMMA PatternLength == ASSUME NEW p \in Patterns PROVE Len(p) \in Nat
  BY PatternsAssumption

LEMMA ThenType ==
  ASSUME NEW e \in Seq(Edges), NEW n \in 0 .. Len(e), NEW x \in Edges
  PROVE  /\ Then(e, n, x) \in Seq(Edges)
         /\ Len(Then(e, n, x)) = n + 1
         /\ \A i \in 1 .. n : Then(e, n, x)[i] = e[i]
         /\ Then(e, n, x)[n + 1] = x
  <1>1. Len(e) \in Nat
    OBVIOUS
  <1>2. n \in Nat /\ n <= Len(e)
    BY <1>1
  <1>3. \A i \in 1 .. n + 1 : (IF i <= n THEN e[i] ELSE x) \in Edges
    BY <1>1, <1>2
  <1> QED BY <1>2, <1>3 DEF Then

\* One edge further.
LEMMA ChildType ==
  ASSUME NEW e \in Seq(Edges), NEW x \in Edges
  PROVE  /\ Then(e, Len(e), x) \in Seq(Edges)
         /\ Len(Then(e, Len(e), x)) = Len(e) + 1
         /\ \A i \in 1 .. Len(e) : Then(e, Len(e), x)[i] = e[i]
         /\ Then(e, Len(e), x)[Len(e) + 1] = x
  <1>1. Len(e) \in 0 .. Len(e)
    OBVIOUS
  <1> QED BY <1>1, ThenType

LEMMA UptoType ==
  ASSUME NEW e \in Seq(Edges), NEW n \in 0 .. Len(e)
  PROVE  /\ Upto(e, n) \in Seq(Edges)
         /\ Len(Upto(e, n)) = n
         /\ \A i \in 1 .. n : Upto(e, n)[i] = e[i]
  <1>1. Len(e) \in Nat
    OBVIOUS
  <1>2. n \in Nat /\ n <= Len(e)
    BY <1>1
  <1>3. \A i \in 1 .. n : e[i] \in Edges
    BY <1>1, <1>2
  <1> QED BY <1>2, <1>3 DEF Upto

\* The node of a pattern, edge by edge.
LEMMA NodeOfType ==
  ASSUME NEW p \in Patterns
  PROVE  /\ NodeOf(p) \in Seq(Edges)
         /\ Len(NodeOf(p)) = Len(p)
         /\ \A i \in 1 .. Len(p) : NodeOf(p)[i] = Edge(p[i])
  BY EdgeType, PatternLength DEF NodeOf

\* Two places of one length with the same edges are one.
LEMMA SamePlace ==
  ASSUME NEW e \in Seq(Edges), NEW f \in Seq(Edges), Len(e) = Len(f),
         \A i \in 1 .. Len(e) : e[i] = f[i]
  PROVE  e = f
  OBVIOUS

LEMMA WalkedType == ASSUME NEW p \in Patterns PROVE Walked(p) \subseteq Seq(Edges)
  BY NodeOfType, UptoType DEF Walked

\* walk_or_create passes the places that the pattern leads through.
LEMMA WalkedIff ==
  ASSUME NEW p \in Patterns, NEW e \in Seq(Edges)
  PROVE  e \in Walked(p) <=> Leads(p, e)
  <1> Len(p) \in Nat /\ Len(e) \in Nat
    BY PatternLength
  <1>1. ASSUME e \in Walked(p) PROVE Leads(p, e)
    <2>1. PICK n \in 0 .. Len(p) : e = Upto(NodeOf(p), n)
      BY <1>1 DEF Walked
    <2>2. Len(e) = n /\ \A i \in 1 .. n : e[i] = NodeOf(p)[i]
      BY <2>1, UptoType, NodeOfType
    <2> QED BY <2>2, NodeOfType DEF Leads
  <1>2. ASSUME Leads(p, e) PROVE e \in Walked(p)
    <2>1. Len(e) \in 0 .. Len(p)
      BY <1>2 DEF Leads
    <2> DEFINE f == Upto(NodeOf(p), Len(e))
    <2>2. f \in Seq(Edges) /\ Len(f) = Len(e) /\ \A i \in 1 .. Len(e) : f[i] = NodeOf(p)[i]
      BY <2>1, UptoType, NodeOfType
    <2>3. \A i \in 1 .. Len(e) : f[i] = e[i]
      BY <1>2, <2>1, <2>2, NodeOfType DEF Leads
    <2> HIDE DEF f
    <2>4. f = e
      BY <2>2, <2>3, SamePlace
    <2> QED BY <2>1, <2>4 DEF f, Walked
  <1> QED BY <1>1, <1>2

\* A pattern that leads on from a place leads through it.
LEMMA LeadsThrough ==
  ASSUME NEW p \in Patterns, NEW e \in Seq(Edges), NEW x \in Edges,
         Leads(p, Then(e, Len(e), x))
  PROVE  /\ Leads(p, e)
         /\ Len(e) + 1 \in 1 .. Len(p)
         /\ Edge(p[Len(e) + 1]) = x
  <1>1. Len(p) \in Nat /\ Len(e) \in Nat
    BY PatternLength
  <1> DEFINE f == Then(e, Len(e), x)
  <1>2. /\ Len(f) = Len(e) + 1 /\ f[Len(e) + 1] = x
        /\ \A i \in 1 .. Len(e) : f[i] = e[i]
    BY <1>1, ChildType
  <1> QED BY <1>1, <1>2 DEF Leads

\* The nodes with a parameter child on the way of a pattern.
Parents(p) == {Upto(NodeOf(p), i - 1) : i \in {i \in 1 .. Len(p) : p[i].param}}

LEMMA ParentsIff ==
  ASSUME NEW p \in Patterns, NEW e \in Seq(Edges)
  PROVE  e \in Parents(p) <=> Leads(p, Then(e, Len(e), Param))
  <1>1. Len(p) \in Nat /\ Len(e) \in Nat /\ Param \in Edges
    BY PatternLength DEF Edges
  <1> DEFINE f == Then(e, Len(e), Param)
  <1>2. /\ Len(f) = Len(e) + 1 /\ f[Len(e) + 1] = Param
        /\ \A i \in 1 .. Len(e) : f[i] = e[i]
    BY <1>1, ChildType
  <1> HIDE DEF f
  <1>3. ASSUME e \in Parents(p) PROVE Leads(p, f)
    <2>1. PICK i \in 1 .. Len(p) : p[i].param /\ e = Upto(NodeOf(p), i - 1)
      BY <1>3 DEF Parents
    <2>2. i - 1 \in 0 .. Len(p)
      BY <1>1
    <2>3. Len(e) = i - 1 /\ \A j \in 1 .. i - 1 : e[j] = NodeOf(p)[j]
      BY <2>1, <2>2, UptoType, NodeOfType
    <2>4. \A j \in 1 .. i - 1 : e[j] = Edge(p[j])
      BY <1>1, <2>3, NodeOfType
    <2>5. Edge(p[i]) = Param
      BY <2>1 DEF Edge
    <2> QED BY <1>1, <1>2, <2>3, <2>4, <2>5 DEF Leads
  <1>4. ASSUME Leads(p, f) PROVE e \in Parents(p)
    <2> DEFINE i == Len(e) + 1
    <2>1. i \in 1 .. Len(p) /\ Edge(p[i]) = Param /\ Leads(p, e)
      BY <1>1, <1>4, LeadsThrough DEF f
    <2>2. p[i].param
      BY <2>1, EdgeType
    <2>3. Len(e) \in 0 .. Len(p)
      BY <1>1, <2>1
    <2> DEFINE g == Upto(NodeOf(p), Len(e))
    <2>4. g \in Seq(Edges) /\ Len(g) = Len(e) /\ \A j \in 1 .. Len(e) : g[j] = NodeOf(p)[j]
      BY <2>3, UptoType, NodeOfType
    <2>5. \A j \in 1 .. Len(e) : g[j] = e[j]
      BY <1>1, <2>1, <2>4, NodeOfType DEF Leads
    <2> HIDE DEF g
    <2>6. g = e
      BY <2>4, <2>5, SamePlace
    <2>7. i - 1 = Len(e)
      BY <1>1
    <2> QED BY <2>1, <2>2, <2>6, <2>7 DEF g, Parents
  <1> QED BY <1>3, <1>4 DEF f

\* A pattern ends at its own node only.
LEMMA NodeOfIff ==
  ASSUME NEW p \in Patterns, NEW e \in Seq(Edges)
  PROVE  e = NodeOf(p) <=> Leads(p, e) /\ Len(p) = Len(e)
  <1>1. Len(p) \in Nat /\ Len(e) \in Nat
    BY PatternLength
  <1>2. ASSUME e = NodeOf(p) PROVE Leads(p, e) /\ Len(p) = Len(e)
    BY <1>1, <1>2, NodeOfType DEF Leads
  <1>3. ASSUME Leads(p, e), Len(p) = Len(e) PROVE e = NodeOf(p)
    <2>1. \A i \in 1 .. Len(e) : e[i] = NodeOf(p)[i]
      BY <1>1, <1>3, NodeOfType DEF Leads
    <2> QED BY <1>3, <2>1, NodeOfType, SamePlace
  <1> QED BY <1>2, <1>3

-----------------------------------------------------------------------------
(* Registration keeps the trie. *)

\* A lookup goes on only in a router that serves, and an answer is one to the
\* request in hand.
FlowInv ==
  /\ request # NoRequest => serving
  /\ answer # NoAnswer => request # NoRequest

\* The trie, the types and the flow, which each step keeps together.
TableInv == RouterTypeOK /\ TrieInv /\ FlowInv

LEMMA PassesLeads ==
  ASSUME NEW k, NEW e
  PROVE  Passes(k, e) <=> Leads(routes[k].pattern, e)
  BY DEF Passes, Leads

LEMMA RoutePattern ==
  ASSUME RouterTypeOK, NEW k \in DOMAIN routes
  PROVE  routes[k] \in Routes /\ routes[k].pattern \in Patterns
  <1>1. routes \in Seq(Routes)
    BY DEF RouterTypeOK
  <1>2. routes[k] \in Routes
    BY <1>1, ElementOfSeq, LenProperties
  <1> QED BY <1>2 DEF Routes

\* A node of the trie is the root or on the way of some route.
LEMMA NodesIff ==
  ASSUME RouterTypeOK, TrieInv, NEW e \in Seq(Edges)
  PROVE  e \in nodes <=> e = << >> \/ \E k \in DOMAIN routes : Passes(k, e)
  <1>1. e \in nodes <=> e = << >> \/ \E k \in DOMAIN routes : e \in Walked(routes[k].pattern)
    BY DEF TrieInv
  <1>2. ASSUME NEW k \in DOMAIN routes
        PROVE  e \in Walked(routes[k].pattern) <=> Passes(k, e)
    BY RoutePattern, WalkedIff, PassesLeads
  <1> QED BY <1>1, <1>2

\* What Router::route does to the table, route by route.
LEMMA Registered ==
  ASSUME RouterTypeOK, NEW route \in Routes, Route(route)
  PROVE  /\ DOMAIN routes = 1 .. Len(routes) /\ Len(routes) \in Nat
         /\ DOMAIN routes' = 1 .. Len(routes) + 1 /\ Len(routes') = Len(routes) + 1
         /\ routes' \in Seq(Routes)
         /\ \A k \in DOMAIN routes : routes'[k] = routes[k]
         /\ routes'[Len(routes) + 1] = route
         /\ route.pattern \in Patterns
         /\ route.methods \subseteq Methods
  <1>1. routes \in Seq(Routes) /\ routes' = Append(routes, route)
    BY DEF RouterTypeOK, Route
  <1>2. route.pattern \in Patterns /\ route.methods \subseteq Methods
    BY DEF Routes
  <1>3. /\ Len(routes) \in Nat /\ DOMAIN routes = 1 .. Len(routes)
        /\ routes' \in Seq(Routes) /\ Len(routes') = Len(routes) + 1
    BY <1>1
  <1>4. DOMAIN routes' = 1 .. Len(routes) + 1
    BY <1>3
  <1>5. /\ \A k \in DOMAIN routes : routes'[k] = routes[k]
        /\ routes'[Len(routes) + 1] = route
    BY <1>1
  <1> QED BY <1>2, <1>3, <1>4, <1>5

LEMMA ParentsType ==
  ASSUME NEW p \in Patterns, NEW e \in Parents(p)
  PROVE  /\ e \in Seq(Edges)
         /\ Len(e) + 1 \in 1 .. Len(p)
         /\ Leads(p, e)
         /\ p[Len(e) + 1].name \in Names
  <1>1. PICK i \in 1 .. Len(p) : p[i].param /\ e = Upto(NodeOf(p), i - 1)
    BY DEF Parents
  <1>2. Len(p) \in Nat /\ i - 1 \in 0 .. Len(p)
    BY PatternLength
  <1>3. e \in Seq(Edges)
    BY <1>1, <1>2, UptoType, NodeOfType
  <1>4. Param \in Edges
    BY DEF Edges
  <1>5. Leads(p, e) /\ Len(e) + 1 \in 1 .. Len(p)
    BY <1>3, <1>4, ParentsIff, LeadsThrough
  <1> QED BY <1>3, <1>5, EdgeType

LEMMA RouteKeepsType ==
  ASSUME TableInv, NEW route \in Routes, Route(route)
  PROVE  RouterTypeOK'
  <1> DEFINE p == route.pattern
  <1> USE DEF TableInv
  <1>1. /\ routes' \in Seq(Routes) /\ p \in Patterns /\ route.methods \subseteq Methods
        /\ DOMAIN routes' = 1 .. Len(routes) + 1
        /\ DOMAIN routes = 1 .. Len(routes) /\ Len(routes) \in Nat
    BY Registered
  <1> HIDE DEF p
  <1>2. nodes' = nodes \cup Walked(p) /\ nodes' \subseteq Seq(Edges)
    BY <1>1, WalkedType DEF RouterTypeOK, Route, p
  <1>3. NodeOf(p) \in nodes'
    BY <1>1, <1>2, NodeOfIff, NodeOfType, WalkedIff
  <1>4. IsMap(param_names', nodes', Names)
    <2>1. param_names' = [n \in DOMAIN param_names \cup Parents(p) |->
                            IF n \in DOMAIN param_names THEN param_names[n] ELSE p[Len(n) + 1].name]
      BY DEF Route, NamesWith, Parents, p
    <2>2. \A n \in Parents(p) : n \in nodes' /\ p[Len(n) + 1].name \in Names
      BY <1>1, <1>2, ParentsType, WalkedIff
    <2>3. DOMAIN param_names \subseteq nodes /\ \A n \in DOMAIN param_names : param_names[n] \in Names
      BY DEF RouterTypeOK, IsMap
    <2> QED BY <1>2, <2>1, <2>2, <2>3 DEF IsMap
  <1>5. IsMap(handlers', nodes' \X Methods, DOMAIN routes')
    <2> DEFINE slots == {NodeOf(p)} \X route.methods
    <2>1. handlers' = [x \in DOMAIN handlers \cup slots |->
                         IF x \in slots THEN Len(routes) + 1 ELSE handlers[x]]
      BY DEF Route, Merged, p
    <2>2. slots \subseteq nodes' \X Methods
      BY <1>1, <1>3
    <2>3. /\ DOMAIN handlers \subseteq nodes' \X Methods
          /\ \A x \in DOMAIN handlers : handlers[x] \in DOMAIN routes
      BY <1>2 DEF RouterTypeOK, IsMap
    <2>4. Len(routes) + 1 \in DOMAIN routes' /\ DOMAIN routes \subseteq DOMAIN routes'
      BY <1>1
    <2> HIDE DEF slots
    <2> QED BY <2>1, <2>2, <2>3, <2>4 DEF IsMap
  <1>6. current' \in nodes' /\ IsMap(params', Names, Names)
    BY <1>2 DEF RouterTypeOK, Route, lookupVars
  <1>7. /\ serving' \in BOOLEAN
        /\ request' \in [segments : SegmentLists, method : AllMethods] \cup {NoRequest}
    BY DEF RouterTypeOK, Route
  <1>8. \/ answer' \in {NoAnswer, NotFound, MethodNotAllowed}
        \/ /\ answer'.kind = "Handled"
           /\ answer' = Handled(answer'.handler, answer'.params)
           /\ answer'.handler \in DOMAIN routes'
           /\ IsMap(answer'.params, Names, Names)
    BY <1>1 DEF RouterTypeOK, Route
  <1> QED BY <1>1, <1>2, <1>4, <1>5, <1>6, <1>7, <1>8 DEF RouterTypeOK

LEMMA UnionInsert ==
  ASSUME NEW A, NEW W
  PROVE  UNION (A \cup {W}) = (UNION A) \cup W
  OBVIOUS

LEMMA RouteKeepsTrie ==
  ASSUME TableInv, NEW route \in Routes, Route(route)
  PROVE  TrieInv'
  <1> DEFINE p == route.pattern
  <1> USE DEF TableInv
  <1>0. PICK K : K = Len(routes) + 1
    OBVIOUS
  <1>1. /\ routes' \in Seq(Routes) /\ p \in Patterns /\ route.methods \subseteq Methods
        /\ DOMAIN routes' = DOMAIN routes \cup {K} /\ K \notin DOMAIN routes
        /\ DOMAIN routes = 1 .. Len(routes) /\ Len(routes) \in Nat /\ Len(routes') = K
        /\ \A k \in DOMAIN routes : routes'[k] = routes[k]
        /\ routes'[K] = route
    <2>1. /\ DOMAIN routes = 1 .. Len(routes) /\ Len(routes) \in Nat
          /\ DOMAIN routes' = 1 .. K /\ Len(routes') = K
      BY <1>0, Registered
    <2>2. DOMAIN routes' = DOMAIN routes \cup {K} /\ K \notin DOMAIN routes
      BY <1>0, <2>1
    <2> QED BY <1>0, <2>1, <2>2, Registered
  <1>2. /\ nodes' = nodes \cup Walked(p)
        /\ param_names' = [n \in DOMAIN param_names \cup Parents(p) |->
              IF n \in DOMAIN param_names THEN param_names[n] ELSE p[Len(n) + 1].name]
    BY DEF Route, NamesWith, Parents
  <1>3. nodes' \subseteq Seq(Edges) /\ Param \in Edges
    BY RouteKeepsType DEF RouterTypeOK, Edges
  <1>4. handlers' = [x \in DOMAIN handlers \cup ({NodeOf(p)} \X route.methods) |->
              IF x \in {NodeOf(p)} \X route.methods THEN K ELSE handlers[x]]
    BY <1>0 DEF Route, Merged
  <1>5. routes'[K].pattern = p /\ routes'[K].methods = route.methods
    BY <1>1
  <1> HIDE DEF p
  <1>6. /\ \A k \in DOMAIN routes : \A e : Passes(k, e)' <=> Passes(k, e)
        /\ \A e : Passes(K, e)' <=> Leads(p, e)
    BY <1>1, <1>5 DEF Passes, Leads
  <1>7. /\ \A k \in DOMAIN routes : \A e, m : Serves(k, e, m)' <=> Serves(k, e, m)
        /\ \A e \in Seq(Edges), m \in Methods :
             Serves(K, e, m)' <=> e = NodeOf(p) /\ m \in route.methods
    <2>1. \A k \in DOMAIN routes : \A e, m : Serves(k, e, m)' <=> Serves(k, e, m)
      BY <1>1, <1>6 DEF Serves, EndsAt
    <2>2. ASSUME NEW e \in Seq(Edges), NEW m \in Methods
          PROVE  Serves(K, e, m)' <=> e = NodeOf(p) /\ m \in route.methods
      BY <1>1, <1>5, <1>6, NodeOfIff DEF Serves, EndsAt
    <2> QED BY <2>1, <2>2
  <1>8. nodes' = {<< >>} \cup UNION {Walked(routes'[k].pattern) : k \in DOMAIN routes'}
    <2> DEFINE A == {Walked(routes[k].pattern) : k \in DOMAIN routes}
               B == {Walked(routes'[k].pattern) : k \in DOMAIN routes'}
    <2>1. \A k \in DOMAIN routes : routes'[k].pattern = routes[k].pattern
      BY <1>1
    <2>2. B = A \cup {Walked(p)}
      BY <1>1, <1>5, <2>1
    <2>3. nodes = {<< >>} \cup UNION A
      BY DEF TrieInv
    <2> HIDE DEF A, B
    <2>4. UNION B = (UNION A) \cup Walked(p)
      BY <2>2, UnionInsert
    <2>5. nodes' = {<< >>} \cup UNION B
      BY <1>2, <2>3, <2>4
    <2> QED BY <2>5 DEF B
  <1>9. ASSUME NEW n \in nodes'
        PROVE  /\ n \in DOMAIN param_names' <=> Then(n, Len(n), Param) \in nodes'
               /\ n \in DOMAIN param_names' =>
                    \E k \in DOMAIN routes' :
                      /\ FirstThrough(k, Then(n, Len(n), Param))'
                      /\ param_names'[n] = routes'[k].pattern[Len(n) + 1].name
    <2> DEFINE c == Then(n, Len(n), Param)
    <2>1. n \in Seq(Edges) /\ c \in Seq(Edges) /\ Len(c) = Len(n) + 1 /\ Len(n) \in Nat
      BY <1>3, ChildType
    <2>2. c # << >>
      BY <2>1
    <2>3. n \in Parents(p) <=> Leads(p, c)
      BY <1>1, <2>1, ParentsIff
    <2>4. n \in DOMAIN param_names <=> c \in nodes
      <3>1. CASE n \in nodes
        BY <3>1 DEF TrieInv
      <3>2. CASE n \notin nodes
        <4>1. n \notin DOMAIN param_names
          BY <3>2 DEF RouterTypeOK, IsMap
        <4>2. ASSUME c \in nodes PROVE FALSE
          <5>1. PICK k \in DOMAIN routes : Passes(k, c)
            BY <2>1, <2>2, <4>2, NodesIff
          <5>2. Leads(routes[k].pattern, n)
            BY <1>3, <2>1, <5>1, RoutePattern, PassesLeads, LeadsThrough
          <5>3. n \in nodes
            BY <2>1, <5>2, PassesLeads, NodesIff
          <5> QED BY <3>2, <5>3
        <4> QED BY <4>1, <4>2
      <3> QED BY <3>1, <3>2
    <2>5. c \in nodes' <=> c \in nodes \/ Leads(p, c)
      BY <1>1, <1>2, <2>1, WalkedIff
    <2>6. DOMAIN param_names' = DOMAIN param_names \cup Parents(p)
      BY <1>2
    <2>7. ASSUME n \in DOMAIN param_names
          PROVE  \E k \in DOMAIN routes' :
                   FirstThrough(k, c)' /\ param_names'[n] = routes'[k].pattern[Len(n) + 1].name
      <3>1. n \in nodes
        BY <2>7 DEF RouterTypeOK, IsMap
      <3>2. PICK k \in DOMAIN routes :
              FirstThrough(k, c) /\ param_names[n] = routes[k].pattern[Len(n) + 1].name
        BY <2>7, <3>1 DEF TrieInv
      <3>3. \A j \in 1 .. k - 1 : j \in DOMAIN routes
        BY <1>1
      <3>4. FirstThrough(k, c)'
        BY <1>1, <1>6, <3>2, <3>3 DEF FirstThrough
      <3>5. param_names'[n] = routes'[k].pattern[Len(n) + 1].name
        BY <1>1, <1>2, <2>7, <3>2
      <3> QED BY <1>1, <3>4, <3>5
    <2>8. ASSUME n \in Parents(p), n \notin DOMAIN param_names
          PROVE  \E k \in DOMAIN routes' :
                   FirstThrough(k, c)' /\ param_names'[n] = routes'[k].pattern[Len(n) + 1].name
      <3>1. \A k \in DOMAIN routes : ~ Passes(k, c)
        BY <2>1, <2>4, <2>8, NodesIff
      <3>2. \A j \in 1 .. K - 1 : j \in DOMAIN routes
        BY <1>0, <1>1
      <3>3. Passes(K, c)'
        BY <1>6, <2>3, <2>8
      <3>4. FirstThrough(K, c)'
        BY <1>1, <1>6, <3>1, <3>2, <3>3 DEF FirstThrough
      <3>5. param_names'[n] = routes'[K].pattern[Len(n) + 1].name
        BY <1>2, <1>5, <2>8
      <3> QED BY <1>1, <3>4, <3>5
    <2> QED BY <2>3, <2>4, <2>5, <2>6, <2>7, <2>8
  <1>10. ASSUME NEW n \in nodes', NEW m \in Methods
         PROVE  /\ <<n, m>> \in DOMAIN handlers' <=> \E k \in DOMAIN routes' : Serves(k, n, m)'
                /\ <<n, m>> \in DOMAIN handlers' => IsLast(handlers[<<n, m>>], n, m)'
    <2>1. n \in Seq(Edges)
      BY <1>3
    <2>2. <<n, m>> \in {NodeOf(p)} \X route.methods <=> Serves(K, n, m)'
      BY <1>7, <2>1
    <2>3. <<n, m>> \in DOMAIN handlers <=> \E k \in DOMAIN routes : Serves(k, n, m)
      <3>1. CASE n \in nodes
        BY <3>1 DEF TrieInv
      <3>2. CASE n \notin nodes
        <4>1. <<n, m>> \notin DOMAIN handlers
          BY <3>2 DEF RouterTypeOK, IsMap
        <4>2. \A k \in DOMAIN routes : ~ Passes(k, n)
          BY <2>1, <3>2, NodesIff
        <4> QED BY <4>1, <4>2 DEF Serves, EndsAt
      <3> QED BY <3>1, <3>2
    <2>4. <<n, m>> \in DOMAIN handlers' <=> \E k \in DOMAIN routes' : Serves(k, n, m)'
      BY <1>1, <1>4, <1>7, <2>2, <2>3
    <2>5. CASE <<n, m>> \in {NodeOf(p)} \X route.methods
      <3>1. handlers'[<<n, m>>] = K
        BY <1>4, <2>5
      <3>2. \A j \in K + 1 .. Len(routes') : FALSE
        BY <1>0, <1>1
      <3>3. IsLast(K, n, m)'
        BY <1>1, <2>2, <2>5, <3>2 DEF IsLast
      <3> QED BY <2>4, <3>1, <3>3
    <2>6. CASE <<n, m>> \notin {NodeOf(p)} \X route.methods
      <3>1. ASSUME <<n, m>> \in DOMAIN handlers PROVE IsLast(handlers[<<n, m>>], n, m)'
        <4>1. n \in nodes
          BY <3>1 DEF RouterTypeOK, IsMap
        <4>2. handlers'[<<n, m>>] = handlers[<<n, m>>]
          BY <1>4, <2>6, <3>1
        <4>h. PICK h : h = handlers[<<n, m>>]
          OBVIOUS
        <4>3. IsLast(h, n, m)
          BY <3>1, <4>1, <4>h DEF TrieInv
        <4>4. h \in DOMAIN routes' /\ Serves(h, n, m)'
          BY <1>1, <1>7, <4>3 DEF IsLast
        <4>5. ASSUME NEW j \in h + 1 .. Len(routes') PROVE ~ Serves(j, n, m)'
          <5>1. CASE j = K
            BY <2>2, <2>6, <5>1
          <5>2. CASE j # K
            <6>1. j \in h + 1 .. Len(routes) /\ j \in DOMAIN routes
              BY <1>0, <1>1, <4>3, <5>2 DEF IsLast
            <6> QED BY <1>7, <4>3, <6>1 DEF IsLast
          <5> QED BY <5>1, <5>2
        <4>6. IsLast(h, n, m)'
          BY <4>4, <4>5 DEF IsLast
        <4> QED BY <4>2, <4>6, <4>h
      <3>2. <<n, m>> \in DOMAIN handlers' <=> <<n, m>> \in DOMAIN handlers
        BY <1>4, <2>6
      <3> QED BY <2>4, <3>1, <3>2
    <2> QED BY <2>5, <2>6
  <1> QED BY <1>8, <1>9, <1>10 DEF TrieInv

-----------------------------------------------------------------------------
(* The steps of a lookup keep it too. *)

\* NoRequest is no request and NoAnswer is no answer.
LEMMA NoAnswerIsNone ==
  /\ NotFound # NoAnswer /\ MethodNotAllowed # NoAnswer /\ NotFound # MethodNotAllowed
  /\ \A k, ps : Handled(k, ps) # NoAnswer
  /\ \A segments \in SegmentLists, method \in AllMethods :
       [segments |-> segments, method |-> method] # NoRequest
  <1>1. \A k, ps : Handled(k, ps).kind = "Handled"
    BY DEF Handled
  <1>2. NotFound.kind = "NotFound" /\ MethodNotAllowed.kind = "MethodNotAllowed" /\ NoAnswer.kind = "none"
    BY DEF NotFound, MethodNotAllowed, NoAnswer
  <1>3. ASSUME NEW segments \in SegmentLists, NEW method \in AllMethods
        PROVE  [segments |-> segments, method |-> method] # NoRequest
    BY MethodsAssumption DEF NoRequest
  <1> QED BY <1>1, <1>2, <1>3

\* The segment a lookup turns to, and the place it is at.
LEMMA MatchingType ==
  ASSUME TableInv, Matching
  PROVE  /\ request \in [segments : SegmentLists, method : AllMethods]
         /\ request.segments \in Seq(Names)
         /\ Len(request.segments) \in Nat
         /\ current \in nodes /\ current \in Seq(Edges) /\ Len(current) \in Nat
         /\ Len(current) + 1 \in 1 .. Len(request.segments)
         /\ Segment = request.segments[Len(current) + 1]
         /\ Segment \in Names /\ Segment \in Edges /\ Param \in Edges
         /\ \A x \in Edges : Child(x) \in Seq(Edges)
  <1>1. request \in [segments : SegmentLists, method : AllMethods]
    BY DEF TableInv, RouterTypeOK, Matching
  <1>2. request.segments \in Seq(Names)
    BY <1>1, SegmentsAssumption
  <1>3. current \in nodes /\ current \in Seq(Edges)
    BY DEF TableInv, RouterTypeOK
  <1>4. Len(current) \in Nat /\ Len(request.segments) \in Nat
    BY <1>2, <1>3
  <1>5. Len(current) + 1 \in 1 .. Len(request.segments)
    BY <1>4 DEF Matching
  <1>6. Segment = request.segments[Len(current) + 1] /\ Segment \in Names
    BY <1>2, <1>5, ElementOfSeq DEF Segment
  <1>7. Segment \in Edges /\ Param \in Edges
    BY <1>6 DEF Edges
  <1>8. \A x \in Edges : Child(x) \in Seq(Edges)
    BY <1>3, ChildType DEF Child
  <1> QED BY <1>1, <1>2, <1>3, <1>4, <1>5, <1>6, <1>7, <1>8

\* The parameter child of a node is in the trie, under the name it was first
\* registered with.
LEMMA ParamChild ==
  ASSUME TableInv, NEW n \in DOMAIN param_names
  PROVE  /\ n \in nodes /\ n \in Seq(Edges)
         /\ Then(n, Len(n), Param) \in nodes
         /\ param_names[n] \in Names
         /\ \E k \in DOMAIN routes :
              /\ FirstThrough(k, Then(n, Len(n), Param))
              /\ param_names[n] = routes[k].pattern[Len(n) + 1].name
  <1>1. n \in nodes /\ param_names[n] \in Names /\ n \in Seq(Edges)
    BY DEF TableInv, RouterTypeOK, IsMap
  <1> QED BY <1>1 DEF TableInv, TrieInv

LEMMA InsertParam ==
  ASSUME TableInv, Matching, current \in DOMAIN param_names
  PROVE  IsMap(Insert(params, param_names[current], Segment), Names, Names)
  <1>1. param_names[current] \in Names /\ Segment \in Names
    BY ParamChild, MatchingType
  <1>2. IsMap(params, Names, Names)
    BY DEF TableInv, RouterTypeOK
  <1> QED BY <1>1, <1>2 DEF IsMap, Insert

\* A node in whose slot there is a handler: that of a registered route.
LEMMA SlotIsLast ==
  ASSUME TableInv, NEW n \in nodes, NEW m, <<n, m>> \in DOMAIN handlers
  PROVE  /\ m \in Methods
         /\ handlers[<<n, m>>] \in DOMAIN routes
         /\ IsLast(handlers[<<n, m>>], n, m)
  <1>1. m \in Methods /\ handlers[<<n, m>>] \in DOMAIN routes
    BY DEF TableInv, RouterTypeOK, IsMap
  <1> QED BY <1>1 DEF TableInv, TrieInv

LEMMA RootInTrie == ASSUME TrieInv PROVE << >> \in nodes
  BY DEF TrieInv

LEMMA TrieStays ==
  ASSUME TrieInv, UNCHANGED <<routes, trieVars>>
  PROVE  TrieInv'
  <1>1. routes' = routes /\ nodes' = nodes /\ param_names' = param_names /\ handlers' = handlers
    BY DEF trieVars
  <1>2. \A k, e : Passes(k, e)' <=> Passes(k, e)
    BY <1>1 DEF Passes
  <1>3. \A k, e : FirstThrough(k, e)' <=> FirstThrough(k, e)
    BY <1>1, <1>2 DEF FirstThrough
  <1>4. \A k, e, m : Serves(k, e, m)' <=> Serves(k, e, m)
    BY <1>1, <1>2 DEF Serves, EndsAt
  <1>5. \A k, e, m : IsLast(k, e, m)' <=> IsLast(k, e, m)
    BY <1>1, <1>4 DEF IsLast
  <1>6. \A n \in nodes, m \in Methods :
          IsLast(handlers[<<n, m>>], n, m)' <=> IsLast(handlers[<<n, m>>], n, m)
    BY <1>1, <1>4 DEF IsLast
  <1>7. nodes' = {<< >>} \cup UNION {Walked(routes'[k].pattern) : k \in DOMAIN routes'}
    BY <1>1 DEF TrieInv
  <1> QED BY <1>1, <1>3, <1>4, <1>6, <1>7 DEF TrieInv

LEMMA LookupKeepsTable ==
  ASSUME TableInv, Lookup
  PROVE  TableInv'
  <1>1. UNCHANGED <<routes, serving, request, trieVars>>
    BY DEF Lookup, MatchStatic, MatchParam, NoMatch, NoHandler, NoMethod, CallHandler, Reply,
           tableVars
  <1>2. TrieInv'
    BY <1>1, TrieStays DEF TableInv
  <1>3. request # NoRequest /\ answer = NoAnswer
    BY DEF Lookup, MatchStatic, MatchParam, NoMatch, NoHandler, NoMethod, CallHandler, Matching,
           Matched
  <1>4. FlowInv'
    BY <1>1, <1>3 DEF TableInv, FlowInv
  <1>5. /\ routes' \in Seq(Routes) /\ serving' \in BOOLEAN
        /\ request' \in [segments : SegmentLists, method : AllMethods] \cup {NoRequest}
        /\ nodes' \subseteq Seq(Edges)
        /\ IsMap(param_names', nodes', Names)
        /\ IsMap(handlers', nodes' \X Methods, DOMAIN routes')
    BY <1>1 DEF TableInv, RouterTypeOK, trieVars
  <1> DEFINE AnswerOK(a) ==
        \/ a \in {NoAnswer, NotFound, MethodNotAllowed}
        \/ /\ a.kind = "Handled"
           /\ a = Handled(a.handler, a.params)
           /\ a.handler \in DOMAIN routes
           /\ IsMap(a.params, Names, Names)
  <1>6. current' \in nodes /\ IsMap(params', Names, Names) /\ AnswerOK(answer')
    <2>1. current \in nodes /\ IsMap(params, Names, Names)
      BY DEF TableInv, RouterTypeOK
    <2>2. CASE MatchStatic
      BY <1>3, <2>1, <2>2 DEF MatchStatic, tableVars
    <2>3. CASE MatchParam
      <3>1. Child(Param) \in nodes
        BY <2>3, ParamChild DEF MatchParam, Child
      <3> QED BY <1>3, <2>3, <3>1, InsertParam DEF MatchParam, tableVars
    <2>4. CASE NoMatch \/ NoHandler \/ NoMethod
      BY <2>1, <2>4 DEF NoMatch, NoHandler, NoMethod, Reply, lookupVars
    <2>5. CASE CallHandler
      <3> DEFINE h == handlers[<<current, request.method>>]
      <3>1. h \in DOMAIN routes
        BY <2>1, <2>5, SlotIsLast DEF CallHandler
      <3>2. answer' = Handled(h, params) /\ current' = current /\ params' = params
        BY <2>5 DEF CallHandler, Reply, lookupVars
      <3> HIDE DEF h
      <3>3. answer'.kind = "Handled" /\ answer'.handler = h /\ answer'.params = params
        BY <3>2 DEF Handled
      <3> QED BY <2>1, <3>1, <3>2, <3>3
    <2> QED BY <2>2, <2>3, <2>4, <2>5 DEF Lookup
  <1>7. nodes' = nodes /\ routes' = routes
    BY <1>1 DEF trieVars
  <1> QED BY <1>2, <1>4, <1>5, <1>6, <1>7 DEF TableInv, RouterTypeOK

LEMMA TableInitial == RouterInit => TableInv
  <1> SUFFICES ASSUME RouterInit PROVE TableInv
    OBVIOUS
  <1>1. /\ routes = << >> /\ DOMAIN routes = {} /\ nodes = {<< >>} /\ param_names = EmptyMap
        /\ handlers = EmptyMap /\ current = << >> /\ params = EmptyMap
        /\ request = NoRequest /\ answer = NoAnswer /\ serving = FALSE
    BY DEF RouterInit, TableInit
  <1>2. RouterTypeOK
    BY <1>1, EmptySeq DEF RouterTypeOK, IsMap, EmptyMap
  <1>3. nodes = {<< >>} \cup UNION {Walked(routes[k].pattern) : k \in DOMAIN routes}
    BY <1>1
  <1>4. Then(<< >>, Len(<< >>), Param) # << >>
    <2>1. << >> \in Seq(Edges) /\ Param \in Edges
      BY DEF Edges
    <2>2. Len(Then(<< >>, Len(<< >>), Param)) = Len(<< >>) + 1
      BY <2>1, ChildType
    <2> QED BY <2>2
  <1>5. TrieInv
    BY <1>1, <1>3, <1>4 DEF TrieInv, EmptyMap
  <1> QED BY <1>1, <1>2, <1>5 DEF TableInv, FlowInv

LEMMA TableStep == TableInv /\ [RouterNext]_routerVars => TableInv'
  <1> SUFFICES ASSUME TableInv, [RouterNext]_routerVars PROVE TableInv'
    OBVIOUS
  <1>1. CASE \E route \in Routes : Route(route)
    <2>1. PICK route \in Routes : Route(route)
      BY <1>1
    <2>2. FlowInv'
      BY <2>1 DEF TableInv, FlowInv, Route
    <2> QED BY <2>1, <2>2, RouteKeepsType, RouteKeepsTrie DEF TableInv
  <1>2. CASE Serve
    <2>1. TrieInv'
      BY <1>2, TrieStays DEF TableInv, Serve
    <2> QED BY <1>2, <2>1 DEF TableInv, RouterTypeOK, FlowInv, Serve, trieVars, lookupVars
  <1>3. CASE \E segments \in SegmentLists, method \in AllMethods : Handle(segments, method)
    <2>1. PICK segments \in SegmentLists, method \in AllMethods : Handle(segments, method)
      BY <1>3
    <2>2. TrieInv' /\ << >> \in nodes
      BY <2>1, TrieStays, RootInTrie DEF TableInv, Handle
    <2>3. IsMap(params', Names, Names) /\ current' \in nodes'
      BY <2>1, <2>2 DEF Handle, IsMap, EmptyMap, trieVars
    <2>4. request' \in [segments : SegmentLists, method : AllMethods]
      BY <2>1 DEF Handle
    <2>5. RouterTypeOK'
      BY <2>1, <2>3, <2>4 DEF TableInv, RouterTypeOK, Handle, trieVars
    <2>6. FlowInv'
      BY <2>1 DEF TableInv, FlowInv, Handle
    <2> QED BY <2>2, <2>5, <2>6 DEF TableInv
  <1>4. CASE Lookup
    BY <1>4, LookupKeepsTable
  <1>5. CASE Return
    <2>1. TrieInv'
      BY <1>5, TrieStays DEF TableInv, Return
    <2> QED BY <1>5, <2>1 DEF TableInv, RouterTypeOK, FlowInv, Return, trieVars, lookupVars
  <1>6. CASE UNCHANGED routerVars
    <2>1. TrieInv'
      BY <1>6, TrieStays DEF TableInv, routerVars, tableVars
    <2> QED BY <1>6, <2>1 DEF TableInv, RouterTypeOK, FlowInv, routerVars, tableVars, trieVars,
                              lookupVars
  <1> QED BY <1>1, <1>2, <1>3, <1>4, <1>5, <1>6 DEF RouterNext

LEMMA TableInvariant == RouterSpec => []TableInv
  BY TableInitial, TableStep, PTL DEF RouterSpec

\* Every reachable state of the router is well typed.
THEOREM TypeCorrect == RouterSpec => []RouterTypeOK
  BY TableInvariant, PTL DEF TableInv

\* The trie holds exactly the routes that were registered: route() and merge()
\* lose none, and add nothing that was not asked for.
THEOREM TrieCorrect == RouterSpec => []TrieInv
  BY TableInvariant, PTL DEF TableInv

-----------------------------------------------------------------------------
(* A lookup goes where the routes lead. *)

\* Places that agree on n edges are one up to there.
LEMMA ThenSame ==
  ASSUME NEW e \in Seq(Edges), NEW f \in Seq(Edges), NEW n \in Nat,
         \A j \in 1 .. n : e[j] = f[j]
  PROVE  /\ Upto(e, n) = Upto(f, n)
         /\ \A x : Then(e, n, x) = Then(f, n, x)
  <1>1. Upto(e, n) = Upto(f, n)
    BY DEF Upto
  <1>2. ASSUME NEW x PROVE Then(e, n, x) = Then(f, n, x)
    <2>1. \A j \in 1 .. n + 1 : (IF j <= n THEN e[j] ELSE x) = (IF j <= n THEN f[j] ELSE x)
      OBVIOUS
    <2> QED BY <2>1 DEF Then
  <1> QED BY <1>1, <1>2

LEMMA UptoWhole ==
  ASSUME NEW e \in Seq(Edges)
  PROVE  Upto(e, Len(e)) = e
  <1>1. Len(e) \in 0 .. Len(e)
    OBVIOUS
  <1>2. /\ Upto(e, Len(e)) \in Seq(Edges) /\ Len(Upto(e, Len(e))) = Len(e)
        /\ \A i \in 1 .. Len(e) : Upto(e, Len(e))[i] = e[i]
    BY <1>1, UptoType
  <1> DEFINE f == Upto(e, Len(e))
  <1> HIDE DEF f
  <1>3. f = e
    BY <1>2, SamePlace DEF f
  <1> QED BY <1>3 DEF f

\* The place stays the preferred one when the right edge is taken.
LEMMA PreferredChild ==
  ASSUME NEW segments \in Seq(Names), NEW e \in Seq(Edges), NEW x \in Edges,
         Len(e) < Len(segments), Preferred(e, segments),
         x = IF \E k \in DOMAIN routes : Passes(k, Then(e, Len(e), segments[Len(e) + 1]))
             THEN segments[Len(e) + 1] ELSE Param
  PROVE  Preferred(Then(e, Len(e), x), segments)
  <1>1. PICK c : c = Then(e, Len(e), x)
    OBVIOUS
  <1>2. /\ c \in Seq(Edges) /\ Len(c) = Len(e) + 1 /\ c[Len(e) + 1] = x
        /\ \A i \in 1 .. Len(e) : c[i] = e[i]
    BY <1>1, ChildType
  <1>3. ASSUME NEW i \in 1 .. Len(c)
        PROVE  c[i] = IF \E k \in DOMAIN routes : Passes(k, Then(c, i - 1, segments[i]))
                      THEN segments[i] ELSE Param
    <2>1. i - 1 \in Nat /\ \A j \in 1 .. i - 1 : c[j] = e[j]
      BY <1>2
    <2>2. Then(c, i - 1, segments[i]) = Then(e, i - 1, segments[i])
      BY <1>2, <2>1, ThenSame
    <2>3. CASE i <= Len(e)
      <3>1. i \in 1 .. Len(e) /\ c[i] = e[i]
        BY <1>2, <2>3
      <3> QED BY <2>2, <3>1 DEF Preferred
    <2>4. CASE ~ (i <= Len(e))
      <3>1. i = Len(e) + 1 /\ i - 1 = Len(e)
        BY <1>2, <2>4
      <3> QED BY <1>2, <2>2, <3>1
    <2> QED BY <2>3, <2>4
  <1> QED BY <1>1, <1>3 DEF Preferred

\* The names of the parameters of a place stay when it is led on from.
LEMMA NamesStay ==
  ASSUME NEW e \in Seq(Edges), NEW x \in Edges, NEW i \in 1 .. Len(e), NEW n
  PROVE  IsNameAt(n, Then(e, Len(e), x), i) <=> IsNameAt(n, e, i)
  <1>1. PICK c : c = Then(e, Len(e), x)
    OBVIOUS
  <1>2. c \in Seq(Edges) /\ \A j \in 1 .. Len(e) : c[j] = e[j]
    BY <1>1, ChildType
  <1>3. i \in Nat /\ c[i] = e[i] /\ \A j \in 1 .. i : c[j] = e[j]
    BY <1>2
  <1>4. Upto(c, i) = Upto(e, i)
    BY <1>2, <1>3, ThenSame
  <1> QED BY <1>1, <1>3, <1>4 DEF IsNameAt

LEMMA ParamsOfStaticChild ==
  ASSUME NEW segments, NEW e \in Seq(Edges), NEW x \in Names, NEW ps,
         AreParams(ps, e, segments)
  PROVE  AreParams(ps, Then(e, Len(e), x), segments)
  <1>1. PICK c : c = Then(e, Len(e), x)
    OBVIOUS
  <1>2. x \in Edges /\ x # Param /\ Len(e) \in Nat
    BY ParamAssumption DEF Edges
  <1>3. Len(c) = Len(e) + 1 /\ c[Len(e) + 1] = x
    BY <1>1, <1>2, ChildType
  <1>4. \A n : \A i \in 1 .. Len(e) : IsNameAt(n, c, i) <=> IsNameAt(n, e, i)
    BY <1>1, <1>2, NamesStay
  <1>5. \A n : ~ IsNameAt(n, c, Len(e) + 1)
    BY <1>2, <1>3 DEF IsNameAt
  <1>6. \A i \in 1 .. Len(c) : i \in 1 .. Len(e) \/ i = Len(e) + 1
    BY <1>2, <1>3
  <1>7. ASSUME NEW n \in DOMAIN ps
        PROVE  \E i \in 1 .. Len(c) :
                 IsNameAt(n, c, i) /\ ps[n] = segments[i] /\ \A j \in i + 1 .. Len(c) : ~ IsNameAt(n, c, j)
    <2>1. PICK i \in 1 .. Len(e) :
            IsNameAt(n, e, i) /\ ps[n] = segments[i] /\ \A j \in i + 1 .. Len(e) : ~ IsNameAt(n, e, j)
      BY DEF AreParams
    <2>2. ASSUME NEW j \in i + 1 .. Len(c) PROVE ~ IsNameAt(n, c, j)
      <3>1. (j \in i + 1 .. Len(e) /\ j \in 1 .. Len(e)) \/ j = Len(e) + 1
        BY <1>2, <1>3
      <3> QED BY <1>4, <1>5, <2>1, <3>1
    <2>3. i \in 1 .. Len(c)
      BY <1>2, <1>3
    <2> QED BY <1>4, <2>1, <2>2, <2>3
  <1>8. \A i \in 1 .. Len(c) : \A n \in Names : IsNameAt(n, c, i) => n \in DOMAIN ps
    BY <1>4, <1>5, <1>6 DEF AreParams
  <1> QED BY <1>1, <1>7, <1>8 DEF AreParams

LEMMA ParamsOfParamChild ==
  ASSUME TableInv, NEW segments, NEW e \in DOMAIN param_names, NEW ps,
         AreParams(ps, e, segments)
  PROVE  AreParams(Insert(ps, param_names[e], segments[Len(e) + 1]),
                   Then(e, Len(e), Param), segments)
  <1>1. PICK c : c = Then(e, Len(e), Param)
    OBVIOUS
  <1>2. PICK name : name = param_names[e]
    OBVIOUS
  <1>3. PICK qs : qs = Insert(ps, name, segments[Len(e) + 1])
    OBVIOUS
  <1>4. e \in Seq(Edges) /\ Param \in Edges /\ Len(e) \in Nat
    BY ParamChild DEF Edges
  <1>5. PICK k \in DOMAIN routes : FirstThrough(k, c) /\ name = routes[k].pattern[Len(e) + 1].name
    BY <1>1, <1>2, ParamChild
  <1>6. c \in Seq(Edges) /\ Len(c) = Len(e) + 1 /\ c[Len(e) + 1] = Param
    BY <1>1, <1>4, ChildType
  <1>7. Upto(c, Len(e) + 1) = c
    BY <1>6, UptoWhole
  <1>8. ASSUME NEW n PROVE IsNameAt(n, c, Len(e) + 1) <=> n = name
    <2>1. DOMAIN routes = 1 .. Len(routes) /\ Len(routes) \in Nat
      BY DEF TableInv, RouterTypeOK
    <2>2. ASSUME n = name PROVE IsNameAt(n, c, Len(e) + 1)
      BY <1>5, <1>6, <1>7, <2>2 DEF IsNameAt, FirstThrough
    <2>3. ASSUME IsNameAt(n, c, Len(e) + 1) PROVE n = name
      <3>1. PICK h \in DOMAIN routes :
              /\ Passes(h, c) /\ routes[h].pattern[Len(e) + 1].name = n
              /\ \A j \in 1 .. h - 1 : ~ Passes(j, c)
        BY <1>7, <2>3 DEF IsNameAt
      <3>2. Passes(k, c) /\ \A j \in 1 .. k - 1 : ~ Passes(j, c)
        BY <1>5 DEF FirstThrough
      <3>3. ~ (h < k) /\ ~ (k < h)
        BY <2>1, <3>1, <3>2
      <3>4. h = k
        BY <2>1, <3>3
      <3> QED BY <1>5, <3>1, <3>4
    <2> QED BY <2>2, <2>3
  <1>9. \A n : \A i \in 1 .. Len(e) : IsNameAt(n, c, i) <=> IsNameAt(n, e, i)
    BY <1>1, <1>4, NamesStay
  <1>10. /\ DOMAIN qs = DOMAIN ps \cup {name} /\ qs[name] = segments[Len(e) + 1]
         /\ \A n \in DOMAIN ps : n # name => qs[n] = ps[n]
    BY <1>3 DEF Insert
  <1>11. ASSUME NEW n \in DOMAIN qs
         PROVE  \E i \in 1 .. Len(c) :
                  IsNameAt(n, c, i) /\ qs[n] = segments[i] /\ \A j \in i + 1 .. Len(c) : ~ IsNameAt(n, c, j)
    <2>1. CASE n = name
      <3>1. Len(e) + 1 \in 1 .. Len(c) /\ \A j \in Len(e) + 1 + 1 .. Len(c) : FALSE
        BY <1>4, <1>6
      <3> QED BY <1>8, <1>10, <2>1, <3>1
    <2>2. CASE n # name
      <3>1. n \in DOMAIN ps /\ qs[n] = ps[n]
        BY <1>10, <2>2
      <3>2. PICK i \in 1 .. Len(e) :
              IsNameAt(n, e, i) /\ ps[n] = segments[i] /\ \A j \in i + 1 .. Len(e) : ~ IsNameAt(n, e, j)
        BY <3>1 DEF AreParams
      <3>3. ASSUME NEW j \in i + 1 .. Len(c) PROVE ~ IsNameAt(n, c, j)
        <4>1. (j \in i + 1 .. Len(e) /\ j \in 1 .. Len(e)) \/ j = Len(e) + 1
          BY <1>4, <1>6
        <4> QED BY <1>8, <1>9, <2>2, <3>2, <4>1
      <3>4. i \in 1 .. Len(c)
        BY <1>4, <1>6
      <3> QED BY <1>9, <3>1, <3>2, <3>3, <3>4
    <2> QED BY <2>1, <2>2
  <1>12. \A i \in 1 .. Len(c) : i \in 1 .. Len(e) \/ i = Len(e) + 1
    BY <1>4, <1>6
  <1>13. \A i \in 1 .. Len(c) : \A n \in Names : IsNameAt(n, c, i) => n \in DOMAIN qs
    BY <1>8, <1>9, <1>10, <1>12 DEF AreParams
  <1> QED BY <1>1, <1>2, <1>3, <1>11, <1>13 DEF AreParams

\* The rules read the table only.
LEMMA RulesStay ==
  ASSUME UNCHANGED routes
  PROVE  /\ \A k, e : Passes(k, e)' <=> Passes(k, e)
         /\ \A e, segments : Preferred(e, segments)' <=> Preferred(e, segments)
         /\ \A ps, e, segments : AreParams(ps, e, segments)' <=> AreParams(ps, e, segments)
         /\ \A k, e, m : IsLast(k, e, m)' <=> IsLast(k, e, m)
  <1>1. \A k, e : Passes(k, e)' <=> Passes(k, e)
    BY DEF Passes
  <1>2. \A e, segments : Preferred(e, segments)' <=> Preferred(e, segments)
    BY <1>1 DEF Preferred
  <1>3. \A n, e, i : IsNameAt(n, e, i)' <=> IsNameAt(n, e, i)
    BY <1>1 DEF IsNameAt
  <1>4. \A ps, e, segments : AreParams(ps, e, segments)' <=> AreParams(ps, e, segments)
    BY <1>3 DEF AreParams
  <1>5. \A k, e, m : Serves(k, e, m)' <=> Serves(k, e, m)
    BY <1>1 DEF Serves, EndsAt
  <1>6. \A k, e, m : IsLast(k, e, m)' <=> IsLast(k, e, m)
    BY <1>5 DEF IsLast
  <1> QED BY <1>1, <1>2, <1>4, <1>6

LEMMA MatchStaticKeeps ==
  ASSUME TableInv, LookupInv, MatchStatic
  PROVE  LookupInv'
  <1>1. PICK c, e, segments, x :
          c = current' /\ e = current /\ segments = request.segments /\ x = Segment
    OBVIOUS
  <1>2. /\ e \in Seq(Edges) /\ segments \in Seq(Names) /\ Len(e) \in Nat /\ Len(segments) \in Nat
        /\ Len(e) + 1 \in 1 .. Len(segments) /\ Len(e) < Len(segments)
        /\ x = segments[Len(e) + 1] /\ x \in Names /\ x \in Edges
    BY <1>1, MatchingType DEF MatchStatic, Matching
  <1>3. /\ c = Then(e, Len(e), x) /\ c \in nodes /\ params' = params /\ request' = request
        /\ routes' = routes /\ request # NoRequest
    BY <1>1 DEF MatchStatic, Matching, Child, tableVars
  <1>4. c \in Seq(Edges) /\ Len(c) = Len(e) + 1 /\ c # << >>
    BY <1>2, <1>3, ChildType
  <1>5. \E k \in DOMAIN routes : Passes(k, c)
    BY <1>3, <1>4, NodesIff DEF TableInv
  <1>6. Preferred(e, segments) /\ AreParams(params, e, segments)
    BY <1>1, <1>3 DEF LookupInv
  <1>7. Preferred(c, segments)
    BY <1>2, <1>3, <1>5, <1>6, PreferredChild
  <1>8. PICK ps : ps = params
    OBVIOUS
  <1>9. AreParams(ps, c, segments)
    BY <1>2, <1>3, <1>6, <1>8, ParamsOfStaticChild
  <1>10. Preferred(c, segments)' /\ AreParams(ps, c, segments)'
    BY <1>3, <1>7, <1>9, RulesStay
  <1>11. c = current' /\ segments = request'.segments /\ ps = params' /\ Len(c) <= Len(segments)
    BY <1>1, <1>2, <1>3, <1>4, <1>8
  <1> QED BY <1>10, <1>11 DEF LookupInv

LEMMA MatchParamKeeps ==
  ASSUME TableInv, LookupInv, MatchParam
  PROVE  LookupInv'
  <1>1. PICK c, e, segments, x :
          c = current' /\ e = current /\ segments = request.segments /\ x = Segment
    OBVIOUS
  <1>2. /\ e \in Seq(Edges) /\ segments \in Seq(Names) /\ Len(e) \in Nat /\ Len(segments) \in Nat
        /\ Len(e) + 1 \in 1 .. Len(segments) /\ Len(e) < Len(segments)
        /\ x = segments[Len(e) + 1] /\ x \in Edges /\ Param \in Edges
    BY <1>1, MatchingType DEF MatchParam, Matching
  <1>3. /\ c = Then(e, Len(e), Param) /\ Then(e, Len(e), x) \notin nodes /\ e \in DOMAIN param_names
        /\ params' = Insert(params, param_names[e], x)
        /\ request' = request /\ routes' = routes /\ request # NoRequest
    BY <1>1 DEF MatchParam, Matching, Child, tableVars
  <1>4. c \in Seq(Edges) /\ Len(c) = Len(e) + 1
    BY <1>2, <1>3, ChildType
  <1>5. Then(e, Len(e), x) \in Seq(Edges)
    BY <1>2, ChildType
  <1>6. ~ \E k \in DOMAIN routes : Passes(k, Then(e, Len(e), x))
    BY <1>3, <1>5, NodesIff DEF TableInv
  <1>7. Preferred(e, segments) /\ AreParams(params, e, segments)
    BY <1>1, <1>3 DEF LookupInv
  <1>8. Preferred(c, segments)
    BY <1>2, <1>3, <1>6, <1>7, PreferredChild
  <1>9. PICK ps, qs : ps = params /\ qs = params'
    OBVIOUS
  <1>10. AreParams(qs, c, segments)
    BY <1>2, <1>3, <1>7, <1>9, ParamsOfParamChild
  <1>11. Preferred(c, segments)' /\ AreParams(qs, c, segments)'
    BY <1>3, <1>8, <1>10, RulesStay
  <1>12. c = current' /\ segments = request'.segments /\ qs = params' /\ Len(c) <= Len(segments)
    BY <1>1, <1>2, <1>3, <1>4, <1>9
  <1> QED BY <1>11, <1>12 DEF LookupInv

\* What has been answered was right for the place that was reached.
AnswerInv ==
  answer.kind = "Handled" =>
    /\ request # NoRequest
    /\ Len(current) = Len(request.segments)
    /\ answer.params = params
    /\ IsLast(answer.handler, current, request.method)

LEMMA LookupStays ==
  ASSUME LookupInv, UNCHANGED <<routes, request, current, params>>
  PROVE  LookupInv'
  <1>1. PICK c, segments, ps : c = current /\ segments = request.segments /\ ps = params
    OBVIOUS
  <1>2. request # NoRequest =>
          Preferred(c, segments)' /\ AreParams(ps, c, segments)' /\ Len(c) <= Len(segments)
    BY <1>1, RulesStay DEF LookupInv
  <1>3. c = current' /\ segments = request'.segments /\ ps = params'
    BY <1>1
  <1> QED BY <1>2, <1>3 DEF LookupInv

LEMMA AnswerStays ==
  ASSUME AnswerInv, UNCHANGED <<routes, request, answer, current, params>>
  PROVE  AnswerInv'
  <1>1. PICK c, h, m : c = current /\ h = answer.handler /\ m = request.method
    OBVIOUS
  <1>2. answer.kind = "Handled" => IsLast(h, c, m)'
    BY <1>1, RulesStay DEF AnswerInv
  <1>3. c = current' /\ h = answer'.handler /\ m = request'.method
    BY <1>1
  <1> QED BY <1>2, <1>3 DEF AnswerInv

LEMMA ReplyKeeps ==
  ASSUME TableInv, LookupInv, NEW a, Reply(a)
  PROVE  LookupInv' /\ UNCHANGED <<routes, serving, request, current, params>> /\ answer' = a
  <1>1. UNCHANGED <<routes, serving, request, current, params>> /\ answer' = a
    BY DEF Reply, lookupVars
  <1> QED BY <1>1, LookupStays

LEMMA LookupStep ==
  ASSUME TableInv, LookupInv, AnswerInv, [RouterNext]_routerVars
  PROVE  LookupInv' /\ AnswerInv'
  <1> USE DEF TableInv
  <1>0. NoAnswer.kind # "Handled" /\ NotFound.kind # "Handled" /\ MethodNotAllowed.kind # "Handled"
    BY DEF NoAnswer, NotFound, MethodNotAllowed
  <1>1. CASE \E route \in Routes : Route(route)
    <2>1. request' = NoRequest /\ answer' = NoAnswer
      BY <1>1 DEF FlowInv, Route
    <2> QED BY <1>0, <2>1 DEF LookupInv, AnswerInv
  <1>2. CASE Serve
    BY <1>2, LookupStays, AnswerStays DEF Serve, lookupVars
  <1>3. CASE \E segments \in SegmentLists, method \in AllMethods : Handle(segments, method)
    <2>1. PICK segments \in SegmentLists, method \in AllMethods : Handle(segments, method)
      BY <1>3
    <2>2. answer' = NoAnswer
      BY <2>1 DEF FlowInv, Handle
    <2>3. PICK e : e = << >> /\ Len(e) = 0 /\ e = current'
      BY <2>1 DEF Handle
    <2>4. Preferred(e, segments)'
      BY <2>3 DEF Preferred
    <2>5. PICK ps : ps = params' /\ DOMAIN ps = {}
      BY <2>1 DEF Handle, EmptyMap
    <2>6. AreParams(ps, e, segments)'
      BY <2>3, <2>5 DEF AreParams
    <2>7. Len(segments) \in Nat /\ request'.segments = segments
      BY <2>1, SegmentsAssumption DEF Handle
    <2> QED BY <1>0, <2>2, <2>3, <2>4, <2>5, <2>6, <2>7 DEF LookupInv, AnswerInv
  <1>4. CASE MatchStatic
    <2>1. answer' = NoAnswer
      BY <1>4 DEF MatchStatic, Matching, tableVars
    <2> QED BY <1>0, <1>4, <2>1, MatchStaticKeeps DEF AnswerInv
  <1>5. CASE MatchParam
    <2>1. answer' = NoAnswer
      BY <1>5 DEF MatchParam, Matching, tableVars
    <2> QED BY <1>0, <1>5, <2>1, MatchParamKeeps DEF AnswerInv
  <1>6. CASE NoMatch \/ NoHandler \/ NoMethod
    <2>1. Reply(NotFound) \/ Reply(MethodNotAllowed)
      BY <1>6 DEF NoMatch, NoHandler, NoMethod
    <2> QED BY <1>0, <2>1, ReplyKeeps DEF AnswerInv
  <1>7. CASE CallHandler
    <2>1. PICK h, n, m, ps : h = handlers[<<n, m>>] /\ n = current /\ m = request.method /\ ps = params
      OBVIOUS
    <2>2. IsLast(h, n, m)
      BY <1>7, <2>1, SlotIsLast DEF CallHandler, RouterTypeOK
    <2>3. LookupInv' /\ UNCHANGED <<routes, serving, request, current, params>> /\ answer' = Handled(h, ps)
      BY <1>7, <2>1, ReplyKeeps DEF CallHandler
    <2>4. IsLast(h, n, m)'
      BY <2>2, <2>3, RulesStay
    <2>5. answer'.handler = h /\ answer'.params = ps
      BY <2>3 DEF Handled
    <2>6. request # NoRequest /\ Len(current) = Len(request.segments)
      BY <1>7 DEF CallHandler, Matched
    <2> QED BY <2>1, <2>3, <2>4, <2>5, <2>6 DEF AnswerInv
  <1>8. CASE Return
    BY <1>0, <1>8 DEF Return, LookupInv, AnswerInv
  <1>9. CASE UNCHANGED routerVars
    BY <1>9, LookupStays, AnswerStays DEF routerVars, tableVars, lookupVars
  <1> QED BY <1>1, <1>2, <1>3, <1>4, <1>5, <1>6, <1>7, <1>8, <1>9 DEF RouterNext, Lookup

LEMMA LookupInvariant == RouterSpec => [](TableInv /\ LookupInv /\ AnswerInv)
  <1>1. RouterInit => LookupInv /\ AnswerInv
    BY DEF RouterInit, TableInit, LookupInv, AnswerInv, NoAnswer
  <1> QED BY <1>1, TableInitial, TableStep, LookupStep, PTL DEF RouterSpec

\* Each step of lookup() follows the table: a static edge where some route
\* leads on by it, a parameter elsewhere, and the parameters those of the place.
THEOREM LookupCorrect == RouterSpec => []LookupInv
  BY LookupInvariant, PTL

-----------------------------------------------------------------------------
(* The trie implements the table. *)

\* A lookup that has matched every segment is at the place they lead to.
LEMMA MatchedPlace ==
  ASSUME TableInv, LookupInv, Matched
  PROVE  /\ current \in Places(request.segments) /\ Preferred(current, request.segments)
         /\ AreParams(params, current, request.segments)
         /\ current \in nodes /\ current \in Seq(Edges)
         /\ request.method \in AllMethods
  <1> DEFINE segments == request.segments
             P == {i \in 1 .. Len(segments) : current[i] = Param}
  <1>1. current \in nodes /\ current \in Seq(Edges) /\ Len(current) = Len(segments)
        /\ request.method \in AllMethods
    BY DEF TableInv, RouterTypeOK, Matched
  <1>2. Preferred(current, segments) /\ AreParams(params, current, segments)
    BY DEF LookupInv, Matched
  <1>3. \A i \in 1 .. Len(segments) : current[i] = IF i \in P THEN Param ELSE segments[i]
    BY <1>1, <1>2 DEF Preferred
  <1>4. current = [i \in 1 .. Len(segments) |-> IF i \in P THEN Param ELSE segments[i]]
    <2>1. current = [i \in 1 .. Len(segments) |-> current[i]]
      BY <1>1
    <2> QED BY <1>3, <2>1
  <1>5. P \in SUBSET (1 .. Len(segments))
    OBVIOUS
  <1> HIDE DEF P
  <1>6. current \in Places(segments)
    BY <1>4, <1>5 DEF Places
  <1> QED BY <1>1, <1>2, <1>6

\* The place that a lookup without a way on was to reach: from there on every
\* edge is a parameter, since no route leads there at all.
LEMMA UnmatchedPlace ==
  ASSUME TableInv, LookupInv, NoMatch
  PROVE  \E e \in Places(request.segments) :
           Preferred(e, request.segments) /\ \A k \in DOMAIN routes : ~ Passes(k, e)
  <1>1. PICK f, segments, x : f = current /\ segments = request.segments /\ x = Segment
    OBVIOUS
  <1>2. /\ f \in Seq(Edges) /\ segments \in Seq(Names) /\ Len(f) \in Nat /\ Len(segments) \in Nat
        /\ Len(f) + 1 \in 1 .. Len(segments) /\ f \in nodes
        /\ x = segments[Len(f) + 1] /\ x \in Edges /\ Param \in Edges
    BY <1>1, MatchingType DEF NoMatch
  <1>3. Preferred(f, segments)
    BY <1>1 DEF LookupInv, NoMatch, Matching
  <1>4. Then(f, Len(f), x) \notin nodes /\ Then(f, Len(f), Param) \notin nodes
    <2>1. Then(f, Len(f), x) \notin nodes /\ f \notin DOMAIN param_names
      BY <1>1 DEF NoMatch, Child
    <2> QED BY <1>2, <2>1 DEF TableInv, TrieInv
  <1>5. \A k \in DOMAIN routes :
          ~ Passes(k, Then(f, Len(f), x)) /\ ~ Passes(k, Then(f, Len(f), Param))
    BY <1>2, <1>4, ChildType, NodesIff DEF TableInv
  <1> DEFINE P == {i \in 1 .. Len(segments) : i <= Len(f) => f[i] = Param}
  <1>6. PICK e : e = [i \in 1 .. Len(segments) |-> IF i \in P THEN Param ELSE segments[i]]
    OBVIOUS
  <1>7. e \in Places(segments)
    <2>1. P \in SUBSET (1 .. Len(segments))
      OBVIOUS
    <2> HIDE DEF P
    <2> QED BY <1>6, <2>1 DEF Places
  <1>8. Len(e) = Len(segments) /\ e \in Seq(Edges)
    <2>1. \A i \in 1 .. Len(segments) : (IF i \in P THEN Param ELSE segments[i]) \in Edges
      BY <1>2, ElementOfSeq DEF Edges
    <2> HIDE DEF P
    <2> QED BY <1>2, <1>6, <2>1
  <1>9. \A i \in 1 .. Len(f) : e[i] = f[i]
    BY <1>2, <1>3, <1>6 DEF Preferred
  <1>10. \A i \in Len(f) + 1 .. Len(segments) : e[i] = Param
    BY <1>2, <1>6
  <1> HIDE DEF P
  <1>11. ASSUME NEW k \in DOMAIN routes, NEW g \in Seq(Edges), Len(f) + 1 <= Len(g),
                \A i \in 1 .. Len(f) : g[i] = f[i], g[Len(f) + 1] \in {x, Param}
         PROVE  ~ Passes(k, g)
    <2>1. PICK y : y = g[Len(f) + 1]
      OBVIOUS
    <2>2. PICK c : c = Then(f, Len(f), y)
      OBVIOUS
    <2>y. y \in Edges
      BY <1>2, <1>11, <2>1
    <2>3. Len(c) = Len(f) + 1 /\ c[Len(f) + 1] = y /\ \A i \in 1 .. Len(f) : c[i] = f[i]
      BY <1>2, <2>2, <2>y, ChildType
    <2>4. ~ Passes(k, c)
      BY <1>5, <1>11, <2>1, <2>2
    <2>5. Len(g) \in Nat /\ routes[k].pattern \in Patterns
      BY RoutePattern DEF TableInv
    <2>6. Len(routes[k].pattern) \in Nat
      BY <2>5, PatternLength
    <2>7. ASSUME Passes(k, g) PROVE Passes(k, c)
      <3>1. Len(g) <= Len(routes[k].pattern) /\ \A i \in 1 .. Len(g) : Edge(routes[k].pattern[i]) = g[i]
        BY <2>7 DEF Passes
      <3>2. \A i \in 1 .. Len(c) : i \in 1 .. Len(g) /\ c[i] = g[i]
        BY <1>2, <1>11, <2>1, <2>3, <2>5
      <3>3. Len(c) <= Len(routes[k].pattern)
        BY <1>2, <1>11, <2>3, <2>5, <2>6, <3>1
      <3> QED BY <3>1, <3>2, <3>3 DEF Passes
    <2> QED BY <2>4, <2>7
  <1>12. \A k \in DOMAIN routes : ~ Passes(k, e)
    BY <1>2, <1>8, <1>9, <1>10, <1>11
  <1>13. ASSUME NEW i \in 1 .. Len(e)
         PROVE  e[i] = IF \E k \in DOMAIN routes : Passes(k, Then(e, i - 1, segments[i]))
                       THEN segments[i] ELSE Param
    <2>1. PICK g : g = Then(e, i - 1, segments[i])
      OBVIOUS
    <2>2. i - 1 \in 0 .. Len(e) /\ segments[i] \in Edges
      BY <1>2, <1>8, ElementOfSeq DEF Edges
    <2>3. /\ g \in Seq(Edges) /\ Len(g) = i - 1 + 1 /\ g[i - 1 + 1] = segments[i]
          /\ \A j \in 1 .. i - 1 : g[j] = e[j]
      BY <1>8, <2>1, <2>2, ThenType
    <2>4. i \in Nat /\ i - 1 + 1 = i
      BY <1>8
    <2>5. CASE i <= Len(f)
      <3>1. i - 1 \in Nat /\ \A j \in 1 .. i - 1 : e[j] = f[j]
        BY <1>2, <1>9, <2>4, <2>5
      <3>2. g = Then(f, i - 1, segments[i])
        BY <1>2, <1>8, <2>1, <3>1, ThenSame
      <3>3. i \in 1 .. Len(f) /\ e[i] = f[i]
        BY <1>2, <1>9, <2>4, <2>5
      <3> QED BY <1>3, <2>1, <3>2, <3>3 DEF Preferred
    <2>6. CASE ~ (i <= Len(f))
      <3>1. e[i] = Param
        BY <1>2, <1>8, <1>10, <2>4, <2>6
      <3>2. Len(f) + 1 <= Len(g) /\ \A j \in 1 .. Len(f) : g[j] = f[j]
        BY <1>2, <1>8, <1>9, <2>3, <2>4, <2>6
      <3>3. g[Len(f) + 1] \in {x, Param}
        <4>1. CASE i = Len(f) + 1
          BY <1>2, <2>3, <2>4, <4>1
        <4>2. CASE i # Len(f) + 1
          BY <1>2, <1>8, <1>10, <2>3, <2>4, <2>6, <4>2
        <4> QED BY <4>1, <4>2
      <3>4. \A k \in DOMAIN routes : ~ Passes(k, g)
        BY <1>11, <2>3, <3>2, <3>3
      <3> QED BY <2>1, <3>1, <3>4
    <2> QED BY <2>5, <2>6
  <1>14. Preferred(e, segments)
    BY <1>13 DEF Preferred
  <1> QED BY <1>1, <1>7, <1>12, <1>14

LEMMA RouteMethods ==
  ASSUME TableInv, NEW k \in DOMAIN routes
  PROVE  routes[k].methods \subseteq Methods /\ routes[k].methods # {}
  BY RoutePattern DEF TableInv, Routes

\* At a node without a handler no route ends.
LEMMA NoHandlerNoRoute ==
  ASSUME TableInv, NEW n \in nodes
  PROVE  has_any(n) <=> \E k \in DOMAIN routes : EndsAt(k, n)
  <1>1. \A m \in Methods : <<n, m>> \in DOMAIN handlers <=> \E k \in DOMAIN routes : Serves(k, n, m)
    BY DEF TableInv, TrieInv
  <1>2. ASSUME NEW k \in DOMAIN routes, EndsAt(k, n) PROVE has_any(n)
    <2>1. PICK m \in Methods : m \in routes[k].methods
      BY RouteMethods
    <2> QED BY <1>1, <1>2, <2>1 DEF Serves, has_any
  <1>3. ASSUME has_any(n) PROVE \E k \in DOMAIN routes : EndsAt(k, n)
    BY <1>1, <1>3 DEF Serves, has_any
  <1> QED BY <1>2, <1>3

\* A request is answered as the table demands.
LEMMA LookupResponds ==
  ASSUME TableInv, LookupInv, NoMatch \/ NoHandler \/ NoMethod \/ CallHandler
  PROVE  Respond
  <1>1. request # NoRequest /\ answer = NoAnswer /\ UNCHANGED <<routes, serving, request>>
    BY DEF NoMatch, NoHandler, NoMethod, CallHandler, Matching, Matched, Reply
  <1>2. CASE NoMatch
    <2>1. answer' = NotFound
      BY <1>2 DEF NoMatch, Reply
    <2>2. PICK e \in Places(request.segments) :
            Preferred(e, request.segments) /\ \A k \in DOMAIN routes : ~ Passes(k, e)
      BY <1>2, UnmatchedPlace
    <2>3. Right(answer', e)
      BY <2>1, <2>2 DEF Right, EndsAt
    <2> QED BY <1>1, <2>2, <2>3 DEF Respond
  <1>3. CASE NoHandler
    <2>1. answer' = NotFound /\ Matched /\ ~ has_any(current)
      BY <1>3 DEF NoHandler, Reply
    <2>2. \A k \in DOMAIN routes : ~ EndsAt(k, current)
      BY <2>1, MatchedPlace, NoHandlerNoRoute
    <2>3. Right(answer', current)
      BY <2>1, <2>2 DEF Right
    <2> QED BY <1>1, <2>1, <2>3, MatchedPlace DEF Respond
  <1>4. CASE NoMethod
    <2>1. /\ answer' = MethodNotAllowed /\ Matched /\ has_any(current)
          /\ <<current, request.method>> \notin DOMAIN handlers
      BY <1>4 DEF NoMethod, Reply
    <2>2. \E k \in DOMAIN routes : EndsAt(k, current)
      BY <2>1, MatchedPlace, NoHandlerNoRoute
    <2>3. ASSUME NEW k \in DOMAIN routes PROVE ~ Serves(k, current, request.method)
      <3>1. CASE request.method \in Methods
        BY <2>1, <3>1, MatchedPlace DEF TableInv, TrieInv
      <3>2. CASE request.method \notin Methods
        BY <3>2, RouteMethods DEF Serves
      <3> QED BY <3>1, <3>2
    <2>4. Right(answer', current)
      BY <2>1, <2>2, <2>3 DEF Right
    <2> QED BY <1>1, <2>1, <2>4, MatchedPlace DEF Respond
  <1>5. CASE CallHandler
    <2> DEFINE h == handlers[<<current, request.method>>]
    <2>1. /\ Matched /\ <<current, request.method>> \in DOMAIN handlers
          /\ answer' = Handled(h, params)
      BY <1>5 DEF CallHandler, Reply
    <2>2. IsLast(h, current, request.method)
      BY <2>1, MatchedPlace, SlotIsLast
    <2> HIDE DEF h
    <2>3. answer'.kind = "Handled" /\ answer'.handler = h /\ answer'.params = params
      BY <2>1 DEF Handled
    <2>4. AreParams(params, current, request.segments)
      BY <2>1, MatchedPlace
    <2>5. Right(answer', current)
      BY <2>1, <2>2, <2>3, <2>4 DEF Right
    <2> QED BY <1>1, <2>1, <2>5, MatchedPlace DEF Respond
  <1> QED BY <1>2, <1>3, <1>4, <1>5

LEMMA StepOfTable ==
  ASSUME TableInv, LookupInv, [RouterNext]_routerVars
  PROVE  [TableNext]_tableVars
  <1>1. CASE \E route \in Routes : Route(route)
    BY <1>1 DEF Route, Register, TableNext
  <1>2. CASE Serve
    BY <1>2 DEF Serve, Start, TableNext
  <1>3. CASE \E segments \in SegmentLists, method \in AllMethods : Handle(segments, method)
    BY <1>3 DEF Handle, Ask, TableNext
  <1>4. CASE MatchStatic \/ MatchParam
    BY <1>4 DEF MatchStatic, MatchParam
  <1>5. CASE NoMatch \/ NoHandler \/ NoMethod \/ CallHandler
    BY <1>5, LookupResponds DEF TableNext
  <1>6. CASE Return
    BY <1>6 DEF Return, Forget, TableNext
  <1>7. CASE UNCHANGED routerVars
    BY <1>7 DEF routerVars
  <1> QED BY <1>1, <1>2, <1>3, <1>4, <1>5, <1>6, <1>7 DEF RouterNext, Lookup

\* The trie implements the table of routes: whatever was registered, in
\* whatever order, every request is answered as RouteTable says.
THEOREM RouterImplementsTable == RouterSpec => AnswersAsTable
  <1>1. RouterInit => TableInit
    BY DEF RouterInit
  <1> QED BY <1>1, StepOfTable, LookupInvariant, PTL DEF RouterSpec, AnswersAsTable, TableSpec

-----------------------------------------------------------------------------
(* The parameters a handler gets. *)

LEMMA ParamsStep ==
  ASSUME TableInv, LookupInv, AnswerInv
  PROVE  ParamsAsRegistered
  <1> SUFFICES ASSUME answer.kind = "Handled", NamesKept(answer.handler)
      PROVE  LET pattern == routes[answer.handler].pattern
             IN  /\ DOMAIN answer.params =
                      {pattern[i].name : i \in {i \in 1 .. Len(pattern) : pattern[i].param}}
                 /\ \A i \in 1 .. Len(pattern) :
                      pattern[i].param => answer.params[pattern[i].name] = request.segments[i]
    BY DEF ParamsAsRegistered
  <1>1. PICK h, p, e, segments, ps :
          /\ h = answer.handler /\ p = routes[h].pattern /\ e = current
          /\ segments = request.segments /\ ps = params
    OBVIOUS
  <1>2. /\ h \in DOMAIN routes /\ EndsAt(h, e) /\ Len(e) = Len(segments)
        /\ answer.params = ps /\ AreParams(ps, e, segments)
    BY <1>1 DEF AnswerInv, LookupInv, IsLast, Serves
  <1>3. /\ p \in Patterns /\ Len(p) \in Nat /\ Len(e) = Len(p) /\ e \in Seq(Edges) /\ e \in nodes
        /\ \A i \in 1 .. Len(p) : e[i] = Edge(p[i])
    BY <1>1, <1>2, RoutePattern, PatternLength DEF TableInv, RouterTypeOK, EndsAt, Passes
  <1>4. DOMAIN routes = 1 .. Len(routes) /\ Len(routes) \in Nat
    BY DEF TableInv, RouterTypeOK
  <1>5. e = NodeOf(p)
    BY <1>3, NodeOfIff DEF Leads
  <1>6. \A i \in 1 .. Len(p) : e[i] = Param <=> p[i].param
    BY <1>3, EdgeType
  <1>7. ASSUME NEW i \in 1 .. Len(p), p[i].param
        PROVE  /\ \A j \in 1 .. Len(p) : p[j].param /\ p[j].name = p[i].name => i = j
               /\ \A j \in 1 .. h - 1 : Passes(j, Upto(e, i)) => routes[j].pattern[i].name = p[i].name
    BY <1>1, <1>5, <1>7 DEF NamesKept
  <1>8. ASSUME NEW i \in 1 .. Len(p) PROVE Passes(h, Upto(e, i)) /\ i \in 0 .. Len(e)
    <2>1. i \in 0 .. Len(e)
      BY <1>3
    <2>2. Len(Upto(e, i)) = i /\ \A j \in 1 .. i : Upto(e, i)[j] = e[j]
      BY <1>3, <2>1, UptoType
    <2> QED BY <1>1, <1>3, <2>1, <2>2 DEF Passes
  <1>9. ASSUME NEW i \in 1 .. Len(p), NEW n, IsNameAt(n, e, i)
        PROVE  p[i].param /\ n = p[i].name
    <2>1. PICK k \in DOMAIN routes :
            /\ Passes(k, Upto(e, i)) /\ routes[k].pattern[i].name = n
            /\ \A j \in 1 .. k - 1 : ~ Passes(j, Upto(e, i))
      BY <1>9 DEF IsNameAt
    <2>2. p[i].param
      BY <1>6, <1>9 DEF IsNameAt
    <2>3. ~ (h < k)
      BY <1>2, <1>4, <1>8, <2>1
    <2>4. CASE k = h
      BY <1>1, <2>1, <2>2, <2>4
    <2>5. CASE k # h
      <3>1. k \in 1 .. h - 1
        BY <1>2, <1>4, <2>3, <2>5
      <3> QED BY <1>7, <2>1, <2>2, <3>1
    <2> QED BY <2>4, <2>5
  <1>10. ASSUME NEW i \in 1 .. Len(p), p[i].param
         PROVE  IsNameAt(p[i].name, e, i) /\ p[i].name \in Names
    <2>1. PICK n : n = Upto(e, i - 1)
      OBVIOUS
    <2>2. PICK c : c = Upto(e, i)
      OBVIOUS
    <2>3. i - 1 \in 0 .. Len(e) /\ i \in 0 .. Len(e) /\ i \in Nat
      BY <1>3
    <2>4. n \in Seq(Edges) /\ Len(n) = i - 1 /\ \A j \in 1 .. i - 1 : n[j] = e[j]
      BY <1>3, <2>1, <2>3, UptoType
    <2>5. c \in Seq(Edges) /\ Len(c) = i /\ \A j \in 1 .. i : c[j] = e[j]
      BY <1>3, <2>2, <2>3, UptoType
    <2>6. Param \in Edges /\ e[i] = Param
      BY <1>6, <1>10 DEF Edges
    <2>7. PICK d : d = Then(n, Len(n), Param)
      OBVIOUS
    <2>8. /\ d \in Seq(Edges) /\ Len(d) = Len(n) + 1 /\ d[Len(n) + 1] = Param
          /\ \A j \in 1 .. Len(n) : d[j] = n[j]
      BY <2>4, <2>6, <2>7, ChildType
    <2>9. \A j \in 1 .. Len(c) : d[j] = c[j]
      BY <2>3, <2>4, <2>5, <2>6, <2>8
    <2>10. d = c
      <3>1. Len(d) = Len(c)
        BY <2>3, <2>4, <2>5, <2>8
      <3> QED BY <2>5, <2>8, <2>9, <3>1, SamePlace
    <2>11. c \in nodes /\ c # << >>
      BY <1>2, <1>8, <2>2, <2>3, <2>5, NodesIff DEF TableInv
    <2>12. n \in nodes
      <3>1. Len(n) <= Len(routes[h].pattern) /\ \A j \in 1 .. Len(n) : Edge(routes[h].pattern[j]) = n[j]
        BY <1>1, <1>3, <2>3, <2>4
      <3> QED BY <1>2, <2>4, <3>1, NodesIff DEF TableInv, Passes
    <2>13. n \in DOMAIN param_names
      BY <2>7, <2>10, <2>11, <2>12 DEF TableInv, TrieInv
    <2>14. PICK k \in DOMAIN routes : FirstThrough(k, c)
      BY <2>7, <2>10, <2>13, ParamChild
    <2>15. IsNameAt(routes[k].pattern[i].name, e, i)
      BY <2>2, <2>6, <2>14 DEF IsNameAt, FirstThrough
    <2>16. routes[k].pattern[i].name = p[i].name
      BY <1>9, <2>15
    <2> QED BY <1>3, <2>15, <2>16, EdgeType
  <1>11. ASSUME NEW n \in DOMAIN ps
         PROVE  n \in {p[i].name : i \in {i \in 1 .. Len(p) : p[i].param}}
    <2>1. PICK i \in 1 .. Len(e) : IsNameAt(n, e, i)
      BY <1>2 DEF AreParams
    <2> QED BY <1>3, <1>9, <2>1
  <1>12. ASSUME NEW i \in 1 .. Len(p), p[i].param
         PROVE  p[i].name \in DOMAIN ps /\ ps[p[i].name] = segments[i]
    <2>1. p[i].name \in DOMAIN ps
      BY <1>2, <1>3, <1>10, <1>12 DEF AreParams
    <2>2. PICK j \in 1 .. Len(e) : IsNameAt(p[i].name, e, j) /\ ps[p[i].name] = segments[j]
      BY <1>2, <2>1 DEF AreParams
    <2>3. p[j].param /\ p[j].name = p[i].name /\ j \in 1 .. Len(p)
      BY <1>3, <1>9, <2>2
    <2>4. i = j
      BY <1>7, <1>12, <2>3
    <2> QED BY <2>1, <2>2, <2>4
  <1>13. DOMAIN ps = {p[i].name : i \in {i \in 1 .. Len(p) : p[i].param}}
    BY <1>11, <1>12
  <1>14. /\ h = answer.handler /\ p = routes[answer.handler].pattern /\ ps = answer.params
         /\ segments = request.segments
    BY <1>1, <1>2
  <1>15. \A x : x \in DOMAIN answer.params <=>
           x \in {routes[answer.handler].pattern[i].name :
                    i \in {i \in 1 .. Len(routes[answer.handler].pattern) :
                            routes[answer.handler].pattern[i].param}}
    <2>1. \A x : x \in DOMAIN ps <=> \E i \in 1 .. Len(p) : p[i].param /\ p[i].name = x
      BY <1>13
    <2> QED BY <1>14, <2>1
  <1>16. \A i \in 1 .. Len(routes[answer.handler].pattern) :
           routes[answer.handler].pattern[i].param =>
             answer.params[routes[answer.handler].pattern[i].name] = request.segments[i]
    BY <1>12, <1>14
  <1>17. DOMAIN answer.params =
           {routes[answer.handler].pattern[i].name :
              i \in {i \in 1 .. Len(routes[answer.handler].pattern) :
                      routes[answer.handler].pattern[i].param}}
    BY <1>15
  <1> QED BY <1>16, <1>17

\* A handler finds the parameters of its own route under their own names.
THEOREM ParamsCorrect == RouterSpec => []ParamsAsRegistered
  BY LookupInvariant, ParamsStep, PTL
=============================================================================
