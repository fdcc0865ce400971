----------------------------- MODULE MCService -----------------------------
(***************************************************************************)
(* Instances of Service for TLC: routes that shadow each other, name their *)
(* parameters differently or twice, or end on the way of another; paths    *)
(* that any of them matches, with empty parts; packets no client of this   *)
(* library sends.                                                          *)
(***************************************************************************)
EXTENDS Service

Static(n) == [param |-> FALSE, name |-> n]
Named(n) == [param |-> TRUE, name |-> n]

SomePatterns ==
  {<< >>, <<Static("a")>>, <<Static("a"), Static("b")>>, <<Named("x")>>, <<Named("y"), Static("b")>>,
   <<Named("x"), Named("x")>>}

SomePaths == {<<Empty, "a">>, <<"a", Empty, "b">>, <<Empty, "b", "a", Empty>>}

\* The segments of those paths and of the foreign packets.
SomeSegmentLists ==
  {<< >>, <<"a">>, <<"a", "b">>, <<"b", "a">>, <<"b">>}

Foreign(type, method, uri_path, uri_query, accepted) ==
  [type |-> type, class |-> "Request", code |-> method, uri_path |-> uri_path,
   uri_query |-> uri_query, content_format |-> None, accept |-> accepted, payload |-> None]

\* An option with a "/" in it, one that is no UTF-8 between two valid ones,
\* only such ones with an unknown format, and a method that no route can have.
SomeForeignPackets ==
  {Foreign("Confirmable", "Get", <<<<"a", "b">>>>, <<NotUtf8>>, <<0, 60>>),
   Foreign("NonConfirmable", "Put", <<<<"a">>, NotUtf8, <<"b">>>>, << >>, << >>),
   Foreign("Confirmable", "Get", <<NotUtf8>>, <<"k=v">>, <<7>>),
   Foreign("Confirmable", "Fetch", <<<<"a">>>>, << >>, << >>)}
=============================================================================
