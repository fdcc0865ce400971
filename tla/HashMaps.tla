------------------------------ MODULE HashMaps ------------------------------
(***************************************************************************)
(* The three operations of std::collections::HashMap that the transport    *)
(* layer uses, on functions whose domain is the set of keys present.       *)
(***************************************************************************)
EXTENDS Functions

\* m maps some of the keys K to values of V.
IsMap(m, K, V) == DOMAIN m \subseteq K /\ m \in [DOMAIN m -> V]

EmptyMap == [k \in {} |-> k]

\* HashMap::insert: an existing entry for k is replaced.
Insert(m, k, v) == [x \in DOMAIN m \cup {k} |-> IF x = k THEN v ELSE m[x]]

\* HashMap::remove, for a whole set of keys, present or not.
RemoveAll(m, K) == Restrict(m, DOMAIN m \ K)
=============================================================================
