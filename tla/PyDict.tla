------------------------------- MODULE PyDict -------------------------------
(* Python dictionaries as functions on the set of their keys. *)

EmptyDict == [x \in {} |-> x]

\* d[k] = v
Put(d, k, v) == [x \in DOMAIN d \cup {k} |-> IF x = k THEN v ELSE d[x]]

\* d.pop(k, None)
Pop(d, k) == [x \in DOMAIN d \ {k} |-> d[x]]

\* d has keys in K and values in V
DictType(d, K, V) == DOMAIN d \subseteq K /\ \A k \in DOMAIN d : d[k] \in V

=============================================================================
