------------------------------- MODULE GoMaps --------------------------------
(***************************************************************************)
(* Maps of Go as functions whose domain is the keys that have an entry.     *)
(***************************************************************************)

\* make(map[K]V)
NoEntries == [k \in {} |-> k]

\* m[k] = v
Put(m, k, v) == [x \in DOMAIN m \cup {k} |-> IF x = k THEN v ELSE m[x]]

\* m[k], or the value zero when there is no entry.
Get(m, k, zero) == IF k \in DOMAIN m THEN m[k] ELSE zero
=============================================================================
