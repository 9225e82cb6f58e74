------------------------------ MODULE NodeList ------------------------------
(***************************************************************************)
(* The lists of buffer nodes of isp_list.c as sequences, head first.       *)
(***************************************************************************)
EXTENDS Integers, Sequences, FiniteSets

\* The nodes in a list.
Elems(s) == {s[i] : i \in 1..Len(s)}

\* How often a node is in a list.
Occurrences(s, n) == Cardinality({i \in 1..Len(s) : s[i] = n})

\* No node is linked twice.
Distinct(s) == \A i, j \in 1..Len(s) : s[i] = s[j] => i = j

\* The nodes of T, a set of nodes of the list s, in the order they have in s.
SubList(s, T) ==
  {r \in [1..Cardinality(T) -> T] :
     /\ T = Elems(r)
     /\ \A i, j \in 1..Cardinality(T) : i < j =>
          \E a, b \in 1..Len(s) : a < b /\ s[a] = r[i] /\ s[b] = r[j]}

\* The list s without its i-th entry.
Without(s, i) == [j \in 1..(Len(s) - 1) |-> IF j < i THEN s[j] ELSE s[j + 1]]
=============================================================================
