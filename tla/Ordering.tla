------------------------------- MODULE Ordering -------------------------------
(***************************************************************************)
(* ORDER BY and WHERE over rows: the elements of a set in the order of a   *)
(* relation, and the elements of a sequence at chosen places.  The library *)
(* sorts and selects by operators that a proof cannot look into; these are *)
(* functions of sets.                                                      *)
(***************************************************************************)
EXTENDS Integers, FiniteSets, Sequences

\* How many elements of S the relation R puts before x.
Ahead(S, R, x) == Cardinality({y \in S : <<y, x>> \in R})

\* The keys k and l first differ where k has the smaller number.
Precedes(k, l) ==
  \E i \in DOMAIN k : k[i] < l[i] /\ \A j \in DOMAIN k : j < i => k[j] = l[j]

\* The elements of S, each after those that R puts before it.
SortedBy(S, R) ==
  [k \in 1 .. Cardinality(S) |-> CHOOSE x \in S : Ahead(S, R, x) = k - 1]

\* The numbers in K in ascending order.
Ascending(K) == SortedBy(K, {p \in K \X K : p[1] < p[2]})

\* The elements of s at the places in K, in their order.
Only(s, K) ==
  LET places == Ascending(K)
  IN  [k \in 1 .. Cardinality(K) |-> s[places[k]]]

===============================================================================
