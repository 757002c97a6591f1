------------------------------ MODULE Ordering ------------------------------
(***************************************************************************)
(* Lists that are put in order: the iteration of a BTreeMap, the sorting   *)
(* and thinning out of a Vec.  Stated by counting, without recursion.      *)
(***************************************************************************)
EXTENDS Naturals, Sequences, FiniteSets

\* The elements of a finite set, least first, for a strict total order of them.
Listed(S, before(_, _)) ==
  [r \in 1..Cardinality(S) |->
     CHOOSE x \in S : Cardinality({y \in S : before(y, x)}) = r - 1]

\* The elements of a finite set of numbers, as a BTreeMap lists its keys.
Ascending(S) == Listed(S, LAMBDA x, y : x < y)

\* The elements of s at some of its places, in the order of s.
Sublist(s, places) ==
  LET order == Ascending(places)
  IN  [i \in 1..Cardinality(places) |-> s[order[i]]]

=============================================================================
