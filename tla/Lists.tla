-------------------------------- MODULE Lists --------------------------------
(***************************************************************************)
(* What Python's sorted() and comprehensions make of a list, in a form the *)
(* provers can expand; to them SortSeq and SelectSeq are names only.       *)
(***************************************************************************)
EXTENDS Integers, Sequences, FiniteSets, SequencesExt

\* The place of x among S, from 1 on, and the elements of S in that order,
\* where Before is a strict total order.  A function of S, for TLC to compute
\* S once.
PlaceIn(S, Before(_, _), x) == 1 + Cardinality({y \in S : Before(y, x)})
Sorted(S, Before(_, _)) ==
  [T \in {S} |->
     [i \in 1..Cardinality(T) |-> CHOOSE x \in T : PlaceIn(T, Before, x) = i]][S]

\* [x for x in s if Test(x)]
Only(s, Test(_)) ==
  LET kept == Sorted({i \in DOMAIN s : Test(s[i])}, LAMBDA i, j : i < j)
  IN  [k \in DOMAIN kept |-> s[kept[k]]]
=============================================================================
