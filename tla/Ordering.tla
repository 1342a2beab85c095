------------------------------- MODULE Ordering -------------------------------
(***************************************************************************)
(* What Go's slices.Sort, sort.SliceStable and a filtering loop do to a     *)
(* slice: the elements of a finite set in an order, and the entries of a    *)
(* sequence at some of its positions.  An order is a set of pairs, so that  *)
(* lemmas can speak of every order.                                         *)
(***************************************************************************)
EXTENDS Integers, FiniteSets

\* The elements of a set in an order: <<x, y>> \in before if x comes before y.
Sorted(S, before) ==
    [i \in 1..Cardinality(S) |-> CHOOSE x \in S : Cardinality({y \in S : <<y, x>> \in before}) = i - 1]

Ascending(S) == Sorted(S, {p \in S \X S : p[1] < p[2]})

\* The entries of a sequence at some of its positions, in their order.
At(seq, positions) == LET order == Ascending(positions) IN [i \in DOMAIN order |-> seq[order[i]]]
=============================================================================
