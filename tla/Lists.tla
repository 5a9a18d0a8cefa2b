------------------------------- MODULE Lists -------------------------------
(***************************************************************************)
(* Lists that are made of the members of others, by position: what Iterator *)
(* filter and sort_by give, in a form that can be reasoned about.          *)
(***************************************************************************)
EXTENDS Naturals, Sequences, FiniteSets

\* The members of a finite set in the order that a set of pairs puts them.
Ranked(S, before) ==
    [k \in 1..Cardinality(S) |->
        CHOOSE i \in S : Cardinality({j \in S : <<j, i>> \in before}) = k - 1]

Earlier(S) == {p \in S \X S : p[1] < p[2]}

\* The members of a list at some of its positions, in their order.
Picked(list, kept) ==
    LET order == Ranked(kept, Earlier(kept))
    IN  [k \in 1..Cardinality(kept) |-> list[order[k]]]

\* A list in the order that a set of pairs of its positions puts them.
Sorted(list, before) ==
    LET order == Ranked(DOMAIN list, before)
    IN  [k \in 1..Len(list) |-> list[order[k]]]
=============================================================================
