------------------------------- MODULE Sublists -------------------------------
(***************************************************************************)
(* The elements of a list at some of its places, in their order: what a    *)
(* loop or a comprehension with a condition keeps of the list.  It is not  *)
(* recursive, so that it can be reasoned about.                            *)
(***************************************************************************)
EXTENDS Naturals, FiniteSetsExt

(* The n-th place, and the list of what is there. *)
Nth(places, n) == Min({i \in places : Cardinality(places \cap 1..i) = n})

Those(list, places) == [n \in 1..Cardinality(places) |-> list[Nth(places, n)]]
=============================================================================
