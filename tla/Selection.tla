------------------------------- MODULE Selection -------------------------------
(***************************************************************************)
(* What retain, filter and filter_map do to a list: some of its elements,  *)
(* in their order.  They are given by the set of their places in the list. *)
(***************************************************************************)
EXTENDS Integers, FiniteSets, Functions

\* The members of a set of numbers in their order.
Ascending(S) ==
    CHOOSE s \in [1 .. Cardinality(S) -> S] :
        Range(s) = S /\ \A i, j \in DOMAIN s : i < j => s[i] < s[j]

Picked(s, places) == [k \in 1 .. Cardinality(places) |-> s[Ascending(places)[k]]]
==============================================================================
