------------------------------- MODULE Lists -------------------------------
(***************************************************************************)
(* Filtering a list, by the positions that are kept: what filter() does in *)
(* the agent's commands and to the lines of a file.                        *)
(***************************************************************************)
EXTENDS Naturals, Sequences, FiniteSets

\* The members of the list at these positions, in their order.
Picked(list, S) ==
    [k \in 1 .. Cardinality(S) |-> list[CHOOSE j \in S : Cardinality({i \in S : i < j}) = k - 1]]
=============================================================================
