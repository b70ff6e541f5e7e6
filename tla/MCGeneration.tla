---------------------------- MODULE MCGeneration ----------------------------
(* Small instances of Generation for TLC. *)
EXTENDS Generation, TLC

CONSTANTS l1, l2, n1, n2, m1, m2

Loops == {l1, l2}
OneName == {n1}
TwoNames == {n1, n2}
OneInput == {m1}
TwoInputs == {m1, m2}
NoFaults == {}
FailingModel == {"error", "nofiles", "evict"}
StopFaults == {"stop"}
StoppingUser == {"error", "nofiles", "stop", "evict"}

Symmetry == Permutations(Loops) \cup Permutations(TwoNames) \cup Permutations(TwoInputs)
=============================================================================
