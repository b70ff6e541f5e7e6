---------------------------- MODULE MCDeployment ----------------------------
(* Small instances of Deployment for TLC. *)
EXTENDS Deployment, TLC

CONSTANTS c1, c2, c3, c4, f1, f2

Calls3 == {c1, c2, c3}
Calls4 == {c1, c2, c3, c4}
Files1 == {f1}
Files2 == {f1, f2}
NoFaults == {}
ServiceFaults == {"status", "create", "write", "timeout", "redeploy", "evict"}
QueueFaults == {"create"}
RaceFaults == {"status", "create", "timeout"}

CallSymmetry3 == Permutations(Calls3)
CallSymmetry4 == Permutations(Calls4)
=============================================================================
