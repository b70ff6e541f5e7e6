-------------------------- MODULE MCProcessMonitor --------------------------
(* Small instances of ProcessMonitor for TLC. *)
EXTENDS ProcessMonitor

CONSTANTS f1, f2

OneFatal == {f1}
TwoFatals == {f1, f2}
AnyFault == {"stubborn", "spawn", "error"}
Stubborn == {"stubborn"}
=============================================================================
