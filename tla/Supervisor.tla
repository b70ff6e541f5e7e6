----------------------------- MODULE Supervisor -----------------------------
(***************************************************************************)
(* What the process monitor of a sandbox (container/process-monitor.ts)    *)
(* promises to the rest of the container: it keeps one command running, by *)
(* starting it again after exits and fatal errors, as often as they pay    *)
(* for and no more.  How a restart is scheduled, delayed and carried out,  *)
(* and that several may be under way at once, is not visible here;         *)
(* ProcessMonitor is shown to implement this specification.                *)
(***************************************************************************)
EXTENDS Integers

CONSTANT maxRestarts

VARIABLES
    errors,     \* distinct fatal errors reported
    exits,      \* exits noticed
    restarts,   \* restarts counted
    processes,  \* processes started
    up,         \* the supervisor reports the process as running
    over        \* the supervisor has ended

supervisorVars == <<errors, exits, restarts, processes, up, over>>

SupervisorInit ==
    /\ errors = 0 /\ exits = 0 /\ restarts = 0
    /\ processes = 1
    /\ up = TRUE
    /\ over = FALSE

\* Fatal errors are found in the output.
Report ==
    /\ errors' \in Nat /\ errors' > errors
    /\ UNCHANGED <<exits, restarts, processes, up, over>>

\* The exit of a process is noticed, which at least takes the service down.
NoticeExit ==
    /\ exits < processes
    /\ exits' = exits + 1
    /\ up' = FALSE
    /\ UNCHANGED <<errors, restarts, processes, over>>

\* The process is about to be replaced, or is in trouble.
GoDown ==
    /\ up /\ up' = FALSE
    /\ UNCHANGED <<errors, exits, restarts, processes, over>>

\* A restart is counted: it has a cause of its own, and when it exceeds the limit
\* that cause is a fatal error.
CountRestart ==
    /\ restarts < errors + exits
    /\ restarts < errors + maxRestarts
    /\ restarts' = restarts + 1
    /\ UNCHANGED <<errors, exits, processes, up, over>>

\* The process is started again: never while one is reported as running, and
\* once for every restart counted.
StartAgain ==
    /\ ~up /\ up' = TRUE
    /\ processes < restarts + 1
    /\ processes' = processes + 1
    /\ UNCHANGED <<errors, exits, restarts, over>>

\* The supervisor ends, even if a restart has just brought the process back.
End ==
    /\ over' = TRUE
    /\ UNCHANGED <<errors, exits, restarts, processes, up>>

SupervisorNext ==
    /\ ~over
    /\ Report \/ NoticeExit \/ GoDown \/ CountRestart \/ StartAgain \/ End

SupervisorSpec == SupervisorInit /\ [][SupervisorNext]_supervisorVars
=============================================================================
