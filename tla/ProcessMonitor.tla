--------------------------- MODULE ProcessMonitor ---------------------------
(***************************************************************************)
(* The process monitor that runs inside a sandbox container                *)
(* (container/process-monitor.ts) and keeps the development server of a    *)
(* generated app alive: it reads the child's output, restarts the child    *)
(* after crashes and fatal errors, and stops it when the monitor itself is *)
(* told to shut down (ProcessCommands.start in container/cli-tools.ts).    *)
(*                                                                         *)
(* Every restart() in progress is a member of Op; operation 0 is the one   *)
(* stop() of the graceful shutdown.  Code between two awaits is one        *)
(* action.  Timers carry no durations: any pending timer may be the next   *)
(* to fire.  Left out: stop(force = true), reachable only through a        *)
(* command that finds no active runner, the health check (it only logs),   *)
(* and the wording of the log lines.                                       *)
(***************************************************************************)
EXTENDS Integers, Sequences, FiniteSets

CONSTANTS
    Fatal,          \* fatal errors the child may print, no two of them duplicates
    Other,          \* any other output
    None,
    maxRestarts,    \* options.maxRestarts
    MAX_QUEUE_SIZE, \* chunks kept in processingQueue
    MaxChunks,      \* bound: chunks of output in a behaviour
    Faults          \* a subset of AllFaults

\* stubborn: a child outlives SIGTERM by more than killTimeout
\* spawn:    the operating system refuses to start a process
\* error:    the child process object reports an error of its own
AllFaults == {"stubborn", "spawn", "error"}

ASSUME FatalAssumption == IsFiniteSet(Fatal) /\ Other \notin Fatal /\ None \notin Fatal \cup {Other}
ASSUME BoundsAssumption == maxRestarts \in Nat /\ MAX_QUEUE_SIZE \in Nat \ {0} /\ MaxChunks \in Nat
ASSUME FaultsAssumption == Faults \subseteq AllFaults

VARIABLES
    state,            \* the monitor's view of the process
    child,            \* every process spawned; the last one is childProcess
    restartCount,
    restartTimer,     \* the timer held in this.restartTimer is pending
    orphans,          \* pending restart timers whose handle was overwritten
    op,
    processingQueue,
    isProcessing,
    immediate,        \* a processQueuedData callback is scheduled
    errorBuffer,      \* the beginning of the stderr text collected so far
    bufferTimeout,    \* the timer that parses errorBuffer is pending
    stored,           \* fatal errors in the error database
    ended,            \* the monitor program has exited
    chunks            \* output chunks so far, for the bound MaxChunks

control == <<state, child, restartCount, restartTimer, orphans, op>>
output == <<processingQueue, isProcessing, immediate, errorBuffer, bufferTimeout, stored>>
vars == <<control, output, ended, chunks>>

-----------------------------------------------------------------------------
States == {"stopped", "running", "stopping", "crashed"}

\* What is known of a spawned process: whether it lives, has exited or its exit
\* event was delivered; its exit code; whether a kill() of it succeeded.
Child == [life : {"alive", "dead", "reaped"}, code : {0, 1}, killed : BOOLEAN]
NewChild == [life |-> "alive", code |-> 0, killed |-> FALSE]

\* The await an operation is suspended at, and the child whose exit it awaits.
OpRecord == [pc : {"idle", "stopping", "wait", "stopped", "delay"}, target : Nat]
Idle == [pc |-> "idle", target |-> 0]
At(pc) == [pc |-> pc, target |-> 0]

\* Every restart timer becomes at most one operation (see RestartBudget).
Op == 0 .. maxRestarts + Cardinality(Fatal)
Restarts == Op \ {0}

Chunk == [stream : {"stdout", "stderr"}, text : Fatal \cup {Other}]

\* ProcessRunner.start has created the monitor and its start() has succeeded.
Init ==
    /\ state = "running"
    /\ child = <<NewChild>>
    /\ restartCount = 0
    /\ restartTimer = FALSE /\ orphans = 0
    /\ op = [o \in Op |-> Idle]
    /\ processingQueue = <<>> /\ isProcessing = FALSE /\ immediate = FALSE
    /\ errorBuffer = None /\ bufferTimeout = FALSE
    /\ stored = {}
    /\ ended = FALSE
    /\ chunks = 0

Current == Len(child)

-----------------------------------------------------------------------------
(* Scheduling restarts.                                                    *)

MayRestart == restartCount < maxRestarts

\* n assignments this.restartTimer = setTimeout(...): the last one is held, the
\* others, and the one held before, stay pending with nobody able to clear them.
ScheduleRestarts(n) ==
    IF n = 0 \/ ~MayRestart
    THEN UNCHANGED <<restartTimer, orphans>>
    ELSE /\ restartTimer' = TRUE
         /\ orphans' = orphans + (n - 1) + (IF restartTimer THEN 1 ELSE 0)

\* stop() with nothing left to do returns at once; restart() goes on to count
\* the restart and to wait for restartDelay.
StopReturned(o) ==
    IF o = 0
    THEN /\ ended' = TRUE
         /\ op' = [op EXCEPT ![o] = Idle]
         /\ UNCHANGED restartCount
    ELSE /\ restartCount' = restartCount + 1
         /\ op' = [op EXCEPT ![o] = At("delay")]
         /\ UNCHANGED ended

\* Entry of stop(), up to its first await.
StopCalled(o) ==
    IF state = "stopped"
    THEN StopReturned(o) /\ UNCHANGED state
    ELSE /\ state' = "stopping"
         /\ op' = [op EXCEPT ![o] = At("stopping")]
         /\ UNCHANGED <<restartCount, ended>>

\* A restart timer fires and calls restart().
RestartTimerFires(o) ==
    /\ o \in Restarts /\ op[o] = Idle
    /\ \A p \in Restarts : p < o => op[p] # Idle
    /\ \/ restartTimer /\ restartTimer' = FALSE /\ UNCHANGED orphans
       \/ orphans > 0 /\ orphans' = orphans - 1 /\ UNCHANGED restartTimer
    /\ StopCalled(o)
    /\ UNCHANGED <<child, output, chunks>>

\* SIGTERM, SIGINT or SIGHUP: gracefulShutdown calls runner.stop() once.
GracefulShutdown ==
    /\ op[0] = Idle
    /\ StopCalled(0)
    /\ UNCHANGED <<child, restartTimer, orphans, output, chunks>>

\* stop() after 'Process stopping...' is logged: clear the timer, ask the child
\* to terminate and wait for its exit.  kill() of a reaped child fails, and
\* then killed stays false; a child that was killed before is not waited for.
Terminate(o) ==
    /\ op[o].pc = "stopping"
    /\ restartTimer' = FALSE
    /\ IF child[Current].killed
       THEN /\ state' = "stopped"
            /\ op' = [op EXCEPT ![o] = At("stopped")]
            /\ UNCHANGED child
       ELSE /\ child' = [child EXCEPT ![Current].killed = child[Current].life # "reaped"]
            /\ op' = [op EXCEPT ![o] = [pc |-> "wait", target |-> Current]]
            /\ UNCHANGED state
    /\ UNCHANGED <<restartCount, orphans, output, ended, chunks>>

\* The killTimeout callback reads this.childProcess again, which may be a newer
\* process than the one that was asked to terminate.
ForceKill(o) ==
    /\ LET c == child[Current] IN
       child' = IF c.killed \/ c.life = "reaped" THEN child
                ELSE [child EXCEPT ![Current] =
                        [life |-> "dead", code |-> IF c.life = "alive" THEN 1 ELSE c.code,
                         killed |-> TRUE]]
    /\ state' = "stopped"
    /\ op' = [op EXCEPT ![o] = At("stopped")]
    /\ UNCHANGED <<restartCount, restartTimer, orphans, output, ended, chunks>>

\* Mutant of KillTimeout: the timer is armed only when the signal was delivered.
KillTimeoutIfSignalled(o) ==
    /\ op[o].pc = "wait"
    /\ child[op[o].target].killed
    /\ child[op[o].target].life = "alive" => "stubborn" \in Faults
    /\ ForceKill(o)

\* killTimeout passes before the exit event of the child.
KillTimeout(o) ==
    /\ op[o].pc = "wait"
    /\ child[op[o].target].life = "alive" => "stubborn" \in Faults
    /\ ForceKill(o)

\* Mutant of StopLogged: the restart is not counted.
StopLoggedUncounted(o) ==
    /\ op[o].pc = "stopped"
    /\ ended' = (o = 0)
    /\ op' = [op EXCEPT ![o] = IF o = 0 THEN Idle ELSE At("delay")]
    /\ UNCHANGED <<state, child, restartCount, restartTimer, orphans, output, chunks>>

\* 'Process stopped' is logged and stop() returns.
StopLogged(o) ==
    /\ op[o].pc = "stopped"
    /\ StopReturned(o)
    /\ UNCHANGED <<state, child, restartTimer, orphans, output, chunks>>

\* Mutant of Start: a process is started whether or not one is running.
StartAnyway(o) ==
    /\ op[o].pc = "delay"
    /\ op' = [op EXCEPT ![o] = Idle]
    /\ state' = "running" /\ child' = Append(child, NewChild)
    /\ UNCHANGED <<restartCount, restartTimer, orphans, output, ended, chunks>>

\* restartDelay is over: restart() calls start(), which only a running process stops.
Start(o) ==
    /\ op[o].pc = "delay"
    /\ op' = [op EXCEPT ![o] = Idle]
    /\ IF state = "running"
       THEN UNCHANGED <<state, child>>
       ELSE state' = "running" /\ child' = Append(child, NewChild)
    /\ UNCHANGED <<restartCount, restartTimer, orphans, output, ended, chunks>>

\* spawn() yields no pid: start() fails, and the error event that follows finds
\* no listener, which ends the monitor.
SpawnFails(o) ==
    /\ "spawn" \in Faults
    /\ op[o].pc = "delay" /\ state # "running"
    /\ op' = [op EXCEPT ![o] = Idle]
    /\ state' = "stopped"
    /\ ended' = TRUE
    /\ UNCHANGED <<child, restartCount, restartTimer, orphans, output, chunks>>

-----------------------------------------------------------------------------
(* The child process.                                                      *)

ChildExits(c) ==
    /\ child[c].life = "alive"
    /\ \E code \in {0, 1} :
         child' = [child EXCEPT ![c] = [@ EXCEPT !.life = "dead", !.code = code]]
    /\ UNCHANGED <<state, restartCount, restartTimer, orphans, op, output, ended, chunks>>

\* Operations whose stop() waits for child c to exit.
WaitingFor(c) == {o \in Op : op[o].pc = "wait" /\ op[o].target = c}

\* Mutant of ExitEvent: the restart budget is not looked at.
ExitEventUnbudgeted(c) ==
    /\ child[c].life = "dead"
    /\ child' = [child EXCEPT ![c].life = "reaped"]
    /\ LET crashed == state = "running" /\ child[c].code # 0 IN
       /\ state' = IF crashed THEN "crashed" ELSE "stopped"
       /\ restartTimer' = (crashed \/ restartTimer)
       /\ orphans' = IF crashed /\ restartTimer THEN orphans + 1 ELSE orphans
    /\ op' = [o \in Op |-> IF o \in WaitingFor(c) THEN At("stopped") ELSE op[o]]
    /\ UNCHANGED <<restartCount, output, ended, chunks>>

\* The exit handler, then the stop() calls that were waiting for this child: the
\* promises they await resolve in the same turn.  Unexpected is judged by the
\* state of the monitor, whichever child has exited.
ExitEvent(c) ==
    /\ child[c].life = "dead"
    /\ child' = [child EXCEPT ![c].life = "reaped"]
    /\ LET crashed == state = "running" /\ child[c].code # 0 IN
       /\ state' = IF crashed /\ WaitingFor(c) = {} THEN "crashed" ELSE "stopped"
       /\ ScheduleRestarts(IF crashed THEN 1 ELSE 0)
    /\ op' = [o \in Op |-> IF o \in WaitingFor(c) THEN At("stopped") ELSE op[o]]
    /\ UNCHANGED <<restartCount, output, ended, chunks>>

\* Mutant of ChildError: the error handler schedules a restart as well.
ChildErrorRestarts ==
    /\ "error" \in Faults
    /\ state' = "crashed"
    /\ ScheduleRestarts(1)
    /\ UNCHANGED <<child, restartCount, op, output, ended, chunks>>

\* The error event of the child process object.
ChildError ==
    /\ "error" \in Faults
    /\ state' = "crashed"
    /\ UNCHANGED <<child, restartCount, restartTimer, orphans, op, output, ended, chunks>>

-----------------------------------------------------------------------------
(* The output of the child.                                                *)

\* Mutant of ProcessStreamData: a full queue keeps growing.
ProcessStreamDataUnbounded(c) ==
    /\ chunks < MaxChunks
    /\ chunks' = chunks + 1
    /\ processingQueue' = Append(processingQueue, c)
    /\ isProcessing' = TRUE
    /\ immediate' = (immediate \/ ~isProcessing)
    /\ UNCHANGED <<control, errorBuffer, bufferTimeout, stored, ended>>

\* processStreamData: a full queue loses its oldest chunk.
ProcessStreamData(c) ==
    /\ chunks < MaxChunks
    /\ chunks' = chunks + 1
    /\ LET q == IF Len(processingQueue) >= MAX_QUEUE_SIZE THEN Tail(processingQueue)
                ELSE processingQueue
       IN processingQueue' = Append(q, c)
    /\ isProcessing' = TRUE
    /\ immediate' = (immediate \/ ~isProcessing)
    /\ UNCHANGED <<control, errorBuffer, bufferTimeout, stored, ended>>

\* handleDetectedError for the fatal errors in F: those not yet in the database
\* are stored, and each calls handleFatalError.
HandleFatalErrors(F) ==
    /\ stored' = stored \cup F
    /\ ScheduleRestarts(Cardinality(F \ stored))

Queued(stream) == {i \in DOMAIN processingQueue : processingQueue[i].stream = stream}

\* The fatal errors among the queued chunks of stdout.
FatalInStdout == {processingQueue[i].text : i \in Queued("stdout")} \ {Other}

\* Mutant of ProcessQueuedData: isProcessing is not reset.
ProcessQueuedDataStuck ==
    /\ immediate /\ immediate' = FALSE
    /\ processingQueue' = <<>>
    /\ HandleFatalErrors(FatalInStdout)
    /\ UNCHANGED <<state, child, restartCount, op, ended, chunks, isProcessing,
                   errorBuffer, bufferTimeout>>

\* processQueuedData empties the queue without yielding.  A chunk of stdout is
\* parsed at once.  stderr is collected in errorBuffer until it pauses; the
\* pattern of a fatal error is anchored, so only the text the buffer begins
\* with can be recognised as one.
ProcessQueuedData ==
    /\ immediate /\ immediate' = FALSE
    /\ processingQueue' = <<>> /\ isProcessing' = FALSE
    /\ bufferTimeout' = (bufferTimeout \/ Queued("stderr") # {})
    /\ IF errorBuffer # None \/ Queued("stderr") = {}
       THEN UNCHANGED errorBuffer
       ELSE \E i \in Queued("stderr") : /\ \A j \in Queued("stderr") : i <= j
                                       /\ errorBuffer' = processingQueue[i].text
    /\ HandleFatalErrors(FatalInStdout)
    /\ UNCHANGED <<state, child, restartCount, op, ended, chunks>>

\* stderr has paused: the buffer is parsed as one error.
BufferTimeout ==
    /\ bufferTimeout /\ bufferTimeout' = FALSE
    /\ errorBuffer' = None
    /\ HandleFatalErrors({errorBuffer} \ {Other, None})
    /\ UNCHANGED <<state, child, restartCount, op, ended, chunks, processingQueue,
                   isProcessing, immediate>>

-----------------------------------------------------------------------------
OpStep(o) == Terminate(o) \/ KillTimeout(o) \/ StopLogged(o) \/ Start(o) \/ SpawnFails(o)
ChildStep == \E c \in 1 .. Len(child) : ChildExits(c) \/ ExitEvent(c)

Next ==
    /\ ~ended
    /\ \/ \E o \in Op : RestartTimerFires(o) \/ OpStep(o)
       \/ GracefulShutdown
       \/ ChildStep
       \/ ChildError
       \/ \E c \in Chunk : ProcessStreamData(c)
       \/ ProcessQueuedData
       \/ BufferTimeout

Spec == Init /\ [][Next]_vars

\* Timers fire, log writes complete, and a child that was sent SIGTERM exits.
Fairness ==
    /\ \A o \in Op : WF_vars(~ended /\ OpStep(o))
    /\ WF_vars(~ended /\ \E o \in Op : RestartTimerFires(o))
    /\ WF_vars(~ended /\ \E c \in 1 .. Len(child) : ExitEvent(c) \/ (child[c].killed /\ ChildExits(c)))

FairSpec == Spec /\ Fairness

-----------------------------------------------------------------------------
(* Properties.                                                             *)

TypeOK ==
    /\ state \in States
    /\ child \in Seq(Child) /\ Len(child) >= 1
    /\ restartCount \in Nat
    /\ restartTimer \in BOOLEAN /\ orphans \in Nat
    /\ op \in [Op -> OpRecord]
    /\ processingQueue \in Seq(Chunk) /\ Len(processingQueue) <= MAX_QUEUE_SIZE
    /\ isProcessing \in BOOLEAN /\ immediate \in BOOLEAN
    /\ errorBuffer \in Fatal \cup {Other, None} /\ bufferTimeout \in BOOLEAN
    /\ stored \in SUBSET Fatal
    /\ ended \in BOOLEAN
    /\ chunks \in 0 .. MaxChunks

\* restartCount < maxRestarts is tested when a restart is scheduled and the counter
\* moves when the restart runs, so timers that pile up overshoot the limit: by no
\* more than one restart per distinct fatal error.
RestartBudget == restartCount <= maxRestarts + Cardinality(Fatal)

\* No process is spawned that is not the first one or a counted restart.
SpawnsCounted == Len(child) <= restartCount + 1

\* Where every restart comes from: those done, under way and scheduled are no
\* more than the fatal errors reported plus the exits seen, nor than the fatal
\* errors plus maxRestarts; and every spawn is paid for by a counted restart
\* that has not been waiting for its delay since.  This is RestartBudget and
\* SpawnsCounted made inductive.
Delaying == {o \in Restarts : op[o].pc = "delay"}
Stopping == {o \in Restarts : op[o].pc \in {"stopping", "wait", "stopped"}}
Reaped == {c \in 1 .. Len(child) : child[c].life = "reaped"}
Pending == orphans + (IF restartTimer THEN 1 ELSE 0)
Ordered == restartCount + Cardinality(Stopping) + Pending
RestartAccounting ==
    /\ Ordered <= Cardinality(stored) + Cardinality(Reaped)
    /\ Ordered <= Cardinality(stored) + maxRestarts
    /\ Len(child) + Cardinality(Delaying) <= restartCount + 1
    /\ op[0].pc # "delay"

\* Until a fatal error is reported, crashes alone drive restarts: at most one
\* process is alive and at most one restart is under way.
Alive == {c \in 1 .. Len(child) : child[c].life = "alive"}
RestartsInProgress == {o \in Restarts : op[o] # Idle}
OneChildUntilFatal ==
    stored = {} => /\ Cardinality(Alive) <= 1
                   /\ Cardinality(RestartsInProgress) <= 1

\* Output never sits in the queue, nor stderr text in the buffer, without a
\* callback scheduled to process it.
NoStrandedOutput ==
    /\ processingQueue # <<>> => immediate
    /\ errorBuffer # None => bufferTimeout

\* A graceful shutdown ends, whatever restarts, exits and kill timeouts it meets.
ShutdownEnds == (op[0] # Idle) ~> ended

\* A scheduled restart ends with a process that was started, unless the monitor
\* is shut down: overlapping restarts may cancel each other's timers and refuse
\* each other's start, but never all of them.
RestartHappens == (restartTimer \/ orphans > 0) ~> (state = "running" \/ ended)

\* The monitor implements the abstract supervisor: with timers, overlapping
\* restarts and late exit events hidden, it starts processes only while none is
\* reported as running and only as often as exits and fatal errors pay for.
Supervised == INSTANCE Supervisor WITH
    errors <- Cardinality(stored), exits <- Cardinality(Reaped), restarts <- restartCount,
    processes <- Len(child), up <- (state = "running"), over <- ended
ImplementsSupervisor == Supervised!SupervisorSpec

\* stop(): "Stop monitoring and terminate the process".  When the graceful
\* shutdown is over no child is left alive.
ShutdownTerminates == [][op[0] # Idle /\ ended' => Alive' = {}]_vars
=============================================================================
