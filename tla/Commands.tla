------------------------------ MODULE Commands ------------------------------
(***************************************************************************)
(* executeCommands of the agent (simpleGeneratorAgent.ts): shell commands  *)
(* that the models ask for are run in the sandbox in chunks, failed ones   *)
(* are rewritten by a model and tried again, and the ones that succeeded   *)
(* are kept in commandsHistory.  When the sandbox is created anew the      *)
(* history is replayed in it, in the background.                           *)
(*                                                                         *)
(* A run of executeCommands is a member of CommandRun: a request of one of *)
(* the callers, or the replay in sandbox number i.  What a command does is *)
(* left out: it succeeds or fails.                                         *)
(***************************************************************************)
EXTENDS Integers, Sequences, SequencesExt, FiniteSets, Lists

CONSTANTS
    CommandRequest,     \* calls of executeCommands by the operations
    Cmd,
    chunkSize,          \* of a request
    replayChunkSize,    \* of a replay
    MaxSandboxes        \* bound: sandboxes in a behaviour

ASSUME CommandsAssumption ==
    /\ IsFiniteSet(CommandRequest) /\ IsFiniteSet(Cmd)
    /\ chunkSize \in Nat \ {0} /\ replayChunkSize \in Nat \ {0}
    /\ MaxSandboxes \in Nat \ {0} /\ CommandRequest \cap (1 .. MaxSandboxes) = {}

VARIABLES
    commandsHistory,
    sandbox,            \* state.sandboxInstanceId
    commandRun,
    installed,          \* commands that have succeeded in each sandbox
    excused             \* history: commands a sandbox may lack although they are in
                        \* the history, because they failed there, were not tried
                        \* to the end, or were recorded by a run of an older sandbox

commandVars == <<commandsHistory, sandbox, commandRun, installed, excused>>

-----------------------------------------------------------------------------
Sandbox == 1 .. MaxSandboxes
CommandRun == CommandRequest \cup Sandbox

RunRecord == [pc : {"idle", "executing", "regenerating", "done"}, on : Sandbox,
              chunks : Seq(Seq(Cmd)),    \* the chunk being worked on and those to come
              tries : 0 .. 2, successful : Seq(Cmd)]

CommandsInit ==
    /\ commandsHistory = <<>>
    /\ sandbox = 1
    /\ commandRun = [r \in CommandRun |-> [pc |-> "idle", on |-> 1, chunks |-> <<>>,
                                           tries |-> 0, successful |-> <<>>]]
    /\ installed = [i \in Sandbox |-> {}]
    /\ excused = [i \in Sandbox |-> {}]

\* A list of commands cut into chunks.
Chunks(commands, size) ==
    [k \in 1 .. (Len(commands) + size - 1) \div size |->
        SubSeq(commands, (k - 1) * size + 1, IF k * size < Len(commands) THEN k * size ELSE Len(commands))]

\* The record of executeCommands(commands) when it is called with sandbox i.
Begun(commands, size, i) ==
    [pc |-> IF commands = <<>> THEN "done" ELSE "executing", on |-> i,
     chunks |-> Chunks(commands, size), tries |-> 0, successful |-> <<>>]

\* The commands a run has still to try.
Outstanding(r) == UNION {Range(commandRun[r].chunks[k]) : k \in DOMAIN commandRun[r].chunks}

-----------------------------------------------------------------------------
\* A caller runs commands in the sandbox there is.
ExecuteCommands(r, commands) ==
    /\ commandRun[r].pc = "idle"
    /\ commandRun' = [commandRun EXCEPT ![r] = Begun(commands, chunkSize, sandbox)]
    /\ UNCHANGED <<commandsHistory, sandbox, installed, excused>>

\* Mutant of Redeploy: the replay runs in the sandbox that is being replaced.
RedeployReplayingOld ==
    /\ sandbox < MaxSandboxes
    /\ sandbox' = sandbox + 1
    /\ commandRun' = [commandRun EXCEPT
                        ![sandbox + 1] = Begun(commandsHistory, replayChunkSize, sandbox)]
    /\ UNCHANGED <<commandsHistory, installed, excused>>

\* executeDeployment has created a sandbox and replays the history in it.
Redeploy ==
    /\ sandbox < MaxSandboxes
    /\ sandbox' = sandbox + 1
    /\ commandRun' = [commandRun EXCEPT
                        ![sandbox + 1] = Begun(commandsHistory, replayChunkSize, sandbox + 1)]
    /\ UNCHANGED <<commandsHistory, installed, excused>>

\* What succeeded is added to the history as it is when the run ends.
Record(r, successful) == commandsHistory' = commandsHistory \o successful

\* Where run r is now, in the sandbox it began with.
Proceed(r, pc, chunks, tries, successful) ==
    commandRun' = [commandRun EXCEPT ![r] = [pc |-> pc, on |-> commandRun[r].on, chunks |-> chunks,
                                             tries |-> tries, successful |-> successful]]

\* Run r is over with its current chunk, having had these successes in all: it
\* goes on to the next chunk or ends.
ChunkOver(r, successful) ==
    IF Len(commandRun[r].chunks) > 1
    THEN /\ Proceed(r, "executing", Tail(commandRun[r].chunks), 0, successful)
         /\ UNCHANGED commandsHistory
    ELSE /\ Proceed(r, "done", <<>>, commandRun[r].tries, successful)
         /\ Record(r, successful)

\* The commands of the current chunk at the positions S.
At(r, S) == {commandRun[r].chunks[1][k] : k \in S}

\* A sandbox is excused for the commands that failed in it, and the current one for
\* those that a run of another sandbox adds to the history in this step.
Excuse(r, failed) ==
    excused' = [i \in Sandbox |->
                  excused[i] \cup (IF i = commandRun[r].on THEN failed ELSE {})
                             \cup (IF i = sandbox /\ commandRun[r].on # sandbox /\ commandRun'[r].pc = "done"
                                   THEN Range(commandRun'[r].successful) ELSE {})]

\* executeCommands of the sandbox answers: the commands at the positions S
\* succeeded.  When others failed a model is asked for a correction.
ChunkExecuted(r) ==
    /\ commandRun[r].pc = "executing"
    /\ \E S \in SUBSET DOMAIN commandRun[r].chunks[1] :
         LET chunk == commandRun[r].chunks[1]
             successful == commandRun[r].successful \o Picked(chunk, S)
         IN /\ IF S = DOMAIN chunk
               THEN ChunkOver(r, successful)
               ELSE /\ Proceed(r, "regenerating", commandRun[r].chunks, commandRun[r].tries, successful)
                    /\ UNCHANGED commandsHistory
            /\ installed' = [installed EXCEPT ![commandRun[r].on] = @ \cup At(r, S)]
            /\ Excuse(r, At(r, DOMAIN chunk \ S))
    /\ UNCHANGED sandbox

\* Mutant of Retry: one try too many.
RetryOnceMore(r, chunk) ==
    IF chunk = <<>> \/ commandRun[r].tries = 3
    THEN ChunkOver(r, commandRun[r].successful)
    ELSE /\ Proceed(r, "executing", <<chunk>> \o Tail(commandRun[r].chunks), commandRun[r].tries + 1,
                    commandRun[r].successful)
         /\ UNCHANGED commandsHistory

\* One try of the current chunk has failed; chunk is what the next one runs.
Retry(r, chunk) ==
    IF chunk = <<>> \/ commandRun[r].tries = 2
    THEN ChunkOver(r, commandRun[r].successful)
    ELSE /\ Proceed(r, "executing", <<chunk>> \o Tail(commandRun[r].chunks), commandRun[r].tries + 1,
                    commandRun[r].successful)
         /\ UNCHANGED commandsHistory

\* generateSetupCommands answers with other commands, possibly none.
Regenerated(r, commands) ==
    /\ commandRun[r].pc = "regenerating"
    /\ Retry(r, commands)
    /\ Excuse(r, {})
    /\ UNCHANGED <<sandbox, installed>>

\* generateSetupCommands throws: the catch block keeps the chunk as it is, the
\* commands of it that have succeeded included.
RegenerationFails(r) ==
    /\ commandRun[r].pc = "regenerating"
    /\ Retry(r, commandRun[r].chunks[1])
    /\ Excuse(r, {})
    /\ UNCHANGED <<sandbox, installed>>

\* Mutant of ChunkThrows: an exception starts the tries afresh.
ChunkThrowsForever(r) ==
    /\ commandRun[r].pc = "executing"
    /\ commandRun' = [commandRun EXCEPT ![r].tries = 0]
    /\ excused' = [excused EXCEPT ![commandRun[r].on] = @ \cup Range(commandRun[r].chunks[1])]
    /\ UNCHANGED <<commandsHistory, sandbox, installed>>

\* The call of the sandbox throws after the commands at the positions S have
\* succeeded there.
ChunkThrows(r) ==
    /\ commandRun[r].pc = "executing"
    /\ \E S \in SUBSET DOMAIN commandRun[r].chunks[1] :
         /\ Retry(r, commandRun[r].chunks[1])
         /\ installed' = [installed EXCEPT ![commandRun[r].on] = @ \cup At(r, S)]
         /\ Excuse(r, At(r, DOMAIN commandRun[r].chunks[1] \ S))
    /\ UNCHANGED sandbox

\* Run r ends without recording anything.
Abandon(R) ==
    /\ commandRun' = [r \in CommandRun |->
                        IF r \in R THEN [pc |-> "done", on |-> commandRun[r].on, chunks |-> <<>>,
                                         tries |-> commandRun[r].tries,
                                         successful |-> commandRun[r].successful]
                        ELSE commandRun[r]]
    /\ excused' = [i \in Sandbox |->
                     excused[i] \cup UNION {Outstanding(r) : r \in {x \in R : commandRun[x].on = i}}]
    /\ UNCHANGED <<commandsHistory, sandbox, installed>>

\* The sandbox answers without results: executeCommands returns.
NoResults(r) == commandRun[r].pc = "executing" /\ Abandon({r})

ActiveRuns == {r \in CommandRun : commandRun[r].pc \in {"executing", "regenerating"}}

\* The Durable Object is evicted in the middle of some runs.
EvictRuns == ActiveRuns # {} /\ Abandon(ActiveRuns)

RunStep(r) ==
    \/ ChunkExecuted(r) \/ ChunkThrows(r) \/ NoResults(r)
    \/ RegenerationFails(r)
    \/ \E commands \in {<<>>} \cup {<<c>> : c \in Cmd} : Regenerated(r, commands)

CommandsNext ==
    \/ \E r \in CommandRequest, c, d \in Cmd : ExecuteCommands(r, <<c>>) \/ ExecuteCommands(r, <<c, d>>)
    \/ Redeploy
    \/ \E r \in CommandRun : RunStep(r)
    \/ EvictRuns

CommandsSpec == CommandsInit /\ [][CommandsNext]_commandVars

\* The sandbox and the models answer every call or it fails.
CommandsFairness == \A r \in CommandRun : WF_commandVars(RunStep(r))

-----------------------------------------------------------------------------
(* Properties.                                                             *)

CommandsTypeOK ==
    /\ commandsHistory \in Seq(Cmd)
    /\ sandbox \in Sandbox
    /\ commandRun \in [CommandRun -> RunRecord]
    /\ installed \in [Sandbox -> SUBSET Cmd] /\ excused \in [Sandbox -> SUBSET Cmd]

\* The sandbox in use has everything the history says was installed, or its
\* replay has still to come to it: except for commands that failed in this
\* sandbox, were given up, or were recorded by a run that had begun in an
\* earlier sandbox and so went past the replay.
HistoryInstalled ==
    Range(commandsHistory) \subseteq
        installed[sandbox] \cup excused[sandbox] \cup Outstanding(sandbox)

\* Every run ends, whatever fails and is rewritten on the way: as each one is
\* begun once, there comes a time when none is under way.
CommandRunsEnd == ActiveRuns # {} ~> ActiveRuns = {}
=============================================================================
