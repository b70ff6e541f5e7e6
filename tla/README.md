# Verification of Orange Build

Orange Build turns a user's request into a deployed web application: a chat
front end talks over a WebSocket to one Durable Object per application, the
code generator agent, which plans the application in phases, generates the
files of each phase with language models, runs them in a sandbox container,
reviews and repairs them and deploys the result. This directory holds TLA+
models of the parts of it that are concurrent, stateful or failure-prone, the
TLC configurations that check them on small instances, and TLAPS proofs of the
most important properties for every instance.

## Inventory

| Part | State | Operations | What is hard |
|---|---|---|---|
| Generation state machine (`worker/agents/core/simpleGeneratorAgent.ts`, `websocket.ts`) | persisted `generatedPhases`, `pendingUserInputs`, `phasesCounter`, `mvpGenerated`, `shouldBeGenerating`; in memory `isGenerating` and the suspended loops | GENERATE_ALL, STOP, RESUME, USER_SUGGESTION; plan, implement, finalize, review | handlers interleave at every await; requests arrive during model calls; the object may be evicted between two steps |
| Sandbox deployment (`simpleGeneratorAgent.ts`) | `currentDeploymentPromise`, `sandboxInstanceId`, `generatedFilesMap`, health intervals | `deployToSandbox`, `executeDeployment`, health check | one-slot queue, 60 s race, retry, redeploys outside the queue |
| Issues (`simpleGeneratorAgent.ts`, `websocket.ts`) | `clientReportedErrors`, the error database of the instance | fetch, reset, client report | read before an await, cleared after it by calls nobody awaits |
| Conversation (`simpleGeneratorAgent.ts`, `UserConversationProcessor.ts`) | `conversationMessages` | user turn, memo, tidying | the list is replaced by a snapshot read before the model call |
| Setup commands (`simpleGeneratorAgent.ts`, `projectsetup.ts`) | `commandsHistory` | `executeCommands`, replay in a new instance | chunks, rewritten commands, runs that outlive their instance |
| Answers as streams (`streaming-formats/scof.ts`, `inferutils`, `PhaseImplementation.ts`) | parser buffers, completed files | chunk, end of stream, retry, save | lines cut anywhere, a retry in the middle of a block, patches of patched files |
| Sandbox client (`worker/services/sandbox`) | template and instance directories, ports, metadata and its cache | create, template details, status, logs, errors | agents share a container; ports chosen before they are bound; cache without expiry |
| Process monitor (`container/process-monitor.ts`) | process state, restart counter and timers, output queue | start, stop, restart, exit and error handlers | timers racing exits, restart limits, bounded queues |
| Process log (`container/process-monitor.ts`, `cli-tools.ts`) | log file, lock file | append, trim, `logs get [--reset]`, clean-up | two processes on one file, one of them killed by a timeout |
| Error and log store (`container/storage.ts`) | SQLite tables, sequence counter | store, query, clear, cleanup | uniqueness, retries |
| Sessions (`worker/services/auth`) | sessions of a user | login, refresh, clean-up | read, then delete one by one |
| Chat page (`src/routes/chat/hooks/use-chat.ts`) | socket, retry counter and timers, connection status | connect, open, time-out, error, close, retry, unmount | three handlers report one failure, old sockets report late |
| Diff formats (`worker/agents/diff-formats`) | none | apply search/replace and unified diffs | matching strategies, ambiguity |

The full list, with what is left out and why, is under `components` in
`PROJECT.json`; the places where the code can go wrong in ways a test would
hardly reach are under `hazards`, each at its line.

How the parts interact. The WebSocket handler calls into the agent, whose state
machine calls the language models (external), saves files in the agent's state
and calls `deployToSandbox`; that calls the sandbox client, a separate service
that runs one container instance per application. Inside the container the
process monitor runs the development server, and stores the errors it sees in a
SQLite file that the sandbox client reads through the command line. The agent
fetches those errors (`fetchAllIssues`) before it plans or reviews. The agent is
a single-threaded Durable Object: its handlers interleave only at an `await`,
but there they do, and so do timers and interval callbacks. The container's
monitor is a Node program with the same discipline.

## Modules

Common conventions: code between two awaits (or in one event-loop callback) is
one action; a fault is enabled by a member of the constant `Faults`, so that one
module serves the calm and the failing instances; a definition called `Mutant:
...` in a comment is a deliberately wrong version of the definition below it,
kept to show which property notices the error. Constants that only bound the
state space are marked `bound` where they are declared.

### Deployment — `simpleGeneratorAgent.ts`

| Model | Code |
|---|---|
| `call[c].frame` | an invocation of `deployToSandbox`: `waiting` at line 1471, `racing` in `Promise.race`, `returned`, `threw`; `direct` is an `executeDeployment` started by a health check, which has no frame |
| `call[c].exec` | its `executeDeployment`, by the await it is suspended at: status check, `createInstance`, `writeFiles`, the nested retry |
| `currentDeploymentPromise` | the slot; a promise is named by the call that created it |
| `sandboxInstanceId`, `generatedFilesMap` | the persisted state |
| `content`, `instances` | the sandbox service, external: what has been written to each instance |
| `monitored`, `ticks` | armed health intervals, and checks awaiting an answer |
| `DeployToSandbox`, `ProceedAfterWait`, `DeploymentSettled`, `DeploymentTimedOut` | the four segments of `deployToSandbox` |
| `StatusPassed/Failed`, `InstanceCreated`, `CreateFailed`, `FilesWritten`, `RetrySettled` | the segments of `executeDeployment` |
| `HealthTick/Passed/Failed` | the 2 s interval |
| `Evict` | the Durable Object leaves memory: promises and timers vanish |

Frame and execution are separate because the 60 s timer rejects the frame while
the execution goes on. The reactions of those who await a promise directly run
before the `finally` of the call racing it, which is one microtask further away;
`DeploymentSettled` therefore waits until nobody waits on `c`. The early return
of `executeDeployment` for a missing template is not modelled: `templateDetails`
starts as an empty object, so the condition never holds.

### Generation — `simpleGeneratorAgent.ts`, `websocket.ts`

| Model | Code |
|---|---|
| `generatedPhases`, `pendingUserInputs`, `phasesCounter`, `mvpGenerated`, `shouldBeGenerating` | fields of the persisted state |
| `isGenerating` | the in-memory flag every starter tests |
| `loop[l].pc` | where a running `generateAllFiles` is suspended: fetching issues and planning (`gen_issues`, `gen_llm`), `impl`, `final`, `review`, `fix`, and `closing`, the database write at the end |
| `Generating`, `Implementing`, `Finalizing`, `Reviewing`, `Closing` | what the states of the machine do before their first await |
| `GenerateAllMessage`, `StopMessage`, `ResumeMessage`, `UserSuggestion` | the WebSocket messages |
| `UserInputAccepted` | the rest of `handleUserInput`, after the conversational model has answered |
| `sent`, `accepted`, `planned` | history for the properties |

What the models answer is nondeterministic: any phase name, last or not, no
files at all (`nofiles`), an exception (`error`), issues or none. `currentPhase`
is left out because no other handler can see it set; the fallback for a missing
`phaseConcept` (lines 503-514) is dead code.

### ProcessMonitor — `container/process-monitor.ts`, `cli-tools.ts`

| Model | Code |
|---|---|
| `state`, `restartCount` | the fields of that name |
| `child` | every process spawned; the last is `this.childProcess`. A child is alive, dead, or reaped (its exit event was delivered); `killed` is Node's flag, set when a signal was sent successfully |
| `restartTimer`, `orphans` | the timer held in `this.restartTimer`, and timers still pending whose handle was overwritten |
| `op[o]` | a `restart()` in progress, by its await; operation 0 is the `stop()` of the graceful shutdown |
| `processingQueue`, `isProcessing`, `immediate` | the output queue and its `setImmediate` |
| `errorBuffer`, `bufferTimeout` | stderr text waiting for a pause |
| `stored` | fatal errors in the error database |

The output of a child is abstracted to fatal errors, no two of which count as
duplicates, and `Other`. The pattern of a fatal error is anchored, so of the
collected stderr text only the beginning matters. Timers carry no durations.
Left out: `stop(force)`, the health check, which only logs, statistics, the
truncation of the buffer to 64 KB and failures of the store. The log file is
`ProcessLog`.

### Supervisor — what the process monitor promises

`Supervisor` is the abstract specification: reported errors, noticed exits,
counted restarts, started processes, whether the process is reported as running
and whether the supervisor has ended. A restart needs a cause of its own, beyond
the limit a fatal error; a process is started only while none is reported as
running, and once per counted restart. `ProcessMonitor` implements it
(`ImplementsSupervisor`) with the mapping `errors` = number of stored fatal
errors, `exits` = reaped children, `restarts` = `restartCount`, `processes` =
children spawned, `up` = (`state = "running"`), `over` = `ended`. Timers,
overlapping restarts, queue and buffer are hidden. `End` may leave the process
up, because a restart under way may bring it back just before the exit.

### The components around them

None of these shares state with another; `MCServices` puts them into one
specification in which a behaviour is about one of them. `Lists` is the filtering
that `Commands` and `FileStream` have in common.

- `Issues`. A reader is a running `generateAllFiles`, with the reading its state
  does: for planning, with the cached analysis (which clears the errors while it
  reads) or fresh, followed by a `resetIssues` that nobody awaits. `sent` counts
  clearing calls on their way to an instance, `answered` those that have still
  to empty `clientReportedErrors`. A report replaces the list. A failing read
  starts a redeploy, after which errors go to another database. A clearing by the
  reading itself is two steps, `CacheClears` at the database and `CacheCleared` in
  the agent, because `EvictReaders` may fall between them: the Durable Object then
  forgets what it had found (`dropped`), its readers begin anew, and what it had
  sent may still arrive (`abandoned`, `AbandonedClears`).
- `Conversation`. A turn is a `handleUserInput`: its snapshot `past`, its id and
  the await it is at. `Answered` and `AnswerFailed` replace the list by the
  snapshot and the exchange, as both paths of `UserConversationProcessor` do;
  `Broadcast` appends a memo; `MigrateStateIfNeeded` removes duplicates, sorts by
  id, and drops from a long list what reads like a memo. The code tells memos by
  words in the text, so `memoText` is a property of a message and not of its role:
  all memos have it, the users' messages of the turns in `Quoting`, and any answer.
- `Commands`. A run is a call of `executeCommands`, or the replay in a new
  instance, with its chunks, the try it is at and what has succeeded. Chunks may
  fail in any part, be rewritten into any short list of commands, or throw; a
  response without results ends the run without recording anything.
- `Sandbox`. `createInstance` in its awaits (check template, unzip file by file,
  move, port, install, start, expose and store metadata), `getTemplateDetails`
  as far as it unpacks, `getInstanceStatus` with the cache. Any of these may
  fail; the metadata file may be left by a creation that fails after writing it,
  and a metadata file that cannot be read is answered like one that is not there
  (`misread`). Servers start to listen late, go down and come back; the container
  may be lost; clients are evicted with their caches.
- `Sessions`. Rows ordered by last use; a login reads the list, deletes from it
  one by one and inserts; a refresh finds its row and updates it later.
- `ChatClient`. Every socket ever made with its `readyState`; the refs
  `connectionStatus`, `retryCount`, `retryTimeouts`; the socket in the React
  state and the one that the rendered effect will close. `SetupFails` is a
  `new WebSocket` that throws. Without a URL `connectWithRetry` does nothing, and
  no `Connect` happens.
- `FileStream`. The answer is a sequence of lines made of the pieces the parser
  tells apart (halves of a command, end marker, white space, text, added line);
  a line of a file may begin with the end marker and go on (`Lookalikes`, such as
  `EOFError`), while a line of a diff begins with `+`.
  `StreamEvent` is an event of the stream in `infer()`, which hands on what has
  collected; `ParseStreamingChunks` and its helpers are the SCOF parser, a token
  at a time: a newline completes a line (`ProcessToken`), and `CloseAtMarker` is
  the early test for an end marker at the end of a chunk, which does not know
  whether the line goes on. The empty string that
  `split` leaves behind a final newline is a blank line, which the parser ignores.
  `Save` is what becomes of the closed blocks. `AttemptFails` is a broken stream:
  the answer starts anew and the parser stays as it is. `ahead` and `script` are
  the reference, what the lines mean when read one by one: as far as received, and
  as far as handed on; `ReadCut` notes there that a look-alike was cut behind the
  marker. Left out are lines of a file that read like a command or an install
  command, behind such a cut too. `ApplyDiff` never fails in the model, so
  the fallbacks for a diff that cannot be applied (`scof.ts` 473-476,
  `FileProcessing.ts` 55-57) are not modelled.
- `ProcessLog`. Files are inodes, so that an append that has opened the log
  before a rename writes into the renamed file. `OpenLog` and `WriteLine` are the
  two halves of `appendFile`, `ReadForTrim` and `WriteTrimmed` of the trimming;
  the reader has one action for each call it awaits.

Each history variable (`raced`, `dropped`, `exposed`, `excused`, `spoiled`,
`disturbed`, `clashed`, `misread`, `overtaken`, `late`, `cut`, and `spoilt` and
`lostSync` of a `Script`) names one overlap or failure in which the code does
lose something. The properties that account for what is lost (`ErrorsAccounted`,
`LostOnlyByOverlap`, `CreatedComplete`, `PreviewShowsOwnApp`, `NoFalseAlarm`,
`AnswerAsWritten`, `LogLinesAccounted`, `LockGivenBack`) therefore excuse
exactly the loss that is the hazard itself, and do not catch it: they say that
nothing is lost in any other way. Where a comment of the code denies the loss,
it is among the disagreements listed below the runs.

## Runs

| Run | Instance | What it shows |
|---|---|---|
| `deploy_calm` | 4 calls, 1 file, no faults | concurrent callers share one instance, find their files in it, and every call returns |
| `deploy_faults` | 3 calls, 3 instances, 2 health checks at a time, every fault, symmetric calls | types; the slot never outlives its race; waiters are behind a started execution; one dead instance is redeployed no more often than it had checks in flight |
| `deploy_overlap` | 3 calls, no faults | **violated:** two callers that waited for the same deployment start theirs together, against the comment at line 114 |
| `deploy_selfwait` | 3 calls, failing creation | **violated:** a failed deployment awaits the promise it is computing, and callers behind it never proceed |
| `gen_machine` | 2 loops, 1 name, 2 inputs, `MAX_PHASES` 2, `Recharge` 3, 2 review cycles; errors, empty plans, evictions | only the last phase open, the phase budget, loops end |
| `gen_stopped` | 2 loops, 2 names, 1 input, `MAX_PHASES` 1; also STOP | with two loops writing the history concurrently it stays append-only and is finalized once |
| `gen_overlap` | 2 loops, STOP | **violated:** after STOP and RESUME two loops run, against the comment at `websocket.ts` 22 |
| `gen_lost_request` | 2 loops, 1 input, no faults | **violated:** a request accepted during a planning call is dropped without having been planned |
| `monitor` | 2 fatal errors, `maxRestarts` 1, queue of 1, 2 chunks, every fault | overlapping restarts stay in their budget, spawn only counted processes and one at a time before a fatal error; output is never stranded; shutdowns end, restarts happen; the monitor implements `Supervisor` |
| `monitor_stop` | 1 fatal error, children that outlive SIGTERM | **violated:** the SIGKILL fallback tests a flag the SIGTERM has set, so the shutdown leaves the child alive |
| `services` | see below | what is lost is lost only by the overlaps and failures named; what must end ends |
| `stream_patch` | 1 new file, 6 lines, 1 attempt, no slices | **violated:** a file that one answer writes and patches, or patches twice, is saved without one of the changes |

What `services` checks, by component:

| Component | Bounds | Properties |
|---|---|---|
| `Issues` | 2 readers, an error of each kind, 3 readings, 2 instances | `ErrorsAccounted`: an error leaves the stores unread only through the gap between a reading and its clearing, an unreadable database, a later report, or an eviction between a clearing and the agent's resumption |
| `Conversation` | 3 turns, two of them quoting, 1 memo, clean-up above 3 messages | `AnswersInContext`: the list is in order, and every answer, unless it reads like a memo, stands right behind its question and behind the dialogue the model was given with it; `LostOnlyByOverlap`: a message is lost only when it entered during another turn or reads like a memo |
| `Commands` | 2 requests, 1 command, 2 sandboxes, chunks of 1 and 2 | `HistoryInstalled`: the sandbox in use has, or is about to get, what the history says; `CommandRunsEnd`: every run ends, through failed chunks, regenerations, throws, evictions and redeployments |
| `Sandbox` | 2 creations, a template of 2 files, there from the start or not, 2 ports, 1 loss | `CreatedComplete`, `PreviewShowsOwnApp`; `NoFalseAlarm`: a status check fails only after a loss or a failing read of the metadata; `CreatesAnswered` |
| `Sessions` | 2 concurrent logins, 4 in all, 1 refresh, limit 1 | `SessionsLimited`: beyond the limit at most one session per request that may be logging in and one per clean-up that failed (one login at a time already reaches `maxSessions + 1`); `MostRecentKept`: concurrent clean-ups do not delete below it |
| `ChatClient` | 2 retries, 5 sockets | `RetriesBounded`, `NeverStranded`, `OnlyOwnSocket` |
| `FileStream` | 2 files, 5 lines, chunks of at most 2 tokens, 2 attempts | `AnswerAsWritten`: files and install commands are those written, however the stream is cut or broken, except for blocks that a retry runs together or a cut look-alike of the marker closes, and for files patched after the same answer wrote them |
| `ProcessLog` | 2 lines, 2 readers, trimming from the first append on | `LogLinesAccounted`, `LockGivenBack` |

The six `violation` runs are findings: `PROJECT.json` quotes the line each
contradicts. All other properties hold. Smaller disagreements met while reading,
which need no run: the connection time-out of the chat is 30 s where its comment
says 10 (`use-chat.ts` 1007), and the first delay is 2 s where the comment says
1 (1107); blank lines inside a block are dropped (`scof.ts` 538); the retries of
`storage.ts` wrap methods that catch their own errors and so never happen.

The exceptions that the properties of `services` make are disagreements too, where
a comment promises more than the code does:

- the clean-up of a long conversation is to "keep all real conversations"
  (`simpleGeneratorAgent.ts` 1144), but tells memos by words in the text (1126-1135),
  so a question or an answer that quotes them goes (`exposed`);
- "max sessions per user" (`sessionService.ts` 22): the clean-up runs before the new
  session is inserted (261), so one login after another leaves `maxSessions + 1`, and
  every login under way at the same time one more (`SessionsLimited`);
- the SCOF parser "handles arbitrary chunk boundaries" (`scof.ts` 12), but a line
  such as `EOFError` cut behind `EOF` closes its file (96-99), and the rest of the
  file is lost (`spoilt`);
- "check if instance exists by checking metadata" (`sandboxSdkClient.ts` 992): the
  cache goes on saying yes of an instance lost with its container, and a file that
  cannot be read (197-199, 1026-1032) says no of one that is there (`misread`);
- a reset of the log is called atomic (`cli-tools.ts` 818), but a line appended
  between the rename and `writeFile('')` is lost; a trim that is to "keep only
  recent entries" (`process-monitor.ts` 133) overwrites the most recent ones, those
  appended while it ran (`late`);
- "failed permanently after maxRetries + 1 attempts" (`use-chat.ts` 1093): a
  time-out is charged twice, so fewer attempts have been made.

Why the bounds are enough. Races on the deployment slot need an owner, a waiter
and a third call to observe the slot (3 calls); overtaking among waiters needs
two waiters behind one owner and a newcomer (4). An instance per call is all
that can be created without a further call. `HealthRedeploysBounded` is about
health checks that overlap, so `MaxTicks` is 2 in its run, and a lost instance
is there redeployed twice. Two loops suffice for an overlap because STOP must be
repeated for each further one, and the budget `Recharge` 3 with two inputs lets
a request arrive while another one's phases are being worked off. Two fatal
errors and one restart are the least that let timers pile up and overshoot the
limit; there the bound of `RestartBudget` is reached. The properties of
`monitor` have also been checked with a queue of 2 and 3 chunks (1.34 million
states). In `services` there are two of everything that races, three turns so
that one can begin from what two others left, sockets enough for the double
retries of a time-out and a reconnection after them, and lines enough for a
write, its end and a patch. A lookup unpacks the template as a creation does and
leaves it behind; its effect on creations that come later is there from the
start in half of the initial states, and `SandboxSpec` has also been checked
with a lookup beside the two creations, and `FileStream` with chunks of 3
tokens. `ProcessLog` has also been checked with 3 lines. Symmetry is used only
where no liveness is checked. Deadlock checking is off throughout: calls, inputs
and output are finite in number, and a system without work is at rest.

`LoopsEnd` excuses a loop while requests are pending: a planner that keeps
returning no files for a pending request sends the machine from planning to
review and back without end, and nothing in the code bounds it.

`PhaseBudget` states `Recharge - 2`, not `Recharge`: the phase open when a
request arrives is charged after the recharge, and so may be a finalization
phase that a crash left open and that is resumed as an ordinary phase.

`LockGivenBack` says no more than the code does: a reader that `timeout 10s`
kills leaves its lock file, and from then on every reader fails.

## Fairness

- Deployment: weak fairness of each call's steps. A live Durable Object runs its
  microtasks, and each request to the sandbox service is answered or fails.
  Liveness is stated without eviction.
- Generation: weak fairness of each loop's steps and of the conversational
  model's answer: model calls and database writes return or throw. Nothing is
  assumed of the user. An evicted loop has ended; nothing obliges it to resume.
- ProcessMonitor: timers fire, log writes complete, exit events of dead children
  are delivered and a child sent SIGTERM exits in the end, perhaps later than
  `killTimeout`. A child that was sent no signal need never exit, and no output
  is ever promised.
- Commands and Sandbox: weak fairness of each run's and each creation's steps:
  the sandbox answers or fails every call and the model's correction returns or
  throws. An eviction may end a run; nothing is assumed of the servers, the
  container or the clients.
- The other components have no liveness property and no fairness. `NeverStranded`
  is the safety half of one: when all events have been handled, the page is
  connected or has given up for a reason.

## Proofs

The proofs are for every value of the constants that satisfies the `ASSUME`s of
the module: any number of calls, loops, files, instances, readers, sessions,
sockets, retries, files and lines, and any set of faults. They prove every
safety property that a passing run checks. Each component has one inductive
invariant; what follows says what it adds to the properties and which step needs
it. TLC can check most of the invariants on the instances of the runs, which is
how they were found; those that count over pairs with a number (`ClearingsSent` of
`IssuesProofs`) it cannot enumerate.

`DeploymentProofs`: `TypeCorrect`, `TrackedAlwaysRacing` and
`WaitersAlwaysBehindExecution`. Neither of the last two is inductive: a waiter
is created behind whatever is tracked, so it needs to know that a tracked call
races and that a racing call has started its execution, and a call about to be
used for a nested retry must not be one somebody waits on. `QueueInv` adds
`RacersStarted`; `QueueInvStep` shows each action keeps it, with `QueueInvFrame`
for the actions that only move an execution forward. `RedeploysBounded` counts,
per instance, the redeploys made and the checks still in flight (`ChecksInv`):
`clearInterval` on the first failure ends the supply. `OneSandbox` and
`FilesDelivered` are about `Faults = {}`, a premise that is part of the
properties themselves; `CalmInv` says for each await what an execution without
failures already knows there: which instance it has found, and which of its
files are in it.

`GenerationProofs` has two invariants. `TypeOK` with `OneFinal` holds for every
set of faults, also while STOP and RESUME make loops overlap; it gives
`TypeCorrect`, `FinalizationUnique` and `HistoryNeverRewritten`. Every write of
the history by any loop is a completion of a phase, an extension, or both
(`PhasesWritten`), and `GrowthKeeps` settles all of these at once.
`GenerationInv` assumes `"stop" \notin Faults`, because STOP does start a second
loop (the finding of `gen_overlap`) and the four theorems are false with it. It
adds `Solo` (one loop), what a loop at each await knows of the last phase
(`AtWork`) and `Budget`. `PhaseBudget` by itself is not inductive: a request is
accepted while a phase is open, and whether that phase has been charged depends
on its kind and on `mvpGenerated`. `Within` is the account that keeps track of
this, in plain integers, and `Accounts` shows that each kind of step balances
it. From it follow `LoopsNeverOverlap`, `ResumeLosesNothing`, `BudgetKept` and
`PhasesPaidFor`.

`ProcessMonitorProofs`: `TypeCorrect`, `RestartsAlwaysAccounted`,
`RestartsBudgeted` and `SpawnsAlwaysCounted`. `restartCount` is tested when a
restart is scheduled and incremented when it runs, so the limit alone is not
inductive. `RestartAccounting` counts where restarts come from: those done, under
way and pending (`Ordered`) are at most the fatal errors stored plus the exits
seen, and at most the fatal errors plus `maxRestarts`; every spawn is paid for
by a counted restart. The exit handler needs all of it: it schedules a restart
when `restartCount < maxRestarts`, and then the exits seen, this one included,
are at most the processes spawned, at most `restartCount + 1`, at most
`maxRestarts`. The lemmas `Counts`, `OpsAtMove`, `RestartMoves` and
`FatalErrorsCounted` reduce each action to a change of cardinalities.
`CrashesAloneNeverOverlap` rests on `OneAtATime`: as long as no fatal error was
stored, every child but the last has exited, one restart at most is pending or
under way, and while one is the last child has exited too. `OutputNeverStranded` adds that a queue being
processed has its `setImmediate` scheduled.

`MonitorImplementsSupervisor`, in the same module, is the refinement, for every
instance. `RestartAccounting` is what makes it go through: an abstract
`CountRestart` needs an unused cause and an abstract `StartAgain` an unused
restart, and the accounting says that each timer that fires and each restart
that gets to `start()` still has one. One lemma per kind of visible step
(`GoesDown`, `Ends` and their like) turns an action of the monitor into an
abstract step or a stutter.

`IssuesProofs`: `IssuesTypeCorrect` and `NoErrorLost`. A clearing removes
whatever is stored when it arrives, so the invariant has to say beforehand that
this is safe: from the reading of a database to the end of the clearing that
follows, each error in it is held by a reader, delivered, or known to have raced
or been dropped (`ClearingCovered`, and `ResetCovered` for
`clientReportedErrors`). An eviction turns the clearings under way into abandoned
ones, which are covered in the same way: what their readers held counts as dropped
from then on. A clearing
still to be sent will hit the instance that is current then, which is why a
redeployed instance must be known to be empty (`InstancesAhead`).

`SandboxProofs`: `SandboxTypeCorrect`, `InstancesComplete`, `PreviewsSeparate`
and `StatusReliable`. Nothing in the client locks the template's directory; what
makes it whole after concurrent unpackings is `TemplateWhole`: each unpacking
call has still to write what is missing, so it is complete when the last one is
done. Two instances with one port are known to clash (`SharersClash`), and a
server listens only on the port its instance was given (`PortsHeld`). For the
status, the metadata file of an instance that is up is there as long as no
container was lost; what remains is a read that fails.

`ServicesProofs` holds the theorems of five components.

- The log: `ProcessLogTypeCorrect`, `LockReturned`, `NoLineLost`. `LinesSafe`
  accounts for lines before they disappear: a trimming that will overwrite the
  log has read every line that is not elsewhere, a reset about to empty it needs
  none of them, an append with the wrong file open is `late`. The type bound on
  inodes needs `InodesCounted`: a file is made only after one was renamed or
  removed.
- The conversation: `ConversationTypeCorrect`, `ConversationKept`,
  `AnswersStayInContext`. A turn will put back the list it was given, so that
  list has to satisfy what the present one does: `ConversationInv` says it
  accounts for all messages but the exposed ones, `IdsUnique` that ids are not
  shared (so that the tidying, which removes duplicates by id, removes no other
  message), `ContextInv` that it is in order and each of its answers in context.
  `Ranked` and `TidiedKeeps` show that sorting by id yields a list of exactly the
  messages kept, in order. `exposed` excuses messages that a clean-up drops
  because they read like memos and messages that entered during another turn,
  nothing else.
- Sessions: `SessionsTypeCorrect`, `SessionsStayLimited`, `RecentSessionsKept`.
  The limit is not inductive, because a clean-up deletes by a list it read
  earlier. `Crowd` bounds what each clean-up will leave together with the logins
  inserting and the clean-ups that began before it. `ListedAreOld` says that an
  unused session on such a list has `maxSessions` later ones behind it.
- Setup commands: `CommandsTypeCorrect`, `HistoryReplayed`. A run's successes
  are installed where it runs, a chunk awaiting its correction has been tried
  there (`RunKept`), and the replay of the present sandbox runs in that sandbox.
  `ChunksWhole` shows that cutting a list into chunks of any size loses no
  command; without it a replay could miss a part of the history.
- The chat page: `ChatTypeCorrect`, `RetriesStayBounded`, `PageNeverStranded`,
  `SocketsCleanedUp`. `retryCount` counts retries made and pending timers
  (`Counting`), since both are reset together. A failure of any origin, a socket that could not be created included,
  keeps both (`FailureKeeps`, `HandlerKeeps`). `Awaited` says what a page that has
  not given up is waiting for; a socket replaced between two renders must still be
  one that will report its closing, hence `LiveSockets` and `SocketsInOrder`.

`FileStreamProofs`: `StreamInvariant`, `StreamTypeCorrect` and `AnswersSaved`, for
any files, any number of lines and retries and any cutting into chunks. The
parser lags behind the answer by the slice not handed on, so the invariant
`StreamInv` is about `Fed`, the parser that would have been handed everything
received. Between two lines (`AtLine`) `Fed` is either in step with the answer read so
far (`InStep`: same block, same contents, blank lines aside) or out of step
(`Astray`): after a retry that began in the middle of a block or a line, or in the
rest of a block that was closed early. Then every name the parser can still put on
a file is among the spoilt ones. The end of the first block of the retry, or of
the block closed early, ends that state. `Sound` says what is true of a parser
in any state, and `Accounted` that the files closed so far are those the reference
has. Within a line, `HalfWay`, `AtMarker` and `InLine` say what the
tokens received of it have done. One lemma per kind of line shows that the line
as a whole keeps the relation (`CommandLine`, `FirstHalfLine`,
`SecondHalfLine`, `InstallLine`, `TextLine`, `PadLine`, `MarkerLine`), `LineGoesOn`
combines them token by token, and `ClosesAtMarker` shows that the early test of
`CloseAtMarker` does what the newline would have done, unless the line goes on
(`AtLookalike`): then `ReadCut` counts the block as spoilt and the parser is astray
from there (`ClosedEarly`). The parser is a recursive
function over a chunk of any length; `OneTokenMore`, which takes a token off the
end of the chunk, is all the argument needs of it, because the model receives
one token at a time.

`MCServicesProofs` carries all this over to the composition that the `services`
run explores: a step of `ServicesSpec` is a step or a stutter of each component
(`ServicesImplementComponents`). `ServicesTypesCorrect` and `ServicesSafe` are
the run's safety properties, for every value of the constants.

Assumptions on constants are those of the modules, finiteness of the sets of
actors and positive bounds mainly. Two separate name spaces that the code keeps
apart by type: `RuntimeError` and `ClientError` in `Issues`, and `NoOne`, the
absence of a server, which is no creation, in `Sandbox`.

Only model-checked:

- all liveness properties (`EveryCallSettles`, `LoopsEnd`, `ShutdownEnds`,
  `RestartHappens`, `CommandRunsEnd`, `CreatesAnswered`): the prover handles
  neither fairness nor `ENABLED`;
- the six properties that runs violate: they are false.

## Plan

Done: `Deployment`, `Generation`, `ProcessMonitor` with the abstract `Supervisor`,
and the components of `MCServices`; the proofs above.

To come, in this order:

1. An abstract specification of the conversation (a list in context) and of the
   log (a set of lines handed over once), with refinements like `Supervisor`'s.
2. Generation and Deployment composed, the phases of the one being callers of
   the other.

## Not modelled

Of the repository's 90,000 lines the greater part has nothing a model checker
could ask about: the user interface (rendering, forms, settings), test data and
the sample programs under `test-diff-formatters`, database services made of
single statements, HTTP routing, prompts and provider tables, deployment and
debugging scripts. They are external, stateless or sequential, as `PROJECT.json`
says for each. The models cover the parts where several activities meet:
the agent, the sandbox client, the container's monitor, the sessions and the
chat's connection.

Of those parts the following is left out. In the sandbox client: reading and
writing of files, static analysis, export to GitHub and deployment to Cloudflare,
which are sequences of external calls with at most one state update at the end.
In the container: the SQLite store, whose statements are single upserts by one
writer per instance. In the agent: single-shot messages (code review, file
regeneration), screenshots. In the formats: how malformed commands are
recognised and how hunks are matched against file text; both are long lists of
patterns over characters, better served by the repository's own tests.
