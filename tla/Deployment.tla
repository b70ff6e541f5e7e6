----------------------------- MODULE Deployment -----------------------------
(***************************************************************************)
(* Deployment of the generated files to the sandbox by                     *)
(* SimpleCodeGeneratorAgent (worker/agents/core/simpleGeneratorAgent.ts):  *)
(* deployToSandbox with its one-slot queue currentDeploymentPromise, the   *)
(* executeDeployment it tracks, the retry after a failed creation and the  *)
(* health-check interval that redeploys behind the queue's back.           *)
(*                                                                         *)
(* Code between two awaits is one action.  Every deployToSandbox           *)
(* invocation, and every executeDeployment started by a health check, is   *)
(* identified by a member of Call.                                         *)
(***************************************************************************)
EXTENDS Naturals, FiniteSets

CONSTANTS
    Call,         \* identities of invocations; bounds how many there are
    File,         \* paths of generated files
    None,         \* undefined / null
    MaxInstances, \* bound on the sandbox instances ever created
    MaxTicks,     \* bound on overlapping health checks of one instance
    Faults        \* what the environment may do wrong, a subset of AllFaults

AllFaults == {"status", "create", "write", "timeout", "redeploy", "evict"}

ASSUME CallAssumption == None \notin Call
ASSUME BoundsAssumption == MaxInstances \in Nat /\ MaxTicks \in Nat
ASSUME FaultsAssumption == Faults \subseteq AllFaults

VARIABLES
    call,                     \* the invocations, see CallRecord
    currentDeploymentPromise, \* the call whose executeDeployment is tracked
    sandboxInstanceId,        \* state.sandboxInstanceId, 0 when undefined
    generatedFilesMap,        \* paths in state.generatedFilesMap
    instances,                \* how many instances createInstance has made
    content,                  \* generated files present in each instance
    monitored,                \* instances whose health interval is armed
    ticks                     \* health checks awaiting an answer

vars == <<call, currentDeploymentPromise, sandboxInstanceId, generatedFilesMap,
          instances, content, monitored, ticks>>

Instance == 1 .. MaxInstances
NoInstance == 0

(***************************************************************************)
(* frame is the deployToSandbox invocation, exec its executeDeployment:    *)
(* the two are separate because the 60 s race abandons exec without        *)
(* stopping it.  A "direct" frame is a health check's executeDeployment,   *)
(* which has no deployToSandbox around it.                                 *)
(***************************************************************************)
Frames == {"unused", "waiting", "racing", "returned", "threw", "direct", "lost"}
Execs == {"none", "status", "create", "write", "retrying",
          "fulfilled", "rejected", "lost"}

CallFields ==
    [frame    : Frames,
     exec     : Execs,
     waitsOn  : Call \cup {None},          \* promise awaited at line 1471
     retry    : Call \cup {None},          \* the nested call of line 1642
     redeploy : BOOLEAN,
     files    : SUBSET File,               \* argument, then filesToWrite
     target   : Instance \cup {NoInstance},\* local sandboxInstanceId
     origin   : Instance \cup {NoInstance}]\* instance whose check failed

\* An execution that asks for a status, or that writes, does so in an instance.
CallRecord ==
    {r \in CallFields : r.exec \in {"status", "write"} => r.target \in Instance}

Unused == [frame |-> "unused", exec |-> "none", waitsOn |-> None, retry |-> None,
           redeploy |-> FALSE, files |-> {}, target |-> NoInstance,
           origin |-> NoInstance]
Lost == [Unused EXCEPT !.frame = "lost", !.exec = "lost"]

Fresh(c) == call[c].frame = "unused"
Racing(c) == call[c].frame = "racing"
Waiting(c) == call[c].frame = "waiting"
Settled(c) == call[c].exec \in {"fulfilled", "rejected"}
Active(c) == call[c].exec \in {"status", "create", "write"}
Started(c) == Active(c) \/ Settled(c) \/ call[c].exec = "retrying"

-----------------------------------------------------------------------------
Init ==
    /\ call = [c \in Call |-> Unused]
    /\ currentDeploymentPromise = None
    /\ sandboxInstanceId = NoInstance
    /\ generatedFilesMap = {}
    /\ instances = 0
    /\ content = [i \in Instance |-> {}]
    /\ monitored = {}
    /\ ticks = [i \in Instance |-> 0]

\* FileManager.saveGeneratedFile: the map of generated files only grows.
SaveGeneratedFile(f) ==
    /\ f \notin generatedFilesMap
    /\ generatedFilesMap' = generatedFilesMap \cup {f}
    /\ UNCHANGED <<call, currentDeploymentPromise, sandboxInstanceId, instances,
                   content, monitored, ticks>>

(***************************************************************************)
(* The synchronous start of executeDeployment: snapshot of                 *)
(* sandboxInstanceId and of the files to write.  An empty argument means   *)
(* all generated files.                                                    *)
(***************************************************************************)
FilesToWrite(arg) == IF arg = {} THEN generatedFilesMap ELSE arg

ExecuteDeployment(r, instance) ==
    [r EXCEPT !.exec = IF instance = NoInstance THEN "create" ELSE "status",
              !.target = instance,
              !.files = FilesToWrite(r.files),
              !.waitsOn = None]

\* Mutant: the queue is not consulted.
InvokedWithoutQueue(arg, redeploy, instance) ==
    ExecuteDeployment([Unused EXCEPT !.files = arg, !.redeploy = redeploy,
                                     !.frame = "racing"], instance)

\* deployToSandbox up to its first await: wait when a promise is tracked,
\* otherwise start the deployment.
Invoked(arg, redeploy, instance) ==
    LET r == [Unused EXCEPT !.files = arg, !.redeploy = redeploy] IN
    IF currentDeploymentPromise # None
    THEN [r EXCEPT !.frame = "waiting", !.waitsOn = currentDeploymentPromise]
    ELSE ExecuteDeployment([r EXCEPT !.frame = "racing"], instance)

\* Mutant: a caller is tracked as soon as it queues up.
TrackAlways(c) == currentDeploymentPromise' = c

TrackIfStarted(c) ==
    currentDeploymentPromise' =
        IF currentDeploymentPromise = None THEN c ELSE currentDeploymentPromise

(***************************************************************************)
(* A caller: phase implementation, review, deterministic fixes, preview,   *)
(* deployToCloudflare.  Explicit files were saved before the call.  A      *)
(* redeploy is asked for by fetchRuntimeErrors when the instance does not  *)
(* answer, always with no files.                                           *)
(***************************************************************************)
DeployToSandbox(c, arg, redeploy) ==
    /\ Fresh(c)
    /\ arg \subseteq generatedFilesMap
    /\ redeploy => "redeploy" \in Faults /\ arg = {}
    /\ call' = [call EXCEPT ![c] = Invoked(arg, redeploy, sandboxInstanceId)]
    /\ TrackIfStarted(c)
    /\ UNCHANGED <<sandboxInstanceId, generatedFilesMap, instances, content,
                   monitored, ticks>>

\* The awaited promise has settled, either way: start unconditionally, and
\* overwrite whatever is tracked now.
ProceedAfterWait(c) ==
    /\ Waiting(c)
    /\ Settled(call[c].waitsOn)
    /\ call' = [call EXCEPT ![c] =
                   ExecuteDeployment([call[c] EXCEPT !.frame = "racing"],
                                     sandboxInstanceId)]
    /\ currentDeploymentPromise' = c
    /\ UNCHANGED <<sandboxInstanceId, generatedFilesMap, instances, content,
                   monitored, ticks>>

-----------------------------------------------------------------------------
\* Mutant: the write is not awaited, nor made.
AfterInstanceNoWrite(c) == "fulfilled"

\* With nothing to write executeDeployment resolves without another await.
AfterInstance(c) == IF call[c].files = {} THEN "fulfilled" ELSE "write"

StatusPassed(c) ==
    /\ call[c].exec = "status"
    /\ call' = [call EXCEPT ![c].exec =
                   IF call[c].redeploy THEN "create" ELSE AfterInstance(c)]
    /\ UNCHANGED <<currentDeploymentPromise, sandboxInstanceId, generatedFilesMap,
                   instances, content, monitored, ticks>>

StatusFailed(c) ==
    /\ "status" \in Faults
    /\ call[c].exec = "status"
    /\ call' = [call EXCEPT ![c].exec = "create", ![c].target = NoInstance]
    /\ UNCHANGED <<currentDeploymentPromise, sandboxInstanceId, generatedFilesMap,
                   instances, content, monitored, ticks>>

\* createInstance answered: record the new instance, arm its health interval.
InstanceCreated(c) ==
    /\ call[c].exec = "create"
    /\ instances < MaxInstances
    /\ instances' = instances + 1
    /\ sandboxInstanceId' = instances'
    /\ monitored' = monitored \cup {instances'}
    /\ call' = [call EXCEPT ![c].exec = AfterInstance(c), ![c].target = instances']
    /\ UNCHANGED <<currentDeploymentPromise, generatedFilesMap, content, ticks>>

\* Mutant: the check of createResponse.success is dropped, so that the
\* execution goes on without an instance.
CreateFailedUnchecked(c, n) ==
    /\ "create" \in Faults
    /\ call[c].exec = "create"
    /\ Fresh(n)
    /\ sandboxInstanceId' = NoInstance
    /\ call' = [call EXCEPT ![c].exec = AfterInstance(c), ![c].target = NoInstance]
    /\ UNCHANGED <<currentDeploymentPromise, generatedFilesMap, instances, content,
                   monitored, ticks>>

(***************************************************************************)
(* createInstance failed: the catch block forgets the instance and returns *)
(* a nested deployToSandbox(), which waits for the tracked promise even    *)
(* when that promise is the one being computed.                            *)
(***************************************************************************)
CreateFailed(c, n) ==
    /\ "create" \in Faults
    /\ call[c].exec = "create"
    /\ Fresh(n)
    /\ sandboxInstanceId' = NoInstance
    /\ call' = [call EXCEPT ![c].exec = "retrying", ![c].retry = n,
                            ![n] = Invoked({}, FALSE, NoInstance)]
    /\ TrackIfStarted(n)
    /\ UNCHANGED <<generatedFilesMap, instances, content, monitored, ticks>>

\* writeFiles answered; a failure is only logged.
FilesWritten(c) ==
    /\ call[c].exec = "write"
    /\ \/ content' = [content EXCEPT ![call[c].target] = @ \cup call[c].files]
       \/ "write" \in Faults /\ UNCHANGED content
    /\ call' = [call EXCEPT ![c].exec = "fulfilled"]
    /\ UNCHANGED <<currentDeploymentPromise, sandboxInstanceId, generatedFilesMap,
                   instances, monitored, ticks>>

RetrySettled(c) ==
    /\ call[c].exec = "retrying"
    /\ call[call[c].retry].frame \in {"returned", "threw"}
    /\ call' = [call EXCEPT ![c].exec =
                   IF call[call[c].retry].frame = "returned" THEN "fulfilled"
                                                             ELSE "rejected"]
    /\ UNCHANGED <<currentDeploymentPromise, sandboxInstanceId, generatedFilesMap,
                   instances, content, monitored, ticks>>

-----------------------------------------------------------------------------
\* Mutant: finally runs only for the owner of the slot.
DeploymentSettledOwner(c) ==
    /\ Racing(c)
    /\ Settled(c)
    /\ currentDeploymentPromise = c
    /\ \A w \in Call : call[w].waitsOn # c
    /\ call' = [call EXCEPT ![c].frame =
                   IF call[c].exec = "fulfilled" THEN "returned" ELSE "threw"]
    /\ currentDeploymentPromise' = None
    /\ UNCHANGED <<sandboxInstanceId, generatedFilesMap, instances, content,
                   monitored, ticks>>

(***************************************************************************)
(* The race ends and finally clears currentDeploymentPromise, whoever it   *)
(* tracks.  The waiters' reactions on the promise run before the           *)
(* continuation of Promise.race, which is one microtask further away.      *)
(***************************************************************************)
DeploymentSettled(c) ==
    /\ Racing(c)
    /\ Settled(c)
    /\ \A w \in Call : call[w].waitsOn # c
    /\ call' = [call EXCEPT ![c].frame =
                   IF call[c].exec = "fulfilled" THEN "returned" ELSE "threw"]
    /\ currentDeploymentPromise' = None
    /\ UNCHANGED <<sandboxInstanceId, generatedFilesMap, instances, content,
                   monitored, ticks>>

\* Mutant: a timed-out deployment stays in the slot.
DeploymentTimedOutKept(c) ==
    /\ "timeout" \in Faults
    /\ Racing(c)
    /\ ~Settled(c)
    /\ call' = [call EXCEPT ![c].frame = "threw"]
    /\ UNCHANGED <<currentDeploymentPromise, sandboxInstanceId, generatedFilesMap,
                   instances, content, monitored, ticks>>

\* The 60 s timer wins the race; executeDeployment runs on.
DeploymentTimedOut(c) ==
    /\ "timeout" \in Faults
    /\ Racing(c)
    /\ ~Settled(c)
    /\ call' = [call EXCEPT ![c].frame = "threw"]
    /\ currentDeploymentPromise' = None
    /\ UNCHANGED <<sandboxInstanceId, generatedFilesMap, instances, content,
                   monitored, ticks>>

-----------------------------------------------------------------------------
\* The 2 s interval fires whether or not earlier checks were answered.
HealthTick(i) ==
    /\ i \in monitored
    /\ ticks[i] < MaxTicks
    /\ ticks' = [ticks EXCEPT ![i] = @ + 1]
    /\ UNCHANGED <<call, currentDeploymentPromise, sandboxInstanceId,
                   generatedFilesMap, instances, content, monitored>>

HealthPassed(i) ==
    /\ ticks[i] > 0
    /\ ticks' = [ticks EXCEPT ![i] = @ - 1]
    /\ UNCHANGED <<call, currentDeploymentPromise, sandboxInstanceId,
                   generatedFilesMap, instances, content, monitored>>

\* Mutant: the interval is not cleared.
HealthFailedStillArmed(i, c) ==
    /\ "status" \in Faults
    /\ ticks[i] > 0
    /\ Fresh(c)
    /\ ticks' = [ticks EXCEPT ![i] = @ - 1]
    /\ call' = [call EXCEPT ![c] =
                   ExecuteDeployment([Unused EXCEPT !.frame = "direct",
                                                    !.redeploy = TRUE,
                                                    !.origin = i],
                                     sandboxInstanceId)]
    /\ UNCHANGED <<currentDeploymentPromise, sandboxInstanceId, generatedFilesMap,
                   instances, content, monitored>>

\* clearInterval, then executeDeployment([], true) outside the queue.
HealthFailed(i, c) ==
    /\ "status" \in Faults
    /\ ticks[i] > 0
    /\ Fresh(c)
    /\ ticks' = [ticks EXCEPT ![i] = @ - 1]
    /\ monitored' = monitored \ {i}
    /\ call' = [call EXCEPT ![c] =
                   ExecuteDeployment([Unused EXCEPT !.frame = "direct",
                                                    !.redeploy = TRUE,
                                                    !.origin = i],
                                     sandboxInstanceId)]
    /\ UNCHANGED <<currentDeploymentPromise, sandboxInstanceId, generatedFilesMap,
                   instances, content>>

\* The Durable Object is evicted: persisted state survives, promises and
\* timers do not.
Evict ==
    /\ "evict" \in Faults
    /\ call' = [c \in Call |->
                   IF call[c].frame \in {"waiting", "racing"} \/ Active(c)
                                        \/ call[c].exec = "retrying"
                   THEN Lost
                   ELSE call[c]]
    /\ currentDeploymentPromise' = None
    /\ monitored' = {}
    /\ ticks' = [i \in Instance |-> 0]
    /\ UNCHANGED <<sandboxInstanceId, generatedFilesMap, instances, content>>

-----------------------------------------------------------------------------
CallStep(c) ==
    \/ ProceedAfterWait(c)
    \/ StatusPassed(c)
    \/ StatusFailed(c)
    \/ InstanceCreated(c)
    \/ \E n \in Call : CreateFailed(c, n)
    \/ FilesWritten(c)
    \/ RetrySettled(c)
    \/ DeploymentSettled(c)
    \/ DeploymentTimedOut(c)

HealthStep(i) ==
    \/ HealthTick(i)
    \/ HealthPassed(i)
    \/ \E c \in Call : HealthFailed(i, c)

Next ==
    \/ \E f \in File : SaveGeneratedFile(f)
    \/ \E c \in Call, arg \in SUBSET File, redeploy \in BOOLEAN :
           DeployToSandbox(c, arg, redeploy)
    \/ \E c \in Call : CallStep(c)
    \/ \E i \in Instance : HealthStep(i)
    \/ Evict

Spec == Init /\ [][Next]_vars

(***************************************************************************)
(* Microtasks and timers of a live Durable Object run, and every call to   *)
(* the sandbox service is answered, one way or another.                    *)
(***************************************************************************)
Fairness == \A c \in Call : WF_vars(CallStep(c))

FairSpec == Spec /\ Fairness

-----------------------------------------------------------------------------
\* Types; in particular no execution writes without an instance.
TypeOK ==
    /\ call \in [Call -> CallRecord]
    /\ currentDeploymentPromise \in Call \cup {None}
    /\ sandboxInstanceId \in Instance \cup {NoInstance}
    /\ generatedFilesMap \subseteq File
    /\ instances \in 0 .. MaxInstances
    /\ content \in [Instance -> SUBSET File]
    /\ monitored \subseteq Instance
    /\ ticks \in [Instance -> 0 .. MaxTicks]

(***************************************************************************)
(* currentDeploymentPromise never outlives its race: whatever is tracked   *)
(* is an invocation whose Promise.race is still pending.  (The converse    *)
(* fails: finally in one invocation clears the slot another one owns.)     *)
(***************************************************************************)
TrackedIsRacing ==
    currentDeploymentPromise # None => Racing(currentDeploymentPromise)

(***************************************************************************)
(* A caller waiting in deployToSandbox waits for an executeDeployment that *)
(* was really started and was not lost, never for another waiter: the      *)
(* queue is one deep and no chain of waiters can form.                     *)
(***************************************************************************)
WaitersBehindExecution ==
    \A c \in Call : Waiting(c) =>
        call[c].waitsOn \in Call /\ Started(call[c].waitsOn)

\* The inductive strengthening of the two: a racing call has an execution,
\* a call not yet made has none.
RacersStarted == \A c \in Call : (Racing(c) => Started(c)) /\ (Fresh(c) => ~Started(c))

QueueInv == TrackedIsRacing /\ WaitersBehindExecution /\ RacersStarted

(***************************************************************************)
(* clearInterval in the health check stops the redeploy storm although the *)
(* interval does not wait for its checks: an instance has never caused     *)
(* more redeployments than there were checks of it in flight when the      *)
(* first of them failed, and every check still in flight may cause one     *)
(* more.                                                                   *)
(***************************************************************************)
RedeploysOf(i) == Cardinality({c \in Call : call[c].origin = i})

HealthRedeploysBounded ==
    \A i \in Instance : RedeploysOf(i) > 0 => RedeploysOf(i) + ticks[i] <= MaxTicks

(***************************************************************************)
(* When nothing fails, the queue makes the callers share one instance:     *)
(* concurrent first deployments never create two sandboxes.                *)
(***************************************************************************)
SingleInstance == Faults = {} => instances <= 1

(***************************************************************************)
(* When nothing fails, a caller whose deployToSandbox returned finds its   *)
(* files in the instance the agent's state refers to.                      *)
(***************************************************************************)
ReturnedFilesPresent ==
    Faults = {} => \A c \in Call : call[c].frame = "returned" =>
        /\ sandboxInstanceId # NoInstance
        /\ call[c].files \subseteq content[sandboxInstanceId]

\* When nothing fails, every deployToSandbox call settles.
EveryCallSettles ==
    \A c \in Call : (Waiting(c) \/ Racing(c)) ~> call[c].frame = "returned"

(***************************************************************************)
(* "Deployment queue management to prevent concurrent deployments"         *)
(* (simpleGeneratorAgent.ts:114): no two executions talk to the sandbox    *)
(* service at the same time.                                               *)
(***************************************************************************)
NoConcurrentDeployments ==
    \A c, d \in Call : Active(c) /\ Active(d) => c = d

(***************************************************************************)
(* "Previous deployment failed, proceeding with new deployment"            *)
(* (simpleGeneratorAgent.ts:1473): a caller that waits for a deployment    *)
(* gets past the wait, also when that deployment fails.                    *)
(***************************************************************************)
WaitersProceed ==
    \A c \in Call : Waiting(c) ~> ~Waiting(c)

=============================================================================
